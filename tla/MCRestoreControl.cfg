SPECIFICATION MCFairSpec
CONSTANTS
  Image = {s1}
  Rom = {r1}
  Header = {h1}
  HeaderOf <- MCHeaderOf
  WriteEnabled = TRUE
  DebounceCycles = 2
  EntryHoldCycles = 3
  HoldCycles = 2
  KeySets <- MCKeySets
  GbAnswers = {"OK", "NOT_MINE"}
  GbaAnswers = {"NO_CART"}
  Disturbances = {"power", "reset", "menu"}
  Failures = {"io_failed", "poisoned", "writer_failed", "timeout"}
  ReleaseCycles = 1
  CartWakeCycles = 2
INVARIANTS TruthfulPage OneMaster
PROPERTIES DeliberateCommit FreshIdentity WorkEnds
VIEW LiveState
