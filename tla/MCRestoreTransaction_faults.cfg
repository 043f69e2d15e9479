CONSTANTS
  Image = {s1, s2}
  Rom = {r1}
  Header = {"h1"}
  HeaderOf <- MCHeaderOf
  WriteEnabled = TRUE
  Cart = {c1}
  NoRom = NoRom
  Prepared <- Meta
  MaxFaults = 2
  Held = {}
SPECIFICATION MCFairSpec
INVARIANTS Recoverable
PROPERTIES CompleteIsRestored LetsGoClean EngineAnswers
