SPECIFICATION FairSpec
CONSTANTS
  KeySets <- MCKeySets
  SlotProtocols = {"native", "sega", "other"}
  Found = {"OK", "NO_CART", "NOT_MINE"}
  Disturbances = {"power", "reset"}
  CartWakeCycles = 2
INVARIANTS ResultOwned
PROPERTIES DumpIsFresh RequestsEnd
