SPECIFICATION Spec
CONSTANTS
  KeySets <- MCKeySets
  SlotProtocols = {"native"}
  Found = {"OK", "NO_CART"}
  Disturbances = {"power", "reset"}
  CartWakeCycles = 1
INVARIANTS OneMaster
