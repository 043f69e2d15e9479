CONSTANTS
  Byte = {0, 1, 2}
  BankBytes = 2
  MaxBanks = 2
  ProbeBytes = 1
  RomBanks = 2
  RomBytes = 2
  ChunkBytes = 3
  Chip <- MCChip
  Save <- MCSave
  Rom <- MCRom
  OpenBus = 0
  Combos = 1
  Kinds = {"rom", "save"}
  Faults = {"refused", "cancel", "card", "power"}
  MaxDumps = 2
SPECIFICATION FairSpec
INVARIANTS EdgesHeard
PROPERTIES FileIsRight LeftAsFound EveryDumpEnds
CHECK_DEADLOCK FALSE
