SPECIFICATION FairSpec
CONSTANTS
  Cartridges <- MCCartridges
  Successors <- MCSuccessors
  MODE_WAIT_CYCLES = 2
  MaxRuns = 2
INVARIANT SizeIsSound
PROPERTY ProbeEnds
CHECK_DEADLOCK FALSE
