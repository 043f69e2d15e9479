SPECIFICATION HostMCSpec
CONSTANTS
  Preparer = {"p1", "p2"}
  Source <- MCSource
  Files <- MCFiles
  NoFile = NoFile
  Other = "other"
  MaxFaults = 2
  MaxPowerLosses = 1
  Names <- HostNames
  Sessions <- HostSessions
  Image <- HostImage
  crcOf <- HostCrc
  sizeOf <- HostSize
  Libraries <- HostLibraries
  Checks <- HostChecks
  Benches <- HostBenches
  Selections <- HostSelections
  JobCounts = {0, 1, 2, 8, 9}
  Headers <- HostHeaders
  RunTimes = {300, 301, 1801}
INVARIANTS PairIsSound ExitIsTruthful DamageIsCaught SoundDumpPasses
  NoVacuousControl ReportIsSerial
PROPERTIES ExistingKept RefusedForCause MatchIsRecorded
