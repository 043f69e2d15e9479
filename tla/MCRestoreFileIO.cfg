SPECIFICATION FairSpec
CONSTANTS
  Word = {"a", "b", "blank"}
  Blank = "blank"
  Words = 2
  LastIndex = 1
  Others <- MCOthers
  Images <- MCImages
  InputFiles <- MCInputFiles
  HostFaults = {"error", "garbled", "race"}
  Abandoned = {"openfile","write"}
  MaxOps = 6
INVARIANTS HandsOverTheFile
PROPERTIES ExistingKept OpsEnd OwnAnswersOnly
