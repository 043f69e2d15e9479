CONSTANTS
  Byte = {0, 1, 2}
  BankBytes = 2
  MaxBanks = 2
  Image <- MCImage
SPECIFICATION MCFairSpec
CONSTRAINT RestartBound
INVARIANTS BytesInOrder SuccessIsComplete WaitHasTransaction
PROPERTIES NoByteAfterRevocation CleanExit RunEnds
