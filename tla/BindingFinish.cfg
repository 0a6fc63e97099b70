SPECIFICATION FairSpec
CONSTANTS
  MaxPending = 2
  ReadSlots = 1
  ChunkSize = 4
  CallbackCap = 6
  OutCap = 1
  BurstLimit = 3
  InitSize = 2
  MinSize = 1
  SmallRead = 2
  JsPending = 2
  Methods <- FinishMethods
  Writes <- VectorWrite
  ReadLengths = {2}
  Windows <- None
  MaxRequests = 2
  MaxDrains = 1
  MaxInput = 0
INVARIANTS SettledOnce
PROPERTIES Settles
