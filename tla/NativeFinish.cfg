SPECIFICATION FairSpec
CONSTANTS
  MaxPending = 1
  ReadSlots = 2
  ChunkSize = 4
  CallbackCap = 20
  OutCap = 1
  BurstLimit = 3
  InitSize = 2
  MinSize = 1
  SmallRead = 1
  Calls <- FinishCalls
  WriteSizes = {2}
  ReadSizes = {1}
  Credits <- OneCredit
  MaxRequests = 2
  MaxGranted = 2
  MaxInput = 2
PROPERTIES ReadsFlow RequestsFinish StopEnds
