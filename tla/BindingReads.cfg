SPECIFICATION PullingSpec
CONSTANTS
  MaxPending = 2
  ReadSlots = 3
  ChunkSize = 8
  CallbackCap = 5
  OutCap = 1
  BurstLimit = 3
  InitSize = 2
  MinSize = 1
  SmallRead = 2
  JsPending = 1
  Methods <- ReadMethods
  Writes <- OneWrite
  ReadLengths = {2}
  Windows = {2, 8}
  MaxRequests = 1
  MaxDrains = 0
  MaxInput = 5
INVARIANTS ReadsConserved CreditAgreed FailsOnlyWithDevice
PROPERTIES InputFlows
