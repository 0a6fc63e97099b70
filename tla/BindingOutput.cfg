SPECIFICATION Spec
CONSTANTS
  MaxPending = 2
  ReadSlots = 1
  ChunkSize = 4
  CallbackCap = 6
  OutCap = 1
  BurstLimit = 3
  InitSize = 2
  MinSize = 1
  SmallRead = 2
  JsPending = 2
  Methods <- OutputMethods
  Writes <- TwoWrites
  ReadLengths <- None
  Windows <- None
  MaxRequests = 3
  MaxDrains = 1
  MaxInput = 0
INVARIANTS LayersAgree DrainCovers
PROPERTIES CompletionOrder
