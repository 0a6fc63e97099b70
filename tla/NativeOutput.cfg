SPECIFICATION Spec
CONSTANTS
  MaxPending = 2
  ReadSlots = 1
  ChunkSize = 4
  CallbackCap = 2
  OutCap = 2
  BurstLimit = 3
  InitSize = 2
  MinSize = 1
  SmallRead = 2
  Calls <- OutputCalls
  WriteSizes = {0, 3}
  ReadSizes = {}
  Credits <- NoCredits
  MaxRequests = 3
  MaxGranted = 0
  MaxInput = 0
INVARIANTS TypeOK Admission WireOrder AnswersExact
  ReleasedAtClose
PROPERTIES DrainBarrier StopForbidsWrites
