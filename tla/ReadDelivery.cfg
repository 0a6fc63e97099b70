SPECIFICATION DeliverySpec
CONSTANTS
  BatchSizes = {1, 2, 3}
  MaxChunks = 9
INVARIANTS Covered SlotsReturned
PROPERTIES ImplementsFifo
