SPECIFICATION FairPoolSpec
CONSTANTS
  p1 = p1
  p2 = p2
  p3 = p3
  w1 = w1
  w2 = w2
  w3 = w3
  NoWorker = NoWorker
  NoPort = NoPort
  Ports <- ThreePorts
  Workers <- ThreeWorkers
  Limit = 2
INVARIANTS ServedByRunning Bounded CountsLeases
PROPERTIES SharesAtLimit Retires
