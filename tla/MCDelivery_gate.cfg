SPECIFICATION Spec
CONSTANTS
  w1 = w1
  w2 = w2
  Workers <- MCWorkers
  Nobody = nobody
  Connectors = {"rest", "async", "kafka", "queue"}
  Locking = {TRUE, FALSE}
  N = 2
  TTL = 1
  Visibility = 1
  MaxFaults = 2
  MaxSends = 2
PROPERTY
  GateHolds
