SPECIFICATION Spec
CONSTANTS
  w1 = w1
  w2 = w2
  w3 = w3
  Workers <- MCWorkers
  Owners <- MCWorkers
  OwnerOf <- SameProcess
  Nobody = nobody
  TTL = 2
  Backend = "memory"
  Faults = {}
INVARIANT
  LeaseExclusive
