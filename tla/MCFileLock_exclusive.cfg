SPECIFICATION Spec
CONSTANTS
  w1 = w1
  w2 = w2
  w3 = w3
  Workers <- MCWorkers
  Owners <- MCWorkers
  ProcessOf <- OwnProcess
  OwnerOf <- OwnProcess
  Nobody = nobody
  TTL = 2
  Faults = {}
INVARIANT
  LeaseExclusive
