SPECIFICATION FairSpec
CONSTANTS
  w1 = w1
  w2 = w2
  w3 = w3
  Workers <- MCWorkers
  Owners <- MCWorkers
  ProcessOf <- OneProcess
  OwnerOf <- TwoOwners
  Nobody = nobody
  TTL = 2
  Faults = {"crash", "io"}
INVARIANT
  TypeOK
PROPERTIES
  ImplementsLock
  NeverLockedForever
