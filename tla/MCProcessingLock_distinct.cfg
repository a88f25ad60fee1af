SPECIFICATION FairSpec
CONSTANTS
  w1 = w1
  w2 = w2
  w3 = w3
  Workers <- MCWorkers
  Owners <- MCWorkers
  OwnerOf <- OwnProcess
  Nobody = nobody
  TTL = 4
  Backend = "dynamodb"
  Faults = {"crash", "lost"}
INVARIANTS
  TypeOK
  LeaseExclusive
  HolderKeepsLock
PROPERTY
  NeverLockedForever
