CONSTANTS
  r1 = r1
  r2 = r2
  r3 = r3
  p1 = p1
  p2 = p2
  j1 = j1
  j2 = j2
  o1 = o1
  o2 = o2
  Nobody = Nobody
  Requests = {r1, r2, r3}
  Procs = {p1}
  ProcOf <- OneProcess
  Jobs = {j1}
  Owners = {o1}
  OwnerOf <- OneJob
  PoolSize = 2
  Chunks = 1
  Windows = FALSE
SPECIFICATION FairSpec
PROPERTIES LeaseReleased
