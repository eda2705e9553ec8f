CONSTANTS
  d1 = d1
  d2 = d2
  d3 = d3
  k1 = k1
  k2 = k2
  Nil = Nil
  File = File
  Daemons = {d1, d2, d3}
  Clients = {k1}
SPECIFICATION FairSpec
INVARIANTS
  TypeOK
  
PROPERTIES
  PathKept
  RestartServes
