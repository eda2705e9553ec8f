CONSTANTS
  f1 = f1
  f2 = f2
  Nil = Nil
  Conns = {1, 2, 3}
  Fds = {f1, f2}
  MaxEvents = 2
SPECIFICATION FairSpec
INVARIANTS
  TypeOK
  CancelsOwned
  CloseNoticed
PROPERTY CloseUnblocksPush
CHECK_DEADLOCK FALSE
