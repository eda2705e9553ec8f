CONSTANTS
  f1 = f1
  f2 = f2
  Nil = Nil
  Conns = {1, 2}
  Fds = {f1, f2}
  MaxEvents = 1
SPECIFICATION FairSpec
PROPERTY CloseEndsHandler
CHECK_DEADLOCK FALSE
