CONSTANTS
  t1 = t1
  t2 = t2
  t3 = t3
  Threads = {t1, t2, t3}
  MinInterval = 2
  MaxTime = 6
  MaxStepBack = 1
SPECIFICATION Spec
SYMMETRY Symmetry
PROPERTIES
  NoticesApart
  SilentAfterNotice
