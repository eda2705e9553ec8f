CONSTANTS
  p1 = p1
  p2 = p2
  c1 = c1
  c2 = c2
  a = a
  bad = bad
  m0 = m0
  m1 = m1
  m2 = m2
  Nil = Nil
  Pushers = {p1}
  Poppers = {c1, c2}
  Channels = {a, bad}
  ValidChannels = {a}
  Messages = {m0, m1, m2}
  MaxBytes = 2
  MaxQueuedBytes = 2
  Size <- MCSize
  PopLists <- MCPopLists
SPECIFICATION DaemonSpec
SYMMETRY Symmetry
INVARIANTS
  ReceivedOnce
  FailedLeavesNothing
  LostWithItsConsumer
  ProducerOrder
CHECK_DEADLOCK FALSE
