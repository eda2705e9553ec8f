CONSTANTS
  p1 = p1
  p2 = p2
  c1 = c1
  c2 = c2
  a = a
  b = b
  bad = bad
  m0 = m0
  m1 = m1
  m2 = m2
  m3 = m3
  Nil = Nil
  Pushers = {p1, p2}
  Poppers = {c1}
  Channels = {a, b}
  ValidChannels = {a, b}
  Messages = {m1, m2}
  MaxBytes = 2
  MaxQueuedBytes = 2
  Size <- MCSize
  PopLists <- MCTwoChannels
SPECIFICATION FairSpec
PROPERTY HandoffIgnoresCap
