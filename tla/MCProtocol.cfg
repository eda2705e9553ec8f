CONSTANTS
  ByteBits = 2
  W16 = 1
  W32 = 2
  W64 = 1
  MaxChannels = 2
  MaxBytes = 2
  MaxErrorSize = 4
  MaxName = 1
  Requests <- MCRequests
  Payloads <- MCPayloads
  Limit = 3
SPECIFICATION Spec
INVARIANTS
  RequestsFramed
  AnswersMatch
  NoStandoff
  NothingAfterError
CHECK_DEADLOCK FALSE
