----------------------------- MODULE MCProtocol ------------------------------
(* A small instance of the wire protocol for TLC.                          *)
EXTENDS Protocol

Push(channels, payload) ==
  [op |-> "push", timeout |-> 0, channels |-> channels, payload |-> payload]

Pop(channels, timeout) ==
  [op |-> "pop", timeout |-> timeout, channels |-> channels, payload |-> <<>>]

\* Empty and full payloads, one that is too large, names that are invalid, that
\* make the error text too long or that do not fit a uint16, one channel more
\* than allowed, and a negative timeout.
MCRequests == [l \in Libs |->
  IF l = "main"
  THEN {Push(<<<<2>>>>, <<>>), Push(<<<<1>>>>, <<1, 2>>), Push(<<<<1>>>>, <<1, 2, 3>>),
        Push(<<<<1, 1, 1>>>>, <<>>),
        Pop(<<<<1>>, <<2>>>>, 1), Pop(<<<<1>>, <<1, 0, 1, 0>>>>, 0),
        Pop(<<<<1>>, <<1>>, <<1>>>>, 0)}
  ELSE {Push(<<<<1>>>>, <<2>>), Push(<<<<1, 1>>>>, <<>>), Push(<<<<1>>>>, <<1, 2, 3>>),
        Pop(<<<<1>>, <<2>>>>, -1), Pop(<<<<1>>, <<1>>, <<1>>>>, 1),
        Push(<<<<1>>, <<2>>>>, <<>>)}]

MCPayloads == {<<>>, <<1, 2>>}
=============================================================================
