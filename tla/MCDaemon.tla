------------------------------ MODULE MCDaemon -------------------------------
(* Small instances of the daemon with its clients for TLC.                 *)
EXTENDS Daemon

CONSTANTS p1, p2, c1, c2, a, bad, m0, m1, m2

MCSize == [m \in Messages |-> CASE m = m0 -> 0 [] m = m1 -> 1 [] m = m2 -> 2]

MCPopLists == {<<a>>, <<bad>>}

Symmetry == Permutations({p1, p2}) \cup Permutations({c1, c2})
=============================================================================
