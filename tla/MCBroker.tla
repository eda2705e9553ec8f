------------------------------ MODULE MCBroker ------------------------------
(* Small instances of the broker for TLC.                                  *)
EXTENDS Broker

CONSTANTS p1, p2, c1, c2, a, b, bad, m0, m1, m2, m3

MCSize == [m \in Messages |-> CASE m = m0 -> 0 [] m = m1 -> 1
                                [] m = m2 -> 2 [] m = m3 -> 3]

\* Two channels in order, and the second channel alone.
MCFewLists == {<<a, b>>, <<b>>}

\* The same, no channel, and an invalid name.
MCPopLists == MCFewLists \cup {<<>>, <<a, bad>>}

MCOneChannel == {<<a>>}

MCTwoChannels == {<<a>>, <<b>>}

Symmetry == Permutations({p1, p2}) \cup Permutations({c1, c2})
=============================================================================
