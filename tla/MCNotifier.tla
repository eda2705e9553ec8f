----------------------------- MODULE MCNotifier ------------------------------
(* Small instances of the block notifier for TLC.                          *)
EXTENDS Notifier, TLC

CONSTANTS t1, t2, t3

Symmetry == Permutations({t1, t2, t3})
=============================================================================
