------------------------------ MODULE MCStartup ------------------------------
(* Small instances of the start-up protocol for TLC.                       *)
EXTENDS Startup

CONSTANTS d1, d2, d3, k1, k2
=============================================================================
