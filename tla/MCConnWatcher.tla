---------------------------- MODULE MCConnWatcher ----------------------------
(* Small instances of the connection watcher for TLC.                      *)
EXTENDS ConnWatcher

CONSTANTS f1, f2
=============================================================================
