------------------------------ MODULE MCWatcher ------------------------------
(* Small instances of the watcher of one root. *)
EXTENDS Watcher
==============================================================================
