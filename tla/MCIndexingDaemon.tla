-------------------------- MODULE MCIndexingDaemon --------------------------
(***************************************************************************)
(* Small instances of IndexingDaemon for TLC.                              *)
(***************************************************************************)
EXTENDS IndexingDaemon

CONSTANTS r1, p1

OneRepo == {r1}
OnePath == {p1}
=============================================================================
