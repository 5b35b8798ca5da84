---------------------------- MODULE MCGraphGate ----------------------------
(***************************************************************************)
(* A small instance of GraphGate for TLC.                                  *)
(***************************************************************************)
EXTENDS GraphGate

CONSTANTS t1, t2, t3, t4

FourThreads == {t1, t2, t3, t4}
=============================================================================
