--------------------------- MODULE MCIngestionJobs ---------------------------
(***************************************************************************)
(* Small instances of IngestionJobs for TLC.                               *)
(***************************************************************************)
EXTENDS IngestionJobs, TLC

CONSTANTS r1, r2, p1, p2, s1, s2, g1

OneRepo == {r1}
TwoRepos == {r1, r2}
OneStore == [r \in {r1} |-> s1]
TwoStores == (r1 :> s1) @@ (r2 :> s2)

Symmetry == Permutations(Paths)
=============================================================================
