---------------------------- MODULE MCPipeline -----------------------------
(* Instances of Pipeline for TLC. *)
EXTENDS Pipeline

TwoFiles == {1, 2}
OneRef == {<<1, 2>>}  \* the first file refers to the second
Target == {2}         \* the file referred to
Leaving == {1}        \* the file whose deletion clients report
NoFiles == {}
Rejected == {3}       \* the second edit writes something the parser rejects
AnyMode == {"files", "full", "force_full"}
FullAndFiles == {"files", "full"}
FullOnly == {"full"}
=============================================================================
