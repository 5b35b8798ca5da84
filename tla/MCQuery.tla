------------------------------- MODULE MCQuery -------------------------------
(* Small instances of the query path, and fusion checked on all short channels. *)
EXTENDS Query

CONSTANTS q1, q2

MCRequestOf ==
  q1 :> [mode |-> "balanced", anchors |-> {"node"}, files |-> 3, symbols |-> TRUE]
  @@ q2 :> [mode |-> "fast", anchors |-> {"position"}, files |-> 0, symbols |-> FALSE]
MCHydratedFiles == [fast |-> 1, balanced |-> 2]

\* Two queries over two nodes, every outcome of their channels.
TwoResults ==
  [1 .. 2 -> Channel \X ({Unconfigured, Failed} \cup {Found(nodes) : nodes \in Channel})]
Retrieved(pairs) == [q \in 1 .. 2 |-> RetrieveQuery(pairs[q][1], pairs[q][2], q)]
Swapped(pairs) == <<pairs[2], pairs[1]>>
Ranking(results) == [i \in DOMAIN Merge(results) |->
  [node |-> Merge(results)[i].node, score |-> Merge(results)[i].score,
   distance |-> Merge(results)[i].distance]]

\* Fusion (search.py:360-437): no candidate of any channel is lost or repeated, and
\* the ranking does not depend on the order of the queries.
ASSUME FusionIsExact ==
  \A pairs \in TwoResults :
    LET merged == Merge(Retrieved(pairs))
    IN /\ {merged[i].node : i \in DOMAIN merged} =
            UNION {ToSet(pairs[q][1]) \cup ToSet(pairs[q][2].nodes) : q \in 1 .. 2}
       /\ \A i, j \in DOMAIN merged : merged[i].node = merged[j].node => i = j
       /\ Ranking(Retrieved(pairs)) = Ranking(Retrieved(Swapped(pairs)))

\* reranked_modes[mode] (search.py:256): a ranking that is reranked has a mode.
ASSUME RerankedHasMode ==
  \A pairs \in TwoResults :
    Merge(Retrieved(pairs)) # <<>> => Mode(Retrieved(pairs)) # "none"
===============================================================================
