------------------------------ MODULE CodeSearch ------------------------------
(***************************************************************************)
(* CodeSearchService (indexing/search.py): the candidates of the lexical   *)
(* and the semantic channel of each query are fused by reciprocal rank,    *)
(* merged over the queries and optionally reranked, and the response says  *)
(* what of that was not available.  Pure operators.                        *)
(*                                                                         *)
(* A node is its id, a natural number; a channel is a sequence of distinct *)
(* ids, best first, the index in the semantic one standing for the         *)
(* distance.  Scores are exact: the float 1/(60 + rank) times Scale.       *)
(***************************************************************************)
EXTENDS Integers, Sequences, FiniteSets, SequencesExt, FiniteSetsExt

ReciprocalRankConstant == 60
Scale == 61 * 62 * 63  \* makes the scores of the ranks 1 .. 3 whole numbers
Reciprocal(rank) == Scale \div (ReciprocalRankConstant + rank)

NoDistance == 0

\* What one channel adds to the score of a node.
ChannelScore(channel, n) ==
  IF n \in ToSet(channel) THEN Reciprocal(CHOOSE i \in DOMAIN channel : channel[i] = n) ELSE 0

Distance(semantic, n) ==
  IF n \in ToSet(semantic) THEN CHOOSE i \in DOMAIN semantic : semantic[i] = n ELSE NoDistance

\* Best score first, ties by id.
Better(m, k) == m.score > k.score \/ (m.score = k.score /\ m.node < k.node)

Ordered(matches) ==
  CHOOSE ranking \in [1 .. Cardinality(matches) -> matches] :
    \A i, j \in DOMAIN ranking : i < j => Better(ranking[i], ranking[j])

\* _fuse
Fuse(semantic, lexical, query) ==
  Ordered({[node |-> n,
            score |-> ChannelScore(semantic, n) + ChannelScore(lexical, n),
            distance |-> Distance(semantic, n),
            queries |-> {query}] : n \in ToSet(semantic) \cup ToSet(lexical)})

\* _retrieval_mode
RetrievalMode(semantic, lexical) ==
  CASE semantic /\ lexical -> "hybrid"
    [] semantic /\ ~lexical -> "semantic"
    [] ~semantic /\ lexical -> "lexical"
    [] OTHER -> "none"

\* The outcome of the semantic channel of one query: no provider, an error of
\* the provider or of the vector index, or its candidates.
Unconfigured == [available |-> FALSE, nodes |-> <<>>, reason |-> "unconfigured"]
Failed == [available |-> FALSE, nodes |-> <<>>, reason |-> "provider"]
Found(nodes) == [available |-> TRUE, nodes |-> nodes, reason |-> "none"]

\* _retrieve_query: the two channels run side by side and are joined.
RetrieveQuery(lexical, semantic, query) ==
  [matches |-> Fuse(semantic.nodes, lexical, query),
   available |-> semantic.available,
   mode |-> RetrievalMode(semantic.nodes # <<>>, lexical # <<>>),
   reason |-> semantic.reason]

\* _merge_query_matches: the match of a node in each of the query results.
MatchesOf(results, n) ==
  UNION {{m \in ToSet(results[q].matches) : m.node = n} : q \in DOMAIN results}

Merge(results) ==
  LET nodes == {m.node : m \in UNION {ToSet(results[q].matches) : q \in DOMAIN results}}
      known(n) == {m.distance : m \in MatchesOf(results, n)} \ {NoDistance}
  IN Ordered({[node |-> n,
               score |-> MapThenSumSet(LAMBDA m : m.score, MatchesOf(results, n)),
               distance |-> IF known(n) = {} THEN NoDistance ELSE Min(known(n)),
               queries |-> UNION {m.queries : m \in MatchesOf(results, n)}] : n \in nodes})

Available(results) == \A q \in DOMAIN results : results[q].available

\* The reason of the first query, in their order, that has one.
FirstReason(results) ==
  LET failing == {q \in DOMAIN results : results[q].reason # "none"}
  IN IF failing = {} THEN "none" ELSE results[Min(failing)].reason

Mode(results) ==
  RetrievalMode(\E q \in DOMAIN results : results[q].mode \in {"semantic", "hybrid"},
                \E q \in DOMAIN results : results[q].mode \in {"lexical", "hybrid"})

UpTo(seq, limit) == SubSeq(seq, 1, IF Len(seq) < limit THEN Len(seq) ELSE limit)

\* search, once the channels have answered.  "reranker" is what becomes of the
\* reranking: it is not configured or the mode is fast ("unused"), it ranks
\* the candidates (their new order is left out), passes its deadline, or fails.
Respond(results, reranker, limit) ==
  LET fused == Merge(results)
      unranked == [matches |-> UpTo(fused, limit), mode |-> Mode(results), reranked |-> FALSE,
                   reason |-> FirstReason(results), available |-> Available(results),
                   stage |-> IF FirstReason(results) = "none" THEN "none" ELSE "semantic",
                   timed_out |-> FALSE]
      without(reason) == [unranked EXCEPT !.reason = reason, !.stage = "rerank"]
  IN CASE fused = <<>> -> [unranked EXCEPT !.mode = "none"]
       [] fused # <<>> /\ reranker = "unused" -> unranked
       [] fused # <<>> /\ reranker = "late" -> [without("deadline") EXCEPT !.timed_out = TRUE]
       [] fused # <<>> /\ reranker = "fails" -> without("reranker")
       [] fused # <<>> /\ reranker = "ranks" -> [unranked EXCEPT !.reranked = TRUE]
===============================================================================
