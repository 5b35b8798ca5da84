---------------------------- MODULE QueryProofs -----------------------------
(***************************************************************************)
(* What an answer says of itself, who waits for the decision service, and  *)
(* what the fusion of the search channels keeps: for every number of       *)
(* queries, every length of the channels and every limit.                  *)
(***************************************************************************)
EXTENDS Query, FiniteSetTheorems, SequenceTheorems, TLAPS

(***************************************************************************)
(* Ranking.                                                                *)
(***************************************************************************)

\* Matches as fusion makes them: one for each node, with a whole score.
Matches(S) ==
  /\ IsFiniteSet(S)
  /\ \A m \in S : m.score \in Int /\ m.node \in Nat
  /\ \A m, k \in S : m.node = k.node => m = k

\* Better is a strict total order of them.
LEMMA BetterOrders ==
  ASSUME NEW S, Matches(S)
  PROVE  /\ \A m \in S : ~Better(m, m)
         /\ \A m, k \in S : m # k => Better(m, k) \/ Better(k, m)
         /\ \A m, k, l \in S : Better(m, k) /\ Better(k, l) => Better(m, l)
BY DEF Matches, Better

\* The place of a match: itself and those that are better.
NotWorse(S, m) == {k \in S : k = m \/ Better(k, m)}
Place(S, m) == Cardinality(NotWorse(S, m))

\* A better match has an earlier place, and every place is taken.
LEMMA Places ==
  ASSUME NEW S, Matches(S)
  PROVE  /\ \A m \in S : Place(S, m) \in 1 .. Cardinality(S)
         /\ \A m, k \in S : Better(m, k) => Place(S, m) < Place(S, k)
         /\ \A i \in 1 .. Cardinality(S) : \E m \in S : Place(S, m) = i
<1>1. IsFiniteSet(S) /\ Cardinality(S) \in Nat
  BY FS_CardinalityType DEF Matches
<1>2. \A m \in S : /\ NotWorse(S, m) \in SUBSET S /\ IsFiniteSet(NotWorse(S, m)) /\ m \in NotWorse(S, m)
                   /\ Place(S, m) \in Nat
  <2> SUFFICES ASSUME NEW m \in S
               PROVE  /\ NotWorse(S, m) \in SUBSET S /\ IsFiniteSet(NotWorse(S, m)) /\ m \in NotWorse(S, m)
                      /\ Place(S, m) \in Nat
    OBVIOUS
  <2>1. NotWorse(S, m) \in SUBSET S /\ m \in NotWorse(S, m)
    BY DEF NotWorse
  <2>2. IsFiniteSet(NotWorse(S, m))
    BY <1>1, <2>1, FS_Subset
  <2> QED BY <2>1, <2>2, FS_CardinalityType DEF Place
<1>3. ASSUME NEW m \in S PROVE Place(S, m) \in 1 .. Cardinality(S)
  <2>1. Place(S, m) <= Cardinality(S)
    BY <1>1, <1>2, FS_Subset DEF Place
  <2>2. Place(S, m) # 0
    BY <1>2, FS_EmptySet DEF Place
  <2> QED BY <1>1, <1>2, <2>1, <2>2
<1>4. ASSUME NEW m \in S, NEW k \in S, Better(m, k) PROVE Place(S, m) < Place(S, k)
  <2>1. NotWorse(S, m) \in SUBSET NotWorse(S, k)
    BY <1>4, BetterOrders DEF NotWorse
  <2>2. k \notin NotWorse(S, m)
    BY <1>4, BetterOrders DEF NotWorse
  <2>3. NotWorse(S, m) # NotWorse(S, k)
    BY <1>2, <2>2
  <2>4. Cardinality(NotWorse(S, m)) <= Cardinality(NotWorse(S, k))
        /\ Cardinality(NotWorse(S, k)) # Cardinality(NotWorse(S, m))
    BY <1>2, <2>1, <2>3, FS_Subset
  <2> QED BY <1>2, <2>4 DEF Place
<1>5. \A i \in 1 .. Cardinality(S) : \E m \in S : Place(S, m) = i
  <2> DEFINE place == [m \in S |-> Place(S, m)]
  <2>1. place \in Injection(S, 1 .. Cardinality(S))
    <3>1. ASSUME NEW m \in S, NEW k \in S, Place(S, m) = Place(S, k) PROVE m = k
      BY <1>2, <1>4, <3>1, BetterOrders
    <3>2. place \in [S -> 1 .. Cardinality(S)]
      BY <1>3
    <3>3. \A m, k \in DOMAIN place : place[m] = place[k] => m = k
      BY <3>1
    <3> HIDE DEF place
    <3> QED BY <3>2, <3>3 DEF Injection, IsInjective
  <2>2. IsFiniteSet(1 .. Cardinality(S)) /\ Cardinality(1 .. Cardinality(S)) = Cardinality(S)
    BY <1>1, FS_Interval
  <2>3. place \in Surjection(S, 1 .. Cardinality(S))
    BY <2>1, <2>2, FS_Injection
  <2>4. \A i \in 1 .. Cardinality(S) : \E m \in S : place[m] = i
    BY <2>3 DEF Surjection
  <2> QED BY <2>4
<1> QED BY <1>3, <1>4, <1>5

\* A ranking names every match once, best first.
LEMMA RankingIsComplete ==
  ASSUME NEW S, Matches(S)
  PROVE  /\ Cardinality(S) \in Nat
         /\ Ordered(S) \in [1 .. Cardinality(S) -> S]
         /\ \A i, j \in 1 .. Cardinality(S) : i < j => Better(Ordered(S)[i], Ordered(S)[j])
         /\ \A i, j \in 1 .. Cardinality(S) : Ordered(S)[i] = Ordered(S)[j] => i = j
         /\ \A m \in S : \E i \in 1 .. Cardinality(S) : Ordered(S)[i] = m
<1> DEFINE n == Cardinality(S)
           Sorted(r) == \A i, j \in DOMAIN r : i < j => Better(r[i], r[j])
           ranking == [i \in 1 .. n |-> CHOOSE m \in S : Place(S, m) = i]
<1>0. IsFiniteSet(S) /\ n \in Nat
  BY FS_CardinalityType DEF Matches
<1>1. \A i \in 1 .. n : ranking[i] \in S /\ Place(S, ranking[i]) = i
  BY Places
<1>2. ranking \in [1 .. n -> S]
  BY <1>1
<1>3. Sorted(ranking)
  <2> SUFFICES ASSUME NEW i \in 1 .. n, NEW j \in 1 .. n, i < j
               PROVE  Better(ranking[i], ranking[j])
    OBVIOUS
  <2> HIDE DEF ranking, n
  <2>1. ~Better(ranking[j], ranking[i])
    BY <1>0, <1>1, Places
  <2>2. ranking[i] # ranking[j]
    BY <1>0, <1>1
  <2> QED BY <1>1, <2>1, <2>2, BetterOrders
<1>4. Ordered(S) \in [1 .. n -> S] /\ Sorted(Ordered(S))
  <2>1. Ordered(S) = CHOOSE r \in [1 .. n -> S] : Sorted(r)
    BY DEF Ordered
  <2> HIDE DEF ranking, n, Sorted
  <2> QED BY <1>2, <1>3, <2>1
<1>5. \A i, j \in 1 .. n : i < j => Better(Ordered(S)[i], Ordered(S)[j])
  BY <1>4
<1>6. ASSUME NEW i \in 1 .. n, NEW j \in 1 .. n, Ordered(S)[i] = Ordered(S)[j]
      PROVE  i = j
  <2>1. ~(i < j) /\ ~(j < i)
    BY <1>4, <1>5, <1>6, BetterOrders
  <2> QED BY <1>0, <2>1
<1>7. \A m \in S : \E i \in 1 .. n : Ordered(S)[i] = m
  <2>1. Ordered(S) \in Injection(1 .. n, S)
    BY <1>4, <1>6 DEF Injection, IsInjective
  <2>2. Cardinality(1 .. n) = n
    BY <1>0, FS_Interval
  <2>3. Ordered(S) \in Surjection(1 .. n, S)
    BY <1>0, <2>1, <2>2, FS_Injection
  <2> QED BY <2>3 DEF Surjection
<1> QED BY <1>0, <1>4, <1>5, <1>6, <1>7

(***************************************************************************)
(* Adding up.                                                              *)
(***************************************************************************)

\* Of the sets of a collection of subsets of a finite set, one has no smaller one.
LEMMA SmallestSet ==
  ASSUME NEW M, IsFiniteSet(M), NEW C \in SUBSET (SUBSET M), C # {}
  PROVE  \E s \in C : \A t \in C : ~(t \subseteq s /\ t # s)
<1>1. IsWellFoundedOn(StrictSubsetOrdering(M), SUBSET M)
  BY FS_StrictSubsetOrderingWellFounded, FS_FiniteSubsetsOfFinite
<1>2. PICK s \in C : \A t \in C : <<t, s>> \notin StrictSubsetOrdering(M)
  BY <1>1, WFMin
<1> QED BY <1>2 DEF StrictSubsetOrdering

\* g adds up the numbers of the elements of each subset, in the order they are picked.
Adds(g, w, pick, M) ==
  \A s \in SUBSET M : g[s] = IF s = {} THEN 0 ELSE w[pick[s]] + g[s \ {pick[s]}]

\* The numbers of the elements of M can be added up.
HasSums(w, pick, M) == \E g \in [SUBSET M -> Int] : Adds(g, w, pick, M)

\* Numbers can be added up element by element, in whatever order these are picked.
LEMMA SumExists ==
  ASSUME NEW M, IsFiniteSet(M), NEW w \in [M -> Int],
         NEW pick, \A s \in SUBSET M : s # {} => pick[s] \in s
  PROVE  HasSums(w, pick, M)
<1> DEFINE rest(s) == s \ {pick[s]}
           Closed(Q) == /\ <<{}, 0>> \in Q
                        /\ \A s \in SUBSET M, v \in Int :
                             s # {} /\ <<rest(s), v>> \in Q => <<s, w[pick[s]] + v>> \in Q
           all == (SUBSET M) \X Int
           R == {p \in all : \A Q \in SUBSET all : Closed(Q) => p \in Q}
<1>1. \A s \in SUBSET M : s # {} => /\ pick[s] \in s /\ w[pick[s]] \in Int
                                    /\ rest(s) \in SUBSET M /\ rest(s) # s
                                    /\ rest(s) \subseteq s
  OBVIOUS
<1> HIDE DEF rest
<1>2. Closed(R)
  <2>1. <<{}, 0>> \in R
    OBVIOUS
  <2>2. ASSUME NEW s \in SUBSET M, NEW v \in Int, s # {}, <<rest(s), v>> \in R
        PROVE  <<s, w[pick[s]] + v>> \in R
    <3>1. w[pick[s]] + v \in Int
      BY <1>1, <2>2
    <3>2. ASSUME NEW Q \in SUBSET all, Closed(Q)
          PROVE  <<s, w[pick[s]] + v>> \in Q
      BY <2>2, <3>2
    <3> QED BY <3>1, <3>2
  <2> QED BY <2>1, <2>2
<1>0. <<{}, 0>> \in R /\ {} \in SUBSET M /\ 0 \in Int
  BY <1>2
<1>3. R \in SUBSET all /\ \A Q \in SUBSET all : Closed(Q) => R \subseteq Q
  OBVIOUS
<1> HIDE DEF R
<1>4. \A s \in SUBSET M : \E v \in Int : <<s, v>> \in R
  <2> DEFINE C == {s \in SUBSET M : ~\E v \in Int : <<s, v>> \in R}
  <2> SUFFICES ASSUME C # {} PROVE FALSE
    OBVIOUS
  <2>1. PICK s \in C : \A t \in C : ~(t \subseteq s /\ t # s)
    <3>1. C \in SUBSET (SUBSET M)
      OBVIOUS
    <3> HIDE DEF C
    <3> QED BY <3>1, SmallestSet
  <2>2. s # {}
    BY <1>0, <2>1
  <2>3. PICK v \in Int : <<rest(s), v>> \in R
    BY <1>1, <2>1, <2>2
  <2>4. <<s, w[pick[s]] + v>> \in R /\ w[pick[s]] + v \in Int
    BY <1>1, <1>2, <2>2, <2>3
  <2> QED BY <2>4
<1>5. \A v \in Int : <<{}, v>> \in R => v = 0
  <2> DEFINE Q == {p \in R : p[1] = {} => p[2] = 0}
  <2>1. Closed(Q)
    BY <1>2
  <2>2. Q \in SUBSET all
    BY <1>3
  <2>3. R \subseteq Q
    <3> HIDE DEF Q, Closed, all
    <3> QED BY <1>3, <2>1, <2>2
  <2> QED BY <2>3
<1>6. ASSUME NEW s \in SUBSET M, s # {}, NEW u \in Int,
             \A v \in Int : <<rest(s), v>> \in R => v = u
      PROVE  \A v \in Int : <<s, v>> \in R => v = w[pick[s]] + u
  <2> DEFINE Q == {p \in R : p[1] = s => p[2] = w[pick[s]] + u}
  <2>1. Closed(Q)
    <3>1. <<{}, 0>> \in Q
      BY <1>2, <1>6
    <3>2. ASSUME NEW t \in SUBSET M, NEW v \in Int, t # {}, <<rest(t), v>> \in Q
          PROVE  <<t, w[pick[t]] + v>> \in Q
      <4>1. <<t, w[pick[t]] + v>> \in R
        BY <1>2, <3>2
      <4>2. t = s => v = u
        BY <1>6, <3>2
      <4> QED BY <4>1, <4>2
    <3> QED BY <3>1, <3>2
  <2>2. Q \in SUBSET all
    BY <1>3
  <2>3. R \subseteq Q
    <3> HIDE DEF Q, Closed, all
    <3> QED BY <1>3, <2>1, <2>2
  <2> QED BY <2>3
<1>7. \A s \in SUBSET M : \E u \in Int : \A v \in Int : <<s, v>> \in R => v = u
  <2> DEFINE C == {s \in SUBSET M : ~\E u \in Int : \A v \in Int : <<s, v>> \in R => v = u}
  <2> SUFFICES ASSUME C # {} PROVE FALSE
    OBVIOUS
  <2>1. PICK s \in C : \A t \in C : ~(t \subseteq s /\ t # s)
    <3>1. C \in SUBSET (SUBSET M)
      OBVIOUS
    <3> HIDE DEF C
    <3> QED BY <3>1, SmallestSet
  <2>2. s # {}
    BY <1>5
  <2>3. PICK u \in Int : \A v \in Int : <<rest(s), v>> \in R => v = u
    BY <1>1, <2>1, <2>2
  <2>4. w[pick[s]] + u \in Int
    BY <1>1, <2>2
  <2> QED BY <1>6, <2>2, <2>3, <2>4
<1> DEFINE g == [s \in SUBSET M |-> CHOOSE v \in Int : <<s, v>> \in R]
<1>8. \A s \in SUBSET M : g[s] \in Int /\ <<s, g[s]>> \in R
  BY <1>4
<1>9. \A s \in SUBSET M : \A v \in Int : <<s, v>> \in R => v = g[s]
  BY <1>7, <1>8
<1>10. g \in [SUBSET M -> Int]
  BY <1>8
<1> HIDE DEF g
<1>11. ASSUME NEW s \in SUBSET M
       PROVE  g[s] = IF s = {} THEN 0 ELSE w[pick[s]] + g[rest(s)]
  <2>1. CASE s = {}
    BY <1>5, <1>8, <2>1
  <2>2. CASE s # {}
    <3>1. <<rest(s), g[rest(s)]>> \in R /\ g[rest(s)] \in Int
      BY <1>1, <1>8, <2>2
    <3>2. <<s, w[pick[s]] + g[rest(s)]>> \in R
      BY <1>2, <2>2, <3>1
    <3>3. w[pick[s]] + g[rest(s)] \in Int
      BY <1>1, <2>2, <3>1
    <3> QED BY <1>9, <2>2, <3>2, <3>3
  <2> QED BY <2>1, <2>2
<1>12. Adds(g, w, pick, M)
  BY <1>11 DEF Adds, rest
<1> QED BY <1>10, <1>12 DEF HasSums

\* The sum of the scores of a node's matches is a number.
LEMMA ScoresAddUp ==
  ASSUME NEW M, IsFiniteSet(M), \A m \in M : m.score \in Int
  PROVE  MapThenSumSet(LAMBDA m : m.score, M) \in Int
<1> DEFINE pick == [s \in SUBSET M |-> CHOOSE x \in s : TRUE]
           w == [m \in M |-> m.score]
           Folds(g) == g = [s \in SUBSET M |->
                              IF s = {} THEN 0
                              ELSE (CHOOSE x \in s : TRUE).score + g[s \ {CHOOSE x \in s : TRUE}]]
           fold == CHOOSE g : Folds(g)
<1>1. MapThenSumSet(LAMBDA m : m.score, M) = fold[M]
  BY DEF MapThenSumSet, MapThenFoldSet
<1>2. w \in [M -> Int] /\ \A s \in SUBSET M : s # {} => pick[s] \in s
  OBVIOUS
<1>3. PICK g \in [SUBSET M -> Int] : Adds(g, w, pick, M)
  <2> HIDE DEF pick, w
  <2>1. HasSums(w, pick, M)
    BY <1>2, SumExists
  <2> QED BY <2>1 DEF HasSums
<1>4. Folds(g)
  <2>1. \A s \in SUBSET M : s # {} => w[pick[s]] = (CHOOSE x \in s : TRUE).score
                                      /\ pick[s] = CHOOSE x \in s : TRUE
    OBVIOUS
  <2> QED BY <1>3, <2>1 DEF Adds
<1>5. Folds(fold)
  <2> HIDE DEF Folds
  <2> QED BY <1>4
<1> HIDE DEF fold
<1>6. \A s \in SUBSET M :
        fold[s] = IF s = {} THEN 0 ELSE w[pick[s]] + fold[s \ {pick[s]}]
  <2>1. \A s \in SUBSET M : s # {} => w[pick[s]] = (CHOOSE x \in s : TRUE).score
                                      /\ pick[s] = CHOOSE x \in s : TRUE
    OBVIOUS
  <2>2. \A s \in SUBSET M :
          fold[s] = IF s = {} THEN 0
                    ELSE (CHOOSE x \in s : TRUE).score + fold[s \ {CHOOSE x \in s : TRUE}]
    BY <1>5
  <2> HIDE DEF pick, w
  <2> QED BY <2>1, <2>2
<1> HIDE DEF pick
<1>7. \A s \in SUBSET M : fold[s] \in Int
  <2> DEFINE C == {s \in SUBSET M : fold[s] \notin Int}
  <2> SUFFICES ASSUME C # {} PROVE FALSE
    OBVIOUS
  <2>1. PICK s \in C : \A t \in C : ~(t \subseteq s /\ t # s)
    <3>1. C \in SUBSET (SUBSET M)
      OBVIOUS
    <3> HIDE DEF C
    <3> QED BY <3>1, SmallestSet
  <2>2. s # {}
    <3>0. fold[{}] = 0
      BY <1>6
    <3>1. fold[{}] \in Int
      BY ONLY <3>0
    <3>2. fold[s] \notin Int
      OBVIOUS
    <3> HIDE DEF C
    <3> QED BY <3>1, <3>2, Zenon
  <2>3. pick[s] \in s /\ w[pick[s]] \in Int
    BY <1>2, <2>2
  <2>4. fold[s \ {pick[s]}] \in Int
    BY <2>1, <2>3
  <2>5. fold[s] = w[pick[s]] + fold[s \ {pick[s]}]
    BY <1>6, <2>2
  <2>6. fold[s] \in Int
    <3> HIDE DEF C, w
    <3> QED BY <2>3, <2>4, <2>5
  <2> QED BY <2>6
<1> QED BY <1>1, <1>7

(***************************************************************************)
(* Fusion.                                                                 *)
(***************************************************************************)

\* The values of a function on a finite set are finitely many.
LEMMA FiniteImage ==
  ASSUME NEW S, IsFiniteSet(S), NEW f
  PROVE  IsFiniteSet({f[x] : x \in S})
<1> DEFINE T == {f[x] : x \in S}
           g == [x \in S |-> f[x]]
<1>1. g \in [S -> T] /\ \A t \in T : \E x \in S : g[x] = t
  OBVIOUS
<1> HIDE DEF g, T
<1>2. g \in Surjection(S, T)
  BY <1>1 DEF Surjection
<1>3. IsFiniteSet(T)
  BY <1>2, FS_Surjection
<1> QED BY <1>3 DEF T

\* A channel names finitely many nodes, and scores them with whole numbers.
LEMMA ChannelFacts ==
  ASSUME NEW channel \in Seq(Nat)
  PROVE  /\ IsFiniteSet(ToSet(channel)) /\ ToSet(channel) \subseteq Nat
         /\ \A n : ChannelScore(channel, n) \in Int
<1>1. DOMAIN channel = 1 .. Len(channel) /\ Len(channel) \in Nat
  OBVIOUS
<1>2. IsFiniteSet(ToSet(channel))
  <2>1. IsFiniteSet(1 .. Len(channel))
    BY <1>1, FS_Interval
  <2>2. IsFiniteSet({channel[i] : i \in 1 .. Len(channel)})
    BY <2>1, FiniteImage
  <2> QED BY <1>1, <2>2 DEF ToSet
<1>3. ToSet(channel) \subseteq Nat
  BY <1>1 DEF ToSet
<1>4. ASSUME NEW n PROVE ChannelScore(channel, n) \in Int
  <2>1. CASE n \in ToSet(channel)
    <3> DEFINE rank == CHOOSE i \in DOMAIN channel : channel[i] = n
    <3>1. rank \in 1 .. Len(channel)
      BY <1>1, <2>1 DEF ToSet
    <3>2. ChannelScore(channel, n) = Reciprocal(rank)
      BY <2>1 DEF ChannelScore
    <3> HIDE DEF rank
    <3>3. Reciprocal(rank) \in Int
      <4>1. Scale \in Int /\ 60 + rank \in Int /\ 60 + rank > 0
        BY <1>1, <3>1 DEF Scale
      <4> HIDE DEF Scale
      <4> QED BY <4>1 DEF Reciprocal, ReciprocalRankConstant
    <3> QED BY <3>2, <3>3
  <2>2. CASE n \notin ToSet(channel)
    BY <2>2 DEF ChannelScore
  <2> QED BY <2>1, <2>2
<1> QED BY <1>2, <1>3, <1>4

\* _fuse makes one match of each node that a channel names.
Fusable(semantic, lexical, query) ==
  {[node |-> n, score |-> ChannelScore(semantic, n) + ChannelScore(lexical, n),
    distance |-> Distance(semantic, n), queries |-> {query}] :
     n \in ToSet(semantic) \cup ToSet(lexical)}

LEMMA FuseFacts ==
  ASSUME NEW semantic \in Seq(Nat), NEW lexical \in Seq(Nat), NEW query
  PROVE  /\ Matches(Fusable(semantic, lexical, query))
         /\ Fuse(semantic, lexical, query) = Ordered(Fusable(semantic, lexical, query))
         /\ ToSet(Fuse(semantic, lexical, query)) = Fusable(semantic, lexical, query)
<1> DEFINE S == Fusable(semantic, lexical, query)
           T == ToSet(semantic) \cup ToSet(lexical)
           f == [n \in T |-> [node |-> n,
                              score |-> ChannelScore(semantic, n) + ChannelScore(lexical, n),
                              distance |-> Distance(semantic, n), queries |-> {query}]]
<1>1. IsFiniteSet(T) /\ T \subseteq Nat
  BY ChannelFacts, FS_Union
<1>2. IsFiniteSet(S)
  <2>1. S = {f[n] : n \in T}
    BY DEF Fusable
  <2> HIDE DEF f, S, T
  <2> QED BY <1>1, <2>1, FiniteImage
<1>3. \A m \in S : m.score \in Int /\ m.node \in Nat
  BY <1>1, ChannelFacts DEF Fusable
<1>4. \A m, k \in S : m.node = k.node => m = k
  <2>1. \A m \in S : m = f[m.node]
    BY DEF Fusable
  <2> HIDE DEF f, S
  <2> QED BY <2>1
<1>5. Matches(S)
  BY <1>2, <1>3, <1>4 DEF Matches
<1>6. Fuse(semantic, lexical, query) = Ordered(S)
  BY DEF Fuse, Fusable
<1> HIDE DEF S
<1>7. ToSet(Ordered(S)) = S
  <2>1. DOMAIN Ordered(S) = 1 .. Cardinality(S)
    BY <1>5, RankingIsComplete
  <2>2. \A i \in DOMAIN Ordered(S) : Ordered(S)[i] \in S
    BY <1>5, <2>1, RankingIsComplete
  <2>3. \A m \in S : \E i \in DOMAIN Ordered(S) : Ordered(S)[i] = m
    BY <1>5, <2>1, RankingIsComplete
  <2> QED BY <2>2, <2>3 DEF ToSet
<1> QED BY <1>5, <1>6, <1>7 DEF S

\* What several queries found, as their channels answered.
Outcomes == {Unconfigured, Failed} \cup {Found(nodes) : nodes \in Seq(Nat)}
Retrieved(lexical, semantic) ==
  [q \in DOMAIN lexical |-> RetrieveQuery(lexical[q], semantic[q], q)]
NodesOf(lexical, semantic, q) == ToSet(lexical[q]) \cup ToSet(semantic[q].nodes)

\* The matches that _merge_query_matches sorts.
Merged(results) ==
  LET known(n) == {m.distance : m \in MatchesOf(results, n)} \ {NoDistance}
  IN {[node |-> n,
       score |-> MapThenSumSet(LAMBDA m : m.score, MatchesOf(results, n)),
       distance |-> IF known(n) = {} THEN NoDistance ELSE Min(known(n)),
       queries |-> UNION {m.queries : m \in MatchesOf(results, n)}] :
         n \in {m.node : m \in UNION {ToSet(results[q].matches) : q \in DOMAIN results}}}

\* The matches of one query, by node.
LEMMA RetrievedFacts ==
  ASSUME NEW Q, NEW lexical \in [Q -> Seq(Nat)], NEW semantic \in [Q -> Outcomes], NEW q \in Q,
         NEW found, found = ToSet(Retrieved(lexical, semantic)[q].matches)
  PROVE  /\ IsFiniteSet(found)
         /\ \A m \in found : m.score \in Int /\ m.queries = {q}
         /\ \A n : n \in NodesOf(lexical, semantic, q) <=> \E m \in found : m.node = n
         /\ NodesOf(lexical, semantic, q) \subseteq Nat
<1> DEFINE S == Fusable(semantic[q].nodes, lexical[q], q)
<1>1. lexical[q] \in Seq(Nat) /\ semantic[q].nodes \in Seq(Nat)
  <2>1. lexical[q] \in Seq(Nat) /\ semantic[q] \in Outcomes
    OBVIOUS
  <2>2. semantic[q] \in {Unconfigured, Failed} => semantic[q].nodes = <<>>
    BY DEF Unconfigured, Failed
  <2>3. \A nodes \in Seq(Nat) : semantic[q] = Found(nodes) => semantic[q].nodes = nodes
    BY DEF Found
  <2>4. <<>> \in Seq(Nat)
    OBVIOUS
  <2> QED BY <2>1, <2>2, <2>3, <2>4 DEF Outcomes
<1>2. found = S
  BY <1>1, FuseFacts DEF Retrieved, RetrieveQuery
<1>3. Matches(S)
  BY <1>1, FuseFacts
<1>4. NodesOf(lexical, semantic, q) \subseteq Nat
  BY <1>1, ChannelFacts DEF NodesOf
<1>5. \A m \in S : m.queries = {q}
  BY DEF Fusable
<1>6. \A n : n \in NodesOf(lexical, semantic, q) <=> \E m \in S : m.node = n
  <2> DEFINE nodes == NodesOf(lexical, semantic, q)
  <2>1. \A m \in S : m.node \in nodes
    BY DEF Fusable, NodesOf
  <2>2. ASSUME NEW n \in nodes PROVE \E m \in S : m.node = n
    <3> DEFINE m == [node |-> n,
                     score |-> ChannelScore(semantic[q].nodes, n) + ChannelScore(lexical[q], n),
                     distance |-> Distance(semantic[q].nodes, n), queries |-> {q}]
    <3>1. m \in S /\ m.node = n
      BY DEF Fusable, NodesOf
    <3> QED BY <3>1
  <2> QED BY <2>1, <2>2
<1> QED BY <1>2, <1>3, <1>4, <1>5, <1>6 DEF Matches

\* The merged match of a node, and the nodes that the queries' channels name.
MergedMatch(results, n) ==
  LET known == {m.distance : m \in MatchesOf(results, n)} \ {NoDistance}
  IN [node |-> n,
      score |-> MapThenSumSet(LAMBDA m : m.score, MatchesOf(results, n)),
      distance |-> IF known = {} THEN NoDistance ELSE Min(known),
      queries |-> UNION {m.queries : m \in MatchesOf(results, n)}]
NodesFound(results) ==
  {m.node : m \in UNION {ToSet(results[q].matches) : q \in DOMAIN results}}

\* _merge_query_matches makes one match of each node that any query found, and
\* keeps in it the queries that found it.
LEMMA MergedFacts ==
  ASSUME NEW Q, IsFiniteSet(Q), NEW lexical \in [Q -> Seq(Nat)], NEW semantic \in [Q -> Outcomes],
         NEW results, results = Retrieved(lexical, semantic)
  PROVE  /\ Matches(Merged(results))
         /\ {m.node : m \in Merged(results)} = UNION {NodesOf(lexical, semantic, q) : q \in Q}
         /\ \A m \in Merged(results) :
              m.queries = {q \in Q : m.node \in NodesOf(lexical, semantic, q)}
<1> DEFINE found == [q \in Q |-> ToSet(results[q].matches)]
           nodes == NodesFound(results)
           named == [q \in Q |-> NodesOf(lexical, semantic, q)]
<1>1. DOMAIN results = Q
  BY DEF Retrieved
<1>2. \A q \in Q : /\ IsFiniteSet(found[q])
                   /\ \A m \in found[q] : m.score \in Int /\ m.queries = {q}
                   /\ \A n : n \in named[q] <=> \E m \in found[q] : m.node = n
                   /\ named[q] \subseteq Nat
  <2> SUFFICES ASSUME NEW q \in Q
               PROVE  /\ IsFiniteSet(found[q])
                      /\ \A m \in found[q] : m.score \in Int /\ m.queries = {q}
                      /\ \A n : n \in named[q] <=> \E m \in found[q] : m.node = n
                      /\ named[q] \subseteq Nat
    OBVIOUS
  <2> DEFINE F == ToSet(Retrieved(lexical, semantic)[q].matches)
             N == NodesOf(lexical, semantic, q)
  <2>1. found[q] = F /\ named[q] = N
    OBVIOUS
  <2>2. /\ IsFiniteSet(F)
        /\ \A m \in F : m.score \in Int /\ m.queries = {q}
        /\ \A n : n \in N <=> \E m \in F : m.node = n
        /\ N \subseteq Nat
    BY RetrievedFacts
  <2> HIDE DEF found, named, F, N
  <2> QED BY <2>1, <2>2
<1>3. \A n : MatchesOf(results, n) = UNION {{m \in found[q] : m.node = n} : q \in Q}
  BY <1>1 DEF MatchesOf
<1>4. nodes = {m.node : m \in UNION {found[q] : q \in Q}}
  BY <1>1 DEF NodesFound
<1>5. \A n : \A m : m \in MatchesOf(results, n) <=> \E q \in Q : m \in found[q] /\ m.node = n
  BY <1>3
<1> HIDE DEF found, nodes, named
<1>6. \A n : IsFiniteSet(MatchesOf(results, n))
  <2> SUFFICES ASSUME NEW n PROVE IsFiniteSet(MatchesOf(results, n))
    OBVIOUS
  <2> DEFINE part == [q \in Q |-> {m \in found[q] : m.node = n}]
  <2>1. \A q \in Q : part[q] \in SUBSET found[q] /\ IsFiniteSet(part[q])
    BY <1>2, FS_Subset
  <2>2. MatchesOf(results, n) = UNION {part[q] : q \in Q}
    BY <1>3
  <2> HIDE DEF part
  <2>3. IsFiniteSet({part[q] : q \in Q})
    BY FiniteImage
  <2> QED BY <2>1, <2>2, <2>3, FS_UNION
<1>7. \A n : MapThenSumSet(LAMBDA m : m.score, MatchesOf(results, n)) \in Int
  <2> SUFFICES ASSUME NEW n PROVE MapThenSumSet(LAMBDA m : m.score, MatchesOf(results, n)) \in Int
    OBVIOUS
  <2>1. \A m \in MatchesOf(results, n) : m.score \in Int
    BY <1>2, <1>5
  <2> QED BY <1>6, <2>1, ScoresAddUp
<1>8. nodes = UNION {named[q] : q \in Q}
  <2>1. \A n : n \in nodes <=> \E q \in Q : \E m \in found[q] : m.node = n
    BY <1>4
  <2> QED BY <1>2, <2>1
<1>9. IsFiniteSet(nodes) /\ nodes \subseteq Nat
  <2>1. IsFiniteSet({found[q] : q \in Q})
    BY FiniteImage
  <2>2. IsFiniteSet(UNION {found[q] : q \in Q})
    <3> DEFINE parts == {found[q] : q \in Q}
    <3>1. IsFiniteSet(parts) /\ \A p \in parts : IsFiniteSet(p)
      BY <1>2, <2>1
    <3> HIDE DEF parts
    <3>2. IsFiniteSet(UNION parts)
      BY <3>1, FS_UNION
    <3> QED BY <3>2 DEF parts
  <2> DEFINE all == UNION {found[q] : q \in Q}
             node == [m \in all |-> m.node]
  <2>3. nodes = {node[m] : m \in all}
    BY <1>4
  <2>4. IsFiniteSet(all)
    BY <2>2
  <2> HIDE DEF node, all
  <2>5. IsFiniteSet(nodes)
    BY <2>3, <2>4, FiniteImage
  <2> QED BY <1>2, <1>8, <2>5
<1> DEFINE match == [n \in nodes |-> MergedMatch(results, n)]
<1>10. Merged(results) = {match[n] : n \in nodes}
  BY DEF Merged, MergedMatch, nodes, NodesFound
<1>11. \A n \in nodes : match[n].node = n
  BY DEF MergedMatch
<1>12. \A n \in nodes : match[n].queries = UNION {m.queries : m \in MatchesOf(results, n)}
  BY DEF MergedMatch
<1>13. \A n \in nodes : match[n].score \in Int
  <2> SUFFICES ASSUME NEW n \in nodes PROVE match[n].score \in Int
    OBVIOUS
  <2>1. match[n].score = MapThenSumSet(LAMBDA m : m.score, MatchesOf(results, n))
    BY DEF MergedMatch
  <2> HIDE DEF match
  <2> QED BY <1>7, <2>1
<1> DEFINE merged == Merged(results)
<1>14. merged = {match[n] : n \in nodes}
  BY <1>10
<1> HIDE DEF match, merged
<1>15. Matches(merged)
  <2>1. IsFiniteSet(merged)
    <3>1. IsFiniteSet({match[n] : n \in nodes})
      BY <1>9, FiniteImage
    <3> QED BY <1>14, <3>1
  <2>2. \A m \in merged : m.score \in Int /\ m.node \in Nat
    BY <1>9, <1>11, <1>13, <1>14
  <2>3. \A m, k \in merged : m.node = k.node => m = k
    <3>1. \A m \in merged : m = match[m.node]
      BY <1>11, <1>14
    <3> QED BY <3>1
  <2> QED BY <2>1, <2>2, <2>3 DEF Matches
<1>16. {m.node : m \in merged} = UNION {NodesOf(lexical, semantic, q) : q \in Q}
  <2>1. \A n : n \in {m.node : m \in merged} <=> n \in nodes
    BY <1>11, <1>14
  <2> QED BY <1>8, <2>1 DEF named
<1>17. \A n \in nodes : match[n].queries = {q \in Q : n \in named[q]}
  <2> SUFFICES ASSUME NEW n \in nodes
               PROVE  UNION {m.queries : m \in MatchesOf(results, n)} = {q \in Q : n \in named[q]}
    BY <1>12
  <2>1. \A q : q \in UNION {m.queries : m \in MatchesOf(results, n)}
                 <=> \E m \in MatchesOf(results, n) : q \in m.queries
    OBVIOUS
  <2>2. ASSUME NEW q, NEW m \in MatchesOf(results, n), q \in m.queries
        PROVE  q \in Q /\ n \in named[q]
    <3>1. PICK p \in Q : m \in found[p] /\ m.node = n
      BY <1>5, <2>2
    <3>2. m.queries = {p} /\ n \in named[p]
      BY <1>2, <3>1
    <3> QED BY <2>2, <3>2
  <2>3. ASSUME NEW q \in Q, n \in named[q]
        PROVE  \E m \in MatchesOf(results, n) : q \in m.queries
    <3>1. PICK m \in found[q] : m.node = n
      BY <1>2, <2>3
    <3>2. m \in MatchesOf(results, n) /\ m.queries = {q}
      BY <1>2, <1>5, <3>1
    <3> QED BY <3>2
  <2> QED BY <2>1, <2>2, <2>3
<1>18. \A m \in merged : m.queries = {q \in Q : m.node \in NodesOf(lexical, semantic, q)}
  <2>1. \A m \in merged : m.queries = {q \in Q : m.node \in named[q]}
    BY <1>11, <1>17, <1>14
  <2>2. \A q \in Q : named[q] = NodesOf(lexical, semantic, q)
    BY DEF named
  <2> HIDE DEF named
  <2> QED BY <2>1, <2>2
<1> QED BY <1>15, <1>16, <1>18 DEF merged

\* CodeSearchService.search over _fuse and _merge_query_matches: whatever the
\* queries, their channels and the outages of the semantic one, the fused
\* ranking has every node that some channel names and no other, each once, in
\* a strict order of score and id, and each with the queries that found it.
THEOREM FusionLosesNothing ==
  ASSUME NEW Q, IsFiniteSet(Q), NEW lexical \in [Q -> Seq(Nat)], NEW semantic \in [Q -> Outcomes],
         NEW merged, merged = Merge(Retrieved(lexical, semantic))
  PROVE  /\ {merged[i].node : i \in DOMAIN merged} = UNION {NodesOf(lexical, semantic, q) : q \in Q}
         /\ \A i, j \in DOMAIN merged : merged[i].node = merged[j].node => i = j
         /\ \A i, j \in DOMAIN merged : i < j => Better(merged[i], merged[j])
         /\ \A i \in DOMAIN merged :
              merged[i].queries = {q \in Q : merged[i].node \in NodesOf(lexical, semantic, q)}
<1> DEFINE results == Retrieved(lexical, semantic)
           S == Merged(results)
<1>1. merged = Ordered(S)
  BY DEF Merge, Merged
<1>2. /\ Matches(S)
      /\ {m.node : m \in S} = UNION {NodesOf(lexical, semantic, q) : q \in Q}
      /\ \A m \in S : m.queries = {q \in Q : m.node \in NodesOf(lexical, semantic, q)}
  BY MergedFacts
<1> HIDE DEF S
<1>3. /\ merged \in [1 .. Cardinality(S) -> S]
      /\ \A i, j \in 1 .. Cardinality(S) : i < j => Better(merged[i], merged[j])
      /\ \A i, j \in 1 .. Cardinality(S) : merged[i] = merged[j] => i = j
      /\ \A m \in S : \E i \in 1 .. Cardinality(S) : merged[i] = m
  <2> DEFINE ranking == Ordered(S)
  <2>1. /\ ranking \in [1 .. Cardinality(S) -> S]
        /\ \A i, j \in 1 .. Cardinality(S) : i < j => Better(ranking[i], ranking[j])
        /\ \A i, j \in 1 .. Cardinality(S) : ranking[i] = ranking[j] => i = j
        /\ \A m \in S : \E i \in 1 .. Cardinality(S) : ranking[i] = m
    BY <1>2, RankingIsComplete
  <2> HIDE DEF ranking
  <2>2. merged = ranking
    BY <1>1 DEF ranking
  <2> QED BY <2>1, <2>2
<1>4. DOMAIN merged = 1 .. Cardinality(S) /\ \A i \in DOMAIN merged : merged[i] \in S
  BY <1>3
<1>5. {merged[i].node : i \in DOMAIN merged} = {m.node : m \in S}
  <2>1. \A m \in S : \E i \in DOMAIN merged : merged[i] = m
    BY <1>3, <1>4
  <2>2. \A n : n \in {merged[i].node : i \in DOMAIN merged} <=> n \in {m.node : m \in S}
    BY <1>4, <2>1
  <2> QED BY <2>2
<1>6. \A i, j \in DOMAIN merged : merged[i].node = merged[j].node => i = j
  BY <1>2, <1>3, <1>4 DEF Matches
<1> QED BY <1>2, <1>3, <1>4, <1>5, <1>6

(***************************************************************************)
(* What a route's answer says of itself.                                   *)
(***************************************************************************)

LEMMA ConstantFacts ==
  /\ MaxConcurrency \in Nat /\ RecoveryProbes \in Nat /\ RecoveryProbes > 1
  /\ Limit \in Nat /\ Limit > 0 /\ ReferenceKinds \in Nat /\ MaxOutages \in Nat
  /\ HydratedFiles \in [Modes -> Nat]
  /\ \A q \in Queries : /\ RequestOf[q].mode \in Modes /\ RequestOf[q].files \in Nat
                        /\ RequestOf[q].symbols \in BOOLEAN
BY QueryAssumption

LEMMA Smaller ==
  ASSUME NEW a \in Int, NEW b \in Int
  PROVE  Min({a, b}) = IF a <= b THEN a ELSE b
<1>1. Min({a, b}) = CHOOSE x \in {a, b} : \A y \in {a, b} : x <= y
  BY DEF Min
<1>2. \E x \in {a, b} : \A y \in {a, b} : x <= y
  OBVIOUS
<1>3. Min({a, b}) \in {a, b} /\ \A y \in {a, b} : Min({a, b}) <= y
  BY <1>1, <1>2
<1> QED BY <1>3

\* An answer is marked degraded or truncated exactly when it shows a part only, and so
\* not when it shows nothing for want of an index.
Truthful(a) ==
  /\ a.degraded \in BOOLEAN /\ a.truncated \in BOOLEAN /\ a.found \in Nat
  /\ a.shows \in {"all", "part", "silent"}
  /\ a.degraded \/ a.truncated <=> a.shows = "part"

\* The first matches of a ranking, of which there are some unless it has none.
LEMMA UpToFacts ==
  ASSUME NEW S, NEW seq \in Seq(S), NEW limit \in Nat, limit > 0
  PROVE  /\ UpTo(seq, limit) \in Seq(S)
         /\ UpTo(seq, limit) = <<>> <=> seq = <<>>
<1> DEFINE n == IF Len(seq) < limit THEN Len(seq) ELSE limit
<1>1. n \in Nat /\ n <= Len(seq) /\ (n = 0 <=> Len(seq) = 0)
  OBVIOUS
<1>2. UpTo(seq, limit) = SubSeq(seq, 1, n)
  BY DEF UpTo
<1> HIDE DEF n
<1>3. SubSeq(seq, 1, n) \in Seq(S) /\ Len(SubSeq(seq, 1, n)) = n
  BY <1>1
<1>4. SubSeq(seq, 1, n) = <<>> <=> n = 0
  BY <1>1, <1>3, EmptySeq
<1>5. seq = <<>> <=> Len(seq) = 0
  BY EmptySeq
<1> QED BY <1>1, <1>2, <1>3, <1>4, <1>5

\* The reason that a response reports.
ReportsReason(response, results, reranker) ==
  IF response.matches # <<>> /\ reranker \in {"late", "fails"}
  THEN response.reason # "none" ELSE response.reason = FirstReason(results)

\* search reports the first failing query and what became of the reranking.
LEMMA RespondFacts ==
  ASSUME NEW results, NEW S, Merge(results) \in Seq(S), NEW limit \in Nat, limit > 0,
         NEW reranker \in {"unused", "ranks", "late", "fails"},
         NEW response, response = Respond(results, reranker, limit)
  PROVE  /\ response.matches \in Seq(S) /\ response.timed_out \in BOOLEAN
         /\ response.timed_out = TRUE <=> response.matches # <<>> /\ reranker = "late"
         /\ ReportsReason(response, results, reranker)
<1> DEFINE fused == Merge(results)
           reason == FirstReason(results)
           shown == UpTo(fused, limit)
<1>1. shown \in Seq(S) /\ (shown = <<>> <=> fused = <<>>)
  BY UpToFacts
<1>2. CASE fused = <<>>
  <2>1. response.matches = shown /\ response.timed_out = FALSE /\ response.reason = reason
    BY <1>2 DEF Respond
  <2> HIDE DEF fused, shown
  <2> QED BY <1>1, <1>2, <2>1 DEF ReportsReason
<1>3. CASE fused # <<>>
  <2>1. response.matches = shown
    BY <1>3 DEF Respond
  <2>2. response.timed_out = (reranker = "late")
    BY <1>3 DEF Respond
  <2>3. response.reason = CASE reranker = "late" -> "deadline"
                            [] reranker = "fails" -> "reranker"
                            [] OTHER -> reason
    BY <1>3 DEF Respond
  <2> HIDE DEF fused, shown
  <2> QED BY <1>1, <1>3, <2>1, <2>2, <2>3 DEF ReportsReason
<1> QED BY <1>2, <1>3

\* A search over one query is degraded when its semantic channel or the
\* reranking is, and not otherwise.
LEMMA SearchAnswerIsTruthful ==
  ASSUME NEW lexical \in Seq(Nat), NEW semantic \in Outcomes,
         NEW reranker \in {"unused", "ranks", "late", "fails"}
  PROVE  Truthful(SearchAnswer(lexical, semantic, reranker))
<1> DEFINE result == RetrieveQuery(lexical, semantic, 1)
           results == <<result>>
           response == Respond(results, reranker, Limit + 1)
<1>1. semantic.available = (semantic.reason = "none")
  <2>1. CASE semantic \in {Unconfigured, Failed}
    <3>1. \/ semantic.available = FALSE /\ semantic.reason = "unconfigured"
          \/ semantic.available = FALSE /\ semantic.reason = "provider"
      BY <2>1 DEF Unconfigured, Failed
    <3> QED BY <3>1
  <2>2. CASE semantic \in {Found(nodes) : nodes \in Seq(Nat)}
    <3>1. PICK nodes : semantic = Found(nodes)
      BY <2>2
    <3> QED BY <3>1 DEF Found
  <2> QED BY <2>1, <2>2 DEF Outcomes
<1>2. FirstReason(results) = semantic.reason
  <2>1. DOMAIN results = {1} /\ results[1].reason = semantic.reason
    BY DEF RetrieveQuery
  <2>2. Min({1}) = 1
    BY Smaller, {1} = {1, 1}
  <2> HIDE DEF results
  <2>3. semantic.reason = "none" => {q \in DOMAIN results : results[q].reason # "none"} = {}
    BY <2>1
  <2>4. semantic.reason # "none" => {q \in DOMAIN results : results[q].reason # "none"} = {1}
    BY <2>1
  <2> QED BY <2>1, <2>2, <2>3, <2>4 DEF FirstReason
<1>3. Merge(results) \in Seq(Merged(results))
  <2> DEFINE L == [q \in {1} |-> lexical]
             O == [q \in {1} |-> semantic]
  <2>1. L \in [{1} -> Seq(Nat)] /\ O \in [{1} -> Outcomes] /\ IsFiniteSet({1})
    BY FS_Singleton
  <2>2. results = Retrieved(L, O)
    BY DEF Retrieved
  <2> HIDE DEF L, O, results
  <2>3. Matches(Merged(results))
    BY <2>1, <2>2, MergedFacts
  <2>4. Merge(results) = Ordered(Merged(results))
    BY DEF Merge, Merged
  <2> DEFINE S == Merged(results)
  <2> HIDE DEF S
  <2>5. Cardinality(S) \in Nat /\ Ordered(S) \in [1 .. Cardinality(S) -> S]
    BY <2>3, RankingIsComplete DEF S
  <2>6. Ordered(S) \in Seq(S)
    BY <2>5
  <2> QED BY <2>4, <2>6 DEF S
<1>4. Limit + 1 \in Nat /\ Limit + 1 > 0
  BY ConstantFacts
<1>5. /\ Len(response.matches) \in Nat /\ response.timed_out \in BOOLEAN
      /\ response.timed_out = TRUE <=> response.matches # <<>> /\ reranker = "late"
      /\ ReportsReason(response, results, reranker)
  <2> HIDE DEF results
  <2> DEFINE S == Merged(results)
  <2> HIDE DEF S
  <2>1. Merge(results) \in Seq(S)
    BY <1>3 DEF S
  <2>2. response.matches \in Seq(S)
    BY <1>4, <2>1, RespondFacts
  <2>3. response.timed_out \in BOOLEAN
    BY <1>4, <2>1, RespondFacts
  <2>4. response.timed_out = TRUE <=> response.matches # <<>> /\ reranker = "late"
    BY <1>4, <2>1, RespondFacts
  <2>5. ReportsReason(response, results, reranker)
    BY <1>4, <2>1, RespondFacts
  <2> HIDE DEF response
  <2>6. Len(response.matches) \in Nat
    BY <2>2
  <2> QED BY <2>3, <2>4, <2>5, <2>6
<1> DEFINE whole == /\ semantic.available
                    /\ response.matches # <<>> => reranker \notin {"late", "fails"}
<1>6. SearchAnswer(lexical, semantic, reranker) =
        Answer(response.reason # "none" \/ response.timed_out, response.timed_out,
               AllIf(whole), Len(response.matches))
  BY Zenon DEF SearchAnswer
<1> DEFINE a == SearchAnswer(lexical, semantic, reranker)
<1> HIDE DEF response, results
<1>7. /\ a.degraded = (response.reason # "none" \/ response.timed_out)
      /\ a.truncated = response.timed_out
      /\ a.shows = IF whole THEN "all" ELSE "part"
      /\ a.found = Len(response.matches)
  BY <1>6 DEF Answer, AllIf
<1> HIDE DEF a
<1>8. /\ a.degraded \in BOOLEAN /\ a.truncated \in BOOLEAN /\ a.found \in Nat
      /\ a.shows \in {"all", "part", "silent"}
  BY <1>5, <1>7
<1>9. a.degraded \/ a.truncated <=> ~whole
  BY <1>1, <1>2, <1>5, <1>7 DEF ReportsReason
<1>10. a.shows = "part" <=> ~whole
  BY <1>7
<1> QED BY <1>8, <1>9, <1>10 DEF Truthful, a

\* inspect_file says that something is left out exactly when a node or an edge is.
LEMMA InspectAnswerIsTruthful ==
  ASSUME NEW a \in InspectAnswers
  PROVE  Truthful(a)
<1>1. PICK e \in SeqOf(0 .. Limit + 1, Limit + 1) : a = InspectAnswer(e)
  BY DEF InspectAnswers
<1> DEFINE nodes == Len(e)
           shown == Min({nodes, Limit})
           edges(n) == Cardinality({x \in (1 .. n) \X (1 .. Limit + 1) : x[2] <= e[x[1]]})
<1>2. nodes \in Nat
  <2>1. PICK m \in 0 .. Limit + 1 : e \in [1 .. m -> 0 .. Limit + 1]
    BY DEF SeqOf
  <2> QED BY <2>1, ConstantFacts
<1>3. \A n \in Nat : edges(n) \in Nat
  <2> SUFFICES ASSUME NEW n \in Nat PROVE edges(n) \in Nat
    OBVIOUS
  <2>1. IsFiniteSet(1 .. n) /\ IsFiniteSet(1 .. (Limit + 1))
    BY FS_Interval, ConstantFacts
  <2>2. IsFiniteSet((1 .. n) \X (1 .. Limit + 1))
    BY <2>1, FS_Product
  <2>3. IsFiniteSet({x \in (1 .. n) \X (1 .. Limit + 1) : x[2] <= e[x[1]]})
    BY <2>2, FS_Subset
  <2> QED BY <2>3, FS_CardinalityType
<1>4. shown = IF nodes <= Limit THEN nodes ELSE Limit
  BY <1>2, Smaller, ConstantFacts
<1>5. a = Answer(FALSE, nodes > shown \/ edges(shown) > Limit,
                 AllIf(nodes <= shown /\ edges(nodes) <= Limit), 0)
  BY <1>1 DEF InspectAnswer
<1> HIDE DEF edges, nodes
<1>6. edges(shown) \in Nat /\ edges(nodes) \in Nat
  BY <1>2, <1>3, <1>4, ConstantFacts
<1>7. nodes > shown \/ edges(shown) > Limit <=> ~(nodes <= shown /\ edges(nodes) <= Limit)
  BY <1>2, <1>4, <1>6, ConstantFacts
<1> QED BY <1>5, <1>7 DEF Truthful, Answer, AllIf

\* composite_regression_risk likewise: of the dependents and of their tests.
LEMMA ImpactAnswerIsTruthful ==
  ASSUME NEW a \in ImpactAnswers
  PROVE  Truthful(a)
<1>1. PICK dependents, tests : tests \subseteq dependents /\ a = ImpactAnswer(dependents, tests)
  <2>1. PICK p : p[2] \subseteq p[1] /\ a = ImpactAnswer(p[1], p[2])
    BY DEF ImpactAnswers
  <2> QED BY <2>1
<1> DEFINE selected == First(dependents)
           targets == First(selected \cap tests)
<1>2. a = Answer(FALSE, dependents # selected \/ targets # selected \cap tests,
                 AllIf(dependents \subseteq selected /\ tests \subseteq targets), 0)
  BY <1>1 DEF ImpactAnswer
<1>3. selected \subseteq dependents /\ targets \subseteq selected \cap tests
  BY DEF First
<1> HIDE DEF selected, targets
<1>4. dependents # selected \/ targets # selected \cap tests <=>
        ~(dependents \subseteq selected /\ tests \subseteq targets)
  BY <1>1, <1>3
<1> QED BY <1>2, <1>4 DEF Truthful, Answer, AllIf

\* nodes_list: a page and the number of all.
LEMMA InventoryAnswerIsTruthful ==
  ASSUME NEW a \in InventoryAnswers
  PROVE  Truthful(a)
<1>1. PICK total \in 0 .. Limit + 1 : a = InventoryAnswer(total)
  BY DEF InventoryAnswers
<1> DEFINE page == {i \in 1 .. total : i <= Limit}
           shown == IF total <= Limit THEN total ELSE Limit
<1>2. total \in Nat /\ shown \in Nat /\ page = 1 .. shown
  BY ConstantFacts
<1>3. Cardinality(page) = shown
  <2>1. \A n \in Nat : Cardinality(1 .. n) = n
    <3> SUFFICES ASSUME NEW n \in Nat PROVE Cardinality(1 .. n) = n
      OBVIOUS
    <3>1. Cardinality(1 .. n) = IF 1 > n THEN 0 ELSE n - 1 + 1
      BY FS_Interval
    <3> QED BY <3>1
  <2> HIDE DEF shown
  <2> QED BY <1>2, <2>1
<1>4. a = Answer(FALSE, total > Cardinality(page), AllIf(1 .. total \subseteq page), 0)
  BY <1>1 DEF InventoryAnswer
<1>5. total > Cardinality(page) <=> ~(1 .. total \subseteq page)
  BY <1>2, <1>3, ConstantFacts
<1> DEFINE cut == total > Cardinality(page)
<1>6. cut \in BOOLEAN
  OBVIOUS
<1>7. a = Answer(FALSE, cut, AllIf(~cut), 0)
  BY <1>4, <1>5 DEF AllIf
<1> HIDE DEF page, cut
<1> QED BY <1>6, <1>7 DEF Answer, Truthful, AllIf

\* Whatever the index holds, an answer of a read route is marked exactly when
\* it shows a part of it.
LEMMA AnswersAreTruthful ==
  ASSUME NEW stage, NEW mode \in Modes, NEW a \in Answers(stage, mode)
  PROVE  Truthful(a)
<1>1. CASE a \in {SearchUnindexed, Unindexed, Answer(FALSE, FALSE, "all", 0)}
  <2>1. CASE a = SearchUnindexed
    BY <2>1 DEF SearchUnindexed, Answer, Truthful
  <2>2. CASE a = Unindexed
    BY <2>2 DEF Unindexed, Answer, Truthful
  <2>3. CASE a = Answer(FALSE, FALSE, "all", 0)
    BY <2>3 DEF Answer, Truthful
  <2> QED BY <1>1, <2>1, <2>2, <2>3
<1>2. CASE a \in SearchAnswers[mode]
  <2>1. PICK lexical \in Channel, reranker \in Rerankers(mode),
             semantic \in {Unconfigured, Failed} \cup {Found(nodes) : nodes \in Channel} :
               a = SearchAnswer(lexical, semantic, reranker)
    BY <1>2 DEF SearchAnswers
  <2>2. Channel \subseteq Seq(Nat)
    BY DEF Channel
  <2>3. semantic \in Outcomes
    BY <2>2 DEF Outcomes
  <2>4. reranker \in {"unused", "ranks", "late", "fails"}
    BY DEF Rerankers
  <2> QED BY <2>1, <2>2, <2>3, <2>4, SearchAnswerIsTruthful
<1>3. CASE a \in InspectAnswers
  BY <1>3, InspectAnswerIsTruthful
<1>4. CASE a \in ImpactAnswers
  BY <1>4, ImpactAnswerIsTruthful
<1>5. CASE a \in InventoryAnswers
  BY <1>5, InventoryAnswerIsTruthful
<1>6. \/ a \in {SearchUnindexed, Unindexed, Answer(FALSE, FALSE, "all", 0)}
      \/ a \in SearchAnswers[mode]
      \/ a \in InspectAnswers \/ a \in ImpactAnswers \/ a \in InventoryAnswers
  <2>1. CASE ~indexed
    BY <2>1 DEF Answers
  <2>2. CASE indexed
    <3>1. stage = "search" => a \in SearchAnswers[mode]
      BY <2>2 DEF Answers
    <3>2. stage = "inspect" => a \in InspectAnswers
      BY <2>2 DEF Answers
    <3>3. stage = "impact" => a \in ImpactAnswers
      BY <2>2 DEF Answers
    <3>4. stage = "inventory" => a \in InventoryAnswers
      BY <2>2 DEF Answers
    <3>5. stage \notin {"search", "inspect", "impact", "inventory"} => a = Answer(FALSE, FALSE, "all", 0)
      BY <2>2 DEF Answers, ReferencesAnswers, RelatedAnswers
    <3> QED BY <3>1, <3>2, <3>3, <3>4, <3>5
  <2> QED BY <2>1, <2>2
<1> QED BY <1>1, <1>2, <1>3, <1>4, <1>5, <1>6

(***************************************************************************)
(* Types.                                                                  *)
(***************************************************************************)

\* The permits are finitely many, so that they can be counted.
Typed == TypeOK /\ IsFiniteSet(permit)

\* A query whose playbook does not run, or has run, moves to its next place.
LEMMA GotoTyped ==
  ASSUME Typed, NEW q \in Queries, handler[q].todo = <<>>,
         NEW place \in {"waiting", "asleep", "asking", "posting", "answered", "raised"},
         Goto(q, place)
  PROVE  /\ handler' \in [Queries -> Handlers]
         /\ handler'[q] = [handler[q] EXCEPT !.at = place]
         /\ handler'[q].at = place
         /\ \A p \in Queries : p # q => handler'[p] = handler[p]
         /\ \A p \in Queries : handler'[p].todo # <<>> => handler'[p].at = "running"
<1>1. handler \in [Queries -> Handlers]
      /\ \A p \in Queries : handler[p].todo # <<>> => handler[p].at = "running"
  BY DEF Typed, TypeOK
<1>2. handler' = [handler EXCEPT ![q].at = place]
  BY DEF Goto
<1>3. handler[q] \in Handlers
  BY <1>1
<1>4. [handler[q] EXCEPT !.at = place] \in Handlers
      /\ [handler[q] EXCEPT !.at = place].at = place
      /\ [handler[q] EXCEPT !.at = place].todo = handler[q].todo
  BY <1>3 DEF Handlers
<1>5. handler'[q] = [handler[q] EXCEPT !.at = place]
      /\ \A p \in Queries : p # q => handler'[p] = handler[p]
  BY <1>1, <1>2
<1>6. handler' \in [Queries -> Handlers]
  BY <1>1, <1>2, <1>4
<1> QED BY <1>1, <1>4, <1>5, <1>6

\* The sleepers of the provider look again, and only they move.
LEMMA AwakenTyped ==
  ASSUME Typed, Awaken
  PROVE  /\ handler' \in [Queries -> Handlers]
         /\ \A p \in Queries : handler'[p] = IF handler[p].at = "asleep"
                                             THEN [handler[p] EXCEPT !.at = "waiting"] ELSE handler[p]
         /\ \A p \in Queries : handler'[p].at = IF handler[p].at = "asleep"
                                                THEN "waiting" ELSE handler[p].at
         /\ \A p \in Queries : handler'[p].todo # <<>> => handler'[p].at = "running"
<1>1. handler \in [Queries -> Handlers]
      /\ \A p \in Queries : handler[p].todo # <<>> => handler[p].at = "running"
  BY DEF Typed, TypeOK
<1>2. \A p \in Queries : handler'[p] = IF handler[p].at = "asleep"
                                       THEN [handler[p] EXCEPT !.at = "waiting"] ELSE handler[p]
  BY DEF Awaken, At
<1>3. \A p \in Queries : handler[p] \in Handlers
  BY <1>1
<1>4. \A h \in Handlers : /\ [h EXCEPT !.at = "waiting"] \in Handlers
                          /\ [h EXCEPT !.at = "waiting"].at = "waiting"
                          /\ [h EXCEPT !.at = "waiting"].todo = h.todo
  BY DEF Handlers
<1>5. handler' = [p \in Queries |-> handler'[p]]
  BY DEF Awaken
<1>6. handler' \in [Queries -> Handlers]
  <2>1. \A p \in Queries : handler'[p] \in Handlers
    BY <1>2, <1>3, <1>4
  <2> QED BY <1>5, <2>1, Zenon
<1>7. \A p \in Queries : handler'[p].at = IF handler[p].at = "asleep" THEN "waiting" ELSE handler[p].at
  <2> SUFFICES ASSUME NEW p \in Queries
               PROVE  handler'[p].at = IF handler[p].at = "asleep" THEN "waiting" ELSE handler[p].at
    OBVIOUS
  <2>1. CASE handler[p].at = "asleep"
    <3>1. handler'[p] = [handler[p] EXCEPT !.at = "waiting"]
      BY <1>2, <2>1
    <3> QED BY <1>3, <1>4, <2>1, <3>1
  <2>2. CASE handler[p].at # "asleep"
    BY <1>2, <2>2
  <2> QED BY <2>1, <2>2
<1>8. ASSUME NEW p \in Queries, handler'[p].todo # <<>> PROVE handler'[p].at = "running"
  <2>1. handler'[p].todo = handler[p].todo
    BY <1>2, <1>3, <1>4
  <2> QED BY <1>1, <1>7, <1>8, <2>1
<1> QED BY <1>2, <1>6, <1>7, <1>8

\* A playbook with stages left has a result to give.
LEMMA ResultsTyped ==
  ASSUME NEW todo \in Seq(Stages)
  PROVE  /\ Results(todo) \in Nat
         /\ todo = <<>> <=> Results(todo) = 0
<1>1. Len(todo) \in Nat /\ (todo = <<>> <=> Len(todo) = 0)
  BY EmptySeq
<1> QED BY <1>1 DEF Results

\* The stages of every playbook exist, and they come in an order that Rest expects.
LEMMA InspectionsTyped ==
  ASSUME NEW files \in Nat, NEW mode \in Modes
  PROVE  /\ Inspections(files, mode) \in Seq(Stages)
         /\ InOrder(Inspections(files, mode))
         /\ files >= Results(Inspections(files, mode))
         /\ files = Results(Inspections(files, mode)) <=> ~TooMany(files, mode)
<1> DEFINE n == Min({files, HydratedFiles[mode]})
           todo == Inspections(files, mode)
<1>1. n \in Nat /\ HydratedFiles[mode] \in Nat
      /\ n = IF files <= HydratedFiles[mode] THEN files ELSE HydratedFiles[mode]
  BY Smaller, ConstantFacts
<1>2. todo = [i \in 1 .. n |-> "inspect"]
  BY DEF Inspections
<1> HIDE DEF n, todo
<1>3. todo \in [1 .. n -> Stages] /\ \A i \in 1 .. n : todo[i] = "inspect"
  BY <1>2 DEF Stages
<1>4. todo \in Seq(Stages) /\ Len(todo) = n /\ DOMAIN todo = 1 .. n
  BY <1>1, <1>3
<1>5. InOrder(todo)
  BY <1>3, <1>4 DEF InOrder
<1>6. Results(todo) = n
  <2>1. todo # <<>> => 1 \in 1 .. n /\ Head(todo) = todo[1]
    BY <1>1, <1>4, EmptySeq
  <2> QED BY <1>3, <1>4, <2>1 DEF Results
<1> QED BY <1>1, <1>4, <1>5, <1>6 DEF TooMany, todo

\* What a playbook owes at first is what its stages give, and the files cut away.
LEMMA PlanTyped ==
  ASSUME NEW q \in Queries, NEW chosen \in Playbooks
  PROVE  LET r == RequestOf[q]
             todo == Plan(chosen, r)
         IN /\ todo \in Seq(Stages) /\ InOrder(todo)
            /\ Owed(chosen, r) \in Nat /\ Owed(chosen, r) >= Results(todo)
            /\ Owed(chosen, r) = Results(todo) <=>
                 ~(chosen = "INSPECT_FILES" /\ TooMany(r.files, r.mode))
<1> DEFINE r == RequestOf[q]
           todo == Plan(chosen, r)
<1>1. r.files \in Nat /\ r.mode \in Modes /\ HydratedFiles[r.mode] \in Nat
  BY ConstantFacts
<1>2. <<"search">> \in Seq(Stages) /\ <<"traversal">> \in Seq(Stages)
      /\ <<"search", "traversal">> \in Seq(Stages) /\ <<"references">> \in Seq(Stages)
      /\ <<"search", "files">> \in Seq(Stages) /\ <<"impact">> \in Seq(Stages)
      /\ <<"inventory">> \in Seq(Stages)
  BY DEF Stages
<1>3. /\ InOrder(<<"search">>) /\ InOrder(<<"traversal">>) /\ InOrder(<<"search", "traversal">>)
      /\ InOrder(<<"search", "files">>) /\ InOrder(<<"impact">>) /\ InOrder(<<"inventory">>)
  BY DEF InOrder
<1>4. InOrder(<<"references">>)
  BY DEF InOrder
<1> DEFINE kinds == [i \in 1 .. ReferenceKinds |-> "references"]
<1>5. kinds \in Seq(Stages) /\ InOrder(kinds)
  <2>1. ReferenceKinds \in Nat
    BY ConstantFacts
  <2>2. kinds \in [1 .. ReferenceKinds -> Stages] /\ \A i \in DOMAIN kinds : kinds[i] = "references"
    BY DEF Stages
  <2> HIDE DEF kinds
  <2>3. kinds \in Seq(Stages)
    BY <2>1, <2>2
  <2>4. InOrder(kinds)
    BY <2>2 DEF InOrder
  <2> QED BY <2>3, <2>4
<1> DEFINE files == Inspections(r.files, r.mode)
<1>6. /\ files \in Seq(Stages) /\ InOrder(files) /\ r.files >= Results(files)
      /\ r.files = Results(files) <=> ~TooMany(r.files, r.mode)
  BY <1>1, InspectionsTyped
<1> HIDE DEF r, kinds, files
<1>7. todo \in Seq(Stages) /\ InOrder(todo)
  <2>1. chosen = "DISCOVER" => todo = <<"search">>
    BY DEF Plan
  <2>2. chosen \in {"UNDERSTAND", "RELATIONSHIPS"} => todo \in {<<"traversal">>, <<"search", "traversal">>}
    BY DEF Plan
  <2>3. chosen = "REFERENCES" => todo \in {<<"references">>, kinds}
    BY DEF Plan, kinds
  <2>4. chosen = "INSPECT_FILES" => todo \in {<<"search", "files">>, files}
    BY DEF Plan, files
  <2>5. chosen = "IMPACT" => todo = <<"impact">>
    BY DEF Plan
  <2>6. chosen = "INVENTORY" => todo = <<"inventory">>
    BY DEF Plan
  <2> HIDE DEF todo
  <2> QED BY <1>2, <1>3, <1>4, <1>5, <1>6, <2>1, <2>2, <2>3, <2>4, <2>5, <2>6 DEF Playbooks
<1>8. /\ Owed(chosen, r) \in Nat /\ Owed(chosen, r) >= Results(todo)
      /\ Owed(chosen, r) = Results(todo) <=>
           ~(chosen = "INSPECT_FILES" /\ TooMany(r.files, r.mode))
  <2>1. CASE chosen = "INSPECT_FILES" /\ r.files > 0
    <3>1. Owed(chosen, r) = r.files /\ todo = files
      BY <1>1, <2>1 DEF Owed, Plan, files
    <3> QED BY <1>1, <1>6, <2>1, <3>1
  <2>2. CASE ~(chosen = "INSPECT_FILES" /\ r.files > 0)
    <3>1. Owed(chosen, r) = Results(todo)
      BY <2>2 DEF Owed
    <3>2. Results(todo) \in Nat
      BY <1>7, ResultsTyped
    <3>3. ~(chosen = "INSPECT_FILES" /\ TooMany(r.files, r.mode))
      BY <1>1, <2>2 DEF TooMany
    <3> HIDE DEF todo
    <3> QED BY <3>1, <3>2, <3>3
  <2> QED BY <2>1, <2>2
<1> QED BY <1>7, <1>8 DEF r

\* A stage gives one result, adds what it has found to what is owed, and leaves stages
\* that give all of it but the files cut away.
LEMMA RestTyped ==
  ASSUME Typed, NEW q \in Queries, handler[q].todo # <<>>, InOrder(handler[q].todo),
         NEW found \in Nat
  PROVE  LET left == Results(handler[q].todo) - 1 + Newly(q, found)
             cut == Tail(handler[q].todo) = <<"files">> /\ TooMany(found, RequestOf[q].mode)
         IN /\ Rest(q, found) \in Seq(Stages) /\ InOrder(Rest(q, found))
            /\ Newly(q, found) \in Nat
            /\ left >= Results(Rest(q, found))
            /\ left = Results(Rest(q, found)) <=> ~cut
<1> DEFINE todo == handler[q].todo
           rest == Tail(todo)
           mode == RequestOf[q].mode
           files == Inspections(found, mode)
<1>1. todo \in Seq(Stages)
  BY DEF Typed, TypeOK, Handlers
<1>2. /\ files \in Seq(Stages) /\ InOrder(files) /\ found >= Results(files)
      /\ found = Results(files) <=> ~TooMany(found, mode)
  BY InspectionsTyped, ConstantFacts
<1>3. /\ Rest(q, found) = CASE rest = <<"files">> -> files
                            [] rest = <<"traversal">> /\ found = 0 -> <<>>
                            [] OTHER -> rest
      /\ Newly(q, found) = CASE rest = <<"files">> -> found
                             [] Head(todo) = "search" /\ rest = <<"traversal">> -> Min({found, 1})
                             [] OTHER -> 0
  BY DEF Rest, Newly
<1>4. Min({found, 1}) = IF found <= 1 THEN found ELSE 1
  BY Smaller
<1>5. <<>> \in Seq(Stages) /\ InOrder(<<>>) /\ Results(<<>>) = 0
  <2>1. <<>> \in Seq(Stages)
    OBVIOUS
  <2>2. InOrder(<<>>)
    BY DEF InOrder
  <2>3. Results(<<>>) = 0
    BY <2>1, ResultsTyped
  <2> QED BY <2>1, <2>2, <2>3
<1> HIDE DEF files
<1>6. CASE todo = <<"search", "files">>
  <2>1. rest = <<"files">> /\ Results(todo) = 1
    BY <1>6 DEF Results
  <2>2. Rest(q, found) = files /\ Newly(q, found) = found
    BY <1>3, <2>1
  <2> QED BY <1>2, <2>1, <2>2
<1>7. CASE todo = <<"search", "traversal">>
  <2>1. rest = <<"traversal">> /\ Head(todo) = "search" /\ Results(todo) = 1
    BY <1>7 DEF Results
  <2>2. rest # <<"files">>
    BY <2>1
  <2>3. <<"traversal">> \in Seq(Stages) /\ InOrder(<<"traversal">>) /\ Results(<<"traversal">>) = 1
    BY DEF Stages, InOrder, Results
  <2>4. CASE found = 0
    <3>1. Rest(q, found) = <<>> /\ Newly(q, found) = 0
      BY <1>3, <1>4, <2>1, <2>2, <2>4
    <3> QED BY <1>5, <2>1, <2>2, <3>1
  <2>5. CASE found # 0
    <3>1. Rest(q, found) = <<"traversal">> /\ Newly(q, found) = 1
      BY <1>3, <1>4, <2>1, <2>2, <2>5
    <3> QED BY <2>1, <2>2, <2>3, <3>1
  <2> QED BY <2>4, <2>5
<1>8. CASE todo \in {<<"search">>, <<"traversal">>, <<"impact">>, <<"inventory">>}
  <2>1. rest = <<>> /\ Results(todo) = 1
    <3>1. \A s : Len(<<s>>) = 1 /\ Tail(<<s>>) = <<>>
      OBVIOUS
    <3>2. Len(todo) = 1 /\ rest = <<>>
      BY <1>8, <3>1
    <3> HIDE DEF todo
    <3> QED BY <3>2 DEF Results
  <2>2. rest # <<"files">> /\ rest # <<"traversal">>
    BY <2>1
  <2>3. Rest(q, found) = <<>> /\ Newly(q, found) = 0
    BY <1>3, <2>1, <2>2
  <2> QED BY <1>5, <2>1, <2>2, <2>3
<1>9. CASE \A i \in DOMAIN todo : todo[i] \in {"inspect", "references"}
  <2>1. Len(todo) \in Nat \ {0} /\ Head(todo) = todo[1] /\ 1 \in DOMAIN todo
    BY <1>1, EmptySeq
  <2>2. /\ rest \in Seq(Stages) /\ Len(rest) = Len(todo) - 1
        /\ \A i \in DOMAIN rest : rest[i] = todo[i + 1] /\ i + 1 \in DOMAIN todo
    BY <1>1, <2>1
  <2>3. \A i \in DOMAIN rest : rest[i] \in {"inspect", "references"}
    BY <1>9, <2>2
  <2> HIDE DEF rest
  <2>4. rest # <<"files">> /\ rest # <<"traversal">>
    <3>1. \A s \in {"files", "traversal"} : rest = <<s>> => 1 \in DOMAIN rest /\ rest[1] = s
      OBVIOUS
    <3> QED BY <2>3, <3>1
  <2>5. Rest(q, found) = rest /\ Newly(q, found) = 0
    BY <1>3, <2>4
  <2>6. Results(todo) = Len(todo)
    BY <1>9, <2>1 DEF Results
  <2>7. InOrder(rest)
    BY <2>3 DEF InOrder
  <2>8. Results(rest) = Len(rest)
    <3>1. rest # <<>> => 1 \in DOMAIN rest /\ Head(rest) = rest[1]
      BY <2>2, EmptySeq
    <3> QED BY <2>3, <3>1 DEF Results
  <2> QED BY <2>1, <2>2, <2>4, <2>5, <2>6, <2>7, <2>8 DEF rest
<1> QED BY <1>6, <1>7, <1>8, <1>9 DEF InOrder

\* What a routing and a stage write, and that they touch one query only.
LEMMA RouteTyped ==
  ASSUME Typed, NEW q \in Queries, NEW decision \in Playbooks \cup {"none"},
         Route(q, decision)
  PROVE  /\ handler' \in [Queries -> Handlers] /\ permit' = permit \ {q}
         /\ \A p \in Queries : p # q => handler'[p] = handler[p]
         /\ handler'[q].at = "running"
         /\ Honest(handler'[q])
<1> DEFINE r == RequestOf[q]
           choice == IF decision = "none" THEN "DISCOVER" ELSE decision
           chosen == IF choice \in Eligible(r) THEN choice ELSE "DISCOVER"
           replaced == decision = "none" \/ chosen # choice
           cut == chosen = "INSPECT_FILES" /\ TooMany(r.files, r.mode)
           followed == chosen = decision
           routed == [at |-> "running", todo |-> Plan(chosen, r), fallback |-> replaced,
                      degraded |-> FALSE, truncated |-> cut, followed |-> followed,
                      owed |-> Owed(chosen, r), silent |-> 0]
<1>1. handler' = [handler EXCEPT ![q] = routed] /\ permit' = permit \ {q}
  BY DEF Route
<1>2. chosen \in Playbooks
  BY DEF Playbooks
<1>3. replaced <=> ~followed
  BY <1>2 DEF Playbooks
<1> HIDE DEF chosen
<1>4. /\ Plan(chosen, r) \in Seq(Stages) /\ InOrder(Plan(chosen, r))
      /\ Owed(chosen, r) \in Nat /\ Owed(chosen, r) >= Results(Plan(chosen, r))
      /\ Owed(chosen, r) = Results(Plan(chosen, r)) <=> ~cut
  BY <1>2, PlanTyped
<1>5. replaced \in BOOLEAN /\ cut \in BOOLEAN /\ followed \in BOOLEAN
  OBVIOUS
<1> HIDE DEF replaced, cut, followed, r
<1>6. routed \in Handlers
  BY <1>4, <1>5 DEF Handlers
<1>7. /\ routed.at = "running" /\ routed.todo = Plan(chosen, r) /\ routed.fallback = replaced
      /\ routed.degraded = FALSE /\ routed.truncated = cut /\ routed.followed = followed
      /\ routed.owed = Owed(chosen, r) /\ routed.silent = 0
  OBVIOUS
<1> HIDE DEF routed
<1>8. Results(Plan(chosen, r)) \in Nat
  BY <1>4, ResultsTyped
<1>9. Due(routed) = Results(Plan(chosen, r))
  BY <1>7, <1>8 DEF Due
<1>10. Complete(routed) <=> routed.followed /\ routed.owed = Due(routed)
  BY <1>3, <1>4, <1>5, <1>7, <1>9 DEF Complete
<1>11. Honest(routed)
  BY <1>4, <1>7, <1>9, <1>10 DEF Honest
<1>12. handler \in [Queries -> Handlers]
  BY DEF Typed, TypeOK
<1>13. handler'[q] = routed /\ \A p \in Queries : p # q => handler'[p] = handler[p]
  BY <1>1, <1>12
<1>14. handler' \in [Queries -> Handlers]
  BY <1>1, <1>6, <1>12
<1> QED BY <1>1, <1>7, <1>11, <1>13, <1>14

LEMMA FinishTyped ==
  ASSUME Typed, NEW q \in Queries, handler[q].at = "running", handler[q].todo # <<>>,
         Honest(handler[q]), NEW a, Truthful(a), Finish(q, a)
  PROVE  /\ handler' \in [Queries -> Handlers]
         /\ \A p \in Queries : p # q => handler'[p] = handler[p]
         /\ handler'[q].at = "running"
         /\ Honest(handler'[q])
<1> DEFINE h == handler[q]
           cut == Tail(handler[q].todo) = <<"files">> /\ TooMany(a.found, RequestOf[q].mode)
           given == IF a.shows = "all" THEN 1 ELSE 0
           unseen == IF a.shows = "silent" THEN 1 ELSE 0
           rest == Rest(q, a.found)
           new == Newly(q, a.found)
           next == [h EXCEPT !.todo = rest, !.degraded = h.degraded \/ a.degraded,
                             !.truncated = h.truncated \/ a.truncated \/ cut,
                             !.owed = (h.owed - given) + new, !.silent = h.silent + unseen]
<1>1. handler' = [handler EXCEPT ![q] = next]
  BY DEF Finish
<1>2. handler \in [Queries -> Handlers] /\ h \in Handlers
  BY DEF Typed, TypeOK
<1>3. InOrder(h.todo) /\ h.owed >= Due(h) /\ (Complete(h) <=> h.followed /\ h.owed = Due(h))
  BY DEF Honest
<1>4. /\ rest \in Seq(Stages) /\ InOrder(rest) /\ new \in Nat
      /\ (Results(h.todo) - 1) + new >= Results(rest)
      /\ (Results(h.todo) - 1) + new = Results(rest) <=> ~cut
  BY <1>3, RestTyped DEF Truthful
<1>5. cut \in BOOLEAN /\ given \in 0 .. 1 /\ unseen \in 0 .. 1
  OBVIOUS
<1>6. handler'[q] = next /\ \A p \in Queries : p # q => handler'[p] = handler[p]
  BY <1>1, <1>2
<1>7. given + unseen <= 1 /\ (given + unseen = 1 <=> ~(a.degraded \/ a.truncated))
  BY DEF Truthful
<1>8. a.degraded \in BOOLEAN /\ a.truncated \in BOOLEAN
  BY DEF Truthful
<1> HIDE DEF cut, h, given, unseen, rest, new
<1>9. /\ h.owed \in Int /\ h.silent \in Nat /\ h.degraded \in BOOLEAN /\ h.truncated \in BOOLEAN
      /\ h.fallback \in BOOLEAN /\ h.followed \in BOOLEAN /\ h.todo \in Seq(Stages)
  BY <1>2 DEF Handlers
<1>10. /\ next.at = h.at /\ next.todo = rest /\ next.fallback = h.fallback
       /\ next.degraded = (h.degraded \/ a.degraded)
       /\ next.truncated = (h.truncated \/ a.truncated \/ cut)
       /\ next.followed = h.followed
       /\ next.owed = (h.owed - given) + new
       /\ next.silent = h.silent + unseen
  BY <1>2 DEF Handlers
<1>11. next \in Handlers
  <2>1. (h.owed - given) + new \in Int /\ h.silent + unseen \in Nat
    BY <1>4, <1>5, <1>9
  <2>2. (h.degraded \/ a.degraded) \in BOOLEAN /\ (h.truncated \/ a.truncated \/ cut) \in BOOLEAN
    OBVIOUS
  <2> QED BY <1>2, <1>4, <2>1, <2>2 DEF Handlers
<1> HIDE DEF next
<1>12. handler' \in [Queries -> Handlers]
  BY <1>1, <1>2, <1>11
<1>13. Results(h.todo) \in Nat /\ Results(rest) \in Nat
  BY <1>4, <1>9, ResultsTyped
<1>14. Due(h) = Results(h.todo) + h.silent /\ Due(next) = Results(rest) + (h.silent + unseen)
  BY <1>10 DEF Due
<1>15. /\ next.owed >= Due(next)
       /\ next.owed = Due(next) <=> h.owed = Due(h) /\ ~cut /\ given + unseen = 1
  <2> DEFINE owed == h.owed
             silent == h.silent
             results == Results(h.todo)
             left == Results(rest)
  <2>1. /\ given + unseen <= 1 /\ owed >= results + silent
        /\ owed \in Int /\ silent \in Nat /\ results \in Nat /\ left \in Nat
        /\ new \in Nat /\ given \in 0 .. 1 /\ unseen \in 0 .. 1
        /\ (results - 1) + new >= left /\ ((results - 1) + new = left <=> ~cut)
    BY <1>3, <1>4, <1>5, <1>7, <1>9, <1>13, <1>14
  <2>2. /\ next.owed = (owed - given) + new /\ Due(next) = left + (silent + unseen)
        /\ Due(h) = results + silent
    BY <1>10, <1>14
  <2> HIDE DEF owed, silent, results, left
  <2>3. /\ (owed - given) + new >= left + (silent + unseen)
        /\ (owed - given) + new = left + (silent + unseen) <=>
             /\ owed = results + silent
             /\ (results - 1) + new = left
             /\ given + unseen = 1
    BY <2>1
  <2> QED BY <2>1, <2>2, <2>3 DEF owed
<1>16. next.owed = Due(next) <=> h.owed = Due(h) /\ ~cut /\ ~(a.degraded \/ a.truncated)
  BY <1>7, <1>15
<1>17. Complete(next) <=> next.followed /\ next.owed = Due(next)
  BY <1>3, <1>5, <1>8, <1>9, <1>10, <1>16 DEF Complete
<1>18. Honest(next)
  BY <1>4, <1>10, <1>15, <1>17 DEF Honest
<1>19. h.at = "running"
  BY DEF h
<1> QED BY <1>6, <1>10, <1>12, <1>18, <1>19

(***************************************************************************)
(* The invariant.                                                          *)
(***************************************************************************)

IInv == Typed /\ FlagsAreTruthful /\ MonitorServesSleepers

LEMMA InitIInv == Init => IInv
<1> SUFFICES ASSUME Init PROVE IInv
  OBVIOUS
<1>1. handler = [q \in Queries |-> Unasked] /\ Unasked \in Handlers
      /\ Unasked.at = "unasked" /\ Unasked.todo = <<>>
  BY DEF Init, Unasked, Handlers
<1>2. \A q \in Queries : handler[q] = Unasked
  BY <1>1
<1>3. handler \in [Queries -> Handlers]
  BY <1>1
<1>4. permit = {} /\ IsFiniteSet(permit) /\ Cardinality(permit) = 0
  BY FS_EmptySet DEF Init
<1>5. Typed
  <2>1. permit \subseteq At({"posting"}) /\ Cardinality(permit) <= MaxConcurrency
    BY <1>4, ConstantFacts
  <2>2. \A q \in Queries : handler[q].todo # <<>> => handler[q].at = "running"
    BY <1>1, <1>2
  <2>3. /\ healthy \in BOOLEAN /\ outages \in 0 .. MaxOutages /\ indexed \in BOOLEAN
        /\ daemon \in {"starting", "serving", "draining", "closed"}
        /\ ready \in BOOLEAN /\ terminal \in BOOLEAN
        /\ monitor \in {"off", "asleep", "up", "down", "giving_up"}
        /\ failed \in 0 .. RecoveryProbes
    <3>1. outages = 0 /\ failed = 0 /\ 0 \in 0 .. MaxOutages /\ 0 \in 0 .. RecoveryProbes
      BY ConstantFacts DEF Init
    <3>2. ready = FALSE /\ terminal = FALSE
      BY DEF Init
    <3>3. ready \in BOOLEAN /\ terminal \in BOOLEAN
      BY <3>2
    <3>4. healthy \in BOOLEAN /\ indexed \in BOOLEAN /\ daemon = "starting" /\ monitor = "off"
      BY DEF Init
    <3> QED BY <3>1, <3>3, <3>4
  <2> QED BY <1>3, <1>4, <2>1, <2>2, <2>3 DEF Typed, TypeOK
<1>6. FlagsAreTruthful
  BY <1>1, <1>2 DEF FlagsAreTruthful, Honest
<1>7. InFlight = {} /\ At({"asleep"}) = {}
  BY <1>1, <1>2 DEF InFlight, At
<1>8. MonitorServesSleepers
  BY <1>7, ConstantFacts DEF Init, MonitorServesSleepers
<1> QED BY <1>5, <1>6, <1>8 DEF IInv

\* The fields of the state that are no handlers are typed.
Scalars ==
  /\ healthy \in BOOLEAN /\ outages \in 0 .. MaxOutages /\ indexed \in BOOLEAN
  /\ daemon \in {"starting", "serving", "draining", "closed"}
  /\ ready \in BOOLEAN /\ terminal \in BOOLEAN
  /\ monitor \in {"off", "asleep", "up", "down", "giving_up"}
  /\ failed \in 0 .. RecoveryProbes

\* The permits are held by queries that post.
PermitsHeld ==
  permit \subseteq At({"posting"}) /\ Cardinality(permit) <= MaxConcurrency /\ IsFiniteSet(permit)

HandlersTyped ==
  /\ handler \in [Queries -> Handlers]
  /\ \A q \in Queries : handler[q].todo # <<>> => handler[q].at = "running"

LEMMA TypedParts == Typed <=> Scalars /\ PermitsHeld /\ HandlersTyped
BY DEF Typed, TypeOK, Scalars, PermitsHeld, HandlersTyped

\* A query that posts nothing new leaves the permits to their holders.
LEMMA PermitsKept ==
  ASSUME PermitsHeld, permit' = permit, \A p \in permit : handler'[p].at = handler[p].at
  PROVE  PermitsHeld'
BY DEF PermitsHeld, At

\* The places of the queries, for what the monitor owes them.
Busy(place) == place \in {"waiting", "asleep", "asking", "posting", "running"}
Served ==
  /\ daemon \in {"starting", "closed"} =>
       (\A q \in Queries : ~Busy(handler[q].at)) /\ ~ready /\ monitor = "off"
  /\ daemon \in {"serving", "draining"} /\ ~terminal => monitor \in {"asleep", "up", "down"}
  /\ \A q \in Queries : handler[q].at = "asleep" =>
       ~ready /\ ~terminal /\ daemon \in {"serving", "draining"}
  /\ terminal <=> failed = RecoveryProbes
  /\ daemon = "starting" => ~terminal
  /\ terminal /\ daemon = "serving" => monitor = "giving_up"
  /\ terminal => monitor \in {"giving_up", "off"}
  /\ monitor = "giving_up" => terminal

LEMMA ServedPlaces == (MonitorServesSleepers <=> Served) /\ (MonitorServesSleepers' <=> Served')
<1>1. InFlight = {} <=> \A q \in Queries : ~Busy(handler[q].at)
  BY DEF InFlight, At, Busy
<1>2. InFlight' = {} <=> \A q \in Queries : ~Busy(handler'[q].at)
  BY DEF InFlight, At, Busy
<1>3. (MonitorServesSleepers <=> Served)
  BY <1>1 DEF MonitorServesSleepers, Served, At
<1>4. (MonitorServesSleepers' <=> Served')
  BY <1>2 DEF MonitorServesSleepers, Served, At
<1> QED BY <1>3, <1>4

\* The invariant after a step, from its parts.
LEMMA Assembled ==
  ASSUME Scalars', PermitsHeld', HandlersTyped', FlagsAreTruthful', Served'
  PROVE  IInv'
<1>1. TypeOK' /\ IsFiniteSet(permit)'
  BY DEF TypeOK, Scalars, PermitsHeld, HandlersTyped
<1>2. MonitorServesSleepers'
  BY ServedPlaces
<1> QED BY <1>1, <1>2 DEF IInv, Typed

\* A step that leaves the handlers alone, and one that only wakes the sleepers.
LEMMA HandlersKept ==
  ASSUME IInv, permit' = permit, handler' = handler
  PROVE  PermitsHeld' /\ HandlersTyped' /\ FlagsAreTruthful'
<1>1. PermitsHeld /\ HandlersTyped /\ FlagsAreTruthful
  BY TypedParts DEF IInv
<1>2. PermitsHeld'
  BY <1>1, PermitsKept
<1> QED BY <1>1, <1>2 DEF HandlersTyped, FlagsAreTruthful

LEMMA SleepersWoken ==
  ASSUME IInv, permit' = permit, Awaken
  PROVE  /\ PermitsHeld' /\ HandlersTyped' /\ FlagsAreTruthful'
         /\ \A p \in Queries : handler'[p].at = IF handler[p].at = "asleep"
                                                THEN "waiting" ELSE handler[p].at
<1>1. PermitsHeld /\ HandlersTyped /\ Typed /\ FlagsAreTruthful
  BY TypedParts DEF IInv
<1>2. \A p \in Queries : handler'[p].at = IF handler[p].at = "asleep" THEN "waiting" ELSE handler[p].at
  BY <1>1, AwakenTyped
<1>3. PermitsHeld'
  <2>1. \A p \in permit : p \in Queries /\ handler[p].at = "posting"
    BY <1>1 DEF PermitsHeld, At
  <2> QED BY <1>1, <1>2, <2>1, PermitsKept
<1>4. HandlersTyped'
  BY <1>1, AwakenTyped DEF HandlersTyped
<1>5. FlagsAreTruthful'
  <2> SUFFICES ASSUME NEW q \in Queries PROVE Honest(handler'[q])
    BY DEF FlagsAreTruthful
  <2>1. CASE handler[q].at = "asleep"
    BY <1>2, <2>1 DEF Honest
  <2>2. CASE handler[q].at # "asleep"
    <3>1. handler'[q] = handler[q]
      BY <1>1, <2>2, AwakenTyped
    <3> QED BY <1>1, <3>1 DEF FlagsAreTruthful
  <2> QED BY <2>1, <2>2
<1> QED BY <1>2, <1>3, <1>4, <1>5

\* A step of one query, seen from its place.
LEMMA QueryMoves ==
  ASSUME IInv, NEW q \in Queries, handler' \in [Queries -> Handlers],
         \A p \in Queries : p # q => handler'[p] = handler[p],
         handler'[q].todo # <<>> => handler'[q].at = "running",
         Honest(handler'[q])
  PROVE  /\ HandlersTyped' /\ FlagsAreTruthful'
         /\ handler[q].at # "posting" /\ permit' = permit => PermitsHeld'
         /\ permit' = permit \ {q} => PermitsHeld'
<1>1. PermitsHeld /\ HandlersTyped /\ FlagsAreTruthful
  BY TypedParts DEF IInv
<1>2. HandlersTyped'
  BY <1>1 DEF HandlersTyped
<1>3. FlagsAreTruthful'
  BY <1>1 DEF FlagsAreTruthful
<1>4. \A p \in permit : p \in Queries /\ handler[p].at = "posting"
  BY <1>1 DEF PermitsHeld, At
<1>5. handler[q].at # "posting" /\ permit' = permit => PermitsHeld'
  BY <1>1, <1>4, PermitsKept
<1>6. ASSUME permit' = permit \ {q} PROVE PermitsHeld'
  <2>1. permit' \in SUBSET permit /\ IsFiniteSet(permit)
    BY <1>1, <1>6 DEF PermitsHeld
  <2>2. IsFiniteSet(permit') /\ Cardinality(permit') <= Cardinality(permit)
        /\ Cardinality(permit) \in Nat /\ Cardinality(permit') \in Nat
    BY <2>1, FS_Subset, FS_CardinalityType
  <2>3. permit' \subseteq At({"posting"})'
    BY <1>4, <1>6 DEF At
  <2> QED BY <1>1, <2>2, <2>3, ConstantFacts DEF PermitsHeld
<1> QED BY <1>2, <1>3, <1>5, <1>6

(***************************************************************************)
(* The steps.                                                              *)
(***************************************************************************)

\* The decision service and the repository come and go.
LEMMA EnvironmentStep ==
  ASSUME IInv, Environment
  PROVE  IInv'
<1>1. Scalars /\ Served
  BY TypedParts, ServedPlaces DEF IInv
<1>2. UNCHANGED <<daemon, ready, terminal, monitor, failed, permit, handler>>
  BY DEF Environment, Outage, Recover, Retire, provider
<1>3. healthy' \in BOOLEAN /\ indexed' \in BOOLEAN
  BY <1>1 DEF Environment, Outage, Recover, Retire, Scalars
<1>4. outages' \in 0 .. MaxOutages
  <2>1. outages' = outages \/ (outages < MaxOutages /\ outages' = outages + 1)
    BY DEF Environment, Outage, Recover, Retire
  <2> QED BY <1>1, <2>1, ConstantFacts DEF Scalars
<1>5. Scalars' /\ Served'
  BY <1>1, <1>2, <1>3, <1>4 DEF Scalars, Served
<1> QED BY <1>2, <1>5, HandlersKept, Assembled

\* start, and the probe that only reads.
LEMMA StartStep ==
  ASSUME IInv, StartDaemon \/ Probe \/ Shutdown
  PROVE  IInv'
<1>1. Scalars /\ Served
  BY TypedParts, ServedPlaces DEF IInv
<1>2. UNCHANGED <<healthy, outages, indexed, terminal, failed, permit, handler>>
  BY DEF StartDaemon, Probe, Shutdown, world, provider
<1>3. Scalars' /\ Served'
  <2>1. CASE StartDaemon
    <3>1. ~terminal /\ \A q \in Queries : handler[q].at # "asleep"
      BY <1>1, <2>1 DEF StartDaemon, Served, Busy
    <3>2. CASE healthy
      <4>1. daemon' = "serving" /\ ready' = healthy /\ monitor' = "asleep"
        BY <2>1, <3>2 DEF StartDaemon
      <4> QED BY <1>1, <1>2, <3>1, <4>1 DEF Scalars, Served
    <3>3. CASE ~healthy
      <4>1. daemon' = "closed" /\ ready' = healthy /\ monitor' = "off" /\ daemon = "starting"
        BY <2>1, <3>3 DEF StartDaemon
      <4> QED BY <1>1, <1>2, <3>1, <3>3, <4>1 DEF Scalars, Served
    <3> QED BY <3>2, <3>3
  <2>2. CASE Probe
    <3>1. UNCHANGED <<daemon, ready>> /\ monitor = "asleep" /\ monitor' \in {"up", "down"}
      BY <2>2 DEF Probe
    <3> QED BY <1>1, <1>2, <3>1 DEF Scalars, Served
  <2>3. CASE Shutdown
    <3>1. UNCHANGED <<ready, monitor>> /\ daemon = "serving" /\ daemon' = "draining"
      BY <2>3 DEF Shutdown, provider
    <3> QED BY <1>1, <1>2, <3>1 DEF Scalars, Served
  <2> QED BY <2>1, <2>2, <2>3
<1> QED BY <1>2, <1>3, HandlersKept, Assembled

\* _publish_health: whatever it publishes, it wakes who sleeps.
LEMMA PublishStep ==
  ASSUME IInv, Publish
  PROVE  IInv'
<1>1. Scalars /\ Served
  BY TypedParts, ServedPlaces DEF IInv
<1>2. UNCHANGED <<healthy, outages, indexed, daemon, permit>> /\ Awaken
  BY DEF Publish, world
<1>3. /\ PermitsHeld' /\ HandlersTyped' /\ FlagsAreTruthful'
      /\ \A p \in Queries : handler'[p].at = IF handler[p].at = "asleep" THEN "waiting" ELSE handler[p].at
  BY <1>2, SleepersWoken
<1>4. ~terminal /\ failed \in 0 .. RecoveryProbes /\ failed # RecoveryProbes
      /\ daemon \in {"serving", "draining"}
  BY <1>1 DEF Publish, Scalars, Served
<1>5. failed' \in 0 .. RecoveryProbes
  <2>1. failed' = 0 \/ failed' = failed + 1
    BY DEF Publish
  <2> QED BY <1>4, <2>1, ConstantFacts
<1>6. /\ terminal' = (failed' = RecoveryProbes) /\ ready' \in BOOLEAN
      /\ monitor' = IF terminal' THEN "giving_up" ELSE "asleep"
  BY DEF Publish
<1>7. Scalars'
  BY <1>1, <1>2, <1>5, <1>6 DEF Scalars
<1>8. Served'
  BY <1>2, <1>3, <1>4, <1>6 DEF Served
<1> QED BY <1>3, <1>7, <1>8, Assembled

\* The end of a recovery drains the daemon; the sleepers it wakes are rejected.
LEMMA GiveUpStep ==
  ASSUME IInv, GiveUp
  PROVE  IInv'
<1>1. Scalars /\ Served
  BY TypedParts, ServedPlaces DEF IInv
<1>2. UNCHANGED <<healthy, outages, indexed, ready, terminal, failed, permit>> /\ Awaken
  BY DEF GiveUp, world
<1>3. /\ PermitsHeld' /\ HandlersTyped' /\ FlagsAreTruthful'
      /\ \A p \in Queries : handler'[p].at = IF handler[p].at = "asleep" THEN "waiting" ELSE handler[p].at
  BY <1>2, SleepersWoken
<1>4. /\ monitor' = "off" /\ terminal /\ daemon \in {"serving", "draining"}
      /\ daemon' = "draining"
  BY <1>1 DEF GiveUp, Scalars, Served
<1>5. Scalars'
  BY <1>1, <1>2, <1>4 DEF Scalars
<1>6. Served'
  BY <1>1, <1>2, <1>3, <1>4 DEF Served
<1> QED BY <1>3, <1>5, <1>6, Assembled

\* The provider is closed when no query is left.
LEMMA CloseStep ==
  ASSUME IInv, CloseProvider
  PROVE  IInv'
<1>1. Scalars /\ Served
  BY TypedParts, ServedPlaces DEF IInv
<1>2. UNCHANGED <<healthy, outages, indexed, terminal, failed, permit>> /\ Awaken
  BY DEF CloseProvider, world
<1>3. /\ PermitsHeld' /\ HandlersTyped' /\ FlagsAreTruthful'
      /\ \A p \in Queries : handler'[p].at = IF handler[p].at = "asleep" THEN "waiting" ELSE handler[p].at
  BY <1>2, SleepersWoken
<1>4. monitor' = "off" /\ ready' = FALSE /\ daemon' = "closed"
  BY DEF CloseProvider
<1>5. \A q \in Queries : ~Busy(handler[q].at)
  BY DEF CloseProvider, InFlight, At, Busy
<1>6. \A q \in Queries : handler[q].at # "asleep" /\ handler'[q].at = handler[q].at
  BY <1>3, <1>5 DEF Busy
<1>7. Scalars'
  <2>1. ready' \in BOOLEAN
    BY <1>4
  <2> QED BY <1>1, <1>2, <1>4, <2>1 DEF Scalars
<1>8. Served'
  BY <1>1, <1>2, <1>4, <1>5, <1>6 DEF Served
<1> QED BY <1>3, <1>7, <1>8, Assembled

\* A query moves: nothing that the monitor owes anybody gets worse, unless it
\* starts to wait with the daemon down or to sleep with the monitor gone.
LEMMA MoveStep ==
  ASSUME IInv, NEW q \in Queries, UNCHANGED <<world, daemon, provider>>,
         handler' \in [Queries -> Handlers],
         \A p \in Queries : p # q => handler'[p] = handler[p],
         handler'[q].todo # <<>> => handler'[q].at = "running",
         Honest(handler'[q]),
         PermitsHeld',
         Busy(handler[q].at) \/ daemon = "serving",
         handler'[q].at = "asleep" => ~IsReady /\ ~terminal
  PROVE  IInv'
<1>1. Scalars /\ Served
  BY TypedParts, ServedPlaces DEF IInv
<1>2. UNCHANGED <<healthy, outages, indexed, daemon, ready, terminal, monitor, failed>>
  BY DEF world, provider
<1>3. HandlersTyped' /\ FlagsAreTruthful'
  BY QueryMoves
<1>4. daemon \in {"serving", "draining"}
  BY <1>1 DEF Scalars, Served
<1>5. Scalars'
  BY <1>1, <1>2 DEF Scalars
<1>6. Served'
  BY <1>1, <1>2, <1>4 DEF Served, IsReady
<1> QED BY <1>3, <1>5, <1>6, Assembled

\* A query asks, waits for the provider and is admitted or rejected.
LEMMA WaitStep ==
  ASSUME IInv, NEW q \in Queries, Ask(q) \/ Wait(q) \/ Post(q) \/ Return(q)
  PROVE  IInv'
<1>1. PICK place \in {"waiting", "asleep", "asking", "posting", "answered", "raised"} :
        /\ Goto(q, place)
        /\ place = "asleep" => ~IsReady /\ ~terminal
        /\ place = "answered" => handler[q].at = "running"
  BY DEF Ask, Wait, FallAsleep, Reject, Admit, Post, Return, At
<1>2. Typed /\ PermitsHeld /\ FlagsAreTruthful /\ HandlersTyped
  BY TypedParts DEF IInv
<1>3. UNCHANGED <<world, daemon, provider>>
  BY DEF Ask, Wait, FallAsleep, Reject, Admit, Post, Return
<1>4. handler[q].todo = <<>> /\ handler[q].at # "posting"
  BY <1>2 DEF Ask, Wait, FallAsleep, Reject, Admit, Post, Return, At, HandlersTyped
<1>5. /\ handler' \in [Queries -> Handlers]
      /\ handler'[q] = [handler[q] EXCEPT !.at = place]
      /\ handler'[q].at = place
      /\ \A p \in Queries : p # q => handler'[p] = handler[p]
      /\ handler'[q].todo # <<>> => handler'[q].at = "running"
  BY <1>1, <1>2, <1>4, GotoTyped
<1>6. Honest(handler'[q])
  <2>1. handler[q] \in Handlers
    BY <1>2 DEF HandlersTyped
  <2>2. /\ handler'[q].todo = handler[q].todo /\ handler'[q].owed = handler[q].owed
        /\ handler'[q].silent = handler[q].silent /\ handler'[q].followed = handler[q].followed
    BY <1>5, <2>1 DEF Handlers
  <2>3. Complete(handler'[q]) <=> Complete(handler[q])
    BY <1>5, <2>1 DEF Complete, Handlers
  <2>4. Due(handler'[q]) = Due(handler[q])
    BY <2>2 DEF Due
  <2>5. Honest(handler[q])
    BY <1>2 DEF FlagsAreTruthful
  <2>6. CASE place = "answered"
    BY <1>1, <2>2, <2>3, <2>4, <2>5, <2>6 DEF Honest
  <2>7. CASE place # "answered"
    BY <1>5, <2>7 DEF Honest
  <2> QED BY <2>6, <2>7
<1>7. PermitsHeld'
  <2>1. CASE permit' = permit
    BY <1>2, <1>4, <1>5, <1>6, <2>1, QueryMoves
  <2>2. CASE Post(q)
    <3>1. permit' = permit \cup {q} /\ Cardinality(permit) < MaxConcurrency /\ IsFiniteSet(permit)
      BY <1>2, <2>2 DEF Post, PermitsHeld
    <3>2. q \notin permit
      BY <1>2, <1>4 DEF PermitsHeld, At
    <3>3. IsFiniteSet(permit') /\ Cardinality(permit') = Cardinality(permit) + 1
          /\ Cardinality(permit) \in Nat
      BY <3>1, <3>2, FS_AddElement, FS_CardinalityType
    <3>4. handler'[q].at = "posting"
      <4>1. handler' = [handler EXCEPT ![q].at = "posting"]
        BY <2>2 DEF Post, Goto
      <4>2. handler \in [Queries -> Handlers] /\ handler[q] \in Handlers
        BY <1>2 DEF HandlersTyped
      <4> QED BY <4>1, <4>2 DEF Handlers
    <3>5. permit' \subseteq At({"posting"})'
      BY <1>2, <1>5, <3>1, <3>2, <3>4 DEF PermitsHeld, At
    <3> QED BY <3>1, <3>3, <3>5, ConstantFacts DEF PermitsHeld
  <2> QED BY <2>1, <2>2 DEF Ask, Wait, FallAsleep, Reject, Admit, Return
<1>8. Busy(handler[q].at) \/ daemon = "serving"
  BY DEF Ask, Wait, FallAsleep, Reject, Admit, Post, Return, At, Busy
<1> QED BY <1>1, <1>3, <1>5, <1>6, <1>7, <1>8, MoveStep

\* A decision, or its failure, starts the playbook.
LEMMA RouteStep ==
  ASSUME IInv, NEW q \in Queries, Decide(q) \/ ClassifierFails(q)
  PROVE  IInv'
<1>1. PICK decision \in Playbooks \cup {"none"} : Route(q, decision)
  <2>1. CASE Decide(q)
    BY <2>1 DEF Decide, Eligible
  <2>2. CASE ClassifierFails(q)
    BY <2>2 DEF ClassifierFails
  <2> QED BY <2>1, <2>2
<1>2. Typed
  BY DEF IInv
<1>3. /\ handler' \in [Queries -> Handlers] /\ permit' = permit \ {q}
      /\ \A p \in Queries : p # q => handler'[p] = handler[p]
      /\ handler'[q].at = "running"
      /\ Honest(handler'[q])
  BY <1>1, <1>2, RouteTyped
<1>4. UNCHANGED <<world, daemon, provider>>
  BY <1>1 DEF Route
<1>5. Honest(handler'[q])
  BY <1>3
<1>6. PermitsHeld'
  BY <1>3, <1>5, QueryMoves
<1>7. Busy(handler[q].at)
  BY DEF Decide, ClassifierFails, At, Busy
<1> QED BY <1>3, <1>4, <1>5, <1>6, <1>7, MoveStep

\* A stage ends, by an answer or an error, or the deadline ends them all.
LEMMA RunStep ==
  ASSUME IInv, NEW q \in Queries, Stage(q) \/ StageFails(q) \/ Deadline(q)
  PROVE  IInv'
<1>1. Typed /\ FlagsAreTruthful /\ HandlersTyped
  BY TypedParts DEF IInv
<1>2. handler[q].at = "running" /\ handler[q].todo # <<>> /\ permit' = permit
      /\ UNCHANGED <<world, daemon, provider>>
  BY DEF Stage, StageFails, Deadline, Finish, At
<1>3. Honest(handler[q])
  BY <1>1 DEF FlagsAreTruthful
<1>4. /\ handler' \in [Queries -> Handlers]
      /\ \A p \in Queries : p # q => handler'[p] = handler[p]
      /\ handler'[q].at = "running"
      /\ Honest(handler'[q])
  <2>1. ASSUME NEW a, Truthful(a), Finish(q, a)
        PROVE  /\ handler' \in [Queries -> Handlers]
               /\ \A p \in Queries : p # q => handler'[p] = handler[p]
               /\ handler'[q].at = "running"
               /\ Honest(handler'[q])
    BY <1>1, <1>2, <1>3, <2>1, FinishTyped
  <2>2. CASE Stage(q)
    <3>1. PICK a \in Answers(Head(handler[q].todo), RequestOf[q].mode) : Finish(q, a)
      BY <2>2 DEF Stage
    <3>2. Truthful(a)
      BY AnswersAreTruthful, ConstantFacts
    <3> QED BY <2>1, <3>1, <3>2
  <2>3. CASE StageFails(q)
    <3>1. Truthful(Answer(TRUE, TRUE, "part", 0))
      BY DEF Truthful, Answer
    <3> QED BY <2>1, <2>3, <3>1 DEF StageFails
  <2>4. CASE Deadline(q)
    <3> DEFINE old == handler[q]
               h == [handler[q] EXCEPT !.todo = <<>>, !.degraded = TRUE, !.truncated = TRUE]
    <3>1. handler' = [handler EXCEPT ![q] = h]
      BY <2>4 DEF Deadline
    <3>2. old \in Handlers /\ handler \in [Queries -> Handlers]
      BY <1>1 DEF HandlersTyped
    <3>3. <<>> \in Seq(Stages) /\ InOrder(<<>>) /\ Results(<<>>) = 0
      <4>1. <<>> \in Seq(Stages)
        OBVIOUS
      <4>2. InOrder(<<>>)
        BY DEF InOrder
      <4>3. Results(<<>>) = 0
        BY <4>1, ResultsTyped
      <4> QED BY <4>1, <4>2, <4>3
    <3>4. h \in Handlers
      BY <3>2, <3>3 DEF Handlers
    <3>5. /\ h.at = old.at /\ h.todo = <<>> /\ h.degraded = TRUE
          /\ h.owed = old.owed /\ h.silent = old.silent
      BY <3>2 DEF Handlers
    <3>6. old.at = "running" /\ old.todo # <<>> /\ old.todo \in Seq(Stages)
          /\ old.owed \in Int /\ old.silent \in Nat
      BY <1>2, <3>2 DEF Handlers
    <3>7. old.owed >= Results(old.todo) + old.silent
      BY <1>2, <1>3 DEF Honest, Due
    <3> HIDE DEF h, old
    <3>8. handler'[q] = h /\ handler' \in [Queries -> Handlers]
          /\ \A p \in Queries : p # q => handler'[p] = handler[p]
      BY <3>1, <3>2, <3>4 DEF old
    <3>9. Results(old.todo) \in Nat /\ Results(old.todo) # 0
      BY <3>6, ResultsTyped
    <3>10. ~Complete(h) /\ h.owed > Due(h)
      BY <3>3, <3>5, <3>6, <3>7, <3>9 DEF Complete, Due
    <3>11. Due(h) \in Int /\ h.owed \in Int
      BY <3>3, <3>5, <3>6 DEF Due
    <3>12. Honest(h)
      BY <3>3, <3>5, <3>10, <3>11 DEF Honest
    <3> QED BY <3>5, <3>6, <3>8, <3>12
  <2> QED BY <2>2, <2>3, <2>4
<1>5. Honest(handler'[q])
  BY <1>4
<1>6. PermitsHeld'
  BY <1>2, <1>4, <1>5, QueryMoves
<1> QED BY <1>2, <1>4, <1>5, <1>6, MoveStep DEF Busy

LEMMA NextIInv == IInv /\ [Next]_vars => IInv'
<1> SUFFICES ASSUME IInv, [Next]_vars PROVE IInv'
  OBVIOUS
<1>1. CASE Environment
  BY <1>1, EnvironmentStep
<1>2. CASE Monitor
  BY <1>2, StartStep, PublishStep, GiveUpStep DEF Monitor
<1>3. CASE Daemon \/ Shutdown
  BY <1>3, StartStep, CloseStep DEF Daemon
<1>4. ASSUME NEW q \in Queries, Ask(q) \/ Wait(q) \/ Classify(q) \/ Run(q)
      PROVE  IInv'
  BY <1>4, WaitStep, RouteStep, RunStep DEF Classify, Run
<1>5. CASE UNCHANGED vars
  <2>1. UNCHANGED <<healthy, outages, indexed, daemon, ready, terminal, monitor, failed, permit, handler>>
    BY <1>5 DEF vars, world, provider
  <2>2. Scalars /\ Served
    BY TypedParts, ServedPlaces DEF IInv
  <2>3. Scalars' /\ Served'
    BY <2>1, <2>2 DEF Scalars, Served
  <2> QED BY <2>1, <2>3, HandlersKept, Assembled
<1> QED BY <1>1, <1>2, <1>3, <1>4, <1>5 DEF Next

\* A query and the monitor stay what they are typed to be: a permit is held by a
\* query that posts, no more are held than decision_max_concurrency, and only a
\* running playbook has stages left.
THEOREM QueryTypes == Spec => []TypeOK
<1>1. IInv => TypeOK
  BY DEF IInv, Typed
<1> QED BY InitIInv, NextIInv, <1>1, PTL DEF Spec

\* QueryOrchestrator.query: whatever the limits, the decision, the stages, the outages,
\* the deadlines and a deletion between two stages, an answer without a mark is one that
\* follows the classifier and owes no result, except those for which a route other than
\* the search found no index and was silent about it.
THEOREM AnswersAreHonest == Spec => []CompletenessIsTruthful
<1>1. IInv => CompletenessIsTruthful
  <2> SUFFICES ASSUME IInv, NEW q \in At({"answered"})
               PROVE  Complete(handler[q]) <=>
                        handler[q].followed /\ handler[q].owed = handler[q].silent
    BY DEF CompletenessIsTruthful
  <2>1. q \in Queries /\ handler[q].at = "answered"
    BY DEF At
  <2>2. handler[q] \in Handlers /\ handler[q].todo = <<>> /\ Honest(handler[q])
    BY <2>1 DEF IInv, Typed, TypeOK, FlagsAreTruthful
  <2>3. handler[q].silent \in Nat
    BY <2>2 DEF Handlers
  <2>4. Results(handler[q].todo) = 0
    BY <2>2, ResultsTyped, EmptySeq
  <2>5. Due(handler[q]) = handler[q].silent
    BY <2>3, <2>4 DEF Due
  <2> QED BY <2>1, <2>2, <2>5 DEF Honest
<1> QED BY InitIInv, NextIInv, <1>1, PTL DEF Spec

\* LayaDecisionProvider and the server's drain: no query outlives the provider
\* it needs, and a query sleeps only while the monitor is bound to wake it.
THEOREM NoSleeperIsForgotten == Spec => []MonitorServesSleepers
<1>1. IInv => MonitorServesSleepers
  BY DEF IInv
<1> QED BY InitIInv, NextIInv, <1>1, PTL DEF Spec
=============================================================================
