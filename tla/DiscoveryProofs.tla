--------------------------- MODULE DiscoveryProofs ---------------------------
(***************************************************************************)
(* What discovery may never take for a source, and where its two           *)
(* implementations agree, for every tree of files, links and ignore rules. *)
(***************************************************************************)
EXTENDS Discovery, FiniteSetTheorems, WellFoundedInduction, TLAPS

\* The variables keep their types, and a mount is never a link of its own.
THEOREM TypeCorrect == Spec => []TypeOK
<1>1. Init => TypeOK
  BY DiscoveryAssumption DEF Init, TypeOK
<1>2. TypeOK /\ [Next]_vars => TypeOK'
  <2> SUFFICES ASSUME TypeOK, [Next]_vars PROVE TypeOK'
    OBVIOUS
  <2>1. ASSUME NEW f \in Files, NEW c \in {"text", "binary", "huge", "gone"}, Write(f, c)
        PROVE  TypeOK'
    BY <2>1, DiscoveryAssumption DEF TypeOK, Write, Change
  <2>2. ASSUME NEW f \in Files, NEW t \in Files \cup {Outside}, Link(f, t)
        PROVE  TypeOK'
    BY <2>2, DiscoveryAssumption DEF TypeOK, Link, Change
  <2>3. ASSUME NEW f \in Files, NEW r \in {"none", "root", "nested"}, Ignore(f, r)
        PROVE  TypeOK'
    BY <2>3, DiscoveryAssumption DEF TypeOK, Ignore, Change
  <2>4. ASSUME NEW f \in Files, Track(f)
        PROVE  TypeOK'
    BY <2>4, DiscoveryAssumption DEF TypeOK, Track, Change
  <2>5. ASSUME NEW d \in Mounts, NEW kind \in Kinds, Replace(d, kind)
        PROVE  TypeOK'
    <3>1. Mounts \subseteq Files
      BY DiscoveryAssumption
    <3>2. /\ content' \in [Files -> {"text", "binary", "huge", "gone"}]
          /\ target' \in [Files -> Files \cup {Outside}]
          /\ \A e \in Mounts : target'[e] = e
      BY <2>5, <3>1 DEF TypeOK, Replace
    <3>3. tracked' \subseteq Files /\ mount' \in [Mounts -> Kinds]
      BY <2>5, <3>1 DEF TypeOK, Replace
    <3>4. changes' \in 0 .. MaxChanges
      BY <2>5, DiscoveryAssumption DEF TypeOK, Replace, Change
    <3> QED BY <2>5, <3>2, <3>3, <3>4 DEF TypeOK, Replace
  <2>6. CASE GitChanges
    BY <2>6, DiscoveryAssumption DEF TypeOK, GitChanges, Change
  <2>7. CASE UNCHANGED vars
    BY <2>7 DEF TypeOK, vars
  <2> QED BY <2>1, <2>2, <2>3, <2>4, <2>5, <2>6, <2>7 DEF Next
<1> QED BY <1>1, <1>2, PTL DEF Spec

\* _resolved_file_in_repo: what a path leads to is a file of the repository.
LEMMA Resolution ==
  ASSUME TypeOK, NEW f \in Files, Exists(f)
  PROVE  Resolve(f) \in Files
BY DiscoveryAssumption DEF Exists, Resolve

\* What is not ignored and its rule: the root rules are known to everyone.
LEMMA NotIgnored ==
  ASSUME TypeOK, NEW paths \in SUBSET Files, NEW p \in paths, p \notin Ignored(paths)
  PROVE  /\ rule[p] = "root" => p \in tracked
         /\ Answers(paths) => rule[p] = "none" \/ p \in tracked
BY DEF TypeOK, Ignored

\* What both ways require of the name and of the target of a source.
Visible(p, judged) ==
  /\ ~Skipped(p)
  /\ rule[p] = "root" => p \in tracked
  /\ judged => rule[p] = "none" \/ p \in tracked

\* discover judges the path by Git's listing, and its target as a target.
LEMMA DiscoveredIsVisible ==
  ASSUME TypeOK, NEW f \in Discovered
  PROVE  /\ f \in Files /\ Exists(f) /\ content[Resolve(f)] # "huge"
         /\ \A p \in {f, Resolve(f)} : Visible(p, listing /\ checking /\ TargetsAnswered)
<1>1. /\ f \in Candidates /\ Exists(f) /\ ~Skipped(f) /\ ~Skipped(Resolve(f))
      /\ content[Resolve(f)] # "huge"
      /\ Resolve(f) \notin Ignored(AliasTargets(Candidates))
  BY DEF Discovered, Readable
<1>2. /\ f \in Files
      /\ rule[f] = "root" => f \in tracked
      /\ listing => rule[f] = "none" \/ f \in tracked
  <2>1. CASE listing
    BY <1>1, <2>1 DEF Candidates, Listed
  <2>2. CASE ~listing
    <3>1. Walked \in SUBSET Files /\ f \in Walked /\ f \notin Ignored(Walked)
      BY <1>1, <2>2 DEF Candidates, Walked
    <3> QED BY <2>2, <3>1, NotIgnored
  <2> QED BY <2>1, <2>2
<1>3. /\ rule[Resolve(f)] = "root" => Resolve(f) \in tracked
      /\ listing /\ TargetsAnswered => rule[Resolve(f)] = "none" \/ Resolve(f) \in tracked
  <2>1. CASE ~IsAlias(f)
    BY <1>2, <2>1 DEF IsAlias
  <2>2. CASE IsAlias(f)
    <3>1. Resolve(f) \in AliasTargets(Candidates)
      BY <1>1, <2>2 DEF AliasTargets
    <3>2. AliasTargets(Candidates) \in SUBSET Files
      <4>1. Candidates \subseteq Files
        BY DEF Candidates, Listed, Walked
      <4> QED BY <4>1, Resolution DEF AliasTargets
    <3> QED BY <1>1, <3>1, <3>2, NotIgnored DEF TargetsAnswered
  <2> QED BY <2>1, <2>2
<1> QED BY <1>1, <1>2, <1>3 DEF Visible

\* build_file_entry judges both names in one question.
LEMMA AcceptedIsVisible ==
  ASSUME TypeOK, NEW f \in Files, Accepts(f)
  PROVE  /\ Exists(f) /\ content[Resolve(f)] # "huge"
         /\ \A p \in {f, Resolve(f)} : Visible(p, Answers({f, Resolve(f)}))
<1>1. /\ Exists(f) /\ content[Resolve(f)] # "huge"
      /\ ~Skipped(f) /\ ~Skipped(Resolve(f)) /\ Ignored({f, Resolve(f)}) = {}
  BY DEF Accepts, Readable
<1>2. {f, Resolve(f)} \in SUBSET Files
  BY <1>1, Resolution
<1> QED BY <1>1, <1>2, NotIgnored DEF Visible

\* discover and build_file_entry (discovery.py:437, discovery.py:510): no source lies
\* outside the repository, is oversized or in a skipped directory, under any of its
\* names, nor untracked under a rule that the answers it was judged by know.
THEOREM OnlyVisibleSources == Spec => []SourcesAreVisible
<1>1. TypeOK => SourcesAreVisible
  <2> SUFFICES ASSUME TypeOK, NEW f \in Files, f \in Discovered \/ Accepts(f)
               PROVE  /\ Exists(f) /\ content[Resolve(f)] # "huge"
                      /\ \A p \in {f, Resolve(f)} :
                           Visible(p, /\ listing /\ checking /\ TargetsAnswered
                                      /\ Answers({f, Resolve(f)}))
    BY DEF SourcesAreVisible, Visible
  <2> QED BY DiscoveredIsVisible, AcceptedIsVisible DEF Visible
<1> QED BY <1>1, TypeCorrect, PTL

(***************************************************************************)
(* Counting and adding up.                                                 *)
(***************************************************************************)

\* Sizes are one or the other, so a sum of sizes is a matter of counting.
Huge(files) == {f \in files : Exists(f) /\ content[Resolve(f)] = "huge"}
Weight(files) == HugeBytes * Cardinality(Huge(files)) + Cardinality(files \ Huge(files))

\* One file less weighs its size less.
LEMMA WeightOfRest ==
  ASSUME NEW files \in SUBSET Files, NEW f \in files
  PROVE  /\ Weight(files) \in Nat
         /\ Weight(files) = Size(f) + Weight(files \ {f})
<1>1. IsFiniteSet(files) /\ Huge(files) \subseteq files
  BY FS_Subset, DiscoveryAssumption DEF Huge
<1> DEFINE rest == files \ {f}
<1>2. /\ IsFiniteSet(Huge(files)) /\ IsFiniteSet(files \ Huge(files))
      /\ IsFiniteSet(Huge(rest)) /\ IsFiniteSet(rest \ Huge(rest))
  <2>1. /\ Huge(rest) \subseteq files /\ rest \ Huge(rest) \subseteq files
        /\ files \ Huge(files) \subseteq files
    BY DEF Huge
  <2> QED BY <1>1, <2>1, FS_Subset
<1>3. /\ Cardinality(Huge(files)) \in Nat /\ Cardinality(files \ Huge(files)) \in Nat
      /\ Cardinality(Huge(rest)) \in Nat /\ Cardinality(rest \ Huge(rest)) \in Nat
      /\ HugeBytes \in Nat
  BY <1>2, FS_CardinalityType, DiscoveryAssumption
<1>4. CASE f \in Huge(files)
  <2>1. Size(f) = HugeBytes
    BY <1>4 DEF Size, Huge
  <2>2. Huge(rest) = Huge(files) \ {f} /\ rest \ Huge(rest) = files \ Huge(files)
    BY <1>4 DEF Huge
  <2> HIDE DEF rest
  <2>3. Cardinality(Huge(rest)) = Cardinality(Huge(files)) - 1
    <3>1. Cardinality(Huge(files) \ {f}) = Cardinality(Huge(files)) - 1
      BY <1>2, <1>4, FS_RemoveElement
    <3> QED BY <2>2, <3>1
  <2>4. Cardinality(Huge(files)) = Cardinality(Huge(rest)) + 1
    BY <1>3, <2>3
  <2>5. HugeBytes * Cardinality(Huge(files)) = HugeBytes + HugeBytes * Cardinality(Huge(rest))
    BY <1>3, <2>4
  <2>6. HugeBytes * Cardinality(Huge(rest)) \in Nat /\ HugeBytes * Cardinality(Huge(files)) \in Nat
    BY <1>3
  <2>7. /\ Weight(rest) = HugeBytes * Cardinality(Huge(rest)) + Cardinality(rest \ Huge(rest))
        /\ Weight(files) = HugeBytes * Cardinality(Huge(files)) + Cardinality(files \ Huge(files))
    BY DEF Weight
  <2>8. Weight(files) \in Nat /\ Weight(files) = Size(f) + Weight(rest)
    <3> DEFINE a == HugeBytes * Cardinality(Huge(rest))
               b == HugeBytes * Cardinality(Huge(files))
               c == Cardinality(files \ Huge(files))
    <3>1. a \in Nat /\ b \in Nat /\ c \in Nat /\ b = HugeBytes + a /\ HugeBytes \in Nat
      BY <1>3, <2>5, <2>6
    <3>2. Weight(rest) = a + c /\ Weight(files) = b + c
      BY <2>2, <2>7
    <3> HIDE DEF a, b, c
    <3> QED BY <2>1, <3>1, <3>2
  <2> QED BY <2>8 DEF rest
<1>5. CASE f \notin Huge(files)
  <2>1. Size(f) = 1
    BY <1>5 DEF Size, Huge
  <2>2. Huge(rest) = Huge(files) /\ rest \ Huge(rest) = (files \ Huge(files)) \ {f}
        /\ f \in files \ Huge(files)
    BY <1>5 DEF Huge
  <2> HIDE DEF rest
  <2>3. Cardinality(rest \ Huge(rest)) = Cardinality(files \ Huge(files)) - 1
    <3>1. Cardinality((files \ Huge(files)) \ {f}) = Cardinality(files \ Huge(files)) - 1
      BY <1>2, <2>2, FS_RemoveElement
    <3> QED BY <2>2, <3>1
  <2>6. HugeBytes * Cardinality(Huge(files)) \in Nat
    BY <1>3
  <2> QED BY <1>3, <2>1, <2>2, <2>3, <2>6 DEF Weight, rest
<1> QED BY <1>4, <1>5

\* The fold of the sizes, in whatever order it takes the files, gives their weight.
LEMMA SumIsWeight ==
  ASSUME NEW files \in SUBSET Files
  PROVE  MapThenSumSet(Size, files) = Weight(files)
<1> DEFINE pick(s) == CHOOSE x \in s : TRUE
           Folds(g) == g = [s \in SUBSET files |->
                              IF s = {} THEN 0 ELSE Size(pick(s)) + g[s \ {pick(s)}]]
           fold == CHOOSE g : Folds(g)
           weights == [s \in SUBSET files |-> Weight(s)]
<1>1. MapThenSumSet(Size, files) = fold[files]
  BY DEF MapThenSumSet, MapThenFoldSet
<1>2. \A s \in SUBSET files : s # {} =>
        /\ pick(s) \in s /\ s \ {pick(s)} \in SUBSET files
        /\ Weight(s) = Size(pick(s)) + Weight(s \ {pick(s)})
  <2> SUFFICES ASSUME NEW s \in SUBSET files, s # {}
               PROVE  /\ pick(s) \in s
                      /\ Weight(s) = Size(pick(s)) + Weight(s \ {pick(s)})
    OBVIOUS
  <2>1. pick(s) \in s
    OBVIOUS
  <2>2. s \in SUBSET Files
    OBVIOUS
  <2> QED BY <2>1, <2>2, WeightOfRest
<1>3. Weight({}) = 0
  <2>1. Huge({}) = {}
    BY DEF Huge
  <2>2. {} \ {} = {}
    OBVIOUS
  <2>3. HugeBytes * 0 + 0 = 0
    BY DiscoveryAssumption
  <2> QED BY <2>1, <2>2, <2>3, FS_EmptySet DEF Weight
<1> HIDE DEF pick
<1>4. Folds(weights)
  <2>1. \A s \in SUBSET files :
          weights[s] = IF s = {} THEN 0 ELSE Size(pick(s)) + weights[s \ {pick(s)}]
    BY <1>2, <1>3
  <2> QED BY <2>1
<1>5. Folds(fold)
  <2> HIDE DEF Folds, weights
  <2> QED BY <1>4
<1> HIDE DEF fold
<1>6. \A s \in SUBSET files : fold[s] = IF s = {} THEN 0 ELSE Size(pick(s)) + fold[s \ {pick(s)}]
  BY <1>5
<1> DEFINE wrong == {s \in SUBSET files : fold[s] # Weight(s)}
<1>7. wrong = {}
  <2> SUFFICES ASSUME wrong # {} PROVE FALSE
    OBVIOUS
  <2>1. IsFiniteSet(files)
    BY FS_Subset, DiscoveryAssumption
  <2>2. IsWellFoundedOn(StrictSubsetOrdering(files), SUBSET files)
    BY <2>1, FS_StrictSubsetOrderingWellFounded, FS_FiniteSubsetsOfFinite
  <2>3. wrong \subseteq SUBSET files
    OBVIOUS
  <2>4. PICK s \in wrong : \A t \in wrong : <<t, s>> \notin StrictSubsetOrdering(files)
    <3> HIDE DEF wrong
    <3> QED BY <2>2, <2>3, WFMin
  <2>5. s \in SUBSET files /\ fold[s] # Weight(s)
    OBVIOUS
  <2>6. s # {}
    BY <1>3, <1>6, <2>5
  <2>7. s \ {pick(s)} \in wrong
    BY <1>2, <1>6, <2>5, <2>6
  <2>8. <<s \ {pick(s)}, s>> \in StrictSubsetOrdering(files)
    BY <1>2, <2>5, <2>6 DEF StrictSubsetOrdering
  <2> QED BY <2>4, <2>7, <2>8
<1>8. files \in SUBSET files
  OBVIOUS
<1> QED BY <1>1, <1>7, <1>8

\* Fewer files are not larger.
LEMMA LargeGrows ==
  ASSUME NEW more \in SUBSET Files, NEW files \in SUBSET more, ~Large(more)
  PROVE  ~Large(files)
<1>1. IsFiniteSet(more)
  BY FS_Subset, DiscoveryAssumption
<1>2. /\ files \in SUBSET Files
      /\ Huge(files) \in SUBSET Huge(more)
      /\ files \ Huge(files) \in SUBSET (more \ Huge(more))
  BY DEF Huge
<1>3. IsFiniteSet(Huge(more)) /\ IsFiniteSet(more \ Huge(more))
  <2>1. Huge(more) \in SUBSET more /\ more \ Huge(more) \in SUBSET more
    BY DEF Huge
  <2> QED BY <1>1, <2>1, FS_Subset
<1>4. /\ Cardinality(files) <= Cardinality(more)
      /\ Cardinality(Huge(files)) <= Cardinality(Huge(more))
      /\ Cardinality(files \ Huge(files)) <= Cardinality(more \ Huge(more))
      /\ IsFiniteSet(files) /\ IsFiniteSet(Huge(files)) /\ IsFiniteSet(files \ Huge(files))
  BY <1>1, <1>2, <1>3, FS_Subset
<1>5. /\ {Cardinality(files), Cardinality(more), Cardinality(Huge(files)),
          Cardinality(Huge(more)), Cardinality(files \ Huge(files)),
          Cardinality(more \ Huge(more))} \subseteq Nat
      /\ {HugeBytes, LargeDirFiles, LargeDirBytes} \subseteq Nat
  BY <1>1, <1>3, <1>4, FS_CardinalityType, DiscoveryAssumption
<1>6. HugeBytes * Cardinality(Huge(files)) <= HugeBytes * Cardinality(Huge(more))
  <2>1. \A h, a, b \in Nat : a <= b => h * a <= h * b
    OBVIOUS
  <2> QED BY <1>4, <1>5, <2>1
<1>7. Weight(files) <= Weight(more) /\ {Weight(files), Weight(more)} \subseteq Nat
  <2>1. \A h, a \in Nat : h * a \in Nat
    OBVIOUS
  <2>2. /\ HugeBytes * Cardinality(Huge(files)) \in Nat
        /\ HugeBytes * Cardinality(Huge(more)) \in Nat
    BY <1>5, <2>1
  <2> QED BY <1>4, <1>5, <1>6, <2>2 DEF Weight
<1>8. ~(Cardinality(more) > LargeDirFiles) /\ ~(Weight(more) > LargeDirBytes)
  BY SumIsWeight DEF Large
<1>9. ~(Cardinality(files) > LargeDirFiles) /\ ~(Weight(files) > LargeDirBytes)
  BY <1>4, <1>5, <1>7, <1>8
<1> QED BY <1>2, <1>9, SumIsWeight DEF Large

(***************************************************************************)
(* Where the two ways agree.                                               *)
(***************************************************************************)

\* In a small directory neither count finds a large generated one: discover counts
\* the candidates below it, build_file_entry the entries of the directory itself.
LEMMA SmallIsNotPruned ==
  ASSUME NEW d \in Directories, ~Large({g \in Files : d \in Above[g] /\ HasSize(g)})
  PROVE  ~Large(Below(d, Candidates)) /\ ~Large(Entries(d))
<1> DEFINE all == {g \in Files : d \in Above[g] /\ HasSize(g)}
<1>1. all \in SUBSET Files
  OBVIOUS
<1>2. Below(d, Candidates) \in SUBSET all
  BY DEF Below, Candidates, Listed, Walked
<1>3. Entries(d) \in SUBSET all
  BY DiscoveryAssumption DEF Entries
<1> HIDE DEF all
<1>4. ~Large(all)
  BY DEF all
<1> QED BY <1>1, <1>2, <1>3, <1>4, LargeGrows

\* In the repository's own tree check-ignore can be asked about a path.
LEMMA OwnTreeIsAnswered ==
  ASSUME NEW f \in Files, InOwnTree(f), NEW p \in {f, Resolve(f)} \cap Files
  PROVE  \A kinds : "plain" \notin kinds => ~Under(p, kinds)
BY DEF InOwnTree, Passes, Under

\* A path of the repository's own tree that exists is on the disk by its own name.
LEMMA OwnPathIsOnDisk ==
  ASSUME TypeOK, NEW f \in Files, InOwnTree(f), Exists(f)
  PROVE  OnDisk(f) /\ f \notin Mounts /\ ~BeyondLink(f)
<1>1. ~BeyondLink(f)
  BY OwnTreeIsAnswered DEF BeyondLink
<1>2. Place(f) = f /\ f # Outside
  BY <1>1, DiscoveryAssumption DEF Place
<1>3. ASSUME target[f] = f
      PROVE  f \notin Mounts /\ content[f] # "gone"
  <2>1. End(f) = f
    BY <1>2, <1>3 DEF End, Follow
  <2> QED BY <2>1 DEF Exists, Resolve
<1> QED BY <1>1, <1>3 DEF OnDisk, IsLink, TypeOK

\* Outside large directories and other repositories the two implementations come to
\* the same answer.
LEMMA SmallDirectoriesJudgeAlike ==
  ASSUME TypeOK, GitAgrees, NEW f \in Files, InSmallDirectories(f), InOwnTree(f)
  PROVE  f \in Discovered <=> Accepts(f)
<1> SUFFICES ASSUME Exists(f) PROVE f \in Discovered <=> Accepts(f)
  BY DEF Discovered, Accepts
<1> DEFINE both == {f, Resolve(f)}
           targets == AliasTargets(Candidates)
<1>1. both \in SUBSET Files /\ f \in both /\ Resolve(f) \in both
  BY Resolution
<1>2. ASSUME NEW p \in {f, Resolve(f)}, NEW d \in Above[p]
      PROVE  d \in Directories /\ ~Large(Below(d, Candidates)) /\ ~Large(Entries(d))
  <2>1. p \in Files /\ d \in Directories
    BY <1>1, <1>2, DiscoveryAssumption
  <2>2. d \in Passes(f)
    BY <1>2, <2>1 DEF Passes
  <2> QED BY <2>1, <2>2, SmallIsNotPruned DEF InSmallDirectories
<1>3. \A p \in {f, Resolve(f)} : ~HasLargeGeneratedAncestor(p)
  BY <1>2 DEF HasLargeGeneratedAncestor
<1>4. Above[f] \cap Pruned(Candidates) = {}
  BY <1>2 DEF Pruned
<1>5. \A p \in both : ~Under(p, {"link", "submodule"}) /\ ~Under(p, Kinds \ {"plain"})
  BY <1>1, OwnTreeIsAnswered
<1>6. IsAlias(f) /\ f \in Candidates => Resolve(f) \in targets
  BY DEF AliasTargets
<1>7. ~Skipped(f) => (f \in Candidates /\ Resolve(f) \notin Ignored(targets)
                        <=> Ignored(both) = {})
  <2>1. CASE listing
    <3>1. Answers(targets) /\ Answers(both)
      BY <1>5, <2>1 DEF GitAgrees, TargetsAnswered, Answers
    <3> DEFINE Fine(p) == rule[p] = "none" \/ p \in tracked
    <3>2. Ignored(both) = {} <=> Fine(f) /\ Fine(Resolve(f))
      BY <3>1 DEF Ignored
    <3>3. Resolve(f) \notin Ignored(targets) <=> (Resolve(f) \in targets => Fine(Resolve(f)))
      BY <3>1 DEF Ignored
    <3>4. f \in Candidates <=> Fine(f)
      BY <1>5, <2>1 DEF Candidates, Listed
    <3>5. IsAlias(f) \/ Resolve(f) = f
      BY DEF IsAlias
    <3> HIDE DEF Fine, targets, both
    <3> QED BY <1>6, <3>2, <3>3, <3>4, <3>5
  <2>2. CASE ~listing
    <3>1. ~checking
      BY <2>2 DEF GitAgrees
    <3> DEFINE Fine(p) == rule[p] # "root"
    <3>2. Ignored(both) = {} <=> Fine(f) /\ Fine(Resolve(f))
      BY <3>1 DEF Ignored, Answers
    <3>3. Resolve(f) \notin Ignored(targets) <=> (Resolve(f) \in targets => Fine(Resolve(f)))
      BY <3>1 DEF Ignored, Answers
    <3>4. ~Skipped(f) => (f \in Candidates <=> Fine(f))
      <4>1. ~Skipped(f) => f \in Walked
        BY OwnPathIsOnDisk DEF Walked
      <4> QED BY <2>2, <3>1, <4>1 DEF Candidates, Ignored, Answers
    <3>5. IsAlias(f) \/ Resolve(f) = f
      BY DEF IsAlias
    <3> HIDE DEF Fine, targets, both
    <3> QED BY <1>6, <3>2, <3>3, <3>4, <3>5
  <2> QED BY <2>1, <2>2
<1> QED BY <1>3, <1>4, <1>7 DEF Discovered, Accepts

\* discover and build_file_entry (discovery.py:437, discovery.py:510) judge links to
\* files, ignored and tracked targets, sizes and names alike, for the repository's own
\* tree outside large directories, when Git answers every question or none.
THEOREM OneEligibilityPolicy == Spec => []SmallDirectoriesAgree
<1>1. TypeOK => SmallDirectoriesAgree
  BY SmallDirectoriesJudgeAlike DEF SmallDirectoriesAgree
<1> QED BY <1>1, TypeCorrect, PTL
=============================================================================
