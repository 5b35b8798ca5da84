------------------------------ MODULE Discovery ------------------------------
(***************************************************************************)
(* Which files of a repository are sources (indexing/discovery.py): once   *)
(* for a full pass or a force snapshot (discover) and once for one file of *)
(* an explicit request or of a snapshot under execution                    *)
(* (build_file_entry).  The tree changes; both are operators over it.      *)
(*                                                                         *)
(* A file is a path; a link to another path is an alias.  A directory of   *)
(* the tree may be a link to another one, a submodule or an embedded       *)
(* repository, whose contents Git does not list and of which, for the      *)
(* first two, check-ignore refuses to speak.  Rules of the root .gitignore *)
(* are known to the fallback matcher, nested ones only to Git, whose two   *)
(* commands time out independently.  Tracked files are under no rule.      *)
(***************************************************************************)
EXTENDS Integers, FiniteSets, FiniteSetsExt

CONSTANTS
  Files,           \* paths below the root
  Directories,     \* directories below the root
  Above,           \* path: the directories it lies in, at any depth
  Home,            \* path: the directory it is an entry of, or Root
  Root, Outside,   \* the repository's root; what lies beyond it
  Mounts,          \* directories that may be a link or a repository; paths of their own
  Behind,          \* path: where it leads while the directory above it is a link
  SkippedDirs,     \* those named in ALWAYS_SKIP_DIRS
  GeneratedDirs,   \* those named, or in one named, in GENERATED_DIRECTORY_NAMES
  ArtifactNames,   \* paths with one of GENERATED_FILE_MARKERS
  ParsedNames,     \* paths whose suffix has a parser
  LargeDirFiles,   \* policy.large_dir_file_count
  LargeDirBytes,   \* policy.large_dir_byte_size
  HugeBytes,       \* size of a file beyond policy.max_file_bytes; others have 1
  Trees,           \* the sets of files that exist to begin with
  MaxChanges       \* bound: changes of the tree, of its rules and of Git

ASSUME DiscoveryAssumption ==
  /\ IsFiniteSet(Files) /\ Root \notin Directories /\ Outside \notin Files
  /\ Above \in [Files -> SUBSET Directories]
  /\ Home \in [Files -> Directories \cup {Root}]
  /\ \A f \in Files : Home[f] = Root \/ Home[f] \in Above[f]
  /\ SkippedDirs \subseteq Directories /\ GeneratedDirs \subseteq Directories
  /\ Mounts \subseteq Files \cap Directories /\ Behind \in [Files -> Files \cup {Outside}]
  /\ \A f \in Files : Behind[f] # Outside => Above[Behind[f]] \cap Mounts = {}
  /\ ArtifactNames \subseteq Files /\ ParsedNames \subseteq Files
  /\ {LargeDirFiles, LargeDirBytes, HugeBytes, MaxChanges} \subseteq Nat
  /\ Trees \subseteq SUBSET Files

VARIABLES
  content,  \* path: text, binary, huge or gone
  target,   \* path: itself, or what it links to
  rule,     \* path: the kind of rule that ignores it
  tracked,  \* the paths in Git's index
  mount,    \* directory of Mounts: what it is
  listing,  \* does git ls-files answer?
  checking, \* does git check-ignore answer?
  changes

vars == <<content, target, rule, tracked, mount, listing, checking, changes>>

Kinds == {"plain", "link", "submodule", "embedded"}

TypeOK ==
  /\ content \in [Files -> {"text", "binary", "huge", "gone"}]
  /\ target \in [Files -> Files \cup {Outside}]
  /\ \A d \in Mounts : target[d] = d
  /\ rule \in [Files -> {"none", "root", "nested"}]
  /\ tracked \subseteq Files
  /\ mount \in [Mounts -> Kinds]
  /\ listing \in BOOLEAN /\ checking \in BOOLEAN /\ changes \in 0 .. MaxChanges

Init ==
  /\ \E tree \in Trees : content = [f \in Files |-> IF f \in tree THEN "text" ELSE "gone"]
  /\ target = [f \in Files |-> f]
  /\ rule = [f \in Files |-> "none"]
  /\ mount \in [Mounts -> Kinds]
  /\ tracked = {d \in Mounts : mount[d] = "submodule"}
  /\ listing \in BOOLEAN /\ checking \in BOOLEAN /\ changes = 0

IsLink(f) == target[f] # f
OnDisk(f) == content[f] # "gone" \/ IsLink(f)
Under(f, kinds) == \E d \in Above[f] \cap Mounts : mount[d] \in kinds
BeyondLink(f) == Under(f, {"link"})

Change == changes < MaxChanges /\ changes' = changes + 1

Write(f, c) ==
  /\ Change /\ c # content[f] /\ f \notin Mounts /\ ~BeyondLink(f)
  /\ content' = [content EXCEPT ![f] = c]
  /\ target' = [target EXCEPT ![f] = f]
  /\ UNCHANGED <<rule, tracked, mount, listing, checking>>

Link(f, t) ==
  /\ Change /\ t # f /\ {f, t} \cap Mounts = {} /\ ~BeyondLink(f)
  /\ target' = [target EXCEPT ![f] = t]
  /\ UNCHANGED <<content, rule, tracked, mount, listing, checking>>

Ignore(f, r) ==
  /\ Change /\ r # rule[f]
  /\ rule' = [rule EXCEPT ![f] = r]
  /\ UNCHANGED <<content, target, tracked, mount, listing, checking>>

\* git add --force, git rm --cached.
Track(f) ==
  /\ Change /\ f \notin Mounts
  /\ \/ f \in tracked /\ tracked' = tracked \ {f}
     \/ f \notin tracked /\ OnDisk(f) /\ ~Under(f, Kinds \ {"plain"}) /\ tracked' = tracked \cup {f}
  /\ UNCHANGED <<content, target, rule, mount, listing, checking>>

\* A directory is replaced; the index forgets what a submodule takes the place of.
Replace(d, kind) ==
  /\ Change /\ mount[d] # kind
  /\ mount' = [mount EXCEPT ![d] = kind]
  /\ content' = [f \in Files |-> IF d \in Above[f] THEN "gone" ELSE content[f]]
  /\ target' = [f \in Files |-> IF d \in Above[f] THEN f ELSE target[f]]
  /\ tracked' = IF kind = "submodule" THEN {f \in tracked : d \notin Above[f]} \cup {d}
                ELSE tracked \ {d}
  /\ UNCHANGED <<rule, listing, checking>>

GitChanges ==
  /\ Change
  /\ listing' \in BOOLEAN /\ checking' \in BOOLEAN
  /\ <<listing', checking'>> # <<listing, checking>>
  /\ UNCHANGED <<content, target, rule, tracked, mount>>

Next ==
  \/ \E f \in Files :
       \/ \E c \in {"text", "binary", "huge", "gone"} : Write(f, c)
       \/ \E t \in Files \cup {Outside} : Link(f, t)
       \/ \E r \in {"none", "root", "nested"} : Ignore(f, r)
       \/ Track(f)
  \/ \E d \in Mounts, kind \in Kinds : Replace(d, kind)
  \/ GitChanges

Spec == Init /\ [][Next]_vars

(***************************************************************************)
(* What both ways ask of a file                                            *)
(***************************************************************************)
\* A path through the directory links above it, then through links to files: two at
\* most, a longer chain counts as a loop.
Place(p) == IF p \in Files /\ BeyondLink(p) THEN Behind[p] ELSE p
Follow(p) == IF p = Outside THEN Outside ELSE Place(target[p])
End(f) == Follow(Follow(Place(f)))

\* _resolved_file_in_repo: the regular file a path leads to, if it is inside.
Resolve(f) ==
  LET t == End(f) IN
  IF t \in Files \ Mounts /\ ~IsLink(t) /\ content[t] # "gone" THEN t ELSE Outside
Exists(f) == Resolve(f) # Outside
IsAlias(f) == Resolve(f) # f

\* stat follows a link, also out of the repository or to a directory.
HasSize(f) ==
  Exists(f) \/ End(f) = Outside \/ (f \in Mounts /\ mount[f] # "plain")
Size(f) == IF Exists(f) /\ content[Resolve(f)] = "huge" THEN HugeBytes ELSE 1

\* _git_check_ignored_paths: one path beyond a link or in a submodule fails the call
\* for all; tracked paths are never reported.
Answers(paths) == checking /\ \A p \in paths : ~Under(p, {"link", "submodule"})

\* _resolve_ignored_paths
Ignored(paths) ==
  {p \in paths : IF Answers(paths) THEN rule[p] # "none" /\ p \notin tracked
                 ELSE rule[p] = "root"}

Skipped(f) == Above[f] \cap SkippedDirs # {}

\* Size limit and _language_for_candidate: the alias's name, the target's bytes.
Readable(f) ==
  /\ content[Resolve(f)] # "huge"
  /\ f \in ParsedNames \/ content[Resolve(f)] = "text"

Large(files) ==
  \/ Cardinality(files) > LargeDirFiles
  \/ MapThenSumSet(Size, files) > LargeDirBytes

\* A directory by its name, or four fifths of the files by theirs.
LooksGenerated(d, files) ==
  d \in GeneratedDirs \/ 10 * Cardinality(files \cap ArtifactNames) >= 8 * Cardinality(files)

(***************************************************************************)
(* discover                                                                *)
(***************************************************************************)
\* git ls-files -co: what is tracked, and what is not ignored; it does not descend
\* into other repositories or links.
Listed ==
  {f \in Files : f \in tracked \/ (rule[f] = "none" /\ ~Under(f, Kinds \ {"plain"}))}

\* rglob descends into every directory but a link.
Walked == {f \in Files \ Mounts : OnDisk(f) /\ ~BeyondLink(f) /\ ~Skipped(f)}

Candidates == IF listing THEN Listed ELSE Walked \ Ignored(Walked)

\* _pruned_large_directories: by the candidates below, at any depth.
Below(d, candidates) == {f \in candidates : d \in Above[f] /\ HasSize(f)}
Pruned(candidates) ==
  {d \in Directories : LET below == Below(d, candidates)
                       IN  Large(below) /\ LooksGenerated(d, below)}

\* _path_has_large_generated_ancestor: by the entries of the directory alone.
Entries(d) == {f \in Files \ Mounts : Home[f] = d /\ HasSize(f)}
HasLargeGeneratedAncestor(f) ==
  \E d \in Above[f] : Large(Entries(d)) /\ LooksGenerated(d, Entries(d))

AliasTargets(candidates) ==
  {Resolve(f) : f \in {g \in candidates : Exists(g) /\ IsAlias(g)}}

\* Variant: the target of an alias is not checked against the ignore rules.
DiscoveredByName ==
  LET candidates == Candidates
      pruned == Pruned(candidates)
  IN  {f \in candidates :
         /\ Exists(f)
         /\ ~Skipped(Resolve(f)) /\ ~Skipped(f)
         /\ IsAlias(f) => ~HasLargeGeneratedAncestor(Resolve(f))
         /\ Above[f] \cap pruned = {}
         /\ Readable(f)}

Discovered ==
  LET candidates == Candidates
      hidden == Ignored(AliasTargets(candidates))
      pruned == Pruned(candidates)
  IN  {f \in candidates :
         /\ Exists(f)
         /\ Resolve(f) \notin hidden
         /\ ~Skipped(Resolve(f)) /\ ~Skipped(f)
         /\ IsAlias(f) => ~HasLargeGeneratedAncestor(Resolve(f))
         /\ Above[f] \cap pruned = {}
         /\ Readable(f)}

(***************************************************************************)
(* build_file_entry                                                        *)
(***************************************************************************)
\* Variant: the target of an alias may lie in a skipped directory.
AcceptsByName(f) ==
  /\ Exists(f) /\ ~Skipped(f)
  /\ \A p \in {f, Resolve(f)} : ~HasLargeGeneratedAncestor(p)
  /\ Ignored({f, Resolve(f)}) = {}
  /\ Readable(f)

Accepts(f) ==
  /\ Exists(f)
  /\ \A p \in {f, Resolve(f)} : ~Skipped(p) /\ ~HasLargeGeneratedAncestor(p)
  /\ Ignored({f, Resolve(f)}) = {}
  /\ Readable(f)

(***************************************************************************)
(* Properties                                                              *)
(***************************************************************************)
\* The directories a path passes through, by name and by target.
Passes(f) == UNION {Above[p] : p \in {f, Resolve(f)} \cap Files}
InSmallDirectories(f) ==
  \A d \in Passes(f) : ~Large({g \in Files : d \in Above[g] /\ HasSize(g)})
\* Neither name lies beyond a directory link or in another repository.
InOwnTree(f) == \A d \in Passes(f) \cap Mounts : mount[d] = "plain"

\* Git answered every question that a full discovery asks of it, or none.
TargetsAnswered == Answers(AliasTargets(Candidates))
GitAgrees == IF listing THEN TargetsAnswered ELSE ~checking

\* specs/2026-08-31-text-fallback-ingestion.md:33, "Full discovery, explicit-file
\* ingestion, cleanup, force snapshots, and retry reconstruction apply the same file
\* eligibility policy", as far as it holds: the two implementations judge links to
\* files, ignored and tracked targets, sizes and names alike when Git answers both or
\* neither, for a path of the repository's own tree, in directories that are small by
\* everything below them.
SmallDirectoriesAgree ==
  GitAgrees => LET discovered == Discovered IN
    \A f \in Files : InSmallDirectories(f) /\ InOwnTree(f) => (f \in discovered <=> Accepts(f))

\* Nothing becomes a source, by whichever way, under whichever name and whatever Git
\* answers, whose bytes lie outside the repository or in a skipped directory, or that
\* the root .gitignore hides and Git does not track; and nothing that any rule hides,
\* where Git answered for the names it goes by.
SourcesAreVisible ==
  LET discovered == Discovered
      judged == listing /\ checking /\ TargetsAnswered
  IN  \A f \in Files : f \in discovered \/ Accepts(f) =>
        /\ Exists(f) /\ content[Resolve(f)] # "huge"
        /\ \A p \in {f, Resolve(f)} :
             /\ ~Skipped(p)
             /\ rule[p] = "root" => p \in tracked
             /\ judged /\ Answers({f, Resolve(f)}) => rule[p] = "none" \/ p \in tracked

\* The same contract of force snapshots: what discover freezes, build_file_entry
\* finds again while nothing changes.  It does not hold: the two count different files
\* of a directory.
SnapshotIsReconstructible ==
  GitAgrees => \A f \in Discovered : InOwnTree(f) => Accepts(f)

\* The contract for what lies beyond a directory link, which an explicit request keeps
\* (tests/unit/test_indexing_discovery.py:369) and a full discovery never finds, and
\* for the files of other repositories.  It does not hold.
MountsAgree ==
  GitAgrees => \A f \in Files : InSmallDirectories(f) => (f \in Discovered <=> Accepts(f))

\* A nested rule hides a file while Git answers.  It does not hold: a name beyond a link
\* makes check-ignore fail, and its target is judged by the root .gitignore alone.
NestedRulesHide ==
  listing /\ checking => \A f \in Files : f \in Discovered \/ Accepts(f) =>
    \A p \in {f, Resolve(f)} : rule[p] = "nested" => p \in tracked
==============================================================================
