-------------------------------- MODULE Query --------------------------------
(***************************************************************************)
(* A code query end to end: QueryOrchestrator (orchestration/query.py)     *)
(* over the read routes (services/routes.py) and CodeSearch, behind the    *)
(* readiness of LayaDecisionProvider (orchestration/laya_provider.py) and  *)
(* the drain of the daemon's server (wire/server.py, main.py).             *)
(*                                                                         *)
(* What the index holds is reduced to how much of it an answer can show:   *)
(* an answer carries the flags its route computes.  What the playbook owes *)
(* is counted apart from the flags: the results it should give, less       *)
(* those it gave in full.                                                  *)
(***************************************************************************)
EXTENDS CodeSearch

CONSTANTS
  Queries,        \* query calls, each made at most once
  RequestOf,      \* query: what it asks
  MaxConcurrency, \* decision_max_concurrency
  RecoveryProbes, \* failed probes that take RECOVERY_TIMEOUT_SECONDS
  ReferenceKinds, \* number of REFERENCE_RELATIONSHIPS
  HydratedFiles,  \* mode: files an INSPECT_FILES playbook reads
  Limit,          \* results of a page, nodes of an inspection, dependents
  MaxOutages      \* bound: outages of the decision service

Modes == {"fast", "balanced"}
Playbooks == {"DISCOVER", "UNDERSTAND", "RELATIONSHIPS", "REFERENCES",
              "INSPECT_FILES", "IMPACT", "INVENTORY"}

ASSUME QueryAssumption ==
  /\ RequestOf \in [Queries -> [mode : Modes, files : Nat, symbols : BOOLEAN,
                                anchors : SUBSET {"position", "node", "symbol"}]]
  /\ MaxConcurrency \in 1 .. 4
  /\ RecoveryProbes \in Nat \ {0, 1}
  /\ ReferenceKinds \in Nat \ {0} /\ Limit \in Nat \ {0}
  /\ HydratedFiles \in [Modes -> Nat \ {0}]
  /\ MaxOutages \in Nat

VARIABLES
  healthy,  \* environment: does the decision service answer?
  outages,
  indexed,  \* does the repository have an index?
  daemon,   \* starting, serving, draining (server.stop) or closed
  ready,    \* _ready
  terminal, \* _terminal_error is set
  monitor,  \* _watch_health: off, asleep, holding a probe's result, giving up
  failed,   \* failed probes since unavailable_since
  permit,   \* queries that hold the provider's semaphore
  handler   \* query: the locals of QueryOrchestrator.query

world == <<healthy, outages, indexed>>
provider == <<ready, terminal, monitor, failed>>
vars == <<world, daemon, provider, permit, handler>>

At(places) == {q \in Queries : handler[q].at \in places}
InFlight == At({"waiting", "asleep", "asking", "posting", "running"})
IsReady == ready /\ ~terminal /\ daemon # "closed"

Stages == {"search", "files", "traversal", "references", "inspect", "impact", "inventory"}

Handlers ==
  [at : {"unasked", "waiting", "asleep", "asking", "posting", "running", "answered", "raised"},
   todo : Seq(Stages), fallback : BOOLEAN, degraded : BOOLEAN, truncated : BOOLEAN,
   followed : BOOLEAN, owed : Int, silent : Nat]

TypeOK ==
  /\ healthy \in BOOLEAN /\ outages \in 0 .. MaxOutages /\ indexed \in BOOLEAN
  /\ daemon \in {"starting", "serving", "draining", "closed"}
  /\ ready \in BOOLEAN /\ terminal \in BOOLEAN
  /\ monitor \in {"off", "asleep", "up", "down", "giving_up"}
  /\ failed \in 0 .. RecoveryProbes
  /\ permit \subseteq At({"posting"}) /\ Cardinality(permit) <= MaxConcurrency
  /\ handler \in [Queries -> Handlers]
  /\ \A q \in Queries : handler[q].todo # <<>> => handler[q].at = "running"

\* "fallback" is fallback_applied, that is a degraded_reason of the routing.  History:
\* does the playbook follow the classifier's choice, how many results it owes, and how
\* many of these an empty answer of a route without an index was taken for.
Unasked ==
  [at |-> "unasked", todo |-> <<>>, fallback |-> FALSE, degraded |-> FALSE,
   truncated |-> FALSE, followed |-> FALSE, owed |-> 0, silent |-> 0]

Init ==
  /\ healthy \in BOOLEAN /\ outages = 0 /\ indexed \in BOOLEAN
  /\ daemon = "starting"
  /\ ready = FALSE /\ terminal = FALSE /\ monitor = "off" /\ failed = 0
  /\ permit = {}
  /\ handler = [q \in Queries |-> Unasked]

Goto(q, place) == handler' = [handler EXCEPT ![q].at = place]

\* notify_all of the provider's condition: the sleepers look again.
Awaken ==
  handler' = [q \in Queries |-> IF q \in At({"asleep"}) THEN [handler[q] EXCEPT !.at = "waiting"]
                                ELSE handler[q]]

(***************************************************************************)
(* The environment                                                         *)
(***************************************************************************)
Outage ==
  /\ healthy /\ outages < MaxOutages
  /\ healthy' = FALSE /\ outages' = outages + 1
  /\ UNCHANGED <<indexed, daemon, provider, permit, handler>>

Recover ==
  /\ ~healthy /\ healthy' = TRUE
  /\ UNCHANGED <<outages, indexed, daemon, provider, permit, handler>>

\* The repository is deleted between two stages.
Retire ==
  /\ indexed /\ indexed' = FALSE
  /\ UNCHANGED <<healthy, outages, daemon, provider, permit, handler>>

(***************************************************************************)
(* The daemon and the provider's health monitor                            *)
(***************************************************************************)
\* provider.start: without a compatible service the daemon does not start.
StartDaemon ==
  /\ daemon = "starting"
  /\ daemon' = IF healthy THEN "serving" ELSE "closed"
  /\ ready' = healthy /\ monitor' = IF healthy THEN "asleep" ELSE "off"
  /\ UNCHANGED <<world, terminal, failed, permit, handler>>

\* The probe reads the service in a thread; its result is published later.
Probe ==
  /\ monitor = "asleep"
  /\ monitor' = IF healthy THEN "up" ELSE "down"
  /\ UNCHANGED <<world, daemon, ready, terminal, failed, permit, handler>>

\* Variant: a recovered service is not announced.
PublishSilently ==
  /\ monitor \in {"up", "down"}
  /\ ready' = (monitor = "up")
  /\ failed' = IF monitor = "up" THEN 0 ELSE failed + 1
  /\ terminal' = (failed' = RecoveryProbes)
  /\ monitor' = IF terminal' THEN "giving_up" ELSE "asleep"
  /\ UNCHANGED <<world, daemon, permit, handler>>

Publish ==
  /\ monitor \in {"up", "down"}
  /\ ready' = (monitor = "up")
  /\ failed' = IF monitor = "up" THEN 0 ELSE failed + 1
  /\ terminal' = (failed' = RecoveryProbes)
  /\ monitor' = IF terminal' THEN "giving_up" ELSE "asleep"
  /\ Awaken
  /\ UNCHANGED <<world, daemon, permit>>

\* Variant: the end of the recovery is not reported to the daemon.
GiveUpSilently ==
  /\ monitor = "giving_up" /\ monitor' = "off"
  /\ Awaken
  /\ UNCHANGED <<world, daemon, ready, terminal, failed, permit>>

\* The recovery has failed: on_unavailable is SCSDaemon.request_shutdown.
GiveUp ==
  /\ monitor = "giving_up" /\ monitor' = "off"
  /\ daemon' = IF daemon = "serving" THEN "draining" ELSE daemon
  /\ Awaken
  /\ UNCHANGED <<world, ready, terminal, failed, permit>>

\* A client or the idle timer asks for shutdown.
Shutdown ==
  /\ daemon = "serving" /\ daemon' = "draining"
  /\ UNCHANGED <<world, provider, permit, handler>>

\* server.stop waits for the dispatched handlers; only then is the provider closed.
CloseProvider ==
  /\ daemon = "draining" /\ InFlight = {}
  /\ daemon' = "closed" /\ ready' = FALSE /\ monitor' = "off"
  /\ Awaken
  /\ UNCHANGED <<world, terminal, failed, permit>>

(***************************************************************************)
(* Routing                                                                 *)
(***************************************************************************)
\* eligible_playbooks
Eligible(r) ==
  {p \in Playbooks : /\ p = "IMPACT" => r.files > 0
                     /\ p = "REFERENCES" => r.anchors # {}
                     /\ p = "INVENTORY" => r.symbols}

\* The files to inspect, after those beyond the mode's ceiling are cut.
Inspections(files, mode) == [i \in 1 .. Min({files, HydratedFiles[mode]}) |-> "inspect"]
TooMany(files, mode) == files > HydratedFiles[mode]

\* The stages of a playbook.  "files" stands for the files that a search finds.
Plan(chosen, r) ==
  CASE chosen = "DISCOVER" -> <<"search">>
    [] chosen \in {"UNDERSTAND", "RELATIONSHIPS"} ->
         IF r.anchors \cap {"node", "symbol"} # {} THEN <<"traversal">>
         ELSE <<"search", "traversal">>
    [] chosen = "REFERENCES" ->
         IF "position" \in r.anchors THEN <<"references">>
         ELSE [i \in 1 .. ReferenceKinds |-> "references"]
    [] chosen = "INSPECT_FILES" ->
         IF r.files = 0 THEN <<"search", "files">> ELSE Inspections(r.files, r.mode)
    [] chosen = "IMPACT" -> <<"impact">>
    [] chosen = "INVENTORY" -> <<"inventory">>

\* The results of a plan: what follows a search is owed once it has found something.
Results(todo) == IF todo # <<>> /\ Head(todo) = "search" THEN 1 ELSE Len(todo)
Owed(chosen, r) ==
  IF chosen = "INSPECT_FILES" /\ r.files > 0 THEN r.files ELSE Results(Plan(chosen, r))

\* The decision is taken, or the classification has failed ("none"); an ineligible one
\* is replaced here.
Route(q, decision) ==
  LET r == RequestOf[q]
      choice == IF decision = "none" THEN "DISCOVER" ELSE decision
      chosen == IF choice \in Eligible(r) THEN choice ELSE "DISCOVER"
  IN /\ handler' = [handler EXCEPT ![q] =
          [at |-> "running", todo |-> Plan(chosen, r),
           fallback |-> decision = "none" \/ chosen # choice, degraded |-> FALSE,
           truncated |-> chosen = "INSPECT_FILES" /\ TooMany(r.files, r.mode),
           followed |-> chosen = decision, owed |-> Owed(chosen, r), silent |-> 0]]
     /\ permit' = permit \ {q}
     /\ UNCHANGED <<world, daemon, provider>>

Ask(q) ==
  /\ daemon = "serving" /\ q \in At({"unasked"})
  /\ Goto(q, "waiting")
  /\ UNCHANGED <<world, daemon, provider, permit>>

\* wait_ready: the predicate is false, wait for a notification.
FallAsleep(q) ==
  /\ q \in At({"waiting"}) /\ ~IsReady /\ ~terminal /\ daemon # "closed"
  /\ Goto(q, "asleep")
  /\ UNCHANGED <<world, daemon, provider, permit>>

Reject(q) ==
  /\ q \in At({"waiting"}) /\ (terminal \/ daemon = "closed")
  /\ Goto(q, "raised")
  /\ UNCHANGED <<world, daemon, provider, permit>>

\* Ready, and classify finds it so without an await in between.
Admit(q) ==
  /\ q \in At({"waiting"}) /\ IsReady
  /\ Goto(q, "asking")
  /\ UNCHANGED <<world, daemon, provider, permit>>

Post(q) ==
  /\ q \in At({"asking"}) /\ Cardinality(permit) < MaxConcurrency
  /\ permit' = permit \cup {q}
  /\ Goto(q, "posting")
  /\ UNCHANGED <<world, daemon, provider>>

\* classify accepts only an eligible choice of the pinned model.
Decide(q) ==
  /\ q \in At({"posting"}) /\ healthy
  /\ \E choice \in Eligible(RequestOf[q]) : Route(q, choice)

\* An unreachable service, an answer that fails validation, or the classifier
\* deadline, which also covers the wait for the permit.
ClassifierFails(q) ==
  q \in At({"asking", "posting"}) /\ Route(q, "none")

(***************************************************************************)
(* The answers of the read routes                                          *)
(***************************************************************************)
\* "shows": all there is, a part of it, or nothing for want of an index and silent
\* about it.
Answer(degraded, truncated, shows, found) ==
  [degraded |-> degraded, truncated |-> truncated, shows |-> shows, found |-> found]
AllIf(whole) == IF whole THEN "all" ELSE "part"

\* Without an index a search says so, and no other route (routes.py:602, 697, 748).
SearchUnindexed == Answer(TRUE, FALSE, "part", 0)
Unindexed == Answer(FALSE, FALSE, "silent", 0)

\* routes.search over CodeSearch, as the stage reads its response.
Channel == {<<>>, <<1>>, <<2>>, <<1, 2>>, <<2, 1>>}
Rerankers(mode) == IF mode = "fast" THEN {"unused"} ELSE {"unused", "ranks", "late", "fails"}
SearchAnswer(lexical, semantic, reranker) ==
  LET response == Respond(<<RetrieveQuery(lexical, semantic, 1)>>, reranker, Limit + 1)
  IN Answer(response.reason # "none" \/ response.timed_out, response.timed_out,
            AllIf(/\ semantic.available
                  /\ response.matches # <<>> => reranker \notin {"late", "fails"}),
            Len(response.matches))
SearchAnswers == [mode \in Modes |->
  {SearchAnswer(lexical, semantic, reranker) :
     lexical \in Channel, reranker \in Rerankers(mode),
     semantic \in {Unconfigured, Failed} \cup {Found(nodes) : nodes \in Channel}}]

\* routes.related follows the first 20 matches of a symbol, and
\* routes.lsp_references the innermost symbol of a line: neither has a flag.
RelatedAnswers == {Answer(FALSE, FALSE, "all", 0)}
ReferencesAnswers == {Answer(FALSE, FALSE, "all", 0)}

\* routes.inspect_file: of the nodes the first Limit, and of the edges of
\* these the first Limit.
InspectAnswer(edgesOf) ==
  LET nodes == Len(edgesOf)
      shown == Min({nodes, Limit})
      edges(n) == Cardinality({e \in (1 .. n) \X (1 .. Limit + 1) : e[2] <= edgesOf[e[1]]})
  IN Answer(FALSE, nodes > shown \/ edges(shown) > Limit,
            AllIf(nodes <= shown /\ edges(nodes) <= Limit), 0)
InspectAnswers == {InspectAnswer(edgesOf) : edgesOf \in SeqOf(0 .. Limit + 1, Limit + 1)}

\* composite_regression_risk: the first Limit dependents by id, and the first
\* Limit test files among these dependents.
First(ids) == {d \in ids : Cardinality({e \in ids : e < d}) < Limit}
ImpactAnswer(dependents, tests) ==
  LET selected == First(dependents)
      targets == First(selected \cap tests)
  IN Answer(FALSE, dependents # selected \/ targets # selected \cap tests,
            AllIf(dependents \subseteq selected /\ tests \subseteq targets), 0)
ImpactAnswers ==
  {ImpactAnswer(p[1], p[2]) : p \in {x \in (SUBSET (1 .. Limit + 1)) \X (SUBSET (1 .. Limit + 1)) :
                                       x[2] \subseteq x[1]}}

\* nodes_list: one page and the number of all.
InventoryAnswer(total) ==
  LET page == {i \in 1 .. total : i <= Limit}
  IN Answer(FALSE, total > Cardinality(page), AllIf(1 .. total \subseteq page), 0)
InventoryAnswers == {InventoryAnswer(total) : total \in 0 .. Limit + 1}

\* What a stage may be answered.
Answers(stage, mode) ==
  CASE ~indexed -> IF stage = "search" THEN {SearchUnindexed} ELSE {Unindexed}
    [] indexed /\ stage = "search" -> SearchAnswers[mode]
    [] indexed /\ stage = "inspect" -> InspectAnswers
    [] indexed /\ stage = "impact" -> ImpactAnswers
    [] indexed /\ stage = "inventory" -> InventoryAnswers
    [] indexed /\ stage = "references" -> ReferencesAnswers
    [] OTHER -> RelatedAnswers

(***************************************************************************)
(* The playbook                                                            *)
(***************************************************************************)
\* What is left to do after a stage; a search decides what its seeds allow.
Rest(q, found) ==
  LET rest == Tail(handler[q].todo)
  IN CASE rest = <<"files">> -> Inspections(found, RequestOf[q].mode)
       [] rest = <<"traversal">> /\ found = 0 -> <<>>
       [] OTHER -> rest

\* What a stage's answer adds to what is owed: the files or the seed it found, each
\* with a result of its own.
Newly(q, found) ==
  CASE Tail(handler[q].todo) = <<"files">> -> found
    [] Head(handler[q].todo) = "search" /\ Tail(handler[q].todo) = <<"traversal">> -> Min({found, 1})
    [] OTHER -> 0

Finish(q, a) ==
  LET h == handler[q]
      cut == Tail(h.todo) = <<"files">> /\ TooMany(a.found, RequestOf[q].mode)
      given == IF a.shows = "all" THEN 1 ELSE 0
  IN /\ handler' = [handler EXCEPT ![q] =
          [h EXCEPT !.todo = Rest(q, a.found),
                    !.degraded = h.degraded \/ a.degraded,
                    !.truncated = h.truncated \/ a.truncated \/ cut,
                    !.owed = (h.owed - given) + Newly(q, a.found),
                    !.silent = h.silent + (IF a.shows = "silent" THEN 1 ELSE 0)]]
     /\ UNCHANGED <<world, daemon, provider, permit>>

Stage(q) ==
  /\ q \in At({"running"}) /\ handler[q].todo # <<>>
  /\ \E a \in Answers(Head(handler[q].todo), RequestOf[q].mode) : Finish(q, a)

\* A route that raises counts as an empty answer.
StageFails(q) ==
  /\ q \in At({"running"}) /\ handler[q].todo # <<>>
  /\ Finish(q, Answer(TRUE, TRUE, "part", 0))

\* Variant: the deadline ends the playbook and nothing records it.
DeadlineUnrecorded(q) ==
  /\ q \in At({"running"}) /\ handler[q].todo # <<>>
  /\ handler' = [handler EXCEPT ![q] =
       [@ EXCEPT !.todo = <<>>]]
  /\ UNCHANGED <<world, daemon, provider, permit>>

\* The total deadline cancels the stage that runs, which records nothing itself.
Deadline(q) ==
  /\ q \in At({"running"}) /\ handler[q].todo # <<>>
  /\ handler' = [handler EXCEPT ![q] =
       [@ EXCEPT !.todo = <<>>, !.degraded = TRUE, !.truncated = TRUE]]
  /\ UNCHANGED <<world, daemon, provider, permit>>

Return(q) ==
  /\ q \in At({"running"}) /\ handler[q].todo = <<>>
  /\ Goto(q, "answered")
  /\ UNCHANGED <<world, daemon, provider, permit>>

(***************************************************************************)
(* Specification                                                           *)
(***************************************************************************)
Environment == Outage \/ Recover \/ Retire
Monitor == Probe \/ Publish \/ GiveUp
Daemon == StartDaemon \/ CloseProvider
Wait(q) == FallAsleep(q) \/ Reject(q) \/ Admit(q)
Classify(q) == Post(q) \/ Decide(q) \/ ClassifierFails(q)
Run(q) == Stage(q) \/ StageFails(q) \/ Deadline(q) \/ Return(q)

Next ==
  \/ Environment \/ Monitor \/ Daemon \/ Shutdown
  \/ \E q \in Queries : Ask(q) \/ Wait(q) \/ Classify(q) \/ Run(q)

Spec == Init /\ [][Next]_vars

\* The event loop runs what is runnable; a probe, a decision and a playbook
\* have deadlines.  Nobody has to ask, to shut down or to repair the service.
FairSpec ==
  /\ Spec
  /\ WF_vars(Monitor) /\ WF_vars(Daemon)
  /\ \A q \in Queries : WF_vars(Wait(q) \/ Classify(q) \/ Run(q))

(***************************************************************************)
(* Properties                                                              *)
(***************************************************************************)
Complete(h) == ~h.truncated /\ ~h.degraded /\ ~h.fallback

\* specs/2026-09-22-unified-query-orchestration.md:265: whatever times out, fails, is
\* cut or is replaced on the way, an answer is complete exactly when its playbook is the
\* classifier's and owes nothing but what a missing index was silent about; while the
\* index is there, exactly when every result was given in full.  What the routes cannot
\* tell is not counted: a rank below the limit of a search, a 21st symbol of a name, an
\* anchor that names nothing.
CompletenessIsTruthful ==
  \A q \in At({"answered"}) :
    Complete(handler[q]) <=> handler[q].followed /\ handler[q].owed = handler[q].silent

\* The same document, line 267: an unavailable index is represented truthfully.  It does
\* not hold: of the routes only the search says that a repository is not indexed.
UnavailableIndexIsReported ==
  \A q \in At({"answered"}) : handler[q].silent > 0 => ~Complete(handler[q])

\* A query that waits for the provider is woken whatever becomes of the
\* service, and none waits for the close that itself waits for the queries.
EveryQueryReturns ==
  \A q \in Queries : q \in InFlight ~> q \in At({"answered", "raised"})

\* docs/decision-api.md: an outage ends with a ready daemon or, after the
\* bounded recovery and the drain, with none.
OutagesEnd == daemon \in {"serving", "draining"} /\ ~IsReady ~> IsReady \/ daemon = "closed"

\* From the routing on, a handler is marked incomplete exactly when something is missing
\* that the stages still to come will not give.
InOrder(todo) ==
  \/ todo \in {<<"search">>, <<"search", "files">>, <<"search", "traversal">>}
  \/ todo \in {<<"traversal">>, <<"impact">>, <<"inventory">>}
  \/ \A i \in DOMAIN todo : todo[i] \in {"inspect", "references"}
Due(h) == Results(h.todo) + h.silent
Honest(h) ==
  h.at \in {"running", "answered"} =>
    /\ InOrder(h.todo)
    /\ h.owed >= Due(h) /\ (Complete(h) <=> h.followed /\ h.owed = Due(h))
FlagsAreTruthful == \A q \in Queries : Honest(handler[q])

\* Who waits for the provider is waited for by its close, and while somebody sleeps
\* the monitor is at work and its next result wakes him.
MonitorServesSleepers ==
  /\ daemon \in {"starting", "closed"} => InFlight = {} /\ ~ready /\ monitor = "off"
  /\ daemon \in {"serving", "draining"} /\ ~terminal => monitor \in {"asleep", "up", "down"}
  /\ \A q \in At({"asleep"}) : ~ready /\ ~terminal /\ daemon \in {"serving", "draining"}
  /\ terminal <=> failed = RecoveryProbes
  /\ daemon = "starting" => ~terminal
  /\ terminal /\ daemon = "serving" => monitor = "giving_up"
  /\ terminal => monitor \in {"giving_up", "off"}
  /\ monitor = "giving_up" => terminal
==============================================================================
