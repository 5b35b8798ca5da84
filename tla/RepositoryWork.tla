--------------------------- MODULE RepositoryWork ---------------------------
(***************************************************************************)
(* What the durable queue promises the repositories: each has at most one  *)
(* piece of work that waits and one that is done, no two that share a      *)
(* store are worked on together, and work that was asked for grows, is     *)
(* interrupted and comes back, but is lost neither to a merge nor to the   *)
(* death of a daemon.                                                      *)
(***************************************************************************)
EXTENDS Integers

CONSTANTS
  Repos,    \* canonical repository roots
  StoreOf,  \* the store of each
  Paths     \* the files a request can name

VARIABLES
  waiting,  \* the work each repository waits for
  running,  \* the work that is done for it
  up        \* whether a daemon runs

vars == <<waiting, running, up>>

Nothing == [mode |-> "none", paths |-> {}]

\* A deletion outweighs everything, and "none" is no work.
Weight == [none |-> 0, cleanup |-> 1, files |-> 2, full |-> 3, force_full |-> 4,
           drop_index |-> 5]

\* Only the work on single files has paths.
Works == {w \in [mode : DOMAIN Weight \ {"none"}, paths : SUBSET Paths] :
            w.mode # "files" => w.paths = {}}

\* The least work that does both.
Join(v, w) ==
  LET mode == IF Weight[w.mode] > Weight[v.mode] THEN w.mode ELSE v.mode
  IN  [mode |-> mode, paths |-> IF mode = "files" THEN v.paths \cup w.paths ELSE {}]

Deletes(w) == w.mode = "drop_index"

Ask(r, w) ==
  /\ up
  /\ ~Deletes(waiting[r]) /\ ~Deletes(running[r])
  /\ waiting' = [waiting EXCEPT ![r] = Join(@, w)]
  /\ UNCHANGED <<running, up>>

\* Work for r may start: nobody works on its store.
Startable(r) ==
  /\ waiting[r] # Nothing
  /\ \A s \in Repos : running[s] # Nothing => StoreOf[s] # StoreOf[r]

\* Cleanup gives way to everything else that could start.
Start(r) ==
  /\ up
  /\ Startable(r)
  /\ waiting[r].mode = "cleanup" =>
       \A s \in Repos : Startable(s) => waiting[s].mode = "cleanup"
  /\ waiting' = [waiting EXCEPT ![r] = Nothing]
  /\ running' = [running EXCEPT ![r] = waiting[r]]
  /\ UNCHANGED up

\* The work is done, or was stopped or given up.
End(r) ==
  /\ up
  /\ running[r] # Nothing
  /\ running' = [running EXCEPT ![r] = Nothing]
  /\ UNCHANGED <<waiting, up>>

\* An attempt fails and the work waits again, with what was asked meanwhile.
Return(r) ==
  /\ up
  /\ running[r] # Nothing
  /\ waiting' = [waiting EXCEPT ![r] = Join(@, running[r])]
  /\ running' = [running EXCEPT ![r] = Nothing]
  /\ UNCHANGED up

Withdraw(r) ==
  /\ up
  /\ waiting' = [waiting EXCEPT ![r] = Nothing]
  /\ UNCHANGED <<running, up>>

\* Everything that waits is withdrawn, but for the deletions.
WithdrawAll ==
  /\ up
  /\ waiting' = [r \in Repos |-> IF Deletes(waiting[r]) THEN waiting[r] ELSE Nothing]
  /\ UNCHANGED <<running, up>>

Stop == up /\ up' = FALSE /\ UNCHANGED <<waiting, running>>

\* The next daemon finds all the work there was: what was interrupted waits again.
Restart ==
  /\ ~up
  /\ up' = TRUE
  /\ waiting' = [r \in Repos |-> Join(waiting[r], running[r])]
  /\ running' = [r \in Repos |-> Nothing]

Init ==
  /\ waiting = [r \in Repos |-> Nothing]
  /\ running = [r \in Repos |-> Nothing]
  /\ up = FALSE

Next ==
  \/ \E r \in Repos :
       \/ \E w \in Works : Ask(r, w)
       \/ Start(r) \/ End(r) \/ Return(r) \/ Withdraw(r)
  \/ WithdrawAll \/ Stop \/ Restart

Spec == Init /\ [][Next]_vars
=============================================================================
