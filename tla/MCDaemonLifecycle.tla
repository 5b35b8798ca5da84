-------------------------- MODULE MCDaemonLifecycle --------------------------
(* Small instances of the daemon's life cycle. *)
EXTENDS DaemonLifecycle, TLC

CONSTANTS d1, d2, c1, c2

TwoDaemons == {d1, d2}
TwoControllers == {c1, c2}
\* One is used for bridges and "scs daemon stop", one also removes SCS.
Roles == (c1 :> {"ensure", "stop"}) @@ (c2 :> {"ensure", "uninstall"})
=============================================================================
