-------------------------- MODULE ReadWriteExclusion --------------------------
(***************************************************************************)
(* What a native graph is promised by its gate: any number of reads, or    *)
(* one mutation and nothing else.                                          *)
(***************************************************************************)
EXTENDS FiniteSets

CONSTANT Threads  \* threads that call the graph

VARIABLES
  reading,  \* threads inside a graph_read method
  mutating  \* threads inside a graph_mutation method

vars == <<reading, mutating>>

Init == reading = {} /\ mutating = {}

StartRead(t) ==
  /\ t \notin reading
  /\ mutating = {}
  /\ reading' = reading \cup {t}
  /\ UNCHANGED mutating

EndRead(t) ==
  /\ t \in reading
  /\ reading' = reading \ {t}
  /\ UNCHANGED mutating

StartMutation(t) ==
  /\ reading = {} /\ mutating = {}
  /\ mutating' = {t}
  /\ UNCHANGED reading

EndMutation(t) ==
  /\ mutating = {t}
  /\ mutating' = {}
  /\ UNCHANGED reading

Next ==
  \E t \in Threads : StartRead(t) \/ EndRead(t) \/ StartMutation(t) \/ EndMutation(t)

Spec == Init /\ [][Next]_vars
=============================================================================
