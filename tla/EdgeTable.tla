------------------------------ MODULE EdgeTable ------------------------------
(***************************************************************************)
(* What the edge table of an event graph promises to the searches that run *)
(* on it, with none of the threads that fill it: the connections found by  *)
(* the connectors, `wanted`, enter the table one at a time, each exactly   *)
(* once, and the table is published when, and only when, none is missing.  *)
(***************************************************************************)
EXTENDS Naturals

VARIABLES wanted,      \* the set of connections (source event, sink event, relation)
          table,       \* the connections that have an edge
          count,       \* the number of edge objects allocated into the table
          published    \* the graph has been handed to its users

vars == <<wanted, table, count, published>>

Init ==
  /\ table = {}
  /\ count = 0
  /\ published = FALSE

Insert(k) ==
  /\ ~published
  /\ table' = table \cup {k}
  /\ count' = count + 1
  /\ UNCHANGED <<wanted, published>>

Publish ==
  /\ ~published
  /\ table = wanted
  /\ published' = TRUE
  /\ UNCHANGED <<wanted, table, count>>

Next == (\E k \in wanted \ table : Insert(k)) \/ Publish

(* What the table never does, whether it is published or not.              *)
SafeSpec == Init /\ [][Next]_vars

(* What a user waits for: the table is published in the end.               *)
Spec == SafeSpec /\ <>published
=============================================================================
