--------------------------- MODULE TransactionGraph ---------------------------
(***************************************************************************)
(* The transaction graph of a user-interface event                         *)
(* (src/src/GraphsGenerator/transactiongraph.cpp).                         *)
(*                                                                         *)
(* init_graph walks the groups of a thread from a root group until one of  *)
(* them updates the views or the next application event begins.  From each *)
(* group it searches forward along the connections of the events that come *)
(* after the one the group was entered by.  The groups still to be         *)
(* expanded wait in search_node, a hash map of nodes: the next one taken   *)
(* is any of them.                                                         *)
(*                                                                         *)
(* A trace is the output of the earlier stages: its group field is the     *)
(* sequence of groups, those of one thread in order, and its ev[e] the     *)
(* event e.  Left out: the per-node maps of edges, which the event graph   *)
(* shares and EventGraph models; printing.                                 *)
(***************************************************************************)
EXTENDS Naturals, Sequences, FiniteSets, Functions

CONSTANTS Traces,      \* the traces
          EventIds,    \* their events
          Asserts      \* assert is compiled in: the Makefile defines NDEBUG on Linux

NoGroup  == 0          \* nullptr for groups and nodes
NoEvent  == "null"     \* nullptr for events
NoThread == "none"     \* -1, an unknown thread

VARIABLES
  trace,     \* the trace
  root,      \* the group the graph is constructed from
  cur,       \* the group of cur_gid, NoGroup when there is none
  phase,     \* "walk", "search", "done" or "crashed"
  nodes,     \* search_group: the groups that have a node
  filed,     \* nodes_map: the nodes that the rest of the program can find
  main,      \* main_nodes
  work,      \* search_node: pairs of a group and the event it was entered by
  edges,     \* edge_map: pairs of events with the relation
  rootNode,  \* root_node
  end,       \* end_node
  walked,    \* history: the groups augment_node was called with
  entry      \* history: the event each node was entered by

graph == <<nodes, filed, main, work, edges, end, entry>>
vars  == <<trace, root, cur, phase, graph, rootNode, walked>>

-----------------------------------------------------------------------------
(* The trace.                                                              *)

Groups    == trace.group
GroupIds  == DOMAIN Groups
Ev(e)     == trace.ev[e]
Events(g) == Groups[g].events
GroupOf(e) == Ev(e).grp

\* Group::add_to_container notes the application event and the update of views.
Has(g, kind) == \E i \in DOMAIN Events(g) : Ev(Events(g)[i]).kind = kind
NSApp(g) == Has(g, "nsapp")
View(g)  == Has(g, "caset")

\* The group with the id after that of g: the next one of the thread.
Next_gid(g) == Groups[g].next

\* get_first_event skips the call stacks a group begins with.
FirstEvent(g) ==
  LET real == {i \in DOMAIN Events(g) : Ev(Events(g)[i]).kind # "backtrace"}
  IN  IF real = {} THEN Events(g)[1]
      ELSE Events(g)[CHOOSE i \in real : \A j \in real : i <= j]

\* Where an event is in its group.
Position(g, e) == CHOOSE i \in DOMAIN Events(g) : Events(g)[i] = e

EventRef == EventIds \cup {NoEvent}

\* What the earlier stages guarantee. A group is a non-empty sequence of its own events,
\* each once (ThreadDivider's GroupsPartitionEvents); the next group is the one whose id
\* is by one greater, so it is next to no other; peers are events.
TraceOK(tr) ==
  LET threads == {tr.group[g].thread : g \in DOMAIN tr.group} IN
  /\ tr.group \in Seq([thread : threads, next : Nat, events : Seq(EventIds), cut : BOOLEAN])
  /\ tr.main \in {NoThread} \cup threads
  /\ \A g \in DOMAIN tr.group :
       LET group == tr.group[g] IN
       /\ group.events # <<>> /\ IsInjective(group.events)
       /\ \A i \in DOMAIN group.events : tr.ev[group.events[i]].grp = g
       /\ group.next \in DOMAIN tr.group \cup {NoGroup}
       /\ group.next # NoGroup =>
            /\ tr.group[group.next].thread = group.thread
            /\ \A h \in DOMAIN tr.group : tr.group[h].next = group.next => h = g
  /\ \A e \in EventIds :
       LET v == tr.ev[e] IN
       /\ v.grp \in DOMAIN tr.group \cup {NoGroup}
       /\ v.grp # NoGroup => e \in Range(tr.group[v.grp].events)
       /\ v.peer \in EventRef
       /\ v.kind = "msg" => v.next \in EventRef

ASSUME AssertsAssumption == Asserts \in BOOLEAN
ASSUME EventsAssumption == NoEvent \notin EventIds
ASSUME TracesAssumption == \A tr \in Traces : DOMAIN tr.ev = EventIds /\ TraceOK(tr)

\* TransactionGraph::get_main_tid.
MainThread == IF trace.main = NoThread THEN Groups[root].thread ELSE trace.main

-----------------------------------------------------------------------------
(* Connections, outgoing only.                                             *)

Edge(from, to, rel) == [from |-> from, to |-> to, rel |-> rel]

\* The peer that the switch of get_outgoing_connections looks at, if any.
PeerOf(e) ==
  CASE Ev(e).kind = "msg"  -> IF Ev(e).recv THEN Ev(e).next ELSE Ev(e).peer
    [] Ev(e).kind = "hwbr" -> IF Ev(e).read THEN NoEvent ELSE Ev(e).peer
    [] Ev(e).kind \in {"enq", "create", "caset", "rl", "mkrun"} -> Ev(e).peer
    [] OTHER -> NoEvent
Relation(e) ==
  CASE Ev(e).kind = "msg" -> "MSGP" [] Ev(e).kind = "hwbr" -> "HWBR"
    [] Ev(e).kind = "enq" -> "DISP_EXE" [] Ev(e).kind = "create" -> "TIMERCALLOUT"
    [] Ev(e).kind = "caset" -> "CA" [] Ev(e).kind = "rl" -> "RLITEM"
    [] OTHER -> "MKRUN"

\* add_out_edge and add_out_weak_edge refuse an edge that goes back in time.
InTime(from, to) == Ev(from).time <= Ev(to).time

After(g, e) == {Events(g)[i] : i \in Position(g, e) .. Len(Events(g))}
Connections(g, after) ==
  {Edge(e, PeerOf(e), Relation(e)) :
     e \in {c \in After(g, after) : PeerOf(c) # NoEvent /\ InTime(c, PeerOf(c))}}

(* add_weak_edge: a group that a divider has cut goes on in the next one.  *)
LastEvent(g) == Events(g)[Len(Events(g))]
WeakEdge(g) ==
  IF ~Groups[g].cut \/ Next_gid(g) = NoGroup THEN {}
  ELSE LET from == LastEvent(g)
           to   == FirstEvent(Next_gid(g))
       IN  IF InTime(from, to) THEN {Edge(from, to, "WEAK")} ELSE {}

\* What is new of these to the edge table.
New(es) == es \ edges

\* When an edge of group g is proposed: along the events, the weak edge at the end.
Rank(g, e) == IF e.rel = "WEAK" THEN Len(Events(g)) + 1 ELSE Position(g, e.from)

\* The map from the groups that es leads to to the first edge that does.
ByGroup(g, es) ==
  [h \in {GroupOf(e.to) : e \in es} \ {g} |->
     CHOOSE e \in es : /\ GroupOf(e.to) = h
                       /\ \A f \in es : GroupOf(f.to) = h => Rank(g, e) <= Rank(g, f)]

\* Mutant: weak edges are not followed.
Outgoing_NoWeak(g, after) == ByGroup(g, New(Connections(g, after)))
\* Mutant: all events of the group are looked at.
Outgoing_All(g, after) == ByGroup(g, New(Connections(g, Events(g)[1]) \cup WeakEdge(g)))

(* get_outgoing_connections.                                               *)
Outgoing(g, after) == ByGroup(g, New(Connections(g, after) \cup WeakEdge(g)))

-----------------------------------------------------------------------------
(* The graph.                                                              *)

Init ==
  /\ trace \in Traces /\ root \in GroupIds
  /\ cur = root /\ phase = "walk"
  /\ nodes = {} /\ filed = {} /\ main = {} /\ work = {} /\ edges = {}
  /\ rootNode = NoGroup /\ end = NoGroup
  /\ walked = {} /\ entry = <<>>

\* Mutant: only nodes that update the views are entered in main_nodes.
AddNodes_ViewsOnly(gs) ==
  LET mains == {g \in gs : Groups[g].thread = MainThread /\ View(g)}
  IN  /\ nodes' = nodes \cup gs
      /\ filed' = IF Asserts THEN filed \cup gs ELSE filed
      /\ main' = main \cup mains
      /\ IF mains = {} THEN end' = end ELSE end' \in mains

\* add_node for the groups of gs, of which add_node has been called in any order:
\* the last one that updates the views becomes the end node.  The call that files
\* the node is the argument of an assert.
AddNodes(gs) ==
  LET mains == {g \in gs : Groups[g].thread = MainThread}
      views == {g \in mains : View(g)}
  IN  /\ nodes' = nodes \cup gs
      /\ filed' = IF Asserts THEN filed \cup gs ELSE filed
      /\ main' = main \cup mains
      /\ IF views = {} THEN end' = end ELSE end' \in views

\* The test of the loop of init_graph.
Over == \/ cur = NoGroup
        \/ end # NoGroup
        \/ cur # NoGroup /\ rootNode # NoGroup /\ NSApp(cur)

(* The walk has come to its end; without an end node get_end_node takes    *)
(* the first node of main_nodes that updates the views.                    *)
Finish ==
  /\ phase = "walk" /\ Over
  /\ phase' = "done"
  /\ LET views == {g \in main : View(g)}
     IN  end' = IF end # NoGroup \/ views = {} THEN end
                ELSE CHOOSE g \in views : \A h \in views : g <= h
  /\ UNCHANGED <<trace, root, cur, nodes, filed, main, work, edges, entry, rootNode, walked>>

(* The walk goes past a group that a search has reached.                   *)
Skip ==
  /\ phase = "walk" /\ ~Over /\ cur \in main
  /\ cur' = Next_gid(cur)
  /\ UNCHANGED <<trace, root, phase, graph, rootNode, walked>>

(* augment_node(cur): its node is the first of search_node; a group that   *)
(* has a node gets no second one.                                          *)
Augment ==
  /\ phase = "walk" /\ ~Over /\ cur \notin main
  /\ IF cur \in nodes THEN UNCHANGED graph
     ELSE /\ AddNodes({cur})
          /\ work' = {<<cur, FirstEvent(cur)>>}
          /\ entry' = [g \in nodes \cup {cur} |-> IF g = cur THEN FirstEvent(cur) ELSE entry[g]]
          /\ UNCHANGED edges
  /\ walked' = walked \cup {cur}
  /\ phase' = "search"
  /\ UNCHANGED <<trace, root, cur, rootNode>>

\* Mutant: the event an edge comes from is where the search goes on.
Target_Source(e) == e.from
\* Where it goes on in a group it reaches.
Target(e) == e.to

\* The groups the search goes on to.
Reached(out) == {h \in DOMAIN out : ~NSApp(h) /\ h \notin nodes}

(* BFS of any node of search_node.  A connection to an event in no group   *)
(* leaves a null group in the map, which BFS dereferences.                 *)
Search ==
  /\ phase = "search"
  /\ \E item \in work :
       LET g   == item[1]
           out == Outgoing(g, item[2])
       IN  /\ edges' = edges \cup Connections(g, item[2]) \cup WeakEdge(g)
           /\ IF NoGroup \in DOMAIN out
              THEN phase' = "crashed" /\ UNCHANGED <<nodes, filed, main, end, work, entry>>
              ELSE /\ AddNodes(Reached(out))
                   /\ work' = (work \ {item}) \cup {<<h, Target(out[h])>> : h \in Reached(out)}
                   /\ entry' = [h \in nodes \cup Reached(out) |->
                                  IF h \in nodes THEN entry[h] ELSE Target(out[h])]
                   /\ UNCHANGED phase
  /\ UNCHANGED <<trace, root, cur, rootNode, walked>>

\* The group with the id before that of g.
Previous(g) == CHOOSE h \in GroupIds : Next_gid(h) = g

\* The end of augment_node.  After the first group, init_graph adds the weak
\* edge from the group before, which main_nodes must hold: [] inserts a null node.
Advance ==
  /\ phase = "search" /\ work = {}
  /\ IF rootNode = NoGroup
     THEN rootNode' = cur /\ phase' = "walk" /\ UNCHANGED edges
     ELSE /\ UNCHANGED rootNode
          /\ IF Previous(cur) \notin main THEN phase' = "crashed" /\ UNCHANGED edges
             ELSE phase' = "walk" /\ edges' = edges \cup WeakEdge(Previous(cur))
  /\ cur' = Next_gid(cur)
  /\ UNCHANGED <<trace, root, nodes, filed, main, work, end, walked, entry>>

Stopped == phase \in {"done", "crashed"} /\ UNCHANGED vars

Next == Finish \/ Skip \/ Augment \/ Search \/ Advance \/ Stopped

Spec == Init /\ [][Next]_vars

-----------------------------------------------------------------------------
(* Correctness.                                                            *)

\* Types: what the search keeps are groups, and events of these groups.
TypeOK ==
  /\ root \in GroupIds
  /\ cur \in GroupIds \cup {NoGroup} /\ phase \in {"walk", "search", "done", "crashed"}
  /\ nodes \subseteq GroupIds /\ filed \subseteq nodes /\ main \subseteq nodes
  /\ {rootNode, end} \subseteq nodes \cup {NoGroup} /\ walked \subseteq GroupIds
  /\ DOMAIN entry = nodes
  /\ \A g \in nodes : entry[g] \in Range(Events(g))
  /\ \A item \in work : item[1] \in nodes /\ item[2] = entry[item[1]]
  /\ \A e \in edges : {e.from, e.to} \subseteq EventIds

\* The reference: from a group entered by an event, all connections of the
\* events that come after it, to groups in which no application event begins.  Connections go
\* forward in time, so that a path that comes back to a group gains nothing.
Onward(pair) ==
  LET g == pair[1]
      leads == Connections(g, pair[2]) \cup WeakEdge(g)
  IN  {<<GroupOf(e.to), e.to>> : e \in {c \in leads :
         /\ GroupOf(c.to) \notin {NoGroup, g}
         /\ ~NSApp(GroupOf(c.to))}}
Reach ==
  LET level[n \in 0 .. Len(Groups)] ==
        IF n = 0 THEN {<<g, FirstEvent(g)>> : g \in walked}
        ELSE LET before == level[n - 1] IN before \cup UNION {Onward(p) : p \in before}
  IN  level[Len(Groups)]

\* Every node is reached from a group of the walk along connections that never go
\* back within a group, and was entered by the event such a path leads to
\* (get_outgoing_connections starts at event_after).
NodesAreReachable ==
  LET reach == Reach IN \A g \in nodes : <<g, entry[g]>> \in reach

\* g was entered by a later event than a path of connections leads to.
EnteredLate(g, reach) ==
  \E p \in reach : p[1] = g /\ Position(g, p[2]) < Position(g, entry[g])

\* A graph that misses a reachable group has a node that was entered late: a
\* group is expanded once, by the first connection to be found, and what only
\* its earlier events lead to is lost.  Nothing else is (BFS, search_node).
CompleteUnlessEnteredLate ==
  phase = "done" =>
    LET reach == Reach
    IN  {p[1] : p \in reach} \subseteq nodes \/ \E g \in nodes : EnteredLate(g, reach)

\* The construction stops with a null pointer only if a connection leads to an event
\* in no group, or if the root is not of the known main thread, so that the walk's own
\* groups are not in main_nodes.
CrashesOnly ==
  phase = "crashed" =>
    \/ \E e \in edges : GroupOf(e.to) = NoGroup
    \/ Groups[root].thread # MainThread /\ Next_gid(root) # NoGroup

\* What assert(check_and_add_node(node) == nullptr) in add_node says: each node
\* of the search is filed in the graph.
NodesAreFiled == filed = nodes

=============================================================================
