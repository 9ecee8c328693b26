----------------------------- MODULE EventGraph -----------------------------
(***************************************************************************)
(* Construction of the event graph (src/src/GraphsGenerator/eventgraph.cpp *)
(* and the Node/Edge/Graph classes of graph.cpp).                          *)
(*                                                                         *)
(* The main thread creates one node per group and posts one task per node  *)
(* to a pool of Workers; a task walks the events of its group and proposes *)
(* the edges each event's connection asks for.  Both endpoints of a        *)
(* connection propose the same edge, usually from two workers, and         *)
(* Graph::check_and_add_edge keeps one of the two under graph_edge_mtx.    *)
(* The endpoint pointers, the per-node edge maps and the statistics are    *)
(* written outside that lock.  After join_all the main thread adds the     *)
(* weak edges, counts duplicated wake-ups and completes the endpoints.     *)
(*                                                                         *)
(* A trace is the output of the earlier stages: its group field is the     *)
(* sequence of groups in group-id order (a node is its position in it) and *)
(* its ev[e] is the event e with the peers the connectors gave it.         *)
(***************************************************************************)
EXTENDS Naturals, Sequences, FiniteSets, Functions

CONSTANTS Workers,    \* the threads of the pool
          EventIds,   \* the events
          Traces      \* the traces the graph may be built from

NoNode  == 0          \* nullptr, for nodes; also the place of an event in no group
NoEvent == "null"     \* nullptr, for events
NoEdge  == 0          \* nullptr, for edges

VARIABLES
  trace,      \* the trace the graph is built from
  phase,      \* what the main thread does
  posted,     \* tasks posted so far: nodes 1 .. posted
  taken,      \* tasks taken so far: nodes 1 .. taken
  pc,         \* pc[w]: where worker w is in its task
  node,       \* node[w]: the node whose task w runs
  pos,        \* pos[w]: the event of the group that w looks at
  todo,       \* todo[w]: the proposals of that event still to be made
  hit,        \* hit[w]: the existing edge found by check_and_add_edge, or NoEdge
  reg,        \* reg[w]: the counter value w has loaded and not yet stored
  lock,       \* graph_edge_mtx: the worker holding it, or "free"
  edges,      \* Graph::edges, an edge being its position (its address)
  outMap,     \* outMap[n]: out_edges of node n, pairs <<key event, edge>>
  inMap,      \* inMap[n]: in_edges of node n, pairs <<key event, edge>>
  weakOut,    \* weakOut[n]: out_weak_edges of node n
  weakIn,     \* weakIn[n]: in_weak_edges of node n
  degree,     \* degree[n]: the in and out counters of node n
  weakMkrun,  \* the statistic weak_mkrun_edge
  dupMkrun,   \* the statistic dup_mkrun
  weakNext    \* the node whose weak edge the main thread adds next

pool == <<pc, node, pos, todo, hit, reg, lock>>
maps == <<outMap, inMap, weakOut, weakIn, degree>>
vars == <<trace, phase, posted, taken, pool, edges, maps, weakMkrun, dupMkrun,
          weakNext>>

-----------------------------------------------------------------------------
(* The trace.                                                              *)

Groups     == trace.group
Nodes      == 1 .. Len(Groups)
Ev(e)      == trace.ev[e]
NodeOf(e)  == Ev(e).grp          \* the node of Groups::group_of(e), or NoNode
Events(n)  == Groups[n].events   \* the container of a group
IsA(e, kind) == e # NoEvent /\ Ev(e).kind = kind   \* dynamic_cast succeeds

EventRef == EventIds \cup {NoEvent}

\* What the earlier stages guarantee of a trace. A group is a non-empty sequence of
\* its own events, each once (ThreadDivider's GroupsPartitionEvents), and an event of
\* each kind carries the pointers of its class. A display takes a layer update that no
\* display has yet; a faked wake-up is made with its wake-up and is set as its peer.
TraceOK(tr) ==
  /\ tr.group \in Seq([events : Seq(EventIds), next : Nat, kernelWait : BOOLEAN,
                       workqReturn : BOOLEAN, similar : BOOLEAN])
  /\ \A n \in DOMAIN tr.group :
       LET g == tr.group[n] IN
       /\ g.events # <<>> /\ IsInjective(g.events) /\ g.next \in 0 .. Len(tr.group)
       /\ \A i \in DOMAIN g.events : tr.ev[g.events[i]].grp = n
  /\ \A e \in EventIds :
       LET v == tr.ev[e] IN
       /\ v.grp \in 0 .. Len(tr.group)
       /\ v.grp # NoNode => e \in Range(tr.group[v.grp].events)
       /\ v.kind \in {"enq", "invoke", "create", "callout", "caset", "hwbr", "mkrun", "fake"}
             => v.peer \in EventRef
       /\ v.kind = "msg" => v.peer \in EventRef /\ v.next \in EventRef /\ v.prev \in EventRef
       /\ v.kind = "rl" => v.owner \in EventRef /\ v.consumer \in EventRef
       /\ v.kind = "cadisplay" => v.sets \in Seq(EventIds) /\ IsInjective(v.sets)
       /\ v.kind = "fake" /\ v.peer # NoEvent =>
             (tr.ev[v.peer].kind = "mkrun" => tr.ev[v.peer].peer = e)

ASSUME WorkersAssumption == "free" \notin Workers
ASSUME EventsAssumption == NoEvent \notin EventIds
ASSUME TracesAssumption == \A t \in Traces : TraceOK(t)

-----------------------------------------------------------------------------
(* The edges the handlers of add_edges propose.  A proposal carries the    *)
(* edge it would allocate and the map of the node it is made for.          *)

Proposal(from, to, rel, side) == [from |-> from, to |-> to, rel |-> rel, side |-> side]
Out(from, to, rel)     == <<Proposal(from, to, rel, "out")>>
In(from, to, rel)      == <<Proposal(from, to, rel, "in")>>
WeakOut(from, to, rel) == <<Proposal(from, to, rel, "weak_out")>>
WeakIn(from, to, rel)  == <<Proposal(from, to, rel, "weak_in")>>

EdgesForMsg(e) ==
  LET m == Ev(e) IN
  (IF m.next # NoEvent THEN Out(e, m.next, "MSGP_NEXT")
   ELSE IF m.prev # NoEvent THEN In(m.prev, e, "MSGP_NEXT") ELSE <<>>)
  \o
  (IF ~IsA(m.peer, "msg") THEN <<>>
   ELSE IF m.recv THEN In(m.peer, e, "MSGP") ELSE Out(e, m.peer, "MSGP"))

EdgesForDispEnq(e) ==
  IF IsA(Ev(e).peer, "invoke") THEN Out(e, Ev(e).peer, "DISP_EXE") ELSE <<>>

EdgesForDispInvoke(e) ==
  IF IsA(Ev(e).peer, "enq") THEN In(Ev(e).peer, e, "DISP_EXE") ELSE <<>>

EdgesForCallCreate(e) ==
  IF Ev(e).peer # NoEvent THEN Out(e, Ev(e).peer, "TIMERCALLOUT") ELSE <<>>

EdgesForCallout(e) ==
  IF Ev(e).peer # NoEvent THEN In(Ev(e).peer, e, "TIMERCALLOUT") ELSE <<>>

EdgesForCASet(e) ==
  IF Ev(e).peer # NoEvent THEN Out(e, Ev(e).peer, "CA") ELSE <<>>

EdgesForCADisplay(e) ==
  [i \in DOMAIN Ev(e).sets |-> In(Ev(e).sets[i], e, "CA")[1]]

EdgesForRLItem(e) ==
  (IF Ev(e).owner # NoEvent THEN In(Ev(e).owner, e, "RLITEM") ELSE <<>>)
  \o
  (IF Ev(e).consumer # NoEvent THEN Out(e, Ev(e).consumer, "RLITEM") ELSE <<>>)

EdgesForHwbr(e) ==
  IF ~IsA(Ev(e).peer, "hwbr") THEN <<>>
  ELSE IF Ev(e).read THEN In(Ev(e).peer, e, "HWBR") ELSE Out(e, Ev(e).peer, "HWBR")

\* Mutant: add_in_edge is called for the wrong end.
EdgesForMkrun_InEdge(e) ==
  IF Ev(e).peer = NoEvent THEN <<>> ELSE In(e, Ev(e).peer, "MKRUN")

EdgesForMkrun(e) ==
  IF Ev(e).peer = NoEvent THEN <<>>
  ELSE IF Ev(e).weak THEN WeakOut(e, Ev(e).peer, "WEAK_MKRUN")
  ELSE Out(e, Ev(e).peer, "MKRUN")

EdgesForFakedWoken(e) ==
  LET mkrun == Ev(e).peer IN
  IF ~IsA(mkrun, "mkrun") \/ NodeOf(mkrun) = NoNode THEN <<>>
  ELSE IF Ev(mkrun).weak THEN WeakIn(mkrun, e, "WEAK_MKRUN")
  ELSE In(mkrun, e, "MKRUN")

\* The switch of EventGraph::add_edges.
ProposalsOf(e) ==
  CASE Ev(e).kind = "msg"        -> EdgesForMsg(e)
    [] Ev(e).kind = "enq"        -> EdgesForDispEnq(e)
    [] Ev(e).kind = "invoke" -> EdgesForDispInvoke(e)
    [] Ev(e).kind = "create"     -> EdgesForCallCreate(e)
    [] Ev(e).kind = "callout"    -> EdgesForCallout(e)
    [] Ev(e).kind = "caset"      -> EdgesForCASet(e)
    [] Ev(e).kind = "cadisplay"  -> EdgesForCADisplay(e)
    [] Ev(e).kind = "rl"         -> EdgesForRLItem(e)
    [] Ev(e).kind = "hwbr"       -> EdgesForHwbr(e)
    [] Ev(e).kind = "mkrun"      -> EdgesForMkrun(e)
    [] Ev(e).kind = "fake"       -> EdgesForFakedWoken(e)
    [] OTHER                     -> <<>>

\* Node::add_in_edge and its siblings refuse an edge that goes back in time.
InTime(p) == Ev(p.from).time <= Ev(p.to).time

\* Edge::operator== compares exactly these three fields.
Key(p)   == <<p.from, p.to, p.rel>>
Keys(es) == {Key(es[i]) : i \in DOMAIN es}

\* The weak edge from a node to the next group of its thread, if there is one.
\* kernelWait: the group ends in a kernel_task wait woken by a timeout or an
\* external wake-up; workqReturn: it was closed by the wait of BSC_workq_kernreturn;
\* similar: the two groups share more than three call-stack symbols.
LastEvent(n) == Events(n)[Len(Events(n))]
RealFirstEvent(n) ==
  LET real == {i \in DOMAIN Events(n) : Ev(Events(n)[i]).kind \notin {"backtrace", "fake"}}
  IN  IF real = {} THEN Events(n)[1]
      ELSE Events(n)[CHOOSE i \in real : \A j \in real : i <= j]
WeakEdgeOf(n) ==
  LET g == Groups[n] IN
  IF g.next = NoNode \/ g.kernelWait \/ g.workqReturn THEN <<>>
  ELSE WeakOut(LastEvent(n), RealFirstEvent(g.next), IF g.similar THEN "WEAK_BOOST" ELSE "WEAK")

-----------------------------------------------------------------------------
(* Storing an edge.                                                        *)

NewEdge(p) == [from |-> p.from, to |-> p.to, rel |-> p.rel,
               fromNode |-> NoNode, toNode |-> NoNode]

\* Mutant: the walk of edge_map stops at any edge with the source event.
Find_SameSource(p) ==
  LET same == {i \in DOMAIN edges : edges[i].from = p.from}
  IN  IF same = {} THEN NoEdge ELSE CHOOSE i \in same : TRUE

\* The edge equal to p found by walking edge_map, or NoEdge.
Find(p) ==
  LET same == {i \in DOMAIN edges : Key(edges[i]) = Key(p)}
  IN  IF same = {} THEN NoEdge ELSE CHOOSE i \in same : TRUE

\* The event under which node->add_*_edge files the edge: `isNew` when
\* check_and_add_edge kept the caller's own edge.
MapKey(p, isNew) ==
  CASE p.side = "out"      -> IF isNew THEN p.from ELSE p.to
    [] p.side = "weak_out" -> p.from
    [] OTHER               -> p.to

\* Files edge i of the table es under node n and points the edge at n.
FileEdge(n, p, i, isNew, es) ==
  LET item  == <<MapKey(p, isNew), i>>
      add(m) == [m EXCEPT ![n] = @ \cup {item}]
  IN  /\ outMap'  = IF p.side = "out"      THEN add(outMap)  ELSE outMap
      /\ inMap'   = IF p.side = "in"       THEN add(inMap)   ELSE inMap
      /\ weakOut' = IF p.side = "weak_out" THEN add(weakOut) ELSE weakOut
      /\ weakIn'  = IF p.side = "weak_in"  THEN add(weakIn)  ELSE weakIn
      /\ degree'  = [degree EXCEPT ![n] =
                       [in  |-> IF p.side = "in"  THEN @.in + 1  ELSE @.in,
                        out |-> IF p.side = "out" THEN @.out + 1 ELSE @.out]]
      /\ edges'   = IF p.side \in {"out", "weak_out"}
                    THEN [es EXCEPT ![i].fromNode = n]
                    ELSE [es EXCEPT ![i].toNode = n]

-----------------------------------------------------------------------------
Init ==
  /\ trace \in Traces
  /\ phase = "post" /\ posted = 0 /\ taken = 0 /\ weakNext = 1
  /\ pc = [w \in Workers |-> "idle"]
  /\ node = [w \in Workers |-> NoNode]
  /\ pos = [w \in Workers |-> 0]
  /\ todo = [w \in Workers |-> <<>>]
  /\ hit = [w \in Workers |-> NoEdge]
  /\ reg = [w \in Workers |-> 0]
  /\ lock = "free"
  /\ edges = <<>>
  /\ outMap = [n \in Nodes |-> {}] /\ inMap = [n \in Nodes |-> {}]
  /\ weakOut = [n \in Nodes |-> {}] /\ weakIn = [n \in Nodes |-> {}]
  /\ degree = [n \in Nodes |-> [in |-> 0, out |-> 0]]
  /\ weakMkrun = 0 /\ dupMkrun = 0

\* Mutant: one task more than there are nodes is posted.
Post_OneMore ==
  /\ phase = "post"
  /\ IF posted <= Len(Groups) THEN posted' = posted + 1 /\ UNCHANGED phase
                              ELSE phase' = "join" /\ UNCHANGED posted
  /\ UNCHANGED <<trace, taken, pool, edges, maps, weakMkrun, dupMkrun, weakNext>>

(* The main thread posts a task per node and gives up the work object.     *)
Post ==
  /\ phase = "post"
  /\ IF posted < Len(Groups) THEN posted' = posted + 1 /\ UNCHANGED phase
                             ELSE phase' = "join" /\ UNCHANGED posted
  /\ UNCHANGED <<trace, taken, pool, edges, maps, weakMkrun, dupMkrun, weakNext>>

(* A worker takes the oldest task posted.                                  *)
Take(w) ==
  /\ pc[w] = "idle" /\ taken < posted
  /\ taken' = taken + 1
  /\ pc' = [pc EXCEPT ![w] = "task"]
  /\ node' = [node EXCEPT ![w] = taken + 1]
  /\ pos' = [pos EXCEPT ![w] = 0]
  /\ UNCHANGED <<trace, phase, posted, todo, hit, reg, lock, edges, maps,
                 weakMkrun, dupMkrun, weakNext>>

(* The next event of the group, or the end of the task.                    *)
NextEvent(w) ==
  /\ pc[w] = "task" /\ todo[w] = <<>>
  /\ IF pos[w] < Len(Events(node[w]))
     THEN /\ pos' = [pos EXCEPT ![w] = @ + 1]
          /\ todo' = [todo EXCEPT ![w] = ProposalsOf(Events(node[w])[pos[w] + 1])]
          /\ UNCHANGED <<pc, node>>
     ELSE /\ pc' = [pc EXCEPT ![w] = "idle"]
          /\ node' = [node EXCEPT ![w] = NoNode]
          /\ UNCHANGED <<pos, todo>>
  /\ UNCHANGED <<trace, phase, posted, taken, hit, reg, lock, edges, maps,
                 weakMkrun, dupMkrun, weakNext>>

\* add_edge_for_fakedwoken counts a weak wake-up whatever became of its edge.
Proposed(w) ==
  /\ todo' = [todo EXCEPT ![w] = Tail(@)]
  /\ pc' = [pc EXCEPT ![w] = IF Head(todo[w]).side = "weak_in" THEN "load" ELSE "task"]

(* An edge that goes back in time is refused before the table is touched.  *)
Refuse(w) ==
  /\ pc[w] = "task" /\ todo[w] # <<>> /\ ~InTime(Head(todo[w]))
  /\ Proposed(w)
  /\ UNCHANGED <<trace, phase, posted, taken, node, pos, hit, reg, lock, edges, maps,
                 weakMkrun, dupMkrun, weakNext>>

\* Mutant: the table is read without graph_edge_mtx.
Lock_NoWait(w) ==
  /\ pc[w] = "task" /\ todo[w] # <<>> /\ InTime(Head(todo[w]))
  /\ lock' = w
  /\ pc' = [pc EXCEPT ![w] = "scan"]
  /\ UNCHANGED <<trace, phase, posted, taken, node, pos, todo, hit, reg, edges, maps,
                 weakMkrun, dupMkrun, weakNext>>

(* check_and_add_edge: lock, ...                                           *)
Lock(w) ==
  /\ pc[w] = "task" /\ todo[w] # <<>> /\ InTime(Head(todo[w]))
  /\ lock = "free"
  /\ lock' = w
  /\ pc' = [pc EXCEPT ![w] = "scan"]
  /\ UNCHANGED <<trace, phase, posted, taken, node, pos, todo, hit, reg, edges, maps,
                 weakMkrun, dupMkrun, weakNext>>

(* ... walk the edges with the same source event, ...                      *)
Scan(w) ==
  /\ pc[w] = "scan"
  /\ hit' = [hit EXCEPT ![w] = Find(Head(todo[w]))]
  /\ IF hit'[w] = NoEdge
     THEN pc' = [pc EXCEPT ![w] = "insert"] /\ UNCHANGED lock
     ELSE pc' = [pc EXCEPT ![w] = "link_old"] /\ lock' = "free"
  /\ UNCHANGED <<trace, phase, posted, taken, node, pos, todo, reg, edges, maps,
                 weakMkrun, dupMkrun, weakNext>>

(* ... and keep the new edge, unlocking, when none of them is equal to it. *)
Insert(w) ==
  /\ pc[w] = "insert"
  /\ edges' = Append(edges, NewEdge(Head(todo[w])))
  /\ hit' = [hit EXCEPT ![w] = Len(edges) + 1]
  /\ lock' = "free"
  /\ pc' = [pc EXCEPT ![w] = "link_new"]
  /\ UNCHANGED <<trace, phase, posted, taken, node, pos, todo, reg, maps,
                 weakMkrun, dupMkrun, weakNext>>

(* The rest of add_in_edge, add_out_edge and the weak ones, without lock.  *)
Link(w) ==
  /\ pc[w] \in {"link_new", "link_old"}
  /\ FileEdge(node[w], Head(todo[w]), hit[w], pc[w] = "link_new", edges)
  /\ Proposed(w)
  /\ UNCHANGED <<trace, phase, posted, taken, node, pos, hit, reg, lock,
                 weakMkrun, dupMkrun, weakNext>>

(* weak_mkrun_edge++ is a load and a store that no lock joins.             *)
Load(w) ==
  /\ pc[w] = "load"
  /\ reg' = [reg EXCEPT ![w] = weakMkrun]
  /\ pc' = [pc EXCEPT ![w] = "store"]
  /\ UNCHANGED <<trace, phase, posted, taken, node, pos, todo, hit, lock, edges, maps,
                 weakMkrun, dupMkrun, weakNext>>

Store(w) ==
  /\ pc[w] = "store"
  /\ weakMkrun' = reg[w] + 1
  /\ pc' = [pc EXCEPT ![w] = "task"]
  /\ UNCHANGED <<trace, phase, posted, taken, node, pos, todo, hit, reg, lock, edges, maps,
                 dupMkrun, weakNext>>

\* Mutant: the main thread waits for an empty queue, not for the workers.
Join_QueueEmpty ==
  /\ phase = "join" /\ taken = posted
  /\ phase' = "weak"
  /\ UNCHANGED <<trace, posted, taken, pool, edges, maps, weakMkrun, dupMkrun, weakNext>>

(* join_all returns: every task has run and the workers are idle.          *)
Join ==
  /\ phase = "join"
  /\ taken = posted /\ \A w \in Workers : pc[w] = "idle"
  /\ phase' = "weak"
  /\ UNCHANGED <<trace, posted, taken, pool, edges, maps, weakMkrun, dupMkrun, weakNext>>

(* One turn of the loop that calls add_weak_edge on every node.            *)
AddWeakEdge ==
  /\ phase = "weak" /\ weakNext <= Len(Groups)
  /\ weakNext' = weakNext + 1
  /\ LET ps == WeakEdgeOf(weakNext) IN
     IF ps = <<>> \/ ~InTime(Head(ps)) THEN UNCHANGED <<edges, maps>>
     ELSE LET p == Head(ps)
              i == Find(p)
          IN  IF i = NoEdge
              THEN FileEdge(weakNext, p, Len(edges) + 1, TRUE, Append(edges, NewEdge(p)))
              ELSE FileEdge(weakNext, p, i, FALSE, edges)
  /\ UNCHANGED <<trace, phase, posted, taken, pool, weakMkrun, dupMkrun>>

\* A wake-up edge beside which its source node has another edge to the same node.
IsDuplicate(i) ==
  /\ edges[i].rel = "MKRUN"
  /\ \E item \in outMap[edges[i].fromNode] :
        item[2] # i /\ edges[item[2]].toNode = edges[i].toNode

OptimizeMkrunEdges ==
  /\ phase = "weak" /\ weakNext > Len(Groups)
  /\ dupMkrun' = Cardinality({i \in DOMAIN edges : IsDuplicate(i)})
  /\ phase' = "complete"
  /\ UNCHANGED <<trace, posted, taken, pool, edges, maps, weakMkrun, weakNext>>

\* Mutants: the two endpoints are exchanged; an edge with a source is taken for complete.
Completed_Swapped(edge) ==
  [edge EXCEPT !.fromNode = NodeOf(edge.to), !.toNode = NodeOf(edge.from)]
Completed_SourceOnly(edge) ==
  IF NodeOf(edge.to) = NoNode \/ edge.fromNode # NoNode THEN edge
  ELSE [edge EXCEPT !.fromNode = NodeOf(edge.from), !.toNode = NodeOf(edge.to)]

(* Every edge whose two events are in groups gets both endpoints.          *)
Completed(edge) ==
  LET f == NodeOf(edge.from)
      t == NodeOf(edge.to)
  IN  IF f = NoNode \/ t = NoNode THEN edge
      ELSE [edge EXCEPT !.fromNode = f, !.toNode = t]

CompleteVertices ==
  /\ phase = "complete"
  /\ edges' = [i \in DOMAIN edges |-> Completed(edges[i])]
  /\ phase' = "done"
  /\ UNCHANGED <<trace, posted, taken, pool, maps, weakMkrun, dupMkrun, weakNext>>

Built == phase = "done" /\ UNCHANGED vars

Worker(w) == \/ Take(w) \/ NextEvent(w) \/ Refuse(w) \/ Lock(w) \/ Scan(w)
             \/ Insert(w) \/ Link(w) \/ Load(w) \/ Store(w)
Main == Post \/ Join \/ AddWeakEdge \/ OptimizeMkrunEdges \/ CompleteVertices

Next == Main \/ (\E w \in Workers : Worker(w)) \/ Built

Spec == Init /\ [][Next]_vars

\* The threads run until they are done: nothing in the pool blocks but the lock.
FairSpec == Spec /\ WF_vars(Main) /\ \A w \in Workers : WF_vars(Worker(w))

-----------------------------------------------------------------------------
(* Properties.                                                             *)

\* What the walk over a group proposes, and what is proposed for its node in time.
WalkOf(n) == UNION {Range(ProposalsOf(e)) : e \in Range(Events(n))}
ProposalsOfNode(n) == {p \in WalkOf(n) \cup Range(WeakEdgeOf(n)) : InTime(p)}
SideKeys(n, sides) == {Key(p) : p \in {q \in ProposalsOfNode(n) : q.side \in sides}}

\* The connections the trace asks edges for.
Sides  == {"out", "in", "weak_out", "weak_in"}
Wanted == UNION {SideKeys(n, Sides) : n \in Nodes}

InPool == phase \in {"post", "join"}

Relations == {"MSGP", "MSGP_NEXT", "DISP_EXE", "TIMERCALLOUT", "CA", "RLITEM", "HWBR",
              "MKRUN", "WEAK_MKRUN", "WEAK", "WEAK_BOOST"}
Proposals == [from : EventIds, to : EventIds, rel : Relations,
              side : {"out", "in", "weak_out", "weak_in"}]
Edges     == [from : EventIds, to : EventIds, rel : Relations,
              fromNode : Nodes \cup {NoNode}, toNode : Nodes \cup {NoNode}]

MainTyped ==
  /\ trace \in Traces
  /\ phase \in {"post", "join", "weak", "complete", "done"}
  /\ posted \in 0 .. Len(Groups) /\ taken \in 0 .. posted
  /\ weakNext \in 1 .. Len(Groups) + 1
  /\ weakMkrun \in Nat /\ dupMkrun \in Nat
PoolTyped ==
  /\ pc \in [Workers -> {"idle", "task", "scan", "insert", "link_new", "link_old",
                         "load", "store"}]
  /\ node \in [Workers -> Nodes \cup {NoNode}]
  /\ pos \in [Workers -> Nat] /\ hit \in [Workers -> Nat] /\ reg \in [Workers -> Nat]
  /\ todo \in [Workers -> Seq(Proposals)]
  /\ lock \in Workers \cup {"free"}
MapType == [Nodes -> SUBSET (EventIds \X DOMAIN edges)]
TableTyped ==
  /\ edges \in Seq(Edges)
  /\ outMap \in MapType /\ inMap \in MapType
  /\ weakOut \in MapType /\ weakIn \in MapType

(* Every variable has its type; in particular the nodes, the edges and the *)
(* events that the workers and the maps point at exist.                    *)
TypeOK == MainTyped /\ PoolTyped /\ TableTyped

(* However the workers of the two ends of a connection interleave in       *)
(* check_and_add_edge, the table never holds two equal edges.              *)
NoDuplicateEdges ==
  \A i, j \in DOMAIN edges : Key(edges[i]) = Key(edges[j]) => i = j

(* The edges of the finished graph are the connections of the trace, none  *)
(* lost to a race and none invented.  A search walks the per-node maps, so *)
(* each map must hold exactly the edges proposed for that node, each once, *)
(* and the counters must agree, even for an edge that another worker       *)
(* allocated: the graph does not depend on how the pool was scheduled.     *)
FiledUnder(n) == [out |-> outMap[n], in |-> inMap[n],
                  weak_out |-> weakOut[n], weak_in |-> weakIn[n]]
EdgesAreTheConnections ==
  ~InPool /\ weakNext > Len(Groups) =>
    /\ Keys(edges) = Wanted
    /\ \A n \in Nodes :
         /\ \A side \in Sides :
              {Key(edges[item[2]]) : item \in FiledUnder(n)[side]} = SideKeys(n, {side})
         /\ degree[n] = [in |-> Cardinality(inMap[n]), out |-> Cardinality(outMap[n])]

(* Once the construction is over, an edge points at the nodes that hold    *)
(* its two events, and at no node on the side of an event without group.   *)
EndpointsComplete ==
  phase = "done" => \A i \in DOMAIN edges : /\ edges[i].fromNode = NodeOf(edges[i].from)
                                            /\ edges[i].toNode = NodeOf(edges[i].to)

(* optimize_mkrun_edges dereferences the source node of every wake-up edge *)
(* before complete_vertices_for_edges has filled the missing ones in.      *)
WakeupsHaveSource ==
  ~InPool => \A i \in DOMAIN edges : edges[i].rel = "MKRUN" => edges[i].fromNode # NoNode

(* No endpoint written by one thread is overwritten by another value, and  *)
(* an edge, once in the table, keeps its place and its events: pointers to *)
(* it that other workers hold stay valid.                                  *)
EdgesAreStable ==
  [][/\ DOMAIN edges \subseteq DOMAIN edges'
     /\ \A i \in DOMAIN edges :
          /\ Key(edges'[i]) = Key(edges[i])
          /\ edges[i].fromNode # NoNode => edges'[i].fromNode = edges[i].fromNode
          /\ edges[i].toNode # NoNode => edges'[i].toNode = edges[i].toNode]_edges

(* The construction implements the edge table the searches rely on: every  *)
(* task ends, the pool drains and the graph is handed over.                *)
Table == INSTANCE EdgeTable WITH
  wanted <- Wanted, table <- Keys(edges), count <- Len(edges), published <- (phase = "done")
ImplementsEdgeTable == Table!Spec
=============================================================================
