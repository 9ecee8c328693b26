-------------------------- MODULE EventGraph_proofs --------------------------
(***************************************************************************)
(* Theorems on the construction of the event graph, for every trace and    *)
(* any number of workers.  The second half is about what the finished      *)
(* graph holds: the edges and the maps of each node are those of the       *)
(* trace's connections, and the construction implements EdgeTable.         *)
(***************************************************************************)
EXTENDS EventGraph, Integers, SequencesExt, FiniteSetTheorems, SequenceTheorems, WellFoundedInduction, TLAPS

\* A non-empty set of naturals has a least element.
LEMMA MinExists ==
  ASSUME NEW S \in SUBSET Nat, S # {}
  PROVE  \E i \in S : \A j \in S : i <= j
<1> DEFINE less == {x \in Nat \X Nat : x[1] < x[2]}
<1>1. IsWellFoundedOn(less, Nat)
  BY NatLessThanWellFounded DEF OpToRel
<1>2. PICK i \in S : \A j \in S : ~ (<<j, i>> \in less)
  BY <1>1, WFMin
<1>3. ASSUME NEW j \in S PROVE i <= j
  <2>1. ~(<<j, i>> \in less) /\ i \in Nat /\ j \in Nat
    BY <1>2
  <2> QED BY <2>1
<1> QED BY <1>3

GroupSet == [events : Seq(EventIds), next : Nat, kernelWait : BOOLEAN,
             workqReturn : BOOLEAN, similar : BOOLEAN]

-----------------------------------------------------------------------------
(* What the assumptions say of the trace the graph is built from.          *)

\* The events of a group, its first and its last one are events of the node
\* that stands for it, and its next group is a node.
LEMMA GroupFacts ==
  ASSUME trace \in Traces
  PROVE  /\ Groups \in Seq(GroupSet)
         /\ Len(Groups) \in Nat
         /\ Nodes = DOMAIN Groups
         /\ \A n \in Nodes :
              /\ n \in Nat \ {0}
              /\ Events(n) \in Seq(EventIds) /\ Events(n) # <<>>
              /\ Groups[n].next \in Nodes \cup {NoNode}
              /\ \A i \in DOMAIN Events(n) : NodeOf(Events(n)[i]) = n
         /\ \A e \in EventIds : NodeOf(e) \in Nodes \cup {NoNode}
<1>1. TraceOK(trace)
  BY TracesAssumption
<1>2. Groups = trace.group /\ \A e : Ev(e) = trace.ev[e]
  BY DEF Groups, Ev
<1>3. Groups \in Seq(GroupSet) /\ Len(Groups) \in Nat /\ Nodes = DOMAIN Groups
  BY <1>1, <1>2 DEF TraceOK, GroupSet, Nodes
<1>4. ASSUME NEW n \in Nodes
      PROVE  /\ n \in Nat \ {0}
             /\ Events(n) \in Seq(EventIds) /\ Events(n) # <<>>
             /\ Groups[n].next \in Nodes \cup {NoNode}
             /\ \A i \in DOMAIN Events(n) : NodeOf(Events(n)[i]) = n
  <2>1. n \in Nat \ {0} /\ n \in DOMAIN Groups /\ Groups[n] \in GroupSet
    BY <1>3 DEF Nodes
  <2>2. /\ Groups[n].events # <<>> /\ Groups[n].next \in 0 .. Len(Groups)
        /\ \A i \in DOMAIN Groups[n].events : Ev(Groups[n].events[i]).grp = n
    BY <1>1, <1>2, <2>1 DEF TraceOK
  <2> QED BY <2>1, <2>2, <1>3 DEF Events, NodeOf, Nodes, NoNode, GroupSet
<1>5. ASSUME NEW e \in EventIds PROVE NodeOf(e) \in Nodes \cup {NoNode}
  <2>1. Ev(e).grp \in 0 .. Len(Groups)
    BY <1>1, <1>2 DEF TraceOK
  <2> QED BY <2>1, <1>3 DEF NodeOf, Nodes, NoNode
<1> QED BY <1>3, <1>4, <1>5

-----------------------------------------------------------------------------
(* Proposals: the node a proposal is made for holds the event of its side. *)

SideNode(p) == IF p.side \in {"out", "weak_out"} THEN NodeOf(p.from) ELSE NodeOf(p.to)
ProposalsFor(n) == {p \in Proposals : SideNode(p) = n}

\* A sequence of one proposal is typed and is for the node it was made for.
LEMMA OneProposal ==
  ASSUME NEW e \in EventIds, NEW x \in EventIds, NEW rel \in Relations
  PROVE  /\ Out(e, x, rel) \in Seq(ProposalsFor(NodeOf(e)))
         /\ WeakOut(e, x, rel) \in Seq(ProposalsFor(NodeOf(e)))
         /\ In(x, e, rel) \in Seq(ProposalsFor(NodeOf(e)))
         /\ WeakIn(x, e, rel) \in Seq(ProposalsFor(NodeOf(e)))
<1>1. \A side \in {"out", "weak_out"} :
         Proposal(e, x, rel, side) \in ProposalsFor(NodeOf(e))
  BY DEF Proposal, Proposals, ProposalsFor, SideNode
<1>2. \A side \in {"in", "weak_in"} :
         Proposal(x, e, rel, side) \in ProposalsFor(NodeOf(e))
  BY DEF Proposal, Proposals, ProposalsFor, SideNode
<1>3. \A p \in ProposalsFor(NodeOf(e)) : <<p>> \in Seq(ProposalsFor(NodeOf(e)))
  OBVIOUS
<1> QED BY <1>1, <1>2, <1>3 DEF Out, In, WeakOut, WeakIn

\* Every proposal made for an event of a node is typed and is for that node.
LEMMA ProposalsOfTyped ==
  ASSUME trace \in Traces, NEW e \in EventIds
  PROVE  ProposalsOf(e) \in Seq(ProposalsFor(NodeOf(e)))
<1> DEFINE Mine == ProposalsFor(NodeOf(e))
<1>1. TraceOK(trace) /\ \A x : Ev(x) = trace.ev[x]
  BY TracesAssumption DEF Ev
<1>2. \A x \in EventIds :
        /\ Ev(x).kind \in {"enq", "invoke", "create", "callout", "caset", "hwbr", "mkrun", "fake"}
              => Ev(x).peer \in EventRef
        /\ Ev(x).kind = "msg" =>
              Ev(x).peer \in EventRef /\ Ev(x).next \in EventRef /\ Ev(x).prev \in EventRef
        /\ Ev(x).kind = "rl" => Ev(x).owner \in EventRef /\ Ev(x).consumer \in EventRef
        /\ Ev(x).kind = "cadisplay" => Ev(x).sets \in Seq(EventIds)
  BY <1>1 DEF TraceOK
<1>3. \A x \in EventRef : x # NoEvent => x \in EventIds
  BY DEF EventRef
<1>4. <<>> \in Seq(Mine)
  OBVIOUS
<1>5. \A s, t \in Seq(Mine) : s \o t \in Seq(Mine)
  OBVIOUS
<1>6. Ev(e).kind = "msg" => EdgesForMsg(e) \in Seq(Mine)
  <2> SUFFICES ASSUME Ev(e).kind = "msg" PROVE EdgesForMsg(e) \in Seq(Mine)
    OBVIOUS
  <2> DEFINE m == Ev(e)
             s == IF m.next # NoEvent THEN Out(e, m.next, "MSGP_NEXT")
                  ELSE IF m.prev # NoEvent THEN In(m.prev, e, "MSGP_NEXT") ELSE <<>>
             t == IF ~IsA(m.peer, "msg") THEN <<>>
                  ELSE IF m.recv THEN In(m.peer, e, "MSGP") ELSE Out(e, m.peer, "MSGP")
  <2>1. {"MSGP", "MSGP_NEXT"} \subseteq Relations
    BY DEF Relations
  <2>2. s \in Seq(Mine)
    BY <1>2, <1>3, <1>4, <2>1, OneProposal
  <2>3. t \in Seq(Mine)
    BY <1>2, <1>3, <1>4, <2>1, OneProposal DEF IsA
  <2>4. EdgesForMsg(e) = s \o t
    BY DEF EdgesForMsg
  <2> QED BY <1>5, <2>2, <2>3, <2>4
<1>7. /\ Ev(e).kind = "enq" => EdgesForDispEnq(e) \in Seq(Mine)
      /\ Ev(e).kind = "invoke" => EdgesForDispInvoke(e) \in Seq(Mine)
      /\ Ev(e).kind = "create" => EdgesForCallCreate(e) \in Seq(Mine)
      /\ Ev(e).kind = "callout" => EdgesForCallout(e) \in Seq(Mine)
      /\ Ev(e).kind = "caset" => EdgesForCASet(e) \in Seq(Mine)
      /\ Ev(e).kind = "hwbr" => EdgesForHwbr(e) \in Seq(Mine)
  <2>1. {"DISP_EXE", "TIMERCALLOUT", "CA", "HWBR"} \subseteq Relations
    BY DEF Relations
  <2> QED BY <1>2, <1>3, <1>4, <2>1, OneProposal
          DEF EdgesForDispEnq, EdgesForDispInvoke, EdgesForCallCreate, EdgesForCallout,
              EdgesForCASet, EdgesForHwbr, IsA
<1>8. Ev(e).kind = "rl" => EdgesForRLItem(e) \in Seq(Mine)
  <2> SUFFICES ASSUME Ev(e).kind = "rl" PROVE EdgesForRLItem(e) \in Seq(Mine)
    OBVIOUS
  <2> DEFINE s == IF Ev(e).owner # NoEvent THEN In(Ev(e).owner, e, "RLITEM") ELSE <<>>
             t == IF Ev(e).consumer # NoEvent THEN Out(e, Ev(e).consumer, "RLITEM") ELSE <<>>
  <2>1. "RLITEM" \in Relations
    BY DEF Relations
  <2>2. s \in Seq(Mine) /\ t \in Seq(Mine)
    BY <1>2, <1>3, <1>4, <2>1, OneProposal
  <2>3. EdgesForRLItem(e) = s \o t
    BY DEF EdgesForRLItem
  <2> QED BY <1>5, <2>2, <2>3
<1>9. Ev(e).kind = "cadisplay" => EdgesForCADisplay(e) \in Seq(Mine)
  <2> SUFFICES ASSUME Ev(e).kind = "cadisplay" PROVE EdgesForCADisplay(e) \in Seq(Mine)
    OBVIOUS
  <2>1. "CA" \in Relations
    BY DEF Relations
  <2>2. \A x \in EventIds : In(x, e, "CA")[1] \in Mine
    BY <2>1, OneProposal DEF In
  <2>3. Ev(e).sets \in Seq(EventIds)
    BY <1>2
  <2>4. \A i \in 1 .. Len(Ev(e).sets) : In(Ev(e).sets[i], e, "CA")[1] \in Mine
    BY <2>2, <2>3
  <2> QED BY <2>3, <2>4 DEF EdgesForCADisplay
<1>10. /\ Ev(e).kind = "mkrun" => EdgesForMkrun(e) \in Seq(Mine)
       /\ Ev(e).kind = "fake" => EdgesForFakedWoken(e) \in Seq(Mine)
  <2>1. {"MKRUN", "WEAK_MKRUN"} \subseteq Relations
    BY DEF Relations
  <2> QED BY <1>2, <1>3, <1>4, <2>1, OneProposal
          DEF EdgesForMkrun, EdgesForFakedWoken, IsA
<1> QED BY <1>4, <1>6, <1>7, <1>8, <1>9, <1>10 DEF ProposalsOf

(* Whether the edge to the next group of the thread is proposed or not.    *)
LEMMA WeakEdgeTyped ==
  ASSUME trace \in Traces, NEW n \in Nodes
  PROVE  WeakEdgeOf(n) \in Seq(ProposalsFor(n))
<1>1. \A k \in Nodes : Events(k) \in Seq(EventIds) /\ Events(k) # <<>>
  BY GroupFacts
<1>2. LastEvent(n) \in EventIds /\ NodeOf(LastEvent(n)) = n
  <2>1. Len(Events(n)) \in DOMAIN Events(n)
    BY <1>1
  <2> QED BY <1>1, <2>1, GroupFacts DEF LastEvent
<1>3. ASSUME NEW k \in Nodes PROVE RealFirstEvent(k) \in EventIds
  <2> DEFINE real == {i \in DOMAIN Events(k) : Ev(Events(k)[i]).kind \notin {"backtrace", "fake"}}
             first == CHOOSE i \in real : \A j \in real : i <= j
  <2>1. real \in SUBSET Nat /\ real \subseteq DOMAIN Events(k)
    BY <1>1
  <2>2. CASE real = {}
    BY <1>1, <2>2 DEF RealFirstEvent
  <2>3. CASE real # {}
    <3>1. first \in real
      BY <2>1, <2>3, MinExists
    <3>2. RealFirstEvent(k) = Events(k)[first]
      BY <2>3 DEF RealFirstEvent
    <3> QED BY <1>1, <2>1, <3>1, <3>2
  <2> QED BY <2>2, <2>3
<1>4. {"WEAK_BOOST", "WEAK"} \subseteq Relations
  BY DEF Relations
<1>5. Groups[n].next # NoNode => Groups[n].next \in Nodes
  BY GroupFacts
<1>6. <<>> \in Seq(ProposalsFor(n))
  OBVIOUS
<1> QED BY <1>2, <1>3, <1>4, <1>5, <1>6, OneProposal DEF WeakEdgeOf

-----------------------------------------------------------------------------
(* The inductive invariant.                                                *)

\* Where a worker is tells who holds the lock, whose proposals it makes, that the
\* absence of an equal edge still holds when it inserts, and what its pointer is.
WorkerOK(w) ==
  /\ pc[w] = "idle" => todo[w] = <<>>
  /\ pc[w] # "idle" => node[w] \in Nodes /\ todo[w] \in Seq(ProposalsFor(node[w]))
  /\ pc[w] \in {"scan", "insert", "link_new", "link_old"} => todo[w] # <<>>
  /\ lock = w <=> pc[w] \in {"scan", "insert"}
  /\ pc[w] = "insert" => \A i \in DOMAIN edges : Key(edges[i]) # Key(Head(todo[w]))
  /\ pc[w] \in {"link_new", "link_old"} =>
       hit[w] \in DOMAIN edges /\ Key(edges[hit[w]]) = Key(Head(todo[w]))

\* An endpoint is the node of the event on that side or not known yet; an edge with
\* no endpoint at all has just been inserted by a worker that is about to set one.
EdgeOK(i) ==
  /\ edges[i].fromNode \in {NoNode, NodeOf(edges[i].from)}
  /\ edges[i].toNode \in {NoNode, NodeOf(edges[i].to)}
  /\ \/ edges[i].fromNode # NoNode \/ edges[i].toNode # NoNode
     \/ \E w \in Workers : pc[w] = "link_new" /\ hit[w] = i

WorkersOK == \A w \in Workers : WorkerOK(w)
EdgesOK   == \A i \in DOMAIN edges : EdgeOK(i)
PoolJoined == ~InPool => taken = posted /\ \A w \in Workers : pc[w] = "idle"

IInv == TypeOK /\ WorkersOK /\ EdgesOK /\ NoDuplicateEdges /\ PoolJoined /\ EndpointsComplete

\* The trace does not change, nor what is read from it.
LEMMA TraceFixed ==
  ASSUME trace' = trace
  PROVE  /\ Groups' = Groups /\ Nodes' = Nodes /\ Edges' = Edges
         /\ \A e : NodeOf(e)' = NodeOf(e)
         /\ \A n : ProposalsFor(n)' = ProposalsFor(n)
BY DEF Groups, Nodes, Edges, NodeOf, Ev, ProposalsFor, SideNode

\* A step that leaves the table alone, and the pointers to new edges, keeps what is
\* known of the edges.
LEMMA TableUntouched ==
  ASSUME EdgesOK, NoDuplicateEdges, edges' = edges, trace' = trace,
         \A v \in Workers : pc[v] = "link_new" => pc'[v] = "link_new" /\ hit'[v] = hit[v]
  PROVE  EdgesOK' /\ NoDuplicateEdges'
<1>1. NoDuplicateEdges'
  BY DEF NoDuplicateEdges, Key
<1>2. \A e : NodeOf(e)' = NodeOf(e)
  BY TraceFixed
<1>3. ASSUME NEW i \in DOMAIN edges PROVE EdgeOK(i)'
  <2>1. EdgeOK(i)
    BY <1>3 DEF EdgesOK
  <2>2. ASSUME NEW v \in Workers, pc[v] = "link_new", hit[v] = i
        PROVE  pc'[v] = "link_new" /\ hit'[v] = i
    BY <2>2
  <2> QED BY <1>2, <2>1, <2>2 DEF EdgeOK
<1>4. EdgesOK'
  BY <1>3 DEF EdgesOK
<1> QED BY <1>1, <1>4

\* The construction starts in the inductive invariant.
LEMMA InitIInv == Init => IInv
<1> SUFFICES ASSUME Init PROVE IInv
  OBVIOUS
<1>1. Len(Groups) \in Nat
  BY GroupFacts DEF Init
<1>2. TypeOK
  BY <1>1 DEF Init, TypeOK, MainTyped, PoolTyped, TableTyped, MapType, NoNode, NoEdge
<1>3. WorkersOK
  BY WorkersAssumption DEF Init, WorkersOK, WorkerOK
<1> QED BY <1>2, <1>3 DEF Init, IInv, EdgesOK, NoDuplicateEdges, PoolJoined, InPool, EndpointsComplete

\* Posting a task keeps the invariant.
LEMMA PostStep == IInv /\ Post => IInv'
<1> SUFFICES ASSUME IInv, Post PROVE IInv'
  OBVIOUS
<1> USE DEF IInv, Post, pool, maps
<1>1. Len(Groups) \in Nat
  BY GroupFacts DEF TypeOK, MainTyped
<1>2. TypeOK'
  <2>1. MainTyped'
    BY <1>1, TraceFixed DEF TypeOK, MainTyped
  <2>2. PoolTyped'
    BY TraceFixed DEF TypeOK, PoolTyped
  <2>3. TableTyped'
    BY TraceFixed DEF TypeOK, TableTyped, MapType
  <2> QED BY <2>1, <2>2, <2>3 DEF TypeOK
<1>3. WorkersOK'
  BY TraceFixed DEF WorkersOK, WorkerOK
<1>4. EdgesOK' /\ NoDuplicateEdges'
  BY TableUntouched
<1>5. PoolJoined' /\ EndpointsComplete'
  BY DEF PoolJoined, InPool, EndpointsComplete
<1> QED BY <1>2, <1>3, <1>4, <1>5

\* Taking a task keeps the invariant: the node taken exists.
LEMMA TakeStep == ASSUME NEW w \in Workers PROVE IInv /\ Take(w) => IInv'
<1> SUFFICES ASSUME IInv, Take(w) PROVE IInv'
  OBVIOUS
<1> USE DEF IInv, Take, maps
<1>1. Len(Groups) \in Nat
  BY GroupFacts DEF TypeOK, MainTyped
<1>2. taken + 1 \in Nodes
  BY <1>1 DEF TypeOK, MainTyped, Nodes
<1>3. TypeOK'
  <2>1. MainTyped'
    BY <1>1, <1>2, TraceFixed DEF TypeOK, MainTyped, Nodes
  <2>2. PoolTyped' /\ TableTyped'
    BY <1>2, TraceFixed DEF TypeOK, PoolTyped, TableTyped, MapType
  <2> QED BY <2>1, <2>2 DEF TypeOK
<1>4. WorkersOK'
  BY <1>2, TraceFixed DEF WorkersOK, WorkerOK, TypeOK, PoolTyped
<1>5. EdgesOK' /\ NoDuplicateEdges'
  <2>1. \A v \in Workers : pc[v] = "link_new" => pc'[v] = "link_new"
    BY DEF TypeOK, PoolTyped
  <2> QED BY <2>1, TableUntouched
<1>6. PoolJoined' /\ EndpointsComplete'
  BY DEF PoolJoined, InPool, EndpointsComplete, TypeOK, MainTyped, PoolTyped
<1> QED BY <1>3, <1>4, <1>5, <1>6

\* Going to the next event keeps the invariant: its proposals are the node's.
LEMMA NextEventStep == ASSUME NEW w \in Workers PROVE IInv /\ NextEvent(w) => IInv'
<1> SUFFICES ASSUME IInv, NextEvent(w) PROVE IInv'
  OBVIOUS
<1> USE DEF IInv, NextEvent, maps
<1>1. Len(Groups) \in Nat /\ node[w] \in Nodes /\ pos[w] \in Nat
  BY GroupFacts DEF TypeOK, MainTyped, PoolTyped, WorkersOK, WorkerOK
<1>2. ASSUME pos[w] < Len(Events(node[w]))
      PROVE  ProposalsOf(Events(node[w])[pos[w] + 1]) \in Seq(ProposalsFor(node[w]))
  <2> DEFINE e == Events(node[w])[pos[w] + 1]
  <2>1. pos[w] + 1 \in DOMAIN Events(node[w])
    BY <1>1, <1>2, GroupFacts DEF TypeOK, MainTyped, PoolTyped
  <2>2. e \in EventIds /\ NodeOf(e) = node[w]
    BY <1>1, <2>1, GroupFacts DEF TypeOK, MainTyped
  <2> QED BY <2>2, ProposalsOfTyped DEF TypeOK, MainTyped
<1>3. Seq(ProposalsFor(node[w])) \subseteq Seq(Proposals)
  BY DEF ProposalsFor
<1>4. TypeOK'
  <2>1. MainTyped' /\ TableTyped'
    BY TraceFixed DEF TypeOK, MainTyped, TableTyped, MapType
  <2>2. PoolTyped'
    <3>1. CASE pos[w] < Len(Events(node[w]))
      <4>1. ProposalsOf(Events(node[w])[pos[w] + 1]) \in Seq(Proposals)
        BY <1>2, <1>3, <3>1
      <4>2. todo' \in [Workers -> Seq(Proposals)]
        BY <3>1, <4>1 DEF TypeOK, PoolTyped
      <4>3. pos' = [pos EXCEPT ![w] = pos[w] + 1] /\ pos \in [Workers -> Nat]
        BY <3>1 DEF TypeOK, PoolTyped
      <4> QED BY <3>1, <4>2, <4>3, TraceFixed DEF TypeOK, PoolTyped
    <3>2. CASE ~(pos[w] < Len(Events(node[w])))
      BY <3>2, TraceFixed DEF TypeOK, PoolTyped
    <3> QED BY <3>1, <3>2
  <2> QED BY <2>1, <2>2 DEF TypeOK
<1>5. WorkersOK'
  <2> SUFFICES ASSUME NEW v \in Workers PROVE WorkerOK(v)'
    BY DEF WorkersOK
  <2>1. CASE v = w /\ pos[w] < Len(Events(node[w]))
    <3>1. todo'[w] \in Seq(ProposalsFor(node[w])) /\ pc'[w] = "task" /\ node'[w] \in Nodes
      BY <1>1, <1>2, <2>1 DEF TypeOK, PoolTyped
    <3> QED BY <2>1, <3>1, TraceFixed DEF WorkersOK, WorkerOK, TypeOK, PoolTyped
  <2>2. CASE v = w /\ ~(pos[w] < Len(Events(node[w])))
    BY <2>2, TraceFixed DEF WorkersOK, WorkerOK, TypeOK, PoolTyped
  <2>3. CASE v # w
    BY <2>3, TraceFixed DEF WorkersOK, WorkerOK, TypeOK, PoolTyped
  <2> QED BY <2>1, <2>2, <2>3
<1>6. EdgesOK' /\ NoDuplicateEdges'
  <2>1. \A v \in Workers : pc[v] = "link_new" => pc'[v] = "link_new"
    BY DEF TypeOK, PoolTyped
  <2> QED BY <2>1, TableUntouched
<1>7. PoolJoined' /\ EndpointsComplete'
  BY DEF PoolJoined, InPool, EndpointsComplete, TypeOK, MainTyped, PoolTyped
<1> QED BY <1>4, <1>5, <1>6, <1>7

\* The worker is done with a proposal: the others are still its own.
LEMMA ProposedFacts ==
  ASSUME NEW w \in Workers, PoolTyped, WorkerOK(w), Proposed(w), todo[w] # <<>>, pc[w] # "idle"
  PROVE  /\ todo' \in [Workers -> Seq(Proposals)]
         /\ pc' \in [Workers -> {"idle", "task", "scan", "insert", "link_new", "link_old",
                                 "load", "store"}]
         /\ todo'[w] \in Seq(ProposalsFor(node[w])) /\ pc'[w] \in {"load", "task"}
         /\ \A v \in Workers \ {w} : todo'[v] = todo[v] /\ pc'[v] = pc[v]
<1>1. todo[w] \in Seq(Proposals) /\ todo[w] \in Seq(ProposalsFor(node[w]))
  BY DEF PoolTyped, WorkerOK
<1>2. Tail(todo[w]) \in Seq(Proposals) /\ Tail(todo[w]) \in Seq(ProposalsFor(node[w]))
  BY <1>1, HeadTailProperties
<1> QED BY <1>2 DEF PoolTyped, Proposed

\* Refusing an edge that goes back in time keeps the invariant.
LEMMA RefuseStep == ASSUME NEW w \in Workers PROVE IInv /\ Refuse(w) => IInv'
<1> SUFFICES ASSUME IInv, Refuse(w) PROVE IInv'
  OBVIOUS
<1> USE DEF IInv, Refuse, maps
<1>1. /\ todo' \in [Workers -> Seq(Proposals)]
      /\ pc' \in [Workers -> {"idle", "task", "scan", "insert", "link_new", "link_old",
                              "load", "store"}]
      /\ todo'[w] \in Seq(ProposalsFor(node[w])) /\ pc'[w] \in {"load", "task"}
      /\ \A v \in Workers \ {w} : todo'[v] = todo[v] /\ pc'[v] = pc[v]
  BY ProposedFacts DEF TypeOK, WorkersOK
<1>2. TypeOK'
  BY <1>1, TraceFixed DEF TypeOK, MainTyped, PoolTyped, TableTyped, MapType
<1>3. WorkersOK'
  BY <1>1, TraceFixed DEF WorkersOK, WorkerOK
<1>4. EdgesOK' /\ NoDuplicateEdges'
  <2>1. \A v \in Workers : pc[v] = "link_new" => pc'[v] = "link_new"
    BY <1>1 DEF TypeOK, PoolTyped
  <2> QED BY <2>1, TableUntouched
<1>5. PoolJoined' /\ EndpointsComplete'
  BY DEF PoolJoined, InPool, EndpointsComplete
<1> QED BY <1>2, <1>3, <1>4, <1>5

\* Acquiring graph_edge_mtx keeps the invariant: nobody else holds it.
LEMMA LockStep == ASSUME NEW w \in Workers PROVE IInv /\ Lock(w) => IInv'
<1> SUFFICES ASSUME IInv, Lock(w) PROVE IInv'
  OBVIOUS
<1> USE DEF IInv, Lock, maps
<1>1. TypeOK'
  BY TraceFixed DEF TypeOK, MainTyped, PoolTyped, TableTyped, MapType
<1>2. WorkersOK'
  BY WorkersAssumption, TraceFixed DEF WorkersOK, WorkerOK, TypeOK, PoolTyped
<1>3. EdgesOK' /\ NoDuplicateEdges'
  <2>1. \A v \in Workers : pc[v] = "link_new" => pc'[v] = "link_new"
    BY DEF TypeOK, PoolTyped
  <2> QED BY <2>1, TableUntouched
<1>4. PoolJoined' /\ EndpointsComplete'
  BY DEF PoolJoined, InPool, EndpointsComplete
<1> QED BY <1>1, <1>2, <1>3, <1>4

\* The walk of edge_map returns an equal edge, or finds that there is none.
LEMMA FindFacts ==
  ASSUME edges \in Seq(Edges), NEW p
  PROVE  \/ Find(p) = NoEdge /\ \A i \in DOMAIN edges : Key(edges[i]) # Key(p)
         \/ /\ Find(p) \in DOMAIN edges /\ Find(p) # NoEdge
            /\ Key(edges[Find(p)]) = Key(p)
<1> DEFINE same == {i \in DOMAIN edges : Key(edges[i]) = Key(p)}
<1>1. CASE same = {}
  BY <1>1 DEF Find
<1>2. CASE same # {}
  <2>1. Find(p) \in same
    BY <1>2 DEF Find
  <2> QED BY <2>1 DEF NoEdge
<1> QED BY <1>1, <1>2

\* Scanning keeps the invariant: what is found stays true while the lock is held.
LEMMA ScanStep == ASSUME NEW w \in Workers PROVE IInv /\ Scan(w) => IInv'
<1> SUFFICES ASSUME IInv, Scan(w) PROVE IInv'
  OBVIOUS
<1> USE DEF IInv, maps
<1> DEFINE f == Find(Head(todo[w]))
<1>1. /\ pc[w] = "scan" /\ lock = w
      /\ hit' = [hit EXCEPT ![w] = f]
      /\ UNCHANGED <<trace, phase, posted, taken, node, pos, todo, reg, edges, maps,
                     weakMkrun, dupMkrun, weakNext>>
  BY DEF Scan, WorkersOK, WorkerOK
<1>2. \/ /\ f = NoEdge /\ \A i \in DOMAIN edges : Key(edges[i]) # Key(Head(todo[w]))
         /\ pc' = [pc EXCEPT ![w] = "insert"] /\ lock' = lock
      \/ /\ f \in DOMAIN edges /\ Key(edges[f]) = Key(Head(todo[w]))
         /\ pc' = [pc EXCEPT ![w] = "link_old"] /\ lock' = "free"
  BY FindFacts DEF Scan, TypeOK, TableTyped, PoolTyped
<1> HIDE DEF f
<1>3. f \in Nat /\ edges \in Seq(Edges)
  BY <1>2 DEF TypeOK, TableTyped, NoEdge
<1>4. TypeOK'
  BY <1>1, <1>2, <1>3, TraceFixed DEF TypeOK, MainTyped, PoolTyped, TableTyped, MapType
<1>5. WorkersOK'
  BY <1>1, <1>2, TraceFixed, WorkersAssumption DEF WorkersOK, WorkerOK, TypeOK, PoolTyped
<1>6. EdgesOK' /\ NoDuplicateEdges'
  <2>1. \A v \in Workers : pc[v] = "link_new" => pc'[v] = "link_new" /\ hit'[v] = hit[v]
    BY <1>1, <1>2 DEF TypeOK, PoolTyped
  <2> QED BY <1>1, <2>1, TableUntouched
<1>7. PoolJoined' /\ EndpointsComplete'
  BY <1>1 DEF PoolJoined, InPool, EndpointsComplete
<1> QED BY <1>4, <1>5, <1>6, <1>7

\* Loading the counter keeps the invariant.
LEMMA LoadStep == ASSUME NEW w \in Workers PROVE IInv /\ Load(w) => IInv'
<1> SUFFICES ASSUME IInv, Load(w) PROVE IInv'
  OBVIOUS
<1> USE DEF IInv, Load, maps
<1>1. TypeOK'
  BY TraceFixed DEF TypeOK, MainTyped, PoolTyped, TableTyped, MapType
<1>2. WorkersOK'
  BY TraceFixed DEF WorkersOK, WorkerOK, TypeOK, PoolTyped
<1>3. EdgesOK' /\ NoDuplicateEdges'
  <2>1. \A v \in Workers : pc[v] = "link_new" => pc'[v] = "link_new"
    BY DEF TypeOK, PoolTyped
  <2> QED BY <2>1, TableUntouched
<1>4. PoolJoined' /\ EndpointsComplete'
  BY DEF PoolJoined, InPool, EndpointsComplete
<1> QED BY <1>1, <1>2, <1>3, <1>4

\* Storing the counter keeps the invariant.
LEMMA StoreStep == ASSUME NEW w \in Workers PROVE IInv /\ Store(w) => IInv'
<1> SUFFICES ASSUME IInv, Store(w) PROVE IInv'
  OBVIOUS
<1> USE DEF IInv, Store, maps
<1>1. TypeOK'
  <2>1. MainTyped'
    BY TraceFixed DEF TypeOK, MainTyped, PoolTyped
  <2>2. PoolTyped'
    BY TraceFixed DEF TypeOK, PoolTyped
  <2>3. TableTyped'
    BY TraceFixed DEF TypeOK, TableTyped, MapType
  <2> QED BY <2>1, <2>2, <2>3 DEF TypeOK
<1>2. WorkersOK'
  BY TraceFixed DEF WorkersOK, WorkerOK, TypeOK, PoolTyped
<1>3. EdgesOK' /\ NoDuplicateEdges'
  <2>1. \A v \in Workers : pc[v] = "link_new" => pc'[v] = "link_new"
    BY DEF TypeOK, PoolTyped
  <2> QED BY <2>1, TableUntouched
<1>4. PoolJoined' /\ EndpointsComplete'
  BY DEF PoolJoined, InPool, EndpointsComplete
<1> QED BY <1>1, <1>2, <1>3, <1>4

\* Keeping a new edge keeps the invariant: under the lock no equal edge came in.
LEMMA InsertStep == ASSUME NEW w \in Workers PROVE IInv /\ Insert(w) => IInv'
<1> SUFFICES ASSUME IInv, Insert(w) PROVE IInv'
  OBVIOUS
<1> USE DEF IInv, maps
<1> DEFINE p == Head(todo[w])
           new == NewEdge(p)
           k == Len(edges) + 1
<1>1. /\ pc[w] = "insert" /\ lock = w
      /\ edges' = Append(edges, new)
      /\ hit' = [hit EXCEPT ![w] = k]
      /\ lock' = "free"
      /\ pc' = [pc EXCEPT ![w] = "link_new"]
      /\ UNCHANGED <<trace, phase, posted, taken, node, pos, todo, reg, maps,
                     weakMkrun, dupMkrun, weakNext>>
  BY DEF Insert, WorkersOK, WorkerOK
<1>2. edges \in Seq(Edges) /\ Len(edges) \in Nat /\ k \in Nat
  BY DEF TypeOK, TableTyped
<1>3. p \in Proposals
  <2>1. todo[w] \in Seq(Proposals) /\ todo[w] # <<>>
    BY <1>1 DEF TypeOK, PoolTyped, WorkersOK, WorkerOK
  <2> QED BY <2>1, HeadTailProperties
<1>4. /\ new \in Edges /\ Key(new) = Key(p)
      /\ new.fromNode = NoNode /\ new.toNode = NoNode
  BY <1>3 DEF NewEdge, Edges, Proposals, Key
<1>5. \A i \in DOMAIN edges : Key(edges[i]) # Key(p)
  BY <1>1 DEF WorkersOK, WorkerOK
<1> HIDE DEF p, new
<1>6. /\ edges' \in Seq(Edges) /\ Len(edges') = k
      /\ DOMAIN edges' = (DOMAIN edges) \cup {k}
      /\ edges'[k] = new
      /\ \A i \in DOMAIN edges : edges'[i] = edges[i] /\ i # k
  BY <1>1, <1>2, <1>4, AppendProperties
<1> HIDE DEF k
<1>7. TypeOK'
  <2>1. TableTyped'
    BY <1>1, <1>6, TraceFixed DEF TypeOK, TableTyped, MapType
  <2> QED BY <1>1, <1>2, <2>1, TraceFixed DEF TypeOK, MainTyped, PoolTyped
<1>8. WorkersOK'
  <2> SUFFICES ASSUME NEW v \in Workers PROVE WorkerOK(v)'
    BY DEF WorkersOK
  <2>1. pc[v] \in {"link_new", "link_old"} => hit[v] \in DOMAIN edges
    BY DEF WorkersOK, WorkerOK
  <2>2. /\ pc \in [Workers -> {"idle", "task", "scan", "insert", "link_new", "link_old",
                               "load", "store"}]
        /\ hit \in [Workers -> Nat]
    BY DEF TypeOK, PoolTyped
  <2>3. \A i \in DOMAIN edges : Key(edges[i])' = Key(edges[i])
    BY <1>6 DEF Key
  <2>4. CASE v = w
    <3>1. Key(edges'[hit'[v]]) = Key(p) /\ hit'[v] \in DOMAIN edges'
      BY <1>1, <1>4, <1>6, <2>2, <2>4
    <3> QED BY <1>1, <2>2, <2>4, <3>1, TraceFixed, WorkersAssumption
            DEF WorkersOK, WorkerOK, p, Key
  <2>5. CASE v # w
    <3>1. lock # v /\ pc[v] \notin {"scan", "insert"} /\ lock' # v
      BY <1>1, <2>5, WorkersAssumption DEF WorkersOK, WorkerOK
    <3>2. pc'[v] = pc[v] /\ hit'[v] = hit[v]
      BY <1>1, <2>2, <2>5
    <3> QED BY <1>1, <1>6, <2>1, <3>1, <3>2, TraceFixed DEF WorkersOK, WorkerOK, Key
  <2> QED BY <2>4, <2>5
<1>9. EdgesOK'
  <2> SUFFICES ASSUME NEW i \in DOMAIN edges' PROVE EdgeOK(i)'
    BY DEF EdgesOK
  <2>1. pc'[w] = "link_new" /\ hit'[w] = k
    BY <1>1 DEF TypeOK, PoolTyped
  <2>2. \A v \in Workers : pc[v] = "link_new" => pc'[v] = "link_new" /\ hit'[v] = hit[v]
    BY <1>1 DEF TypeOK, PoolTyped
  <2>3. CASE i = k
    BY <1>4, <1>6, <2>1, <2>3 DEF EdgeOK
  <2>4. CASE i \in DOMAIN edges
    BY <1>1, <1>6, <2>2, <2>4, TraceFixed DEF EdgesOK, EdgeOK
  <2> QED BY <1>6, <2>3, <2>4
<1>10. NoDuplicateEdges'
  <2> SUFFICES ASSUME NEW i \in DOMAIN edges', NEW j \in DOMAIN edges',
                      Key(edges'[i]) = Key(edges'[j])
               PROVE  i = j
    BY DEF NoDuplicateEdges, Key
  <2>1. CASE i \in DOMAIN edges /\ j \in DOMAIN edges
    BY <1>6, <2>1 DEF NoDuplicateEdges
  <2>2. CASE i = k \/ j = k
    BY <1>4, <1>5, <1>6, <2>2
  <2> QED BY <1>6, <2>1, <2>2
<1>11. PoolJoined' /\ EndpointsComplete'
  BY <1>1 DEF PoolJoined, InPool, EndpointsComplete
<1> QED BY <1>7, <1>8, <1>9, <1>10, <1>11

Filed(n, i, es) ==
  /\ edges' \in Seq(Edges) /\ DOMAIN edges' = DOMAIN es
  /\ \A m \in {outMap', inMap', weakOut', weakIn'} :
       m \in [Nodes -> SUBSET (EventIds \X DOMAIN es)]
  /\ \A j \in DOMAIN es : Key(edges'[j]) = Key(es[j]) /\ (j # i => edges'[j] = es[j])
  /\ \/ edges'[i].fromNode = NodeOf(es[i].from) /\ edges'[i].toNode = es[i].toNode
     \/ edges'[i].toNode = NodeOf(es[i].to) /\ edges'[i].fromNode = es[i].fromNode
  /\ edges'[i].fromNode = n \/ edges'[i].toNode = n

\* Filing an edge under a node sets one endpoint of that edge, to that node.
LEMMA FileEdgeFacts ==
  ASSUME trace \in Traces, TableTyped,
         NEW n \in Nodes, NEW p \in ProposalsFor(n),
         NEW es \in Seq(Edges), DOMAIN edges \subseteq DOMAIN es,
         NEW i \in DOMAIN es, Key(es[i]) = Key(p),
         FileEdge(n, p, i, TRUE, es) \/ FileEdge(n, p, i, FALSE, es)
  PROVE  Filed(n, i, es)
<1>1. p.from \in EventIds /\ p.to \in EventIds /\ SideNode(p) = n
  BY DEF ProposalsFor, Proposals
<1>2. MapKey(p, TRUE) \in EventIds /\ MapKey(p, FALSE) \in EventIds
  BY <1>1 DEF MapKey
<1>3. \A m \in {outMap', inMap', weakOut', weakIn'} :
        m \in [Nodes -> SUBSET (EventIds \X DOMAIN es)]
  <2> DEFINE MT == [Nodes -> SUBSET (EventIds \X DOMAIN es)]
  <2>1. ASSUME NEW m \in MapType, NEW item \in EventIds \X DOMAIN es
        PROVE  m \in MT /\ [m EXCEPT ![n] = @ \cup {item}] \in MT
    BY DEF MapType
  <2>2. <<MapKey(p, TRUE), i>> \in EventIds \X DOMAIN es
    BY <1>2
  <2>3. <<MapKey(p, FALSE), i>> \in EventIds \X DOMAIN es
    BY <1>2
  <2>4. CASE FileEdge(n, p, i, TRUE, es)
    <3> DEFINE item == <<MapKey(p, TRUE), i>>
               add(m) == [m EXCEPT ![n] = @ \cup {item}]
    <3>1. item \in EventIds \X DOMAIN es
      BY <2>2
    <3>2. /\ outMap' = IF p.side = "out" THEN add(outMap) ELSE outMap
          /\ inMap' = IF p.side = "in" THEN add(inMap) ELSE inMap
          /\ weakOut' = IF p.side = "weak_out" THEN add(weakOut) ELSE weakOut
          /\ weakIn' = IF p.side = "weak_in" THEN add(weakIn) ELSE weakIn
      BY <2>4, Zenon DEF FileEdge
    <3> HIDE DEF item
    <3> QED BY <2>1, <3>1, <3>2 DEF TableTyped
  <2>5. CASE FileEdge(n, p, i, FALSE, es)
    <3> DEFINE item == <<MapKey(p, FALSE), i>>
               add(m) == [m EXCEPT ![n] = @ \cup {item}]
    <3>1. item \in EventIds \X DOMAIN es
      BY <2>3
    <3>2. /\ outMap' = IF p.side = "out" THEN add(outMap) ELSE outMap
          /\ inMap' = IF p.side = "in" THEN add(inMap) ELSE inMap
          /\ weakOut' = IF p.side = "weak_out" THEN add(weakOut) ELSE weakOut
          /\ weakIn' = IF p.side = "weak_in" THEN add(weakIn) ELSE weakIn
      BY <2>5, Zenon DEF FileEdge
    <3> HIDE DEF item
    <3> QED BY <2>1, <3>1, <3>2 DEF TableTyped
  <2> QED BY <2>4, <2>5
<1>4. es[i] \in Edges /\ p.from = es[i].from /\ p.to = es[i].to
  BY DEF Key
<1>5. \/ /\ edges' = [es EXCEPT ![i].fromNode = n] /\ n = NodeOf(es[i].from)
      \/ /\ edges' = [es EXCEPT ![i].toNode = n] /\ n = NodeOf(es[i].to)
  BY <1>1, <1>4 DEF FileEdge, SideNode
<1>6. ASSUME NEW e \in Edges, es[i] = e
      PROVE  [e EXCEPT !.fromNode = n] \in Edges /\ [e EXCEPT !.toNode = n] \in Edges
  BY DEF Edges
<1>7. edges' \in Seq(Edges) /\ DOMAIN edges' = DOMAIN es
  <2>1. ASSUME NEW x \in Edges PROVE [es EXCEPT ![i] = x] \in Seq(Edges)
    BY ExceptSeq
  <2> QED BY <1>4, <1>5, <1>6, <2>1
<1> QED BY <1>3, <1>4, <1>5, <1>7 DEF Filed, Key, Edges

\* Linking an edge under the worker's node files it there.
LEMMA LinkFiles ==
  ASSUME IInv, NEW w \in Workers, Link(w)
  PROVE  /\ todo[w] # <<>> /\ node[w] \in Nodes
         /\ hit[w] \in DOMAIN edges
         /\ Filed(node[w], hit[w], edges)
<1> DEFINE n == node[w]
           p == Head(todo[w])
           i == hit[w]
<1>1. FileEdge(n, p, i, TRUE, edges) \/ FileEdge(n, p, i, FALSE, edges)
  BY DEF Link, FileEdge
<1>2. /\ todo[w] # <<>> /\ todo[w] \in Seq(ProposalsFor(n)) /\ n \in Nodes
      /\ i \in DOMAIN edges /\ Key(edges[i]) = Key(p)
  BY DEF Link, IInv, WorkersOK, WorkerOK
<1>3. p \in ProposalsFor(n)
  BY <1>2, HeadTailProperties
<1>4. TableTyped /\ trace \in Traces
  BY DEF IInv, TypeOK, MainTyped
<1>5. edges \in Seq(Edges) /\ DOMAIN edges \subseteq DOMAIN edges
  BY <1>4 DEF TableTyped
<1> HIDE DEF n, p, i
<1>6. Filed(n, i, edges)
  BY <1>1, <1>2, <1>3, <1>4, <1>5, FileEdgeFacts
<1> QED BY <1>2, <1>6 DEF n, i

\* Linking keeps the invariant, although it takes no lock.
LEMMA LinkStep == ASSUME NEW w \in Workers PROVE IInv /\ Link(w) => IInv'
<1> SUFFICES ASSUME IInv, Link(w) PROVE IInv'
  OBVIOUS
<1> USE DEF IInv
<1> DEFINE n == node[w]
           i == hit[w]
<1>1. /\ pc[w] \in {"link_new", "link_old"} /\ Proposed(w)
      /\ UNCHANGED <<trace, phase, posted, taken, node, pos, hit, reg, lock,
                     weakMkrun, dupMkrun, weakNext>>
  BY DEF Link
<1>2. todo[w] # <<>> /\ n \in Nodes /\ i \in DOMAIN edges
  BY LinkFiles
<1>3. Filed(n, i, edges)
  BY LinkFiles
<1>4. /\ todo' \in [Workers -> Seq(Proposals)]
      /\ pc' \in [Workers -> {"idle", "task", "scan", "insert", "link_new", "link_old",
                              "load", "store"}]
      /\ todo'[w] \in Seq(ProposalsFor(node[w])) /\ pc'[w] \in {"load", "task"}
      /\ \A v \in Workers \ {w} : todo'[v] = todo[v] /\ pc'[v] = pc[v]
  BY <1>1, <1>2, ProposedFacts DEF TypeOK, WorkersOK
<1> HIDE DEF n, i
<1>5. TypeOK'
  <2>1. TableTyped'
    BY <1>1, <1>3, TraceFixed DEF Filed, TableTyped, MapType
  <2> QED BY <1>1, <1>4, <2>1, TraceFixed DEF TypeOK, MainTyped, PoolTyped
<1>6. WorkersOK'
  <2> SUFFICES ASSUME NEW v \in Workers PROVE WorkerOK(v)'
    BY DEF WorkersOK
  <2>1. \A j \in DOMAIN edges : /\ edges'[j].from = edges[j].from
                                /\ edges'[j].to = edges[j].to /\ edges'[j].rel = edges[j].rel
    BY <1>3 DEF Filed, Key
  <2>2. CASE v = w
    BY <1>1, <1>2, <1>4, <2>2, TraceFixed DEF WorkersOK, WorkerOK, n
  <2>3. CASE v # w
    <3>1. /\ pc'[v] = pc[v] /\ todo'[v] = todo[v]
          /\ node'[v] = node[v] /\ hit'[v] = hit[v] /\ lock' = lock
      BY <1>1, <1>4, <2>3
    <3>2. DOMAIN edges' = DOMAIN edges
      BY <1>3 DEF Filed
    <3> QED BY <1>1, <2>1, <3>1, <3>2, TraceFixed DEF WorkersOK, WorkerOK, Key
  <2> QED BY <2>2, <2>3
<1>7. EdgesOK'
  <2> SUFFICES ASSUME NEW j \in DOMAIN edges PROVE EdgeOK(j)'
    BY <1>3 DEF Filed, EdgesOK
  <2>1. EdgeOK(j) /\ edges'[j].from = edges[j].from /\ edges'[j].to = edges[j].to
    BY <1>3 DEF Filed, EdgesOK, Key
  <2>2. CASE j = i
    <3>1. n # NoNode
      BY <1>2, GroupFacts DEF NoNode, TypeOK, MainTyped
    <3> QED BY <1>1, <1>3, <2>1, <2>2, <3>1, TraceFixed DEF Filed, EdgeOK
  <2>3. CASE j # i
    BY <1>1, <1>3, <1>4, <2>1, <2>3, TraceFixed DEF Filed, EdgeOK, i
  <2> QED BY <2>2, <2>3
<1>8. NoDuplicateEdges'
  BY <1>3 DEF Filed, NoDuplicateEdges, Key
<1>9. PoolJoined' /\ EndpointsComplete'
  BY <1>1 DEF PoolJoined, InPool, EndpointsComplete
<1> QED BY <1>5, <1>6, <1>7, <1>8, <1>9

\* Joining the pool keeps the invariant.
LEMMA JoinStep == IInv /\ Join => IInv'
<1> SUFFICES ASSUME IInv, Join PROVE IInv'
  OBVIOUS
<1> USE DEF IInv, Join, pool, maps
<1>1. TypeOK'
  BY TraceFixed DEF TypeOK, MainTyped, PoolTyped, TableTyped, MapType
<1>2. WorkersOK'
  BY TraceFixed DEF WorkersOK, WorkerOK
<1>3. EdgesOK' /\ NoDuplicateEdges'
  BY TableUntouched
<1>4. PoolJoined' /\ EndpointsComplete'
  BY DEF PoolJoined, InPool, EndpointsComplete
<1> QED BY <1>1, <1>2, <1>3, <1>4

\* After the pool, the edges may change: no worker looks at them any more.
LEMMA IdleWorkers ==
  ASSUME IInv, ~InPool, UNCHANGED <<trace, pool>>
  PROVE  WorkersOK'
BY TraceFixed DEF IInv, WorkersOK, WorkerOK, PoolJoined, pool

\* The table in which the weak edge of a node is filed: the present one, or the
\* present one with a new edge at its end.
GrownTo(es, i, p) ==
  /\ es \in Seq(Edges) /\ i \in DOMAIN es /\ Key(es[i]) = Key(p)
  /\ DOMAIN es = DOMAIN edges \cup {i}
  /\ \A j \in DOMAIN edges : es[j] = edges[j]
  /\ \/ i \in DOMAIN edges
     \/ /\ es[i].fromNode = NoNode /\ es[i].toNode = NoNode
        /\ \A j \in DOMAIN edges : Key(edges[j]) # Key(es[i])

\* The main thread adds at most one edge and files it under one node.
LEMMA AddWeakEdgeFiles ==
  ASSUME IInv, AddWeakEdge
  PROVE  \/ UNCHANGED <<edges, maps>>
         \/ \E es, i, p : GrownTo(es, i, p) /\ Filed(weakNext, i, es)
<1> DEFINE n  == weakNext
           ps == WeakEdgeOf(n)
           p  == Head(ps)
           k  == Find(p)
           es == Append(edges, NewEdge(p))
<1>1. n \in Nodes /\ trace \in Traces /\ TableTyped
  BY GroupFacts DEF AddWeakEdge, IInv, TypeOK, MainTyped, Nodes
<1>2. edges \in Seq(Edges) /\ Len(edges) \in Nat
  BY <1>1 DEF TableTyped
<1>3. CASE ps = <<>> \/ ~InTime(p)
  BY <1>3 DEF AddWeakEdge
<1>4. CASE ~(ps = <<>> \/ ~InTime(p))
  <2>1. p \in ProposalsFor(n)
    BY <1>1, <1>4, WeakEdgeTyped, HeadTailProperties
  <2>2. /\ NewEdge(p) \in Edges /\ Key(NewEdge(p)) = Key(p)
        /\ NewEdge(p).fromNode = NoNode /\ NewEdge(p).toNode = NoNode
    BY <2>1 DEF NewEdge, Edges, Proposals, ProposalsFor, Key
  <2>3. CASE k = NoEdge
    <3>1. FileEdge(n, p, Len(edges) + 1, TRUE, es)
      BY <1>4, <2>3 DEF AddWeakEdge
    <3>2. \A j \in DOMAIN edges : Key(edges[j]) # Key(p)
      BY <1>2, <2>3, FindFacts DEF NoEdge
    <3>3. /\ es \in Seq(Edges) /\ Len(es) = Len(edges) + 1
          /\ es[Len(edges) + 1] = NewEdge(p)
          /\ \A j \in 1 .. Len(edges) : es[j] = edges[j]
      BY <1>2, <2>2, AppendProperties
    <3>4. /\ Len(edges) + 1 \in DOMAIN es
          /\ DOMAIN es = DOMAIN edges \cup {Len(edges) + 1}
          /\ DOMAIN edges = 1 .. Len(edges)
      BY <1>2, <3>3
    <3> HIDE DEF n, es, p
    <3>5. GrownTo(es, Len(edges) + 1, p)
      BY <2>2, <3>2, <3>3, <3>4 DEF GrownTo
    <3>6. Filed(n, Len(edges) + 1, es)
      BY <1>1, <2>1, <2>2, <3>1, <3>3, <3>4, FileEdgeFacts
    <3> QED BY <3>5, <3>6 DEF n
  <2>4. CASE k # NoEdge
    <3>1. FileEdge(n, p, k, FALSE, edges)
      BY <1>4, <2>4 DEF AddWeakEdge
    <3>2. k \in DOMAIN edges /\ Key(edges[k]) = Key(p)
      BY <1>2, <2>4, FindFacts
    <3> HIDE DEF n, k, p
    <3>3. GrownTo(edges, k, p)
      BY <1>2, <3>2 DEF GrownTo
    <3>4. Filed(n, k, edges)
      BY <1>1, <1>2, <2>1, <3>1, <3>2, FileEdgeFacts
    <3> QED BY <3>3, <3>4 DEF n
  <2> QED BY <2>3, <2>4
<1> QED BY <1>3, <1>4

\* Adding a weak edge keeps the invariant.
LEMMA AddWeakEdgeStep == IInv /\ AddWeakEdge => IInv'
<1> SUFFICES ASSUME IInv, AddWeakEdge PROVE IInv'
  OBVIOUS
<1> USE DEF IInv
<1> DEFINE n  == weakNext
<1>1. /\ phase = "weak" /\ ~InPool /\ n \in Nodes /\ weakNext' = weakNext + 1
      /\ UNCHANGED <<trace, phase, posted, taken, pool, weakMkrun, dupMkrun>>
      /\ trace \in Traces /\ Len(Groups) \in Nat
  BY GroupFacts DEF AddWeakEdge, InPool, TypeOK, MainTyped, Nodes
<1>2. WorkersOK' /\ PoolJoined' /\ EndpointsComplete'
  BY <1>1, IdleWorkers DEF PoolJoined, InPool, EndpointsComplete, pool
<1>3. MainTyped' /\ PoolTyped'
  BY <1>1, TraceFixed DEF TypeOK, MainTyped, PoolTyped, pool, Nodes
<1>4. n # NoNode
  BY <1>1, GroupFacts DEF NoNode
<1>5. \A j \in DOMAIN edges : edges[j].fromNode # NoNode \/ edges[j].toNode # NoNode
  BY <1>1 DEF EdgesOK, EdgeOK, PoolJoined
<1>6. CASE UNCHANGED <<edges, maps>>
  <2>1. TableTyped' /\ EdgesOK' /\ NoDuplicateEdges'
    BY <1>1, <1>5, <1>6, TraceFixed
    DEF TypeOK, TableTyped, MapType, maps, EdgesOK, EdgeOK, NoDuplicateEdges, Key
  <2> QED BY <1>2, <1>3, <2>1 DEF TypeOK
<1>7. CASE \E es, i, p : GrownTo(es, i, p) /\ Filed(n, i, es)
  <2>1. PICK es, i, p : GrownTo(es, i, p) /\ Filed(n, i, es)
    BY <1>7
  <2> HIDE DEF n
  <2>2. TableTyped'
    BY <1>1, <2>1, TraceFixed DEF Filed, TableTyped, MapType
  <2>3. EdgesOK'
    <3> SUFFICES ASSUME NEW j \in DOMAIN es PROVE EdgeOK(j)'
      BY <2>1 DEF Filed, EdgesOK
    <3>1. edges'[j].from = es[j].from /\ edges'[j].to = es[j].to
      BY <2>1 DEF Filed, Key
    <3>2. CASE j # i
      <4>1. j \in DOMAIN edges /\ edges'[j] = edges[j]
        BY <2>1, <3>2 DEF Filed, GrownTo
      <4> QED BY <1>1, <1>5, <4>1, TraceFixed DEF EdgesOK, EdgeOK
    <3>3. CASE j = i
      <4>1. /\ es[i].fromNode \in {NoNode, NodeOf(es[i].from)}
            /\ es[i].toNode \in {NoNode, NodeOf(es[i].to)}
        <5>1. CASE i \in DOMAIN edges
          BY <2>1, <5>1 DEF GrownTo, EdgesOK, EdgeOK
        <5>2. CASE i \notin DOMAIN edges
          BY <2>1, <5>2 DEF GrownTo
        <5> QED BY <5>1, <5>2
      <4> QED BY <1>1, <1>4, <2>1, <3>1, <3>3, <4>1, TraceFixed DEF Filed, EdgeOK
    <3> QED BY <3>2, <3>3
  <2>4. NoDuplicateEdges'
    <3>1. \A j, l \in DOMAIN es : Key(es[j]) = Key(es[l]) => j = l
      BY <2>1 DEF GrownTo, NoDuplicateEdges
    <3> QED BY <2>1, <3>1 DEF Filed, NoDuplicateEdges, Key
  <2> QED BY <1>2, <1>3, <2>2, <2>3, <2>4 DEF TypeOK
<1> QED BY <1>6, <1>7, AddWeakEdgeFiles

\* Counting duplicated wake-ups keeps the invariant.
LEMMA OptimizeStep == IInv /\ OptimizeMkrunEdges => IInv'
<1> SUFFICES ASSUME IInv, OptimizeMkrunEdges PROVE IInv'
  OBVIOUS
<1> USE DEF IInv, OptimizeMkrunEdges, pool, maps
<1>1. dupMkrun' \in Nat
  <2>1. Len(edges) \in Nat /\ DOMAIN edges = 1 .. Len(edges)
    BY DEF TypeOK, TableTyped
  <2>2. IsFiniteSet(DOMAIN edges)
    BY <2>1, FS_Interval
  <2>3. IsFiniteSet({i \in DOMAIN edges : IsDuplicate(i)})
    BY <2>2, FS_Subset
  <2> QED BY <2>3, FS_CardinalityType
<1>2. TypeOK'
  BY <1>1, TraceFixed DEF TypeOK, MainTyped, PoolTyped, TableTyped, MapType
<1>3. WorkersOK'
  BY TraceFixed DEF WorkersOK, WorkerOK
<1>4. EdgesOK' /\ NoDuplicateEdges'
  BY TableUntouched
<1>5. PoolJoined' /\ EndpointsComplete'
  BY DEF PoolJoined, InPool, EndpointsComplete
<1> QED BY <1>2, <1>3, <1>4, <1>5

\* An edge that complete_vertices_for_edges leaves alone needs nothing: the side of
\* its event without group is empty, and so the other one has been set.
LEMMA CompleteStep == IInv /\ CompleteVertices => IInv'
<1> SUFFICES ASSUME IInv, CompleteVertices PROVE IInv'
  OBVIOUS
<1> USE DEF IInv
<1>1. /\ phase = "complete" /\ ~InPool /\ phase' = "done"
      /\ edges' = [i \in DOMAIN edges |-> Completed(edges[i])]
      /\ UNCHANGED <<trace, posted, taken, pool, maps, weakMkrun, dupMkrun, weakNext>>
  BY DEF CompleteVertices, InPool
<1>2. edges \in Seq(Edges)
  BY DEF TypeOK, TableTyped
<1>3. \A e \in EventIds : NodeOf(e) \in Nodes \cup {NoNode}
  BY GroupFacts DEF TypeOK, MainTyped
<1>4. ASSUME NEW i \in DOMAIN edges
      PROVE  /\ edges'[i] \in Edges /\ Key(edges'[i]) = Key(edges[i])
             /\ edges'[i].from = edges[i].from /\ edges'[i].to = edges[i].to
             /\ edges'[i].fromNode = NodeOf(edges[i].from)
             /\ edges'[i].toNode = NodeOf(edges[i].to)
             /\ edges'[i].fromNode # NoNode \/ edges'[i].toNode # NoNode
  <2> DEFINE e == edges[i]
  <2>1. e \in Edges
    BY <1>2
  <2>2. e.from \in EventIds /\ e.to \in EventIds
    BY <2>1 DEF Edges
  <2>3. /\ e.fromNode \in {NoNode, NodeOf(e.from)} /\ e.toNode \in {NoNode, NodeOf(e.to)}
        /\ e.fromNode # NoNode \/ e.toNode # NoNode
    BY <1>1 DEF EdgesOK, EdgeOK, PoolJoined
  <2>4. edges'[i] = Completed(e)
    BY <1>1
  <2> HIDE DEF e
  <2>5. CASE NodeOf(e.from) = NoNode \/ NodeOf(e.to) = NoNode
    <3>1. edges'[i] = e
      BY <2>4, <2>5 DEF Completed
    <3> QED BY <2>1, <2>3, <2>5, <3>1 DEF e
  <2>6. CASE ~(NodeOf(e.from) = NoNode \/ NodeOf(e.to) = NoNode)
    <3>1. edges'[i] = [e EXCEPT !.fromNode = NodeOf(e.from), !.toNode = NodeOf(e.to)]
      BY <2>4, <2>6 DEF Completed
    <3>2. /\ edges'[i] \in Edges /\ edges'[i].rel = e.rel
          /\ edges'[i].from = e.from /\ edges'[i].to = e.to
          /\ edges'[i].fromNode = NodeOf(e.from) /\ edges'[i].toNode = NodeOf(e.to)
      BY <1>3, <2>1, <2>2, <3>1 DEF Edges
    <3> QED BY <2>6, <3>2 DEF e, Key
  <2> QED BY <2>5, <2>6
<1>5. DOMAIN edges' = DOMAIN edges /\ edges' \in Seq(Edges)
  BY <1>1, <1>2, <1>4
<1>6. TypeOK'
  <2>1. TableTyped'
    BY <1>1, <1>5, TraceFixed DEF TypeOK, TableTyped, MapType, maps
  <2> QED BY <1>1, <2>1, TraceFixed DEF TypeOK, MainTyped, PoolTyped, pool
<1>7. WorkersOK' /\ PoolJoined'
  BY <1>1, IdleWorkers DEF PoolJoined, InPool, pool
<1>8. EdgesOK'
  BY <1>1, <1>4, <1>5, TraceFixed DEF EdgesOK, EdgeOK
<1>9. NoDuplicateEdges'
  BY <1>4, <1>5 DEF NoDuplicateEdges
<1>10. EndpointsComplete'
  BY <1>1, <1>4, <1>5, TraceFixed DEF EndpointsComplete
<1> QED BY <1>6, <1>7, <1>8, <1>9, <1>10

\* A step that changes nothing keeps the invariant.
LEMMA StutterStep == IInv /\ UNCHANGED vars => IInv'
<1> SUFFICES ASSUME IInv, UNCHANGED vars PROVE IInv'
  OBVIOUS
<1> USE DEF IInv, vars, pool, maps
<1>1. TypeOK'
  BY TraceFixed DEF TypeOK, MainTyped, PoolTyped, TableTyped, MapType
<1>2. WorkersOK'
  BY TraceFixed DEF WorkersOK, WorkerOK
<1>3. EdgesOK' /\ NoDuplicateEdges'
  BY TableUntouched
<1>4. PoolJoined' /\ EndpointsComplete'
  BY TraceFixed DEF PoolJoined, InPool, EndpointsComplete
<1> QED BY <1>1, <1>2, <1>3, <1>4

\* Every step keeps the invariant.
LEMMA NextIInv == IInv /\ [Next]_vars => IInv'
<1> SUFFICES ASSUME IInv, [Next]_vars PROVE IInv'
  OBVIOUS
<1>1. ASSUME Main PROVE IInv'
  BY <1>1, PostStep, JoinStep, AddWeakEdgeStep, OptimizeStep, CompleteStep DEF Main
<1>2. ASSUME NEW w \in Workers, Worker(w) PROVE IInv'
  BY <1>2, TakeStep, NextEventStep, RefuseStep, LockStep, ScanStep, InsertStep, LinkStep,
     LoadStep, StoreStep DEF Worker
<1>3. CASE UNCHANGED vars \/ Built
  BY <1>3, StutterStep DEF Built
<1> QED BY <1>1, <1>2, <1>3 DEF Next

-----------------------------------------------------------------------------
(* The theorems.                                                           *)

(* The inductive invariant: a worker between lock and unlock is the holder *)
(* of the lock and what it found still holds, every proposal in flight is  *)
(* for the worker's own node, and every edge has been filed under one end. *)
THEOREM InvariantHolds == Spec => []IInv
BY InitIInv, NextIInv, PTL DEF Spec

(* Types: whatever the trace and however many workers run, every node,     *)
(* edge and event that a worker or a per-node map refers to exists.        *)
THEOREM TypeCorrect == Spec => []TypeOK
<1>1. IInv => TypeOK
  BY DEF IInv
<1> QED BY <1>1, InvariantHolds, PTL

(* The lock of check_and_add_edge is enough: the two ends of a connection, *)
(* proposing it from any two workers, never leave two equal edges.         *)
THEOREM TableHasNoDuplicates == Spec => []NoDuplicateEdges
<1>1. IInv => NoDuplicateEdges
  BY DEF IInv
<1> QED BY <1>1, InvariantHolds, PTL

(* complete_vertices_for_edges completes the endpoints although it skips   *)
(* the edges one of whose events is in no group.                           *)
THEOREM EndpointsAreComplete == Spec => []EndpointsComplete
<1>1. IInv => EndpointsComplete
  BY DEF IInv
<1> QED BY <1>1, InvariantHolds, PTL

-----------------------------------------------------------------------------
(* The steps that write the table leave the rest of it as it was.          *)

Stable ==
  /\ DOMAIN edges \subseteq DOMAIN edges'
  /\ \A i \in DOMAIN edges :
       /\ Key(edges'[i]) = Key(edges[i])
       /\ edges[i].fromNode # NoNode => edges'[i].fromNode = edges[i].fromNode
       /\ edges[i].toNode # NoNode => edges'[i].toNode = edges[i].toNode

\* Filing an edge overwrites no endpoint by another value.
LEMMA FiledStable ==
  ASSUME EdgesOK, NEW n, NEW es, NEW i, NEW p, GrownTo(es, i, p), Filed(n, i, es)
  PROVE  Stable
<1>1. DOMAIN edges \subseteq DOMAIN edges'
  BY DEF GrownTo, Filed
<1>2. ASSUME NEW j \in DOMAIN edges
      PROVE  /\ Key(edges'[j]) = Key(edges[j])
             /\ edges[j].fromNode # NoNode => edges'[j].fromNode = edges[j].fromNode
             /\ edges[j].toNode # NoNode => edges'[j].toNode = edges[j].toNode
  <2>1. /\ es[j] = edges[j] /\ j \in DOMAIN es
        /\ Key(edges'[j]) = Key(es[j]) /\ (j # i => edges'[j] = es[j])
    BY DEF GrownTo, Filed
  <2>2. /\ edges[j].fromNode # NoNode => edges[j].fromNode = NodeOf(edges[j].from)
        /\ edges[j].toNode # NoNode => edges[j].toNode = NodeOf(edges[j].to)
    BY DEF EdgesOK, EdgeOK
  <2> QED BY <2>1, <2>2 DEF Filed
<1> QED BY <1>1, <1>2 DEF Stable

\* Every step leaves the edges in place.
LEMMA NextStable == IInv /\ IInv' /\ [Next]_vars => Stable \/ UNCHANGED edges
<1> SUFFICES ASSUME IInv, IInv', [Next]_vars PROVE Stable \/ UNCHANGED edges
  OBVIOUS
<1>1. edges \in Seq(Edges) /\ EdgesOK /\ EdgesOK' /\ trace' = trace
  BY DEF IInv, TypeOK, TableTyped, Next, vars, Main, Worker, Built, Post, Take, NextEvent,
         Refuse, Lock, Scan, Insert, Link, Load, Store, Join, AddWeakEdge,
         OptimizeMkrunEdges, CompleteVertices
<1>2. ASSUME NEW w \in Workers, Insert(w) PROVE Stable
  <2>1. /\ DOMAIN edges \subseteq DOMAIN edges'
        /\ \A i \in DOMAIN edges : edges'[i] = edges[i]
    BY <1>1, <1>2 DEF Insert
  <2> QED BY <2>1 DEF Stable
<1>3. ASSUME NEW w \in Workers, Link(w) PROVE Stable
  <2>1. hit[w] \in DOMAIN edges /\ Filed(node[w], hit[w], edges)
    BY <1>3, LinkFiles
  <2>2. GrownTo(edges, hit[w], edges[hit[w]])
    BY <1>1, <2>1 DEF GrownTo
  <2> QED BY <1>1, <2>1, <2>2, FiledStable
<1>4. ASSUME AddWeakEdge PROVE Stable \/ UNCHANGED edges
  BY <1>1, <1>4, AddWeakEdgeFiles, FiledStable
<1>5. ASSUME CompleteVertices PROVE Stable
  <2>1. DOMAIN edges' = DOMAIN edges /\ \A i \in DOMAIN edges : edges'[i] = Completed(edges[i])
    BY <1>5 DEF CompleteVertices
  <2>2. ASSUME NEW i \in DOMAIN edges
        PROVE  /\ Key(edges'[i]) = Key(edges[i])
               /\ edges[i].fromNode # NoNode => edges'[i].fromNode = edges[i].fromNode
               /\ edges[i].toNode # NoNode => edges'[i].toNode = edges[i].toNode
    <3> DEFINE e == edges[i]
    <3>1. /\ e \in Edges /\ edges'[i] = Completed(e)
          /\ e.fromNode \in {NoNode, NodeOf(e.from)} /\ e.toNode \in {NoNode, NodeOf(e.to)}
      BY <1>1, <2>1 DEF EdgesOK, EdgeOK
    <3> HIDE DEF e
    <3>2. CASE edges'[i] = e
      BY <3>2 DEF e
    <3>3. CASE edges'[i] = [e EXCEPT !.fromNode = NodeOf(e.from), !.toNode = NodeOf(e.to)]
      <4>1. /\ edges'[i].from = e.from /\ edges'[i].to = e.to /\ edges'[i].rel = e.rel
            /\ edges'[i].fromNode = NodeOf(e.from) /\ edges'[i].toNode = NodeOf(e.to)
        BY <3>1, <3>3 DEF Edges
      <4> QED BY <3>1, <4>1 DEF e, Key
    <3> QED BY <3>1, <3>2, <3>3 DEF Completed
  <2> QED BY <2>1, <2>2 DEF Stable
<1>6. ASSUME \/ \E w \in Workers : \/ Take(w) \/ NextEvent(w) \/ Refuse(w) \/ Lock(w)
                                   \/ Scan(w) \/ Load(w) \/ Store(w)
             \/ Post \/ Join \/ OptimizeMkrunEdges \/ Built \/ UNCHANGED vars
      PROVE  UNCHANGED edges
  BY <1>6 DEF Take, NextEvent, Refuse, Lock, Scan, Load, Store, Post, Join,
              OptimizeMkrunEdges, Built, vars
<1> QED BY <1>2, <1>3, <1>4, <1>5, <1>6 DEF Next, Main, Worker

(* An endpoint that one thread has set is never changed by another, and an *)
(* edge keeps its place and its events: the pointers that other workers    *)
(* keep across the unlock of check_and_add_edge stay good.                 *)
THEOREM TableIsStable == Spec => EdgesAreStable
<1>1. IInv /\ IInv' /\ [Next]_vars =>
        [/\ DOMAIN edges \subseteq DOMAIN edges'
         /\ \A i \in DOMAIN edges :
              /\ Key(edges'[i]) = Key(edges[i])
              /\ edges[i].fromNode # NoNode => edges'[i].fromNode = edges[i].fromNode
              /\ edges[i].toNode # NoNode => edges'[i].toNode = edges[i].toNode]_edges
  BY NextStable DEF Stable
<1> QED BY <1>1, InvariantHolds, PTL DEF Spec, EdgesAreStable

-----------------------------------------------------------------------------
(* What is left to propose, and what has been made.                        *)

Active(w) == pc[w] # "idle"

\* The proposals that worker w has still to make for its node, those that nobody has
\* made yet for node n, and those made for n, among them the weak edge.
LeftOf(w) ==
  Range(todo[w]) \cup UNION {Range(ProposalsOf(Events(node[w])[i])) :
                               i \in pos[w] + 1 .. Len(Events(node[w]))}
Left(n) ==
  IF n > taken THEN WalkOf(n)
  ELSE UNION {LeftOf(w) : w \in {v \in Workers : Active(v) /\ node[v] = n}}
WeakMade(n) == IF n < weakNext THEN Range(WeakEdgeOf(n)) ELSE {}
Made(n) == {p \in (WalkOf(n) \ Left(n)) \cup WeakMade(n) : InTime(p)}

MadeKeys(n, side)  == {Key(p) : p \in {q \in Made(n) : q.side = side}}
FiledKeys(n, side) == {Key(edges[item[2]]) : item \in FiledUnder(n)[side]}

-----------------------------------------------------------------------------
(* The inductive invariant, beside that of EventGraph_proofs.              *)

\* A worker makes, once each, the proposals of the event it is at.
WalkInv(w) ==
  /\ node[w] <= taken
  /\ pos[w] <= Len(Events(node[w]))
  /\ IsInjective(todo[w])
  /\ todo[w] # <<>> =>
       pos[w] > 0 /\ Range(todo[w]) \subseteq Range(ProposalsOf(Events(node[w])[pos[w]]))
  /\ pc[w] \in {"scan", "insert", "link_new", "link_old"} => InTime(Head(todo[w]))
WalksInv ==
  /\ \A w \in Workers : Active(w) => WalkInv(w)
  /\ \A v, w \in Workers : Active(v) /\ Active(w) /\ node[v] = node[w] => v = w

MainInv ==
  /\ phase # "post" => posted = Len(Groups)
  /\ InPool => weakNext = 1
  /\ phase \in {"complete", "done"} => weakNext > Len(Groups)

\* A node's maps hold the proposals made for it, and its counters their number.
FiledInv(n) ==
  /\ \A side \in Sides : FiledKeys(n, side) = MadeKeys(n, side)
  /\ IsFiniteSet(inMap[n]) /\ IsFiniteSet(outMap[n])
  /\ degree[n] = [in |-> Cardinality(inMap[n]), out |-> Cardinality(outMap[n])]
  /\ \A item \in outMap[n] : edges[item[2]].fromNode = n
MapsInv ==
  /\ degree \in [Nodes -> [in : Nat, out : Nat]]
  /\ \A n \in Nodes : FiledInv(n)

AreWanted == Keys(edges) \subseteq Wanted

FInv == WalksInv /\ MainInv /\ MapsInv /\ AreWanted
-----------------------------------------------------------------------------
(* The trace and what it proposes.                                         *)

\* What is read from the trace stays as it is.
LEMMA ProposalsFixed ==
  ASSUME trace' = trace
  PROVE  /\ \A e : ProposalsOf(e)' = ProposalsOf(e)
         /\ \A n : Events(n)' = Events(n)
         /\ \A n : WalkOf(n)' = WalkOf(n)
         /\ \A n : WeakEdgeOf(n)' = WeakEdgeOf(n)
         /\ \A p : InTime(p)' = InTime(p)
         /\ Wanted' = Wanted
<1>1. \A e : Ev(e)' = Ev(e)
  BY DEF Ev
<1>2. \A e, kind : IsA(e, kind)' = IsA(e, kind)
  BY <1>1 DEF IsA
<1>3. Groups' = Groups /\ Nodes' = Nodes
  BY DEF Groups, Nodes
<1>4. \A n : Events(n)' = Events(n)
  BY <1>3 DEF Events
<1>5. ASSUME NEW e PROVE ProposalsOf(e)' = ProposalsOf(e)
  <2>1. /\ EdgesForMsg(e)' = EdgesForMsg(e)
        /\ EdgesForDispEnq(e)' = EdgesForDispEnq(e)
        /\ EdgesForDispInvoke(e)' = EdgesForDispInvoke(e)
        /\ EdgesForHwbr(e)' = EdgesForHwbr(e)
        /\ EdgesForFakedWoken(e)' = EdgesForFakedWoken(e)
    BY DEF EdgesForMsg, EdgesForDispEnq, EdgesForDispInvoke, EdgesForHwbr, EdgesForFakedWoken,
           Ev, IsA, NodeOf
  <2>2. /\ EdgesForCallCreate(e)' = EdgesForCallCreate(e)
        /\ EdgesForCallout(e)' = EdgesForCallout(e)
        /\ EdgesForCASet(e)' = EdgesForCASet(e)
        /\ EdgesForCADisplay(e)' = EdgesForCADisplay(e)
        /\ EdgesForRLItem(e)' = EdgesForRLItem(e)
        /\ EdgesForMkrun(e)' = EdgesForMkrun(e)
    BY DEF EdgesForCallCreate, EdgesForCallout, EdgesForCASet, EdgesForCADisplay,
           EdgesForRLItem, EdgesForMkrun, Ev
  <2> QED BY <1>1, <2>1, <2>2 DEF ProposalsOf
<1>6. \A n : WalkOf(n)' = WalkOf(n)
  BY <1>4, <1>5 DEF WalkOf
<1>7. \A n : WeakEdgeOf(n)' = WeakEdgeOf(n)
  BY DEF WeakEdgeOf, LastEvent, RealFirstEvent, Events, Groups, Ev
<1>8. \A p : InTime(p)' = InTime(p)
  BY DEF InTime, Ev
<1>9. Wanted' = Wanted
  BY <1>3, <1>6, <1>7, <1>8 DEF Wanted, SideKeys, ProposalsOfNode
<1> QED BY <1>4, <1>5, <1>6, <1>7, <1>8, <1>9

\* A group holds each of its events once, and an event in a group is there.
LEMMA MembersFacts ==
  ASSUME trace \in Traces
  PROVE  /\ \A n \in Nodes : IsInjective(Events(n))
         /\ \A e \in EventIds : NodeOf(e) # NoNode => e \in Range(Events(NodeOf(e)))
<1>1. TraceOK(trace) /\ Groups = trace.group /\ \A e : Ev(e) = trace.ev[e]
  BY TracesAssumption DEF Groups, Ev
<1>2. \A n \in Nodes : n \in DOMAIN trace.group
  BY <1>1, GroupFacts
<1>3. ASSUME NEW n \in Nodes PROVE IsInjective(Events(n))
  BY <1>1, <1>2 DEF TraceOK, Events
<1>4. ASSUME NEW e \in EventIds, NodeOf(e) # NoNode PROVE e \in Range(Events(NodeOf(e)))
  BY <1>1, <1>4 DEF TraceOK, Events, NodeOf
<1> QED BY <1>3, <1>4

\* The event a proposal is made by; the proposals of one event, each made once.
SideEvent(p) == IF p.side \in {"out", "weak_out"} THEN p.from ELSE p.to
Own(s, e) == IsInjective(s) /\ \A p \in Range(s) : SideEvent(p) = e

LEMMA OwnOne ==
  ASSUME NEW e, NEW x, NEW rel
  PROVE  /\ Own(<<>>, e)
         /\ Own(Out(e, x, rel), e) /\ Own(In(x, e, rel), e)
         /\ Own(WeakOut(e, x, rel), e) /\ Own(WeakIn(x, e, rel), e)
<1>1. \A p : IsInjective(<<p>>) /\ Range(<<p>>) = {p}
  BY DEF IsInjective, Range
<1>2. IsInjective(<<>>) /\ Range(<<>>) = {}
  BY DEF IsInjective, Range
<1>3. /\ SideEvent(Proposal(e, x, rel, "out")) = e
      /\ SideEvent(Proposal(x, e, rel, "in")) = e
      /\ SideEvent(Proposal(e, x, rel, "weak_out")) = e
      /\ SideEvent(Proposal(x, e, rel, "weak_in")) = e
  BY DEF SideEvent, Proposal
<1> QED BY <1>1, <1>2, <1>3 DEF Own, Out, In, WeakOut, WeakIn

\* Two sequences of one element.
LEMMA PairIs ==
  ASSUME NEW p, NEW q
  PROVE  <<p>> \o <<q>> = <<p, q>>
<1>1. <<p>> \in Seq({p, q}) /\ <<q>> \in Seq({p, q}) /\ Len(<<p>>) = 1 /\ Len(<<q>>) = 1
  OBVIOUS
<1>2. /\ <<p>> \o <<q>> \in Seq({p, q}) /\ Len(<<p>> \o <<q>>) = 2
      /\ (<<p>> \o <<q>>)[1] = p /\ (<<p>> \o <<q>>)[2] = q
  BY <1>1, ConcatProperties
<1>3. ASSUME NEW s \in Seq({p, q}), Len(s) = 2 PROVE s = <<s[1], s[2]>>
  BY <1>3
<1> QED BY <1>2, <1>3

\* Two proposals of an event, of different relations or for different sides.
LEMMA OwnTwo ==
  ASSUME NEW e, NEW p, NEW q, p # q, SideEvent(p) = e, SideEvent(q) = e
  PROVE  Own(<<p>> \o <<q>>, e)
<1>1. <<p>> \o <<q>> = <<p, q>>
  BY PairIs
<1>2. IsInjective(<<p, q>>) /\ Range(<<p, q>>) = {p, q}
  BY DEF IsInjective, Range
<1> QED BY <1>1, <1>2 DEF Own

\* What an event proposes, it proposes once and for itself.
LEMMA ProposalsAreOwn ==
  ASSUME trace \in Traces, NEW e \in EventIds
  PROVE  Own(ProposalsOf(e), e)
<1>1. TraceOK(trace) /\ \A x : Ev(x) = trace.ev[x]
  BY TracesAssumption DEF Ev
<1>2. Ev(e).kind = "cadisplay" => Ev(e).sets \in Seq(EventIds) /\ IsInjective(Ev(e).sets)
  BY <1>1 DEF TraceOK
<1>3. Own(EdgesForMsg(e), e)
  <2> DEFINE m == Ev(e)
             n1 == Proposal(e, m.next, "MSGP_NEXT", "out")
             n2 == Proposal(m.prev, e, "MSGP_NEXT", "in")
             p1 == Proposal(m.peer, e, "MSGP", "in")
             p2 == Proposal(e, m.peer, "MSGP", "out")
             s == IF m.next # NoEvent THEN <<n1>>
                  ELSE IF m.prev # NoEvent THEN <<n2>> ELSE <<>>
             t == IF ~IsA(m.peer, "msg") THEN <<>> ELSE IF m.recv THEN <<p1>> ELSE <<p2>>
  <2>1. \A x \in {n1, n2}, y \in {p1, p2} : x # y
    BY DEF Proposal
  <2>2. \A x \in {n1, n2, p1, p2} : SideEvent(x) = e
    BY DEF Proposal, SideEvent
  <2>3. EdgesForMsg(e) = s \o t
    BY DEF EdgesForMsg, Out, In
  <2>4. Own(<<>>, e) /\ \A x \in {n1, n2, p1, p2} : Own(<<x>>, e)
    BY OwnOne DEF Out, In
  <2> HIDE DEF n1, n2, p1, p2
  <2>5. s \in {<<>>, <<n1>>, <<n2>>} /\ t \in {<<>>, <<p1>>, <<p2>>}
    OBVIOUS
  <2> HIDE DEF s, t
  <2>6. CASE s = <<>>
    <3>1. s \o t = t
      BY <2>5, <2>6
    <3> QED BY <2>3, <2>4, <2>5, <3>1
  <2>7. CASE t = <<>>
    <3>1. s \o t = s
      BY <2>5, <2>7
    <3> QED BY <2>3, <2>4, <2>5, <3>1
  <2>8. CASE \E x \in {n1, n2}, y \in {p1, p2} : s = <<x>> /\ t = <<y>>
    BY <2>1, <2>2, <2>3, <2>8, OwnTwo
  <2> QED BY <2>5, <2>6, <2>7, <2>8
<1>4. Own(EdgesForRLItem(e), e)
  <2> DEFINE x == Proposal(Ev(e).owner, e, "RLITEM", "in")
             y == Proposal(e, Ev(e).consumer, "RLITEM", "out")
             s == IF Ev(e).owner # NoEvent THEN <<x>> ELSE <<>>
             t == IF Ev(e).consumer # NoEvent THEN <<y>> ELSE <<>>
  <2>1. x # y /\ SideEvent(x) = e /\ SideEvent(y) = e
    BY DEF Proposal, SideEvent
  <2>2. EdgesForRLItem(e) = s \o t
    BY DEF EdgesForRLItem, Out, In
  <2>3. Own(<<>>, e) /\ Own(<<x>>, e) /\ Own(<<y>>, e)
    BY OwnOne DEF Out, In
  <2> HIDE DEF x, y
  <2>4. s \in {<<>>, <<x>>} /\ t \in {<<>>, <<y>>}
    OBVIOUS
  <2> HIDE DEF s, t
  <2>5. CASE s = <<>>
    <3>1. s \o t = t
      BY <2>4, <2>5
    <3> QED BY <2>2, <2>3, <2>4, <3>1
  <2>6. CASE t = <<>>
    <3>1. s \o t = s
      BY <2>4, <2>6
    <3> QED BY <2>2, <2>3, <2>4, <3>1
  <2>7. CASE s = <<x>> /\ t = <<y>>
    BY <2>1, <2>2, <2>7, OwnTwo
  <2> QED BY <2>4, <2>5, <2>6, <2>7
<1>5. Ev(e).kind = "cadisplay" => Own(EdgesForCADisplay(e), e)
  <2> SUFFICES ASSUME Ev(e).kind = "cadisplay" PROVE Own(EdgesForCADisplay(e), e)
    OBVIOUS
  <2> DEFINE sets == Ev(e).sets
             f == EdgesForCADisplay(e)
  <2>1. f = [i \in DOMAIN sets |-> Proposal(sets[i], e, "CA", "in")]
    BY DEF EdgesForCADisplay, In
  <2>2. ASSUME NEW i \in DOMAIN sets, NEW j \in DOMAIN sets, f[i] = f[j] PROVE i = j
    <3>1. sets[i] = sets[j]
      BY <2>1, <2>2 DEF Proposal
    <3> QED BY <1>2, <3>1 DEF IsInjective
  <2>3. \A i \in DOMAIN sets : SideEvent(f[i]) = e
    BY <2>1 DEF SideEvent, Proposal
  <2>4. DOMAIN f = DOMAIN sets
    BY <2>1
  <2> HIDE DEF f, sets
  <2> QED BY <2>2, <2>3, <2>4 DEF Own, IsInjective, Range, f
<1>6. /\ Own(EdgesForDispEnq(e), e) /\ Own(EdgesForDispInvoke(e), e)
      /\ Own(EdgesForCallCreate(e), e) /\ Own(EdgesForCallout(e), e)
      /\ Own(EdgesForCASet(e), e) /\ Own(EdgesForHwbr(e), e)
      /\ Own(EdgesForMkrun(e), e) /\ Own(EdgesForFakedWoken(e), e)
  BY OwnOne DEF EdgesForDispEnq, EdgesForDispInvoke, EdgesForCallCreate, EdgesForCallout,
                EdgesForCASet, EdgesForHwbr, EdgesForMkrun, EdgesForFakedWoken
<1>7. Own(<<>>, e)
  BY OwnOne
<1> QED BY <1>3, <1>4, <1>5, <1>6, <1>7 DEF ProposalsOf

\* The walk of a group makes the proposals of its events one after the other, and each
\* comes from one event; the weak edge is another proposal for the same node.
LEMMA WalkFacts ==
  ASSUME trace \in Traces, NEW n \in Nodes
  PROVE  /\ Len(Events(n)) \in Nat /\ DOMAIN Events(n) = 1 .. Len(Events(n))
         /\ WalkOf(n) = UNION {Range(ProposalsOf(Events(n)[i])) : i \in 1 .. Len(Events(n))}
         /\ \A i, j \in DOMAIN Events(n) :
              Range(ProposalsOf(Events(n)[i])) \cap Range(ProposalsOf(Events(n)[j])) # {} => i = j
         /\ WalkOf(n) \subseteq ProposalsFor(n)
         /\ Range(WeakEdgeOf(n)) \subseteq ProposalsFor(n)
<1>1. /\ Events(n) \in Seq(EventIds)
      /\ \A i \in DOMAIN Events(n) : Events(n)[i] \in EventIds /\ NodeOf(Events(n)[i]) = n
  BY GroupFacts
<1>2. IsInjective(Events(n))
  BY MembersFacts
<1>3. Len(Events(n)) \in Nat /\ DOMAIN Events(n) = 1 .. Len(Events(n))
  BY <1>1
<1>4. WalkOf(n) = UNION {Range(ProposalsOf(Events(n)[i])) : i \in 1 .. Len(Events(n))}
  <2>1. Range(Events(n)) = {Events(n)[i] : i \in 1 .. Len(Events(n))}
    BY <1>3 DEF Range
  <2> QED BY <2>1 DEF WalkOf
<1>5. ASSUME NEW i \in DOMAIN Events(n), NEW j \in DOMAIN Events(n),
             NEW p \in Range(ProposalsOf(Events(n)[i])) \cap Range(ProposalsOf(Events(n)[j]))
      PROVE  i = j
  <2>1. SideEvent(p) = Events(n)[i]
    BY <1>1, ProposalsAreOwn DEF Own
  <2>2. SideEvent(p) = Events(n)[j]
    BY <1>1, ProposalsAreOwn DEF Own
  <2> QED BY <1>2, <2>1, <2>2 DEF IsInjective
<1>6. \A i \in DOMAIN Events(n) : Range(ProposalsOf(Events(n)[i])) \subseteq ProposalsFor(n)
  <2> SUFFICES ASSUME NEW i \in DOMAIN Events(n)
               PROVE  Range(ProposalsOf(Events(n)[i])) \subseteq ProposalsFor(n)
    OBVIOUS
  <2>1. ProposalsOf(Events(n)[i]) \in Seq(ProposalsFor(n))
    BY <1>1, ProposalsOfTyped
  <2> QED BY <2>1 DEF Range
<1>7. Range(WeakEdgeOf(n)) \subseteq ProposalsFor(n)
  <2>1. WeakEdgeOf(n) \in Seq(ProposalsFor(n))
    BY WeakEdgeTyped
  <2> QED BY <2>1 DEF Range
<1> QED BY <1>3, <1>4, <1>5, <1>6, <1>7

\* The weak edge, if there is one, is the only one of its node.
LEMMA WeakEdgeFacts ==
  ASSUME NEW n
  PROVE  /\ WeakEdgeOf(n) = <<>> => Range(WeakEdgeOf(n)) = {}
         /\ WeakEdgeOf(n) # <<>> => /\ Range(WeakEdgeOf(n)) = {Head(WeakEdgeOf(n))}
                                    /\ Head(WeakEdgeOf(n)).side = "weak_out"
                                    /\ Head(WeakEdgeOf(n)).rel \in {"WEAK", "WEAK_BOOST"}
<1>1. \A p : Range(<<p>>) = {p} /\ Head(<<p>>) = p /\ <<p>> # <<>>
  BY DEF Range
<1>2. Range(<<>>) = {}
  BY DEF Range
<1>3. WeakEdgeOf(n) = <<>> \/
      \E x, y, rel : rel \in {"WEAK", "WEAK_BOOST"} /\ WeakEdgeOf(n) = <<Proposal(x, y, rel, "weak_out")>>
  BY DEF WeakEdgeOf, WeakOut
<1> QED BY <1>1, <1>2, <1>3 DEF Proposal

\* The head of a sequence is in it.
LEMMA HeadInRange ==
  ASSUME NEW S, NEW s \in Seq(S), s # <<>>
  PROVE  Head(s) \in Range(s)
<1>1. Head(s) = s[1] /\ 1 \in DOMAIN s
  OBVIOUS
<1> QED BY <1>1 DEF Range

\* Of a sequence without repetition, all but the head.
LEMMA TailFacts ==
  ASSUME NEW S, NEW s \in Seq(S), s # <<>>, IsInjective(s)
  PROVE  /\ IsInjective(Tail(s)) /\ Range(Tail(s)) = Range(s) \ {Head(s)}
         /\ Head(s) \in Range(s)
<1>1. /\ Len(s) \in Nat \ {0} /\ DOMAIN s = 1 .. Len(s) /\ Head(s) = s[1]
      /\ DOMAIN Tail(s) = 1 .. Len(s) - 1 /\ \A i \in 1 .. Len(s) - 1 : Tail(s)[i] = s[i + 1]
  OBVIOUS
<1>2. \A i \in 1 .. Len(s) - 1 : i + 1 \in DOMAIN s /\ i + 1 # 1
  BY <1>1
<1>3. \A i \in DOMAIN s : i # 1 => i - 1 \in 1 .. Len(s) - 1 /\ (i - 1) + 1 = i
  BY <1>1
<1>4. IsInjective(Tail(s))
  BY <1>1, <1>2 DEF IsInjective
<1>5. Range(Tail(s)) = Range(s) \ {Head(s)}
  <2>1. ASSUME NEW i \in 1 .. Len(s) - 1 PROVE Tail(s)[i] \in Range(s) \ {Head(s)}
    BY <1>1, <1>2 DEF IsInjective, Range
  <2>2. ASSUME NEW i \in DOMAIN s, s[i] # Head(s) PROVE s[i] \in Range(Tail(s))
    <3>1. i - 1 \in DOMAIN Tail(s) /\ Tail(s)[i - 1] = s[i]
      BY <1>1, <1>3, <2>2
    <3> QED BY <3>1 DEF Range
  <2>3. ASSUME NEW x \in Range(Tail(s)) PROVE x \in Range(s) \ {Head(s)}
    <3>1. PICK i \in 1 .. Len(s) - 1 : x = Tail(s)[i]
      BY <1>1 DEF Range
    <3> QED BY <2>1, <3>1
  <2>4. ASSUME NEW x \in Range(s) \ {Head(s)} PROVE x \in Range(Tail(s))
    <3>1. PICK i \in DOMAIN s : x = s[i]
      BY DEF Range
    <3> QED BY <2>2, <3>1
  <2> QED BY <2>3, <2>4
<1>6. Head(s) \in Range(s)
  BY <1>1 DEF Range
<1> QED BY <1>4, <1>5, <1>6

-----------------------------------------------------------------------------
(* What is left of a walk.                                                 *)

Busy(n) == {v \in Workers : Active(v) /\ node[v] = n}
Rest(n, k) == UNION {Range(ProposalsOf(Events(n)[i])) : i \in k + 1 .. Len(Events(n))}

LEMMA LeftIs ==
  /\ \A w : LeftOf(w) = Range(todo[w]) \cup Rest(node[w], pos[w])
  /\ \A n : Left(n) = IF n > taken THEN WalkOf(n) ELSE UNION {LeftOf(w) : w \in Busy(n)}
BY DEF LeftOf, Rest, Left, Busy

\* One event less is left after each.
LEMMA RestFacts ==
  ASSUME trace \in Traces, NEW n \in Nodes
  PROVE  /\ Rest(n, 0) = WalkOf(n) /\ Rest(n, Len(Events(n))) = {}
         /\ \A k \in 0 .. Len(Events(n)) - 1 :
              Rest(n, k) = Range(ProposalsOf(Events(n)[k + 1])) \cup Rest(n, k + 1)
         /\ \A k \in 1 .. Len(Events(n)) :
              Range(ProposalsOf(Events(n)[k])) \cap Rest(n, k) = {}
         /\ \A k \in 0 .. Len(Events(n)) : Rest(n, k) \subseteq WalkOf(n)
         /\ \A k \in 1 .. Len(Events(n)) : Range(ProposalsOf(Events(n)[k])) \subseteq WalkOf(n)
<1> DEFINE P(i) == Range(ProposalsOf(Events(n)[i]))
<1>1. Len(Events(n)) \in Nat /\ DOMAIN Events(n) = 1 .. Len(Events(n))
  BY WalkFacts
<1>2. /\ WalkOf(n) = UNION {P(i) : i \in 1 .. Len(Events(n))}
      /\ \A i, j \in 1 .. Len(Events(n)) : P(i) \cap P(j) # {} => i = j
  BY <1>1, WalkFacts
<1>3. \A k : Rest(n, k) = UNION {P(i) : i \in k + 1 .. Len(Events(n))}
  BY DEF Rest
<1> HIDE DEF P
<1>4. Rest(n, 0) = WalkOf(n) /\ Rest(n, Len(Events(n))) = {}
  BY <1>1, <1>2, <1>3
<1>5. ASSUME NEW k \in 0 .. Len(Events(n)) - 1 PROVE Rest(n, k) = P(k + 1) \cup Rest(n, k + 1)
  <2>1. k + 1 .. Len(Events(n)) = {k + 1} \cup ((k + 1) + 1 .. Len(Events(n)))
    BY <1>1
  <2> QED BY <1>3, <2>1
<1>6. ASSUME NEW k \in 1 .. Len(Events(n)) PROVE P(k) \cap Rest(n, k) = {} /\ P(k) \subseteq WalkOf(n)
  <2>1. \A i \in k + 1 .. Len(Events(n)) : i \in 1 .. Len(Events(n)) /\ i # k
    BY <1>1
  <2> QED BY <1>2, <1>3, <2>1
<1>7. ASSUME NEW k \in 0 .. Len(Events(n)) PROVE Rest(n, k) \subseteq WalkOf(n)
  <2>1. k + 1 .. Len(Events(n)) \subseteq 1 .. Len(Events(n))
    BY <1>1
  <2> QED BY <1>2, <1>3, <2>1
<1> QED BY <1>4, <1>5, <1>6, <1>7 DEF P

\* What a worker has left after a step.
LEMMA LeftOfNext ==
  ASSUME trace' = trace, NEW v, NEW m, NEW k, node'[v] = m, pos'[v] = k
  PROVE  LeftOf(v)' = Range(todo'[v]) \cup Rest(m, k)
<1>1. ASSUME NEW i PROVE Range(ProposalsOf(Events(node[v])[i]))' = Range(ProposalsOf(Events(m)[i]))
  <2>1. Events(node[v])[i]' = Events(m)[i]
    BY DEF Events, Groups
  <2>2. ProposalsOf(Events(node[v])[i])' = ProposalsOf(Events(m)[i])
    BY <2>1, ProposalsFixed
  <2> QED BY <2>2
<1>2. Len(Events(node[v]))' = Len(Events(m))
  BY DEF Events, Groups
<1> QED BY <1>1, <1>2 DEF LeftOf, Rest

\* A worker's own walk: nobody else walks its node.
LEMMA LeftAlone ==
  ASSUME IInv, WalksInv, NEW w \in Workers, Active(w)
  PROVE  /\ Left(node[w]) = LeftOf(w) /\ LeftOf(w) \subseteq WalkOf(node[w])
         /\ node[w] \in Nodes /\ todo[w] \in Seq(Proposals)
         /\ pos[w] \in 0 .. Len(Events(node[w])) /\ Len(Events(node[w])) \in Nat
<1>1. /\ node[w] \in Nodes /\ todo[w] \in Seq(Proposals) /\ trace \in Traces
      /\ pos[w] \in Nat /\ taken \in Nat /\ node[w] \in Nat
  BY GroupFacts DEF IInv, TypeOK, MainTyped, PoolTyped, WorkersOK, WorkerOK, Active
<1>2. WalkInv(w) /\ Busy(node[w]) = {w}
  BY DEF WalksInv, Busy
<1>3. Left(node[w]) = LeftOf(w)
  <2>1. ~(node[w] > taken)
    BY <1>1, <1>2 DEF WalkInv
  <2> QED BY <1>2, <2>1, LeftIs
<1>4. Len(Events(node[w])) \in Nat
  BY <1>1, WalkFacts
<1>5. pos[w] \in 0 .. Len(Events(node[w]))
  BY <1>1, <1>2, <1>4 DEF WalkInv
<1>6. LeftOf(w) \subseteq WalkOf(node[w])
  <2>1. Rest(node[w], pos[w]) \subseteq WalkOf(node[w])
    BY <1>1, <1>5, RestFacts
  <2>2. Range(todo[w]) \subseteq WalkOf(node[w])
    <3>1. CASE todo[w] = <<>>
      BY <3>1 DEF Range
    <3>2. CASE todo[w] # <<>>
      BY <1>1, <1>2, <1>4, <1>5, <3>2, RestFacts DEF WalkInv
    <3> QED BY <3>1, <3>2
  <2> QED BY <2>1, <2>2, LeftIs
<1> QED BY <1>1, <1>3, <1>4, <1>5, <1>6

\* What is left for a node that no step of a worker concerns stays.
LEMMA LeftStays ==
  ASSUME trace' = trace, NEW n, (n > taken) <=> (n > taken)', Busy(n)' = Busy(n),
         \A v \in Busy(n) : todo'[v] = todo[v] /\ node'[v] = node[v] /\ pos'[v] = pos[v]
  PROVE  Left(n)' = Left(n)
<1>1. ASSUME NEW v \in Busy(n) PROVE LeftOf(v)' = LeftOf(v)
  <2>1. ASSUME NEW i PROVE Range(ProposalsOf(Events(node[v])[i]))' = Range(ProposalsOf(Events(node[v])[i]))
    <3>1. Events(node[v])[i]' = Events(node[v])[i]
      BY <1>1, ProposalsFixed DEF Events, Groups
    <3> QED BY <1>1, <3>1, ProposalsFixed
  <2>2. Len(Events(node[v]))' = Len(Events(node[v]))
    BY <1>1 DEF Events, Groups
  <2> QED BY <1>1, <2>1, <2>2 DEF LeftOf
<1>2. WalkOf(n)' = WalkOf(n)
  BY ProposalsFixed
<1>3. Left(n)' = IF (n > taken)' THEN WalkOf(n)' ELSE UNION {LeftOf(v)' : v \in Busy(n)'}
  BY DEF Left, Busy
<1>4. {LeftOf(v)' : v \in Busy(n)'} = {LeftOf(v) : v \in Busy(n)}
  BY <1>1
<1> QED BY <1>2, <1>3, <1>4, LeftIs

-----------------------------------------------------------------------------
(* The steps of the walks.                                                 *)

Proposing == {"scan", "insert", "link_new", "link_old"}

\* The walk of a worker that a step leaves alone.
LEMMA WalkStays ==
  ASSUME trace' = trace, NEW v, WalkInv(v), taken <= taken', taken \in Nat, taken' \in Nat,
         node[v] \in Nat,
         node'[v] = node[v], pos'[v] = pos[v], todo'[v] = todo[v],
         pc'[v] \in Proposing => InTime(Head(todo[v]))
  PROVE  WalkInv(v)'
<1>1. /\ node'[v] <= taken' /\ IsInjective(todo'[v])
      /\ pc'[v] \in {"scan", "insert", "link_new", "link_old"} => InTime(Head(todo[v]))'
  <2>1. InTime(Head(todo[v])) <=> InTime(Head(todo[v]))'
    <3>1. Head(todo[v])' = Head(todo[v])
      OBVIOUS
    <3> QED BY <3>1 DEF InTime, Ev
  <2> QED BY <2>1 DEF WalkInv, Proposing
<1>2. Len(Events(node[v]))' = Len(Events(node[v])) /\ pos'[v] <= Len(Events(node[v]))
  BY DEF Events, Groups, WalkInv
<1>3. todo'[v] # <<>> =>
        pos'[v] > 0 /\ Range(todo'[v]) \subseteq Range(ProposalsOf(Events(node[v])[pos[v]]))'
  <2>1. Events(node[v])[pos[v]]' = Events(node[v])[pos[v]]
    BY DEF Events, Groups
  <2>2. ProposalsOf(Events(node[v])[pos[v]])' = ProposalsOf(Events(node[v])[pos[v]])
    <3> DEFINE e == Events(node[v])[pos[v]]
    <3>1. trace' = trace /\ e' = e
      BY <2>1
    <3> QED BY <3>1, ProposalsFixed
  <2> QED BY <2>2 DEF WalkInv
<1> QED BY <1>1, <1>2, <1>3 DEF WalkInv

\* A step that leaves the places of all workers alone.
LEMMA QuietWalks ==
  ASSUME IInv, WalksInv, trace' = trace, taken' = taken,
         node' = node, pos' = pos, todo' = todo,
         \A v \in Workers : Active(v)' <=> Active(v),
         \A v \in Workers : pc'[v] \in Proposing => InTime(Head(todo[v]))
  PROVE  WalksInv' /\ \A n \in Nodes : Left(n)' = Left(n)
<1>1. taken \in Nat
  BY GroupFacts DEF IInv, TypeOK, MainTyped
<1>2. ASSUME NEW v \in Workers, Active(v)' PROVE WalkInv(v)'
  <2>1. WalkInv(v) /\ node[v] \in Nat
    BY <1>2, LeftAlone, GroupFacts DEF WalksInv, IInv, TypeOK, MainTyped
  <2>2. trace' = trace /\ node'[v] = node[v] /\ pos'[v] = pos[v] /\ todo'[v] = todo[v]
    OBVIOUS
  <2>3. pc'[v] \in Proposing => InTime(Head(todo[v]))
    OBVIOUS
  <2>4. taken <= taken' /\ taken' \in Nat
    BY <1>1
  <2> QED BY <1>1, <2>1, <2>2, <2>3, <2>4, WalkStays
<1>3. \A v, w \in Workers : Active(v)' /\ Active(w)' /\ node'[v] = node'[w] => v = w
  BY DEF WalksInv
<1>4. ASSUME NEW n \in Nodes PROVE Left(n)' = Left(n)
  <2>1. Busy(n)' = Busy(n)
    BY DEF Busy
  <2>2. (n > taken) <=> (n > taken)'
    OBVIOUS
  <2>3. \A v \in Busy(n) : todo'[v] = todo[v] /\ node'[v] = node[v] /\ pos'[v] = pos[v]
    OBVIOUS
  <2> QED BY <2>1, <2>2, <2>3, LeftStays
<1>5. WalksInv'
  BY <1>2, <1>3 DEF WalksInv
<1> QED BY <1>4, <1>5

\* A task that is taken has its whole walk before it.
LEMMA TakeWalks ==
  ASSUME IInv, IInv', WalksInv, NEW w \in Workers, Take(w)
  PROVE  WalksInv' /\ \A n \in Nodes : Left(n)' = Left(n)
<1>1. /\ trace' = trace /\ trace \in Traces /\ taken' = taken + 1 /\ taken \in Nat
      /\ pc[w] = "idle" /\ todo' = todo /\ todo[w] = <<>>
      /\ pc' = [pc EXCEPT ![w] = "task"] /\ node' = [node EXCEPT ![w] = taken + 1]
      /\ pos' = [pos EXCEPT ![w] = 0]
  BY GroupFacts DEF Take, IInv, TypeOK, MainTyped, WorkersOK, WorkerOK
<1>2. /\ pc \in [Workers -> {"idle", "task", "scan", "insert", "link_new", "link_old",
                             "load", "store"}]
      /\ node \in [Workers -> Nodes \cup {NoNode}] /\ pos \in [Workers -> Nat]
  BY DEF IInv, TypeOK, PoolTyped
<1>3. pc'[w] = "task" /\ node'[w] = taken + 1 /\ pos'[w] = 0 /\ Active(w)' /\ ~Active(w)
  BY <1>1, <1>2 DEF Active
<1>4. \A v \in Workers \ {w} : /\ pc'[v] = pc[v] /\ node'[v] = node[v] /\ pos'[v] = pos[v]
                               /\ (Active(v)' <=> Active(v))
  BY <1>1, <1>2 DEF Active
<1>5. taken + 1 \in Nodes
  <2>1. Len(Groups) \in Nat
    BY <1>1, GroupFacts
  <2> QED BY <1>1, <2>1 DEF Take, IInv, TypeOK, MainTyped, Nodes
<1>6. ASSUME NEW v \in Workers \ {w}, Active(v) PROVE WalkInv(v)' /\ node[v] \in Nat /\ node[v] <= taken
  <2>1. WalkInv(v) /\ node[v] \in Nat
    BY <1>1, <1>6, LeftAlone, GroupFacts DEF WalksInv
  <2>2. pc'[v] \in Proposing => InTime(Head(todo[v]))
    BY <1>4, <2>1 DEF WalkInv, Proposing
  <2>3. node'[v] = node[v] /\ pos'[v] = pos[v] /\ todo'[v] = todo[v]
    BY <1>1, <1>4
  <2>4. taken <= taken' /\ taken' \in Nat
    BY <1>1
  <2>5. WalkInv(v)'
    BY <1>1, <2>1, <2>2, <2>3, <2>4, WalkStays
  <2> QED BY <2>1, <2>5 DEF WalkInv
<1>7. WalkInv(w)'
  <2>1. Len(Events(taken + 1)) \in Nat
    BY <1>1, <1>5, WalkFacts
  <2>2. Len(Events(node[w]))' = Len(Events(taken + 1))
    BY <1>1, <1>3 DEF Events, Groups
  <2>3. IsInjective(todo'[w])
    BY <1>1 DEF IsInjective
  <2> QED BY <1>1, <1>3, <2>1, <2>2, <2>3 DEF WalkInv
<1>8. WalksInv'
  <2>1. ASSUME NEW v \in Workers, NEW u \in Workers, Active(v)', Active(u)', node'[v] = node'[u]
        PROVE  v = u
    <3>1. CASE v # w /\ u # w
      BY <1>4, <2>1, <3>1 DEF WalksInv
    <3>2. CASE v = w \/ u = w
      BY <1>1, <1>3, <1>4, <1>6, <2>1, <3>2
    <3> QED BY <3>1, <3>2
  <2> QED BY <1>4, <1>6, <1>7, <2>1 DEF WalksInv
<1>9. ASSUME NEW n \in Nodes PROVE Left(n)' = Left(n)
  <2>1. n \in Nat
    BY <1>1, GroupFacts
  <2>2. CASE n = taken + 1
    <3>1. Left(n) = WalkOf(n)
      BY <1>1, <2>2, LeftIs
    <3>2. Left(n)' = UNION {LeftOf(v)' : v \in Busy(n)'}
      <4>1. ~(n > taken)'
        BY <1>1, <2>2
      <4> QED BY <4>1 DEF Left, Busy
    <3>3. Busy(n)' = {w}
      <4>1. \A v \in Workers : Active(v)' /\ node'[v] = n => v = w
        BY <1>1, <1>4, <1>6, <2>1, <2>2
      <4>2. Active(w)' /\ node'[w] = n
        BY <1>3, <2>2
      <4>3. \A v : v \in Busy(n)' <=> v \in Workers /\ Active(v)' /\ node'[v] = n
        BY DEF Busy
      <4> QED BY <4>1, <4>2, <4>3
    <3>4. LeftOf(w)' = Range(todo'[w]) \cup Rest(n, 0)
      BY <1>1, <1>3, <2>2, LeftOfNext
    <3>5. Range(todo'[w]) = {}
      BY <1>1 DEF Range
    <3>6. Rest(n, 0) = WalkOf(n)
      BY <1>1, RestFacts
    <3>7. LeftOf(w)' = WalkOf(n)
      BY <3>4, <3>5, <3>6
    <3>8. {LeftOf(v)' : v \in Busy(n)'} = {WalkOf(n)}
      BY <3>3, <3>7
    <3> QED BY <3>1, <3>2, <3>8
  <2>3. CASE n # taken + 1
    <3>1. (n > taken) <=> (n > taken)'
      BY <1>1, <2>1, <2>3
    <3>2. Busy(n)' = Busy(n)
      BY <1>3, <1>4, <2>3 DEF Busy
    <3>3. \A v \in Busy(n) : todo'[v] = todo[v] /\ node'[v] = node[v] /\ pos'[v] = pos[v]
      BY <1>1, <1>3, <1>4 DEF Busy
    <3> QED BY <1>1, <3>1, <3>2, <3>3, LeftStays
  <2> QED BY <2>2, <2>3
<1> QED BY <1>8, <1>9

\* A step of a worker in its walk concerns its own node only.
LEMMA OneWalk ==
  ASSUME IInv, WalksInv, NEW w \in Workers, Active(w), trace' = trace, taken' = taken,
         \A v \in Workers \ {w} : /\ pc'[v] = pc[v] /\ node'[v] = node[v]
                                  /\ pos'[v] = pos[v] /\ todo'[v] = todo[v],
         node'[w] = node[w], Active(w)', WalkInv(w)'
  PROVE  /\ WalksInv'
         /\ \A n \in Nodes : Left(n)' = IF n = node[w] THEN LeftOf(w)' ELSE Left(n)
<1>1. \A v \in Workers : (Active(v)' <=> Active(v)) /\ node'[v] = node[v]
  BY DEF Active
<1>2. trace \in Traces /\ taken \in Nat /\ node[w] <= taken /\ node[w] \in Nodes /\ node[w] \in Nat
  <2>1. trace \in Traces /\ taken \in Nat
    BY GroupFacts DEF IInv, TypeOK, MainTyped
  <2>2. node[w] <= taken
    BY DEF WalksInv, WalkInv
  <2>3. node[w] \in Nodes
    BY LeftAlone
  <2> QED BY <2>1, <2>2, <2>3, GroupFacts
<1>3. \A v, u \in Workers : Active(v)' /\ Active(u)' /\ node'[v] = node'[u] => v = u
  BY <1>1 DEF WalksInv
<1>4. ASSUME NEW v \in Workers \ {w}, Active(v)' PROVE WalkInv(v)'
  <2>1. WalkInv(v) /\ node[v] \in Nat
    BY <1>1, <1>2, <1>4, LeftAlone, GroupFacts DEF WalksInv
  <2>2. pc'[v] \in Proposing => InTime(Head(todo[v]))
    BY <2>1 DEF WalkInv, Proposing
  <2>3. node'[v] = node[v] /\ pos'[v] = pos[v] /\ todo'[v] = todo[v]
    OBVIOUS
  <2>4. taken <= taken' /\ taken' \in Nat
    BY <1>2
  <2> QED BY <1>2, <2>1, <2>2, <2>3, <2>4, WalkStays
<1>5. WalksInv'
  BY <1>3, <1>4 DEF WalksInv
<1>6. ASSUME NEW n \in Nodes PROVE Left(n)' = IF n = node[w] THEN LeftOf(w)' ELSE Left(n)
  <2>1. Busy(n)' = Busy(n)
    BY <1>1 DEF Busy
  <2>2. CASE n = node[w]
    <3>1. Busy(n) = {w}
      BY <2>2 DEF Busy, WalksInv
    <3>2. ~(n > taken)'
      BY <1>2, <2>2
    <3>3. Left(n)' = UNION {LeftOf(v)' : v \in Busy(n)'}
      BY <3>2 DEF Left, Busy
    <3>4. {LeftOf(v)' : v \in Busy(n)'} = {LeftOf(w)'}
      BY <2>1, <3>1
    <3> QED BY <2>2, <3>3, <3>4
  <2>3. CASE n # node[w]
    <3>1. (n > taken) <=> (n > taken)'
      OBVIOUS
    <3>2. \A v \in Busy(n) : todo'[v] = todo[v] /\ node'[v] = node[v] /\ pos'[v] = pos[v]
      BY <2>3 DEF Busy
    <3> QED BY <2>1, <2>3, <3>1, <3>2, LeftStays
  <2> QED BY <2>2, <2>3
<1> QED BY <1>5, <1>6

\* Looking at the next event, or ending the walk, leaves as much to propose.
LEMMA NextEventWalks ==
  ASSUME IInv, WalksInv, NEW w \in Workers, NextEvent(w)
  PROVE  WalksInv' /\ \A n \in Nodes : Left(n)' = Left(n)
<1> DEFINE m == node[w]
           k == pos[w]
           e == Events(m)[k + 1]
<1>1. /\ trace' = trace /\ trace \in Traces /\ taken' = taken /\ taken \in Nat
      /\ pc[w] = "task" /\ Active(w) /\ todo[w] = <<>>
  BY GroupFacts DEF NextEvent, IInv, TypeOK, MainTyped, Active
<1>2. /\ pc \in [Workers -> {"idle", "task", "scan", "insert", "link_new", "link_old",
                             "load", "store"}]
      /\ node \in [Workers -> Nodes \cup {NoNode}] /\ pos \in [Workers -> Nat]
      /\ todo \in [Workers -> Seq(Proposals)]
  BY DEF IInv, TypeOK, PoolTyped
<1>3. /\ m \in Nodes /\ k \in 0 .. Len(Events(m)) /\ Len(Events(m)) \in Nat
      /\ WalkInv(w) /\ m \in Nat /\ m <= taken
      /\ Left(m) = LeftOf(w) /\ Busy(m) = {w}
  BY <1>1, LeftAlone, GroupFacts DEF WalksInv, WalkInv, Busy
<1>4. LeftOf(w) = Rest(m, k)
  <2>1. Range(todo[w]) = {}
    BY <1>1 DEF Range
  <2> QED BY <2>1, LeftIs
<1>5. CASE k < Len(Events(m))
  <2>1. /\ pos' = [pos EXCEPT ![w] = k + 1] /\ todo' = [todo EXCEPT ![w] = ProposalsOf(e)]
        /\ pc' = pc /\ node' = node
    BY <1>5 DEF NextEvent
  <2> HIDE DEF m, k, e
  <2>2. /\ pos'[w] = k + 1 /\ todo'[w] = ProposalsOf(e) /\ node'[w] = m /\ pc'[w] = "task"
        /\ Active(w)'
    BY <1>1, <1>2, <2>1 DEF m, Active
  <2>3. \A v \in Workers \ {w} : /\ pc'[v] = pc[v] /\ node'[v] = node[v]
                                 /\ pos'[v] = pos[v] /\ todo'[v] = todo[v]
    BY <1>2, <2>1
  <2>4. e \in EventIds
    <3>1. k + 1 \in DOMAIN Events(m)
      BY <1>1, <1>3, <1>5, WalkFacts
    <3>2. Events(m) \in Seq(EventIds)
      BY <1>1, <1>3, GroupFacts
    <3> QED BY <3>1, <3>2 DEF e
  <2>5. WalkInv(w)'
    <3>1. Events(node[w])' = Events(m)
      BY <1>1, <2>2 DEF Events, Groups
    <3>2. ProposalsOf(Events(node[w])[pos[w]])' = ProposalsOf(e)
      <4>1. Events(node[w])[pos[w]]' = e
        BY <2>2, <3>1 DEF e
      <4> QED BY <1>1, <4>1, ProposalsFixed
    <3>3. IsInjective(todo'[w])
      BY <1>1, <2>2, <2>4, ProposalsAreOwn DEF Own
    <3>4. Range(todo'[w]) = Range(ProposalsOf(e))
      BY <2>2
    <3>5. k + 1 <= Len(Events(m)) /\ k + 1 > 0
      BY <1>3, <1>5
    <3> QED BY <1>1, <1>3, <2>2, <3>1, <3>2, <3>3, <3>4, <3>5 DEF WalkInv
  <2>6. WalksInv' /\ \A n \in Nodes : Left(n)' = IF n = m THEN LeftOf(w)' ELSE Left(n)
    <3>1. node'[w] = node[w]
      BY <2>2 DEF m
    <3> QED BY <1>1, <2>2, <2>3, <2>5, <3>1, OneWalk DEF m
  <2>7. LeftOf(w)' = LeftOf(w)
    <3>1. LeftOf(w)' = Range(ProposalsOf(e)) \cup Rest(m, k + 1)
      BY <1>1, <2>2, LeftOfNext
    <3>2. Rest(m, k) = Range(ProposalsOf(e)) \cup Rest(m, k + 1)
      <4>1. k \in 0 .. Len(Events(m)) - 1
        BY <1>3, <1>5
      <4> QED BY <1>1, <1>3, <4>1, RestFacts DEF e
    <3> QED BY <1>4, <3>1, <3>2
  <2> QED BY <1>3, <2>6, <2>7
<1>6. CASE ~(k < Len(Events(m)))
  <2>1. /\ pc' = [pc EXCEPT ![w] = "idle"] /\ node' = [node EXCEPT ![w] = NoNode]
        /\ pos' = pos /\ todo' = todo
    BY <1>6 DEF NextEvent
  <2> HIDE DEF m, k, e
  <2>2. ~Active(w)'
    BY <1>2, <2>1 DEF Active
  <2>3. \A v \in Workers \ {w} : pc'[v] = pc[v] /\ node'[v] = node[v] /\ (Active(v)' <=> Active(v))
    BY <1>2, <2>1 DEF Active
  <2>4. ASSUME NEW v \in Workers, Active(v)' PROVE WalkInv(v)'
    <3>1. v # w /\ WalkInv(v) /\ node[v] \in Nat
      BY <1>1, <2>2, <2>3, <2>4, LeftAlone, GroupFacts DEF WalksInv
    <3>2. pc'[v] \in Proposing => InTime(Head(todo[v]))
      BY <2>3, <3>1 DEF WalkInv, Proposing
    <3>3. node'[v] = node[v] /\ pos'[v] = pos[v] /\ todo'[v] = todo[v]
      BY <2>1, <2>3, <3>1
    <3>4. taken <= taken' /\ taken' \in Nat
      BY <1>1
    <3> QED BY <1>1, <3>1, <3>2, <3>3, <3>4, WalkStays
  <2>5. WalksInv'
    BY <2>2, <2>3, <2>4 DEF WalksInv
  <2>6. ASSUME NEW n \in Nodes PROVE Left(n)' = Left(n)
    <3>1. CASE n = m
      <4>1. k = Len(Events(m))
        BY <1>3, <1>6
      <4>2. Left(n) = {}
        BY <1>1, <1>3, <1>4, <3>1, <4>1, RestFacts
      <4>3. \A v \in Workers : ~(Active(v)' /\ node'[v] = m)
        BY <1>3, <2>2, <2>3 DEF Busy
      <4>4. Busy(n)' = {}
        BY <3>1, <4>3 DEF Busy
      <4>5. ~(n > taken)'
        BY <1>1, <1>3, <3>1
      <4>6. Left(n)' = UNION {LeftOf(v)' : v \in Busy(n)'}
        BY <4>5 DEF Left, Busy
      <4> QED BY <4>2, <4>4, <4>6
    <3>2. CASE n # m
      <4>1. Busy(n)' = Busy(n)
        <5>1. \A v \in Workers : (Active(v)' /\ node'[v] = n) <=> (Active(v) /\ node[v] = n)
          BY <2>2, <2>3, <3>2 DEF m
        <5> QED BY <5>1 DEF Busy
      <4>2. \A v \in Busy(n) : todo'[v] = todo[v] /\ node'[v] = node[v] /\ pos'[v] = pos[v]
        BY <2>1, <2>3, <3>2 DEF Busy, m
      <4>3. (n > taken) <=> (n > taken)'
        BY <1>1
      <4> QED BY <1>1, <4>1, <4>2, <4>3, LeftStays
    <3> QED BY <3>1, <3>2
  <2> QED BY <2>5, <2>6
<1> QED BY <1>5, <1>6

\* A proposal that is done with is not left any more; it was, and once only.
LEMMA ProposedWalks ==
  ASSUME IInv, WalksInv, NEW w \in Workers, Active(w), todo[w] # <<>>, Proposed(w),
         trace' = trace, taken' = taken, node' = node, pos' = pos
  PROVE  /\ WalksInv'
         /\ Head(todo[w]) \in Left(node[w]) /\ Left(node[w]) \subseteq WalkOf(node[w])
         /\ \A n \in Nodes :
              Left(n)' = IF n = node[w] THEN Left(n) \ {Head(todo[w])} ELSE Left(n)
<1> DEFINE m == node[w]
           k == pos[w]
           p == Head(todo[w])
           e == Events(m)[k]
<1>1. /\ m \in Nodes /\ trace \in Traces /\ todo[w] \in Seq(Proposals)
      /\ k \in 0 .. Len(Events(m)) /\ Len(Events(m)) \in Nat
      /\ Left(m) = LeftOf(w) /\ LeftOf(w) \subseteq WalkOf(m)
  BY LeftAlone DEF IInv, TypeOK, MainTyped
<1>2. WalkInv(w)
  BY DEF WalksInv
<1>3. /\ k \in 1 .. Len(Events(m)) /\ IsInjective(todo[w])
      /\ Range(todo[w]) \subseteq Range(ProposalsOf(e))
  BY <1>1, <1>2 DEF WalkInv
<1>4. /\ todo'[w] = Tail(todo[w]) /\ pc'[w] \in {"load", "task"}
      /\ \A v \in Workers \ {w} : todo'[v] = todo[v] /\ pc'[v] = pc[v]
  BY DEF Proposed, IInv, TypeOK, PoolTyped
<1>5. IsInjective(todo'[w]) /\ Range(todo'[w]) = Range(todo[w]) \ {p} /\ p \in Range(todo[w])
  BY <1>1, <1>3, <1>4, TailFacts
<1>6. Active(w)' /\ pc'[w] \notin {"scan", "insert", "link_new", "link_old"}
  BY <1>4 DEF Active
<1> HIDE DEF p
<1>7. WalkInv(w)'
  <2>1. Len(Events(node[w]))' = Len(Events(m))
    BY DEF Events, Groups
  <2>2. ProposalsOf(Events(node[w])[pos[w]])' = ProposalsOf(e)
    <3>1. Events(node[w])[pos[w]]' = e
      BY DEF Events, Groups
    <3> QED BY <3>1, ProposalsFixed
  <2>3. Range(todo'[w]) \subseteq Range(ProposalsOf(e))
    BY <1>3, <1>5
  <2>4. node'[w] <= taken' /\ pos'[w] = k /\ k > 0 /\ k <= Len(Events(m))
    BY <1>1, <1>2, <1>3 DEF WalkInv
  <2> QED BY <1>5, <1>6, <2>1, <2>2, <2>3, <2>4 DEF WalkInv
<1>8. WalksInv' /\ \A n \in Nodes : Left(n)' = IF n = m THEN LeftOf(w)' ELSE Left(n)
  <2>1. node'[w] = node[w]
    OBVIOUS
  <2>2. \A v \in Workers \ {w} : /\ pc'[v] = pc[v] /\ node'[v] = node[v]
                                 /\ pos'[v] = pos[v] /\ todo'[v] = todo[v]
    BY <1>4
  <2> QED BY <1>6, <1>7, <2>1, <2>2, OneWalk
<1>9. LeftOf(w)' = LeftOf(w) \ {p}
  <2>1. LeftOf(w)' = (Range(todo[w]) \ {p}) \cup Rest(m, k)
    BY <1>5, LeftOfNext
  <2>2. LeftOf(w) = Range(todo[w]) \cup Rest(m, k)
    BY LeftIs
  <2>3. Range(ProposalsOf(e)) \cap Rest(m, k) = {}
    BY <1>1, <1>3, RestFacts
  <2>4. p \notin Rest(m, k)
    BY <1>3, <1>5, <2>3
  <2> QED BY <2>1, <2>2, <2>4
<1>10. p \in LeftOf(w)
  BY <1>5, LeftIs
<1> QED BY <1>1, <1>8, <1>9, <1>10 DEF p

-----------------------------------------------------------------------------
(* What is made, and what is filed.                                        *)

\* A connection proposed in time is wanted.
LEMMA WantedFacts ==
  ASSUME trace \in Traces, NEW n \in Nodes, NEW p \in WalkOf(n) \cup Range(WeakEdgeOf(n)),
         InTime(p)
  PROVE  p \in Proposals /\ p.side \in Sides /\ Key(p) \in Wanted
<1>1. p \in Proposals
  BY WalkFacts DEF ProposalsFor
<1>2. p.side \in Sides
  BY <1>1 DEF Proposals, Sides
<1>3. p \in ProposalsOfNode(n)
  BY DEF ProposalsOfNode
<1> HIDE DEF Sides
<1>4. Key(p) \in SideKeys(n, Sides)
  BY <1>2, <1>3 DEF SideKeys
<1> QED BY <1>1, <1>2, <1>4 DEF Wanted

\* What is made for a node is typed, and named by its side and the edge it asks for.
LEMMA MadeFacts ==
  ASSUME trace \in Traces, NEW n \in Nodes
  PROVE  /\ Made(n) \subseteq Proposals
         /\ \A p, q \in Proposals : Key(p) = Key(q) /\ p.side = q.side => p = q
<1>1. Made(n) \subseteq Proposals
  BY WalkFacts DEF Made, WeakMade, ProposalsFor
<1>2. \A p, q \in Proposals : Key(p) = Key(q) /\ p.side = q.side => p = q
  BY DEF Key, Proposals
<1> QED BY <1>1, <1>2

\* A step that makes no proposal of a node.
LEMMA MadeStays ==
  ASSUME trace' = trace, NEW n, Left(n)' = Left(n), (n < weakNext)' <=> n < weakNext
  PROVE  Made(n)' = Made(n) /\ \A side : MadeKeys(n, side)' = MadeKeys(n, side)
<1>1. WeakMade(n)' = WeakMade(n)
  BY ProposalsFixed DEF WeakMade
<1>2. Made(n)' = Made(n)
  BY <1>1, ProposalsFixed DEF Made
<1>3. \A side : MadeKeys(n, side)' = MadeKeys(n, side)
  BY <1>2 DEF MadeKeys, Key
<1> QED BY <1>2, <1>3

\* A step that makes one.
LEMMA MadeGrows ==
  ASSUME trace' = trace, NEW n, NEW p, Made(n)' = Made(n) \cup {p}
  PROVE  \A side : MadeKeys(n, side)' =
                     IF side = p.side THEN MadeKeys(n, side) \cup {Key(p)} ELSE MadeKeys(n, side)
BY DEF MadeKeys, Key

\* The pointers in the maps are to edges.
LEMMA FilesTyped ==
  ASSUME TableTyped, NEW n \in Nodes, NEW side \in Sides, NEW item \in FiledUnder(n)[side]
  PROVE  item[2] \in DOMAIN edges
<1>1. /\ FiledUnder(n)["out"] = outMap[n] /\ FiledUnder(n)["in"] = inMap[n]
      /\ FiledUnder(n)["weak_out"] = weakOut[n] /\ FiledUnder(n)["weak_in"] = weakIn[n]
  BY DEF FiledUnder
<1>2. \A m \in MapType : m[n] \subseteq EventIds \X DOMAIN edges
  BY DEF MapType
<1>3. FiledUnder(n)[side] \subseteq EventIds \X DOMAIN edges
  BY <1>1, <1>2 DEF Sides, TableTyped
<1> QED BY <1>3

\* The maps of a node that a step leaves alone.
LEMMA FilesStay ==
  ASSUME TableTyped, Stable, NEW n \in Nodes, n # NoNode, FiledInv(n),
         outMap'[n] = outMap[n], inMap'[n] = inMap[n],
         weakOut'[n] = weakOut[n], weakIn'[n] = weakIn[n], degree'[n] = degree[n],
         \A side \in Sides : MadeKeys(n, side)' = MadeKeys(n, side)
  PROVE  FiledInv(n)'
<1>1. FiledUnder(n)' = FiledUnder(n)
  BY DEF FiledUnder
<1>2. ASSUME NEW side \in Sides PROVE FiledKeys(n, side)' = FiledKeys(n, side)
  <2>1. \A item \in FiledUnder(n)[side] : Key(edges'[item[2]]) = Key(edges[item[2]])
    BY FilesTyped DEF Stable
  <2>2. FiledKeys(n, side)' = {Key(edges'[item[2]]) : item \in FiledUnder(n)[side]}
    BY <1>1 DEF FiledKeys, Key
  <2> QED BY <2>1, <2>2 DEF FiledKeys
<1>3. ASSUME NEW item \in outMap'[n] PROVE edges'[item[2]].fromNode = n
  <2>1. item \in FiledUnder(n)["out"] /\ "out" \in Sides
    BY DEF FiledUnder, Sides
  <2>2. item[2] \in DOMAIN edges /\ edges[item[2]].fromNode = n
    BY <2>1, FilesTyped DEF FiledInv
  <2> QED BY <2>2 DEF Stable
<1> QED BY <1>2, <1>3 DEF FiledInv

\* One item more in the map of one side.
OneFiled(n, p, item) ==
  /\ \A side \in Sides : FiledUnder(n)'[side] = IF side = p.side THEN FiledUnder(n)[side] \cup {item}
                                                ELSE FiledUnder(n)[side]
  /\ degree'[n] = [in  |-> IF p.side = "in"  THEN degree[n].in + 1  ELSE degree[n].in,
                   out |-> IF p.side = "out" THEN degree[n].out + 1 ELSE degree[n].out]
  /\ p.side = "out" => edges'[item[2]].fromNode = n

LEMMA FilesGrow ==
  ASSUME TableTyped, Stable, NEW n \in Nodes, n # NoNode, FiledInv(n), NEW p, NEW item,
         p.side \in Sides, OneFiled(n, p, item),
         item[2] \in DOMAIN edges', Key(edges'[item[2]]) = Key(p),
         p.side \in {"in", "out"} => item \notin FiledUnder(n)[p.side],
         \A side \in Sides : MadeKeys(n, side)' = IF side = p.side THEN MadeKeys(n, side) \cup {Key(p)}
                                                  ELSE MadeKeys(n, side)
  PROVE  FiledInv(n)'
<1>1. ASSUME NEW side \in Sides
      PROVE  FiledKeys(n, side)' = IF side = p.side THEN FiledKeys(n, side) \cup {Key(p)}
                                   ELSE FiledKeys(n, side)
  <2>1. \A it \in FiledUnder(n)[side] : Key(edges'[it[2]]) = Key(edges[it[2]])
    BY FilesTyped DEF Stable
  <2>2. FiledKeys(n, side)' = {Key(edges'[it[2]]) : it \in FiledUnder(n)'[side]}
    BY DEF FiledKeys, Key
  <2> HIDE DEF Sides
  <2>3. FiledUnder(n)'[side] = IF side = p.side THEN FiledUnder(n)[side] \cup {item}
                               ELSE FiledUnder(n)[side]
    BY DEF OneFiled
  <2> QED BY <2>1, <2>2, <2>3 DEF FiledKeys
<1>2. /\ outMap'[n] = IF p.side = "out" THEN outMap[n] \cup {item} ELSE outMap[n]
      /\ inMap'[n] = IF p.side = "in" THEN inMap[n] \cup {item} ELSE inMap[n]
      /\ p.side = "out" => item \notin outMap[n]
      /\ p.side = "in" => item \notin inMap[n]
  <2>1. "out" \in Sides /\ "in" \in Sides
    BY DEF Sides
  <2>2. /\ FiledUnder(n)["out"] = outMap[n] /\ FiledUnder(n)'["out"] = outMap'[n]
        /\ FiledUnder(n)["in"] = inMap[n] /\ FiledUnder(n)'["in"] = inMap'[n]
    BY DEF FiledUnder
  <2> QED BY <2>1, <2>2 DEF OneFiled
<1>3. /\ IsFiniteSet(inMap[n]) /\ IsFiniteSet(outMap[n])
      /\ degree[n].in = Cardinality(inMap[n]) /\ degree[n].out = Cardinality(outMap[n])
  BY DEF FiledInv
<1>4. IsFiniteSet(inMap'[n]) /\ IsFiniteSet(outMap'[n])
  BY <1>2, <1>3, FS_AddElement
<1>5. Cardinality(outMap'[n]) = IF p.side = "out" THEN degree[n].out + 1 ELSE degree[n].out
  <2>1. item \notin outMap[n] => Cardinality(outMap[n] \cup {item}) = Cardinality(outMap[n]) + 1
    BY <1>3, FS_AddElement
  <2> QED BY <1>2, <1>3, <2>1
<1>6. Cardinality(inMap'[n]) = IF p.side = "in" THEN degree[n].in + 1 ELSE degree[n].in
  <2>1. item \notin inMap[n] => Cardinality(inMap[n] \cup {item}) = Cardinality(inMap[n]) + 1
    BY <1>3, FS_AddElement
  <2> QED BY <1>2, <1>3, <2>1
<1>7. degree'[n] = [in |-> Cardinality(inMap'[n]), out |-> Cardinality(outMap'[n])]
  BY <1>5, <1>6 DEF OneFiled
<1>8. ASSUME NEW it \in outMap'[n] PROVE edges'[it[2]].fromNode = n
  <2>1. CASE it \in outMap[n]
    <3>1. it \in FiledUnder(n)["out"] /\ "out" \in Sides
      BY <2>1 DEF FiledUnder, Sides
    <3>2. it[2] \in DOMAIN edges /\ edges[it[2]].fromNode = n
      BY <2>1, <3>1, FilesTyped DEF FiledInv
    <3> QED BY <3>2 DEF Stable
  <2>2. CASE it = item /\ p.side = "out"
    BY <2>2 DEF OneFiled
  <2> QED BY <1>2, <2>1, <2>2
<1>9. \A side \in Sides : FiledKeys(n, side)' = MadeKeys(n, side)'
  BY <1>1 DEF FiledInv
<1> QED BY <1>4, <1>7, <1>8, <1>9 DEF FiledInv

DegreeType == [Nodes -> [in : Nat, out : Nat]]

\* Filing an edge adds an item to one map of one node.
LEMMA FileEdgeMaps ==
  ASSUME TableTyped, degree \in DegreeType, NEW n \in Nodes, NEW p, p.side \in Sides,
         NEW es \in Seq(Edges), NEW i \in DOMAIN es, NEW b \in BOOLEAN, FileEdge(n, p, i, b, es)
  PROVE  /\ OneFiled(n, p, <<MapKey(p, b), i>>)
         /\ degree' \in DegreeType
         /\ \A m \in Nodes \ {n} :
              /\ outMap'[m] = outMap[m] /\ inMap'[m] = inMap[m]
              /\ weakOut'[m] = weakOut[m] /\ weakIn'[m] = weakIn[m] /\ degree'[m] = degree[m]
<1> DEFINE item == <<MapKey(p, b), i>>
           add(m) == [m EXCEPT ![n] = @ \cup {item}]
           D == [in  |-> IF p.side = "in"  THEN degree[n].in + 1  ELSE degree[n].in,
                 out |-> IF p.side = "out" THEN degree[n].out + 1 ELSE degree[n].out]
<1>1. /\ outMap' = IF p.side = "out" THEN add(outMap) ELSE outMap
      /\ inMap' = IF p.side = "in" THEN add(inMap) ELSE inMap
      /\ weakOut' = IF p.side = "weak_out" THEN add(weakOut) ELSE weakOut
      /\ weakIn' = IF p.side = "weak_in" THEN add(weakIn) ELSE weakIn
  BY Zenon DEF FileEdge
<1>2. degree' = [degree EXCEPT ![n] = D]
  BY DEF FileEdge
<1>3. p.side = "out" => edges'[i].fromNode = n
  <2> SUFFICES ASSUME p.side = "out" PROVE edges'[i].fromNode = n
    OBVIOUS
  <2>1. edges' = [es EXCEPT ![i].fromNode = n]
    BY DEF FileEdge
  <2>2. es[i] \in Edges
    OBVIOUS
  <2>3. edges'[i] = [es[i] EXCEPT !.fromNode = n]
    BY <2>1
  <2> QED BY <2>2, <2>3 DEF Edges
<1> HIDE DEF item
<1>4. outMap \in MapType /\ inMap \in MapType /\ weakOut \in MapType /\ weakIn \in MapType
  BY DEF TableTyped
<1>5. ASSUME NEW m \in MapType
      PROVE  add(m)[n] = m[n] \cup {item} /\ \A k \in Nodes \ {n} : add(m)[k] = m[k]
  BY DEF MapType
<1> HIDE DEF add
<1>6. ASSUME NEW side \in Sides
      PROVE  FiledUnder(n)'[side] = IF side = p.side THEN FiledUnder(n)[side] \cup {item}
                                    ELSE FiledUnder(n)[side]
  <2>1. /\ FiledUnder(n)["out"] = outMap[n] /\ FiledUnder(n)["in"] = inMap[n]
        /\ FiledUnder(n)["weak_out"] = weakOut[n] /\ FiledUnder(n)["weak_in"] = weakIn[n]
        /\ FiledUnder(n)'["out"] = outMap'[n] /\ FiledUnder(n)'["in"] = inMap'[n]
        /\ FiledUnder(n)'["weak_out"] = weakOut'[n] /\ FiledUnder(n)'["weak_in"] = weakIn'[n]
    BY DEF FiledUnder
  <2>2. CASE side = "out"
    BY <1>1, <1>4, <1>5, <2>1, <2>2
  <2>3. CASE side = "in"
    BY <1>1, <1>4, <1>5, <2>1, <2>3
  <2>4. CASE side = "weak_out"
    BY <1>1, <1>4, <1>5, <2>1, <2>4
  <2>5. CASE side = "weak_in"
    BY <1>1, <1>4, <1>5, <2>1, <2>5
  <2> QED BY <2>2, <2>3, <2>4, <2>5 DEF Sides
<1>7. degree'[n] = D /\ D \in [in : Nat, out : Nat]
  BY <1>2 DEF DegreeType
<1>8. degree' \in DegreeType /\ \A m \in Nodes \ {n} : degree'[m] = degree[m]
  BY <1>2, <1>7 DEF DegreeType
<1>9. \A m \in Nodes \ {n} : /\ outMap'[m] = outMap[m] /\ inMap'[m] = inMap[m]
                             /\ weakOut'[m] = weakOut[m] /\ weakIn'[m] = weakIn[m]
  BY <1>1, <1>4, <1>5
<1>10. OneFiled(n, p, item)
  <2>1. item[2] = i
    BY DEF item
  <2> QED BY <1>3, <1>6, <1>7, <2>1 DEF OneFiled
<1> QED BY <1>8, <1>9, <1>10 DEF item

-----------------------------------------------------------------------------
(* The steps.                                                              *)

\* Every step leaves the edges in place.
LEMMA StepStable == IInv /\ IInv' /\ [Next]_vars => Stable
<1> SUFFICES ASSUME IInv, IInv', [Next]_vars PROVE Stable
  OBVIOUS
<1>1. UNCHANGED edges => Stable
  BY DEF Stable
<1> QED BY <1>1, NextStable

\* A step that leaves the maps and what is made for every node alone.
LEMMA QuietMaps ==
  ASSUME IInv, MapsInv, Stable, trace' = trace, UNCHANGED maps,
         \A n \in Nodes : Made(n)' = Made(n)
  PROVE  MapsInv'
<1>1. trace \in Traces /\ TableTyped
  BY DEF IInv, TypeOK, MainTyped
<1>2. ASSUME NEW n \in Nodes PROVE FiledInv(n)'
  <2>1. n # NoNode
    BY <1>1, GroupFacts DEF NoNode
  <2>2. \A side \in Sides : MadeKeys(n, side)' = MadeKeys(n, side)
    BY DEF MadeKeys, Key
  <2>3. /\ outMap'[n] = outMap[n] /\ inMap'[n] = inMap[n]
        /\ weakOut'[n] = weakOut[n] /\ weakIn'[n] = weakIn[n] /\ degree'[n] = degree[n]
    BY DEF maps
  <2> QED BY <1>1, <2>1, <2>2, <2>3, FilesStay DEF MapsInv
<1>3. degree' \in DegreeType' /\ Nodes' = Nodes
  BY TraceFixed DEF MapsInv, maps, DegreeType
<1> QED BY <1>2, <1>3 DEF MapsInv, DegreeType

\* A step that files one proposal under one node.
LEMMA FilingMaps ==
  ASSUME IInv, MapsInv, Stable, trace' = trace, NEW n \in Nodes, NEW p \in Proposals,
         NEW es \in Seq(Edges), NEW i \in DOMAIN es, NEW b \in BOOLEAN, FileEdge(n, p, i, b, es),
         DOMAIN edges' = DOMAIN es, Key(edges'[i]) = Key(p),
         p.side \in {"in", "out"} => p \notin Made(n) /\ i \in DOMAIN edges,
         Made(n)' = Made(n) \cup {p}, \A m \in Nodes \ {n} : Made(m)' = Made(m)
  PROVE  MapsInv'
<1> DEFINE item == <<MapKey(p, b), i>>
<1>1. trace \in Traces /\ TableTyped /\ p.side \in Sides /\ degree \in DegreeType
  BY DEF IInv, TypeOK, MainTyped, Proposals, Sides, MapsInv, DegreeType
<1>2. /\ OneFiled(n, p, item) /\ degree' \in DegreeType
      /\ \A m \in Nodes \ {n} :
           /\ outMap'[m] = outMap[m] /\ inMap'[m] = inMap[m]
           /\ weakOut'[m] = weakOut[m] /\ weakIn'[m] = weakIn[m] /\ degree'[m] = degree[m]
  BY <1>1, FileEdgeMaps
<1>3. item[2] = i
  OBVIOUS
<1> HIDE DEF item
<1>4. \A m \in Nodes : m # NoNode
  BY <1>1, GroupFacts DEF NoNode
<1>5. ASSUME p.side \in {"in", "out"} PROVE item \notin FiledUnder(n)[p.side]
  <2> SUFFICES ASSUME item \in FiledUnder(n)[p.side] PROVE FALSE
    OBVIOUS
  <2>1. Key(edges[i]) = Key(p)
    BY <1>5 DEF Stable
  <2>2. Key(p) \in FiledKeys(n, p.side)
    BY <1>3, <2>1 DEF FiledKeys
  <2>3. Key(p) \in MadeKeys(n, p.side)
    BY <1>1, <2>2 DEF MapsInv, FiledInv
  <2>4. PICK q \in Made(n) : q.side = p.side /\ Key(q) = Key(p)
    BY <2>3 DEF MadeKeys
  <2> QED BY <1>1, <1>5, <2>4, MadeFacts
<1>6. FiledInv(n)'
  <2>1. FiledInv(n)
    BY DEF MapsInv
  <2>2. \A side \in Sides : MadeKeys(n, side)' = IF side = p.side THEN MadeKeys(n, side) \cup {Key(p)}
                                                 ELSE MadeKeys(n, side)
    BY MadeGrows
  <2> QED BY <1>1, <1>2, <1>3, <1>4, <1>5, <2>1, <2>2, FilesGrow
<1>7. ASSUME NEW m \in Nodes \ {n} PROVE FiledInv(m)'
  <2>1. FiledInv(m)
    BY DEF MapsInv
  <2>2. \A side \in Sides : MadeKeys(m, side)' = MadeKeys(m, side)
    BY DEF MadeKeys, Key
  <2> QED BY <1>1, <1>2, <1>4, <2>1, <2>2, FilesStay
<1> QED BY <1>2, <1>6, <1>7, TraceFixed DEF MapsInv, DegreeType

\* A table with the same edges in it.
LEMMA KeysStay ==
  ASSUME Stable, DOMAIN edges' = DOMAIN edges
  PROVE  Keys(edges)' = Keys(edges)
BY DEF Stable, Keys, Key

\* The weak edges come after the pool.
LEMMA PoolFacts ==
  ASSUME IInv, MainInv, NEW w \in Workers, Active(w)
  PROVE  InPool /\ weakNext = 1 /\ \A n \in Nodes : WeakMade(n) = {}
<1>1. InPool /\ weakNext = 1
  BY DEF IInv, PoolJoined, Active, MainInv
<1>2. \A n \in Nodes : ~(n < 1)
  BY GroupFacts DEF IInv, TypeOK, MainTyped
<1> QED BY <1>1, <1>2 DEF WeakMade

\* Linking files a proposal that was left, and not another time.
LEMMA LinkMaps ==
  ASSUME IInv, IInv', FInv, NEW w \in Workers, Link(w)
  PROVE  FInv' /\ Keys(edges)' = Keys(edges) /\ DOMAIN edges' = DOMAIN edges
<1> DEFINE n == node[w]
           p == Head(todo[w])
           i == hit[w]
           b == pc[w] = "link_new"
<1>1. /\ trace' = trace /\ trace \in Traces /\ Active(w) /\ todo[w] # <<>> /\ Proposed(w)
      /\ UNCHANGED <<phase, posted, taken, node, pos, weakNext>>
      /\ pc[w] \in {"link_new", "link_old"}
  BY LinkFiles DEF Link, Active, IInv, TypeOK, MainTyped
<1>2. Stable
  BY StepStable DEF Next, Worker
<1>3. FileEdge(n, p, i, b, edges) /\ b \in BOOLEAN
  BY DEF Link
<1>4. n \in Nodes /\ i \in DOMAIN edges /\ DOMAIN edges' = DOMAIN edges
  BY LinkFiles DEF Filed
<1>5. Key(edges'[i]) = Key(p)
  BY <1>1, <1>2, <1>4 DEF IInv, WorkersOK, WorkerOK, Stable
<1>6. InTime(p) /\ p \in Proposals
  <2>1. InTime(p)
    BY <1>1 DEF FInv, WalksInv, WalkInv
  <2>2. todo[w] \in Seq(Proposals)
    BY DEF IInv, TypeOK, PoolTyped
  <2> QED BY <1>1, <2>1, <2>2, HeadTailProperties
<1>7. /\ WalksInv' /\ p \in Left(n) /\ Left(n) \subseteq WalkOf(n)
      /\ \A m \in Nodes : Left(m)' = IF m = n THEN Left(m) \ {p} ELSE Left(m)
  BY <1>1, ProposedWalks DEF FInv
<1> HIDE DEF n, p, i, b
<1>8. WeakMade(n) = {} /\ WeakMade(n)' = {}
  <2>1. WeakMade(n) = {}
    BY <1>1, <1>4, PoolFacts DEF FInv
  <2>2. WeakMade(n)' = WeakMade(n)
    <3>1. n' = n
      BY <1>1 DEF n
    <3> QED BY <1>1, <3>1, ProposalsFixed DEF WeakMade
  <2> QED BY <2>1, <2>2
<1>9. Made(n)' = Made(n) \cup {p} /\ p \notin Made(n)
  <2>1. n' = n
    BY <1>1 DEF n
  <2>2. WalkOf(n)' = WalkOf(n) /\ \A q : InTime(q)' = InTime(q)
    BY <1>1, <2>1, ProposalsFixed
  <2>3. Left(n)' = Left(n) \ {p}
    BY <1>4, <1>7, <2>1
  <2>4. Made(n) = {q \in WalkOf(n) \ Left(n) : InTime(q)}
    BY <1>8 DEF Made
  <2>5. Made(n)' = {q \in WalkOf(n) \ (Left(n) \ {p}) : InTime(q)}
    BY <1>8, <2>2, <2>3 DEF Made
  <2> QED BY <1>6, <1>7, <2>4, <2>5
<1>10. ASSUME NEW m \in Nodes \ {n} PROVE Made(m)' = Made(m)
  <2>1. Left(m)' = Left(m)
    BY <1>7
  <2> QED BY <1>1, <2>1, MadeStays
<1>11. \A m : m = n => Made(m)' = Made(n) \cup {p}
  BY <1>1, <1>9 DEF n
<1>12. MapsInv'
  <2>1. edges \in Seq(Edges) /\ MapsInv
    BY DEF IInv, TypeOK, TableTyped, FInv
  <2>2. p.side \in {"in", "out"} => p \notin Made(n) /\ i \in DOMAIN edges
    BY <1>4, <1>9
  <2>3. PICK m \in Nodes : m = n
    BY <1>4
  <2>4. FileEdge(m, p, i, b, edges)
    BY <1>3, <2>3
  <2> QED BY <1>1, <1>2, <1>3, <1>4, <1>5, <1>6, <1>10, <1>11, <2>1, <2>2, <2>3, <2>4, FilingMaps
<1>13. Keys(edges)' = Keys(edges)
  BY <1>2, <1>4, KeysStay
<1>14. AreWanted'
  BY <1>1, <1>13, ProposalsFixed DEF FInv, AreWanted
<1>15. MainInv'
  BY <1>1 DEF FInv, MainInv, InPool, Groups
<1> QED BY <1>4, <1>7, <1>12, <1>13, <1>14, <1>15 DEF FInv

\* Where the main thread is, when the pool goes on.
LEMMA MainStays ==
  ASSUME MainInv, UNCHANGED <<trace, phase, posted, weakNext>>
  PROVE  MainInv'
BY DEF MainInv, InPool, Groups

\* Refusing a proposal makes none, since it goes back in time.
LEMMA RefuseMaps ==
  ASSUME IInv, IInv', FInv, NEW w \in Workers, Refuse(w)
  PROVE  FInv'
<1> DEFINE p == Head(todo[w])
<1>1. /\ trace' = trace /\ trace \in Traces /\ Active(w) /\ todo[w] # <<>> /\ Proposed(w)
      /\ UNCHANGED <<phase, posted, taken, node, pos, weakNext, edges, maps>> /\ ~InTime(p)
  BY DEF Refuse, Active, IInv, TypeOK, MainTyped
<1>2. Stable
  BY StepStable DEF Next, Worker
<1>3. /\ WalksInv' /\ p \in Left(node[w]) /\ Left(node[w]) \subseteq WalkOf(node[w])
      /\ \A m \in Nodes : Left(m)' = IF m = node[w] THEN Left(m) \ {p} ELSE Left(m)
  BY <1>1, ProposedWalks DEF FInv
<1> HIDE DEF p
<1>4. ASSUME NEW m \in Nodes PROVE Made(m)' = Made(m)
  <2>1. /\ WalkOf(m)' = WalkOf(m) /\ WeakMade(m)' = WeakMade(m) /\ \A q : InTime(q)' = InTime(q)
    BY <1>1, ProposalsFixed DEF WeakMade
  <2>2. Left(m)' = Left(m) \ {p} \/ Left(m)' = Left(m)
    BY <1>3
  <2> QED BY <1>1, <2>1, <2>2 DEF Made
<1>5. MapsInv'
  BY <1>1, <1>2, <1>4, QuietMaps DEF FInv
<1>6. AreWanted'
  BY <1>1, ProposalsFixed DEF FInv, AreWanted, Keys, Key
<1>7. MainInv'
  BY <1>1, MainStays DEF FInv
<1> QED BY <1>3, <1>5, <1>6, <1>7 DEF FInv

\* The other steps of a worker but the insertion leave the table and its maps alone.
LEMMA QuietStep ==
  ASSUME IInv, IInv', FInv, [Next]_vars, WalksInv', \A n \in Nodes : Left(n)' = Left(n),
         UNCHANGED <<trace, phase, posted, weakNext, edges, maps>>
  PROVE  FInv'
<1>1. MapsInv'
  <2>1. Stable
    BY StepStable
  <2>2. \A n \in Nodes : Made(n)' = Made(n)
    BY MadeStays
  <2> QED BY <2>1, <2>2, QuietMaps DEF FInv
<1>2. AreWanted'
  BY ProposalsFixed DEF FInv, AreWanted, Keys, Key
<1>3. MainInv'
  BY MainStays DEF FInv
<1> QED BY <1>1, <1>2, <1>3 DEF FInv

LEMMA TakeMaps ==
  ASSUME IInv, IInv', FInv, NEW w \in Workers, Take(w) \/ NextEvent(w)
  PROVE  FInv'
<1>1. WalksInv' /\ \A n \in Nodes : Left(n)' = Left(n)
  BY TakeWalks, NextEventWalks DEF FInv
<1>2. [Next]_vars
  BY DEF Next, Worker
<1>3. UNCHANGED <<trace, phase, posted, weakNext, edges, maps>>
  BY DEF Take, NextEvent
<1> QED BY <1>1, <1>2, <1>3, QuietStep

\* Whoever comes to the lock has a proposal in time.
LEMMA AtWork ==
  ASSUME IInv, FInv, NEW w \in Workers,
         Lock(w) \/ Scan(w) \/ Insert(w) \/ Load(w) \/ Store(w)
  PROVE  WalksInv' /\ \A n \in Nodes : Left(n)' = Left(n)
<1>1. trace' = trace /\ taken' = taken /\ node' = node /\ pos' = pos /\ todo' = todo
  BY DEF Lock, Scan, Insert, Load, Store
<1>2. pc \in [Workers -> {"idle", "task", "scan", "insert", "link_new", "link_old",
                          "load", "store"}]
  BY DEF IInv, TypeOK, PoolTyped
<1>3. /\ Active(w) /\ pc'[w] \in Proposing \cup {"store", "task"}
      /\ pc'[w] \in Proposing => pc[w] \in Proposing \/ InTime(Head(todo[w]))
      /\ \A v \in Workers \ {w} : pc'[v] = pc[v]
  BY <1>2 DEF Lock, Scan, Insert, Load, Store, Active, Proposing
<1>4. \A v \in Workers : Active(v)' <=> Active(v)
  BY <1>3 DEF Active, Proposing
<1>5. \A v \in Workers : pc'[v] \in Proposing => InTime(Head(todo[v]))
  <2>1. \A v \in Workers : pc[v] \in Proposing => InTime(Head(todo[v]))
    BY DEF FInv, WalksInv, WalkInv, Active, Proposing
  <2> QED BY <1>3, <2>1
<1> QED BY <1>1, <1>4, <1>5, QuietWalks DEF FInv

LEMMA AtWorkMaps ==
  ASSUME IInv, IInv', FInv, NEW w \in Workers, Lock(w) \/ Scan(w) \/ Load(w) \/ Store(w)
  PROVE  FInv'
<1>1. WalksInv' /\ \A n \in Nodes : Left(n)' = Left(n)
  BY AtWork
<1>2. [Next]_vars
  BY DEF Next, Worker
<1>3. UNCHANGED <<trace, phase, posted, weakNext, edges, maps>>
  BY DEF Lock, Scan, Load, Store
<1> QED BY <1>1, <1>2, <1>3, QuietStep

\* A new edge at the end of the table.
LEMMA KeysGrow ==
  ASSUME edges \in Seq(Edges), NEW x, edges' \in Seq(Edges), DOMAIN edges' = DOMAIN edges \cup {Len(edges) + 1},
         \A j \in DOMAIN edges : Key(edges'[j]) = Key(edges[j]), Key(edges'[Len(edges) + 1]) = x
  PROVE  Keys(edges)' = Keys(edges) \cup {x} /\ Len(edges') = Len(edges) + 1
<1>1. Keys(edges)' = {Key(edges'[j]) : j \in DOMAIN edges'}
  BY DEF Keys, Key
<1>2. Keys(edges)' = Keys(edges) \cup {x}
  BY <1>1 DEF Keys
<1>3. /\ Len(edges) \in Nat /\ Len(edges') \in Nat
      /\ DOMAIN edges = 1 .. Len(edges) /\ DOMAIN edges' = 1 .. Len(edges')
  OBVIOUS
<1>4. 1 .. Len(edges') = 1 .. Len(edges) + 1
  BY <1>3
<1> QED BY <1>2, <1>3, <1>4

\* The edge a worker inserts is of a connection that has none.
LEMMA InsertMaps ==
  ASSUME IInv, IInv', FInv, NEW w \in Workers, Insert(w)
  PROVE  /\ FInv'
         /\ \E k \in Wanted \ Keys(edges) :
              Keys(edges)' = Keys(edges) \cup {k} /\ Len(edges') = Len(edges) + 1
<1> DEFINE p == Head(todo[w])
           n == node[w]
<1>1. /\ trace' = trace /\ trace \in Traces /\ Active(w) /\ todo[w] # <<>>
      /\ UNCHANGED <<phase, posted, weakNext, maps>>
      /\ pc[w] = "insert" /\ edges' = Append(edges, NewEdge(p))
      /\ edges \in Seq(Edges) /\ edges' \in Seq(Edges)
  <2>1. edges \in Seq(Edges) /\ edges' \in Seq(Edges')
    BY DEF IInv, TypeOK, TableTyped
  <2>2. trace' = trace
    BY DEF Insert
  <2>3. edges' \in Seq(Edges)
    BY <2>1, <2>2, TraceFixed
  <2>4. todo[w] # <<>> /\ trace \in Traces
    BY DEF Insert, IInv, TypeOK, MainTyped, WorkersOK, WorkerOK
  <2> QED BY <2>1, <2>2, <2>3, <2>4 DEF Insert, Active
<1>2. WalksInv' /\ \A m \in Nodes : Left(m)' = Left(m)
  BY AtWork
<1>3. Stable
  BY StepStable DEF Next, Worker
<1>4. InTime(p) /\ n \in Nodes /\ p \in WalkOf(n)
  <2>1. InTime(p)
    BY <1>1 DEF FInv, WalksInv, WalkInv
  <2>2. n \in Nodes /\ LeftOf(w) \subseteq WalkOf(n) /\ todo[w] \in Seq(Proposals)
    BY <1>1, LeftAlone DEF FInv
  <2>3. p \in Range(todo[w])
    BY <1>1, <2>2, HeadInRange
  <2> QED BY <2>1, <2>2, <2>3, LeftIs
<1>5. p \in Proposals /\ Key(p) \in Wanted
  BY <1>1, <1>4, WantedFacts
<1>6. Key(p) \notin Keys(edges)
  BY <1>1 DEF IInv, WorkersOK, WorkerOK, Keys
<1> HIDE DEF p, n
<1>7. /\ DOMAIN edges' = DOMAIN edges \cup {Len(edges) + 1}
      /\ \A j \in DOMAIN edges : Key(edges'[j]) = Key(edges[j])
      /\ Key(edges'[Len(edges) + 1]) = Key(p)
  <2>1. Key(NewEdge(p)) = Key(p)
    BY DEF Key, NewEdge
  <2> QED BY <1>1, <2>1
<1>8. Keys(edges)' = Keys(edges) \cup {Key(p)} /\ Len(edges') = Len(edges) + 1
  BY <1>1, <1>7, KeysGrow
<1>9. MapsInv'
  <2>1. \A m \in Nodes : Made(m)' = Made(m)
    BY <1>1, <1>2, MadeStays
  <2> QED BY <1>1, <1>3, <2>1, QuietMaps DEF FInv
<1>10. AreWanted'
  BY <1>1, <1>5, <1>8, ProposalsFixed DEF FInv, AreWanted
<1>11. MainInv'
  BY <1>1, MainStays DEF FInv
<1> QED BY <1>2, <1>5, <1>6, <1>8, <1>9, <1>10, <1>11 DEF FInv

\* The main thread's steps that leave the table, and the workers, alone.
LEMMA MainMaps ==
  ASSUME IInv, IInv', FInv, Post \/ Join \/ OptimizeMkrunEdges \/ Built \/ UNCHANGED vars
  PROVE  FInv'
<1>1. UNCHANGED <<trace, pc, node, pos, todo, taken, weakNext, edges, maps>>
  BY DEF Post, Join, OptimizeMkrunEdges, Built, vars, pool
<1>2. WalksInv' /\ \A n \in Nodes : Left(n)' = Left(n)
  <2>1. \A v \in Workers : Active(v)' <=> Active(v)
    BY <1>1 DEF Active
  <2>2. \A v \in Workers : pc'[v] \in Proposing => InTime(Head(todo[v]))
    BY <1>1 DEF FInv, WalksInv, WalkInv, Active, Proposing
  <2> QED BY <1>1, <2>1, <2>2, QuietWalks DEF FInv
<1>3. Stable
  BY StepStable DEF Next, Main
<1>4. MapsInv'
  <2>1. \A n \in Nodes : Made(n)' = Made(n)
    BY <1>1, <1>2, MadeStays
  <2> QED BY <1>1, <1>3, <2>1, QuietMaps DEF FInv
<1>5. AreWanted'
  BY <1>1, ProposalsFixed DEF FInv, AreWanted, Keys, Key
<1>6. MainInv'
  <2>1. Groups' = Groups /\ Len(Groups) \in Nat /\ posted \in 0 .. Len(Groups)
    BY <1>1, GroupFacts DEF Groups, IInv, TypeOK, MainTyped
  <2>2. CASE Post
    BY <1>1, <2>1, <2>2 DEF FInv, MainInv, InPool, Post
  <2>3. CASE Join
    BY <1>1, <2>1, <2>3 DEF FInv, MainInv, InPool, Join
  <2>4. CASE OptimizeMkrunEdges
    BY <1>1, <2>1, <2>4 DEF FInv, MainInv, InPool, OptimizeMkrunEdges
  <2>5. CASE Built \/ UNCHANGED vars
    BY <1>1, <2>1, <2>5 DEF FInv, MainInv, InPool, Built, vars
  <2> QED BY <2>2, <2>3, <2>4, <2>5
<1> QED BY <1>2, <1>4, <1>5, <1>6 DEF FInv

\* Completing the endpoints changes no key.
LEMMA CompleteMaps ==
  ASSUME IInv, IInv', FInv, CompleteVertices
  PROVE  FInv' /\ Keys(edges)' = Keys(edges) /\ Len(edges') = Len(edges)
<1>1. /\ UNCHANGED <<trace, pc, node, pos, todo, taken, weakNext, posted, maps>>
      /\ phase = "complete" /\ phase' = "done" /\ DOMAIN edges' = DOMAIN edges
  BY DEF CompleteVertices, pool
<1>2. WalksInv' /\ \A n \in Nodes : Left(n)' = Left(n)
  <2>1. \A v \in Workers : Active(v)' <=> Active(v)
    BY <1>1 DEF Active
  <2>2. \A v \in Workers : pc'[v] \in Proposing => InTime(Head(todo[v]))
    BY <1>1 DEF FInv, WalksInv, WalkInv, Active, Proposing
  <2> QED BY <1>1, <2>1, <2>2, QuietWalks DEF FInv
<1>3. Stable
  BY StepStable DEF Next, Main
<1>4. MapsInv'
  <2>1. \A n \in Nodes : Made(n)' = Made(n)
    BY <1>1, <1>2, MadeStays
  <2> QED BY <1>1, <1>3, <2>1, QuietMaps DEF FInv
<1>5. Keys(edges)' = Keys(edges)
  BY <1>1, <1>3, KeysStay
<1>6. AreWanted'
  BY <1>1, <1>5, ProposalsFixed DEF FInv, AreWanted
<1>7. MainInv'
  BY <1>1 DEF FInv, MainInv, InPool, Groups
<1>8. Len(edges') = Len(edges)
  <2>1. edges \in Seq(Edges) /\ edges' \in Seq(Edges')
    BY DEF IInv, TypeOK, TableTyped
  <2> QED BY <1>1, <2>1
<1> QED BY <1>2, <1>4, <1>5, <1>6, <1>7, <1>8 DEF FInv

OneMore ==
  \E k \in Wanted \ Keys(edges) : Keys(edges)' = Keys(edges) \cup {k} /\ Len(edges') = Len(edges) + 1
NoneMore == Keys(edges)' = Keys(edges) /\ Len(edges') = Len(edges)

\* The weak edge of a node is made once, and its table is the present one or grown by it.
LEMMA AddWeakEdgeMaps ==
  ASSUME IInv, IInv', FInv, AddWeakEdge
  PROVE  FInv' /\ (OneMore \/ NoneMore)
<1> DEFINE n == weakNext
           ps == WeakEdgeOf(n)
           p == Head(ps)
           k == Find(p)
           es == Append(edges, NewEdge(p))
<1>1. /\ trace' = trace /\ trace \in Traces /\ n \in Nodes /\ n \in Nat /\ weakNext' = n + 1
      /\ UNCHANGED <<phase, posted, taken, pool>> /\ phase = "weak"
      /\ edges \in Seq(Edges) /\ edges' \in Seq(Edges') /\ Edges' = Edges /\ Len(edges) \in Nat
  BY GroupFacts, TraceFixed DEF AddWeakEdge, IInv, TypeOK, MainTyped, TableTyped, Nodes
<1>2. Stable
  BY StepStable DEF Next, Main
<1>3. WalksInv' /\ \A m \in Nodes : Left(m)' = Left(m)
  <2>1. trace' = trace /\ taken' = taken /\ node' = node /\ pos' = pos /\ todo' = todo /\ pc' = pc
    BY <1>1 DEF pool
  <2>2. \A v \in Workers : Active(v)' <=> Active(v)
    BY <2>1 DEF Active
  <2>3. \A v \in Workers : pc'[v] \in Proposing => InTime(Head(todo[v]))
    BY <2>1 DEF FInv, WalksInv, WalkInv, Active, Proposing
  <2> QED BY <2>1, <2>2, <2>3, QuietWalks DEF FInv
<1>4. ASSUME NEW m \in Nodes, m # n PROVE Made(m)' = Made(m)
  <2>1. m \in Nat /\ ((m < weakNext)' <=> m < weakNext)
    BY <1>1, <1>4, GroupFacts
  <2> QED BY <1>1, <1>3, <2>1, MadeStays
<1>5. ASSUME NEW m \in Nodes, m = n
      PROVE  Made(m)' = Made(m) \cup {q \in Range(WeakEdgeOf(m)) : InTime(q)}
  <2>1. WeakMade(m) = {} /\ WeakMade(m)' = Range(WeakEdgeOf(m))
    BY <1>1, <1>5, ProposalsFixed DEF WeakMade
  <2>2. Left(m)' = Left(m) /\ WalkOf(m)' = WalkOf(m) /\ \A q : InTime(q)' = InTime(q)
    BY <1>1, <1>3, ProposalsFixed
  <2>3. Made(m) = {q \in WalkOf(m) \ Left(m) : InTime(q)}
    BY <2>1 DEF Made
  <2>4. Made(m)' = {q \in (WalkOf(m) \ Left(m)) \cup Range(WeakEdgeOf(m)) : InTime(q)}
    BY <2>1, <2>2 DEF Made
  <2> QED BY <2>3, <2>4
<1>6. MainInv'
  <2>1. trace' = trace /\ phase' = "weak" /\ phase = "weak" /\ posted' = posted
    BY <1>1
  <2> QED BY <2>1 DEF FInv, MainInv, InPool, Groups
<1>7. CASE ps = <<>> \/ ~InTime(p)
  <2>1. UNCHANGED <<edges, maps>>
    BY <1>7 DEF AddWeakEdge
  <2>2. {q \in Range(WeakEdgeOf(n)) : InTime(q)} = {}
    BY <1>7, WeakEdgeFacts
  <2>3. \A m \in Nodes : Made(m)' = Made(m)
    BY <1>4, <1>5, <2>2
  <2>4. MapsInv'
    BY <1>1, <1>2, <2>1, <2>3, QuietMaps DEF FInv
  <2>5. NoneMore
    BY <2>1 DEF NoneMore, Keys, Key
  <2>6. AreWanted'
    BY <1>1, <2>5, ProposalsFixed DEF FInv, AreWanted, NoneMore
  <2> QED BY <1>3, <1>6, <2>4, <2>5, <2>6 DEF FInv
<1>8. CASE ~(ps = <<>> \/ ~InTime(p))
  <2>1. /\ InTime(p) /\ Range(WeakEdgeOf(n)) = {p} /\ p.side = "weak_out"
        /\ p \in Range(WeakEdgeOf(n))
    BY <1>8, WeakEdgeFacts
  <2>2. p \in Proposals /\ Key(p) \in Wanted
    BY <1>1, <2>1, WantedFacts
  <2>3. /\ NewEdge(p) \in Edges /\ Key(NewEdge(p)) = Key(p)
    BY <2>2 DEF NewEdge, Edges, Proposals, Key
  <2>4. PICK m \in Nodes : m = n
    BY <1>1
  <2>5. Made(m)' = Made(m) \cup {p}
    BY <1>5, <2>1, <2>4
  <2>6. \A l \in Nodes \ {m} : Made(l)' = Made(l)
    BY <1>4, <2>4
  <2>7. p.side \notin {"in", "out"}
    BY <2>1
  <2>8. CASE k = NoEdge
    <3>1. FileEdge(m, p, Len(edges) + 1, TRUE, es)
      BY <1>8, <2>4, <2>8 DEF AddWeakEdge
    <3>2. \A j \in DOMAIN edges : Key(edges[j]) # Key(p)
      BY <1>1, <2>8, FindFacts DEF NoEdge
    <3>3. /\ es \in Seq(Edges) /\ Len(es) = Len(edges) + 1
          /\ es[Len(edges) + 1] = NewEdge(p)
          /\ \A j \in 1 .. Len(edges) : es[j] = edges[j]
      BY <1>1, <2>3, AppendProperties
    <3>4. /\ Len(edges) + 1 \in DOMAIN es
          /\ DOMAIN es = DOMAIN edges \cup {Len(edges) + 1}
          /\ DOMAIN edges = 1 .. Len(edges)
      BY <1>1, <3>3
    <3> HIDE DEF p, es, ps, k, n
    <3>5. edges' = [es EXCEPT ![Len(edges) + 1].fromNode = m]
      BY <2>1, <3>1 DEF FileEdge
    <3>6. DOMAIN edges' = DOMAIN es /\ Key(edges'[Len(edges) + 1]) = Key(p)
      <4>1. edges'[Len(edges) + 1] = [NewEdge(p) EXCEPT !.fromNode = m]
        BY <3>3, <3>4, <3>5
      <4>2. Key(edges'[Len(edges) + 1]) = Key(NewEdge(p))
        BY <2>3, <4>1 DEF Key, Edges
      <4> QED BY <2>3, <3>5, <4>2
    <3>7. MapsInv'
      <4>1. MapsInv /\ TRUE \in BOOLEAN
        BY DEF FInv
      <4> QED BY <1>1, <1>2, <2>2, <2>5, <2>6, <2>7, <3>1, <3>3, <3>4, <3>6, <4>1, FilingMaps
    <3>8. Keys(edges)' = Keys(edges) \cup {Key(p)} /\ Len(edges') = Len(edges) + 1
      <4>1. \A j \in DOMAIN edges : Key(edges'[j]) = Key(edges[j])
        BY <1>2 DEF Stable
      <4> QED BY <1>1, <3>4, <3>6, <4>1, KeysGrow
    <3>9. Key(p) \notin Keys(edges)
      BY <3>2 DEF Keys
    <3>10. OneMore
      BY <2>2, <3>8, <3>9 DEF OneMore
    <3>11. AreWanted'
      BY <1>1, <2>2, <3>8, ProposalsFixed DEF FInv, AreWanted
    <3> QED BY <1>3, <1>6, <3>7, <3>10, <3>11 DEF FInv
  <2>9. CASE k # NoEdge
    <3>1. FileEdge(m, p, k, FALSE, edges)
      BY <1>8, <2>4, <2>9 DEF AddWeakEdge
    <3>2. k \in DOMAIN edges /\ Key(edges[k]) = Key(p)
      BY <1>1, <2>9, FindFacts
    <3> HIDE DEF p, es, ps, k, n
    <3>3. edges' = [edges EXCEPT ![k].fromNode = m]
      BY <2>1, <3>1 DEF FileEdge
    <3>4. DOMAIN edges' = DOMAIN edges /\ Key(edges'[k]) = Key(p)
      BY <1>2, <3>2, <3>3 DEF Stable
    <3>5. MapsInv'
      <4>1. MapsInv /\ FALSE \in BOOLEAN
        BY DEF FInv
      <4> QED BY <1>1, <1>2, <2>2, <2>5, <2>6, <2>7, <3>1, <3>2, <3>4, <4>1, FilingMaps
    <3>6. NoneMore
      <4>1. Keys(edges)' = Keys(edges)
        BY <1>2, <3>4, KeysStay
      <4> QED BY <1>1, <3>4, <4>1 DEF NoneMore
    <3>7. AreWanted'
      BY <1>1, <3>6, ProposalsFixed DEF FInv, AreWanted, NoneMore
    <3> QED BY <1>3, <1>6, <3>5, <3>6, <3>7 DEF FInv
  <2> QED BY <2>8, <2>9
<1> QED BY <1>7, <1>8

\* At the beginning nothing is made, and nothing is filed.
LEMMA InitFInv == Init => FInv
<1> SUFFICES ASSUME Init PROVE FInv
  OBVIOUS
<1>1. /\ trace \in Traces /\ phase = "post" /\ taken = 0 /\ weakNext = 1 /\ edges = <<>>
      /\ \A w \in Workers : pc[w] = "idle"
  BY DEF Init
<1>2. \A n \in Nodes : n \in Nat /\ n > taken /\ ~(n < weakNext)
  BY <1>1, GroupFacts
<1>3. WalksInv
  BY <1>1 DEF WalksInv, Active
<1>4. MainInv
  BY <1>1 DEF MainInv
<1>5. AreWanted
  BY <1>1 DEF AreWanted, Keys
<1>6. ASSUME NEW n \in Nodes PROVE Made(n) = {}
  <2>1. Left(n) = WalkOf(n) /\ WeakMade(n) = {}
    BY <1>2 DEF Left, WeakMade
  <2> QED BY <2>1 DEF Made
<1>7. degree \in [Nodes -> [in : Nat, out : Nat]]
  BY DEF Init
<1>8. ASSUME NEW n \in Nodes PROVE FiledInv(n)
  <2>1. /\ outMap[n] = {} /\ inMap[n] = {} /\ weakOut[n] = {} /\ weakIn[n] = {}
        /\ degree[n] = [in |-> 0, out |-> 0]
    BY DEF Init
  <2>2. \A side \in Sides : FiledUnder(n)[side] = {}
    BY <2>1 DEF FiledUnder, Sides
  <2>3. \A side \in Sides : FiledKeys(n, side) = {} /\ MadeKeys(n, side) = {}
    BY <1>6, <2>2 DEF FiledKeys, MadeKeys
  <2>4. IsFiniteSet({}) /\ Cardinality({}) = 0
    BY FS_EmptySet
  <2> QED BY <2>1, <2>3, <2>4 DEF FiledInv
<1>9. MapsInv
  BY <1>7, <1>8 DEF MapsInv
<1> QED BY <1>3, <1>4, <1>5, <1>9 DEF FInv

\* Every step keeps the invariant.
LEMMA NextFInv == IInv /\ IInv' /\ FInv /\ [Next]_vars => FInv'
<1> SUFFICES ASSUME IInv, IInv', FInv, [Next]_vars PROVE FInv'
  OBVIOUS
<1>1. CASE Main
  BY <1>1, MainMaps, AddWeakEdgeMaps, CompleteMaps DEF Main
<1>2. CASE \E w \in Workers : Worker(w)
  BY <1>2, TakeMaps, RefuseMaps, AtWorkMaps, InsertMaps, LinkMaps DEF Worker
<1>3. CASE Built \/ UNCHANGED vars
  BY <1>3, MainMaps
<1> QED BY <1>1, <1>2, <1>3 DEF Next

-----------------------------------------------------------------------------
(* The theorems.                                                           *)

(* At every moment the maps of a node hold the edges its task has proposed *)
(* so far, and no others, whatever the other workers do meanwhile, and its *)
(* counters are their numbers: this is the inductive invariant of the      *)
(* unlocked half of add_out_edge, add_in_edge and the weak ones.           *)
THEOREM MapsInvariant == Spec => []FInv
<1>1. Init => IInv /\ FInv
  BY InitIInv, InitFInv
<1>2. IInv /\ FInv /\ [Next]_vars => (IInv /\ FInv)'
  BY NextIInv, NextFInv
<1> QED BY <1>1, <1>2, PTL DEF Spec

\* When the weak edges have been added, every proposal of the node has been made.
LEMMA AllMade ==
  ASSUME IInv, FInv, ~InPool, weakNext > Len(Groups), NEW n \in Nodes
  PROVE  Made(n) = ProposalsOfNode(n)
<1>1. trace \in Traces /\ posted = Len(Groups) /\ taken = posted /\ \A w \in Workers : ~Active(w)
  BY DEF IInv, TypeOK, MainTyped, PoolJoined, FInv, MainInv, InPool, Active
<1>2. n \in Nat /\ ~(n > taken) /\ weakNext \in Nat /\ n < weakNext
  BY <1>1, GroupFacts DEF Nodes, IInv, TypeOK, MainTyped
<1>3. Left(n) = {} /\ WeakMade(n) = Range(WeakEdgeOf(n))
  BY <1>1, <1>2 DEF Left, WeakMade
<1> QED BY <1>3 DEF Made, ProposalsOfNode

LEMMA ConnectionsHold ==
  ASSUME IInv, FInv
  PROVE  EdgesAreTheConnections
<1> SUFFICES ASSUME ~InPool, weakNext > Len(Groups)
             PROVE  /\ Keys(edges) = Wanted
                    /\ \A n \in Nodes :
                         /\ \A side \in Sides :
                              {Key(edges[item[2]]) : item \in FiledUnder(n)[side]} = SideKeys(n, {side})
                         /\ degree[n] = [in |-> Cardinality(inMap[n]), out |-> Cardinality(outMap[n])]
  BY DEF EdgesAreTheConnections
<1>1. ASSUME NEW n \in Nodes, NEW side \in Sides PROVE MadeKeys(n, side) = SideKeys(n, {side})
  <2>1. Made(n) = ProposalsOfNode(n)
    BY AllMade
  <2> QED BY <2>1 DEF MadeKeys, SideKeys
<1>2. ASSUME NEW n \in Nodes, NEW side \in Sides PROVE FiledKeys(n, side) = SideKeys(n, {side})
  BY <1>1 DEF FInv, MapsInv, FiledInv
<1>3. ASSUME NEW n \in Nodes
      PROVE  degree[n] = [in |-> Cardinality(inMap[n]), out |-> Cardinality(outMap[n])]
  BY DEF FInv, MapsInv, FiledInv
<1>4. ASSUME NEW k \in Wanted PROVE k \in Keys(edges)
  <2>1. PICK n \in Nodes : k \in SideKeys(n, Sides)
    BY DEF Wanted
  <2>2. PICK p \in ProposalsOfNode(n) : p.side \in Sides /\ k = Key(p)
    BY <2>1 DEF SideKeys
  <2>3. PICK side \in Sides : p.side = side
    BY <2>2
  <2>4. k \in SideKeys(n, {side})
    BY <2>2, <2>3 DEF SideKeys
  <2>5. k \in FiledKeys(n, side)
    BY <1>2, <2>4
  <2>6. PICK item \in FiledUnder(n)[side] : k = Key(edges[item[2]])
    BY <2>5 DEF FiledKeys
  <2>7. item[2] \in DOMAIN edges
    BY FilesTyped DEF IInv, TypeOK
  <2> QED BY <2>6, <2>7 DEF Keys
<1>5. Keys(edges) = Wanted
  BY <1>4 DEF FInv, AreWanted
<1> QED BY <1>2, <1>3, <1>5 DEF FiledKeys

(* The finished graph is the trace's: its edges are the connections and    *)
(* each map of each node holds exactly those proposed for it, however the  *)
(* workers of the pool were scheduled.                                     *)
THEOREM FinishedGraph == Spec => []EdgesAreTheConnections
<1>1. IInv /\ FInv => EdgesAreTheConnections
  BY ConnectionsHold
<1> QED BY <1>1, InvariantHolds, MapsInvariant, PTL

\* A wake-up edge is proposed by the wake-up itself, as an outgoing one of its node, even
\* if the faked wake-up proposed it too.
LEMMA WakeupFacts ==
  ASSUME trace \in Traces, NEW e \in EventIds, NodeOf(e) # NoNode,
         NEW p \in Range(ProposalsOf(e)), p.rel = "MKRUN"
  PROVE  /\ NodeOf(p.from) # NoNode
         /\ \E q \in Range(ProposalsOf(p.from)) : q.side = "out" /\ Key(q) = Key(p)
<1>1. TraceOK(trace) /\ \A x : Ev(x) = trace.ev[x]
  BY TracesAssumption DEF Ev
<1>2. /\ \A x : Range(<<x>>) = {x}
      /\ Range(<<>>) = {}
  BY DEF Range
<1>3. CASE Ev(e).kind = "mkrun"
  <2>1. p \in Range(EdgesForMkrun(e))
    BY <1>3 DEF ProposalsOf
  <2>2. p = Proposal(e, Ev(e).peer, "MKRUN", "out")
    BY <1>2, <2>1 DEF EdgesForMkrun, Out, WeakOut, Proposal
  <2>3. p.from = e /\ p.side = "out"
    BY <2>2 DEF Proposal
  <2> QED BY <2>3
<1>4. CASE Ev(e).kind = "fake"
  <2> DEFINE m == Ev(e).peer
  <2>1. p \in Range(EdgesForFakedWoken(e))
    BY <1>4 DEF ProposalsOf
  <2>2. /\ p = Proposal(m, e, "MKRUN", "in") /\ IsA(m, "mkrun") /\ NodeOf(m) # NoNode
        /\ ~Ev(m).weak
    BY <1>2, <2>1 DEF EdgesForFakedWoken, In, WeakIn, Proposal
  <2>3. m # NoEvent /\ Ev(m).kind = "mkrun" /\ Ev(m).peer = e
    BY <1>1, <1>4, <2>2 DEF IsA, TraceOK
  <2>4. ProposalsOf(m) = <<Proposal(m, e, "MKRUN", "out")>>
    <3>1. ProposalsOf(m) = EdgesForMkrun(m)
      BY <2>3 DEF ProposalsOf
    <3>2. e # NoEvent
      BY EventsAssumption
    <3> QED BY <2>2, <2>3, <3>1, <3>2 DEF EdgesForMkrun, Out
  <2>5. p.from = m /\ Proposal(m, e, "MKRUN", "out") \in Range(ProposalsOf(m))
    BY <1>2, <2>2, <2>4 DEF Proposal
  <2>6. /\ Proposal(m, e, "MKRUN", "out").side = "out"
        /\ Key(Proposal(m, e, "MKRUN", "out")) = Key(p)
    BY <2>2 DEF Proposal, Key
  <2> QED BY <2>2, <2>5, <2>6
<1>5. CASE Ev(e).kind \notin {"mkrun", "fake"}
  <2> DEFINE Others == {"MSGP", "MSGP_NEXT", "DISP_EXE", "TIMERCALLOUT", "CA", "RLITEM", "HWBR"}
             OtherRel(s) == \A x \in Range(s) : x.rel # "MKRUN"
  <2>1. ASSUME NEW x, NEW y, NEW rel \in Others
        PROVE  /\ Out(x, y, rel) \in Seq({Proposal(x, y, rel, "out")})
               /\ In(x, y, rel) \in Seq({Proposal(x, y, rel, "in")})
               /\ Proposal(x, y, rel, "out").rel # "MKRUN"
               /\ Proposal(x, y, rel, "in").rel # "MKRUN"
    BY DEF Out, In, Proposal
  <2>2. ASSUME NEW x, NEW y, NEW rel \in Others
        PROVE  OtherRel(Out(x, y, rel)) /\ OtherRel(In(x, y, rel)) /\ OtherRel(<<>>)
    BY <1>2, <2>1 DEF Out, In
  <2>3. ASSUME NEW a, NEW b, a = <<>> \/ \E x : a = <<x>>, b = <<>> \/ \E x : b = <<x>>,
               OtherRel(a), OtherRel(b)
        PROVE  OtherRel(a \o b)
    <3>1. CASE a = <<>> /\ b = <<>>
      BY <1>2, <3>1
    <3>2. CASE a = <<>> /\ \E x : b = <<x>>
      <4>1. a \o b = b
        BY <3>2
      <4> QED BY <2>3, <4>1
    <3>3. CASE b = <<>> /\ \E x : a = <<x>>
      <4>1. a \o b = a
        BY <3>3
      <4> QED BY <2>3, <4>1
    <3>4. CASE \E x, y : a = <<x>> /\ b = <<y>>
      <4>1. PICK x, y : a = <<x>> /\ b = <<y>>
        BY <3>4
      <4>2. x.rel # "MKRUN" /\ y.rel # "MKRUN"
        BY <1>2, <2>3, <4>1
      <4>3. Range(<<x, y>>) = {x, y}
        BY DEF Range
      <4>4. a \o b = <<x, y>>
        BY <4>1, PairIs
      <4> QED BY <4>2, <4>3, <4>4
    <3> QED BY <2>3, <3>1, <3>2, <3>3, <3>4
  <2> HIDE DEF OtherRel
  <2>4. OtherRel(EdgesForMsg(e))
    <3> DEFINE a == IF Ev(e).next # NoEvent THEN Out(e, Ev(e).next, "MSGP_NEXT")
                    ELSE IF Ev(e).prev # NoEvent THEN In(Ev(e).prev, e, "MSGP_NEXT") ELSE <<>>
               b == IF ~IsA(Ev(e).peer, "msg") THEN <<>>
                    ELSE IF Ev(e).recv THEN In(Ev(e).peer, e, "MSGP") ELSE Out(e, Ev(e).peer, "MSGP")
    <3>1. OtherRel(a) /\ OtherRel(b)
      BY <2>2
    <3>2. (a = <<>> \/ \E x : a = <<x>>) /\ (b = <<>> \/ \E x : b = <<x>>)
      BY DEF Out, In
    <3>3. EdgesForMsg(e) = a \o b
      BY DEF EdgesForMsg
    <3> HIDE DEF a, b
    <3> QED BY <2>3, <3>1, <3>2, <3>3
  <2>5. OtherRel(EdgesForRLItem(e))
    <3> DEFINE a == IF Ev(e).owner # NoEvent THEN In(Ev(e).owner, e, "RLITEM") ELSE <<>>
               b == IF Ev(e).consumer # NoEvent THEN Out(e, Ev(e).consumer, "RLITEM") ELSE <<>>
    <3>1. OtherRel(a) /\ OtherRel(b)
      BY <2>2
    <3>2. (a = <<>> \/ \E x : a = <<x>>) /\ (b = <<>> \/ \E x : b = <<x>>)
      BY DEF Out, In
    <3>3. EdgesForRLItem(e) = a \o b
      BY DEF EdgesForRLItem
    <3> HIDE DEF a, b
    <3> QED BY <2>3, <3>1, <3>2, <3>3
  <2>6. OtherRel(EdgesForCADisplay(e))
    <3>1. EdgesForCADisplay(e) = [i \in DOMAIN Ev(e).sets |-> Proposal(Ev(e).sets[i], e, "CA", "in")]
      BY DEF EdgesForCADisplay, In
    <3>2. \A x \in Range(EdgesForCADisplay(e)) : x.rel = "CA"
      BY <3>1 DEF Range, Proposal
    <3> QED BY <3>2 DEF OtherRel
  <2>7. /\ OtherRel(EdgesForDispEnq(e)) /\ OtherRel(EdgesForDispInvoke(e))
        /\ OtherRel(EdgesForCallCreate(e)) /\ OtherRel(EdgesForCallout(e))
        /\ OtherRel(EdgesForCASet(e)) /\ OtherRel(EdgesForHwbr(e)) /\ OtherRel(<<>>)
    BY <2>2 DEF EdgesForDispEnq, EdgesForDispInvoke, EdgesForCallCreate, EdgesForCallout,
                EdgesForCASet, EdgesForHwbr
  <2>8. OtherRel(ProposalsOf(e))
    BY <1>5, <2>4, <2>5, <2>6, <2>7 DEF ProposalsOf
  <2> QED BY <2>8 DEF OtherRel
<1> QED BY <1>3, <1>4, <1>5

LEMMA WakeupsHold ==
  ASSUME IInv, FInv
  PROVE  WakeupsHaveSource
<1> SUFFICES ASSUME ~InPool, NEW i \in DOMAIN edges, edges[i].rel = "MKRUN"
             PROVE  edges[i].fromNode # NoNode
  BY DEF WakeupsHaveSource
<1>1. trace \in Traces /\ posted = Len(Groups) /\ taken = posted /\ \A w \in Workers : ~Active(w)
  BY DEF IInv, TypeOK, MainTyped, PoolJoined, FInv, MainInv, InPool, Active
<1>2. PICK n \in Nodes : \E x \in ProposalsOfNode(n) : Key(x) = Key(edges[i])
  <2>1. Key(edges[i]) \in Wanted
    BY DEF FInv, AreWanted, Keys
  <2>2. PICK n \in Nodes : Key(edges[i]) \in SideKeys(n, Sides)
    BY <2>1 DEF Wanted
  <2> QED BY <2>2 DEF SideKeys
<1>3. PICK p \in ProposalsOfNode(n) : Key(p) = Key(edges[i]) /\ p.rel = "MKRUN" /\ InTime(p)
  BY <1>2 DEF Key, ProposalsOfNode
<1>4. PICK e \in Range(Events(n)) : p \in Range(ProposalsOf(e))
  <2>1. p \notin Range(WeakEdgeOf(n))
    BY <1>3, WeakEdgeFacts
  <2> QED BY <2>1 DEF ProposalsOfNode, WalkOf
<1>5. e \in EventIds /\ NodeOf(e) # NoNode
  BY <1>1, GroupFacts DEF Range, NoNode
<1> DEFINE m == NodeOf(p.from)
<1>6. m # NoNode /\ \E q \in Range(ProposalsOf(p.from)) : q.side = "out" /\ Key(q) = Key(p)
  BY <1>1, <1>3, <1>4, <1>5, WakeupFacts
<1>7. PICK q \in Range(ProposalsOf(p.from)) : q.side = "out" /\ Key(q) = Key(p)
  BY <1>6
<1>8. p.from \in EventIds /\ m \in Nodes
  <2>1. p \in Proposals
    BY <1>1, <1>3, WantedFacts DEF ProposalsOfNode
  <2>2. p.from \in EventIds
    BY <2>1 DEF Proposals
  <2> QED BY <1>1, <1>6, <2>2, GroupFacts
<1>9. q \in WalkOf(m) /\ InTime(q)
  <2>1. p.from \in Range(Events(m))
    BY <1>1, <1>6, <1>8, MembersFacts
  <2>2. q.from = p.from /\ q.to = p.to
    BY <1>7 DEF Key
  <2> QED BY <1>3, <2>1, <2>2 DEF WalkOf, InTime
<1> HIDE DEF m
<1>10. q \in Made(m)
  <2>1. m \in Nat /\ ~(m > taken)
    BY <1>1, <1>8, GroupFacts DEF Nodes
  <2>2. Left(m) = {}
    BY <1>1, <2>1 DEF Left
  <2> QED BY <1>9, <2>2 DEF Made
<1>11. Key(q) \in FiledKeys(m, "out")
  <2>1. Key(q) \in MadeKeys(m, "out") /\ "out" \in Sides
    BY <1>7, <1>10 DEF MadeKeys, Sides
  <2> QED BY <1>8, <2>1 DEF FInv, MapsInv, FiledInv
<1>12. PICK item \in outMap[m] : Key(q) = Key(edges[item[2]])
  <2>1. FiledUnder(m)["out"] = outMap[m]
    BY DEF FiledUnder
  <2> QED BY <1>11, <2>1 DEF FiledKeys
<1>13. item[2] = i
  <2>1. item \in FiledUnder(m)["out"] /\ "out" \in Sides
    BY <1>12 DEF FiledUnder, Sides
  <2>2. item[2] \in DOMAIN edges
    BY <1>8, <2>1, FilesTyped DEF IInv, TypeOK
  <2> QED BY <1>3, <1>7, <1>12, <2>2 DEF IInv, NoDuplicateEdges
<1> QED BY <1>6, <1>8, <1>12, <1>13 DEF FInv, MapsInv, FiledInv, m

(* A wake-up edge that only the faked wake-up's worker allocated still gets *)
(* its source node, since the wake-up's own worker files it too: after      *)
(* join_all, optimize_mkrun_edges dereferences no null source.              *)
THEOREM WakeupsAreSourced == Spec => []WakeupsHaveSource
<1>1. IInv /\ FInv => WakeupsHaveSource
  BY WakeupsHold
<1> QED BY <1>1, InvariantHolds, MapsInvariant, PTL

-----------------------------------------------------------------------------
(* The construction implements the edge table.                             *)

\* What a step does to the table of connections, and when it hands it over.
LEMMA StepKinds ==
  ASSUME IInv, IInv', FInv, [Next]_vars
  PROVE  /\ trace' = trace
         /\ \/ OneMore /\ phase # "done" /\ phase' # "done"
            \/ NoneMore /\ (phase' = "done") = (phase = "done")
            \/ CompleteVertices
<1>1. trace' = trace
  BY DEF Next, Main, Worker, Built, vars, Post, Take, NextEvent, Refuse, Lock, Scan, Insert,
         Link, Load, Store, Join, AddWeakEdge, OptimizeMkrunEdges, CompleteVertices
<1>2. ASSUME edges' = edges PROVE NoneMore
  BY <1>2 DEF NoneMore, Keys, Key
<1>3. CASE \E w \in Workers : Worker(w)
  <2>1. PICK w \in Workers : Worker(w)
    BY <1>3
  <2>2. CASE Insert(w)
    <3>1. OneMore
      BY <2>2, InsertMaps DEF OneMore
    <3>2. Active(w) /\ phase' = phase
      BY <2>2 DEF Insert, Active
    <3>3. InPool
      BY <3>2, PoolFacts DEF FInv
    <3> QED BY <1>1, <3>1, <3>2, <3>3 DEF InPool
  <2>3. CASE Link(w)
    <3>1. Keys(edges)' = Keys(edges) /\ DOMAIN edges' = DOMAIN edges
      BY <2>3, LinkMaps
    <3>2. edges \in Seq(Edges) /\ edges' \in Seq(Edges')
      BY DEF IInv, TypeOK, TableTyped
    <3>3. Len(edges') = Len(edges)
      BY <3>1, <3>2
    <3> QED BY <1>1, <2>3, <3>1, <3>3 DEF NoneMore, Link
  <2>4. CASE Take(w) \/ NextEvent(w) \/ Refuse(w) \/ Lock(w) \/ Scan(w) \/ Load(w) \/ Store(w)
    <3>1. edges' = edges /\ phase' = phase
      BY <2>4 DEF Take, NextEvent, Refuse, Lock, Scan, Load, Store
    <3> QED BY <1>1, <1>2, <3>1
  <2> QED BY <2>1, <2>2, <2>3, <2>4 DEF Worker
<1>4. CASE AddWeakEdge
  <2>1. OneMore \/ NoneMore
    BY <1>4, AddWeakEdgeMaps
  <2>2. phase = "weak" /\ phase' = "weak"
    BY <1>4 DEF AddWeakEdge
  <2> QED BY <1>1, <2>1, <2>2
<1>5. CASE Post \/ Join \/ OptimizeMkrunEdges
  <2>1. edges' = edges /\ phase # "done" /\ phase' # "done"
    BY <1>5 DEF Post, Join, OptimizeMkrunEdges
  <2> QED BY <1>1, <1>2, <2>1
<1>6. CASE Built \/ UNCHANGED vars
  <2>1. edges' = edges /\ phase' = phase
    BY <1>6 DEF Built, vars
  <2> QED BY <1>1, <1>2, <2>1
<1>7. CASE CompleteVertices
  BY <1>1, <1>7
<1> QED BY <1>3, <1>4, <1>5, <1>6, <1>7 DEF Next, Main

\* Each is a step of the edge table, or leaves it as it is.
LEMMA StepImplements ==
  ASSUME IInv, IInv', FInv, [Next]_vars
  PROVE  [Table!Next]_(Table!vars)
<1>1. Wanted' = Wanted
  BY StepKinds, ProposalsFixed
<1>2. CASE OneMore /\ phase # "done" /\ phase' # "done"
  <2>1. PICK k \in Wanted \ Keys(edges) :
          Keys(edges)' = Keys(edges) \cup {k} /\ Len(edges') = Len(edges) + 1
    BY <1>2 DEF OneMore
  <2>2. Table!Insert(k)
    BY <1>1, <1>2, <2>1 DEF Table!Insert
  <2> QED BY <2>1, <2>2 DEF Table!Next
<1>3. CASE NoneMore /\ (phase' = "done") = (phase = "done")
  BY <1>1, <1>3 DEF NoneMore, Table!vars
<1>4. CASE CompleteVertices
  <2>1. phase = "complete" /\ phase' = "done"
    BY <1>4 DEF CompleteVertices
  <2>2. Keys(edges)' = Keys(edges) /\ Len(edges') = Len(edges)
    BY <1>4, CompleteMaps
  <2>3. Keys(edges) = Wanted
    BY <2>1, ConnectionsHold DEF EdgesAreTheConnections, InPool, FInv, MainInv
  <2>4. Table!Publish
    BY <1>1, <2>1, <2>2, <2>3 DEF Table!Publish
  <2> QED BY <2>4 DEF Table!Next
<1> QED BY <1>2, <1>3, <1>4, StepKinds

(* Whatever the pool does, the connections enter the edge table one at a   *)
(* time, each once and none that the trace does not ask for, and the graph *)
(* is handed over only when none is missing and never changes after that.  *)
THEOREM ImplementsTheTable == Spec => Table!SafeSpec
<1>1. Init => Table!Init
  BY DEF Init, Keys, Table!Init
<1>2. IInv /\ IInv' /\ FInv /\ [Next]_vars => [Table!Next]_(Table!vars)
  BY StepImplements
<1> QED BY <1>1, <1>2, InvariantHolds, MapsInvariant, PTL DEF Spec, Table!SafeSpec

(* The whole promise of EdgeTable, of every behaviour in which the         *)
(* construction comes to its end.                                          *)
THEOREM TableWhenBuilt == Spec /\ <>(phase = "done") => ImplementsEdgeTable
BY ImplementsTheTable, PTL DEF ImplementsEdgeTable, Table!Spec

===============================================================================
