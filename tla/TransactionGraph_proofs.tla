----------------------- MODULE TransactionGraph_proofs -----------------------
(***************************************************************************)
(* Theorems on the transaction graph, for every trace, every root and every *)
(* order of the search.                                                    *)
(***************************************************************************)
EXTENDS TransactionGraph, Integers, SequencesExt, FiniteSetTheorems, SequenceTheorems, WellFoundedInduction, TLAPS

\* A non-empty set of naturals has a least element.
LEMMA MinExists ==
  ASSUME NEW S \in SUBSET Nat, S # {}
  PROVE  \E i \in S : \A j \in S : i <= j
<1> DEFINE less == {x \in Nat \X Nat : x[1] < x[2]}
<1>1. IsWellFoundedOn(less, Nat)
  BY NatLessThanWellFounded DEF OpToRel
<1>2. PICK i \in S : \A j \in S : ~ (<<j, i>> \in less)
  BY <1>1, WFMin
<1>3. ASSUME NEW j \in S PROVE i <= j
  <2>1. ~(<<j, i>> \in less) /\ i \in Nat /\ j \in Nat
    BY <1>2
  <2> QED BY <2>1
<1> QED BY <1>3

-----------------------------------------------------------------------------
(* What the assumptions say of the trace.                                  *)

LEMMA TraceFacts ==
  ASSUME trace \in Traces
  PROVE  /\ Len(Groups) \in Nat /\ GroupIds = 1 .. Len(Groups) /\ NoGroup \notin GroupIds
         /\ \A g \in GroupIds :
              /\ Events(g) \in Seq(EventIds) /\ Events(g) # <<>>
              /\ \A i \in DOMAIN Events(g) : GroupOf(Events(g)[i]) = g
              /\ Next_gid(g) \in GroupIds \cup {NoGroup}
              /\ Next_gid(g) # NoGroup => Groups[Next_gid(g)].thread = Groups[g].thread
         /\ \A g, h \in GroupIds : Next_gid(g) # NoGroup /\ Next_gid(h) = Next_gid(g) => h = g
         /\ \A e \in EventIds :
              /\ GroupOf(e) \in GroupIds \cup {NoGroup}
              /\ GroupOf(e) # NoGroup => e \in Range(Events(GroupOf(e)))
              /\ Ev(e).peer \in EventRef
              /\ Ev(e).kind = "msg" => Ev(e).next \in EventRef
<1> DEFINE threads == {trace.group[g].thread : g \in DOMAIN trace.group}
           records == [thread : threads, next : Nat, events : Seq(EventIds), cut : BOOLEAN]
<1>1. TraceOK(trace) /\ Groups = trace.group /\ \A e : Ev(e) = trace.ev[e]
  BY TracesAssumption DEF Groups, Ev
<1>2. Groups \in Seq(records)
  BY <1>1 DEF TraceOK
<1> HIDE DEF threads, records
<1>3. Len(Groups) \in Nat /\ GroupIds = 1 .. Len(Groups)
  BY <1>2 DEF GroupIds
<1>4. NoGroup \notin GroupIds
  BY <1>3 DEF NoGroup
<1>5. ASSUME NEW g \in GroupIds
      PROVE  /\ Events(g) \in Seq(EventIds) /\ Events(g) # <<>>
             /\ \A i \in DOMAIN Events(g) : GroupOf(Events(g)[i]) = g
             /\ Next_gid(g) \in GroupIds \cup {NoGroup}
             /\ Next_gid(g) # NoGroup => Groups[Next_gid(g)].thread = Groups[g].thread
             /\ \A h \in GroupIds : Next_gid(g) # NoGroup /\ Next_gid(h) = Next_gid(g) => h = g
  <2>1. Events(g) \in Seq(EventIds)
    <3>1. Groups[g] \in records
      BY <1>2, <1>3
    <3> QED BY <3>1 DEF Events, records
  <2>2. /\ Events(g) # <<>>
        /\ \A i \in DOMAIN Events(g) : GroupOf(Events(g)[i]) = g
        /\ Next_gid(g) \in GroupIds \cup {NoGroup}
    BY <1>1 DEF TraceOK, GroupIds, Events, GroupOf, Next_gid
  <2>3. Next_gid(g) # NoGroup =>
          /\ Groups[Next_gid(g)].thread = Groups[g].thread
          /\ \A h \in GroupIds : Next_gid(h) = Next_gid(g) => h = g
    BY <1>1 DEF TraceOK, GroupIds, Next_gid
  <2> QED BY <2>1, <2>2, <2>3
<1>6. ASSUME NEW e \in EventIds
      PROVE  /\ GroupOf(e) \in GroupIds \cup {NoGroup}
             /\ GroupOf(e) # NoGroup => e \in Range(Events(GroupOf(e)))
             /\ Ev(e).peer \in EventRef
             /\ Ev(e).kind = "msg" => Ev(e).next \in EventRef
  BY <1>1 DEF TraceOK, GroupIds, GroupOf, Events
<1> QED BY <1>3, <1>4, <1>5, <1>6

\* What is read from the trace does not change.
LEMMA TraceFixed ==
  ASSUME trace' = trace
  PROVE  /\ Groups' = Groups /\ GroupIds' = GroupIds
         /\ \A g : /\ Events(g)' = Events(g) /\ Next_gid(g)' = Next_gid(g)
                   /\ FirstEvent(g)' = FirstEvent(g) /\ NSApp(g)' = NSApp(g)
                   /\ WeakEdge(g)' = WeakEdge(g) /\ Previous(g)' = Previous(g)
         /\ \A e : GroupOf(e)' = GroupOf(e)
         /\ \A g, e : Connections(g, e)' = Connections(g, e)
         /\ \A p : Onward(p)' = Onward(p)
         /\ root' = root => MainThread' = MainThread
<1>1. Groups' = Groups /\ GroupIds' = GroupIds /\ \A e : Ev(e)' = Ev(e)
  BY DEF Groups, GroupIds, Ev
<1>2. \A g : Events(g)' = Events(g) /\ Next_gid(g)' = Next_gid(g)
  BY <1>1 DEF Events, Next_gid
<1>3. \A g : FirstEvent(g)' = FirstEvent(g) /\ NSApp(g)' = NSApp(g) /\ LastEvent(g)' = LastEvent(g)
  BY DEF FirstEvent, NSApp, Has, LastEvent, Events, Groups, Ev
<1>4. \A g : WeakEdge(g)' = WeakEdge(g) /\ Previous(g)' = Previous(g)
  BY <1>1, <1>2, <1>3 DEF WeakEdge, InTime, Previous
<1>5. \A e : GroupOf(e)' = GroupOf(e) /\ PeerOf(e)' = PeerOf(e) /\ Relation(e)' = Relation(e)
  BY <1>1 DEF GroupOf, PeerOf, Relation
<1>6. \A g, e : Connections(g, e)' = Connections(g, e)
  <2>1. \A g, e : After(g, e)' = After(g, e)
    BY <1>2 DEF After, Position
  <2>2. \A e, f : InTime(e, f)' = InTime(e, f)
    BY <1>1 DEF InTime
  <2> QED BY <1>5, <2>1, <2>2 DEF Connections
<1>7. \A p : Onward(p)' = Onward(p)
  BY <1>3, <1>4, <1>5, <1>6 DEF Onward
<1>8. root' = root => MainThread' = MainThread
  BY <1>1 DEF MainThread
<1> QED BY <1>1, <1>2, <1>3, <1>4, <1>5, <1>6, <1>7, <1>8

\* The first and the last event of a group, and the place of any, are in it.
LEMMA MemberFacts ==
  ASSUME trace \in Traces, NEW g \in GroupIds
  PROVE  /\ FirstEvent(g) \in Range(Events(g)) /\ LastEvent(g) \in Range(Events(g))
         /\ \A e \in Range(Events(g)) :
              /\ e \in EventIds /\ GroupOf(e) = g
              /\ Position(g, e) \in 1 .. Len(Events(g)) /\ Events(g)[Position(g, e)] = e
<1>1. /\ Events(g) \in Seq(EventIds) /\ Events(g) # <<>>
      /\ \A i \in DOMAIN Events(g) : GroupOf(Events(g)[i]) = g
  BY TraceFacts
<1>2. /\ Len(Events(g)) \in Nat \ {0} /\ DOMAIN Events(g) = 1 .. Len(Events(g))
      /\ \A i \in DOMAIN Events(g) : Events(g)[i] \in EventIds
  BY <1>1
<1>3. \A i \in DOMAIN Events(g) : Events(g)[i] \in Range(Events(g))
  BY DEF Range
<1>4. LastEvent(g) \in Range(Events(g))
  BY <1>2, <1>3 DEF LastEvent
<1>5. FirstEvent(g) \in Range(Events(g))
  <2> DEFINE real == {i \in DOMAIN Events(g) : Ev(Events(g)[i]).kind # "backtrace"}
             first == CHOOSE i \in real : \A j \in real : i <= j
  <2>1. CASE real = {}
    <3>1. FirstEvent(g) = Events(g)[1]
      BY <2>1 DEF FirstEvent
    <3> QED BY <1>2, <1>3, <3>1
  <2>2. CASE real # {}
    <3>1. real \in SUBSET Nat
      BY <1>2
    <3>2. \E i \in real : \A j \in real : i <= j
      BY <2>2, <3>1, MinExists
    <3>3. first \in real
      BY <3>2
    <3>4. FirstEvent(g) = Events(g)[first]
      BY <2>2 DEF FirstEvent
    <3> QED BY <1>3, <3>3, <3>4
  <2> QED BY <2>1, <2>2
<1>6. ASSUME NEW e \in Range(Events(g))
      PROVE  /\ e \in EventIds /\ GroupOf(e) = g
             /\ Position(g, e) \in 1 .. Len(Events(g)) /\ Events(g)[Position(g, e)] = e
  <2>1. \E i \in DOMAIN Events(g) : Events(g)[i] = e
    BY DEF Range
  <2>2. Position(g, e) \in DOMAIN Events(g) /\ Events(g)[Position(g, e)] = e
    BY <2>1 DEF Position
  <2> QED BY <1>1, <1>2, <2>2
<1> QED BY <1>4, <1>5, <1>6

\* What a group that was entered by an event leads to.
Leads(g, a) == Connections(g, a) \cup WeakEdge(g)

LEMMA LeadsFacts ==
  ASSUME trace \in Traces, NEW g \in GroupIds, NEW a \in Range(Events(g)), NEW c \in Leads(g, a)
  PROVE  /\ c.from \in Range(Events(g)) /\ c.from \in EventIds /\ GroupOf(c.from) = g
         /\ c.to \in EventIds
<1>1. CASE c \in Connections(g, a)
  <2>1. PICK e \in After(g, a) : PeerOf(e) # NoEvent /\ c = Edge(e, PeerOf(e), Relation(e))
    BY <1>1 DEF Connections
  <2>2. PICK i \in Position(g, a) .. Len(Events(g)) : e = Events(g)[i]
    BY <2>1 DEF After
  <2>3. i \in DOMAIN Events(g)
    <3>1. Position(g, a) \in 1 .. Len(Events(g)) /\ Events(g) \in Seq(EventIds)
      BY TraceFacts, MemberFacts
    <3> QED BY <2>2, <3>1
  <2>4. e \in Range(Events(g))
    BY <2>2, <2>3 DEF Range
  <2>5. e \in EventIds /\ GroupOf(e) = g
    BY <2>4, MemberFacts
  <2>6. PeerOf(e) \in EventIds
    <3>1. Ev(e).peer \in EventRef /\ (Ev(e).kind = "msg" => Ev(e).next \in EventRef)
      BY <2>5, TraceFacts
    <3> QED BY <2>1, <3>1 DEF PeerOf, EventRef
  <2>7. c.from = e /\ c.to = PeerOf(e)
    BY <2>1 DEF Edge
  <2> QED BY <2>4, <2>5, <2>6, <2>7
<1>2. CASE c \in WeakEdge(g)
  <2>1. Next_gid(g) # NoGroup /\ c = Edge(LastEvent(g), FirstEvent(Next_gid(g)), "WEAK")
    BY <1>2 DEF WeakEdge
  <2>2. Next_gid(g) \in GroupIds
    BY <2>1, TraceFacts
  <2>3. /\ LastEvent(g) \in Range(Events(g)) /\ LastEvent(g) \in EventIds
        /\ GroupOf(LastEvent(g)) = g /\ FirstEvent(Next_gid(g)) \in EventIds
    BY <2>2, MemberFacts
  <2>4. c.from = LastEvent(g) /\ c.to = FirstEvent(Next_gid(g))
    BY <2>1 DEF Edge
  <2> QED BY <2>3, <2>4
<1> QED BY <1>1, <1>2 DEF Leads

\* The map has, for each group but g that the edges lead to, one that does.
LEMMA ByGroupFacts ==
  ASSUME trace \in Traces, NEW g \in GroupIds, NEW a \in Range(Events(g)),
         NEW es \in SUBSET Leads(g, a)
  PROVE  /\ DOMAIN ByGroup(g, es) = {GroupOf(e.to) : e \in es} \ {g}
         /\ \A h \in DOMAIN ByGroup(g, es) :
              ByGroup(g, es)[h] \in es /\ GroupOf(ByGroup(g, es)[h].to) = h
<1>1. DOMAIN ByGroup(g, es) = {GroupOf(e.to) : e \in es} \ {g}
  BY DEF ByGroup
<1>2. ASSUME NEW h \in DOMAIN ByGroup(g, es)
      PROVE  ByGroup(g, es)[h] \in es /\ GroupOf(ByGroup(g, es)[h].to) = h
  <2> DEFINE P(e) == /\ GroupOf(e.to) = h
                     /\ \A f \in es : GroupOf(f.to) = h => Rank(g, e) <= Rank(g, f)
             ranks == {Rank(g, e) : e \in {f \in es : GroupOf(f.to) = h}}
  <2>1. ranks # {}
    BY <1>1
  <2>2. ranks \in SUBSET Nat
    <3> SUFFICES ASSUME NEW e \in es PROVE Rank(g, e) \in Nat
      OBVIOUS
    <3>1. e.from \in Range(Events(g))
      BY LeadsFacts
    <3>2. Position(g, e.from) \in 1 .. Len(Events(g)) /\ Events(g) \in Seq(EventIds)
      BY <3>1, MemberFacts, TraceFacts
    <3> QED BY <3>2 DEF Rank
  <2>3. PICK r \in ranks : \A s \in ranks : r <= s
    BY <2>1, <2>2, MinExists
  <2>4. \E e \in es : P(e)
    BY <2>3
  <2>5. ByGroup(g, es)[h] = CHOOSE e \in es : P(e)
    BY <1>1 DEF ByGroup
  <2> QED BY <2>4, <2>5
<1> QED BY <1>1, <1>2

-----------------------------------------------------------------------------
(* The inductive invariant.                                                *)

\* The walk goes along the thread of the root, and searches on from the groups it meets.
WalkInv ==
  /\ phase \in {"walk", "done"} => work = {}
  /\ phase = "search" => cur \in nodes
  /\ walked \subseteq nodes
  /\ cur # NoGroup => Groups[cur].thread = Groups[root].thread
  /\ rootNode = NoGroup => cur = root /\ (phase = "walk" => nodes = {})
  /\ rootNode # NoGroup /\ cur # NoGroup /\ phase \in {"walk", "search"} =>
       /\ Next_gid(root) # NoGroup
       /\ Groups[root].thread = MainThread => Previous(cur) \in main

\* main_nodes has the nodes of the main thread.
MainInv == main = {g \in nodes : Groups[g].thread = MainThread}

\* What has been proposed leads to nodes, and all of a group that does not wait has been.
Expanded(g) == \A item \in work : item[1] # g
EdgesInv ==
  phase # "crashed" =>
    /\ \A e \in edges : /\ GroupOf(e.to) # NoGroup
                        /\ \/ GroupOf(e.to) \in nodes \/ NSApp(GroupOf(e.to))
                           \/ GroupOf(e.to) = GroupOf(e.from)
    /\ \A g \in nodes : Expanded(g) => Connections(g, entry[g]) \cup WeakEdge(g) \subseteq edges

IInv == trace \in Traces /\ TypeOK /\ WalkInv /\ MainInv /\ EdgesInv /\ CrashesOnly

LEMMA InitIInv == Init => IInv
<1> SUFFICES ASSUME Init PROVE IInv
  OBVIOUS
<1>1. trace \in Traces /\ root \in GroupIds /\ NoGroup \notin GroupIds
  BY TraceFacts DEF Init
<1>2. TypeOK
  BY <1>1 DEF Init, TypeOK
<1>3. WalkInv
  BY DEF Init, WalkInv
<1>4. MainInv /\ EdgesInv /\ CrashesOnly
  BY DEF Init, MainInv, EdgesInv, CrashesOnly
<1> QED BY <1>1, <1>2, <1>3, <1>4 DEF IInv

\* A step that adds neither node nor edge.
LEMMA QuietStep ==
  ASSUME IInv, UNCHANGED <<trace, root, nodes, filed, main, work, edges, entry>>,
         phase' \in {"walk", "search", "done"}, phase # "crashed", cur' \in GroupIds \cup {NoGroup},
         {rootNode', end'} \subseteq nodes \cup {NoGroup}, walked' \subseteq nodes, WalkInv'
  PROVE  IInv'
<1>1. trace' \in Traces
  BY DEF IInv
<1>2. TypeOK'
  BY TraceFixed DEF IInv, TypeOK
<1>3. MainInv'
  BY TraceFixed DEF IInv, MainInv
<1>4. EdgesInv'
  <2>1. \A g : Expanded(g)' <=> Expanded(g)
    BY DEF Expanded
  <2> QED BY <2>1, TraceFixed DEF IInv, EdgesInv
<1>5. CrashesOnly'
  BY DEF CrashesOnly
<1> QED BY <1>1, <1>2, <1>3, <1>4, <1>5 DEF IInv

\* The end of the walk.
LEMMA FinishStep == IInv /\ Finish => IInv'
<1> SUFFICES ASSUME IInv, Finish PROVE IInv'
  OBVIOUS
<1> DEFINE views == {g \in main : View(g)}
           last == CHOOSE g \in views : \A h \in views : g <= h
<1>1. /\ phase = "walk" /\ phase' = "done"
      /\ UNCHANGED <<trace, root, cur, nodes, filed, main, work, edges, entry, rootNode, walked>>
      /\ end' = IF end # NoGroup \/ views = {} THEN end ELSE last
  BY DEF Finish
<1>2. views \subseteq nodes /\ nodes \subseteq GroupIds /\ end \in nodes \cup {NoGroup}
  BY DEF IInv, TypeOK
<1>3. views # {} => last \in views
  <2>1. views \in SUBSET Nat
    BY <1>2, TraceFacts DEF IInv
  <2> HIDE DEF views
  <2>2. views # {} => \E g \in views : \A h \in views : g <= h
    BY <2>1, MinExists
  <2> QED BY <2>2
<1>4. end' \in nodes \cup {NoGroup}
  BY <1>1, <1>2, <1>3
<1>5. WalkInv'
  BY <1>1, TraceFixed DEF IInv, WalkInv
<1> QED BY <1>1, <1>4, <1>5, QuietStep DEF IInv, TypeOK, WalkInv

\* The group before another, of its thread.
LEMMA PreviousFacts ==
  ASSUME trace \in Traces, NEW g \in GroupIds, Next_gid(g) # NoGroup
  PROVE  Next_gid(g) \in GroupIds /\ Previous(Next_gid(g)) = g
<1>1. Next_gid(g) \in GroupIds /\ \A h \in GroupIds : Next_gid(h) = Next_gid(g) => h = g
  BY TraceFacts
<1> QED BY <1>1 DEF Previous

\* The walk goes on to the next group of the thread of the root.
LEMMA WalksOn ==
  ASSUME IInv, cur \in GroupIds, cur' = Next_gid(cur)
  PROVE  /\ cur' \in GroupIds \cup {NoGroup}
         /\ cur' # NoGroup => Groups[cur'].thread = Groups[root].thread /\ Previous(cur') = cur
<1>1. Next_gid(cur) \in GroupIds \cup {NoGroup} /\ cur # NoGroup
  BY TraceFacts DEF IInv
<1>2. Next_gid(cur) # NoGroup => Groups[Next_gid(cur)].thread = Groups[cur].thread
  BY TraceFacts DEF IInv
<1>3. Groups[cur].thread = Groups[root].thread
  BY <1>1 DEF IInv, WalkInv
<1> QED BY <1>1, <1>2, <1>3, PreviousFacts DEF IInv

\* Going past a group.
LEMMA SkipStep == IInv /\ Skip => IInv'
<1> SUFFICES ASSUME IInv, Skip PROVE IInv'
  OBVIOUS
<1>1. /\ phase = "walk" /\ cur \in main /\ cur' = Next_gid(cur)
      /\ UNCHANGED <<trace, root, phase, nodes, filed, main, work, edges, end, entry, rootNode, walked>>
  BY DEF Skip, graph
<1>2. cur \in nodes /\ cur \in GroupIds
  BY <1>1 DEF IInv, TypeOK
<1>3. /\ cur' \in GroupIds \cup {NoGroup}
      /\ cur' # NoGroup => Groups[cur'].thread = Groups[root].thread /\ Previous(cur') = cur
  BY <1>1, <1>2, WalksOn
<1>4. rootNode # NoGroup
  BY <1>1, <1>2 DEF IInv, WalkInv
<1>5. cur # NoGroup
  BY <1>2, TraceFacts DEF IInv
<1>6. WalkInv'
  <2>1. Next_gid(root) # NoGroup
    BY <1>1, <1>4, <1>5 DEF IInv, WalkInv
  <2> QED BY <1>1, <1>3, <1>4, <2>1, TraceFixed DEF IInv, WalkInv
<1> QED BY <1>1, <1>3, <1>6, QuietStep DEF IInv, TypeOK, WalkInv

\* Adding nodes keeps main_nodes, the nodes filed and the end node among the nodes.
LEMMA AddFacts ==
  ASSUME IInv, trace' = trace, root' = root, NEW gs \in SUBSET GroupIds, AddNodes(gs)
  PROVE  /\ nodes' = nodes \cup gs /\ nodes' \subseteq GroupIds /\ filed' \subseteq nodes'
         /\ MainInv' /\ main' \subseteq nodes' /\ end' \in nodes' \cup {NoGroup}
         /\ main \subseteq main'
<1> DEFINE mains == {g \in gs : Groups[g].thread = MainThread}
           views == {g \in mains : View(g)}
<1>1. /\ nodes' = nodes \cup gs /\ filed' = IF Asserts THEN filed \cup gs ELSE filed
      /\ main' = main \cup mains
      /\ end' = end \/ end' \in views
  BY DEF AddNodes
<1>2. /\ nodes \subseteq GroupIds /\ filed \subseteq nodes /\ end \in nodes \cup {NoGroup}
      /\ main = {g \in nodes : Groups[g].thread = MainThread}
  BY DEF IInv, TypeOK, MainInv
<1>3. main' = {g \in nodes' : Groups[g].thread = MainThread}
  BY <1>1, <1>2
<1>4. MainInv'
  BY <1>3, TraceFixed DEF MainInv
<1> QED BY <1>1, <1>2, <1>3, <1>4

\* A group of the walk.
LEMMA AugmentStep == IInv /\ Augment => IInv'
<1> SUFFICES ASSUME IInv, Augment PROVE IInv'
  OBVIOUS
<1>1. /\ phase = "walk" /\ phase' = "search" /\ cur # NoGroup /\ cur \notin main
      /\ walked' = walked \cup {cur} /\ UNCHANGED <<trace, root, cur, rootNode>>
  BY DEF Augment, Over
<1>2. trace \in Traces /\ cur \in GroupIds /\ work = {}
  BY <1>1 DEF IInv, TypeOK, WalkInv
<1>3. CASE cur \in nodes
  <2>1. UNCHANGED graph
    BY <1>3 DEF Augment
  <2>2. walked' \subseteq nodes
    BY <1>1, <1>3 DEF IInv, WalkInv
  <2>3. WalkInv'
    BY <1>1, <1>3, <2>1, <2>2, TraceFixed DEF IInv, WalkInv, graph
  <2> QED BY <1>1, <1>2, <2>1, <2>2, <2>3, QuietStep DEF IInv, TypeOK, graph
<1>4. CASE cur \notin nodes
  <2> DEFINE first == FirstEvent(cur)
  <2>1. /\ AddNodes({cur}) /\ work' = {<<cur, first>>} /\ edges' = edges
        /\ entry' = [g \in nodes \cup {cur} |-> IF g = cur THEN first ELSE entry[g]]
    BY <1>4 DEF Augment
  <2>2. /\ nodes' = nodes \cup {cur} /\ nodes' \subseteq GroupIds /\ filed' \subseteq nodes'
        /\ MainInv' /\ main' \subseteq nodes' /\ end' \in nodes' \cup {NoGroup} /\ main \subseteq main'
    BY <1>1, <1>2, <2>1, AddFacts
  <2>3. first \in Range(Events(cur))
    BY <1>2, MemberFacts
  <2> HIDE DEF first
  <2>4. TypeOK'
    <3>1. /\ root' \in GroupIds' /\ cur' \in (GroupIds \cup {NoGroup})'
          /\ phase' \in {"walk", "search", "done", "crashed"}
          /\ (walked \subseteq GroupIds)' /\ {rootNode', end'} \subseteq nodes' \cup {NoGroup}
      BY <1>1, <1>2, <2>2, TraceFixed DEF IInv, TypeOK
    <3>2. DOMAIN entry' = nodes' /\ \A g \in nodes' : entry'[g] \in Range(Events(g)')
      BY <1>1, <1>4, <2>1, <2>2, <2>3, TraceFixed DEF IInv, TypeOK
    <3>3. \A item \in work' : item[1] \in nodes' /\ item[2] = entry'[item[1]]
      BY <2>1, <2>2
    <3>4. \A e \in edges' : {e.from, e.to} \subseteq EventIds
      BY <2>1 DEF IInv, TypeOK
    <3> QED BY <1>1, <2>2, <3>1, <3>2, <3>3, <3>4, TraceFixed DEF TypeOK
  <2>5. WalkInv'
    BY <1>1, <2>1, <2>2, TraceFixed DEF IInv, WalkInv
  <2>6. EdgesInv'
    <3>1. ASSUME NEW e \in edges
          PROVE  /\ GroupOf(e.to) # NoGroup
                 /\ GroupOf(e.to) \in nodes' \/ NSApp(GroupOf(e.to)) \/ GroupOf(e.to) = GroupOf(e.from)
      BY <1>1, <2>2 DEF IInv, EdgesInv
    <3>2. ASSUME NEW g \in nodes', Expanded(g)'
          PROVE  Connections(g, entry'[g]) \cup WeakEdge(g) \subseteq edges
      <4>1. g # cur
        BY <2>1, <3>2 DEF Expanded
      <4>2. g \in nodes /\ entry'[g] = entry[g] /\ Expanded(g)
        BY <1>2, <2>1, <2>2, <3>2, <4>1 DEF Expanded
      <4> QED BY <1>1, <4>2 DEF IInv, EdgesInv
    <3> QED BY <1>1, <2>1, <3>1, <3>2, TraceFixed DEF EdgesInv
  <2>7. CrashesOnly'
    BY <1>1 DEF CrashesOnly
  <2> QED BY <1>1, <1>2, <2>2, <2>4, <2>5, <2>6, <2>7 DEF IInv
<1> QED BY <1>3, <1>4

\* What one call of BFS does, for a node g that waits.
Found(item, gs) ==
  LET leads == Leads(item[1], item[2]) IN
  /\ gs \subseteq GroupIds \ nodes /\ AddNodes(gs)
  /\ work' = (work \ {item}) \cup {<<h, entry'[h]>> : h \in gs}
  /\ DOMAIN entry' = nodes \cup gs /\ \A h \in nodes : entry'[h] = entry[h]
  /\ \A h \in gs : h # item[1] /\ ~NSApp(h) /\ \E c \in leads : c.to = entry'[h] /\ GroupOf(c.to) = h
  /\ \A c \in leads \ edges :
       /\ GroupOf(c.to) # NoGroup
       /\ GroupOf(c.to) = item[1] \/ NSApp(GroupOf(c.to)) \/ GroupOf(c.to) \in nodes \cup gs

LEMMA SearchFacts ==
  ASSUME IInv, Search
  PROVE  /\ phase = "search" /\ UNCHANGED <<trace, root, cur, rootNode, walked>>
         /\ \E item \in work :
              /\ item[1] \in nodes /\ item[2] = entry[item[1]]
              /\ item[1] \in GroupIds /\ item[2] \in Range(Events(item[1]))
              /\ edges' = edges \cup Leads(item[1], item[2])
              /\ \/ /\ phase' = "crashed" /\ UNCHANGED <<nodes, filed, main, end, work, entry>>
                    /\ \E e \in edges' : GroupOf(e.to) = NoGroup
                 \/ phase' = phase /\ \E gs : Found(item, gs)
<1>1. phase = "search" /\ UNCHANGED <<trace, root, cur, rootNode, walked>> /\ trace \in Traces
  BY DEF Search, IInv
<1>2. PICK item \in work :
        LET g   == item[1]
            out == Outgoing(g, item[2])
        IN  /\ edges' = edges \cup Connections(g, item[2]) \cup WeakEdge(g)
            /\ IF NoGroup \in DOMAIN out
               THEN phase' = "crashed" /\ UNCHANGED <<nodes, filed, main, end, work, entry>>
               ELSE /\ AddNodes(Reached(out))
                    /\ work' = (work \ {item}) \cup {<<h, Target(out[h])>> : h \in Reached(out)}
                    /\ entry' = [h \in nodes \cup Reached(out) |->
                                   IF h \in nodes THEN entry[h] ELSE Target(out[h])]
                    /\ UNCHANGED phase
  BY DEF Search
<1> DEFINE g == item[1]
           a == item[2]
           out == Outgoing(g, a)
           es == Leads(g, a) \ edges
<1>3. g \in nodes /\ a = entry[g] /\ g \in GroupIds /\ a \in Range(Events(g))
  BY DEF IInv, TypeOK
<1>4. edges' = edges \cup Leads(g, a)
  BY <1>2 DEF Leads
<1>5. out = ByGroup(g, es) /\ es \in SUBSET Leads(g, a)
  BY DEF Outgoing, New, Leads
<1> HIDE DEF out, es
<1>6. /\ DOMAIN out = {GroupOf(e.to) : e \in es} \ {g}
      /\ \A h \in DOMAIN out : out[h] \in es /\ GroupOf(out[h].to) = h
  BY <1>1, <1>3, <1>5, ByGroupFacts
<1>7. CASE NoGroup \in DOMAIN out
  <2>1. phase' = "crashed" /\ UNCHANGED <<nodes, filed, main, end, work, entry>>
    BY <1>2, <1>7 DEF out
  <2>2. PICK e \in es : GroupOf(e.to) = NoGroup
    BY <1>6, <1>7
  <2>3. e \in edges'
    BY <1>4 DEF es
  <2> QED BY <1>1, <1>3, <1>4, <2>1, <2>2, <2>3
<1>8. CASE NoGroup \notin DOMAIN out
  <2> DEFINE gs == Reached(out)
  <2>1. /\ AddNodes(gs) /\ phase' = phase
        /\ work' = (work \ {item}) \cup {<<h, Target(out[h])>> : h \in gs}
        /\ entry' = [h \in nodes \cup gs |-> IF h \in nodes THEN entry[h] ELSE Target(out[h])]
    BY <1>2, <1>8 DEF out
  <2>2. gs = {h \in DOMAIN out : ~NSApp(h) /\ h \notin nodes}
    BY DEF Reached
  <2>3. ASSUME NEW c \in es PROVE c.to \in EventIds /\ GroupOf(c.to) \in GroupIds \cup {NoGroup}
    BY <1>1, <1>3, LeadsFacts, TraceFacts DEF es
  <2>4. gs \subseteq GroupIds \ nodes
    <3>1. \A h \in DOMAIN out : h \in GroupIds
      BY <1>6, <1>8, <2>3
    <3> QED BY <2>2, <3>1
  <2>5. \A h \in gs : /\ h # g /\ ~NSApp(h) /\ entry'[h] = out[h].to
                      /\ out[h] \in Leads(g, a) /\ GroupOf(out[h].to) = h
    BY <1>6, <2>1, <2>2 DEF Target, es
  <2>6. \A c \in es : /\ GroupOf(c.to) # NoGroup
                      /\ GroupOf(c.to) = g \/ NSApp(GroupOf(c.to)) \/ GroupOf(c.to) \in nodes \cup gs
    <3>1. g # NoGroup
      BY <1>1, <1>3, TraceFacts
    <3> QED BY <1>6, <1>8, <2>2, <3>1
  <2>7. work' = (work \ {item}) \cup {<<h, entry'[h]>> : h \in gs}
    BY <2>1, <2>5 DEF Target
  <2>8. DOMAIN entry' = nodes \cup gs /\ \A h \in nodes : entry'[h] = entry[h]
    BY <2>1
  <2> HIDE DEF gs
  <2>9. Found(item, gs)
    BY <2>1, <2>4, <2>5, <2>6, <2>7, <2>8 DEF Found, es
  <2> QED BY <1>1, <1>3, <1>4, <2>1, <2>9
<1> QED BY <1>7, <1>8

\* Expanding a node that waits.
LEMMA SearchStep == IInv /\ Search => IInv'
<1> SUFFICES ASSUME IInv, Search PROVE IInv'
  OBVIOUS
<1>1. phase = "search" /\ UNCHANGED <<trace, root, cur, rootNode, walked>> /\ trace \in Traces
  BY SearchFacts DEF IInv
<1>2. PICK item \in work :
        /\ item[1] \in nodes /\ item[2] = entry[item[1]]
        /\ item[1] \in GroupIds /\ item[2] \in Range(Events(item[1]))
        /\ edges' = edges \cup Leads(item[1], item[2])
        /\ \/ /\ phase' = "crashed" /\ UNCHANGED <<nodes, filed, main, end, work, entry>>
              /\ \E e \in edges' : GroupOf(e.to) = NoGroup
           \/ phase' = phase /\ \E gs : Found(item, gs)
  BY SearchFacts
<1> DEFINE g == item[1]
           a == item[2]
<1>3. \A e \in edges' : {e.from, e.to} \subseteq EventIds
  <2>1. \A e \in Leads(g, a) : {e.from, e.to} \subseteq EventIds
    BY <1>1, <1>2, LeadsFacts
  <2> QED BY <1>2, <2>1 DEF IInv, TypeOK
<1>4. /\ root' \in GroupIds' /\ cur' \in (GroupIds \cup {NoGroup})' /\ (walked \subseteq GroupIds)'
      /\ rootNode' \in nodes \cup {NoGroup}
  BY <1>1, TraceFixed DEF IInv, TypeOK
<1>5. CASE phase' = "crashed" /\ UNCHANGED <<nodes, filed, main, end, work, entry>>
           /\ \E e \in edges' : GroupOf(e.to) = NoGroup
  <2>1. TypeOK'
    BY <1>1, <1>3, <1>4, <1>5, TraceFixed DEF IInv, TypeOK
  <2>2. WalkInv'
    BY <1>1, <1>5, TraceFixed DEF IInv, WalkInv
  <2>3. MainInv'
    BY <1>1, <1>5, TraceFixed DEF IInv, MainInv
  <2>4. EdgesInv'
    BY <1>5 DEF EdgesInv
  <2>5. CrashesOnly'
    BY <1>1, <1>5, TraceFixed DEF CrashesOnly
  <2> QED BY <1>1, <2>1, <2>2, <2>3, <2>4, <2>5 DEF IInv
<1>6. CASE phase' = phase /\ \E gs : Found(item, gs)
  <2>1. PICK gs : Found(item, gs)
    BY <1>6
  <2>2. /\ gs \subseteq GroupIds /\ AddNodes(gs) /\ gs \cap nodes = {}
        /\ work' = (work \ {item}) \cup {<<h, entry'[h]>> : h \in gs}
        /\ DOMAIN entry' = nodes \cup gs /\ \A h \in nodes : entry'[h] = entry[h]
    BY <2>1 DEF Found
  <2>3. \A h \in gs : \E c \in Leads(g, a) : c.to = entry'[h] /\ GroupOf(c.to) = h
    BY <2>1 DEF Found
  <2>4. \A c \in Leads(g, a) \ edges :
          /\ GroupOf(c.to) # NoGroup
          /\ GroupOf(c.to) = g \/ NSApp(GroupOf(c.to)) \/ GroupOf(c.to) \in nodes \cup gs
    BY <2>1 DEF Found
  <2>5. /\ nodes' = nodes \cup gs /\ nodes' \subseteq GroupIds /\ filed' \subseteq nodes'
        /\ MainInv' /\ main' \subseteq nodes' /\ end' \in nodes' \cup {NoGroup} /\ main \subseteq main'
    BY <1>1, <2>2, AddFacts
  <2>6. \A h \in gs : entry'[h] \in Range(Events(h))
    <3> SUFFICES ASSUME NEW h \in gs PROVE entry'[h] \in Range(Events(h))
      OBVIOUS
    <3>1. PICK c \in Leads(g, a) : c.to = entry'[h] /\ GroupOf(c.to) = h
      BY <2>3
    <3>2. c.to \in EventIds /\ h # NoGroup
      BY <1>1, <1>2, <2>2, LeadsFacts, TraceFacts
    <3> QED BY <1>1, <3>1, <3>2, TraceFacts
  <2>7. TypeOK'
    <3>1. \A h \in nodes' : entry'[h] \in Range(Events(h)')
      BY <1>1, <2>2, <2>5, <2>6, TraceFixed DEF IInv, TypeOK
    <3>2. \A i \in work' : i[1] \in nodes' /\ i[2] = entry'[i[1]]
      <4>1. \A i \in work : i[1] \in nodes' /\ i[2] = entry'[i[1]]
        BY <2>2, <2>5 DEF IInv, TypeOK
      <4> QED BY <2>2, <2>5, <4>1
    <3>3. phase' \in {"walk", "search", "done", "crashed"} /\ {rootNode', end'} \subseteq nodes' \cup {NoGroup}
      BY <1>1, <1>4, <1>6, <2>5
    <3> QED BY <1>1, <1>3, <1>4, <2>2, <2>5, <3>1, <3>2, <3>3, TraceFixed DEF TypeOK
  <2>8. WalkInv'
    BY <1>1, <1>6, <2>5, TraceFixed DEF IInv, WalkInv
  <2>9. EdgesInv'
    <3>1. ASSUME NEW e \in edges'
          PROVE  /\ GroupOf(e.to) # NoGroup
                 /\ GroupOf(e.to) \in nodes' \/ NSApp(GroupOf(e.to)) \/ GroupOf(e.to) = GroupOf(e.from)
      <4>1. CASE e \in edges
        BY <1>1, <2>5, <4>1 DEF IInv, EdgesInv
      <4>2. CASE e \in Leads(g, a) \ edges
        <5>1. GroupOf(e.from) = g
          BY <1>1, <1>2, <4>2, LeadsFacts
        <5> QED BY <2>4, <2>5, <4>2, <5>1
      <4> QED BY <1>2, <4>1, <4>2
    <3>2. ASSUME NEW h \in nodes', Expanded(h)'
          PROVE  Connections(h, entry'[h]) \cup WeakEdge(h) \subseteq edges'
      <4>1. h \in nodes /\ entry'[h] = entry[h]
        <5>1. h \notin gs
          <6>1. \A k \in gs : <<k, entry'[k]>> \in work' /\ <<k, entry'[k]>>[1] = k
            BY <2>2
          <6> QED BY <3>2, <6>1 DEF Expanded
        <5> QED BY <2>2, <2>5, <3>2, <5>1
      <4>2. CASE h = g
        BY <1>2, <4>1, <4>2 DEF Leads
      <4>3. CASE h # g
        <5>1. Expanded(h)
          BY <2>2, <3>2, <4>3 DEF Expanded
        <5> QED BY <1>1, <1>2, <4>1, <5>1 DEF IInv, EdgesInv
      <4> QED BY <4>2, <4>3
    <3> QED BY <1>1, <3>1, <3>2, TraceFixed DEF EdgesInv
  <2>10. CrashesOnly'
    BY <1>1, <1>6 DEF CrashesOnly
  <2> QED BY <1>1, <2>5, <2>7, <2>8, <2>9, <2>10 DEF IInv
<1> QED BY <1>2, <1>5, <1>6

\* The end of the search from one group of the walk.
LEMMA AdvanceStep == IInv /\ Advance => IInv'
<1> SUFFICES ASSUME IInv, Advance PROVE IInv'
  OBVIOUS
<1>1. /\ phase = "search" /\ work = {} /\ cur' = Next_gid(cur)
      /\ UNCHANGED <<trace, root, nodes, filed, main, work, end, walked, entry>> /\ trace \in Traces
  BY DEF Advance, IInv
<1>2. cur \in nodes /\ cur \in GroupIds /\ cur # NoGroup
  BY <1>1, TraceFacts DEF IInv, TypeOK, WalkInv
<1>3. /\ cur' \in GroupIds \cup {NoGroup}
      /\ cur' # NoGroup => Groups[cur'].thread = Groups[root].thread /\ Previous(cur') = cur
  BY <1>1, <1>2, WalksOn
<1>4. Groups[root].thread = MainThread => cur \in main
  BY <1>2 DEF IInv, WalkInv, MainInv
<1>5. CASE rootNode = NoGroup
  <2>1. rootNode' = cur /\ phase' = "walk" /\ edges' = edges
    BY <1>5 DEF Advance
  <2>2. cur = root
    BY <1>5 DEF IInv, WalkInv
  <2>3. WalkInv'
    BY <1>1, <1>2, <1>3, <1>4, <2>1, <2>2, TraceFixed DEF IInv, WalkInv
  <2> QED BY <1>1, <1>2, <1>3, <2>1, <2>3, QuietStep DEF IInv, TypeOK, WalkInv
<1>6. CASE rootNode # NoGroup /\ Previous(cur) \notin main
  <2>1. rootNode' = rootNode /\ phase' = "crashed" /\ edges' = edges
    BY <1>6 DEF Advance
  <2>2. Next_gid(root) # NoGroup /\ Groups[root].thread # MainThread
    BY <1>1, <1>2, <1>6 DEF IInv, WalkInv
  <2>3. CrashesOnly'
    BY <1>1, <2>2, TraceFixed DEF CrashesOnly
  <2>4. TypeOK'
    BY <1>1, <1>3, <2>1, TraceFixed DEF IInv, TypeOK
  <2>5. WalkInv'
    BY <1>1, <1>3, <1>6, <2>1, TraceFixed DEF IInv, WalkInv
  <2>6. MainInv' /\ EdgesInv'
    BY <1>1, <2>1, TraceFixed DEF IInv, MainInv, EdgesInv
  <2> QED BY <1>1, <2>3, <2>4, <2>5, <2>6 DEF IInv
<1>7. CASE rootNode # NoGroup /\ Previous(cur) \in main
  <2> DEFINE p == Previous(cur)
  <2>1. rootNode' = rootNode /\ phase' = "walk" /\ edges' = edges \cup WeakEdge(p)
    BY <1>7 DEF Advance
  <2>2. p \in nodes /\ p \in GroupIds
    BY <1>7 DEF IInv, TypeOK
  <2>3. WeakEdge(p) \subseteq edges
    <3>1. Expanded(p)
      BY <1>1 DEF Expanded
    <3> QED BY <1>1, <2>2, <3>1 DEF IInv, EdgesInv
  <2>4. edges' = edges
    BY <2>1, <2>3
  <2>5. WalkInv'
    BY <1>1, <1>2, <1>3, <1>4, <1>7, <2>1, TraceFixed DEF IInv, WalkInv
  <2> QED BY <1>1, <1>2, <1>3, <2>1, <2>4, <2>5, QuietStep DEF IInv, TypeOK, WalkInv
<1> QED BY <1>5, <1>6, <1>7

\* Nothing happens.
LEMMA StutterStep == IInv /\ UNCHANGED vars => IInv'
<1> SUFFICES ASSUME IInv, UNCHANGED vars PROVE IInv'
  OBVIOUS
<1>1. UNCHANGED <<trace, root, cur, phase, nodes, filed, main, work, edges, end, entry, rootNode, walked>>
  BY DEF vars, graph
<1>2. TypeOK'
  BY <1>1, TraceFixed DEF IInv, TypeOK
<1>3. WalkInv' /\ MainInv'
  BY <1>1, TraceFixed DEF IInv, WalkInv, MainInv
<1>4. EdgesInv'
  <2>1. \A g : Expanded(g)' <=> Expanded(g)
    BY <1>1 DEF Expanded
  <2> QED BY <1>1, <2>1, TraceFixed DEF IInv, EdgesInv
<1>5. CrashesOnly'
  BY <1>1, TraceFixed DEF IInv, CrashesOnly
<1> QED BY <1>1, <1>2, <1>3, <1>4, <1>5 DEF IInv

LEMMA NextIInv == IInv /\ [Next]_vars => IInv'
BY FinishStep, SkipStep, AugmentStep, SearchStep, AdvanceStep, StutterStep DEF Next, Stopped

\* The invariant holds in every state.
THEOREM InvariantHolds == Spec => []IInv
BY InitIInv, NextIInv, PTL DEF Spec

\* What the search keeps are groups of the trace, and events of these groups: the state
\* variables of init_graph, augment_node and BFS have their types.
THEOREM TypeCorrect == Spec => []TypeOK
<1>1. IInv => TypeOK
  BY DEF IInv
<1> QED BY <1>1, InvariantHolds, PTL

\* init_graph and BFS meet a null pointer only for a connection to an event in no group,
\* or when the walk goes along another thread than the main thread.
THEOREM CrashesAreKnown == Spec => []CrashesOnly
<1>1. IInv => CrashesOnly
  BY DEF IInv
<1> QED BY <1>1, InvariantHolds, PTL

-----------------------------------------------------------------------------
(* The reference Reach, level by level.                                    *)

\* What the groups of bs lead to in n steps, for each n up to the number of groups.
Iterates(f, bs) ==
  f = [n \in 0 .. Len(Groups) |->
         IF n = 0 THEN bs ELSE f[n - 1] \cup UNION {Onward(p) : p \in f[n - 1]}]
Start  == {<<g, FirstEvent(g)>> : g \in walked}
Levels == CHOOSE f : Iterates(f, Start)

LEMMA ReachIsLast == Reach = Levels[Len(Groups)]
BY DEF Reach, Levels, Iterates, Start

LEMMA LevelsExist ==
  ASSUME trace \in Traces, NEW bs
  PROVE  \E f : Iterates(f, bs)
<1> DEFINE N == Len(Groups)
           Step(s) == s \cup UNION {Onward(p) : p \in s}
           Upto(f, k) == f = [n \in 0 .. k |-> IF n = 0 THEN bs ELSE Step(f[n - 1])]
           bad == {k \in 0 .. N : ~ \E f : Upto(f, k)}
<1>1. N \in Nat
  BY TraceFacts
<1>2. bad = {}
  <2> SUFFICES ASSUME bad # {} PROVE FALSE
    OBVIOUS
  <2>1. bad \in SUBSET Nat
    BY <1>1
  <2>2. PICK k \in bad : \A j \in bad : k <= j
    BY <2>1, MinExists
  <2>3. k \in 0 .. N /\ ~ \E f : Upto(f, k)
    BY <2>2
  <2>4. CASE k = 0
    <3>1. Upto([n \in 0 .. 0 |-> bs], 0)
      OBVIOUS
    <3> QED BY <2>3, <2>4, <3>1
  <2>5. CASE k # 0
    <3>1. \E f : Upto(f, k - 1)
      <4> HIDE DEF Upto
      <4>1. k - 1 \in 0 .. N /\ ~(k <= k - 1)
        BY <1>1, <2>3, <2>5
      <4>2. k - 1 \notin bad
        <5> HIDE DEF bad
        <5> QED BY <2>2, <4>1
      <4> QED BY <4>1, <4>2
    <3>2. PICK f : Upto(f, k - 1)
      BY <3>1
    <3> HIDE DEF Step
    <3> DEFINE g == [n \in 0 .. k |-> IF n = k THEN Step(f[k - 1]) ELSE f[n]]
    <3>3. \A n \in 0 .. k - 1 : g[n] = f[n] /\ f[n] = IF n = 0 THEN bs ELSE Step(f[n - 1])
      BY <2>3, <3>2
    <3>4. \A n \in 0 .. k : g[n] = IF n = 0 THEN bs ELSE Step(g[n - 1])
      <4> SUFFICES ASSUME NEW n \in 0 .. k PROVE g[n] = IF n = 0 THEN bs ELSE Step(g[n - 1])
        OBVIOUS
      <4>1. CASE n = k
        <5>1. k - 1 \in 0 .. k - 1
          BY <2>3, <2>5
        <5>2. g[k - 1] = f[k - 1]
          BY <3>3, <5>1
        <5>3. g[k] = Step(f[k - 1])
          BY <2>3
        <5> QED BY <2>5, <4>1, <5>2, <5>3
      <4>2. CASE n # k
        <5>1. n \in 0 .. k - 1
          BY <2>3, <4>2
        <5>2. n # 0 => n - 1 \in 0 .. k - 1
          BY <2>3, <5>1
        <5> QED BY <3>3, <5>1, <5>2
      <4> QED BY <4>1, <4>2
    <3>5. g = [n \in 0 .. k |-> IF n = 0 THEN bs ELSE Step(g[n - 1])]
      BY <3>4
    <3> QED BY <2>3, <3>5
  <2> QED BY <2>4, <2>5
<1>3. \E f : Upto(f, N)
  <2> HIDE DEF Upto
  <2>1. N \in 0 .. N
    BY <1>1
  <2> QED BY <1>2, <2>1
<1> QED BY <1>3 DEF Iterates

\* Each level has the one before, and more groups to start from lead to no fewer.
LEMMA LevelsGrow ==
  ASSUME trace \in Traces, NEW f, NEW bs, Iterates(f, bs)
  PROVE  /\ f[0] = bs
         /\ \A n \in 1 .. Len(Groups) : f[n] = f[n - 1] \cup UNION {Onward(p) : p \in f[n - 1]}
         /\ \A m, n \in 0 .. Len(Groups) : m <= n => f[m] \subseteq f[n]
         /\ \A g, cs : Iterates(g, cs) /\ bs \subseteq cs =>
              \A n \in 0 .. Len(Groups) : f[n] \subseteq g[n]
<1> DEFINE N == Len(Groups)
<1>1. N \in Nat
  BY TraceFacts
<1>2. \A g, cs : Iterates(g, cs) =>
        /\ g[0] = cs
        /\ \A n \in 1 .. N : g[n] = g[n - 1] \cup UNION {Onward(p) : p \in g[n - 1]}
  <2> SUFFICES ASSUME NEW g, NEW cs, Iterates(g, cs)
               PROVE  /\ g[0] = cs
                      /\ \A n \in 1 .. N : g[n] = g[n - 1] \cup UNION {Onward(p) : p \in g[n - 1]}
    OBVIOUS
  <2> DEFINE Step(s) == s \cup UNION {Onward(p) : p \in s}
  <2>1. g = [n \in 0 .. N |-> IF n = 0 THEN cs ELSE Step(g[n - 1])]
    BY DEF Iterates
  <2> HIDE DEF Step
  <2>2. \A n \in 0 .. N : g[n] = IF n = 0 THEN cs ELSE Step(g[n - 1])
    BY <2>1
  <2>3. g[0] = cs
    BY <1>1, <2>2
  <2>4. \A n \in 1 .. N : g[n] = Step(g[n - 1])
    BY <1>1, <2>2
  <2> QED BY <2>3, <2>4 DEF Step
<1>3. ASSUME NEW m \in 0 .. N, NEW n \in 0 .. N, m <= n PROVE f[m] \subseteq f[n]
  <2> DEFINE bad == {k \in m .. N : ~(f[m] \subseteq f[k])}
  <2>1. bad = {}
    <3> SUFFICES ASSUME bad # {} PROVE FALSE
      OBVIOUS
    <3>1. bad \in SUBSET Nat
      BY <1>1
    <3>2. PICK k \in bad : \A j \in bad : k <= j
      BY <3>1, MinExists
    <3>3. k \in m .. N /\ ~(f[m] \subseteq f[k]) /\ k # m
      BY <3>2
    <3>4. k \in 1 .. N /\ k - 1 \in m .. N /\ k - 1 \notin bad
      BY <1>1, <3>2, <3>3
    <3>5. f[m] \subseteq f[k - 1]
      BY <3>4
    <3>6. f[k - 1] \subseteq f[k]
      BY <1>2, <3>4
    <3> QED BY <3>3, <3>5, <3>6
  <2>2. n \in m .. N
    BY <1>1, <1>3
  <2> QED BY <2>1, <2>2
<1>4. ASSUME NEW g, NEW cs, Iterates(g, cs), bs \subseteq cs, NEW n \in 0 .. N
      PROVE  f[n] \subseteq g[n]
  <2> DEFINE bad == {k \in 0 .. N : ~(f[k] \subseteq g[k])}
  <2>1. bad = {}
    <3> SUFFICES ASSUME bad # {} PROVE FALSE
      OBVIOUS
    <3>1. bad \in SUBSET Nat
      BY <1>1
    <3>2. PICK k \in bad : \A j \in bad : k <= j
      BY <3>1, MinExists
    <3>3. f[0] = bs /\ g[0] = cs
      BY <1>2, <1>4
    <3>4. k \in 0 .. N /\ ~(f[k] \subseteq g[k]) /\ k # 0
      BY <1>4, <3>2, <3>3
    <3>5. k \in 1 .. N /\ k - 1 \in 0 .. N /\ k - 1 \notin bad
      BY <1>1, <3>2, <3>4
    <3>6. f[k - 1] \subseteq g[k - 1]
      BY <3>5
    <3>7. /\ f[k] = f[k - 1] \cup UNION {Onward(p) : p \in f[k - 1]}
          /\ g[k] = g[k - 1] \cup UNION {Onward(p) : p \in g[k - 1]}
      BY <1>2, <1>4, <3>5
    <3> QED BY <3>4, <3>6, <3>7
  <2> QED BY <2>1
<1> QED BY <1>2, <1>3, <1>4

\* The levels are those of Iterates, and reach no less when the walk has gone further.
LEMMA LevelsFacts ==
  ASSUME trace \in Traces
  PROVE  Iterates(Levels, Start)
<1>1. \E f : Iterates(f, Start)
  BY LevelsExist
<1> QED BY <1>1 DEF Levels

LEMMA LevelsLater ==
  ASSUME trace \in Traces, trace' = trace, walked \subseteq walked'
  PROVE  /\ Iterates(Levels', Start')
         /\ \A n \in 0 .. Len(Groups) : Levels[n] \subseteq Levels'[n]
<1> DEFINE Later(f) == f = [n \in 0 .. Len(Groups') |->
             IF n = 0 THEN Start' ELSE f[n - 1] \cup UNION {Onward(p)' : p \in f[n - 1]}]
<1>1. \A f : Later(f) <=> Iterates(f, Start')
  BY TraceFixed DEF Iterates
<1>2. \E f : Later(f)
  BY <1>1, LevelsExist
<1>3. Iterates(Levels', Start')
  <2>1. Levels' = CHOOSE f : Later(f)
    BY DEF Levels, Iterates
  <2>2. Later(Levels')
    <3> HIDE DEF Later
    <3> QED BY <1>2, <2>1
  <2> HIDE DEF Later
  <2> QED BY <1>1, <2>2
<1>4. Start \subseteq Start'
  BY TraceFixed DEF Start
<1> QED BY <1>3, <1>4, LevelsFacts, LevelsGrow

-----------------------------------------------------------------------------
(* Every node is reachable.                                                *)

\* A node is reached in fewer steps than there are nodes.
DepthInv == \A g \in nodes : <<g, entry[g]>> \in Levels[Cardinality(nodes)]

LEMMA CountFacts ==
  ASSUME trace \in Traces, NEW S, NEW T, S \subseteq T, T \subseteq GroupIds
  PROVE  /\ Cardinality(S) \in 0 .. Len(Groups) /\ Cardinality(T) \in 0 .. Len(Groups)
         /\ Cardinality(S) <= Cardinality(T)
         /\ S # T => Cardinality(S) < Cardinality(T)
<1>1. Len(Groups) \in Nat /\ GroupIds = 1 .. Len(Groups)
  BY TraceFacts
<1>2. IsFiniteSet(GroupIds) /\ Cardinality(GroupIds) = Len(Groups)
  <2> DEFINE n == Len(Groups)
  <2>1. 1 \in Int /\ n \in Int /\ n \in Nat
    BY <1>1
  <2> HIDE DEF n
  <2>2. IsFiniteSet(1 .. n) /\ Cardinality(1 .. n) = IF 1 > n THEN 0 ELSE n - 1 + 1
    BY <2>1, FS_Interval
  <2>3. (IF 1 > n THEN 0 ELSE n - 1 + 1) = n
    BY <2>1
  <2>4. Cardinality(1 .. n) = n
    BY <2>2, <2>3
  <2> QED BY <1>1, <2>2, <2>4 DEF n
<1>3. IsFiniteSet(T) /\ Cardinality(T) <= Len(Groups)
  BY <1>2, FS_Subset
<1>4. IsFiniteSet(S) /\ Cardinality(S) <= Cardinality(T) /\ (Cardinality(T) = Cardinality(S) => S = T)
  BY <1>3, FS_Subset
<1>5. Cardinality(S) \in Nat /\ Cardinality(T) \in Nat
  BY <1>3, <1>4, FS_CardinalityType
<1> QED BY <1>1, <1>3, <1>4, <1>5

\* New nodes are groups of the walk, entered by their first event, or follow a node.
LEMMA DepthKept ==
  ASSUME trace \in Traces, trace' = trace, walked \subseteq walked', DepthInv,
         nodes \subseteq nodes', nodes' \subseteq GroupIds,
         \A h \in nodes : entry'[h] = entry[h],
         \A h \in nodes' \ nodes :
           \/ h \in walked' /\ entry'[h] = FirstEvent(h)
           \/ \E g \in nodes : \E c \in Leads(g, entry[g]) :
                GroupOf(c.to) = h /\ c.to = entry'[h] /\ h # g /\ ~NSApp(h)
  PROVE  DepthInv'
<1> DEFINE m == Cardinality(nodes)
           n == Cardinality(nodes')
<1>1. m \in 0 .. Len(Groups) /\ n \in 0 .. Len(Groups) /\ m <= n /\ (nodes # nodes' => m < n)
  BY CountFacts
<1>2. Len(Groups) \in Nat /\ NoGroup \notin GroupIds
  BY TraceFacts
<1>3. Iterates(Levels', Start') /\ \A k \in 0 .. Len(Groups) : Levels[k] \subseteq Levels'[k]
  BY LevelsLater
<1>4. /\ Levels'[0] = Start'
      /\ \A k \in 1 .. Len(Groups) :
           Levels'[k] = Levels'[k - 1] \cup UNION {Onward(p) : p \in Levels'[k - 1]}
      /\ \A j, k \in 0 .. Len(Groups) : j <= k => Levels'[j] \subseteq Levels'[k]
  BY <1>3, LevelsGrow
<1>5. SUFFICES ASSUME NEW h \in nodes' PROVE <<h, entry'[h]>> \in Levels'[n]
  BY DEF DepthInv
<1> HIDE DEF m, n
<1>6. CASE h \in nodes
  <2>1. <<h, entry'[h]>> \in Levels[m]
    BY <1>6 DEF DepthInv, m
  <2> QED BY <1>1, <1>3, <1>4, <2>1
<1>7. CASE h \notin nodes /\ h \in walked' /\ entry'[h] = FirstEvent(h)
  <2>1. <<h, entry'[h]>> \in Start'
    BY <1>7, TraceFixed DEF Start
  <2>2. 0 \in 0 .. Len(Groups) /\ 0 <= n
    BY <1>1, <1>2
  <2>3. Levels'[0] \subseteq Levels'[n]
    BY <1>1, <1>4, <2>2
  <2> QED BY <1>4, <2>1, <2>3
<1>8. ASSUME h \notin nodes, NEW g \in nodes, NEW c \in Leads(g, entry[g]),
             GroupOf(c.to) = h, c.to = entry'[h], h # g, ~NSApp(h)
      PROVE  <<h, entry'[h]>> \in Levels'[n]
  <2> DEFINE q == <<g, entry[g]>>
  <2>1. <<h, entry'[h]>> \in Onward(q)
    <3>1. h # NoGroup
      BY <1>2
    <3>2. q[1] = g /\ q[2] = entry[g]
      OBVIOUS
    <3> QED BY <1>8, <3>1, <3>2 DEF Onward, Leads
  <2>2. q \in Levels[m]
    BY DEF DepthInv, m
  <2> HIDE DEF q
  <2>3. q \in Levels'[m]
    BY <1>1, <1>3, <2>2
  <2>4. m + 1 \in 1 .. Len(Groups) /\ m + 1 <= n /\ (m + 1) - 1 = m
    BY <1>1, <1>2, <1>8
  <2>5. Onward(q) \subseteq Levels'[m + 1]
    <3>1. Levels'[m + 1] = Levels'[m] \cup UNION {Onward(p) : p \in Levels'[m]}
      BY <1>4, <2>4
    <3> QED BY <2>3, <3>1
  <2>6. Levels'[m + 1] \subseteq Levels'[n]
    <3>1. m + 1 \in 0 .. Len(Groups)
      BY <1>2, <2>4
    <3> QED BY <1>1, <1>4, <2>4, <3>1
  <2> QED BY <2>1, <2>5, <2>6
<1> QED BY <1>6, <1>7, <1>8

LEMMA DepthStep == IInv /\ DepthInv /\ [Next]_vars => DepthInv'
<1> SUFFICES ASSUME IInv, DepthInv, [Next]_vars PROVE DepthInv'
  OBVIOUS
<1>1. IInv' /\ trace \in Traces /\ nodes' \subseteq GroupIds'
  BY NextIInv DEF IInv, TypeOK
<1>2. ASSUME UNCHANGED <<trace, nodes, entry, walked>> PROVE DepthInv'
  <2>1. nodes' \subseteq GroupIds
    BY <1>1, <1>2, TraceFixed
  <2> QED BY <1>1, <1>2, <2>1, DepthKept
<1>3. CASE Augment
  <2>1. trace' = trace /\ walked' = walked \cup {cur}
    BY <1>3 DEF Augment
  <2>2. CASE cur \in nodes
    <3>1. nodes' = nodes /\ entry' = entry
      BY <1>3, <2>2 DEF Augment, graph
    <3>2. nodes' \subseteq GroupIds
      BY <1>1, <2>1, TraceFixed
    <3> QED BY <1>1, <2>1, <3>1, <3>2, DepthKept
  <2>3. CASE cur \notin nodes
    <3>1. /\ nodes' = nodes \cup {cur}
          /\ entry' = [g \in nodes \cup {cur} |-> IF g = cur THEN FirstEvent(cur) ELSE entry[g]]
      BY <1>3, <2>3 DEF Augment, AddNodes
    <3>2. nodes' \subseteq GroupIds
      BY <1>1, <2>1, TraceFixed
    <3>3. entry'[cur] = FirstEvent(cur) /\ \A h \in nodes : entry'[h] = entry[h]
      BY <2>3, <3>1
    <3> QED BY <1>1, <2>1, <3>1, <3>2, <3>3, DepthKept
  <2> QED BY <2>2, <2>3
<1>4. CASE Search
  <2>1. trace' = trace /\ walked' = walked
    BY <1>4, SearchFacts
  <2>2. nodes' \subseteq GroupIds
    BY <1>1, <2>1, TraceFixed
  <2>3. PICK item \in work :
          /\ item[1] \in nodes /\ item[2] = entry[item[1]]
          /\ \/ UNCHANGED <<nodes, entry>>
             \/ \E gs : Found(item, gs)
    BY <1>4, SearchFacts
  <2>4. CASE UNCHANGED <<nodes, entry>>
    BY <1>1, <2>1, <2>2, <2>4, DepthKept
  <2>5. ASSUME NEW gs, Found(item, gs) PROVE DepthInv'
    <3>1. nodes' = nodes \cup gs /\ \A h \in nodes : entry'[h] = entry[h]
      BY <2>5 DEF Found, AddNodes
    <3>2. \A h \in gs : /\ h # item[1] /\ ~NSApp(h)
                        /\ \E c \in Leads(item[1], entry[item[1]]) : c.to = entry'[h] /\ GroupOf(c.to) = h
      BY <2>3, <2>5 DEF Found
    <3> QED BY <1>1, <2>1, <2>2, <2>3, <3>1, <3>2, DepthKept
  <2> QED BY <2>3, <2>4, <2>5
<1>5. CASE Finish \/ Skip \/ Advance \/ Stopped \/ UNCHANGED vars
  <2>1. UNCHANGED <<trace, nodes, entry, walked>>
    BY <1>5 DEF Finish, Skip, Advance, Stopped, vars, graph
  <2> QED BY <1>2, <2>1
<1> QED BY <1>3, <1>4, <1>5 DEF Next

\* Every node of the transaction graph is reached from a group of the walk along
\* connections that never go back within a group: get_outgoing_connections looks at
\* nothing before the event the group was entered by.
THEOREM Reachable == Spec => []NodesAreReachable
<1>1. Init => DepthInv
  BY DEF Init, DepthInv
<1>2. IInv /\ DepthInv => NodesAreReachable
  <2> SUFFICES ASSUME IInv, DepthInv, NEW g \in nodes PROVE <<g, entry[g]>> \in Reach
    BY DEF NodesAreReachable
  <2> DEFINE m == Cardinality(nodes)
  <2>1. trace \in Traces /\ nodes \subseteq GroupIds
    BY DEF IInv, TypeOK
  <2>2. Len(Groups) \in Nat /\ m \in 0 .. Len(Groups)
    BY <2>1, CountFacts, TraceFacts
  <2>3. <<g, entry[g]>> \in Levels[m]
    BY DEF DepthInv
  <2> HIDE DEF m
  <2>4. Levels[m] \subseteq Levels[Len(Groups)]
    <3>1. \A j, k \in 0 .. Len(Groups) : j <= k => Levels[j] \subseteq Levels[k]
      BY <2>1, LevelsFacts, LevelsGrow
    <3>2. Len(Groups) \in 0 .. Len(Groups) /\ m <= Len(Groups)
      BY <2>2
    <3> QED BY <2>2, <3>1, <3>2
  <2> QED BY <2>3, <2>4, ReachIsLast
<1> QED BY <1>1, <1>2, DepthStep, InvariantHolds, PTL DEF Spec

-----------------------------------------------------------------------------
(* What the graph can miss.                                                *)

\* To enter a group by an earlier event loses none of its connections.
LEMMA EarlierLeadsToMore ==
  ASSUME trace \in Traces, NEW g \in GroupIds, NEW a \in Range(Events(g)), NEW b \in Range(Events(g)),
         Position(g, a) <= Position(g, b)
  PROVE  Leads(g, b) \subseteq Leads(g, a)
<1>1. /\ Position(g, a) \in 1 .. Len(Events(g)) /\ Position(g, b) \in 1 .. Len(Events(g))
      /\ Len(Events(g)) \in Nat
  BY MemberFacts, TraceFacts
<1>2. Position(g, b) .. Len(Events(g)) \subseteq Position(g, a) .. Len(Events(g))
  BY <1>1
<1>3. After(g, b) \subseteq After(g, a)
  BY <1>2 DEF After
<1> QED BY <1>3 DEF Leads, Connections

\* When the construction is over, a graph no node of which was entered late has all
\* the groups that Reach has.
LEMMA NothingElseIsMissed == IInv => CompleteUnlessEnteredLate
<1> SUFFICES ASSUME IInv, phase = "done", NEW reach, reach = Reach,
                    \A g \in nodes : ~EnteredLate(g, reach)
             PROVE  {p[1] : p \in reach} \subseteq nodes
  BY DEF CompleteUnlessEnteredLate
<1> DEFINE N == Len(Groups)
           Inside(p) == p[1] \in nodes /\ p[2] \in Range(Events(p[1]))
           bad == {n \in 0 .. N : \E p \in Levels[n] : ~Inside(p)}
<1>1. trace \in Traces /\ work = {} /\ N \in Nat
  BY TraceFacts DEF IInv, WalkInv
<1>2. /\ Levels[0] = Start
      /\ \A n \in 1 .. N : Levels[n] = Levels[n - 1] \cup UNION {Onward(p) : p \in Levels[n - 1]}
      /\ \A m, n \in 0 .. N : m <= n => Levels[m] \subseteq Levels[n]
  BY <1>1, LevelsFacts, LevelsGrow
<1>3. /\ nodes \subseteq GroupIds /\ walked \subseteq nodes /\ NoGroup \notin GroupIds
      /\ \A g \in nodes : /\ entry[g] \in Range(Events(g))
                          /\ Leads(g, entry[g]) \subseteq edges
      /\ \A e \in edges : \/ GroupOf(e.to) \in nodes \/ NSApp(GroupOf(e.to))
                          \/ GroupOf(e.to) = GroupOf(e.from)
  BY <1>1, TraceFacts DEF IInv, TypeOK, WalkInv, EdgesInv, Expanded, Leads
<1>4. ASSUME NEW p \in Start PROVE Inside(p)
  <2>1. PICK g \in walked : p = <<g, FirstEvent(g)>>
    BY DEF Start
  <2>2. FirstEvent(g) \in Range(Events(g))
    BY <1>1, <1>3, MemberFacts
  <2>3. p[1] = g /\ p[2] = FirstEvent(g)
    BY <2>1
  <2> QED BY <1>3, <2>2, <2>3
<1>5. ASSUME NEW q \in reach, Inside(q), NEW p \in Onward(q) PROVE Inside(p)
  <2> DEFINE g == q[1]
  <2>1. /\ g \in nodes /\ g \in GroupIds /\ q[2] \in Range(Events(g)) /\ entry[g] \in Range(Events(g))
        /\ Leads(g, entry[g]) \subseteq edges
    BY <1>3, <1>5
  <2>2. Position(g, entry[g]) <= Position(g, q[2])
    <3>1. ~(Position(g, q[2]) < Position(g, entry[g]))
      BY <1>5, <2>1 DEF EnteredLate
    <3>2. Position(g, q[2]) \in 1 .. Len(Events(g)) /\ Position(g, entry[g]) \in 1 .. Len(Events(g))
      BY <1>1, <2>1, MemberFacts
    <3>3. Len(Events(g)) \in Nat
      BY <1>1, <2>1, TraceFacts
    <3> QED BY <3>1, <3>2, <3>3
  <2>3. Leads(g, q[2]) \subseteq edges
    BY <1>1, <2>1, <2>2, EarlierLeadsToMore
  <2>4. PICK c \in Leads(g, q[2]) : /\ p = <<GroupOf(c.to), c.to>>
                                    /\ GroupOf(c.to) \notin {NoGroup, g} /\ ~NSApp(GroupOf(c.to))
    BY DEF Onward, Leads
  <2>5. GroupOf(c.from) = g /\ c.to \in EventIds
    BY <1>1, <2>1, LeadsFacts
  <2>6. GroupOf(c.to) \in nodes
    BY <1>3, <2>3, <2>4, <2>5
  <2>7. c.to \in Range(Events(GroupOf(c.to)))
    BY <1>1, <2>4, <2>5, TraceFacts
  <2>8. p[1] = GroupOf(c.to) /\ p[2] = c.to
    BY <2>4
  <2> QED BY <2>6, <2>7, <2>8
<1>6. bad = {}
  <2> SUFFICES ASSUME bad # {} PROVE FALSE
    OBVIOUS
  <2>1. bad \in SUBSET Nat
    BY <1>1
  <2>2. PICK k \in bad : \A j \in bad : k <= j
    BY <2>1, MinExists
  <2> HIDE DEF Inside
  <2>3. PICK p \in Levels[k] : ~Inside(p)
    OBVIOUS
  <2>4. k \in 1 .. N /\ k - 1 \in 0 .. N /\ k - 1 \notin bad
    <3>1. k \in 0 .. N
      OBVIOUS
    <3>2. k # 0
      BY <1>2, <1>4, <2>3
    <3>3. k \in 1 .. N /\ k - 1 \in 0 .. N /\ ~(k <= k - 1)
      BY <1>1, <3>1, <3>2
    <3> QED BY <2>2, <3>3
  <2>5. \A q \in Levels[k - 1] : Inside(q)
    BY <2>4
  <2>6. Levels[k - 1] \subseteq reach
    <3>1. k - 1 <= N /\ N \in 0 .. N
      BY <1>1, <2>4
    <3>2. Levels[k - 1] \subseteq Levels[N]
      BY <1>2, <2>4, <3>1
    <3> QED BY <3>2, ReachIsLast
  <2>7. PICK q \in Levels[k - 1] : p \in Onward(q)
    BY <1>2, <2>3, <2>4, <2>5
  <2> QED BY <1>5, <2>3, <2>5, <2>6, <2>7
<1>7. N \in 0 .. N
  BY <1>1
<1>8. \A p \in Levels[N] : Inside(p)
  <2> HIDE DEF Inside
  <2> QED BY <1>6, <1>7
<1> QED BY <1>8, ReachIsLast

\* A transaction graph that misses a group of Reach has a node that was entered by a later
\* event than a path leads to: BFS loses nothing but what only earlier events of a group
\* that it has already expanded lead to.
THEOREM MissesOnlyLateEntries == Spec => []CompleteUnlessEnteredLate
BY NothingElseIsMissed, InvariantHolds, PTL

-----------------------------------------------------------------------------
(* What the rest of the program finds of the graph.                        *)

\* Where assert is compiled in, the nodes that the rest of the program can find are all
\* the nodes of the search: add_node files a node in the argument of an assert.
THEOREM FiledWhereAssertsAre == Asserts /\ Spec => []NodesAreFiled
<1> SUFFICES ASSUME Asserts PROVE Spec => []NodesAreFiled
  OBVIOUS
<1>1. Init => NodesAreFiled
  BY DEF Init, NodesAreFiled
<1>2. NodesAreFiled /\ [Next]_vars => NodesAreFiled'
  <2> SUFFICES ASSUME NodesAreFiled, [Next]_vars PROVE filed' = nodes'
    BY DEF NodesAreFiled
  <2>1. ASSUME NEW gs, AddNodes(gs) PROVE filed' = nodes'
    BY <2>1 DEF AddNodes, NodesAreFiled
  <2>2. CASE Augment
    BY <2>1, <2>2 DEF Augment, graph, NodesAreFiled
  <2>3. CASE Search
    <3>1. (\E gs : AddNodes(gs)) \/ UNCHANGED <<nodes, filed>>
      BY <2>3 DEF Search
    <3> QED BY <2>1, <3>1 DEF NodesAreFiled
  <2>4. CASE Finish \/ Skip \/ Advance \/ Stopped \/ UNCHANGED vars
    BY <2>4 DEF Finish, Skip, Advance, Stopped, vars, graph, NodesAreFiled
  <2> QED BY <2>2, <2>3, <2>4 DEF Next
<1> QED BY <1>1, <1>2, PTL DEF Spec

===============================================================================
