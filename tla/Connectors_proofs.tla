--------------------------- MODULE Connectors_proofs ---------------------------
(***************************************************************************)
(* Theorems on the connectors, for every family of traces, whatever their  *)
(* length and the records lost.                                            *)
(***************************************************************************)
EXTENDS Connectors, Integers, SequencesExt, FiniteSetTheorems, SequenceTheorems, WellFoundedInduction, TLAPS

\* A non-empty set of naturals has a least element.
LEMMA MinExists ==
  ASSUME NEW S \in SUBSET Nat, S # {}
  PROVE  \E i \in S : \A j \in S : i <= j
<1> DEFINE less == {x \in Nat \X Nat : x[1] < x[2]}
<1>1. IsWellFoundedOn(less, Nat)
  BY NatLessThanWellFounded DEF OpToRel
<1>2. PICK i \in S : \A j \in S : ~ (<<j, i>> \in less)
  BY <1>1, WFMin
<1>3. ASSUME NEW j \in S PROVE i <= j
  <2>1. ~(<<j, i>> \in less) /\ i \in Nat /\ j \in Nat
    BY <1>2
  <2> QED BY <2>1
<1> QED BY <1>3

\* A non-empty set of naturals with a bound has a greatest element.
LEMMA MaxExists ==
  ASSUME NEW n \in Nat, NEW S \in SUBSET (0 .. n), S # {}
  PROVE  \E i \in S : \A j \in S : j <= i
<1> DEFINE B == {b \in Nat : \A j \in S : j <= b}
<1>1. n \in B
  OBVIOUS
<1>2. PICK b \in B : \A c \in B : b <= c
  BY <1>1, MinExists
<1>3. b \in S
  <2>1. CASE b = 0
    <3>1. PICK j \in S : j <= 0 /\ j \in 0 .. n
      BY <1>2, <2>1
    <3> QED BY <2>1, <3>1
  <2>2. CASE b # 0 /\ b \notin S
    <3>1. b - 1 \in Nat
      BY <2>2
    <3>2. ASSUME NEW j \in S PROVE j <= b - 1
      <4>1. j \in Nat /\ j <= b /\ j # b
        BY <1>2, <2>2
      <4> QED BY <4>1
    <3> QED BY <1>2, <3>1, <3>2
  <2> QED BY <2>1, <2>2
<1> QED BY <1>2, <1>3

-----------------------------------------------------------------------------
(* The trace, and the events.                                              *)

RecordSet(inputs) == [rec : inputs, causes : SUBSET Nat, lost : BOOLEAN]

HistOK ==
  /\ family \in Families
  /\ history \in Seq(RecordSet(family.inputs)) /\ Len(history) <= family.max
  /\ \A i \in Times : history[i].causes \subseteq 1 .. i - 1

EventSet(S) ==
  [owner : SUBSET S, consumer : SUBSET S, cancel : SUBSET S, peer : SUBSET S,
   next : SUBSET S, read : BOOLEAN, visited : BOOLEAN]

\* f gives every record an event, and one that was lost none of its own.
Typed(f) == f \in [Times -> EventSet(Kept)] /\ \A i \in Times : history[i].lost => f[i] = NewEvent

LEMMA TraceFacts ==
  ASSUME HistOK
  PROVE  /\ Len(history) \in Nat /\ Times = 1 .. Len(history) /\ Times \subseteq Nat \ {0}
         /\ Kept \subseteq Times
         /\ \A i \in Times : Rec(i) \in family.inputs /\ Key(i) \in Nat /\ history[i].lost \in BOOLEAN
         /\ InputsOK(family.inputs)
<1>1. history \in Seq(RecordSet(family.inputs))
  BY DEF HistOK
<1>2. Len(history) \in Nat /\ Times = 1 .. Len(history) /\ Times \subseteq Nat \ {0}
  BY <1>1 DEF Times
<1>3. Kept \subseteq Times
  BY DEF Kept
<1>4. InputsOK(family.inputs)
  BY FamiliesAssumption DEF HistOK
<1>5. \A i \in Times : Rec(i) \in family.inputs /\ history[i].lost \in BOOLEAN
  <2>1. \A i \in Times : history[i] \in RecordSet(family.inputs)
    BY <1>1, <1>2
  <2> QED BY <2>1 DEF RecordSet, Rec
<1>6. \A i \in Times : Key(i) \in Nat
  BY <1>4, <1>5 DEF InputsOK, Key
<1> QED BY <1>2, <1>3, <1>4, <1>5, <1>6

\* The connectors change nothing of the trace.
LEMMA TraceFixed ==
  ASSUME history' = history, family' = family
  PROVE  /\ Times' = Times /\ Kept' = Kept /\ HistOK' = HistOK /\ Messages' = Messages /\ Vars' = Vars
         /\ \A i : Rec(i)' = Rec(i) /\ Kind(i)' = Kind(i) /\ Key(i)' = Key(i)
         /\ \A i, kinds, k : KeptBefore(i, kinds, k)' = KeptBefore(i, kinds, k)
         /\ \A i : CauseKinds(i)' = CauseKinds(i)
         /\ \A f : Typed(f)' = Typed(f)
<1>1. Times' = Times /\ Kept' = Kept /\ HistOK' = HistOK /\ \A i : Rec(i)' = Rec(i)
  BY DEF Times, Kept, HistOK, Rec
<1>2. \A i : Kind(i)' = Kind(i) /\ Key(i)' = Key(i)
  BY <1>1 DEF Kind, Key
<1>3. Messages' = Messages /\ Vars' = Vars
  BY <1>1, <1>2 DEF Messages, Vars
<1>4. \A i, kinds, k : KeptBefore(i, kinds, k)' = KeptBefore(i, kinds, k)
  BY <1>1, <1>2 DEF KeptBefore, Of
<1>5. \A i : CauseKinds(i)' = CauseKinds(i)
  BY <1>2 DEF CauseKinds
<1>6. \A f : Typed(f)' = Typed(f)
  BY <1>1 DEF Typed
<1> QED BY <1>1, <1>2, <1>3, <1>4, <1>5, <1>6

LEMMA NewEventFacts ==
  /\ NewEvent.owner = {} /\ NewEvent.consumer = {} /\ NewEvent.cancel = {}
  /\ NewEvent.peer = {} /\ NewEvent.next = {} /\ NewEvent.read = FALSE /\ NewEvent.visited = FALSE
  /\ \A S : NewEvent \in EventSet(S)
BY DEF NewEvent, EventSet

\* There is one last and one first element at most.
LEMMA EndFacts ==
  ASSUME NEW S \in SUBSET Nat
  PROVE  /\ Latest(S) \subseteq S /\ \A i, j \in Latest(S) : i = j
         /\ Earliest(S) \subseteq S /\ \A i, j \in Earliest(S) : i = j
         /\ S # {} => Earliest(S) # {}
<1>1. Latest(S) \subseteq S /\ Earliest(S) \subseteq S
  BY DEF Latest, Earliest
<1>2. \A i, j \in Latest(S) : i = j
  BY DEF Latest
<1>3. \A i, j \in Earliest(S) : i = j
  BY DEF Earliest
<1>4. S # {} => Earliest(S) # {}
  BY MinExists DEF Earliest
<1> QED BY <1>1, <1>2, <1>3, <1>4

LEMMA OnlyFacts == ASSUME NEW S, S # {} PROVE Only(S) \in S
BY DEF Only

\* A pair of events is tied: two fields change.
LEMMA LinkedFacts ==
  ASSUME NEW f, Typed(f), NEW i \in Kept, NEW c \in Kept, i # c
  PROVE  /\ Typed(Linked(f, i, c))
         /\ Linked(f, i, c)[i].owner = {c} /\ Linked(f, i, c)[c].consumer = {i}
         /\ \A j \in Times : j # i => Linked(f, i, c)[j].owner = f[j].owner
         /\ \A j \in Times : j # c => Linked(f, i, c)[j].consumer = f[j].consumer
         /\ \A j \in Times :
              /\ Linked(f, i, c)[j].cancel = f[j].cancel
              /\ Linked(f, i, c)[j].peer = f[j].peer
              /\ Linked(f, i, c)[j].next = f[j].next
              /\ Linked(f, i, c)[j].read = f[j].read
              /\ Linked(f, i, c)[j].visited = f[j].visited
<1> DEFINE g == Linked(f, i, c)
<1>1. f \in [Times -> EventSet(Kept)] /\ i \in Times /\ c \in Times /\ ~history[i].lost /\ ~history[c].lost
  BY DEF Typed, Kept
<1>2. g = [j \in Times |-> IF j = c THEN [f[j] EXCEPT !.consumer = {i}]
                           ELSE IF j = i THEN [f[j] EXCEPT !.owner = {c}] ELSE f[j]]
  BY <1>1 DEF Linked
<1>3. ASSUME NEW j \in Times
      PROVE  /\ g[j] \in EventSet(Kept)
             /\ g[j].owner = IF j = i THEN {c} ELSE f[j].owner
             /\ g[j].consumer = IF j = c THEN {i} ELSE f[j].consumer
             /\ g[j].cancel = f[j].cancel /\ g[j].peer = f[j].peer /\ g[j].next = f[j].next
             /\ g[j].read = f[j].read /\ g[j].visited = f[j].visited
             /\ history[j].lost => g[j] = f[j]
  <2>1. f[j] \in EventSet(Kept)
    BY <1>1
  <2>2. CASE j = c
    BY <1>1, <1>2, <2>1, <2>2 DEF EventSet
  <2>3. CASE j = i
    BY <1>1, <1>2, <2>1, <2>3 DEF EventSet
  <2>4. CASE j # c /\ j # i
    BY <1>1, <1>2, <2>1, <2>4 DEF EventSet
  <2> QED BY <2>2, <2>3, <2>4
<1>4. g \in [Times -> EventSet(Kept)]
  <2> DEFINE value(j) == IF j = c THEN [f[j] EXCEPT !.consumer = {i}]
                         ELSE IF j = i THEN [f[j] EXCEPT !.owner = {c}] ELSE f[j]
  <2>1. g = [j \in Times |-> value(j)]
    BY <1>2
  <2>2. \A j \in Times : value(j) \in EventSet(Kept)
    <3> HIDE DEF value, g
    <3>1. \A j \in Times : g[j] = value(j)
      BY <2>1
    <3> QED BY <1>3, <3>1
  <2> HIDE DEF value, g
  <2> QED BY <2>1, <2>2
<1>5. Typed(g)
  <2> HIDE DEF g
  <2> QED BY <1>3, <1>4 DEF Typed
<1> HIDE DEF g
<1>6. /\ g[i].owner = {c} /\ g[c].consumer = {i}
      /\ \A j \in Times : j # i => g[j].owner = f[j].owner
      /\ \A j \in Times : j # c => g[j].consumer = f[j].consumer
  BY <1>1, <1>3
<1>7. \A j \in Times : /\ g[j].cancel = f[j].cancel /\ g[j].peer = f[j].peer /\ g[j].next = f[j].next
                       /\ g[j].read = f[j].read /\ g[j].visited = f[j].visited
  BY <1>3
<1> QED BY <1>5, <1>6, <1>7 DEF g

LEMMA VisitedFacts ==
  ASSUME NEW f, Typed(f), NEW S \in SUBSET Kept
  PROVE  /\ Typed(Visited(f, S))
         /\ \A j \in Times :
              /\ Visited(f, S)[j].owner = f[j].owner /\ Visited(f, S)[j].consumer = f[j].consumer
              /\ Visited(f, S)[j].cancel = f[j].cancel /\ Visited(f, S)[j].peer = f[j].peer
              /\ Visited(f, S)[j].next = f[j].next /\ Visited(f, S)[j].read = f[j].read
              /\ Visited(f, S)[j].visited <=> f[j].visited \/ j \in S
<1> DEFINE g == Visited(f, S)
<1>1. f \in [Times -> EventSet(Kept)] /\ \A j \in S : j \in Times /\ ~history[j].lost
  BY DEF Typed, Kept
<1>2. g = [j \in Times |-> IF j \in S THEN [f[j] EXCEPT !.visited = TRUE] ELSE f[j]]
  BY <1>1 DEF Visited
<1>3. ASSUME NEW j \in Times
      PROVE  /\ g[j] \in EventSet(Kept)
             /\ g[j].owner = f[j].owner /\ g[j].consumer = f[j].consumer
             /\ g[j].cancel = f[j].cancel /\ g[j].peer = f[j].peer
             /\ g[j].next = f[j].next /\ g[j].read = f[j].read
             /\ g[j].visited <=> f[j].visited \/ j \in S
             /\ history[j].lost => g[j] = f[j]
  <2>1. f[j] \in EventSet(Kept)
    BY <1>1
  <2>2. CASE j \in S
    <3>1. g[j] = [f[j] EXCEPT !.visited = TRUE] /\ ~history[j].lost
      BY <1>1, <1>2, <2>2
    <3> HIDE DEF g
    <3> QED BY <2>1, <2>2, <3>1 DEF EventSet
  <2>3. CASE j \notin S
    <3>1. g[j] = f[j]
      BY <1>2, <2>3
    <3> HIDE DEF g
    <3> QED BY <2>1, <2>3, <3>1 DEF EventSet
  <2> QED BY <2>2, <2>3
<1>4. g \in [Times -> EventSet(Kept)]
  <2>1. g = [j \in Times |-> g[j]]
    BY <1>2
  <2> HIDE DEF g
  <2> QED BY <1>3, <2>1
<1> HIDE DEF g
<1>5. Typed(g)
  BY <1>3, <1>4 DEF Typed
<1> QED BY <1>3, <1>5 DEF g

-----------------------------------------------------------------------------
(* The inductive invariant of the connectors.                              *)

CauseOK(i, c) ==
  Kind(i) \in EffectKinds /\ Kind(c) \in CauseKinds(i) /\ Key(c) = Key(i) /\ c < i

\* What f ties is tied at both ends.
Mutual(f) ==
  \A i \in Kept :
    /\ \A c \in f[i].owner :
         CauseOK(i, c) /\ \E e \in f[c].consumer \cup f[c].cancel : e = i \/ (Kind(i) \in Shared /\ e > i)
    /\ \A e \in f[i].consumer \cup f[i].cancel : CauseOK(e, i) /\ i \in f[e].owner
    /\ \A e \in f[i].consumer : Kind(e) # "cancel"
    /\ \A e \in f[i].cancel : Kind(e) = "cancel"
    /\ f[i].consumer = {} \/ f[i].cancel = {}

\* An effect that its pass has not come to is not tied yet; m is how far they came.
Fresh(f, m) ==
  \A p \in Passes \ {"messages", "traps"} : \A i \in Kept :
    Kind(i) \in Effects[p] /\ i > m[p] => f[i].owner = {}

\* No timer is called before every cancellation has been walked.
NoCallYet(f, m) ==
  (\E i \in Kept : Kind(i) = "cancel" /\ i > m["cancels"]) =>
    \A c \in Kept : Kind(c) = "create" => f[c].consumer = {}

\* The messages not visited are free, and lie outside of the pairs tied.
InboxKinds == {"receive", "deliver"}
MessagesFree(f, m) ==
  /\ \A i \in Messages : ~f[i].visited => f[i].owner = {} /\ f[i].consumer = {} /\ f[i].next = {}
  /\ \A i \in Kept : Kind(i) \in InboxKinds => \A c \in f[i].owner : c <= m["messages"]
  /\ \A i, j \in Kept :
       Kind(i) = Kind(j) /\ Key(i) = Key(j) /\ Kind(i) \in InboxKinds /\ ~f[j].visited =>
         \A c \in f[i].owner : i < j \/ j < c

\* These effects take the last record of their cause.
RecentKinds == {"cancel", "callout", "unset", "item", "mkrun"}
Recent(f) ==
  \A i \in Kept : Kind(i) \in RecentKinds =>
    f[i].owner \subseteq Latest(KeptBefore(i, CauseKinds(i), Key(i)))

\* The effects that are not of the last record are not tied crosswise either.
NoCross(f) ==
  \A i, j \in Kept :
    i < j /\ Kind(i) = Kind(j) /\ Kind(i) \in {"display"} \cup InboxKinds /\ Key(i) = Key(j) =>
      \A c \in f[i].owner, d \in f[j].owner : c <= d

Tied(f, m) ==
  /\ Mutual(f) /\ Fresh(f, m) /\ NoCallYet(f, m) /\ MessagesFree(f, m)
  /\ Recent(f) /\ NoCross(f)

Progress(m) == m \in [Passes -> 0 .. Len(history)]

\* The kind of either end says the kind of the other.
LEMMA CauseKindsFacts ==
  ASSUME NEW i, NEW c, CauseOK(i, c)
  PROVE  /\ Kind(i) \in {"cancel", "callout"} <=> Kind(c) = "create"
         /\ Kind(i) = "display" <=> Kind(c) = "set"
         /\ Kind(i) = "unset" <=> Kind(c) = "signal"
         /\ Kind(i) = "item" <=> Kind(c) = "perform"
         /\ Kind(i) = "mkrun" <=> Kind(c) = "wait"
         /\ Kind(i) = "receive" <=> Kind(c) = "request"
         /\ Kind(i) = "answer" <=> Kind(c) = "reply"
         /\ Kind(i) = "deliver" <=> Kind(c) = "post"
         /\ Kind(c) \notin EffectKinds
         /\ Kind(i) \in EffectKinds
BY DEF CauseOK, CauseKinds, EffectKinds

LEMMA CauseOKIntro ==
  ASSUME NEW i, NEW c, Key(c) = Key(i), c < i,
         \/ Kind(i) = "cancel" /\ Kind(c) = "create"
         \/ Kind(i) = "callout" /\ Kind(c) = "create"
         \/ Kind(i) = "display" /\ Kind(c) = "set"
         \/ Kind(i) = "unset" /\ Kind(c) = "signal"
         \/ Kind(i) = "item" /\ Kind(c) = "perform"
         \/ Kind(i) = "mkrun" /\ Kind(c) = "wait"
         \/ Kind(i) = "receive" /\ Kind(c) = "request"
         \/ Kind(i) = "answer" /\ Kind(c) = "reply"
         \/ Kind(i) = "deliver" /\ Kind(c) = "post"
  PROVE  CauseOK(i, c)
BY DEF CauseOK, CauseKinds, EffectKinds

\* Passes only move forward.
LEMMA TiedLater ==
  ASSUME HistOK, NEW f, NEW m, NEW n, Progress(m), Progress(n), Tied(f, m), \A p \in Passes : m[p] <= n[p],
         Typed(f)
  PROVE  Tied(f, n)
<1>0. Times \subseteq Nat /\ Kept \subseteq Times /\ Len(history) \in Nat
  BY TraceFacts
<1>1. \A p \in Passes : m[p] \in Nat /\ n[p] \in Nat
  BY <1>0 DEF Progress
<1>2. Fresh(f, n)
  BY <1>0, <1>1 DEF Tied, Fresh
<1>3. "cancels" \in Passes /\ "messages" \in Passes
  BY DEF Passes
<1>4. NoCallYet(f, n)
  <2>1. \A i \in Kept : i > n["cancels"] => i > m["cancels"]
    <3>1. m["cancels"] <= n["cancels"]
      BY <1>3
    <3> QED BY <1>0, <1>1, <1>3, <3>1
  <2> QED BY <2>1 DEF Tied, NoCallYet
<1>5. \A i \in Kept : f[i].owner \subseteq Nat
  BY <1>0 DEF Typed, EventSet
<1>6. MessagesFree(f, n)
  <2>1. \A i \in Kept : Kind(i) \in InboxKinds => \A c \in f[i].owner : c <= n["messages"]
    BY <1>1, <1>3, <1>5 DEF Tied, MessagesFree
  <2> QED BY <2>1 DEF Tied, MessagesFree
<1> QED BY <1>2, <1>4, <1>6 DEF Tied

\* Events that differ in something else are tied as before.
SameTies(f, g) ==
  \A i \in Times :
    /\ g[i].owner = f[i].owner /\ g[i].consumer = f[i].consumer /\ g[i].cancel = f[i].cancel
    /\ g[i].next = f[i].next /\ (f[i].visited => g[i].visited)

LEMMA TiedAlike ==
  ASSUME HistOK, NEW f, NEW g, NEW m, Typed(f), SameTies(f, g), Tied(f, m)
  PROVE  Tied(g, m)
<1>0. Kept \subseteq Times /\ Messages \subseteq Times
  BY TraceFacts DEF Messages
<1>1. \A i \in Kept : f[i].owner \subseteq Times /\ f[i].consumer \cup f[i].cancel \subseteq Times
  BY <1>0 DEF Typed, EventSet
<1>2. Mutual(g)
  <2> SUFFICES ASSUME NEW i \in Kept
      PROVE  /\ \A c \in f[i].owner :
                  CauseOK(i, c) /\ \E e \in g[c].consumer \cup g[c].cancel : e = i \/ (Kind(i) \in Shared /\ e > i)
             /\ \A e \in f[i].consumer \cup f[i].cancel : CauseOK(e, i) /\ i \in g[e].owner
    BY <1>0 DEF Mutual, SameTies, Tied
  <2> QED BY <1>0, <1>1 DEF Mutual, SameTies, Tied
<1>3. Fresh(g, m) /\ NoCallYet(g, m)
  BY <1>0 DEF Tied, Fresh, NoCallYet, SameTies
<1>4. MessagesFree(g, m)
  BY <1>0 DEF Tied, MessagesFree, SameTies
<1>5. Recent(g) /\ NoCross(g)
  BY <1>0 DEF Tied, Recent, NoCross, SameTies
<1> QED BY <1>2, <1>3, <1>4, <1>5 DEF Tied

-----------------------------------------------------------------------------
(* One pair more.                                                          *)

\* A pair of a cause that is free, or whose effects so far came before, is mutual.
LEMMA LinkKeepsMutual ==
  ASSUME HistOK, NEW f, Typed(f), Mutual(f), NEW i \in Kept, NEW c \in Kept, CauseOK(i, c),
         Kind(i) # "cancel", f[i].owner = {}, f[c].cancel = {},
         f[c].consumer = {} \/ (Kind(i) \in Shared /\ \A e \in f[c].consumer : e < i)
  PROVE  Mutual(Linked(f, i, c))
<1> DEFINE g == Linked(f, i, c)
<1>0. Times \subseteq Nat /\ Kept \subseteq Times
  BY TraceFacts
<1>1. c < i /\ i # c
  BY <1>0 DEF CauseOK
<1>2. /\ g[i].owner = {c} /\ g[c].consumer = {i}
      /\ \A j \in Times : j # i => g[j].owner = f[j].owner
      /\ \A j \in Times : j # c => g[j].consumer = f[j].consumer
      /\ \A j \in Times : g[j].cancel = f[j].cancel
  BY <1>1, LinkedFacts
<1>3. \A j \in Times : f[j].owner \subseteq Kept /\ f[j].consumer \subseteq Kept /\ f[j].cancel \subseteq Kept
  BY DEF Typed, EventSet
<1> HIDE DEF g
<1>4. ASSUME NEW j \in Kept, NEW b \in g[j].owner
      PROVE  CauseOK(j, b) /\ \E e \in g[b].consumer \cup g[b].cancel : e = j \/ (Kind(j) \in Shared /\ e > j)
  <2>1. CASE j = i
    <3>1. b = c /\ i \in g[c].consumer
      BY <1>0, <1>2, <2>1
    <3> QED BY <2>1, <3>1
  <2>2. CASE j # i
    <3>1. b \in f[j].owner /\ CauseOK(j, b) /\ b \in Kept
      BY <1>0, <1>2, <1>3, <2>2 DEF Mutual
    <3>2. PICK e \in f[b].consumer \cup f[b].cancel : e = j \/ (Kind(j) \in Shared /\ e > j)
      BY <3>1 DEF Mutual
    <3>3. CASE b # c
      BY <1>0, <1>2, <3>1, <3>2, <3>3
    <3>4. CASE b = c
      <4>1. e \in f[c].consumer /\ Kind(i) \in Shared /\ e < i
        BY <3>2, <3>4
      <4>2. Kind(j) = Kind(i)
        BY <3>1, <3>4, <4>1, CauseKindsFacts DEF Shared
      <4>3. i > j
        <5>1. e \in Nat /\ i \in Nat /\ j \in Nat
          BY <1>0, <1>3, <4>1
        <5> QED BY <3>2, <4>1, <5>1
      <4>4. i \in g[c].consumer
        BY <1>0, <1>2
      <4> QED BY <3>1, <3>4, <4>1, <4>2, <4>3, <4>4
    <3> QED BY <3>3, <3>4
  <2> QED BY <2>1, <2>2
<1>5. ASSUME NEW j \in Kept, NEW e \in g[j].consumer \cup g[j].cancel
      PROVE  CauseOK(e, j) /\ j \in g[e].owner
  <2>1. CASE j = c
    <3>1. e = i
      BY <1>0, <1>2, <2>1
    <3> QED BY <1>0, <1>2, <2>1, <3>1
  <2>2. CASE j # c
    <3>1. e \in f[j].consumer \cup f[j].cancel /\ CauseOK(e, j) /\ j \in f[e].owner /\ e \in Kept
      BY <1>0, <1>2, <1>3, <2>2 DEF Mutual
    <3>2. e # i
      BY <3>1
    <3> QED BY <1>0, <1>2, <3>1, <3>2
  <2> QED BY <2>1, <2>2
<1>6. ASSUME NEW j \in Kept
      PROVE  /\ \A e \in g[j].consumer : Kind(e) # "cancel"
             /\ \A e \in g[j].cancel : Kind(e) = "cancel"
             /\ g[j].consumer = {} \/ g[j].cancel = {}
  <2>1. CASE j = c
    BY <1>0, <1>2, <2>1 DEF Mutual
  <2>2. CASE j # c
    BY <1>0, <1>2, <2>2 DEF Mutual
  <2> QED BY <2>1, <2>2
<1>7. Mutual(g)
  BY <1>4, <1>5, <1>6 DEF Mutual
<1> QED BY <1>7 DEF g

\* An effect takes the last record of its cause, whoever took that before.
LEMMA LinkRecent ==
  ASSUME HistOK, NEW f, NEW m, NEW n, Typed(f), Tied(f, m), Progress(m), Progress(n),
         NEW p \in {"loop", "wakeups"}, NEW i \in Kept, i > m[p], Kind(i) \in Effects[p],
         n = [m EXCEPT ![p] = i],
         NEW c \in Latest(KeptBefore(i, CauseKinds(i), Key(i)))
  PROVE  Typed(Linked(f, i, c)) /\ Tied(Linked(f, i, c), n)
<1> DEFINE g == Linked(f, i, c)
<1>0. Times \subseteq Nat /\ Kept \subseteq Times /\ Messages \subseteq Kept
  BY TraceFacts DEF Messages
<1>1. /\ p \in Passes /\ p # "messages" /\ p # "cancels" /\ Kind(i) \in {"unset", "item", "mkrun"}
      /\ Kind(i) \in Shared /\ Kind(i) \in EffectKinds
  BY DEF Passes, Effects, Shared, EffectKinds
<1>2. c \in Kept /\ CauseOK(i, c)
  <2>1. c \in KeptBefore(i, CauseKinds(i), Key(i))
    BY DEF Latest
  <2> QED BY <1>0, <1>1, <2>1 DEF KeptBefore, Of, CauseOK
<1>3. Kind(c) \in {"signal", "perform", "wait"}
  <2>1. /\ Kind(i) = "unset" <=> Kind(c) = "signal"
        /\ Kind(i) = "item" <=> Kind(c) = "perform"
        /\ Kind(i) = "mkrun" <=> Kind(c) = "wait"
    BY <1>2, CauseKindsFacts
  <2> QED BY <1>1, <2>1
<1>4. i # c
  <2>1. c < i /\ i \in Nat /\ c \in Nat
    BY <1>0, <1>2 DEF CauseOK
  <2> QED BY <2>1
<1>5. /\ Typed(g)
      /\ g[i].owner = {c} /\ g[c].consumer = {i}
      /\ \A j \in Times : j # i => g[j].owner = f[j].owner
      /\ \A j \in Times : j # c => g[j].consumer = f[j].consumer
      /\ \A j \in Times : g[j].cancel = f[j].cancel /\ g[j].next = f[j].next
                          /\ g[j].visited = f[j].visited
  BY <1>2, <1>4, LinkedFacts
<1>6. f[i].owner = {}
  BY <1>1 DEF Tied, Fresh
<1>7. f[c].cancel = {} /\ \A e \in f[c].consumer : e < i
  <2>1. ASSUME NEW e \in f[c].consumer \cup f[c].cancel PROVE e < i /\ Kind(e) = Kind(i)
    <3>1. CauseOK(e, c) /\ c \in f[e].owner /\ e \in Kept
      BY <1>0, <1>2 DEF Tied, Mutual, Typed, EventSet
    <3>2. Kind(e) = Kind(i)
      BY <1>1, <1>2, <3>1, CauseKindsFacts
    <3>3. m[p] \in Nat /\ ~(e > m[p])
      BY <1>0, <1>1, <3>1, <3>2, TraceFacts DEF Tied, Fresh, Progress
    <3> QED BY <1>0, <3>1, <3>2, <3>3
  <2>2. \A e \in f[c].cancel : Kind(e) = "cancel"
    BY <1>2 DEF Tied, Mutual
  <2> QED BY <1>1, <2>1, <2>2
<1>8. Mutual(g)
  BY <1>1, <1>2, <1>6, <1>7, LinkKeepsMutual DEF Tied
<1> HIDE DEF g
<1>9. \A q \in Passes : q # p => n[q] = m[q]
  BY DEF Progress
<1>10. n[p] = i
  BY <1>1 DEF Progress
<1>11. Fresh(g, n)
  <2> SUFFICES ASSUME NEW q \in Passes \ {"messages", "traps"}, NEW j \in Kept, Kind(j) \in Effects[q], j > n[q]
      PROVE  g[j].owner = {}
    BY DEF Fresh
  <2>1. m[p] \in Nat /\ j > m[q]
    BY <1>0, <1>1, <1>9, <1>10, TraceFacts DEF Progress
  <2>2. f[j].owner = {}
    BY <2>1 DEF Tied, Fresh
  <2>3. j # i
    <3>1. CASE q = p
      BY <1>0, <1>10, <3>1
    <3>2. CASE q # p
      BY <1>1, <3>2 DEF Effects, Passes
    <3> QED BY <3>1, <3>2
  <2> QED BY <1>0, <1>5, <2>2, <2>3
<1>12. NoCallYet(g, n)
  <2>1. n["cancels"] = m["cancels"]
    BY <1>1, <1>9 DEF Passes
  <2> QED BY <1>0, <1>3, <1>5, <2>1 DEF Tied, NoCallYet
<1>13. MessagesFree(g, n)
  <2>1. n["messages"] = m["messages"]
    BY <1>1, <1>9 DEF Passes
  <2>2. \A j \in Messages : j # i /\ j # c
    BY <1>1, <1>3 DEF Messages, Sends, Receives
  <2>3. \A j \in Kept : Kind(j) \in InboxKinds => j # i
    BY <1>1 DEF InboxKinds
  <2>4. \A j \in Messages : ~g[j].visited => g[j].owner = {} /\ g[j].consumer = {} /\ g[j].next = {}
    BY <1>0, <1>5, <2>2 DEF Tied, MessagesFree
  <2>5. \A j \in Kept : Kind(j) \in InboxKinds => g[j].owner = f[j].owner
    BY <1>0, <1>5, <2>3
  <2>6. \A j \in Kept : g[j].visited = f[j].visited
    BY <1>0, <1>5
  <2> QED BY <2>1, <2>4, <2>5, <2>6 DEF Tied, MessagesFree
<1>14. Recent(g)
  BY <1>0, <1>5 DEF Tied, Recent
<1>15. NoCross(g)
  <2>1. \A j \in Kept : Kind(j) \in {"display"} \cup InboxKinds => g[j].owner = f[j].owner
    BY <1>0, <1>1, <1>5 DEF InboxKinds
  <2> QED BY <2>1 DEF Tied, NoCross
<1> QED BY <1>5, <1>8, <1>11, <1>12, <1>13, <1>14, <1>15 DEF Tied, g

\* What a turn of one pass leaves alone, when it touches the kinds of that pass only.
Untouched(f, g, kinds) ==
  \A j \in Kept : Kind(j) \notin kinds =>
    /\ g[j].owner = f[j].owner /\ g[j].consumer = f[j].consumer /\ g[j].cancel = f[j].cancel
    /\ g[j].next = f[j].next /\ g[j].visited = f[j].visited

LEMMA UntouchedKeeps ==
  ASSUME HistOK, NEW f, NEW g, NEW kinds, NEW m, NEW n, NEW p \in Passes, NEW i \in Kept,
         Progress(m), n = [m EXCEPT ![p] = i], i > m[p], Tied(f, m), Untouched(f, g, kinds)
  PROVE  /\ kinds \cap (Sends \cup Receives) = {} /\ p # "messages" => MessagesFree(g, n)
         /\ "create" \notin kinds /\ p # "cancels" => NoCallYet(g, n)
         /\ kinds \cap RecentKinds = {} => Recent(g)
         /\ kinds \cap ({"display"} \cup InboxKinds) = {} => NoCross(g)
<1>1. \A q \in Passes : q # p => n[q] = m[q]
  BY DEF Progress
<1>2. ASSUME kinds \cap (Sends \cup Receives) = {}, p # "messages" PROVE MessagesFree(g, n)
  <2>1. n["messages"] = m["messages"]
    BY <1>1, <1>2 DEF Passes
  <2>2. \A j \in Messages : Kind(j) \notin kinds /\ j \in Kept
    BY <1>2 DEF Messages
  <2>3. \A j \in Kept : Kind(j) \in InboxKinds => Kind(j) \notin kinds
    BY <1>2 DEF InboxKinds, Receives
  <2>4. \A j \in Messages : ~g[j].visited => g[j].owner = {} /\ g[j].consumer = {} /\ g[j].next = {}
    BY <2>2 DEF Tied, MessagesFree, Untouched
  <2>5. \A j \in Kept : Kind(j) \in InboxKinds => g[j].owner = f[j].owner /\ g[j].visited = f[j].visited
    BY <2>3 DEF Untouched
  <2> QED BY <2>1, <2>4, <2>5 DEF Tied, MessagesFree
<1>3. ASSUME "create" \notin kinds, p # "cancels" PROVE NoCallYet(g, n)
  <2>1. n["cancels"] = m["cancels"]
    BY <1>1, <1>3 DEF Passes
  <2>2. \A c \in Kept : Kind(c) = "create" => g[c].consumer = f[c].consumer
    BY <1>3 DEF Untouched
  <2> QED BY <2>1, <2>2 DEF Tied, NoCallYet
<1>4. ASSUME kinds \cap RecentKinds = {} PROVE Recent(g)
  <2>1. \A j \in Kept : Kind(j) \in RecentKinds => g[j].owner = f[j].owner
    BY <1>4 DEF Untouched
  <2> QED BY <2>1 DEF Tied, Recent
<1>5. ASSUME kinds \cap ({"display"} \cup InboxKinds) = {} PROVE NoCross(g)
  <2>1. \A j \in Kept : Kind(j) \in {"display"} \cup InboxKinds => g[j].owner = f[j].owner
    BY <1>5 DEF Untouched
  <2> QED BY <2>1 DEF Tied, NoCross
<1> QED BY <1>2, <1>3, <1>4, <1>5

LEMMA EffectsFacts ==
  /\ Effects["messages"] = Sends /\ Effects["dispatch"] = {"inv"} /\ Effects["cancels"] = {"cancel"}
  /\ Effects["callouts"] = {"callout"} /\ Effects["animation"] = {"display"}
  /\ Effects["traps"] = {"trap"} /\ Effects["loop"] = {"unset", "item"} /\ Effects["wakeups"] = {"mkrun"}
  /\ \A p, q \in Passes : p # q => Effects[p] \cap Effects[q] = {}
BY DEF Effects, Passes, Sends

\* Only the record of the turn gets an owner, and is not to come any more.
LEMMA StillFresh ==
  ASSUME HistOK, NEW f, NEW g, NEW m, NEW n, NEW p \in Passes, NEW i \in Kept,
         Progress(m), n = [m EXCEPT ![p] = i], i > m[p], Fresh(f, m),
         \A j \in Kept : Kind(j) \notin Receives /\ j # i => g[j].owner \subseteq f[j].owner,
         Kind(i) \in Effects[p], Kind(i) \notin Receives
  PROVE  Fresh(g, n)
<1> SUFFICES ASSUME NEW q \in Passes \ {"messages", "traps"}, NEW j \in Kept, Kind(j) \in Effects[q], j > n[q]
    PROVE  g[j].owner = {}
  BY DEF Fresh
<1>0. i \in Nat /\ j \in Nat /\ m[p] \in Nat /\ m[q] \in Nat
  BY TraceFacts DEF Progress
<1>1. n[p] = i /\ (q # p => n[q] = m[q])
  BY DEF Progress
<1>2. j > m[q]
  BY <1>0, <1>1
<1>3. f[j].owner = {}
  BY <1>2 DEF Fresh
<1>4. j # i
  <2>1. q = p => j # i
    BY <1>0, <1>1
  <2>2. q # p => j # i
    BY EffectsFacts
  <2> QED BY <2>1, <2>2
<1>5. Kind(j) \notin Receives
  BY EffectsFacts DEF Passes, Receives
<1> QED BY <1>3, <1>4, <1>5

-----------------------------------------------------------------------------
(* The turns of the passes that tie two events.                            *)

\* What a turn starts from: record i is the next of pass p.
Turning(f, m, n, p, i) ==
  /\ Typed(f) /\ Tied(f, m) /\ Progress(m)
  /\ p \in Passes /\ i \in Kept /\ Kind(i) \in Effects[p] /\ i > m[p]
  /\ n = [m EXCEPT ![p] = i]

\* The item of an invocation is that of no enqueue.
LEMMA NoBlockTied ==
  ASSUME HistOK, NEW i \in Times, Kind(i) = "inv"
  PROVE  ConnectInvoke(i) = ev
<1>1. \A e \in Kept : Kind(e) = "enq" => Item(e) # Item(i)
  BY TraceFacts DEF Item, NoItem
<1>2. {e \in Kept : Kind(e) = "enq" /\ e < i /\ Item(e) = Item(i) /\ ev[e].consumer = {}} = {}
  BY <1>1
<1>3. Earliest({}) = {}
  BY DEF Earliest
<1> QED BY <1>2, <1>3 DEF ConnectInvoke, Connected

\* A cancellation is tied to its create.
CancelTie(f, i, c) == [f EXCEPT ![i].owner = {c}, ![c].cancel = {i}]

LEMMA CancelTieFacts ==
  ASSUME NEW f, Typed(f), NEW i \in Kept, NEW c \in Kept, i # c
  PROVE  /\ Typed(CancelTie(f, i, c))
         /\ CancelTie(f, i, c)[i].owner = {c} /\ CancelTie(f, i, c)[c].cancel = {i}
         /\ \A j \in Times : j # i => CancelTie(f, i, c)[j].owner = f[j].owner
         /\ \A j \in Times : j # c => CancelTie(f, i, c)[j].cancel = f[j].cancel
         /\ \A j \in Times :
              /\ CancelTie(f, i, c)[j].consumer = f[j].consumer
              /\ CancelTie(f, i, c)[j].next = f[j].next
              /\ CancelTie(f, i, c)[j].peer = f[j].peer
              /\ CancelTie(f, i, c)[j].read = f[j].read
              /\ CancelTie(f, i, c)[j].visited = f[j].visited
<1> DEFINE g == CancelTie(f, i, c)
<1>1. f \in [Times -> EventSet(Kept)] /\ i \in Times /\ c \in Times /\ ~history[i].lost /\ ~history[c].lost
  BY DEF Typed, Kept
<1>2. g = [j \in Times |-> IF j = c THEN [f[j] EXCEPT !.cancel = {i}]
                           ELSE IF j = i THEN [f[j] EXCEPT !.owner = {c}] ELSE f[j]]
  BY <1>1 DEF CancelTie
<1>3. ASSUME NEW j \in Times
      PROVE  /\ g[j] \in EventSet(Kept)
             /\ g[j].owner = IF j = i THEN {c} ELSE f[j].owner
             /\ g[j].cancel = IF j = c THEN {i} ELSE f[j].cancel
             /\ g[j].consumer = f[j].consumer /\ g[j].next = f[j].next /\ g[j].peer = f[j].peer /\ g[j].read = f[j].read /\ g[j].visited = f[j].visited
             /\ history[j].lost => g[j] = f[j]
  <2>1. f[j] \in EventSet(Kept)
    BY <1>1
  <2>2. CASE j = c
    BY <1>1, <1>2, <2>1, <2>2 DEF EventSet
  <2>3. CASE j = i
    BY <1>1, <1>2, <2>1, <2>3 DEF EventSet
  <2>4. CASE j # c /\ j # i
    BY <1>1, <1>2, <2>1, <2>4 DEF EventSet
  <2> QED BY <2>2, <2>3, <2>4
<1>4. g \in [Times -> EventSet(Kept)]
  <2>1. g = [j \in Times |-> g[j]]
    BY <1>2
  <2> HIDE DEF g
  <2> QED BY <1>3, <2>1
<1> HIDE DEF g
<1>5. Typed(g)
  BY <1>3, <1>4 DEF Typed
<1>6. /\ g[i].owner = {c} /\ g[c].cancel = {i}
      /\ \A j \in Times : j # i => g[j].owner = f[j].owner
      /\ \A j \in Times : j # c => g[j].cancel = f[j].cancel
  BY <1>1, <1>3
<1>7. \A j \in Times : g[j].consumer = f[j].consumer /\ g[j].next = f[j].next /\ g[j].peer = f[j].peer /\ g[j].read = f[j].read /\ g[j].visited = f[j].visited
  BY <1>3
<1> QED BY <1>5, <1>6, <1>7 DEF g

LEMMA CancelTied ==
  ASSUME HistOK, NEW f, NEW m, NEW n, NEW i, Turning(f, m, n, "cancels", i),
         NEW c \in RecentCreate(i), f[c].cancel = {}
  PROVE  Typed(CancelTie(f, i, c)) /\ Tied(CancelTie(f, i, c), n)
<1> DEFINE g == CancelTie(f, i, c)
           p == "cancels"
           kinds == {"create", "cancel"}
<1>0. Times \subseteq Nat /\ Kept \subseteq Times /\ i \in Kept /\ i \in Nat
  BY TraceFacts DEF Turning
<1>1. Typed(f) /\ Tied(f, m) /\ Progress(m) /\ p \in Passes /\ Kind(i) = "cancel" /\ i > m[p] /\ n = [m EXCEPT ![p] = i]
  BY EffectsFacts DEF Turning
<1>2. c \in Kept /\ c \in Nat /\ Kind(c) = "create" /\ Key(c) = Key(i) /\ c < i
  BY <1>0 DEF RecentCreate, Latest, KeptBefore, Of
<1>3. CauseOK(i, c) /\ i # c
  BY <1>0, <1>2, <1>1, CauseOKIntro
<1>4. /\ Typed(g)
      /\ g[i].owner = {c} /\ g[c].cancel = {i}
      /\ \A j \in Times : j # i => g[j].owner = f[j].owner
      /\ \A j \in Times : j # c => g[j].cancel = f[j].cancel
      /\ \A j \in Times : g[j].consumer = f[j].consumer /\ g[j].next = f[j].next
                          /\ g[j].visited = f[j].visited
  BY <1>0, <1>1, <1>2, <1>3, CancelTieFacts
<1>5. f[i].owner = {}
  BY <1>0, <1>1, EffectsFacts DEF Tied, Fresh
<1>6. f[c].consumer = {}
  BY <1>0, <1>1, <1>2 DEF Tied, NoCallYet
<1> HIDE DEF g
<1>7. \A j \in Times : f[j].owner \subseteq Kept /\ f[j].consumer \subseteq Kept /\ f[j].cancel \subseteq Kept
  BY <1>1 DEF Typed, EventSet
<1>8. Mutual(g)
  <2>1. ASSUME NEW j \in Kept, NEW b \in g[j].owner
        PROVE  CauseOK(j, b) /\ \E e \in g[b].consumer \cup g[b].cancel : e = j \/ (Kind(j) \in Shared /\ e > j)
    <3>1. CASE j = i
      BY <1>0, <1>3, <1>4, <3>1
    <3>2. CASE j # i
      <4>1. b \in f[j].owner /\ CauseOK(j, b) /\ b \in Kept
        BY <1>0, <1>1, <1>4, <1>7, <3>2 DEF Tied, Mutual
      <4>2. PICK e \in f[b].consumer \cup f[b].cancel : e = j \/ (Kind(j) \in Shared /\ e > j)
        BY <1>1, <4>1 DEF Tied, Mutual
      <4>3. b # c
        <5> SUFFICES ASSUME b = c PROVE FALSE
          OBVIOUS
        <5> QED BY <1>6, <4>2
      <4> QED BY <1>0, <1>4, <4>1, <4>2, <4>3
    <3> QED BY <3>1, <3>2
  <2>2. ASSUME NEW j \in Kept, NEW e \in g[j].consumer \cup g[j].cancel
        PROVE  CauseOK(e, j) /\ j \in g[e].owner
    <3>1. CASE j = c
      BY <1>0, <1>3, <1>4, <1>6, <3>1
    <3>2. CASE j # c
      <4>1. e \in f[j].consumer \cup f[j].cancel /\ CauseOK(e, j) /\ j \in f[e].owner /\ e \in Kept
        BY <1>0, <1>1, <1>4, <1>7, <3>2 DEF Tied, Mutual
      <4>2. e # i
        BY <1>5, <4>1
      <4> QED BY <1>0, <1>4, <4>1, <4>2
    <3> QED BY <3>1, <3>2
  <2>3. ASSUME NEW j \in Kept
        PROVE  /\ \A e \in g[j].consumer : Kind(e) # "cancel"
               /\ \A e \in g[j].cancel : Kind(e) = "cancel"
               /\ g[j].consumer = {} \/ g[j].cancel = {}
    <3>1. CASE j = c
      BY <1>0, <1>1, <1>4, <1>6, <3>1
    <3>2. CASE j # c
      BY <1>0, <1>1, <1>4, <3>2 DEF Tied, Mutual
    <3> QED BY <3>1, <3>2
  <2> QED BY <2>1, <2>2, <2>3 DEF Mutual
<1>9. Untouched(f, g, kinds)
  BY <1>0, <1>1, <1>2, <1>4 DEF Untouched
<1>10. MessagesFree(g, n) /\ NoCross(g)
  <2>1. kinds \cap (Sends \cup Receives) = {}
        /\ kinds \cap ({"display"} \cup InboxKinds) = {}
    BY DEF Sends, Receives, InboxKinds
  <2>2. p # "messages"
    OBVIOUS
  <2> HIDE DEF kinds, p
  <2> QED BY <1>0, <1>1, <1>9, <2>1, <2>2, UntouchedKeeps
<1>11. Fresh(g, n)
  <2>1. \A j \in Kept : Kind(j) \notin Receives /\ j # i => g[j].owner \subseteq f[j].owner
    BY <1>0, <1>4
  <2>2. Kind(i) \in Effects[p] /\ Kind(i) \notin Receives
    BY <1>1, EffectsFacts DEF Receives
  <2>3. Fresh(f, m)
    BY <1>1 DEF Tied
  <2> HIDE DEF p
  <2> QED BY <1>0, <1>1, <2>1, <2>2, <2>3, StillFresh
<1>12. NoCallYet(g, n)
  <2>1. \A b \in Kept : Kind(b) = "create" => g[b].consumer = {}
    BY <1>0, <1>1, <1>4 DEF Tied, NoCallYet
  <2> QED BY <2>1 DEF NoCallYet
<1>13. Recent(g)
  <2>1. Latest(KeptBefore(i, CauseKinds(i), Key(i))) = RecentCreate(i)
    BY <1>1 DEF RecentCreate, CauseKinds
  <2>2. ASSUME NEW j \in Kept, Kind(j) \in RecentKinds
        PROVE  g[j].owner \subseteq Latest(KeptBefore(j, CauseKinds(j), Key(j)))
    <3>1. CASE j = i
      BY <1>4, <2>1, <3>1
    <3>2. CASE j # i
      BY <1>0, <1>1, <1>4, <2>2, <3>2 DEF Tied, Recent
    <3> QED BY <3>1, <3>2
  <2> QED BY <2>2 DEF Recent
<1> QED BY <1>4, <1>8, <1>10, <1>11, <1>12, <1>13 DEF Tied, g

\* The cancellations of a create are taken back.
Undone(f, c) ==
  [j \in DOMAIN f |-> IF j \in f[c].cancel THEN [f[j] EXCEPT !.owner = {}]
                      ELSE IF j = c THEN [f[j] EXCEPT !.cancel = {}] ELSE f[j]]

LEMMA UndoneFacts ==
  ASSUME NEW f, Typed(f), NEW c \in Kept, c \notin f[c].cancel
  PROVE  /\ Typed(Undone(f, c))
         /\ Undone(f, c)[c].cancel = {}
         /\ \A j \in f[c].cancel : Undone(f, c)[j].owner = {}
         /\ \A j \in Times : j \notin f[c].cancel => Undone(f, c)[j].owner = f[j].owner
         /\ \A j \in Times : j # c => Undone(f, c)[j].cancel = f[j].cancel
         /\ \A j \in Times :
              /\ Undone(f, c)[j].consumer = f[j].consumer
              /\ Undone(f, c)[j].next = f[j].next
              /\ Undone(f, c)[j].peer = f[j].peer
              /\ Undone(f, c)[j].read = f[j].read
              /\ Undone(f, c)[j].visited = f[j].visited
<1> DEFINE g == Undone(f, c)
<1>1. f \in [Times -> EventSet(Kept)] /\ c \in Times /\ ~history[c].lost
  BY DEF Typed, Kept
<1>2. f[c].cancel \subseteq Kept /\ \A j \in f[c].cancel : j \in Times /\ ~history[j].lost
  BY <1>1 DEF EventSet, Kept
<1>3. g = [j \in Times |-> IF j \in f[c].cancel THEN [f[j] EXCEPT !.owner = {}]
                           ELSE IF j = c THEN [f[j] EXCEPT !.cancel = {}] ELSE f[j]]
  BY <1>1 DEF Undone
<1>4. ASSUME NEW j \in Times
      PROVE  /\ g[j] \in EventSet(Kept)
             /\ g[j].owner = IF j \in f[c].cancel THEN {} ELSE f[j].owner
             /\ g[j].cancel = IF j = c THEN {} ELSE f[j].cancel
             /\ g[j].consumer = f[j].consumer /\ g[j].next = f[j].next /\ g[j].peer = f[j].peer /\ g[j].read = f[j].read /\ g[j].visited = f[j].visited
             /\ history[j].lost => g[j] = f[j]
  <2>1. f[j] \in EventSet(Kept)
    BY <1>1
  <2>2. CASE j \in f[c].cancel
    <3>1. g[j] = [f[j] EXCEPT !.owner = {}] /\ ~history[j].lost /\ j # c
      BY <1>2, <1>3, <2>2
    <3> HIDE DEF g
    <3> QED BY <2>1, <2>2, <3>1 DEF EventSet
  <2>3. CASE j = c
    <3>1. g[j] = [f[j] EXCEPT !.cancel = {}] /\ ~history[j].lost
      BY <1>1, <1>3, <2>3
    <3> HIDE DEF g
    <3> QED BY <2>1, <2>3, <3>1 DEF EventSet
  <2>4. CASE j # c /\ j \notin f[c].cancel
    <3>1. g[j] = f[j]
      BY <1>3, <2>4
    <3> HIDE DEF g
    <3> QED BY <2>1, <2>4, <3>1 DEF EventSet
  <2> QED BY <2>2, <2>3, <2>4
<1>5. g \in [Times -> EventSet(Kept)]
  <2>1. g = [j \in Times |-> g[j]]
    BY <1>3
  <2> HIDE DEF g
  <2> QED BY <1>4, <2>1
<1> HIDE DEF g
<1>6. Typed(g)
  BY <1>4, <1>5 DEF Typed
<1>7. /\ g[c].cancel = {}
      /\ \A j \in f[c].cancel : g[j].owner = {}
      /\ \A j \in Times : j \notin f[c].cancel => g[j].owner = f[j].owner
      /\ \A j \in Times : j # c => g[j].cancel = f[j].cancel
  BY <1>1, <1>2, <1>4
<1>8. \A j \in Times : g[j].consumer = f[j].consumer /\ g[j].next = f[j].next /\ g[j].peer = f[j].peer /\ g[j].read = f[j].read /\ g[j].visited = f[j].visited
  BY <1>4
<1> QED BY <1>6, <1>7, <1>8 DEF g

\* A cancellation taken back leaves nothing pointing at it.
LEMMA UndoneTied ==
  ASSUME HistOK, NEW f, NEW m, Typed(f), Tied(f, m), Progress(m),
         NEW c \in Kept, Kind(c) = "create", f[c].consumer = {}
  PROVE  /\ Typed(Undone(f, c)) /\ Tied(Undone(f, c), m) /\ Undone(f, c)[c].cancel = {}
         /\ \A j \in Times : Undone(f, c)[j].consumer = f[j].consumer
         /\ \A j \in Times : Undone(f, c)[j].owner \subseteq f[j].owner
<1> DEFINE g == Undone(f, c)
<1>0. Times \subseteq Nat /\ Kept \subseteq Times /\ c \in Times
  BY TraceFacts
<1>1. \A j \in Times : f[j].owner \subseteq Kept /\ f[j].consumer \subseteq Kept /\ f[j].cancel \subseteq Kept
  BY DEF Typed, EventSet
<1>2. \A e \in f[c].cancel : e \in Kept /\ e # c /\ Kind(e) = "cancel" /\ c \in f[e].owner
  BY <1>0, <1>1 DEF Tied, Mutual
<1>3. /\ Typed(g)
      /\ g[c].cancel = {}
      /\ \A j \in f[c].cancel : g[j].owner = {}
      /\ \A j \in Times : j \notin f[c].cancel => g[j].owner = f[j].owner
      /\ \A j \in Times : j # c => g[j].cancel = f[j].cancel
      /\ \A j \in Times : g[j].consumer = f[j].consumer /\ g[j].next = f[j].next /\ g[j].visited = f[j].visited
  BY <1>2, UndoneFacts
<1> HIDE DEF g
\* A late cancellation belongs to this create alone.
<1>4. \A e \in f[c].cancel : \A b \in f[e].owner : b = c
  <2> SUFFICES ASSUME NEW e \in f[c].cancel, NEW b \in f[e].owner PROVE b = c
    OBVIOUS
  <2>1. e \in Kept /\ f[e].owner \subseteq Latest(KeptBefore(e, CauseKinds(e), Key(e))) /\ c \in f[e].owner
    BY <1>2 DEF Tied, Recent, RecentKinds
  <2>2. KeptBefore(e, CauseKinds(e), Key(e)) \in SUBSET Nat
    BY <1>0 DEF KeptBefore, Of
  <2> QED BY <2>1, <2>2, EndFacts
<1>5. Mutual(g)
  <2>1. ASSUME NEW j \in Kept, NEW b \in g[j].owner
        PROVE  CauseOK(j, b) /\ \E e \in g[b].consumer \cup g[b].cancel : e = j \/ (Kind(j) \in Shared /\ e > j)
    <3>1. j \notin f[c].cancel /\ b \in f[j].owner
      BY <1>0, <1>3
    <3>2. CauseOK(j, b) /\ b \in Kept
      BY <1>0, <1>1, <3>1 DEF Tied, Mutual
    <3>3. PICK e \in f[b].consumer \cup f[b].cancel : e = j \/ (Kind(j) \in Shared /\ e > j)
      BY <3>1 DEF Tied, Mutual
    <3>4. b # c
      <4> SUFFICES ASSUME b = c PROVE FALSE
        OBVIOUS
      <4>1. e \in f[c].cancel /\ e # j
        BY <3>1, <3>3
      <4>2. Kind(j) \in {"cancel", "callout"}
        BY <3>2, CauseKindsFacts
      <4> QED BY <3>3, <4>1, <4>2 DEF Shared
    <3> QED BY <1>0, <1>3, <3>2, <3>3, <3>4
  <2>2. ASSUME NEW j \in Kept, NEW e \in g[j].consumer \cup g[j].cancel
        PROVE  CauseOK(e, j) /\ j \in g[e].owner
    <3>1. j # c
      BY <1>0, <1>3
    <3>2. e \in f[j].consumer \cup f[j].cancel /\ CauseOK(e, j) /\ j \in f[e].owner /\ e \in Kept
      BY <1>0, <1>1, <1>3, <3>1 DEF Tied, Mutual
    <3>3. e \notin f[c].cancel
      BY <1>4, <3>1, <3>2
    <3> QED BY <1>0, <1>3, <3>2, <3>3
  <2>3. ASSUME NEW j \in Kept
        PROVE  /\ \A e \in g[j].consumer : Kind(e) # "cancel"
               /\ \A e \in g[j].cancel : Kind(e) = "cancel"
               /\ g[j].consumer = {} \/ g[j].cancel = {}
    <3>1. CASE j = c
      BY <1>0, <1>3, <3>1
    <3>2. CASE j # c
      BY <1>0, <1>3, <3>2 DEF Tied, Mutual
    <3> QED BY <3>1, <3>2
  <2> QED BY <2>1, <2>2, <2>3 DEF Mutual
<1>6. \A j \in Times : g[j].owner \subseteq f[j].owner
  BY <1>3
<1>7. Fresh(g, m)
  BY <1>0, <1>6 DEF Tied, Fresh
<1>8. NoCallYet(g, m)
  BY <1>0, <1>3 DEF Tied, NoCallYet
<1>9. Recent(g)
  BY <1>0, <1>6 DEF Tied, Recent
<1>10. NoCross(g)
  BY <1>0, <1>6 DEF Tied, NoCross
<1>11. MessagesFree(g, m)
  <2>1. \A i \in Messages : ~g[i].visited => g[i].owner = {} /\ g[i].consumer = {} /\ g[i].next = {}
    <3>1. Messages \subseteq Times
      BY <1>0 DEF Messages
    <3> QED BY <1>3, <1>6, <3>1 DEF Tied, MessagesFree
  <2>2. \A i \in Kept : Kind(i) \in InboxKinds => \A b \in g[i].owner : b <= m["messages"]
    BY <1>0, <1>6 DEF Tied, MessagesFree
  <2>3. \A i, j \in Kept :
          Kind(i) = Kind(j) /\ Key(i) = Key(j) /\ Kind(i) \in InboxKinds /\ ~g[j].visited =>
            \A b \in g[i].owner : i < j \/ j < b
    BY <1>0, <1>3, <1>6 DEF Tied, MessagesFree
  <2> QED BY <2>1, <2>2, <2>3 DEF MessagesFree
<1>12. Tied(g, m)
  BY <1>5, <1>7, <1>8, <1>9, <1>10, <1>11 DEF Tied
<1> QED BY <1>3, <1>6, <1>12 DEF g

LEMMA CalloutTied ==
  ASSUME HistOK, NEW f, NEW m, NEW n, NEW i, Turning(f, m, n, "callouts", i),
         NEW c \in RecentCreate(i), f[c].consumer = {}, f[c].cancel = {},
         \A j \in Kept : Kind(j) = "cancel" => ~(j > m["cancels"])
  PROVE  Typed(Linked(f, i, c)) /\ Tied(Linked(f, i, c), n)
<1> DEFINE g == Linked(f, i, c)
           p == "callouts"
           kinds == {"create", "callout"}
<1>0. Times \subseteq Nat /\ Kept \subseteq Times /\ i \in Kept /\ i \in Nat
  BY TraceFacts DEF Turning
<1>1. Typed(f) /\ Tied(f, m) /\ Progress(m) /\ p \in Passes /\ Kind(i) = "callout" /\ i > m[p] /\ n = [m EXCEPT ![p] = i]
  BY EffectsFacts DEF Turning
<1>2. c \in Kept /\ c \in Nat /\ Kind(c) = "create" /\ Key(c) = Key(i) /\ c < i
  BY <1>0 DEF RecentCreate, Latest, KeptBefore, Of
<1>3. CauseOK(i, c) /\ i # c
  BY <1>0, <1>2, <1>1, CauseOKIntro
<1>4. /\ Typed(g)
      /\ g[i].owner = {c} /\ g[c].consumer = {i}
      /\ \A j \in Times : j # i => g[j].owner = f[j].owner
      /\ \A j \in Times : j # c => g[j].consumer = f[j].consumer
      /\ \A j \in Times : g[j].cancel = f[j].cancel /\ g[j].next = f[j].next
                          /\ g[j].visited = f[j].visited
  BY <1>0, <1>1, <1>2, <1>3, LinkedFacts
<1>5. f[i].owner = {}
  BY <1>0, <1>1, EffectsFacts DEF Tied, Fresh
<1>6. Mutual(g)
  BY <1>0, <1>1, <1>2, <1>3, <1>5, LinkKeepsMutual DEF Tied
<1> HIDE DEF g
<1>7. Untouched(f, g, kinds)
  BY <1>0, <1>1, <1>2, <1>4 DEF Untouched
<1>8. MessagesFree(g, n) /\ NoCross(g)
  <2>1. kinds \cap (Sends \cup Receives) = {}
        /\ kinds \cap ({"display"} \cup InboxKinds) = {}
    BY DEF Sends, Receives, InboxKinds
  <2>2. p # "messages"
    OBVIOUS
  <2> HIDE DEF kinds, p
  <2> QED BY <1>0, <1>1, <1>7, <2>1, <2>2, UntouchedKeeps
<1>9. Fresh(g, n)
  <2>1. \A j \in Kept : Kind(j) \notin Receives /\ j # i => g[j].owner \subseteq f[j].owner
    BY <1>0, <1>4
  <2>2. Kind(i) \in Effects[p] /\ Kind(i) \notin Receives
    BY <1>1, EffectsFacts DEF Receives
  <2>3. Fresh(f, m)
    BY <1>1 DEF Tied
  <2> HIDE DEF p
  <2> QED BY <1>0, <1>1, <2>1, <2>2, <2>3, StillFresh
<1>10. NoCallYet(g, n)
  <2>1. n["cancels"] = m["cancels"]
    BY <1>1 DEF Progress, Passes
  <2> QED BY <2>1 DEF NoCallYet
<1>11. Recent(g)
  <2>1. Latest(KeptBefore(i, CauseKinds(i), Key(i))) = RecentCreate(i)
    BY <1>1 DEF RecentCreate, CauseKinds
  <2>2. ASSUME NEW j \in Kept, Kind(j) \in RecentKinds
        PROVE  g[j].owner \subseteq Latest(KeptBefore(j, CauseKinds(j), Key(j)))
    <3>1. CASE j = i
      BY <1>4, <2>1, <3>1
    <3>2. CASE j # i
      BY <1>0, <1>1, <1>4, <2>2, <3>2 DEF Tied, Recent
    <3> QED BY <3>1, <3>2
  <2> QED BY <2>2 DEF Recent
<1> QED BY <1>4, <1>6, <1>8, <1>9, <1>10, <1>11 DEF Tied, g

-----------------------------------------------------------------------------
(* A display takes all the sets of its object since the last one.          *)

LEMMA ConnectDisplayFacts ==
  ASSUME HistOK, Typed(ev), NEW i \in Kept, Kind(i) = "display",
         NEW S, S = {s \in SetsBack(i) : Key(s) = Key(i) /\ ev[s].consumer = {}}
  PROVE  /\ Typed(ConnectDisplay(i)) /\ S \subseteq Kept /\ i \notin S
         /\ \A s \in S : Kind(s) = "set" /\ Key(s) = Key(i) /\ s < i /\ ev[s].consumer = {}
         /\ ConnectDisplay(i)[i].owner = S
         /\ \A s \in S : ConnectDisplay(i)[s].consumer = {i}
         /\ \A j \in Times : j # i => ConnectDisplay(i)[j].owner = ev[j].owner
         /\ \A j \in Times : j \notin S => ConnectDisplay(i)[j].consumer = ev[j].consumer
         /\ \A j \in Times :
              /\ ConnectDisplay(i)[j].cancel = ev[j].cancel
              /\ ConnectDisplay(i)[j].next = ev[j].next
              /\ ConnectDisplay(i)[j].peer = ev[j].peer
              /\ ConnectDisplay(i)[j].read = ev[j].read
              /\ ConnectDisplay(i)[j].visited = ev[j].visited
<1> DEFINE g == ConnectDisplay(i)
<1>0. Times \subseteq Nat /\ Kept \subseteq Times
  BY TraceFacts
<1>1. ev \in [Times -> EventSet(Kept)] /\ i \in Times /\ ~history[i].lost
  BY DEF Typed, Kept
<1>2. /\ S \subseteq Kept /\ \A s \in S : Kind(s) = "set" /\ Key(s) = Key(i) /\ s < i /\ ev[s].consumer = {}
  BY DEF SetsBack
<1>3. i \notin S /\ S \subseteq Times /\ \A s \in S : ~history[s].lost
  BY <1>0, <1>2 DEF Kept
<1>4. g = [j \in Times |-> IF j \in S THEN [ev[j] EXCEPT !.consumer = {i}]
                           ELSE IF j = i THEN [ev[j] EXCEPT !.owner = S] ELSE ev[j]]
  BY <1>1 DEF ConnectDisplay
<1>5. ASSUME NEW j \in Times
      PROVE  /\ g[j] \in EventSet(Kept)
             /\ g[j].owner = IF j = i THEN S ELSE ev[j].owner
             /\ g[j].consumer = IF j \in S THEN {i} ELSE ev[j].consumer
             /\ g[j].cancel = ev[j].cancel /\ g[j].next = ev[j].next /\ g[j].peer = ev[j].peer /\ g[j].read = ev[j].read /\ g[j].visited = ev[j].visited
             /\ history[j].lost => g[j] = ev[j]
  <2>1. ev[j] \in EventSet(Kept)
    BY <1>1
  <2>2. CASE j \in S
    <3>1. g[j] = [ev[j] EXCEPT !.consumer = {i}] /\ ~history[j].lost /\ j # i
      BY <1>3, <1>4, <2>2
    <3> HIDE DEF g
    <3> QED BY <2>1, <2>2, <3>1 DEF EventSet
  <2>3. CASE j = i
    <3>1. g[j] = [ev[j] EXCEPT !.owner = S] /\ ~history[j].lost /\ j \notin S
      BY <1>1, <1>3, <1>4, <2>3
    <3> HIDE DEF g
    <3> QED BY <1>2, <2>1, <2>3, <3>1 DEF EventSet
  <2>4. CASE j # i /\ j \notin S
    <3>1. g[j] = ev[j]
      BY <1>4, <2>4
    <3> HIDE DEF g
    <3> QED BY <2>1, <2>4, <3>1 DEF EventSet
  <2> QED BY <2>2, <2>3, <2>4
<1>6. g \in [Times -> EventSet(Kept)]
  <2>1. g = [j \in Times |-> g[j]]
    BY <1>4
  <2> HIDE DEF g
  <2> QED BY <1>5, <2>1
<1> HIDE DEF g
<1>7. Typed(g)
  BY <1>5, <1>6 DEF Typed
<1>8. /\ g[i].owner = S /\ \A s \in S : g[s].consumer = {i}
      /\ \A j \in Times : j # i => g[j].owner = ev[j].owner
      /\ \A j \in Times : j \notin S => g[j].consumer = ev[j].consumer
  BY <1>1, <1>3, <1>5
<1>9. \A j \in Times : g[j].cancel = ev[j].cancel /\ g[j].next = ev[j].next /\ g[j].peer = ev[j].peer /\ g[j].read = ev[j].read /\ g[j].visited = ev[j].visited
  BY <1>5
<1> QED BY <1>2, <1>3, <1>7, <1>8, <1>9 DEF g

LEMMA DisplayTied ==
  ASSUME HistOK, NEW m, NEW n, NEW i, Turning(ev, m, n, "animation", i)
  PROVE  Typed(ConnectDisplay(i)) /\ Tied(ConnectDisplay(i), n)
<1> DEFINE g == ConnectDisplay(i)
           S == {s \in SetsBack(i) : Key(s) = Key(i) /\ ev[s].consumer = {}}
           p == "animation"
           kinds == {"set", "display"}
<1>0. Times \subseteq Nat /\ Kept \subseteq Times /\ i \in Kept /\ i \in Nat
  BY TraceFacts DEF Turning
<1>1. Typed(ev) /\ Tied(ev, m) /\ Progress(m) /\ p \in Passes /\ Kind(i) = "display" /\ i > m[p] /\ n = [m EXCEPT ![p] = i]
  BY EffectsFacts DEF Turning
<1>2. /\ Typed(g) /\ S \subseteq Kept /\ i \notin S
      /\ \A s \in S : Kind(s) = "set" /\ Key(s) = Key(i) /\ s < i /\ ev[s].consumer = {}
      /\ g[i].owner = S
      /\ \A s \in S : g[s].consumer = {i}
      /\ \A j \in Times : j # i => g[j].owner = ev[j].owner
      /\ \A j \in Times : j \notin S => g[j].consumer = ev[j].consumer
      /\ \A j \in Times : g[j].cancel = ev[j].cancel /\ g[j].next = ev[j].next /\ g[j].visited = ev[j].visited
  <2> DEFINE T == S
  <2>1. T = {s \in SetsBack(i) : Key(s) = Key(i) /\ ev[s].consumer = {}}
    OBVIOUS
  <2> HIDE DEF T
  <2>2. /\ Typed(g) /\ T \subseteq Kept /\ i \notin T
        /\ \A s \in T : Kind(s) = "set" /\ Key(s) = Key(i) /\ s < i /\ ev[s].consumer = {}
        /\ g[i].owner = T
        /\ \A s \in T : g[s].consumer = {i}
        /\ \A j \in Times : j # i => g[j].owner = ev[j].owner
        /\ \A j \in Times : j \notin T => g[j].consumer = ev[j].consumer
        /\ \A j \in Times : /\ g[j].cancel = ev[j].cancel /\ g[j].next = ev[j].next
                           /\ g[j].peer = ev[j].peer /\ g[j].read = ev[j].read
                           /\ g[j].visited = ev[j].visited
    <3>1. HistOK /\ Typed(ev) /\ i \in Kept /\ Kind(i) = "display"
      BY <1>0, <1>1
    <3> HIDE DEF p, kinds, S
    <3> QED BY <2>1, <3>1, ConnectDisplayFacts
  <2> QED BY <2>2 DEF T
\* A set walked back to is not before one that was displayed.
<1>3. \A s \in S, b \in Kept :
        Kind(b) = "set" /\ Key(b) = Key(i) /\ b < i /\ ev[b].consumer # {} => s >= b
  <2> SUFFICES ASSUME NEW s \in S, NEW b \in Kept, Kind(b) = "set", Key(b) = Key(i), b < i, ev[b].consumer # {}
      PROVE  s >= b
    OBVIOUS
  <2>1. b \in KeptBefore(i, {"set"}, Key(i))
    BY <1>0 DEF KeptBefore, Of
  <2> QED BY <2>1 DEF SetsBack
<1> HIDE DEF g, S
<1>4. \A j \in Kept : Kind(j) = "display" /\ j > m[p] => ev[j].owner = {}
  BY <1>1, EffectsFacts DEF Tied, Fresh
<1>5. ev[i].owner = {}
  BY <1>0, <1>1, <1>4
<1>6. \A j \in Times : ev[j].owner \subseteq Kept /\ ev[j].consumer \subseteq Kept /\ ev[j].cancel \subseteq Kept
  BY <1>1 DEF Typed, EventSet
<1>7. \A s \in S : ev[s].cancel = {}
  <2> SUFFICES ASSUME NEW s \in S, NEW e \in ev[s].cancel PROVE FALSE
    OBVIOUS
  <2>1. CauseOK(e, s) /\ Kind(e) = "cancel" /\ Kind(s) = "set"
    BY <1>1, <1>2 DEF Tied, Mutual
  <2> QED BY <2>1, CauseKindsFacts
<1>8. \A s \in S : CauseOK(i, s)
  BY <1>1, <1>2, CauseOKIntro
<1>9. Mutual(g)
  <2>1. ASSUME NEW j \in Kept, NEW b \in g[j].owner
        PROVE  CauseOK(j, b) /\ \E e \in g[b].consumer \cup g[b].cancel : e = j \/ (Kind(j) \in Shared /\ e > j)
    <3>1. CASE j = i
      BY <1>2, <1>8, <3>1
    <3>2. CASE j # i
      <4>1. b \in ev[j].owner /\ CauseOK(j, b) /\ b \in Kept
        BY <1>0, <1>1, <1>2, <1>6, <3>2 DEF Tied, Mutual
      <4>2. PICK e \in ev[b].consumer \cup ev[b].cancel : e = j \/ (Kind(j) \in Shared /\ e > j)
        BY <1>1, <4>1 DEF Tied, Mutual
      <4>3. b \notin S
        BY <1>2, <1>7, <4>2
      <4> QED BY <1>0, <1>2, <4>1, <4>2, <4>3
    <3> QED BY <3>1, <3>2
  <2>2. ASSUME NEW j \in Kept, NEW e \in g[j].consumer \cup g[j].cancel
        PROVE  CauseOK(e, j) /\ j \in g[e].owner
    <3>1. CASE j \in S
      <4>1. e = i
        BY <1>0, <1>2, <1>7, <3>1
      <4> QED BY <1>2, <1>8, <3>1, <4>1
    <3>2. CASE j \notin S
      <4>1. e \in ev[j].consumer \cup ev[j].cancel /\ CauseOK(e, j) /\ j \in ev[e].owner /\ e \in Kept
        BY <1>0, <1>1, <1>2, <1>6, <3>2 DEF Tied, Mutual
      <4>2. e # i
        BY <1>5, <4>1
      <4> QED BY <1>0, <1>2, <4>1, <4>2
    <3> QED BY <3>1, <3>2
  <2>3. ASSUME NEW j \in Kept
        PROVE  /\ \A e \in g[j].consumer : Kind(e) # "cancel"
               /\ \A e \in g[j].cancel : Kind(e) = "cancel"
               /\ g[j].consumer = {} \/ g[j].cancel = {}
    <3>1. CASE j \in S
      <4>1. g[j].consumer = {i} /\ g[j].cancel = {}
        BY <1>0, <1>2, <1>7, <3>1
      <4>2. Kind(i) # "cancel"
        BY <1>1
      <4> QED BY <4>1, <4>2
    <3>2. CASE j \notin S
      <4>1. g[j].consumer = ev[j].consumer /\ g[j].cancel = ev[j].cancel
        BY <1>0, <1>2, <3>2
      <4>2. /\ \A e \in ev[j].consumer : Kind(e) # "cancel"
            /\ \A e \in ev[j].cancel : Kind(e) = "cancel"
            /\ ev[j].consumer = {} \/ ev[j].cancel = {}
        <5>1. Mutual(ev)
          BY <1>1 DEF Tied
        <5> QED BY <5>1 DEF Mutual
      <4> QED BY <4>1, <4>2
    <3> QED BY <3>1, <3>2
  <2> QED BY <2>1, <2>2, <2>3 DEF Mutual
<1>10. Untouched(ev, g, kinds)
  BY <1>0, <1>1, <1>2 DEF Untouched
<1>11. MessagesFree(g, n) /\ NoCallYet(g, n) /\ Recent(g)
  <2>1. kinds \cap (Sends \cup Receives) = {} /\ "create" \notin kinds
        /\ kinds \cap RecentKinds = {}
    BY DEF Sends, Receives, RecentKinds
  <2>2. p # "messages" /\ p # "cancels"
    OBVIOUS
  <2> HIDE DEF kinds, p
  <2> QED BY <1>0, <1>1, <1>10, <2>1, <2>2, UntouchedKeeps
<1>12. Fresh(g, n)
  <2>1. \A j \in Kept : Kind(j) \notin Receives /\ j # i => g[j].owner \subseteq ev[j].owner
    BY <1>0, <1>2
  <2>2. Kind(i) \in Effects[p] /\ Kind(i) \notin Receives
    BY <1>1, EffectsFacts DEF Receives
  <2>3. Fresh(ev, m)
    BY <1>1 DEF Tied
  <2> HIDE DEF p
  <2> QED BY <1>0, <1>1, <2>1, <2>2, <2>3, StillFresh
<1>13. NoCross(g)
  <2> SUFFICES ASSUME NEW a \in Kept, NEW b \in Kept, a < b, Kind(a) = Kind(b), Key(a) = Key(b),
                      Kind(a) \in {"display"} \cup InboxKinds,
                      NEW u \in g[a].owner, NEW v \in g[b].owner
      PROVE  u <= v
    BY DEF NoCross
  <2>1. CASE a # i /\ b # i
    <3>1. u \in ev[a].owner /\ v \in ev[b].owner
      BY <1>0, <1>2, <2>1
    <3> QED BY <1>1, <3>1 DEF Tied, NoCross
  <2>2. CASE a = i
    <3>1. b > m[p] /\ Kind(b) = "display" /\ b # i
      <4>1. m[p] \in Nat /\ a \in Nat /\ b \in Nat
        BY <1>0, <1>1, TraceFacts DEF Progress
      <4> QED BY <1>1, <2>2, <4>1
    <3>2. v \in ev[b].owner /\ ev[b].owner = {}
      BY <1>0, <1>2, <1>4, <3>1
    <3> QED BY <3>2
  <2>3. CASE b = i /\ a # i
    <3>1. v \in S /\ u \in ev[a].owner
      BY <1>0, <1>2, <2>3
    <3>2. CauseOK(a, u) /\ u \in Kept /\ Kind(a) = "display"
      BY <1>0, <1>1, <1>6, <2>3, <3>1 DEF Tied, Mutual
    <3>3. Kind(u) = "set" /\ Key(u) = Key(i) /\ u < i
      <4>1. u < a /\ Key(u) = Key(a) /\ u \in Nat /\ a \in Nat
        BY <1>0, <3>2 DEF CauseOK
      <4>2. Kind(u) = "set"
        BY <3>2, CauseKindsFacts
      <4> QED BY <1>0, <2>3, <4>1, <4>2
    <3>4. ev[u].consumer # {}
      <4>1. PICK e \in ev[u].consumer \cup ev[u].cancel : TRUE
        BY <1>1, <3>1 DEF Tied, Mutual
      <4>2. CauseOK(e, u) /\ (e \in ev[u].cancel => Kind(e) = "cancel")
        BY <1>1, <3>2, <4>1 DEF Tied, Mutual
      <4>3. Kind(e) = "display"
        BY <3>3, <4>2, CauseKindsFacts
      <4> QED BY <4>1, <4>2, <4>3
    <3>5. v >= u /\ v \in Nat /\ u \in Nat
      BY <1>0, <1>2, <1>3, <3>1, <3>2, <3>3, <3>4
    <3> QED BY <3>5
  <2> QED BY <2>1, <2>2, <2>3
<1> QED BY <1>2, <1>9, <1>11, <1>12, <1>13 DEF Tied, g

-----------------------------------------------------------------------------
(* The messages.                                                           *)

\* The ports of two messages say that they are of one call or of one post.
LEMMA PortsAgree ==
  ASSUME HistOK, NEW i \in Messages, NEW r \in Messages, Kind(i) \in Sends, Kind(r) \in Receives,
         Remote(i) = Remote(r), Local(i) = Local(r), i <= r
  PROVE  CauseOK(r, i)
<1>1. i \in Times /\ r \in Times /\ Key(i) \in Nat /\ Key(r) \in Nat /\ i \in Nat /\ r \in Nat
  BY TraceFacts DEF Messages
<1>2. /\ Kind(i) \in {"request", "receive", "reply", "answer"} => Key(i) > 0
      /\ Kind(r) \in {"request", "receive", "reply", "answer"} => Key(r) > 0
      /\ {Kind(i), Kind(r)} \subseteq {"post", "deliver"} => Key(i) = Key(r)
  <2>1. Rec(i) \in family.inputs /\ Rec(r) \in family.inputs /\ InputsOK(family.inputs)
    BY <1>1, TraceFacts
  <2> QED BY <2>1 DEF InputsOK, Kind, Key
<1>3. i < r
  <2>1. Kind(i) # Kind(r)
    BY DEF Sends, Receives
  <2> QED BY <1>1, <2>1
<1>4. CASE Kind(i) = "request"
  <2>1. Remote(i) = -1 /\ Local(i) = Key(i) /\ Key(i) > 0
    BY <1>2, <1>4 DEF Remote, Local, Service
  <2>2. Kind(r) # "answer"
    BY <1>1, <2>1 DEF Remote
  <2>3. Kind(r) = "receive"
    BY <1>1, <2>1, <2>2 DEF Local, NoPort, Receives
  <2>4. Key(r) = Key(i)
    BY <2>1, <2>3 DEF Local
  <2> QED BY <1>3, <1>4, <2>3, <2>4, CauseOKIntro
<1>5. CASE Kind(i) = "reply"
  <2>1. Remote(i) = Key(i) /\ Local(i) = 0
    BY <1>5 DEF Remote, Local, NoPort
  <2>2. Kind(r) = "answer"
    BY <1>1, <2>1 DEF Remote, Service, Receives
  <2>3. Key(r) = Key(i)
    BY <2>1, <2>2 DEF Remote
  <2> QED BY <1>3, <1>5, <2>2, <2>3, CauseOKIntro
<1>6. CASE Kind(i) = "post"
  <2>1. Remote(i) = -1 /\ Local(i) = 0
    BY <1>6 DEF Remote, Local, Service, NoPort
  <2>2. Kind(r) # "answer"
    BY <1>1, <2>1 DEF Remote
  <2>3. Kind(r) # "receive"
    BY <1>1, <1>2, <2>1 DEF Local
  <2>4. Kind(r) = "deliver"
    BY <2>2, <2>3 DEF Receives
  <2>5. Key(r) = Key(i)
    BY <1>2, <1>6, <2>4
  <2> QED BY <1>3, <1>6, <2>4, <2>5, CauseOKIntro
<1> QED BY <1>4, <1>5, <1>6 DEF Sends

\* The message received that is tied to one sent: no other that is free lies between.
LEMMA SearchRequestFacts ==
  ASSUME HistOK, NEW i \in Messages, Kind(i) \in Sends, NEW r \in SearchRequest(i)
  PROVE  /\ r \in Messages /\ ~ev[r].visited /\ CauseOK(r, i) /\ Kind(r) \in Receives
         /\ Kind(r) \in InboxKinds =>
              \A j \in Messages : Kind(j) = Kind(r) /\ Key(j) = Key(r) /\ ~ev[j].visited => j < i \/ r <= j
<1> DEFINE all == Candidates(Remote(i), Local(i), TRUE)
           first == Min(all)
           fits(c) == c = first \/ (Pid(c) = Pid(first) /\ (LName(first) # NoName => RName(c) = LName(first)))
           found == {c \in all : fits(c) /\ c >= i}
<1>1. r \in Earliest(found)
  <2> HIDE DEF fits
  <2>1. SearchRequest(i) = IF all = {} THEN {} ELSE Earliest(found)
    BY DEF SearchRequest, fits
  <2> HIDE DEF all, found
  <2> QED BY <2>1
<1>2. r \in all /\ fits(r) /\ r >= i /\ \A c \in found : r <= c
  <2> HIDE DEF fits, all
  <2> QED BY <1>1 DEF Earliest
<1>3. \A c \in all : c \in Messages /\ Remote(c) = Remote(i) /\ Local(c) = Local(i) /\ Kind(c) \in Receives /\ ~ev[c].visited
  BY DEF Candidates, IsRecv
<1>0. Messages \subseteq Nat /\ i \in Nat
  BY TraceFacts DEF Messages
<1>4. first \in all /\ \A c \in all : first <= c
  <2> HIDE DEF all
  <2>1. all \in SUBSET Nat /\ all # {}
    BY <1>0, <1>2, <1>3
  <2> QED BY <2>1, MinExists DEF Min
<1> HIDE DEF all, found
<1>5. r \in Messages /\ ~ev[r].visited /\ CauseOK(r, i) /\ Kind(r) \in Receives
  <2>1. i <= r
    BY <1>0, <1>2, <1>3
  <2> QED BY <1>2, <1>3, <2>1, PortsAgree
<1>6. ASSUME NEW j \in Messages, Kind(r) \in InboxKinds, Kind(j) = Kind(r), Key(j) = Key(r), ~ev[j].visited
      PROVE  j < i \/ r <= j
  <2>0. j \in Nat /\ r \in Nat /\ first \in Nat
    BY <1>0, <1>3, <1>4, <1>5
  <2>1. j \in all
    <3>1. Remote(j) = Remote(r) /\ Local(j) = Local(r)
      BY <1>6 DEF Remote, Local, InboxKinds
    <3> QED BY <1>2, <1>3, <1>5, <1>6, <3>1 DEF all, Candidates, IsRecv
  <2>2. CASE Kind(r) = "receive"
    <3>1. Kind(first) = "receive"
      <4>1. first \in Messages /\ Remote(first) = Remote(i) /\ Local(first) = Local(i) /\ Kind(first) \in Receives
        BY <1>3, <1>4
      <4>2. Local(r) = Local(i) /\ Remote(r) = Remote(i)
        BY <1>2, <1>3
      <4>3. Local(r) = Key(r) /\ Key(r) > 0
        <5>1. Rec(r) \in family.inputs /\ InputsOK(family.inputs)
          BY <1>5, TraceFacts DEF Messages
        <5> QED BY <2>2, <5>1 DEF InputsOK, Kind, Key, Local
      <4>4. Kind(first) \in {"request", "receive"}
        <5>1. Key(r) \in Nat
          BY <1>5, TraceFacts DEF Messages
        <5> QED BY <4>1, <4>2, <4>3, <5>1 DEF Local, NoPort
      <4> QED BY <4>1, <4>4 DEF Receives
    <3>2. LName(first) # NoName /\ RName(r) # LName(first)
      <4>1. LName(first) = <<Key(first), "server", IF family.fresh THEN Requests(first) ELSE 0>>
        BY <3>1 DEF LName, ReplyName
      <4>2. RName(r) = <<Service, Pid(r)>>
        BY <2>2 DEF RName
      <4> QED BY <4>1, <4>2 DEF NoName
    <3>3. r = first
      BY <1>2, <3>2
    <3> QED BY <1>4, <2>1, <3>3
  <2>3. CASE Kind(r) = "deliver"
    <3>1. Kind(first) \in {"deliver", "answer"}
      <4>1. first \in Messages /\ Remote(first) = Remote(i) /\ Local(first) = Local(i) /\ Kind(first) \in Receives
        BY <1>3, <1>4
      <4>2. Local(r) = Local(i) /\ Local(r) = 0
        BY <1>2, <1>3, <2>3 DEF Local, NoPort
      <4>3. Kind(first) # "receive"
        <5> SUFFICES ASSUME Kind(first) = "receive" PROVE FALSE
          OBVIOUS
        <5>1. Rec(first) \in family.inputs /\ InputsOK(family.inputs)
          BY <4>1, TraceFacts DEF Messages
        <5>2. Key(first) > 0
          BY <5>1 DEF InputsOK, Kind, Key
        <5> QED BY <4>1, <4>2, <5>2 DEF Local
      <4> QED BY <4>1, <4>3 DEF Receives
    <3>2. Kind(first) = "deliver"
      <4> SUFFICES ASSUME Kind(first) = "answer" PROVE FALSE
        BY <3>1
      <4>1. Remote(first) = Remote(r)
        BY <1>2, <1>3, <1>4
      <4>2. first \in Messages
        BY <1>3, <1>4
      <4>3. Key(first) \in Nat
        BY <4>2, TraceFacts DEF Messages
      <4> QED BY <2>3, <4>1, <4>3 DEF Remote, Service
    <3>3. LName(first) = NoName
      BY <3>2 DEF LName
    <3>4. Pid(j) = Pid(first)
      BY <1>6, <2>3, <3>2 DEF Pid
    <3>5. j >= i => j \in found
      BY <2>1, <3>3, <3>4 DEF found
    <3> QED BY <1>0, <1>2, <2>0, <3>5
  <2> QED BY <1>6, <2>2, <2>3 DEF InboxKinds
<1>7. Kind(r) \in InboxKinds =>
        \A j \in Messages : Kind(j) = Kind(r) /\ Key(j) = Key(r) /\ ~ev[j].visited => j < i \/ r <= j
  BY <1>6
<1> QED BY <1>5, <1>7

\* The reply and the answer of an episode are of the thread that made the request.
LEMMA SearchEpisodeFacts ==
  ASSUME HistOK, NEW i \in Messages, Kind(i) = "request", NEW r \in Messages, NEW p \in SearchReply(i, r)
  PROVE  /\ p \in Messages /\ Kind(p) = "reply" /\ Key(p) = Key(i) /\ ~ev[p].visited /\ p >= r
         /\ \A a \in SearchAnswer(i, p) :
              a \in Messages /\ Kind(a) = "answer" /\ ~ev[a].visited /\ CauseOK(a, p)
<1>1. Key(i) \in Nat /\ Key(i) > 0 /\ Local(i) = Key(i)
  <2>1. Rec(i) \in family.inputs /\ InputsOK(family.inputs) /\ Key(i) \in Nat
    BY TraceFacts DEF Messages
  <2> QED BY <2>1 DEF InputsOK, Kind, Key, Local
<1>2. \A recv, c : c \in Candidates(Local(i), NoPort, recv) =>
        c \in Messages /\ Remote(c) = Key(i) /\ IsRecv(c) = recv /\ ~ev[c].visited
  BY <1>1 DEF Candidates
<1>3. \A c \in Messages : Remote(c) = Key(i) => Kind(c) \in {"reply", "answer"} /\ Key(c) = Key(i)
  <2> SUFFICES ASSUME NEW c \in Messages, Remote(c) = Key(i)
      PROVE Kind(c) \in {"reply", "answer"} /\ Key(c) = Key(i)
    OBVIOUS
  <2>1. Kind(c) \in {"reply", "answer"}
    BY <1>1 DEF Remote, Service
  <2> QED BY <2>1 DEF Remote
<1>4. p \in Candidates(Local(i), NoPort, FALSE) /\ p >= r
  BY DEF SearchReply, Earliest
<1>5. p \in Messages /\ Kind(p) = "reply" /\ Key(p) = Key(i) /\ ~ev[p].visited
  <2>1. IsRecv(p) = FALSE /\ Kind(p) \in {"reply", "answer"}
    BY <1>2, <1>3, <1>4
  <2>2. Kind(p) # "answer"
    BY <2>1 DEF IsRecv, Receives
  <2> QED BY <1>2, <1>3, <1>4, <2>1, <2>2
<1>6. ASSUME NEW a \in SearchAnswer(i, p)
      PROVE  a \in Messages /\ Kind(a) = "answer" /\ ~ev[a].visited /\ CauseOK(a, p)
  <2>1. a \in Candidates(Local(i), NoPort, TRUE) /\ a >= p
    BY DEF SearchAnswer, Earliest
  <2>2. IsRecv(a) = TRUE /\ Kind(a) \in {"reply", "answer"} /\ a \in Messages /\ Key(a) = Key(i) /\ ~ev[a].visited
    BY <1>2, <1>3, <2>1
  <2>3. Kind(a) = "answer"
    BY <2>2 DEF IsRecv, Receives
  <2>4. p < a
    <3>1. a \in Nat /\ p \in Nat /\ a # p
      BY <1>5, <2>2, <2>3, TraceFacts DEF Messages
    <3> QED BY <2>1, <3>1
  <2>5. CauseOK(a, p)
    BY <1>5, <2>2, <2>3, <2>4, CauseOKIntro
  <2> QED BY <2>2, <2>3, <2>5
<1> QED BY <1>4, <1>5, <1>6

\* What a turn of the messages changes: S is visited, r takes i, an answer may be taken too.
Matching(f, g, i, r, S) ==
  /\ r \in Messages /\ S \in SUBSET Messages /\ r \in S /\ i \in S
  /\ CauseOK(r, i) /\ Kind(r) \in Receives /\ ~f[i].visited /\ ~f[r].visited
  /\ Kind(r) \in InboxKinds =>
       \A j \in Messages : Kind(j) = Kind(r) /\ Key(j) = Key(r) /\ ~f[j].visited => j < i \/ r <= j
  /\ Typed(g) /\ Mutual(g) /\ g[r].owner = {i}
  /\ \A j \in Kept : Kind(j) # "answer" /\ j # r => g[j].owner = f[j].owner
  /\ \A j \in Kept : j \notin S =>
       /\ g[j].owner = f[j].owner /\ g[j].consumer = f[j].consumer /\ g[j].cancel = f[j].cancel
       /\ g[j].next = f[j].next /\ g[j].visited = f[j].visited
  /\ \A j \in S : g[j].visited

LEMMA MatchTied ==
  ASSUME HistOK, NEW f, NEW g, NEW m, NEW n, NEW i, Turning(f, m, n, "messages", i),
         NEW r, NEW S, Matching(f, g, i, r, S)
  PROVE  Tied(g, n)
<1> DEFINE p == "messages"
           kinds == Sends \cup Receives
<1>0. Times \subseteq Nat /\ Kept \subseteq Times /\ i \in Kept /\ i \in Nat /\ Messages \subseteq Kept
  BY TraceFacts DEF Turning, Messages
<1>1. Typed(f) /\ Tied(f, m) /\ Progress(m) /\ p \in Passes /\ Kind(i) \in Sends /\ i > m[p] /\ n = [m EXCEPT ![p] = i]
  BY EffectsFacts DEF Turning
<1>2. r \in Messages /\ r \in S /\ i \in S /\ CauseOK(r, i) /\ Kind(r) \in Receives /\ g[r].owner = {i} /\ Typed(g)
      /\ Mutual(g)
  BY DEF Matching
<1>3. Untouched(f, g, kinds)
  BY DEF Untouched, Matching, Messages
<1>4. NoCallYet(g, n) /\ Recent(g)
  <2>1. "create" \notin kinds /\ kinds \cap RecentKinds = {}
    BY DEF Sends, Receives, RecentKinds
  <2>2. p # "cancels"
    OBVIOUS
  <2> HIDE DEF kinds, p
  <2> QED BY <1>0, <1>1, <1>3, <2>1, <2>2, UntouchedKeeps
<1>5. Fresh(g, n)
  <2>1. \A j \in Kept : Kind(j) \notin Receives /\ j # i => g[j].owner \subseteq f[j].owner
    BY <1>2 DEF Receives, Matching
  <2>2. Kind(i) \in Effects[p] /\ Kind(i) \notin Receives
    BY <1>1, EffectsFacts DEF Receives, Sends
  <2>3. Fresh(f, m)
    BY <1>1 DEF Tied
  <2> HIDE DEF p
  <2> QED BY <1>0, <1>1, <2>1, <2>2, <2>3, StillFresh
<1>6. n[p] = i /\ m[p] \in Nat /\ m[p] < i
  BY <1>0, <1>1, TraceFacts DEF Progress
<1>7. \A j \in Times : f[j].owner \subseteq Kept /\ g[j].owner \subseteq Kept
  BY <1>1, <1>2 DEF Typed, EventSet
\* What the inboxes hold so far is older than the message sent.
<1>8. \A j \in Kept : Kind(j) \in InboxKinds => \A c \in f[j].owner : c \in Nat /\ c <= m[p] /\ c < i
  <2> SUFFICES ASSUME NEW j \in Kept, Kind(j) \in InboxKinds, NEW c \in f[j].owner
      PROVE  c \in Nat /\ c <= m[p] /\ c < i
    OBVIOUS
  <2>1. c \in Nat /\ c <= m[p]
    BY <1>0, <1>1, <1>7 DEF Tied, MessagesFree
  <2> QED BY <1>0, <1>6, <2>1
<1>9. \A j \in Kept : Kind(j) \in InboxKinds /\ j # r => g[j].owner = f[j].owner
  BY DEF InboxKinds, Matching
<1>10. i < r /\ r \in Nat
  BY <1>0, <1>2 DEF CauseOK
<1>11. MessagesFree(g, n)
  <2>1. \A j \in Messages : ~g[j].visited => g[j].owner = {} /\ g[j].consumer = {} /\ g[j].next = {}
    BY <1>0, <1>1 DEF Tied, MessagesFree, Matching
  <2>2. \A j \in Kept : Kind(j) \in InboxKinds => \A c \in g[j].owner : c <= n[p]
    <3> SUFFICES ASSUME NEW j \in Kept, Kind(j) \in InboxKinds, NEW c \in g[j].owner PROVE c <= i
      BY <1>6
    <3>1. CASE j = r
      BY <1>0, <1>2, <3>1
    <3>2. CASE j # r
      BY <1>0, <1>8, <1>9, <3>2
    <3> QED BY <3>1, <3>2
  <2>3. ASSUME NEW a \in Kept, NEW j \in Kept, Kind(a) = Kind(j), Key(a) = Key(j), Kind(a) \in InboxKinds,
               ~g[j].visited, NEW c \in g[a].owner
        PROVE  a < j \/ j < c
    <3>1. j \notin S /\ ~f[j].visited /\ j \in Messages /\ j \in Nat
      BY <1>0, <2>3 DEF Messages, InboxKinds, Receives, Matching
    <3>2. CASE a # r
      <4>1. c \in f[a].owner
        BY <1>9, <2>3, <3>2
      <4> QED BY <1>1, <2>3, <3>1, <4>1 DEF Tied, MessagesFree
    <3>3. CASE a = r
      <4>1. c = i /\ j # r /\ (j < i \/ r <= j)
        BY <1>2, <2>3, <3>1, <3>3 DEF Matching
      <4> QED BY <1>10, <3>1, <3>3, <4>1
    <3> QED BY <3>2, <3>3
  <2> QED BY <2>1, <2>2, <2>3 DEF MessagesFree
<1>12. NoCross(g)
  <2> SUFFICES ASSUME NEW a \in Kept, NEW b \in Kept, a < b, Kind(a) = Kind(b), Key(a) = Key(b),
                      Kind(a) \in {"display"} \cup InboxKinds,
                      NEW u \in g[a].owner, NEW v \in g[b].owner
      PROVE  u <= v
    BY DEF NoCross
  <2>0. a \in Nat /\ b \in Nat
    BY <1>0
  <2>1. CASE a # r /\ b # r
    <3>1. u \in f[a].owner /\ v \in f[b].owner
      BY <2>1 DEF InboxKinds, Matching
    <3> QED BY <1>1, <3>1 DEF Tied, NoCross
  <2>2. CASE a = r
    <3>1. u = i /\ Kind(a) \in InboxKinds /\ b # r
      BY <1>2, <2>0, <2>2 DEF Receives, InboxKinds, CauseOK, EffectKinds
    <3>2. v \in f[b].owner /\ v \in Nat /\ v < i
      BY <1>8, <1>9, <3>1
    <3>3. b < r \/ r < v
      BY <1>0, <1>1, <1>2, <2>2, <3>1, <3>2 DEF Tied, MessagesFree, Matching
    <3> QED BY <1>0, <1>10, <2>0, <2>2, <3>2, <3>3
  <2>3. CASE b = r /\ a # r
    <3>1. v = i /\ Kind(a) \in InboxKinds
      BY <1>2, <2>3 DEF Receives, InboxKinds
    <3>2. u \in f[a].owner /\ u \in Nat /\ u < i
      BY <1>8, <1>9, <2>3, <3>1
    <3> QED BY <1>0, <3>1, <3>2
  <2> QED BY <2>1, <2>2, <2>3
<1> QED BY <1>2, <1>4, <1>5, <1>11, <1>12 DEF Tied

\* A message that is taken, or sent, is free before, at both ends.
LEMMA FreeMessage ==
  ASSUME HistOK, NEW f, NEW m, Tied(f, m), NEW j \in Messages, ~f[j].visited
  PROVE  f[j].owner = {} /\ f[j].consumer = {} /\ (Kind(j) \in Sends => f[j].cancel = {})
<1>1. f[j].owner = {} /\ f[j].consumer = {} /\ j \in Kept
  BY DEF Tied, MessagesFree, Messages
<1>2. ASSUME Kind(j) \in Sends, NEW e \in f[j].cancel PROVE FALSE
  <2>1. CauseOK(e, j) /\ Kind(e) = "cancel"
    BY <1>1, <1>2 DEF Tied, Mutual
  <2>2. Kind(j) = "create"
    BY <2>1, CauseKindsFacts
  <2> QED BY <1>2, <2>2 DEF Sends
<1> QED BY <1>1, <1>2

LEMMA MutualAlike ==
  ASSUME HistOK, NEW f, NEW g, Typed(f), Mutual(f),
         \A j \in Times : g[j].owner = f[j].owner /\ g[j].consumer = f[j].consumer /\ g[j].cancel = f[j].cancel
  PROVE  Mutual(g)
<1>1. Kept \subseteq Times
  BY TraceFacts
<1>2. \A j \in Kept : f[j].owner \subseteq Times /\ f[j].consumer \cup f[j].cancel \subseteq Times
  BY <1>1 DEF Typed, EventSet
<1> SUFFICES ASSUME NEW j \in Kept
    PROVE  /\ \A c \in f[j].owner :
                CauseOK(j, c) /\ \E e \in g[c].consumer \cup g[c].cancel : e = j \/ (Kind(j) \in Shared /\ e > j)
           /\ \A e \in f[j].consumer \cup f[j].cancel : CauseOK(e, j) /\ j \in g[e].owner
  BY <1>1 DEF Mutual
<1> QED BY <1>1, <1>2 DEF Mutual

LEMMA Request2Tied ==
  ASSUME HistOK, NEW m, NEW n, NEW i, Turning(ev, m, n, "messages", i), ~ev[i].visited,
         NEW r \in SearchRequest(i)
  PROVE  Typed(Request2(i, r)) /\ Tied(Request2(i, r), n)
<1> DEFINE l == Linked(ev, r, i)
           g == Request2(i, r)
<1>0. Times \subseteq Nat /\ Kept \subseteq Times /\ Messages \subseteq Kept
  BY TraceFacts DEF Messages
<1>1. Typed(ev) /\ Tied(ev, m) /\ Kind(i) \in Sends /\ i \in Messages
  BY EffectsFacts DEF Turning, Messages
<1>2. /\ r \in Messages /\ ~ev[r].visited /\ CauseOK(r, i) /\ Kind(r) \in Receives
      /\ Kind(r) \in InboxKinds =>
           \A j \in Messages : Kind(j) = Kind(r) /\ Key(j) = Key(r) /\ ~ev[j].visited => j < i \/ r <= j
  BY <1>1, SearchRequestFacts
<1>3. r # i /\ Kind(r) # "cancel"
  BY <1>1, <1>2 DEF Sends, Receives
<1>4. ev[r].owner = {} /\ ev[i].consumer = {} /\ ev[i].cancel = {}
  BY <1>1, <1>2, FreeMessage
<1>5. Mutual(l)
  BY <1>0, <1>1, <1>2, <1>3, <1>4, LinkKeepsMutual DEF Tied
<1>6. /\ Typed(l)
      /\ l[r].owner = {i} /\ l[i].consumer = {r}
      /\ \A j \in Times : j # r => l[j].owner = ev[j].owner
      /\ \A j \in Times : j # i => l[j].consumer = ev[j].consumer
      /\ \A j \in Times : l[j].cancel = ev[j].cancel /\ l[j].next = ev[j].next /\ l[j].visited = ev[j].visited
  BY <1>0, <1>1, <1>2, <1>3, LinkedFacts
<1> HIDE DEF l
<1>7. {i, r} \in SUBSET Kept /\ {i, r} \in SUBSET Messages /\ g = Visited(l, {i, r})
  BY <1>0, <1>1, <1>2 DEF Request2, l
<1>8. /\ Typed(g)
      /\ \A j \in Times :
           /\ g[j].owner = l[j].owner /\ g[j].consumer = l[j].consumer /\ g[j].cancel = l[j].cancel
           /\ g[j].next = l[j].next /\ (g[j].visited <=> l[j].visited \/ j \in {i, r})
  BY <1>6, <1>7, VisitedFacts
<1> HIDE DEF g
<1>9. Mutual(g)
  BY <1>5, <1>6, <1>8, MutualAlike
<1>10. \A j \in Times : g[j].visited \in BOOLEAN /\ ev[j].visited \in BOOLEAN
  BY <1>1, <1>8 DEF Typed, EventSet
<1>11. Matching(ev, g, i, r, {i, r})
  <2>1. g[r].owner = {i} /\ \A j \in Kept : Kind(j) # "answer" /\ j # r => g[j].owner = ev[j].owner
    BY <1>0, <1>2, <1>6, <1>8
  <2>2. \A j \in Kept : j \notin {i, r} =>
          /\ g[j].owner = ev[j].owner /\ g[j].consumer = ev[j].consumer /\ g[j].cancel = ev[j].cancel
          /\ g[j].next = ev[j].next /\ (g[j].visited <=> ev[j].visited)
    BY <1>0, <1>6, <1>8
  <2>3. \A j \in {i, r} : g[j].visited
    BY <1>0, <1>7, <1>8
  <2>4. \A j \in Kept : j \notin {i, r} => g[j].visited = ev[j].visited
    BY <1>0, <1>10, <2>2
  <2> QED BY <1>2, <1>7, <1>8, <1>9, <2>1, <2>2, <2>3, <2>4 DEF Matching
<1> QED BY <1>8, <1>11, MatchTied DEF g

LEMMA Request4Tied ==
  ASSUME HistOK, NEW m, NEW n, NEW i, Turning(ev, m, n, "messages", i), ~ev[i].visited, Local(i) # NoPort,
         NEW r \in SearchRequest(i), NEW p \in SearchReply(i, r), NEW a \in SearchAnswer(i, p)
  PROVE  Typed(Request4(i, r, p, a)) /\ Tied(Request4(i, r, p, a), n)
<1> DEFINE l == Linked(ev, r, i)
           k == Linked(l, a, p)
           h == [k EXCEPT ![r].next = {p}]
           g == Request4(i, r, p, a)
           S == {i, r, p, a}
<1>0. Times \subseteq Nat /\ Kept \subseteq Times /\ Messages \subseteq Kept
  BY TraceFacts DEF Messages
<1>1. Typed(ev) /\ Tied(ev, m) /\ Kind(i) \in Sends /\ i \in Messages
  BY EffectsFacts DEF Turning, Messages
<1>2. /\ r \in Messages /\ ~ev[r].visited /\ CauseOK(r, i) /\ Kind(r) \in Receives
      /\ Kind(r) \in InboxKinds =>
           \A j \in Messages : Kind(j) = Kind(r) /\ Key(j) = Key(r) /\ ~ev[j].visited => j < i \/ r <= j
  BY <1>1, SearchRequestFacts
<1>3. Kind(i) = "request" /\ Kind(r) = "receive"
  <2>1. Kind(i) = "request"
    BY <1>1 DEF Sends, Local
  <2> QED BY <1>2, <2>1, CauseKindsFacts
<1>4. /\ p \in Messages /\ Kind(p) = "reply" /\ ~ev[p].visited
      /\ a \in Messages /\ Kind(a) = "answer" /\ ~ev[a].visited /\ CauseOK(a, p)
  BY <1>1, <1>2, <1>3, SearchEpisodeFacts
<1>5. r # i /\ p # i /\ p # r /\ a # i /\ a # r /\ a # p
  BY <1>3, <1>4
<1>6. /\ ev[r].owner = {} /\ ev[i].consumer = {} /\ ev[i].cancel = {}
      /\ ev[a].owner = {} /\ ev[p].consumer = {} /\ ev[p].cancel = {}
  BY <1>1, <1>2, <1>4, FreeMessage DEF Sends
<1>7. Mutual(l)
  BY <1>0, <1>1, <1>2, <1>3, <1>6, LinkKeepsMutual DEF Tied
<1>8. /\ Typed(l)
      /\ l[r].owner = {i} /\ l[i].consumer = {r}
      /\ \A j \in Times : j # r => l[j].owner = ev[j].owner
      /\ \A j \in Times : j # i => l[j].consumer = ev[j].consumer
      /\ \A j \in Times : l[j].cancel = ev[j].cancel /\ l[j].next = ev[j].next /\ l[j].visited = ev[j].visited
  BY <1>0, <1>1, <1>2, <1>5, LinkedFacts
<1> HIDE DEF l
<1>9. l[a].owner = {} /\ l[p].consumer = {} /\ l[p].cancel = {} /\ a \in Kept /\ p \in Kept
  BY <1>0, <1>4, <1>5, <1>6, <1>8
<1>10. Mutual(k)
  BY <1>4, <1>7, <1>8, <1>9, LinkKeepsMutual
<1>11. /\ Typed(k)
       /\ k[a].owner = {p} /\ k[p].consumer = {a}
       /\ \A j \in Times : j # a => k[j].owner = l[j].owner
       /\ \A j \in Times : j # p => k[j].consumer = l[j].consumer
       /\ \A j \in Times : k[j].cancel = l[j].cancel /\ k[j].next = l[j].next /\ k[j].visited = l[j].visited
  BY <1>5, <1>8, <1>9, LinkedFacts
<1> HIDE DEF k
<1>12. /\ Typed(h)
       /\ \A j \in Times :
            /\ h[j].owner = k[j].owner /\ h[j].consumer = k[j].consumer /\ h[j].cancel = k[j].cancel
            /\ (j # r => h[j].next = k[j].next) /\ h[j].visited = k[j].visited
  <2>1. k \in [Times -> EventSet(Kept)] /\ r \in Times /\ ~history[r].lost /\ p \in Kept
    BY <1>0, <1>2, <1>9, <1>11 DEF Typed, Kept
  <2>2. h = [j \in Times |-> IF j = r THEN [k[j] EXCEPT !.next = {p}] ELSE k[j]]
    BY <2>1
  <2>3. ASSUME NEW j \in Times
        PROVE  /\ h[j] \in EventSet(Kept)
               /\ h[j].owner = k[j].owner /\ h[j].consumer = k[j].consumer /\ h[j].cancel = k[j].cancel
               /\ (j # r => h[j].next = k[j].next) /\ h[j].visited = k[j].visited
               /\ history[j].lost => h[j] = k[j]
    <3>1. k[j] \in EventSet(Kept)
      BY <2>1
    <3>2. CASE j = r
      BY <2>1, <2>2, <3>1, <3>2 DEF EventSet
    <3>3. CASE j # r
      BY <2>2, <3>1, <3>3
    <3> QED BY <3>2, <3>3
  <2>4. h = [j \in Times |-> h[j]]
    BY <2>2
  <2> HIDE DEF h
  <2>5. h \in [Times -> EventSet(Kept)]
    BY <2>3, <2>4
  <2>6. Typed(h)
    BY <1>11, <2>3, <2>5 DEF Typed
  <2> QED BY <2>3, <2>6
<1>13. S \in SUBSET Kept /\ S \in SUBSET Messages /\ g = Visited(h, S)
  BY <1>0, <1>1, <1>2, <1>4 DEF Request4, k, l
<1> HIDE DEF h
<1>14. /\ Typed(g)
       /\ \A j \in Times :
            /\ g[j].owner = h[j].owner /\ g[j].consumer = h[j].consumer /\ g[j].cancel = h[j].cancel
            /\ g[j].next = h[j].next /\ (g[j].visited <=> h[j].visited \/ j \in S)
  <2> HIDE DEF S
  <2> QED BY <1>12, <1>13, VisitedFacts
<1> HIDE DEF g
<1>15. Mutual(g)
  <2>1. \A j \in Times : g[j].owner = k[j].owner /\ g[j].consumer = k[j].consumer /\ g[j].cancel = k[j].cancel
    BY <1>12, <1>14
  <2> QED BY <1>10, <1>11, <2>1, MutualAlike
<1>16. \A j \in Times : g[j].visited \in BOOLEAN /\ ev[j].visited \in BOOLEAN
  BY <1>1, <1>14 DEF Typed, EventSet
<1>17. Matching(ev, g, i, r, S)
  <2>1. g[r].owner = {i} /\ \A j \in Kept : Kind(j) # "answer" /\ j # r => g[j].owner = ev[j].owner
    BY <1>0, <1>2, <1>4, <1>5, <1>8, <1>11, <1>12, <1>14
  <2>2. \A j \in Kept : j \notin S =>
          /\ g[j].owner = ev[j].owner /\ g[j].consumer = ev[j].consumer /\ g[j].cancel = ev[j].cancel
          /\ g[j].next = ev[j].next /\ (g[j].visited <=> ev[j].visited)
    BY <1>0, <1>8, <1>11, <1>12, <1>14
  <2>3. \A j \in S : g[j].visited
    BY <1>0, <1>13, <1>14
  <2>4. \A j \in Kept : j \notin S => g[j].visited = ev[j].visited
    BY <1>0, <1>16, <2>2
  <2>5. r \in S /\ i \in S
    OBVIOUS
  <2> HIDE DEF S
  <2> QED BY <1>2, <1>13, <1>14, <1>15, <2>1, <2>2, <2>3, <2>4, <2>5 DEF Matching
<1> QED BY <1>14, <1>17, MatchTied DEF g

LEMMA MessageTied ==
  ASSUME HistOK, NEW m, NEW n, NEW i, Turning(ev, m, n, "messages", i), Progress(n)
  PROVE  Typed(MatchMessage(i)) /\ Tied(MatchMessage(i), n)
<1>0. /\ Typed(ev) /\ Tied(ev, m) /\ Progress(m) /\ i \in Kept /\ i > m["messages"]
      /\ n = [m EXCEPT !["messages"] = i] /\ Times \subseteq Nat /\ Kept \subseteq Times
  BY TraceFacts DEF Turning
<1>1. \A q \in Passes : m[q] <= n[q]
  BY <1>0, TraceFacts DEF Progress
<1>2. Tied(ev, n)
  BY <1>0, <1>1, TiedLater
<1> DEFINE recv == SearchRequest(i)
           reply == IF recv = {} THEN {} ELSE SearchReply(i, Only(recv))
           answer == IF reply = {} THEN {} ELSE SearchAnswer(i, Only(reply))
           g == MatchMessage(i)
<1>3. g = IF ev[i].visited \/ Freed(i) THEN ev
          ELSE IF recv = {} THEN Visited(ev, {i})
          ELSE IF Local(i) = NoPort \/ reply = {} \/ answer = {} THEN Request2(i, Only(recv))
          ELSE Request4(i, Only(recv), Only(reply), Only(answer))
  BY DEF MatchMessage
<1>4. CASE ev[i].visited \/ Freed(i)
  BY <1>0, <1>2, <1>3, <1>4
<1>5. CASE ~(ev[i].visited \/ Freed(i)) /\ recv = {}
  <2>1. g = Visited(ev, {i})
    BY <1>3, <1>5
  <2>2. Typed(Visited(ev, {i})) /\ SameTies(ev, Visited(ev, {i}))
    BY <1>0, VisitedFacts DEF SameTies
  <2> QED BY <1>0, <1>2, <2>1, <2>2, TiedAlike
<1>6. CASE ~(ev[i].visited \/ Freed(i)) /\ recv # {} /\ (Local(i) = NoPort \/ reply = {} \/ answer = {})
  <2>1. g = Request2(i, Only(recv))
    BY <1>3, <1>6
  <2>2. Only(recv) \in recv
    BY <1>6, OnlyFacts
  <2> HIDE DEF recv, reply, answer
  <2>3. ~ev[i].visited /\ Only(recv) \in SearchRequest(i)
    BY <1>6, <2>2 DEF recv
  <2> QED BY <2>1, <2>3, Request2Tied
<1>7. CASE ~(ev[i].visited \/ Freed(i)) /\ recv # {} /\ ~(Local(i) = NoPort \/ reply = {} \/ answer = {})
  <2>1. g = Request4(i, Only(recv), Only(reply), Only(answer))
    BY <1>3, <1>7
  <2>2. Only(recv) \in SearchRequest(i)
    BY <1>7, OnlyFacts
  <2>3. reply = SearchReply(i, Only(recv)) /\ answer = SearchAnswer(i, Only(reply)) /\ reply # {} /\ answer # {}
    BY <1>7
  <2>4. Only(reply) \in SearchReply(i, Only(recv))
    BY <2>3, OnlyFacts
  <2>5. Only(answer) \in SearchAnswer(i, Only(reply))
    BY <2>3, OnlyFacts
  <2>6. ~ev[i].visited /\ Local(i) # NoPort
    BY <1>7
  <2> HIDE DEF recv, reply, answer
  <2> QED BY <2>6, <2>1, <2>2, <2>4, <2>5, Request4Tied
<1> QED BY <1>4, <1>5, <1>6, <1>7

-----------------------------------------------------------------------------
(* The traps, and the other turns.                                         *)

WritesOK == writes \in [Vars -> Seq(Kept)]

\* Traps tie no effect to a cause; what they take and keep are records of the trace.
LEMMA TrapTurn ==
  ASSUME HistOK, Typed(ev), WritesOK, NEW i \in Kept, Kind(i) = "trap"
  PROVE  /\ Typed(ConnectTrap(i)) /\ SameTies(ev, ConnectTrap(i))
         /\ WritesAfter(i) \in [Vars -> Seq(Kept)]
<1> DEFINE g == ConnectTrap(i)
<1>0. Times \subseteq Nat /\ Kept \subseteq Times /\ i \in Times /\ ~history[i].lost
  BY TraceFacts DEF Kept
<1>1. ev \in [Times -> EventSet(Kept)]
  BY DEF Typed
<1>2. DOMAIN Rec(i).targets \subseteq Vars
  BY <1>0 DEF Vars
<1>3. Reading(i) \subseteq DOMAIN Rec(i).targets /\ Writing(i) \subseteq DOMAIN Rec(i).targets
      /\ Taking(i) \subseteq Reading(i) /\ \A v \in Taking(i) : writes[v] # <<>>
  BY DEF Reading, Writing, Taking
<1>4. \A v \in Taking(i) : v \in Vars /\ writes[v] \in Seq(Kept) /\ writes[v] # <<>> /\ Head(writes[v]) \in Kept
  BY <1>2, <1>3 DEF WritesOK
<1>5. WritesAfter(i) \in [Vars -> Seq(Kept)]
  <2> DEFINE value(v) == CASE v \in Writing(i) -> Append(writes[v], i)
                           [] v \in Taking(i)  -> Tail(writes[v])
                           [] OTHER            -> writes[v]
  <2>1. WritesAfter(i) = [v \in Vars |-> value(v)]
    BY DEF WritesAfter, WritesOK
  <2>2. ASSUME NEW v \in Vars PROVE value(v) \in Seq(Kept)
    <3>1. writes[v] \in Seq(Kept)
      BY DEF WritesOK
    <3>2. Append(writes[v], i) \in Seq(Kept)
      BY <3>1
    <3>3. v \in Taking(i) => Tail(writes[v]) \in Seq(Kept)
      BY <1>4, <3>1
    <3>4. v \notin Writing(i) \/ v \notin Taking(i)
      BY DEF Reading, Writing, Taking, TrapReads, TrapWrites
    <3> QED BY <3>1, <3>2, <3>3, <3>4
  <2> HIDE DEF value
  <2> QED BY <2>1, <2>2
<1> DEFINE read == IF Reading(i) \cup Writing(i) = {} THEN ev[i].read
                   ELSE Latest(Reading(i) \cup Writing(i)) \subseteq Reading(i)
           peer == IF Taking(i) = {} THEN ev[i].peer ELSE {Head(writes[v]) : v \in Latest(Taking(i))}
           value(j) == IF j = i THEN [ev[i] EXCEPT !.read = read, !.peer = peer]
                       ELSE IF \E v \in Taking(i) : j = Head(writes[v]) THEN [ev[j] EXCEPT !.peer = {i}]
                       ELSE ev[j]
<1>6. g = [j \in Times |-> value(j)]
  BY <1>1 DEF ConnectTrap
<1>7. read \in BOOLEAN /\ peer \in SUBSET Kept
  <2>1. ev[i] \in EventSet(Kept)
    BY <1>0, <1>1
  <2>2. read \in BOOLEAN
    BY <2>1 DEF EventSet
  <2>3. Latest(Taking(i)) \subseteq Taking(i)
    BY DEF Latest
  <2>4. {Head(writes[v]) : v \in Latest(Taking(i))} \in SUBSET Kept
    BY <1>4, <2>3
  <2>5. ev[i].peer \in SUBSET Kept
    BY <2>1 DEF EventSet
  <2> QED BY <2>2, <2>4, <2>5
<1> HIDE DEF read, peer
<1>8. ASSUME NEW j \in Times
      PROVE  /\ value(j) \in EventSet(Kept)
             /\ value(j).owner = ev[j].owner /\ value(j).consumer = ev[j].consumer
             /\ value(j).cancel = ev[j].cancel /\ value(j).next = ev[j].next
             /\ value(j).visited = ev[j].visited
             /\ history[j].lost => value(j) = ev[j]
  <2>1. ev[j] \in EventSet(Kept)
    BY <1>1
  <2>2. CASE j = i
    BY <1>0, <1>7, <2>1, <2>2 DEF EventSet
  <2>3. CASE j # i /\ \E v \in Taking(i) : j = Head(writes[v])
    <3>1. ~history[j].lost
      BY <1>4, <2>3 DEF Kept
    <3>2. value(j) = [ev[j] EXCEPT !.peer = {i}]
      BY <2>3
    <3> HIDE DEF value
    <3> QED BY <1>0, <2>1, <3>1, <3>2 DEF EventSet
  <2>4. CASE j # i /\ ~ \E v \in Taking(i) : j = Head(writes[v])
    <3>1. value(j) = ev[j]
      BY <2>4
    <3> HIDE DEF value
    <3> QED BY <2>1, <3>1
  <2> QED BY <2>2, <2>3, <2>4
<1> HIDE DEF value
<1>9. Typed(g)
  BY <1>6, <1>8 DEF Typed
<1>10. SameTies(ev, g)
  BY <1>6, <1>8 DEF SameTies
<1> QED BY <1>5, <1>9, <1>10

\* A turn of any pass keeps the invariant.
LEMMA ConnectedTied ==
  ASSUME HistOK, Typed(ev), NEW n, Tied(ev, n),
         NEW i \in Kept, NEW causes,
         \A c \in causes : Typed(Linked(ev, i, c)) /\ Tied(Linked(ev, i, c), n)
  PROVE  Typed(Connected(i, causes)) /\ Tied(Connected(i, causes), n)
<1>1. CASE causes = {}
  BY <1>1 DEF Connected
<1>2. CASE causes # {}
  <2>1. Only(causes) \in causes /\ Connected(i, causes) = Linked(ev, i, Only(causes))
    BY <1>2, OnlyFacts DEF Connected
  <2> QED BY <2>1
<1> QED BY <1>1, <1>2

LEMMA CancelTurn ==
  ASSUME HistOK, NEW n, NEW i, Turning(ev, at, n, "cancels", i), Tied(ev, n)
  PROVE  Typed(ConnectCancel(i)) /\ Tied(ConnectCancel(i), n)
<1> DEFINE create == {c \in RecentCreate(i) : ev[c].cancel = {}}
<1>1. CASE create = {}
  BY <1>1 DEF ConnectCancel, Turning
<1>2. CASE create # {}
  <2>1. Only(create) \in create
    BY <1>2, OnlyFacts
  <2>2. create = {Only(create)}
    <3>1. KeptBefore(i, {"create"}, Key(i)) \in SUBSET Nat
      BY TraceFacts DEF KeptBefore, Of
    <3>2. \A c, d \in RecentCreate(i) : c = d
      BY <3>1, EndFacts DEF RecentCreate
    <3> QED BY <2>1, <3>2
  <2>3. ConnectCancel(i) = [ev EXCEPT ![i].owner = create, ![Only(create)].cancel = {i}]
    BY <1>2 DEF ConnectCancel
  <2> HIDE DEF create
  <2>4. ConnectCancel(i) = CancelTie(ev, i, Only(create))
    BY <2>2, <2>3 DEF CancelTie
  <2>5. Only(create) \in RecentCreate(i) /\ ev[Only(create)].cancel = {}
    BY <2>1 DEF create
  <2> QED BY <2>4, <2>5, CancelTied
<1> QED BY <1>1, <1>2

LEMMA CalloutTurn ==
  ASSUME HistOK, NEW n, NEW i, Turning(ev, at, n, "callouts", i), Tied(ev, n), Left("cancels") = {}
  PROVE  Typed(ConnectCallout(i)) /\ Tied(ConnectCallout(i), n)
<1> DEFINE create == {c \in RecentCreate(i) : ev[c].consumer = {} /\ \A x \in ev[c].cancel : x > i}
           late == UNION {ev[c].cancel : c \in create}
           undone == [j \in DOMAIN ev |-> IF j \in late THEN [ev[j] EXCEPT !.owner = {}]
                                          ELSE IF j \in create THEN [ev[j] EXCEPT !.cancel = {}]
                                          ELSE ev[j]]
<1>1. CASE create = {}
  BY <1>1 DEF ConnectCallout, Turning
<1>2. CASE create # {}
  <2>1. PICK c \in create : c = Only(create)
    BY <1>2, OnlyFacts
  <2>2. create = {c}
    <3>1. KeptBefore(i, {"create"}, Key(i)) \in SUBSET Nat
      BY TraceFacts DEF KeptBefore, Of
    <3>2. \A a, b \in RecentCreate(i) : a = b
      BY <3>1, EndFacts DEF RecentCreate
    <3> QED BY <2>1, <3>2
  <2>3. ConnectCallout(i) = Linked(undone, i, Only(create))
    <3> HIDE DEF undone
    <3> QED BY <1>2 DEF ConnectCallout, undone
  <2>4. c \in RecentCreate(i) /\ ev[c].consumer = {}
    OBVIOUS
  <2> HIDE DEF create
  <2>5. undone = Undone(ev, c)
    <3>1. late = ev[c].cancel
      BY <2>2
    <3> HIDE DEF late
    <3> QED BY <2>2, <3>1 DEF Undone
  <2> HIDE DEF undone
  <2>6. c \in Kept /\ Kind(c) = "create" /\ c \in Times
    BY <2>4, TraceFacts DEF RecentCreate, Latest, KeptBefore, Of
  <2>7. /\ Typed(Undone(ev, c)) /\ Tied(Undone(ev, c), at) /\ Undone(ev, c)[c].cancel = {}
        /\ \A j \in Times : Undone(ev, c)[j].consumer = ev[j].consumer
    BY <2>4, <2>6, UndoneTied DEF Turning
  <2>8. Turning(Undone(ev, c), at, n, "callouts", i)
    BY <2>7 DEF Turning
  <2>9. \A j \in Kept : Kind(j) = "cancel" => ~(j > at["cancels"])
    BY EffectsFacts DEF Left
  <2>10. Undone(ev, c)[c].consumer = {}
    BY <2>4, <2>6, <2>7
  <2>11. Typed(Linked(Undone(ev, c), i, c)) /\ Tied(Linked(Undone(ev, c), i, c), n)
    BY <2>4, <2>7, <2>8, <2>9, <2>10, CalloutTied
  <2> QED BY <2>1, <2>3, <2>5, <2>11
<1> QED BY <1>1, <1>2

LEMMA TurnTied ==
  ASSUME HistOK, Typed(ev), Tied(ev, at), Progress(at), WritesOK, NEW p \in Passes, NEW i \in Times, Turn(p, i)
  PROVE  Typed(ev') /\ Tied(ev', at') /\ Progress(at') /\ writes' \in [Vars -> Seq(Kept)]
<1> DEFINE n == [at EXCEPT ![p] = i]
<1>1. i \in Left(p)
  BY DEF Turn, Earliest
<1>2. i \in Kept /\ Kind(i) \in Effects[p] /\ i > at[p] /\ at' = n
  BY <1>1 DEF Turn, Left
<1>3. Progress(n)
  BY TraceFacts DEF Progress
<1>4. Turning(ev, at, n, p, i)
  BY <1>2 DEF Turning
<1>5. \A q \in Passes : at[q] <= n[q]
  <2>1. \A q \in Passes : at[q] \in Nat
    BY TraceFacts DEF Progress
  <2> QED BY <1>2, <2>1, TraceFacts DEF Progress
<1> HIDE DEF n
<1>6. Tied(ev, n)
  BY <1>3, <1>5, TiedLater
<1>7. p # "traps" => writes' \in [Vars -> Seq(Kept)]
  BY DEF Turn, WritesOK
<1>8. CASE p = "traps"
  <2>1. ev' = ConnectTrap(i) /\ writes' = WritesAfter(i)
    BY <1>8 DEF Turn
  <2>2. Kind(i) = "trap"
    BY <1>2, <1>8, EffectsFacts
  <2>3. Typed(ConnectTrap(i)) /\ SameTies(ev, ConnectTrap(i)) /\ WritesAfter(i) \in [Vars -> Seq(Kept)]
    BY <1>2, <2>2, TrapTurn
  <2>4. Tied(ConnectTrap(i), n)
    BY <1>6, <2>3, TiedAlike
  <2> QED BY <1>2, <1>3, <2>1, <2>3, <2>4
<1>9. CASE p = "messages"
  <2>1. ev' = MatchMessage(i)
    BY <1>9 DEF Turn
  <2> QED BY <1>2, <1>3, <1>4, <1>7, <1>9, <2>1, MessageTied
<1>10. CASE p = "dispatch"
  <2>1. ev' = ConnectInvoke(i) /\ Kind(i) = "inv"
    BY <1>2, <1>10, EffectsFacts DEF Turn
  <2>2. ev' = ev
    BY <2>1, NoBlockTied
  <2> QED BY <1>2, <1>3, <1>6, <1>7, <1>10, <2>2
<1>11. CASE p = "cancels"
  <2>1. ev' = ConnectCancel(i)
    BY <1>11 DEF Turn
  <2> QED BY <1>2, <1>3, <1>4, <1>6, <1>7, <1>11, <2>1, CancelTurn
<1>12. CASE p = "callouts"
  <2>1. ev' = ConnectCallout(i) /\ Left("cancels") = {}
    BY <1>12 DEF Turn
  <2> QED BY <1>2, <1>3, <1>4, <1>6, <1>7, <1>12, <2>1, CalloutTurn
<1>13. CASE p = "animation"
  <2>1. ev' = ConnectDisplay(i)
    BY <1>13 DEF Turn
  <2> QED BY <1>2, <1>3, <1>4, <1>7, <1>13, <2>1, DisplayTied
<1>14. CASE p \in {"loop", "wakeups"}
  <2>1. PICK causes : ev' = Connected(i, causes) /\ causes = Latest(KeptBefore(i, CauseKinds(i), Key(i)))
    <3>1. CASE p = "loop"
      <4>1. Kind(i) \in {"unset", "item"}
        BY <1>2, <3>1, EffectsFacts
      <4>2. (IF Kind(i) = "unset" THEN {"signal"} ELSE {"perform"}) = CauseKinds(i)
        BY <4>1 DEF CauseKinds
      <4> QED BY <3>1, <4>2 DEF Turn, ConnectLoop
    <3>2. CASE p = "wakeups"
      <4>1. Kind(i) = "mkrun"
        BY <1>2, <3>2, EffectsFacts
      <4>2. CauseKinds(i) = {"wait"}
        BY <4>1 DEF CauseKinds
      <4> QED BY <3>2, <4>2 DEF Turn, ConnectMkrun
    <3> QED BY <1>14, <3>1, <3>2
  <2>2. \A c \in causes : Typed(Linked(ev, i, c)) /\ Tied(Linked(ev, i, c), n)
    BY <1>2, <1>3, <1>14, <2>1, LinkRecent DEF n
  <2>3. Typed(Connected(i, causes)) /\ Tied(Connected(i, causes), n)
    BY <1>2, <1>6, <2>2, ConnectedTied
  <2> QED BY <1>2, <1>3, <1>7, <1>14, <2>1, <2>3
<1> QED BY <1>8, <1>9, <1>10, <1>11, <1>12, <1>13, <1>14 DEF Passes

-----------------------------------------------------------------------------
(* The inductive invariant, and the first theorems.                        *)

IInv ==
  /\ HistOK /\ Typed(ev) /\ Progress(at)
  /\ phase \in {"trace", "connect", "connected", "aborted"}
  /\ phase = "trace" => at = [p \in Passes |-> 0] /\ \A i \in Times : ev[i] = NewEvent
  /\ phase # "trace" => WritesOK /\ Tied(ev, at)

\* Nothing is tied before the connectors start.
LEMMA NothingTied ==
  ASSUME HistOK, Typed(ev), at = [p \in Passes |-> 0], \A i \in Times : ev[i] = NewEvent
  PROVE  Tied(ev, at)
<1>1. \A i \in Kept : ev[i].owner = {} /\ ev[i].consumer = {} /\ ev[i].cancel = {} /\ ev[i].next = {}
  BY TraceFacts, NewEventFacts
<1>2. Mutual(ev)
  BY <1>1 DEF Mutual
<1>3. Fresh(ev, at) /\ NoCallYet(ev, at)
  BY <1>1 DEF Fresh, NoCallYet
<1>4. MessagesFree(ev, at)
  BY <1>1 DEF MessagesFree, Messages
<1>5. Recent(ev) /\ NoCross(ev)
  BY <1>1 DEF Recent, NoCross
<1> QED BY <1>2, <1>3, <1>4, <1>5 DEF Tied

\* What may have led to the next record is in the trace.
LEMMA CausesAreTimes ==
  ASSUME HistOK, NEW e
  PROVE  CausesOf(e) \subseteq Times
<1>1. \A S : Earliest(S) \subseteq S /\ Latest(S) \subseteq S
  BY DEF Earliest, Latest
<1>2. \A k, kinds, by : Open(k, kinds, by) \subseteq Times /\ Since(k, kinds, by) \subseteq Times
  BY DEF Open, Since, Of
<1>3. \A v : Unread(v) \subseteq Times
  BY DEF Unread, WritesOf, Traps
<1>4. \A S : S \subseteq Times => Earliest(S) \subseteq Times /\ Latest(S) \subseteq Times
  BY <1>1
<1>5. CASE e.kind = "trap"
  <2>1. CausesOf(e) = UNION {Earliest(Unread(v)) : v \in {w \in DOMAIN e.targets : e.targets[w] = 0}}
    BY <1>5 DEF CausesOf
  <2>2. \A v : Earliest(Unread(v)) \subseteq Times
    BY <1>3, <1>4
  <2> QED BY <2>1, <2>2
<1>6. CASE e.kind \in {"cancel", "callout"}
  <2>1. CausesOf(e) = {c \in Latest(Since(e.key, {"create"}, {"callout"})) : ~Followed(c, {"cancel"})}
    BY <1>6 DEF CausesOf
  <2> QED BY <1>2, <1>4, <2>1
<1>7. CASE e.kind = "deliver"
  <2> DEFINE S == {j \in Open(e.key, {"post"}, {"deliver"}) : ~Rec(j).freed}
  <2>1. CausesOf(e) = Earliest(S)
    BY <1>7 DEF CausesOf
  <2>2. S \subseteq Times
    BY <1>2
  <2> HIDE DEF S
  <2> QED BY <1>4, <2>1, <2>2
<1>8. CASE e.kind = "inv"
  BY <1>2, <1>4, <1>8 DEF CausesOf
<1>9. CASE e.kind = "display"
  BY <1>2, <1>9 DEF CausesOf
<1>10. CASE e.kind = "unset"
  BY <1>2, <1>10 DEF CausesOf
<1>11. CASE e.kind = "item"
  BY <1>2, <1>4, <1>11 DEF CausesOf
<1>12. CASE e.kind = "mkrun"
  BY <1>2, <1>12 DEF CausesOf
<1>13. CASE e.kind = "receive"
  BY <1>2, <1>13 DEF CausesOf
<1>14. CASE e.kind = "reply"
  BY <1>2, <1>14 DEF CausesOf
<1>15. CASE e.kind = "answer"
  BY <1>2, <1>15 DEF CausesOf
<1>16. CASE e.kind \notin {"trap", "cancel", "callout", "deliver", "inv", "display", "unset", "item", "mkrun",
                           "receive", "reply", "answer"}
  BY <1>16 DEF CausesOf
<1> QED BY <1>5, <1>6, <1>7, <1>8, <1>9, <1>10, <1>11, <1>12, <1>13, <1>14, <1>15, <1>16

\* One more record: the trace stays well formed, and the earlier records are as they were.
LEMMA RecordFacts ==
  ASSUME HistOK, Typed(ev), NEW e \in family.inputs, NEW lost \in BOOLEAN, Record(e, lost)
  PROVE  /\ HistOK' /\ Typed(ev)' /\ Times' = Times \cup {Len(history) + 1}
         /\ Len(history)' = Len(history) + 1 /\ Len(history) + 1 \notin Times
         /\ \A i \in Times : history'[i] = history[i] /\ ev'[i] = ev[i]
         /\ history'[Len(history) + 1] = [rec |-> e, causes |-> CausesOf(e), lost |-> lost]
         /\ ev'[Len(history) + 1] = NewEvent /\ Kept \subseteq Kept'
<1> DEFINE n == Len(history) + 1
           r == [rec |-> e, causes |-> CausesOf(e), lost |-> lost]
<1>1. /\ history' = Append(history, r) /\ ev' = Append(ev, NewEvent) /\ family' = family
      /\ Len(history) < family.max
  BY DEF Record
<1>2. /\ history \in Seq(RecordSet(family.inputs)) /\ Len(history) \in Nat /\ Times = 1 .. Len(history)
      /\ Times \subseteq Nat /\ n \notin Times
  BY TraceFacts DEF HistOK
<1>3. r \in RecordSet(family.inputs) /\ CausesOf(e) \subseteq 1 .. n - 1
  BY <1>2, CausesAreTimes DEF RecordSet
<1> HIDE DEF r
<1>4. /\ history' \in Seq(RecordSet(family.inputs)) /\ Len(history') = n
      /\ \A i \in 1 .. Len(history) : history'[i] = history[i]
      /\ history'[n] = r
  BY <1>1, <1>2, <1>3, AppendProperties
<1>5. Times' = Times \cup {n} /\ Times' = 1 .. n
  BY <1>2, <1>4 DEF Times
<1>6. HistOK'
  <2>1. family' \in Families /\ history' \in Seq(RecordSet(family'.inputs))
    BY <1>1, <1>4 DEF HistOK
  <2>2. Len(history') <= family'.max
    <3>1. family.max \in Nat
      BY FamiliesAssumption DEF HistOK
    <3> QED BY <1>1, <1>2, <1>4, <3>1
  <2>3. ASSUME NEW i \in Times' PROVE history'[i].causes \subseteq 1 .. i - 1
    <3>1. CASE i \in Times
      BY <1>2, <1>4, <3>1 DEF HistOK
    <3>2. CASE i = n
      <4>1. r.causes = CausesOf(e)
        BY DEF r
      <4> QED BY <1>3, <1>4, <3>2, <4>1
    <3> QED BY <1>5, <2>3, <3>1, <3>2
  <2> QED BY <2>1, <2>2, <2>3 DEF HistOK
<1>7. Kept \subseteq Kept' /\ \A i \in Times : history'[i] = history[i]
  BY <1>2, <1>4, <1>5 DEF Kept
<1>8. /\ Len(ev) = Len(history) /\ ev \in Seq(EventSet(Nat))
  <2>1. ev \in [1 .. Len(history) -> EventSet(Kept)]
    BY <1>2 DEF Typed
  <2>2. EventSet(Kept) \subseteq EventSet(Nat)
    BY <1>2 DEF EventSet, Kept
  <2>3. ev \in [1 .. Len(history) -> EventSet(Nat)]
    BY <2>1, <2>2
  <2> QED BY <1>2, <2>3
<1>9. /\ ev' \in Seq(EventSet(Nat)) /\ Len(ev') = n
      /\ \A i \in Times : ev'[i] = ev[i]
      /\ ev'[n] = NewEvent
  BY <1>1, <1>2, <1>8, NewEventFacts, AppendProperties
<1>10. Typed(ev)'
  <2>1. ASSUME NEW i \in Times' PROVE ev'[i] \in EventSet(Kept')
    <3>1. CASE i \in Times
      <4>1. ev[i] \in EventSet(Kept)
        BY <3>1 DEF Typed
      <4>2. ev[i] \in EventSet(Kept')
        BY <1>7, <4>1 DEF EventSet
      <4> QED BY <1>9, <3>1, <4>2
    <3>2. CASE i = n
      BY <1>9, <3>2, NewEventFacts
    <3> QED BY <1>5, <2>1, <3>1, <3>2
  <2>2. DOMAIN ev' = Times' /\ ev' = [i \in DOMAIN ev' |-> ev'[i]]
    BY <1>2, <1>5, <1>9
  <2>3. ev' \in [Times' -> EventSet(Kept')]
    BY <2>1, <2>2
  <2>4. \A i \in Times' : history'[i].lost => ev'[i] = NewEvent
    BY <1>5, <1>7, <1>9 DEF Typed
  <2> QED BY <2>3, <2>4 DEF Typed, EventSet
<1> QED BY <1>1, <1>2, <1>4, <1>5, <1>6, <1>7, <1>9, <1>10 DEF r

LEMMA InitIInv == Init => IInv
<1> SUFFICES ASSUME Init PROVE IInv
  OBVIOUS
<1>1. family \in Families /\ history = <<>> /\ ev = <<>> /\ at = [p \in Passes |-> 0] /\ phase = "trace"
  BY DEF Init
<1>2. family.max \in Nat
  BY <1>1, FamiliesAssumption
<1>3. Times = {} /\ Len(history) = 0
  BY <1>1 DEF Times
<1>4. HistOK
  BY <1>1, <1>2, <1>3 DEF HistOK
<1>5. Typed(ev)
  BY <1>1, <1>3 DEF Typed
<1>6. Progress(at)
  BY <1>1, <1>3 DEF Progress
<1> QED BY <1>1, <1>3, <1>4, <1>5, <1>6 DEF IInv

\* The invariant is of the trace and of what the connectors have written.
LEMMA TiedFixed ==
  ASSUME history' = history, family' = family
  PROVE  \A f, m : Tied(f, m)' <=> Tied(f, m)
<1>1. /\ Times' = Times /\ Kept' = Kept /\ Messages' = Messages
      /\ \A i : Kind(i)' = Kind(i) /\ Key(i)' = Key(i)
      /\ \A i, kinds, k : KeptBefore(i, kinds, k)' = KeptBefore(i, kinds, k)
      /\ \A i : CauseKinds(i)' = CauseKinds(i)
  BY TraceFixed
<1>2. \A i, c : CauseOK(i, c)' <=> CauseOK(i, c)
  BY <1>1 DEF CauseOK
<1> SUFFICES ASSUME NEW CONSTANT f, NEW CONSTANT m PROVE Tied(f, m)' <=> Tied(f, m)
  OBVIOUS
<1>3. Mutual(f)' <=> Mutual(f)
  BY <1>1, <1>2 DEF Mutual
<1>4. Fresh(f, m)' <=> Fresh(f, m)
  BY <1>1 DEF Fresh
<1>5. NoCallYet(f, m)' <=> NoCallYet(f, m)
  BY <1>1 DEF NoCallYet
<1>6. MessagesFree(f, m)' <=> MessagesFree(f, m)
  BY <1>1 DEF MessagesFree
<1>7. Recent(f)' <=> Recent(f)
  BY <1>1 DEF Recent
<1>8. NoCross(f)' <=> NoCross(f)
  BY <1>1 DEF NoCross
<1> QED BY <1>3, <1>4, <1>5, <1>6, <1>7, <1>8 DEF Tied

\* A step of the connectors that keeps the parts keeps the whole.
LEMMA ConnectStep ==
  ASSUME IInv, phase = "connect", history' = history, family' = family,
         phase' \in {"connect", "connected", "aborted"},
         Typed(ev'), Progress(at'), Tied(ev', at'), writes' \in [Vars -> Seq(Kept)]
  PROVE  IInv'
<1>1. /\ HistOK' /\ Times' = Times /\ Kept' = Kept /\ Vars' = Vars
      /\ \A f : Typed(f)' = Typed(f)
  BY TraceFixed DEF IInv
<1>2. Typed(ev)'
  BY <1>1 DEF Typed
<1>3. Progress(at)'
  BY DEF Progress
<1>4. Tied(ev, at)'
  <2> PICK f : f = ev'
    OBVIOUS
  <2> PICK m : m = at'
    OBVIOUS
  <2>1. Tied(f, m)' <=> Tied(f, m)
    BY TiedFixed
  <2> QED BY <2>1
<1>5. WritesOK'
  BY <1>1 DEF WritesOK
<1> QED BY <1>1, <1>2, <1>3, <1>4, <1>5 DEF IInv

LEMMA NextIInv == IInv /\ [Next]_vars => IInv'
<1> SUFFICES ASSUME IInv, [Next]_vars PROVE IInv'
  OBVIOUS
<1>0. HistOK /\ Typed(ev) /\ Progress(at)
  BY DEF IInv
<1>1. ASSUME NEW e \in family.inputs, NEW lost \in BOOLEAN, Record(e, lost) PROVE IInv'
  <2>1. /\ HistOK' /\ Typed(ev)' /\ Times' = Times \cup {Len(history) + 1}
        /\ Len(history)' = Len(history) + 1
        /\ \A i \in Times : ev'[i] = ev[i]
        /\ ev'[Len(history) + 1] = NewEvent
    BY <1>0, <1>1, RecordFacts
  <2>2. phase = "trace" /\ phase' = "trace" /\ at' = at
    BY <1>1 DEF Record
  <2>3. at = [p \in Passes |-> 0] /\ \A i \in Times : ev[i] = NewEvent
    BY <2>2 DEF IInv
  <2>4. \A i \in Times' : ev'[i] = NewEvent
    BY <2>1, <2>3
  <2>5. Progress(at)'
    BY <1>0, <2>1, <2>2, <2>3, TraceFacts DEF Progress
  <2> QED BY <2>1, <2>2, <2>3, <2>4, <2>5 DEF IInv
<1>2. CASE EndTrace
  <2>1. /\ phase = "trace" /\ phase' = "connect" /\ writes' = [v \in Vars |-> <<>>]
        /\ family' = family /\ history' = history /\ ev' = ev /\ at' = at
    BY <1>2 DEF EndTrace
  <2>2. Tied(ev, at)
    BY <1>0, <2>1, NothingTied DEF IInv
  <2>3. HistOK' /\ Times' = Times /\ Kept' = Kept /\ Vars' = Vars
    BY <2>1, TraceFixed DEF IInv
  <2>4. Typed(ev)' /\ Progress(at)'
    BY <1>0, <2>1, <2>3 DEF Typed, Progress
  <2>5. WritesOK'
    BY <2>1, <2>3 DEF WritesOK
  <2>6. Tied(ev, at)'
    <3> PICK f : f = ev
      OBVIOUS
    <3> PICK m : m = at
      OBVIOUS
    <3>1. Tied(f, m)' <=> Tied(f, m)
      BY <2>1, TiedFixed
    <3>2. f = ev' /\ m = at'
      BY <2>1
    <3> QED BY <2>2, <3>1, <3>2
  <2> QED BY <2>1, <2>3, <2>4, <2>5, <2>6 DEF IInv
<1>3. ASSUME NEW p \in Passes, NEW i \in Times, Turn(p, i) PROVE IInv'
  <2>1. phase = "connect" /\ history' = history /\ family' = family /\ phase' = phase
    BY <1>3 DEF Turn
  <2>2. WritesOK /\ Tied(ev, at)
    BY <2>1 DEF IInv
  <2>3. Typed(ev') /\ Tied(ev', at') /\ Progress(at') /\ writes' \in [Vars -> Seq(Kept)]
    BY <1>0, <1>3, <2>2, TurnTied
  <2> QED BY <2>1, <2>3, ConnectStep
<1>4. CASE LeaveLoop
  <2>1. /\ phase = "connect" /\ at' = [at EXCEPT !.loop = Len(history)]
        /\ family' = family /\ history' = history /\ ev' = ev /\ writes' = writes /\ phase' = phase
    BY <1>4 DEF LeaveLoop
  <2>2. WritesOK /\ Tied(ev, at)
    BY <2>1 DEF IInv
  <2>3. Progress(at')
    BY <1>0, <2>1, TraceFacts DEF Progress
  <2>4. \A p \in Passes : at[p] <= at'[p]
    <3>1. \A p \in Passes : at[p] \in 0 .. Len(history)
      BY <1>0 DEF Progress
    <3>2. \A p \in Passes : at'[p] = at[p] \/ at'[p] = Len(history)
      BY <1>0, <2>1 DEF Progress
    <3> QED BY <1>0, <3>1, <3>2, TraceFacts
  <2>5. Tied(ev, at')
    BY <1>0, <2>2, <2>3, <2>4, TiedLater
  <2> QED BY <1>0, <2>1, <2>2, <2>3, <2>5, ConnectStep DEF WritesOK
<1>5. CASE Abort \/ Join
  <2>1. /\ phase = "connect" /\ phase' \in {"connected", "aborted"}
        /\ family' = family /\ history' = history /\ ev' = ev /\ writes' = writes /\ at' = at
    BY <1>5 DEF Abort, Join
  <2>2. WritesOK /\ Tied(ev, at)
    BY <2>1 DEF IInv
  <2> QED BY <1>0, <2>1, <2>2, ConnectStep DEF WritesOK
<1>6. CASE Over \/ UNCHANGED vars
  <2>1. /\ family' = family /\ history' = history /\ ev' = ev /\ writes' = writes /\ at' = at
        /\ phase' = phase
    BY <1>6 DEF Over, vars
  <2>2. HistOK' /\ Times' = Times /\ Kept' = Kept /\ Vars' = Vars
    BY <1>0, <2>1, TraceFixed
  <2>3. Typed(ev)' /\ Progress(at)'
    BY <1>0, <2>1, <2>2 DEF Typed, Progress
  <2>4. WritesOK => WritesOK'
    BY <2>1, <2>2 DEF WritesOK
  <2>5. Tied(ev, at) => Tied(ev, at)'
    <3> PICK f : f = ev
      OBVIOUS
    <3> PICK m : m = at
      OBVIOUS
    <3>1. Tied(f, m)' <=> Tied(f, m)
      BY <2>1, TiedFixed
    <3>2. f = ev' /\ m = at'
      BY <2>1
    <3> QED BY <3>1, <3>2
  <2> QED BY <2>1, <2>2, <2>3, <2>4, <2>5 DEF IInv
<1> QED BY <1>1, <1>2, <1>3, <1>4, <1>5, <1>6 DEF Next

\* Every state of the connectors satisfies the inductive invariant.
THEOREM InvariantHolds == Spec => []IInv
BY InitIInv, NextIInv, PTL DEF Spec

\* The types, for every family: an event owned, taken, cancelled, paired or continued is one of the
\* trace that was not lost, and a lost record is never touched.
THEOREM TypesHold == Spec => []TypeOK
<1>1. IInv => TypeOK
  <2> SUFFICES ASSUME IInv PROVE TypeOK
    OBVIOUS
  <2>1. /\ family \in Families /\ Len(history) <= family.max
        /\ phase \in {"trace", "connect", "connected", "aborted"}
    BY DEF IInv, HistOK
  <2>2. DOMAIN ev = Times /\ \A i \in Times : ev[i] \in EventSet(Kept) /\ (history[i].lost => ev[i] = NewEvent)
    BY DEF IInv, Typed
  <2>3. at \in [Passes -> 0 .. Len(history)]
    BY DEF IInv, Progress
  <2>4. \A i \in Times : ev[i].owner \cup ev[i].consumer \cup ev[i].cancel \cup ev[i].peer
                           \cup ev[i].next \subseteq Kept
    BY <2>2 DEF EventSet
  <2>5. \A i \in Times : ~history[i].lost \/ ev[i] = NewEvent
    BY <2>2
  <2> QED BY <2>1, <2>2, <2>3, <2>4, <2>5 DEF TypeOK
<1> QED BY <1>1, InvariantHolds, PTL

\* The effects of the last record of their cause are not tied crosswise: a later one has a later cause.
LEMMA RecentInOrder ==
  ASSUME HistOK, NEW f, Recent(f), NEW i \in Kept, NEW j \in Kept, i < j, Kind(i) = Kind(j), Key(i) = Key(j),
         Kind(i) \in RecentKinds, NEW c \in f[i].owner, NEW d \in f[j].owner
  PROVE  c <= d
<1>1. c \in Latest(KeptBefore(i, CauseKinds(i), Key(i))) /\ d \in Latest(KeptBefore(j, CauseKinds(j), Key(j)))
  BY DEF Recent
<1>2. CauseKinds(i) = CauseKinds(j)
  BY DEF CauseKinds
<1>3. i \in Nat /\ j \in Nat /\ \A k \in Times : k \in Nat
  BY TraceFacts
<1>4. c \in KeptBefore(j, CauseKinds(j), Key(j))
  <2>1. c \in Of(CauseKinds(j), Key(j)) /\ c \in Kept /\ c < i
    BY <1>1, <1>2 DEF Latest, KeptBefore
  <2>2. c \in Nat
    BY <1>3, <2>1 DEF Of
  <2> QED BY <1>3, <2>1, <2>2 DEF KeptBefore
<1> QED BY <1>1, <1>4 DEF Latest

\* Whatever was traced and lost, and however the passes are interleaved: what is tied is tied at
\* both ends, by effects of the listed kinds only, a timer is not both cancelled and called, and
\* nothing but an answer is tied crosswise.
THEOREM TiesAreMutual == Spec => []PairsAreMutual
<1>1. IInv => PairsAreMutual
  <2> SUFFICES ASSUME IInv, Done, NEW i \in Kept
      PROVE  /\ \A c \in ev[i].owner :
                  /\ Kind(i) \in EffectKinds /\ Kind(c) \in CauseKinds(i) /\ Key(c) = Key(i) /\ c < i
                  /\ \E e \in ev[c].consumer \cup ev[c].cancel :
                       e = i \/ (Kind(i) \in Shared /\ e > i)
             /\ \A e \in ev[i].consumer \cup ev[i].cancel : i \in ev[e].owner
             /\ ev[i].consumer = {} \/ ev[i].cancel = {}
             /\ \A j \in Kept :
                  i < j /\ Kind(i) = Kind(j) /\ Kind(i) \in EffectKinds \ {"answer"} /\ Key(i) = Key(j) =>
                    \A c \in ev[i].owner, d \in ev[j].owner : c <= d
    BY DEF PairsAreMutual
  <2>1. HistOK /\ Tied(ev, at)
    BY DEF IInv, Done
  <2>2. Mutual(ev) /\ Recent(ev) /\ NoCross(ev)
    BY <2>1 DEF Tied
  <2>3. ASSUME NEW c \in ev[i].owner
        PROVE  /\ Kind(i) \in EffectKinds /\ Kind(c) \in CauseKinds(i) /\ Key(c) = Key(i) /\ c < i
               /\ \E e \in ev[c].consumer \cup ev[c].cancel :
                    e = i \/ (Kind(i) \in Shared /\ e > i)
    BY <2>2 DEF Mutual, CauseOK
  <2>4. /\ \A e \in ev[i].consumer \cup ev[i].cancel : i \in ev[e].owner
        /\ ev[i].consumer = {} \/ ev[i].cancel = {}
    BY <2>2 DEF Mutual
  <2>5. ASSUME NEW j \in Kept, i < j, Kind(i) = Kind(j), Kind(i) \in EffectKinds \ {"answer"}, Key(i) = Key(j),
               NEW c \in ev[i].owner, NEW d \in ev[j].owner
        PROVE  c <= d
    <3>1. CASE Kind(i) \in RecentKinds
      BY <2>1, <2>2, <2>5, <3>1, RecentInOrder
    <3>2. CASE Kind(i) \notin RecentKinds
      <4>1. Kind(i) \in {"display"} \cup InboxKinds
        BY <2>5, <3>2 DEF EffectKinds, RecentKinds, InboxKinds
      <4> QED BY <2>2, <2>5, <4>1 DEF NoCross
    <3> QED BY <3>1, <3>2
  <2> QED BY <2>3, <2>4, <2>5
<1> QED BY <1>1, InvariantHolds, PTL

-----------------------------------------------------------------------------
(* The calls.  A thread has one call open at most, so that a reply, which  *)
(* names the port that its request brought, belongs to one request.        *)

CallOpen(k) ==
  Open(k, {"request"}, {"receive"}) \cup Open(k, {"receive"}, {"reply"}) \cup Open(k, {"reply"}, {"answer"})

\* Every request of the thread k has been answered, or all but the one that is under way.
OneCall(k) ==
  LET requests == Cardinality(Of({"request"}, k))
      answers  == Cardinality(Of({"answer"}, k))
  IN  \/ CallOpen(k) = {} /\ requests = answers
      \/ (\E x \in Times : CallOpen(k) = {x}) /\ requests = answers + 1

\* A request comes between two that are received; a reply comes before the next request.
CallOrder(k) ==
  /\ \A x \in Open(k, {"request"}, {"receive"}), y \in Of({"receive"}, k) : y < x
  /\ \A x \in Open(k, {"receive"}, {"reply"}), y \in Of({"request"}, k) : y < x
  /\ \A y, z \in Of({"receive"}, k) : y < z => \E x \in Of({"request"}, k) : y < x /\ x < z
  /\ \A r \in Of({"reply"}, k) : \E v \in Of({"receive"}, k) :
       history[r].causes = {v} /\ v < r /\ \A x \in Of({"request"}, k) : x < v \/ r < x

CallsInv == \A k \in Nat : OneCall(k) /\ CallOrder(k)

\* What an episode continues with was sent to the port that was received.
NextInv ==
  \A i \in Kept : \A r \in ev[i].next :
    /\ Kind(i) = "receive" /\ Kind(r) = "reply" /\ Key(r) = Key(i)
    /\ FromKernel(r) \/ ReplyName(r) = ReplyName(i)

\* The record added, and what is open after it.
LEMMA OfAfter ==
  ASSUME HistOK, Typed(ev), NEW e \in family.inputs, NEW lost \in BOOLEAN, Record(e, lost),
         NEW n, n = Len(history) + 1
  PROVE  /\ n \in Nat /\ n \notin Times /\ \A j \in Times : j < n /\ j \in Nat
         /\ Times' = Times \cup {n}
         /\ \A j \in Times : /\ Rec(j)' = Rec(j) /\ Kind(j)' = Kind(j) /\ Key(j)' = Key(j)
                             /\ history'[j] = history[j]
         /\ Rec(n)' = e /\ Kind(n)' = e.kind /\ Key(n)' = e.key
         /\ history'[n].causes = CausesOf(e) /\ CausesOf(e) \subseteq Times
         /\ \A kinds, k : Of(kinds, k)' = Of(kinds, k) \cup (IF e.kind \in kinds /\ e.key = k THEN {n} ELSE {})
         /\ \A kinds, by, k : Open(k, kinds, by)' =
              {j \in Open(k, kinds, by) : e.kind \notin by \/ j \notin CausesOf(e)}
              \cup (IF e.kind \in kinds /\ e.key = k THEN {n} ELSE {})
<1>1. /\ Times' = Times \cup {n} /\ n \notin Times
      /\ \A i \in Times : history'[i] = history[i]
      /\ history'[n] = [rec |-> e, causes |-> CausesOf(e), lost |-> lost]
  BY RecordFacts
<1>2. n \in Nat /\ \A j \in Times : j < n /\ j \in Nat
  BY TraceFacts
<1>3. CausesOf(e) \subseteq Times
  BY CausesAreTimes
<1>4. /\ \A j \in Times : Rec(j)' = Rec(j) /\ Kind(j)' = Kind(j) /\ Key(j)' = Key(j)
      /\ Rec(n)' = e /\ Kind(n)' = e.kind /\ Key(n)' = e.key
      /\ history'[n].causes = CausesOf(e)
  BY <1>1 DEF Rec, Kind, Key
<1>5. ASSUME NEW CONSTANT kinds, NEW CONSTANT k
      PROVE  Of(kinds, k)' = Of(kinds, k) \cup (IF e.kind \in kinds /\ e.key = k THEN {n} ELSE {})
  <2>1. Of(kinds, k)' = {j \in Times' : Kind(j)' \in kinds /\ Key(j)' = k}
    BY DEF Of
  <2>2. Of(kinds, k)' = {j \in Times : Kind(j)' \in kinds /\ Key(j)' = k}
                        \cup {j \in {n} : Kind(j)' \in kinds /\ Key(j)' = k}
    BY <1>1, <2>1
  <2>3. {j \in Times : Kind(j)' \in kinds /\ Key(j)' = k} = Of(kinds, k)
    BY <1>4 DEF Of
  <2>4. {j \in {n} : Kind(j)' \in kinds /\ Key(j)' = k} = IF e.kind \in kinds /\ e.key = k THEN {n} ELSE {}
    BY <1>4
  <2> QED BY <2>2, <2>3, <2>4
<1>6. ASSUME NEW CONSTANT j, NEW CONSTANT by, j \in Times
      PROVE  Followed(j, by)' <=> Followed(j, by) \/ (e.kind \in by /\ j \in CausesOf(e))
  BY <1>1, <1>4, <1>6 DEF Followed
<1>7. ASSUME NEW CONSTANT by
      PROVE  ~Followed(n, by)'
  <2> SUFFICES ASSUME NEW i \in Times', n \in history'[i].causes PROVE FALSE
    BY DEF Followed
  <2>1. CASE i \in Times
    <3>1. n \in 1 .. i - 1
      BY <1>1, <2>1 DEF HistOK
    <3> QED BY <1>2, <2>1, <3>1
  <2>2. CASE i = n
    BY <1>1, <1>3, <1>4, <2>2
  <2> QED BY <1>1, <2>1, <2>2
<1>8. ASSUME NEW CONSTANT kinds, NEW CONSTANT by, NEW CONSTANT k
      PROVE  Open(k, kinds, by)' = {j \in Open(k, kinds, by) : e.kind \notin by \/ j \notin CausesOf(e)}
                                   \cup (IF e.kind \in kinds /\ e.key = k THEN {n} ELSE {})
  <2>1. Open(k, kinds, by)' = {j \in Of(kinds, k)' : ~Followed(j, by)'}
    BY DEF Open
  <2>2. \A j \in Of(kinds, k) : j \in Times
    BY DEF Of
  <2>3. {j \in Of(kinds, k) : ~Followed(j, by)'} = {j \in Open(k, kinds, by) : e.kind \notin by \/ j \notin CausesOf(e)}
    <3>1. \A j \in Of(kinds, k) : Followed(j, by)' <=> Followed(j, by) \/ (e.kind \in by /\ j \in CausesOf(e))
      BY <1>6, <2>2
    <3> QED BY <3>1 DEF Open
  <2>4. CASE e.kind \in kinds /\ e.key = k
    BY <1>5, <1>7, <2>1, <2>3, <2>4
  <2>5. CASE ~(e.kind \in kinds /\ e.key = k)
    BY <1>5, <2>1, <2>3, <2>5
  <2> QED BY <2>4, <2>5
<1> QED BY <1>1, <1>2, <1>3, <1>4, <1>5, <1>8

LEMMA CallSetsFinite ==
  ASSUME HistOK, NEW kinds, NEW k
  PROVE  IsFiniteSet(Of(kinds, k)) /\ Cardinality(Of(kinds, k)) \in Nat /\ Of(kinds, k) \subseteq Times
<1>1. Of(kinds, k) \subseteq 1 .. Len(history) /\ Len(history) \in Nat /\ Of(kinds, k) \subseteq Times
  BY TraceFacts DEF Of
<1>2. IsFiniteSet(1 .. Len(history))
  BY <1>1, FS_Interval
<1> QED BY <1>1, <1>2, FS_Subset, FS_CardinalityType

\* The thread k has one record open, of one kind.
LEMMA OneOpen ==
  ASSUME HistOK, NEW k, OneCall(k)
  PROVE  /\ Open(k, {"request"}, {"receive"}) # {} =>
              /\ \E x \in Times : Open(k, {"request"}, {"receive"}) = {x}
              /\ Open(k, {"receive"}, {"reply"}) = {} /\ Open(k, {"reply"}, {"answer"}) = {}
         /\ Open(k, {"receive"}, {"reply"}) # {} =>
              /\ \E x \in Times : Open(k, {"receive"}, {"reply"}) = {x}
              /\ Open(k, {"request"}, {"receive"}) = {} /\ Open(k, {"reply"}, {"answer"}) = {}
         /\ Open(k, {"reply"}, {"answer"}) # {} =>
              /\ \E x \in Times : Open(k, {"reply"}, {"answer"}) = {x}
              /\ Open(k, {"request"}, {"receive"}) = {} /\ Open(k, {"receive"}, {"reply"}) = {}
         /\ CallOpen(k) # {} =>
              Cardinality(Of({"request"}, k)) = Cardinality(Of({"answer"}, k)) + 1
         /\ CallOpen(k) = {} =>
              Cardinality(Of({"request"}, k)) = Cardinality(Of({"answer"}, k))
<1> DEFINE a == Open(k, {"request"}, {"receive"})
           b == Open(k, {"receive"}, {"reply"})
           c == Open(k, {"reply"}, {"answer"})
<1>1. CallOpen(k) = {} \/ \E x \in Times : CallOpen(k) = {x}
  BY DEF OneCall
<1>2. CallOpen(k) = a \cup b \cup c
  BY DEF CallOpen
<1>3. /\ \A j \in a : Kind(j) = "request"
      /\ \A j \in b : Kind(j) = "receive"
      /\ \A j \in c : Kind(j) = "reply"
  BY DEF Open, Of
<1>4. /\ CallOpen(k) # {} => Cardinality(Of({"request"}, k)) = Cardinality(Of({"answer"}, k)) + 1
      /\ CallOpen(k) = {} => Cardinality(Of({"request"}, k)) = Cardinality(Of({"answer"}, k))
  BY DEF OneCall
<1> HIDE DEF a, b, c
<1>5. a # {} => (\E x \in Times : a = {x}) /\ b = {} /\ c = {}
  BY <1>1, <1>2, <1>3
<1>6. b # {} => (\E x \in Times : b = {x}) /\ a = {} /\ c = {}
  BY <1>1, <1>2, <1>3
<1>7. c # {} => (\E x \in Times : c = {x}) /\ a = {} /\ b = {}
  BY <1>1, <1>2, <1>3
<1> QED BY <1>4, <1>5, <1>6, <1>7 DEF a, b, c

CallKinds == {"request", "receive", "reply", "answer"}

\* Records of other threads and of other kinds do not disturb the calls of k.
LEMMA OtherRecord ==
  ASSUME HistOK, Typed(ev), NEW e \in family.inputs, NEW lost \in BOOLEAN, Record(e, lost),
         NEW k, OneCall(k), CallOrder(k), e.kind \notin CallKinds \/ e.key # k
  PROVE  OneCall(k)' /\ CallOrder(k)'
<1> DEFINE n == Len(history) + 1
<1>0. /\ Times' = Times \cup {n}
      /\ \A j \in Times : history'[j] = history[j]
      /\ \A kinds, l : Of(kinds, l)' = Of(kinds, l) \cup (IF e.kind \in kinds /\ e.key = l THEN {n} ELSE {})
      /\ \A kinds, by, l : Open(l, kinds, by)' =
           {j \in Open(l, kinds, by) : e.kind \notin by \/ j \notin CausesOf(e)}
           \cup (IF e.kind \in kinds /\ e.key = l THEN {n} ELSE {})
  BY OfAfter
<1> HIDE DEF n
<1>1. ASSUME NEW kind \in CallKinds PROVE Of({kind}, k)' = Of({kind}, k)
  <2>1. ~(e.kind \in {kind} /\ e.key = k)
    BY DEF CallKinds
  <2> QED BY <1>0, <2>1
<1>2. ASSUME NEW kind \in CallKinds, NEW by \in {"receive", "reply", "answer"}
      PROVE  Open(k, {kind}, {by})' = Open(k, {kind}, {by})
  <2>1. ~(e.kind \in {kind} /\ e.key = k)
    BY DEF CallKinds
  <2>2. ASSUME e.kind = by, NEW j \in Open(k, {kind}, {by}) PROVE j \notin CausesOf(e)
    <3>1. e.key # k
      BY <2>2 DEF CallKinds
    <3>2. \A i \in CausesOf(e) : Key(i) = e.key
      BY <2>2 DEF CausesOf, Open, Of
    <3>3. Key(j) = k
      BY <2>2 DEF Open, Of
    <3> QED BY <3>1, <3>2, <3>3
  <2>3. Open(k, {kind}, {by})' = {j \in Open(k, {kind}, {by}) : e.kind \notin {by} \/ j \notin CausesOf(e)}
    BY <1>0, <2>1
  <2> QED BY <2>2, <2>3
<1>3. /\ Of({"request"}, k)' = Of({"request"}, k) /\ Of({"receive"}, k)' = Of({"receive"}, k)
      /\ Of({"reply"}, k)' = Of({"reply"}, k) /\ Of({"answer"}, k)' = Of({"answer"}, k)
  BY <1>1 DEF CallKinds
<1>4. /\ Open(k, {"request"}, {"receive"})' = Open(k, {"request"}, {"receive"})
      /\ Open(k, {"receive"}, {"reply"})' = Open(k, {"receive"}, {"reply"})
      /\ Open(k, {"reply"}, {"answer"})' = Open(k, {"reply"}, {"answer"})
  BY <1>2 DEF CallKinds
<1>5. OneCall(k)'
  <2>1. CallOpen(k)' = CallOpen(k)
    BY <1>4 DEF CallOpen
  <2> QED BY <1>0, <1>3, <2>1 DEF OneCall
<1>6. CallOrder(k)'
  <2>1. \A r \in Of({"reply"}, k) : history'[r].causes = history[r].causes
    BY <1>0 DEF Of
  <2> QED BY <1>3, <1>4, <2>1 DEF CallOrder
<1> QED BY <1>5, <1>6

\* Each step of a call is the only one that its thread can take.
LEMMA CallRecord ==
  ASSUME HistOK, Typed(ev), NEW e \in family.inputs, NEW lost \in BOOLEAN, Record(e, lost),
         NEW k, OneCall(k), CallOrder(k), e.kind \in CallKinds, e.key = k
  PROVE  OneCall(k)' /\ CallOrder(k)'
<1> DEFINE n == Len(history) + 1
           a == Open(k, {"request"}, {"receive"})
           b == Open(k, {"receive"}, {"reply"})
           c == Open(k, {"reply"}, {"answer"})
           q == Of({"request"}, k)
           v == Of({"receive"}, k)
           p == Of({"reply"}, k)
           w == Of({"answer"}, k)
<1>0. /\ Times' = Times \cup {n} /\ n \in Nat /\ n \notin Times /\ \A j \in Times : j < n /\ j \in Nat
      /\ \A j \in Times : history'[j] = history[j]
      /\ history'[n].causes = CausesOf(e)
      /\ \A kinds, l : Of(kinds, l)' = Of(kinds, l) \cup (IF e.kind \in kinds /\ e.key = l THEN {n} ELSE {})
      /\ \A kinds, by, l : Open(l, kinds, by)' =
           {j \in Open(l, kinds, by) : e.kind \notin by \/ j \notin CausesOf(e)}
           \cup (IF e.kind \in kinds /\ e.key = l THEN {n} ELSE {})
  BY OfAfter
<1>1. /\ q \subseteq Times /\ v \subseteq Times /\ p \subseteq Times /\ w \subseteq Times
      /\ IsFiniteSet(q) /\ IsFiniteSet(w) /\ Cardinality(q) \in Nat /\ Cardinality(w) \in Nat
  BY CallSetsFinite
<1>2. /\ a # {} => (\E x \in Times : a = {x}) /\ b = {} /\ c = {}
      /\ b # {} => (\E x \in Times : b = {x}) /\ a = {} /\ c = {}
      /\ c # {} => (\E x \in Times : c = {x}) /\ a = {} /\ b = {}
      /\ CallOpen(k) # {} => Cardinality(q) = Cardinality(w) + 1
      /\ CallOpen(k) = {} => Cardinality(q) = Cardinality(w)
  BY OneOpen
<1>3. CallOpen(k) = a \cup b \cup c /\ CallOpen(k)' = a' \cup b' \cup c'
  BY DEF CallOpen
<1>4. /\ \A x \in a, y \in v : y < x
      /\ \A x \in b, y \in q : y < x
      /\ \A y, z \in v : y < z => \E x \in q : y < x /\ x < z
      /\ \A r \in p : \E z \in v : history[r].causes = {z} /\ z < r /\ \A x \in q : x < z \/ r < x
  BY DEF CallOrder
<1>5. May(e)
  BY DEF Record
<1>6. a \subseteq q /\ b \subseteq v /\ c \subseteq p
  BY DEF Open
\* The parts of the claim, on the sets.
<1>7. OneCall(k)' <=> \/ CallOpen(k)' = {} /\ Cardinality(q') = Cardinality(w')
                      \/ (\E x \in Times' : CallOpen(k)' = {x}) /\ Cardinality(q') = Cardinality(w') + 1
  BY DEF OneCall
<1>8. CallOrder(k)' <=>
        /\ \A x \in a', y \in v' : y < x
        /\ \A x \in b', y \in q' : y < x
        /\ \A y, z \in v' : y < z => \E x \in q' : y < x /\ x < z
        /\ \A r \in p' : \E z \in v' : history'[r].causes = {z} /\ z < r /\ \A x \in q' : x < z \/ r < x
  BY DEF CallOrder
<1>9. CASE e.kind = "request"
  <2>1. q' = q \cup {n} /\ v' = v /\ p' = p /\ w' = w
    BY <1>0, <1>9
  <2>2. a' = a \cup {n} /\ b' = b /\ c' = c
    BY <1>0, <1>9
  <2>3. Cardinality(q) = Cardinality(w)
    BY <1>5, <1>9 DEF May
  <2>4. a = {} /\ b = {} /\ c = {}
    <3> HIDE DEF a, b, c, q, w
    <3>1. CallOpen(k) = {}
      BY <1>1, <1>2, <2>3
    <3> QED BY <1>3, <3>1
  <2>5. Cardinality(q') = Cardinality(q) + 1
    <3>1. n \notin q
      BY <1>0, <1>1
    <3> QED BY <1>1, <2>1, <3>1, FS_AddElement
  <2> HIDE DEF a, b, c, q, v, p, w, n
  <2>6. CallOpen(k)' = {n} /\ n \in Times'
    BY <1>0, <1>3, <2>2, <2>4
  <2>7. \A r \in p : history'[r].causes = history[r].causes /\ r < n
    BY <1>0, <1>1
  <2>8. \A x \in a', y \in v' : y < x
    BY <1>0, <1>1, <2>1, <2>2, <2>4
  <2>9. \A y, z \in v' : y < z => \E x \in q' : y < x /\ x < z
    BY <1>4, <2>1
  <2>10. \A r \in p' : \E z \in v' : history'[r].causes = {z} /\ z < r /\ \A x \in q' : x < z \/ r < x
    BY <1>4, <2>1, <2>7
  <2> QED BY <1>7, <1>8, <2>1, <2>2, <2>3, <2>4, <2>5, <2>6, <2>8, <2>9, <2>10
<1>10. CASE e.kind = "receive"
  <2>1. q' = q /\ v' = v \cup {n} /\ p' = p /\ w' = w
    BY <1>0, <1>10
  <2>2. CausesOf(e) = a /\ a # {}
    BY <1>5, <1>10 DEF CausesOf, May, NeedsCause
  <2>3. a' = {j \in a : j \notin CausesOf(e)} /\ b' = b \cup {n} /\ c' = c
    BY <1>0, <1>10
  <2> HIDE DEF a, b, c, q, v, p, w, n
  <2>4. b = {} /\ c = {} /\ a' = {} /\ b' = {n} /\ c' = {}
    BY <1>2, <2>2, <2>3
  <2>5. CallOpen(k)' = {n} /\ n \in Times' /\ CallOpen(k) # {}
    BY <1>0, <1>3, <2>2, <2>4
  <2>6. PICK x \in a : x \in q /\ \A y \in v : y < x
    BY <1>4, <1>6, <2>2
  <2>7. \A y, z \in v' : y < z => \E u \in q' : y < u /\ u < z
    <3> SUFFICES ASSUME NEW y \in v', NEW z \in v', y < z PROVE \E u \in q' : y < u /\ u < z
      OBVIOUS
    <3>1. CASE y \in v /\ z \in v
      BY <1>4, <2>1, <3>1
    <3>2. CASE y \in v /\ z = n
      BY <1>0, <1>1, <2>1, <2>6, <3>2
    <3>3. CASE y = n
      BY <1>0, <1>1, <2>1, <3>3
    <3> QED BY <2>1, <3>1, <3>2, <3>3
  <2>8. \A r \in p : history'[r].causes = history[r].causes
    BY <1>0, <1>1
  <2>9. \A r \in p' : \E z \in v' : history'[r].causes = {z} /\ z < r /\ \A u \in q' : u < z \/ r < u
    BY <1>4, <2>1, <2>8
  <2>10. \A u \in b', y \in q' : y < u
    BY <1>0, <1>1, <2>1, <2>4
  <2> QED BY <1>2, <1>7, <1>8, <2>1, <2>4, <2>5, <2>7, <2>9, <2>10
<1>11. CASE e.kind = "reply"
  <2>1. q' = q /\ v' = v /\ p' = p \cup {n} /\ w' = w
    BY <1>0, <1>11
  <2>2. CausesOf(e) = b /\ b # {}
    BY <1>5, <1>11 DEF CausesOf, May, NeedsCause
  <2>3. a' = a /\ b' = {j \in b : j \notin CausesOf(e)} /\ c' = c \cup {n}
    BY <1>0, <1>11
  <2> HIDE DEF a, b, c, q, v, p, w, n
  <2>4. a = {} /\ c = {} /\ a' = {} /\ b' = {} /\ c' = {n}
    BY <1>2, <2>2, <2>3
  <2>5. CallOpen(k)' = {n} /\ n \in Times' /\ CallOpen(k) # {}
    BY <1>0, <1>3, <2>2, <2>4
  <2>6. PICK z \in Times : b = {z}
    BY <1>2, <2>2
  <2>7. z \in v /\ \A y \in q : y < z
    BY <1>4, <1>6, <2>6
  <2>8. \A r \in p : history'[r].causes = history[r].causes
    BY <1>0, <1>1
  <2>9. \A r \in p' : \E u \in v' : history'[r].causes = {u} /\ u < r /\ \A x \in q' : x < u \/ r < x
    <3> SUFFICES ASSUME NEW r \in p'
        PROVE \E u \in v' : history'[r].causes = {u} /\ u < r /\ \A x \in q' : x < u \/ r < x
      OBVIOUS
    <3>1. CASE r \in p
      BY <1>4, <2>1, <2>8, <3>1
    <3>2. CASE r = n
      BY <1>0, <2>1, <2>2, <2>6, <2>7, <3>2
    <3> QED BY <2>1, <3>1, <3>2
  <2>10. \A y, u \in v' : y < u => \E x \in q' : y < x /\ x < u
    BY <1>4, <2>1
  <2> QED BY <1>2, <1>7, <1>8, <2>1, <2>4, <2>5, <2>9, <2>10
<1>12. CASE e.kind = "answer"
  <2>1. q' = q /\ v' = v /\ p' = p /\ w' = w \cup {n}
    BY <1>0, <1>12
  <2>2. CausesOf(e) = c /\ c # {}
    BY <1>5, <1>12 DEF CausesOf, May, NeedsCause
  <2>3. a' = a /\ b' = b /\ c' = {j \in c : j \notin CausesOf(e)}
    BY <1>0, <1>12
  <2>4. Cardinality(w') = Cardinality(w) + 1
    <3>1. n \notin w
      BY <1>0, <1>1
    <3> QED BY <1>1, <2>1, <3>1, FS_AddElement
  <2> HIDE DEF a, b, c, q, v, p, w, n
  <2>5. a' = {} /\ b' = {} /\ c' = {}
    BY <1>2, <2>2, <2>3
  <2>6. CallOpen(k)' = {} /\ CallOpen(k) # {}
    BY <1>3, <2>2, <2>5
  <2>7. \A r \in p : history'[r].causes = history[r].causes
    BY <1>0, <1>1
  <2>8. \A r \in p' : \E u \in v' : history'[r].causes = {u} /\ u < r /\ \A x \in q' : x < u \/ r < x
    BY <1>4, <2>1, <2>7
  <2>9. \A y, u \in v' : y < u => \E x \in q' : y < x /\ x < u
    BY <1>4, <2>1
  <2>10. Cardinality(q') = Cardinality(w')
    BY <1>2, <2>1, <2>4, <2>6
  <2>11. OneCall(k)'
    BY <1>7, <2>6, <2>10
  <2>12. CallOrder(k)'
    BY <1>8, <2>5, <2>8, <2>9
  <2> QED BY <2>11, <2>12
<1> QED BY <1>9, <1>10, <1>11, <1>12 DEF CallKinds

\* What only the messages and the traps write.
SamePeers(f, g) ==
  \A j \in Times : g[j].peer = f[j].peer /\ g[j].read = f[j].read /\ g[j].next = f[j].next

LEMMA ConnectedPeers ==
  ASSUME HistOK, Typed(ev), NEW i \in Kept, NEW causes, \A c \in causes : c \in Kept /\ c < i
  PROVE  SamePeers(ev, Connected(i, causes))
<1>1. CASE causes = {}
  BY <1>1 DEF Connected, SamePeers
<1>2. CASE causes # {}
  <2>1. Only(causes) \in Kept /\ Only(causes) < i /\ Connected(i, causes) = Linked(ev, i, Only(causes))
    BY <1>2, OnlyFacts DEF Connected
  <2>2. i # Only(causes)
    <3>1. i \in Nat /\ Only(causes) \in Nat
      BY <2>1, TraceFacts
    <3> QED BY <2>1, <3>1
  <2>3. \A j \in Times :
          /\ Linked(ev, i, Only(causes))[j].peer = ev[j].peer
          /\ Linked(ev, i, Only(causes))[j].next = ev[j].next
          /\ Linked(ev, i, Only(causes))[j].read = ev[j].read
    BY <2>1, <2>2, LinkedFacts
  <2> QED BY <2>1, <2>3 DEF SamePeers
<1> QED BY <1>1, <1>2

LEMMA CancelPeers ==
  ASSUME HistOK, Typed(ev), NEW i \in Kept
  PROVE  SamePeers(ev, ConnectCancel(i))
<1> DEFINE create == {c \in RecentCreate(i) : ev[c].cancel = {}}
<1>1. CASE create = {}
  BY <1>1 DEF ConnectCancel, SamePeers
<1>2. CASE create # {}
  <2>1. Only(create) \in create
    BY <1>2, OnlyFacts
  <2>2. create = {Only(create)}
    <3>1. KeptBefore(i, {"create"}, Key(i)) \in SUBSET Nat
      BY TraceFacts DEF KeptBefore, Of
    <3>2. \A c, d \in RecentCreate(i) : c = d
      BY <3>1, EndFacts DEF RecentCreate
    <3> QED BY <2>1, <3>2
  <2>3. ConnectCancel(i) = [ev EXCEPT ![i].owner = create, ![Only(create)].cancel = {i}]
    BY <1>2 DEF ConnectCancel
  <2>4. Only(create) \in Kept /\ Only(create) < i
    BY <2>1 DEF RecentCreate, Latest, KeptBefore
  <2> HIDE DEF create
  <2>5. i # Only(create)
    <3>1. i \in Nat /\ Only(create) \in Nat
      BY <2>4, TraceFacts
    <3> QED BY <2>4, <3>1
  <2>6. ConnectCancel(i) = CancelTie(ev, i, Only(create))
    BY <2>2, <2>3 DEF CancelTie
  <2>7. \A j \in Times :
          /\ CancelTie(ev, i, Only(create))[j].peer = ev[j].peer
          /\ CancelTie(ev, i, Only(create))[j].next = ev[j].next
          /\ CancelTie(ev, i, Only(create))[j].read = ev[j].read
    BY <2>4, <2>5, CancelTieFacts
  <2> QED BY <2>6, <2>7 DEF SamePeers
<1> QED BY <1>1, <1>2

LEMMA CalloutPeers ==
  ASSUME HistOK, Typed(ev), Tied(ev, at), NEW i \in Kept
  PROVE  SamePeers(ev, ConnectCallout(i))
<1> DEFINE create == {c \in RecentCreate(i) : ev[c].consumer = {} /\ \A x \in ev[c].cancel : x > i}
           late == UNION {ev[c].cancel : c \in create}
           undone == [j \in DOMAIN ev |-> IF j \in late THEN [ev[j] EXCEPT !.owner = {}]
                                          ELSE IF j \in create THEN [ev[j] EXCEPT !.cancel = {}]
                                          ELSE ev[j]]
<1>1. CASE create = {}
  BY <1>1 DEF ConnectCallout, SamePeers
<1>2. CASE create # {}
  <2>1. PICK c \in create : c = Only(create)
    BY <1>2, OnlyFacts
  <2>2. create = {c}
    <3>1. KeptBefore(i, {"create"}, Key(i)) \in SUBSET Nat
      BY TraceFacts DEF KeptBefore, Of
    <3>2. \A a, b \in RecentCreate(i) : a = b
      BY <3>1, EndFacts DEF RecentCreate
    <3> QED BY <2>1, <3>2
  <2>3. ConnectCallout(i) = Linked(undone, i, Only(create))
    <3> HIDE DEF undone
    <3> QED BY <1>2 DEF ConnectCallout, undone
  <2>4. c \in Kept /\ c < i /\ \A x \in ev[c].cancel : x > i
    BY DEF RecentCreate, Latest, KeptBefore
  <2> HIDE DEF create
  <2>5. undone = Undone(ev, c)
    <3>1. late = ev[c].cancel
      BY <2>2
    <3> HIDE DEF late
    <3> QED BY <2>2, <3>1 DEF Undone
  <2> HIDE DEF undone
  <2>6. c \in Nat /\ i \in Nat /\ c # i /\ c \notin ev[c].cancel
    <3>1. c \in Nat /\ i \in Nat
      BY <2>4, TraceFacts
    <3> QED BY <2>4, <3>1
  <2>7. /\ Typed(Undone(ev, c))
        /\ \A j \in Times : /\ Undone(ev, c)[j].peer = ev[j].peer
                            /\ Undone(ev, c)[j].next = ev[j].next
                            /\ Undone(ev, c)[j].read = ev[j].read
    BY <2>4, <2>6, UndoneFacts
  <2>8. \A j \in Times : /\ Linked(Undone(ev, c), i, c)[j].peer = Undone(ev, c)[j].peer
                         /\ Linked(Undone(ev, c), i, c)[j].next = Undone(ev, c)[j].next
                         /\ Linked(Undone(ev, c), i, c)[j].read = Undone(ev, c)[j].read
    BY <2>4, <2>6, <2>7, LinkedFacts
  <2> QED BY <2>1, <2>3, <2>5, <2>7, <2>8 DEF SamePeers
<1> QED BY <1>1, <1>2

\* A turn of the messages pairs no trap, and continues an episode with the reply found for it.
LEMMA MessagePeers ==
  ASSUME HistOK, Typed(ev), NEW i \in Messages, Kind(i) \in Sends,
         NEW g, g = MatchMessage(i)
  PROVE  \A j \in Times :
           /\ g[j].peer = ev[j].peer /\ g[j].read = ev[j].read
           /\ \/ g[j].next = ev[j].next
              \/ /\ Kind(i) = "request" /\ j \in SearchRequest(i)
                 /\ \E p \in SearchReply(i, j) : g[j].next = {p}
<1>0. Times \subseteq Nat /\ Kept \subseteq Times /\ Messages \subseteq Kept /\ i \in Kept
  BY TraceFacts DEF Messages
<1> DEFINE recv == SearchRequest(i)
           reply == IF recv = {} THEN {} ELSE SearchReply(i, Only(recv))
           answer == IF reply = {} THEN {} ELSE SearchAnswer(i, Only(reply))
<1>1. g = IF ev[i].visited \/ Freed(i) THEN ev
          ELSE IF recv = {} THEN Visited(ev, {i})
          ELSE IF Local(i) = NoPort \/ reply = {} \/ answer = {} THEN Request2(i, Only(recv))
          ELSE Request4(i, Only(recv), Only(reply), Only(answer))
  BY DEF MatchMessage
<1>2. CASE g = ev
  BY <1>2
<1>3. CASE g = Visited(ev, {i})
  BY <1>0, <1>3, VisitedFacts
<1>4. CASE recv # {} /\ g = Request2(i, Only(recv))
  <2>1. PICK r \in SearchRequest(i) : r = Only(recv)
    BY <1>4, OnlyFacts
  <2> HIDE DEF recv, reply, answer
  <2>2. r \in Kept /\ r # i
    BY <1>0, SearchRequestFacts DEF Sends, Receives
  <2>3. g = Visited(Linked(ev, r, i), {i, r})
    BY <1>4, <2>1 DEF Request2
  <2>4. /\ Typed(Linked(ev, r, i))
        /\ \A j \in Times : /\ Linked(ev, r, i)[j].peer = ev[j].peer
                            /\ Linked(ev, r, i)[j].next = ev[j].next
                            /\ Linked(ev, r, i)[j].read = ev[j].read
    BY <1>0, <2>2, LinkedFacts
  <2> DEFINE l == Linked(ev, r, i)
  <2> HIDE DEF l
  <2>5. Typed(l) /\ \A j \in Times : l[j].peer = ev[j].peer /\ l[j].next = ev[j].next /\ l[j].read = ev[j].read
    BY <2>4 DEF l
  <2>6. g = Visited(l, {i, r}) /\ {i, r} \in SUBSET Kept
    BY <1>0, <2>2, <2>3 DEF l
  <2>7. \A j \in Times : g[j].peer = l[j].peer /\ g[j].next = l[j].next /\ g[j].read = l[j].read
    BY <2>5, <2>6, VisitedFacts
  <2> QED BY <2>5, <2>7
<1>5. CASE /\ recv # {} /\ ~(Local(i) = NoPort \/ reply = {} \/ answer = {})
           /\ g = Request4(i, Only(recv), Only(reply), Only(answer))
  <2>1. PICK r \in SearchRequest(i) : r = Only(recv)
    BY <1>5, OnlyFacts
  <2>2. PICK p \in SearchReply(i, r) : p = Only(reply)
    <3>1. reply = SearchReply(i, r) /\ reply # {}
      BY <1>5, <2>1
    <3> QED BY <3>1, OnlyFacts
  <2>3. PICK a \in SearchAnswer(i, p) : a = Only(answer)
    <3>1. answer = SearchAnswer(i, p) /\ answer # {}
      BY <1>5, <2>2
    <3> QED BY <3>1, OnlyFacts
  <2> HIDE DEF recv, reply, answer
  <2>4. Kind(i) = "request"
    BY <1>5 DEF Sends, Local
  <2>5. r \in Messages /\ r # i /\ p \in Messages /\ a \in Messages /\ a # p
    BY <2>4, SearchRequestFacts, SearchEpisodeFacts DEF Sends, Receives
  <2> DEFINE l == Linked(ev, r, i)
             k == Linked(l, a, p)
             h == [k EXCEPT ![r].next = {p}]
             S == {i, r, p, a}
  <2>6. g = Visited(h, S)
    BY <1>5, <2>1, <2>2, <2>3 DEF Request4
  <2>7. Typed(l) /\ \A j \in Times : l[j].peer = ev[j].peer /\ l[j].next = ev[j].next /\ l[j].read = ev[j].read
    BY <1>0, <2>5, LinkedFacts
  <2> HIDE DEF l
  <2>8. Typed(k) /\ \A j \in Times : k[j].peer = l[j].peer /\ k[j].next = l[j].next /\ k[j].read = l[j].read
    BY <1>0, <2>5, <2>7, LinkedFacts
  <2> HIDE DEF k
  <2>9. /\ Typed(h) /\ h[r].next = {p}
        /\ \A j \in Times : h[j].peer = k[j].peer /\ h[j].read = k[j].read /\ (j # r => h[j].next = k[j].next)
    <3>1. k \in [Times -> EventSet(Kept)] /\ r \in Times /\ ~history[r].lost /\ p \in Kept
      BY <1>0, <2>5, <2>8 DEF Typed, Kept
    <3>2. h = [j \in Times |-> IF j = r THEN [k[j] EXCEPT !.next = {p}] ELSE k[j]]
      BY <3>1
    <3>3. ASSUME NEW j \in Times
          PROVE  /\ h[j] \in EventSet(Kept)
                 /\ h[j].peer = k[j].peer /\ h[j].read = k[j].read
                 /\ (j # r => h[j].next = k[j].next) /\ (j = r => h[j].next = {p})
                 /\ history[j].lost => h[j] = k[j]
      <4>1. k[j] \in EventSet(Kept)
        BY <3>1
      <4>2. CASE j = r
        BY <3>1, <3>2, <4>1, <4>2 DEF EventSet
      <4>3. CASE j # r
        BY <3>2, <4>1, <4>3
      <4> QED BY <4>2, <4>3
    <3>4. h = [j \in Times |-> h[j]]
      BY <3>2
    <3> HIDE DEF h
    <3>5. h \in [Times -> EventSet(Kept)]
      BY <3>3, <3>4
    <3>6. Typed(h)
      BY <2>8, <3>3, <3>5 DEF Typed
    <3> QED BY <3>1, <3>3, <3>6
  <2>10. S \in SUBSET Kept
    BY <1>0, <2>5
  <2> HIDE DEF h, S
  <2>11. \A j \in Times : g[j].peer = h[j].peer /\ g[j].next = h[j].next /\ g[j].read = h[j].read
    BY <2>6, <2>9, <2>10, VisitedFacts
  <2> QED BY <2>4, <2>7, <2>8, <2>9, <2>11
<1> QED BY <1>1, <1>2, <1>3, <1>4, <1>5

\* Every other turn but that of the traps leaves them alone.
LEMMA TurnPeers ==
  ASSUME HistOK, Typed(ev), Tied(ev, at), NEW p \in Passes \ {"messages", "traps"}, NEW i \in Times, Turn(p, i)
  PROVE  SamePeers(ev, ev')
<1>1. i \in Left(p)
  BY DEF Turn, Earliest
<1>2. i \in Kept /\ Kind(i) \in Effects[p]
  BY <1>1 DEF Left
<1>3. CASE p = "dispatch"
  <2>1. Kind(i) = "inv" /\ ev' = ConnectInvoke(i)
    BY <1>2, <1>3, EffectsFacts DEF Turn
  <2> QED BY <2>1, NoBlockTied DEF SamePeers
<1>4. CASE p = "cancels"
  BY <1>2, <1>4, CancelPeers DEF Turn
<1>5. CASE p = "callouts"
  BY <1>2, <1>5, CalloutPeers DEF Turn
<1>6. CASE p = "animation"
  <2>1. Kind(i) = "display" /\ ev' = ConnectDisplay(i)
    BY <1>2, <1>6, EffectsFacts DEF Turn
  <2>2. PICK S : S = {s \in SetsBack(i) : Key(s) = Key(i) /\ ev[s].consumer = {}}
    OBVIOUS
  <2>3. \A j \in Times :
          /\ ConnectDisplay(i)[j].peer = ev[j].peer
          /\ ConnectDisplay(i)[j].next = ev[j].next
          /\ ConnectDisplay(i)[j].read = ev[j].read
    BY <1>2, <2>1, <2>2, ConnectDisplayFacts
  <2> QED BY <2>1, <2>3 DEF SamePeers
<1>7. CASE p \in {"loop", "wakeups"}
  <2>1. PICK kinds : ev' = Connected(i, Latest(KeptBefore(i, kinds, Key(i))))
    BY <1>7 DEF Turn, ConnectLoop, ConnectMkrun
  <2>2. \A c \in Latest(KeptBefore(i, kinds, Key(i))) : c \in Kept /\ c < i
    BY DEF Latest, KeptBefore
  <2> QED BY <1>2, <2>1, <2>2, ConnectedPeers
<1> QED BY <1>3, <1>4, <1>5, <1>6, <1>7 DEF Passes

LEMMA CallsFixed ==
  ASSUME history' = history, family' = family
  PROVE  /\ CallsInv' <=> CallsInv
         /\ \A i, r : FromKernel(r)' <=> FromKernel(r)
         /\ \A i : ReplyName(i)' = ReplyName(i)
<1>1. Times' = Times /\ \A i : Rec(i)' = Rec(i) /\ Kind(i)' = Kind(i) /\ Key(i)' = Key(i)
  BY TraceFixed
<1>2. \A kinds, k : Of(kinds, k)' = Of(kinds, k)
  BY <1>1 DEF Of
<1>3. \A j, kinds : Followed(j, kinds)' <=> Followed(j, kinds)
  BY <1>1 DEF Followed
<1>4. \A k, kinds, by : Open(k, kinds, by)' = Open(k, kinds, by)
  BY <1>2, <1>3 DEF Open
<1>5. \A k : CallOpen(k)' = CallOpen(k)
  BY <1>4 DEF CallOpen
<1>6. \A k : OneCall(k)' <=> OneCall(k)
  BY <1>1, <1>2, <1>5 DEF OneCall
<1>7. \A k : CallOrder(k)' <=> CallOrder(k)
  BY <1>2, <1>4 DEF CallOrder
<1>8. CallsInv' <=> CallsInv
  BY <1>6, <1>7 DEF CallsInv
<1>9. \A r : FromKernel(r)' <=> FromKernel(r)
  BY <1>1 DEF FromKernel
<1>10. \A i : Requests(i)' = Requests(i)
  BY <1>1, <1>2 DEF Requests
<1>11. \A i : ReplyName(i)' = ReplyName(i)
  BY <1>1, <1>10 DEF ReplyName
<1> QED BY <1>8, <1>9, <1>11

LEMMA RecordCalls ==
  ASSUME HistOK, Typed(ev), CallsInv, NEW e \in family.inputs, NEW lost \in BOOLEAN, Record(e, lost)
  PROVE  CallsInv'
<1> SUFFICES ASSUME NEW k \in Nat PROVE OneCall(k)' /\ CallOrder(k)'
  BY DEF CallsInv
<1>1. OneCall(k) /\ CallOrder(k)
  BY DEF CallsInv
<1>2. CASE e.kind \in CallKinds /\ e.key = k
  BY <1>1, <1>2, CallRecord
<1>3. CASE ~(e.kind \in CallKinds /\ e.key = k)
  BY <1>1, <1>3, OtherRecord
<1> QED BY <1>2, <1>3

\* The pair that an episode continues with agrees on the name of the port.
LEMMA EpisodeName ==
  ASSUME HistOK, NEW i \in Messages, Kind(i) = "request", NEW r \in SearchRequest(i), NEW p \in SearchReply(i, r)
  PROVE  Kind(r) = "receive" /\ Kind(p) = "reply" /\ Key(p) = Key(r) /\ (FromKernel(p) \/ ReplyName(p) = ReplyName(r))
<1>1. r \in Messages /\ CauseOK(r, i)
  BY SearchRequestFacts DEF Sends
<1>2. Kind(r) = "receive" /\ Key(r) = Key(i)
  BY <1>1, CauseKindsFacts DEF CauseOK
<1>3. Kind(p) = "reply" /\ Key(p) = Key(i)
  BY <1>1, SearchEpisodeFacts
<1>4. RName(p) = IF FromKernel(p) THEN LName(i) ELSE LName(r)
  BY DEF SearchReply, Earliest
<1>5. LName(r) = ReplyName(r)
  BY <1>2 DEF LName
<1>6. ~FromKernel(p) => RName(p) = ReplyName(p)
  BY <1>3 DEF RName
<1> QED BY <1>2, <1>3, <1>4, <1>5, <1>6

LEMMA NextFromTrace == IInv /\ phase = "trace" => NextInv
<1> SUFFICES ASSUME IInv, phase = "trace", NEW i \in Kept PROVE ev[i].next = {}
  BY DEF NextInv
<1>1. ev[i] = NewEvent
  BY TraceFacts DEF IInv
<1> QED BY <1>1, NewEventFacts

\* A step that continues no other episode.
LEMMA NextAlike ==
  ASSUME HistOK, NextInv, history' = history, family' = family, \A j \in Times : ev'[j].next = ev[j].next
  PROVE  NextInv'
<1>1. Kept' = Kept /\ Kept \subseteq Times /\ \A i : Kind(i)' = Kind(i) /\ Key(i)' = Key(i)
  BY TraceFixed, TraceFacts
<1>2. \A r : FromKernel(r)' <=> FromKernel(r)
  BY CallsFixed
<1>3. \A i : ReplyName(i)' = ReplyName(i)
  BY CallsFixed
<1> QED BY <1>1, <1>2, <1>3 DEF NextInv

LEMMA CallsStep == IInv /\ CallsInv /\ NextInv /\ [Next]_vars => CallsInv' /\ NextInv'
<1> SUFFICES ASSUME IInv, CallsInv, NextInv, [Next]_vars PROVE CallsInv' /\ NextInv'
  OBVIOUS
<1>0. HistOK /\ Typed(ev) /\ IInv'
  BY NextIInv DEF IInv
<1>1. ASSUME NEW e \in family.inputs, NEW lost \in BOOLEAN, Record(e, lost) PROVE CallsInv' /\ NextInv'
  <2>1. CallsInv'
    BY <1>0, <1>1, RecordCalls
  <2>2. phase' = "trace"
    BY <1>1 DEF Record
  <2>3. (IInv /\ phase = "trace" => NextInv)'
    BY NextFromTrace, PTL
  <2> QED BY <1>0, <2>1, <2>2, <2>3
<1>2. ASSUME history' = history, family' = family PROVE CallsInv'
  BY <1>2, CallsFixed
<1>3. ASSUME NEW p \in Passes, NEW i \in Times, Turn(p, i) PROVE CallsInv' /\ NextInv'
  <2>1. history' = history /\ family' = family /\ Tied(ev, at) /\ WritesOK
    BY <1>3 DEF Turn, IInv
  <2>2. CASE p \notin {"messages", "traps"}
    <3>1. SamePeers(ev, ev')
      BY <1>0, <1>3, <2>1, <2>2, TurnPeers
    <3>2. \A j \in Times : ev'[j].next = ev[j].next
      BY <3>1 DEF SamePeers
    <3> QED BY <1>0, <1>2, <2>1, <3>2, NextAlike
  <2>3. CASE p = "traps"
    <3>1. ev' = ConnectTrap(i) /\ i \in Kept /\ Kind(i) = "trap"
      BY <1>3, <2>3, EffectsFacts DEF Turn, Earliest, Left
    <3>2. SameTies(ev, ConnectTrap(i))
      BY <1>0, <2>1, <3>1, TrapTurn
    <3>3. \A j \in Times : ev'[j].next = ev[j].next
      BY <3>1, <3>2 DEF SameTies
    <3> QED BY <1>0, <1>2, <2>1, <3>3, NextAlike
  <2>4. CASE p = "messages"
    <3>1. ev' = MatchMessage(i) /\ i \in Messages /\ Kind(i) \in Sends
      BY <1>3, <2>4, EffectsFacts DEF Turn, Earliest, Left, Messages
    <3>2. \A j \in Times : \/ ev'[j].next = ev[j].next
                           \/ /\ Kind(i) = "request" /\ j \in SearchRequest(i)
                              /\ \E r \in SearchReply(i, j) : ev'[j].next = {r}
      BY <1>0, <3>1, MessagePeers
    <3>3. Kept' = Kept /\ Kept \subseteq Times /\ \A j : Kind(j)' = Kind(j) /\ Key(j)' = Key(j)
      BY <1>0, <2>1, TraceFixed, TraceFacts
    <3>4. /\ \A r : FromKernel(r)' <=> FromKernel(r)
          /\ \A j : ReplyName(j)' = ReplyName(j)
      BY <2>1, CallsFixed
    <3>5. ASSUME NEW j \in Kept, NEW r \in ev'[j].next
          PROVE  /\ Kind(j) = "receive" /\ Kind(r) = "reply" /\ Key(r) = Key(j)
                 /\ FromKernel(r) \/ ReplyName(r) = ReplyName(j)
      <4>1. CASE ev'[j].next = ev[j].next
        BY <3>5, <4>1 DEF NextInv
      <4>2. CASE Kind(i) = "request" /\ j \in SearchRequest(i) /\ \E s \in SearchReply(i, j) : ev'[j].next = {s}
        <5>1. r \in SearchReply(i, j)
          BY <3>5, <4>2
        <5> QED BY <1>0, <3>1, <4>2, <5>1, EpisodeName
      <4> QED BY <3>2, <3>3, <4>1, <4>2
    <3>6. NextInv'
      BY <3>3, <3>4, <3>5 DEF NextInv
    <3> QED BY <1>2, <2>1, <3>6
  <2> QED BY <2>2, <2>3, <2>4
<1>4. CASE EndTrace \/ LeaveLoop \/ Abort \/ Join \/ Over \/ UNCHANGED vars
  <2>1. history' = history /\ family' = family /\ ev' = ev
    BY <1>4 DEF EndTrace, LeaveLoop, Abort, Join, Over, vars
  <2>2. NextInv'
    BY <1>0, <2>1, NextAlike
  <2> QED BY <1>2, <2>1, <2>2
<1> QED BY <1>1, <1>3, <1>4 DEF Next

LEMMA CallsInit == Init => CallsInv /\ NextInv
<1> SUFFICES ASSUME Init PROVE CallsInv /\ NextInv
  OBVIOUS
<1>1. Times = {} /\ IInv /\ phase = "trace"
  BY InitIInv DEF Init, Times
<1>2. NextInv
  BY <1>1, NextFromTrace
<1>3. \A kinds, k : Of(kinds, k) = {}
  BY <1>1 DEF Of
<1>4. ASSUME NEW k \in Nat PROVE OneCall(k) /\ CallOrder(k)
  <2>1. CallOpen(k) = {} /\ Open(k, {"request"}, {"receive"}) = {} /\ Open(k, {"receive"}, {"reply"}) = {}
    BY <1>3 DEF CallOpen, Open
  <2> QED BY <1>3, <2>1 DEF OneCall, CallOrder
<1> QED BY <1>2, <1>4 DEF CallsInv

\* Two receives of a thread with as many requests before them are one.
LEMMA ReceiveOfRequest ==
  ASSUME HistOK, NEW k, CallOrder(k), NEW y \in Of({"receive"}, k), NEW z \in Of({"receive"}, k),
         Requests(y) = Requests(z)
  PROVE  y = z
<1>0. y \in Nat /\ z \in Nat /\ Key(y) = k /\ Key(z) = k /\ \A j \in Of({"request"}, k) : j \in Nat
  BY TraceFacts DEF Of
<1>1. ASSUME NEW a \in Of({"receive"}, k), NEW b \in Of({"receive"}, k), a < b PROVE Requests(a) # Requests(b)
  <2>1. PICK x \in Of({"request"}, k) : a < x /\ x < b
    BY <1>1 DEF CallOrder
  <2> DEFINE A == {j \in Of({"request"}, k) : j <= a}
             B == {j \in Of({"request"}, k) : j <= b}
  <2>2. a \in Nat /\ b \in Nat /\ Key(a) = k /\ Key(b) = k
    BY TraceFacts DEF Of
  <2>3. Requests(a) = Cardinality(A) /\ Requests(b) = Cardinality(B)
    BY <2>2 DEF Requests
  <2>4. IsFiniteSet(B) /\ A \subseteq B /\ x \in B /\ x \notin A
    <3>1. B \subseteq Of({"request"}, k) /\ IsFiniteSet(Of({"request"}, k))
      BY CallSetsFinite
    <3>2. ASSUME NEW j \in A PROVE j \in B
      <4>1. j \in Nat /\ j <= a
        BY <1>0
      <4>2. j <= b
        BY <4>1, <1>1, <2>2
      <4> QED BY <4>2
    <3>3. x \in B /\ x \notin A
      BY <1>0, <2>1, <2>2
    <3> QED BY <3>1, <3>2, <3>3, FS_Subset
  <2>5. Cardinality(A) < Cardinality(B) /\ Cardinality(A) \in Nat /\ Cardinality(B) \in Nat
    <3> HIDE DEF A, B
    <3>1. A \in SUBSET B /\ A # B
      BY <2>4
    <3>2. Cardinality(A) \in Nat /\ Cardinality(B) \in Nat /\ IsFiniteSet(A)
      BY <2>4, FS_Subset, FS_CardinalityType
    <3>3. Cardinality(A) <= Cardinality(B) /\ (Cardinality(A) = Cardinality(B) => A = B)
      BY <2>4, <3>1, FS_Subset
    <3> QED BY <3>1, <3>2, <3>3
  <2> QED BY <2>3, <2>5
<1>2. y < z \/ y = z \/ z < y
  BY <1>0
<1> QED BY <1>1, <1>2

LEMMA CallsImply == IInv /\ CallsInv /\ NextInv => EpisodesAreOfOneRequest
<1> SUFFICES ASSUME IInv, CallsInv, NextInv, family.fresh, NEW i \in Kept, NEW r \in ev[i].next, ~FromKernel(r)
    PROVE  history[r].causes = {i}
  BY DEF EpisodesAreOfOneRequest
<1>0. HistOK /\ Typed(ev) /\ Kept \subseteq Times
  BY TraceFacts DEF IInv
<1>1. Kind(i) = "receive" /\ Kind(r) = "reply" /\ Key(r) = Key(i) /\ ReplyName(r) = ReplyName(i)
  BY DEF NextInv
<1>2. r \in Times /\ i \in Times /\ Key(i) \in Nat
  BY <1>0, TraceFacts DEF Typed, EventSet
<1> DEFINE k == Key(i)
<1>3. i \in Of({"receive"}, k) /\ r \in Of({"reply"}, k) /\ CallOrder(k)
  BY <1>1, <1>2 DEF Of, CallsInv
<1>4. Requests(r) = Requests(i)
  BY <1>1 DEF ReplyName
<1>5. PICK v \in Of({"receive"}, k) :
        history[r].causes = {v} /\ v < r /\ \A x \in Of({"request"}, k) : x < v \/ r < x
  BY <1>3 DEF CallOrder
<1>6. Requests(v) = Requests(r)
  <2>1. Key(v) = k /\ Key(r) = k /\ v \in Nat /\ r \in Nat /\ \A x \in Of({"request"}, k) : x \in Nat
    BY <1>0, <1>1, <1>2, TraceFacts DEF Of
  <2>2. ASSUME NEW x \in Of({"request"}, k) PROVE x <= v <=> x <= r
    <3>1. (x < v \/ r < x) /\ v < r
      BY <1>5
    <3>2. x \in Nat /\ v \in Nat /\ r \in Nat
      BY <2>1
    <3> HIDE DEF k
    <3> QED BY <3>1, <3>2
  <2> HIDE DEF k
  <2>3. {j \in Of({"request"}, k) : j <= v} = {j \in Of({"request"}, k) : j <= r}
    BY <2>2
  <2> QED BY <2>1, <2>3 DEF Requests
<1>7. v = i
  BY <1>0, <1>3, <1>4, <1>6, ReceiveOfRequest
<1> QED BY <1>5, <1>7

\* Whatever was lost: where the server names the reply port anew for each request, an episode is
\* continued with the reply to its own request.
THEOREM EpisodesHold == Spec => []EpisodesAreOfOneRequest
<1>1. Spec => [](CallsInv /\ NextInv)
  <2>1. Init => CallsInv /\ NextInv
    BY CallsInit
  <2>2. IInv /\ (CallsInv /\ NextInv) /\ [Next]_vars => (CallsInv /\ NextInv)'
    BY CallsStep
  <2> QED BY <2>1, <2>2, InvariantHolds, PTL DEF Spec
<1> QED BY <1>1, InvariantHolds, CallsImply, PTL


-----------------------------------------------------------------------------
(* Reads and writes.  The kernel side first: which writes of a variable no *)
(* read has answered up to a record, and that a trap has the causes that   *)
(* were due when it was recorded.                                          *)

UnreadUpTo(m, v) == {j \in WritesOf(v) : j <= m /\ \A r \in ReadsOf(v) : r <= m => j \notin history[r].causes}

Targets(i) == Rec(i).targets
TrapsBefore(i) == {j \in Traps : j < i}

\* A flipping variable flips; a read answers the earliest write that is unread.
TrapHist ==
  \A i \in Traps :
    /\ \A v \in DOMAIN Targets(i) \ QueueVars : Targets(i)[v] # ValueAt(v, TrapsBefore(i))
    /\ history[i].causes = UNION {Earliest(UnreadUpTo(i - 1, v)) : v \in {w \in DOMAIN Targets(i) : Targets(i)[w] = 0}}

LEMMA TrapFacts ==
  ASSUME HistOK, NEW i \in Traps
  PROVE  /\ i \in Times /\ i \in Nat
         /\ \A v \in DOMAIN Targets(i) : v \in Nat /\ Targets(i)[v] \in {0, 1}
<1>1. i \in Times /\ i \in Nat /\ Kind(i) = "trap" /\ Rec(i) \in family.inputs /\ InputsOK(family.inputs)
  BY TraceFacts DEF Traps
<1> QED BY <1>1 DEF InputsOK, Targets, Kind

\* What ValueAt looks up is the value of a trap.
LEMMA ValueFacts ==
  ASSUME HistOK, NEW S \in SUBSET Times, NEW v, {j \in S : v \in DOMAIN Targets(j)} # {}
  PROVE  \E m \in S : v \in DOMAIN Targets(m) /\ Max({j \in S : v \in DOMAIN Targets(j)}) = m
<1> DEFINE of == {j \in S : v \in DOMAIN Targets(j)}
<1>1. of \in SUBSET (0 .. Len(history)) /\ Len(history) \in Nat /\ of # {}
  BY TraceFacts
<1> HIDE DEF of
<1>2. PICK m \in of : \A j \in of : j <= m
  BY <1>1, MaxExists
<1>3. \E x \in of : \A y \in of : x >= y
  <2>1. \A y \in of : m >= y
    BY <1>1, <1>2
  <2> QED BY <2>1
<1>4. Max(of) \in of
  BY <1>3 DEF Max
<1> QED BY <1>4 DEF of

LEMMA ValueBinary ==
  ASSUME HistOK, NEW S \in SUBSET Traps, NEW v
  PROVE  ValueAt(v, S) \in {0, 1}
<1> DEFINE of == {j \in S : v \in DOMAIN Targets(j)}
<1>1. ValueAt(v, S) = IF of = {} THEN 0 ELSE Targets(Max(of))[v]
  BY DEF ValueAt, Targets
<1>2. CASE of # {}
  <2>1. S \in SUBSET Times
    BY DEF Traps
  <2>2. PICK m \in S : v \in DOMAIN Targets(m) /\ Max(of) = m
    BY <1>2, <2>1, ValueFacts
  <2> HIDE DEF of
  <2> QED BY <1>1, <1>2, <2>2, TrapFacts
<1> HIDE DEF of
<1> QED BY <1>1, <1>2

\* What was due to a record depends on the records before it only.
LEMMA UnreadAfter ==
  ASSUME HistOK, Typed(ev), NEW e \in family.inputs, NEW lost \in BOOLEAN, Record(e, lost),
         NEW n, n = Len(history) + 1
  PROVE  /\ Traps' = Traps \cup (IF e.kind = "trap" THEN {n} ELSE {})
         /\ n \in Nat /\ \A j \in Times : j < n /\ j \in Nat
         /\ \A j \in Times : Targets(j)' = Targets(j) /\ history'[j] = history[j]
         /\ Targets(n)' = e.targets /\ history'[n].causes = CausesOf(e)
         /\ \A m \in 0 .. Len(history) : \A v : UnreadUpTo(m, v)' = UnreadUpTo(m, v)
         /\ \A v : Unread(v) = UnreadUpTo(Len(history), v)
         /\ \A S \in SUBSET Times : \A v : ValueAt(v, S)' = ValueAt(v, S)
<1>1. /\ n \in Nat /\ n \notin Times /\ \A j \in Times : j < n /\ j \in Nat
      /\ Times' = Times \cup {n}
      /\ \A j \in Times : Rec(j)' = Rec(j) /\ Kind(j)' = Kind(j) /\ history'[j] = history[j]
      /\ Rec(n)' = e /\ Kind(n)' = e.kind /\ history'[n].causes = CausesOf(e)
  BY OfAfter
<1>2. Len(history) \in Nat /\ \A j \in Times : j \in Nat /\ j <= Len(history)
  BY TraceFacts
<1>3. Traps' = Traps \cup (IF e.kind = "trap" THEN {n} ELSE {})
  <2>1. Traps' = {j \in Times' : Kind(j)' = "trap"}
    BY DEF Traps
  <2>2. Traps' = {j \in Times : Kind(j)' = "trap"} \cup {j \in {n} : Kind(j)' = "trap"}
    BY <1>1, <2>1
  <2>3. {j \in Times : Kind(j)' = "trap"} = Traps
    BY <1>1 DEF Traps
  <2>4. {j \in {n} : Kind(j)' = "trap"} = IF e.kind = "trap" THEN {n} ELSE {}
    BY <1>1
  <2> QED BY <2>2, <2>3, <2>4
<1>4. \A j \in Times : Targets(j)' = Targets(j)
  BY <1>1 DEF Targets
<1>5. Targets(n)' = e.targets
  BY <1>1 DEF Targets
<1>6. ASSUME NEW CONSTANT m \in 0 .. Len(history), NEW CONSTANT v, NEW CONSTANT j, j <= m
      PROVE  /\ j \in WritesOf(v)' <=> j \in WritesOf(v)
             /\ j \in ReadsOf(v)' <=> j \in ReadsOf(v)
  <2>1. j # n
    BY <1>1, <1>2, <1>6
  <2>2. j \in Traps' <=> j \in Traps
    BY <1>3, <2>1
  <2>3. j \in Traps => Rec(j)' = Rec(j)
    BY <1>1 DEF Traps
  <2> QED BY <2>2, <2>3 DEF WritesOf, ReadsOf
<1>7. \A v : WritesOf(v) \subseteq Times /\ ReadsOf(v) \subseteq Times
  BY DEF WritesOf, ReadsOf, Traps
<1>8. ASSUME NEW CONSTANT m \in 0 .. Len(history), NEW CONSTANT v PROVE UnreadUpTo(m, v)' = UnreadUpTo(m, v)
  <2>1. \A j : j \in UnreadUpTo(m, v)' <=>
           j \in WritesOf(v)' /\ j <= m /\ \A r \in ReadsOf(v)' : r <= m => j \notin history'[r].causes
    BY DEF UnreadUpTo
  <2>2. \A j : j \in UnreadUpTo(m, v) <=>
           j \in WritesOf(v) /\ j <= m /\ \A r \in ReadsOf(v) : r <= m => j \notin history[r].causes
    BY DEF UnreadUpTo
  <2>3. \A r : r <= m => (r \in ReadsOf(v)' <=> r \in ReadsOf(v)) /\ (r \in WritesOf(v)' <=> r \in WritesOf(v))
    BY <1>6
  <2>4. \A r \in ReadsOf(v) : history'[r] = history[r]
    BY <1>1, <1>7
  <2> QED BY <2>1, <2>2, <2>3, <2>4
<1>9. ASSUME NEW v PROVE Unread(v) = UnreadUpTo(Len(history), v)
  BY <1>2, <1>7 DEF Unread, UnreadUpTo
<1>10. ASSUME NEW CONSTANT S \in SUBSET Times, NEW CONSTANT v PROVE ValueAt(v, S)' = ValueAt(v, S)
  <2> DEFINE of == {j \in S : v \in DOMAIN Targets(j)}
  <2>1. ValueAt(v, S) = IF of = {} THEN 0 ELSE Targets(Max(of))[v]
    BY DEF ValueAt, Targets
  <2>2. ValueAt(v, S)' = IF of' = {} THEN 0 ELSE Targets(Max(of))'[v]
    BY DEF ValueAt, Targets
  <2>3. of' = of
    BY <1>4
  <2>4. of # {} => Max(of) \in Times
    BY ValueFacts
  <2>5. of # {} => Targets(Max(of))' = Targets(Max(of))
    <3>1. PICK m : m = Max(of)
      OBVIOUS
    <3>2. Max(of') = Max(of)
      BY <2>3
    <3>3. Targets(Max(of))' = Targets(m)'
      BY <3>1, <3>2 DEF Targets
    <3> HIDE DEF of
    <3> QED BY <1>4, <2>4, <3>1, <3>3
  <2> HIDE DEF of
  <2> QED BY <2>1, <2>2, <2>3, <2>5
<1> QED BY <1>1, <1>3, <1>4, <1>5, <1>8, <1>9, <1>10


LEMMA RecordTraps ==
  ASSUME HistOK, Typed(ev), TrapHist, NEW e \in family.inputs, NEW lost \in BOOLEAN, Record(e, lost)
  PROVE  TrapHist'
<1> PICK n : n = Len(history) + 1
  OBVIOUS
<1>1. /\ Traps' = Traps \cup (IF e.kind = "trap" THEN {n} ELSE {})
      /\ n \in Nat /\ \A j \in Times : j < n /\ j \in Nat
      /\ \A j \in Times : Targets(j)' = Targets(j) /\ history'[j] = history[j]
      /\ Targets(n)' = e.targets /\ history'[n].causes = CausesOf(e)
      /\ \A m \in 0 .. Len(history) : \A v : UnreadUpTo(m, v)' = UnreadUpTo(m, v)
      /\ \A v : Unread(v) = UnreadUpTo(Len(history), v)
      /\ \A S \in SUBSET Times : \A v : ValueAt(v, S)' = ValueAt(v, S)
  BY UnreadAfter
<1>2. Len(history) \in Nat /\ Times = 1 .. Len(history) /\ Traps \subseteq Times
  BY TraceFacts DEF Traps
<1> SUFFICES ASSUME NEW i \in Traps'
    PROVE  /\ \A v \in DOMAIN Targets(i)' \ QueueVars : Targets(i)'[v] # ValueAt(v, TrapsBefore(i))'
           /\ history'[i].causes = UNION {Earliest(UnreadUpTo(i - 1, v)') : v \in {w \in DOMAIN Targets(i)' : Targets(i)'[w] = 0}}
  BY DEF TrapHist, Earliest
<1>3. CASE i \in Traps
  <2>1. Targets(i)' = Targets(i) /\ history'[i] = history[i] /\ i \in Times /\ i - 1 \in 0 .. Len(history)
    BY <1>1, <1>2, <1>3
  <2>2. TrapsBefore(i)' = TrapsBefore(i) /\ TrapsBefore(i) \in SUBSET Times
    <3>1. n \notin Times /\ ~(n < i)
      BY <1>1, <2>1
    <3> QED BY <1>1, <1>2, <3>1 DEF TrapsBefore
  <2>3. ASSUME NEW v PROVE ValueAt(v, TrapsBefore(i))' = ValueAt(v, TrapsBefore(i))
    <3> PICK S : S = TrapsBefore(i)
      OBVIOUS
    <3>1. ValueAt(v, TrapsBefore(i))' = ValueAt(v, S)'
      BY <2>2 DEF ValueAt
    <3> QED BY <1>1, <2>2, <3>1
  <2>4. ASSUME NEW v PROVE UnreadUpTo(i - 1, v)' = UnreadUpTo(i - 1, v)
    BY <1>1, <2>1
  <2>5. /\ \A v \in DOMAIN Targets(i) \ QueueVars : Targets(i)[v] # ValueAt(v, TrapsBefore(i))
        /\ history[i].causes = UNION {Earliest(UnreadUpTo(i - 1, v)) : v \in {w \in DOMAIN Targets(i) : Targets(i)[w] = 0}}
    BY <1>3 DEF TrapHist
  <2> QED BY <2>1, <2>3, <2>4, <2>5
<1>4. CASE i = n /\ e.kind = "trap"
  <2>1. May(e) /\ Targets(i)' = e.targets /\ history'[i].causes = CausesOf(e)
    BY <1>1, <1>4 DEF Record
  <2>2. TrapsBefore(i)' = Traps /\ Traps \in SUBSET Times
    <3>1. TrapsBefore(i)' = {j \in Traps' : j < i}
      BY DEF TrapsBefore
    <3>2. Traps' = Traps \cup {i} /\ ~(i < i)
      BY <1>1, <1>4
    <3>3. \A j \in Traps : j < i
      BY <1>1, <1>2, <1>4
    <3> QED BY <1>2, <3>1, <3>2, <3>3
  <2>3. ASSUME NEW v PROVE ValueAt(v, TrapsBefore(i))' = ValueAt(v, Traps)
    <3> PICK S : S = Traps
      OBVIOUS
    <3>1. ValueAt(v, TrapsBefore(i))' = ValueAt(v, S)'
      BY <2>2 DEF ValueAt
    <3> QED BY <1>1, <2>2, <3>1
  <2>4. \A v \in DOMAIN e.targets \ QueueVars : e.targets[v] # ValueAt(v, Traps)
    BY <1>4, <2>1 DEF May
  <2>5. CausesOf(e) = UNION {Earliest(Unread(v)) : v \in {w \in DOMAIN e.targets : e.targets[w] = 0}}
    BY <1>4 DEF CausesOf
  <2>6. ASSUME NEW v PROVE Unread(v) = UnreadUpTo(i - 1, v)'
    <3>1. i - 1 = Len(history)
      BY <1>2, <1>4
    <3> QED BY <1>1, <1>2, <3>1
  <2>7. \A v : Earliest(Unread(v)) = Earliest(UnreadUpTo(i - 1, v)')
    BY <2>6
  <2> QED BY <2>1, <2>3, <2>4, <2>5, <2>7
<1> QED BY <1>1, <1>3, <1>4

LEMMA TrapsFixed ==
  ASSUME history' = history, family' = family
  PROVE  /\ Traps' = Traps /\ \A i : Targets(i)' = Targets(i)
         /\ \A m, v : UnreadUpTo(m, v)' = UnreadUpTo(m, v)
         /\ TrapHist' <=> TrapHist
<1>1. Times' = Times /\ \A i : Rec(i)' = Rec(i) /\ Kind(i)' = Kind(i)
  BY TraceFixed
<1>2. Traps' = Traps /\ \A i : Targets(i)' = Targets(i)
  BY <1>1 DEF Traps, Targets
<1>3. \A v : WritesOf(v)' = WritesOf(v) /\ ReadsOf(v)' = ReadsOf(v)
  BY <1>1, <1>2 DEF WritesOf, ReadsOf
<1>4. \A m, v : UnreadUpTo(m, v)' = UnreadUpTo(m, v)
  BY <1>3 DEF UnreadUpTo
<1>5. \A i : TrapsBefore(i)' = TrapsBefore(i)
  BY <1>2 DEF TrapsBefore
<1>6. \A v, i : ValueAt(v, TrapsBefore(i))' = ValueAt(v, TrapsBefore(i))
  BY <1>1, <1>5 DEF ValueAt
<1>7. TrapHist' <=> TrapHist
  BY <1>2, <1>4, <1>6 DEF TrapHist, Earliest
<1> QED BY <1>2, <1>4, <1>7

-----------------------------------------------------------------------------
(* The list of the writes of a variable that no read took, in order.       *)

InOrder(s, S) ==
  /\ \A k, l \in DOMAIN s : k < l => s[k] < s[l]
  /\ \A x : x \in S <=> \E k \in DOMAIN s : s[k] = x

LEMMA InOrderAppend ==
  ASSUME NEW T \in SUBSET Nat, NEW s \in Seq(T), NEW S, InOrder(s, S), NEW i \in T, \A x \in S : x < i
  PROVE  InOrder(Append(s, i), S \cup {i})
<1> DEFINE t == Append(s, i)
<1>1. /\ Len(s) \in Nat /\ DOMAIN s = 1 .. Len(s) /\ \A k \in DOMAIN s : s[k] \in T /\ s[k] \in Nat
      /\ DOMAIN t = 1 .. Len(s) + 1 /\ t[Len(s) + 1] = i /\ \A k \in 1 .. Len(s) : t[k] = s[k]
  <2>1. Len(s) \in Nat /\ DOMAIN s = 1 .. Len(s) /\ \A k \in DOMAIN s : s[k] \in T
    OBVIOUS
  <2>2. t \in Seq(T) /\ Len(t) = Len(s) + 1 /\ t[Len(s) + 1] = i /\ \A k \in 1 .. Len(s) : t[k] = s[k]
    BY AppendProperties
  <2>3. DOMAIN t = 1 .. Len(t)
    BY <2>2
  <2> QED BY <2>1, <2>2, <2>3
<1>2. \A k \in DOMAIN s : s[k] < i
  BY DEF InOrder
<1> HIDE DEF t
<1>3. ASSUME NEW k \in DOMAIN t, NEW l \in DOMAIN t, k < l PROVE t[k] < t[l]
  <2>1. k \in DOMAIN s /\ t[k] = s[k]
    BY <1>1, <1>3
  <2>2. CASE l = Len(s) + 1
    BY <1>1, <1>2, <2>1, <2>2
  <2>3. CASE l # Len(s) + 1
    <3>1. l \in DOMAIN s /\ t[l] = s[l]
      BY <1>1, <2>3
    <3> QED BY <1>3, <2>1, <3>1 DEF InOrder
  <2> QED BY <2>2, <2>3
<1>4. ASSUME NEW x PROVE x \in S \cup {i} <=> \E k \in DOMAIN t : t[k] = x
  <2>1. x \in S => \E k \in DOMAIN t : t[k] = x
    BY <1>1 DEF InOrder
  <2>2. x = i => \E k \in DOMAIN t : t[k] = x
    BY <1>1
  <2>3. ASSUME NEW k \in DOMAIN t, t[k] = x PROVE x \in S \cup {i}
    <3>1. CASE k = Len(s) + 1
      BY <1>1, <2>3, <3>1
    <3>2. CASE k # Len(s) + 1
      <4>1. k \in DOMAIN s /\ t[k] = s[k]
        BY <1>1, <3>2
      <4> QED BY <2>3, <4>1 DEF InOrder
    <3> QED BY <3>1, <3>2
  <2> QED BY <2>1, <2>2, <2>3
<1> QED BY <1>3, <1>4 DEF InOrder, t

LEMMA InOrderTail ==
  ASSUME NEW T \in SUBSET Nat, NEW s \in Seq(T), NEW S, InOrder(s, S), s # <<>>
  PROVE  Head(s) \in S /\ Earliest(S) = {Head(s)} /\ InOrder(Tail(s), S \ {Head(s)})
<1> DEFINE t == Tail(s)
           h == Head(s)
<1>1. /\ Len(s) \in Nat /\ Len(s) >= 1 /\ DOMAIN s = 1 .. Len(s) /\ \A k \in DOMAIN s : s[k] \in Nat
      /\ h = s[1] /\ DOMAIN t = 1 .. Len(s) - 1 /\ \A k \in 1 .. Len(s) - 1 : t[k] = s[k + 1]
  <2>1. Len(s) \in Nat /\ DOMAIN s = 1 .. Len(s) /\ \A k \in DOMAIN s : s[k] \in Nat
    <3>1. Len(s) \in Nat /\ DOMAIN s = 1 .. Len(s)
      BY LenProperties
    <3>2. \A k \in 1 .. Len(s) : s[k] \in T
      BY ElementOfSeq
    <3> QED BY <3>1, <3>2
  <2>2. Len(s) >= 1 /\ h = s[1]
    BY <2>1, EmptySeq
  <2>3. t \in Seq(T) /\ Len(t) = Len(s) - 1 /\ \A k \in 1 .. Len(t) : t[k] = s[k + 1]
    BY HeadTailProperties
  <2>4. DOMAIN t = 1 .. Len(t)
    BY <2>3
  <2> QED BY <2>1, <2>2, <2>3, <2>4
<1> HIDE DEF t, h
<1>2. 1 \in DOMAIN s /\ \A k \in DOMAIN s : k # 1 => h < s[k]
  BY <1>1 DEF InOrder
<1>3. h \in S /\ h \in Nat /\ S \subseteq Nat
  BY <1>1, <1>2 DEF InOrder
<1>4. \A x \in S : h <= x
  BY <1>1, <1>2, <1>3 DEF InOrder
<1>5. Earliest(S) = {h}
  <2>1. h \in Earliest(S) /\ Earliest(S) \subseteq S
    BY <1>3, <1>4 DEF Earliest
  <2>2. ASSUME NEW x \in Earliest(S) PROVE x = h
    <3>1. x <= h /\ h <= x /\ x \in Nat
      BY <1>3, <1>4, <2>1 DEF Earliest
    <3> QED BY <1>3, <3>1
  <2> QED BY <2>1, <2>2
<1>6. ASSUME NEW k \in DOMAIN t, NEW l \in DOMAIN t, k < l PROVE t[k] < t[l]
  <2>1. k + 1 \in DOMAIN s /\ l + 1 \in DOMAIN s /\ k + 1 < l + 1 /\ t[k] = s[k + 1] /\ t[l] = s[l + 1]
    BY <1>1, <1>6
  <2> QED BY <2>1 DEF InOrder
<1>7. ASSUME NEW x \in S, x # h PROVE \E k \in DOMAIN t : t[k] = x
  <2>1. PICK k \in DOMAIN s : s[k] = x
    BY DEF InOrder
  <2>2. k # 1
    BY <1>1, <1>7, <2>1
  <2>3. k - 1 \in DOMAIN t /\ t[k - 1] = s[k - 1 + 1] /\ k - 1 + 1 = k
    BY <1>1, <2>2
  <2> QED BY <2>1, <2>3
<1>8. ASSUME NEW k \in DOMAIN t PROVE t[k] \in S /\ t[k] # h
  <2>1. k + 1 \in DOMAIN s /\ k + 1 # 1 /\ t[k] = s[k + 1]
    BY <1>1
  <2>2. h < s[k + 1] /\ s[k + 1] \in Nat
    BY <1>1, <1>2, <2>1
  <2>3. t[k] # h
    BY <1>3, <2>1, <2>2
  <2> QED BY <2>1, <2>3 DEF InOrder
<1>9. \A x : x \in S \ {h} <=> \E k \in DOMAIN t : t[k] = x
  BY <1>7, <1>8
<1> QED BY <1>3, <1>5, <1>6, <1>9 DEF InOrder, t, h

LEMMA InOrderEmpty == \A S : InOrder(<<>>, S) <=> S = {}
BY DEF InOrder


-----------------------------------------------------------------------------
(* With traps of one variable each, and none of them lost.                 *)

OneVariable == SingleTraps /\ Traps \subseteq Kept

TrapVar(i) == CHOOSE v \in DOMAIN Targets(i) : TRUE
IsRead(i)  == Targets(i)[TrapVar(i)] = 0

\* Up to the record m: the unread writes are in the list, free and in order; every read has the
\* write that it answers, which has the read.
Answered(f, i, m) ==
  /\ f[i].peer = history[i].causes
  /\ \A w \in f[i].peer : f[w].peer = {i} /\ w <= m /\ ~f[w].read
TakenUpTo(f, q, m) ==
  /\ \A v \in Vars : InOrder(q[v], UnreadUpTo(m, v)) /\ \A w \in UnreadUpTo(m, v) : f[w].peer = {}
  /\ \A i \in Traps :
       /\ i > m => f[i].peer = {} /\ ~f[i].read
       /\ i <= m => /\ f[i].read <=> IsRead(i)
                    /\ IsRead(i) => Answered(f, i, m)

LEMMA SingleFacts ==
  ASSUME HistOK, SingleTraps, NEW i \in Traps
  PROVE  /\ DOMAIN Targets(i) = {TrapVar(i)} /\ TrapVar(i) \in Nat /\ TrapVar(i) \in Vars
         /\ Targets(i)[TrapVar(i)] = IF IsRead(i) THEN 0 ELSE 1
         /\ \A v : /\ i \in WritesOf(v) <=> ~IsRead(i) /\ v = TrapVar(i)
                   /\ i \in ReadsOf(v) <=> IsRead(i) /\ v = TrapVar(i)
<1>1. DOMAIN Targets(i) = {TrapVar(i)}
  <2>1. PICK v \in DOMAIN Targets(i) : DOMAIN Targets(i) = {v}
    BY DEF SingleTraps, Targets
  <2>2. TrapVar(i) \in DOMAIN Targets(i)
    BY <2>1 DEF TrapVar
  <2> QED BY <2>1, <2>2
<1>2. TrapVar(i) \in Nat /\ Targets(i)[TrapVar(i)] \in {0, 1}
  BY <1>1, TrapFacts
<1>3. TrapVar(i) \in Vars
  BY <1>1 DEF Vars, Traps, Targets
<1>4. Targets(i)[TrapVar(i)] = IF IsRead(i) THEN 0 ELSE 1
  BY <1>2 DEF IsRead
<1>5. ASSUME NEW v
      PROVE  /\ i \in WritesOf(v) <=> ~IsRead(i) /\ v = TrapVar(i)
             /\ i \in ReadsOf(v) <=> IsRead(i) /\ v = TrapVar(i)
  <2>1. /\ i \in WritesOf(v) <=> v \in DOMAIN Targets(i) /\ Targets(i)[v] = 1
        /\ i \in ReadsOf(v) <=> v \in DOMAIN Targets(i) /\ Targets(i)[v] = 0
    BY DEF WritesOf, ReadsOf, Targets
  <2>2. v \in DOMAIN Targets(i) <=> v = TrapVar(i)
    BY <1>1
  <2> QED BY <1>4, <2>1, <2>2 DEF IsRead
<1> QED BY <1>1, <1>2, <1>3, <1>4, <1>5

\* The walk takes a trap for what it is, whether its variable flips or not.
LEMMA TrapIs ==
  ASSUME HistOK, OneVariable, TrapHist, NEW i \in Traps
  PROVE  /\ Reading(i) = IF IsRead(i) THEN {TrapVar(i)} ELSE {}
         /\ Writing(i) = IF IsRead(i) THEN {} ELSE {TrapVar(i)}
<1> PICK v : v = TrapVar(i)
  OBVIOUS
<1> PICK t : t = Targets(i)[v]
  OBVIOUS
<1>1. DOMAIN Targets(i) = {v} /\ t = IF IsRead(i) THEN 0 ELSE 1
  BY SingleFacts DEF OneVariable
<1>2. {j \in Kept \cap Traps : j < i} = TrapsBefore(i)
  BY DEF OneVariable, TrapsBefore
<1>3. ValueAt(v, TrapsBefore(i)) \in {0, 1}
  BY ValueBinary DEF TrapsBefore
<1>4. v \notin QueueVars => t # ValueAt(v, TrapsBefore(i))
  BY <1>1 DEF TrapHist
<1>5. /\ TrapWrites(i, v) <=> IF v \in QueueVars THEN t = 1 ELSE t = 1 /\ ValueAt(v, TrapsBefore(i)) = 0
      /\ TrapReads(i, v) <=> IF v \in QueueVars THEN t # 1 ELSE t = 0 /\ ValueAt(v, TrapsBefore(i)) = 1
  BY <1>2 DEF TrapWrites, TrapReads, Targets
<1>6. TrapWrites(i, v) <=> ~IsRead(i)
  BY <1>1, <1>3, <1>4, <1>5
<1>7. TrapReads(i, v) <=> IsRead(i)
  BY <1>1, <1>3, <1>4, <1>5
<1>8. Reading(i) = {w \in {v} : TrapReads(i, w)} /\ Writing(i) = {w \in {v} : TrapWrites(i, w)}
  BY <1>1 DEF Reading, Writing, Targets
<1> QED BY <1>6, <1>7, <1>8

\* The list of unread writes from one trap to the next.
LEMMA UnreadTurn ==
  ASSUME HistOK, OneVariable, TrapHist, NEW i \in Traps, NEW m \in Nat, m < i, \A j \in Traps : j < i => j <= m
  PROVE  /\ \A v : UnreadUpTo(i - 1, v) = UnreadUpTo(m, v)
         /\ \A v : v # TrapVar(i) => UnreadUpTo(i, v) = UnreadUpTo(m, v)
         /\ IsRead(i) => /\ history[i].causes = Earliest(UnreadUpTo(m, TrapVar(i)))
                         /\ UnreadUpTo(i, TrapVar(i)) = UnreadUpTo(m, TrapVar(i)) \ history[i].causes
         /\ ~IsRead(i) => UnreadUpTo(i, TrapVar(i)) = UnreadUpTo(m, TrapVar(i)) \cup {i}
         /\ \A v : UnreadUpTo(m, v) \subseteq {w \in Traps : TrapVar(w) = v /\ ~IsRead(w) /\ w <= m}
<1>1. i \in Nat /\ i \in Times /\ \A j \in Traps : j \in Nat /\ j \in Times
  BY TrapFacts
<1>2. \A v : WritesOf(v) \subseteq Traps /\ ReadsOf(v) \subseteq Traps
  BY DEF WritesOf, ReadsOf
<1>3. \A j \in Traps : j <= i <=> j <= m \/ j = i
  BY <1>1
<1>4. \A j \in Traps : j <= i - 1 <=> j <= m
  BY <1>1
<1>5. ASSUME NEW v PROVE UnreadUpTo(i - 1, v) = UnreadUpTo(m, v)
  BY <1>2, <1>4 DEF UnreadUpTo
<1>6. ASSUME NEW v, NEW j
      PROVE  /\ j \in UnreadUpTo(m, v) <=> j \in WritesOf(v) /\ j <= m /\ \A r \in ReadsOf(v) : r <= m => j \notin history[r].causes
             /\ j \in UnreadUpTo(i, v) <=> /\ j \in WritesOf(v) /\ (j <= m \/ j = i)
                                           /\ \A r \in ReadsOf(v) : r <= m \/ r = i => j \notin history[r].causes
  BY <1>2, <1>3 DEF UnreadUpTo
<1>7. \A v : /\ i \in WritesOf(v) <=> ~IsRead(i) /\ v = TrapVar(i)
             /\ i \in ReadsOf(v) <=> IsRead(i) /\ v = TrapVar(i)
  BY SingleFacts DEF OneVariable
<1>8. \A r \in Traps : r <= m => i \notin history[r].causes
  <2> SUFFICES ASSUME NEW r \in Traps, r <= m, i \in history[r].causes PROVE FALSE
    OBVIOUS
  <2>1. i \in 1 .. r - 1 /\ r \in Nat
    BY <1>1 DEF HistOK
  <2> QED BY <1>1, <2>1
<1>9. ASSUME NEW v, v # TrapVar(i) PROVE UnreadUpTo(i, v) = UnreadUpTo(m, v)
  <2>1. i \notin WritesOf(v) /\ i \notin ReadsOf(v)
    BY <1>7, <1>9
  <2> QED BY <1>6, <2>1
<1> PICK v : v = TrapVar(i)
  OBVIOUS
<1>10. ASSUME ~IsRead(i) PROVE UnreadUpTo(i, v) = UnreadUpTo(m, v) \cup {i}
  <2>1. i \in WritesOf(v) /\ i \notin ReadsOf(v)
    BY <1>7, <1>10
  <2>2. \A r \in ReadsOf(v) : r <= m => i \notin history[r].causes
    BY <1>2, <1>8
  <2> QED BY <1>6, <2>1, <2>2
<1>11. ASSUME IsRead(i)
       PROVE  /\ history[i].causes = Earliest(UnreadUpTo(m, v))
              /\ UnreadUpTo(i, v) = UnreadUpTo(m, v) \ history[i].causes
  <2>1. i \notin WritesOf(v) /\ i \in ReadsOf(v)
    BY <1>7, <1>11
  <2>2. DOMAIN Targets(i) = {v} /\ Targets(i)[v] = 0
    BY <1>11, SingleFacts DEF OneVariable
  <2>3. {w \in DOMAIN Targets(i) : Targets(i)[w] = 0} = {v}
    BY <2>2
  <2>4. history[i].causes = Earliest(UnreadUpTo(i - 1, v))
    <3>1. history[i].causes = UNION {Earliest(UnreadUpTo(i - 1, w)) : w \in {v}}
      BY <2>3 DEF TrapHist
    <3> QED BY <3>1
  <2>5. history[i].causes = Earliest(UnreadUpTo(m, v))
    BY <1>5, <2>4
  <2>6. UnreadUpTo(i, v) = UnreadUpTo(m, v) \ history[i].causes
    BY <1>6, <2>1
  <2> QED BY <2>5, <2>6
<1>12. ASSUME NEW u, NEW w \in UnreadUpTo(m, u) PROVE w \in Traps /\ TrapVar(w) = u /\ ~IsRead(w) /\ w <= m
  <2>1. w \in WritesOf(u) /\ w <= m
    BY DEF UnreadUpTo
  <2>2. w \in Traps
    BY <1>2, <2>1
  <2> QED BY <2>1, <2>2, SingleFacts DEF OneVariable
<1> QED BY <1>5, <1>9, <1>10, <1>11, <1>12


\* What the turn of trap i on variable v leaves: the records f and the lists q, where taken is the
\* write that a read pairs itself with.
TurnIs(f, q, i, v, taken) ==
  /\ \A j \in Times : j # i => f[j].read = ev[j].read
  /\ f[i].read <=> IsRead(i)
  /\ i \notin taken =>
       \A j \in Times : f[j].peer = IF j = i /\ taken # {} THEN taken ELSE IF j \in taken THEN {i} ELSE ev[j].peer
  /\ \A u \in Vars : u # v => q[u] = writes[u]
  /\ q[v] = IF ~IsRead(i) THEN Append(writes[v], i) ELSE IF taken = {} THEN writes[v] ELSE Tail(writes[v])

\* What a trap of one variable writes: it is a read or not, and a read is paired with the head of
\* the list, if there is one.
LEMMA TrapEffect ==
  ASSUME HistOK, Typed(ev), WritesOK, OneVariable, TrapHist, NEW i \in Traps,
         NEW v, v = TrapVar(i), NEW taken, taken = IF IsRead(i) /\ writes[v] # <<>> THEN {Head(writes[v])} ELSE {}
  PROVE  TurnIs(ConnectTrap(i), WritesAfter(i), i, v, taken)
<1>0. i \in Times /\ v \in Vars /\ v \in Nat
  BY TrapFacts, SingleFacts DEF OneVariable
<1>1. ev \in [Times -> EventSet(Kept)] /\ DOMAIN writes = Vars
  BY DEF Typed, WritesOK
<1>2. Reading(i) = (IF IsRead(i) THEN {v} ELSE {}) /\ Writing(i) = IF IsRead(i) THEN {} ELSE {v}
  BY TrapIs
<1>3. Taking(i) = IF taken = {} THEN {} ELSE {v}
  BY <1>2 DEF Taking
<1>4. Latest({v}) = {v}
  BY <1>0 DEF Latest
<1>5. {Head(writes[u]) : u \in Latest({v})} = {Head(writes[v])}
  BY <1>4
<1>6. taken # {} => taken = {Head(writes[v])} /\ IsRead(i)
  OBVIOUS
<1> DEFINE read == IF Reading(i) \cup Writing(i) = {} THEN ev[i].read
                   ELSE Latest(Reading(i) \cup Writing(i)) \subseteq Reading(i)
           peer == IF Taking(i) = {} THEN ev[i].peer ELSE {Head(writes[u]) : u \in Latest(Taking(i))}
           value(j) == IF j = i THEN [ev[i] EXCEPT !.read = read, !.peer = peer]
                       ELSE IF \E u \in Taking(i) : j = Head(writes[u]) THEN [ev[j] EXCEPT !.peer = {i}]
                       ELSE ev[j]
<1>7. ConnectTrap(i) = [j \in Times |-> value(j)]
  BY <1>1 DEF ConnectTrap
<1>8. read <=> IsRead(i)
  <2>1. Reading(i) \cup Writing(i) = {v}
    BY <1>2
  <2>2. {v} \subseteq Reading(i) <=> IsRead(i)
    BY <1>2
  <2> QED BY <1>4, <2>1, <2>2
<1>9. peer = IF taken = {} THEN ev[i].peer ELSE taken
  BY <1>3, <1>5, <1>6
<1>10. \A j : (\E u \in Taking(i) : j = Head(writes[u])) <=> j \in taken
  BY <1>3, <1>6
<1> HIDE DEF read, peer
<1>11. ASSUME NEW j \in Times
       PROVE  /\ value(j).read = IF j = i THEN read ELSE ev[j].read
              /\ value(j).peer = IF j = i THEN peer ELSE IF j \in taken THEN {i} ELSE ev[j].peer
  <2>1. ev[j] \in EventSet(Kept)
    BY <1>1
  <2>2. CASE j = i
    BY <2>1, <2>2 DEF EventSet
  <2>3. CASE j # i /\ j \in taken
    <3>1. value(j) = [ev[j] EXCEPT !.peer = {i}]
      BY <1>10, <2>3
    <3> HIDE DEF value
    <3> QED BY <2>1, <2>3, <3>1 DEF EventSet
  <2>4. CASE j # i /\ j \notin taken
    <3>1. value(j) = ev[j]
      BY <1>10, <2>4
    <3> HIDE DEF value
    <3> QED BY <2>4, <3>1
  <2> QED BY <2>2, <2>3, <2>4
<1>12. ASSUME NEW j \in Times
       PROVE  /\ ConnectTrap(i)[j].read = IF j = i THEN read ELSE ev[j].read
              /\ ConnectTrap(i)[j].peer = IF j = i THEN peer ELSE IF j \in taken THEN {i} ELSE ev[j].peer
  <2> HIDE DEF value
  <2> QED BY <1>7, <1>11
<1>13. \A j \in Times : j # i => ConnectTrap(i)[j].read = ev[j].read
  BY <1>12
<1>14. ConnectTrap(i)[i].read <=> IsRead(i)
  BY <1>0, <1>8, <1>12
<1>15. ASSUME i \notin taken, NEW j \in Times
       PROVE  ConnectTrap(i)[j].peer = IF j = i /\ taken # {} THEN taken ELSE IF j \in taken THEN {i} ELSE ev[j].peer
  BY <1>9, <1>12, <1>15
<1>16. ASSUME NEW u \in Vars
       PROVE  WritesAfter(i)[u] = CASE u \in Writing(i) -> Append(writes[u], i)
                                    [] u \in Taking(i)  -> Tail(writes[u])
                                    [] OTHER            -> writes[u]
  BY <1>1 DEF WritesAfter
<1>17. ASSUME NEW u \in Vars, u # v PROVE WritesAfter(i)[u] = writes[u]
  <2>1. u \notin Writing(i) /\ u \notin Taking(i)
    BY <1>2, <1>3, <1>17
  <2> QED BY <1>16, <2>1
<1>18. WritesAfter(i)[v] = IF ~IsRead(i) THEN Append(writes[v], i)
                           ELSE IF taken = {} THEN writes[v] ELSE Tail(writes[v])
  <2>1. v \in Writing(i) <=> ~IsRead(i)
    BY <1>2
  <2>2. v \in Taking(i) <=> taken # {}
    BY <1>3
  <2>3. CASE ~IsRead(i)
    <3>1. v \notin Taking(i)
      BY <1>6, <2>2, <2>3
    <3> QED BY <1>0, <1>16, <2>1, <2>3, <3>1
  <2>4. CASE IsRead(i) /\ taken = {}
    BY <1>0, <1>16, <2>1, <2>2, <2>4
  <2>5. CASE IsRead(i) /\ taken # {}
    BY <1>0, <1>16, <2>1, <2>2, <2>5
  <2> QED BY <2>3, <2>4, <2>5
<1> QED BY <1>13, <1>14, <1>15, <1>17, <1>18 DEF TurnIs

\* A turn of the traps: the reads up to the new one have the writes that they answer.
LEMMA TrapTaken ==
  ASSUME HistOK, Typed(ev), WritesOK, OneVariable, TrapHist, NEW i \in Traps, NEW m \in Nat, m < i,
         \A j \in Traps : j < i => j <= m, TakenUpTo(ev, writes, m)
  PROVE  TakenUpTo(ConnectTrap(i), WritesAfter(i), i)
<1> PICK v : v = TrapVar(i)
  OBVIOUS
<1> PICK taken : taken = IF IsRead(i) /\ writes[v] # <<>> THEN {Head(writes[v])} ELSE {}
  OBVIOUS
<1> PICK g : g = ConnectTrap(i)
  OBVIOUS
<1> PICK q : q = WritesAfter(i)
  OBVIOUS
<1>0. i \in Nat /\ i \in Times /\ v \in Vars /\ \A j \in Traps : j \in Nat /\ j \in Times /\ history[j].causes \subseteq 1 .. j - 1
  BY TrapFacts, SingleFacts DEF OneVariable, HistOK
<1>1. /\ \A u : u # v => UnreadUpTo(i, u) = UnreadUpTo(m, u)
      /\ IsRead(i) => /\ history[i].causes = Earliest(UnreadUpTo(m, v))
                      /\ UnreadUpTo(i, v) = UnreadUpTo(m, v) \ history[i].causes
      /\ ~IsRead(i) => UnreadUpTo(i, v) = UnreadUpTo(m, v) \cup {i}
      /\ \A u : UnreadUpTo(m, u) \subseteq {w \in Traps : TrapVar(w) = u /\ ~IsRead(w) /\ w <= m}
  BY UnreadTurn
<1>2. /\ \A u \in Vars : InOrder(writes[u], UnreadUpTo(m, u)) /\ writes[u] \in Seq(Kept)
      /\ \A u \in Vars : \A w \in UnreadUpTo(m, u) : ev[w].peer = {}
      /\ \A j \in Traps : j > m => ev[j].peer = {} /\ ~ev[j].read
      /\ \A j \in Traps : j <= m => ev[j].read <=> IsRead(j)
      /\ \A j \in Traps : j <= m /\ IsRead(j) => Answered(ev, j, m)
  BY DEF TakenUpTo, WritesOK
<1>3. Kept \in SUBSET Nat
  BY TraceFacts
<1>4. /\ IsRead(i) => taken = history[i].causes
      /\ InOrder(IF ~IsRead(i) THEN Append(writes[v], i)
                 ELSE IF taken = {} THEN writes[v] ELSE Tail(writes[v]), UnreadUpTo(i, v))
      /\ ~IsRead(i) => taken = {}
      /\ taken \subseteq UnreadUpTo(m, v)
  <2>1. InOrder(writes[v], UnreadUpTo(m, v)) /\ writes[v] \in Seq(Kept)
    BY <1>0, <1>2
  <2>2. CASE ~IsRead(i)
    <3>1. ASSUME NEW w \in UnreadUpTo(m, v) PROVE w < i
      <4>1. w \in Traps /\ w <= m
        BY <1>1
      <4>2. w \in Nat
        BY <1>0, <4>1
      <4> QED BY <1>0, <4>1, <4>2
    <3>2. i \in Kept
      BY DEF OneVariable
    <3>3. InOrder(Append(writes[v], i), UnreadUpTo(m, v) \cup {i})
      BY <1>3, <2>1, <3>1, <3>2, InOrderAppend
    <3> QED BY <1>1, <2>2, <3>3
  <2>3. CASE IsRead(i) /\ writes[v] = <<>>
    <3>1. UnreadUpTo(m, v) = {}
      BY <2>1, <2>3, InOrderEmpty
    <3>2. history[i].causes = {} /\ UnreadUpTo(i, v) = UnreadUpTo(m, v)
      BY <1>1, <2>3, <3>1 DEF Earliest
    <3> QED BY <2>1, <2>3, <3>2
  <2>4. CASE IsRead(i) /\ writes[v] # <<>>
    <3>1. /\ Head(writes[v]) \in UnreadUpTo(m, v) /\ Earliest(UnreadUpTo(m, v)) = {Head(writes[v])}
          /\ InOrder(Tail(writes[v]), UnreadUpTo(m, v) \ {Head(writes[v])})
      BY <1>3, <2>1, <2>4, InOrderTail
    <3>2. taken = {Head(writes[v])}
      BY <2>4
    <3> QED BY <1>1, <2>4, <3>1, <3>2
  <2> QED BY <2>2, <2>3, <2>4
<1>5. i \notin taken /\ \A w \in taken : w \in Traps /\ w <= m /\ TrapVar(w) = v /\ ~IsRead(w) /\ ev[w].peer = {}
  <2>1. ~(i <= m)
    BY <1>0
  <2> QED BY <1>0, <1>1, <1>2, <1>4, <2>1
<1>6. /\ \A j \in Times : j # i => g[j].read = ev[j].read
      /\ g[i].read <=> IsRead(i)
      /\ \A j \in Times : g[j].peer = IF j = i /\ taken # {} THEN taken ELSE IF j \in taken THEN {i} ELSE ev[j].peer
      /\ \A u \in Vars : u # v => q[u] = writes[u]
      /\ q[v] = IF ~IsRead(i) THEN Append(writes[v], i) ELSE IF taken = {} THEN writes[v] ELSE Tail(writes[v])
  <2>1. /\ \A j \in Times : j # i => g[j].read = ev[j].read
        /\ g[i].read <=> IsRead(i)
        /\ i \notin taken =>
              \A j \in Times : g[j].peer = IF j = i /\ taken # {} THEN taken ELSE IF j \in taken THEN {i} ELSE ev[j].peer
        /\ \A u \in Vars : u # v => q[u] = writes[u]
        /\ q[v] = IF ~IsRead(i) THEN Append(writes[v], i) ELSE IF taken = {} THEN writes[v] ELSE Tail(writes[v])
    <3>1. TurnIs(ConnectTrap(i), WritesAfter(i), i, v, taken)
      BY TrapEffect
    <3>2. TurnIs(g, q, i, v, taken)
      BY <3>1
    <3> QED BY <3>2 DEF TurnIs
  <2> QED BY <1>5, <2>1
<1>7. ev[i].peer = {} /\ \A w \in taken : \A x \in taken : w = x
  BY <1>0, <1>2
<1>8. \A u \in Vars : InOrder(q[u], UnreadUpTo(i, u))
  <2>1. InOrder(q[v], UnreadUpTo(i, v))
    BY <1>4, <1>6
  <2>2. ASSUME NEW u \in Vars, u # v PROVE InOrder(q[u], UnreadUpTo(i, u))
    BY <1>1, <1>2, <1>6, <2>2
  <2> QED BY <2>1, <2>2
<1>9. ASSUME NEW u \in Vars, NEW w \in UnreadUpTo(i, u) PROVE g[w].peer = {}
  <2>1. CASE w = i
    <3>1. ~IsRead(i)
      <4>1. i \notin UnreadUpTo(m, u)
        BY <1>0, <1>1
      <4>2. i \notin UnreadUpTo(m, v)
        BY <1>0, <1>1
      <4> QED BY <1>1, <2>1, <4>1, <4>2
    <3>2. taken = {}
      BY <1>4, <3>1
    <3> QED BY <1>0, <1>6, <1>7, <2>1, <3>2
  <2>2. CASE w # i
    <3>1. w \in UnreadUpTo(m, u) /\ w \notin taken
      <4>1. CASE u # v
        BY <1>1, <1>5, <4>1
      <4>2. CASE u = v /\ IsRead(i)
        BY <1>1, <1>4, <4>2
      <4>3. CASE u = v /\ ~IsRead(i)
        BY <1>1, <1>4, <2>2, <4>3
      <4> QED BY <4>1, <4>2, <4>3
    <3>2. ev[w].peer = {} /\ w \in Times
      BY <1>0, <1>1, <1>2, <3>1
    <3> QED BY <1>6, <2>2, <3>1, <3>2
  <2> QED BY <2>1, <2>2
<1>10. ASSUME NEW j \in Traps, j > i PROVE g[j].peer = {} /\ ~g[j].read
  <2>1. j > m /\ j # i /\ j \in Times /\ ~(j <= m)
    BY <1>0, <1>10
  <2>2. j \notin taken
    BY <1>5, <2>1
  <2> QED BY <1>2, <1>6, <2>1, <2>2
<1>11. ASSUME NEW j \in Traps, j <= i, j # i
       PROVE  (g[j].read <=> IsRead(j)) /\ (IsRead(j) => Answered(g, j, i))
  <2>1. j <= m /\ j \in Times
    BY <1>0, <1>11
  <2>2. (ev[j].read <=> IsRead(j)) /\ g[j].read = ev[j].read
    BY <1>2, <1>6, <1>11, <2>1
  <2>3. ASSUME IsRead(j) PROVE Answered(g, j, i)
    <3>1. ev[j].peer = history[j].causes /\ \A w \in ev[j].peer : ev[w].peer = {j} /\ w <= m /\ ~ev[w].read
      BY <1>2, <2>1, <2>3 DEF Answered
    <3>2. g[j].peer = ev[j].peer
      <4>1. j \notin taken
        BY <1>5, <2>3
      <4> QED BY <1>6, <1>11, <2>1, <4>1
    <3>3. ASSUME NEW w \in ev[j].peer PROVE g[w].peer = {j} /\ w <= i /\ ~g[w].read
      <4>1. w \in 1 .. j - 1 /\ ev[w].peer = {j} /\ w <= m /\ ~ev[w].read
        BY <1>0, <3>1
      <4>2. w \in Nat /\ w # i /\ w <= i /\ w \in Times
        BY <1>0, <2>1, <4>1, TraceFacts
      <4>3. w \notin taken
        BY <1>5, <4>1
      <4> QED BY <1>6, <4>1, <4>2, <4>3
    <3> QED BY <3>1, <3>2, <3>3 DEF Answered
  <2> QED BY <2>2, <2>3
<1>12. IsRead(i) => Answered(g, i, i)
  <2> SUFFICES ASSUME IsRead(i) PROVE Answered(g, i, i)
    OBVIOUS
  <2>1. taken = history[i].causes /\ g[i].peer = taken
    BY <1>0, <1>4, <1>5, <1>6, <1>7
  <2>2. ASSUME NEW w \in taken PROVE g[w].peer = {i} /\ w <= i /\ ~g[w].read
    <3>1. w \in Traps /\ w <= m /\ ~IsRead(w) /\ w # i
      BY <1>5
    <3>2. w \in Times /\ w \in Nat /\ w <= i
      BY <1>0, <3>1
    <3>3. ~ev[w].read
      BY <1>2, <3>1
    <3> QED BY <1>6, <3>1, <3>2, <3>3
  <2> QED BY <2>1, <2>2 DEF Answered
<1>13. ASSUME NEW j \in Traps, j <= i PROVE (g[j].read <=> IsRead(j)) /\ (IsRead(j) => Answered(g, j, i))
  <2>1. CASE j = i
    BY <1>6, <1>12, <2>1
  <2> QED BY <1>11, <1>13, <2>1
<1> QED BY <1>8, <1>9, <1>10, <1>13 DEF TakenUpTo


\* The invariant of the traps: what the kernel did, and how far the walk has followed.
TrapsInv == TrapHist /\ (phase # "trace" /\ OneVariable => TakenUpTo(ev, writes, at["traps"]))

LEMMA TakenFixed ==
  ASSUME history' = history, family' = family
  PROVE  /\ OneVariable' <=> OneVariable
         /\ \A f, q, m : TakenUpTo(f, q, m)' <=> TakenUpTo(f, q, m)
<1>1. /\ Traps' = Traps /\ \A i : Targets(i)' = Targets(i)
      /\ \A m, v : UnreadUpTo(m, v)' = UnreadUpTo(m, v)
      /\ Kept' = Kept /\ Vars' = Vars /\ \A i : Rec(i)' = Rec(i)
  BY TrapsFixed, TraceFixed
<1>2. OneVariable' <=> OneVariable
  BY <1>1 DEF OneVariable, SingleTraps
<1>3. \A i : (IsRead(i)' <=> IsRead(i))
  BY <1>1 DEF IsRead, TrapVar
<1>4. \A f, i, m : Answered(f, i, m)' <=> Answered(f, i, m)
  BY DEF Answered
<1>5. \A s, S : InOrder(s, S)' <=> InOrder(s, S)
  BY DEF InOrder
<1> SUFFICES ASSUME NEW CONSTANT f, NEW CONSTANT q, NEW CONSTANT m PROVE TakenUpTo(f, q, m)' <=> TakenUpTo(f, q, m)
  BY <1>2
<1>6. \A v : InOrder(q[v], UnreadUpTo(m, v))' <=> InOrder(q[v], UnreadUpTo(m, v))
  BY <1>1 DEF InOrder
<1> QED BY <1>1, <1>3, <1>4, <1>6 DEF TakenUpTo

\* A step of the connectors that keeps the traps keeps their invariant.
LEMMA TrapsStep ==
  ASSUME TrapHist, history' = history, family' = family, OneVariable => TakenUpTo(ev', writes', at'["traps"])
  PROVE  TrapsInv'
<1> PICK f : f = ev'
  OBVIOUS
<1> PICK q : q = writes'
  OBVIOUS
<1> PICK m : m = at'["traps"]
  OBVIOUS
<1>1. (TakenUpTo(f, q, m)' <=> TakenUpTo(f, q, m)) /\ (OneVariable' <=> OneVariable) /\ TrapHist'
  BY TakenFixed, TrapsFixed
<1> QED BY <1>1 DEF TrapsInv

LEMMA TakenAlike ==
  ASSUME NEW f, NEW g, NEW q, NEW m, TakenUpTo(f, q, m), HistOK,
         \A j \in Times : g[j].peer = f[j].peer /\ g[j].read = f[j].read
  PROVE  TakenUpTo(g, q, m)
<1>1. Traps \subseteq Times /\ \A v : UnreadUpTo(m, v) \subseteq Times
  BY DEF Traps, UnreadUpTo, WritesOf
<1>2. \A i \in Traps : history[i].causes \subseteq Times
  <2>1. \A i \in Traps : history[i].causes \subseteq 1 .. i - 1 /\ i \in 1 .. Len(history) /\ Times = 1 .. Len(history)
    BY <1>1, TraceFacts DEF HistOK
  <2> QED BY <2>1, TraceFacts
<1>3. \A i \in Traps : Answered(f, i, m) => Answered(g, i, m)
  BY <1>1, <1>2 DEF Answered
<1> QED BY <1>1, <1>3 DEF TakenUpTo

LEMMA NothingTaken ==
  ASSUME HistOK, \A i \in Times : ev[i] = NewEvent, writes' = [v \in Vars |-> <<>>]
  PROVE  TakenUpTo(ev, writes', 0)
<1>1. Traps \subseteq Times /\ Times \subseteq Nat \ {0}
  BY TraceFacts DEF Traps
<1>2. ASSUME NEW v PROVE UnreadUpTo(0, v) = {}
  <2>1. \A j \in UnreadUpTo(0, v) : j \in Traps /\ j <= 0
    BY DEF UnreadUpTo, WritesOf
  <2>2. \A j \in Traps : ~(j <= 0)
    BY <1>1
  <2> QED BY <2>1, <2>2
<1>3. \A v \in Vars : InOrder(writes'[v], UnreadUpTo(0, v))
  BY <1>2, InOrderEmpty
<1>4. \A i \in Traps : ev[i].peer = {} /\ ~ev[i].read /\ ~(i <= 0)
  BY <1>1, NewEventFacts
<1> QED BY <1>2, <1>3, <1>4 DEF TakenUpTo

LEMMA TrapsNext == IInv /\ TrapsInv /\ [Next]_vars => TrapsInv'
<1> SUFFICES ASSUME IInv, TrapsInv, [Next]_vars PROVE TrapsInv'
  OBVIOUS
<1>0. HistOK /\ Typed(ev) /\ Progress(at) /\ TrapHist /\ "traps" \in Passes
  BY DEF IInv, TrapsInv, Passes
<1>1. ASSUME NEW e \in family.inputs, NEW lost \in BOOLEAN, Record(e, lost) PROVE TrapsInv'
  <2>1. TrapHist'
    BY <1>0, <1>1, RecordTraps
  <2>2. phase' = "trace"
    BY <1>1 DEF Record
  <2> QED BY <2>1, <2>2 DEF TrapsInv
<1>2. CASE EndTrace
  <2>1. /\ phase = "trace" /\ writes' = [v \in Vars |-> <<>>]
        /\ family' = family /\ history' = history /\ ev' = ev /\ at' = at
    BY <1>2 DEF EndTrace
  <2>2. at["traps"] = 0 /\ \A i \in Times : ev[i] = NewEvent
    BY <1>0, <2>1 DEF IInv
  <2>3. TakenUpTo(ev', writes', at'["traps"])
    BY <1>0, <2>1, <2>2, NothingTaken
  <2> QED BY <1>0, <2>1, <2>3, TrapsStep
<1>3. ASSUME NEW p \in Passes, NEW i \in Times, Turn(p, i) PROVE TrapsInv'
  <2>1. /\ phase = "connect" /\ history' = history /\ family' = family /\ at' = [at EXCEPT ![p] = i]
        /\ i \in Earliest(Left(p))
    BY <1>3 DEF Turn
  <2>2. WritesOK /\ Tied(ev, at) /\ (OneVariable => TakenUpTo(ev, writes, at["traps"]))
    BY <2>1 DEF IInv, TrapsInv
  <2>3. CASE p # "traps"
    <3>1. writes' = writes /\ at'["traps"] = at["traps"]
      BY <1>0, <1>3, <2>1, <2>3 DEF Turn, Progress
    <3>2. \A j \in Times : ev'[j].peer = ev[j].peer /\ ev'[j].read = ev[j].read
      <4>1. CASE p = "messages"
        <5>1. ev' = MatchMessage(i) /\ i \in Messages /\ Kind(i) \in Sends
          BY <1>3, <4>1, EffectsFacts DEF Turn, Earliest, Left, Messages
        <5> QED BY <1>0, <5>1, MessagePeers
      <4>2. CASE p # "messages"
        <5>1. SamePeers(ev, ev')
          BY <1>0, <1>3, <2>2, <2>3, <4>2, TurnPeers
        <5> QED BY <5>1 DEF SamePeers
      <4> QED BY <4>1, <4>2
    <3>3. OneVariable => TakenUpTo(ev', writes', at'["traps"])
      BY <1>0, <2>2, <3>1, <3>2, TakenAlike
    <3> QED BY <1>0, <2>1, <3>3, TrapsStep
  <2>4. CASE p = "traps"
    <3>1. ev' = ConnectTrap(i) /\ writes' = WritesAfter(i) /\ at'["traps"] = i
      BY <1>0, <1>3, <2>1, <2>4 DEF Turn, Progress
    <3>2. Left("traps") = {j \in Kept : Kind(j) = "trap" /\ j > at["traps"]}
      BY EffectsFacts DEF Left
    <3>3. ASSUME OneVariable PROVE TakenUpTo(ConnectTrap(i), WritesAfter(i), i)
      <4>1. at["traps"] \in Nat /\ i \in Nat
        BY <1>0, TraceFacts DEF Progress
      <4>2. i \in Traps /\ at["traps"] < i
        BY <2>1, <2>4, <3>2, <4>1 DEF Earliest, Traps
      <4>3. ASSUME NEW j \in Traps, j < i PROVE j <= at["traps"]
        <5>1. j \in Kept /\ Kind(j) = "trap" /\ j \in Nat
          BY <1>0, <3>3, TraceFacts DEF OneVariable, Traps
        <5>2. j \notin Left("traps")
          BY <2>1, <2>4, <4>1, <4>3, <5>1 DEF Earliest
        <5> QED BY <3>2, <4>1, <5>1, <5>2
      <4> QED BY <1>0, <2>2, <3>3, <4>1, <4>2, <4>3, TrapTaken
    <3> QED BY <1>0, <2>1, <3>1, <3>3, TrapsStep
  <2> QED BY <2>3, <2>4
<1>4. CASE LeaveLoop \/ Abort \/ Join \/ Over \/ UNCHANGED vars
  <2>1. /\ history' = history /\ family' = family /\ ev' = ev /\ writes' = writes
        /\ at'["traps"] = at["traps"] /\ (phase' # "trace" => phase # "trace")
    BY <1>0, <1>4 DEF LeaveLoop, Abort, Join, Over, vars, Progress
  <2>2. CASE phase # "trace"
    <3>1. OneVariable => TakenUpTo(ev', writes', at'["traps"])
      BY <2>1, <2>2 DEF TrapsInv
    <3> QED BY <1>0, <2>1, <3>1, TrapsStep
  <2>3. CASE phase = "trace"
    BY <1>0, <2>1, <2>3, TrapsFixed DEF TrapsInv
  <2> QED BY <2>2, <2>3
<1> QED BY <1>1, <1>2, <1>3, <1>4 DEF Next

\* With traps of one variable each and none lost, every read that has been walked has the write
\* that it answers, and the write has the read, however the passes are interleaved.
THEOREM ReadsAreAnswered == Spec => []ReadsTakeTheirWrites
<1>1. Spec => []TrapsInv
  <2>1. Init => TrapsInv
    <3>1. Init => Traps = {} /\ phase = "trace"
      BY DEF Init, Traps, Times
    <3> QED BY <3>1 DEF TrapsInv, TrapHist
  <2> QED BY <2>1, TrapsNext, InvariantHolds, PTL DEF Spec
<1>2. IInv /\ TrapsInv => ReadsTakeTheirWrites
  <2> SUFFICES ASSUME IInv, TrapsInv, Done, OneVariable, NEW i \in Traps, ev[i].read
      PROVE  ev[i].peer = history[i].causes /\ \A w \in ev[i].peer : ev[w].peer = {i} /\ ~ev[w].read
    BY DEF ReadsTakeTheirWrites, OneVariable
  <2>1. TakenUpTo(ev, writes, at["traps"])
    BY DEF TrapsInv, Done
  <2>2. i \in Nat /\ at["traps"] \in Nat
    <3>1. HistOK /\ Progress(at) /\ "traps" \in Passes
      BY DEF IInv, Passes
    <3> QED BY <3>1, TrapFacts, TraceFacts DEF Progress
  <2>3. i <= at["traps"]
    BY <2>1, <2>2 DEF TakenUpTo
  <2>4. Answered(ev, i, at["traps"])
    BY <2>1, <2>3 DEF TakenUpTo
  <2> QED BY <2>4 DEF Answered
<1> QED BY <1>1, <1>2, InvariantHolds, PTL

===============================================================================
