--------------------------- MODULE WaitGraph_proofs ---------------------------
(***************************************************************************)
(* Theorems on the lists of events per thread, for every trace and any     *)
(* number of threads of the trace and of the pool.                         *)
(***************************************************************************)
EXTENDS WaitGraph, Integers, SequencesExt, FiniteSetTheorems, SequenceTheorems, WellFoundedInduction, TLAPS

\* A non-empty set of naturals has a least element.
LEMMA MinExists ==
  ASSUME NEW S \in SUBSET Nat, S # {}
  PROVE  \E i \in S : \A j \in S : i <= j
<1> DEFINE less == {x \in Nat \X Nat : x[1] < x[2]}
<1>1. IsWellFoundedOn(less, Nat)
  BY NatLessThanWellFounded DEF OpToRel
<1>2. PICK i \in S : \A j \in S : ~ (<<j, i>> \in less)
  BY <1>1, WFMin
<1>3. ASSUME NEW j \in S PROVE i <= j
  <2>1. ~(<<j, i>> \in less) /\ i \in Nat /\ j \in Nat
    BY <1>2
  <2> QED BY <2>1
<1> QED BY <1>3

\* A non-empty set of naturals with a bound has a greatest element.
LEMMA MaxExists ==
  ASSUME NEW n \in Nat, NEW S \in SUBSET (0 .. n), S # {}
  PROVE  \E i \in S : \A j \in S : j <= i
<1> DEFINE B == {b \in Nat : \A j \in S : j <= b}
<1>1. n \in B
  OBVIOUS
<1>2. PICK b \in B : \A c \in B : b <= c
  BY <1>1, MinExists
<1>3. b \in S
  <2>1. CASE b = 0
    <3>1. PICK j \in S : j <= 0 /\ j \in 0 .. n
      BY <1>2, <2>1
    <3> QED BY <2>1, <3>1
  <2>2. CASE b # 0 /\ b \notin S
    <3>1. b - 1 \in Nat
      BY <2>2
    <3>2. ASSUME NEW j \in S PROVE j <= b - 1
      <4>1. j \in Nat /\ j <= b /\ j # b
        BY <1>2, <2>2
      <4> QED BY <4>1
    <3> QED BY <1>2, <3>1, <3>2
  <2> QED BY <2>1, <2>2
<1> QED BY <1>2, <1>3

\* Without the element at i, a sequence is one shorter, and those after i move up.
LEMMA RemoveAtProperties ==
  ASSUME NEW S, NEW s \in Seq(S), NEW i \in DOMAIN s
  PROVE  /\ RemoveAt(s, i) \in Seq(S) /\ Len(RemoveAt(s, i)) = Len(s) - 1
         /\ \A j \in 1 .. Len(s) - 1 : RemoveAt(s, i)[j] = IF j < i THEN s[j] ELSE s[j + 1]
<1> DEFINE a == SubSeq(s, 1, i - 1)
           b == SubSeq(s, i + 1, Len(s))
           c == a \o b
<1>1. Len(s) \in Nat /\ i \in 1 .. Len(s) /\ \A j \in 1 .. Len(s) : s[j] \in S
  OBVIOUS
<1>2. /\ a \in Seq(S) /\ Len(a) = i - 1 /\ \A j \in 1 .. i - 1 : a[j] = s[j]
  <2>1. 1 \in Int /\ i - 1 \in Int /\ \A j \in 1 .. i - 1 : s[j] \in S
    BY <1>1
  <2> QED BY <1>1, <2>1, SubSeqProperties
<1>3. /\ b \in Seq(S) /\ Len(b) = Len(s) - i /\ \A j \in 1 .. Len(s) - i : b[j] = s[i + j]
  <2>1. i + 1 \in Int /\ Len(s) \in Int /\ \A j \in i + 1 .. Len(s) : s[j] \in S
    BY <1>1
  <2>2. /\ b \in Seq(S) /\ Len(b) = IF i + 1 <= Len(s) THEN Len(s) - (i + 1) + 1 ELSE 0
        /\ \A j \in 1 .. Len(s) - (i + 1) + 1 : b[j] = s[(i + 1) + j - 1]
    BY <2>1, SubSeqProperties
  <2> QED BY <1>1, <2>2
<1>4. /\ c \in Seq(S) /\ Len(c) = Len(a) + Len(b)
      /\ \A j \in 1 .. Len(a) + Len(b) : c[j] = IF j <= Len(a) THEN a[j] ELSE b[j - Len(a)]
  BY <1>2, <1>3, ConcatProperties
<1>5. RemoveAt(s, i) = c
  BY DEF RemoveAt
<1> HIDE DEF a, b, c
<1>6. Len(a) + Len(b) = Len(s) - 1
  BY <1>1, <1>2, <1>3
<1>7. ASSUME NEW j \in 1 .. Len(s) - 1 PROVE c[j] = IF j < i THEN s[j] ELSE s[j + 1]
  <2>1. CASE j < i
    BY <1>1, <1>2, <1>4, <1>6, <2>1
  <2>2. CASE ~(j < i)
    <3>1. j - Len(a) \in 1 .. Len(s) - i /\ ~(j <= Len(a)) /\ i + (j - Len(a)) = j + 1
      BY <1>1, <1>2, <1>6, <2>2
    <3> QED BY <1>3, <1>4, <1>6, <2>2, <3>1
  <2> QED BY <2>1, <2>2
<1> QED BY <1>1, <1>2, <1>3, <1>4, <1>5, <1>6, <1>7

Places == {"posted", "event", "tsm", "intr", "load tsm", "store tsm",
           "load intr", "store intr", "sig", "finished"}
Adding == {"load tsm", "store tsm", "load intr", "store intr"}

-----------------------------------------------------------------------------
(* The inductive invariant.                                                *)

\* The wake-ups of thread t, before event p, since it last ran.
WakersAt(t, p) ==
  {m \in Wakeups : /\ m < p /\ trace[m].peer = t
                   /\ \A q \in m + 1 .. p - 1 : trace[q].tid # t}
Newest(m, S) == m \in S /\ \A n \in S : n <= m

\* What threads_wait_graph has passed: the events filed so far, and the events
\* inserted for the wake-ups taken out of the map.
Entries == (1 .. pos - 1) \cup {Woken(m) : m \in DOMAIN woken}

SplitInv ==
  /\ trace \in Traces
  /\ pos \in 1 .. Len(trace) + 1
  /\ waker \in [Tids -> Wakeups \cup {NoEvent}]
  /\ DOMAIN woken \subseteq Wakeups /\ woken \in [DOMAIN woken -> 1 .. pos - 1]
  /\ all \in Seq(Nat) /\ EventsOf(all) \subseteq Entries
  /\ \A t \in Tids : IF waker[t] = NoEvent THEN WakersAt(t, pos) = {}
                     ELSE Newest(waker[t], WakersAt(t, pos))

ListsInv ==
  /\ list \in [Tids -> Seq(Nat)]
  /\ \A t \in Tids : EventsOf(list[t]) \subseteq EventsOf(all)
  /\ phase = "split" => \A t \in Tids : Gone(t) = {}

\* Where the task's iterator will be when it has left remove_sigprocessing_events.
Here(t) == at[t] - sig[t].count

\* A task of a thread: its iterator is on an event but while it counts what it has
\* erased; the reverse iterator is before the breakpoint that it was set for.
TaskInv(t) ==
  /\ phase = "split" => pc[t] = "posted"
  /\ pc[t] = "posted" => at[t] = 1 /\ (phase # "split" => list[t] # <<>>)
  /\ pc[t] \in {"event", "tsm", "intr"} => at[t] \in DOMAIN list[t]
  /\ pc[t] \in Adding => at[t] \in 1 .. Len(list[t]) + 1 /\ erased # <<>>
  /\ pc[t] # "sig" => sig[t] = NoSearch
  /\ pc[t] = "sig" => /\ Here(t) \in DOMAIN list[t] /\ Kind(list[t][Here(t)]) = "trap"
                      /\ sig[t].r < Here(t)

TasksInv ==
  /\ phase \in {"split", "clean", "done", "crashed"}
  /\ pc \in [Tids -> Places] /\ at \in [Tids -> Nat \ {0}]
  /\ sig \in [Tids -> [r : Nat, k : Nat \ {0}, count : Nat]]
  /\ erased \in Seq({"tsm", "intr"} \X Tids)
  /\ \A t \in Tids : TaskInv(t)

IInv == SplitInv /\ ListsInv /\ TasksInv /\ LastWakerWins /\ InOrder

-----------------------------------------------------------------------------
(* Data.                                                                   *)

\* What a trace is made of.
LEMMA TraceFacts ==
  ASSUME trace \in Traces
  PROVE  /\ trace \in Seq(EventRecord) /\ Len(trace) \in Nat /\ DOMAIN trace = 1 .. Len(trace)
         /\ \A i \in DOMAIN trace :
              /\ trace[i].tid \in Tids /\ trace[i].peer \in Tids /\ trace[i].time \in Int
              /\ trace[i].kind # "faked"
         /\ \A i, j \in DOMAIN trace : i < j => trace[i].time <= trace[j].time
<1>1. /\ trace \in Seq(EventRecord)
      /\ \A i \in DOMAIN trace : trace[i].kind # "faked"
      /\ \A i, j \in DOMAIN trace : i < j => trace[i].time <= trace[j].time
  BY TracesAssumption
<1>2. Len(trace) \in Nat /\ DOMAIN trace = 1 .. Len(trace)
  BY <1>1
<1>3. \A i \in DOMAIN trace : trace[i] \in EventRecord
  BY <1>1, <1>2
<1> QED BY <1>1, <1>2, <1>3 DEF EventRecord

\* An entry is an event of the trace or an inserted one; its time is known.
LEMMA EntryFacts ==
  ASSUME SplitInv, NEW e \in Entries
  PROVE  /\ e \in Nat \ {0} /\ Time(e) \in Int
         /\ \/ e \in 1 .. pos - 1 /\ e \in DOMAIN trace /\ Kind(e) # "faked"
               /\ Kind(e) = trace[e].kind /\ Time(e) = trace[e].time
            \/ /\ e > Len(trace) /\ Kind(e) = "faked" /\ e - Len(trace) \in DOMAIN woken
               /\ woken[e - Len(trace)] \in 1 .. pos - 1
               /\ Time(e) = trace[woken[e - Len(trace)]].time - 1
<1>1. trace \in Traces /\ pos \in 1 .. Len(trace) + 1 /\ DOMAIN woken \subseteq DOMAIN trace
      /\ woken \in [DOMAIN woken -> 1 .. pos - 1]
  BY DEF SplitInv, Wakeups
<1>2. CASE e \in 1 .. pos - 1
  BY <1>1, <1>2, TraceFacts DEF Kind, Time
<1>3. CASE \E m \in DOMAIN woken : e = Woken(m)
  <2>1. PICK m \in DOMAIN woken : e = Len(trace) + m
    BY <1>3 DEF Woken
  <2>2. m \in 1 .. Len(trace) /\ woken[m] \in 1 .. pos - 1 /\ Len(trace) \in Nat
    BY <1>1, <2>1, TraceFacts
  <2>3. e > Len(trace) /\ e - Len(trace) = m /\ e \in Nat \ {0}
    BY <2>1, <2>2
  <2>4. woken[m] \in DOMAIN trace /\ trace[woken[m]].time \in Int
    BY <1>1, <2>2, TraceFacts
  <2> QED BY <1>1, <2>2, <2>3, <2>4 DEF Kind, Time
<1> QED BY <1>2, <1>3 DEF Entries

\* The initial state: nothing is filed, no thread has been woken.
LEMMA InitEstablishes == Init => IInv
<1> SUFFICES ASSUME Init PROVE IInv
  OBVIOUS
<1>1. trace \in Traces /\ Len(trace) \in Nat
  BY TraceFacts DEF Init
<1>2. DOMAIN woken = {} /\ woken \in [DOMAIN woken -> 1 .. pos - 1]
  BY DEF Init
<1>3. SplitInv
  <2>1. \A t \in Tids : WakersAt(t, pos) = {}
    BY <1>1, TraceFacts DEF Init, WakersAt, Wakeups
  <2> QED BY <1>1, <1>2, <2>1 DEF Init, SplitInv, EventsOf, NoEvent
<1>4. ListsInv
  BY DEF Init, ListsInv, EventsOf, Gone
<1>5. TasksInv
  <2>1. \A t \in Tids : TaskInv(t)
    BY DEF Init, TaskInv, Adding
  <2> QED BY <2>1 DEF Init, TasksInv, Places, NoSearch
<1>6. LastWakerWins /\ InOrder
  BY DEF Init, LastWakerWins, InOrder
<1> QED BY <1>3, <1>4, <1>5, <1>6 DEF IInv

-----------------------------------------------------------------------------
(* threads_wait_graph.                                                     *)

\* A turn of the loop takes at most one wake-up out of the map, one that it has
\* never taken out before, and files what it is at.
LEMMA SplitEffect ==
  ASSUME IInv, Split, NEW m, m = waker[trace[pos].tid]
  PROVE  /\ trace' = trace /\ pos' = pos + 1 /\ pos \in DOMAIN trace
         /\ trace[pos].tid \in Tids /\ m \in Wakeups \cup {NoEvent}
         /\ DOMAIN woken' = DOMAIN woken \cup ({m} \ {NoEvent})
         /\ \A x \in DOMAIN woken : woken'[x] = woken[x]
         /\ m # NoEvent => /\ m \notin DOMAIN woken /\ woken'[m] = pos
                           /\ Newest(m, WakersAt(trace[pos].tid, pos))
         /\ Inserted(m, pos) \in Seq(Nat)
         /\ EventsOf(Inserted(m, pos)) = {pos} \cup {Woken(x) : x \in {m} \ {NoEvent}}
         /\ Entries' = Entries \cup EventsOf(Inserted(m, pos))
         /\ \A e \in Entries : Kind(e)' = Kind(e) /\ Time(e)' = Time(e)
<1> DEFINE t == trace[pos].tid
<1>1. /\ phase = "split" /\ pos <= Len(trace) /\ trace' = trace /\ pos' = pos + 1
      /\ woken' = [x \in DOMAIN woken \cup ({m} \ {NoEvent}) |-> IF x = m THEN pos ELSE woken[x]]
  BY DEF Split
<1>2. pos \in DOMAIN trace /\ t \in Tids
  BY <1>1, TraceFacts DEF IInv, SplitInv
<1>3. m \in Wakeups \cup {NoEvent} /\ NoEvent \notin Wakeups
  BY <1>2, TraceFacts DEF IInv, SplitInv, Wakeups, NoEvent
<1>4. ASSUME m # NoEvent
      PROVE  Newest(m, WakersAt(t, pos)) /\ m \notin DOMAIN woken
  <2>1. Newest(m, WakersAt(t, pos))
    BY <1>2, <1>4 DEF IInv, SplitInv
  <2>2. ASSUME m \in DOMAIN woken PROVE FALSE
    <3>1. m \in Wakeups /\ woken[m] \in 1 .. pos - 1
      BY <2>2 DEF IInv, SplitInv
    <3>2. m \in WakersOf(woken[m])
      BY <2>2, <3>1 DEF IInv, LastWakerWins
    <3>3. m < woken[m] /\ trace[woken[m]].tid = trace[m].peer
      BY <3>2 DEF WakersOf
    <3>4. trace[m].peer = t /\ \A q \in m + 1 .. pos - 1 : trace[q].tid # t
      BY <2>1 DEF Newest, WakersAt
    <3>5. woken[m] \in m + 1 .. pos - 1
      BY <1>2, <3>1, <3>3, TraceFacts DEF IInv, SplitInv, Wakeups
    <3> QED BY <3>3, <3>4, <3>5
  <2> QED BY <2>1, <2>2
<1>5. /\ DOMAIN woken' = DOMAIN woken \cup ({m} \ {NoEvent})
      /\ \A x \in DOMAIN woken : woken'[x] = woken[x]
      /\ m # NoEvent => woken'[m] = pos
  <2>1. NoEvent \notin DOMAIN woken
    BY <1>3 DEF IInv, SplitInv
  <2> QED BY <1>1, <1>4, <2>1
<1>6. /\ Inserted(m, pos) \in Seq(Nat)
      /\ EventsOf(Inserted(m, pos)) = {pos} \cup {Woken(x) : x \in {m} \ {NoEvent}}
  <2>1. pos \in Nat /\ Len(trace) \in Nat /\ (m # NoEvent => Woken(m) \in Nat)
    BY <1>2, <1>3, TraceFacts DEF IInv, SplitInv, Wakeups, Woken
  <2>2. CASE m = NoEvent
    BY <2>1, <2>2 DEF Inserted, EventsOf
  <2>3. CASE m # NoEvent
    <3>1. Inserted(m, pos) = <<Woken(m), pos>>
      BY <2>3 DEF Inserted
    <3>2. DOMAIN <<Woken(m), pos>> = {1, 2}
      OBVIOUS
    <3> QED BY <2>1, <2>3, <3>1, <3>2 DEF EventsOf
  <2> QED BY <2>2, <2>3
<1>7. Entries' = Entries \cup EventsOf(Inserted(m, pos))
  <2>1. 1 .. pos' - 1 = (1 .. pos - 1) \cup {pos}
    BY <1>1, <1>2, TraceFacts DEF IInv, SplitInv
  <2>2. \A x : Woken(x)' = Woken(x)
    BY <1>1 DEF Woken
  <2> QED BY <1>5, <1>6, <2>1, <2>2 DEF Entries
<1>8. ASSUME NEW e \in Entries PROVE Kind(e)' = Kind(e) /\ Time(e)' = Time(e)
  BY <1>1, <1>5, EntryFacts DEF IInv, Kind, Time
<1> QED BY <1>1, <1>2, <1>3, <1>4, <1>5, <1>6, <1>7, <1>8

\* Past the event at pos, the wake-ups of its thread are over and, if it is one, it
\* is the newest of the thread that it wakes.
LEMMA WakersStep ==
  ASSUME SplitInv, pos \in DOMAIN trace, NEW u \in Tids
  PROVE  WakersAt(u, pos + 1) =
           (IF u = trace[pos].tid THEN {} ELSE WakersAt(u, pos))
             \cup (IF pos \in Wakeups /\ trace[pos].peer = u THEN {pos} ELSE {})
<1>1. pos \in Nat /\ Wakeups \subseteq Nat
  BY TraceFacts DEF SplitInv, Wakeups
<1>2. ASSUME NEW m \in Wakeups, m < pos
      PROVE  m \in WakersAt(u, pos + 1) <=> m \in WakersAt(u, pos) /\ trace[pos].tid # u
  <2>1. m + 1 .. (pos + 1) - 1 = (m + 1 .. pos - 1) \cup {pos}
    BY <1>1, <1>2
  <2> QED BY <1>1, <1>2, <2>1 DEF WakersAt
<1>3. pos \in WakersAt(u, pos + 1) <=> pos \in Wakeups /\ trace[pos].peer = u
  BY <1>1 DEF WakersAt
<1>4. \A m : m \in WakersAt(u, pos + 1) => m \in Wakeups /\ (m < pos \/ m = pos)
  BY <1>1 DEF WakersAt
<1>5. \A m : m \in WakersAt(u, pos) => m \in Wakeups /\ m < pos
  BY DEF WakersAt
<1> QED BY <1>2, <1>3, <1>4, <1>5

LEMMA SplitKeepsWakers ==
  ASSUME IInv, Split
  PROVE  /\ waker' \in [Tids -> Wakeups' \cup {NoEvent}]
         /\ \A u \in Tids : IF waker'[u] = NoEvent THEN WakersAt(u, pos)' = {}
                            ELSE Newest(waker'[u], WakersAt(u, pos)')
<1> DEFINE t == trace[pos].tid
<1>1. trace' = trace /\ pos' = pos + 1 /\ pos \in DOMAIN trace /\ t \in Tids
  BY SplitEffect
<1>2. pos \in Nat /\ pos # NoEvent /\ Wakeups \subseteq Nat /\ Wakeups' = Wakeups
      /\ (trace[pos].kind = "mr" <=> pos \in Wakeups) /\ trace[pos].peer \in Tids
  BY <1>1, TraceFacts DEF IInv, SplitInv, Wakeups, NoEvent
<1>3. waker \in [Tids -> Wakeups \cup {NoEvent}]
  BY DEF IInv, SplitInv
<1>4. waker' = LET after == [waker EXCEPT ![t] = NoEvent]
               IN  IF trace[pos].kind # "mr" THEN after
                   ELSE [after EXCEPT ![trace[pos].peer] = pos]
  BY DEF Split, Wakes
<1>5. waker' \in [Tids -> Wakeups \cup {NoEvent}]
  BY <1>1, <1>2, <1>3, <1>4
<1>6. ASSUME NEW u \in Tids
      PROVE  waker'[u] = IF pos \in Wakeups /\ trace[pos].peer = u THEN pos
                         ELSE IF u = t THEN NoEvent ELSE waker[u]
  BY <1>1, <1>2, <1>3, <1>4
<1>7. ASSUME NEW u \in Tids
      PROVE  IF waker'[u] = NoEvent THEN WakersAt(u, pos)' = {}
             ELSE Newest(waker'[u], WakersAt(u, pos)')
  <2>1. WakersAt(u, pos)' = WakersAt(u, pos + 1)
    BY <1>1, <1>2 DEF WakersAt
  <2>2. WakersAt(u, pos + 1) =
           (IF u = t THEN {} ELSE WakersAt(u, pos))
             \cup (IF pos \in Wakeups /\ trace[pos].peer = u THEN {pos} ELSE {})
    BY <1>1, WakersStep DEF IInv
  <2>3. IF waker[u] = NoEvent THEN WakersAt(u, pos) = {} ELSE Newest(waker[u], WakersAt(u, pos))
    BY DEF IInv, SplitInv
  <2>4. \A m \in WakersAt(u, pos) : m <= pos
    BY <1>2 DEF WakersAt
  <2>5. CASE pos \in Wakeups /\ trace[pos].peer = u
    BY <1>2, <1>6, <2>1, <2>2, <2>4, <2>5 DEF Newest
  <2>6. CASE ~(pos \in Wakeups /\ trace[pos].peer = u)
    BY <1>6, <2>1, <2>2, <2>3, <2>6 DEF Newest
  <2> QED BY <2>5, <2>6
<1> QED BY <1>2, <1>5, <1>7

\* The event filed before pos is that of the last wake-up.
LEMMA SplitKeepsLastWaker ==
  ASSUME IInv, Split
  PROVE  LastWakerWins'
<1> DEFINE t == trace[pos].tid
           m == waker[t]
<1>1. /\ trace' = trace /\ pos' = pos + 1 /\ pos \in DOMAIN trace
      /\ t \in Tids /\ m \in Wakeups \cup {NoEvent}
      /\ DOMAIN woken' = DOMAIN woken \cup ({m} \ {NoEvent})
      /\ \A x \in DOMAIN woken : woken'[x] = woken[x]
      /\ m # NoEvent => m \notin DOMAIN woken /\ woken'[m] = pos /\ Newest(m, WakersAt(t, pos))
  BY SplitEffect
<1>2. pos \in Nat /\ Wakeups' = Wakeups /\ Wakeups \subseteq Nat
      /\ \A x \in DOMAIN woken : woken[x] \in 1 .. pos - 1
  BY <1>1, TraceFacts DEF IInv, SplitInv, Wakeups
<1>3. \A p : WakersOf(p)' = WakersAt(trace[p].tid, p) /\ WakersOf(p) = WakersAt(trace[p].tid, p)
  BY <1>1, <1>2 DEF WakersOf, WakersAt
<1>4. ASSUME NEW n \in Wakeups, NEW p \in 1 .. pos
      PROVE  (n \in DOMAIN woken' /\ woken'[n] = p) <=> Newest(n, WakersAt(trace[p].tid, p))
  <2>1. CASE p < pos
    <3>1. (n \in DOMAIN woken /\ woken[n] = p) <=> Newest(n, WakersAt(trace[p].tid, p))
      BY <1>2, <1>3, <2>1 DEF IInv, LastWakerWins, Newest
    <3>2. n \notin DOMAIN woken => ~(n \in DOMAIN woken' /\ woken'[n] = p)
      BY <1>1, <1>2, <2>1
    <3> QED BY <1>1, <3>1, <3>2
  <2>2. CASE p = pos
    <3>1. (n \in DOMAIN woken' /\ woken'[n] = pos) <=> n = m
      <4>1. n = m => n # NoEvent
        BY TraceFacts DEF IInv, SplitInv, Wakeups, NoEvent
      <4>2. n \in DOMAIN woken => woken'[n] # pos
        BY <1>1, <1>2
      <4> QED BY <1>1, <4>1, <4>2
    <3>2. n = m => Newest(n, WakersAt(t, pos))
      BY <1>1, <3>1, TraceFacts DEF IInv, SplitInv, Wakeups, NoEvent
    <3>3. ASSUME Newest(n, WakersAt(t, pos)) PROVE n = m
      <4>1. WakersAt(t, pos) # {}
        BY <3>3 DEF Newest
      <4>2. Newest(m, WakersAt(t, pos))
        BY <1>1, <4>1 DEF IInv, SplitInv
      <4>3. n <= m /\ m <= n /\ n \in Nat /\ m \in Nat
        BY <1>2, <3>3, <4>2 DEF Newest, WakersAt
      <4> QED BY <4>3
    <3> QED BY <2>2, <3>1, <3>2, <3>3
  <2> QED BY <1>2, <2>1, <2>2
<1>5. 1 .. pos' - 1 = 1 .. pos
  BY <1>1, <1>2
<1> QED BY <1>2, <1>3, <1>4, <1>5 DEF LastWakerWins, Newest

\* The events of two lists put together.
LEMMA EventsOfConcat ==
  ASSUME NEW S, NEW a \in Seq(S), NEW b \in Seq(S)
  PROVE  /\ a \o b \in Seq(S) /\ EventsOf(a \o b) = EventsOf(a) \cup EventsOf(b)
         /\ Len(a \o b) = Len(a) + Len(b)
         /\ \A i \in 1 .. Len(a) + Len(b) :
              (a \o b)[i] = IF i <= Len(a) THEN a[i] ELSE b[i - Len(a)]
<1> DEFINE c == a \o b
<1>1. /\ c \in Seq(S) /\ Len(c) = Len(a) + Len(b)
      /\ \A i \in 1 .. Len(a) + Len(b) : c[i] = IF i <= Len(a) THEN a[i] ELSE b[i - Len(a)]
  BY ConcatProperties
<1>2. /\ Len(a) \in Nat /\ Len(b) \in Nat /\ DOMAIN a = 1 .. Len(a) /\ DOMAIN b = 1 .. Len(b)
      /\ DOMAIN c = 1 .. Len(a) + Len(b)
  BY <1>1
<1> HIDE DEF c
<1>3. ASSUME NEW i \in DOMAIN c PROVE c[i] \in EventsOf(a) \cup EventsOf(b)
  <2>1. CASE i <= Len(a)
    BY <1>1, <1>2, <2>1 DEF EventsOf
  <2>2. CASE ~(i <= Len(a))
    <3>1. i - Len(a) \in DOMAIN b /\ c[i] = b[i - Len(a)]
      BY <1>1, <1>2, <2>2
    <3> QED BY <3>1 DEF EventsOf
  <2> QED BY <2>1, <2>2
<1>4. EventsOf(a) \subseteq EventsOf(c)
  BY <1>1, <1>2 DEF EventsOf
<1>5. ASSUME NEW j \in DOMAIN b PROVE b[j] \in EventsOf(c)
  <2>1. Len(a) + j \in DOMAIN c /\ c[Len(a) + j] = b[j]
    BY <1>1, <1>2
  <2> QED BY <2>1 DEF EventsOf
<1>6. EventsOf(c) = EventsOf(a) \cup EventsOf(b)
  BY <1>3, <1>4, <1>5 DEF EventsOf
<1> QED BY <1>1, <1>6 DEF c

\* What a turn files is of the thread that it files it under.
LEMMA FiledIsOwn ==
  ASSUME IInv, Split, NEW t, t = trace[pos].tid
  PROVE  \A e \in EventsOf(Inserted(waker[t], pos)) : TidOf(e) = t
<1> DEFINE m == waker[t]
<1>1. /\ m \in Wakeups \cup {NoEvent} /\ pos \in DOMAIN trace
      /\ m # NoEvent => Newest(m, WakersAt(t, pos))
      /\ EventsOf(Inserted(m, pos)) = {pos} \cup {Woken(x) : x \in {m} \ {NoEvent}}
  BY SplitEffect
<1>2. TidOf(pos) = t
  BY <1>1, TraceFacts DEF IInv, SplitInv, TidOf, Kind
<1>3. ASSUME m # NoEvent PROVE TidOf(Woken(m)) = t
  <2>1. m \in DOMAIN trace /\ trace[m].peer = t
    BY <1>1, <1>3 DEF Newest, WakersAt, Wakeups
  <2>2. Len(trace) \in Nat /\ Woken(m) > Len(trace) /\ Woken(m) - Len(trace) = m
    BY <2>1, TraceFacts DEF IInv, SplitInv, Woken
  <2> QED BY <2>1, <2>2 DEF TidOf, Kind
<1> QED BY <1>1, <1>2, <1>3

\* The same is filed under the thread of the event and in the whole.
LEMMA SplitKeepsLists ==
  ASSUME IInv, Split
  PROVE  /\ all' \in Seq(Nat) /\ EventsOf(all') \subseteq Entries'
         /\ ListsInv'
<1> DEFINE t == trace[pos].tid
           m == waker[t]
           new == Inserted(m, pos)
<1>1. /\ trace' = trace /\ t \in Tids /\ m \in Wakeups \cup {NoEvent} /\ pos \in DOMAIN trace
      /\ m # NoEvent => Newest(m, WakersAt(t, pos))
      /\ new \in Seq(Nat) /\ EventsOf(new) = {pos} \cup {Woken(x) : x \in {m} \ {NoEvent}}
      /\ Entries' = Entries \cup EventsOf(new)
  BY SplitEffect
<1>2. /\ all' = all \o new /\ list' = [list EXCEPT ![t] = @ \o new] /\ phase = "split"
      /\ phase' = phase
  BY DEF Split
<1> HIDE DEF new
<1>3. /\ all \in Seq(Nat) /\ EventsOf(all) \subseteq Entries /\ list \in [Tids -> Seq(Nat)]
      /\ \A u \in Tids : EventsOf(list[u]) \subseteq EventsOf(all)
      /\ \A u \in Tids : Gone(u) = {}
  BY <1>2 DEF IInv, SplitInv, ListsInv
<1>4. all' \in Seq(Nat) /\ EventsOf(all') = EventsOf(all) \cup EventsOf(new)
  BY <1>1, <1>2, <1>3, EventsOfConcat
<1>5. list[t] \o new \in Seq(Nat) /\ EventsOf(list[t] \o new) = EventsOf(list[t]) \cup EventsOf(new)
  BY <1>1, <1>3, EventsOfConcat
<1>6. list' \in [Tids -> Seq(Nat)]
  BY <1>1, <1>2, <1>3, <1>5
<1>7. ASSUME NEW u \in Tids PROVE list'[u] = IF u = t THEN list[t] \o new ELSE list[u]
  BY <1>1, <1>2, <1>3
<1>8. ASSUME NEW u \in Tids
      PROVE  EventsOf(list'[u]) = EventsOf(list[u]) \cup (IF u = t THEN EventsOf(new) ELSE {})
  BY <1>5, <1>7
<1>9. \A e : TidOf(e)' = TidOf(e)
  BY <1>1 DEF TidOf, Kind
<1>10. \A e \in EventsOf(new) : TidOf(e) = t
  BY FiledIsOwn DEF new
<1>11. ASSUME NEW u \in Tids PROVE Gone(u)' = {}
  <2>1. \A e \in EventsOf(all) : TidOf(e) = u => e \in EventsOf(list[u])
    BY <1>3 DEF Gone
  <2>2. \A e \in EventsOf(all') : TidOf(e)' = u => e \in EventsOf(list'[u])
    BY <1>4, <1>8, <1>9, <1>10, <2>1
  <2>3. EventsOf(all)' = EventsOf(all') /\ EventsOf(list[u])' = EventsOf(list'[u])
    BY DEF EventsOf
  <2> QED BY <2>2, <2>3 DEF Gone
<1>12. \A u \in Tids : EventsOf(list'[u]) \subseteq EventsOf(all')
  BY <1>3, <1>4, <1>8
<1>13. EventsOf(all') \subseteq Entries'
  BY <1>1, <1>3, <1>4
<1>14. ListsInv'
  BY <1>6, <1>11, <1>12 DEF ListsInv
<1> QED BY <1>4, <1>13, <1>14

\* That e may be filed before f: it is not later, or f is inserted too early before
\* an event that has the time of e.
Precedes(e, f) ==
  \/ Time(e) <= Time(f)
  \/ /\ Kind(f) = "faked"
     /\ LET next == woken[f - Len(trace)] IN e # next /\ Time(e) = Time(next)

LEMMA OrderedByPrecedes ==
  InOrder <=> \A t \in Tids : \A i, j \in DOMAIN list[t] :
                i < j => Precedes(list[t][i], list[t][j])
BY DEF InOrder, Precedes

\* The event p that a turn files and the event f that it may insert for the wake-up m:
\* f may come before p, and what has been filed before both.
LEMMA FiledPrecedesNew ==
  ASSUME IInv, Split, NEW p, p = pos, NEW m, m = waker[trace[p].tid],
         NEW f, f = Woken(m)
  PROVE  /\ \A x \in Entries : Precedes(x, p)' /\ (m # NoEvent => Precedes(x, f)')
         /\ m # NoEvent => Precedes(f, p)'
<1>1. /\ trace' = trace /\ p \in DOMAIN trace /\ m \in Wakeups \cup {NoEvent}
      /\ m # NoEvent => woken'[m] = p
      /\ \A x \in Entries : Kind(x)' = Kind(x) /\ Time(x)' = Time(x)
  BY SplitEffect
<1>2. p \in 1 .. Len(trace) /\ Len(trace) \in Nat /\ trace[p].time \in Int
      /\ \A i \in 1 .. p - 1 : trace[i].time \in Int /\ trace[i].time <= trace[p].time
  BY <1>1, TraceFacts DEF IInv, SplitInv
<1>3. Time(p)' = trace[p].time
  BY <1>1, <1>2 DEF Time
<1>4. ASSUME m # NoEvent
      PROVE  /\ Kind(f)' = "faked" /\ Time(f)' = trace[p].time - 1
             /\ f - Len(trace) = m
  <2>1. m \in 1 .. Len(trace)
    BY <1>1, <1>2, <1>4 DEF Wakeups
  <2>2. f > Len(trace) /\ f - Len(trace) = m
    BY <1>2, <2>1 DEF Woken
  <2> QED BY <1>1, <1>4, <2>2 DEF Time, Kind
<1>5. m # NoEvent => Precedes(f, p)'
  BY <1>2, <1>3, <1>4 DEF Precedes
<1>6. ASSUME NEW x \in Entries PROVE Precedes(x, p)' /\ (m # NoEvent => Precedes(x, f)')
  <2>1. /\ x \in Nat
        /\ \/ x \in 1 .. p - 1 /\ Time(x) = trace[x].time
           \/ x > Len(trace) /\ \E q \in 1 .. p - 1 : Time(x) = trace[q].time - 1
    BY EntryFacts DEF IInv
  <2>2. Time(x) \in Int /\ Time(x) <= trace[p].time /\ x # p
    BY <1>2, <2>1
  <2>3. Precedes(x, p)'
    BY <1>1, <1>3, <2>2 DEF Precedes
  <2>4. ASSUME m # NoEvent PROVE Precedes(x, f)'
    <3>1. CASE Time(x) <= trace[p].time - 1
      BY <1>1, <1>4, <2>4, <3>1 DEF Precedes
    <3>2. CASE ~(Time(x) <= trace[p].time - 1)
      <4>1. Time(x) = trace[p].time
        BY <1>2, <2>2, <3>2
      <4> QED BY <1>1, <1>3, <1>4, <2>2, <2>4, <4>1 DEF Precedes
    <3> QED BY <3>1, <3>2
  <2> QED BY <2>3, <2>4
<1> QED BY <1>5, <1>6

\* What may precede another still may: times and kinds of what is filed stay.
LEMMA PrecedesStable ==
  ASSUME IInv, Split, NEW e \in Entries, NEW f \in Entries, Precedes(e, f)
  PROVE  Precedes(e, f)'
<1>1. /\ Kind(f)' = Kind(f) /\ Time(f)' = Time(f) /\ Time(e)' = Time(e) /\ trace' = trace
      /\ \A y \in DOMAIN woken : woken'[y] = woken[y]
  BY SplitEffect
<1>2. CASE Time(e) <= Time(f)
  BY <1>1, <1>2 DEF Precedes
<1>3. CASE ~(Time(e) <= Time(f))
  <2>1. PICK next : /\ next = woken[f - Len(trace)]
                    /\ Kind(f) = "faked" /\ e # next /\ Time(e) = Time(next)
    BY <1>3 DEF Precedes
  <2>2. f - Len(trace) \in DOMAIN woken /\ next \in 1 .. pos - 1
    BY <2>1, EntryFacts DEF IInv
  <2>3. Time(next)' = Time(next)
    BY <2>2, SplitEffect DEF Entries
  <2> QED BY <1>1, <2>1, <2>2, <2>3 DEF Precedes
<1> QED BY <1>2, <1>3

LEMMA SplitKeepsOrder ==
  ASSUME IInv, Split
  PROVE  InOrder'
<1>1. PICK p : p = pos
  OBVIOUS
<1>2. PICK t \in Tids : t = trace[p].tid
  BY <1>1, SplitEffect
<1>3. PICK m, f : m = waker[t] /\ f = Woken(m)
  OBVIOUS
<1>4. PICK new \in Seq(Nat) : /\ new = IF m = NoEvent THEN <<p>> ELSE <<f, p>>
                              /\ new = Inserted(m, pos)
  BY <1>1, <1>2, <1>3, SplitEffect DEF Inserted
<1>5. PICK old \in Seq(Nat) : old = list[t]
  BY DEF IInv, ListsInv
<1>6. /\ list' = [list EXCEPT ![t] = old \o new] /\ list \in [Tids -> Seq(Nat)] /\ trace' = trace
  BY <1>1, <1>2, <1>3, <1>4, <1>5 DEF Split, IInv, ListsInv
<1>7. \A u \in Tids : EventsOf(list[u]) \subseteq Entries
  BY DEF IInv, ListsInv, SplitInv
<1> DEFINE l == old \o new
<1>8. /\ l \in Seq(Nat) /\ Len(l) = Len(old) + Len(new)
      /\ \A k \in 1 .. Len(old) + Len(new) :
           l[k] = IF k <= Len(old) THEN old[k] ELSE new[k - Len(old)]
  BY EventsOfConcat
<1> HIDE DEF l
<1>9. ASSUME NEW u \in Tids, NEW i \in DOMAIN list'[u], NEW j \in DOMAIN list'[u], i < j,
             NEW x, NEW y, x = list'[u][i], y = list'[u][j]
      PROVE  Precedes(x, y)'
  <2>1. CASE u # t
    <3>1. list'[u] = list[u]
      BY <1>6, <2>1
    <3>2. x \in Entries /\ y \in Entries
      BY <1>7, <1>9, <3>1 DEF EventsOf
    <3>3. Precedes(x, y)
      BY <1>9, <3>1, OrderedByPrecedes DEF IInv
    <3> QED BY <3>2, <3>3, PrecedesStable
  <2>2. CASE u = t
    <3>1. list'[u] = l
      BY <1>6, <2>2 DEF l
    <3>2. /\ Len(old) \in Nat /\ Len(new) \in Nat /\ DOMAIN old = 1 .. Len(old)
          /\ DOMAIN new = 1 .. Len(new) /\ DOMAIN l = 1 .. Len(old) + Len(new)
      BY <1>8
    <3>3. i \in 1 .. Len(old) + Len(new) /\ j \in 1 .. Len(old) + Len(new) /\ x = l[i] /\ y = l[j]
      BY <1>9, <3>1, <3>2
    <3>4. CASE j <= Len(old)
      <4>1. i \in DOMAIN old /\ j \in DOMAIN old /\ x = old[i] /\ y = old[j]
        BY <1>8, <1>9, <3>2, <3>3, <3>4
      <4>2. x \in Entries /\ y \in Entries
        BY <1>5, <1>7, <4>1 DEF EventsOf
      <4>3. Precedes(x, y)
        BY <1>5, <1>9, <4>1, OrderedByPrecedes DEF IInv
      <4> QED BY <4>2, <4>3, PrecedesStable
    <3>5. CASE i <= Len(old) /\ ~(j <= Len(old))
      <4>1. i \in 1 .. Len(old) /\ j - Len(old) \in 1 .. Len(new)
        BY <3>2, <3>3, <3>5
      <4>2. i \in DOMAIN old /\ x = old[i] /\ j - Len(old) \in DOMAIN new /\ y = new[j - Len(old)]
        BY <1>8, <3>2, <3>3, <3>5, <4>1
      <4>3. x \in Entries
        BY <1>5, <1>7, <4>2 DEF EventsOf
      <4>4. y = p \/ (m # NoEvent /\ y = f)
        BY <1>4, <4>2
      <4> QED BY <1>1, <1>2, <1>3, <4>3, <4>4, FiledPrecedesNew
    <3>6. CASE ~(i <= Len(old))
      <4>1. /\ i - Len(old) \in 1 .. Len(new) /\ j - Len(old) \in 1 .. Len(new)
            /\ i - Len(old) < j - Len(old) /\ ~(j <= Len(old))
        BY <1>9, <3>2, <3>3, <3>6
      <4>2. m # NoEvent /\ new = <<f, p>>
        <5>1. CASE m = NoEvent
          <6>1. Len(new) = 1
            BY <1>4, <5>1
          <6> QED BY <3>2, <4>1, <6>1
        <5> QED BY <1>4, <5>1
      <4>3. i - Len(old) = 1 /\ j - Len(old) = 2
        <5>1. Len(new) = 2
          BY <4>2
        <5> QED BY <3>2, <3>3, <4>1, <5>1
      <4>4. x = f /\ y = p
        BY <1>8, <3>2, <3>3, <3>6, <4>1, <4>2, <4>3
      <4> QED BY <1>1, <1>2, <1>3, <4>2, <4>4, FiledPrecedesNew
    <3> QED BY <3>2, <3>3, <3>4, <3>5, <3>6
  <2> QED BY <2>1, <2>2
<1>10. \A u \in Tids : \A i, j \in DOMAIN list'[u] :
         i < j => Precedes(list[u][i], list[u][j])'
  BY <1>9
<1> QED BY <1>10 DEF InOrder, Precedes

\* A turn of the loop keeps the invariant.
LEMMA SplitKeeps ==
  ASSUME IInv, Split
  PROVE  IInv'
<1>1. /\ trace' = trace /\ pos' = pos + 1 /\ pos \in DOMAIN trace /\ trace \in Traces
      /\ DOMAIN woken' = DOMAIN woken \cup ({waker[trace[pos].tid]} \ {NoEvent})
      /\ waker[trace[pos].tid] \in Wakeups \cup {NoEvent}
      /\ \A x \in DOMAIN woken : woken'[x] = woken[x]
      /\ waker[trace[pos].tid] # NoEvent => woken'[waker[trace[pos].tid]] = pos
  BY SplitEffect DEF IInv, SplitInv
<1>2. pos' \in 1 .. Len(trace') + 1 /\ pos \in 1 .. pos' - 1 /\ 1 .. pos - 1 \subseteq 1 .. pos' - 1
  BY <1>1, TraceFacts
<1>3. DOMAIN woken' \subseteq Wakeups' /\ woken' \in [DOMAIN woken' -> 1 .. pos' - 1]
  <2>1. Wakeups' = Wakeups
    BY <1>1 DEF Wakeups
  <2>2. \A x \in DOMAIN woken' : woken'[x] \in 1 .. pos' - 1
    BY <1>1, <1>2 DEF IInv, SplitInv
  <2>3. woken' = [x \in DOMAIN woken' |-> woken'[x]]
    BY DEF Split
  <2> QED BY <1>1, <2>1, <2>2, <2>3 DEF IInv, SplitInv
<1>4. SplitInv'
  BY <1>1, <1>2, <1>3, SplitKeepsWakers, SplitKeepsLists DEF SplitInv, EventsOf
<1>5. TasksInv'
  <2>1. phase = "split" /\ phase' = "split" /\ UNCHANGED taskVars
    BY DEF Split
  <2>2. ASSUME NEW t \in Tids PROVE TaskInv(t)'
    <3>1. TaskInv(t) /\ pc[t] = "posted"
      BY <2>1 DEF IInv, TasksInv, TaskInv
    <3> QED BY <2>1, <3>1 DEF TaskInv, taskVars, Adding
  <2> QED BY <2>1, <2>2 DEF IInv, TasksInv, taskVars
<1> QED BY <1>4, <1>5, SplitKeepsLists, SplitKeepsLastWaker, SplitKeepsOrder DEF IInv

-----------------------------------------------------------------------------
(* update_events_in_thread.                                                *)

OrderedList(l) == \A i, j \in DOMAIN l : i < j => Precedes(l[i], l[j])

\* The tasks leave what threads_wait_graph has found.
LEMMA SplitVarsFrame ==
  ASSUME IInv, UNCHANGED splitVars
  PROVE  /\ SplitInv' /\ LastWakerWins'
         /\ \A e : Kind(e)' = Kind(e)
         /\ \A e, f : Precedes(e, f)' <=> Precedes(e, f)
<1>1. UNCHANGED <<trace, pos, waker, woken, all>>
  BY DEF splitVars
<1>2. /\ Wakeups' = Wakeups /\ Entries' = Entries /\ EventsOf(all)' = EventsOf(all)
      /\ \A t : WakersAt(t, pos)' = WakersAt(t, pos)
      /\ \A p : WakersOf(p)' = WakersOf(p)
  BY <1>1 DEF Wakeups, Entries, Woken, EventsOf, WakersAt, WakersOf
<1>3. \A e : Kind(e)' = Kind(e) /\ Time(e)' = Time(e)
  BY <1>1 DEF Kind, Time
<1>4. SplitInv'
  BY <1>1, <1>2 DEF IInv, SplitInv
<1>5. LastWakerWins'
  BY <1>1, <1>2 DEF IInv, LastWakerWins
<1>6. \A e, f : Precedes(e, f)' <=> Precedes(e, f)
  BY <1>1, <1>3 DEF Precedes
<1> QED BY <1>3, <1>4, <1>5, <1>6

\* What `erased` may become.
LEMMA ErasureIsNoted ==
  ASSUME IInv, NEW t \in Tids,
         erased' = erased \/ \E c \in {"tsm", "intr"} : erased' = Append(erased, <<c, t>>)
  PROVE  /\ erased' \in Seq({"tsm", "intr"} \X Tids)
         /\ erased # <<>> => erased' # <<>>
         /\ (\E c \in {"tsm", "intr"} : erased' = Append(erased, <<c, t>>)) => erased' # <<>>
<1>1. erased \in Seq({"tsm", "intr"} \X Tids)
  BY DEF IInv, TasksInv
<1>2. ASSUME NEW c \in {"tsm", "intr"}, erased' = Append(erased, <<c, t>>)
      PROVE  erased' \in Seq({"tsm", "intr"} \X Tids) /\ erased' # <<>>
  <2>1. <<c, t>> \in {"tsm", "intr"} \X Tids
    OBVIOUS
  <2> QED BY <1>1, <1>2, <2>1, AppendProperties
<1> QED BY <1>1, <1>2

\* A step of the task of thread t that leaves the list l, of the events there were.
LEMMA TaskFrame ==
  ASSUME IInv, phase = "clean", phase' \in {"clean", "crashed"}, UNCHANGED splitVars,
         NEW t \in Tids,
         NEW l \in Seq(Nat), list' = [list EXCEPT ![t] = l],
         EventsOf(l) \subseteq EventsOf(list[t]), OrderedList(l),
         NEW p \in Places, pc' = [pc EXCEPT ![t] = p],
         NEW a \in Nat \ {0}, at' = [at EXCEPT ![t] = a],
         NEW s \in [r : Nat, k : Nat \ {0}, count : Nat], sig' = [sig EXCEPT ![t] = s],
         erased' = erased \/ \E c \in {"tsm", "intr"} : erased' = Append(erased, <<c, t>>),
         TaskInv(t)'
  PROVE  IInv'
<1>0. erased' \in Seq({"tsm", "intr"} \X Tids) /\ (erased # <<>> => erased' # <<>>)
  BY ErasureIsNoted
<1>1. /\ list \in [Tids -> Seq(Nat)] /\ pc \in [Tids -> Places] /\ at \in [Tids -> Nat \ {0}]
      /\ sig \in [Tids -> [r : Nat, k : Nat \ {0}, count : Nat]]
  BY DEF IInv, ListsInv, TasksInv
<1>2. /\ list' \in [Tids -> Seq(Nat)] /\ pc' \in [Tids -> Places] /\ at' \in [Tids -> Nat \ {0}]
      /\ sig' \in [Tids -> [r : Nat, k : Nat \ {0}, count : Nat]]
  BY <1>1
<1>3. \A u \in Tids : u # t =>
         list'[u] = list[u] /\ pc'[u] = pc[u] /\ at'[u] = at[u] /\ sig'[u] = sig[u]
  BY <1>1
<1>4. list'[t] = l
  BY <1>1
<1>5. ASSUME NEW u \in Tids PROVE TaskInv(u)'
  <2>1. CASE u = t
    BY <2>1
  <2>2. CASE u # t
    <3>1. TaskInv(u)
      BY DEF IInv, TasksInv
    <3>2. list'[u] = list[u] /\ pc'[u] = pc[u] /\ at'[u] = at[u] /\ sig'[u] = sig[u]
          /\ phase # "split" /\ phase' # "split" /\ Here(u)' = Here(u)
      BY <1>3, <2>2 DEF Here
    <3>3. (Kind(list[u][Here(u)]) = "trap")' <=> Kind(list[u][Here(u)]) = "trap"
      BY <3>2, SplitVarsFrame DEF Kind, splitVars
    <3> QED BY <1>0, <3>1, <3>2, <3>3 DEF TaskInv
  <2> QED BY <2>1, <2>2
<1>6. TasksInv'
  BY <1>0, <1>2, <1>5 DEF TasksInv
<1>7. ListsInv'
  <2>1. \A u \in Tids : EventsOf(list[u]) \subseteq EventsOf(all)
    BY DEF IInv, ListsInv
  <2>2. ASSUME NEW u \in Tids PROVE EventsOf(list'[u]) \subseteq EventsOf(all')
    <3>1. all' = all
      BY DEF splitVars
    <3> QED BY <1>3, <1>4, <2>1, <3>1
  <2> QED BY <1>2, <2>2 DEF ListsInv, EventsOf
<1>8. ASSUME NEW u \in Tids, NEW i \in DOMAIN list'[u], NEW j \in DOMAIN list'[u], i < j,
             NEW x, NEW y, x = list'[u][i], y = list'[u][j]
      PROVE  Precedes(x, y)'
  <2>1. Precedes(x, y)
    BY <1>3, <1>4, <1>8, OrderedByPrecedes DEF OrderedList, IInv
  <2> QED BY <2>1, SplitVarsFrame
<1>9. \A u \in Tids : \A i, j \in DOMAIN list'[u] :
        i < j => Precedes(list[u][i], list[u][j])'
  BY <1>8
<1>10. InOrder'
  BY <1>9 DEF InOrder, Precedes
<1> QED BY <1>6, <1>7, <1>10, SplitVarsFrame DEF IInv

\* Erasing an event leaves the others in their order.
LEMMA ErasureKeepsOrder ==
  ASSUME NEW l \in Seq(Nat), NEW i \in DOMAIN l, OrderedList(l)
  PROVE  /\ OrderedList(RemoveAt(l, i))
         /\ EventsOf(RemoveAt(l, i)) \subseteq EventsOf(l)
<1>1. /\ RemoveAt(l, i) \in Seq(Nat) /\ Len(RemoveAt(l, i)) = Len(l) - 1
      /\ \A j \in 1 .. Len(l) - 1 : RemoveAt(l, i)[j] = IF j < i THEN l[j] ELSE l[j + 1]
  BY RemoveAtProperties
<1>2. /\ Len(l) \in Nat /\ DOMAIN l = 1 .. Len(l) /\ i \in 1 .. Len(l)
      /\ DOMAIN RemoveAt(l, i) = 1 .. Len(l) - 1
  BY <1>1
<1>3. ASSUME NEW j \in DOMAIN RemoveAt(l, i)
      PROVE  RemoveAt(l, i)[j] \in EventsOf(l)
  <2>1. j \in DOMAIN l /\ j + 1 \in DOMAIN l
    BY <1>2
  <2> QED BY <1>1, <1>2, <2>1 DEF EventsOf
<1>4. ASSUME NEW j \in DOMAIN RemoveAt(l, i), NEW k \in DOMAIN RemoveAt(l, i), j < k
      PROVE  Precedes(RemoveAt(l, i)[j], RemoveAt(l, i)[k])
  <2> DEFINE old(n) == IF n < i THEN n ELSE n + 1
  <2>1. old(j) \in DOMAIN l /\ old(k) \in DOMAIN l /\ old(j) < old(k)
    <3>1. j \in 1 .. Len(l) - 1 /\ k \in 1 .. Len(l) - 1 /\ j < k /\ i \in 1 .. Len(l) /\ Len(l) \in Nat
      BY <1>2, <1>4
    <3>2. old(j) \in 1 .. Len(l) /\ old(k) \in 1 .. Len(l) /\ old(j) < old(k)
      <4>1. j \in Nat /\ k \in Nat /\ i \in Nat
        BY <3>1
      <4>2. CASE k < i
        BY <3>1, <4>1, <4>2
      <4>3. CASE ~(k < i) /\ j < i
        BY <3>1, <4>1, <4>3
      <4>4. CASE ~(k < i) /\ ~(j < i)
        BY <3>1, <4>1, <4>4
      <4> QED BY <4>2, <4>3, <4>4
    <3> QED BY <1>2, <3>2
  <2>2. RemoveAt(l, i)[j] = l[old(j)] /\ RemoveAt(l, i)[k] = l[old(k)]
    BY <1>1, <1>2
  <2> QED BY <2>1, <2>2 DEF OrderedList
<1> QED BY <1>3, <1>4 DEF OrderedList, EventsOf

\* What is known of the task of thread t while the lists are cleaned.
LEMMA TaskTypes ==
  ASSUME IInv, NEW t \in Tids
  PROVE  /\ list \in [Tids -> Seq(Nat)] /\ pc \in [Tids -> Places] /\ at \in [Tids -> Nat \ {0}]
         /\ sig \in [Tids -> [r : Nat, k : Nat \ {0}, count : Nat]]
         /\ list[t] \in Seq(Nat) /\ Len(list[t]) \in Nat /\ DOMAIN list[t] = 1 .. Len(list[t])
         /\ at[t] \in Nat \ {0}
         /\ sig[t].r \in Nat /\ sig[t].k \in Nat \ {0} /\ sig[t].count \in Nat
         /\ TaskInv(t) /\ OrderedList(list[t]) /\ EventsOf(list[t]) \subseteq EventsOf(list[t])
         /\ \A e : Kind(e)' = IF e > Len(trace') THEN "faked" ELSE trace'[e].kind
BY OrderedByPrecedes DEF IInv, ListsInv, TasksInv, OrderedList, Kind

\* What a step leaves as it is, is left for t too.
LEMMA SameIsUpdate ==
  ASSUME IInv, NEW t \in Tids
  PROVE  /\ list = [list EXCEPT ![t] = list[t]] /\ pc = [pc EXCEPT ![t] = pc[t]]
         /\ at = [at EXCEPT ![t] = at[t]] /\ sig = [sig EXCEPT ![t] = sig[t]]
         /\ pc[t] \in Places /\ at[t] \in Nat \ {0}
         /\ sig[t] \in [r : Nat, k : Nat \ {0}, count : Nat]
         /\ NoSearch \in [r : Nat, k : Nat \ {0}, count : Nat]
BY TaskTypes DEF NoSearch

\* A task begins at the head of a list that is not empty.
LEMMA TakeKeeps ==
  ASSUME IInv, NEW t \in Tids, Take(t)
  PROVE  IInv'
<1>1. /\ phase = "clean" /\ pc[t] = "posted" /\ pc' = [pc EXCEPT ![t] = "event"]
      /\ UNCHANGED <<splitVars, list, phase, at, sig, erased>>
  BY DEF Take
<1>2. TaskInv(t)'
  <2>1. pc'[t] = "event"
    BY <1>1, TaskTypes
  <2>2. at[t] = 1 /\ list[t] # <<>> /\ sig[t] = NoSearch
    BY <1>1, TaskTypes DEF TaskInv
  <2>3. at'[t] \in DOMAIN list'[t] /\ sig'[t] = NoSearch
    BY <1>1, <2>2, TaskTypes
  <2> QED BY <1>1, <2>1, <2>3 DEF TaskInv, Adding
<1>3. "event" \in Places
  BY DEF Places
<1> QED BY <1>1, <1>2, <1>3, TaskFrame, TaskTypes, SameIsUpdate

LEMMA EventKeeps ==
  ASSUME IInv, NEW t \in Tids, Event(t)
  PROVE  IInv'
<1> DEFINE trap == Kind(list[t][at[t]]) = "trap"
           msgs == {i \in 1 .. at[t] : Kind(list[t][i]) = "msg"}
           r    == IF msgs = {} THEN 0 ELSE CHOOSE i \in msgs : \A j \in msgs : j <= i
           s    == IF trap THEN [NoSearch EXCEPT !.r = r] ELSE NoSearch
           p    == IF trap THEN "sig" ELSE "tsm"
<1>1. /\ phase = "clean" /\ pc[t] = "event"
      /\ UNCHANGED <<splitVars, list, phase, at, erased>>
  BY DEF Event
<1>2. at[t] \in DOMAIN list[t] /\ sig[t] = NoSearch
  BY <1>1, TaskTypes DEF TaskInv
<1>3. pc' = [pc EXCEPT ![t] = p] /\ sig' = [sig EXCEPT ![t] = s]
  BY <1>2, SameIsUpdate DEF Event
<1>4. trap => r \in Nat /\ r < at[t]
  <2>1. msgs # {} => \E i \in msgs : \A j \in msgs : j <= i
    <3>1. msgs \in SUBSET (0 .. at[t]) /\ at[t] \in Nat
      BY TaskTypes
    <3> HIDE DEF msgs
    <3> QED BY <3>1, MaxExists
  <2>2. msgs # {} => r \in msgs
    BY <2>1
  <2>3. trap => at[t] \notin msgs
    OBVIOUS
  <2>4. msgs = {} => r = 0
    OBVIOUS
  <2>5. msgs \subseteq 1 .. at[t] /\ at[t] \in Nat \ {0}
    BY TaskTypes
  <2> HIDE DEF r, msgs, trap
  <2>6. trap /\ msgs # {} => r \in 1 .. at[t] /\ r # at[t]
    BY <2>2, <2>3, <2>5
  <2> QED BY <2>4, <2>5, <2>6
<1> HIDE DEF r
<1>5. s \in [r : Nat, k : Nat \ {0}, count : Nat] /\ p \in Places
  BY <1>4 DEF NoSearch, Places
<1>6. TaskInv(t)'
  <2>1. pc'[t] = p /\ sig'[t] = s
    BY <1>3, TaskTypes
  <2>2. CASE ~trap
    BY <1>1, <1>2, <2>1, <2>2, TaskTypes DEF TaskInv, Adding
  <2>3. CASE trap
    <3>1. s.r = r /\ s.count = 0 /\ Here(t)' = at[t]
      BY <1>1, <2>1, <2>3, TaskTypes DEF NoSearch, Here
    <3>2. (Kind(list[t][Here(t)]) = "trap")'
      BY <1>1, <2>3, <3>1, SplitVarsFrame DEF Kind, splitVars
    <3> QED BY <1>1, <1>2, <1>4, <2>1, <2>3, <3>1, <3>2, TaskTypes DEF TaskInv, Adding
  <2> QED BY <2>2, <2>3
<1> QED BY <1>1, <1>3, <1>5, <1>6, TaskFrame, TaskTypes, SameIsUpdate

LEMMA TsmKeeps ==
  ASSUME IInv, NEW t \in Tids, Tsm(t)
  PROVE  IInv'
<1>1. /\ phase = "clean" /\ pc[t] = "tsm" /\ UNCHANGED <<splitVars, phase, at, sig>>
  BY DEF Tsm
<1>2. at[t] \in 1 .. Len(list[t]) /\ sig[t] = NoSearch
  BY <1>1, TaskTypes DEF TaskInv
<1>3. CASE TsmPair(t)
  <2>1. at[t] < Len(list[t])
    BY <1>3 DEF TsmPair, WakeupNext
  <2> DEFINE one == RemoveAt(list[t], at[t])
             two == RemoveAt(one, at[t])
  <2>2. one \in Seq(Nat) /\ Len(one) = Len(list[t]) - 1
    BY <1>2, TaskTypes, RemoveAtProperties
  <2>3. OrderedList(one) /\ EventsOf(one) \subseteq EventsOf(list[t])
    BY <1>2, TaskTypes, ErasureKeepsOrder
  <2> HIDE DEF one
  <2>4. at[t] \in DOMAIN one
    BY <1>2, <2>1, <2>2, TaskTypes
  <2>5. two \in Seq(Nat) /\ Len(two) = Len(one) - 1
    BY <2>2, <2>4, RemoveAtProperties
  <2>6. OrderedList(two) /\ EventsOf(two) \subseteq EventsOf(list[t])
    BY <2>2, <2>3, <2>4, ErasureKeepsOrder
  <2>7. list' = [list EXCEPT ![t] = two] /\ erased' = Append(erased, <<"tsm", t>>)
        /\ pc' = [pc EXCEPT ![t] = "load tsm"]
    BY <1>3 DEF Tsm, Loads, one
  <2> HIDE DEF two
  <2>8. erased' # <<>>
    BY <2>7, ErasureIsNoted
  <2>9. at[t] \in 1 .. Len(two) + 1
    BY <1>2, <2>1, <2>2, <2>5, TaskTypes
  <2>10. pc'[t] = "load tsm" /\ list'[t] = two /\ at'[t] = at[t] /\ sig'[t] = NoSearch
    BY <1>1, <1>2, <2>7, TaskTypes
  <2>11. TaskInv(t)' /\ "load tsm" \in Places
    BY <1>1, <2>8, <2>9, <2>10 DEF TaskInv, Adding, Places
  <2> QED BY <1>1, <2>5, <2>6, <2>7, <2>8, <2>11, TaskFrame, SameIsUpdate
<1>4. CASE ~TsmPair(t)
  <2>1. pc' = [pc EXCEPT ![t] = "intr"] /\ UNCHANGED <<list, erased>>
    BY <1>4 DEF Tsm
  <2>2. pc'[t] = "intr" /\ list'[t] = list[t] /\ at'[t] = at[t] /\ sig'[t] = NoSearch
    BY <1>1, <1>2, <2>1, TaskTypes
  <2>3. TaskInv(t)' /\ "intr" \in Places
    BY <1>1, <1>2, <2>2, TaskTypes DEF TaskInv, Adding, Places
  <2> QED BY <1>1, <2>1, <2>3, TaskFrame, TaskTypes, SameIsUpdate
<1> QED BY <1>3, <1>4

\* An increment reads the counter.
LEMMA LoadKeeps ==
  ASSUME IInv, NEW t \in Tids, NEW c \in {"tsm", "intr"}, Load(t, c)
  PROVE  IInv'
<1>1. /\ phase = "clean" /\ pc[t] = Loads[c] /\ pc' = [pc EXCEPT ![t] = Stores[c]]
      /\ UNCHANGED <<splitVars, list, phase, at, sig, erased>>
  BY DEF Load
<1>2. Loads[c] \in Adding /\ Stores[c] \in Adding /\ Adding \subseteq Places
      /\ \A p \in Adding : p \notin {"posted", "event", "tsm", "intr", "sig"}
  <2>1. Loads[c] \in Adding /\ Stores[c] \in Adding
    <3>1. CASE c = "tsm"
      BY <3>1 DEF Loads, Stores, Adding
    <3>2. CASE c = "intr"
      BY <3>2 DEF Loads, Stores, Adding
    <3> QED BY <3>1, <3>2
  <2> QED BY <2>1 DEF Adding, Places
<1>3. at[t] \in 1 .. Len(list[t]) + 1 /\ erased # <<>> /\ sig[t] = NoSearch
  BY <1>1, <1>2, TaskTypes DEF TaskInv
<1>4. pc'[t] = Stores[c] /\ list'[t] = list[t] /\ at'[t] = at[t] /\ sig'[t] = NoSearch
  BY <1>1, <1>3, TaskTypes
<1>5. TaskInv(t)'
  BY <1>1, <1>2, <1>3, <1>4 DEF TaskInv
<1> QED BY <1>1, <1>2, <1>5, TaskFrame, TaskTypes, SameIsUpdate

\* An increment writes it and the iterator goes back.
LEMMA StoreKeeps ==
  ASSUME IInv, NEW t \in Tids, NEW c \in {"tsm", "intr"}, Store(t, c)
  PROVE  IInv'
<1>1. /\ phase = "clean" /\ pc[t] = Stores[c]
      /\ UNCHANGED <<splitVars, list, sig, erased>>
  BY DEF Store
<1>2. Stores[c] \in Adding
      /\ \A p \in Adding : p \notin {"posted", "event", "tsm", "intr", "sig"}
  <2>1. CASE c = "tsm"
    BY <2>1 DEF Stores, Adding
  <2>2. CASE c = "intr"
    BY <2>2 DEF Stores, Adding
  <2> QED BY <2>1, <2>2
<1>3. at[t] \in 1 .. Len(list[t]) + 1 /\ erased # <<>> /\ sig[t] = NoSearch
  BY <1>1, <1>2, TaskTypes DEF TaskInv
<1>4. CASE list[t] = <<>>
  <2>1. phase' = "crashed" /\ UNCHANGED <<pc, at>>
    BY <1>4 DEF Store, NoEventAt
  <2>2. TaskInv(t)'
    BY <1>1, <1>2, <1>3, <2>1 DEF TaskInv
  <2> QED BY <1>1, <2>1, <2>2, TaskFrame, TaskTypes, SameIsUpdate
<1>5. CASE list[t] # <<>>
  <2>1. phase' = "clean" /\ at' = [at EXCEPT ![t] = Back(at[t])] /\ pc' = [pc EXCEPT ![t] = "intr"]
    BY <1>1, <1>5 DEF Store, NoEventAt
  <2>2. Len(list[t]) # 0
    BY <1>5, TaskTypes
  <2>3. Back(at[t]) \in 1 .. Len(list[t]) /\ Back(at[t]) \in Nat \ {0}
    BY <1>3, <2>2, TaskTypes DEF Back
  <2>4. pc'[t] = "intr" /\ list'[t] = list[t] /\ at'[t] = Back(at[t]) /\ sig'[t] = NoSearch
    BY <1>1, <1>3, <2>1, TaskTypes
  <2>5. TaskInv(t)' /\ "intr" \in Places
    BY <2>1, <2>3, <2>4, TaskTypes DEF TaskInv, Adding, Places
  <2> QED BY <1>1, <2>1, <2>3, <2>5, TaskFrame, TaskTypes, SameIsUpdate
<1> QED BY <1>4, <1>5

LEMMA IntrKeeps ==
  ASSUME IInv, NEW t \in Tids, Intr(t)
  PROVE  IInv'
<1>1. /\ phase = "clean" /\ pc[t] = "intr" /\ UNCHANGED <<splitVars, phase, sig>>
  BY DEF Intr
<1>2. at[t] \in 1 .. Len(list[t]) /\ sig[t] = NoSearch
  BY <1>1, TaskTypes DEF TaskInv
<1> DEFINE pair == /\ Kind(list[t][at[t]]) = "intr" /\ WakeupNext(t, at[t])
                   /\ During(list[t][at[t] + 1], list[t][at[t]])
<1>3. CASE pair
  <2>1. at[t] + 1 \in DOMAIN list[t]
    BY <1>2, <1>3, TaskTypes DEF WakeupNext
  <2> DEFINE one == RemoveAt(list[t], at[t] + 1)
  <2>2. one \in Seq(Nat) /\ Len(one) = Len(list[t]) - 1
    BY <2>1, TaskTypes, RemoveAtProperties
  <2>3. OrderedList(one) /\ EventsOf(one) \subseteq EventsOf(list[t])
    BY <2>1, TaskTypes, ErasureKeepsOrder
  <2>4. list' = [list EXCEPT ![t] = one] /\ erased' = Append(erased, <<"intr", t>>)
        /\ pc' = [pc EXCEPT ![t] = "load intr"] /\ at' = [at EXCEPT ![t] = at[t] + 1]
    BY <1>3 DEF Intr, Loads
  <2> HIDE DEF one
  <2>5. erased' # <<>>
    BY <2>4, ErasureIsNoted
  <2>6. at[t] + 1 \in 1 .. Len(one) + 1 /\ at[t] + 1 \in Nat \ {0}
    BY <1>2, <2>1, <2>2, TaskTypes
  <2>7. pc'[t] = "load intr" /\ list'[t] = one /\ at'[t] = at[t] + 1 /\ sig'[t] = NoSearch
    BY <1>1, <1>2, <2>4, TaskTypes
  <2>8. TaskInv(t)' /\ "load intr" \in Places
    BY <1>1, <2>5, <2>6, <2>7 DEF TaskInv, Adding, Places
  <2> QED BY <1>1, <2>2, <2>3, <2>4, <2>5, <2>6, <2>8, TaskFrame, SameIsUpdate
<1>4. CASE ~pair
  <2> DEFINE p == IF at[t] < Len(list[t]) THEN "event" ELSE "finished"
  <2>1. /\ at' = [at EXCEPT ![t] = at[t] + 1] /\ pc' = [pc EXCEPT ![t] = p]
        /\ UNCHANGED <<list, erased>>
    BY <1>4 DEF Intr, NextTurn
  <2>2. at[t] + 1 \in Nat \ {0} /\ (p = "event" => at[t] + 1 \in 1 .. Len(list[t]))
    BY <1>2, TaskTypes
  <2>3. pc'[t] = p /\ list'[t] = list[t] /\ at'[t] = at[t] + 1 /\ sig'[t] = NoSearch
    BY <1>1, <1>2, <2>1, TaskTypes
  <2>4. TaskInv(t)' /\ p \in Places
    BY <1>1, <2>2, <2>3, TaskTypes DEF TaskInv, Adding, Places
  <2> QED BY <1>1, <2>1, <2>2, <2>4, TaskFrame, TaskTypes, SameIsUpdate
<1> QED BY <1>3, <1>4

-----------------------------------------------------------------------------
(* remove_sigprocessing_events.                                            *)

LEMMA PatternLength == Len(Pattern) = 7 /\ DOMAIN Pattern = 1 .. 7
BY DEF Pattern

\* An event before the breakpoint is erased: the breakpoint moves up by one, and so
\* does the place that the iterator will return to.
LEMMA EraseKeeps ==
  ASSUME IInv, NEW t \in Tids, phase = "clean", pc[t] = "sig", sig[t].r > 0,
         NEW k \in Nat \ {0}, Erase(t, k), UNCHANGED <<splitVars, phase, pc, at, erased>>
  PROVE  IInv'
<1> DEFINE r   == sig[t].r
           l   == RemoveAt(list[t], r)
           s   == [r |-> r - 1, k |-> k, count |-> sig[t].count + 1]
<1>0. phase = "clean" /\ phase' = "clean"
  OBVIOUS
<1>1. list' = [list EXCEPT ![t] = l] /\ sig' = [sig EXCEPT ![t] = s]
  BY DEF Erase
<1>2. /\ r \in Nat \ {0} /\ sig[t].count \in Nat /\ at[t] \in Nat
      /\ Here(t) = at[t] - sig[t].count
      /\ Here(t) \in 1 .. Len(list[t]) /\ Len(list[t]) \in Nat
      /\ r < Here(t) /\ Kind(list[t][Here(t)]) = "trap"
  BY TaskTypes DEF TaskInv, Here
<1>3. r \in DOMAIN list[t]
  BY <1>2, TaskTypes
<1>4. /\ l \in Seq(Nat) /\ Len(l) = Len(list[t]) - 1
      /\ \A j \in 1 .. Len(list[t]) - 1 : l[j] = IF j < r THEN list[t][j] ELSE list[t][j + 1]
  <2>1. list[t] \in Seq(Nat)
    BY TaskTypes
  <2> HIDE DEF r
  <2> QED BY <1>3, <2>1, RemoveAtProperties
<1>5. OrderedList(l) /\ EventsOf(l) \subseteq EventsOf(list[t])
  BY <1>3, TaskTypes, ErasureKeepsOrder
<1>6. s \in [r : Nat, k : Nat \ {0}, count : Nat]
  BY <1>2
<1>7. sig'[t] = s /\ list'[t] = l /\ at'[t] = at[t] /\ pc'[t] = "sig"
  BY <1>1, TaskTypes
<1>8. Here(t)' = Here(t) - 1 /\ sig'[t].r = r - 1
  BY <1>2, <1>7 DEF Here
<1>9. Here(t) - 1 \in 1 .. Len(list[t]) - 1 /\ ~(Here(t) - 1 < r) /\ r - 1 < Here(t) - 1
      /\ (Here(t) - 1) + 1 = Here(t)
  <2>1. r \in Nat \ {0} /\ Here(t) \in 1 .. Len(list[t]) /\ Len(list[t]) \in Nat /\ r < Here(t)
    BY <1>2
  <2> HIDE DEF r
  <2> QED BY <2>1
<1>10. DOMAIN l = 1 .. Len(list[t]) - 1 /\ l[Here(t) - 1] = list[t][Here(t)]
  <2> HIDE DEF l, r
  <2>1. DOMAIN l = 1 .. Len(list[t]) - 1
    <3>1. DOMAIN l = 1 .. Len(l)
      BY <1>4
    <3> QED BY <1>4, <3>1
  <2>2. l[Here(t) - 1] = list[t][(Here(t) - 1) + 1]
    BY <1>4, <1>9
  <2> QED BY <1>9, <2>1, <2>2
<1> HIDE DEF l, s, r
<1>11. (Kind(list[t][Here(t)]) = "trap")'
  BY <1>2, <1>7, <1>8, <1>10, SplitVarsFrame DEF Kind, splitVars
<1>12. TaskInv(t)'
  <2>1. pc'[t] \notin Adding /\ pc'[t] \notin {"posted", "event", "tsm", "intr"} /\ phase' # "split"
    BY <1>0, <1>7 DEF Adding
  <2>2. Here(t)' \in DOMAIN list'[t] /\ sig'[t].r < Here(t)'
    BY <1>7, <1>8, <1>9, <1>10
  <2> QED BY <1>7, <1>11, <2>1, <2>2 DEF TaskInv
<1>13. /\ pc' = [pc EXCEPT ![t] = pc[t]] /\ at' = [at EXCEPT ![t] = at[t]]
       /\ pc[t] \in Places /\ at[t] \in Nat \ {0}
  BY SameIsUpdate
<1> QED BY <1>0, <1>1, <1>4, <1>5, <1>6, <1>12, <1>13, TaskFrame

\* The reverse iterator goes towards the head of the list.
LEMMA PassKeeps ==
  ASSUME IInv, NEW t \in Tids, phase = "clean", pc[t] = "sig",
         NEW r \in Nat, r <= sig[t].r,
         NEW k \in Nat \ {0}, Pass(t, r, k), UNCHANGED <<splitVars, phase, pc, at, erased>>
  PROVE  IInv'
<1> DEFINE s == [sig[t] EXCEPT !.r = r, !.k = k]
<1>1. sig' = [sig EXCEPT ![t] = s] /\ list' = list
  BY DEF Pass
<1>2. s \in [r : Nat, k : Nat \ {0}, count : Nat] /\ s.r = r /\ s.count = sig[t].count
  BY SameIsUpdate
<1> HIDE DEF s
<1>3. sig'[t] = s /\ list'[t] = list[t] /\ at'[t] = at[t] /\ pc'[t] = "sig"
  BY <1>1, TaskTypes
<1>4. Here(t)' = Here(t)
  BY <1>2, <1>3 DEF Here
<1>5. Here(t) \in DOMAIN list[t] /\ r < Here(t) /\ Kind(list[t][Here(t)]) = "trap"
  BY TaskTypes DEF TaskInv, Here
<1>6. (Kind(list[t][Here(t)]) = "trap")'
  BY <1>1, <1>4, <1>5, SplitVarsFrame DEF Kind, splitVars
<1>7. TaskInv(t)'
  BY <1>2, <1>3, <1>4, <1>5, <1>6 DEF TaskInv, Adding
<1> QED BY <1>1, <1>2, <1>7, TaskFrame, TaskTypes, SameIsUpdate

LEMMA SigSkipKeeps ==
  ASSUME IInv, NEW t \in Tids, SigSkip(t)
  PROVE  IInv'
<1>1. /\ phase = "clean" /\ pc[t] = "sig" /\ sig[t].r > 0
      /\ UNCHANGED <<splitVars, phase, pc, at, erased>>
  BY DEF SigSkip, Searching
<1>2. sig[t].r \in Nat /\ sig[t].k \in Nat \ {0}
  BY TaskTypes
<1>3. CASE Erase(t, sig[t].k)
  BY <1>1, <1>2, <1>3, EraseKeeps
<1>4. CASE Pass(t, sig[t].r - 1, sig[t].k)
  <2>1. sig[t].r - 1 \in Nat /\ sig[t].r - 1 <= sig[t].r
    BY <1>1, <1>2
  <2> QED BY <1>1, <1>2, <1>4, <2>1, PassKeeps
<1>5. CASE sig[t].r > 1 /\ Pass(t, sig[t].r - 2, sig[t].k)
  <2>1. sig[t].r - 2 \in Nat /\ sig[t].r - 2 <= sig[t].r
    BY <1>2, <1>5
  <2> QED BY <1>1, <1>2, <1>5, <2>1, PassKeeps
<1> QED BY <1>3, <1>4, <1>5 DEF SigSkip

LEMMA SigMatchKeeps ==
  ASSUME IInv, NEW t \in Tids, SigMatch(t)
  PROVE  IInv'
<1>1. /\ phase = "clean" /\ pc[t] = "sig" /\ sig[t].r > 0
      /\ UNCHANGED <<splitVars, phase, pc, at, erased>>
  BY DEF SigMatch, Searching
<1>2. sig[t].r \in Nat /\ sig[t].r <= sig[t].r /\ sig[t].k \in Nat \ {0}
      /\ sig[t].k + 1 \in Nat \ {0} /\ Len(Pattern) + 1 \in Nat \ {0}
  BY TaskTypes, PatternLength
<1>3. \E k \in Nat \ {0} : Erase(t, k) \/ Pass(t, sig[t].r, k)
  <2>1. \/ Erase(t, sig[t].k) \/ Erase(t, sig[t].k + 1) \/ Erase(t, Len(Pattern) + 1)
        \/ Pass(t, sig[t].r, sig[t].k + 1) \/ Pass(t, sig[t].r, Len(Pattern) + 1)
    BY DEF SigMatch
  <2> QED BY <1>2, <2>1
<1> QED BY <1>1, <1>2, <1>3, EraseKeeps, PassKeeps

LEMMA SigReturnKeeps ==
  ASSUME IInv, NEW t \in Tids, SigReturn(t)
  PROVE  IInv'
<1>1. /\ phase = "clean" /\ pc[t] = "sig"
      /\ at' = [at EXCEPT ![t] = at[t] - sig[t].count] /\ sig' = [sig EXCEPT ![t] = NoSearch]
      /\ pc' = [pc EXCEPT ![t] = "tsm"]
      /\ UNCHANGED <<splitVars, list, phase, erased>>
  BY DEF SigReturn
<1>2. at[t] - sig[t].count \in 1 .. Len(list[t]) /\ at[t] - sig[t].count \in Nat \ {0}
  BY <1>1, TaskTypes DEF TaskInv, Here
<1>3. pc'[t] = "tsm" /\ list'[t] = list[t] /\ at'[t] = at[t] - sig[t].count /\ sig'[t] = NoSearch
  BY <1>1, TaskTypes
<1>4. TaskInv(t)' /\ "tsm" \in Places
  BY <1>1, <1>2, <1>3, TaskTypes DEF TaskInv, Adding, Places
<1> QED BY <1>1, <1>2, <1>4, TaskFrame, TaskTypes, SameIsUpdate

\* A null event that is followed stops everything where it is.
LEMMA SigNullKeeps ==
  ASSUME IInv, NEW t \in Tids, SigNull(t)
  PROVE  IInv'
<1>1. phase = "clean" /\ phase' = "crashed" /\ UNCHANGED <<splitVars, list, pc, at, sig, erased>>
  BY DEF SigNull, Searching, taskVars
<1>2. TaskInv(t) /\ pc'[t] = pc[t] /\ Here(t)' = Here(t)
  BY <1>1, TaskTypes DEF Here
<1>3. (Kind(list[t][Here(t)]) = "trap")' <=> Kind(list[t][Here(t)]) = "trap"
  BY <1>1, <1>2, SplitVarsFrame DEF Kind, splitVars
<1>4. TaskInv(t)'
  BY <1>1, <1>2, <1>3 DEF TaskInv
<1> QED BY <1>1, <1>4, TaskFrame, TaskTypes, SameIsUpdate

-----------------------------------------------------------------------------
(* The theorems.                                                           *)

LEMMA ListsFrame ==
  ASSUME IInv, UNCHANGED <<trace, woken, all, list>>, phase' = "split" => phase = "split"
  PROVE  ListsInv' /\ InOrder'
<1>1. \A e : Kind(e)' = Kind(e) /\ Time(e)' = Time(e) /\ TidOf(e)' = TidOf(e)
  BY DEF Kind, Time, TidOf
<1>2. EventsOf(all)' = EventsOf(all) /\ \A t \in Tids : EventsOf(list[t])' = EventsOf(list[t])
  BY DEF EventsOf
<1>3. \A t \in Tids : Gone(t)' = Gone(t)
  BY <1>1, <1>2 DEF Gone
<1>4. ListsInv'
  BY <1>2, <1>3 DEF IInv, ListsInv
<1>5. InOrder'
  <2>1. InOrder
    BY DEF IInv
  <2> QED BY <1>1, <2>1 DEF InOrder, Time, Kind
<1> QED BY <1>4, <1>5

\* The main thread posts the tasks and joins the pool.
LEMMA MainKeeps ==
  ASSUME IInv, Post \/ Join
  PROVE  IInv'
<1>1. /\ UNCHANGED <<splitVars, list, at, sig, erased>>
      /\ phase' \in {"clean", "done"}
      /\ phase = "split" => pc' = [t \in Tids |-> IF list[t] = <<>> THEN "finished" ELSE "posted"]
      /\ phase # "split" => pc' = pc
  BY DEF Post, Join, taskVars
<1>2. ListsInv' /\ InOrder'
  <2>1. all' = all /\ list' = list /\ trace' = trace /\ woken' = woken
    BY <1>1 DEF splitVars
  <2> QED BY <1>1, <2>1, ListsFrame
<1>3. ASSUME NEW t \in Tids PROVE TaskInv(t)' /\ pc'[t] \in Places
  <2>1. Here(t)' = Here(t) /\ trace' = trace
    BY <1>1 DEF Here, splitVars
  <2>2. CASE phase = "split"
    <3>1. pc[t] = "posted" /\ at[t] = 1 /\ sig[t] = NoSearch
      BY <2>2, TaskTypes DEF TaskInv
    <3>2. pc'[t] = IF list[t] = <<>> THEN "finished" ELSE "posted"
      BY <1>1, <2>2
    <3> QED BY <1>1, <3>1, <3>2 DEF TaskInv, Adding, Places
  <2>3. CASE phase # "split"
    <3>1. TaskInv(t) /\ pc'[t] = pc[t] /\ pc[t] \in Places
      BY <1>1, <2>3, TaskTypes
    <3> QED BY <1>1, <2>1, <2>3, <3>1 DEF TaskInv, Kind
  <2> QED BY <2>2, <2>3
<1>4. pc' \in [Tids -> Places]
  <2>1. pc' = [t \in Tids |-> pc'[t]]
    BY <1>1 DEF IInv, TasksInv
  <2> QED BY <1>3, <2>1
<1>5. TasksInv'
  BY <1>1, <1>3, <1>4 DEF IInv, TasksInv
<1> QED BY <1>1, <1>2, <1>5, SplitVarsFrame DEF IInv

\* Every step keeps the invariant.
LEMMA NextKeeps == IInv /\ [Next]_vars => IInv'
<1> SUFFICES ASSUME IInv, [Next]_vars PROVE IInv'
  OBVIOUS
<1>1. CASE Split
  BY <1>1, SplitKeeps
<1>2. CASE Post \/ Join
  BY <1>2, MainKeeps
<1>3. ASSUME NEW t \in Tids, Task(t) PROVE IInv'
  BY <1>3, TakeKeeps, EventKeeps, TsmKeeps, IntrKeeps, LoadKeeps, StoreKeeps,
     SigSkipKeeps, SigNullKeeps, SigMatchKeeps, SigReturnKeeps DEF Task
<1>4. CASE Stopped \/ UNCHANGED vars
  <2>1. UNCHANGED <<splitVars, list, phase, pc, at, sig, erased, trace, woken, all>>
    BY <1>4 DEF Stopped, vars, taskVars, splitVars
  <2>2. ListsInv' /\ InOrder'
    BY <2>1, ListsFrame
  <2>3. \A t \in Tids : TaskInv(t)'
    BY <2>1 DEF IInv, TasksInv, TaskInv, Here, Kind
  <2>4. TasksInv'
    BY <2>1, <2>3 DEF IInv, TasksInv
  <2> QED BY <2>1, <2>2, <2>4, SplitVarsFrame DEF IInv
<1> QED BY <1>1, <1>2, <1>3, <1>4 DEF Next

\* What holds of the lists, of the map and of the tasks after any step.
THEOREM InvariantHolds == Spec => []IInv
BY InitEstablishes, NextKeeps, PTL DEF Spec

\* Lists hold events of the trace or inserted ones, iterators are within their lists.
THEOREM TypeCorrect == Spec => []TypeOK
<1>1. IInv => TypeOK
  <2> SUFFICES ASSUME IInv PROVE TypeOK
    OBVIOUS
  <2>1. ASSUME NEW t \in Tids PROVE sig[t].r \in 0 .. Len(list[t])
    <3>1. CASE pc[t] = "sig"
      BY <3>1, TaskTypes DEF TaskInv
    <3>2. CASE pc[t] # "sig"
      BY <3>2, TaskTypes DEF TaskInv, NoSearch
    <3> QED BY <3>1, <3>2
  <2>2. ASSUME NEW t \in Tids
        PROVE  pc[t] \in Places /\ (pc[t] \in {"event", "tsm", "intr"} => at[t] \in DOMAIN list[t])
    BY TaskTypes DEF TaskInv
  <2> QED BY <2>1, <2>2 DEF IInv, TasksInv, ListsInv, SplitInv, Entries, Places, TypeOK
<1> QED BY <1>1, InvariantHolds, PTL

\* Each first event of a thread after wake-ups has one faked_woken, that of the last
\* wake-up, and no other event has one.
THEOREM LastWakerHolds == Spec => []LastWakerWins
<1>1. IInv => LastWakerWins
  BY DEF IInv
<1> QED BY <1>1, InvariantHolds, PTL

\* The list of a thread is in the order of time, but for the 0.01 of a faked_woken.
THEOREM OrderHolds == Spec => []InOrder
<1>1. IInv => InOrder
  BY DEF IInv
<1> QED BY <1>1, InvariantHolds, PTL

\* A null event is followed only in a list whose erased pair was all it held, or
\* before a wake-up that begins a list in which a breakpoint is.
THEOREM CrashesAreKnown == Spec => []CrashesOnly
<1>1. Init => CrashesOnly
  BY DEF Init, CrashesOnly
<1>2. IInv /\ CrashesOnly /\ [Next]_vars => CrashesOnly'
  <2> SUFFICES ASSUME IInv, CrashesOnly, [Next]_vars, phase' = "crashed" PROVE CrashesOnly'
    BY DEF CrashesOnly
  <2>1. ASSUME NEW t \in Tids, SigNull(t) PROVE CrashesOnly'
    <3>1. /\ pc'[t] = "sig" /\ list' = list /\ trace' = trace /\ Kind(list[t][1]) = "mr"
      BY <2>1 DEF SigNull, Searching, AtKind, taskVars, splitVars
    <3> QED BY <3>1 DEF CrashesOnly, Kind
  <2>2. ASSUME NEW t \in Tids, NEW c \in {"tsm", "intr"}, Store(t, c) PROVE CrashesOnly'
    <3>1. list[t] = <<>> /\ list' = list /\ erased' = erased /\ pc[t] = Stores[c]
      BY <2>2 DEF Store, NoEventAt
    <3>2. pc[t] \in Adding
      <4>1. CASE c = "tsm"
        BY <3>1, <4>1 DEF Stores, Adding
      <4>2. CASE c = "intr"
        BY <3>1, <4>2 DEF Stores, Adding
      <4> QED BY <4>1, <4>2
    <3> QED BY <3>1, <3>2, TaskTypes DEF TaskInv, CrashesOnly
  <2>3. CASE Stopped \/ UNCHANGED vars
    <3>1. UNCHANGED <<phase, pc, list, erased, trace>>
      BY <2>3 DEF Stopped, vars, taskVars, splitVars
    <3> QED BY <3>1 DEF CrashesOnly, Kind
  <2>4. CASE Split \/ Post \/ Join
    BY <2>4 DEF Split, Post, Join
  <2>5. ASSUME NEW t \in Tids, Take(t) \/ Event(t) \/ Tsm(t) \/ Intr(t) \/ SigSkip(t) \/ SigMatch(t)
                                 \/ SigReturn(t) \/ \E c \in {"tsm", "intr"} : Load(t, c)
        PROVE  FALSE
    BY <2>5 DEF Take, Event, Tsm, Intr, SigSkip, SigMatch, SigReturn, Load, Searching
  <2> QED BY <2>1, <2>2, <2>3, <2>4, <2>5 DEF Next, Task
<1> QED BY <1>1, <1>2, InvariantHolds, PTL DEF Spec

-----------------------------------------------------------------------------
(* What is erased.                                                         *)

NoiseKinds == {Pattern[k] : k \in DOMAIN Pattern} \cup {"reply", "faked"}

\* What may be erased from the list of t, as the list is before.
MayGo(t, e) ==
  \/ Kind(e) \in {"mr", "tsm"}
  \/ Kind(e) \in NoiseKinds /\ \E f \in EventsOf(list[t]) : Kind(f) = "trap" /\ Time(e) <= Time(f)

LEMMA NoTrapGoes ==
  ASSUME NEW t, NEW e, MayGo(t, e)
  PROVE  Kind(e) # "trap"
BY DEF MayGo, NoiseKinds, Pattern

\* A step that erases what may go from one list.
LEMMA NoiseFrame ==
  ASSUME IInv, OnlyNoiseGoes, UNCHANGED splitVars, NEW t \in Tids,
         \A u \in Tids : u # t => list'[u] = list[u],
         \A e \in EventsOf(list[t]) \ EventsOf(list'[t]) : MayGo(t, e)
  PROVE  OnlyNoiseGoes'
<1>1. UNCHANGED <<trace, woken, all>>
  BY DEF splitVars
<1>2. \A e : Kind(e)' = Kind(e) /\ Time(e)' = Time(e) /\ TidOf(e)' = TidOf(e)
  BY <1>1 DEF Kind, Time, TidOf
<1>3. EventsOf(all)' = EventsOf(all) /\ \A u \in Tids : EventsOf(list[u])' = EventsOf(list'[u])
  BY <1>1 DEF EventsOf
<1>4. ASSUME NEW f \in EventsOf(list[t]), Kind(f) = "trap" PROVE f \in EventsOf(list'[t])
  BY <1>4, NoTrapGoes
<1>5. ASSUME NEW u \in Tids, NEW e, e \in Gone(u)' PROVE IsNoise(u, e)'
  <2>1. e \in EventsOf(all) \ EventsOf(list'[u]) /\ TidOf(e) = u
    BY <1>2, <1>3, <1>5 DEF Gone
  <2>2. ASSUME IsNoise(u, e) PROVE IsNoise(u, e)'
    BY <1>2, <1>3, <1>4, <2>2 DEF IsNoise
  <2>3. CASE e \notin EventsOf(list[u])
    BY <2>1, <2>2, <2>3 DEF OnlyNoiseGoes, Gone
  <2>4. CASE e \in EventsOf(list[u])
    <3>1. u = t /\ MayGo(t, e)
      BY <2>1, <2>4
    <3> QED BY <2>2, <3>1 DEF MayGo, IsNoise, NoiseKinds
  <2> QED BY <2>3, <2>4
<1> QED BY <1>5 DEF OnlyNoiseGoes

\* Of a list without the event at i, no other event is missing.
LEMMA OnlyThatIsErased ==
  ASSUME NEW l \in Seq(Nat), NEW i \in DOMAIN l
  PROVE  EventsOf(l) \ EventsOf(RemoveAt(l, i)) \subseteq {l[i]}
<1>1. /\ RemoveAt(l, i) \in Seq(Nat) /\ Len(RemoveAt(l, i)) = Len(l) - 1
      /\ \A j \in 1 .. Len(l) - 1 : RemoveAt(l, i)[j] = IF j < i THEN l[j] ELSE l[j + 1]
  BY RemoveAtProperties
<1>2. /\ Len(l) \in Nat /\ DOMAIN l = 1 .. Len(l) /\ i \in 1 .. Len(l)
      /\ DOMAIN RemoveAt(l, i) = 1 .. Len(l) - 1
  BY <1>1
<1>3. ASSUME NEW j \in DOMAIN l, j # i PROVE l[j] \in EventsOf(RemoveAt(l, i))
  <2>1. CASE j < i
    <3>1. j \in DOMAIN RemoveAt(l, i) /\ RemoveAt(l, i)[j] = l[j]
      BY <1>1, <1>2, <2>1
    <3> QED BY <3>1 DEF EventsOf
  <2>2. CASE ~(j < i)
    <3>1. j - 1 \in 1 .. Len(l) - 1 /\ ~(j - 1 < i) /\ (j - 1) + 1 = j
      BY <1>2, <1>3, <2>2
    <3>2. j - 1 \in DOMAIN RemoveAt(l, i) /\ RemoveAt(l, i)[j - 1] = l[j]
      BY <1>1, <1>2, <3>1
    <3> QED BY <3>2 DEF EventsOf
  <2> QED BY <1>2, <2>1, <2>2
<1> QED BY <1>3 DEF EventsOf

\* What remove_sigprocessing_events erases is of a kind it looks for, or an inserted
\* event, and before the breakpoint.
LEMMA SigErasesNoise ==
  ASSUME IInv, OnlyNoiseGoes, NEW t \in Tids, SigSkip(t) \/ SigMatch(t)
  PROVE  OnlyNoiseGoes'
<1>1. pc[t] = "sig" /\ sig[t].r > 0 /\ UNCHANGED splitVars
  BY DEF SigSkip, SigMatch, Searching
<1> DEFINE r == sig[t].r
<1>2. /\ r \in DOMAIN list[t] /\ Here(t) \in DOMAIN list[t] /\ r < Here(t)
      /\ Kind(list[t][Here(t)]) = "trap"
  BY <1>1, TaskTypes DEF TaskInv, Here
<1>3. \/ list' = list
      \/ /\ list' = [list EXCEPT ![t] = RemoveAt(list[t], r)]
         /\ Kind(list[t][r]) \in NoiseKinds
  <2>1. CASE SigSkip(t)
    BY <2>1 DEF SigSkip, Erase, Pass, AtKind, NoiseKinds
  <2>2. CASE SigMatch(t)
    <3>1. CASE \E k : Pass(t, r, k)
      BY <3>1 DEF Pass
    <3>2. CASE \E k : Erase(t, k)
      <4>1. \A k \in DOMAIN Pattern : Pattern[k] \in NoiseKinds
        BY DEF NoiseKinds
      <4>2. sig[t].k \in DOMAIN Pattern
        <5>1. sig[t].k \in Nat \ {0} /\ sig[t].k <= Len(Pattern)
          BY <2>2, TaskTypes DEF SigMatch, Searching
        <5> QED BY <5>1, PatternLength
      <4>3. "reply" \in NoiseKinds /\ "msg" \in NoiseKinds
        BY DEF NoiseKinds, Pattern
      <4>4. \/ list' = list
            \/ AtKind(t) = "reply" \/ AtKind(t) = Pattern[sig[t].k] \/ AtKind(t) = "msg"
        BY <2>2 DEF SigMatch, Fits, AtKind, Pass
      <4> QED BY <3>2, <4>1, <4>2, <4>3, <4>4 DEF Erase, AtKind
    <3> QED BY <2>2, <3>1, <3>2 DEF SigMatch
  <2> QED BY <2>1, <2>2
<1>4. CASE list' = list
  BY <1>1, <1>4, NoiseFrame
<1>5. CASE /\ list' = [list EXCEPT ![t] = RemoveAt(list[t], r)]
           /\ Kind(list[t][r]) \in NoiseKinds
  <2>1. list'[t] = RemoveAt(list[t], r) /\ \A u \in Tids : u # t => list'[u] = list[u]
    BY <1>5, TaskTypes
  <2>2. Precedes(list[t][r], list[t][Here(t)])
    BY <1>2, TaskTypes DEF OrderedList
  <2>3. Time(list[t][r]) <= Time(list[t][Here(t)]) /\ list[t][Here(t)] \in EventsOf(list[t])
    BY <1>2, <2>2 DEF Precedes, EventsOf
  <2>4. MayGo(t, list[t][r])
    BY <1>2, <1>5, <2>3 DEF MayGo
  <2>5. EventsOf(list[t]) \ EventsOf(list'[t]) \subseteq {list[t][r]}
    BY <1>2, <2>1, TaskTypes, OnlyThatIsErased
  <2> QED BY <1>1, <2>1, <2>4, <2>5, NoiseFrame
<1> QED BY <1>3, <1>4, <1>5

\* What update_events_in_thread erases itself is a wake-up, or the maintenance before one.
LEMMA PairsAreNoise ==
  ASSUME IInv, OnlyNoiseGoes, NEW t \in Tids, Tsm(t) \/ Intr(t)
  PROVE  OnlyNoiseGoes'
<1> DEFINE i == at[t]
<1>1. UNCHANGED splitVars /\ pc[t] \in {"tsm", "intr"} /\ i \in DOMAIN list[t] /\ Len(list[t]) \in Nat
      /\ i \in 1 .. Len(list[t])
  BY TaskTypes DEF Tsm, Intr, TaskInv
<1>2. CASE list' = list
  BY <1>1, <1>2, NoiseFrame
<1>3. CASE Tsm(t) /\ TsmPair(t)
  <2> DEFINE one == RemoveAt(list[t], i)
             two == RemoveAt(one, i)
  <2>1. i < Len(list[t]) /\ Kind(list[t][i]) = "tsm" /\ Kind(list[t][i + 1]) = "mr"
    BY <1>3 DEF TsmPair, WakeupNext
  <2>2. one \in Seq(Nat) /\ Len(one) = Len(list[t]) - 1 /\ one[i] = list[t][i + 1]
    <3>1. i \in 1 .. Len(list[t]) - 1 /\ ~(i < i)
      BY <1>1, <2>1
    <3>2. /\ one \in Seq(Nat) /\ Len(one) = Len(list[t]) - 1
          /\ \A j \in 1 .. Len(list[t]) - 1 :
               one[j] = IF j < i THEN list[t][j] ELSE list[t][j + 1]
      <4>1. list[t] \in Seq(Nat) /\ i \in DOMAIN list[t]
        BY <1>1, TaskTypes
      <4> HIDE DEF i
      <4> QED BY <4>1, RemoveAtProperties
    <3> HIDE DEF one
    <3> QED BY <3>1, <3>2
  <2>3. list' = [list EXCEPT ![t] = two]
    BY <1>3 DEF Tsm
  <2>4. EventsOf(list[t]) \ EventsOf(one) \subseteq {list[t][i]}
    BY <1>1, TaskTypes, OnlyThatIsErased
  <2> HIDE DEF one
  <2>5. EventsOf(one) \ EventsOf(two) \subseteq {one[i]}
    <3>1. i \in DOMAIN one
      BY <1>1, <2>1, <2>2
    <3> QED BY <2>2, <3>1, OnlyThatIsErased
  <2> HIDE DEF two
  <2>6. list'[t] = two /\ \A u \in Tids : u # t => list'[u] = list[u]
    BY <2>3, TaskTypes
  <2>7. EventsOf(list[t]) \ EventsOf(list'[t]) \subseteq {list[t][i], list[t][i + 1]}
    BY <2>2, <2>4, <2>5, <2>6
  <2>8. MayGo(t, list[t][i]) /\ MayGo(t, list[t][i + 1])
    BY <2>1 DEF MayGo
  <2> QED BY <1>1, <2>6, <2>7, <2>8, NoiseFrame
<1>4. CASE Intr(t) /\ list' = [list EXCEPT ![t] = RemoveAt(list[t], i + 1)] /\ WakeupNext(t, i)
  <2>1. i + 1 \in DOMAIN list[t] /\ Kind(list[t][i + 1]) = "mr"
    BY <1>1, <1>4, TaskTypes DEF WakeupNext
  <2>2. list'[t] = RemoveAt(list[t], i + 1) /\ \A u \in Tids : u # t => list'[u] = list[u]
    BY <1>4, TaskTypes
  <2>3. EventsOf(list[t]) \ EventsOf(list'[t]) \subseteq {list[t][i + 1]}
    BY <2>1, <2>2, TaskTypes, OnlyThatIsErased
  <2>4. MayGo(t, list[t][i + 1])
    BY <2>1 DEF MayGo
  <2> QED BY <1>1, <2>2, <2>3, <2>4, NoiseFrame
<1> QED BY <1>2, <1>3, <1>4 DEF Tsm, Intr

\* The cleaning removes from a list only wake-ups, the maintenance before one and, with
\* a later breakpoint of the thread that stays, the kinds of its signal: the first part
\* of CleaningIsExact.
THEOREM NothingElseGoes == Spec => []OnlyNoiseGoes
<1>1. Init => OnlyNoiseGoes
  BY DEF Init, OnlyNoiseGoes, Gone, EventsOf
<1>2. IInv /\ OnlyNoiseGoes /\ [Next]_vars => OnlyNoiseGoes'
  <2> SUFFICES ASSUME IInv, OnlyNoiseGoes, [Next]_vars PROVE OnlyNoiseGoes'
    OBVIOUS
  <2>1. CASE Split
    <3>1. IInv' /\ phase' = "split"
      BY <2>1, SplitKeeps DEF Split
    <3> QED BY <3>1 DEF IInv, ListsInv, OnlyNoiseGoes
  <2>2. ASSUME NEW t \in Tids, UNCHANGED <<splitVars, list>> PROVE OnlyNoiseGoes'
    BY <2>2, NoiseFrame
  <2>3. ASSUME Tids = {}, UNCHANGED <<splitVars, list>> PROVE OnlyNoiseGoes'
    BY <2>3 DEF OnlyNoiseGoes
  <2>4. CASE UNCHANGED <<splitVars, list>>
    BY <2>2, <2>3, <2>4
  <2>5. ASSUME NEW t \in Tids, Task(t) PROVE OnlyNoiseGoes'
    <3>1. CASE SigSkip(t) \/ SigMatch(t)
      BY <3>1, SigErasesNoise
    <3>2. CASE Tsm(t) \/ Intr(t)
      BY <3>2, PairsAreNoise
    <3>3. CASE Take(t) \/ Event(t) \/ SigNull(t) \/ SigReturn(t)
               \/ \E c \in {"tsm", "intr"} : Load(t, c) \/ Store(t, c)
      BY <2>4, <3>3 DEF Take, Event, SigNull, SigReturn, Load, Store
    <3> QED BY <2>5, <3>1, <3>2, <3>3 DEF Task
  <2> QED BY <2>1, <2>4, <2>5 DEF Next, Post, Join, Stopped, vars
<1> QED BY <1>1, <1>2, InvariantHolds, PTL DEF Spec

-----------------------------------------------------------------------------
(* What is left of a list, and in which order.                             *)

\* k is the list l without n events at the position i.
Without(k, l, i, n) ==
  /\ k \in Seq(Nat) /\ i \in Nat \ {0} /\ i + n <= Len(l) + 1 /\ Len(k) = Len(l) - n
  /\ \A j \in 1 .. Len(k) : k[j] = IF j < i THEN l[j] ELSE l[j + n]

\* One erasure.
LEMMA WithoutOne ==
  ASSUME NEW l \in Seq(Nat), NEW i \in DOMAIN l
  PROVE  Without(RemoveAt(l, i), l, i, 1)
<1> PICK k : k = RemoveAt(l, i)
  OBVIOUS
<1>1. /\ k \in Seq(Nat) /\ Len(k) = Len(l) - 1
      /\ \A j \in 1 .. Len(l) - 1 : k[j] = IF j < i THEN l[j] ELSE l[j + 1]
  BY RemoveAtProperties
<1>2. i \in 1 .. Len(l) /\ Len(l) \in Nat
  OBVIOUS
<1>3. i \in Nat \ {0} /\ i + 1 <= Len(l) + 1
  BY <1>2
<1>4. \A j \in 1 .. Len(k) : k[j] = IF j < i THEN l[j] ELSE l[j + 1]
  BY <1>1
<1> QED BY <1>1, <1>3, <1>4 DEF Without

\* The two erasures of maintenance and its wake-up.
LEMMA WithoutTwo ==
  ASSUME NEW l \in Seq(Nat), NEW i \in DOMAIN l, i < Len(l)
  PROVE  Without(RemoveAt(RemoveAt(l, i), i), l, i, 2)
<1> DEFINE one == RemoveAt(l, i)
           two == RemoveAt(one, i)
<1>0. i \in 1 .. Len(l) /\ Len(l) \in Nat
  OBVIOUS
<1>1. one \in Seq(Nat) /\ Len(one) = Len(l) - 1
      /\ \A j \in 1 .. Len(l) - 1 : one[j] = IF j < i THEN l[j] ELSE l[j + 1]
  BY RemoveAtProperties
<1> HIDE DEF one
<1>2. i \in DOMAIN one
  BY <1>0, <1>1
<1>3. two \in Seq(Nat) /\ Len(two) = Len(one) - 1
      /\ \A j \in 1 .. Len(one) - 1 : two[j] = IF j < i THEN one[j] ELSE one[j + 1]
  BY <1>1, <1>2, RemoveAtProperties
<1> HIDE DEF two
<1>4. ASSUME NEW j \in 1 .. Len(l) - 2 PROVE two[j] = IF j < i THEN l[j] ELSE l[j + 2]
  <2>1. j \in 1 .. Len(one) - 1 /\ j \in 1 .. Len(l) - 1 /\ j + 1 \in 1 .. Len(l) - 1 /\ (j + 1) + 1 = j + 2
    BY <1>0, <1>1
  <2>2. CASE j < i
    BY <1>1, <1>3, <2>1, <2>2
  <2>3. CASE ~(j < i)
    <3>1. ~(j + 1 < i)
      BY <1>0, <2>3
    <3>2. two[j] = one[j + 1] /\ one[j + 1] = l[(j + 1) + 1]
      BY <1>1, <1>3, <2>1, <2>3, <3>1
    <3> QED BY <2>1, <2>3, <3>2
  <2> QED BY <2>2, <2>3
<1>5. Len(two) = Len(l) - 2 /\ i + 2 <= Len(l) + 1
  BY <1>0, <1>1, <1>3
<1>6. \A j \in 1 .. Len(two) : two[j] = IF j < i THEN l[j] ELSE l[j + 2]
  BY <1>4, <1>5
<1>7. Without(two, l, i, 2)
  <2>1. two \in Seq(Nat)
    BY <1>3
  <2>2. i \in Nat \ {0}
    BY <1>0
  <2> QED BY <1>5, <1>6, <2>1, <2>2 DEF Without
<1> QED BY <1>7 DEF one, two

\* A step of a task erases one event of its list, a pair, or nothing.
LEMMA TaskErases ==
  ASSUME IInv, NEW t \in Tids, Task(t)
  PROVE  /\ UNCHANGED splitVars
         /\ \A u \in Tids : u # t => list'[u] = list[u]
         /\ list'[t] = list[t] \/ \E i, n \in Nat : Without(list'[t], list[t], i, n)
<1>0. /\ list \in [Tids -> Seq(Nat)] /\ list[t] \in Seq(Nat) /\ Len(list[t]) \in Nat
      /\ DOMAIN list[t] = 1 .. Len(list[t])
  BY TaskTypes
<1>1. CASE UNCHANGED <<splitVars, list>>
  BY <1>1
<1>2. ASSUME NEW i \in DOMAIN list[t], list' = [list EXCEPT ![t] = RemoveAt(list[t], i)], UNCHANGED splitVars
      PROVE  /\ \A u \in Tids : u # t => list'[u] = list[u]
             /\ \E j, n \in Nat : Without(list'[t], list[t], j, n)
  <2>1. Without(RemoveAt(list[t], i), list[t], i, 1)
    BY <1>0, WithoutOne
  <2>2. list'[t] = RemoveAt(list[t], i) /\ i \in Nat /\ 1 \in Nat
    BY <1>0, <1>2
  <2>3. \A u \in Tids : u # t => list'[u] = list[u]
    BY <1>0, <1>2
  <2> QED BY <2>1, <2>2, <2>3
<1>3. CASE SigSkip(t) \/ SigMatch(t)
  <2>1. /\ UNCHANGED splitVars /\ pc[t] = "sig" /\ sig[t].r > 0
        /\ list' = list \/ list' = [list EXCEPT ![t] = RemoveAt(list[t], sig[t].r)]
    BY <1>3 DEF SigSkip, SigMatch, Searching, Erase, Pass
  <2>2. sig[t].r \in DOMAIN list[t]
    <3>1. sig[t].r \in Nat /\ Here(t) \in 1 .. Len(list[t]) /\ sig[t].r < Here(t)
      BY <1>0, <2>1, TaskTypes DEF TaskInv
    <3> QED BY <1>0, <2>1, <3>1
  <2> QED BY <1>2, <2>1, <2>2
<1>4. CASE Tsm(t)
  <2>1. UNCHANGED splitVars /\ at[t] \in DOMAIN list[t]
    BY <1>4, TaskTypes DEF Tsm, TaskInv
  <2>2. CASE TsmPair(t)
    <3>1. at[t] < Len(list[t])
      BY <2>2 DEF TsmPair, WakeupNext
    <3>2. Without(RemoveAt(RemoveAt(list[t], at[t]), at[t]), list[t], at[t], 2)
      BY <1>0, <2>1, <3>1, WithoutTwo
    <3>3. list' = [list EXCEPT ![t] = RemoveAt(RemoveAt(list[t], at[t]), at[t])]
      BY <1>4, <2>2 DEF Tsm
    <3>4. list'[t] = RemoveAt(RemoveAt(list[t], at[t]), at[t]) /\ at[t] \in Nat /\ 2 \in Nat
      BY <1>0, <2>1, <3>3
    <3>5. \A u \in Tids : u # t => list'[u] = list[u]
      BY <1>0, <3>3
    <3> QED BY <2>1, <3>2, <3>4, <3>5
  <2>3. CASE ~TsmPair(t)
    BY <1>4, <2>3 DEF Tsm
  <2> QED BY <2>2, <2>3
<1>5. CASE Intr(t)
  <2>1. UNCHANGED splitVars /\ at[t] \in DOMAIN list[t]
    BY <1>5, TaskTypes DEF Intr, TaskInv
  <2>2. \/ UNCHANGED list
        \/ at[t] < Len(list[t]) /\ list' = [list EXCEPT ![t] = RemoveAt(list[t], at[t] + 1)]
    BY <1>5 DEF Intr, WakeupNext
  <2>3. at[t] < Len(list[t]) => at[t] + 1 \in DOMAIN list[t]
    BY <1>0, <2>1
  <2> QED BY <1>2, <2>1, <2>2, <2>3
<1>6. CASE Take(t) \/ Event(t) \/ SigNull(t) \/ SigReturn(t)
           \/ \E c \in {"tsm", "intr"} : Load(t, c) \/ Store(t, c)
  BY <1>1, <1>6 DEF Take, Event, SigNull, SigReturn, Load, Store
<1> QED BY <1>3, <1>4, <1>5, <1>6 DEF Task

\* The list l of thread t holds events of t, in the order of the list of all.
OwnList(t, l) ==
  \A i \in DOMAIN l : TidOf(l[i]) = t /\ \A j \in DOMAIN l : i < j => Before(l[i], l[j])

OwnInv == \A t \in Tids : OwnList(t, list[t])

\* An erasure keeps the order of the rest.
LEMMA OwnErased ==
  ASSUME NEW t, NEW l \in Seq(Nat), OwnList(t, l), NEW i \in Nat, NEW n \in Nat, NEW k, Without(k, l, i, n)
  PROVE  OwnList(t, k)
<1>1. /\ Len(l) \in Nat /\ DOMAIN l = 1 .. Len(l) /\ k \in Seq(Nat) /\ DOMAIN k = 1 .. Len(k)
      /\ Len(k) = Len(l) - n /\ \A j \in 1 .. Len(k) : k[j] = IF j < i THEN l[j] ELSE l[j + n]
  BY DEF Without
<1> DEFINE old(j) == IF j < i THEN j ELSE j + n
<1>2. ASSUME NEW j \in DOMAIN k PROVE old(j) \in DOMAIN l /\ k[j] = l[old(j)]
  <2>0. Len(l) \in Nat
    BY <1>1
  <2>1. j \in 1 .. Len(l) - n /\ j \in 1 .. Len(k)
    BY <1>1
  <2>2. j \in 1 .. Len(l) /\ j + n \in 1 .. Len(l)
    BY <2>0, <2>1
  <2>3. CASE j < i
    BY <1>1, <2>1, <2>2, <2>3
  <2>4. CASE ~(j < i)
    BY <1>1, <2>1, <2>2, <2>4
  <2> QED BY <2>3, <2>4
<1>3. ASSUME NEW j \in DOMAIN k, NEW m \in DOMAIN k, j < m PROVE old(j) < old(m)
  <2>0. Len(k) \in Nat /\ j \in 1 .. Len(k) /\ m \in 1 .. Len(k)
    BY <1>1
  <2>1. j \in Nat /\ m \in Nat
    BY <2>0
  <2> QED BY <1>3, <2>1
<1> HIDE DEF old
<1> QED BY <1>2, <1>3 DEF OwnList

\* What is appended to the list of all comes after what is there.
LEMMA BeforeGrows ==
  ASSUME NEW all0 \in Seq(Nat), all0 = all, NEW new \in Seq(Nat), all' = all0 \o new
  PROVE  /\ \A e, f : Before(e, f) => Before(e, f)'
         /\ \A e \in EventsOf(all0), f \in EventsOf(new) : Before(e, f)'
         /\ \A i, j \in DOMAIN new : i < j => Before(new[i], new[j])'
<1> DEFINE a == all0 \o new
<1>1. /\ a \in Seq(Nat) /\ Len(a) = Len(all0) + Len(new)
      /\ \A i \in 1 .. Len(all0) + Len(new) :
           a[i] = IF i <= Len(all0) THEN all0[i] ELSE new[i - Len(all0)]
  BY EventsOfConcat
<1>2. /\ Len(all0) \in Nat /\ Len(new) \in Nat /\ DOMAIN all0 = 1 .. Len(all0)
      /\ DOMAIN new = 1 .. Len(new) /\ DOMAIN a = 1 .. Len(all0) + Len(new)
  BY <1>1
<1> HIDE DEF a
<1>3. \A e, f : Before(e, f)' <=> \E i, j \in DOMAIN a : i < j /\ a[i] = e /\ a[j] = f
  BY DEF Before, a
<1>4. /\ \A i \in DOMAIN all0 : i \in DOMAIN a /\ a[i] = all0[i]
      /\ \A i \in DOMAIN new : i + Len(all0) \in DOMAIN a /\ a[i + Len(all0)] = new[i]
  <2>1. ASSUME NEW i \in DOMAIN new PROVE i + Len(all0) \in DOMAIN a /\ a[i + Len(all0)] = new[i]
    <3>1. i + Len(all0) \in 1 .. Len(all0) + Len(new) /\ ~(i + Len(all0) <= Len(all0))
          /\ (i + Len(all0)) - Len(all0) = i
      BY <1>2
    <3> QED BY <1>1, <1>2, <3>1
  <2>2. ASSUME NEW i \in DOMAIN all0 PROVE i \in DOMAIN a /\ a[i] = all0[i]
    BY <1>1, <1>2
  <2> QED BY <2>1, <2>2
<1>5. ASSUME NEW e, NEW f, Before(e, f) PROVE Before(e, f)'
  <2>1. PICK i \in DOMAIN all0, j \in DOMAIN all0 : i < j /\ all0[i] = e /\ all0[j] = f
    BY <1>5 DEF Before
  <2> QED BY <1>3, <1>4, <2>1
<1>6. ASSUME NEW e \in EventsOf(all0), NEW f \in EventsOf(new) PROVE Before(e, f)'
  <2>1. PICK i \in DOMAIN all0, j \in DOMAIN new : all0[i] = e /\ new[j] = f
    BY DEF EventsOf
  <2>2. i < j + Len(all0)
    BY <1>2
  <2> QED BY <1>3, <1>4, <2>1, <2>2
<1>7. ASSUME NEW i \in DOMAIN new, NEW j \in DOMAIN new, i < j PROVE Before(new[i], new[j])'
  <2>1. i + Len(all0) < j + Len(all0)
    BY <1>2, <1>7
  <2> QED BY <1>3, <1>4, <2>1
<1> QED BY <1>5, <1>6, <1>7

\* What threads_wait_graph files, it files in the order of `all`.
LEMMA SplitKeepsOwn ==
  ASSUME IInv, OwnInv, Split
  PROVE  OwnInv'
<1>1. PICK t \in Tids : t = trace[pos].tid
  BY SplitEffect
<1>2. PICK new \in Seq(Nat) : new = Inserted(waker[t], pos)
  BY <1>1, SplitEffect
<1>3. PICK old \in Seq(Nat), all0 \in Seq(Nat) : old = list[t] /\ all0 = all
  BY DEF IInv, ListsInv, SplitInv
<1>4. /\ list' = [list EXCEPT ![t] = old \o new] /\ all' = all0 \o new /\ trace' = trace
      /\ list \in [Tids -> Seq(Nat)]
  BY <1>1, <1>2, <1>3 DEF Split, IInv, ListsInv
<1>5. \A u \in Tids : EventsOf(list[u]) \subseteq EventsOf(all0)
  BY <1>3 DEF IInv, ListsInv
<1>6. \A e : TidOf(e)' = TidOf(e)
  BY <1>4 DEF TidOf, Kind
<1>7. /\ \A e, f : Before(e, f) => Before(e, f)'
      /\ \A e \in EventsOf(all0), f \in EventsOf(new) : Before(e, f)'
      /\ \A i, j \in DOMAIN new : i < j => Before(new[i], new[j])'
  BY <1>3, <1>4, BeforeGrows
<1>8. \A e \in EventsOf(new) : TidOf(e) = t
  BY <1>1, <1>2, FiledIsOwn
<1> DEFINE l == old \o new
<1>9. /\ l \in Seq(Nat) /\ Len(l) = Len(old) + Len(new)
      /\ \A k \in 1 .. Len(old) + Len(new) : l[k] = IF k <= Len(old) THEN old[k] ELSE new[k - Len(old)]
  BY EventsOfConcat
<1>10. /\ Len(old) \in Nat /\ Len(new) \in Nat /\ DOMAIN old = 1 .. Len(old)
       /\ DOMAIN new = 1 .. Len(new) /\ DOMAIN l = 1 .. Len(old) + Len(new)
  BY <1>9
<1> HIDE DEF l
<1>11. OwnList(t, old) /\ EventsOf(old) \subseteq EventsOf(all0)
  BY <1>3, <1>5 DEF OwnInv
<1>12. ASSUME NEW i \in DOMAIN l
       PROVE  \/ i \in DOMAIN old /\ l[i] = old[i]
              \/ i > Len(old) /\ i - Len(old) \in DOMAIN new /\ l[i] = new[i - Len(old)]
  BY <1>9, <1>10
<1>13. ASSUME NEW i \in DOMAIN l PROVE TidOf(l[i]) = t
  BY <1>8, <1>11, <1>12 DEF OwnList, EventsOf
<1>14. ASSUME NEW i \in DOMAIN l, NEW j \in DOMAIN l, i < j PROVE Before(l[i], l[j])'
  <2>1. CASE i \in DOMAIN old /\ l[i] = old[i] /\ j \in DOMAIN old /\ l[j] = old[j]
    BY <1>7, <1>11, <1>14, <2>1 DEF OwnList
  <2>2. CASE i \in DOMAIN old /\ l[i] = old[i] /\ j - Len(old) \in DOMAIN new /\ l[j] = new[j - Len(old)]
    <3>1. l[i] \in EventsOf(all0) /\ l[j] \in EventsOf(new)
      BY <1>11, <2>2 DEF EventsOf
    <3> QED BY <1>7, <3>1
  <2>3. CASE /\ i - Len(old) \in DOMAIN new /\ l[i] = new[i - Len(old)]
             /\ j - Len(old) \in DOMAIN new /\ l[j] = new[j - Len(old)]
    <3>1. i - Len(old) < j - Len(old)
      BY <1>10, <1>14
    <3> QED BY <1>7, <2>3, <3>1
  <2>4. CASE i > Len(old) /\ j \in DOMAIN old
    BY <1>10, <1>14, <2>4
  <2> QED BY <1>12, <2>1, <2>2, <2>3, <2>4
<1>15. ASSUME NEW u \in Tids, NEW k, k = list'[u]
       PROVE  \A i \in DOMAIN k : TidOf(k[i])' = u /\ \A j \in DOMAIN k : i < j => Before(k[i], k[j])'
  <2>1. CASE u = t
    <3>1. k = l
      BY <1>4, <1>15, <2>1 DEF l
    <3> QED BY <1>6, <1>13, <1>14, <2>1, <3>1
  <2>2. CASE u # t
    <3>1. k = list[u] /\ OwnList(u, k)
      BY <1>4, <1>15, <2>2 DEF OwnInv
    <3> QED BY <1>6, <1>7, <3>1 DEF OwnList
  <2> QED BY <2>1, <2>2
<1> QED BY <1>15 DEF OwnInv, OwnList

\* The tasks leave the list of all.
LEMMA OwnFrame ==
  ASSUME UNCHANGED <<trace, all>>
  PROVE  /\ \A e : TidOf(e)' = TidOf(e)
         /\ \A e, f : Before(e, f)' <=> Before(e, f)
         /\ \A t, l : OwnList(t, l)' <=> OwnList(t, l)
<1>1. \A e : TidOf(e)' = TidOf(e)
  BY DEF TidOf, Kind
<1>2. \A e, f : Before(e, f)' <=> Before(e, f)
  BY DEF Before
<1>3. ASSUME NEW t, NEW l PROVE OwnList(t, l)' <=> OwnList(t, l)
  BY <1>1, <1>2 DEF OwnList
<1> QED BY <1>1, <1>2, <1>3

\* Every list holds events of its thread in the order in which they were.
LEMMA OwnHolds == Spec => []OwnInv
<1>1. Init => OwnInv
  BY DEF Init, OwnInv, OwnList
<1>2. IInv /\ OwnInv /\ [Next]_vars => OwnInv'
  <2> SUFFICES ASSUME IInv, OwnInv, [Next]_vars PROVE OwnInv'
    OBVIOUS
  <2>1. CASE Split
    BY <2>1, SplitKeepsOwn
  <2>2. ASSUME UNCHANGED splitVars, NEW t \in Tids, NEW l, l = list'[t], OwnList(t, l)
        PROVE  OwnList(t, list[t])'
    <3>1. UNCHANGED <<trace, all>>
      BY <2>2 DEF splitVars
    <3>2. \A e : TidOf(e)' = TidOf(e)
      BY <3>1, OwnFrame
    <3>3. \A e, f : Before(e, f)' <=> Before(e, f)
      BY <3>1, OwnFrame
    <3> QED BY <2>2, <3>2, <3>3 DEF OwnList
  <2>3. CASE UNCHANGED <<splitVars, list>>
    BY <2>2, <2>3 DEF OwnInv
  <2>4. ASSUME NEW t \in Tids, Task(t) PROVE OwnInv'
    <3>1. /\ UNCHANGED splitVars /\ \A u \in Tids : u # t => list'[u] = list[u]
          /\ list'[t] = list[t] \/ \E i, n \in Nat : Without(list'[t], list[t], i, n)
      BY <2>4, TaskErases
    <3>2. list[t] \in Seq(Nat) /\ OwnList(t, list[t])
      BY TaskTypes DEF OwnInv
    <3>3. OwnList(t, list'[t])
      <4>1. ASSUME NEW i \in Nat, NEW n \in Nat, Without(list'[t], list[t], i, n)
            PROVE  OwnList(t, list'[t])
        BY <3>2, <4>1, OwnErased
      <4> QED BY <3>1, <3>2, <4>1
    <3>4. ASSUME NEW u \in Tids PROVE OwnList(u, list'[u])
      BY <3>1, <3>3 DEF OwnInv
    <3> QED BY <2>2, <3>1, <3>4 DEF OwnInv
  <2> QED BY <2>1, <2>3, <2>4 DEF Next, Post, Join, Stopped, vars
<1> QED BY <1>1, <1>2, InvariantHolds, PTL DEF Spec

-----------------------------------------------------------------------------
(* What a task has seen to in its list.                                    *)

\* The events of the list l before the position m are up to date, or at the head.
Known(l, m) == \A j \in DOMAIN l : j < m => l[j] \in updated \/ j = 1

\* The pairs that the two branches of update_events_in_thread look for, in a list l.
IntrPair(l, j) == Kind(l[j]) = "intr" /\ j < Len(l) /\ Kind(l[j + 1]) = "mr" /\ During(l[j + 1], l[j])
NearPair(l, j) ==
  Kind(l[j]) = "tsm" /\ j < Len(l) /\ Kind(l[j + 1]) = "mr" /\ j # 1 /\ WereNeighbours(l[j], l[j + 1])

\* Before m there is no wake-up in its interrupt, before n none after maintenance.
Cleaned(l, m, n) ==
  \A j \in DOMAIN l : (j < m => ~IntrPair(l, j)) /\ (j < n => ~NearPair(l, j))

NoTrap(t) == \A i \in DOMAIN trace : trace[i].tid = t => trace[i].kind # "trap"

\* The event at which the iterator is has been looked at, the interrupts up to it
\* have been, and the maintenance.
KnownTo(p, h) == IF p \in {"sig", "tsm", "intr"} THEN h + 1 ELSE h
IntrTo(p, a)  == IF p \in Adding THEN a - 1 ELSE a
TsmTo(p, a)   == IF p = "intr" THEN a + 1 ELSE a

\* How far the task of thread t is with the list l, at place p, its iterator at a and
\* at h after the removal before a breakpoint.
Done(t, l, p, a, h) ==
  /\ Known(l, KnownTo(p, h))
  /\ p = "finished" => Len(l) < a
  /\ NoTrap(t) => p # "sig" /\ Cleaned(l, IntrTo(p, a), TsmTo(p, a))

DoneInv == phase # "split" => \A t \in Tids : Done(t, list[t], pc[t], at[t], Here(t))

\* What an erasure at i leaves is up to date as far as it was.
LEMMA KnownErased ==
  ASSUME NEW l \in Seq(Nat), NEW m \in Nat, Known(l, m), NEW i \in Nat, NEW n \in Nat,
         NEW k, Without(k, l, i, n), NEW q \in Nat, q <= m, q <= i \/ q + n <= m
  PROVE  Known(k, q)
<1>1. /\ Len(l) \in Nat /\ DOMAIN l = 1 .. Len(l) /\ k \in Seq(Nat) /\ DOMAIN k = 1 .. Len(k)
      /\ Len(k) = Len(l) - n /\ \A j \in 1 .. Len(k) : k[j] = IF j < i THEN l[j] ELSE l[j + n]
      /\ i \in Nat \ {0}
  BY DEF Without
<1>2. ASSUME NEW j \in DOMAIN k, j < q PROVE k[j] \in updated \/ j = 1
  <2>1. j \in 1 .. Len(l) - n /\ j \in 1 .. Len(k)
    BY <1>1
  <2>0. Len(l) \in Nat /\ j < q
    BY <1>1, <1>2
  <2>2. j \in 1 .. Len(l) /\ j + n \in 1 .. Len(l) /\ j < m
    BY <2>0, <2>1
  <2>3. CASE j < i
    BY <1>1, <2>1, <2>2, <2>3 DEF Known
  <2>4. CASE ~(j < i)
    <3>0. Len(l) \in Nat /\ j < q /\ j \in 1 .. Len(l) - n
      BY <1>1, <1>2, <2>1
    <3>1. j + n < m
      BY <2>4, <3>0
    <3>2. k[j] = l[j + n]
      BY <1>1, <2>1, <2>4
    <3>3. j + n = 1 => j = 1
      BY <3>0
    <3>4. j + n \in DOMAIN l
      BY <1>1, <2>2
    <3> QED BY <3>1, <3>2, <3>3, <3>4 DEF Known
  <2> QED BY <2>3, <2>4
<1> QED BY <1>2 DEF Known

\* Up to the event before an erasure no pair appears.
LEMMA CleanedErased ==
  ASSUME NEW l \in Seq(Nat), NEW m \in Nat, NEW o \in Nat, Cleaned(l, m, o), NEW i \in Nat, NEW n \in Nat,
         NEW k, Without(k, l, i, n), NEW q \in Int, q <= m, q <= o, q < i
  PROVE  Cleaned(k, q, q)
<1>1. /\ Len(l) \in Nat /\ DOMAIN l = 1 .. Len(l) /\ k \in Seq(Nat) /\ DOMAIN k = 1 .. Len(k)
      /\ Len(k) = Len(l) - n /\ \A j \in 1 .. Len(k) : k[j] = IF j < i THEN l[j] ELSE l[j + n]
  BY DEF Without
<1>2. ASSUME NEW j \in DOMAIN k, j < q, IntrPair(k, j) \/ NearPair(k, j) PROVE FALSE
  <2>1. j < Len(k) /\ j \in 1 .. Len(k)
    BY <1>1, <1>2 DEF IntrPair, NearPair
  <2>0. Len(l) \in Nat /\ Len(k) = Len(l) - n /\ j < q
    BY <1>1, <1>2
  <2>2. j + 1 \in 1 .. Len(k) /\ j \in 1 .. Len(l) /\ j < Len(l) /\ j < i /\ j + 1 < i /\ j < m /\ j < o
    <3>1. Len(k) \in Nat /\ j \in Nat
      BY <2>0, <2>1
    <3>2. j + 1 \in 1 .. Len(k) /\ j \in 1 .. Len(l) /\ j < Len(l)
      BY <2>0, <2>1, <3>1
    <3>3. j < i /\ j + 1 < i /\ j < m /\ j < o
      BY <2>0, <3>1
    <3> QED BY <3>2, <3>3
  <2>3. k[j] = l[j] /\ k[j + 1] = l[j + 1]
    BY <1>1, <2>1, <2>2
  <2>4. IntrPair(l, j) \/ NearPair(l, j)
    BY <1>2, <2>2, <2>3 DEF IntrPair, NearPair
  <2> QED BY <1>1, <2>2, <2>4 DEF Cleaned
<1> QED BY <1>2 DEF Cleaned

\* One more position of each kind.
LEMMA CleanedMore ==
  ASSUME NEW l \in Seq(Nat), NEW m \in Int
  PROVE  /\ \A o : Cleaned(l, m, o) /\ (m \in DOMAIN l => ~IntrPair(l, m)) => Cleaned(l, m + 1, o)
         /\ \A o : Cleaned(l, o, m) /\ (m \in DOMAIN l => ~NearPair(l, m)) => Cleaned(l, o, m + 1)
<1>1. \A j \in DOMAIN l : j < m + 1 => j < m \/ j = m
  OBVIOUS
<1> QED BY <1>1 DEF Cleaned

\* Two events that had another of their thread between them were no neighbours.
LEMMA BetweenNoNeighbours ==
  ASSUME NEW t, NEW l \in Seq(Nat), OwnList(t, l), EventsOf(l) \subseteq EventsOf(all),
         NEW a \in Nat, NEW b \in DOMAIN l, NEW c \in DOMAIN l, a \in DOMAIN l, a < b, b < c
  PROVE  ~WereNeighbours(l[a], l[c])
<1>1. Before(l[a], l[b]) /\ Before(l[b], l[c]) /\ TidOf(l[a]) = t /\ TidOf(l[b]) = t
  BY DEF OwnList
<1>2. l[b] \in EventsOf(all)
  BY DEF EventsOf
<1> QED BY <1>1, <1>2 DEF WereNeighbours

\* The events, the order of time and what is a pair do not change in the cleaning.
LEMMA DoneFrame ==
  ASSUME UNCHANGED splitVars, updated \subseteq updated'
  PROVE  /\ \A l, m : Known(l, m) => Known(l, m)'
         /\ \A l, m, n : Cleaned(l, m, n)' <=> Cleaned(l, m, n)
         /\ \A t : NoTrap(t)' <=> NoTrap(t)
         /\ \A t, l, p, a, h : Done(t, l, p, a, h) => Done(t, l, p, a, h)'
<1>1. UNCHANGED <<trace, woken, all>>
  BY DEF splitVars
<1>2. /\ \A e : Kind(e)' = Kind(e) /\ TidOf(e)' = TidOf(e)
      /\ \A e, f : Before(e, f)' <=> Before(e, f)
      /\ \A e, f : During(e, f)' <=> During(e, f)
      /\ EventsOf(all)' = EventsOf(all)
  BY <1>1 DEF Kind, TidOf, Before, During, EventsOf
<1>3. \A e, f : WereNeighbours(e, f)' <=> WereNeighbours(e, f)
  BY <1>2 DEF WereNeighbours
<1>4. \A l, j : (IntrPair(l, j)' <=> IntrPair(l, j)) /\ (NearPair(l, j)' <=> NearPair(l, j))
  BY <1>2, <1>3 DEF IntrPair, NearPair
<1>5. \A l, m, n : Cleaned(l, m, n)' <=> Cleaned(l, m, n)
  BY <1>4 DEF Cleaned
<1>6. \A l, m : Known(l, m) => Known(l, m)'
  BY DEF Known
<1>7. \A t : NoTrap(t)' <=> NoTrap(t)
  BY <1>1 DEF NoTrap
<1>8. \A t, l, p, a, h : Done(t, l, p, a, h) => Done(t, l, p, a, h)'
  BY <1>5, <1>6, <1>7 DEF Done
<1> QED BY <1>5, <1>6, <1>7, <1>8

\* A step of the task of thread t leaves the other tasks where they are.
LEMMA DoneStep ==
  ASSUME IInv, DoneInv, phase = "clean", UNCHANGED splitVars, updated \subseteq updated', NEW t \in Tids,
         \A u \in Tids : u # t => list'[u] = list[u] /\ pc'[u] = pc[u] /\ at'[u] = at[u] /\ sig'[u] = sig[u],
         NEW l, l = list'[t], NEW p, p = pc'[t], NEW a, a = at'[t], NEW h, h = a - sig'[t].count,
         Done(t, l, p, a, h)'
  PROVE  DoneInv'
<1>1. ASSUME NEW u \in Tids, u # t, NEW m, m = list[u], NEW q, q = pc[u], NEW b, b = at[u], NEW g, g = Here(u)
      PROVE  Done(u, m, q, b, g)' /\ m = list'[u] /\ q = pc'[u] /\ b = at'[u] /\ g = Here(u)'
  <2>1. Done(u, m, q, b, g)
    BY <1>1 DEF DoneInv
  <2>2. g = Here(u)'
    BY <1>1 DEF Here
  <2> QED BY <1>1, <2>1, <2>2, DoneFrame
<1>2. ASSUME NEW u \in Tids, u # t PROVE Done(u, list[u], pc[u], at[u], Here(u))'
  BY <1>1, <1>2
<1>3. Done(t, list[t], pc[t], at[t], Here(t))'
  <2>1. h = Here(t)'
    BY DEF Here
  <2> QED BY <2>1
<1> QED BY <1>2, <1>3 DEF DoneInv

\* The same for a step that does not look at more events.
LEMMA DoneStill ==
  ASSUME IInv, DoneInv, phase = "clean", UNCHANGED <<splitVars, updated>>, NEW t \in Tids,
         \A u \in Tids : u # t => list'[u] = list[u] /\ pc'[u] = pc[u] /\ at'[u] = at[u] /\ sig'[u] = sig[u],
         Done(t, list'[t], pc'[t], at'[t], at'[t] - sig'[t].count)
  PROVE  DoneInv'
<1>1. PICK l, p, a : l = list'[t] /\ p = pc'[t] /\ a = at'[t]
  OBVIOUS
<1>2. PICK h : h = a - sig'[t].count
  OBVIOUS
<1>3. Done(t, l, p, a, h)
  BY <1>1, <1>2
<1>4. Done(t, l, p, a, h)'
  BY <1>3, DoneFrame
<1> QED BY <1>1, <1>2, <1>4, DoneStep

\* What is known of the task of thread t.
LEMMA DoneTypes ==
  ASSUME IInv, OwnInv, DoneInv, phase = "clean", NEW t \in Tids, NEW l, l = list[t]
  PROVE  /\ l \in Seq(Nat) /\ Len(l) \in Nat /\ DOMAIN l = 1 .. Len(l)
         /\ OwnList(t, l) /\ EventsOf(l) \subseteq EventsOf(all)
         /\ Done(t, l, pc[t], at[t], Here(t))
         /\ at[t] \in Nat \ {0} /\ sig[t].count \in Nat
         /\ pc[t] # "sig" => sig[t] = NoSearch /\ Here(t) = at[t]
         /\ NoSearch.count = 0
         /\ pc[t] \in {"event", "tsm", "intr"} => at[t] \in 1 .. Len(l)
         /\ pc[t] \in Adding => at[t] \in 1 .. Len(l) + 1
<1>1. l \in Seq(Nat) /\ Len(l) \in Nat /\ DOMAIN l = 1 .. Len(l) /\ at[t] \in Nat \ {0} /\ sig[t].count \in Nat
      /\ TaskInv(t)
  BY TaskTypes
<1>2. OwnList(t, l) /\ EventsOf(l) \subseteq EventsOf(all) /\ Done(t, l, pc[t], at[t], Here(t))
  BY DEF OwnInv, DoneInv, IInv, ListsInv
<1>3. NoSearch.count = 0
  BY DEF NoSearch
<1>4. pc[t] # "sig" => sig[t] = NoSearch /\ Here(t) = at[t]
  BY <1>1, <1>3 DEF TaskInv, Here
<1> QED BY <1>1, <1>2, <1>3, <1>4 DEF TaskInv

\* No breakpoint is in the list of a thread that has none.
LEMMA NoTrapInList ==
  ASSUME IInv, OwnInv, NEW t \in Tids, NoTrap(t), NEW i \in DOMAIN list[t]
  PROVE  Kind(list[t][i]) # "trap"
<1> PICK e : e = list[t][i]
  OBVIOUS
<1>1. e \in Entries
  BY DEF IInv, ListsInv, SplitInv, EventsOf
<1>2. TidOf(e) = t
  BY DEF OwnInv, OwnList
<1>3. CASE e \in DOMAIN trace /\ Kind(e) # "faked" /\ Kind(e) = trace[e].kind
  <2>1. trace[e].tid = t
    BY <1>2, <1>3 DEF TidOf
  <2> QED BY <1>3, <2>1 DEF NoTrap
<1>4. CASE Kind(e) = "faked"
  BY <1>4
<1> QED BY <1>1, <1>3, <1>4, EntryFacts DEF IInv

\* The beginning of a task.
LEMMA TakeDone ==
  ASSUME IInv, OwnInv, DoneInv, NEW t \in Tids, Take(t)
  PROVE  DoneInv'
<1>1. /\ phase = "clean" /\ pc[t] = "posted" /\ pc' = [pc EXCEPT ![t] = "event"]
      /\ UNCHANGED <<splitVars, list, at, sig, updated>>
  BY DEF Take
<1>2. pc'[t] = "event" /\ \A u \in Tids : u # t => pc'[u] = pc[u]
  BY <1>1, TaskTypes
<1>3. Done(t, list[t], "posted", at[t], at[t]) /\ at[t] - sig[t].count = at[t]
  BY <1>1, DoneTypes
<1>4. Done(t, list[t], "event", at[t], at[t])
  BY <1>3 DEF Done, KnownTo, IntrTo, TsmTo, Adding
<1> QED BY <1>1, <1>2, <1>3, <1>4, DoneStill

\* update_process_info, and the search before a breakpoint.
LEMMA EventDone ==
  ASSUME IInv, OwnInv, DoneInv, NEW t \in Tids, Event(t)
  PROVE  DoneInv'
<1>1. /\ phase = "clean" /\ pc[t] = "event" /\ UNCHANGED <<splitVars, list, at>>
      /\ updated' = updated \cup {list[t][at[t]]}
  BY DEF Event, Informed
<1>2. PICK l, a : l = list[t] /\ a = at[t]
  OBVIOUS
<1>3. /\ l \in Seq(Nat) /\ DOMAIN l = 1 .. Len(l) /\ Len(l) \in Nat /\ a \in 1 .. Len(l) /\ a \in Nat
      /\ Done(t, l, "event", a, a)
  BY <1>1, <1>2, DoneTypes
<1>4. PICK trap \in BOOLEAN : trap <=> Kind(l[a]) = "trap"
  OBVIOUS
<1>5. PICK p : p = IF trap THEN "sig" ELSE "tsm"
  OBVIOUS
<1>6. pc' = [pc EXCEPT ![t] = p]
  BY <1>2, <1>4, <1>5 DEF Event
<1>7. \E s : sig' = [sig EXCEPT ![t] = s] /\ s.count = 0
  <2>1. CASE trap
    <3>1. \A r : [NoSearch EXCEPT !.r = r].count = 0
      BY DEF NoSearch
    <3> DEFINE msgs == {i \in 1 .. at[t] : Kind(list[t][i]) = "msg"}
               r    == IF msgs = {} THEN 0 ELSE CHOOSE i \in msgs : \A j \in msgs : j <= i
    <3>2. sig' = [sig EXCEPT ![t] = [NoSearch EXCEPT !.r = r]]
      BY <1>2, <1>4, <2>1 DEF Event
    <3> HIDE DEF r
    <3> QED BY <3>1, <3>2
  <2>2. CASE ~trap
    <3>1. sig' = sig
      BY <1>2, <1>4, <2>2 DEF Event
    <3>2. sig[t].count = 0 /\ sig = [sig EXCEPT ![t] = sig[t]]
      BY <1>1, DoneTypes, TaskTypes
    <3> QED BY <3>1, <3>2
  <2> QED BY <2>1, <2>2
<1>8. /\ pc'[t] = p /\ sig'[t].count = 0
      /\ \A u \in Tids : u # t => pc'[u] = pc[u] /\ sig'[u] = sig[u]
  BY <1>6, <1>7, TaskTypes
<1>9. Known(l, a + 1)'
  <2>1. Known(l, a)
    BY <1>3 DEF Done, KnownTo
  <2>2. ASSUME NEW j \in DOMAIN l, j < a + 1 PROVE l[j] \in updated' \/ j = 1
    <3>1. j < a \/ j = a
      BY <1>3, <2>2
    <3> QED BY <1>1, <1>2, <2>1, <3>1 DEF Known
  <2> QED BY <2>2 DEF Known
<1>10. NoTrap(t) => ~trap /\ Cleaned(l, a, a)
  BY <1>2, <1>3, <1>4, NoTrapInList DEF Done, IntrTo, TsmTo, Adding
<1>11. NoTrap(t)' <=> NoTrap(t)
  BY <1>1, DoneFrame
<1>12. Cleaned(l, a, a)' <=> Cleaned(l, a, a)
  BY <1>1, DoneFrame
<1>13. Done(t, l, p, a, a)'
  BY <1>5, <1>9, <1>10, <1>11, <1>12 DEF Done, KnownTo, IntrTo, TsmTo, Adding
<1>14. a = a - sig'[t].count /\ l = list'[t] /\ a = at'[t] /\ p = pc'[t]
  BY <1>1, <1>2, <1>3, <1>8
<1> QED BY <1>1, <1>8, <1>13, <1>14, DoneStep

\* Maintenance: the pair is erased, or there is none at the iterator.
LEMMA TsmDone ==
  ASSUME IInv, OwnInv, DoneInv, NEW t \in Tids, Tsm(t)
  PROVE  DoneInv'
<1>1. phase = "clean" /\ pc[t] = "tsm" /\ UNCHANGED <<splitVars, at, sig, updated>>
  BY DEF Tsm
<1>2. PICK l, a : l = list[t] /\ a = at[t]
  OBVIOUS
<1>3. /\ l \in Seq(Nat) /\ DOMAIN l = 1 .. Len(l) /\ Len(l) \in Nat /\ a \in 1 .. Len(l) /\ a \in Nat
      /\ OwnList(t, l) /\ EventsOf(l) \subseteq EventsOf(all)
      /\ Done(t, l, "tsm", a, a) /\ sig[t].count = 0
  BY <1>1, <1>2, DoneTypes
<1>4. Known(l, a + 1) /\ (NoTrap(t) => Cleaned(l, a, a))
  BY <1>3 DEF Done, KnownTo, IntrTo, TsmTo, Adding
<1>5. CASE TsmPair(t)
  <2>1. a < Len(l)
    BY <1>2, <1>5 DEF TsmPair, WakeupNext
  <2>2. PICK k : k = RemoveAt(RemoveAt(l, a), a)
    OBVIOUS
  <2>3. Without(k, l, a, 2)
    BY <1>3, <2>1, <2>2, WithoutTwo
  <2>4. list' = [list EXCEPT ![t] = k] /\ pc' = [pc EXCEPT ![t] = "load tsm"]
    BY <1>2, <1>5, <2>2 DEF Tsm, Loads
  <2>5. /\ list'[t] = k /\ pc'[t] = "load tsm"
        /\ \A u \in Tids : u # t => list'[u] = list[u] /\ pc'[u] = pc[u]
    BY <2>4, TaskTypes
  <2>6. Known(k, a)
    <3>1. a + 1 \in Nat /\ a <= a + 1 /\ a <= a /\ 2 \in Nat
      BY <1>3
    <3> QED BY <1>3, <1>4, <2>3, <3>1, KnownErased
  <2>7. ASSUME NoTrap(t) PROVE Cleaned(k, a - 1, a)
    <3>1. Cleaned(k, a - 1, a - 1)
      <4>1. a - 1 \in Int /\ a - 1 <= a /\ a - 1 < a
        BY <1>3
      <4> QED BY <1>3, <1>4, <2>3, <2>7, <4>1, CleanedErased
    <3>2. ASSUME a - 1 \in DOMAIN k PROVE ~NearPair(k, a - 1)
      <4>1. /\ k \in Seq(Nat) /\ Len(k) = Len(l) - 2
            /\ \A j \in 1 .. Len(k) : k[j] = IF j < a THEN l[j] ELSE l[j + 2]
        BY <2>3 DEF Without
      <4>2. DOMAIN k = 1 .. Len(k)
        BY <4>1
      <4>3. ASSUME a - 1 < Len(k) PROVE k[a - 1] = l[a - 1] /\ k[a] = l[a + 2] /\ a + 2 \in DOMAIN l
        <5>1. a - 1 \in 1 .. Len(k) /\ a \in 1 .. Len(k) /\ a - 1 < a /\ ~(a < a)
          BY <1>3, <3>2, <4>1, <4>2, <4>3
        <5>2. a + 2 \in DOMAIN l
          BY <1>3, <4>1, <5>1
        <5> QED BY <4>1, <5>1, <5>2
      <4>4. a - 1 \in DOMAIN l /\ a - 1 \in Nat /\ a \in DOMAIN l /\ a - 1 < a /\ a < a + 2 /\ (a - 1) + 1 = a
        BY <1>3, <3>2, <4>1, <4>2
      <4>5. a - 1 < Len(k) => ~WereNeighbours(k[a - 1], k[a])
        BY <1>3, <4>3, <4>4, BetweenNoNeighbours
      <4> QED BY <4>4, <4>5 DEF NearPair
    <3>3. (a - 1) + 1 = a /\ a - 1 \in Int
      BY <1>3
    <3>4. Cleaned(k, a - 1, (a - 1) + 1)
      <4>1. k \in Seq(Nat)
        BY <2>3 DEF Without
      <4> QED BY <3>1, <3>2, <3>3, <4>1, CleanedMore
    <3> QED BY <3>3, <3>4
  <2>8. Done(t, k, "load tsm", a, a)
    BY <2>6, <2>7 DEF Done, KnownTo, IntrTo, TsmTo, Adding
  <2>9. a - sig'[t].count = a /\ a = at'[t]
    BY <1>1, <1>2, <1>3
  <2> QED BY <1>1, <2>5, <2>8, <2>9, DoneStill
<1>6. CASE ~TsmPair(t)
  <2>1. pc' = [pc EXCEPT ![t] = "intr"] /\ list' = list
    BY <1>6 DEF Tsm
  <2>2. pc'[t] = "intr" /\ \A u \in Tids : u # t => pc'[u] = pc[u]
    BY <2>1, TaskTypes
  <2>3. ~NearPair(l, a)
    BY <1>2, <1>6 DEF NearPair, TsmPair, WakeupNext
  <2>4. Cleaned(l, a, a) => Cleaned(l, a, a + 1)
    BY <1>3, <2>3, CleanedMore
  <2>5. Done(t, l, "intr", a, a)
    BY <1>4, <2>4 DEF Done, KnownTo, IntrTo, TsmTo, Adding
  <2>6. a - sig'[t].count = a /\ a = at'[t]
    BY <1>1, <1>2, <1>3
  <2> QED BY <1>1, <1>2, <2>1, <2>2, <2>5, <2>6, DoneStill
<1> QED BY <1>5, <1>6

\* What a wake-up is erased for.
Reasons == {"tsm", "intr"}

\* The places of the two increments differ, and no others are theirs.
LEMMA IncrementPlaces ==
  ASSUME NEW c \in Reasons
  PROVE  /\ Loads[c] \in Adding /\ Stores[c] \in Adding /\ Loads[c] # Stores[c]
         /\ \A p \in Adding : p \notin {"posted", "event", "tsm", "intr", "sig", "finished"}
         /\ \A d \in Reasons : d # c => Loads[d] \notin {Loads[c], Stores[c]} /\ Stores[d] \notin {Loads[c], Stores[c]}
<1>1. CASE c = "tsm"
  BY <1>1 DEF Loads, Stores, Adding, Reasons
<1>2. CASE c = "intr"
  BY <1>2 DEF Loads, Stores, Adding, Reasons
<1> QED BY <1>1, <1>2 DEF Reasons

\* An increment looks at no event.
LEMMA LoadDone ==
  ASSUME IInv, OwnInv, DoneInv, NEW t \in Tids, NEW c \in Reasons, Load(t, c)
  PROVE  DoneInv'
<1>1. /\ phase = "clean" /\ pc[t] = Loads[c] /\ pc' = [pc EXCEPT ![t] = Stores[c]]
      /\ UNCHANGED <<splitVars, list, at, sig, updated>>
  BY DEF Load
<1>2. /\ Loads[c] \in Adding /\ Stores[c] \in Adding
      /\ \A p \in Adding : p \notin {"posted", "event", "tsm", "intr", "sig", "finished"}
  BY IncrementPlaces
<1>3. pc'[t] = Stores[c] /\ \A u \in Tids : u # t => pc'[u] = pc[u]
  BY <1>1, TaskTypes
<1>4. Done(t, list[t], Loads[c], at[t], at[t]) /\ at[t] - sig[t].count = at[t]
  BY <1>1, <1>2, DoneTypes
<1>5. Done(t, list[t], Stores[c], at[t], at[t])
  BY <1>2, <1>4 DEF Done, KnownTo, IntrTo, TsmTo
<1> QED BY <1>1, <1>3, <1>4, <1>5, DoneStill

\* After an increment the iterator goes back.
LEMMA StoreDone ==
  ASSUME IInv, OwnInv, DoneInv, NEW t \in Tids, NEW c \in Reasons, Store(t, c)
  PROVE  DoneInv'
<1>1. /\ phase = "clean" /\ pc[t] = Stores[c] /\ UNCHANGED <<splitVars, list, sig, updated>>
  BY DEF Store
<1>2. /\ Stores[c] \in Adding
      /\ \A p \in Adding : p \notin {"posted", "event", "tsm", "intr", "sig", "finished"}
  BY IncrementPlaces
<1>3. PICK l, a : l = list[t] /\ a = at[t]
  OBVIOUS
<1>4. /\ l \in Seq(Nat) /\ DOMAIN l = 1 .. Len(l) /\ a \in 1 .. Len(l) + 1 /\ a \in Nat \ {0}
      /\ Done(t, l, Stores[c], a, a) /\ sig[t].count = 0
  BY <1>1, <1>2, <1>3, DoneTypes
<1>5. CASE NoEventAt(list[t], at[t])
  <2>1. UNCHANGED <<pc, at>> /\ a - sig'[t].count = a
    BY <1>1, <1>4, <1>5 DEF Store
  <2> QED BY <1>1, <1>3, <1>4, <2>1, DoneStill
<1>6. CASE ~NoEventAt(list[t], at[t])
  <2>1. PICK b : b = Back(a)
    OBVIOUS
  <2>2. at' = [at EXCEPT ![t] = b] /\ pc' = [pc EXCEPT ![t] = "intr"]
    BY <1>3, <1>6, <2>1 DEF Store
  <2>3. /\ at'[t] = b /\ pc'[t] = "intr"
        /\ \A u \in Tids : u # t => pc'[u] = pc[u] /\ at'[u] = at[u]
    BY <2>2, TaskTypes
  <2>4. b \in Nat \ {0} /\ ((b = a - 1 /\ b + 1 = a) \/ (a = 1 /\ b = 1))
    BY <1>4, <2>1 DEF Back
  <2>5. Known(l, a) /\ (NoTrap(t) => Cleaned(l, a - 1, a))
    BY <1>2, <1>4 DEF Done, KnownTo, IntrTo, TsmTo
  <2>6. Known(l, b + 1)
    <3>1. \A j \in DOMAIN l : j < 2 => j = 1
      BY <1>4
    <3> QED BY <2>4, <2>5, <3>1 DEF Known
  <2>7. NoTrap(t) => Cleaned(l, b, b + 1)
    <3>1. CASE b = a - 1 /\ b + 1 = a
      BY <2>5, <3>1
    <3>2. CASE b = 1
      <4>1. \A j \in DOMAIN l : ~(j < 1) /\ (j < 2 => j = 1)
        BY <1>4
      <4> QED BY <3>2, <4>1 DEF Cleaned, NearPair
    <3> QED BY <2>4, <3>1, <3>2
  <2>8. Done(t, l, "intr", b, b)
    <3>1. KnownTo("intr", b) = b + 1 /\ IntrTo("intr", b) = b /\ TsmTo("intr", b) = b + 1
      BY DEF KnownTo, IntrTo, TsmTo, Adding
    <3> QED BY <2>6, <2>7, <3>1 DEF Done
  <2>9. b - sig'[t].count = b
    BY <1>1, <1>4, <2>4
  <2> QED BY <1>1, <1>3, <2>3, <2>8, <2>9, DoneStill
<1> QED BY <1>5, <1>6

\* An interrupt: its wake-up is erased, or the next turn begins.
LEMMA IntrDone ==
  ASSUME IInv, OwnInv, DoneInv, NEW t \in Tids, Intr(t)
  PROVE  DoneInv'
<1>1. phase = "clean" /\ pc[t] = "intr" /\ UNCHANGED <<splitVars, sig, updated>>
  BY DEF Intr
<1>2. PICK l, a : l = list[t] /\ a = at[t]
  OBVIOUS
<1>3. /\ l \in Seq(Nat) /\ DOMAIN l = 1 .. Len(l) /\ Len(l) \in Nat /\ a \in 1 .. Len(l) /\ a \in Nat
      /\ Done(t, l, "intr", a, a) /\ sig[t].count = 0 /\ a + 1 \in Nat /\ a + 1 <= a + 1
  BY <1>1, <1>2, DoneTypes
<1>4. Known(l, a + 1) /\ (NoTrap(t) => Cleaned(l, a, a + 1))
  BY <1>3 DEF Done, KnownTo, IntrTo, TsmTo, Adding
<1>5. CASE IntrPair(l, a)
  <2>1. a + 1 \in DOMAIN l /\ Kind(l[a]) = "intr"
    BY <1>3, <1>5 DEF IntrPair
  <2>2. PICK k : k = RemoveAt(l, a + 1)
    OBVIOUS
  <2>3. Without(k, l, a + 1, 1)
    BY <1>3, <2>1, <2>2, WithoutOne
  <2>4. /\ list' = [list EXCEPT ![t] = k] /\ pc' = [pc EXCEPT ![t] = "load intr"]
        /\ at' = [at EXCEPT ![t] = a + 1]
    BY <1>2, <1>5, <2>2 DEF Intr, IntrPair, WakeupNext, Loads
  <2>5. /\ list'[t] = k /\ pc'[t] = "load intr" /\ at'[t] = a + 1
        /\ \A u \in Tids : u # t => list'[u] = list[u] /\ pc'[u] = pc[u] /\ at'[u] = at[u]
    BY <2>4, TaskTypes
  <2>6. Known(k, a + 1)
    <3>1. 1 \in Nat
      OBVIOUS
    <3> QED BY <1>3, <1>4, <2>3, <3>1, KnownErased
  <2>7. ASSUME NoTrap(t) PROVE Cleaned(k, a, a + 1)
    <3>1. Cleaned(k, a, a)
      <4>1. a \in Int /\ a <= a /\ a <= a + 1 /\ a < a + 1 /\ 1 \in Nat
        BY <1>3
      <4> QED BY <1>3, <1>4, <2>3, <2>7, <4>1, CleanedErased
    <3>2. k[a] = l[a] /\ k \in Seq(Nat)
      <4>1. /\ k \in Seq(Nat) /\ Len(k) = Len(l) - 1
            /\ \A j \in 1 .. Len(k) : k[j] = IF j < a + 1 THEN l[j] ELSE l[j + 1]
        BY <2>3 DEF Without
      <4>2. a \in 1 .. Len(l) - 1 /\ a < a + 1
        BY <1>3, <2>1
      <4> QED BY <4>1, <4>2
    <3>3. ~NearPair(k, a)
      BY <2>1, <3>2 DEF NearPair
    <3> QED BY <1>3, <3>1, <3>2, <3>3, CleanedMore
  <2>8. (a + 1) - 1 = a
    BY <1>3
  <2>9. Done(t, k, "load intr", a + 1, a + 1) /\ (a + 1) - sig'[t].count = a + 1
    BY <1>1, <1>3, <2>6, <2>7, <2>8 DEF Done, KnownTo, IntrTo, TsmTo, Adding
  <2> QED BY <1>1, <2>5, <2>9, DoneStill
<1>6. CASE ~IntrPair(l, a)
  <2>1. PICK p : p = IF a < Len(l) THEN "event" ELSE "finished"
    OBVIOUS
  <2>2. at' = [at EXCEPT ![t] = a + 1] /\ pc' = [pc EXCEPT ![t] = p] /\ list' = list
    BY <1>2, <1>6, <2>1 DEF Intr, IntrPair, WakeupNext, NextTurn
  <2>3. /\ pc'[t] = p /\ at'[t] = a + 1
        /\ \A u \in Tids : u # t => pc'[u] = pc[u] /\ at'[u] = at[u]
    BY <2>2, TaskTypes
  <2>4. Cleaned(l, a, a + 1) => Cleaned(l, a + 1, a + 1)
    BY <1>3, <1>6, CleanedMore
  <2>5. p = "finished" => Len(l) < a + 1
    BY <1>3, <2>1
  <2>6. Done(t, l, p, a + 1, a + 1) /\ (a + 1) - sig'[t].count = a + 1
    BY <1>1, <1>3, <1>4, <2>1, <2>4, <2>5 DEF Done, KnownTo, IntrTo, TsmTo, Adding
  <2> QED BY <1>1, <1>2, <2>2, <2>3, <2>6, DoneStill
<1> QED BY <1>5, <1>6

\* The removal before a breakpoint moves what is after the erased event up by one.
LEMMA SigDone ==
  ASSUME IInv, OwnInv, DoneInv, NEW t \in Tids, SigSkip(t) \/ SigMatch(t) \/ SigNull(t) \/ SigReturn(t)
  PROVE  DoneInv'
<1>1. phase = "clean" /\ pc[t] = "sig" /\ UNCHANGED <<splitVars, updated>>
  BY DEF SigSkip, SigMatch, SigNull, SigReturn, Searching, taskVars
<1>2. PICK l, a, h : l = list[t] /\ a = at[t] /\ h = Here(t)
  OBVIOUS
<1>3. /\ l \in Seq(Nat) /\ DOMAIN l = 1 .. Len(l) /\ Len(l) \in Nat /\ a \in Nat
      /\ sig[t].count \in Nat /\ h = a - sig[t].count /\ h \in 1 .. Len(l) /\ h \in Nat /\ h + 1 \in Nat
      /\ sig[t].r \in Nat /\ sig[t].r < h
      /\ Known(l, h + 1) /\ ~NoTrap(t)
  <2>1. Done(t, l, "sig", a, h)
    BY <1>1, <1>2, DoneTypes
  <2>2. TaskInv(t)
    BY TaskTypes
  <2> QED BY <1>1, <1>2, <2>1, <2>2, TaskTypes DEF TaskInv, Here, Done, KnownTo
<1>4. ASSUME NEW k, UNCHANGED <<at, pc>>, Erase(t, k), sig[t].r > 0 PROVE DoneInv'
  <2>1. PICK r : r = sig[t].r
    OBVIOUS
  <2>2. PICK m : m = RemoveAt(l, r)
    OBVIOUS
  <2>3. /\ list' = [list EXCEPT ![t] = m]
        /\ sig' = [sig EXCEPT ![t] = [r |-> r - 1, k |-> k, count |-> sig[t].count + 1]]
    BY <1>2, <1>4, <2>1, <2>2 DEF Erase
  <2>4. /\ list'[t] = m /\ sig'[t].count = sig[t].count + 1
        /\ \A u \in Tids : u # t => list'[u] = list[u] /\ sig'[u] = sig[u]
    BY <2>3, TaskTypes
  <2>5. Without(m, l, r, 1)
    <3>0. r \in Nat /\ r > 0 /\ r < h /\ h \in 1 .. Len(l) /\ Len(l) \in Nat
      BY <1>3, <1>4, <2>1
    <3>1. r \in DOMAIN l
      BY <1>3, <3>0
    <3> QED BY <1>3, <2>2, <3>1, WithoutOne
  <2>6. Known(m, h)
    <3>1. h <= h + 1 /\ h + 1 <= h + 1 /\ r \in Nat /\ 1 \in Nat
      BY <1>3, <2>1
    <3> QED BY <1>3, <2>5, <3>1, KnownErased
  <2>7. a - sig'[t].count = h - 1 /\ (h - 1) + 1 = h
    <3>1. a \in Nat /\ sig[t].count \in Nat /\ h = a - sig[t].count /\ sig'[t].count = sig[t].count + 1
      BY <1>3, <2>4
    <3> QED BY <3>1
  <2>8. Done(t, m, "sig", a, h - 1)
    BY <1>3, <2>6, <2>7 DEF Done, KnownTo
  <2> QED BY <1>1, <1>2, <1>4, <2>4, <2>7, <2>8, DoneStill
<1>5. ASSUME NEW r, NEW k, UNCHANGED <<at, pc>>, Pass(t, r, k) PROVE DoneInv'
  <2>1. /\ list' = list /\ sig' = [sig EXCEPT ![t] = [sig[t] EXCEPT !.r = r, !.k = k]]
    BY <1>5 DEF Pass
  <2>2. sig'[t].count = sig[t].count /\ \A u \in Tids : u # t => sig'[u] = sig[u]
    BY <2>1, TaskTypes
  <2>3. Done(t, l, "sig", a, h) /\ a - sig'[t].count = h
    BY <1>3, <2>2 DEF Done, KnownTo
  <2> QED BY <1>1, <1>2, <1>5, <2>1, <2>2, <2>3, DoneStill
<1>6. CASE SigSkip(t)
  BY <1>4, <1>5, <1>6 DEF SigSkip, Searching
<1>7. CASE SigMatch(t)
  BY <1>4, <1>5, <1>7 DEF SigMatch, Searching
<1>8. CASE SigNull(t)
  <2>1. UNCHANGED <<list, pc, at, sig>>
    BY <1>8 DEF SigNull, taskVars
  <2>2. Done(t, l, "sig", a, h)
    BY <1>3 DEF Done, KnownTo
  <2> QED BY <1>1, <1>2, <1>3, <2>1, <2>2, DoneStill
<1>9. CASE SigReturn(t)
  <2>1. /\ at' = [at EXCEPT ![t] = h] /\ sig' = [sig EXCEPT ![t] = NoSearch]
        /\ pc' = [pc EXCEPT ![t] = "tsm"] /\ list' = list
    BY <1>2, <1>3, <1>9 DEF SigReturn
  <2>2. /\ at'[t] = h /\ sig'[t].count = 0 /\ pc'[t] = "tsm"
        /\ \A u \in Tids : u # t => pc'[u] = pc[u] /\ sig'[u] = sig[u] /\ at'[u] = at[u]
    BY <2>1, TaskTypes DEF NoSearch
  <2>3. Done(t, l, "tsm", h, h) /\ h - sig'[t].count = h
    BY <1>3, <2>2 DEF Done, KnownTo
  <2> QED BY <1>1, <1>2, <2>1, <2>2, <2>3, DoneStill
<1> QED BY <1>6, <1>7, <1>8, <1>9

\* How far every task is, in every state.
LEMMA DoneHolds == Spec => []DoneInv
<1>1. Init => DoneInv
  BY DEF Init, DoneInv
<1>2. IInv /\ OwnInv /\ DoneInv /\ [Next]_vars => DoneInv'
  <2> SUFFICES ASSUME IInv, OwnInv, DoneInv, [Next]_vars PROVE DoneInv'
    OBVIOUS
  <2>1. ASSUME NEW t \in Tids, Task(t) PROVE DoneInv'
    BY <2>1, TakeDone, EventDone, TsmDone, LoadDone, StoreDone, IntrDone, SigDone DEF Task, Reasons
  <2>2. CASE Split
    BY <2>2 DEF Split, DoneInv
  <2>3. CASE Post
    <3>1. /\ phase = "split" /\ pc' = [t \in Tids |-> IF list[t] = <<>> THEN "finished" ELSE "posted"]
          /\ UNCHANGED <<splitVars, list, at, sig, updated>>
      BY <2>3 DEF Post
    <3>2. ASSUME NEW t \in Tids, NEW l, l = list[t], NEW p, p = pc'[t] PROVE Done(t, l, p, 1, 1)
      <4>1. l \in Seq(Nat) /\ (p = "finished" => Len(l) < 1) /\ p \in {"finished", "posted"}
        BY <3>1, <3>2, TaskTypes
      <4>2. \A j \in DOMAIN l : ~(j < 1)
        BY <4>1
      <4> QED BY <4>1, <4>2 DEF Done, Known, Cleaned, KnownTo, IntrTo, TsmTo, Adding
    <3>3. ASSUME NEW t \in Tids, NEW l, l = list[t], NEW p, p = pc'[t] PROVE Done(t, l, p, 1, 1)'
      BY <3>1, <3>2, <3>3, DoneFrame
    <3>4. ASSUME NEW t \in Tids PROVE at'[t] = 1 /\ Here(t)' = 1 /\ list'[t] = list[t]
      <4>1. TaskInv(t)
        BY DEF IInv, TasksInv
      <4>2. pc[t] = "posted" /\ at[t] = 1
        BY <3>1, <4>1 DEF TaskInv
      <4>3. sig[t] = NoSearch
        BY <4>1, <4>2 DEF TaskInv
      <4>4. at[t] = 1 /\ sig[t].count = 0
        BY <4>2, <4>3 DEF NoSearch
      <4> QED BY <3>1, <4>4 DEF Here
    <3> QED BY <3>3, <3>4 DEF DoneInv
  <2>4. CASE UNCHANGED <<splitVars, list, taskVars>> /\ (phase' = "split" \/ phase # "split")
    <3>1. UNCHANGED <<list, pc, at, sig, updated, splitVars>> /\ \A t : Here(t)' = Here(t)
      BY <2>4 DEF taskVars, Here
    <3>2. ASSUME phase # "split", NEW t \in Tids, NEW l, l = list[t], NEW p, p = pc[t], NEW a, a = at[t],
                 NEW h, h = Here(t)
          PROVE  Done(t, l, p, a, h)'
      <4>1. Done(t, l, p, a, h)
        BY <3>2 DEF DoneInv
      <4> QED BY <3>1, <4>1, DoneFrame
    <3> QED BY <2>4, <3>1, <3>2 DEF DoneInv
  <2>5. CASE Join \/ Stopped \/ UNCHANGED vars
    <3>1. UNCHANGED <<splitVars, list, taskVars>> /\ (phase' = "split" \/ phase # "split")
      BY <2>5 DEF Join, Stopped, vars
    <3> QED BY <2>4, <3>1
  <2> QED BY <2>1, <2>2, <2>3, <2>5 DEF Next
<1> QED BY <1>1, <1>2, InvariantHolds, OwnHolds, PTL DEF Spec

-----------------------------------------------------------------------------
(* The counters.                                                           *)

CountTypes ==
  /\ counter \in [Reasons -> Nat] /\ register \in [Tids -> Nat]
  /\ erased \in Seq(Reasons \X Tids)

\* The threads that have erased something and not counted it.
Pending(c) == {t \in Tids : pc[t] \in {Loads[c], Stores[c]}}

\* What has been erased, less what is about to be counted.
Counted(c) == Cardinality(ErasedFor(c)) - Cardinality(Pending(c))

Tally(c) ==
  /\ counter[c] <= Counted(c) /\ (Counted(c) > 0 => counter[c] > 0)
  /\ \A t \in Pending(c) : \E k \in ErasedFor(c) : erased[k][2] = t
  /\ \A t \in Tids : pc[t] = Stores[c] => register[t] <= Counted(c)
  /\ OneErases(c) => /\ counter[c] = Counted(c)
                     /\ \A t \in Tids : pc[t] = Stores[c] => register[t] = counter[c]

\* A pool of one thread has one task at a time.
Alone == NThreads = 1 => \A t, u \in Tids : ~Idle(t) /\ ~Idle(u) => t = u

CountInv ==
  /\ CountTypes /\ Alone
  /\ phase # "crashed" => \A c \in Reasons : Tally(c)
  /\ phase = "done" => \A t \in Tids : pc[t] = "finished"

\* The sets that are counted are finite.
LEMMA CountsAreFinite ==
  ASSUME CountTypes, NEW c
  PROVE  /\ IsFiniteSet(ErasedFor(c)) /\ Cardinality(ErasedFor(c)) \in Nat
         /\ IsFiniteSet(Pending(c)) /\ Cardinality(Pending(c)) \in Nat
         /\ Counted(c) \in Int
         /\ Len(erased) \in Nat /\ DOMAIN erased = 1 .. Len(erased)
<1>1. Len(erased) \in Nat /\ DOMAIN erased = 1 .. Len(erased)
  BY DEF CountTypes
<1>2. IsFiniteSet(1 .. Len(erased)) /\ IsFiniteSet(Tids)
  BY <1>1, FS_Interval, TracesAssumption
<1>3. ErasedFor(c) \in SUBSET (1 .. Len(erased)) /\ Pending(c) \in SUBSET Tids
  BY <1>1 DEF ErasedFor, Pending
<1>4. IsFiniteSet(ErasedFor(c)) /\ IsFiniteSet(Pending(c))
  BY <1>2, <1>3, FS_Subset
<1>5. Cardinality(ErasedFor(c)) \in Nat /\ Cardinality(Pending(c)) \in Nat
  BY <1>4, FS_CardinalityType
<1> QED BY <1>1, <1>4, <1>5 DEF Counted

\* A step that concerns another counter.
LEMMA TallyFrame ==
  ASSUME NEW c, Tally(c),
         ErasedFor(c)' = ErasedFor(c), \A k \in ErasedFor(c) : erased'[k] = erased[k],
         \A u \in Tids : pc'[u] # pc[u] => /\ pc[u] \notin {Loads[c], Stores[c]}
                                           /\ pc'[u] \notin {Loads[c], Stores[c]},
         counter'[c] = counter[c],
         \A u \in Tids : pc[u] = Stores[c] => register'[u] = register[u]
  PROVE  Tally(c)'
<1>1. \A u \in Tids : /\ pc'[u] = Stores[c] <=> pc[u] = Stores[c]
                      /\ pc'[u] = Loads[c] <=> pc[u] = Loads[c]
  OBVIOUS
<1>2. Pending(c)' = Pending(c)
  BY <1>1 DEF Pending
<1>3. Counted(c)' = Counted(c)
  BY <1>2 DEF Counted
<1>4. OneErases(c)' <=> OneErases(c)
  BY DEF OneErases
<1>5. \A t \in Pending(c) : \E k \in ErasedFor(c) : erased'[k][2] = t
  BY DEF Tally
<1> QED BY <1>1, <1>2, <1>3, <1>4, <1>5 DEF Tally

\* An erasure, and the increment that it is followed by.
LEMMA ErasureTally ==
  ASSUME CountTypes, NEW c \in Reasons, NEW d \in Reasons, NEW t \in Tids, Tally(d),
         NEW x, x = <<c, t>>, erased' = Append(erased, x),
         pc[t] \notin Adding, pc' = [pc EXCEPT ![t] = Loads[c]], pc \in [Tids -> Places],
         counter' = counter, register' = register
  PROVE  Tally(d)'
<1>1. x[1] = c /\ x[2] = t /\ x \in Reasons \X Tids
  OBVIOUS
<1> PICK n : n = Len(erased) + 1
  OBVIOUS
<1>2. /\ DOMAIN erased' = (DOMAIN erased) \cup {n} /\ n \notin DOMAIN erased
      /\ erased'[n] = x /\ \A k \in DOMAIN erased : erased'[k] = erased[k]
  <2>1. erased \in Seq(Reasons \X Tids) /\ Len(erased) \in Nat /\ DOMAIN erased = 1 .. Len(erased)
    BY CountsAreFinite DEF CountTypes
  <2>2. n \notin DOMAIN erased /\ (DOMAIN erased) \cup {n} = 1 .. Len(erased) + 1
    BY <2>1
  <2> QED BY <1>1, <2>1, <2>2, AppendProperties
<1>3. pc'[t] = Loads[c] /\ \A u \in Tids : u # t => pc'[u] = pc[u]
  OBVIOUS
<1>4. CASE d # c
  <2>1. ErasedFor(d)' = ErasedFor(d)
    BY <1>1, <1>2, <1>4 DEF ErasedFor
  <2>2. \A k \in ErasedFor(d) : erased'[k] = erased[k]
    BY <1>2 DEF ErasedFor
  <2>3. Loads[c] \notin {Loads[d], Stores[d]} /\ pc[t] \notin {Loads[d], Stores[d]}
    BY <1>4, IncrementPlaces
  <2> QED BY <1>3, <2>1, <2>2, <2>3, TallyFrame
<1>5. CASE d = c
  <2>1. ErasedFor(c)' = ErasedFor(c) \cup {n} /\ n \notin ErasedFor(c)
    BY <1>1, <1>2 DEF ErasedFor
  <2>2. /\ Loads[c] \in Adding /\ Stores[c] \in Adding /\ Loads[c] # Stores[c]
    BY IncrementPlaces
  <2>3. Pending(c)' = Pending(c) \cup {t} /\ t \notin Pending(c)
    BY <1>3, <2>2 DEF Pending
  <2>4. Counted(c)' = Counted(c)
    <3>1. /\ Cardinality(ErasedFor(c)') = Cardinality(ErasedFor(c)) + 1
          /\ Cardinality(Pending(c)') = Cardinality(Pending(c)) + 1
      BY <2>1, <2>3, CountsAreFinite, FS_AddElement
    <3>2. Cardinality(ErasedFor(c)) \in Nat /\ Cardinality(Pending(c)) \in Nat
      BY CountsAreFinite
    <3> QED BY <3>1, <3>2 DEF Counted
  <2>5. \A k \in ErasedFor(c) : erased'[k] = erased[k]
    BY <1>2 DEF ErasedFor
  <2>6. OneErases(c)' => OneErases(c)
    BY <2>1, <2>5 DEF OneErases
  <2>7. \A u \in Pending(c)' : \E k \in ErasedFor(c)' : erased'[k][2] = u
    <3>1. n \in ErasedFor(c)' /\ erased'[n][2] = t
      BY <1>1, <1>2, <2>1
    <3>2. ASSUME NEW u \in Pending(c) PROVE \E k \in ErasedFor(c)' : erased'[k][2] = u
      <4>1. PICK k \in ErasedFor(c) : erased[k][2] = u
        BY <1>5 DEF Tally
      <4> QED BY <2>1, <2>5, <4>1
    <3> QED BY <2>3, <3>1, <3>2
  <2>8. \A u \in Tids : pc'[u] = Stores[c] => pc[u] = Stores[c]
    BY <1>3, <2>2
  <2> QED BY <1>5, <2>4, <2>6, <2>7, <2>8 DEF Tally
<1> QED BY <1>4, <1>5

\* An increment reads the counter.
LEMMA LoadTally ==
  ASSUME CountTypes, NEW c \in Reasons, NEW d \in Reasons, NEW t \in Tids, Tally(d),
         pc \in [Tids -> Places], Load(t, c)
  PROVE  Tally(d)'
<1>1. /\ pc[t] = Loads[c] /\ pc'[t] = Stores[c] /\ \A u \in Tids : u # t => pc'[u] = pc[u]
      /\ register'[t] = counter[c] /\ \A u \in Tids : u # t => register'[u] = register[u]
      /\ counter' = counter /\ erased' = erased
  BY DEF Load, CountTypes
<1>2. ErasedFor(d)' = ErasedFor(d)
  BY <1>1 DEF ErasedFor
<1>3. CASE d # c
  <2>1. Loads[c] \notin {Loads[d], Stores[d]} /\ Stores[c] \notin {Loads[d], Stores[d]}
    BY <1>3, IncrementPlaces
  <2>2. \A u \in Tids : pc[u] = Stores[d] => register'[u] = register[u]
    BY <1>1, <2>1
  <2> QED BY <1>1, <1>2, <2>1, <2>2, TallyFrame
<1>4. CASE d = c
  <2>1. Pending(c)' = Pending(c)
    BY <1>1 DEF Pending
  <2>2. Counted(c)' = Counted(c)
    BY <1>2, <1>4, <2>1 DEF Counted
  <2>3. OneErases(c)' <=> OneErases(c)
    BY <1>1, <1>2, <1>4 DEF OneErases
  <2>4. \A u \in Tids : pc'[u] = Stores[c] =>
             \/ register'[u] = counter[c]
             \/ pc[u] = Stores[c] /\ register'[u] = register[u]
    BY <1>1
  <2> QED BY <1>1, <1>2, <1>4, <2>1, <2>2, <2>3, <2>4 DEF Tally
<1> QED BY <1>3, <1>4

\* An increment writes it: no other task was at one if one erases.
LEMMA StoreTally ==
  ASSUME CountTypes, Alone, NEW c \in Reasons, NEW d \in Reasons, NEW t \in Tids, Tally(d),
         pc \in [Tids -> Places], Store(t, c), phase' # "crashed"
  PROVE  Tally(d)'
<1>1. /\ pc[t] = Stores[c] /\ pc'[t] = "intr" /\ \A u \in Tids : u # t => pc'[u] = pc[u]
      /\ counter'[c] = register[t] + 1 /\ \A e \in Reasons : e # c => counter'[e] = counter[e]
      /\ register' = register /\ erased' = erased
  BY DEF Store, CountTypes, Incremented
<1>2. ErasedFor(d)' = ErasedFor(d)
  BY <1>1 DEF ErasedFor
<1>3. \A e \in Reasons : "intr" \notin {Loads[e], Stores[e]}
  BY IncrementPlaces
<1>4. CASE d # c
  <2>1. Stores[c] \notin {Loads[d], Stores[d]}
    BY <1>4, IncrementPlaces
  <2> QED BY <1>1, <1>2, <1>3, <1>4, <2>1, TallyFrame
<1>5. CASE d = c
  <2>1. Pending(c)' = Pending(c) \ {t} /\ t \in Pending(c)
    BY <1>1, <1>3 DEF Pending
  <2>2. Counted(c)' = Counted(c) + 1
    <3>1. Cardinality(Pending(c)') = Cardinality(Pending(c)) - 1
      BY <2>1, CountsAreFinite, FS_RemoveElement
    <3>2. Cardinality(ErasedFor(c)) \in Nat /\ Cardinality(Pending(c)) \in Nat
      BY CountsAreFinite
    <3> QED BY <1>2, <1>5, <3>1, <3>2 DEF Counted
  <2>3. OneErases(c)' <=> OneErases(c)
    BY <1>1, <1>2, <1>5 DEF OneErases
  <2>4. \A u \in Tids : pc'[u] = Stores[c] => u # t /\ pc[u] = Stores[c]
    BY <1>1, <1>3
  <2>5. ASSUME OneErases(c), NEW u \in Tids, pc'[u] = Stores[c] PROVE FALSE
    <3>1. u # t /\ pc[u] = Stores[c]
      BY <2>4, <2>5
    <3>2. CASE NThreads = 1
      <4>1. ~Idle(u) /\ ~Idle(t)
        BY <1>1, <3>1, IncrementPlaces DEF Idle
      <4> QED BY <3>1, <3>2, <4>1 DEF Alone
    <3>3. CASE \E s \in Tids : \A k \in ErasedFor(c) : erased[k][2] = s
      <4>1. t \in Pending(c) /\ u \in Pending(c)
        BY <2>1, <3>1 DEF Pending
      <4>2. \A v \in Pending(c) : \E k \in ErasedFor(c) : erased[k][2] = v
        BY <1>5 DEF Tally
      <4> QED BY <3>1, <3>3, <4>1, <4>2
    <3> QED BY <2>5, <3>2, <3>3 DEF OneErases
  <2>6. /\ register[t] <= Counted(c) /\ register[t] \in Nat
        /\ OneErases(c) => register[t] = Counted(c)
    BY <1>1, <1>5 DEF Tally, CountTypes
  <2>7. Counted(c) \in Int
    BY CountsAreFinite
  <2>8. counter'[c] <= Counted(c)' /\ counter'[c] > 0 /\ (OneErases(c) => counter'[c] = Counted(c)')
    BY <1>1, <2>2, <2>6, <2>7
  <2>9. \A u \in Pending(c)' : \E k \in ErasedFor(c)' : erased'[k][2] = u
    BY <1>1, <1>2, <1>5, <2>1 DEF Tally
  <2>10. \A u \in Tids : pc'[u] = Stores[c] => register'[u] <= Counted(c)'
    <3>1. ASSUME NEW u \in Tids, pc'[u] = Stores[c] PROVE register'[u] <= Counted(c)'
      <4>1. register[u] <= Counted(c) /\ register[u] \in Nat
        BY <1>5, <2>4, <3>1 DEF Tally, CountTypes
      <4> QED BY <1>1, <2>2, <2>7, <4>1
    <3> QED BY <3>1
  <2> QED BY <1>5, <2>3, <2>5, <2>8, <2>9, <2>10 DEF Tally
<1> QED BY <1>4, <1>5

\* A step of no increment that erases nothing.
LEMMA OtherTally ==
  ASSUME NEW c \in Reasons, Tally(c), UNCHANGED <<counter, register, erased>>,
         \A u \in Tids : pc'[u] # pc[u] => pc[u] \notin Adding /\ pc'[u] \notin Adding
  PROVE  Tally(c)'
<1>1. Loads[c] \in Adding /\ Stores[c] \in Adding
  BY IncrementPlaces
<1>2. ErasedFor(c)' = ErasedFor(c)
  BY DEF ErasedFor
<1> QED BY <1>1, <1>2, TallyFrame

\* A task goes from where it is to another place, but for one that is begun.
LEMMA AloneStays ==
  ASSUME Alone, NEW t \in Tids, ~Idle(t), \A u \in Tids : u # t => pc'[u] = pc[u]
  PROVE  Alone'
BY DEF Alone, Idle

\* The pool begins a task if it has a thread for it.
LEMMA TakeAlone ==
  ASSUME Alone, NEW t \in Tids, Take(t), pc \in [Tids -> Places]
  PROVE  Alone'
<1> DEFINE busy == {u \in Tids : ~Idle(u)}
<1>1. Cardinality(busy) < NThreads /\ \A u \in Tids : u # t => pc'[u] = pc[u]
  BY DEF Take
<1>2. IsFiniteSet(busy) /\ Cardinality(busy) \in Nat
  BY TracesAssumption, FS_Subset, FS_CardinalityType
<1>3. ASSUME NThreads = 1 PROVE busy = {}
  <2>1. Cardinality(busy) = 0
    BY <1>1, <1>2, <1>3
  <2> QED BY <1>2, <2>1, FS_EmptySet
<1>4. ASSUME NThreads = 1, NEW u \in Tids, u # t PROVE pc'[u] \in {"posted", "finished"}
  BY <1>1, <1>3, <1>4 DEF Idle
<1> QED BY <1>4 DEF Alone, Idle

\* The counters keep up with what has been erased.
LEMMA TaskCounts ==
  ASSUME IInv, CountInv, NEW t \in Tids, Task(t)
  PROVE  CountInv'
<1>1. /\ phase = "clean" /\ pc \in [Tids -> Places] /\ CountTypes /\ Alone
      /\ (\A c \in Reasons : Tally(c)) /\ erased \in Seq(Reasons \X Tids)
  <2>1. phase = "clean"
    BY DEF Task, Take, Event, Tsm, Intr, Load, Store, SigSkip, SigNull, SigMatch, SigReturn, Searching
  <2> QED BY <2>1 DEF CountInv, CountTypes, IInv, TasksInv
<1>2. ASSUME Alone', CountTypes', phase' \in {"clean", "crashed"},
             \A c \in Reasons : phase' # "crashed" => Tally(c)'
      PROVE  CountInv'
  BY <1>2 DEF CountInv
<1>3. ASSUME UNCHANGED <<counter, register, erased>>, phase' \in {"clean", "crashed"}, Alone',
             \A u \in Tids : pc'[u] # pc[u] => pc[u] \notin Adding /\ pc'[u] \notin Adding
      PROVE  CountInv'
  <2>1. \A c \in Reasons : Tally(c)'
    BY <1>1, <1>3, OtherTally
  <2>2. CountTypes'
    BY <1>1, <1>3 DEF CountTypes
  <2> QED BY <1>2, <1>3, <2>1, <2>2
<1>4. ASSUME NEW c \in Reasons, NEW x, x = <<c, t>>, erased' = Append(erased, x), phase' = phase,
             pc[t] \in {"tsm", "intr"}, pc' = [pc EXCEPT ![t] = Loads[c]], UNCHANGED <<counter, register>>
      PROVE  CountInv'
  <2>1. pc[t] \notin Adding /\ ~Idle(t)
    BY <1>4 DEF Adding, Idle
  <2>2. \A d \in Reasons : Tally(d)'
    BY <1>1, <1>4, <2>1, ErasureTally
  <2>3. Alone'
    BY <1>1, <1>4, <2>1, AloneStays
  <2>4. x \in Reasons \X Tids
    BY <1>4
  <2>5. CountTypes'
    BY <1>1, <1>4, <2>4, AppendProperties DEF CountTypes
  <2> QED BY <1>1, <1>2, <1>4, <2>2, <2>3, <2>5
<1>5. CASE Take(t)
  <2>1. /\ UNCHANGED <<counter, register, erased, phase>> /\ pc[t] = "posted" /\ pc'[t] = "event"
        /\ \A u \in Tids : u # t => pc'[u] = pc[u]
    BY <1>1, <1>5 DEF Take
  <2>2. \A u \in Tids : pc'[u] # pc[u] => pc[u] \notin Adding /\ pc'[u] \notin Adding
    BY <2>1 DEF Adding
  <2> QED BY <1>1, <1>3, <1>5, <2>1, <2>2, TakeAlone
<1>6. ASSUME UNCHANGED <<counter, register, erased, phase>>, NEW p, p \notin Adding,
             pc[t] \in {"event", "tsm", "intr", "sig"}, pc' = [pc EXCEPT ![t] = p]
      PROVE  CountInv'
  <2>1. /\ pc[t] \notin Adding /\ ~Idle(t) /\ pc'[t] = p
        /\ \A u \in Tids : u # t => pc'[u] = pc[u]
    BY <1>1, <1>6 DEF Adding, Idle
  <2>2. Alone'
    BY <1>1, <2>1, AloneStays
  <2> QED BY <1>1, <1>3, <1>6, <2>1, <2>2
<1>7. \A p \in {"event", "sig", "tsm", "intr", "finished"} : p \notin Adding
  BY DEF Adding
<1>8. CASE Event(t) \/ SigReturn(t)
  BY <1>6, <1>7, <1>8 DEF Event, SigReturn
<1>9. CASE Tsm(t)
  <2>1. CASE TsmPair(t)
    BY <1>4, <1>9, <2>1 DEF Tsm, Reasons
  <2>2. CASE ~TsmPair(t)
    BY <1>6, <1>7, <1>9, <2>2 DEF Tsm
  <2> QED BY <2>1, <2>2
<1>10. CASE Intr(t)
  <2>1. \/ erased' = Append(erased, <<"intr", t>>) /\ pc' = [pc EXCEPT ![t] = Loads["intr"]]
        \/ erased' = erased /\ \E p \in {"event", "finished"} : pc' = [pc EXCEPT ![t] = p]
    BY <1>10 DEF Intr, NextTurn
  <2>2. pc[t] = "intr" /\ UNCHANGED <<phase, counter, register>>
    BY <1>10 DEF Intr
  <2>3. CASE erased' = Append(erased, <<"intr", t>>) /\ pc' = [pc EXCEPT ![t] = Loads["intr"]]
    BY <1>4, <2>2, <2>3 DEF Reasons
  <2> QED BY <1>6, <1>7, <2>1, <2>2, <2>3
<1>11. CASE SigSkip(t) \/ SigMatch(t) \/ SigNull(t)
  <2>1. UNCHANGED <<counter, register, erased, pc>> /\ phase' \in {"clean", "crashed"}
    BY <1>1, <1>11 DEF SigSkip, SigMatch, SigNull, taskVars
  <2>2. Alone'
    BY <1>1, <2>1 DEF Alone, Idle
  <2> QED BY <1>3, <2>1, <2>2
<1>12. ASSUME NEW c \in Reasons, Load(t, c) PROVE CountInv'
  <2>1. phase' = phase /\ ~Idle(t) /\ \A u \in Tids : u # t => pc'[u] = pc[u]
    BY <1>1, <1>12, IncrementPlaces DEF Load, Idle
  <2>2. CountTypes'
    BY <1>1, <1>12 DEF Load, CountTypes
  <2>3. \A d \in Reasons : Tally(d)'
    BY <1>1, <1>12, LoadTally
  <2> QED BY <1>1, <1>2, <2>1, <2>2, <2>3, AloneStays
<1>13. ASSUME NEW c \in Reasons, Store(t, c) PROVE CountInv'
  <2>1. phase' \in {"clean", "crashed"} /\ ~Idle(t) /\ \A u \in Tids : u # t => pc'[u] = pc[u]
    BY <1>1, <1>13, IncrementPlaces DEF Store, Idle
  <2>2. CountTypes'
    BY <1>1, <1>13 DEF Store, CountTypes, Incremented
  <2>3. \A d \in Reasons : phase' # "crashed" => Tally(d)'
    BY <1>1, <1>13, StoreTally
  <2> QED BY <1>1, <1>2, <2>1, <2>2, <2>3, AloneStays
<1> QED BY <1>5, <1>8, <1>9, <1>10, <1>11, <1>12, <1>13 DEF Task, Reasons

\* The counting is right at the beginning.
LEMMA InitCounts == Init => CountInv
<1> SUFFICES ASSUME Init PROVE CountInv
  OBVIOUS
<1>1. CountTypes /\ Alone /\ phase = "split"
  <2>1. erased = <<>> /\ <<>> \in Seq(Reasons \X Tids)
    BY EmptySeq DEF Init
  <2> QED BY <2>1 DEF Init, CountTypes, Alone, Idle, Reasons
<1>2. ASSUME NEW c \in Reasons PROVE Tally(c)
  <2>1. pc = [t \in Tids |-> "posted"] /\ erased = <<>>
    BY DEF Init
  <2>2. Pending(c) = {} /\ \A t \in Tids : pc[t] # Stores[c]
    BY <2>1, IncrementPlaces DEF Pending
  <2>3. ErasedFor(c) = {}
    BY <2>1 DEF ErasedFor
  <2>4. Counted(c) = 0
    BY <2>2, <2>3, FS_EmptySet DEF Counted
  <2>5. counter[c] = 0
    BY DEF Init, Reasons
  <2> QED BY <2>2, <2>4, <2>5 DEF Tally
<1> QED BY <1>1, <1>2 DEF CountInv

\* The counting, in every state.
LEMMA CountsHold == Spec => []CountInv
<1>1. IInv /\ CountInv /\ [Next]_vars => CountInv'
  <2> SUFFICES ASSUME IInv, CountInv, [Next]_vars PROVE CountInv'
    OBVIOUS
  <2>1. ASSUME UNCHANGED <<counter, register, erased, pc>>, phase # "crashed" \/ phase' = "crashed",
               phase' = "done" => \A t \in Tids : pc[t] = "finished"
        PROVE  CountInv'
    <3>1. CountTypes' /\ Alone'
      BY <2>1 DEF CountInv, CountTypes, Alone, Idle
    <3>2. ASSUME phase' # "crashed" PROVE \A c \in Reasons : Tally(c)'
      BY <2>1, <3>2, OtherTally DEF CountInv
    <3> QED BY <2>1, <3>1, <3>2 DEF CountInv
  <2>2. CASE Split \/ Join \/ Stopped \/ UNCHANGED vars
    <3>1. /\ UNCHANGED <<counter, register, erased, pc>> /\ (phase # "crashed" \/ phase' = "crashed")
          /\ phase' = "done" => phase = "done" \/ \A t \in Tids : pc[t] = "finished"
      BY <2>2 DEF Split, Join, Stopped, vars, taskVars
    <3> QED BY <2>1, <3>1 DEF CountInv
  <2>3. CASE Post
    <3>1. /\ UNCHANGED <<counter, register, erased>> /\ phase = "split" /\ phase' = "clean"
          /\ pc' = [t \in Tids |-> IF list[t] = <<>> THEN "finished" ELSE "posted"]
      BY <2>3 DEF Post
    <3>2. \A t \in Tids : pc[t] = "posted"
      BY <3>1 DEF IInv, TasksInv, TaskInv
    <3>3. \A t \in Tids : pc'[t] \in {"posted", "finished"}
      BY <3>1
    <3>4. \A t \in Tids : pc[t] \notin Adding /\ pc'[t] \notin Adding
      BY <3>2, <3>3 DEF Adding
    <3>5. \A c \in Reasons : Tally(c)'
      BY <3>1, <3>4, OtherTally DEF CountInv
    <3>6. CountTypes' /\ Alone'
      BY <3>1, <3>3 DEF CountInv, CountTypes, Alone, Idle
    <3> QED BY <3>1, <3>5, <3>6 DEF CountInv
  <2>4. ASSUME NEW t \in Tids, Task(t) PROVE CountInv'
    BY <2>4, TaskCounts
  <2> QED BY <2>2, <2>3, <2>4 DEF Next
<1> QED BY <1>1, InitCounts, InvariantHolds, PTL DEF Spec

-----------------------------------------------------------------------------
(* The cleaning.                                                           *)

\* update_events_in_thread (group_init.cpp) removes the wake-ups made by interrupts and by
\* maintenance, with a breakpoint the processing of its signal, and nothing else.
\* When every task has finished, no such pair is left in a thread without
\* breakpoints but at the head of its list or where an erasure made it, the process
\* information of every event but one at a head is complete, and the counters hold
\* the number of wake-ups erased, or less if two tasks counted at once.
THEOREM CleaningIsHeld == Spec => []CleaningIsExact
<1>1. IInv /\ OwnInv /\ DoneInv /\ CountInv /\ phase = "done"
        => (\A t \in Tids : PairsLeft(t) /\ Informs(t)) /\ \A c \in DOMAIN counter : CountsErased(c)
  <2> SUFFICES ASSUME IInv, OwnInv, DoneInv, CountInv, phase = "done"
               PROVE  /\ \A t \in Tids : PairsLeft(t) /\ Informs(t)
                      /\ \A c \in DOMAIN counter : CountsErased(c)
    OBVIOUS
  <2>1. \A t \in Tids : pc[t] = "finished"
    BY DEF CountInv
  <2>2. ASSUME NEW t \in Tids, NEW l, l = list[t] PROVE PairsLeft(t) /\ Informs(t)
    <3>1. /\ l \in Seq(Nat) /\ Len(l) \in Nat /\ DOMAIN l = 1 .. Len(l) /\ at[t] \in Nat
          /\ TaskInv(t) /\ sig[t].count \in Nat
      BY <2>2, TaskTypes
    <3>2. Here(t) = at[t]
      <4>1. sig[t] = NoSearch
        BY <2>1, <3>1 DEF TaskInv
      <4> QED BY <3>1, <4>1 DEF Here, NoSearch
    <3>3. Done(t, l, "finished", at[t], at[t])
      BY <2>1, <2>2, <3>2 DEF DoneInv
    <3>4. KnownTo("finished", at[t]) = at[t] /\ IntrTo("finished", at[t]) = at[t] /\ TsmTo("finished", at[t]) = at[t]
      BY DEF KnownTo, IntrTo, TsmTo, Adding
    <3>5. Known(l, at[t]) /\ Len(l) < at[t] /\ (NoTrap(t) => Cleaned(l, at[t], at[t]))
      BY <3>3, <3>4 DEF Done
    <3>6. \A j \in DOMAIN l : j < at[t]
      BY <3>1, <3>5
    <3>7. Informs(t)
      BY <2>2, <3>5, <3>6 DEF Known, Informs
    <3>8. ASSUME NoTrap(t) PROVE IntrLeft(t) = {} /\ \A i \in TsmLeft(t) : i = 1 \/ ~WereNeighbours(list[t][i], list[t][i + 1])
      <4>1. \A j \in DOMAIN l : ~IntrPair(l, j) /\ ~NearPair(l, j)
        BY <3>5, <3>6, <3>8 DEF Cleaned
      <4>2. \A j : WakeupNext(t, j) <=> j < Len(l) /\ Kind(l[j + 1]) = "mr"
        BY <2>2 DEF WakeupNext
      <4>3. IntrLeft(t) = {}
        BY <2>2, <4>1, <4>2 DEF IntrLeft, IntrPair
      <4>4. ASSUME NEW i \in TsmLeft(t), i # 1 PROVE ~WereNeighbours(list[t][i], list[t][i + 1])
        BY <2>2, <4>1, <4>2, <4>4 DEF TsmLeft, NearPair
      <4> QED BY <4>3, <4>4
    <3> QED BY <3>7, <3>8 DEF PairsLeft, NoTrap
  <2>3. ASSUME NEW c \in Reasons PROVE CountsErased(c)
    <3>1. Pending(c) = {}
      <4>1. "finished" \notin {Loads[c], Stores[c]}
        BY IncrementPlaces
      <4> QED BY <2>1, <4>1 DEF Pending
    <3>2. Counted(c) = Cardinality(ErasedFor(c))
      BY <3>1, CountsAreFinite, FS_EmptySet DEF Counted, CountInv
    <3>3. Tally(c)
      BY DEF CountInv
    <3> QED BY <3>2, <3>3 DEF Tally, CountsErased
  <2>4. DOMAIN counter = Reasons
    BY DEF CountInv, CountTypes
  <2> QED BY <2>2, <2>3, <2>4
<1>2. OnlyNoiseGoes /\ IInv /\ OwnInv /\ DoneInv /\ CountInv => CleaningIsExact
  BY <1>1 DEF CleaningIsExact
<1> QED BY <1>2, NothingElseGoes, InvariantHolds, OwnHolds, DoneHolds, CountsHold, PTL

===============================================================================
