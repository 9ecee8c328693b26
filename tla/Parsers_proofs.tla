----------------------------- MODULE Parsers_proofs -----------------------------
(***************************************************************************)
(* Proofs about the parsers.                                               *)
(***************************************************************************)
EXTENDS Parsers, FiniteSetTheorems, SequenceTheorems, WellFoundedInduction, TLAPS

\* A non-empty set of naturals has a least element.
LEMMA MinExists ==
  ASSUME NEW S \in SUBSET Nat, S # {}
  PROVE  \E i \in S : \A j \in S : i <= j
<1> DEFINE less == {x \in Nat \X Nat : x[1] < x[2]}
<1>1. IsWellFoundedOn(less, Nat)
  BY NatLessThanWellFounded DEF OpToRel
<1>2. PICK i \in S : \A j \in S : ~ (<<j, i>> \in less)
  BY <1>1, WFMin
<1>3. ASSUME NEW j \in S PROVE i <= j
  <2>1. ~(<<j, i>> \in less) /\ i \in Nat /\ j \in Nat
    BY <1>2
  <2> QED BY <2>1
<1> QED BY <1>3

\* LastOf is the greatest element, or 0.
LEMMA LastOfIs ==
  ASSUME NEW n \in Nat, NEW S \in SUBSET (1 .. n)
  PROVE  /\ S = {} => LastOf(S) = 0
         /\ S # {} => LastOf(S) \in S /\ \A j \in S : j <= LastOf(S)
<1>1. ASSUME S # {} PROVE \E i \in S : \A j \in S : i >= j
  <2> DEFINE T == {n - i : i \in S}
  <2>1. T \in SUBSET Nat /\ T # {}
    <3>1. \A i \in S : i \in 1 .. n /\ n - i \in Nat
      OBVIOUS
    <3> QED BY <1>1, <3>1
  <2>2. PICK m \in T : \A j \in T : m <= j
    BY <2>1, MinExists
  <2>3. PICK i \in S : m = n - i
    BY <2>2
  <2>4. ASSUME NEW j \in S PROVE i >= j
    <3>1. n - j \in T /\ i \in 1 .. n /\ j \in 1 .. n
      OBVIOUS
    <3>2. m <= n - j
      BY <2>2, <3>1
    <3> QED BY <2>3, <3>1, <3>2
  <2> QED BY <2>4
<1>2. ASSUME S # {} PROVE Max(S) \in S /\ \A j \in S : Max(S) >= j
  BY <1>1, <1>2 DEF Max
<1>3. ASSUME S # {} PROVE LastOf(S) \in S /\ \A j \in S : j <= LastOf(S)
  <2>1. LastOf(S) = Max(S)
    BY <1>3 DEF LastOf
  <2>2. S \subseteq Nat
    OBVIOUS
  <2> QED BY <1>2, <1>3, <2>1, <2>2
<1> QED BY <1>3 DEF LastOf

RecordNames == {"begin", "info", "end"}
Op == [tid : family.threads, key : family.keys, recv : BOOLEAN, header : family.headers,
       inside : SUBSET Nat, sent : Nat, arrived : SUBSET RecordNames, state : {"open", "done", "died"},
       released : {"no", "arrived", "lost"}]
Event == [args : SUBSET (Nat \X RecordNames), end : Nat, freed : SUBSET Nat, mig : BOOLEAN]

\* How far an operation has come.
Progress(i) ==
  /\ ops[i].sent <= Len(Records(i))
  /\ ops[i].state = "done" <=> ops[i].sent = Len(Records(i))
  /\ "begin" \in ops[i].arrived => ops[i].sent >= 1
  /\ "info" \in ops[i].arrived => ops[i].sent >= 2 /\ Len(Records(i)) = 3
  /\ "end" \in ops[i].arrived => ops[i].sent = Len(Records(i)) /\ Len(Records(i)) # 1
  /\ ops[i].state = "died" => family.kind = "message"

IsOpen(i) == ops[i].state = "open"
SameThread(i, j) == ops[i].tid = ops[j].tid

\* The operations of a thread that are open are one inside the other.
Nested ==
  /\ \A i \in Ids : \A h \in ops[i].inside : h \in Ids /\ h < i /\ SameThread(h, i)
  /\ \A i, j \in Ids : i < j /\ SameThread(i, j) /\ IsOpen(i) => i \in ops[j].inside /\ ops[i].sent > 0
  /\ family.depth <= 1 => \A i, j \in Ids : i < j /\ SameThread(i, j) => ~IsOpen(i)

KernelInv ==
  /\ family \in Families /\ ops \in Seq(Op)
  /\ \A i \in Ids : Progress(i)
  /\ Nested

\* The event of e has something of operation i.
Takes(e, i) == evs[e].end = i \/ \E r \in Range(Records(i)) : <<i, r>> \in evs[e].args

\* What the parser has is from records that arrived; but for blocks, a thread has
\* one event open, whose end has not come.
EventsInv ==
  /\ DOMAIN evs \subseteq Ids /\ evs \in [DOMAIN evs -> Event]
  /\ open \subseteq DOMAIN evs
  /\ \A i \in DOMAIN evs : ops[i].arrived # {}
  /\ \A e \in DOMAIN evs : evs[e].end # 0 => evs[e].end \in Ids /\ ops[evs[e].end].sent >= 1
  /\ \A e \in DOMAIN evs : \A x \in evs[e].args : x[1] \in Ids /\ ops[x[1]].sent >= 1
  /\ family.kind # "block" => \A i, j \in open : SameThread(i, j) => i = j
  /\ family.kind \notin {"block", "trap"} => \A i \in open : "end" \notin ops[i].arrived

\* Nothing disturbs it so far: a block still open may be half lost yet.
Calm(i) ==
  IF family.kind = "block"
  THEN \A j \in Within(i) : ops[j].key = ops[i].key /\ ~IsOpen(j) => Cardinality(ops[j].arrived) # 1
  ELSE ~Disturbed(i)

\* The records of its own that an event can hold.
Own(i) == {<<i, r>> : r \in ops[i].arrived \ {"end"}}

\* An operation that nothing disturbs has an event of its own from its begin on.
WholeInv ==
  /\ \A i \in Ids : "begin" \in ops[i].arrived /\ IsOpen(i) /\ Calm(i) =>
       i \in open /\ evs[i].args = Own(i) /\ evs[i].end = 0
  /\ \A i \in Ids : Kept(i) /\ Calm(i) =>
       /\ Whole(i)
       /\ i \in open => family.kind = "nsapp" /\ ops[i].key = 0
  /\ \A e \in DOMAIN evs, i \in Ids :
       i # e /\ Takes(e, i) => "begin" \notin ops[i].arrived \/ ~Calm(i)

\* The records that the trace does not have of the first n operations, of those of t.
Missing(t, n) ==
  {x \in {j \in 1 .. n : ops[j].tid = t} \X {"begin", "end"} : x[2] \notin ops[x[1]].arrived}

\* What the thread of an open event has sent since.
SinceInv ==
  /\ family.kind = "interrupt" => \A e \in open : \A k \in Ids :
       e < k /\ SameThread(e, k) /\ ops[k].key = ops[e].key => "end" \notin ops[k].arrived
  /\ family.kind \in {"interrupt", "block"} => \A e \in open : "begin" \in ops[e].arrived
  /\ family.kind = "call" => \A e \in open :
       Cardinality(evs[e].args) < Len(Records(e)) - 1 =>
          /\ ops[e].key \in family.long
          /\ Disturbed(e) \/ Cardinality(ops[e].arrived \cap {"begin", "info"}) = 1
  /\ family.kind = "frames" => \A e \in open : \A k \in Ids :
       e < k /\ SameThread(e, k) =>
          ops[k].arrived \subseteq IF ops[k].key = ops[e].key THEN {"begin", "info"} ELSE {}
  /\ family.kind = "nsapp" => \A e \in open : \A k \in Ids :
       e < k /\ SameThread(e, k) => ops[k].arrived = {}
  /\ family.kind = "trap" => \A t \in family.threads :
       OpenOf(t) # 0 <=> Cardinality(Missing(t, Len(ops))) % 2 = 1

\* The kernel has one message at an address.
AddressInv ==
  /\ \A s, i \in Ids : s < i /\ ops[i].key = ops[s].key /\ ~ops[s].recv /\ ops[s].released = "no"
       => ops[i].recv
  /\ \A i \in Ids : IsOpen(i) =>
       \E s \in Ids : s <= i /\ ops[s].key = ops[i].key /\ ~ops[s].recv /\ ops[s].released = "no"

\* Each begin has made an event, until its message is freed; marks name released sends.
FreedInv ==
  /\ \A i \in Ids : "begin" \in ops[i].arrived /\ i \notin DOMAIN evs =>
       ~IsOpen(i) /\ "end" \notin ops[i].arrived
  /\ \A i \in DOMAIN evs : "begin" \in ops[i].arrived
  /\ \A s \in DOMAIN evs : evs[s].freed # {} => ~ops[s].recv
  /\ \A s \in DOMAIN evs : \A f \in evs[s].freed :
       f \in Ids /\ ~ops[f].recv /\ ops[f].key = ops[s].key /\ ops[f].released # "no"

\* A record that may have told the event of send s that it has no local port.
MayTell(i, s) == /\ i >= s \/ i \in ops[s].inside
                 /\ ops[i].tid = ops[s].tid
                 /\ "info" \in ops[i].arrived /\ ~ops[i].header.local

\* Which sends are taken for calls of MIG.
MigInv ==
  \A e \in DOMAIN evs :
    /\ ~ops[e].header.mig \/ ToldOfNoPort(e) => ~evs[e].mig
    /\ ops[e].header.mig /\ ~ops[e].recv /\ ~evs[e].mig => \E i \in Ids : MayTell(i, e)
    /\ evs[e].freed # {} => ~evs[e].mig

\* A send released before its receipt is marked, or one of MIG, for good; and what a mark tells.
MarksInv ==
  /\ \A s \in DOMAIN evs : ~ops[s].recv /\ ops[s].released = "arrived" /\ OfMessage(s) = {s} =>
       s \notin open /\ (s \in evs[s].freed \/ evs[s].mig)
  /\ \A s \in DOMAIN evs : ~ops[s].recv => \A f \in evs[s].freed, i \in Ids :
       i > s /\ ops[i].key = ops[s].key /\ (i < f \/ i \in OfMessage(f))
         => ~({"begin", "end"} \subseteq ops[i].arrived)

MessageInv == family.kind = "message" => AddressInv /\ FreedInv /\ MigInv /\ MarksInv

-----------------------------------------------------------------------------
(* The kernel. *)

\* What a record can be.
LEMMA RecordsAre ==
  ASSUME NEW i, family \in Families
  PROVE  /\ Records(i) \in {<<"begin">>, <<"begin", "end">>, <<"begin", "info", "end">>}
         /\ Records(i) = <<"begin">> <=> family.kind = "nsapp" /\ ops[i].key = 0
         /\ family.kind = "message" => Records(i) = <<"begin", "info", "end">>
         /\ Records(i) = <<"begin", "info", "end">> => family.kind = "message" \/ ops[i].key \in family.long
<1>1. <<"begin">> # <<"begin", "end">> /\ <<"begin">> # <<"begin", "info", "end">>
      /\ <<"begin", "end">> # <<"begin", "info", "end">>
  <2>1. Len(<<"begin">>) = 1 /\ Len(<<"begin", "end">>) = 2 /\ Len(<<"begin", "info", "end">>) = 3
    OBVIOUS
  <2> QED BY <2>1
<1>2. CASE family.kind = "nsapp" /\ ops[i].key = 0
  <2>1. ops[i].key \notin family.long
    BY <1>2, FamiliesOK
  <2>2. Records(i) = <<"begin">>
    BY <1>2, <2>1 DEF Records
  <2> QED BY <1>1, <1>2, <2>2
<1>3. CASE ~(family.kind = "nsapp" /\ ops[i].key = 0) /\ (family.kind = "message" \/ ops[i].key \in family.long)
  BY <1>1, <1>3 DEF Records
<1>4. CASE ~(family.kind = "nsapp" /\ ops[i].key = 0) /\ ~(family.kind = "message" \/ ops[i].key \in family.long)
  BY <1>1, <1>4 DEF Records
<1> QED BY <1>2, <1>3, <1>4

LEMMA RecordsHave ==
  ASSUME NEW i, family \in Families
  PROVE  /\ DOMAIN Records(i) = 1 .. Len(Records(i))
         /\ Len(Records(i)) \in {1, 2, 3}
         /\ Records(i)[1] = "begin"
         /\ Len(Records(i)) = 2 => Records(i)[2] = "end"
         /\ Len(Records(i)) = 3 => Records(i)[2] = "info" /\ Records(i)[3] = "end"
         /\ Len(Records(i)) = 1 <=> family.kind = "nsapp" /\ ops[i].key = 0
         /\ family.kind = "message" => Len(Records(i)) = 3
         /\ Len(Records(i)) = 3 => family.kind = "message" \/ ops[i].key \in family.long
         /\ Range(Records(i)) = {"begin"} \cup (IF Len(Records(i)) = 1 THEN {} ELSE {"end"})
                                          \cup (IF Len(Records(i)) = 3 THEN {"info"} ELSE {})
<1>1. CASE Records(i) = <<"begin">>
  <2>1. Len(Records(i)) = 1 /\ DOMAIN Records(i) = {1} /\ Records(i)[1] = "begin"
    BY <1>1
  <2>2. Range(Records(i)) = {"begin"}
    BY <2>1 DEF Range
  <2> QED BY <1>1, <2>1, <2>2, RecordsAre
<1>2. CASE Records(i) = <<"begin", "end">>
  <2>1. Len(Records(i)) = 2 /\ DOMAIN Records(i) = {1, 2} /\ Records(i)[1] = "begin" /\ Records(i)[2] = "end"
    BY <1>2
  <2>2. Range(Records(i)) = {"begin", "end"}
    BY <2>1 DEF Range
  <2>3. Len(<<"begin">>) = 1
    OBVIOUS
  <2>4. Len(<<"begin", "info", "end">>) = 3
    OBVIOUS
  <2> QED BY <1>2, <2>1, <2>2, <2>3, <2>4, RecordsAre
<1>3. CASE Records(i) = <<"begin", "info", "end">>
  <2>1. /\ Len(Records(i)) = 3 /\ DOMAIN Records(i) = {1, 2, 3}
        /\ Records(i)[1] = "begin" /\ Records(i)[2] = "info" /\ Records(i)[3] = "end"
    BY <1>3
  <2>2. Range(Records(i)) = {"begin", "info", "end"}
    BY <2>1 DEF Range
  <2>3. Len(<<"begin">>) = 1
    OBVIOUS
  <2> QED BY <1>3, <2>1, <2>2, <2>3, RecordsAre
<1> QED BY <1>1, <1>2, <1>3, RecordsAre

\* The operation a thread is in.
LEMMA RunningIs ==
  ASSUME ops \in Seq(Op), NEW t
  PROVE  LET i == Running(t) IN
         /\ i = 0 => \A j \in Ids : ops[j].tid = t => ~IsOpen(j)
         /\ i # 0 => /\ i \in Ids /\ ops[i].tid = t /\ IsOpen(i)
                     /\ \A j \in Ids : ops[j].tid = t /\ IsOpen(j) => j <= i
<1> DEFINE S == {j \in Ids : ops[j].tid = t /\ ops[j].state = "open"}
<1>1. Len(ops) \in Nat /\ S \in SUBSET (1 .. Len(ops))
  BY DEF Ids
<1>2. Running(t) = LastOf(S)
  BY DEF Running, Around
<1>3. S = {} => LastOf(S) = 0
  BY <1>1, LastOfIs
<1>4. S # {} => LastOf(S) \in S /\ \A j \in S : j <= LastOf(S)
  BY <1>1, LastOfIs
<1>5. \A j \in Ids : j # 0
  BY DEF Ids
<1> QED BY <1>2, <1>3, <1>4, <1>5 DEF IsOpen

\* The record r of operation i arrives, or is lost.
Written(i, r, arrived) ==
  ops' = [ops EXCEPT ![i] =
           [[ops[i] EXCEPT !.sent = ops[i].sent + 1,
                           !.state = IF ops[i].sent + 1 = Len(Records(i)) THEN "done" ELSE "open"]
              EXCEPT !.arrived = arrived]]
Sends(i, r) ==
  /\ i \in Ids /\ IsOpen(i) /\ ops[i].sent + 1 \in DOMAIN Records(i)
  /\ \A j \in Ids : SameThread(i, j) /\ IsOpen(j) => j <= i
  /\ r = Records(i)[ops[i].sent + 1] /\ r \notin ops[i].arrived
  /\ UNCHANGED family
Arrives(i, r) == Sends(i, r) /\ Written(i, r, ops[i].arrived \cup {r}) /\ Parsed(i, r)
Lost(i, r)    == Sends(i, r) /\ Written(i, r, ops[i].arrived) /\ Dropped

LEMMA RecordSends ==
  ASSUME KernelInv, NEW t, Record(t)
  PROVE  \E i, r : Arrives(i, r) \/ Lost(i, r)
<1>1. PICK i \in Ids : /\ i = Running(t) /\ ops[i].tid = t /\ IsOpen(i)
                      /\ \A j \in Ids : ops[j].tid = t /\ IsOpen(j) => j <= i
  BY RunningIs DEF Record, KernelInv
<1> DEFINE n == ops[i].sent + 1
           r == Records(i)[n]
<1>2. ops[i] \in Op /\ Progress(i)
  BY <1>1 DEF KernelInv, Ids
<1>3. ops[i].sent \in Nat /\ ops[i].sent < Len(Records(i)) /\ ops[i].arrived \in SUBSET RecordNames
  BY <1>1, <1>2, RecordsHave DEF Op, Progress, IsOpen, KernelInv
<1>4. family \in Families /\ n \in 1 .. Len(Records(i)) /\ DOMAIN Records(i) = 1 .. Len(Records(i))
  BY <1>3, RecordsHave DEF KernelInv
<1>5. r \notin ops[i].arrived
  <2>1. /\ "begin" \in ops[i].arrived => ops[i].sent >= 1
        /\ "info" \in ops[i].arrived => ops[i].sent >= 2
        /\ "end" \in ops[i].arrived => ops[i].sent = Len(Records(i))
    BY <1>2 DEF Progress
  <2>2. /\ Records(i)[1] = "begin" /\ Len(Records(i)) \in {1, 2, 3}
        /\ Len(Records(i)) = 2 => Records(i)[2] = "end"
        /\ Len(Records(i)) = 3 => Records(i)[2] = "info" /\ Records(i)[3] = "end"
    BY <1>4, RecordsHave
  <2>3. n = 1 \/ n = 2 \/ n = 3
    <3> DEFINE last == Len(Records(i))
    <3>1. last \in {1, 2, 3} /\ n \in 1 .. last
      BY <1>4, <2>2
    <3> HIDE DEF last, n
    <3> QED BY <3>1
  <2>4. CASE n = 1
    BY <1>3, <2>1, <2>2, <2>4
  <2>5. CASE n = 2
    BY <1>3, <2>1, <2>2, <2>5
  <2>6. CASE n = 3
    BY <1>3, <2>1, <2>2, <2>6
  <2> QED BY <2>3, <2>4, <2>5, <2>6
<1>6. Sends(i, r)
  BY <1>1, <1>4, <1>5 DEF Sends, SameThread, Record
<1>7. CASE ops' = [ops EXCEPT ![i] = [[ops[i] EXCEPT !.sent = n, !.state = IF n = Len(Records(i)) THEN "done" ELSE "open"] EXCEPT !.arrived = @ \cup {r}]]
           /\ Parsed(i, r)
  <2>1. [ops[i] EXCEPT !.sent = n, !.state = IF n = Len(Records(i)) THEN "done" ELSE "open"].arrived = ops[i].arrived
    BY <1>2 DEF Op
  <2> QED BY <1>6, <1>7, <2>1 DEF Arrives, Written
<1>8. CASE ops' = [ops EXCEPT ![i] = [ops[i] EXCEPT !.sent = n, !.state = IF n = Len(Records(i)) THEN "done" ELSE "open"]]
           /\ Dropped
  <2>1. [ops[i] EXCEPT !.sent = n, !.state = IF n = Len(Records(i)) THEN "done" ELSE "open"]
        = [[ops[i] EXCEPT !.sent = n, !.state = IF n = Len(Records(i)) THEN "done" ELSE "open"] EXCEPT !.arrived = ops[i].arrived]
    BY <1>2 DEF Op
  <2> QED BY <1>6, <1>8, <2>1 DEF Lost, Written
<1> QED BY <1>1, <1>7, <1>8 DEF Record

\* What the record of an operation changes: of the operation itself, how far it is.
LEMMA WrittenIs ==
  ASSUME KernelInv, NEW i, NEW r, NEW a, Sends(i, r), Written(i, r, a),
         a = ops[i].arrived \/ a = ops[i].arrived \cup {r}
  PROVE  /\ i \in Ids /\ ops' \in Seq(Op)' /\ Len(ops') = Len(ops) /\ Ids' = Ids /\ family' = family
         /\ r \in RecordNames
         /\ \A j \in Ids : /\ ops'[j].tid = ops[j].tid /\ ops'[j].key = ops[j].key /\ ops'[j].recv = ops[j].recv
                           /\ ops'[j].inside = ops[j].inside /\ ops'[j].released = ops[j].released
                           /\ ops'[j].header = ops[j].header
                           /\ j # i => ops'[j] = ops[j]
                           /\ Records(j)' = Records(j)
                           /\ ops[j] \in Op
         /\ ops'[i].sent = ops[i].sent + 1 /\ ops'[i].arrived = a
         /\ ops'[i].state = IF ops[i].sent + 1 = Len(Records(i)) THEN "done" ELSE "open"
<1>1. i \in Ids /\ family' = family /\ family \in Families /\ ops \in Seq(Op) /\ Ids = 1 .. Len(ops)
  BY DEF Sends, KernelInv, Ids
<1>2. \A j \in Ids : ops[j] \in Op
  BY <1>1
<1>3. r \in RecordNames /\ a \in SUBSET RecordNames
  <2>1. r \in RecordNames
    <3>1. ops[i].sent + 1 \in 1 .. Len(Records(i)) /\ r = Records(i)[ops[i].sent + 1]
      BY <1>1, RecordsHave DEF Sends
    <3>2. r \in Range(Records(i))
      BY <1>1, <3>1, RecordsHave DEF Range
    <3> QED BY <1>1, <3>2, RecordsHave DEF RecordNames
  <2>2. ops[i].arrived \in SUBSET RecordNames
    BY <1>1, <1>2 DEF Op
  <2> QED BY <2>1, <2>2
<1> DEFINE new == [[ops[i] EXCEPT !.sent = ops[i].sent + 1,
                                  !.state = IF ops[i].sent + 1 = Len(Records(i)) THEN "done" ELSE "open"]
                     EXCEPT !.arrived = a]
<1>4. /\ new \in Op /\ new.tid = ops[i].tid /\ new.key = ops[i].key /\ new.recv = ops[i].recv
      /\ new.header = ops[i].header /\ new.inside = ops[i].inside /\ new.released = ops[i].released
      /\ new.sent = ops[i].sent + 1 /\ new.arrived = a
      /\ new.state = IF ops[i].sent + 1 = Len(Records(i)) THEN "done" ELSE "open"
  <2> DEFINE st == IF ops[i].sent + 1 = Len(Records(i)) THEN "done" ELSE "open"
             n  == ops[i].sent + 1
  <2>1. ops[i] \in Op /\ n \in Nat /\ st \in {"open", "done", "died"}
    BY <1>1, <1>2 DEF Op
  <2>2. new = [[ops[i] EXCEPT !.sent = n, !.state = st] EXCEPT !.arrived = a]
    OBVIOUS
  <2>3. ops[i] = [tid |-> ops[i].tid, key |-> ops[i].key, recv |-> ops[i].recv, header |-> ops[i].header,
                  inside |-> ops[i].inside, sent |-> ops[i].sent, arrived |-> ops[i].arrived, state |-> ops[i].state,
                  released |-> ops[i].released]
    BY <2>1 DEF Op
  <2> HIDE DEF st, n, new
  <2>4. new = [tid |-> ops[i].tid, key |-> ops[i].key, recv |-> ops[i].recv, header |-> ops[i].header,
               inside |-> ops[i].inside, sent |-> n, arrived |-> a, state |-> st, released |-> ops[i].released]
    BY <2>2, <2>3
  <2>5. new \in Op
    BY <1>3, <2>1, <2>4 DEF Op
  <2>6. n = ops[i].sent + 1 /\ st = IF ops[i].sent + 1 = Len(Records(i)) THEN "done" ELSE "open"
    BY DEF n, st
  <2> QED BY <2>4, <2>5, <2>6
<1>5. ops' = [ops EXCEPT ![i] = new]
  BY DEF Written
<1> HIDE DEF new
<1>6. ops' \in Seq(Op) /\ Len(ops') = Len(ops) /\ ops'[i] = new /\ \A j \in Ids : j # i => ops'[j] = ops[j]
  BY <1>1, <1>4, <1>5
<1>7. Op' = Op
  BY <1>1 DEF Op
<1>8. Ids' = Ids
  BY <1>6 DEF Ids
<1>9. \A j \in Ids : ops'[j].key = ops[j].key
  BY <1>4, <1>6
<1>10. \A j \in Ids : Records(j)' = Records(j)
  BY <1>1, <1>9 DEF Records
<1> QED BY <1>1, <1>2, <1>3, <1>4, <1>6, <1>7, <1>8, <1>10

\* A record keeps the kernel's invariant.
LEMMA WrittenKernel ==
  ASSUME KernelInv, NEW i, NEW r, NEW a, Sends(i, r), Written(i, r, a),
         a = ops[i].arrived \/ a = ops[i].arrived \cup {r}
  PROVE  KernelInv'
<1>1. /\ i \in Ids /\ ops' \in Seq(Op)' /\ Len(ops') = Len(ops) /\ Ids' = Ids /\ family' = family
      /\ r \in RecordNames
      /\ \A j \in Ids : /\ ops'[j].tid = ops[j].tid /\ ops'[j].key = ops[j].key /\ ops'[j].recv = ops[j].recv
                        /\ ops'[j].inside = ops[j].inside /\ ops'[j].released = ops[j].released
                        /\ j # i => ops'[j] = ops[j]
                        /\ Records(j)' = Records(j)
                        /\ ops[j] \in Op
      /\ ops'[i].sent = ops[i].sent + 1 /\ ops'[i].arrived = a
      /\ ops'[i].state = IF ops[i].sent + 1 = Len(Records(i)) THEN "done" ELSE "open"
  BY WrittenIs
<1>2. Progress(i)'
  <2>1. Progress(i) /\ family \in Families /\ IsOpen(i) /\ ops[i] \in Op
    BY <1>1 DEF KernelInv, Sends
  <2> DEFINE n == ops[i].sent + 1
             last == Len(Records(i))
  <2>2. /\ last \in {1, 2, 3} /\ n \in 1 .. last /\ r = Records(i)[n]
        /\ Records(i)[1] = "begin"
        /\ last = 2 => Records(i)[2] = "end"
        /\ last = 3 => Records(i)[2] = "info" /\ Records(i)[3] = "end"
    BY <2>1, RecordsHave DEF Sends
  <2>3. ops'[i].sent = n /\ ops'[i].state = (IF n = last THEN "done" ELSE "open") /\ Len(Records(i)') = last
    BY <1>1
  <2>4. /\ "begin" \in ops[i].arrived => n >= 2
        /\ "info" \in ops[i].arrived => n >= 3 /\ last = 3
        /\ "end" \notin ops[i].arrived
    <3>1. ops[i].sent \in Nat /\ n <= last
      BY <2>1, <2>2 DEF Op
    <3>2. ops[i].sent # last
      BY <3>1, <2>2
    <3> QED BY <2>1, <3>1, <3>2 DEF Progress
  <2>5. /\ "begin" \in a => n >= 1
        /\ "info" \in a => n >= 2 /\ last = 3
        /\ "end" \in a => n = last /\ last # 1
    <3> HIDE DEF n, last
    <3>0. last \in {1, 2, 3} /\ n \in 1 .. last
      BY <2>2
    <3>1. n = 1 \/ n = 2 \/ n = 3
      BY <3>0
    <3>2. n = 1 => r = "begin"
      BY <2>2
    <3>3. n = 2 => (last = 2 /\ r = "end") \/ (last = 3 /\ r = "info")
      <4>1. n = 2 => last = 2 \/ last = 3
        BY <3>0
      <4>2. n = 2 => r = Records(i)[2]
        BY <2>2
      <4>3. /\ last = 2 => Records(i)[2] = "end"
            /\ last = 3 => Records(i)[2] = "info"
        BY <2>2
      <4> QED BY <4>1, <4>2, <4>3
    <3>4. n = 3 => last = 3 /\ r = "end"
      <4>1. n = 3 => last = 3
        BY <3>0
      <4> QED BY <2>2, <4>1
    <3>5. /\ r = "begin" => n = 1
          /\ r = "info" => n = 2 /\ last = 3
          /\ r = "end" => n = last /\ last # 1
      BY <3>1, <3>2, <3>3, <3>4
    <3> QED BY <1>1, <2>4, <3>0, <3>5
  <2>6. n <= last
    <3> HIDE DEF n, last
    <3> QED BY <2>2
  <2> HIDE DEF n, last
  <2> QED BY <1>1, <2>3, <2>5, <2>6 DEF Progress
<1>3. \A j \in Ids : j # i => Progress(j)'
  <2> SUFFICES ASSUME NEW j \in Ids, j # i PROVE Progress(j)'
    OBVIOUS
  <2>1. Progress(j) /\ ops'[j] = ops[j] /\ Records(j)' = Records(j)
    BY <1>1 DEF KernelInv
  <2> QED BY <1>1, <2>1 DEF Progress
<1>4. \A j \in Ids : IsOpen(j)' => IsOpen(j)
  BY <1>1 DEF IsOpen, Sends
<1>5. Nested'
  <2>1. Nested
    BY DEF KernelInv
  <2>2. \A j \in Ids : \A h \in ops'[j].inside : h \in Ids /\ h < j /\ SameThread(h, j)'
    BY <1>1, <2>1 DEF Nested, SameThread
  <2>3. ASSUME NEW m \in Ids, NEW j \in Ids, m < j, SameThread(m, j)', IsOpen(m)'
        PROVE  m \in ops'[j].inside /\ ops'[m].sent > 0
    <3>1. SameThread(m, j) /\ IsOpen(m)
      BY <1>1, <1>4, <2>3 DEF SameThread
    <3>2. m \in ops[j].inside /\ ops[m].sent > 0
      BY <2>1, <2>3, <3>1 DEF Nested
    <3>3. ops'[m].sent > 0
      <4>1. ops[m].sent \in Nat
        BY <1>1 DEF Op
      <4> QED BY <1>1, <3>2, <4>1
    <3> QED BY <1>1, <3>2, <3>3
  <2>4. family.depth <= 1 => \A m, j \in Ids : m < j /\ SameThread(m, j)' => ~IsOpen(m)'
    BY <1>1, <1>4, <2>1 DEF Nested, SameThread
  <2> QED BY <1>1, <2>2, <2>3, <2>4 DEF Nested
<1> QED BY <1>1, <1>2, <1>3, <1>5 DEF KernelInv

\* What the begin of an operation changes.
LEMMA StartIs ==
  ASSUME KernelInv, NEW t \in family.threads, NEW k \in family.keys, NEW recv \in BOOLEAN,
         NEW header \in family.headers, Start(t, k, recv, header)
  PROVE  LET n == Len(ops) + 1 IN
         /\ Ids' = Ids \cup {n} /\ n \notin Ids /\ \A j \in Ids : j < n
         /\ family' = family /\ ops' \in Seq(Op)' /\ Len(ops') = n
         /\ \A j \in Ids : ops'[j] = ops[j] /\ Records(j)' = Records(j) /\ ops[j] \in Op
         /\ ops'[n] = NewOp(t, k, recv, header, Around(t))
         /\ UNCHANGED <<lost, evs, open>>
<1> DEFINE n == Len(ops) + 1
           new == NewOp(t, k, recv, header, Around(t))
<1>1. ops \in Seq(Op) /\ Len(ops) \in Nat /\ family' = family
  BY DEF KernelInv, Start
<1>2. Around(t) \in SUBSET Nat
  BY DEF Around, Ids
<1>3. new \in Op
  BY <1>2 DEF NewOp, Op
<1>4. ops' = Append(ops, new)
  BY DEF Start
<1> HIDE DEF new
<1>5. ops' \in Seq(Op) /\ Len(ops') = n /\ ops'[n] = new /\ \A j \in 1 .. Len(ops) : ops'[j] = ops[j]
  BY <1>1, <1>3, <1>4
<1>6. Op' = Op
  BY <1>1 DEF Op
<1>7. Ids = 1 .. Len(ops) /\ Ids' = 1 .. n
  BY <1>5 DEF Ids
<1>8. Ids' = Ids \cup {n} /\ n \notin Ids /\ \A j \in Ids : j < n
  BY <1>1, <1>7
<1>9. \A j \in Ids : Records(j)' = Records(j)
  BY <1>1, <1>5, <1>7 DEF Records
<1>10. \A j \in Ids : ops[j] \in Op
  BY <1>1, <1>7
<1>11. ops'[n] = NewOp(t, k, recv, header, Around(t))
  BY <1>5 DEF new
<1> QED BY <1>1, <1>5, <1>6, <1>7, <1>8, <1>9, <1>10, <1>11 DEF Start

\* The operations that a thread is in are finitely many.
LEMMA AroundIs ==
  ASSUME KernelInv, NEW t
  PROVE  IsFiniteSet(Around(t)) /\ Cardinality(Around(t)) \in Nat
<1>1. IsFiniteSet(Ids)
  BY FS_Interval DEF KernelInv, Ids
<1> QED BY <1>1, FS_Subset, FS_CardinalityType DEF Around

LEMMA StartKernel ==
  ASSUME KernelInv, NEW t \in family.threads, NEW k \in family.keys, NEW recv \in BOOLEAN,
         NEW header \in family.headers, Start(t, k, recv, header)
  PROVE  KernelInv'
<1>0. PICK n, in : n = Len(ops) + 1 /\ in = Around(t)
  OBVIOUS
<1>1. /\ Ids' = Ids \cup {n} /\ n \notin Ids /\ \A j \in Ids : j < n
      /\ family' = family /\ ops' \in Seq(Op)' /\ Len(ops') = n
      /\ \A j \in Ids : ops'[j] = ops[j] /\ Records(j)' = Records(j) /\ ops[j] \in Op
      /\ ops'[n] = NewOp(t, k, recv, header, in)
  BY <1>0, StartIs
<1>2. \A j : j \in in <=> j \in Ids /\ ops[j].tid = t /\ IsOpen(j)
  BY <1>0 DEF Around, IsOpen
<1>3. /\ ops'[n].tid = t /\ ops'[n].inside = in /\ ops'[n].sent = 0 /\ ops'[n].arrived = {}
      /\ ops'[n].state = "open" /\ ops'[n].released = "no" /\ ops'[n].key = k /\ ops'[n].recv = recv
  BY <1>1 DEF NewOp
<1>4. /\ \A j \in Ids : j \in Nat /\ j # 0
      /\ Nested /\ Len(ops) \in Nat /\ family \in Families /\ family.depth \in Nat
  BY FamiliesOK DEF KernelInv, Ids
<1>5. \A j \in Ids' : Progress(j)'
  <2>1. \A j \in Ids : Progress(j)'
    BY <1>1 DEF KernelInv, Progress
  <2>2. Records(n)' \in {<<"begin">>, <<"begin", "end">>, <<"begin", "info", "end">>}
    <3>1. family'.kind = "nsapp" => family'.long = {}
      BY <1>1, <1>4, FamiliesOK
    <3>2. CASE family'.kind = "nsapp" /\ ops'[n].key = 0
      BY <3>1, <3>2 DEF Records
    <3>3. CASE ~(family'.kind = "nsapp" /\ ops'[n].key = 0)
               /\ (family'.kind = "message" \/ ops'[n].key \in family'.long)
      BY <3>3 DEF Records
    <3>4. CASE ~(family'.kind = "nsapp" /\ ops'[n].key = 0)
               /\ ~(family'.kind = "message" \/ ops'[n].key \in family'.long)
      BY <3>4 DEF Records
    <3> QED BY <3>2, <3>3, <3>4
  <2>3. Len(Records(n)') \in Nat /\ Len(Records(n)') > 0
    <3>1. CASE Records(n)' = <<"begin">>
      BY <3>1
    <3>2. CASE Records(n)' = <<"begin", "end">>
      BY <3>2
    <3>3. CASE Records(n)' = <<"begin", "info", "end">>
      BY <3>3
    <3> QED BY <2>2, <3>1, <3>2, <3>3
  <2>4. Progress(n)'
    <3> DEFINE last == Len(Records(n)')
    <3>1. last \in Nat /\ last > 0
      BY <2>3
    <3> HIDE DEF last
    <3>2. 0 <= last /\ 0 # last
      BY <3>1
    <3>3. 0 <= Len(Records(n)') /\ 0 # Len(Records(n)')
      BY <3>2 DEF last
    <3> QED BY <1>3, <3>3 DEF Progress
  <2> QED BY <1>1, <2>1, <2>4
<1>6. \A j \in Ids : IsOpen(j)' <=> IsOpen(j)
  BY <1>1 DEF IsOpen
<1>7. Nested'
  <2>1. ASSUME NEW j \in Ids', NEW h \in ops'[j].inside
        PROVE  h \in Ids' /\ h < j /\ SameThread(h, j)'
    <3>1. CASE j \in Ids
      <4>1. h \in Ids /\ h < j /\ SameThread(h, j)
        BY <1>1, <1>4, <2>1, <3>1 DEF Nested
      <4> QED BY <1>1, <3>1, <4>1 DEF SameThread
    <3>2. CASE j = n
      BY <1>1, <1>2, <1>3, <2>1, <3>2 DEF SameThread
    <3> QED BY <1>1, <3>1, <3>2
  <2>2. \A m, j \in Ids' : m < j => m \in Ids
    <3>1. n \in Nat /\ \A h \in Ids' : h \in Nat /\ h <= n
      BY <1>0, <1>1, <1>4
    <3> QED BY <1>1, <3>1
  <2>3. ASSUME NEW m \in Ids', NEW j \in Ids', m < j, SameThread(m, j)', IsOpen(m)'
        PROVE  m \in ops'[j].inside /\ ops'[m].sent > 0
    <3>0. m \in Ids /\ IsOpen(m)
      BY <1>6, <2>2, <2>3
    <3>1. CASE j \in Ids
      <4>1. SameThread(m, j)
        BY <1>1, <2>3, <3>0, <3>1 DEF SameThread
      <4>2. m \in ops[j].inside /\ ops[m].sent > 0
        BY <1>4, <2>3, <3>0, <3>1, <4>1 DEF Nested
      <4> QED BY <1>1, <3>0, <3>1, <4>2
    <3>2. CASE j = n
      <4>1. ops[m].tid = t
        BY <1>1, <1>3, <2>3, <3>0, <3>2 DEF SameThread
      <4>2. ops[m].sent > 0
        BY <3>0, <4>1 DEF Start, IsOpen
      <4> QED BY <1>1, <1>2, <1>3, <3>0, <3>2, <4>1, <4>2
    <3> QED BY <1>1, <3>1, <3>2
  <2>4. ASSUME family.depth <= 1, NEW m \in Ids', NEW j \in Ids', m < j, SameThread(m, j)', IsOpen(m)' PROVE FALSE
    <3>1. Cardinality(in) = 0 /\ IsFiniteSet(in)
      <4>1. IsFiniteSet(in) /\ Cardinality(in) \in Nat /\ Cardinality(in) < family.depth
        BY <1>0, AroundIs DEF Start
      <4> QED BY <1>4, <2>4, <4>1
    <3>2. in = {}
      BY <3>1, FS_EmptySet
    <3>3. m \in Ids /\ IsOpen(m)
      BY <1>6, <2>2, <2>4
    <3>4. CASE j \in Ids
      BY <1>1, <1>4, <2>4, <3>3, <3>4 DEF Nested, SameThread
    <3>5. CASE j = n
      BY <1>1, <1>2, <1>3, <2>4, <3>2, <3>3, <3>5 DEF SameThread
    <3> QED BY <1>1, <2>4, <3>4, <3>5
  <2> QED BY <1>1, <2>1, <2>3, <2>4 DEF Nested
<1> QED BY <1>1, <1>4, <1>5, <1>7 DEF KernelInv

\* The send of the message at an address.
LEMMA SendAtIs ==
  ASSUME ops \in Seq(Op), NEW k
  PROVE  LET s == SendAt(k)
             S == {i \in Ids : ops[i].key = k /\ ~ops[i].recv /\ ops[i].released = "no"} IN
         /\ s = 0 => S = {}
         /\ s # 0 => s \in S /\ \A i \in S : i <= s
<1> DEFINE S == {i \in Ids : ops[i].key = k /\ ~ops[i].recv /\ ops[i].released = "no"}
<1>1. S \in SUBSET (1 .. Len(ops)) /\ Len(ops) \in Nat /\ SendAt(k) = LastOf(S)
  BY DEF SendAt, Ids
<1>2. \A i \in S : i # 0
  BY DEF Ids
<1> HIDE DEF S
<1>3. /\ S = {} => LastOf(S) = 0
      /\ S # {} => LastOf(S) \in S /\ \A j \in S : j <= LastOf(S)
  BY <1>1, LastOfIs
<1>4. /\ SendAt(k) = 0 => S = {}
      /\ SendAt(k) # 0 => SendAt(k) \in S /\ \A i \in S : i <= SendAt(k)
  BY <1>1, <1>2, <1>3
<1> QED BY <1>4 DEF S

\* What the release of the message of a send, at k, does to the operations.
Releases(s, k) ==
  /\ s \in Ids /\ ops[s].key = k /\ ~ops[s].recv /\ ops[s].released = "no"
  /\ \A i \in Ids : i > s /\ ops[i].key = k => ops[i].recv \/ ops[i].released # "no"
  /\ ops' \in Seq(Op)' /\ Len(ops') = Len(ops) /\ Ids' = Ids /\ family' = family
  /\ family.kind = "message"
  /\ \A i \in Ids : /\ ops'[i].tid = ops[i].tid /\ ops'[i].key = ops[i].key /\ ops'[i].recv = ops[i].recv
                    /\ ops'[i].header = ops[i].header /\ ops'[i].inside = ops[i].inside
                    /\ ops'[i].sent = ops[i].sent
                    /\ ops'[i].arrived = ops[i].arrived /\ Records(i)' = Records(i)
                    /\ i # s => ops'[i].released = ops[i].released
                    /\ ops'[i].state = IF ops[i].key = k /\ IsOpen(i) THEN "died" ELSE ops[i].state
                    /\ ops[i] \in Op
  /\ \A i, j \in Ids : ops[i].key = k /\ IsOpen(i) /\ SameThread(i, j) /\ IsOpen(j) => j <= i

LEMMA FreeReleases ==
  ASSUME KernelInv, NEW k, Free(k)
  PROVE  \E s : /\ Releases(s, k)
                /\ \/ ops'[s].released = "arrived" /\ FreeRecord(k, s)
                   \/ ops'[s].released = "lost" /\ Dropped
<1> DEFINE cut == {i \in Ids : ops[i].key = k /\ ops[i].state = "open"}
<1>1. PICK s : s = SendAt(k)
  OBVIOUS
<1>2. /\ s \in Ids /\ ops[s].key = k /\ ~ops[s].recv /\ ops[s].released = "no"
      /\ \A i \in Ids : ops[i].key = k /\ ~ops[i].recv /\ ops[i].released = "no" => i <= s
  <2>1. ops \in Seq(Op) /\ s # 0
    BY <1>1 DEF Free, KernelInv
  <2> QED BY <1>1, <2>1, SendAtIs
<1>3. PICK how \in {"arrived", "lost"} :
        /\ ops' = [i \in Ids |-> IF i = s /\ s \in cut
                                 THEN [ops[i] EXCEPT !.released = how, !.state = "died"]
                                 ELSE IF i = s THEN [ops[i] EXCEPT !.released = how]
                                 ELSE IF i \in cut THEN [ops[i] EXCEPT !.state = "died"]
                                 ELSE ops[i]]
        /\ how = "arrived" => FreeRecord(k, s)
        /\ how = "lost" => Dropped
  <2>1. CASE /\ ops' = [i \in Ids |-> IF i = s /\ s \in cut
                                 THEN [ops[i] EXCEPT !.released = "arrived", !.state = "died"]
                                 ELSE IF i = s THEN [ops[i] EXCEPT !.released = "arrived"]
                                 ELSE IF i \in cut THEN [ops[i] EXCEPT !.state = "died"]
                                 ELSE ops[i]]
             /\ FreeRecord(k, s)
    BY <2>1
  <2>2. CASE /\ ops' = [i \in Ids |-> IF i = s /\ s \in cut
                                 THEN [ops[i] EXCEPT !.released = "lost", !.state = "died"]
                                 ELSE IF i = s THEN [ops[i] EXCEPT !.released = "lost"]
                                 ELSE IF i \in cut THEN [ops[i] EXCEPT !.state = "died"]
                                 ELSE ops[i]]
             /\ Dropped
    BY <2>2
  <2> QED BY <1>1, <2>1, <2>2 DEF Free
<1>4. ops \in Seq(Op) /\ Ids = 1 .. Len(ops) /\ Len(ops) \in Nat /\ family' = family
      /\ family.kind = "message" /\ \A i \in cut : Running(ops[i].tid) = i
  <2>1. ops \in Seq(Op) /\ Ids = 1 .. Len(ops) /\ Len(ops) \in Nat
    BY DEF KernelInv, Ids
  <2>2. family' = family /\ family.kind = "message" /\ \A i \in cut : Running(ops[i].tid) = i
    BY DEF Free
  <2> QED BY <2>1, <2>2
<1>5. \A i \in Ids : ops[i] \in Op
  BY <1>4
<1>6. ASSUME NEW i \in Ids
      PROVE  /\ ops'[i] \in Op
             /\ ops'[i].tid = ops[i].tid /\ ops'[i].key = ops[i].key /\ ops'[i].recv = ops[i].recv
             /\ ops'[i].header = ops[i].header /\ ops'[i].inside = ops[i].inside
             /\ ops'[i].sent = ops[i].sent /\ ops'[i].arrived = ops[i].arrived
             /\ ops'[i].released = (IF i = s THEN how ELSE ops[i].released)
             /\ ops'[i].state = (IF ops[i].key = k /\ IsOpen(i) THEN "died" ELSE ops[i].state)
  <2>0. ops[i] \in Op
    BY <1>5
  <2>1. i \in cut <=> ops[i].key = k /\ IsOpen(i)
    BY DEF IsOpen
  <2> HIDE DEF cut
  <2>2. CASE i = s /\ i \in cut
    <3>1. ops'[i] = [ops[i] EXCEPT !.released = how, !.state = "died"]
      BY <1>3, <2>2
    <3> QED BY <2>0, <2>1, <2>2, <3>1 DEF Op
  <2>3. CASE i = s /\ i \notin cut
    <3>1. ops'[i] = [ops[i] EXCEPT !.released = how]
      BY <1>3, <2>3
    <3> QED BY <2>0, <2>1, <2>3, <3>1 DEF Op
  <2>4. CASE i # s /\ i \in cut
    <3>1. ops'[i] = [ops[i] EXCEPT !.state = "died"]
      BY <1>3, <2>4
    <3> QED BY <2>0, <2>1, <2>4, <3>1 DEF Op
  <2>5. CASE i # s /\ i \notin cut
    <3>1. ops'[i] = ops[i]
      BY <1>3, <2>5
    <3> QED BY <2>0, <2>1, <2>5, <3>1
  <2> QED BY <2>2, <2>3, <2>4, <2>5
<1>7. ops' \in Seq(Op) /\ Len(ops') = Len(ops)
  <2>1. DOMAIN ops' = 1 .. Len(ops)
    BY <1>3, <1>4
  <2>2. ops' = [i \in 1 .. Len(ops) |-> ops'[i]]
    BY <1>3, <1>4, <2>1
  <2>3. \A i \in 1 .. Len(ops) : ops'[i] \in Op
    BY <1>4, <1>6
  <2> QED BY <1>4, <2>2, <2>3
<1>8. Op' = Op /\ Ids' = Ids
  BY <1>4, <1>7 DEF Op, Ids
<1>9. \A i \in Ids : Records(i)' = Records(i)
  BY <1>4, <1>6 DEF Records
<1>10. \A i, j \in Ids : ops[i].key = k /\ IsOpen(i) /\ SameThread(i, j) /\ IsOpen(j) => j <= i
  <2> SUFFICES ASSUME NEW i \in Ids, NEW j \in Ids, ops[i].key = k, IsOpen(i), SameThread(i, j), IsOpen(j)
               PROVE  j <= i
    OBVIOUS
  <2>1. Running(ops[i].tid) = i /\ i # 0
    BY <1>4 DEF IsOpen
  <2> QED BY <1>4, <2>1, RunningIs DEF SameThread
<1>11. \A i \in Ids : i > s /\ ops[i].key = k => ops[i].recv \/ ops[i].released # "no"
  BY <1>2, <1>4
<1>12. Releases(s, k)
  BY <1>2, <1>4, <1>5, <1>6, <1>7, <1>8, <1>9, <1>10, <1>11 DEF Releases
<1>13. ops'[s].released = how
  BY <1>2, <1>6
<1> QED BY <1>3, <1>12, <1>13

LEMMA ReleaseKernel ==
  ASSUME KernelInv, NEW s, NEW k, Releases(s, k)
  PROVE  KernelInv'
<1>1. \A i \in Ids : Progress(i)'
  <2> SUFFICES ASSUME NEW i \in Ids PROVE Progress(i)'
    OBVIOUS
  <2>1. Progress(i)
    BY DEF KernelInv
  <2> QED BY <2>1 DEF Releases, Progress, IsOpen
<1>2. \A i \in Ids : IsOpen(i)' <=> IsOpen(i) /\ ops[i].key # k
  BY DEF Releases, IsOpen
<1>3. /\ Nested /\ Ids' = Ids /\ family' = family
      /\ \A i \in Ids : ops'[i].tid = ops[i].tid /\ ops'[i].inside = ops[i].inside /\ ops'[i].sent = ops[i].sent
  BY DEF KernelInv, Releases
<1>4. Nested'
  <2>1. \A j \in Ids : \A h \in ops'[j].inside : h \in Ids /\ h < j /\ SameThread(h, j)'
    BY <1>3 DEF Nested, SameThread
  <2>2. \A m, j \in Ids : m < j /\ SameThread(m, j)' /\ IsOpen(m)' => m \in ops'[j].inside /\ ops'[m].sent > 0
    BY <1>2, <1>3 DEF Nested, SameThread
  <2>3. family.depth <= 1 => \A m, j \in Ids : m < j /\ SameThread(m, j)' => ~IsOpen(m)'
    BY <1>2, <1>3 DEF Nested, SameThread
  <2> QED BY <1>3, <2>1, <2>2, <2>3 DEF Nested
<1> QED BY <1>1, <1>3, <1>4 DEF KernelInv, Releases


-----------------------------------------------------------------------------
(* The parser's events. *)

\* What a record of i can do to the events, with an open one e.
Begins(i, r, e)  == evs' = With(i, Made(i, r)) /\ open' = (open \ {e}) \cup {i}
Stands(i, r, e)  == evs' = With(i, [Made(i, r) EXCEPT !.end = i]) /\ open' = open \ {e}
Ends(i, e)       == e \in open /\ Ended(e, i)
Adds(i, r, e, a) == /\ e \in open /\ open' = open
                    /\ \/ evs' = [evs EXCEPT ![e].args = a]
                       \/ evs' = [evs EXCEPT ![e].args = a, ![e].mig = @ /\ ops[i].header.local]
                    /\ a \in SUBSET (evs[e].args \cup {<<i, r>>, <<e, "begin">>})
Changes(i, r, e) == \/ Begins(i, r, e) \/ Stands(i, r, e) \/ Ends(i, e) \/ Dropped
                    \/ \E a : Adds(i, r, e, a)

\* e is what the thread of i has open.
OpenIs(i, e) == family.kind # "block" => \A j \in open : SameThread(i, j) => j = e

LEMMA OpenOfIs ==
  ASSUME KernelInv, EventsInv, NEW i \in Ids, family.kind # "block"
  PROVE  LET e == OpenOf(ops[i].tid) IN
         /\ OpenIs(i, e) /\ e \in Nat
         /\ e # 0 => e \in open /\ SameThread(i, e)
<1> DEFINE S == {j \in open : ops[j].tid = ops[i].tid}
<1>1. Len(ops) \in Nat /\ open \subseteq Ids /\ Ids = 1 .. Len(ops)
  BY DEF KernelInv, EventsInv, Ids
<1>2. S \in SUBSET (1 .. Len(ops))
  BY <1>1
<1>3. OpenOf(ops[i].tid) = LastOf(S)
  BY DEF OpenOf
<1>4. /\ S = {} => LastOf(S) = 0
      /\ S # {} => LastOf(S) \in S
  BY <1>1, <1>2, LastOfIs
<1>5. PICK e : e = OpenOf(ops[i].tid)
  OBVIOUS
<1>6. e # 0 => e \in S
  BY <1>3, <1>4, <1>5
<1>7. e = 0 => S = {}
  BY <1>1, <1>3, <1>4, <1>5
<1>8. ASSUME NEW j \in open, SameThread(i, j) PROVE j = e
  <2>1. j \in S
    BY <1>8 DEF SameThread
  <2>2. e \in open /\ SameThread(j, e)
    BY <1>6, <1>7, <2>1 DEF SameThread
  <2>3. \A g, h \in open : SameThread(g, h) => g = h
    BY DEF EventsInv
  <2> QED BY <1>8, <2>2, <2>3
<1>9. e \in Nat
  <2>1. e = 0 \/ e \in open
    BY <1>6
  <2>2. e = 0 \/ e \in 1 .. Len(ops)
    BY <1>1, <2>1
  <2> QED BY <2>2
<1> QED BY <1>5, <1>6, <1>8, <1>9 DEF OpenIs, SameThread

\* What each of the changes makes of the events.
LEMMA WithIs ==
  ASSUME EventsInv, NEW i \in Ids, NEW v \in Event, evs' = With(i, v)
  PROVE  /\ evs' \in [DOMAIN evs' -> Event] /\ DOMAIN evs' = DOMAIN evs \cup {i}
         /\ evs'[i] = v /\ \A d \in DOMAIN evs : d # i => evs'[d] = evs[d]
BY DEF EventsInv, With

LEMMA MadeIs ==
  ASSUME NEW i \in Ids, NEW r \in RecordNames
  PROVE  /\ Made(i, r) \in Event
         /\ Made(i, r).args = {<<i, r>>} /\ Made(i, r).end = 0 /\ Made(i, r).freed = {}
         /\ Made(i, r).mig <=> ops[i].header.mig /\ ~ops[i].recv
<1>1. i \in Nat /\ <<i, r>> \in Nat \X RecordNames
  BY DEF Ids
<1> QED BY <1>1 DEF Made, Event

LEMMA MadeEndedIs ==
  ASSUME NEW i \in Ids, NEW r \in RecordNames, NEW v, v = [Made(i, r) EXCEPT !.end = i]
  PROVE  v \in Event /\ v.args = {<<i, r>>} /\ v.end = i /\ v.freed = {}
<1>1. i \in Nat /\ <<i, r>> \in Nat \X RecordNames
  BY DEF Ids
<1> QED BY <1>1 DEF Made, Event

LEMMA BeginsIs ==
  ASSUME EventsInv, NEW i \in Ids, NEW r \in RecordNames, NEW e, Begins(i, r, e)
  PROVE  /\ evs' \in [DOMAIN evs' -> Event] /\ DOMAIN evs' = DOMAIN evs \cup {i}
         /\ open' = (open \ {e}) \cup {i} /\ open' \subseteq DOMAIN evs'
         /\ evs'[i].args = {<<i, r>>} /\ evs'[i].end = 0 /\ evs'[i].freed = {}
         /\ evs'[i].mig <=> ops[i].header.mig /\ ~ops[i].recv
         /\ \A d \in DOMAIN evs : d # i => evs'[d] = evs[d]
<1>1. /\ Made(i, r) \in Event /\ Made(i, r).args = {<<i, r>>} /\ Made(i, r).end = 0 /\ Made(i, r).freed = {}
      /\ Made(i, r).mig <=> ops[i].header.mig /\ ~ops[i].recv
  BY MadeIs
<1>2. evs' = With(i, Made(i, r)) /\ open' = (open \ {e}) \cup {i}
  BY DEF Begins
<1>3. /\ evs' \in [DOMAIN evs' -> Event] /\ DOMAIN evs' = DOMAIN evs \cup {i}
      /\ evs'[i] = Made(i, r) /\ \A d \in DOMAIN evs : d # i => evs'[d] = evs[d]
  BY <1>1, <1>2, WithIs
<1>4. open \subseteq DOMAIN evs
  BY DEF EventsInv
<1> QED BY <1>1, <1>2, <1>3, <1>4

LEMMA StandsIs ==
  ASSUME EventsInv, NEW i \in Ids, NEW r \in RecordNames, NEW e, Stands(i, r, e)
  PROVE  /\ evs' \in [DOMAIN evs' -> Event] /\ DOMAIN evs' = DOMAIN evs \cup {i}
         /\ open' = open \ {e} /\ open' \subseteq DOMAIN evs'
         /\ evs'[i].args = {<<i, r>>} /\ evs'[i].end = i /\ evs'[i].freed = {}
         /\ \A d \in DOMAIN evs : d # i => evs'[d] = evs[d]
<1>0. PICK v : v = [Made(i, r) EXCEPT !.end = i]
  OBVIOUS
<1>1. v \in Event /\ v.args = {<<i, r>>} /\ v.end = i /\ v.freed = {}
  BY <1>0, MadeEndedIs
<1>2. evs' = With(i, v) /\ open' = open \ {e}
  BY <1>0 DEF Stands
<1>3. /\ evs' \in [DOMAIN evs' -> Event] /\ DOMAIN evs' = DOMAIN evs \cup {i}
      /\ evs'[i] = v /\ \A d \in DOMAIN evs : d # i => evs'[d] = evs[d]
  BY <1>1, <1>2, WithIs
<1>4. open \subseteq DOMAIN evs
  BY DEF EventsInv
<1> QED BY <1>1, <1>2, <1>3, <1>4

LEMMA EndsIs ==
  ASSUME EventsInv, NEW i \in Ids, NEW e, Ends(i, e)
  PROVE  /\ evs' \in [DOMAIN evs' -> Event] /\ DOMAIN evs' = DOMAIN evs /\ e \in DOMAIN evs
         /\ open' = open \ {e} /\ open' \subseteq DOMAIN evs'
         /\ evs'[e].args = evs[e].args /\ evs'[e].end = i /\ evs'[e].freed = evs[e].freed
         /\ evs'[e].mig = evs[e].mig
         /\ \A d \in DOMAIN evs : d # e => evs'[d] = evs[d]
<1>0. /\ evs \in [DOMAIN evs -> Event] /\ DOMAIN evs \subseteq Ids /\ open \subseteq DOMAIN evs
      /\ Ids \subseteq Nat
  BY DEF EventsInv, Ids
<1>1. e \in DOMAIN evs /\ evs' = [evs EXCEPT ![e].end = i] /\ open' = open \ {e} /\ i \in Nat
  BY <1>0 DEF Ends, Ended
<1>2. evs[e] \in Event
  BY <1>0, <1>1
<1>3. [evs[e] EXCEPT !.end = i] \in Event
  BY <1>1, <1>2 DEF Event
<1>4. evs'[e] = [evs[e] EXCEPT !.end = i] /\ DOMAIN evs' = DOMAIN evs
      /\ \A d \in DOMAIN evs : d # e => evs'[d] = evs[d]
  BY <1>0, <1>1
<1>5. evs'[e].args = evs[e].args /\ evs'[e].end = i /\ evs'[e].freed = evs[e].freed /\ evs'[e].mig = evs[e].mig
  BY <1>2, <1>4 DEF Event
<1>6. evs' \in [DOMAIN evs' -> Event]
  BY <1>0, <1>1, <1>3
<1> QED BY <1>0, <1>1, <1>4, <1>5, <1>6

LEMMA AddsIs ==
  ASSUME EventsInv, NEW i \in Ids, NEW r \in RecordNames, NEW e, NEW a, Adds(i, r, e, a)
  PROVE  /\ evs' \in [DOMAIN evs' -> Event] /\ DOMAIN evs' = DOMAIN evs /\ e \in DOMAIN evs
         /\ open' = open /\ open' \subseteq DOMAIN evs'
         /\ evs'[e].args = a /\ a \subseteq evs[e].args \cup {<<i, r>>, <<e, "begin">>}
         /\ evs'[e].end = evs[e].end /\ evs'[e].freed = evs[e].freed
         /\ \A d \in DOMAIN evs : d # e => evs'[d] = evs[d]
<1>0. /\ evs \in [DOMAIN evs -> Event] /\ DOMAIN evs \subseteq Ids /\ open \subseteq DOMAIN evs
      /\ Ids \subseteq Nat
  BY DEF EventsInv, Ids
<1>1. /\ e \in DOMAIN evs /\ open' = open
      /\ \/ evs' = [evs EXCEPT ![e].args = a]
         \/ evs' = [evs EXCEPT ![e].args = a, ![e].mig = @ /\ ops[i].header.local]
  BY <1>0 DEF Adds
<1>2. evs[e] \in Event
  BY <1>0, <1>1
<1>3. a \subseteq evs[e].args \cup {<<i, r>>, <<e, "begin">>}
  BY DEF Adds
<1>4. a \in SUBSET (Nat \X RecordNames)
  <2>1. evs[e].args \subseteq Nat \X RecordNames /\ i \in Nat /\ e \in Nat
    BY <1>0, <1>1, <1>2 DEF Event
  <2>2. "begin" \in RecordNames
    BY DEF RecordNames
  <2> QED BY <1>3, <2>1, <2>2
<1>5. PICK v : /\ v \in Event /\ v.args = a /\ v.end = evs[e].end /\ v.freed = evs[e].freed
               /\ evs' = [evs EXCEPT ![e] = v]
  <2>1. CASE evs' = [evs EXCEPT ![e].args = a]
    <3>1. PICK v : v = [evs[e] EXCEPT !.args = a]
      OBVIOUS
    <3>2. v \in Event /\ v.args = a /\ v.end = evs[e].end /\ v.freed = evs[e].freed
      BY <1>2, <1>4, <3>1 DEF Event
    <3> QED BY <2>1, <3>1, <3>2
  <2>2. CASE evs' = [evs EXCEPT ![e].args = a, ![e].mig = @ /\ ops[i].header.local]
    <3>1. PICK m \in BOOLEAN : m = (evs[e].mig /\ ops[i].header.local)
      OBVIOUS
    <3>2. PICK v : v = [evs[e] EXCEPT !.args = a, !.mig = m]
      OBVIOUS
    <3>3. v \in Event /\ v.args = a /\ v.end = evs[e].end /\ v.freed = evs[e].freed
      BY <1>2, <1>4, <3>2 DEF Event
    <3>4. evs' = [evs EXCEPT ![e] = v]
      BY <1>0, <1>1, <2>2, <3>1, <3>2
    <3> QED BY <3>3, <3>4
  <2> QED BY <1>1, <2>1, <2>2
<1>6. evs'[e] = v /\ DOMAIN evs' = DOMAIN evs /\ \A d \in DOMAIN evs : d # e => evs'[d] = evs[d]
  BY <1>0, <1>1, <1>5
<1>7. evs' \in [DOMAIN evs' -> Event]
  BY <1>0, <1>1, <1>5
<1> QED BY <1>0, <1>1, <1>3, <1>5, <1>6, <1>7

\* What is common to them.
LEMMA ChangesAre ==
  ASSUME EventsInv, NEW i \in Ids, NEW r \in RecordNames, NEW e, Changes(i, r, e)
  PROVE  /\ evs' \in [DOMAIN evs' -> Event] /\ DOMAIN evs' \subseteq Ids
         /\ DOMAIN evs' = DOMAIN evs \/ DOMAIN evs' = DOMAIN evs \cup {i}
         /\ open' \subseteq DOMAIN evs' /\ open' \subseteq open \cup {i}
         /\ \A d \in DOMAIN evs : d # i /\ d # e => evs'[d] = evs[d]
         /\ \A d \in DOMAIN evs' :
              /\ evs'[d].end = 0 \/ evs'[d].end = i \/ (d \in DOMAIN evs /\ evs'[d].end = evs[d].end)
              /\ \A x \in evs'[d].args :
                   x = <<i, r>> \/ (d \in DOMAIN evs /\ (x \in evs[d].args \/ x = <<d, "begin">>))
<1>1. DOMAIN evs \subseteq Ids
  BY DEF EventsInv
<1>2. CASE Begins(i, r, e)
  <2>1. /\ evs' \in [DOMAIN evs' -> Event] /\ DOMAIN evs' = DOMAIN evs \cup {i}
        /\ open' = (open \ {e}) \cup {i} /\ open' \subseteq DOMAIN evs'
        /\ evs'[i].args = {<<i, r>>} /\ evs'[i].end = 0
        /\ \A d \in DOMAIN evs : d # i => evs'[d] = evs[d]
    BY <1>2, BeginsIs
  <2>2. ASSUME NEW d \in DOMAIN evs'
        PROVE  /\ evs'[d].end = 0 \/ evs'[d].end = i \/ (d \in DOMAIN evs /\ evs'[d].end = evs[d].end)
               /\ \A x \in evs'[d].args :
                    x = <<i, r>> \/ (d \in DOMAIN evs /\ (x \in evs[d].args \/ x = <<d, "begin">>))
    <3>1. CASE d = i
      BY <2>1, <3>1
    <3>2. CASE d # i
      <4>1. d \in DOMAIN evs /\ evs'[d] = evs[d]
        BY <2>1, <3>2
      <4> QED BY <4>1
    <3> QED BY <3>1, <3>2
  <2> QED BY <1>1, <2>1, <2>2
<1>3. CASE Stands(i, r, e)
  <2>1. /\ evs' \in [DOMAIN evs' -> Event] /\ DOMAIN evs' = DOMAIN evs \cup {i}
        /\ open' = open \ {e} /\ open' \subseteq DOMAIN evs'
        /\ evs'[i].args = {<<i, r>>} /\ evs'[i].end = i
        /\ \A d \in DOMAIN evs : d # i => evs'[d] = evs[d]
    BY <1>3, StandsIs
  <2>2. ASSUME NEW d \in DOMAIN evs'
        PROVE  /\ evs'[d].end = 0 \/ evs'[d].end = i \/ (d \in DOMAIN evs /\ evs'[d].end = evs[d].end)
               /\ \A x \in evs'[d].args :
                    x = <<i, r>> \/ (d \in DOMAIN evs /\ (x \in evs[d].args \/ x = <<d, "begin">>))
    <3>1. CASE d = i
      BY <2>1, <3>1
    <3>2. CASE d # i
      <4>1. d \in DOMAIN evs /\ evs'[d] = evs[d]
        BY <2>1, <3>2
      <4> QED BY <4>1
    <3> QED BY <3>1, <3>2
  <2> QED BY <1>1, <2>1, <2>2
<1>4. CASE Ends(i, e)
  BY <1>1, <1>4, EndsIs
<1>5. ASSUME NEW a, Adds(i, r, e, a)
      PROVE  /\ evs' \in [DOMAIN evs' -> Event] /\ DOMAIN evs' = DOMAIN evs
             /\ open' \subseteq DOMAIN evs' /\ open' = open
             /\ \A d \in DOMAIN evs : d # e => evs'[d] = evs[d]
             /\ \A d \in DOMAIN evs' :
                  /\ evs'[d].end = evs[d].end
                  /\ \A x \in evs'[d].args :
                       x = <<i, r>> \/ x \in evs[d].args \/ x = <<d, "begin">>
  BY <1>5, AddsIs
<1>6. CASE Dropped
  BY <1>1, <1>6 DEF Dropped, EventsInv
<1> QED BY <1>1, <1>2, <1>3, <1>4, <1>5, <1>6 DEF Changes

\* Such a change keeps what holds of all kinds of events.
LEMMA ChangesEvents ==
  ASSUME KernelInv, EventsInv, NEW i, NEW r, NEW e, Sends(i, r), Written(i, r, ops[i].arrived \cup {r}),
         Changes(i, r, e), OpenIs(i, e),
         family.kind \notin {"block", "trap"} /\ r = "end" => i \notin open'
  PROVE  EventsInv'
<1>1. /\ i \in Ids /\ Ids' = Ids /\ family' = family
      /\ r \in RecordNames
      /\ \A j \in Ids : /\ ops'[j].tid = ops[j].tid
                        /\ j # i => ops'[j] = ops[j]
                        /\ ops[j] \in Op
      /\ ops'[i].sent = ops[i].sent + 1 /\ ops'[i].arrived = ops[i].arrived \cup {r}
  BY WrittenIs
<1>2. /\ evs' \in [DOMAIN evs' -> Event] /\ DOMAIN evs' \subseteq Ids
      /\ DOMAIN evs' = DOMAIN evs \/ DOMAIN evs' = DOMAIN evs \cup {i}
      /\ open' \subseteq DOMAIN evs' /\ open' \subseteq open \cup {i}
      /\ \A d \in DOMAIN evs : d # i /\ d # e => evs'[d] = evs[d]
      /\ \A d \in DOMAIN evs' :
           /\ evs'[d].end = 0 \/ evs'[d].end = i \/ (d \in DOMAIN evs /\ evs'[d].end = evs[d].end)
           /\ \A x \in evs'[d].args :
                x = <<i, r>> \/ (d \in DOMAIN evs /\ (x \in evs[d].args \/ x = <<d, "begin">>))
  BY <1>1, ChangesAre
<1>3. \A j \in Ids : ops[j].arrived \subseteq ops'[j].arrived /\ (ops[j].sent >= 1 => ops'[j].sent >= 1)
  BY <1>1 DEF Op
<1>4. ops'[i].sent >= 1
  <2>1. ops[i].sent \in Nat
    BY <1>1 DEF Op
  <2> QED BY <1>1, <2>1
<1>5. /\ DOMAIN evs \subseteq Ids /\ open \subseteq DOMAIN evs
      /\ \A d \in DOMAIN evs : ops[d].arrived # {}
      /\ \A d \in DOMAIN evs : evs[d].end # 0 => evs[d].end \in Ids /\ ops[evs[d].end].sent >= 1
      /\ \A d \in DOMAIN evs : \A x \in evs[d].args : x[1] \in Ids /\ ops[x[1]].sent >= 1
      /\ family.kind # "block" => \A h, j \in open : SameThread(h, j) => h = j
      /\ family.kind \notin {"block", "trap"} => \A h \in open : "end" \notin ops[h].arrived
  BY DEF EventsInv
<1>6. \A d \in DOMAIN evs' : ops'[d].arrived # {}
  BY <1>1, <1>2, <1>3, <1>5
<1>8. \A d \in DOMAIN evs' : evs'[d].end # 0 => evs'[d].end \in Ids /\ ops'[evs'[d].end].sent >= 1
  BY <1>1, <1>2, <1>3, <1>4, <1>5
<1>9. \A d \in DOMAIN evs' : ops'[d].sent >= 1
  <2> SUFFICES ASSUME NEW d \in DOMAIN evs' PROVE ops'[d].sent >= 1
    OBVIOUS
  <2>1. CASE d = i
    BY <1>4, <2>1
  <2>2. CASE d # i
    <3>1. d \in DOMAIN evs /\ d \in Ids /\ ops'[d] = ops[d] /\ ops[d].arrived # {} /\ ops[d] \in Op /\ Progress(d)
      BY <1>1, <1>2, <1>5, <2>2 DEF KernelInv
    <3>2. ops[d].sent >= 1
      <4>1. PICK x \in RecordNames : x \in ops[d].arrived
        BY <3>1 DEF Op
      <4>2. ops[d].sent \in Nat /\ (Len(Records(d)) = 1 \/ Len(Records(d)) = 2 \/ Len(Records(d)) = 3)
        BY <3>1, RecordsHave DEF Op, KernelInv
      <4>3. CASE x = "end"
        <5>1. ops[d].sent = Len(Records(d))
          BY <3>1, <4>1, <4>3 DEF Progress
        <5>2. ops[d].sent = 1 \/ ops[d].sent = 2 \/ ops[d].sent = 3
          BY <4>2, <5>1
        <5> QED BY <5>2
      <4>4. CASE x # "end"
        BY <3>1, <4>1, <4>2, <4>4 DEF Progress, RecordNames
      <4> QED BY <4>3, <4>4
    <3> QED BY <3>1, <3>2
  <2> QED BY <2>1, <2>2
<1>10. \A d \in DOMAIN evs' : \A x \in evs'[d].args : x[1] \in Ids /\ ops'[x[1]].sent >= 1
  <2> SUFFICES ASSUME NEW d \in DOMAIN evs', NEW x \in evs'[d].args
               PROVE  x[1] \in Ids /\ ops'[x[1]].sent >= 1
    OBVIOUS
  <2>1. (d \in DOMAIN evs /\ x \in evs[d].args) \/ x[1] = i \/ x[1] = d
    BY <1>2
  <2> QED BY <1>1, <1>2, <1>3, <1>4, <1>5, <1>9, <2>1
<1>11. ASSUME family.kind # "block", NEW h \in open', NEW j \in open', SameThread(h, j)' PROVE h = j
  <2>1. h \in Ids /\ j \in Ids /\ SameThread(h, j)
    BY <1>1, <1>2, <1>11 DEF SameThread
  <2>2. \A g \in open : SameThread(i, g) => g = e
    BY <1>11 DEF OpenIs
  <2>3. CASE Begins(i, r, e)
    BY <1>5, <1>11, <2>1, <2>2, <2>3 DEF Begins, SameThread
  <2>4. CASE ~Begins(i, r, e)
    <3>1. open' \subseteq open
      BY <2>4 DEF Changes, Stands, Ends, Ended, Adds, Dropped
    <3> QED BY <1>5, <1>11, <2>1, <3>1
  <2> QED BY <2>3, <2>4
<1>12. ASSUME family.kind \notin {"block", "trap"}, NEW h \in open' PROVE "end" \notin ops'[h].arrived
  <2>1. h = i \/ h \in open
    BY <1>2
  <2>2. CASE h # i
    BY <1>1, <1>2, <1>5, <1>12, <2>1, <2>2
  <2>3. CASE h = i
    <3>1. r # "end"
      BY <1>12, <2>3
    <3>2. "end" \notin ops[i].arrived
      <4>1. IsOpen(i) /\ Progress(i)
        BY <1>1 DEF Sends, KernelInv
      <4> QED BY <4>1 DEF IsOpen, Progress
    <3> QED BY <1>1, <2>3, <3>1, <3>2
  <2> QED BY <2>2, <2>3
<1>13. Event' = Event
  BY DEF Event
<1> QED BY <1>1, <1>2, <1>6, <1>8, <1>10, <1>11, <1>12, <1>13 DEF EventsInv


-----------------------------------------------------------------------------
(* What disturbs an operation. *)

\* All that begin in an open operation are within it.
LEMMA LaterIsWithin ==
  ASSUME KernelInv, NEW i \in Ids, NEW j \in Ids, i < j, SameThread(i, j), IsOpen(i)
  PROVE  j \in Within(i)
BY DEF KernelInv, Nested, Within

\* What every step does for the operations there are.
Keeps ==
  /\ family' = family /\ Ids \subseteq Ids' /\ Ids' \subseteq Nat
  /\ \A j \in Ids' : j \notin Ids => \A h \in Ids : h < j
  /\ \A j \in Ids : /\ ops'[j].tid = ops[j].tid /\ ops'[j].key = ops[j].key /\ ops'[j].inside = ops[j].inside
                    /\ ops[j].arrived \subseteq ops'[j].arrived
                    /\ ~IsOpen(j) => ops'[j].arrived = ops[j].arrived /\ ops'[j].state # "open"

LEMMA WithinStays ==
  ASSUME KernelInv, Keeps, NEW i \in Ids, NEW j \in Ids
  PROVE  j \in Within(i)' <=> j \in Within(i)
BY DEF Keeps, Within

LEMMA CalmStays ==
  ASSUME KernelInv, Keeps, NEW i \in Ids, ~Calm(i)
  PROVE  ~Calm(i)'
<1>1. /\ family' = family /\ Ids \subseteq Ids' /\ Ids' \subseteq Nat
      /\ \A j \in Ids : /\ ops'[j].tid = ops[j].tid /\ ops'[j].key = ops[j].key
                        /\ ops[j].arrived \subseteq ops'[j].arrived
                        /\ ~IsOpen(j) => ops'[j].arrived = ops[j].arrived /\ ops'[j].state # "open"
  BY DEF Keeps
<1>2. /\ family \in Families /\ Nested /\ \A j \in Ids : Progress(j) /\ ops[j] \in Op
      /\ Len(ops) \in Nat /\ Ids = 1 .. Len(ops)
  BY DEF KernelInv, Ids
<1>3. \A j \in Ids : j \in Within(i) => j \in Within(i)'
  BY WithinStays
<1>4. Within(i) \subseteq Ids
  BY DEF Within
<1>5. \A j \in 1 .. i - 1 : j \in Ids /\ j < i
  BY <1>2
<1>6. CASE family.kind = "block"
  <2>1. PICK j \in Within(i) : ops[j].key = ops[i].key /\ ~IsOpen(j) /\ Cardinality(ops[j].arrived) = 1
    BY <1>6 DEF Calm
  <2>2. j \in Ids /\ j \in Within(i)'
    BY <1>3, <1>4
  <2>3. ops'[j].key = ops'[i].key /\ ops'[j].arrived = ops[j].arrived /\ ~IsOpen(j)'
    BY <1>1, <2>1, <2>2 DEF IsOpen
  <2> QED BY <1>1, <1>6, <2>1, <2>2, <2>3 DEF Calm
<1>7. CASE family.kind \in {"message", "wakeup"}
  <2>1. Within(i) # {}
    BY <1>7 DEF Calm, Disturbed
  <2>2. Within(i)' # {}
    BY <1>3, <1>4, <2>1
  <2>3. Disturbed(i)'
    BY <1>1, <1>7, <2>2 DEF Disturbed
  <2> QED BY <1>1, <1>7, <2>3 DEF Calm
<1>8. CASE family.kind = "interrupt"
  <2>1. Disturbed(i)
    BY <1>8 DEF Calm
  <2>2. CASE Refused(i)
    <3>1. PICK j \in 1 .. i - 1 :
            /\ ops[j].tid = ops[i].tid /\ "begin" \in ops[j].arrived
            /\ "end" \notin ops[j].arrived \/ i \in Within(j)
            /\ ~\E k \in j + 1 .. i - 1 : /\ ops[k].tid = ops[i].tid /\ ops[k].key = ops[j].key
                                          /\ "end" \in ops[k].arrived /\ i \notin Within(k)
      BY <2>2 DEF Refused
    <3>2. \A k \in 1 .. i - 1 : ops[k].tid = ops[i].tid /\ IsOpen(k) => i \in Within(k)
      BY <1>5, LaterIsWithin DEF SameThread
    <3>3. \A k \in 1 .. i - 1 : i \in Within(k)' <=> i \in Within(k)
      BY <1>5, WithinStays
    <3>4. ops'[j].tid = ops'[i].tid /\ "begin" \in ops'[j].arrived
      BY <1>1, <1>5, <3>1
    <3>5. "end" \notin ops'[j].arrived \/ i \in Within(j)'
      <4>1. CASE IsOpen(j)
        BY <3>1, <3>2, <3>3, <4>1
      <4>2. CASE ~IsOpen(j)
        BY <1>1, <1>5, <3>1, <3>3, <4>2
      <4> QED BY <4>1, <4>2
    <3>6. ASSUME NEW k \in j + 1 .. i - 1, ops'[k].tid = ops'[i].tid, ops'[k].key = ops'[j].key,
                 "end" \in ops'[k].arrived, i \notin Within(k)'
          PROVE  FALSE
      <4>1. k \in 1 .. i - 1 /\ k \in Ids
        BY <1>2, <1>5
      <4>2. i \notin Within(k) /\ ops[k].tid = ops[i].tid /\ ops[k].key = ops[j].key
        BY <1>1, <1>5, <3>3, <3>6, <4>1
      <4>3. ~IsOpen(k)
        BY <3>2, <4>1, <4>2
      <4>4. "end" \in ops[k].arrived
        BY <1>1, <3>6, <4>1, <4>3
      <4> QED BY <3>1, <4>2, <4>4
    <3>7. Refused(i)'
      BY <3>1, <3>4, <3>5, <3>6 DEF Refused
    <3>8. Disturbed(i)'
      BY <1>1, <1>8, <3>7 DEF Disturbed
    <3> QED BY <1>1, <1>8, <3>8 DEF Calm
  <2>3. CASE \E j \in Within(i) : ops[j].key = ops[i].key /\ "end" \in ops[j].arrived
    <3>1. PICK j \in Within(i) : ops[j].key = ops[i].key /\ "end" \in ops[j].arrived
      BY <2>3
    <3>2. j \in Within(i)' /\ ops'[j].key = ops'[i].key /\ "end" \in ops'[j].arrived
      BY <1>1, <1>3, <1>4, <3>1
    <3>3. Disturbed(i)'
      BY <1>1, <1>8, <3>2 DEF Disturbed
    <3> QED BY <1>1, <1>8, <3>3 DEF Calm
  <2> QED BY <1>8, <2>1, <2>2, <2>3 DEF Disturbed
<1>9. CASE family.kind \in {"call", "frames", "nsapp", "trap"}
  <2>0. family.depth <= 1
    BY <1>2, <1>9, FamiliesOK
  <2>1. \A j, k \in Ids : j < k /\ ops[j].tid = ops[k].tid => ops'[j].arrived = ops[j].arrived
    BY <1>1, <1>2, <2>0 DEF Nested, SameThread
  <2>2. Disturbed(i)
    BY <1>9 DEF Calm
  <2>3. CASE family.kind = "call"
    <3>1. PICK j \in 1 .. i - 1 : /\ ops[j].tid = ops[i].tid /\ ops[j].key = ops[i].key
                                  /\ Cardinality(ops[j].arrived \cap {"begin", "info"}) = 1
                                  /\ ops[j].key \in family.long /\ "end" \notin ops[j].arrived
      BY <2>2, <2>3 DEF Disturbed
    <3>2. j \in Ids /\ ops'[j].arrived = ops[j].arrived
      BY <1>5, <2>1, <3>1
    <3>3. Disturbed(i)'
      BY <1>1, <2>3, <3>1, <3>2 DEF Disturbed
    <3> QED BY <1>1, <2>3, <3>3 DEF Calm
  <2>4. CASE family.kind = "frames"
    <3>1. PICK j \in 1 .. i - 1 :
           /\ ops[j].tid = ops[i].tid /\ ops[j].key = ops[i].key
           /\ ops[j].arrived # {} /\ "end" \notin ops[j].arrived
           /\ \A k \in j + 1 .. i - 1 : ops[k].tid = ops[j].tid =>
                ops[k].arrived \subseteq (IF ops[k].key = ops[j].key THEN {"begin", "info"} ELSE {})
      BY <2>2, <2>4 DEF Disturbed
    <3>2. j \in Ids /\ ops'[j].arrived = ops[j].arrived
      BY <1>5, <2>1, <3>1
    <3>3. ASSUME NEW k \in j + 1 .. i - 1, ops'[k].tid = ops'[j].tid
          PROVE  ops'[k].arrived \subseteq (IF ops'[k].key = ops'[j].key THEN {"begin", "info"} ELSE {})
      <4>1. k \in Ids /\ k < i
        BY <1>2, <1>5
      <4>2. ops[k].tid = ops[j].tid /\ ops[k].tid = ops[i].tid
        BY <1>1, <3>1, <3>2, <3>3, <4>1
      <4>3. ops'[k].arrived = ops[k].arrived
        BY <2>1, <4>1, <4>2
      <4>4. ops[k].arrived \subseteq (IF ops[k].key = ops[j].key THEN {"begin", "info"} ELSE {})
        BY <3>1, <4>2
      <4> QED BY <1>1, <3>2, <4>1, <4>3, <4>4
    <3>4. ops'[j].tid = ops'[i].tid /\ ops'[j].key = ops'[i].key
      BY <1>1, <3>1, <3>2
    <3>5. Disturbed(i)'
      BY <1>1, <2>4, <3>1, <3>2, <3>3, <3>4 DEF Disturbed
    <3> QED BY <1>1, <2>4, <3>5 DEF Calm
  <2>5. CASE family.kind = "nsapp"
    <3>1. PICK j \in i + 1 .. Len(ops) :
            /\ ops[j].tid = ops[i].tid /\ ops[j].arrived = {"end"}
            /\ \A k \in i + 1 .. j - 1 : ops[k].tid = ops[i].tid => ops[k].arrived = {}
      BY <2>2, <2>5 DEF Disturbed
    <3>2. j \in Ids /\ ops'[j].arrived = {"end"} /\ ops'[j].tid = ops'[i].tid
      <4>1. j \in Ids
        BY <1>2
      <4>2. ~IsOpen(j)
        BY <1>2, <3>1, <4>1 DEF IsOpen, Progress
      <4> QED BY <1>1, <3>1, <4>1, <4>2
    <3>3. ASSUME NEW k \in i + 1 .. j - 1, ops'[k].tid = ops'[i].tid
          PROVE  ops'[k].arrived = {}
      <4>1. k \in Ids /\ k < j
        BY <1>2, <3>2
      <4>2. ops[k].tid = ops[i].tid
        BY <1>1, <3>3, <4>1
      <4> QED BY <2>1, <3>1, <3>2, <4>1, <4>2
    <3>4. j \in i + 1 .. Len(ops')
      <4>1. j \in Ids' /\ i < j /\ j \in Nat /\ i \in Nat
        BY <1>1, <1>2, <3>2
      <4> QED BY <4>1 DEF Ids
    <3>5. ops'[i].key = 0
      BY <1>1, <2>2, <2>5 DEF Disturbed
    <3>6. Disturbed(i)'
      BY <1>1, <2>5, <3>2, <3>3, <3>4, <3>5 DEF Disturbed
    <3> QED BY <1>1, <2>5, <3>6 DEF Calm
  <2>6. CASE family.kind = "trap"
    <3> DEFINE mine == {j \in 1 .. i - 1 : ops[j].tid = ops[i].tid}
    <3>1. {j \in 1 .. i - 1 : ops'[j].tid = ops'[i].tid} = mine
      BY <1>1, <1>5
    <3>2. \A j \in mine : ops'[j].arrived = ops[j].arrived
      BY <1>5, <2>1
    <3>3. {x \in mine \X {"begin", "end"} : x[2] \notin ops'[x[1]].arrived}
          = {x \in mine \X {"begin", "end"} : x[2] \notin ops[x[1]].arrived}
      <4> HIDE DEF mine
      <4> QED BY <3>2
    <3> HIDE DEF mine
    <3>4. LostBefore(i)' = LostBefore(i)
      BY <3>1, <3>3 DEF LostBefore, mine
    <3>5. Disturbed(i)'
      BY <1>1, <2>2, <2>6, <3>4 DEF Disturbed
    <3> QED BY <1>1, <2>6, <3>5 DEF Calm
  <2> QED BY <1>9, <2>3, <2>4, <2>5, <2>6
<1> QED BY <1>2, <1>6, <1>7, <1>8, <1>9, FamiliesOK

LEMMA WrittenKeeps ==
  ASSUME KernelInv, NEW i, NEW r, NEW a, Sends(i, r), Written(i, r, a),
         a = ops[i].arrived \/ a = ops[i].arrived \cup {r}
  PROVE  Keeps
<1>1. /\ i \in Ids /\ Ids' = Ids /\ family' = family
      /\ \A j \in Ids : /\ ops'[j].tid = ops[j].tid /\ ops'[j].key = ops[j].key
                        /\ ops'[j].inside = ops[j].inside
                        /\ j # i => ops'[j] = ops[j]
      /\ ops'[i].arrived = a
  BY WrittenIs
<1>2. IsOpen(i) /\ Ids \subseteq Nat
  BY DEF Sends, Ids
<1> QED BY <1>1, <1>2 DEF Keeps, IsOpen

LEMMA StartKeeps ==
  ASSUME KernelInv, NEW t \in family.threads, NEW k \in family.keys, NEW recv \in BOOLEAN,
         NEW header \in family.headers, Start(t, k, recv, header)
  PROVE  Keeps
<1>1. PICK n : /\ Ids' = Ids \cup {n} /\ \A j \in Ids : j < n
               /\ family' = family
               /\ \A j \in Ids : ops'[j] = ops[j]
  BY StartIs
<1>2. Ids' \subseteq Nat
  BY DEF Ids
<1> QED BY <1>1, <1>2 DEF Keeps, IsOpen

LEMMA ReleaseKeeps ==
  ASSUME KernelInv, NEW s, NEW k, Releases(s, k)
  PROVE  Keeps
<1>1. Ids' \subseteq Nat
  BY DEF Ids
<1> QED BY <1>1 DEF Releases, Keeps, IsOpen

\* The first record of an operation, and the others.
LEMMA FirstRecord ==
  ASSUME KernelInv, NEW i, NEW r, Sends(i, r)
  PROVE  /\ r = "begin" => ops[i].sent = 0 /\ ops[i].arrived = {}
         /\ r # "begin" => ops[i].sent >= 1
         /\ r = "end" <=> ops[i].sent + 1 = Len(Records(i)) /\ Len(Records(i)) # 1
         /\ "end" \notin ops[i].arrived
         /\ r = "info" => Len(Records(i)) = 3
<1>1. i \in Ids /\ IsOpen(i) /\ Progress(i) /\ ops[i] \in Op /\ family \in Families
  <2>1. i \in Ids /\ IsOpen(i) /\ Ids = 1 .. Len(ops)
    BY DEF Sends, Ids
  <2> QED BY <2>1 DEF KernelInv
<1>2. /\ ops[i].sent \in Nat /\ ops[i].sent + 1 \in 1 .. Len(Records(i))
      /\ r = Records(i)[ops[i].sent + 1]
  BY <1>1, RecordsHave DEF Sends, Op
<1>3. PICK n, last : n = ops[i].sent + 1 /\ last = Len(Records(i))
  OBVIOUS
<1>4. n \in 1 .. last /\ last \in {1, 2, 3}
  BY <1>1, <1>2, <1>3, RecordsHave
<1>5. n = 1 \/ n = 2 \/ n = 3
  BY <1>4
<1>6. /\ n = 1 => r = "begin"
      /\ n = 2 => (last = 2 /\ r = "end") \/ (last = 3 /\ r = "info")
      /\ n = 3 => last = 3 /\ r = "end"
  <2>1. n = 1 => r = "begin"
    BY <1>1, <1>2, <1>3, RecordsHave
  <2>2. ASSUME n = 2 PROVE (last = 2 /\ r = "end") \/ (last = 3 /\ r = "info")
    <3>1. last = 2 \/ last = 3
      BY <1>4, <2>2
    <3>2. r = Records(i)[2]
      BY <1>2, <1>3, <2>2
    <3> QED BY <1>1, <1>3, <3>1, <3>2, RecordsHave
  <2>3. ASSUME n = 3 PROVE last = 3 /\ r = "end"
    <3>1. last = 3
      BY <1>4, <2>3
    <3>2. r = Records(i)[3]
      BY <1>2, <1>3, <2>3
    <3> QED BY <1>1, <1>3, <3>1, <3>2, RecordsHave
  <2> QED BY <2>1, <2>2, <2>3
<1>7. "end" \notin ops[i].arrived
  BY <1>1 DEF IsOpen, Progress
<1>8. ASSUME r = "begin" PROVE ops[i].sent = 0 /\ ops[i].arrived = {}
  <2>1. n = 1
    BY <1>5, <1>6, <1>8
  <2>2. ops[i].sent = 0
    BY <1>2, <1>3, <2>1
  <2> QED BY <1>1, <1>7, <2>2 DEF Progress, Op, RecordNames
<1>9. r # "begin" => n = 2 \/ n = 3
  BY <1>5, <1>6
<1>10. r # "begin" => ops[i].sent >= 1
  BY <1>2, <1>3, <1>9
<1>11. r = "end" <=> n = last /\ last # 1
  BY <1>4, <1>5, <1>6
<1>12. r = "info" => last = 3
  BY <1>5, <1>6
<1> QED BY <1>3, <1>7, <1>8, <1>10, <1>11, <1>12

\* A record that arrives keeps WholeInv if its handler leaves the events of calm operations that
\* are open, or kept, and brings a calm operation's own record to its own event.
LEMMA ArrivalWhole ==
  ASSUME KernelInv, EventsInv, WholeInv,
         NEW i, NEW r, NEW e, Sends(i, r), Written(i, r, ops[i].arrived \cup {r}), Changes(i, r, e),
         r = "begin" /\ Calm(i)' => Begins(i, r, e),
         r # "begin" /\ "begin" \in ops[i].arrived /\ Calm(i)' =>
           /\ e = i
           /\ IF r = "end" THEN Ends(i, i) ELSE Adds(i, r, i, evs[i].args \cup {<<i, r>>}),
         \A j \in Ids : j # i /\ "begin" \in ops[j].arrived /\ IsOpen(j) /\ Calm(j)' => j # e \/ Dropped,
         \A j \in Ids : j # i /\ Kept(j) /\ j \in open /\ Calm(j)' => j # e \/ Begins(i, r, e) \/ Dropped
  PROVE  WholeInv'
<1>1. /\ i \in Ids /\ Ids' = Ids /\ family' = family /\ r \in RecordNames
      /\ \A j \in Ids : /\ ops'[j].key = ops[j].key
                        /\ j # i => ops'[j] = ops[j]
                        /\ Records(j)' = Records(j)
                        /\ ops[j] \in Op
      /\ ops'[i].sent = ops[i].sent + 1 /\ ops'[i].arrived = ops[i].arrived \cup {r}
      /\ ops'[i].state = IF ops[i].sent + 1 = Len(Records(i)) THEN "done" ELSE "open"
  BY WrittenIs
<1>0. i \in Ids /\ r \in RecordNames
  BY <1>1
<1>2. Keeps
  BY WrittenKeeps
<1>3. \A j \in Ids : Calm(j)' => Calm(j)
  BY <1>2, CalmStays
<1>4. /\ evs' \in [DOMAIN evs' -> Event] /\ DOMAIN evs' \subseteq Ids
      /\ DOMAIN evs' = DOMAIN evs \/ DOMAIN evs' = DOMAIN evs \cup {i}
      /\ open' \subseteq DOMAIN evs' /\ open' \subseteq open \cup {i}
      /\ \A d \in DOMAIN evs : d # i /\ d # e => evs'[d] = evs[d]
      /\ \A d \in DOMAIN evs' :
           /\ evs'[d].end = 0 \/ evs'[d].end = i \/ (d \in DOMAIN evs /\ evs'[d].end = evs[d].end)
           /\ \A x \in evs'[d].args :
                x = <<i, r>> \/ (d \in DOMAIN evs /\ (x \in evs[d].args \/ x = <<d, "begin">>))
  BY <1>0, ChangesAre
<1>5. /\ r = "begin" => ops[i].sent = 0 /\ ops[i].arrived = {}
      /\ r # "begin" => ops[i].sent >= 1
      /\ r = "end" <=> ops[i].sent + 1 = Len(Records(i)) /\ Len(Records(i)) # 1
      /\ "end" \notin ops[i].arrived
      /\ IsOpen(i)
  BY FirstRecord DEF Sends
<1>6. family \in Families /\ 0 \notin Ids /\ open \subseteq DOMAIN evs /\ DOMAIN evs \subseteq Ids
  BY DEF KernelInv, Ids, EventsInv
<1>7. open \ {e, i} \subseteq open'
  BY DEF Changes, Begins, Stands, Ends, Ended, Adds, Dropped
\* Of the other operations.
<1>8. \A j \in Ids : j # i =>
        /\ (Kept(j)' <=> Kept(j)) /\ (IsOpen(j)' <=> IsOpen(j)) /\ Own(j)' = Own(j)
        /\ "begin" \in ops'[j].arrived <=> "begin" \in ops[j].arrived
  BY <1>1 DEF Kept, IsOpen, Own
<1>9. ASSUME NEW j \in Ids, j # i, "begin" \in ops'[j].arrived, IsOpen(j)', Calm(j)'
      PROVE  j \in open' /\ evs'[j].args = Own(j)' /\ evs'[j].end = 0
  <2>1. j \in open /\ evs[j].args = Own(j) /\ evs[j].end = 0
    BY <1>3, <1>8, <1>9 DEF WholeInv
  <2>2. CASE Dropped
    BY <1>8, <1>9, <2>1, <2>2 DEF Dropped
  <2>3. CASE j # e
    BY <1>4, <1>6, <1>7, <1>8, <1>9, <2>1, <2>3
  <2> QED BY <1>8, <1>9, <2>2, <2>3
<1>10. ASSUME NEW j \in Ids, j # i, Kept(j)', Calm(j)'
       PROVE  Whole(j)' /\ (j \in open' => family.kind = "nsapp" /\ ops[j].key = 0)
  <2>1. Kept(j) /\ Whole(j) /\ (j \in open => family.kind = "nsapp" /\ ops[j].key = 0)
    BY <1>3, <1>8, <1>10 DEF WholeInv
  <2>2. j \in DOMAIN evs
    BY <2>1 DEF Whole
  <2>3. evs'[j] = evs[j]
    <3>1. CASE j # e
      BY <1>4, <1>10, <2>2, <3>1
    <3>2. CASE Dropped
      BY <3>2 DEF Dropped
    <3>3. CASE Begins(i, r, e) \/ Stands(i, r, e)
      BY <1>1, <1>10, <2>2, <3>3, BeginsIs, StandsIs
    <3>4. CASE Ends(i, e) \/ \E a : Adds(i, r, e, a)
      <4>1. e \in open
        BY <3>4 DEF Ends, Adds
      <4> QED BY <1>10, <2>1, <3>1, <3>2, <3>3, <4>1
    <3> QED BY <3>2, <3>3, <3>4 DEF Changes
  <2>4. j \in DOMAIN evs'
    BY <1>4, <2>2
  <2>5. Whole(j)'
    BY <1>1, <2>1, <2>3, <2>4 DEF Whole
  <2>6. j \in open' => j \in open
    BY <1>4, <1>10
  <2> QED BY <2>1, <2>5, <2>6
\* Of the operation of the record.
<1>11. ASSUME Calm(i)', "begin" \in ops'[i].arrived, r = "begin"
       PROVE  /\ i \in open' /\ evs'[i].args = {<<i, r>>} /\ evs'[i].end = 0
              /\ DOMAIN evs' = DOMAIN evs \cup {i}
              /\ \A d \in DOMAIN evs : d # i => evs'[d] = evs[d]
  <2>1. Begins(i, r, e)
    BY <1>11
  <2> QED BY <1>0, <2>1, BeginsIs
<1>12. ASSUME Calm(i)', "begin" \in ops'[i].arrived, r # "begin"
       PROVE  /\ "begin" \in ops[i].arrived
              /\ i \in open /\ evs[i].args = Own(i) /\ evs[i].end = 0
              /\ \A d \in DOMAIN evs : d # i => evs'[d] = evs[d]
              /\ DOMAIN evs' = DOMAIN evs
              /\ r = "end" => evs'[i].args = evs[i].args /\ evs'[i].end = i /\ i \notin open'
              /\ r # "end" => /\ evs'[i].args = evs[i].args \cup {<<i, r>>} /\ evs'[i].end = evs[i].end
                              /\ i \in open'
  <2>1. "begin" \in ops[i].arrived
    BY <1>1, <1>12
  <2>2. i \in open /\ evs[i].args = Own(i) /\ evs[i].end = 0
    BY <1>1, <1>3, <1>5, <1>12, <2>1 DEF WholeInv
  <2>3. CASE r = "end"
    <3>1. Ends(i, i)
      BY <1>12, <2>1, <2>3
    <3> QED BY <1>1, <2>1, <2>2, <2>3, <3>1, EndsIs
  <2>4. CASE r # "end"
    <3>1. Adds(i, r, i, evs[i].args \cup {<<i, r>>})
      BY <1>12, <2>1, <2>4
    <3> QED BY <1>1, <2>1, <2>2, <2>4, <3>1, AddsIs
  <2> QED BY <2>3, <2>4
<1>13. ASSUME Calm(i)', "begin" \in ops'[i].arrived, r # "end"
       PROVE  i \in open' /\ evs'[i].args = Own(i)' /\ evs'[i].end = 0
  <2>1. CASE r = "begin"
    <3>1. Own(i)' = {<<i, r>>}
      BY <1>1, <1>5, <2>1 DEF Own
    <3> QED BY <1>11, <1>13, <2>1, <3>1
  <2>2. CASE r # "begin"
    <3>1. Own(i)' = Own(i) \cup {<<i, r>>}
      BY <1>1, <1>13 DEF Own
    <3> QED BY <1>12, <1>13, <2>2, <3>1
  <2> QED BY <2>1, <2>2
<1>14. ASSUME "begin" \in ops'[i].arrived, IsOpen(i)', Calm(i)'
       PROVE  i \in open' /\ evs'[i].args = Own(i)' /\ evs'[i].end = 0
  <2>1. r # "end"
    BY <1>1, <1>5, <1>14 DEF IsOpen
  <2> QED BY <1>13, <1>14, <2>1
<1>15. ASSUME Kept(i)', Calm(i)'
       PROVE  Whole(i)' /\ (i \in open' => family.kind = "nsapp" /\ ops[i].key = 0)
  <2>1. ops'[i].arrived = Range(Records(i))
    BY <1>1, <1>15 DEF Kept
  <2>2. "begin" \in ops'[i].arrived
    BY <1>6, <2>1, RecordsHave
  <2>3. i \in DOMAIN evs'
    BY <1>4, <1>6, <1>11, <1>12, <1>15, <2>2
  <2>4. CASE r = "end"
    <3>1. evs'[i].args = Own(i) /\ evs'[i].end = i /\ i \notin open'
      BY <1>12, <1>15, <2>2, <2>4
    <3>2. ops[i].arrived = Range(Records(i)) \ {"end"} /\ "end" \in Range(Records(i))
      BY <1>1, <1>5, <2>1, <2>4
    <3>3. Own(i) = {<<i, x>> : x \in Range(Records(i)) \ {"end"}}
      BY <3>2 DEF Own
    <3>4. Whole(i)'
      BY <1>1, <2>3, <3>1, <3>2, <3>3 DEF Whole
    <3> QED BY <3>1, <3>4
  <2>5. CASE r # "end"
    <3>1. evs'[i].args = Own(i)' /\ evs'[i].end = 0
      BY <1>13, <1>15, <2>2, <2>5
    <3>2. "end" \notin ops'[i].arrived
      BY <1>1, <1>5, <2>5
    <3>3. family.kind = "nsapp" /\ ops[i].key = 0
      <4>1. Len(Records(i)) = 1
        BY <1>6, <2>1, <3>2, RecordsHave
      <4> QED BY <1>6, <4>1, RecordsHave
    <3>4. Own(i)' = {<<i, x>> : x \in Range(Records(i)) \ {"end"}}
      BY <2>1 DEF Own
    <3>5. Whole(i)'
      BY <1>1, <2>1, <2>3, <3>1, <3>2, <3>4 DEF Whole
    <3> QED BY <3>3, <3>5
  <2> QED BY <2>4, <2>5
\* Of what an event takes of another.
<1>16. ASSUME NEW d \in DOMAIN evs', NEW j \in Ids, j # d, Takes(d, j)', "begin" \in ops'[j].arrived, Calm(j)'
       PROVE  FALSE
  <2>1. ASSUME d \in DOMAIN evs, Takes(d, j) PROVE FALSE
    <3>1. "begin" \notin ops[j].arrived
      BY <1>3, <1>16, <2>1 DEF WholeInv
    <3>2. j = i /\ r = "begin"
      BY <1>1, <1>16, <3>1
    <3>3. ops[i].sent = 0
      BY <1>5, <3>2
    <3>4. ops[j].sent >= 1
      <4>1. CASE evs[d].end = j
        BY <1>6, <2>1, <4>1 DEF EventsInv
      <4>2. CASE \E x \in Range(Records(j)) : <<j, x>> \in evs[d].args
        BY <2>1, <4>2 DEF EventsInv
      <4> QED BY <2>1, <4>1, <4>2 DEF Takes
    <3> QED BY <3>2, <3>3, <3>4
  <2>2. CASE j # i
    <3>1. evs'[d].end = j => d \in DOMAIN evs /\ evs[d].end = j
      BY <1>4, <1>6, <2>2
    <3>2. ASSUME NEW x \in Range(Records(j)), <<j, x>> \in evs'[d].args
          PROVE  d \in DOMAIN evs /\ <<j, x>> \in evs[d].args
      <4>1. <<j, x>> # <<i, r>> /\ <<j, x>> # <<d, "begin">>
        BY <1>16, <2>2
      <4> QED BY <1>4, <3>2, <4>1
    <3>3. d \in DOMAIN evs /\ Takes(d, j)
      BY <1>1, <1>16, <3>1, <3>2 DEF Takes
    <3> QED BY <2>1, <3>3
  <2>3. CASE j = i
    <3>1. d \in DOMAIN evs /\ evs'[d] = evs[d]
      BY <1>4, <1>11, <1>12, <1>16, <2>3
    <3>2. Takes(d, j)
      BY <1>1, <1>16, <3>1 DEF Takes
    <3> QED BY <2>1, <3>1, <3>2
  <2> QED BY <2>2, <2>3
<1>17. \A j \in Ids' : "begin" \in ops'[j].arrived /\ IsOpen(j)' /\ Calm(j)' =>
         j \in open' /\ evs'[j].args = Own(j)' /\ evs'[j].end = 0
  BY <1>1, <1>9, <1>14
<1>18. \A j \in Ids' : Kept(j)' /\ Calm(j)' =>
         Whole(j)' /\ (j \in open' => family'.kind = "nsapp" /\ ops'[j].key = 0)
  BY <1>1, <1>10, <1>15
<1>19. \A d \in DOMAIN evs', j \in Ids' : j # d /\ Takes(d, j)' => "begin" \notin ops'[j].arrived \/ ~Calm(j)'
  BY <1>1, <1>16
<1> QED BY <1>17, <1>18, <1>19 DEF WholeInv


-----------------------------------------------------------------------------
(* Steps without a record for the parser, and the release of a message. *)

Quiet ==
  /\ Keeps
  /\ \A j \in Ids : /\ ops'[j].arrived = ops[j].arrived /\ Records(j)' = Records(j)
                    /\ ops[j].sent >= 1 => ops'[j].sent >= 1
  /\ \A j \in Ids' : j \notin Ids => ops'[j].arrived = {} /\ ~Kept(j)'
  /\ evs' \in [DOMAIN evs' -> Event] /\ DOMAIN evs' \subseteq DOMAIN evs
  /\ open' = open \cap DOMAIN evs'
  /\ \A d \in DOMAIN evs' : evs'[d].args = evs[d].args /\ evs'[d].end = evs[d].end
  /\ \A d \in DOMAIN evs : d \notin DOMAIN evs' => d \in open /\ ~IsOpen(d)' /\ family.kind = "message"

LEMMA QuietEvents ==
  ASSUME KernelInv, EventsInv, Quiet
  PROVE  EventsInv'
<1>1. /\ DOMAIN evs \subseteq Ids /\ open \subseteq DOMAIN evs
      /\ \A d \in DOMAIN evs : ops[d].arrived # {}
      /\ \A d \in DOMAIN evs : evs[d].end # 0 => evs[d].end \in Ids /\ ops[evs[d].end].sent >= 1
      /\ \A d \in DOMAIN evs : \A x \in evs[d].args : x[1] \in Ids /\ ops[x[1]].sent >= 1
      /\ family.kind # "block" => \A h, j \in open : SameThread(h, j) => h = j
      /\ family.kind \notin {"block", "trap"} => \A h \in open : "end" \notin ops[h].arrived
  BY DEF EventsInv
<1>2. /\ family' = family /\ Ids \subseteq Ids'
      /\ \A j \in Ids : ops'[j].tid = ops[j].tid /\ ops'[j].arrived = ops[j].arrived
                        /\ (ops[j].sent >= 1 => ops'[j].sent >= 1)
      /\ evs' \in [DOMAIN evs' -> Event] /\ DOMAIN evs' \subseteq DOMAIN evs
      /\ open' \subseteq open /\ open' \subseteq DOMAIN evs'
      /\ \A d \in DOMAIN evs' : evs'[d].args = evs[d].args /\ evs'[d].end = evs[d].end
  BY DEF Quiet, Keeps
<1>3. family.kind # "block" => \A h, j \in open' : SameThread(h, j)' => h = j
  <2> SUFFICES ASSUME family.kind # "block", NEW h \in open', NEW j \in open', SameThread(h, j)' PROVE h = j
    OBVIOUS
  <2>1. h \in open /\ j \in open /\ h \in Ids /\ j \in Ids
    BY <1>1, <1>2
  <2>2. SameThread(h, j)
    BY <1>2, <2>1 DEF SameThread
  <2> QED BY <1>1, <2>1, <2>2
<1>4. family.kind \notin {"block", "trap"} => \A h \in open' : "end" \notin ops'[h].arrived
  BY <1>1, <1>2
<1>5. Event' = Event
  BY DEF Event
<1>6. \A d \in DOMAIN evs' : /\ ops'[d].arrived # {}
                             /\ evs'[d].end # 0 => evs'[d].end \in Ids' /\ ops'[evs'[d].end].sent >= 1
                             /\ \A x \in evs'[d].args : x[1] \in Ids' /\ ops'[x[1]].sent >= 1
  BY <1>1, <1>2
<1>7. DOMAIN evs' \subseteq Ids'
  BY <1>1, <1>2
<1> QED BY <1>2, <1>3, <1>4, <1>5, <1>6, <1>7 DEF EventsInv

LEMMA QuietWhole ==
  ASSUME KernelInv, EventsInv, WholeInv, Quiet
  PROVE  WholeInv'
<1>1. /\ family' = family /\ Ids \subseteq Ids'
      /\ \A j \in Ids : /\ ops'[j].key = ops[j].key /\ ops'[j].arrived = ops[j].arrived
                        /\ Records(j)' = Records(j)
                        /\ IsOpen(j)' => IsOpen(j)
      /\ \A j \in Ids' : j \notin Ids => ops'[j].arrived = {} /\ ~Kept(j)'
      /\ DOMAIN evs' \subseteq DOMAIN evs
      /\ open' = open \cap DOMAIN evs'
      /\ \A d \in DOMAIN evs' : evs'[d].args = evs[d].args /\ evs'[d].end = evs[d].end
      /\ \A d \in DOMAIN evs : d \notin DOMAIN evs' => d \in open /\ ~IsOpen(d)' /\ family.kind = "message"
  BY DEF Quiet, Keeps, IsOpen
<1>2. \A j \in Ids : Calm(j)' => Calm(j)
  BY CalmStays DEF Quiet
<1>3. /\ DOMAIN evs \subseteq Ids /\ open \subseteq DOMAIN evs /\ 0 \notin Ids'
      /\ \A d \in DOMAIN evs : evs[d].end # 0 => evs[d].end \in Ids
      /\ \A d \in DOMAIN evs : \A x \in evs[d].args : x[1] \in Ids
  BY DEF EventsInv, Ids
<1>4. ASSUME NEW j \in Ids', "begin" \in ops'[j].arrived, IsOpen(j)', Calm(j)'
      PROVE  j \in open' /\ evs'[j].args = Own(j)' /\ evs'[j].end = 0
  <2>1. j \in Ids /\ IsOpen(j) /\ Calm(j) /\ "begin" \in ops[j].arrived
    BY <1>1, <1>2, <1>4
  <2>2. j \in open /\ evs[j].args = Own(j) /\ evs[j].end = 0
    BY <2>1 DEF WholeInv
  <2>3. j \in DOMAIN evs'
    BY <1>1, <1>3, <1>4, <2>2
  <2>4. Own(j)' = Own(j)
    BY <1>1, <2>1 DEF Own
  <2> QED BY <1>1, <2>2, <2>3, <2>4
<1>5. ASSUME NEW j \in Ids', Kept(j)', Calm(j)'
      PROVE  Whole(j)' /\ (j \in open' => family.kind = "nsapp" /\ ops'[j].key = 0)
  <2>1. j \in Ids
    BY <1>1, <1>5
  <2>2. Kept(j) /\ Calm(j)
    BY <1>1, <1>2, <1>5, <2>1 DEF Kept
  <2>3. Whole(j) /\ (j \in open => family.kind = "nsapp" /\ ops[j].key = 0)
    BY <2>1, <2>2 DEF WholeInv
  <2>4. j \in DOMAIN evs'
    BY <1>1, <2>3 DEF Whole
  <2>5. Whole(j)'
    BY <1>1, <2>1, <2>3, <2>4 DEF Whole
  <2> QED BY <1>1, <2>1, <2>3, <2>5
<1>6. ASSUME NEW d \in DOMAIN evs', NEW j \in Ids', j # d, Takes(d, j)', "begin" \in ops'[j].arrived, Calm(j)'
      PROVE  FALSE
  <2>1. j \in Ids /\ d \in DOMAIN evs /\ "begin" \in ops[j].arrived /\ Calm(j)
    BY <1>1, <1>2, <1>6
  <2>2. Takes(d, j)
    BY <1>1, <1>6, <2>1 DEF Takes
  <2> QED BY <1>6, <2>1, <2>2 DEF WholeInv
<1> QED BY <1>1, <1>4, <1>5, <1>6 DEF WholeInv

LEMMA QuietSince ==
  ASSUME KernelInv, EventsInv, SinceInv, Quiet,
         family.kind = "trap" => \A t \in family.threads :
           (Cardinality(Missing(t, Len(ops))) % 2 = 1)' <=> Cardinality(Missing(t, Len(ops))) % 2 = 1
  PROVE  SinceInv'
<1>1. /\ family' = family /\ Ids \subseteq Ids'
      /\ \A j \in Ids : /\ ops'[j].key = ops[j].key /\ ops'[j].arrived = ops[j].arrived
                        /\ Records(j)' = Records(j) /\ ops'[j].tid = ops[j].tid
      /\ \A j \in Ids' : j \notin Ids => ops'[j].arrived = {}
      /\ open' \subseteq open
      /\ open' \subseteq DOMAIN evs'
      /\ \A d \in DOMAIN evs' : evs'[d].args = evs[d].args /\ evs'[d].end = evs[d].end
  BY DEF Quiet, Keeps
<1>2. open \subseteq Ids
  BY DEF EventsInv
<1>3. \A j \in Ids : Calm(j)' => Calm(j)
  BY CalmStays DEF Quiet
<1>4. ASSUME family.kind = "interrupt", NEW e \in open', NEW k \in Ids', e < k, SameThread(e, k)', ops'[k].key = ops'[e].key
      PROVE  "end" \notin ops'[k].arrived
  <2>1. CASE k \notin Ids
    BY <1>1, <2>1
  <2>2. CASE k \in Ids
    <3>1. e \in open /\ e \in Ids /\ SameThread(e, k) /\ ops[k].key = ops[e].key
      BY <1>1, <1>2, <1>4, <2>2 DEF SameThread
    <3> QED BY <1>1, <1>4, <2>2, <3>1 DEF SinceInv
  <2> QED BY <2>1, <2>2
<1>5. ASSUME family.kind \in {"interrupt", "block"}, NEW e \in open' PROVE "begin" \in ops'[e].arrived
  BY <1>1, <1>2, <1>5 DEF SinceInv
<1>6. ASSUME family.kind = "call", NEW e \in open', Cardinality(evs'[e].args) < Len(Records(e)') - 1
      PROVE  /\ ops'[e].key \in family'.long
             /\ Disturbed(e)' \/ Cardinality(ops'[e].arrived \cap {"begin", "info"}) = 1
  <2>1. e \in open /\ e \in Ids /\ evs'[e].args = evs[e].args /\ Records(e)' = Records(e)
        /\ ops'[e].arrived = ops[e].arrived /\ ops'[e].key = ops[e].key
    BY <1>1, <1>2
  <2>2. /\ ops[e].key \in family.long
        /\ Disturbed(e) \/ Cardinality(ops[e].arrived \cap {"begin", "info"}) = 1
    BY <1>6, <2>1 DEF SinceInv
  <2>3. Disturbed(e) => Disturbed(e)'
    BY <1>1, <1>3, <1>6, <2>1 DEF Calm
  <2> QED BY <1>1, <2>1, <2>2, <2>3
<1>7. ASSUME family.kind = "frames", NEW e \in open', NEW k \in Ids', e < k, SameThread(e, k)'
      PROVE  ops'[k].arrived \subseteq IF ops'[k].key = ops'[e].key THEN {"begin", "info"} ELSE {}
  <2>1. CASE k \notin Ids
    BY <1>1, <2>1
  <2>2. CASE k \in Ids
    <3>1. e \in open /\ e \in Ids /\ SameThread(e, k)
      BY <1>1, <1>2, <1>7, <2>2 DEF SameThread
    <3>2. ops[k].arrived \subseteq IF ops[k].key = ops[e].key THEN {"begin", "info"} ELSE {}
      BY <1>7, <2>2, <3>1 DEF SinceInv
    <3> QED BY <1>1, <2>2, <3>1, <3>2
  <2> QED BY <2>1, <2>2
<1>8. ASSUME family.kind = "nsapp", NEW e \in open', NEW k \in Ids', e < k, SameThread(e, k)'
      PROVE  ops'[k].arrived = {}
  <2>1. CASE k \notin Ids
    BY <1>1, <2>1
  <2>2. CASE k \in Ids
    <3>1. e \in open /\ e \in Ids /\ SameThread(e, k)
      BY <1>1, <1>2, <1>8, <2>2 DEF SameThread
    <3>2. ops[k].arrived = {}
      BY <1>8, <2>2, <3>1 DEF SinceInv
    <3> QED BY <1>1, <2>2, <3>2
  <2> QED BY <2>1, <2>2
<1>9. ASSUME family.kind = "trap", NEW t \in family.threads
      PROVE  OpenOf(t)' # 0 <=> (Cardinality(Missing(t, Len(ops))) % 2 = 1)'
  <2>1. open' = open
    BY <1>9 DEF Quiet, EventsInv
  <2>2. {i \in open : ops[i].tid = t} = {i \in open' : ops'[i].tid = t}
    BY <1>1, <1>2, <2>1
  <2>3. OpenOf(t)' = OpenOf(t)
    BY <2>2 DEF OpenOf
  <2> QED BY <1>9, <2>3 DEF SinceInv
<1> QED BY <1>1, <1>4, <1>5, <1>6, <1>7, <1>8, <1>9 DEF SinceInv

\* The records of a thread that are missing.
LEMMA MissingIs ==
  ASSUME KernelInv, NEW t
  PROVE  /\ \A j, y : <<j, y>> \in Missing(t, Len(ops)) <=>
                        j \in Ids /\ ops[j].tid = t /\ y \in {"begin", "end"} /\ y \notin ops[j].arrived
         /\ \A x \in Missing(t, Len(ops)) : x = <<x[1], x[2]>>
         /\ IsFiniteSet(Missing(t, Len(ops))) /\ Cardinality(Missing(t, Len(ops))) \in Nat
<1> DEFINE A == {j \in 1 .. Len(ops) : ops[j].tid = t}
<1>1. IsFiniteSet(1 .. Len(ops)) /\ Ids = 1 .. Len(ops)
  BY FS_Interval DEF KernelInv, Ids
<1>2. IsFiniteSet(A)
  BY <1>1, FS_Subset
<1>3. IsFiniteSet({"begin", "end"})
  <2>1. IsFiniteSet({"begin"})
    BY FS_Singleton
  <2>2. IsFiniteSet({"begin"} \cup {"end"})
    BY <2>1, FS_AddElement
  <2>3. {"begin"} \cup {"end"} = {"begin", "end"}
    OBVIOUS
  <2> QED BY <2>2, <2>3
<1>4. IsFiniteSet(A \X {"begin", "end"})
  BY <1>2, <1>3, FS_Product
<1>5. Missing(t, Len(ops)) \subseteq A \X {"begin", "end"}
  BY DEF Missing
<1>6. IsFiniteSet(Missing(t, Len(ops))) /\ Cardinality(Missing(t, Len(ops))) \in Nat
  BY <1>4, <1>5, FS_Subset, FS_CardinalityType
<1>7. \A j, y : <<j, y>> \in Missing(t, Len(ops)) <=>
                  j \in Ids /\ ops[j].tid = t /\ y \in {"begin", "end"} /\ y \notin ops[j].arrived
  BY <1>1 DEF Missing
<1>8. \A x \in Missing(t, Len(ops)) : x = <<x[1], x[2]>>
  BY <1>5
<1> QED BY <1>6, <1>7, <1>8

LEMMA LostQuiet ==
  ASSUME KernelInv, EventsInv, NEW i, NEW r, Lost(i, r)
  PROVE  /\ Quiet
         /\ \A t : Missing(t, Len(ops))' = Missing(t, Len(ops))
<1>1. /\ i \in Ids /\ Ids' = Ids /\ Len(ops') = Len(ops)
      /\ \A j \in Ids : /\ ops'[j].tid = ops[j].tid
                        /\ j # i => ops'[j] = ops[j]
                        /\ Records(j)' = Records(j)
                        /\ ops[j] \in Op
      /\ ops'[i].sent = ops[i].sent + 1 /\ ops'[i].arrived = ops[i].arrived
  BY WrittenIs DEF Lost
<1>2. Keeps
  BY WrittenKeeps DEF Lost
<1>3. evs' = evs /\ open' = open
  BY DEF Lost, Dropped
<1>4. evs \in [DOMAIN evs -> Event] /\ open = open \cap DOMAIN evs
  BY DEF EventsInv
<1>5. \A j \in Ids : ops'[j].arrived = ops[j].arrived
  BY <1>1
<1>6. \A j \in Ids : ops[j].sent >= 1 => ops'[j].sent >= 1
  BY <1>1 DEF Op
<1>7. Ids = 1 .. Len(ops) /\ Ids = 1 .. Len(ops')
  BY <1>1 DEF Ids
<1>8. ASSUME NEW t PROVE Missing(t, Len(ops))' = Missing(t, Len(ops))
  <2> DEFINE A == {j \in 1 .. Len(ops) : ops[j].tid = t}
  <2>1. {j \in 1 .. Len(ops') : ops'[j].tid = t} = A
    BY <1>1, <1>7
  <2>2. \A j \in A : ops'[j].arrived = ops[j].arrived
    BY <1>5, <1>7
  <2>3. Missing(t, Len(ops)) = {x \in A \X {"begin", "end"} : x[2] \notin ops[x[1]].arrived}
    BY DEF Missing
  <2>4. Missing(t, Len(ops))' = {x \in A \X {"begin", "end"} : x[2] \notin ops'[x[1]].arrived}
    BY <2>1 DEF Missing
  <2> HIDE DEF A
  <2> QED BY <2>2, <2>3, <2>4
<1> QED BY <1>1, <1>2, <1>3, <1>4, <1>5, <1>6, <1>8 DEF Quiet

LEMMA StartQuiet ==
  ASSUME KernelInv, EventsInv, NEW t \in family.threads, NEW k \in family.keys, NEW recv \in BOOLEAN,
         NEW header \in family.headers, Start(t, k, recv, header)
  PROVE  Quiet
<1>1. PICK n : /\ Ids' = Ids \cup {n} /\ family' = family
               /\ \A j \in Ids : ops'[j] = ops[j] /\ Records(j)' = Records(j) /\ ops[j] \in Op
               /\ ops'[n] = NewOp(t, k, recv, header, Around(t))
               /\ UNCHANGED <<lost, evs, open>>
  BY StartIs
<1>2. Keeps
  BY StartKeeps
<1>3. evs \in [DOMAIN evs -> Event] /\ open = open \cap DOMAIN evs
  BY DEF EventsInv
<1>4. ops'[n].arrived = {}
  BY <1>1 DEF NewOp
<1>5. Range(Records(n)') # {}
  <2>1. Records(n)' \in {<<"begin">>, <<"begin", "end">>, <<"begin", "info", "end">>}
    <3>2. CASE family'.kind = "nsapp" /\ ops'[n].key = 0
      BY <3>2 DEF Records
    <3>3. CASE ~(family'.kind = "nsapp" /\ ops'[n].key = 0)
               /\ (family'.kind = "message" \/ ops'[n].key \in family'.long)
      BY <3>3 DEF Records
    <3>4. CASE ~(family'.kind = "nsapp" /\ ops'[n].key = 0)
               /\ ~(family'.kind = "message" \/ ops'[n].key \in family'.long)
      BY <3>4 DEF Records
    <3>1. family'.kind = "nsapp" => family'.long = {}
      BY <1>1, FamiliesOK DEF KernelInv
    <3>5. CASE family'.kind = "nsapp" /\ ops'[n].key = 0
      BY <3>1, <3>5 DEF Records
    <3> QED BY <3>3, <3>4, <3>5
  <2>2. 1 \in DOMAIN Records(n)'
    <3>1. CASE Records(n)' = <<"begin">>
      BY <3>1
    <3>2. CASE Records(n)' = <<"begin", "end">>
      BY <3>2
    <3>3. CASE Records(n)' = <<"begin", "info", "end">>
      BY <3>3
    <3> QED BY <2>1, <3>1, <3>2, <3>3
  <2> QED BY <2>2 DEF Range
<1>6. ~Kept(n)'
  BY <1>4, <1>5 DEF Kept
<1>7. \A j \in Ids : ops'[j].arrived = ops[j].arrived /\ (ops[j].sent >= 1 => ops'[j].sent >= 1)
  BY <1>1
<1>8. \A j \in Ids' : j \notin Ids => ops'[j].arrived = {} /\ ~Kept(j)'
  BY <1>1, <1>4, <1>6
<1> QED BY <1>1, <1>2, <1>3, <1>7, <1>8 DEF Quiet

\* An operation has two records.
LEMMA StartMissing ==
  ASSUME KernelInv, NEW t \in family.threads, NEW k \in family.keys, NEW recv \in BOOLEAN,
         NEW header \in family.headers, Start(t, k, recv, header), NEW u
  PROVE  (Cardinality(Missing(u, Len(ops))) % 2 = 1)' <=> Cardinality(Missing(u, Len(ops))) % 2 = 1
<1>1. PICK n : /\ Ids' = Ids \cup {n} /\ n \notin Ids
               /\ \A j \in Ids : ops'[j] = ops[j]
               /\ ops'[n] = NewOp(t, k, recv, header, Around(t))
  BY StartIs
<1>2. ops'[n].arrived = {} /\ ops'[n].tid = t
  BY <1>1 DEF NewOp
<1>3. PICK m, m2 : m = Missing(u, Len(ops)) /\ m2 = Missing(u, Len(ops))'
  OBVIOUS
<1>4. /\ \A j, y : <<j, y>> \in m <=>
                        j \in Ids /\ ops[j].tid = u /\ y \in {"begin", "end"} /\ y \notin ops[j].arrived
      /\ \A x \in m : x = <<x[1], x[2]>>
      /\ IsFiniteSet(m) /\ Cardinality(m) \in Nat
  BY <1>3, MissingIs
<1>5. KernelInv'
  BY StartKernel
<1>6. /\ \A j, y : <<j, y>> \in m2 <=>
                        j \in Ids' /\ ops'[j].tid = u /\ y \in {"begin", "end"} /\ y \notin ops'[j].arrived
      /\ \A x \in m2 : x = <<x[1], x[2]>>
  <2>1. m2 = {x \in {j \in 1 .. Len(ops') : ops'[j].tid = u} \X {"begin", "end"} : x[2] \notin ops'[x[1]].arrived}
    BY <1>3 DEF Missing
  <2>2. Ids' = 1 .. Len(ops')
    BY DEF Ids
  <2> QED BY <2>1, <2>2
<1>7. CASE u = t
  <2>1. m2 = (m \cup {<<n, "begin">>}) \cup {<<n, "end">>}
    <3>1. \A j, y : <<j, y>> \in m2 <=> <<j, y>> \in m \/ <<j, y>> = <<n, "begin">> \/ <<j, y>> = <<n, "end">>
      BY <1>1, <1>2, <1>4, <1>6, <1>7
    <3>2. \A x \in m2 : x \in (m \cup {<<n, "begin">>}) \cup {<<n, "end">>}
      BY <1>6, <3>1
    <3>3. \A x \in (m \cup {<<n, "begin">>}) \cup {<<n, "end">>} : x \in m2
      BY <1>4, <3>1
    <3> QED BY <3>2, <3>3
  <2>2. <<n, "begin">> \notin m /\ <<n, "end">> \notin m \cup {<<n, "begin">>}
    BY <1>1, <1>4
  <2>3. IsFiniteSet(m \cup {<<n, "begin">>}) /\ Cardinality(m \cup {<<n, "begin">>}) = Cardinality(m) + 1
    BY <1>4, <2>2, FS_AddElement
  <2>4. Cardinality(m2) = Cardinality(m) + 2
    <3>1. Cardinality(m2) = Cardinality(m \cup {<<n, "begin">>}) + 1
      BY <2>1, <2>2, <2>3, FS_AddElement
    <3> QED BY <1>4, <2>3, <3>1
  <2>5. PICK c \in Nat : c = Cardinality(m)
    BY <1>4
  <2>6. (c + 2) % 2 = 1 <=> c % 2 = 1
    OBVIOUS
  <2> QED BY <1>3, <2>4, <2>5, <2>6
<1>8. CASE u # t
  <2>1. \A j, y : <<j, y>> \in m2 <=> <<j, y>> \in m
    BY <1>1, <1>2, <1>4, <1>6, <1>8
  <2>2. \A x \in m2 : x \in m
    BY <1>6, <2>1
  <2>3. \A x \in m : x \in m2
    BY <1>4, <2>1
  <2>4. m2 = m
    BY <2>2, <2>3
  <2> QED BY <1>3, <2>4
<1> QED BY <1>7, <1>8

LEMMA FreeQuiet ==
  ASSUME KernelInv, EventsInv, NEW k, NEW s, Releases(s, k), FreeRecord(k, s) \/ Dropped
  PROVE  Quiet
<1>1. Keeps
  BY ReleaseKeeps
<1>2. /\ Ids' = Ids /\ family.kind = "message"
      /\ \A j \in Ids : ops'[j].arrived = ops[j].arrived /\ Records(j)' = Records(j)
                        /\ (ops[j].sent >= 1 => ops'[j].sent >= 1)
                        /\ ops'[j].state = IF ops[j].key = k /\ IsOpen(j) THEN "died" ELSE ops[j].state
  BY DEF Releases
<1>3. evs \in [DOMAIN evs -> Event] /\ open \subseteq DOMAIN evs /\ DOMAIN evs \subseteq Ids
  BY DEF EventsInv
<1>4. s \in Nat
  BY DEF Releases, Ids
<1>5. CASE Dropped
  BY <1>1, <1>2, <1>3, <1>5 DEF Dropped, Quiet
<1>6. CASE FreeRecord(k, s)
  <2> DEFINE S == {j \in DOMAIN evs : ops[j].key = k}
  <2>1. PICK e : e = LastOf(S)
    OBVIOUS
  <2>2. e # 0 => e \in DOMAIN evs /\ ops[e].key = k
    <3>1. Len(ops) \in Nat /\ S \in SUBSET (1 .. Len(ops))
      BY <1>3 DEF KernelInv, Ids
    <3>2. S # {} => LastOf(S) \in S
      BY <3>1, LastOfIs
    <3>3. S = {} => LastOf(S) = 0
      BY <3>1, LastOfIs
    <3> QED BY <2>1, <3>2, <3>3
  <2>3. CASE e = 0
    <3>1. Dropped
      BY <1>6, <2>1, <2>3 DEF FreeRecord
    <3> QED BY <1>5, <3>1
  <2>4. CASE e # 0 /\ e \in open
    <3>1. evs' = [j \in DOMAIN evs \ {e} |-> evs[j]] /\ open' = open \ {e}
      BY <1>6, <2>1, <2>4 DEF FreeRecord
    <3>2. ~IsOpen(e)'
      BY <1>2, <1>3, <2>2, <2>4 DEF IsOpen
    <3>3. evs' \in [DOMAIN evs' -> Event]
      BY <1>3, <3>1
    <3> QED BY <1>1, <1>2, <1>3, <2>4, <3>1, <3>2, <3>3 DEF Quiet
  <2>5. CASE e # 0 /\ e \notin open
    <3>1. open' = open /\ (evs' = evs \/ evs' = [evs EXCEPT ![e].freed = @ \cup {s}])
      BY <1>6, <2>1, <2>5 DEF FreeRecord
    <3>2. CASE evs' = evs
      BY <1>1, <1>2, <1>3, <3>1, <3>2 DEF Quiet
    <3>3. CASE evs' = [evs EXCEPT ![e].freed = @ \cup {s}]
      <4>1. e \in DOMAIN evs /\ evs[e] \in Event
        BY <1>3, <2>2, <2>5
      <4>2. PICK v : v = [evs[e] EXCEPT !.freed = evs[e].freed \cup {s}]
        OBVIOUS
      <4>3. v \in Event /\ v.args = evs[e].args /\ v.end = evs[e].end
        BY <1>4, <4>1, <4>2 DEF Event
      <4>4. evs' = [evs EXCEPT ![e] = v]
        BY <3>3, <4>1, <4>2
      <4>5. DOMAIN evs' = DOMAIN evs /\ evs'[e] = v /\ \A d \in DOMAIN evs : d # e => evs'[d] = evs[d]
        BY <1>3, <4>1, <4>4
      <4>6. evs' \in [DOMAIN evs' -> Event]
        BY <1>3, <4>1, <4>3, <4>4
      <4>7. \A d \in DOMAIN evs' : evs'[d].args = evs[d].args /\ evs'[d].end = evs[d].end
        BY <4>3, <4>5
      <4> QED BY <1>1, <1>2, <1>3, <3>1, <4>5, <4>6, <4>7 DEF Quiet
    <3> QED BY <3>1, <3>2, <3>3
  <2> QED BY <2>3, <2>4, <2>5
<1> QED BY <1>5, <1>6

-----------------------------------------------------------------------------
(* A record that arrives, by the kind of the operation. *)

\* What all kinds have in common: the events of calm operations are their own, and the
\* operations around i are not calm where a nested one matters.
LEMMA OwnOpen ==
  ASSUME KernelInv, EventsInv, WholeInv, NEW i, NEW r, NEW a, Sends(i, r), Written(i, r, a),
         a = ops[i].arrived \/ a = ops[i].arrived \cup {r}, r # "begin", "begin" \in ops[i].arrived, Calm(i)'
  PROVE  /\ i \in open /\ evs[i].args = Own(i) /\ evs[i].end = 0 /\ Calm(i)
         /\ r = "info" => evs[i].args = {<<i, "begin">>}
<1>1. i \in Ids /\ IsOpen(i) /\ r \notin ops[i].arrived
  BY DEF Sends
<1>2. Keeps
  BY WrittenKeeps
<1>3. Calm(i)
  BY <1>1, <1>2, CalmStays
<1>4. i \in open /\ evs[i].args = Own(i) /\ evs[i].end = 0
  BY <1>1, <1>3 DEF WholeInv
<1>5. ASSUME r = "info" PROVE Own(i) = {<<i, "begin">>}
  <2>1. "end" \notin ops[i].arrived
    BY FirstRecord
  <2>2. ops[i].arrived \subseteq RecordNames
    <3>1. ops[i] \in Op
      BY <1>1 DEF KernelInv, Ids
    <3> QED BY <3>1 DEF Op
  <2>3. ops[i].arrived \ {"end"} = {"begin"}
    BY <1>1, <1>5, <2>1, <2>2 DEF RecordNames
  <2> QED BY <2>3 DEF Own
<1> QED BY <1>3, <1>4, <1>5

LEMMA OuterOpen ==
  ASSUME KernelInv, NEW i, NEW r, Sends(i, r), NEW j \in Ids, j # i, SameThread(i, j), IsOpen(j)
  PROVE  j < i /\ i \in Within(j) /\ family.depth > 1
<1>1. i \in Ids /\ IsOpen(i) /\ j <= i /\ Nested /\ Ids \subseteq Nat /\ SameThread(j, i)
  BY DEF Sends, KernelInv, Ids, SameThread
<1>2. j < i
  BY <1>1
<1>3. i \in Within(j)
  BY <1>1, <1>2, LaterIsWithin
<1>4. family.depth \in Nat
  BY FamiliesOK DEF KernelInv
<1>5. ~(family.depth <= 1)
  BY <1>1, <1>2 DEF Nested
<1> QED BY <1>2, <1>3, <1>4, <1>5

\* With one operation at a time, that of the record is the last of its thread.
LEMMA LastOfThread ==
  ASSUME KernelInv, NEW i, NEW r, Sends(i, r), NEW j \in Ids, SameThread(i, j), j # i,
         r = "begin" \/ family.depth <= 1
  PROVE  j < i
<1>1. i \in Ids /\ IsOpen(i) /\ Nested /\ i \in Nat /\ j \in Nat
  BY DEF Sends, KernelInv, Ids
<1>2. CASE i < j
  <2>1. ops[i].sent > 0
    BY <1>1, <1>2 DEF Nested
  <2>2. r # "begin"
    BY <2>1, FirstRecord
  <2> QED BY <1>1, <1>2, <2>2 DEF Nested
<1> QED BY <1>1, <1>2

\* Only an event of the application stays open when it is whole.
LEMMA KeptOpen ==
  ASSUME WholeInv, KernelInv, Keeps, NEW j \in Ids, Kept(j), j \in open, Calm(j)'
  PROVE  family.kind = "nsapp" /\ ops[j].key = 0
<1>1. Calm(j)
  BY CalmStays
<1> QED BY <1>1 DEF WholeInv

\* But for messages, calls and backtraces, there are a begin and an end.
LEMMA BeginOrEnd ==
  ASSUME KernelInv, NEW i, NEW r, NEW a, Sends(i, r), Written(i, r, a),
         a = ops[i].arrived \/ a = ops[i].arrived \cup {r}
  PROVE  /\ r \in {"begin", "info", "end"}
         /\ family.kind \notin {"message", "call", "frames"} =>
              r # "info" /\ \A j \in Ids : ops[j].arrived \subseteq {"begin", "end"}
<1>1. r \in RecordNames /\ i \in Ids
  BY WrittenIs
<1>2. family \in Families /\ \A j \in Ids : Progress(j) /\ ops[j] \in Op
  BY DEF KernelInv, Ids
<1>3. family.kind \notin {"message", "call", "frames"} => \A j : Len(Records(j)) # 3
  BY <1>2, RecordsHave, FamiliesOK
<1>4. r = "info" => Len(Records(i)) = 3
  BY FirstRecord
<1>5. \A j \in Ids : "info" \in ops[j].arrived => Len(Records(j)) = 3
  BY <1>2 DEF Progress
<1> QED BY <1>1, <1>2, <1>3, <1>4, <1>5 DEF Op, RecordNames

\* Messages and wake-ups.
LEMMA MessageArrives ==
  ASSUME KernelInv, EventsInv, WholeInv, family.kind \in {"message", "wakeup"}, NEW i, NEW r, Arrives(i, r)
  PROVE  EventsInv' /\ WholeInv'
<1>1. Sends(i, r) /\ Written(i, r, ops[i].arrived \cup {r}) /\ Parsed(i, r) /\ i \in Ids /\ 0 \notin Ids /\ open \subseteq Ids
  BY DEF Arrives, Sends, Ids, EventsInv
<1>2. Keeps
  BY <1>1, WrittenKeeps
<1>3. PICK e : e = OpenOf(ops[i].tid)
  OBVIOUS
<1>4. OpenIs(i, e) /\ (e # 0 => e \in open /\ SameThread(i, e))
  BY <1>1, <1>3, OpenOfIs
<1>5. i \in open => e = i
  BY <1>1, <1>4 DEF OpenIs, SameThread
<1>6. /\ r = "begin" => Begins(i, r, e)
      /\ r = "info" => \/ Dropped
                       \/ /\ e # 0 /\ open' = open
                          /\ evs' = [evs EXCEPT ![e].args = {<<e, "begin">>, <<i, r>>},
                                                ![e].mig = @ /\ ops[i].header.local]
      /\ r = "end" => \/ e # 0 /\ Ended(e, i)
                      \/ e # i /\ Dropped
  <2>1. CASE family.kind = "message"
    <3>1. MessageRecord(i, r)
      BY <1>1, <2>1 DEF Parsed
    <3> QED BY <1>1, <1>3, <3>1 DEF MessageRecord, NewEvent, Opened, Begins
  <2>2. CASE family.kind = "wakeup"
    <3>1. WakeupRecord(i, r) /\ r # "info"
      BY <1>1, <2>2, BeginOrEnd DEF Parsed
    <3> QED BY <1>1, <1>3, <3>1 DEF WakeupRecord, NewEvent, Opened, Begins
  <2> QED BY <2>1, <2>2
<1>7. r = "info" => Dropped \/ Adds(i, r, e, {<<e, "begin">>, <<i, r>>})
  BY <1>4, <1>6 DEF Adds
<1>8. r = "end" => Dropped \/ Ends(i, e)
  BY <1>4, <1>6 DEF Ends
<1>9. r \in {"begin", "info", "end"}
  BY <1>1, BeginOrEnd
<1>10. Changes(i, r, e)
  BY <1>6, <1>7, <1>8, <1>9 DEF Changes
<1>11. r = "end" => i \notin open'
  BY <1>5, <1>6 DEF Ended, Dropped
<1>12. EventsInv'
  BY <1>1, <1>4, <1>10, <1>11, ChangesEvents
<1>13. ASSUME r # "begin", "begin" \in ops[i].arrived, Calm(i)'
       PROVE  e = i /\ IF r = "end" THEN Ends(i, i) ELSE Adds(i, r, i, evs[i].args \cup {<<i, r>>})
  <2>1. i \in open /\ (r = "info" => evs[i].args = {<<i, "begin">>})
    BY <1>1, <1>13, OwnOpen
  <2>2. e = i /\ e # 0
    BY <1>1, <1>5, <2>1
  <2>3. CASE r = "end"
    BY <1>6, <2>1, <2>2, <2>3 DEF Ends
  <2>4. CASE r = "info"
    <3>1. {<<e, "begin">>, <<i, r>>} = evs[i].args \cup {<<i, r>>}
      BY <2>1, <2>2, <2>4
    <3>2. MessageRecord(i, r)
      BY <1>1, <2>4, BeginOrEnd DEF Parsed
    <3>3. /\ evs' = [evs EXCEPT ![e].args = {<<e, "begin">>, <<i, r>>},
                                ![e].mig = @ /\ ops[i].header.local]
          /\ open' = open
      BY <1>3, <2>2, <2>4, <3>2 DEF MessageRecord
    <3>4. Adds(i, r, e, {<<e, "begin">>, <<i, r>>})
      BY <2>1, <2>2, <3>3 DEF Adds
    <3> QED BY <2>2, <2>4, <3>1, <3>4
  <2> QED BY <1>9, <1>13, <2>2, <2>3, <2>4
<1>14. ASSUME NEW j \in Ids, j # i, "begin" \in ops[j].arrived, IsOpen(j), Calm(j)' PROVE j # e \/ Dropped
  <2>1. CASE j = e
    <3>1. SameThread(i, j)
      BY <1>1, <1>4, <2>1
    <3>2. Within(j) # {}
      BY <1>1, <1>14, <3>1, OuterOpen
    <3>3. ~Calm(j)
      BY <3>2 DEF Calm, Disturbed
    <3> QED BY <1>2, <1>14, <3>3, CalmStays
  <2> QED BY <2>1
<1>15. \A j \in Ids : ~(Kept(j) /\ j \in open /\ Calm(j)')
  BY <1>2, KeptOpen
<1>16. WholeInv'
  BY <1>1, <1>6, <1>10, <1>13, <1>14, <1>15, ArrivalWhole
<1> QED BY <1>12, <1>16

\* Interrupts.
LEMMA InterruptArrives ==
  ASSUME KernelInv, EventsInv, WholeInv, SinceInv, family.kind = "interrupt", NEW i, NEW r, Arrives(i, r)
  PROVE  EventsInv' /\ WholeInv' /\ SinceInv'
<1>1. /\ Sends(i, r) /\ Written(i, r, ops[i].arrived \cup {r}) /\ Parsed(i, r) /\ IsOpen(i)
      /\ i \in Ids /\ 0 \notin Ids /\ open \subseteq Ids /\ Ids \subseteq Nat
  BY DEF Arrives, Sends, Ids, EventsInv
<1>2. Keeps
  BY <1>1, WrittenKeeps
<1>3. PICK e : e = OpenOf(ops[i].tid)
  OBVIOUS
<1>4. OpenIs(i, e) /\ (e # 0 => e \in open /\ SameThread(i, e))
  BY <1>1, <1>3, OpenOfIs
<1>5. i \in open => e = i
  BY <1>1, <1>4 DEF OpenIs, SameThread
<1>6. /\ r = "begin" => IF e = 0 THEN Begins(i, r, e) ELSE Dropped
      /\ r = "end" => IF e # 0 /\ ops[e].key = ops[i].key THEN Ended(e, i) ELSE Dropped
  <2>1. InterruptRecord(i, r)
    BY <1>1 DEF Parsed
  <2> QED BY <1>1, <1>3, <2>1 DEF InterruptRecord, NewEvent, Opened, Begins
<1>7. r \in {"begin", "end"}
  BY <1>1, BeginOrEnd
<1>8. Changes(i, r, e)
  BY <1>4, <1>6, <1>7 DEF Changes, Ends
<1>9. r = "end" => i \notin open'
  BY <1>1, <1>5, <1>6 DEF Ended, Dropped
<1>10. EventsInv'
  BY <1>1, <1>4, <1>8, <1>9, ChangesEvents
<1>12. /\ \A d \in open : \A k \in Ids : d < k /\ SameThread(d, k) /\ ops[k].key = ops[d].key => "end" \notin ops[k].arrived
       /\ \A d \in open : "begin" \in ops[d].arrived /\ "end" \notin ops[d].arrived
  BY DEF SinceInv, EventsInv
<1>13. ASSUME r = "begin", Calm(i)' PROVE Begins(i, r, e)
  <2>1. CASE e = 0
    BY <1>6, <1>13, <2>1
  <2>2. CASE e # 0
    <3>1. ops[i].arrived = {}
      BY <1>1, <1>13, FirstRecord
    <3>2. e # i /\ e \in Ids /\ SameThread(i, e)
      BY <1>1, <1>4, <1>12, <2>2, <3>1
    <3>3. e < i
      BY <1>1, <1>13, <3>2, LastOfThread
    <3>4. e \in 1 .. i - 1
      BY <1>1, <3>2, <3>3
    <3>5. ~\E k \in e + 1 .. i - 1 : ops[k].tid = ops[i].tid /\ ops[k].key = ops[e].key /\ "end" \in ops[k].arrived
      <4> SUFFICES ASSUME NEW k \in e + 1 .. i - 1, ops[k].tid = ops[i].tid, ops[k].key = ops[e].key,
                          "end" \in ops[k].arrived
                   PROVE  FALSE
        OBVIOUS
      <4>1. k \in Ids /\ e < k
        BY <1>1, <3>2 DEF Ids, KernelInv
      <4> QED BY <1>4, <1>12, <2>2, <3>2, <4>1 DEF SameThread
    <3>6. Refused(i)
      BY <1>4, <1>12, <2>2, <3>2, <3>4, <3>5 DEF Refused, SameThread
    <3>7. ~Calm(i)
      BY <3>6 DEF Calm, Disturbed
    <3> QED BY <1>1, <1>2, <1>13, <3>7, CalmStays
  <2> QED BY <2>1, <2>2
<1>14. ASSUME r # "begin", "begin" \in ops[i].arrived, Calm(i)'
       PROVE  e = i /\ IF r = "end" THEN Ends(i, i) ELSE Adds(i, r, i, evs[i].args \cup {<<i, r>>})
  <2>1. i \in open
    BY <1>1, <1>14, OwnOpen
  <2> QED BY <1>1, <1>5, <1>6, <1>7, <1>14, <2>1 DEF Ends
<1>15. ASSUME NEW j \in Ids, j # i, "begin" \in ops[j].arrived, IsOpen(j), Calm(j)' PROVE j # e \/ Dropped
  <2>1. CASE j = e /\ ~Dropped
    <3>1. SameThread(i, j) /\ r = "end" /\ ops[j].key = ops[i].key
      BY <1>1, <1>4, <1>6, <1>7, <2>1
    <3>2. i \in Within(j)
      BY <1>1, <1>15, <3>1, OuterOpen
    <3>3. i \in Within(j)'
      BY <1>1, <1>2, <3>2, WithinStays
    <3>4. ops'[i].arrived = ops[i].arrived \cup {r} /\ ops'[i].key = ops'[j].key /\ family' = family
      BY <1>1, <3>1, WrittenIs
    <3>5. Disturbed(j)'
      BY <3>1, <3>3, <3>4 DEF Disturbed
    <3> QED BY <1>15, <3>4, <3>5 DEF Calm
  <2> QED BY <2>1
<1>16. \A j \in Ids : ~(Kept(j) /\ j \in open /\ Calm(j)')
  BY <1>2, KeptOpen
<1>17. WholeInv'
  BY <1>1, <1>8, <1>13, <1>14, <1>15, <1>16, ArrivalWhole
<1>18. /\ Ids' = Ids /\ family' = family
       /\ \A j \in Ids : /\ ops'[j].tid = ops[j].tid /\ ops'[j].key = ops[j].key
                         /\ j # i => ops'[j] = ops[j]
       /\ ops'[i].arrived = ops[i].arrived \cup {r}
  BY <1>1, WrittenIs
<1>19. \A d \in open' : d \in open \/ (d = i /\ r = "begin")
  BY <1>6, <1>7 DEF Begins, Ended, Dropped
<1>20. ASSUME NEW d \in open', NEW k \in Ids', d < k, SameThread(d, k)', ops'[k].key = ops'[d].key
       PROVE  "end" \notin ops'[k].arrived
  <2>1. d \in Ids /\ k \in Ids /\ SameThread(d, k) /\ ops[k].key = ops[d].key
    BY <1>1, <1>18, <1>19, <1>20 DEF SameThread
  <2>2. CASE k # i
    <3>1. CASE d \in open
      BY <1>12, <1>18, <1>20, <2>1, <2>2, <3>1
    <3>2. CASE d = i /\ r = "begin"
      <4>1. k < i
        BY <1>1, <2>1, <2>2, <3>2, LastOfThread
      <4> QED BY <1>1, <1>20, <2>1, <3>2, <4>1
    <3> QED BY <1>19, <3>1, <3>2
  <2>3. CASE k = i
    <3>1. "end" \notin ops[i].arrived
      BY <1>1, FirstRecord
    <3>2. CASE r = "begin"
      BY <1>18, <2>3, <3>1, <3>2
    <3>3. CASE r = "end"
      <4>1. d \in open
        BY <1>19, <3>3
      <4>2. d = e
        BY <1>4, <2>1, <2>3, <4>1 DEF OpenIs, SameThread
      <4>3. Ended(e, i)
        BY <1>1, <1>6, <2>1, <2>3, <3>3, <4>2
      <4> QED BY <1>20, <4>2, <4>3 DEF Ended
    <3> QED BY <1>7, <3>2, <3>3
  <2> QED BY <2>2, <2>3
<1>21. \A d \in open' : "begin" \in ops'[d].arrived
  BY <1>1, <1>12, <1>18, <1>19
<1>22. SinceInv'
  BY <1>18, <1>20, <1>21 DEF SinceInv
<1> QED BY <1>10, <1>17, <1>22

\* Blocks: those of one thread and context are one inside the other.
LEMMA BlockOpenIs ==
  ASSUME KernelInv, EventsInv, NEW i \in Ids
  PROVE  LET S == {j \in open : ops[j].tid = ops[i].tid /\ ops[j].key = ops[i].key} IN
         /\ S = {} => LastOf(S) = 0
         /\ S # {} => LastOf(S) \in S /\ \A j \in S : j <= LastOf(S)
<1> DEFINE S == {j \in open : ops[j].tid = ops[i].tid /\ ops[j].key = ops[i].key}
<1>1. Len(ops) \in Nat /\ S \in SUBSET (1 .. Len(ops))
  BY DEF KernelInv, EventsInv, Ids
<1> HIDE DEF S
<1>2. /\ S = {} => LastOf(S) = 0
      /\ S # {} => LastOf(S) \in S /\ \A j \in S : j <= LastOf(S)
  BY <1>1, LastOfIs
<1> QED BY <1>2 DEF S

LEMMA BlockWithin ==
  ASSUME KernelInv, family.kind = "block", NEW i \in Ids, NEW j \in Ids, i < j, SameThread(i, j), IsOpen(i),
         ops[i].key = ops[j].key, Calm(i)
  PROVE  Calm(j)
<1>1. Nested /\ Ids \subseteq Nat
  BY DEF KernelInv, Ids
<1>2. ASSUME NEW m \in Within(j) PROVE m \in Within(i)
  <2>1. m \in Ids /\ j < m /\ SameThread(j, m)
    BY <1>1, <1>2 DEF Nested, Within
  <2>2. i < m /\ SameThread(i, m)
    BY <1>1, <2>1 DEF SameThread
  <2> QED BY <2>1, <2>2, LaterIsWithin
<1> QED BY <1>2 DEF Calm

LEMMA BlockArrives ==
  ASSUME KernelInv, EventsInv, WholeInv, SinceInv, family.kind = "block", NEW i, NEW r, Arrives(i, r)
  PROVE  EventsInv' /\ WholeInv' /\ SinceInv'
<1>1. /\ Sends(i, r) /\ Written(i, r, ops[i].arrived \cup {r}) /\ Parsed(i, r) /\ IsOpen(i)
      /\ i \in Ids /\ 0 \notin Ids /\ open \subseteq Ids /\ Ids \subseteq Nat
  BY DEF Arrives, Sends, Ids, EventsInv
<1>2. Keeps
  BY <1>1, WrittenKeeps
<1> DEFINE S == {j \in open : ops[j].tid = ops[i].tid /\ ops[j].key = ops[i].key}
<1>3. PICK last : last = LastOf(S)
  OBVIOUS
<1>4. /\ S = {} => last = 0
      /\ S # {} => last \in S /\ \A j \in S : j <= last
  BY <1>1, <1>3, BlockOpenIs
<1>5. r \in {"begin", "end"} /\ \A j \in Ids : ops[j].arrived \subseteq {"begin", "end"}
  BY <1>1, BeginOrEnd
<1>6. /\ r = "begin" => Begins(i, r, 0)
      /\ r = "end" => IF last # 0 THEN Ended(last, i) ELSE Dropped
  <2>1. BlockRecord(i, r)
    BY <1>1 DEF Parsed
  <2>2. open \ {0} = open
    BY <1>1
  <2> QED BY <1>1, <1>3, <2>1, <2>2 DEF BlockRecord, Begins
<1>7. PICK e : e = IF r = "begin" THEN 0 ELSE last
  OBVIOUS
<1>8. Changes(i, r, e)
  BY <1>4, <1>5, <1>6, <1>7 DEF Changes, Ends
<1>9. OpenIs(i, e)
  BY DEF OpenIs
<1>10. EventsInv'
  BY <1>1, <1>8, <1>9, ChangesEvents
<1>12. \A d \in open : "begin" \in ops[d].arrived
  BY DEF SinceInv
<1>13. r = "begin" => Begins(i, r, e)
  BY <1>6, <1>7
<1>14. ASSUME r # "begin", "begin" \in ops[i].arrived, Calm(i)'
       PROVE  e = i /\ IF r = "end" THEN Ends(i, i) ELSE Adds(i, r, i, evs[i].args \cup {<<i, r>>})
  <2>1. i \in open /\ Calm(i)
    BY <1>1, <1>14, OwnOpen
  <2>2. i \in S
    BY <2>1
  <2>3. last \in S /\ i <= last /\ last # 0
    BY <1>1, <1>4, <2>2
  <2>4. CASE last = i
    BY <1>5, <1>6, <1>7, <1>14, <2>1, <2>3, <2>4 DEF Ends
  <2>5. CASE last # i
    <3>1. last \in Ids /\ i < last /\ SameThread(i, last) /\ ops[i].key = ops[last].key
      BY <1>1, <2>3, <2>5 DEF SameThread
    <3>2. ~IsOpen(last)
      BY <1>1, <3>1 DEF Sends
    <3>3. last \in Within(i)
      BY <1>1, <3>1, LaterIsWithin
    <3>4. Cardinality(ops[last].arrived) # 1
      BY <2>1, <3>1, <3>2, <3>3 DEF Calm
    <3>5. "end" \in ops[last].arrived
      <4>1. CASE "end" \notin ops[last].arrived
        <5>1. ops[last].arrived = {"begin"}
          BY <1>5, <1>12, <2>3, <3>1, <4>1
        <5> QED BY <3>4, <5>1, FS_Singleton
      <4> QED BY <4>1
    <3>6. Kept(last)
      <4>1. ops[last].arrived = {"begin", "end"}
        BY <1>5, <1>12, <2>3, <3>1, <3>5
      <4>2. family \in Families /\ Progress(last)
        BY <3>1 DEF KernelInv
      <4>3. Len(Records(last)) = 2
        BY <1>1, <3>5, <4>2, RecordsHave, FamiliesOK DEF Progress
      <4>4. Range(Records(last)) = {"begin", "end"}
        <5>1. Len(Records(last)) # 1 /\ Len(Records(last)) # 3
          BY <4>3
        <5>2. Range(Records(last)) = {"begin"} \cup (IF Len(Records(last)) = 1 THEN {} ELSE {"end"})
                                          \cup (IF Len(Records(last)) = 3 THEN {"info"} ELSE {})
          BY <4>2, RecordsHave
        <5> QED BY <5>1, <5>2
      <4> QED BY <4>1, <4>4 DEF Kept
    <3>7. Calm(last)
      BY <1>1, <2>1, <3>1, BlockWithin
    <3>8. last \notin open
      BY <3>1, <3>6, <3>7 DEF WholeInv
    <3> QED BY <2>3, <3>8
  <2> QED BY <2>4, <2>5
<1>15. ASSUME NEW j \in Ids, j # i, "begin" \in ops[j].arrived, IsOpen(j), Calm(j)' PROVE j # e \/ Dropped
  <2>1. CASE j = e /\ ~Dropped
    <3>1. r = "end" /\ e = last /\ last # 0 /\ last \in S
      BY <1>1, <1>4, <1>5, <1>6, <1>7, <2>1
    <3>2. SameThread(i, j) /\ SameThread(j, i) /\ ops[j].key = ops[i].key
      BY <2>1, <3>1 DEF SameThread
    <3>3. j < i /\ i \in Within(j)
      BY <1>1, <1>15, <3>2, OuterOpen
    <3>4. i \in Within(j)'
      BY <1>1, <1>2, <3>3, WithinStays
    <3>5. /\ ops'[i].arrived = ops[i].arrived \cup {r} /\ ops'[i].key = ops'[j].key /\ family' = family
          /\ ops'[i].state = IF ops[i].sent + 1 = Len(Records(i)) THEN "done" ELSE "open"
      BY <1>1, <3>2, WrittenIs
    <3>6. ~IsOpen(i)'
      BY <1>1, <3>1, <3>5, FirstRecord DEF IsOpen
    <3>7. Cardinality(ops'[i].arrived) # 1
      BY <1>1, <1>15, <3>4, <3>5, <3>6 DEF Calm
    <3>8. "begin" \in ops[i].arrived
      <4>1. CASE "begin" \notin ops[i].arrived
        <5>1. ops'[i].arrived = {"end"}
          BY <1>1, <1>5, <3>1, <3>5, <4>1
        <5> QED BY <3>7, <5>1, FS_Singleton
      <4> QED BY <4>1
    <3>9. Calm(j)
      BY <1>2, <1>15, CalmStays
    <3>10. Calm(i)
      BY <1>1, <1>15, <3>2, <3>3, <3>9, BlockWithin
    <3>11. i \in open
      BY <1>1, <3>8, <3>10 DEF WholeInv
    <3>12. i <= last
      BY <1>4, <3>11
    <3> QED BY <1>1, <2>1, <3>1, <3>3, <3>12
  <2> QED BY <2>1
<1>16. \A j \in Ids : ~(Kept(j) /\ j \in open /\ Calm(j)')
  BY <1>2, KeptOpen
<1>17. WholeInv'
  BY <1>1, <1>8, <1>13, <1>14, <1>15, <1>16, ArrivalWhole
<1>18. /\ family' = family
       /\ \A j \in Ids : j # i => ops'[j] = ops[j]
       /\ ops'[i].arrived = ops[i].arrived \cup {r}
  BY <1>1, WrittenIs
<1>19. \A d \in open' : d \in open \/ (d = i /\ r = "begin")
  BY <1>5, <1>6 DEF Begins, Ended, Dropped
<1>20. \A d \in open' : "begin" \in ops'[d].arrived
  BY <1>1, <1>12, <1>18, <1>19
<1>21. SinceInv'
  BY <1>18, <1>20 DEF SinceInv
<1> QED BY <1>10, <1>17, <1>21

\* The records that an event has are finitely many.
LEMMA ArgsFinite ==
  ASSUME KernelInv, EventsInv, NEW d \in open
  PROVE  IsFiniteSet(evs[d].args) /\ Cardinality(evs[d].args) \in Nat
<1>1. d \in DOMAIN evs /\ evs[d] \in Event
  BY DEF EventsInv
<1>2. evs[d].args \subseteq Ids \X RecordNames
  <2> SUFFICES ASSUME NEW x \in evs[d].args PROVE x \in Ids \X RecordNames
    OBVIOUS
  <2>1. x \in Nat \X RecordNames
    BY <1>1 DEF Event
  <2>2. x[1] \in Ids
    BY <1>1 DEF EventsInv
  <2> QED BY <2>1, <2>2
<1>3. IsFiniteSet(Ids)
  BY FS_Interval DEF KernelInv, Ids
<1>4. IsFiniteSet(RecordNames)
  <2>1. IsFiniteSet({"begin"})
    BY FS_Singleton
  <2>2. IsFiniteSet({"begin"} \cup {"info"})
    BY <2>1, FS_AddElement
  <2>3. IsFiniteSet(({"begin"} \cup {"info"}) \cup {"end"})
    BY <2>2, FS_AddElement
  <2>4. ({"begin"} \cup {"info"}) \cup {"end"} = RecordNames
    BY DEF RecordNames
  <2> QED BY <2>3, <2>4
<1>5. IsFiniteSet(Ids \X RecordNames)
  BY <1>3, <1>4, FS_Product
<1> QED BY <1>2, <1>5, FS_Subset, FS_CardinalityType

\* Calls: an event that lacks an argument is of a call whose thread lost some, or is the present one.
LEMMA CallArrives ==
  ASSUME KernelInv, EventsInv, WholeInv, SinceInv, family.kind = "call", NEW i, NEW r, Arrives(i, r)
  PROVE  EventsInv' /\ WholeInv' /\ SinceInv'
<1>1. /\ Sends(i, r) /\ Written(i, r, ops[i].arrived \cup {r}) /\ Parsed(i, r) /\ IsOpen(i)
      /\ i \in Ids /\ 0 \notin Ids /\ open \subseteq Ids /\ Ids \subseteq Nat
  BY DEF Arrives, Sends, Ids, EventsInv
<1>2. Keeps
  BY <1>1, WrittenKeeps
<1>3. PICK e : e = OpenOf(ops[i].tid)
  OBVIOUS
<1>4. OpenIs(i, e) /\ (e # 0 => e \in open /\ SameThread(i, e))
  BY <1>1, <1>3, OpenOfIs
<1>5. i \in open => e = i
  BY <1>1, <1>4 DEF OpenIs, SameThread
<1>6. PICK same, full : /\ same = (e # 0 /\ ops[e].key = ops[i].key)
                        /\ full = (same /\ Cardinality(evs[e].args) >= Len(Records(e)) - 1)
  OBVIOUS
<1>7. family.depth <= 1
  BY <1>1, FamiliesOK DEF KernelInv
<1>8. r \in {"begin", "info", "end"}
  BY <1>1, BeginOrEnd
<1>9. /\ r = "end" /\ same => Ends(i, e)
      /\ r = "end" /\ ~same => Stands(i, r, e)
      /\ r # "end" /\ same /\ ~full => Adds(i, r, e, evs[e].args \cup {<<i, r>>})
      /\ r # "end" /\ (~same \/ full) => Begins(i, r, e)
  <2>1. CallRecord(i, r)
    BY <1>1 DEF Parsed
  <2>2. /\ r = "end" /\ same => Ended(e, i)
        /\ r = "end" /\ ~same => evs' = With(i, [Made(i, r) EXCEPT !.end = i]) /\ open' = open \ {e}
        /\ r # "end" /\ same /\ ~full => evs' = [evs EXCEPT ![e].args = @ \cup {<<i, r>>}] /\ open' = open
        /\ r # "end" /\ (~same \/ full) => NewEvent(i, r)
    BY <1>3, <1>6, <2>1 DEF CallRecord
  <2>3. same => e \in open
    BY <1>4, <1>6
  <2>4. CASE r = "end" /\ same
    BY <2>2, <2>3, <2>4 DEF Ends
  <2>5. CASE r = "end" /\ ~same
    BY <2>2, <2>5 DEF Stands
  <2>6. CASE r # "end" /\ same /\ ~full
    BY <2>2, <2>3, <2>6 DEF Adds
  <2>7. CASE r # "end" /\ (~same \/ full)
    BY <1>3, <2>2, <2>7 DEF NewEvent, Opened, Begins
  <2> QED BY <2>4, <2>5, <2>6, <2>7
<1>10. Changes(i, r, e)
  BY <1>9 DEF Changes
<1>11. r = "end" => i \notin open'
  BY <1>1, <1>5, <1>9 DEF Ends, Ended, Stands
<1>12. EventsInv'
  BY <1>1, <1>4, <1>10, <1>11, ChangesEvents
<1>13. \A j \in Ids : SameThread(i, j) /\ j # i => j < i
  BY <1>1, <1>7, LastOfThread
<1>14. /\ \A d \in open : Cardinality(evs[d].args) < Len(Records(d)) - 1 =>
            /\ ops[d].key \in family.long
            /\ Disturbed(d) \/ Cardinality(ops[d].arrived \cap {"begin", "info"}) = 1
       /\ \A d \in open : "end" \notin ops[d].arrived /\ ops[d].arrived # {}
  BY DEF SinceInv, EventsInv
<1>15. family \in Families /\ Len(Records(i)) \in {1, 2, 3}
       /\ (Len(Records(i)) = 3 <=> ops[i].key \in family.long) /\ Len(Records(i)) # 1
  BY RecordsHave, RecordsAre, FamiliesOK DEF KernelInv, Records
<1>16. ASSUME r = "begin", Calm(i)' PROVE Begins(i, r, e)
  <2>1. CASE ~same \/ full
    BY <1>9, <1>16, <2>1
  <2>2. CASE same /\ ~full
    <3>1. e \in open /\ SameThread(i, e) /\ ops[e].key = ops[i].key /\ e \in Ids
      BY <1>1, <1>4, <1>6, <2>2
    <3>2. e # i
      BY <1>1, <1>14, <1>16, <3>1, FirstRecord
    <3>3. e < i /\ e \in 1 .. i - 1
      BY <1>1, <1>13, <3>1, <3>2
    <3>4. /\ ops[e].key \in family.long
          /\ Disturbed(e) \/ Cardinality(ops[e].arrived \cap {"begin", "info"}) = 1
      <4>1. Cardinality(evs[e].args) < Len(Records(e)) - 1
        <5>1. ~(Cardinality(evs[e].args) >= Len(Records(e)) - 1)
          BY <1>6, <2>2
        <5>2. Cardinality(evs[e].args) \in Nat /\ Len(Records(e)) \in Nat
          BY <3>1, <1>15, ArgsFinite, RecordsHave
        <5> QED BY <5>1, <5>2
      <4> QED BY <1>14, <3>1, <4>1
    <3>5. Disturbed(i)
      <4>1. CASE Disturbed(e)
        <5>1. PICK j \in 1 .. e - 1 : /\ ops[j].tid = ops[e].tid /\ ops[j].key = ops[e].key
                               /\ Cardinality(ops[j].arrived \cap {"begin", "info"}) = 1
                               /\ ops[j].key \in family.long /\ "end" \notin ops[j].arrived
          BY <4>1 DEF Disturbed
        <5>2. j \in 1 .. i - 1
          BY <1>1, <3>1, <3>3
        <5> QED BY <3>1, <5>1, <5>2 DEF Disturbed, SameThread
      <4>2. CASE Cardinality(ops[e].arrived \cap {"begin", "info"}) = 1
        BY <1>14, <3>1, <3>3, <3>4, <4>2 DEF Disturbed, SameThread
      <4> QED BY <3>4, <4>1, <4>2
    <3>6. ~Calm(i)
      BY <3>5 DEF Calm
    <3> QED BY <1>1, <1>2, <1>16, <3>6, CalmStays
  <2> QED BY <2>1, <2>2
<1>17. ASSUME r # "begin", "begin" \in ops[i].arrived, Calm(i)
       PROVE  e = i /\ same /\ (r = "info" => ~full)
  <2>1. i \in open /\ evs[i].args = Own(i)
    BY <1>1, <1>17 DEF WholeInv
  <2>2. e = i /\ same
    BY <1>1, <1>5, <1>6, <2>1
  <2>3. ASSUME r = "info" PROVE ~full
    <3>1. Len(Records(i)) = 3 /\ r \notin ops[i].arrived /\ "end" \notin ops[i].arrived
      BY <1>1, <2>3, FirstRecord DEF Sends
    <3>2. ops[i].arrived \subseteq RecordNames
      <4>1. ops[i] \in Op
        BY <1>1 DEF KernelInv, Ids
      <4> QED BY <4>1 DEF Op
    <3>3. ops[i].arrived \ {"end"} = {"begin"}
      BY <1>17, <2>3, <3>1, <3>2 DEF RecordNames
    <3>4. evs[e].args = {<<i, "begin">>}
      BY <2>1, <2>2, <3>3 DEF Own
    <3>5. Cardinality(evs[e].args) = 1
      BY <3>4, FS_Singleton
    <3>6. ~(1 >= 3 - 1)
      OBVIOUS
    <3> QED BY <1>6, <2>2, <3>1, <3>5, <3>6
  <2> QED BY <2>2, <2>3
<1>18. ASSUME r # "begin", "begin" \in ops[i].arrived, Calm(i)'
       PROVE  e = i /\ IF r = "end" THEN Ends(i, i) ELSE Adds(i, r, i, evs[i].args \cup {<<i, r>>})
  <2>1. Calm(i)
    BY <1>1, <1>2, <1>18, CalmStays
  <2>2. e = i /\ same /\ (r = "info" => ~full)
    BY <1>17, <1>18, <2>1
  <2> QED BY <1>8, <1>9, <1>18, <2>2
<1>19. ASSUME NEW j \in Ids, j # i, "begin" \in ops[j].arrived, IsOpen(j), Calm(j)' PROVE j # e \/ Dropped
  <2>1. CASE j = e
    <3>1. SameThread(i, j)
      BY <1>1, <1>4, <2>1
    <3>2. family.depth > 1 /\ family.depth \in Nat
      BY <1>1, <1>15, <1>19, <3>1, OuterOpen, FamiliesOK
    <3> QED BY <1>7, <3>2
  <2> QED BY <2>1
<1>20. \A j \in Ids : ~(Kept(j) /\ j \in open /\ Calm(j)')
  BY <1>2, KeptOpen
<1>21. WholeInv'
  BY <1>1, <1>10, <1>16, <1>18, <1>19, <1>20, ArrivalWhole
<1>22. /\ Ids' = Ids /\ family' = family
       /\ \A j \in Ids : /\ ops'[j].tid = ops[j].tid /\ ops'[j].key = ops[j].key
                         /\ Records(j)' = Records(j)
                         /\ j # i => ops'[j] = ops[j]
       /\ ops'[i].arrived = ops[i].arrived \cup {r}
  BY <1>1, WrittenIs
<1>23. \A j \in Ids : Disturbed(j) => Disturbed(j)'
  <2>1. \A j \in Ids : Calm(j)' => Calm(j)
    BY <1>2, CalmStays
  <2>2. family'.kind = "call"
    BY <1>22
  <2> QED BY <2>1, <2>2 DEF Calm
<1>24. "begin" \notin ops[i].arrived /\ r = "info" => ops'[i].arrived \cap {"begin", "info"} = {"info"}
  BY <1>22
<1>25. r = "begin" => ops'[i].arrived \cap {"begin", "info"} = {"begin"}
  <2>1. r = "begin" => ops[i].arrived = {}
    BY <1>1, FirstRecord
  <2> QED BY <1>22, <2>1
<1>26. r = "info" => ops[i].key \in family.long
  <2>1. r = "info" => Len(Records(i)) = 3
    BY <1>1, FirstRecord
  <2> QED BY <1>15, <2>1
\* The operation's own event, when it is open.
<1>27. ASSUME i \in open', Cardinality(evs'[i].args) < Len(Records(i)) - 1
       PROVE  /\ ops[i].key \in family.long
              /\ Disturbed(i)' \/ Cardinality(ops'[i].arrived \cap {"begin", "info"}) = 1
  <2>1. r # "end"
    BY <1>11, <1>27
  <2>2. CASE r = "begin"
    <3>1. Cardinality(ops'[i].arrived \cap {"begin", "info"}) = 1
      BY <1>25, <2>2, FS_Singleton
    <3>2. Begins(i, r, e)
      <4>1. i \notin open
        BY <1>1, <1>14, <2>2, FirstRecord
      <4> QED BY <1>9, <1>27, <2>1, <4>1 DEF Adds
    <3>3. evs'[i].args = {<<i, r>>}
      BY <1>1, <2>2, <3>2, BeginsIs DEF RecordNames
    <3>4. Cardinality(evs'[i].args) = 1
      BY <3>3, FS_Singleton
    <3>5. Len(Records(i)) = 3
      <4>1. PICK last : last = Len(Records(i))
        OBVIOUS
      <4>2. 1 < last - 1 /\ last \in {1, 2, 3}
        BY <1>15, <1>27, <3>4, <4>1
      <4>3. last = 3
        BY <4>2
      <4> QED BY <4>1, <4>3
    <3> QED BY <1>15, <3>1, <3>5
  <2>3. CASE r = "info"
    <3>1. CASE "begin" \notin ops[i].arrived
      BY <1>24, <1>26, <2>3, <3>1, FS_Singleton
    <3>2. CASE "begin" \in ops[i].arrived /\ ~Calm(i)
      BY <1>1, <1>23, <1>26, <2>3, <3>2 DEF Calm
    <3>3. CASE "begin" \in ops[i].arrived /\ Calm(i)
      <4>1. e = i /\ same /\ ~full
        BY <1>17, <2>3, <3>3
      <4>2. Adds(i, r, i, evs[i].args \cup {<<i, r>>})
        BY <1>9, <2>3, <4>1
      <4>3. evs[i].args = Own(i)
        BY <1>1, <3>3 DEF WholeInv
      <4>4. r \notin ops[i].arrived /\ "end" \notin ops[i].arrived /\ Len(Records(i)) = 3
        BY <1>1, <2>3, FirstRecord DEF Sends
      <4>5. ops[i].arrived \subseteq RecordNames
        <5>1. ops[i] \in Op
          BY <1>1 DEF KernelInv, Ids
        <5> QED BY <5>1 DEF Op
      <4>6. Own(i) = {<<i, "begin">>}
        <5>1. ops[i].arrived \ {"end"} = {"begin"}
          BY <2>3, <3>3, <4>4, <4>5 DEF RecordNames
        <5> QED BY <5>1 DEF Own
      <4>7. evs'[i].args = {<<i, "begin">>} \cup {<<i, "info">>}
        <5>1. r \in RecordNames
          BY <2>3 DEF RecordNames
        <5> QED BY <1>1, <2>3, <4>2, <4>3, <4>6, <5>1, AddsIs
      <4>8. Cardinality({<<i, "begin">>} \cup {<<i, "info">>}) = 2
        <5>1. IsFiniteSet({<<i, "begin">>}) /\ Cardinality({<<i, "begin">>}) = 1
          BY FS_Singleton
        <5>2. <<i, "info">> \notin {<<i, "begin">>}
          OBVIOUS
        <5>3. Cardinality({<<i, "begin">>} \cup {<<i, "info">>}) = 1 + 1
          BY <5>1, <5>2, FS_AddElement
        <5> QED BY <5>3
      <4>9. 2 < 3 - 1
        BY <1>27, <4>4, <4>7, <4>8
      <4> QED BY <4>9
    <3> QED BY <3>1, <3>2, <3>3
  <2> QED BY <1>8, <2>1, <2>2, <2>3
<1>28. ASSUME NEW d \in open', d # i, Cardinality(evs'[d].args) < Len(Records(d)) - 1
       PROVE  /\ ops[d].key \in family.long
              /\ Disturbed(d)' \/ Cardinality(ops'[d].arrived \cap {"begin", "info"}) = 1
  <2>1. d \in open /\ d \in DOMAIN evs /\ d \in Ids /\ ops'[d] = ops[d]
    BY <1>1, <1>9, <1>22, <1>28 DEF EventsInv, Adds, Begins, Stands, Ends, Ended
  <2>2. CASE d # e
    <3>1. evs'[d] = evs[d]
      <4>1. r \in RecordNames
        BY <1>8 DEF RecordNames
      <4>2. i \in Ids /\ Changes(i, r, e)
        BY <1>1, <1>10
      <4>3. /\ evs' \in [DOMAIN evs' -> Event] /\ DOMAIN evs' \subseteq Ids
            /\ DOMAIN evs' = DOMAIN evs \/ DOMAIN evs' = DOMAIN evs \cup {i}
            /\ open' \subseteq DOMAIN evs' /\ open' \subseteq open \cup {i}
            /\ \A m \in DOMAIN evs : m # i /\ m # e => evs'[m] = evs[m]
            /\ \A m \in DOMAIN evs' :
                 /\ evs'[m].end = 0 \/ evs'[m].end = i \/ (m \in DOMAIN evs /\ evs'[m].end = evs[m].end)
                 /\ \A x \in evs'[m].args :
                      x = <<i, r>> \/ (m \in DOMAIN evs /\ (x \in evs[m].args \/ x = <<m, "begin">>))
        BY <4>1, <4>2, ChangesAre
      <4> QED BY <1>28, <2>1, <2>2, <4>3
    <3> QED BY <1>14, <1>23, <1>28, <2>1, <3>1
  <2>3. CASE d = e
    <3>1. same /\ ~full
      BY <1>9, <1>28, <2>3 DEF Begins, Stands, Ends, Ended
    <3>2. Cardinality(evs[e].args) < Len(Records(e)) - 1
      <4>1. ~(Cardinality(evs[e].args) >= Len(Records(e)) - 1)
        BY <1>6, <3>1
      <4>2. Cardinality(evs[e].args) \in Nat /\ Len(Records(e)) \in Nat
        BY <2>1, <2>3, <1>15, ArgsFinite, RecordsHave
      <4> QED BY <4>1, <4>2
    <3> QED BY <1>14, <1>23, <2>1, <2>3, <3>2
  <2> QED BY <2>2, <2>3
<1>29. ASSUME NEW d \in open', Cardinality(evs'[d].args) < Len(Records(d)') - 1
       PROVE  /\ ops'[d].key \in family'.long
              /\ Disturbed(d)' \/ Cardinality(ops'[d].arrived \cap {"begin", "info"}) = 1
  <2>1. d \in Ids
    BY <1>12, <1>22 DEF EventsInv
  <2>2. Records(d)' = Records(d) /\ ops'[d].key = ops[d].key /\ family' = family
    BY <1>22, <2>1
  <2> QED BY <1>27, <1>28, <1>29, <2>2
<1>30. SinceInv'
  BY <1>22, <1>29 DEF SinceInv
<1> QED BY <1>12, <1>21, <1>30

\* Backtraces.
LEMMA FramesArrives ==
  ASSUME KernelInv, EventsInv, WholeInv, SinceInv, family.kind = "frames", NEW i, NEW r, Arrives(i, r)
  PROVE  EventsInv' /\ WholeInv' /\ SinceInv'
<1>1. /\ Sends(i, r) /\ Written(i, r, ops[i].arrived \cup {r}) /\ Parsed(i, r) /\ IsOpen(i)
      /\ i \in Ids /\ 0 \notin Ids /\ open \subseteq Ids /\ Ids \subseteq Nat
  BY DEF Arrives, Sends, Ids, EventsInv
<1>2. Keeps
  BY <1>1, WrittenKeeps
<1>3. PICK e : e = OpenOf(ops[i].tid)
  OBVIOUS
<1>4. OpenIs(i, e) /\ (e # 0 => e \in open /\ SameThread(i, e))
  BY <1>1, <1>3, OpenOfIs
<1>5. i \in open => e = i
  BY <1>1, <1>4 DEF OpenIs, SameThread
<1>6. PICK same : same = (e # 0 /\ ops[e].key = ops[i].key)
  OBVIOUS
<1>7. family.depth <= 1
  BY <1>1, FamiliesOK DEF KernelInv
<1>8. r \in {"begin", "info", "end"}
  BY <1>1, BeginOrEnd
<1>9. /\ r = "end" /\ same => Ends(i, e)
      /\ r = "end" /\ ~same => Stands(i, r, e)
      /\ r # "end" /\ same => Adds(i, r, e, evs[e].args \cup {<<i, r>>})
      /\ r # "end" /\ ~same => Begins(i, r, e)
  <2>1. FramesRecord(i, r)
    BY <1>1 DEF Parsed
  <2>2. /\ r = "end" /\ same => Ended(e, i)
        /\ r = "end" /\ ~same => evs' = With(i, [Made(i, r) EXCEPT !.end = i]) /\ open' = open \ {e}
        /\ r # "end" /\ same => evs' = [evs EXCEPT ![e].args = @ \cup {<<i, r>>}] /\ open' = open
        /\ r # "end" /\ ~same => NewEvent(i, r)
    BY <1>3, <1>6, <2>1 DEF FramesRecord
  <2>3. same => e \in open
    BY <1>4, <1>6
  <2>4. CASE r = "end" /\ same
    BY <2>2, <2>3, <2>4 DEF Ends
  <2>5. CASE r = "end" /\ ~same
    BY <2>2, <2>5 DEF Stands
  <2>6. CASE r # "end" /\ same
    BY <2>2, <2>3, <2>6 DEF Adds
  <2>7. CASE r # "end" /\ ~same
    BY <1>3, <2>2, <2>7 DEF NewEvent, Opened, Begins
  <2> QED BY <2>4, <2>5, <2>6, <2>7
<1>10. Changes(i, r, e)
  BY <1>9 DEF Changes
<1>11. r = "end" => i \notin open'
  BY <1>1, <1>5, <1>9 DEF Ends, Ended, Stands
<1>12. EventsInv'
  BY <1>1, <1>4, <1>10, <1>11, ChangesEvents
<1>13. \A j \in Ids : SameThread(i, j) /\ j # i => j < i
  BY <1>1, <1>7, LastOfThread
<1>14. /\ \A d \in open : \A k \in Ids : d < k /\ SameThread(d, k) =>
            ops[k].arrived \subseteq IF ops[k].key = ops[d].key THEN {"begin", "info"} ELSE {}
       /\ \A d \in open : "end" \notin ops[d].arrived /\ ops[d].arrived # {}
  BY DEF SinceInv, EventsInv
<1>15. ASSUME r = "begin", Calm(i)' PROVE Begins(i, r, e)
  <2>1. CASE ~same
    BY <1>9, <1>15, <2>1
  <2>2. CASE same
    <3>1. e \in open /\ SameThread(i, e) /\ SameThread(e, i) /\ ops[e].key = ops[i].key /\ e \in Ids
      BY <1>1, <1>4, <1>6, <2>2 DEF SameThread
    <3>2. e # i
      BY <1>1, <1>14, <1>15, <3>1, FirstRecord
    <3>3. e < i /\ e \in 1 .. i - 1
      BY <1>1, <1>13, <3>1, <3>2
    <3>4. ASSUME NEW k \in e + 1 .. i - 1, ops[k].tid = ops[e].tid
          PROVE  ops[k].arrived \subseteq (IF ops[k].key = ops[e].key THEN {"begin", "info"} ELSE {})
      <4>1. k \in Ids /\ e < k
        BY <1>1, <3>1 DEF Ids, KernelInv
      <4>2. SameThread(e, k)
        BY <3>4 DEF SameThread
      <4> QED BY <1>14, <3>1, <4>1, <4>2
    <3>5. Disturbed(i)
      BY <1>14, <3>1, <3>3, <3>4 DEF Disturbed, SameThread
    <3>6. ~Calm(i)
      BY <3>5 DEF Calm
    <3> QED BY <1>1, <1>2, <1>15, <3>6, CalmStays
  <2> QED BY <2>1, <2>2
<1>16. ASSUME r # "begin", "begin" \in ops[i].arrived, Calm(i)'
       PROVE  e = i /\ IF r = "end" THEN Ends(i, i) ELSE Adds(i, r, i, evs[i].args \cup {<<i, r>>})
  <2>1. i \in open
    BY <1>1, <1>16, OwnOpen
  <2>2. e = i /\ same
    BY <1>1, <1>5, <1>6, <2>1
  <2> QED BY <1>9, <2>2
<1>17. ASSUME NEW j \in Ids, j # i, "begin" \in ops[j].arrived, IsOpen(j), Calm(j)' PROVE j # e \/ Dropped
  <2>1. CASE j = e
    <3>1. SameThread(i, j)
      BY <1>1, <1>4, <2>1
    <3>2. family.depth > 1 /\ family.depth \in Nat
      BY <1>1, <1>17, <3>1, OuterOpen, FamiliesOK DEF KernelInv
    <3> QED BY <1>7, <3>2
  <2> QED BY <2>1
<1>18. \A j \in Ids : ~(Kept(j) /\ j \in open /\ Calm(j)')
  BY <1>2, KeptOpen
<1>19. WholeInv'
  BY <1>1, <1>10, <1>15, <1>16, <1>17, <1>18, ArrivalWhole
<1>20. /\ Ids' = Ids /\ family' = family
       /\ \A j \in Ids : /\ ops'[j].tid = ops[j].tid /\ ops'[j].key = ops[j].key
                         /\ j # i => ops'[j] = ops[j]
       /\ ops'[i].arrived = ops[i].arrived \cup {r}
  BY <1>1, WrittenIs
<1>21. \A d \in open' : d \in open \/ d = i
  BY <1>9 DEF Begins, Stands, Ends, Ended, Adds
<1>22. ASSUME NEW d \in open', NEW k \in Ids', d < k, SameThread(d, k)'
       PROVE  ops'[k].arrived \subseteq IF ops'[k].key = ops'[d].key THEN {"begin", "info"} ELSE {}
  <2>1. d \in Ids /\ k \in Ids /\ SameThread(d, k) /\ SameThread(k, d)
    BY <1>1, <1>20, <1>21, <1>22 DEF SameThread
  <2>2. d # i
    BY <1>1, <1>13, <1>22, <2>1
  <2>3. d \in open /\ ops[k].arrived \subseteq IF ops[k].key = ops[d].key THEN {"begin", "info"} ELSE {}
    BY <1>14, <1>21, <1>22, <2>1, <2>2
  <2>4. CASE k # i
    BY <1>20, <2>1, <2>3, <2>4
  <2>5. CASE k = i
    <3>1. d = e
      BY <1>4, <2>1, <2>3, <2>5 DEF OpenIs
    <3>2. r # "end" /\ same
      BY <1>9, <1>22, <2>2, <3>1 DEF Begins, Stands, Ends, Ended
    <3>3. r \in {"begin", "info"} /\ ops[k].key = ops[d].key
      BY <1>6, <1>8, <2>5, <3>1, <3>2
    <3> QED BY <1>20, <2>1, <2>3, <2>5, <3>3
  <2> QED BY <2>4, <2>5
<1>23. SinceInv'
  BY <1>20, <1>22 DEF SinceInv
<1> QED BY <1>12, <1>19, <1>23

\* Events of the application.
LEMMA NSAppArrives ==
  ASSUME KernelInv, EventsInv, WholeInv, SinceInv, family.kind = "nsapp", NEW i, NEW r, Arrives(i, r)
  PROVE  EventsInv' /\ WholeInv' /\ SinceInv'
<1>1. /\ Sends(i, r) /\ Written(i, r, ops[i].arrived \cup {r}) /\ Parsed(i, r) /\ IsOpen(i)
      /\ i \in Ids /\ 0 \notin Ids /\ open \subseteq Ids /\ Ids \subseteq Nat
  BY DEF Arrives, Sends, Ids, EventsInv
<1>2. Keeps
  BY <1>1, WrittenKeeps
<1>3. PICK e : e = OpenOf(ops[i].tid)
  OBVIOUS
<1>4. OpenIs(i, e) /\ (e # 0 => e \in open /\ SameThread(i, e))
  BY <1>1, <1>3, OpenOfIs
<1>5. i \in open => e = i
  BY <1>1, <1>4 DEF OpenIs, SameThread
<1>6. family.depth <= 1
  BY <1>1, FamiliesOK DEF KernelInv
<1>7. r \in {"begin", "end"}
  BY <1>1, BeginOrEnd
<1>8. /\ r = "begin" => Begins(i, r, e)
      /\ r = "end" => IF e # 0 THEN Ends(i, e) ELSE Stands(i, r, e)
  <2>1. NSAppRecord(i, r)
    BY <1>1 DEF Parsed
  <2>2. /\ r = "begin" => NewEvent(i, r)
        /\ r = "end" /\ e # 0 => Ended(e, i)
        /\ r = "end" /\ e = 0 => evs' = With(i, [Made(i, r) EXCEPT !.end = i]) /\ open' = open
    BY <1>3, <2>1 DEF NSAppRecord
  <2>3. e = 0 => open = open \ {e}
    BY <1>1
  <2>4. CASE r = "begin"
    BY <1>3, <2>2, <2>4 DEF NewEvent, Opened, Begins
  <2>5. CASE r = "end" /\ e # 0
    BY <1>4, <2>2, <2>5 DEF Ends
  <2>6. CASE r = "end" /\ e = 0
    BY <2>2, <2>3, <2>6 DEF Stands
  <2> QED BY <1>7, <2>4, <2>5, <2>6
<1>9. Changes(i, r, e)
  BY <1>7, <1>8 DEF Changes
<1>10. r = "end" => i \notin open' /\ e \notin open'
  BY <1>1, <1>5, <1>8 DEF Ends, Ended, Stands
<1>11. EventsInv'
  BY <1>1, <1>4, <1>9, <1>10, ChangesEvents
<1>12. \A j \in Ids : SameThread(i, j) /\ j # i => j < i
  BY <1>1, <1>6, LastOfThread
<1>13. \A d \in open : \A k \in Ids : d < k /\ SameThread(d, k) => ops[k].arrived = {}
  BY DEF SinceInv
<1>14. r = "begin" => Begins(i, r, e)
  BY <1>8
<1>15. ASSUME r # "begin", "begin" \in ops[i].arrived, Calm(i)'
       PROVE  e = i /\ IF r = "end" THEN Ends(i, i) ELSE Adds(i, r, i, evs[i].args \cup {<<i, r>>})
  <2>1. i \in open
    BY <1>1, <1>15, OwnOpen
  <2>2. e = i /\ e # 0
    BY <1>1, <1>5, <2>1
  <2> QED BY <1>7, <1>8, <1>15, <2>2
<1>16. ASSUME NEW j \in Ids, j # i, "begin" \in ops[j].arrived, IsOpen(j), Calm(j)' PROVE j # e \/ Dropped
  <2>1. CASE j = e
    <3>1. SameThread(i, j)
      BY <1>1, <1>4, <2>1
    <3>2. family.depth > 1 /\ family.depth \in Nat
      BY <1>1, <1>16, <3>1, OuterOpen, FamiliesOK DEF KernelInv
    <3> QED BY <1>6, <3>2
  <2> QED BY <2>1
<1>17. /\ Ids' = Ids /\ family' = family /\ Len(ops') = Len(ops)
       /\ \A j \in Ids : /\ ops'[j].tid = ops[j].tid /\ ops'[j].key = ops[j].key
                         /\ j # i => ops'[j] = ops[j]
       /\ ops'[i].arrived = ops[i].arrived \cup {r}
  BY <1>1, WrittenIs
\* An event that another's end completes is of an operation that is not calm.
<1>18. ASSUME NEW j \in Ids, j # i, Kept(j), j \in open, Calm(j)' PROVE j # e \/ Begins(i, r, e) \/ Dropped
  <2>1. CASE j = e /\ r = "end"
    <3>1. SameThread(i, j) /\ SameThread(j, i) /\ ops[j].key = 0 /\ j < i
      <4>1. SameThread(i, j)
        BY <1>1, <1>4, <2>1
      <4>2. ops[j].key = 0
        BY <1>2, <1>18, KeptOpen
      <4> QED BY <1>12, <1>18, <4>1, <4>2 DEF SameThread
    <3>2. ops'[i].arrived = {"end"} /\ ops'[i].tid = ops'[j].tid /\ ops'[j].key = 0
      <4>1. ops[i].arrived = {}
        BY <1>1, <1>13, <1>18, <3>1
      <4> QED BY <1>1, <1>17, <2>1, <3>1, <4>1 DEF SameThread
    <3>3. \A k \in j + 1 .. i - 1 : ops'[k].tid = ops'[j].tid => ops'[k].arrived = {}
      <4> SUFFICES ASSUME NEW k \in j + 1 .. i - 1, ops'[k].tid = ops'[j].tid PROVE ops'[k].arrived = {}
        OBVIOUS
      <4>1. k \in Ids /\ j < k /\ k # i
        BY <1>1 DEF Ids, KernelInv
      <4>2. SameThread(j, k)
        BY <1>17, <4>1 DEF SameThread
      <4> QED BY <1>13, <1>17, <1>18, <4>1, <4>2
    <3>4. i \in j + 1 .. Len(ops')
      BY <1>1, <1>17, <3>1 DEF Ids, KernelInv
    <3>5. Disturbed(j)'
      BY <1>17, <3>2, <3>3, <3>4 DEF Disturbed
    <3> QED BY <1>17, <1>18, <3>5 DEF Calm
  <2> QED BY <1>7, <1>8, <2>1
<1>19. WholeInv'
  BY <1>1, <1>9, <1>14, <1>15, <1>16, <1>18, ArrivalWhole
<1>20. \A d \in open' : d \in open \/ d = i
  BY <1>9 DEF Changes, Begins, Stands, Ends, Ended, Adds, Dropped
<1>21. ASSUME NEW d \in open', NEW k \in Ids', d < k, SameThread(d, k)' PROVE ops'[k].arrived = {}
  <2>1. d \in Ids /\ k \in Ids /\ SameThread(d, k) /\ SameThread(k, d)
    BY <1>1, <1>17, <1>20, <1>21 DEF SameThread
  <2>2. d # i
    BY <1>1, <1>12, <1>21, <2>1
  <2>3. d \in open
    BY <1>20, <2>2
  <2>4. CASE k # i
    BY <1>13, <1>17, <1>21, <2>1, <2>3, <2>4
  <2>5. CASE k = i
    <3>1. d = e
      BY <1>4, <2>1, <2>3, <2>5 DEF OpenIs
    <3> QED BY <1>7, <1>8, <1>10, <1>21, <2>2, <3>1 DEF Begins
  <2> QED BY <2>4, <2>5
<1>22. SinceInv'
  BY <1>17, <1>21 DEF SinceInv
<1> QED BY <1>11, <1>19, <1>22

\* Breakpoint traps: a thread has one open exactly when it misses an odd number of records.
LEMMA TrapArrives ==
  ASSUME KernelInv, EventsInv, WholeInv, SinceInv, family.kind = "trap", NEW i, NEW r, Arrives(i, r)
  PROVE  EventsInv' /\ WholeInv' /\ SinceInv'
<1>1. /\ Sends(i, r) /\ Written(i, r, ops[i].arrived \cup {r}) /\ Parsed(i, r) /\ IsOpen(i)
      /\ i \in Ids /\ 0 \notin Ids /\ open \subseteq Ids /\ Ids \subseteq Nat
      /\ r \notin ops[i].arrived
  BY DEF Arrives, Sends, Ids, EventsInv
<1>2. Keeps
  BY <1>1, WrittenKeeps
<1>3. PICK e, t : e = OpenOf(ops[i].tid) /\ t = ops[i].tid
  OBVIOUS
<1>4. OpenIs(i, e) /\ (e # 0 => e \in open /\ SameThread(i, e))
  BY <1>1, <1>3, OpenOfIs
<1>5. i \in open => e = i
  BY <1>1, <1>4 DEF OpenIs, SameThread
<1>6. family.depth <= 1
  BY <1>1, FamiliesOK DEF KernelInv
<1>7. r \in {"begin", "end"}
  BY <1>1, BeginOrEnd
<1>8. IF e = 0 THEN Begins(i, r, e) ELSE Ends(i, e)
  <2>1. TrapRecord(i, r)
    BY <1>1 DEF Parsed
  <2>2. CASE e = 0
    BY <1>3, <2>1, <2>2 DEF TrapRecord, NewEvent, Opened, Begins
  <2>3. CASE e # 0
    BY <1>3, <1>4, <2>1, <2>3 DEF TrapRecord, Ends
  <2> QED BY <2>2, <2>3
<1>9. Changes(i, r, e)
  BY <1>8 DEF Changes
<1>10. EventsInv'
  BY <1>1, <1>4, <1>9, ChangesEvents
<1>11. \A j \in Ids : SameThread(i, j) /\ j # i => j < i
  BY <1>1, <1>6, LastOfThread
<1>12. t \in family.threads
  <2>1. ops[i] \in Op
    BY <1>1 DEF KernelInv, Ids
  <2> QED BY <1>3, <2>1 DEF Op
<1>13. PICK m : m = Missing(t, Len(ops))
  OBVIOUS
<1>14. /\ \A j, y : <<j, y>> \in m <=>
                        j \in Ids /\ ops[j].tid = t /\ y \in {"begin", "end"} /\ y \notin ops[j].arrived
       /\ \A x \in m : x = <<x[1], x[2]>>
       /\ IsFiniteSet(m) /\ Cardinality(m) \in Nat
  BY <1>13, MissingIs
<1>15. e # 0 <=> Cardinality(m) % 2 = 1
  BY <1>3, <1>12, <1>13 DEF SinceInv
<1>16. ASSUME r = "begin", Calm(i)' PROVE Begins(i, r, e)
  <2>1. CASE e = 0
    BY <1>8, <2>1
  <2>2. CASE e # 0
    <3> DEFINE mine == {j \in 1 .. i - 1 : ops[j].tid = ops[i].tid}
               before == {x \in mine \X {"begin", "end"} : x[2] \notin ops[x[1]].arrived}
    <3>1. ops[i].arrived = {}
      BY <1>1, <1>16, FirstRecord
    <3>2. \A j : j \in mine <=> j \in Ids /\ ops[j].tid = t /\ j # i
      <4>1. \A j \in mine : j \in Ids /\ ops[j].tid = t /\ j # i
        BY <1>1, <1>3 DEF Ids, KernelInv
      <4>2. \A j \in Ids : ops[j].tid = t /\ j # i => j \in 1 .. i - 1
        BY <1>1, <1>3, <1>11 DEF Ids, SameThread
      <4> QED BY <1>3, <4>1, <4>2
    <3>3. \A x \in m : x \in (before \cup {<<i, "begin">>}) \cup {<<i, "end">>}
      <4> SUFFICES ASSUME NEW x \in m, x[1] # i PROVE x \in before
        BY <1>14
      <4>1. PICK j, y : x = <<j, y>>
        BY <1>14
      <4>2. j \in mine /\ y \in {"begin", "end"} /\ y \notin ops[j].arrived
        BY <1>14, <3>2, <4>1
      <4> QED BY <4>1, <4>2
    <3>4. \A x \in (before \cup {<<i, "begin">>}) \cup {<<i, "end">>} : x \in m
      <4>1. <<i, "begin">> \in m /\ <<i, "end">> \in m
        BY <1>1, <1>3, <1>14, <3>1
      <4>2. ASSUME NEW x \in before PROVE x \in m
        <5>1. x \in mine \X {"begin", "end"} /\ x[2] \notin ops[x[1]].arrived
          OBVIOUS
        <5>2. x = <<x[1], x[2]>> /\ x[1] \in mine /\ x[2] \in {"begin", "end"}
          BY <5>1
        <5>3. <<x[1], x[2]>> \in m
          BY <1>14, <3>2, <5>1, <5>2
        <5> QED BY <5>2, <5>3
      <4> QED BY <4>1, <4>2
    <3>5. m = (before \cup {<<i, "begin">>}) \cup {<<i, "end">>}
      BY <3>3, <3>4
    <3>6. <<i, "begin">> \notin before /\ <<i, "end">> \notin before \cup {<<i, "begin">>}
      BY <3>2
    <3>7. IsFiniteSet(before) /\ Cardinality(before) \in Nat
      <4>1. before \subseteq m
        BY <3>4
      <4> QED BY <1>14, <4>1, FS_Subset, FS_CardinalityType
    <3>8. LostBefore(i) = Cardinality(before)
      BY DEF LostBefore
    <3> HIDE DEF before, mine
    <3>9. IsFiniteSet(before \cup {<<i, "begin">>})
          /\ Cardinality(before \cup {<<i, "begin">>}) = Cardinality(before) + 1
      BY <3>6, <3>7, FS_AddElement
    <3>10. Cardinality(m) = Cardinality(before) + 2
      <4>1. Cardinality(m) = Cardinality(before \cup {<<i, "begin">>}) + 1
        BY <3>5, <3>6, <3>9, FS_AddElement
      <4> QED BY <3>7, <3>9, <4>1
    <3>11. Cardinality(before) % 2 = 1
      <4>1. PICK c \in Nat : c = Cardinality(before)
        BY <3>7
      <4>2. (c + 2) % 2 = 1
        BY <1>15, <2>2, <3>10, <4>1
      <4>3. c % 2 = 1
        BY <4>2
      <4> QED BY <4>1, <4>3
    <3>12. ~Calm(i)
      BY <3>8, <3>11 DEF Calm, Disturbed
    <3> QED BY <1>1, <1>2, <1>16, <3>12, CalmStays
  <2> QED BY <2>1, <2>2
<1>17. ASSUME r # "begin", "begin" \in ops[i].arrived, Calm(i)'
       PROVE  e = i /\ IF r = "end" THEN Ends(i, i) ELSE Adds(i, r, i, evs[i].args \cup {<<i, r>>})
  <2>1. i \in open
    BY <1>1, <1>17, OwnOpen
  <2>2. e = i /\ e # 0
    BY <1>1, <1>5, <2>1
  <2> QED BY <1>7, <1>8, <1>17, <2>2
<1>18. ASSUME NEW j \in Ids, j # i, "begin" \in ops[j].arrived, IsOpen(j), Calm(j)' PROVE j # e \/ Dropped
  <2>1. CASE j = e
    <3>1. SameThread(i, j)
      BY <1>1, <1>4, <2>1
    <3>2. family.depth > 1 /\ family.depth \in Nat
      BY <1>1, <1>18, <3>1, OuterOpen, FamiliesOK DEF KernelInv
    <3> QED BY <1>6, <3>2
  <2> QED BY <2>1
<1>19. \A j \in Ids : ~(Kept(j) /\ j \in open /\ Calm(j)')
  BY <1>2, KeptOpen
<1>20. WholeInv'
  BY <1>1, <1>9, <1>16, <1>17, <1>18, <1>19, ArrivalWhole
<1>21. /\ Ids' = Ids /\ family' = family /\ Len(ops') = Len(ops)
       /\ \A j \in Ids : /\ ops'[j].tid = ops[j].tid
                         /\ j # i => ops'[j] = ops[j]
       /\ ops'[i].arrived = ops[i].arrived \cup {r}
  BY <1>1, WrittenIs
<1>22. ASSUME NEW u \in family.threads
       PROVE  OpenOf(u)' # 0 <=> (Cardinality(Missing(u, Len(ops))) % 2 = 1)'
  <2> DEFINE now == {j \in open' : ops'[j].tid = u}
             then == {j \in open : ops[j].tid = u}
  <2>1. PICK mu, m2 : mu = Missing(u, Len(ops)) /\ m2 = Missing(u, Len(ops))'
    OBVIOUS
  <2>2. /\ \A j, y : <<j, y>> \in mu <=>
                        j \in Ids /\ ops[j].tid = u /\ y \in {"begin", "end"} /\ y \notin ops[j].arrived
        /\ \A x \in mu : x = <<x[1], x[2]>>
    BY <2>1, MissingIs
  <2>3. /\ \A j, y : <<j, y>> \in m2 <=>
                        j \in Ids /\ ops[j].tid = u /\ y \in {"begin", "end"} /\ y \notin ops'[j].arrived
        /\ \A x \in m2 : x = <<x[1], x[2]>>
    <3>1. m2 = {x \in {j \in 1 .. Len(ops') : ops'[j].tid = u} \X {"begin", "end"} : x[2] \notin ops'[x[1]].arrived}
      BY <2>1 DEF Missing
    <3>2. Ids = 1 .. Len(ops')
      BY <1>21 DEF Ids
    <3> QED BY <1>21, <3>1, <3>2
  <2>4. OpenOf(u) # 0 <=> Cardinality(mu) % 2 = 1
    BY <2>1 DEF SinceInv
  <2>5. OpenOf(u)' = LastOf(now) /\ OpenOf(u) = LastOf(then)
    BY DEF OpenOf
  <2>6. (now = {} => LastOf(now) = 0) /\ (now # {} => LastOf(now) # 0)
    <3>1. now \in SUBSET (1 .. Len(ops)) /\ Len(ops) \in Nat
      BY <1>10, <1>21 DEF EventsInv, Ids, KernelInv
    <3> HIDE DEF now
    <3>2. /\ now = {} => LastOf(now) = 0
          /\ now # {} => LastOf(now) \in now
      BY <3>1, LastOfIs
    <3> QED BY <3>1, <3>2
  <2>7. CASE u # t
    <3>1. now = then
      <4>1. \A j \in open' : ops'[j].tid = u => j \in open /\ ops[j].tid = u
        BY <1>1, <1>3, <1>8, <1>21, <2>7 DEF Begins, Ends, Ended
      <4>2. \A j \in open : ops[j].tid = u => j \in open' /\ ops'[j].tid = u
        BY <1>1, <1>3, <1>4, <1>8, <1>21, <2>7 DEF Begins, Ends, Ended, SameThread
      <4> QED BY <4>1, <4>2
    <3>2. \A j, y : <<j, y>> \in m2 <=> <<j, y>> \in mu
      BY <1>3, <1>21, <2>2, <2>3, <2>7
    <3>3. \A x \in m2 : x \in mu
      BY <2>3, <3>2
    <3>4. \A x \in mu : x \in m2
      BY <2>2, <3>2
    <3>5. m2 = mu
      BY <3>3, <3>4
    <3> QED BY <2>1, <2>4, <2>5, <3>1, <3>5
  <2>8. CASE u = t
    <3>1. <<i, r>> \in m /\ mu = m
      BY <1>1, <1>3, <1>7, <1>13, <1>14, <2>1, <2>8
    <3>2. \A j, y : <<j, y>> \in m2 <=> <<j, y>> \in m /\ <<j, y>> # <<i, r>>
      <4> SUFFICES ASSUME NEW j, NEW y PROVE <<j, y>> \in m2 <=> <<j, y>> \in m /\ <<j, y>> # <<i, r>>
        OBVIOUS
      <4>1. <<j, y>> \in m2 <=> j \in Ids /\ ops[j].tid = u /\ y \in {"begin", "end"} /\ y \notin ops'[j].arrived
        BY <2>3
      <4>2. <<j, y>> \in m <=> j \in Ids /\ ops[j].tid = u /\ y \in {"begin", "end"} /\ y \notin ops[j].arrived
        BY <2>2, <3>1
      <4>3. j \in Ids => (y \notin ops'[j].arrived <=> y \notin ops[j].arrived /\ (j # i \/ y # r))
        BY <1>21
      <4> QED BY <4>1, <4>2, <4>3
    <3>3. \A x \in m2 : x \in m \ {<<i, r>>}
      BY <2>3, <3>2
    <3>4. \A x \in m \ {<<i, r>>} : x \in m2
      BY <1>14, <3>2
    <3>5. m2 = m \ {<<i, r>>}
      BY <3>3, <3>4
    <3>6. IsFiniteSet(m2) /\ Cardinality(m2) = Cardinality(m) - 1
      BY <1>14, <3>1, <3>5, FS_RemoveElement
    <3>7. Cardinality(m2) \in Nat
      BY <3>6, FS_CardinalityType
    <3>8. Cardinality(m2) % 2 = 1 <=> ~(Cardinality(m) % 2 = 1)
      <4>1. PICK c \in Nat : c = Cardinality(m2)
        BY <3>7
      <4>2. Cardinality(m) = c + 1
        BY <1>14, <3>6, <4>1
      <4>3. c % 2 = 1 <=> ~((c + 1) % 2 = 1)
        OBVIOUS
      <4> QED BY <4>1, <4>2, <4>3
    <3>9. now # {} <=> e = 0
      <4>1. CASE e = 0
        <5>1. i \in open'
          BY <1>8, <4>1 DEF Begins
        <5>2. i \in now
          BY <1>1, <1>3, <1>21, <2>8, <5>1
        <5> QED BY <4>1, <5>2
      <4>2. CASE e # 0
        <5>1. open' = open \ {e}
          BY <1>8, <4>2 DEF Ends, Ended
        <5>2. \A j \in open : ops[j].tid = t => j = e
          BY <1>3, <1>4 DEF OpenIs, SameThread
        <5>3. \A j \in open : ops'[j].tid = ops[j].tid
          BY <1>1, <1>21
        <5> QED BY <2>8, <4>2, <5>1, <5>2, <5>3
      <4> QED BY <4>1, <4>2
    <3> QED BY <1>15, <2>1, <2>5, <2>6, <3>8, <3>9
  <2> QED BY <2>7, <2>8
<1>23. SinceInv'
  BY <1>21, <1>22 DEF SinceInv
<1> QED BY <1>10, <1>20, <1>23

-----------------------------------------------------------------------------
(* Messages that are freed. *)

\* A receipt is of the same send after a step.
LEMMA ReceivesStays ==
  ASSUME KernelInv, Keeps, \A j \in Ids : ops'[j].recv = ops[j].recv, NEW s \in Ids, NEW i \in Ids
  PROVE  Receives(i, s)' <=> Receives(i, s)
<1>1. \A j \in Ids : ops'[j].key = ops[j].key /\ ops'[j].recv = ops[j].recv
  BY DEF Keeps
<1>2. \A j \in s + 1 .. i : j \in Ids
  BY DEF KernelInv, Ids
<1> QED BY <1>1, <1>2 DEF Receives

\* The releases that an event is marked with are those of sends at its address.
LEMMA ReleaseOrder ==
  ASSUME KernelInv, AddressInv, NEW i \in Ids, IsOpen(i),
         NEW f \in Ids, ~ops[f].recv, ops[f].key = ops[i].key, ops[f].released # "no"
  PROVE  f < i /\ i \notin OfMessage(f)
<1>1. PICK s \in Ids : s <= i /\ ops[s].key = ops[i].key /\ ~ops[s].recv /\ ops[s].released = "no"
  BY DEF AddressInv
<1>2. s \in Nat /\ f \in Nat /\ i \in Nat
  BY DEF Ids
<1>3. ~(s < f) /\ s # f
  BY <1>1 DEF AddressInv
<1>4. f < s /\ f < i
  BY <1>1, <1>2, <1>3
<1>5. s \in f + 1 .. i
  BY <1>1, <1>2, <1>4
<1>6. ~Receives(i, f)
  BY <1>1, <1>5 DEF Receives
<1> QED BY <1>2, <1>4, <1>6 DEF OfMessage

LEMMA StartMessage ==
  ASSUME KernelInv, EventsInv, MessageInv, family.kind = "message",
         NEW t \in family.threads, NEW k \in family.keys, NEW recv \in BOOLEAN,
         NEW header \in family.headers, Start(t, k, recv, header)
  PROVE  MessageInv'
<1>1. PICK n : /\ Ids' = Ids \cup {n} /\ n \notin Ids /\ \A j \in Ids : j < n
               /\ family' = family
               /\ \A j \in Ids : ops'[j] = ops[j]
               /\ ops'[n] = NewOp(t, k, recv, header, Around(t))
               /\ evs' = evs /\ open' = open
  BY StartIs
<1>2. /\ ops'[n].key = k /\ ops'[n].recv = recv /\ ops'[n].arrived = {} /\ ops'[n].released = "no"
  BY <1>1 DEF NewOp
<1>3. Keeps
  BY StartKeeps
<1>4. AddressInv /\ FreedInv /\ MigInv /\ MarksInv /\ DOMAIN evs \subseteq Ids /\ Ids' \subseteq Nat
  BY DEF MessageInv, EventsInv, Ids
<1>5. /\ recv => \E s \in Ids : ops[s].key = k /\ ~ops[s].recv /\ ops[s].released = "no"
      /\ ~recv => \A s \in Ids : ~(ops[s].key = k /\ ~ops[s].recv /\ ops[s].released = "no")
  <2>1. MayStart(k, recv) /\ ops \in Seq(Op)
    BY DEF Start, KernelInv
  <2>2. IF recv THEN SendAt(k) # 0 ELSE SendAt(k) = 0
    BY <2>1 DEF MayStart
  <2>3. PICK s : s = SendAt(k)
    OBVIOUS
  <2>4. /\ s = 0 => {i \in Ids : ops[i].key = k /\ ~ops[i].recv /\ ops[i].released = "no"} = {}
        /\ s # 0 => s \in {i \in Ids : ops[i].key = k /\ ~ops[i].recv /\ ops[i].released = "no"}
    BY <2>1, <2>3, SendAtIs
  <2> QED BY <2>2, <2>3, <2>4
<1>6. AddressInv'
  <2>1. ASSUME NEW s \in Ids', NEW i \in Ids', s < i, ops'[i].key = ops'[s].key, ~ops'[s].recv, ops'[s].released = "no"
        PROVE  ops'[i].recv
    <3>1. s \in Ids
      BY <1>1, <1>4, <2>1
    <3>2. CASE i \in Ids
      BY <1>1, <1>4, <2>1, <3>1, <3>2 DEF AddressInv
    <3>3. CASE i = n
      BY <1>1, <1>2, <1>5, <2>1, <3>1, <3>3
    <3> QED BY <1>1, <3>2, <3>3
  <2>2. ASSUME NEW i \in Ids', IsOpen(i)'
        PROVE  \E s \in Ids' : s <= i /\ ops'[s].key = ops'[i].key /\ ~ops'[s].recv /\ ops'[s].released = "no"
    <3>1. CASE i \in Ids
      <4>1. IsOpen(i)
        BY <1>1, <2>2, <3>1 DEF IsOpen
      <4> QED BY <1>1, <1>4, <3>1, <4>1 DEF AddressInv
    <3>2. CASE i = n /\ recv
      <4>1. PICK s \in Ids : ops[s].key = k /\ ~ops[s].recv /\ ops[s].released = "no"
        BY <1>5, <3>2
      <4>2. s < n /\ s \in Nat /\ n \in Nat
        BY <1>1, <1>4
      <4>3. s <= i /\ s \in Ids'
        BY <1>1, <3>2, <4>2
      <4> QED BY <1>1, <1>2, <3>2, <4>1, <4>3
    <3>3. CASE i = n /\ ~recv
      <4>1. i <= i
        BY <1>4, <2>2
      <4> QED BY <1>1, <1>2, <3>3, <4>1
    <3> QED BY <1>1, <3>1, <3>2, <3>3
  <2> QED BY <2>1, <2>2 DEF AddressInv
<1>7. FreedInv'
  <2>1. \A i \in Ids' : "begin" \in ops'[i].arrived /\ i \notin DOMAIN evs' => ~IsOpen(i)' /\ "end" \notin ops'[i].arrived
    BY <1>1, <1>2, <1>4 DEF FreedInv, IsOpen
  <2>2. \A i \in DOMAIN evs' : "begin" \in ops'[i].arrived
    BY <1>1, <1>4 DEF FreedInv
  <2>3. \A s \in DOMAIN evs' : evs'[s].freed # {} => ~ops'[s].recv
    BY <1>1, <1>4 DEF FreedInv
  <2>4. \A s \in DOMAIN evs' : \A f \in evs'[s].freed :
          f \in Ids' /\ ~ops'[f].recv /\ ops'[f].key = ops'[s].key /\ ops'[f].released # "no"
    BY <1>1, <1>4 DEF FreedInv
  <2> QED BY <2>1, <2>2, <2>3, <2>4 DEF FreedInv
<1>8. \A s, i \in Ids : Receives(i, s)' <=> Receives(i, s)
  BY <1>1, <1>3, ReceivesStays
<1>9. ASSUME NEW s \in DOMAIN evs', ~ops'[s].recv, ops'[s].released = "arrived", OfMessage(s)' = {s}
      PROVE  s \notin open' /\ (s \in evs'[s].freed \/ evs'[s].mig)
  <2>1. s \in Ids /\ s \in DOMAIN evs /\ ~ops[s].recv /\ ops[s].released = "arrived"
    BY <1>1, <1>4, <1>9
  <2>2. OfMessage(s) = {s}
    <3>1. \A i \in Ids : Receives(i, s) => i = s
      BY <1>1, <1>8, <1>9, <2>1 DEF OfMessage
    <3> QED BY <3>1 DEF OfMessage
  <2> QED BY <1>1, <1>4, <2>1, <2>2 DEF MarksInv
<1>10. ASSUME NEW s \in DOMAIN evs', ~ops'[s].recv, NEW f \in evs'[s].freed, NEW i \in Ids',
              i > s, ops'[i].key = ops'[s].key, i < f \/ i \in OfMessage(f)'
       PROVE  ~({"begin", "end"} \subseteq ops'[i].arrived)
  <2>1. s \in Ids /\ s \in DOMAIN evs /\ ~ops[s].recv /\ f \in evs[s].freed /\ f \in Ids
    BY <1>1, <1>4, <1>10 DEF FreedInv
  <2>2. CASE i = n
    BY <1>2, <2>2
  <2>3. CASE i \in Ids
    <3>1. i < f \/ i \in OfMessage(f)
      BY <1>8, <1>10, <2>1, <2>3 DEF OfMessage
    <3> QED BY <1>1, <1>4, <1>10, <2>1, <2>3, <3>1 DEF MarksInv
  <2> QED BY <1>1, <2>2, <2>3
<1>11. MarksInv'
  BY <1>9, <1>10 DEF MarksInv
<1>12. MigInv'
  <2> SUFFICES ASSUME NEW e \in DOMAIN evs'
               PROVE  /\ ~ops'[e].header.mig \/ ToldOfNoPort(e)' => ~evs'[e].mig
                      /\ ops'[e].header.mig /\ ~ops'[e].recv /\ ~evs'[e].mig => \E i \in Ids' : MayTell(i, e)'
                      /\ evs'[e].freed # {} => ~evs'[e].mig
    BY DEF MigInv
  <2>1. e \in DOMAIN evs /\ e \in Ids /\ evs'[e] = evs[e] /\ ops'[e] = ops[e]
    BY <1>1, <1>4
  <2>2. ToldOfNoPort(e)' => ToldOfNoPort(e)
    <3>1. <<n, "info">> \notin evs[e].args
      <4>1. \A x \in evs[e].args : x[1] \in Ids
        BY <2>1 DEF EventsInv
      <4> QED BY <1>1, <4>1
    <3> QED BY <1>1, <2>1, <3>1 DEF ToldOfNoPort
  <2>3. \A i \in Ids : MayTell(i, e) => MayTell(i, e)'
    BY <1>1, <2>1 DEF MayTell
  <2> QED BY <1>1, <1>4, <2>1, <2>2, <2>3 DEF MigInv
<1> QED BY <1>6, <1>7, <1>11, <1>12 DEF MessageInv

LEMMA RecordMessage ==
  ASSUME KernelInv, EventsInv, MessageInv, family.kind = "message",
         NEW i, NEW r, Arrives(i, r) \/ Lost(i, r)
  PROVE  MessageInv'
<1>1. PICK a : Sends(i, r) /\ Written(i, r, a) /\ (a = ops[i].arrived \/ a = ops[i].arrived \cup {r})
  BY DEF Arrives, Lost
<1>2. /\ i \in Ids /\ Ids' = Ids /\ family' = family /\ r \in RecordNames
      /\ \A j \in Ids : /\ ops'[j].key = ops[j].key /\ ops'[j].recv = ops[j].recv /\ ops'[j].released = ops[j].released
                        /\ ops'[j].tid = ops[j].tid /\ ops'[j].inside = ops[j].inside
                        /\ ops'[j].header = ops[j].header
                        /\ j # i => ops'[j] = ops[j]
      /\ ops'[i].arrived = a
  BY <1>1, WrittenIs
<1>3. Keeps
  BY <1>1, WrittenKeeps
<1>4. /\ AddressInv /\ FreedInv /\ MigInv /\ MarksInv /\ DOMAIN evs \subseteq Ids /\ Ids \subseteq Nat
      /\ IsOpen(i) /\ \A d \in DOMAIN evs : ops[d].arrived # {}
  BY <1>1 DEF MessageInv, EventsInv, Ids, Sends
<1>5. \A j \in Ids : IsOpen(j)' => IsOpen(j)
  BY <1>3 DEF Keeps, IsOpen
\* The record changes no marks, and a begin makes the event of its operation.
<1>6. \/ /\ r = "begin" /\ a = {"begin"} /\ i \notin DOMAIN evs /\ DOMAIN evs' = DOMAIN evs \cup {i}
         /\ evs'[i].freed = {} /\ evs'[i].args = {<<i, r>>} /\ open' \subseteq open \cup {i}
         /\ evs'[i].mig <=> ops[i].header.mig /\ ~ops[i].recv
         /\ \A d \in DOMAIN evs : evs'[d] = evs[d]
      \/ /\ r # "begin" \/ a = ops[i].arrived
         /\ DOMAIN evs' = DOMAIN evs /\ open' \subseteq open
         /\ \A d \in DOMAIN evs :
              /\ evs'[d].freed = evs[d].freed
              /\ d \notin open => evs'[d] = evs[d]
              /\ \/ evs'[d].args = evs[d].args /\ evs'[d].mig = evs[d].mig
                 \/ /\ r = "info" /\ "info" \in a /\ SameThread(i, d) /\ evs'[d].args = {<<d, "begin">>, <<i, r>>}
                    /\ evs'[d].mig <=> evs[d].mig /\ ops[i].header.local
  <2>1. CASE Lost(i, r)
    <3>1. ops'[i].arrived = ops[i].arrived
      <4>1. Written(i, r, ops[i].arrived)
        BY <2>1 DEF Lost
      <4> QED BY <1>1, <4>1, WrittenIs
    <3> QED BY <1>2, <2>1, <3>1 DEF Lost, Dropped
  <2>2. CASE Arrives(i, r)
    <3>1. ops'[i].arrived = ops[i].arrived \cup {r}
      <4>1. Written(i, r, ops[i].arrived \cup {r})
        BY <2>2 DEF Arrives
      <4> QED BY <1>1, <4>1, WrittenIs
    <3>2. PICK e : e = OpenOf(ops[i].tid)
      OBVIOUS
    <3>3. e # 0 => e \in open /\ e \in DOMAIN evs /\ SameThread(i, e)
      BY <1>2, <3>2, OpenOfIs DEF SameThread, EventsInv
    <3>4. MessageRecord(i, r)
      BY <2>2 DEF Arrives, Parsed
    <3>5. CASE r = "begin"
      <4>1. Begins(i, r, e)
        BY <3>2, <3>4, <3>5 DEF MessageRecord, NewEvent, Opened, Begins
      <4>2. ops[i].arrived = {}
        BY <1>1, <3>5, FirstRecord
      <4>3. i \notin DOMAIN evs /\ a = {"begin"}
        BY <1>2, <1>4, <3>1, <3>5, <4>2
      <4>4. /\ DOMAIN evs' = DOMAIN evs \cup {i} /\ evs'[i].freed = {} /\ evs'[i].args = {<<i, r>>}
            /\ evs'[i].mig <=> ops[i].header.mig /\ ~ops[i].recv
            /\ open' = (open \ {e}) \cup {i}
            /\ \A d \in DOMAIN evs : d # i => evs'[d] = evs[d]
        BY <1>2, <4>1, BeginsIs
      <4> QED BY <3>5, <4>3, <4>4
    <3>6. CASE r = "info"
      <4>1. CASE e = 0
        BY <3>2, <3>4, <3>6, <4>1 DEF MessageRecord, Dropped
      <4>2. CASE e # 0
        <5>1. /\ evs' = [evs EXCEPT ![e].args = {<<e, "begin">>, <<i, r>>},
                                    ![e].mig = @ /\ ops[i].header.local]
              /\ open' = open
          BY <3>2, <3>4, <3>6, <4>2 DEF MessageRecord
        <5>2. Adds(i, r, e, {<<e, "begin">>, <<i, r>>})
          BY <3>3, <4>2, <5>1 DEF Adds
        <5>3. /\ DOMAIN evs' = DOMAIN evs /\ evs'[e].freed = evs[e].freed
              /\ evs'[e].args = {<<e, "begin">>, <<i, r>>}
              /\ \A d \in DOMAIN evs : d # e => evs'[d] = evs[d]
          BY <1>2, <5>2, AddsIs
        <5>4. evs'[e].mig <=> evs[e].mig /\ ops[i].header.local
          <6>1. evs[e] \in Event /\ evs \in [DOMAIN evs -> Event] /\ e \in DOMAIN evs
            BY <3>3, <4>2 DEF EventsInv
          <6>2. PICK m \in BOOLEAN : m = (evs[e].mig /\ ops[i].header.local)
            OBVIOUS
          <6>3. PICK b : b = {<<e, "begin">>, <<i, r>>}
            OBVIOUS
          <6>4. evs' = [evs EXCEPT ![e].args = b, ![e].mig = m]
            BY <5>1, <6>1, <6>2, <6>3
          <6>5. evs'[e].mig = m
            BY <6>1, <6>4 DEF Event
          <6> QED BY <6>2, <6>5
        <5>5. "info" \in a
          BY <1>2, <3>1, <3>6
        <5> QED BY <3>3, <3>6, <4>2, <5>1, <5>3, <5>4, <5>5
      <4> QED BY <4>1, <4>2
    <3>7. CASE r = "end"
      <4>1. Dropped \/ (e # 0 /\ Ended(e, i))
        BY <3>2, <3>4, <3>7 DEF MessageRecord
      <4>2. CASE Dropped
        BY <3>7, <4>2 DEF Dropped
      <4>3. CASE e # 0 /\ Ended(e, i)
        <5>1. Ends(i, e)
          BY <3>3, <4>3 DEF Ends
        <5>2. /\ DOMAIN evs' = DOMAIN evs /\ evs'[e].freed = evs[e].freed
              /\ evs'[e].args = evs[e].args /\ evs'[e].mig = evs[e].mig /\ open' = open \ {e}
              /\ \A d \in DOMAIN evs : d # e => evs'[d] = evs[d]
          BY <1>2, <5>1, EndsIs
        <5> QED BY <3>3, <3>7, <4>3, <5>2
      <4> QED BY <4>1, <4>2, <4>3
    <3> QED BY <1>2, <3>5, <3>6, <3>7 DEF RecordNames
  <2> QED BY <2>1, <2>2
<1>7. AddressInv'
  BY <1>2, <1>4, <1>5 DEF AddressInv
<1>8. \A d \in DOMAIN evs' : d \in Ids /\ (evs'[d].freed = {} \/ (d \in DOMAIN evs /\ evs'[d].freed = evs[d].freed))
  BY <1>2, <1>4, <1>6
<1>9. \A j \in Ids : j # i => ops'[j].arrived = ops[j].arrived
  BY <1>2
<1>10. "begin" \in a /\ r # "begin" => "begin" \in ops[i].arrived
  BY <1>1
<1>11. FreedInv'
  <2>1. ASSUME NEW j \in Ids', "begin" \in ops'[j].arrived, j \notin DOMAIN evs'
        PROVE  ~IsOpen(j)' /\ "end" \notin ops'[j].arrived
    <3>1. j \in Ids /\ j \notin DOMAIN evs
      BY <1>2, <1>6, <2>1
    <3>2. CASE j # i
      <4>1. ~IsOpen(j) /\ "end" \notin ops[j].arrived
        BY <1>4, <1>9, <2>1, <3>1, <3>2 DEF FreedInv
      <4> QED BY <1>5, <1>9, <3>1, <3>2, <4>1
    <3>3. CASE j = i
      <4>1. "begin" \in ops[i].arrived
        BY <1>2, <1>6, <1>10, <2>1, <3>3
      <4> QED BY <1>4, <3>1, <3>3, <4>1 DEF FreedInv
    <3> QED BY <3>2, <3>3
  <2>2. \A j \in DOMAIN evs' : "begin" \in ops'[j].arrived
    <3>1. \A j \in Ids : ops[j].arrived \subseteq ops'[j].arrived
      BY <1>3 DEF Keeps
    <3>2. \A j \in DOMAIN evs : "begin" \in ops'[j].arrived
      BY <1>4, <3>1 DEF FreedInv
    <3> QED BY <1>2, <1>6, <3>2
  <2>3. \A s \in DOMAIN evs' : evs'[s].freed # {} => ~ops'[s].recv
    BY <1>2, <1>4, <1>8 DEF FreedInv
  <2>4. \A s \in DOMAIN evs' : \A f \in evs'[s].freed :
          f \in Ids' /\ ~ops'[f].recv /\ ops'[f].key = ops'[s].key /\ ops'[f].released # "no"
    <3> SUFFICES ASSUME NEW s \in DOMAIN evs', NEW f \in evs'[s].freed
                 PROVE  f \in Ids' /\ ~ops'[f].recv /\ ops'[f].key = ops'[s].key /\ ops'[f].released # "no"
      OBVIOUS
    <3>1. s \in Ids /\ s \in DOMAIN evs /\ f \in evs[s].freed
      BY <1>8
    <3>2. f \in Ids /\ ~ops[f].recv /\ ops[f].key = ops[s].key /\ ops[f].released # "no"
      BY <1>4, <3>1 DEF FreedInv
    <3> QED BY <1>2, <3>1, <3>2
  <2> QED BY <2>1, <2>2, <2>3, <2>4 DEF FreedInv
<1>12. \A s, j \in Ids : Receives(j, s)' <=> Receives(j, s)
  BY <1>2, <1>3, ReceivesStays
<1>13. \A s \in Ids : OfMessage(s)' = OfMessage(s)
  BY <1>2, <1>12 DEF OfMessage
<1>14. ASSUME NEW s \in DOMAIN evs', ~ops'[s].recv, ops'[s].released = "arrived", OfMessage(s)' = {s}
       PROVE  s \notin open' /\ (s \in evs'[s].freed \/ evs'[s].mig)
  <2>1. s \in Ids /\ ~ops[s].recv /\ ops[s].released = "arrived" /\ OfMessage(s) = {s}
    BY <1>2, <1>8, <1>13, <1>14
  <2>2. s # i
    <3>1. SUFFICES ASSUME s = i PROVE FALSE
      OBVIOUS
    <3>2. PICK s0 \in Ids : s0 <= i /\ ops[s0].key = ops[i].key /\ ~ops[s0].recv /\ ops[s0].released = "no"
      BY <1>2, <1>4 DEF AddressInv
    <3>3. s0 = i
      <4>1. ~(s0 < i)
        BY <1>2, <1>4, <2>1, <3>1, <3>2 DEF AddressInv
      <4>2. s0 \in Nat /\ i \in Nat
        BY <1>2, <1>4
      <4> QED BY <3>2, <4>1, <4>2
    <3> QED BY <2>1, <3>1, <3>2, <3>3
  <2>3. s \in DOMAIN evs
    BY <1>6, <2>2
  <2>4. s \notin open /\ (s \in evs[s].freed \/ evs[s].mig)
    BY <1>4, <2>1, <2>3 DEF MarksInv
  <2>5. evs'[s] = evs[s] /\ s \notin open'
    BY <1>6, <2>2, <2>3, <2>4
  <2> QED BY <2>4, <2>5
<1>15. ASSUME NEW s \in DOMAIN evs', ~ops'[s].recv, NEW f \in evs'[s].freed, NEW j \in Ids',
              j > s, ops'[j].key = ops'[s].key, j < f \/ j \in OfMessage(f)'
       PROVE  ~({"begin", "end"} \subseteq ops'[j].arrived)
  <2>1. s \in Ids /\ s \in DOMAIN evs /\ f \in evs[s].freed /\ j \in Ids
    BY <1>2, <1>8
  <2>2. f \in Ids /\ ~ops[f].recv /\ ops[f].key = ops[s].key /\ ops[f].released # "no" /\ ~ops[s].recv
    BY <1>4, <2>1 DEF FreedInv
  <2>3. j < f \/ j \in OfMessage(f)
    BY <1>13, <1>15, <2>2
  <2>4. ops[j].key = ops[s].key
    BY <1>2, <1>15, <2>1
  <2>5. CASE j # i
    <3>1. ~({"begin", "end"} \subseteq ops[j].arrived)
      BY <1>4, <1>15, <2>1, <2>2, <2>3, <2>4 DEF MarksInv
    <3> QED BY <1>9, <2>1, <2>5, <3>1
  <2>6. CASE j = i
    <3>1. f < i /\ i \notin OfMessage(f)
      BY <1>2, <1>4, <2>2, <2>4, <2>6, ReleaseOrder
    <3>2. f \in Nat /\ i \in Nat
      BY <1>2, <1>4, <2>2
    <3> QED BY <2>3, <2>6, <3>1, <3>2
  <2> QED BY <2>5, <2>6
<1>16. MarksInv'
  BY <1>2, <1>14, <1>15 DEF MarksInv
<1>17. MigInv'
  <2> SUFFICES ASSUME NEW e \in DOMAIN evs'
               PROVE  /\ ~ops'[e].header.mig \/ ToldOfNoPort(e)' => ~evs'[e].mig
                      /\ ops'[e].header.mig /\ ~ops'[e].recv /\ ~evs'[e].mig => \E j \in Ids' : MayTell(j, e)'
                      /\ evs'[e].freed # {} => ~evs'[e].mig
    BY DEF MigInv
  <2>1. e \in Ids /\ ops'[e].header = ops[e].header /\ ops'[e].recv = ops[e].recv
    BY <1>2, <1>8
  <2>2. CASE e \notin DOMAIN evs
    <3>1. /\ e = i /\ evs'[e].freed = {} /\ evs'[e].args = {<<i, "begin">>}
          /\ evs'[e].mig <=> ops[i].header.mig /\ ~ops[i].recv
      BY <1>6, <2>2
    <3>2. ~ToldOfNoPort(e)'
      <4>1. \A j : <<j, "info">> # <<i, "begin">>
        OBVIOUS
      <4> QED BY <3>1, <4>1 DEF ToldOfNoPort
    <3> QED BY <2>1, <3>1, <3>2
  <2>3. CASE e \in DOMAIN evs
    <3>1. /\ ~ops[e].header.mig \/ ToldOfNoPort(e) => ~evs[e].mig
          /\ ops[e].header.mig /\ ~ops[e].recv /\ ~evs[e].mig => \E j \in Ids : MayTell(j, e)
          /\ evs[e].freed # {} => ~evs[e].mig
      BY <1>4, <2>3 DEF MigInv
    <3>2. \A j \in Ids : MayTell(j, e) => MayTell(j, e)'
      <4>1. \A j \in Ids : ops[j].arrived \subseteq ops'[j].arrived
        BY <1>3 DEF Keeps
      <4> QED BY <1>2, <2>1, <4>1 DEF MayTell
    <3>3. evs'[e].freed = evs[e].freed
      BY <1>6, <2>3
    <3>4. CASE evs'[e].args = evs[e].args /\ evs'[e].mig = evs[e].mig
      <4>1. ToldOfNoPort(e)' => ToldOfNoPort(e)
        BY <1>2, <3>4 DEF ToldOfNoPort
      <4> QED BY <1>2, <2>1, <3>1, <3>2, <3>3, <3>4, <4>1
    <3>5. CASE /\ r = "info" /\ "info" \in a /\ SameThread(i, e) /\ evs'[e].args = {<<e, "begin">>, <<i, r>>}
               /\ evs'[e].mig <=> evs[e].mig /\ ops[i].header.local
      <4>1. ToldOfNoPort(e)' => ~ops[i].header.local
        <5>1. ASSUME NEW j \in Ids', <<j, "info">> \in evs'[e].args PROVE j = i
          <6>1. <<j, "info">> # <<e, "begin">>
            OBVIOUS
          <6> QED BY <3>5, <5>1, <6>1
        <5> QED BY <1>2, <5>1 DEF ToldOfNoPort
      <4>2. ASSUME ~ops[i].header.local PROVE MayTell(i, e)'
        <5>1. i >= e \/ i \in ops[e].inside
          <6>1. i \in Nat /\ e \in Nat
            BY <1>2, <1>4, <2>1
          <6>2. CASE i < e
            BY <1>2, <1>4, <2>1, <3>5, <6>2 DEF KernelInv, Nested
          <6> QED BY <6>1, <6>2
        <5>2. ops'[i].tid = ops'[e].tid
          BY <1>2, <2>1, <3>5 DEF SameThread
        <5> QED BY <1>2, <2>1, <3>5, <4>2, <5>1, <5>2 DEF MayTell
      <4> QED BY <1>2, <2>1, <3>1, <3>2, <3>3, <3>5, <4>1, <4>2
    <3> QED BY <1>6, <2>3, <3>4, <3>5
  <2> QED BY <2>2, <2>3
<1> QED BY <1>7, <1>11, <1>16, <1>17 DEF MessageInv

LEMMA FreeMessage ==
  ASSUME KernelInv, EventsInv, MessageInv, NEW k, NEW z, Releases(z, k),
         \/ ops'[z].released = "arrived" /\ FreeRecord(k, z)
         \/ ops'[z].released = "lost" /\ Dropped
  PROVE  MessageInv'
<1>1. /\ z \in Ids /\ ops[z].key = k /\ ~ops[z].recv /\ ops[z].released = "no"
      /\ Ids' = Ids /\ family' = family /\ family.kind = "message"
      /\ \A i \in Ids : /\ ops'[i].key = ops[i].key /\ ops'[i].recv = ops[i].recv
                        /\ ops'[i].tid = ops[i].tid /\ ops'[i].inside = ops[i].inside
                        /\ ops'[i].header = ops[i].header /\ ops'[i].arrived = ops[i].arrived
                        /\ i # z => ops'[i].released = ops[i].released
                        /\ ops'[i].state = IF ops[i].key = k /\ IsOpen(i) THEN "died" ELSE ops[i].state
  BY DEF Releases
<1>2. Keeps
  BY ReleaseKeeps
<1>3. /\ AddressInv /\ FreedInv /\ MigInv /\ MarksInv /\ DOMAIN evs \subseteq Ids /\ Ids \subseteq Nat
      /\ open \subseteq DOMAIN evs /\ \A d \in open : "end" \notin ops[d].arrived
      /\ evs \in [DOMAIN evs -> Event]
  BY <1>1 DEF MessageInv, EventsInv, Ids
<1>4. \A i \in Ids : IsOpen(i)' => IsOpen(i) /\ ops[i].key # k
  BY <1>1 DEF IsOpen
<1>5. ops'[z].released # "no"
  OBVIOUS
<1>60. open' \subseteq open
  BY DEF FreeRecord, Dropped
\* The latest event with the address is deleted, or marked; or there is none.
<1>6. PICK e : /\ e # 0 => e \in DOMAIN evs /\ ops[e].key = k /\ \A d \in DOMAIN evs : ops[d].key = k => d <= e
               /\ e = 0 => \A d \in DOMAIN evs : ops[d].key # k
               /\ FreeRecord(k, z) =>
                    IF e = 0 THEN evs' = evs
                    ELSE IF e \in open THEN evs' = [j \in DOMAIN evs \ {e} |-> evs[j]]
                    ELSE evs' = IF ops[e].recv \/ evs[e].mig THEN evs ELSE [evs EXCEPT ![e].freed = @ \cup {z}]
  <2> DEFINE S == {j \in DOMAIN evs : ops[j].key = k}
  <2>1. PICK e : e = LastOf(S)
    OBVIOUS
  <2>2. Len(ops) \in Nat /\ S \in SUBSET (1 .. Len(ops))
    BY <1>3 DEF KernelInv, Ids
  <2>3. FreeRecord(k, z) =>
          IF e = 0 THEN evs' = evs
          ELSE IF e \in open THEN evs' = [j \in DOMAIN evs \ {e} |-> evs[j]]
          ELSE evs' = IF ops[e].recv \/ evs[e].mig THEN evs ELSE [evs EXCEPT ![e].freed = @ \cup {z}]
    BY <2>1 DEF FreeRecord, Dropped
  <2>4. /\ e # 0 => e \in S /\ \A d \in S : d <= e
        /\ e = 0 => S = {}
    <3> HIDE DEF S
    <3>1. /\ S = {} => LastOf(S) = 0
          /\ S # {} => LastOf(S) \in S /\ \A j \in S : j <= LastOf(S)
      BY <2>2, LastOfIs
    <3> QED BY <2>1, <2>2, <3>1
  <2> QED BY <2>3, <2>4
<1>7. /\ DOMAIN evs' \subseteq DOMAIN evs /\ open' \subseteq open
      /\ \A d \in DOMAIN evs : d \notin DOMAIN evs' => d = e /\ e \in open /\ ops[e].key = k /\ FreeRecord(k, z)
      /\ \A d \in DOMAIN evs' : evs'[d].args = evs[d].args /\ evs'[d].mig = evs[d].mig
      /\ \A d \in DOMAIN evs' : d # e => evs'[d].freed = evs[d].freed
      /\ e \in DOMAIN evs' => \/ evs'[e].freed = evs[e].freed
                              \/ evs'[e].freed = evs[e].freed \cup {z} /\ ~ops[e].recv /\ ~evs[e].mig /\ e # 0
      /\ FreeRecord(k, z) /\ e \in DOMAIN evs' /\ e # 0 =>
           e \notin open /\ (ops[e].recv \/ evs[e].mig \/ z \in evs'[e].freed)
  <2>1. CASE evs' = evs
    <3>1. CASE FreeRecord(k, z) /\ e # 0 /\ e \in DOMAIN evs'
      <4>1. e \notin open
        BY <1>6, <2>1, <3>1
      <4>2. CASE ~ops[e].recv /\ ~evs[e].mig
        <5>1. evs' = [evs EXCEPT ![e].freed = @ \cup {z}] /\ e \in DOMAIN evs
          BY <1>6, <3>1, <4>1, <4>2
        <5>2. evs[e] \in Event
          BY <1>3, <5>1
        <5>3. evs'[e].freed = evs[e].freed \cup {z}
          BY <1>3, <5>1, <5>2 DEF Event
        <5> QED BY <1>60, <2>1, <3>1, <4>1, <5>3
      <4> QED BY <1>60, <2>1, <3>1, <4>1, <4>2
    <3> QED BY <1>60, <2>1, <3>1
  <2>2. CASE FreeRecord(k, z) /\ e # 0 /\ e \in open /\ evs' = [j \in DOMAIN evs \ {e} |-> evs[j]]
    BY <1>6, <1>60, <2>2
  <2>3. CASE /\ FreeRecord(k, z) /\ e # 0 /\ e \notin open /\ ~ops[e].recv /\ ~evs[e].mig
             /\ evs' = [evs EXCEPT ![e].freed = @ \cup {z}]
    <3>1. e \in DOMAIN evs /\ evs[e] \in Event
      BY <1>3, <1>6, <2>3
    <3>2. PICK v : v = [evs[e] EXCEPT !.freed = evs[e].freed \cup {z}]
      OBVIOUS
    <3>3. v.freed = evs[e].freed \cup {z} /\ v.args = evs[e].args /\ v.mig = evs[e].mig
      BY <3>1, <3>2 DEF Event
    <3>4. DOMAIN evs' = DOMAIN evs /\ evs'[e] = v
          /\ \A d \in DOMAIN evs : d # e => evs'[d] = evs[d]
      BY <1>3, <2>3, <3>1, <3>2
    <3> QED BY <1>60, <2>3, <3>3, <3>4
  <2> QED BY <1>6, <1>60, <2>1, <2>2, <2>3 DEF Dropped
<1>8. AddressInv'
  <2>1. \A s, i \in Ids : s < i /\ ops'[i].key = ops'[s].key /\ ~ops'[s].recv /\ ops'[s].released = "no" => ops'[i].recv
    BY <1>1, <1>3, <1>5 DEF AddressInv
  <2>2. ASSUME NEW i \in Ids, IsOpen(i)'
        PROVE  \E s \in Ids : s <= i /\ ops'[s].key = ops'[i].key /\ ~ops'[s].recv /\ ops'[s].released = "no"
    <3>1. IsOpen(i) /\ ops[i].key # k
      BY <1>4, <2>2
    <3>2. PICK s \in Ids : s <= i /\ ops[s].key = ops[i].key /\ ~ops[s].recv /\ ops[s].released = "no"
      BY <1>3, <3>1 DEF AddressInv
    <3>3. s # z
      BY <1>1, <3>1, <3>2
    <3> QED BY <1>1, <3>2, <3>3
  <2> QED BY <1>1, <2>1, <2>2 DEF AddressInv
<1>9. FreedInv'
  <2>1. ASSUME NEW j \in Ids', "begin" \in ops'[j].arrived, j \notin DOMAIN evs'
        PROVE  ~IsOpen(j)' /\ "end" \notin ops'[j].arrived
    <3>1. j \in Ids /\ "begin" \in ops[j].arrived /\ ops'[j].arrived = ops[j].arrived
      BY <1>1, <2>1
    <3>2. CASE j \notin DOMAIN evs
      <4>1. ~IsOpen(j) /\ "end" \notin ops[j].arrived
        BY <1>3, <3>1, <3>2 DEF FreedInv
      <4> QED BY <1>4, <3>1, <4>1
    <3>3. CASE j \in DOMAIN evs
      <4>1. j \in open /\ ops[j].key = k
        BY <1>7, <2>1, <3>3
      <4> QED BY <1>3, <1>4, <3>1, <4>1
    <3> QED BY <3>2, <3>3
  <2>2. \A j \in DOMAIN evs' : "begin" \in ops'[j].arrived
    BY <1>1, <1>3, <1>7 DEF FreedInv
  <2>3. \A s \in DOMAIN evs' : evs'[s].freed # {} => ~ops'[s].recv
    BY <1>1, <1>3, <1>7 DEF FreedInv
  <2>4. \A s \in DOMAIN evs' : \A f \in evs'[s].freed :
          f \in Ids' /\ ~ops'[f].recv /\ ops'[f].key = ops'[s].key /\ ops'[f].released # "no"
    <3> SUFFICES ASSUME NEW s \in DOMAIN evs', NEW f \in evs'[s].freed
                 PROVE  f \in Ids' /\ ~ops'[f].recv /\ ops'[f].key = ops'[s].key /\ ops'[f].released # "no"
      OBVIOUS
    <3>1. s \in DOMAIN evs /\ s \in Ids
      BY <1>3, <1>7
    <3>2. CASE f \in evs[s].freed
      <4>1. f \in Ids /\ ~ops[f].recv /\ ops[f].key = ops[s].key /\ ops[f].released # "no"
        BY <1>3, <3>1, <3>2 DEF FreedInv
      <4> QED BY <1>1, <1>5, <3>1, <4>1
    <3>3. CASE f \notin evs[s].freed
      <4>1. s = e /\ f = z /\ e # 0
        BY <1>7, <3>3
      <4> QED BY <1>1, <1>5, <1>6, <3>1, <4>1
    <3> QED BY <3>2, <3>3
  <2> QED BY <2>1, <2>2, <2>3, <2>4 DEF FreedInv
<1>10. \A s, j \in Ids : Receives(j, s)' <=> Receives(j, s)
  BY <1>1, <1>2, ReceivesStays
<1>11. \A s \in Ids : OfMessage(s)' = OfMessage(s)
  BY <1>1, <1>10 DEF OfMessage
<1>12. ASSUME NEW s \in DOMAIN evs', ~ops'[s].recv, ops'[s].released = "arrived", OfMessage(s)' = {s}
       PROVE  s \notin open' /\ (s \in evs'[s].freed \/ evs'[s].mig)
  <2>1. s \in DOMAIN evs /\ s \in Ids /\ ~ops[s].recv /\ OfMessage(s) = {s}
    BY <1>1, <1>3, <1>7, <1>11, <1>12
  <2>2. CASE s # z
    <3>1. ops[s].released = "arrived"
      BY <1>1, <1>12, <2>1, <2>2
    <3>2. s \notin open /\ (s \in evs[s].freed \/ evs[s].mig)
      BY <1>1, <1>3, <2>1, <3>1 DEF MarksInv
    <3> QED BY <1>7, <1>12, <3>2
  <2>3. CASE s = z
    <3>1. FreeRecord(k, z)
      BY <1>12, <2>3
    <3>2. e # 0 /\ e \in DOMAIN evs /\ e \in Ids /\ s <= e /\ ops[e].key = k
      BY <1>1, <1>3, <1>6, <2>1, <2>3
    <3>3. e = s
      <4>1. CASE s < e
        <5>1. \A j \in s + 1 .. e : j \in Ids /\ s < j
          BY <1>3, <2>1, <3>2 DEF Ids, KernelInv
        <5>2. \A j \in s + 1 .. e : ops[j].key = ops[s].key => ops[j].recv
          BY <1>1, <1>3, <2>1, <2>3, <5>1 DEF AddressInv
        <5>3. Receives(e, s)
          BY <1>1, <2>3, <3>2, <4>1, <5>2 DEF Receives
        <5>4. e \in OfMessage(s)
          BY <3>2, <5>3 DEF OfMessage
        <5> QED BY <2>1, <5>4
      <4>2. s \in Nat /\ e \in Nat
        BY <1>3, <2>1, <3>2
      <4> QED BY <3>2, <4>1, <4>2
    <3> QED BY <1>7, <1>12, <2>1, <2>3, <3>1, <3>2, <3>3
  <2> QED BY <2>2, <2>3
<1>13. ASSUME NEW s \in DOMAIN evs', ~ops'[s].recv, NEW f \in evs'[s].freed, NEW j \in Ids',
              j > s, ops'[j].key = ops'[s].key, j < f \/ j \in OfMessage(f)'
       PROVE  ~({"begin", "end"} \subseteq ops'[j].arrived)
  <2>1. s \in Ids /\ s \in DOMAIN evs /\ j \in Ids /\ ~ops[s].recv /\ ops[j].key = ops[s].key
    BY <1>1, <1>3, <1>7, <1>13
  <2>2. CASE f \in evs[s].freed
    <3>1. f \in Ids
      BY <1>3, <2>1, <2>2 DEF FreedInv
    <3>2. j < f \/ j \in OfMessage(f)
      BY <1>11, <1>13, <3>1
    <3>3. ~({"begin", "end"} \subseteq ops[j].arrived)
      BY <1>1, <1>3, <1>13, <2>1, <2>2, <3>2 DEF MarksInv
    <3> QED BY <1>1, <2>1, <3>3
  <2>3. CASE f \notin evs[s].freed
    <3>1. s = e /\ e # 0
      BY <1>7, <2>3
    <3>2. ops[j].key = k /\ \A d \in DOMAIN evs : ops[d].key = k => d <= e
      BY <1>6, <2>1, <3>1
    <3>3. j \notin DOMAIN evs
      <4>1. j \in Nat /\ e \in Nat /\ ~(j <= e)
        BY <1>3, <1>13, <2>1, <3>1
      <4> QED BY <3>2, <4>1
    <3>4. "begin" \in ops[j].arrived => "end" \notin ops[j].arrived
      BY <1>3, <2>1, <3>3 DEF FreedInv
    <3> QED BY <1>1, <2>1, <3>4
  <2> QED BY <2>2, <2>3
<1>14. MarksInv'
  BY <1>1, <1>12, <1>13 DEF MarksInv
<1>15. MigInv'
  <2> SUFFICES ASSUME NEW d \in DOMAIN evs'
               PROVE  /\ ~ops'[d].header.mig \/ ToldOfNoPort(d)' => ~evs'[d].mig
                      /\ ops'[d].header.mig /\ ~ops'[d].recv /\ ~evs'[d].mig => \E i \in Ids' : MayTell(i, d)'
                      /\ evs'[d].freed # {} => ~evs'[d].mig
    BY DEF MigInv
  <2>1. d \in DOMAIN evs /\ d \in Ids /\ evs'[d].args = evs[d].args /\ evs'[d].mig = evs[d].mig
    BY <1>3, <1>7
  <2>2. ToldOfNoPort(d)' => ToldOfNoPort(d)
    BY <1>1, <2>1 DEF ToldOfNoPort
  <2>3. \A i \in Ids : MayTell(i, d) => MayTell(i, d)'
    BY <1>1, <2>1 DEF MayTell
  <2>4. evs'[d].freed # {} => evs[d].freed # {} \/ ~evs[d].mig
    BY <1>7
  <2> QED BY <1>1, <1>3, <2>1, <2>2, <2>3, <2>4 DEF MigInv
<1> QED BY <1>8, <1>9, <1>14, <1>15 DEF MessageInv

-----------------------------------------------------------------------------
(* The theorems. *)

Inv == KernelInv /\ EventsInv /\ WholeInv /\ SinceInv /\ MessageInv

LEMMA InitInv == Init => Inv
<1> SUFFICES ASSUME Init PROVE Inv
  OBVIOUS
<1>1. Ids = {} /\ DOMAIN evs = {} /\ open = {} /\ Len(ops) = 0 /\ ops = << >> /\ family \in Families
  BY DEF Init, Ids
<1>2. KernelInv
  BY <1>1 DEF KernelInv, Nested
<1>3. EventsInv
  <2>1. evs \in [{} -> Event]
    BY <1>1 DEF Init
  <2> QED BY <1>1, <2>1 DEF EventsInv
<1>4. WholeInv
  BY <1>1 DEF WholeInv
<1>5. SinceInv
  <2>1. \A t : OpenOf(t) = 0
    BY <1>1 DEF OpenOf, LastOf
  <2>2. ASSUME NEW t PROVE Cardinality(Missing(t, Len(ops))) = 0
    <3>1. Missing(t, Len(ops)) = {}
      BY <1>1 DEF Missing
    <3> QED BY <3>1, FS_EmptySet
  <2>3. 0 % 2 # 1
    OBVIOUS
  <2> QED BY <1>1, <2>1, <2>2, <2>3 DEF SinceInv
<1>6. MessageInv
  BY <1>1 DEF MessageInv, AddressInv, FreedInv, MigInv, MarksInv
<1> QED BY <1>2, <1>3, <1>4, <1>5, <1>6 DEF Inv

LEMMA ArrivalInv ==
  ASSUME Inv, NEW i, NEW r, Arrives(i, r)
  PROVE  Inv'
<1>1. KernelInv /\ EventsInv /\ WholeInv /\ SinceInv /\ MessageInv
      /\ Sends(i, r) /\ Written(i, r, ops[i].arrived \cup {r}) /\ family' = family
  BY DEF Inv, Arrives, Sends
<1>2. KernelInv'
  BY <1>1, WrittenKernel
<1>3. family.kind \in {"message", "wakeup", "interrupt", "block", "call", "frames", "nsapp", "trap"}
  BY <1>1, FamiliesOK DEF KernelInv
<1>4. CASE family.kind \in {"message", "wakeup"}
  <2>1. EventsInv' /\ WholeInv'
    BY <1>1, <1>4, MessageArrives
  <2>2. SinceInv'
    BY <1>1, <1>4 DEF SinceInv
  <2>3. MessageInv'
    <3>1. CASE family.kind = "message"
      BY <1>1, <3>1, RecordMessage
    <3>2. CASE family.kind # "message"
      BY <1>1, <3>2 DEF MessageInv
    <3> QED BY <3>1, <3>2
  <2> QED BY <1>2, <2>1, <2>2, <2>3 DEF Inv
<1>5. CASE family.kind \notin {"message", "wakeup"}
  <2>1. EventsInv' /\ WholeInv' /\ SinceInv'
    BY <1>1, <1>3, <1>5, InterruptArrives, BlockArrives, CallArrives, FramesArrives, NSAppArrives, TrapArrives
  <2>2. MessageInv'
    BY <1>1, <1>5 DEF MessageInv
  <2> QED BY <1>2, <2>1, <2>2 DEF Inv
<1> QED BY <1>4, <1>5

LEMMA LostInv ==
  ASSUME Inv, NEW i, NEW r, Lost(i, r)
  PROVE  Inv'
<1>1. KernelInv /\ EventsInv /\ WholeInv /\ SinceInv /\ MessageInv
      /\ Sends(i, r) /\ Written(i, r, ops[i].arrived) /\ family' = family
  BY DEF Inv, Lost, Sends
<1>2. KernelInv'
  BY <1>1, WrittenKernel
<1>3. Quiet /\ \A t : Missing(t, Len(ops))' = Missing(t, Len(ops))
  BY <1>1, LostQuiet
<1>4. EventsInv' /\ WholeInv' /\ SinceInv'
  BY <1>1, <1>3, QuietEvents, QuietWhole, QuietSince
<1>5. MessageInv'
  <2>1. CASE family.kind = "message"
    BY <1>1, <2>1, RecordMessage
  <2>2. CASE family.kind # "message"
    BY <1>1, <2>2 DEF MessageInv
  <2> QED BY <2>1, <2>2
<1> QED BY <1>2, <1>4, <1>5 DEF Inv

LEMMA StartInv ==
  ASSUME Inv, NEW t \in family.threads, NEW k \in family.keys, NEW recv \in BOOLEAN,
         NEW header \in family.headers, Start(t, k, recv, header)
  PROVE  Inv'
<1>1. KernelInv /\ EventsInv /\ WholeInv /\ SinceInv /\ MessageInv /\ family' = family
  BY DEF Inv, Start
<1>2. KernelInv'
  BY <1>1, StartKernel
<1>3. Quiet
  BY <1>1, StartQuiet
<1>4. \A u \in family.threads :
        (Cardinality(Missing(u, Len(ops))) % 2 = 1)' <=> Cardinality(Missing(u, Len(ops))) % 2 = 1
  BY <1>1, StartMissing
<1>5. EventsInv' /\ WholeInv' /\ SinceInv'
  BY <1>1, <1>3, <1>4, QuietEvents, QuietWhole, QuietSince
<1>6. MessageInv'
  <2>1. CASE family.kind = "message"
    BY <1>1, <2>1, StartMessage
  <2>2. CASE family.kind # "message"
    BY <1>1, <2>2 DEF MessageInv
  <2> QED BY <2>1, <2>2
<1> QED BY <1>2, <1>5, <1>6 DEF Inv

LEMMA FreeInv ==
  ASSUME Inv, NEW k, Free(k)
  PROVE  Inv'
<1>1. KernelInv /\ EventsInv /\ WholeInv /\ SinceInv /\ MessageInv
  BY DEF Inv
<1>2. PICK s : /\ Releases(s, k)
               /\ \/ ops'[s].released = "arrived" /\ FreeRecord(k, s)
                  \/ ops'[s].released = "lost" /\ Dropped
  BY <1>1, FreeReleases
<1>3. KernelInv'
  BY <1>1, <1>2, ReleaseKernel
<1>4. Quiet
  BY <1>1, <1>2, FreeQuiet
<1>5. family.kind = "message" /\ family' = family
  BY <1>2 DEF Releases
<1>6. EventsInv' /\ WholeInv'
  BY <1>1, <1>4, QuietEvents, QuietWhole
<1>7. SinceInv'
  BY <1>5 DEF SinceInv
<1>8. MessageInv'
  BY <1>1, <1>2, FreeMessage
<1> QED BY <1>3, <1>6, <1>7, <1>8 DEF Inv

LEMMA StepInv == Inv /\ [Next]_vars => Inv'
<1> SUFFICES ASSUME Inv, [Next]_vars PROVE Inv'
  OBVIOUS
<1>1. ASSUME NEW t \in family.threads, NEW k \in family.keys, NEW recv \in BOOLEAN,
             NEW header \in family.headers, Start(t, k, recv, header)
      PROVE  Inv'
  BY <1>1, StartInv
<1>2. ASSUME NEW t \in family.threads, Record(t) PROVE Inv'
  <2>1. PICK i, r : Arrives(i, r) \/ Lost(i, r)
    BY <1>2, RecordSends DEF Inv
  <2> QED BY <2>1, ArrivalInv, LostInv
<1>3. ASSUME NEW k \in family.keys, Free(k) PROVE Inv'
  BY <1>3, FreeInv
<1>4. CASE UNCHANGED vars
  <2>1. UNCHANGED <<family, ops, lost, evs, open>>
    BY <1>4 DEF vars
  <2>2. KernelInv /\ EventsInv /\ WholeInv /\ SinceInv /\ MessageInv
    BY DEF Inv
  <2>3. KernelInv'
    BY <2>1, <2>2 DEF KernelInv, Nested, Progress, IsOpen, SameThread, Ids, Records, Op
  <2>4. Quiet
    <3>1. evs \in [DOMAIN evs -> Event] /\ open = open \cap DOMAIN evs /\ Ids' = Ids /\ Ids \subseteq Nat
      BY <2>1, <2>2 DEF EventsInv, Ids
    <3>2. Keeps
      BY <2>1, <3>1 DEF Keeps, IsOpen
    <3>3. \A j \in Ids : Records(j)' = Records(j)
      BY <2>1 DEF Records
    <3> QED BY <2>1, <3>1, <3>2, <3>3 DEF Quiet
  <2>5. \A t : Missing(t, Len(ops))' = Missing(t, Len(ops))
    BY <2>1 DEF Missing
  <2>6. EventsInv' /\ WholeInv' /\ SinceInv'
    BY <2>2, <2>4, <2>5, QuietEvents, QuietWhole, QuietSince
  <2>7. MessageInv'
    <3>1. AddressInv' <=> AddressInv
      BY <2>1 DEF AddressInv, IsOpen, Ids
    <3>2. FreedInv' <=> FreedInv
      BY <2>1 DEF FreedInv, IsOpen, Ids
    <3>3. MarksInv' <=> MarksInv
      BY <2>1 DEF MarksInv, OfMessage, Receives, Ids
    <3>4. MigInv' <=> MigInv
      BY <2>1 DEF MigInv, ToldOfNoPort, MayTell, Ids
    <3> QED BY <2>1, <2>2, <3>1, <3>2, <3>3, <3>4 DEF MessageInv
  <2> QED BY <2>3, <2>6, <2>7 DEF Inv
<1> QED BY <1>1, <1>2, <1>3, <1>4 DEF Next

\* The inductive invariant holds throughout: the open operations of a thread are nested, events
\* are of records that arrived, an undisturbed operation in progress waits in the parser with
\* what it has sent, an event that waits tells what its thread sent since, and an address has
\* one message at a time.
THEOREM InvHolds == Spec => []Inv
BY InitInv, StepInv, PTL DEF Spec

\* WholeOperations: however the operations of the threads interleave and whatever records the
\* trace lacks, an operation whose records are all there becomes one event, with its own data
\* and end, unless something disturbs it, as its kind allows. For every number of threads,
\* operations and lost records. About the parsers' tables of open events.
THEOREM WholeHolds == Spec => []WholeOperations
<1>1. Inv => WholeOperations
  <2> SUFFICES ASSUME Inv PROVE WholeOperations
    OBVIOUS
  <2>1. KernelInv /\ EventsInv /\ WholeInv
    BY DEF Inv
  <2>2. ASSUME NEW i \in Ids, ~Disturbed(i) PROVE Calm(i)
    BY <2>2 DEF Calm, Disturbed
  <2> QED BY <2>1, <2>2 DEF WholeOperations, WholeInv, Takes
<1> QED BY <1>1, InvHolds, PTL

\* FreedMeansUndelivered: a send is marked as freed before its delivery whenever its thread has
\* an event of it, the message was not received, the trace tells of its release and, if its number
\* is that of a MIG routine, the event was told that it has no local port; and only then, unless
\* the trace lacks the begin or the end of every operation at the address since, and one of MIG
\* only if an operation of the thread without a local port told an event so. For every number of
\* threads, addresses, messages and lost records. About MachmsgParser::process_kmsg_free.
THEOREM FreedHolds == Spec => []FreedMeansUndelivered
<1>1. Inv => FreedMeansUndelivered
  <2> SUFFICES ASSUME Inv, family.kind = "message", NEW s \in DOMAIN evs, ~ops[s].recv
               PROVE  /\ /\ ops[s].released = "arrived" /\ OfMessage(s) = {s}
                         /\ ops[s].header.mig => ToldOfNoPort(s)
                         => s \in evs[s].freed
                      /\ ops[s].header.mig /\ evs[s].freed # {} => \E i \in Ids : MayTell(i, s)
                      /\ \A f \in evs[s].freed, i \in Ids :
                           i > s /\ ops[i].key = ops[s].key /\ (i < f \/ i \in OfMessage(f))
                             => ~({"begin", "end"} \subseteq ops[i].arrived)
    BY DEF FreedMeansUndelivered, MayTell
  <2>1. MigInv /\ MarksInv
    BY DEF Inv, MessageInv
  <2>2. ops[s].header.mig /\ evs[s].freed # {} => \E i \in Ids : MayTell(i, s)
    BY <2>1 DEF MigInv
  <2>3. (ops[s].header.mig => ToldOfNoPort(s)) => ~evs[s].mig
    BY <2>1 DEF MigInv
  <2> QED BY <2>1, <2>2, <2>3 DEF MarksInv
<1> QED BY <1>1, InvHolds, PTL
===============================================================================
