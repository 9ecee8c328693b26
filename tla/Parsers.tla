------------------------------ MODULE Parsers -------------------------------
(* The parsers that put one event together from several records of the      *)
(* trace (src/src/Parser). The kernel writes a record when an operation     *)
(* begins, when more is known of it and when it ends, and the trace may     *)
(* lack any of them. Each kind of operation has its file and its parser;    *)
(* parsers share nothing, so a behaviour is about one kind: "message"       *)
(* (MachmsgParser), "wakeup" (MkrunParser), "interrupt" (IntrParser),       *)
(* "block" (the begin and the end of a dispatched block in DispatchParser), *)
(* "call" (SyscallParser), "frames" (a backtrace in BacktraceParser, part of  *)
(* the Apple build), "nsapp" (NSAppEventParser: an event got, then sent)    *)
(* and "trap" (BreakpointTrapParser, whose two records look the same). Of   *)
(* the MIG numbers only the flag of a send is kept that they set, and times *)
(* and the decoding of lines are left out. The operations of the kernel are *)
(* the environment: their order is what the parsers expect.                 *)
EXTENDS Naturals, Sequences, FiniteSets, FiniteSetsExt, SequencesExt, TLC

CONSTANT Families   \* of traces: [kind, threads, keys, long, headers, max, lost, depth]
  \* keys: addresses of messages, woken threads, contexts of blocks, calls
  \* (those in "long" have two records of arguments), tags of backtraces, or
  \* whether the event got is sent, too (1) or not (0); headers: whether a message
  \* has a MIG number of the dictionary, and whether a local port; max and lost
  \* bound the operations and the lost records, depth those open in a thread.

\* Of the last four kinds, a thread has one operation at a time. Only messages,
\* calls and backtraces have a record between their begin and their end.
ASSUME FamiliesOK ==
  \A f \in Families :
    /\ f.kind \in {"message", "wakeup", "interrupt", "block", "call", "frames", "nsapp", "trap"}
    /\ f.headers \subseteq [mig : BOOLEAN, local : BOOLEAN] /\ f.depth \in Nat
    /\ f.kind \in {"call", "frames", "nsapp", "trap"} => f.depth <= 1
    /\ f.kind \notin {"message", "call", "frames"} => f.long = {}

VARIABLES
  family,
  ops,        \* the operations of the kernel, in the order they begin
  lost,       \* records lost so far
  evs,        \* the events in local_event_list, by the operation whose record
              \*   made them: the operations whose records they took, by kind
  open        \* the events waiting for more (msg_events, syscall_events, ...,
              \*   dispatch_block_invoke_begin_list)

vars == <<family, ops, lost, evs, open>>

Ids == 1 .. Len(ops)
LastOf(S) == IF S = {} THEN 0 ELSE Max(S)

-----------------------------------------------------------------------------
(* The kernel: operations and their records. *)

\* sent: records written; arrived: those of them the trace has; state: "open",
\* "done" or "died", of a message cut short by its release; inside: the
\* operations of the thread it interrupts; released: of a send, "arrived" or
\* "lost" once the message is freed, as the record of that is.
NewOp(t, key, recv, header, inside) ==
  [tid |-> t, key |-> key, recv |-> recv, header |-> header, inside |-> inside,
   sent |-> 0, arrived |-> {}, state |-> "open", released |-> "no"]

Records(i) ==
  CASE family.kind = "nsapp" /\ ops[i].key = 0 -> <<"begin">>
    [] family.kind = "message" \/ ops[i].key \in family.long -> <<"begin", "info", "end">>
    [] OTHER -> <<"begin", "end">>

Around(t) == {i \in Ids : ops[i].tid = t /\ ops[i].state = "open"}
Running(t) == LastOf(Around(t))

\* The send that the message at an address is from, and its receipt.
SendAt(k) == LastOf({i \in Ids : ops[i].key = k /\ ~ops[i].recv /\ ops[i].released = "no"})
Receives(i, s) == /\ i > s /\ ops[i].key = ops[s].key
                  /\ \A j \in s + 1 .. i : ops[j].key = ops[s].key => ops[j].recv
Received(s) == \E i \in Ids : Receives(i, s)

MayStart(k, recv) ==
  IF family.kind # "message" THEN ~recv
  ELSE IF recv THEN SendAt(k) # 0 /\ ops[SendAt(k)].state = "done" /\ ~Received(SendAt(k))
  ELSE SendAt(k) = 0

Start(t, k, recv, header) ==
  /\ Len(ops) < family.max /\ Cardinality(Around(t)) < family.depth
  /\ MayStart(k, recv)
  /\ \A i \in Ids : ops[i].state = "open" /\ ops[i].tid = t => ops[i].sent > 0
  /\ ops' = Append(ops, NewOp(t, k, recv, header, Around(t)))
  /\ UNCHANGED <<family, lost, evs, open>>

-----------------------------------------------------------------------------
(* The parsers. A handler changes evs and open for a record of operation i. *)

\* args: the records whose data the event has; end: the operation whose last
\* record completed it; freed: the sends for whose release it is marked as freed;
\* mig: of a send, whether it is still taken for a call of a MIG routine.
Made(i, r) == [args |-> {<<i, r>>}, end |-> 0, freed |-> {},
               mig |-> ops[i].header.mig /\ ~ops[i].recv]
With(i, e) == [j \in DOMAIN evs \cup {i} |-> IF j = i THEN e ELSE evs[j]]

OpenOf(t) == LastOf({i \in open : ops[i].tid = t})
Opened(i) == (open \ {OpenOf(ops[i].tid)}) \cup {i}

\* Mutant: a thread with an open event keeps it.
NewEvent_KeepOpen(i, r) ==
  /\ evs' = With(i, Made(i, r))
  /\ open' = IF OpenOf(ops[i].tid) = 0 THEN Opened(i) ELSE open

\* process_kmsg_begin, process_new_wakeup: whatever the thread has open is
\* given up, incomplete.
NewEvent(i, r) == evs' = With(i, Made(i, r)) /\ open' = Opened(i)

Ended(e, i) == evs' = [evs EXCEPT ![e].end = i] /\ open' = open \ {e}
Dropped == UNCHANGED <<evs, open>>

\* set_remote_local_ports: a send without a local port is no call of MIG.
MessageRecord(i, r) ==
  LET e == OpenOf(ops[i].tid) IN
  CASE r = "begin" -> NewEvent(i, r)
    [] r = "info" -> IF e = 0 THEN Dropped
                     ELSE /\ evs' = [evs EXCEPT ![e].args = {<<e, "begin">>, <<i, r>>},
                                                ![e].mig = @ /\ ops[i].header.local]
                          /\ UNCHANGED open
    [] r = "end" -> IF e # 0 /\ ops[e].recv = ops[i].recv THEN Ended(e, i) ELSE Dropped

WakeupRecord(i, r) ==
  LET e == OpenOf(ops[i].tid) IN
  CASE r = "begin" -> NewEvent(i, r)
    [] r = "end" -> IF e # 0 /\ ops[e].key = ops[i].key THEN Ended(e, i) ELSE Dropped

\* create_intr_event refuses an interrupt while the thread has one open;
\* gather_intr_info completes the open one if it has the number.
InterruptRecord(i, r) ==
  LET e == OpenOf(ops[i].tid) IN
  CASE r = "begin" -> IF e = 0 THEN NewEvent(i, r) ELSE Dropped
    [] r = "end" -> IF e # 0 /\ ops[e].key = ops[i].key THEN Ended(e, i) ELSE Dropped

\* checking_block_invoke_pair: the latest begin of the thread and context. An
\* end without one is deleted.
BlockRecord(i, r) ==
  LET e == LastOf({j \in open : ops[j].tid = ops[i].tid /\ ops[j].key = ops[i].key}) IN
  CASE r = "begin" -> evs' = With(i, Made(i, r)) /\ open' = open \cup {i}
    [] r = "end" -> IF e # 0 THEN Ended(e, i) ELSE Dropped

\* process_msc and process_bsc. A record of arguments goes to the open call of
\* the same name unless that has all its arguments; any other record makes an
\* event of its own and gives the open one up.
CallRecord(i, r) ==
  LET e == OpenOf(ops[i].tid)
      same == e # 0 /\ ops[e].key = ops[i].key
      full == same /\ Cardinality(evs[e].args) >= Len(Records(e)) - 1
  IN CASE r = "end" /\ same -> Ended(e, i)
       [] r = "end" /\ ~same -> /\ evs' = With(i, [Made(i, r) EXCEPT !.end = i])
                                /\ open' = open \ {e}
       [] r # "end" /\ same /\ ~full ->
            /\ evs' = [evs EXCEPT ![e].args = @ \cup {<<i, r>>}]
            /\ UNCHANGED open
       [] r # "end" /\ (~same \/ full) -> NewEvent(i, r)

\* process_frame: the frames of a record go to the open backtrace of the same
\* tag; a record of another tag completes that one and makes an event of its own.
FramesRecord(i, r) ==
  LET e == OpenOf(ops[i].tid)
      same == e # 0 /\ ops[e].key = ops[i].key
  IN CASE r = "end" /\ same -> Ended(e, i)
       [] r = "end" /\ ~same -> /\ evs' = With(i, [Made(i, r) EXCEPT !.end = i])
                                /\ open' = open \ {e}
       [] r # "end" /\ same -> /\ evs' = [evs EXCEPT ![e].args = @ \cup {<<i, r>>}]
                               /\ UNCHANGED open
       [] r # "end" /\ ~same -> NewEvent(i, r)

\* NSAppEventParser::process: an event sent completes the last one got in the
\* thread, or makes an event of its own.
NSAppRecord(i, r) ==
  LET e == OpenOf(ops[i].tid) IN
  CASE r = "begin" -> NewEvent(i, r)
    [] r = "end" /\ e # 0 -> Ended(e, i)
    [] r = "end" /\ e = 0 -> /\ evs' = With(i, [Made(i, r) EXCEPT !.end = i])
                             /\ UNCHANGED open

\* BreakpointTrapParser::process: every other record of a thread begins an event.
TrapRecord(i, r) ==
  LET e == OpenOf(ops[i].tid) IN IF e = 0 THEN NewEvent(i, r) ELSE Ended(e, i)

Parsed(i, r) ==
  CASE family.kind = "message" -> MessageRecord(i, r)
    [] family.kind = "wakeup" -> WakeupRecord(i, r)
    [] family.kind = "interrupt" -> InterruptRecord(i, r)
    [] family.kind = "block" -> BlockRecord(i, r)
    [] family.kind = "call" -> CallRecord(i, r)
    [] family.kind = "frames" -> FramesRecord(i, r)
    [] family.kind = "nsapp" -> NSAppRecord(i, r)
    [] family.kind = "trap" -> TrapRecord(i, r)

\* The next record of the operation a thread is in; the trace has it or not.
Record(t) ==
  LET i == Running(t)
      n == ops[i].sent + 1
      r == Records(i)[n]
      written == [ops[i] EXCEPT !.sent = n, !.state = IF n = Len(Records(i)) THEN "done" ELSE "open"]
  IN /\ i # 0
     /\ \/ /\ ops' = [ops EXCEPT ![i] = [written EXCEPT !.arrived = @ \cup {r}]]
           /\ Parsed(i, r)
           /\ UNCHANGED lost
        \/ /\ lost < family.lost /\ lost' = lost + 1
           /\ ops' = [ops EXCEPT ![i] = written]
           /\ Dropped
     /\ UNCHANGED family

\* Mutant: the latest send with the address is looked for.
FreeRecord_Send(k, s) ==
  LET e == LastOf({j \in DOMAIN evs : ops[j].key = k /\ ~ops[j].recv}) IN
  IF e = 0 THEN Dropped
  ELSE IF e \in open
       THEN evs' = [j \in DOMAIN evs \ {e} |-> evs[j]] /\ open' = open \ {e}
       ELSE /\ evs' = IF evs[e].mig THEN evs ELSE [evs EXCEPT ![e].freed = @ \cup {s}]
            /\ UNCHANGED open

\* process_kmsg_free: the latest event with the address. An open one is
\* deleted, a send that is not, nor a call of MIG, is taken for undelivered.
FreeRecord(k, s) ==
  LET e == LastOf({j \in DOMAIN evs : ops[j].key = k}) IN
  IF e = 0 THEN Dropped
  ELSE IF e \in open
       THEN evs' = [j \in DOMAIN evs \ {e} |-> evs[j]] /\ open' = open \ {e}
       ELSE /\ evs' = IF ops[e].recv \/ evs[e].mig THEN evs
                      ELSE [evs EXCEPT ![e].freed = @ \cup {s}]
            /\ UNCHANGED open

\* The kernel frees a message: delivered or not, or in the middle of its send
\* or receipt, which then has no further record.
Free(k) ==
  LET s == SendAt(k)
      cut == {i \in Ids : ops[i].key = k /\ ops[i].state = "open"}
      released(how) == [i \in Ids |-> IF i = s /\ s \in cut
                                      THEN [ops[i] EXCEPT !.released = how, !.state = "died"]
                                      ELSE IF i = s THEN [ops[i] EXCEPT !.released = how]
                                      ELSE IF i \in cut THEN [ops[i] EXCEPT !.state = "died"]
                                      ELSE ops[i]]
  IN /\ family.kind = "message" /\ s # 0
     /\ \A i \in cut : Running(ops[i].tid) = i
     /\ \/ ops' = released("arrived") /\ FreeRecord(k, s) /\ UNCHANGED lost
        \/ lost < family.lost /\ lost' = lost + 1 /\ ops' = released("lost") /\ Dropped
     /\ UNCHANGED family

Init ==
  /\ family \in Families
  /\ ops = << >> /\ lost = 0 /\ evs = << >> /\ open = {}

Next ==
  \/ \E t \in family.threads, k \in family.keys, recv \in BOOLEAN, header \in family.headers :
       Start(t, k, recv, header)
  \/ \E t \in family.threads : Record(t)
  \/ \E k \in family.keys : Free(k)

Spec == Init /\ [][Next]_vars

-----------------------------------------------------------------------------
(* Properties *)

Kept(i) == ops[i].arrived = Range(Records(i))
Whole(i) == /\ i \in DOMAIN evs
            /\ evs[i].args = {<<i, r>> : r \in Range(Records(i)) \ {"end"}}
            /\ evs[i].end = IF "end" \in Range(Records(i)) THEN i ELSE 0

Within(i) == {j \in Ids : i \in ops[j].inside}
LostBefore(i) ==
  LET mine == {j \in 1 .. i - 1 : ops[j].tid = ops[i].tid} IN
  Cardinality({x \in mine \X {"begin", "end"} : x[2] \notin ops[x[1]].arrived})

\* The thread has an interrupt open in the parser when this one begins.
Refused(i) ==
  \E j \in 1 .. i - 1 :
    /\ ops[j].tid = ops[i].tid /\ "begin" \in ops[j].arrived
    /\ "end" \notin ops[j].arrived \/ i \in Within(j)
    /\ ~\E k \in j + 1 .. i - 1 : /\ ops[k].tid = ops[i].tid /\ ops[k].key = ops[j].key
                                  /\ "end" \in ops[k].arrived /\ i \notin Within(k)

\* What may damage an operation whose own records are all there.
Disturbed(i) ==
  CASE family.kind \in {"message", "wakeup"} -> Within(i) # {}
    [] family.kind = "interrupt" ->
         \/ Refused(i)
         \/ \E j \in Within(i) : ops[j].key = ops[i].key /\ "end" \in ops[j].arrived
    [] family.kind = "block" ->
         \E j \in Within(i) : ops[j].key = ops[i].key /\ Cardinality(ops[j].arrived) = 1
    [] family.kind = "call" ->
         \E j \in 1 .. i - 1 : /\ ops[j].tid = ops[i].tid /\ ops[j].key = ops[i].key
                               /\ Cardinality(ops[j].arrived \cap {"begin", "info"}) = 1
                               /\ ops[j].key \in family.long /\ "end" \notin ops[j].arrived
    [] family.kind = "frames" ->
         \E j \in 1 .. i - 1 :
           /\ ops[j].tid = ops[i].tid /\ ops[j].key = ops[i].key
           /\ ops[j].arrived # {} /\ "end" \notin ops[j].arrived
           /\ \A k \in j + 1 .. i - 1 : ops[k].tid = ops[j].tid =>
                ops[k].arrived \subseteq (IF ops[k].key = ops[j].key THEN {"begin", "info"} ELSE {})
    [] family.kind = "nsapp" ->
         ops[i].key = 0 /\ \E j \in i + 1 .. Len(ops) :
           /\ ops[j].tid = ops[i].tid /\ ops[j].arrived = {"end"}
           /\ \A k \in i + 1 .. j - 1 : ops[k].tid = ops[i].tid => ops[k].arrived = {}
    [] family.kind = "trap" -> LostBefore(i) % 2 = 1

\* However the operations of the threads interleave and whatever records the
\* trace lacks, an operation whose records are all there becomes one event
\* with its own data and its own end, and no event takes a record of an
\* operation that has a begin of its own, unless: a message or wake-up is
\* interrupted by another of its thread; an interrupt begins inside another,
\* or after one that lost its end and before the next end of its number, or
\* holds one of its number; a block holds one of the same context, half of
\* which is lost; an earlier call of the same name lost its end and half of
\* its arguments; a backtrace of the same tag lost its end and nothing of
\* another came since; an event sent was not seen to be got, which is then
\* taken for the one that was got before; or a thread lost an odd number of
\* breakpoint records before. About the parsers' tables of open events.
WholeOperations ==
  /\ \A i \in Ids : Kept(i) /\ ~Disturbed(i) => Whole(i)
  /\ \A e \in DOMAIN evs, i \in Ids :
       /\ i # e
       /\ evs[e].end = i \/ \E r \in Range(Records(i)) : <<i, r>> \in evs[e].args
       => "begin" \notin ops[i].arrived \/ Disturbed(i)

\* The operations on the message of send s.
OfMessage(s) == {s} \cup {i \in Ids : Receives(i, s)}

\* A send is marked as freed before its delivery whenever its thread has
\* an event of it, the message was not received, the trace tells of its
\* release and, if its number is that of a MIG routine, its event was told
\* that it has no local port; and only then, unless of every operation at the
\* address since, up to that release, the trace lacks the begin or the end. So
\* an address that the kernel uses again marks no delivered send; and a call
\* of MIG whose receiver died is never marked, but after another operation of
\* its thread, later or around it, told the event of no port, since the begin
\* of the one or the end of the other is lost. About process_kmsg_free.
ToldOfNoPort(s) == \E i \in Ids : <<i, "info">> \in evs[s].args /\ ~ops[i].header.local

FreedMeansUndelivered ==
  family.kind = "message" =>
    \A s \in DOMAIN evs : ~ops[s].recv =>
      /\ /\ ops[s].released = "arrived" /\ OfMessage(s) = {s}
         /\ ops[s].header.mig => ToldOfNoPort(s)
         => s \in evs[s].freed
      /\ ops[s].header.mig /\ evs[s].freed # {} =>
           \E i \in Ids : /\ i >= s \/ i \in ops[s].inside
                          /\ ops[i].tid = ops[s].tid
                          /\ "info" \in ops[i].arrived /\ ~ops[i].header.local
      /\ \A f \in evs[s].freed, i \in Ids :
           i > s /\ ops[i].key = ops[s].key /\ (i < f \/ i \in OfMessage(f))
             => ~({"begin", "end"} \subseteq ops[i].arrived)
=============================================================================
