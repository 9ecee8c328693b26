---------------------------- MODULE ThreadDivider ----------------------------
(***************************************************************************)
(* The division of one thread's events into groups, the execution segments *)
(* that become the nodes of the event graph                                *)
(* (src/src/GraphsGenerator/Dividers).                                     *)
(*                                                                         *)
(* The dividers of different threads share nothing: each copies the list   *)
(* of its thread and stores its result under its own key.  One divider     *)
(* walks the list once; `div` is its object.  What it reads in the list is *)
(* what a thread can leave behind: calls nest, so a dispatched block, a    *)
(* run-loop item and a round of run-loop events end in the reverse order   *)
(* of their beginnings; `frames` are those still open.  A lossy trace may  *)
(* miss the end of some of them.                                           *)
(*                                                                         *)
(* Left out: which system call a wait or a wake-up belongs to, symbols,    *)
(* statistics; no group depends on them.                                   *)
(***************************************************************************)
EXTENDS Integers, Sequences, FiniteSets, SequencesExt

CONSTANTS Threads,    \* the kinds of threads and what their traces may hold, see below
          Peers,      \* the other processes
          NoPeer      \* an event without a peer in another process

(* runLoop: RunLoopThreadDivider rather than ThreadDivider; lossy: ends of *)
(* calls may be missing; inputs: the events, but block ends, that the      *)
(* thread may have; blockEnds: blocks end during the trace; max: bound on  *)
(* the length of the list.                                                 *)
ASSUME ThreadsAssumption ==
  /\ NoPeer \notin Peers
  /\ \A t \in Threads :
    /\ {t.runLoop, t.lossy, t.blockEnds} \subseteq BOOLEAN
    /\ t.max \in Nat
    /\ \A e \in t.inputs :
         /\ e.kind \in {"general", "cancel", "callout", "nsapp", "mig", "wait", "begin",
                        "msg", "voucher", "fake", "events_begin", "events_end",
                        "item_begin", "item_end"}
         /\ e.kind = "begin" => e.rooted \in BOOLEAN
         /\ "peer" \in DOMAIN e => e.peer \in Peers \cup {NoPeer}
         /\ e.kind = "voucher" => e.banks \subseteq Peers /\ "peer" \notin DOMAIN e
         /\ e.kind = "msg" => e.direct \in BOOLEAN /\ e.hook \in BOOLEAN

None == 0        \* nullptr: groups and events are positions
Garbage == -1    \* the pointer that DispatchQueueMIGServiceEvent leaves uninitialised

VARIABLES
  thread,   \* what kind of thread this is; never changes
  events,   \* the list of the thread
  pos,      \* the events already divided: 1 .. pos
  frames,   \* the calls open at the end of the list, innermost last
  div,      \* the divider object
  status    \* "dividing", "submitted" or "aborted" by an assertion

vars == <<thread, events, pos, frames, div, status>>

RunLoop == thread.runLoop

Kind(i)   == events[i].kind
PeerOf(i) == IF "peer" \in DOMAIN events[i] THEN events[i].peer ELSE NoPeer

-----------------------------------------------------------------------------
(* The divider object.  A group is its container (positions of events in   *)
(* the order they were added), the blockinvoke_level, the processes it is  *)
(* tied to and its division flags.                                         *)

EmptyGroup == [events |-> <<>>, level |-> 0, peers |-> {}, cut |-> {}]

NewDivider == [groups |-> <<>>, cur |-> None, voucher |-> None, fake |-> None,
               invokers |-> <<>>, migs |-> <<>>, rl |-> None]

CreateGroup(d) == [d EXCEPT !.groups = Append(@, EmptyGroup), !.cur = Len(d.groups) + 1]
Cut(d, why)    == IF d.cur = None THEN d ELSE [d EXCEPT !.groups[d.cur].cut = @ \cup {why}]
Close(d)       == [d EXCEPT !.cur = None]
CurGroup(d)    == d.groups[d.cur]
AddPeers(d, peers) == [d EXCEPT !.groups[d.cur].peers = @ \cup peers]

\* The group of event i, if i is in one: get_group_id and gid2group.
GroupOf(d, i) ==
  LET holds(g) == \E j \in DOMAIN d.groups[g].events : d.groups[g].events[j] = i
      gs == {g \in DOMAIN d.groups : holds(g)}
  IN  IF gs = {} THEN None ELSE CHOOSE g \in gs : \A h \in gs : h <= g

\* Mutant: the heuristic on peers is left out.
LeavesPeers_Never(d, i) == FALSE

\* The event comes from a process the current group has no tie with.
LeavesPeers(d, i) ==
  /\ d.cur # None
  /\ PeerOf(i) # NoPeer /\ Kind(i) \notin {"msg", "fake", "cancel"}
  /\ CurGroup(d).peers # {} /\ PeerOf(i) \notin CurGroup(d).peers

\* Mutant: the held wake-up is not released.
AddGeneral_KeepFake(d, i) ==
  LET o    == IF d.cur = None \/ LeavesPeers(d, i) THEN CreateGroup(d) ELSE d
      held == IF o.fake = None THEN <<>> ELSE <<o.fake>>
  IN  [AddPeers(o, {PeerOf(i)} \ {NoPeer}) EXCEPT !.groups[o.cur].events = @ \o held \o <<i>>]

(* add_general_event_to_group: the wake-up held back goes in first.        *)
AddGeneral(d, i) ==
  LET o    == IF d.cur = None \/ LeavesPeers(d, i) THEN CreateGroup(d) ELSE d
      held == IF o.fake = None THEN <<>> ELSE <<o.fake>>
  IN  [AddPeers(o, {PeerOf(i)} \ {NoPeer}) EXCEPT
         !.groups[o.cur].events = @ \o held \o <<i>>, !.fake = None]

StoreEvent(d, i) ==
  IF Kind(i) = "voucher" THEN [d EXCEPT !.voucher = i] ELSE [d EXCEPT !.fake = i]

(* add_disp_invoke_begin_event: a block taken from a queue starts a group. *)
BlockBegin(d, i) ==
  LET pushed == [d EXCEPT !.invokers = Append(@, i)]
      added  == AddGeneral(IF events[i].rooted THEN Close(Cut(pushed, "disp")) ELSE pushed, i)
  IN  [added EXCEPT !.groups[added.cur].level = @ + 1]

\* Mutants: the level falls in the wrong group, or not at all.
LevelDown_AnyGroup(d, b) ==
  IF d.cur # None THEN [d EXCEPT !.groups[d.cur].level = @ - 1] ELSE d
LevelDown_Never(d, b) == d

\* The level falls unless the block got broken.
LevelDown(d, b) ==
  IF d.cur # None /\ GroupOf(d, b) = d.cur THEN [d EXCEPT !.groups[d.cur].level = @ - 1]
  ELSE d

\* Mutant: a block that got broken stays on the stack.
BlockEnd_PopInGroup(d, i, lucky) ==
  LET b == events[i].root
      d2 == IF GroupOf(d, b) = d.cur THEN [d EXCEPT !.invokers = Front(@)] ELSE d
  IN  Close(AddGeneral(LevelDown(d2, b), i))

(* add_disp_invoke_end_event, once its assertion on the stack has passed;  *)
(* an uninitialised invoker is equal to the block only by luck.            *)
BlockEnd(d, i, lucky) ==
  LET b      == events[i].root
      isTop  == d.migs # <<>> /\ (Last(d.migs) = b \/ (Last(d.migs) = Garbage /\ lucky))
      popped == [d EXCEPT !.invokers = Front(@), !.migs = IF isTop THEN Front(@) ELSE @]
      added  == AddGeneral(LevelDown(popped, b), i)
  IN  IF events[b].rooted THEN Close(Cut(added, "disp")) ELSE added

(* add_disp_mig_event_to_group: inside a block, it closes the group.       *)
MigService(d, i) ==
  LET added == AddGeneral(d, i) IN
  IF d.invokers = <<>> THEN [added EXCEPT !.migs = Append(@, Garbage)]
  ELSE Close(Cut([added EXCEPT !.migs = Append(@, Last(d.invokers))], "disp"))

\* Mutant: the callout goes to the group before it.
Callout_KeepGroup(d, i) == AddGeneral(d, i)
Callout(d, i) == AddGeneral(Close(d), i)

(* add_wait_event_to_group: the end of a group, except inside a block.     *)
Wait(d, i) ==
  LET added == AddGeneral(d, i) IN
  IF CurGroup(added).level = 0 THEN Close(Cut(added, "wait")) ELSE added

(* add_msg_event_into_group, with check_hooks, calculate_msg_peer_set and  *)
(* add_events: the message, and the voucher it carries, go to a new group  *)
(* when they tie it to other processes only.                               *)
Msg(d, i) ==
  LET v      == IF events[i].hook THEN d.voucher ELSE None
      freed  == IF v = None THEN d ELSE [d EXCEPT !.voucher = None]
      peers  == ({PeerOf(i)} \ {NoPeer}) \cup (IF v = None THEN {} ELSE events[v].banks)
      direct == events[i].direct \/ d.cur = None \/ CurGroup(d).level > 0
      splits == /\ ~direct /\ peers # {} /\ CurGroup(d).peers # {}
                /\ peers \cap CurGroup(d).peers = {}
      base   == IF splits THEN CreateGroup(Cut(freed, "msg_old")) ELSE freed
      msg    == AddGeneral(IF splits THEN Cut(base, "msg_new") ELSE base, i)
  IN  AddPeers(IF v = None THEN msg ELSE AddGeneral(msg, v), peers)

(* The run-loop divider: an item has a group of its own, and the events of *)
(* a round that are in no item share one.                                  *)
NSAppEvent(d, i) == AddGeneral(Close(d), i)

\* Mutant: the round is taken to be in the group it leaves.
EventsBegin_SaveEarly(d, i) ==
  [AddGeneral(IF d.cur # d.rl THEN Close(d) ELSE d, i) EXCEPT !.rl = d.cur]
EventsBegin(d, i) ==
  LET added == AddGeneral(IF d.cur # d.rl THEN Close(d) ELSE d, i)
  IN  [added EXCEPT !.rl = added.cur]

\* Mutant: the round is closed in whatever group is current.
EventsEnd_Current(d, i) == Close([AddGeneral(d, i) EXCEPT !.rl = None])

EventsEnd(d, i) == Close([AddGeneral([d EXCEPT !.cur = d.rl], i) EXCEPT !.rl = None])

ItemBegin(d, i) == AddGeneral(Close(d), i)
ItemEnd(d, i)   == [AddGeneral(d, i) EXCEPT !.cur = d.rl]

(* The switch of divide().                                                 *)
Divided(d, i, lucky) ==
  CASE Kind(i) \in {"voucher", "fake"}        -> StoreEvent(d, i)
    [] Kind(i) = "begin"                      -> BlockBegin(d, i)
    [] Kind(i) = "end"                        -> BlockEnd(d, i, lucky)
    [] Kind(i) = "callout"                    -> Callout(d, i)
    [] Kind(i) = "msg"                        -> Msg(d, i)
    [] Kind(i) = "wait"                       -> Wait(d, i)
    [] Kind(i) = "mig" /\ ~RunLoop            -> MigService(d, i)
    [] Kind(i) = "nsapp" /\ RunLoop           -> NSAppEvent(d, i)
    [] Kind(i) = "events_begin" /\ RunLoop    -> EventsBegin(d, i)
    [] Kind(i) = "events_end" /\ RunLoop      -> EventsEnd(d, i)
    [] Kind(i) = "item_begin" /\ RunLoop      -> ItemBegin(d, i)
    [] Kind(i) = "item_end" /\ RunLoop        -> ItemEnd(d, i)
    [] OTHER                                  -> AddGeneral(d, i)

-----------------------------------------------------------------------------
Init ==
  /\ thread \in Threads
  /\ events = <<>> /\ pos = 0 /\ frames = <<>>
  /\ div = NewDivider
  /\ status = "dividing"

CanRecord == status = "dividing" /\ pos = Len(events) /\ Len(events) < thread.max

(* The environment: the list goes on with one more event of the thread.    *)
Record(e) ==
  /\ CanRecord
  /\ e.kind \notin {"events_end", "item_end"}
  /\ events' = Append(events, e)
  /\ frames' = IF e.kind \in {"begin", "events_begin", "item_begin"}
               THEN Append(frames, Len(events) + 1) ELSE frames
  /\ UNCHANGED <<thread, pos, div, status>>

\* The innermost frame ends, or, when the ends above it were lost, an outer one.
MayEnd(f) == f \in DOMAIN frames /\ (f = Len(frames) \/ thread.lossy)

(* DispatchParser pairs an end with its beginning, and drops the end of a  *)
(* block that began before the trace.                                      *)
RecordBlockEnd(f) ==
  /\ CanRecord /\ thread.blockEnds
  /\ MayEnd(f) /\ Kind(frames[f]) = "begin"
  /\ events' = Append(events, [kind |-> "end", root |-> frames[f]])
  /\ frames' = SubSeq(frames, 1, f - 1)
  /\ UNCHANGED <<thread, pos, div, status>>

(* The end of a run-loop item or round; the code does not know its root,   *)
(* which is None when it began before the trace.                           *)
RecordRunLoopEnd(e) ==
  LET begin   == IF e.kind = "events_end" THEN "events_begin" ELSE "item_begin"
      Ends(b) == events' = Append(events, [kind |-> e.kind, root |-> b])
  IN  /\ CanRecord
      /\ e.kind \in {"events_end", "item_end"}
      /\ \/ frames = <<>> /\ UNCHANGED frames /\ Ends(None)
         \/ \E f \in DOMAIN frames : /\ MayEnd(f) /\ Kind(frames[f]) = begin
                                     /\ frames' = SubSeq(frames, 1, f - 1)
                                     /\ Ends(frames[f])
      /\ UNCHANGED <<thread, pos, div, status>>

(* The divider takes the next event.                                       *)
Divide ==
  /\ status = "dividing" /\ pos < Len(events)
  /\ Kind(pos + 1) = "end" => events[pos + 1].root = Last(div.invokers)
  /\ \E lucky \in BOOLEAN : div' = Divided(div, pos + 1, lucky)
  /\ pos' = pos + 1
  /\ UNCHANGED <<thread, events, frames, status>>

(* assert(begin_invoke == current_disp_invokers.top())                     *)
Abort ==
  /\ status = "dividing" /\ pos < Len(events)
  /\ Kind(pos + 1) = "end" /\ events[pos + 1].root # Last(div.invokers)
  /\ status' = "aborted"
  /\ UNCHANGED <<thread, events, pos, frames, div>>

(* The end of the list: the groups are handed to Groups.                   *)
Submit ==
  /\ status = "dividing" /\ pos = Len(events) /\ pos > 0
  /\ status' = "submitted"
  /\ UNCHANGED <<thread, events, pos, frames, div>>

Stopped == status # "dividing" /\ UNCHANGED vars

Next == \/ \E e \in thread.inputs : Record(e) \/ RecordRunLoopEnd(e)
        \/ \E f \in DOMAIN frames : RecordBlockEnd(f)
        \/ Divide \/ Abort \/ Submit \/ Stopped

Spec == Init /\ [][Next]_vars

-----------------------------------------------------------------------------
(* Properties.                                                             *)

TypeOK ==
  /\ pos \in 0 .. Len(events) /\ Len(events) \in pos .. thread.max
  /\ status \in {"dividing", "submitted", "aborted"}
  /\ div.cur \in 0 .. Len(div.groups) /\ div.rl \in 0 .. Len(div.groups)
  /\ div.voucher \in 0 .. pos /\ div.fake \in 0 .. pos
  /\ div.invokers \in Seq(1 .. pos) /\ div.migs \in Seq((1 .. pos) \cup {Garbage})
  /\ \A g \in DOMAIN div.groups :
       /\ div.groups[g].events \in Seq(1 .. pos) /\ div.groups[g].events # <<>>
       /\ div.groups[g].level \in Nat
       /\ div.groups[g].cut \subseteq {"disp", "wait", "msg_old", "msg_new"}

DividedSoFar == 1 .. pos
Events(g) == {div.groups[g].events[j] : j \in DOMAIN div.groups[g].events}
Held(i)   == Kind(i) \in {"voucher", "fake"}
\* The events of the group in the order of time: vouchers and wake-ups may be older.
Own(g)    == {i \in Events(g) : ~Held(i)}
Places(i) == UNION {{g} \X {j \in DOMAIN div.groups[g].events : div.groups[g].events[j] = i} :
                     g \in DOMAIN div.groups}

VoucherWaits(i) ==
  Kind(i) = "voucher" /\ (div.voucher = i \/ \E j \in i + 1 .. pos : Kind(j) = "voucher")
WakeupWaits(i) ==
  /\ Kind(i) = "fake"
  /\ \E j \in i .. pos :
       /\ \A k \in i .. j : Held(k)
       /\ (div.fake = j \/ (j > i /\ Kind(j) = "fake"))

(* No event of the thread is lost or counted twice, whatever splits its    *)
(* groups: it is in one place of one group.  Only a voucher that no        *)
(* message has carried yet, or a wake-up with no event after it but other  *)
(* wake-ups and vouchers, is in none.  And the groups are consecutive      *)
(* stretches of the events in group-id order, on which the edge to the     *)
(* next group rests; only the group of a round of run-loop events may go   *)
(* on after a later one began.                                             *)
GroupsPartitionEvents ==
  /\ \A i \in DividedSoFar :
       /\ Cardinality(Places(i)) <= 1
       /\ Places(i) = {} => VoucherWaits(i) \/ WakeupWaits(i)
  /\ \A g, h \in DOMAIN div.groups : g < h /\ Own(g) # {} /\ Own(h) # {} =>
       /\ \E i \in Own(g) : \A j \in Own(h) : i < j
       /\ \/ \A i \in Own(g), j \in Own(h) : i < j
          \/ RunLoop /\ \E i \in Own(g) : Kind(i) = "events_begin"

(* The group that a dequeued block, a timer callout or a run-loop item     *)
(* starts holds nothing from before it, nor, once the block or the item    *)
(* has ended, anything from after it.  In a thread without run loop,       *)
(* everything that runs in a dequeued block is in groups of its own,       *)
(* however the block was split.                                            *)
IsHead(i) == \/ Kind(i) = "begin" /\ events[i].rooted
             \/ Kind(i) = "callout"
             \/ Kind(i) = "item_begin" /\ RunLoop
IsolatedUpTo(e) ==
  Kind(e) = "end" /\ events[events[e].root].rooted =>
    \A g \in DOMAIN div.groups :
      LET inside == {i \in Own(g) : i \in events[e].root .. e}
      IN  inside = {} \/ inside = Own(g)
SegmentsAreTheirOwn ==
  /\ \A b \in {i \in DividedSoFar : IsHead(i)} :
       LET own == Own(GroupOf(div, b)) IN
       /\ \A i \in own : i >= b
       /\ \A e \in DividedSoFar : Kind(e) \in {"end", "item_end"} /\ events[e].root = b
                              => \A i \in own : i <= e
  /\ ~RunLoop => \A e \in DividedSoFar : IsolatedUpTo(e)

(* A group mixes events tied to different processes only if a message or a *)
(* cancelled timer brought the second tie in; a wake-up held back is filed *)
(* whatever its peer.                                                      *)
PeersTogether ==
  \A g \in DOMAIN div.groups :
    (\A i \in Events(g) : Kind(i) \notin {"msg", "cancel"})
      => Cardinality({PeerOf(i) : i \in Own(g)} \ {NoPeer}) <= 1

(* The events of a round are in the group where it began, whatever items   *)
(* and blocks ran in between, unless another round did.                    *)
RoundsTogether ==
  \A e \in DividedSoFar : Kind(e) = "events_end" /\ events[e].root # None /\ RunLoop =>
    \/ GroupOf(div, e) = GroupOf(div, events[e].root)
    \/ \E i \in events[e].root + 1 .. e - 1 : Kind(i) = "events_begin"

(* assert(begin_invoke == current_disp_invokers.top()) fails, and the      *)
(* program aborts, exactly when a block ends whose inner one lost its end. *)
EndsMatchTheStack ==
  (status = "aborted") <=>
    /\ status # "dividing" /\ pos < Len(events)
    /\ Kind(pos + 1) = "end"
    /\ \E b \in events[pos + 1].root + 1 .. pos :
         Kind(b) = "begin" /\ \A e \in b + 1 .. pos : Kind(e) = "end" => events[e].root # b

DividesWait == pos' = pos + 1 /\ Kind(pos + 1) = "wait"

(* "if not in the middle of dispatch block execution close cur_group":     *)
(* nothing that follows a wait outside blocks joins its group.  In a       *)
(* run-loop thread, that fails after a block that ended in another group   *)
(* than the one it began in.                                               *)
EndedElsewhere ==
  RunLoop /\ \E e \in DividedSoFar : Kind(e) = "end" /\ GroupOf(div, e) # GroupOf(div, events[e].root)
WaitClosesGroup ==
  [][DividesWait /\ div.invokers = <<>> => div'.cur = None \/ EndedElsewhere]_vars
=============================================================================
