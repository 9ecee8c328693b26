------------------------------ MODULE Connectors ------------------------------
(***************************************************************************)
(* The seven connectors (src/src/GraphsGenerator/Connectors), posted to    *)
(* one pool by Groups::para_connector_generate: each walks the records of  *)
(* its own kinds in the order of time and ties an effect to its cause.     *)
(*                                                                         *)
(* The traced system comes first.  It does what its kernel and libraries   *)
(* allow, one record per step, and `causes` remembers what really led to   *)
(* the record; some records get lost, a trace that starts late included.   *)
(* The connectors then see the records that are left, and none of causes.  *)
(* A position in `history` stands for the record, its address and, since   *)
(* the lists are sorted, its place in every list.                          *)
(*                                                                         *)
(* The dictionaries that a walk builds are functions of the records walked *)
(* and of what is connected already, and are written as such.              *)
(***************************************************************************)
EXTENDS Integers, Sequences, FiniteSets, FiniteSetsExt, SequencesExt

CONSTANTS Families,   \* what is traced: its inputs, the bounds on records and losses, and
              \* whether assert is compiled in (the Makefile defines NDEBUG on Linux)
          QueueVars   \* the variables of the type QUEUE_VAR; the others flip

\* Ports and variables are numbered, the variables in the order of their names;
\* there is no port 0.  Posts go to one port of the server, their key.
InputsOK(inputs) ==
  /\ \A e \in inputs :
       /\ e.key \in Nat
       /\ e.kind \in {"request", "receive", "reply", "answer"} => e.key > 0
       /\ e.kind = "trap" => \A v \in DOMAIN e.targets : v \in Nat /\ e.targets[v] \in {0, 1}
  /\ \A d, e \in inputs : {d.kind, e.kind} \subseteq {"post", "deliver"} => d.key = e.key

ASSUME FamiliesAssumption ==
  \A f \in Families : /\ f.max \in Nat /\ f.lost \in Nat
                      /\ f.fresh \in BOOLEAN /\ f.asserts \in BOOLEAN /\ InputsOK(f.inputs)

VARIABLES
  family,    \* the family this trace is of; never changes
  history,   \* the records, with causes and those lost
  ev,        \* what the connectors write into the events
  at,        \* at[p]: how far pass p has come
  writes,    \* prev_writes: for each variable the writes that no read took
  phase      \* "trace", "connect", "connected" or "aborted" by an assertion

vars == <<family, history, ev, at, writes, phase>>

Passes == {"messages", "dispatch", "cancels", "callouts", "animation", "traps", "loop", "wakeups"}

Rec(i)  == history[i].rec
Kind(i) == Rec(i).kind
Key(i)  == Rec(i).key
Times   == DOMAIN history
Kept    == {i \in Times : ~history[i].lost}
Vars    == UNION {DOMAIN Rec(i).targets : i \in {j \in Times : Kind(j) = "trap"}}

Of(kinds, k)         == {j \in Times : Kind(j) \in kinds /\ Key(j) = k}
KeptBefore(i, kinds, k) == {j \in Of(kinds, k) \cap Kept : j < i}

\* At most one element: the last, the first, or nothing.
Latest(S)   == {j \in S : \A k \in S : k <= j}
Earliest(S) == {j \in S : \A k \in S : j <= k}

-----------------------------------------------------------------------------
(* The traced system.                                                      *)

\* Records of these kinds that nothing of the other kinds has followed up yet.
Followed(j, kinds) == \E i \in Times : Kind(i) \in kinds /\ j \in history[i].causes
Open(k, kinds, by) == {j \in Of(kinds, k) : ~Followed(j, by)}
Since(k, kinds, by) ==
  {j \in Of(kinds, k) : \A i \in Of(by, k) : i < j}

\* The value of a variable after the records so far; 0 before the first.
ValueAt(v, traps) ==
  LET of == {j \in traps : v \in DOMAIN Rec(j).targets}
  IN  IF of = {} THEN 0 ELSE Rec(Max(of)).targets[v]
Traps == {j \in Times : Kind(j) = "trap"}

\* The writes that a read of v answers: one for one, oldest first.
WritesOf(v) == {j \in Traps : v \in DOMAIN Rec(j).targets /\ Rec(j).targets[v] = 1}
ReadsOf(v)  == {j \in Traps : v \in DOMAIN Rec(j).targets /\ Rec(j).targets[v] = 0}
Unread(v)   == {j \in WritesOf(v) : \A r \in ReadsOf(v) : j \notin history[r].causes}

(* What may happen next, and what leads to it: an invocation takes the     *)
(* oldest enqueue of its block; a timer fires or is cancelled if the last  *)
(* create is still armed, and may be cancelled too late; a source is       *)
(* handled for all signals since it was; a thread wakes from its wait.     *)
CausesOf(e) ==
  CASE e.kind = "inv"     -> Earliest(Open(e.key, {"enq"}, {"inv"}))
    [] e.kind \in {"cancel", "callout"} ->
         LET armed == Latest(Since(e.key, {"create"}, {"callout"}))
         IN  {c \in armed : ~Followed(c, {"cancel"})}
    [] e.kind = "display" -> Since(e.key, {"set"}, {"display"})
    [] e.kind = "unset"   -> Since(e.key, {"signal"}, {"unset"})
    [] e.kind = "item"    -> Earliest(Open(e.key, {"perform"}, {"item"}))
    [] e.kind = "mkrun"   -> Open(e.key, {"wait"}, {"mkrun"})
    [] e.kind = "trap"    -> UNION {Earliest(Unread(v)) : v \in {w \in DOMAIN e.targets : e.targets[w] = 0}}
    [] e.kind = "receive" -> Open(e.key, {"request"}, {"receive"})
    [] e.kind = "reply"   -> Open(e.key, {"receive"}, {"reply"})
    [] e.kind = "answer"  -> Open(e.key, {"reply"}, {"answer"})
    [] e.kind = "deliver" -> Earliest({j \in Open(e.key, {"post"}, {"deliver"}) : ~Rec(j).freed})
    [] OTHER              -> {}

NeedsCause(e) == e.kind \in {"inv", "callout", "unset", "item", "mkrun", "receive", "reply",
                             "answer", "deliver"}

\* A flipping variable is recorded when it flips; a thread waits when it runs;
\* a thread makes a request when its last one is answered; at one time the sets
\* are listed before the displays.
May(e) ==
  /\ NeedsCause(e) => CausesOf(e) # {}
  /\ e.kind = "trap" => \A v \in DOMAIN e.targets \ QueueVars : e.targets[v] # ValueAt(v, Traps)
  /\ e.kind = "wait" => Open(e.key, {"wait"}, {"mkrun"}) = {}
  /\ e.kind = "set" /\ e.tie => history # <<>> /\ Kind(Len(history)) = "set"
  /\ e.kind = "request" => Cardinality(Of({"request"}, e.key)) = Cardinality(Of({"answer"}, e.key))

NewEvent == [owner |-> {}, consumer |-> {}, cancel |-> {}, peer |-> {}, next |-> {},
             read |-> FALSE, visited |-> FALSE]

\* The program traced writes one more record, which may get lost.
Record(e, lost) ==
  /\ phase = "trace" /\ Len(history) < family.max
  /\ lost => Cardinality(Times \ Kept) < family.lost
  /\ May(e)
  /\ history' = Append(history, [rec |-> e, causes |-> CausesOf(e), lost |-> lost])
  /\ ev' = Append(ev, NewEvent)
  /\ UNCHANGED <<family, at, writes, phase>>

EndTrace ==
  /\ phase = "trace" /\ Kept # {}
  /\ phase' = "connect"
  /\ writes' = [v \in Vars |-> <<>>]
  /\ UNCHANGED <<family, history, ev, at>>

-----------------------------------------------------------------------------
(* Messages.  A header has the kernel addresses of the remote and local    *)
(* ports and their names in the process: requests go to a port of the       *)
(* server, replies to the port `key` of the client's thread.  The name of  *)
(* a reply port in the server may be a new one for every request.          *)

Sends    == {"request", "reply", "post"}
Receives == {"receive", "answer", "deliver"}
Messages == {i \in Kept : Kind(i) \in Sends \cup Receives}
IsRecv(i) == Kind(i) \in Receives
Pid(i)    == IF Kind(i) \in {"request", "post", "answer"} THEN "client" ELSE "server"
NoPort == 0
Service == -1
NoName == <<>>

Requests(i) == Cardinality({j \in Of({"request"}, Key(i)) : j <= i})
ReplyName(i) == <<Key(i), "server", IF family.fresh THEN Requests(i) ELSE 0>>

Remote(i) == IF Kind(i) \in {"reply", "answer"} THEN Key(i) ELSE Service
Local(i)  == IF Kind(i) \in {"request", "receive"} THEN Key(i) ELSE NoPort
FromKernel(i) == Kind(i) = "reply" /\ Rec(i).kernel
Freed(i)  == Kind(i) = "post" /\ Rec(i).freed
LName(i)  == CASE Kind(i) = "request" -> <<Key(i), "client">>
               [] Kind(i) = "receive" -> ReplyName(i)
               [] OTHER               -> NoName
RName(i)  == CASE Kind(i) = "answer"  -> <<Key(i), "client">>
               [] Kind(i) = "reply"   -> IF FromKernel(i) THEN <<Key(i), "client">> ELSE ReplyName(i)
               [] OTHER               -> <<Service, Pid(i)>>

\* msg_map.equal_range(key) without those visited, in the order of time.
Candidates(remote, local, recv) ==
  {i \in Messages : /\ Remote(i) = remote /\ Local(i) = local /\ IsRecv(i) = recv
                    /\ ~ev[i].visited}

\* search_ipc_msg for the receiver: the first candidate, whatever its time, decides
\* the process and the name that the others are held to.
SearchRequest(send) ==
  LET all   == Candidates(Remote(send), Local(send), TRUE)
      first == Min(all)
      fits(c) == \/ c = first
                 \/ /\ Pid(c) = Pid(first)
                    /\ LName(first) # NoName => RName(c) = LName(first)
  IN  IF all = {} THEN {} ELSE Earliest({c \in all : fits(c) /\ c >= send})

\* Mutant: the name of the port is not compared.
SearchReply_AnyName(send, recv) ==
  Earliest({c \in Candidates(Local(send), NoPort, FALSE) : Pid(c) = Pid(recv)})

\* The reply of the process that received the request, to the port it named.
SearchReply(send, recv) ==
  Earliest({c \in Candidates(Local(send), NoPort, FALSE) :
              /\ Pid(c) = Pid(recv)
              /\ RName(c) = IF FromKernel(c) THEN LName(send) ELSE LName(recv)
              /\ c >= recv})

SearchAnswer(send, reply) ==
  Earliest({c \in Candidates(Local(send), NoPort, TRUE) :
              Pid(c) = Pid(send) /\ RName(c) = LName(send) /\ c >= reply})

\* The only element of a set, or a pair of events of which one owns the other.
Only(S) == CHOOSE x \in S : TRUE
Linked(f, effect, cause) == [f EXCEPT ![effect].owner = {cause}, ![cause].consumer = {effect}]
Visited(f, S) == [i \in DOMAIN f |-> IF i \in S THEN [f[i] EXCEPT !.visited = TRUE] ELSE f[i]]

\* update_msg_pattern for two messages, or for four.
Request2(send, recv) == Visited(Linked(ev, recv, send), {send, recv})
Request4(send, recv, reply, answer) ==
  Visited([Linked(Linked(ev, recv, send), answer, reply) EXCEPT ![recv].next = {reply}],
          {send, recv, reply, answer})

(* A turn of collect_msg_pattern, for a message sent.                      *)
MatchMessage(i) ==
  LET recv == SearchRequest(i)
      reply == IF recv = {} THEN {} ELSE SearchReply(i, Only(recv))
      answer == IF reply = {} THEN {} ELSE SearchAnswer(i, Only(reply))
  IN  IF ev[i].visited \/ Freed(i) THEN ev
      ELSE IF recv = {} THEN Visited(ev, {i})
      ELSE IF Local(i) = NoPort \/ reply = {} \/ answer = {} THEN Request2(i, Only(recv))
      ELSE Request4(i, Only(recv), Only(reply), Only(answer))

-----------------------------------------------------------------------------
(* The other connectors.                                                   *)

Connected(i, causes) == IF causes = {} THEN ev ELSE Linked(ev, i, Only(causes))

\* get_item: an enqueue has its context, the key; an invocation gets the -1 of its
\* constructor, a uint64_t that is the context of no block.
NoItem == -1
Item(i) == IF Kind(i) = "enq" THEN Key(i) ELSE NoItem

(* connect_dispatch_enqueue_for_invoke: the first enqueue of the same item *)
(* in its process that no invocation took.                                 *)
ConnectInvoke(i) ==
  Connected(i, Earliest({e \in Kept : /\ Kind(e) = "enq" /\ e < i
                                      /\ Item(e) = Item(i) /\ ev[e].consumer = {}}))

\* What timer_create holds for the key of i: the last create, until it is erased.
RecentCreate(i) == Latest(KeptBefore(i, {"create"}, Key(i)))

ConnectCancel(i) ==
  LET create == {c \in RecentCreate(i) : ev[c].cancel = {}}
  IN  IF create = {} THEN ev
      ELSE [ev EXCEPT ![i].owner = create, ![Only(create)].cancel = {i}]

\* Mutant: a cancellation after the callout is believed.
ConnectCallout_KeepCancel(i) ==
  Connected(i, {c \in RecentCreate(i) : ev[c].consumer = {} /\ ev[c].cancel = {}})

\* Mutant: a cancellation after the callout is not taken back.
ConnectCallout_Both(i) ==
  Connected(i, {c \in RecentCreate(i) : ev[c].consumer = {} /\ \A x \in ev[c].cancel : x > i})

(* check_root of a callout: refuses a create cancelled before; takes back  *)
(* a cancellation that came after.                                         *)
ConnectCallout(i) ==
  LET create == {c \in RecentCreate(i) : /\ ev[c].consumer = {}
                                         /\ \A x \in ev[c].cancel : x > i}
      late   == UNION {ev[c].cancel : c \in create}
      undone == [j \in DOMAIN ev |-> IF j \in late THEN [ev[j] EXCEPT !.owner = {}]
                                     ELSE IF j \in create THEN [ev[j] EXCEPT !.cancel = {}]
                                     ELSE ev[j]]
  IN  IF create = {} THEN ev ELSE Linked(undone, i, Only(create))

\* Walking back from a display: the sets up to one of its object that was displayed.
SetsBack(i) ==
  LET stops == {s \in KeptBefore(i, {"set"}, Key(i)) : ev[s].consumer # {}}
  IN  {s \in Kept : Kind(s) = "set" /\ s < i /\ \A b \in stops : s >= b}

(* core_animation_connection: every set of the object since its last       *)
(* display.                                                                *)
ConnectDisplay(i) ==
  LET sets == {s \in SetsBack(i) : Key(s) = Key(i) /\ ev[s].consumer = {}}
  IN  [j \in DOMAIN ev |-> IF j \in sets THEN [ev[j] EXCEPT !.consumer = {i}]
                           ELSE IF j = i THEN [ev[j] EXCEPT !.owner = sets] ELSE ev[j]]

\* assert(display_event->get_abstime() > set_event->get_abstime())
SameTime(i, s) == \A j \in s + 1 .. i : Rec(j).tie
DisplayAborts(i) == family.asserts /\ \E s \in SetsBack(i) : SameTime(i, s)

(* breakpoint_trap_connection, for the variables of one trap in the order  *)
(* of their names.  A trap has one peer and is a read or a write, whatever *)
(* the number of its variables: the last one decides.                      *)
TrapWrites(i, v) == LET t == Rec(i).targets[v] IN
  IF v \in QueueVars THEN t = 1 ELSE t = 1 /\ ValueAt(v, {j \in Kept \cap Traps : j < i}) = 0
TrapReads(i, v)  == LET t == Rec(i).targets[v] IN
  IF v \in QueueVars THEN t # 1 ELSE t = 0 /\ ValueAt(v, {j \in Kept \cap Traps : j < i}) = 1

Reading(i) == {v \in DOMAIN Rec(i).targets : TrapReads(i, v)}
Writing(i) == {v \in DOMAIN Rec(i).targets : TrapWrites(i, v)}
Taking(i)  == {v \in Reading(i) : writes[v] # <<>>}

ConnectTrap(i) ==
  [j \in DOMAIN ev |->
     IF j = i
     THEN [ev[i] EXCEPT !.read = IF Reading(i) \cup Writing(i) = {} THEN @
                                 ELSE Latest(Reading(i) \cup Writing(i)) \subseteq Reading(i),
                        !.peer = IF Taking(i) = {} THEN @ ELSE {Head(writes[v]) : v \in Latest(Taking(i))}]
     ELSE IF \E v \in Taking(i) : j = Head(writes[v]) THEN [ev[j] EXCEPT !.peer = {i}] ELSE ev[j]]

\* Mutant: a write goes to the front.
WritesAfter_Front(i) ==
  [v \in DOMAIN writes |-> CASE v \in Writing(i) -> <<i>> \o writes[v]
                             [] v \in Taking(i)  -> Tail(writes[v])
                             [] OTHER            -> writes[v]]

WritesAfter(i) ==
  [v \in DOMAIN writes |-> CASE v \in Writing(i) -> Append(writes[v], i)
                             [] v \in Taking(i)  -> Tail(writes[v])
                             [] OTHER            -> writes[v]]

(* connect_for_source0 and connect_for_blocks: the nearest record before.  *)
ConnectLoop(i) ==
  Connected(i, Latest(KeptBefore(i, IF Kind(i) = "unset" THEN {"signal"} ELSE {"perform"}, Key(i))))

LoopKinds == {"signal", "unset", "perform", "item"}
\* rit == rend: the record is the first of the list, and the whole walk is left.
FirstOfLoop(i) == \A j \in Kept : Kind(j) \in LoopKinds => j >= i

(* pair_wait_mkrun: the last wait of the thread, taken by another wake-up  *)
(* or not.                                                                 *)
ConnectMkrun(i) == Connected(i, Latest(KeptBefore(i, {"wait"}, Key(i))))

-----------------------------------------------------------------------------
\* The records at which a pass does more than remember them.
Effects == [messages |-> Sends, dispatch |-> {"inv"}, cancels |-> {"cancel"},
            callouts |-> {"callout"}, animation |-> {"display"}, traps |-> {"trap"},
            loop |-> {"unset", "item"}, wakeups |-> {"mkrun"}]
Left(p) == {i \in Kept : Kind(i) \in Effects[p] /\ i > at[p]}

Init ==
  /\ family \in Families
  /\ history = <<>> /\ ev = <<>> /\ writes = <<>>
  /\ at = [p \in Passes |-> 0]
  /\ phase = "trace"

(* One more record of the walk of pass p.  The two passes of the timers    *)
(* are one task; the others run at once.                                   *)
Turn(p, i) ==
  /\ phase = "connect" /\ i \in Earliest(Left(p))
  /\ p = "callouts" => Left("cancels") = {}
  /\ ~(p = "animation" /\ DisplayAborts(i)) /\ ~(p = "loop" /\ FirstOfLoop(i))
  /\ at' = [at EXCEPT ![p] = i]
  /\ IF p = "traps" THEN ev' = ConnectTrap(i) /\ writes' = WritesAfter(i)
     ELSE /\ ev' = CASE p = "messages"  -> MatchMessage(i)
                     [] p = "dispatch"  -> ConnectInvoke(i)
                     [] p = "cancels"   -> ConnectCancel(i)
                     [] p = "callouts"  -> ConnectCallout(i)
                     [] p = "animation" -> ConnectDisplay(i)
                     [] p = "loop"      -> ConnectLoop(i)
                     [] p = "wakeups"   -> ConnectMkrun(i)
          /\ UNCHANGED writes
  /\ UNCHANGED <<family, history, phase>>

\* Mutant: the walk ends past the list.
LeaveLoop_Past ==
  /\ phase = "connect"
  /\ \E i \in Earliest(Left("loop")) : FirstOfLoop(i)
  /\ at' = [at EXCEPT !.loop = Len(history) + 1]
  /\ UNCHANGED <<family, history, ev, writes, phase>>

LeaveLoop ==
  /\ phase = "connect"
  /\ \E i \in Earliest(Left("loop")) : FirstOfLoop(i)
  /\ at' = [at EXCEPT !.loop = Len(history)]
  /\ UNCHANGED <<family, history, ev, writes, phase>>

Abort ==
  /\ phase = "connect"
  /\ \E i \in Earliest(Left("animation")) : DisplayAborts(i)
  /\ phase' = "aborted"
  /\ UNCHANGED <<family, history, ev, at, writes>>

Join ==
  /\ phase = "connect" /\ \A p \in Passes : Left(p) = {}
  /\ phase' = "connected"
  /\ UNCHANGED <<family, history, ev, at, writes>>

Over == phase \in {"connected", "aborted"} /\ UNCHANGED vars

Next ==
  \/ \E e \in family.inputs, lost \in BOOLEAN : Record(e, lost)
  \/ EndTrace
  \/ \E p \in Passes, i \in Times : Turn(p, i)
  \/ LeaveLoop \/ Abort \/ Join \/ Over

Spec == Init /\ [][Next]_vars

-----------------------------------------------------------------------------
(* Properties.                                                             *)

TypeOK ==
  /\ family \in Families /\ phase \in {"trace", "connect", "connected", "aborted"}
  /\ DOMAIN ev = Times /\ Len(history) <= family.max
  /\ at \in [Passes -> 0 .. Len(history)]
  /\ \A i \in Times : /\ ev[i].owner \cup ev[i].consumer \cup ev[i].cancel \cup ev[i].peer
                           \cup ev[i].next \subseteq Kept
                      /\ ~history[i].lost \/ ev[i] = NewEvent

Done == phase = "connected"
EffectKinds == {"cancel", "callout", "display", "unset", "item", "mkrun",
                "receive", "answer", "deliver"}
CauseKinds(i) ==
  CASE Kind(i) \in {"cancel", "callout"} -> {"create"}
    [] Kind(i) = "display" -> {"set"}
    [] Kind(i) = "unset"   -> {"signal"}
    [] Kind(i) = "item"    -> {"perform"}
    [] Kind(i) = "mkrun"   -> {"wait"}
    [] Kind(i) = "receive" -> {"request"}
    [] Kind(i) = "answer"  -> {"reply"}
    [] Kind(i) = "deliver" -> {"post"}

LoopLeft == \E i \in Kept : /\ Kind(i) \in {"unset", "item"} /\ FirstOfLoop(i)

(* What is connected is what really happened, for each object, port or     *)
(* thread of which no record was lost; blocks are not connected at all     *)
(* (PairsAreMutual, BlocksAreTied).  Signals before one handling of        *)
(* their source count as one, the last; a block that is performed again    *)
(* before it has run is taken for the later one; and a run-loop record     *)
(* whose cause is not in the trace, if it is the first, ends the walk.     *)
Whole(i) == \A j \in Times : history[j].lost => Key(j) # Key(i)
Expected(i) == IF Kind(i) = "unset" THEN Latest(history[i].causes) ELSE history[i].causes
PerformedAgain(i) ==
  Kind(i) = "item" /\ \E j \in KeptBefore(i, {"perform"}, Key(i)) : \E c \in history[i].causes : j > c
ConnectsWhatHappened ==
  Done => \A i \in Kept : Kind(i) \in EffectKinds /\ Whole(i) =>
    \/ ev[i].owner = Expected(i)
    \/ PerformedAgain(i)
    \/ Kind(i) \in LoopKinds /\ LoopLeft

(* Whatever was lost, an effect is tied to a cause of the right kind and   *)
(* key that came before it, and the cause knows of the effect, or of a     *)
(* later one where one cause may have several (a wait, a signal, a block   *)
(* of a run loop).  Nothing else is tied, not even an invocation of a      *)
(* dispatched block.                                                       *)
(* A cause is not left pointing at an effect that has another owner; and a *)
(* timer is not both cancelled and called.  Two effects of a kind and key  *)
(* are not tied crosswise, but for answers: after two losses the answer to *)
(* one request may be taken for the answer to an earlier one.              *)
Shared == {"unset", "item", "mkrun"}
PairsAreMutual ==
  Done => \A i \in Kept :
    /\ \A c \in ev[i].owner :
         /\ Kind(i) \in EffectKinds /\ Kind(c) \in CauseKinds(i) /\ Key(c) = Key(i) /\ c < i
         /\ \E e \in ev[c].consumer \cup ev[c].cancel :
              e = i \/ (Kind(i) \in Shared /\ e > i)
    /\ \A e \in ev[i].consumer \cup ev[i].cancel : i \in ev[e].owner
    /\ ev[i].consumer = {} \/ ev[i].cancel = {}
    /\ \A j \in Kept : i < j /\ Kind(i) = Kind(j) /\ Kind(i) \in EffectKinds \ {"answer"} /\ Key(i) = Key(j) =>
         \A c \in ev[i].owner, d \in ev[j].owner : c <= d

(* The dispatch task pairs the dispatch queue, as the comment where it is  *)
(* posted says: an invocation is tied to the enqueue that led to it, where *)
(* no record of the block was lost.                                        *)
BlocksAreTied ==
  Done => \A i \in Kept : Kind(i) = "inv" /\ Whole(i) => ev[i].owner = history[i].causes

(* Reads take the writes of their variable in order: with traps of one     *)
(* variable each and none of them lost, a read is paired with the write    *)
(* that it answers, and the pair agrees.                                   *)
SingleTraps == \A i \in Traps : \E v \in DOMAIN Rec(i).targets : DOMAIN Rec(i).targets = {v}
ReadsTakeTheirWrites ==
  Done /\ SingleTraps /\ Traps \subseteq Kept => \A i \in Traps :
    ev[i].read => /\ ev[i].peer = history[i].causes
                  /\ \A w \in ev[i].peer : ev[w].peer = {i} /\ ~ev[w].read

(* An episode does not mix requests: where the server's name of the reply  *)
(* port is new for each, the reply tied to a request that was received is  *)
(* its own, whatever was lost, unless the kernel sent it.                  *)
EpisodesAreOfOneRequest ==
  family.fresh => \A i \in Kept : \A r \in ev[i].next :
    ~FromKernel(r) => history[r].causes = {i}

=============================================================================
