---------------------------- MODULE MCEventGraph ----------------------------
(* Instances of EventGraph: small traces that hold every kind of connection. *)
EXTENDS EventGraph, TLC

Event(kind, time, grp) == [kind |-> kind, time |-> time, grp |-> grp]
Peer(kind, time, grp, peer) == Event(kind, time, grp) @@ [peer |-> peer]
Msg(time, grp, recv, peer, next, prev) ==
  Event("msg", time, grp) @@ [recv |-> recv, peer |-> peer, next |-> next, prev |-> prev]
Mkrun(time, grp, peer, weak) == Peer("mkrun", time, grp, peer) @@ [weak |-> weak]
RL(time, grp, owner, consumer) ==
  Event("rl", time, grp) @@ [owner |-> owner, consumer |-> consumer]
Hwbr(time, grp, read, peer) == Peer("hwbr", time, grp, peer) @@ [read |-> read]
Display(time, grp, sets) == Event("cadisplay", time, grp) @@ [sets |-> sets]

Group(events, next) ==
  [events |-> events, next |-> next, kernelWait |-> FALSE, workqReturn |-> FALSE,
   similar |-> FALSE]

\* A request and its reply between two threads, the thread of the reply woken
\* by the request, a block dispatched across, the second thread in two groups.
Request ==
  [group |-> << Group(<<"send", "mr", "enq", "recv">>, NoNode),
                Group(<<"woken", "get", "reply">>, 3),
                Group(<<"inv", "end">>, NoNode) >>,
   ev |-> "send" :> Msg(1, 1, FALSE, "get", NoEvent, NoEvent)
       @@ "mr" :> Mkrun(2, 1, "woken", FALSE)
       @@ "enq" :> Peer("enq", 3, 1, "inv")
       @@ "woken" :> Peer("fake", 4, 2, "mr")
       @@ "get" :> Msg(5, 2, TRUE, "send", "reply", NoEvent)
       @@ "reply" :> Msg(6, 2, FALSE, "recv", NoEvent, "get")
       @@ "inv" :> Peer("invoke", 7, 3, "enq")
       @@ "end" :> Peer("invoke", 8, 3, "inv")
       @@ "recv" :> Msg(9, 1, TRUE, "reply", NoEvent, NoEvent)]

\* Data connections: two layer updates shown by one display, a run-loop source
\* signalled twice before it runs and so with one consumer on two owners, a
\* flag written and read, a timer, a wake-up whose woken thread left the trace.
DataFlow ==
  [group |-> << Group(<<"set1", "set2", "sig", "create", "lost">>, 2),
                Group(<<"write", "self", "unself">>, NoNode),
                Group(<<"unset1", "unset2", "show", "read", "callout">>, NoNode) >>,
   ev |-> "set1" :> Peer("caset", 1, 1, "show")
       @@ "set2" :> Peer("caset", 2, 1, "show")
       @@ "sig" :> RL(3, 1, NoEvent, "unset2")
       @@ "create" :> Peer("create", 4, 1, "callout")
       @@ "lost" :> Mkrun(5, 1, "gone", FALSE)
       @@ "gone" :> Peer("fake", 6, NoNode, "lost")
       @@ "write" :> Hwbr(7, 2, FALSE, "read")
       @@ "self" :> RL(8, 2, NoEvent, "unself")
       @@ "unself" :> RL(9, 2, "self", NoEvent)
       @@ "unset1" :> RL(10, 3, "sig", NoEvent)
       @@ "unset2" :> RL(11, 3, "sig", NoEvent)
       @@ "show" :> Display(12, 3, <<"set1", "set2">>)
       @@ "read" :> Hwbr(13, 3, TRUE, "write")
       @@ "callout" :> Peer("callout", 14, 3, "create")]

\* Two weak wake-ups at once, a wake-up recorded after the thread it woke, a wake-up
\* beside another edge to the same node, and the endings that suppress a weak edge.
Wakeups ==
  [group |-> << Group(<<"mr1", "mr2", "late", "put">>, NoNode),
                [Group(<<"woken1", "bt", "take">>, 4) EXCEPT !.similar = TRUE],
                [Group(<<"woken2", "woken3">>, 5) EXCEPT !.kernelWait = TRUE],
                [Group(<<"bt2">>, 6) EXCEPT !.workqReturn = TRUE],
                Group(<<"bt3">>, NoNode),
                Group(<<"bt4">>, NoNode) >>,
   ev |-> "mr1" :> Mkrun(1, 1, "woken1", TRUE)
       @@ "mr2" :> Mkrun(2, 1, "woken2", TRUE)
       @@ "late" :> Mkrun(9, 1, "woken3", FALSE)
       @@ "put" :> Peer("enq", 10, 1, "take")
       @@ "woken1" :> Peer("fake", 3, 2, "mr1")
       @@ "bt" :> Event("backtrace", 4, 2)
       @@ "take" :> Peer("invoke", 11, 2, "put")
       @@ "woken2" :> Peer("fake", 5, 3, "mr2")
       @@ "woken3" :> Peer("fake", 8, 3, "late")
       @@ "bt2" :> Event("backtrace", 12, 4)
       @@ "bt3" :> Event("backtrace", 13, 5)
       @@ "bt4" :> Event("backtrace", 14, 6)]

\* Every trace speaks of the same events: those it lacks are outside its groups.
MCEventIds == UNION {DOMAIN tr.ev : tr \in {Request, DataFlow, Wakeups}}
Closed(tr) == [tr EXCEPT !.ev = @ @@ [e \in MCEventIds |-> Event("other", 0, NoNode)]]

MCAll == {Closed(tr) : tr \in {Request, DataFlow, Wakeups}}
=============================================================================
