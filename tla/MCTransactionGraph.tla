-------------------------- MODULE MCTransactionGraph --------------------------
(***************************************************************************)
(* Instances of TransactionGraph: eight groups on a user-interface thread  *)
(* and three workers, with every choice of the connections between them.   *)
(***************************************************************************)
EXTENDS TransactionGraph, TLC

CONSTANTS MainKnown    \* whether the trace says which thread is the main one

\* The user-interface thread has the groups 1 to 4; 3 updates the views, 4 begins the
\* next application event.  5 and 6 are of worker A, 7 of B, 8 of C.
MCGroups == <<
  [thread |-> "ui", next |-> 2, events |-> <<"b0", "app", "b1", "b2">>],
  [thread |-> "ui", next |-> 3, events |-> <<"c1", "c2">>],
  [thread |-> "ui", next |-> 4, events |-> <<"d1">>],
  [thread |-> "ui", next |-> 0, events |-> <<"e1">>],
  [thread |-> "A",  next |-> 6, events |-> <<"f1", "f2", "f3">>],
  [thread |-> "A",  next |-> 0, events |-> <<"g1">>],
  [thread |-> "B",  next |-> 0, events |-> <<"h1", "h2">>],
  [thread |-> "C",  next |-> 0, events |-> <<"i1">>]>>

\* Each event's kind, time and peer; x is in no group.
E0(kind, time, peer) == [kind |-> kind, time |-> time, peer |-> peer]
Base == [
  b0 |-> E0("backtrace", 0, NoEvent), app |-> E0("nsapp", 1, NoEvent),
  b1 |-> E0("enq", 2, "i1"), b2 |-> E0("msg", 3, "h1"),
  h1 |-> E0("mkrun", 4, "f1"),   h2 |-> E0("create", 13, "d1"),
  f1 |-> E0("hwbr", 5, "c2"),    f2 |-> E0("rl", 6, "x"),        f3 |-> E0("msg", 11, "e1"),
  c1 |-> E0("enq", 8, "g1"),   c2 |-> E0("other", 9, NoEvent), g1 |-> E0("caset", 14, "c1"),
  d1 |-> E0("caset", 15, NoEvent), e1 |-> E0("nsapp", 16, NoEvent), x |-> E0("other", 17, NoEvent),
  i1 |-> E0("enq", 4, "f2")]
MCEventIds == DOMAIN Base
\* The group of f2 is reached by its first event, and if b1 is connected by its second, too.
Optional   == {"b1", "h2", "f1", "f2", "f3", "c1"}

\* The trace with the connections of the events conns.
TraceOf(conns, cuts, known) ==
  LET peer(e) == IF e \in conns THEN Base[e].peer ELSE NoEvent
      home(e) == {g \in DOMAIN MCGroups : \E i \in DOMAIN MCGroups[g].events : MCGroups[g].events[i] = e}
  IN  [main  |-> known,
       group |-> [g \in DOMAIN MCGroups |-> MCGroups[g] @@ [cut |-> g \in cuts]],
       ev    |-> [e \in MCEventIds |->
          [kind |-> Base[e].kind, time |-> Base[e].time,
           grp  |-> IF home(e) = {} THEN NoGroup ELSE CHOOSE g \in home(e) : TRUE,
           recv |-> e = "f3", next |-> IF e = "f3" THEN peer(e) ELSE NoEvent,
           peer |-> IF e = "f3" THEN NoEvent ELSE peer(e), read |-> FALSE]]]

MCTraces ==
  {TraceOf(conns, cuts, known) :
     conns \in {c \cup {"b2", "h1", "i1", "g1"} : c \in SUBSET Optional}, cuts \in {{}, {2, 5}}, known \in {NoThread} \cup MainKnown}

=============================================================================
