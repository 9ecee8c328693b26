------------------------------ MODULE WaitGraph ------------------------------
(***************************************************************************)
(* The lists of events per thread (src/src/GraphsGenerator/group_init.cpp, *)
(* ListsCategory).                                                         *)
(*                                                                         *)
(* threads_wait_graph goes once through the sorted list of all events,     *)
(* files each under its thread and inserts, before the first event of a    *)
(* thread that was made runnable, an event of its own: faked_woken.  Then a *)
(* pool cleans the lists, a task for each thread: update_events_in_thread  *)
(* removes the wake-ups made by interrupts and by time-share maintenance,  *)
(* and, before a hardware breakpoint, the processing of its signal.        *)
(*                                                                         *)
(* A trace is a sequence of events in the order of time.  Event i has the  *)
(* number i; Woken(m) is the event inserted for the wake-up m.  Times are  *)
(* in hundredths.                                                          *)
(***************************************************************************)
EXTENDS Integers, Sequences, FiniteSets, SequencesExt

CONSTANTS Traces,      \* the traces
          Tids,        \* the threads of the trace
          NThreads     \* meta_data.nthreads, the threads of the pool

NoEvent == 0

\* An event: its thread and kind, the thread a wake-up wakes, whether a message is
\* one that is sent, its time and that at which an interrupt is over.
EventRecord == [tid : Tids, kind : STRING, peer : Tids, send : BOOLEAN, time : Int, finish : Int]

ASSUME TracesAssumption ==
  /\ NThreads \in Nat \ {0} /\ IsFiniteSet(Tids)
  /\ \A tr \in Traces :
       /\ tr \in Seq(EventRecord)
       /\ \A i \in DOMAIN tr : tr[i].kind # "faked"
       /\ \A i, j \in DOMAIN tr : i < j => tr[i].time <= tr[j].time

VARIABLES
  trace,     \* op_lists[0] as it was
  pos,       \* the event that threads_wait_graph is at
  waker,     \* who_make_me_run_map
  woken,     \* the event before which each wake-up's faked_woken was inserted
  all,       \* op_lists[0], with the inserted events
  list,      \* tid_lists
  phase,     \* "split", "clean", "done" or "crashed"
  pc,        \* what the task of each thread is about to do
  at,        \* its iterator
  sig,       \* its reverse iterator, step and count in remove_sigprocessing_events
  register,  \* the value of a counter it has loaded
  counter,   \* erased_tsm and erased_intr
  updated,   \* the events whose process information is up to date
  erased     \* history: the wake-ups erased, and what for

splitVars == <<trace, pos, waker, woken, all>>
taskVars  == <<pc, at, sig, register, counter, updated, erased>>
vars == <<splitVars, list, phase, taskVars>>

-----------------------------------------------------------------------------
(* Events.                                                                 *)

Woken(m)  == Len(trace) + m
Kind(e)   == IF e > Len(trace) THEN "faked" ELSE trace[e].kind
\* The constructor of faked_woken is given the time of the next event less 0.01.
Time(e)   == IF e > Len(trace) THEN trace[woken[e - Len(trace)]].time - 1 ELSE trace[e].time

\* MakeRunEvent::check_interrupt.
During(m, intr) == trace[intr].time < trace[m].time /\ trace[m].time < trace[intr].finish

\* The element after the one at position i of the thread's list is a wake-up.
WakeupNext(t, i) == i < Len(list[t]) /\ Kind(list[t][i + 1]) = "mr"

-----------------------------------------------------------------------------
(* threads_wait_graph.                                                     *)

\* The locals of remove_sigprocessing_events in a task that is not in it.
NoSearch == [r |-> 0, k |-> 1, count |-> 0]

Init ==
  /\ trace \in Traces
  /\ pos = 1 /\ waker = [t \in Tids |-> NoEvent] /\ woken = <<>>
  /\ all = <<>> /\ list = [t \in Tids |-> <<>>]
  /\ phase = "split"
  /\ pc = [t \in Tids |-> "posted"] /\ at = [t \in Tids |-> 1]
  /\ sig = [t \in Tids |-> NoSearch]
  /\ register = [t \in Tids |-> 0] /\ counter = [tsm |-> 0, intr |-> 0]
  /\ updated = {} /\ erased = <<>>

\* Mutant: the first of several wake-ups stays.
Wakes_First(m, old) == IF old # NoEvent THEN old ELSE m

\* What the map holds for a thread that m wakes.
Wakes(m, old) == m

\* Mutant: the inserted event comes after the first event.
Inserted_After(m, p) == IF m = NoEvent THEN <<p>> ELSE <<p, Woken(m)>>
\* What is filed with the event p of a thread that m has woken.
Inserted(m, p) == IF m = NoEvent THEN <<p>> ELSE <<Woken(m), p>>

\* One turn of the loop.
Split ==
  /\ phase = "split" /\ pos <= Len(trace)
  /\ LET t     == trace[pos].tid
         m     == waker[t]
         new   == Inserted(m, pos)
         after == [waker EXCEPT ![t] = NoEvent]
     IN  /\ woken' = [x \in DOMAIN woken \cup ({m} \ {NoEvent}) |-> IF x = m THEN pos ELSE woken[x]]
         /\ all' = all \o new
         /\ list' = [list EXCEPT ![t] = @ \o new]
         /\ waker' = IF trace[pos].kind # "mr" THEN after
                     ELSE [after EXCEPT ![trace[pos].peer] = Wakes(pos, @)]
  /\ pos' = pos + 1
  /\ UNCHANGED <<trace, phase, taskVars>>

\* Groups::para_preprocessing_tidlists posts a task for each thread of the trace.
Post ==
  /\ phase = "split" /\ pos > Len(trace)
  /\ phase' = "clean"
  /\ pc' = [t \in Tids |-> IF list[t] = <<>> THEN "finished" ELSE "posted"]
  /\ UNCHANGED <<splitVars, list, at, sig, register, counter, updated, erased>>

-----------------------------------------------------------------------------
(* update_events_in_thread.                                                *)

\* Where a task is before and after it reads the counter of the kind c.
Loads  == [tsm |-> "load tsm", intr |-> "load intr"]
Stores == [tsm |-> "store tsm", intr |-> "store intr"]

Idle(t) == pc[t] \in {"posted", "finished"}

Take(t) ==
  /\ phase = "clean" /\ pc[t] = "posted"
  /\ Cardinality({u \in Tids : ~Idle(u)}) < NThreads
  /\ pc' = [pc EXCEPT ![t] = "event"]
  /\ UNCHANGED <<splitVars, list, phase, at, sig, register, counter, updated, erased>>

\* Mutant: the iterator is not moved at the end of a turn.
NextTurn_Stay(t, i, n) ==
  /\ at' = [at EXCEPT ![t] = i]
  /\ pc' = [pc EXCEPT ![t] = IF i <= n THEN "event" ELSE "finished"]

\* The end of a turn and the test of the loop.
NextTurn(t, i, n) ==
  /\ at' = [at EXCEPT ![t] = i + 1]
  /\ pc' = [pc EXCEPT ![t] = IF i < n THEN "event" ELSE "finished"]

\* update_process_info of the event the iterator is at.
Informed(t) == updated \cup {list[t][at[t]]}

(* The beginning of a turn; a breakpoint sets the reverse iterator on the  *)
(* message nearest before it, if there is one.                             *)
Event(t) ==
  /\ phase = "clean" /\ pc[t] = "event"
  /\ updated' = Informed(t)
  /\ IF Kind(list[t][at[t]]) = "trap"
     THEN LET msgs == {i \in 1..at[t] : Kind(list[t][i]) = "msg"}
              r    == IF msgs = {} THEN 0 ELSE CHOOSE i \in msgs : \A j \in msgs : j <= i
          IN  /\ sig' = [sig EXCEPT ![t] = [NoSearch EXCEPT !.r = r]]
              /\ pc' = [pc EXCEPT ![t] = "sig"]
     ELSE /\ pc' = [pc EXCEPT ![t] = "tsm"]
          /\ UNCHANGED sig
  /\ UNCHANGED <<splitVars, list, phase, at, register, counter, erased>>

\* Mutant: a wake-up at the end of the list is not looked at.
TsmPair_NotLast(t) ==
  Kind(list[t][at[t]]) = "tsm" /\ WakeupNext(t, at[t]) /\ at[t] + 1 < Len(list[t])

TsmPair(t) == Kind(list[t][at[t]]) = "tsm" /\ WakeupNext(t, at[t])

(* Time-share maintenance and the wake-up after it are erased.             *)
Tsm(t) ==
  /\ phase = "clean" /\ pc[t] = "tsm"
  /\ IF TsmPair(t)
     THEN /\ list' = [list EXCEPT ![t] = RemoveAt(RemoveAt(@, at[t]), at[t])]
          /\ erased' = Append(erased, <<"tsm", t>>)
          /\ pc' = [pc EXCEPT ![t] = Loads["tsm"]]
     ELSE /\ pc' = [pc EXCEPT ![t] = "intr"]
          /\ UNCHANGED <<list, erased>>
  /\ UNCHANGED <<splitVars, phase, at, sig, register, counter, updated>>

\* Mutant: the iterator goes back from the head of the list, too.
Back_Before(i) == i - 1
\* Where the iterator goes from the event after the erased ones.
Back(i) == IF i = 1 THEN 1 ELSE i - 1

Incremented(n)      == n + 1

\* Mutant: the event after the erased ones is looked at.
NoEventAt_End(l, i) == i > Len(l)
\* The iterator has no event to go to.
NoEventAt(l, i) == l = <<>>

\* An increment of a plain int.
Load(t, c) ==
  /\ phase = "clean" /\ pc[t] = Loads[c]
  /\ register' = [register EXCEPT ![t] = counter[c]]
  /\ pc' = [pc EXCEPT ![t] = Stores[c]]
  /\ UNCHANGED <<splitVars, list, phase, at, sig, counter, updated, erased>>

\* After the increment the iterator goes back to the event before.  On an
\* empty list it is the end, which holds no event: its null is followed.
Store(t, c) ==
  /\ phase = "clean" /\ pc[t] = Stores[c]
  /\ counter' = [counter EXCEPT ![c] = Incremented(register[t])]
  /\ IF NoEventAt(list[t], at[t])
     THEN phase' = "crashed" /\ UNCHANGED <<pc, at>>
     ELSE /\ at' = [at EXCEPT ![t] = Back(@)]
          /\ pc' = [pc EXCEPT ![t] = "intr"]
          /\ UNCHANGED phase
  /\ UNCHANGED <<splitVars, list, sig, register, updated, erased>>

(* A wake-up that an interrupt made is erased and the interrupt looked at  *)
(* again.                                                                  *)
Intr(t) ==
  /\ phase = "clean" /\ pc[t] = "intr"
  /\ LET i == at[t]
     IN  IF /\ Kind(list[t][i]) = "intr" /\ WakeupNext(t, i)
            /\ During(list[t][i + 1], list[t][i])
         THEN /\ list' = [list EXCEPT ![t] = RemoveAt(@, i + 1)]
              /\ erased' = Append(erased, <<"intr", t>>)
              /\ at' = [at EXCEPT ![t] = i + 1]
              /\ pc' = [pc EXCEPT ![t] = Loads["intr"]]
         ELSE /\ NextTurn(t, i, Len(list[t]))
              /\ UNCHANGED <<list, erased>>
  /\ UNCHANGED <<splitVars, phase, sig, register, counter, updated>>

-----------------------------------------------------------------------------
(* remove_sigprocessing_events, one turn of its loops a step.              *)

\* sigprocessing_seq_reverse.
Pattern == <<"msg", "msg", "syscall", "backtrace", "wait", "mr", "msg">>

\* interrupt_mkrun_pair for the event at position r > 1.
MadeByInterrupt(t, r) ==
  /\ Kind(list[t][r]) = "mr"
  /\ \/ Kind(list[t][r - 1]) = "intr" /\ During(list[t][r], list[t][r - 1])
     \/ Kind(list[t][r - 1]) = "tsm"

\* The event is erased, the iterator goes to the one before, the step is k.
Erase(t, k) ==
  /\ list' = [list EXCEPT ![t] = RemoveAt(@, sig[t].r)]
  /\ sig' = [sig EXCEPT ![t] = [r |-> @.r - 1, k |-> k, count |-> @.count + 1]]

\* The iterator goes to position r, the step is k.
Pass(t, r, k) ==
  /\ sig' = [sig EXCEPT ![t] = [@ EXCEPT !.r = r, !.k = k]]
  /\ UNCHANGED list

\* The event the reverse iterator is at is of the kind of step k.
Fits(t, k) ==
  LET kind == Kind(list[t][sig[t].r])
  IN  kind = Pattern[k] \/ (kind = "reply" /\ Pattern[k] = "syscall")

Searching(t) ==
  phase = "clean" /\ pc[t] = "sig" /\ sig[t].r > 0 /\ sig[t].k <= Len(Pattern)
AtKind(t)  == Kind(list[t][sig[t].r])
Skipped(t) == AtKind(t) \in {"faked", "intr"} \/ (AtKind(t) = "mr" /\ MadeByInterrupt(t, sig[t].r))

\* The loop after retry: faked wake-ups are erased, interrupts and what they
\* made runnable are passed over.
SigSkip(t) ==
  /\ Searching(t)
  /\ LET r == sig[t].r
         k == sig[t].k
     IN  \/ AtKind(t) = "faked" /\ Erase(t, k)
         \/ AtKind(t) = "intr" /\ Pass(t, r - 1, k)
         \/ AtKind(t) = "mr" /\ r > 1 /\ MadeByInterrupt(t, r) /\ Pass(t, r - 2, k)
  /\ UNCHANGED <<splitVars, phase, pc, at, register, counter, updated, erased>>

\* interrupt_mkrun_pair looks at the event before the first one.
SigNull(t) ==
  /\ Searching(t) /\ AtKind(t) = "mr" /\ sig[t].r = 1
  /\ phase' = "crashed"
  /\ UNCHANGED <<splitVars, list, taskVars>>

\* The rest of a turn.  A wait may be missing, and what is no part of the
\* sequence ends it.
SigMatch(t) ==
  /\ Searching(t)
  /\ AtKind(t) \notin {"faked", "intr"}
  /\ AtKind(t) = "mr" => sig[t].r > 1 /\ ~MadeByInterrupt(t, sig[t].r)
  /\ LET r    == sig[t].r
         k    == sig[t].k
         over == Len(Pattern) + 1
         wait == Pattern[k] = "wait"
     IN  \/ wait /\ AtKind(t) \in {"mr", "msg"} /\ Pass(t, r, k + 1)
         \/ wait /\ AtKind(t) = "reply" /\ Erase(t, k)
         \/ Fits(t, k) /\ Erase(t, k + 1)
         \/ Pattern[k] = "mr" /\ AtKind(t) = "msg" /\ trace[list[t][r]].send /\ Erase(t, over)
         \/ /\ ~Fits(t, k) /\ ~(wait /\ AtKind(t) \in {"mr", "msg", "reply"})
            /\ ~(Pattern[k] = "mr" /\ AtKind(t) = "msg" /\ trace[list[t][r]].send)
            /\ Pass(t, r, over)
  /\ UNCHANGED <<splitVars, phase, pc, at, register, counter, updated, erased>>

\* The iterator of the caller moves by the number of events erased.
SigReturn(t) ==
  /\ phase = "clean" /\ pc[t] = "sig"
  /\ sig[t].r = 0 \/ sig[t].k > Len(Pattern)
  /\ at' = [at EXCEPT ![t] = @ - sig[t].count]
  /\ sig' = [sig EXCEPT ![t] = NoSearch]
  /\ pc' = [pc EXCEPT ![t] = "tsm"]
  /\ UNCHANGED <<splitVars, list, phase, register, counter, updated, erased>>

-----------------------------------------------------------------------------

\* The join of the pool.
Join ==
  /\ phase = "clean" /\ \A t \in Tids : pc[t] = "finished"
  /\ phase' = "done"
  /\ UNCHANGED <<splitVars, list, taskVars>>

Task(t) ==
  \/ Take(t) \/ Event(t) \/ Tsm(t) \/ Intr(t)
  \/ \E c \in {"tsm", "intr"} : Load(t, c) \/ Store(t, c)
  \/ SigSkip(t) \/ SigNull(t) \/ SigMatch(t) \/ SigReturn(t)

Stopped == phase \in {"done", "crashed"} /\ UNCHANGED vars

Next == Split \/ Post \/ Join \/ Stopped \/ \E t \in Tids : Task(t)

Spec == Init /\ [][Next]_vars

\* The main thread goes on, and so do the threads of the pool.
FairSpec ==
  /\ Spec
  /\ WF_vars(Split \/ Post \/ Join)
  /\ \A t \in Tids : WF_vars(Task(t))

-----------------------------------------------------------------------------
(* Correctness.                                                            *)

EventsOf(s) == {s[i] : i \in DOMAIN s}
Wakeups     == {m \in DOMAIN trace : trace[m].kind = "mr"}

\* Types: lists hold events of their thread, iterators are within their lists.
TypeOK ==
  /\ pos \in 1..Len(trace) + 1
  /\ phase \in {"split", "clean", "done", "crashed"}
  /\ DOMAIN woken \subseteq Wakeups /\ waker \in [Tids -> Wakeups \cup {NoEvent}]
  /\ EventsOf(all) \subseteq (1..pos - 1) \cup {Woken(m) : m \in DOMAIN woken}
  /\ \A t \in Tids :
       /\ EventsOf(list[t]) \subseteq EventsOf(all)
       /\ pc[t] \in {"event", "tsm", "intr"} => at[t] \in DOMAIN list[t]
       /\ sig[t].r \in 0..Len(list[t])
       /\ pc[t] \in {"posted", "event", "tsm", "intr", "load tsm", "store tsm",
                     "load intr", "store intr", "sig", "finished"}

\* The wake-ups of the thread of event p since it last ran.
WakersOf(p) ==
  {m \in Wakeups : /\ m < p /\ trace[m].peer = trace[p].tid
                   /\ \A q \in m + 1 .. p - 1 : trace[q].tid # trace[p].tid}

\* Each first event of a thread after wake-ups has one faked_woken, that of the
\* last wake-up, and no other event has one (who_make_me_run_map).
LastWakerWins ==
  \A m \in Wakeups, p \in 1..pos - 1 :
    (m \in DOMAIN woken /\ woken[m] = p)
      <=> (m \in WakersOf(p) /\ \A n \in WakersOf(p) : n <= m)

\* The list of a thread is in the order of time.  A faked_woken is put 0.01 before
\* the next event, which is too early only if that has the time of the one before.
InOrder ==
  \A t \in Tids : \A i, j \in DOMAIN list[t] :
    i < j => \/ Time(list[t][i]) <= Time(list[t][j])
             \/ /\ Kind(list[t][j]) = "faked"
                /\ LET next == woken[list[t][j] - Len(trace)]
                   IN  list[t][i] # next /\ Time(list[t][i]) = Time(next)

\* The pairs that update_events_in_thread removes, where they are left in a list.
TsmLeft(t)  == {i \in DOMAIN list[t] : Kind(list[t][i]) = "tsm" /\ WakeupNext(t, i)}
IntrLeft(t) == {i \in DOMAIN list[t] : /\ Kind(list[t][i]) = "intr" /\ WakeupNext(t, i)
                                       /\ During(list[t][i + 1], list[t][i])}

\* As the comment there says, "remove Interrupt/timeshare_maintainance event
\* waken": none is left.
NoneLeft == phase = "done" => \A t \in Tids : TsmLeft(t) = {} /\ IntrLeft(t) = {}

\* The thread of an event, and its neighbours before the cleaning.
TidOf(e) == IF Kind(e) = "faked" THEN trace[e - Len(trace)].peer ELSE trace[e].tid
Before(e, f) == \E i, j \in DOMAIN all : i < j /\ all[i] = e /\ all[j] = f
WereNeighbours(e, f) ==
  /\ TidOf(e) = TidOf(f) /\ Before(e, f)
  /\ \A x \in EventsOf(all) : TidOf(x) = TidOf(e) => ~(Before(e, x) /\ Before(x, f))

\* In a thread without breakpoints a pair is left only at the head of the list, or where
\* the two have become neighbours by the erasure of another pair between them.
PairsLeft(t) ==
  (\A i \in DOMAIN trace : trace[i].tid = t => trace[i].kind # "trap")
    => /\ IntrLeft(t) = {}
       /\ \A i \in TsmLeft(t) : i = 1 \/ ~WereNeighbours(list[t][i], list[t][i + 1])

\* An event leaves its list only as a wake-up, as the maintenance before one, or
\* with a later breakpoint of the thread, as one of the kinds of its signal.
Gone(t) == {e \in EventsOf(all) \ EventsOf(list[t]) : TidOf(e) = t}
IsNoise(t, e) ==
  \/ Kind(e) \in {"mr", "tsm"}
  \/ /\ Kind(e) \in {Pattern[k] : k \in DOMAIN Pattern} \cup {"reply", "faked"}
     /\ \E f \in EventsOf(list[t]) : Kind(f) = "trap" /\ Time(e) <= Time(f)

OnlyNoiseGoes == \A t \in Tids : \A e \in Gone(t) : IsNoise(t, e)

\* The process information of every event left is complete, but for one that takes
\* the place of a pair erased at the head of the list.
Informs(t) == \A i \in DOMAIN list[t] : list[t][i] \in updated \/ i = 1

\* The counters never exceed what was erased, and miss some of it only when two
\* tasks increment them at once (erased_tsm++, erased_intr++).
ErasedFor(c) == {k \in DOMAIN erased : erased[k][1] = c}
OneErases(c) == NThreads = 1 \/ \E t \in Tids : \A k \in ErasedFor(c) : erased[k][2] = t
CountsErased(c) ==
  LET total == Cardinality(ErasedFor(c))
  IN  /\ counter[c] <= total
      /\ total > 0 => counter[c] > 0
      /\ OneErases(c) => counter[c] = total

\* update_events_in_thread removes the faked pairs and nothing else, counts what it
\* removes, and completes the process information of every event left, but for one
\* that takes the place of a pair erased at the head of the list.
CleaningIsExact ==
  /\ OnlyNoiseGoes
  /\ phase = "done" =>
       /\ \A t \in Tids : PairsLeft(t) /\ Informs(t)
       /\ \A c \in DOMAIN counter : CountsErased(c)

\* A null event is followed only in a list whose erased pair was all it held, or
\* before a wake-up that begins a list in which a breakpoint is.
CrashesOnly ==
  phase = "crashed" =>
    \E t \in Tids : \/ list[t] = <<>> /\ erased # <<>>
                    \/ pc[t] = "sig" /\ Kind(list[t][1]) = "mr"

\* The lists are cleaned in the end.
Ends == <>(phase \in {"done", "crashed"})

=============================================================================
