----------------------------- MODULE MCWaitGraph -----------------------------
(***************************************************************************)
(* Instances of WaitGraph.                                                 *)
(***************************************************************************)
EXTENDS WaitGraph

CONSTANTS MaxShared,   \* the length of the traces of two threads
          MaxAlone,    \* the length of the traces of one thread
          Ties         \* the positions at which an event may have the time of the one before

A == "A"
B == "B"
MCTids == {A, B}

Ev(tid, kind, peer) == [tid |-> tid, kind |-> kind, peer |-> peer, send |-> FALSE]

\* Ten hundredths between two events but for the ties; an interrupt lasts for two events.
Timed(es, tie) ==
  LET time(i) == 10 * (i - Cardinality({j \in tie : j <= i}))
  IN  [i \in DOMAIN es |-> es[i] @@ [time |-> time(i), finish |-> time(i) + 25]]
UpTo(n, S) == UNION {[1..k -> S] : k \in 1..n}

\* Thread A with wake-ups, maintenance and interrupts; thread B with wake-ups.
OfA == {Ev(A, "tsm", B), Ev(A, "mr", B), Ev(A, "intr", B), Ev(A, "other", B)}
OfB == {Ev(B, "mr", A), Ev(B, "mr", B), Ev(B, "other", A)}
\* Both threads have a pair to erase.
Race == <<Ev(A, "other", B), Ev(B, "other", A), Ev(A, "tsm", B), Ev(A, "mr", A),
          Ev(A, "tsm", B), Ev(A, "mr", B), Ev(B, "tsm", A), Ev(B, "mr", A)>>

MCTraces ==
  {Timed(es, tie) : es \in UpTo(MaxShared, OfA \cup OfB), tie \in {{}} \cup {{i} : i \in Ties}}
    \cup {Timed(es, {}) : es \in UpTo(MaxAlone, OfA) \cup {Race}}

\* A thread before a breakpoint: the processing of the signal, some of its events
\* missing, others between them, and a wake-up of the thread.
Signal ==
  <<Ev(A, "mr", B), Ev(A, "msg", B), Ev(A, "mr", B), Ev(A, "wait", B), Ev(B, "mr", A),
    Ev(A, "reply", B), Ev(A, "other", B), Ev(A, "backtrace", B), Ev(A, "intr", B), Ev(A, "mr", B),
    Ev(A, "syscall", B), Ev(A, "msg", B), Ev(A, "msg", B), Ev(A, "trap", B)>>
Always == {5, 8, 9, Len(Signal) - 2, Len(Signal) - 1, Len(Signal)}
MCSignals ==
  {Timed([i \in DOMAIN places |-> [Signal[places[i]] EXCEPT !.send = sent]], {}) :
     places \in {SelectSeq([i \in DOMAIN Signal |-> i], LAMBDA i : i \in kept \cup Always) :
                  kept \in SUBSET (DOMAIN Signal \ Always)},
     sent \in BOOLEAN}

MCAll == MCTraces \cup MCSignals

=============================================================================
