---------------------------- MODULE ProcessTable ----------------------------
(* What the program knows of the threads: LoadData::tpc_maps, which is      *)
(* loaded from a file before every construction, kept from one construction *)
(* to the next, and completed by the pool that cleans the lists of events   *)
(* (Groups::para_preprocessing_tidlists), one task per thread. No lock      *)
(* protects the table: a task adds the entry of its own thread, looks names *)
(* up in the entries of the others, and completes its entry and its events  *)
(* from each other. What the same tasks remove from the lists is in         *)
(* WaitGraph; a list here is what remains of it.                            *)
EXTENDS Integers, Sequences, FiniteSets, SequencesExt

CONSTANTS
  Workers,    \* the threads of the pool (meta_data.nthreads)
  MapFile,    \* tpcmap.log: a sequence of [tid, pid, name]
  Procs,      \* current_procs.log: the names of some processes
  Traces,     \* for each log file, the [pid, name] of each thread's events
  Dotted,     \* names with other characters than letters, digits, space, _ and -
  Torn,       \* the copy of a name made while the name is assigned
  Null        \* no process information

Blank == ""
Unknown == -1
Logs == DOMAIN Traces

\* The names that a log and the files tell of, and those of all logs.
OwnNames(l) == {Blank, Torn} \cup Range(Procs) \cup {MapFile[i].name : i \in DOMAIN MapFile}
               \cup UNION {{e.name : e \in Range(Traces[l][t])} : t \in DOMAIN Traces[l]}
Names == UNION {OwnNames(l) : l \in Logs}

Infos == [pid : Int, name : Names]
Lines == [tid : Nat, pid : Int, name : Names \ {Blank}]

ASSUME NamesOK == Torn \notin Dotted \cup {Blank} /\ Null \notin Infos

ASSUME TracesOK ==
  /\ Logs # {} /\ MapFile \in Seq(Lines)
  /\ \A l \in Logs : \A t \in DOMAIN Traces[l] :
       t \in Nat /\ Traces[l][t] \in Seq(Infos) /\ Traces[l][t] # <<>>

VARIABLES
  table,      \* tpc_maps: Null or [pid, name] for each thread entered
  events,     \* the process information of the events, by thread
  queue,      \* the threads whose tasks are not taken yet
  worker,     \* [pc, tid, at, name] of each worker of the pool
  phase,      \* "idle", "pool", "crashed", or "exited" (by the shell)
  log,        \* the log being processed, or the last one
  start,      \* the table when the pool started (history)
  earlier     \* the events of the first construction from each log (history)

vars == <<table, events, queue, worker, phase, log, start, earlier>>

-----------------------------------------------------------------------------
(* ProcessInfo *)

ValidName(n) == IF n \in Dotted THEN Blank ELSE n
NewInfo(pid, name) == [pid |-> pid, name |-> ValidName(name)]

\* Mutant: an entry that is there is kept as it is.
Reload_Keep(p, line) == p

Reload(p, line) ==
  [pid |-> IF line.pid > 0 THEN line.pid ELSE p.pid, name |-> line.name]

\* event->update_process_info(*p) completes each from the other; where both
\* have a name the one of the event is kept.
UpdatedEvent(e, p) ==
  [pid  |-> IF e.pid = Unknown THEN p.pid ELSE e.pid,
   name |-> IF e.name = Blank THEN p.name ELSE e.name]
UpdatedInfo(p, e) ==
  [pid  |-> IF p.pid = Unknown THEN e.pid ELSE p.pid,
   name |-> IF e.name = Blank THEN p.name ELSE e.name]

\* One line of the map file.
Load(tab, line) ==
  [t \in DOMAIN tab \cup {line.tid} |->
     IF t # line.tid THEN tab[t]
     ELSE IF t \in DOMAIN tab THEN Reload(tab[t], line)
     ELSE NewInfo(line.pid, line.name)]

LoadTpcMaps(tab) ==
  LET after[n \in 0 .. Len(MapFile)] ==
        IF n = 0 THEN tab ELSE Load(after[n - 1], MapFile[n])
  IN after[Len(MapFile)]

\* Mutant: the threads the map file does not list are not entered.
Prepared_None(tab, l) == tab

\* The sequential pass enters every thread of the log, the unknown ones
\* without information.
Prepared(tab, l) ==
  [t \in DOMAIN tab \cup DOMAIN Traces[l] |->
     IF t \in DOMAIN tab THEN tab[t] ELSE Null]

Parsed(l) ==
  [t \in DOMAIN Traces[l] |->
     [i \in DOMAIN Traces[l][t] |->
        NewInfo(Traces[l][t][i].pid, Traces[l][t][i].name)]]

NextKey(t) == Min({u \in DOMAIN table : u > t})

FindCommInProcs(pid) == IF pid \in DOMAIN Procs THEN Procs[pid] ELSE Blank
OrFromProcs(name, pid) == IF name = Blank THEN FindCommInProcs(pid) ELSE name

-----------------------------------------------------------------------------
(* The pool *)

Idle == [pc |-> "idle", tid |-> 0, at |-> 0, name |-> Blank]

Init ==
  /\ table = << >> /\ events = << >> /\ queue = {}
  /\ worker = [w \in Workers |-> Idle]
  /\ phase = "idle" /\ log = CHOOSE l \in Logs : TRUE
  /\ start = << >> /\ earlier = << >>

\* EventLists and ListsCategory: load, parse, enter the threads, post.
Begin(l) ==
  LET tab == Prepared(LoadTpcMaps(table), l) IN
  /\ phase = "idle"
  /\ log' = l /\ phase' = "pool"
  /\ table' = tab /\ start' = tab
  /\ events' = Parsed(l)
  /\ queue' = DOMAIN Traces[l]
  /\ UNCHANGED <<worker, earlier>>

At(w, pc) == phase = "pool" /\ worker[w].pc = pc

\* Mutant: the tasks are posted last thread first.
Take_Last(w) ==
  LET t == Max(queue) IN
  /\ At(w, "idle") /\ queue # {}
  /\ worker' = [worker EXCEPT ![w] = [Idle EXCEPT !.pc = "enter", !.tid = t]]
  /\ queue' = queue \ {t}
  /\ UNCHANGED <<table, events, phase, log, start, earlier>>

\* The tasks are posted, and taken, in the order of tid_lists.
Take(w) ==
  LET t == Min(queue) IN
  /\ At(w, "idle") /\ queue # {}
  /\ worker' = [worker EXCEPT ![w] = [Idle EXCEPT !.pc = "enter", !.tid = t]]
  /\ queue' = queue \ {t}
  /\ UNCHANGED <<table, events, phase, log, start, earlier>>

Entered(t) == IF table[t] = Null THEN NewInfo(Unknown, Last(events[t]).name) ELSE table[t]
NeedsName(p) == p.name = Blank /\ p.pid # Unknown

\* The first half of get_process_info: an entry for a thread without one.
Enter(w) ==
  LET t == worker[w].tid
      p == Entered(t)
  IN /\ At(w, "enter")
     /\ table' = [table EXCEPT ![t] = p]
     /\ worker' = [worker EXCEPT
          ![w].pc = IF NeedsName(p) THEN "find" ELSE "events",
          ![w].at = IF NeedsName(p) THEN Min(DOMAIN table) ELSE 1]
     /\ UNCHANGED <<events, queue, phase, log, start, earlier>>

\* A name that the owner of the entry is about to assign.
Assigned(t) ==
  {n \in UNION {IF worker[w].tid # t THEN {}
                ELSE IF worker[w].pc = "override" THEN {worker[w].name}
                ELSE IF worker[w].pc = "names" THEN {events[t][worker[w].at].name}
                ELSE {} : w \in Workers} : n \notin {Blank, table[t].name}}

NamesRead(t) == {table[t].name} \cup (IF Assigned(t) = {} THEN {} ELSE {Torn})

\* Mutant: the search goes on after a nameless entry of the process.
Find_Named(w) ==
  LET at == worker[w].at
      pid == table[worker[w].tid].pid
      stop(n) == n # Blank \/ \A v \in DOMAIN table : v <= at
  IN /\ At(w, "find")
     /\ \/ table[at] = Null /\ phase' = "crashed" /\ UNCHANGED worker
        \/ /\ table[at] # Null
           /\ \E n \in IF table[at].pid = pid THEN NamesRead(at) ELSE {Blank} :
                worker' = IF stop(n)
                          THEN [worker EXCEPT ![w].pc = "override",
                                              ![w].name = OrFromProcs(n, pid)]
                          ELSE [worker EXCEPT ![w].at = NextKey(at)]
           /\ UNCHANGED phase
     /\ UNCHANGED <<table, events, queue, log, start, earlier>>

\* pid2comm, one entry a step: it asserts that the entry is there, and stops
\* at the first of the process.
Find(w) ==
  LET at == worker[w].at
      pid == table[worker[w].tid].pid
  IN /\ At(w, "find")
     /\ \/ table[at] = Null /\ phase' = "crashed" /\ UNCHANGED worker
        \/ /\ table[at] # Null /\ table[at].pid # pid
           /\ worker' = [worker EXCEPT ![w].at = NextKey(at)]
           /\ UNCHANGED phase
        \/ /\ table[at] # Null /\ table[at].pid = pid
           /\ \E n \in NamesRead(at) :
                worker' = [worker EXCEPT ![w].pc = "override",
                                         ![w].name = OrFromProcs(n, pid)]
           /\ UNCHANGED phase
     /\ UNCHANGED <<table, events, queue, log, start, earlier>>

\* The second half of get_process_info.
Override(w) ==
  /\ At(w, "override")
  /\ table' = IF worker[w].name = Blank THEN table
              ELSE [table EXCEPT ![worker[w].tid].name = worker[w].name]
  /\ worker' = [worker EXCEPT ![w].pc = "events", ![w].at = 1, ![w].name = Blank]
  /\ UNCHANGED <<events, queue, phase, log, start, earlier>>

\* A turn of update_events_in_thread: first the process ids, then the names.
UpdatePid(w) ==
  LET t == worker[w].tid
      i == worker[w].at
  IN /\ At(w, "events")
     /\ events' = [events EXCEPT ![t][i].pid = UpdatedEvent(events[t][i], table[t]).pid]
     /\ table' = [table EXCEPT ![t].pid = UpdatedInfo(table[t], events[t][i]).pid]
     /\ worker' = [worker EXCEPT ![w].pc = "names"]
     /\ UNCHANGED <<queue, phase, log, start, earlier>>

UpdateName(w) ==
  LET t == worker[w].tid
      i == worker[w].at
  IN /\ At(w, "names")
     /\ events' = [events EXCEPT ![t][i].name = UpdatedEvent(events[t][i], table[t]).name]
     /\ table' = [table EXCEPT ![t].name = UpdatedInfo(table[t], events[t][i]).name]
     /\ worker' = [worker EXCEPT ![w] =
          IF i = Len(events[t]) THEN Idle ELSE [@ EXCEPT !.pc = "events", !.at = i + 1]]
     /\ UNCHANGED <<queue, phase, log, start, earlier>>

Join ==
  /\ phase = "pool" /\ queue = {}
  /\ \A w \in Workers : worker[w] = Idle
  /\ phase' = "idle"
  /\ earlier' = IF log \in DOMAIN earlier THEN earlier
                ELSE [l \in DOMAIN earlier \cup {log} |->
                        IF l = log THEN events ELSE earlier[l]]
  /\ UNCHANGED <<table, events, queue, worker, log, start>>

Task(w) == Take(w) \/ Enter(w) \/ Find(w) \/ Override(w) \/ UpdatePid(w) \/ UpdateName(w)

-----------------------------------------------------------------------------
(* Properties *)

\* Every thread of the log is entered; only one whose task is still to enter
\* it has no information. A worker is on a thread of the log, at an entry or an
\* event that is there. About ListsCategory::prepare_list_for_tid and the tasks.
TypeOK ==
  /\ phase \in {"idle", "pool", "crashed", "exited"} /\ log \in Logs
  /\ DOMAIN events \subseteq DOMAIN table
  /\ \A t \in DOMAIN table :
       \/ table[t] \in Infos
       \/ table[t] = Null /\ t \in queue
       \/ table[t] = Null /\ \E w \in Workers : worker[w].tid = t /\ worker[w].pc = "enter"
  /\ \A w \in Workers :
       /\ worker[w].pc = "find" => worker[w].at \in DOMAIN table
       /\ worker[w].pc \in {"events", "names"} => worker[w].at \in DOMAIN events[worker[w].tid]
       /\ worker[w] # Idle => worker[w].tid \notin queue

\* A lookup never meets a thread without information: the lists and the table
\* are prepared "for lock free multi-thread processing" (group_init.cpp:31).
LookupsFindInfo == phase # "crashed"

\* A lookup meets such a thread only while another worker has taken the task of
\* that thread and not entered it yet; so a pool of one never does, whatever
\* the map file lacks. It rests on the order of the tasks and on the search
\* stopping at the looking thread's own entry.
OnlyEnteringThreadsAreMissed ==
  phase = "crashed" =>
    \E w, v \in Workers : /\ worker[w].pc = "find" /\ worker[v].pc = "enter"
                          /\ worker[w].at = worker[v].tid
                          /\ worker[v].tid < worker[w].tid

\* The tasks one after the other, as a pool of one runs them. The lookup of
\* thread t, whose entry is p, in a table:
Pid2Comm(tab, t, p) ==
  LET same == {u \in DOMAIN tab \ {t} : tab[u] # Null /\ tab[u].pid = p.pid} \cup {t}
      first == Min(same)
  IN OrFromProcs(IF first = t THEN p.name ELSE tab[first].name, p.pid)

\* The entry of t when the task comes to its events, which are list, and after
\* each of them.
Opening(list, tab, t) ==
  LET p == IF tab[t] = Null THEN NewInfo(Unknown, Last(list).name) ELSE tab[t]
  IN IF NeedsName(p) THEN [p EXCEPT !.name = Pid2Comm(tab, t, p)] ELSE p

Turn(list, tab, t) ==
  LET after[i \in 0 .. Len(list)] ==
        IF i = 0 THEN Opening(list, tab, t) ELSE UpdatedInfo(after[i - 1], list[i])
  IN after

\* The table, which was tab, when the threads of log l below n had their turn.
Before(l, tab, n) ==
  LET lists == Parsed(l)
      done(x, t) == [x EXCEPT ![t] = Turn(lists[t], x, t)[Len(lists[t])]]
      after[k \in 0 .. n] ==
        IF k = 0 THEN tab
        ELSE IF k - 1 \in DOMAIN Traces[l] THEN done(after[k - 1], k - 1)
        ELSE after[k - 1]
  IN after[n]

InTurn(t) == Turn(Parsed(log)[t], Before(log, start, t), t)

\* The thread looks its name up where an earlier thread's task may still be
\* changing the entry of the same process, if only for a while.
Contested(t) ==
  /\ start[t] # Null /\ NeedsName(start[t])
  /\ \E u \in DOMAIN Traces[log] :
       LET result == Before(log, start, t)[u] IN
       /\ u < t /\ result.pid = start[t].pid
       /\ \/ result # start[u]
          \/ \E i \in DOMAIN Parsed(log)[u] : Parsed(log)[u][i].name \notin {Blank, start[u].name}

Joined == phase = "idle" /\ DOMAIN events # {}

\* After the join every event and every entry is what a pool of one worker
\* gives, except of a thread that looks its name up while an earlier thread of
\* its process is learning its own. About ListsCategory::get_process_info and
\* update_events_in_thread.
OnlyContestedNamesVary ==
  Joined =>
    \A t \in DOMAIN events :
      LET list == Parsed(log)[t] IN
      \/ /\ table[t] = InTurn(t)[Len(list)]
         /\ events[t] = [i \in DOMAIN list |-> UpdatedEvent(list[i], InTurn(t)[i - 1])]
      \/ Contested(t)

FromFile(t) == \E i \in DOMAIN MapFile : MapFile[i].tid = t
Complete(p) == p.name # Blank /\ p.pid # Unknown
OwnPids(l) == {Unknown} \cup {MapFile[i].pid : i \in DOMAIN MapFile}
              \cup UNION {{e.pid : e \in Range(Traces[l][t])} : t \in DOMAIN Traces[l]}

Filed(t) == LoadTpcMaps(<< >>)[t]
Told(l, t) == IF t \in DOMAIN Traces[l] THEN Range(Traces[l][t]) ELSE {}
\* The threads of the process of t, and itself.
Kin(t) == {t} \cup {u \in DOMAIN table : /\ Null \notin {table[t], table[u]}
                                         /\ table[u].pid = table[t].pid /\ table[t].pid # Unknown}

\* Constructing again from one log gives an event of a thread that the map
\* file describes the same process as before, and never one with less known of
\* it. What only another log tells of, an event has only if that log has been
\* constructed from, for the table outlives it: the process if the log tells it
\* of the event's own thread, and the map file does not; the name if the log
\* tells it of a thread of the process, and the map file does not list the
\* thread of the event. About LoadData::load_tpc_maps and tpc_maps.
IdentityAcrossBuilds ==
  Joined =>
    \A t \in DOMAIN events : \A i \in DOMAIN events[t] :
      LET e == events[t][i]
          was == earlier[log][t][i]
          others == DOMAIN earlier \ {log}
      IN /\ FromFile(t) /\ Complete(Filed(t)) => e = was
         /\ was.pid # Unknown => e.pid = was.pid
         /\ was.name # Blank => e.name # Blank
         /\ e.pid \notin OwnPids(log) =>
              /\ FromFile(t) => Filed(t).pid = Unknown
              /\ \E l \in others : \E x \in Told(l, t) : x.pid = e.pid
         /\ e.name \notin OwnNames(log) =>
              /\ ~FromFile(t)
              /\ \E l \in others, u \in Kin(t) : \E x \in Told(l, u) : x.name = e.name
=============================================================================
