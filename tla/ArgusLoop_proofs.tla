--------------------------- MODULE ArgusLoop_proofs ---------------------------
(***************************************************************************)
(* The theorems on the shell and on the table of processes, for any number *)
(* of workers of the pool, logs, threads and constructions.                *)
(***************************************************************************)
EXTENDS ArgusLoop, Integers, SequencesExt, FiniteSetTheorems, SequenceTheorems, WellFoundedInduction, TLAPS

\* A non-empty set of naturals has a least element.
LEMMA MinExists ==
  ASSUME NEW S \in SUBSET Nat, S # {}
  PROVE  \E i \in S : \A j \in S : i <= j
<1> DEFINE less == {x \in Nat \X Nat : x[1] < x[2]}
<1>1. IsWellFoundedOn(less, Nat)
  BY NatLessThanWellFounded DEF OpToRel
<1>2. PICK i \in S : \A j \in S : ~ (<<j, i>> \in less)
  BY <1>1, WFMin
<1>3. ASSUME NEW j \in S PROVE i <= j
  <2>1. ~(<<j, i>> \in less) /\ i \in Nat /\ j \in Nat
    BY <1>2
  <2> QED BY <2>1
<1> QED BY <1>3

\* Which construction each pointer can be from, and what is deleted, in each
\* phase: at the prompt the event graph is the last construction, during a
\* construction there is none, and all others' groups are deleted. A
\* transaction graph is of a construction there has been.
AtPrompt == eventGraph = builds /\ freed = (1 .. builds) \ {builds}
Building == builds > 0 /\ eventGraph = 0 /\ freed = (1 .. builds) \ {builds}
Over     == eventGraph = 0 /\ transGraph = 0 /\ freed = 1 .. builds

ShellInv ==
  /\ builds \in Nat
  /\ phase \in {"idle", "pool", "crashed", "exited"}
  /\ transGraph \in 0 .. builds
  /\ phase = "idle" => AtPrompt
  /\ phase \in {"pool", "crashed"} => Building
  /\ phase = "exited" => Over
  /\ misuse # "none" => /\ phase = "idle" /\ misuse \in {"save", "diagnose"}
                        /\ transGraph \in freed

-----------------------------------------------------------------------------

\* The shell starts without graphs, and nothing is deleted.
LEMMA InitEstablishes == InitShell => ShellInv
BY DEF InitShell, Init, ShellInv, AtPrompt

\* A new event graph replaces the last one, whose groups are deleted for the
\* first time.
LEMMA ConstructKeeps ==
  ASSUME ShellInv, NEW l \in Logs, ConstructEventGraph(l)
  PROVE  ShellInv'
<1>1. phase = "idle" /\ phase' = "pool"
  BY DEF ConstructEventGraph, Begin
<1>2. /\ builds \in Nat /\ builds' = builds + 1
      /\ eventGraph = builds /\ eventGraph' = 0
      /\ transGraph \in 0 .. builds /\ transGraph' = transGraph
      /\ freed = (1 .. builds) \ {builds} /\ freed' = freed \cup ({builds} \ {0})
  BY <1>1 DEF ConstructEventGraph, ShellInv, AtPrompt
<1>3. freed' = (1 .. builds') \ {builds'}
  BY <1>2
<1>4. misuse' = "none"
  BY <1>2 DEF ConstructEventGraph, Touch
<1> QED BY <1>1, <1>2, <1>3, <1>4 DEF ShellInv, Building

\* No task of the pool changes the shell, and none ends the pool but by a crash.
LEMMA TasksLeaveShell ==
  ASSUME ShellInv, NEW w \in Workers, Task(w), UNCHANGED shellVars
  PROVE  ShellInv'
<1>1. phase = "pool" /\ phase' \in {"pool", "crashed"}
  BY DEF Task, Take, Enter, Find, Override, UpdatePid, UpdateName, At
<1> QED BY <1>1 DEF ShellInv, Building, shellVars

\* The join hands the construction to the shell.
LEMMA JoinKeeps ==
  ASSUME ShellInv, Constructed
  PROVE  ShellInv'
<1>1. phase = "pool" /\ phase' = "idle"
  BY DEF Constructed, Join
<1> QED BY <1>1 DEF Constructed, ShellInv, Building, AtPrompt

\* A command at the prompt that touches the groups g of a graph it has touches
\* deleted ones only in the transaction graph.
LEMMA OnlyTransGraphIsStale ==
  ASSUME ShellInv, phase = "idle", NEW g \in Graphs, g \in freed
  PROVE  g = transGraph
BY DEF ShellInv, AtPrompt, Graphs

LEMMA CommandsKeep ==
  ASSUME ShellInv, ConstructTransGraph \/ SaveGraph \/ ViewVertex \/ BeamDiagnose
  PROVE  ShellInv'
<1>1. /\ phase = "idle" /\ misuse = "none"
      /\ UNCHANGED <<phase, builds, eventGraph, freed>>
  BY DEF ConstructTransGraph, SaveGraph, ViewVertex, BeamDiagnose, Prompt, vars
<1>2. eventGraph = builds /\ eventGraph \notin freed
  BY <1>1 DEF ShellInv, AtPrompt
<1>3. transGraph' \in 0 .. builds
  BY <1>2 DEF ConstructTransGraph, SaveGraph, ViewVertex, BeamDiagnose, ShellInv
<1>4. misuse' # "none" => /\ misuse' \in {"save", "diagnose"}
                          /\ transGraph' = transGraph /\ transGraph \in freed
  <2>1. CASE ConstructTransGraph
    BY <1>2, <2>1 DEF ConstructTransGraph, Touch
  <2>2. CASE ViewVertex
    BY <1>2, <2>2 DEF ViewVertex, Touch
  <2>3. CASE SaveGraph
    <3>1. PICK g \in Graphs : misuse' = Touch(g, "save")
      BY <2>3 DEF SaveGraph
    <3> QED BY <1>1, <2>3, <3>1, OnlyTransGraphIsStale DEF SaveGraph, Touch
  <2>4. CASE BeamDiagnose
    <3>1. PICK g \in Graphs : misuse' = Touch(g, "diagnose")
      BY <2>4 DEF BeamDiagnose
    <3> QED BY <1>1, <2>4, <3>1, OnlyTransGraphIsStale DEF BeamDiagnose, Touch
  <2> QED BY <2>1, <2>2, <2>3, <2>4
<1> QED BY <1>1, <1>3, <1>4 DEF ShellInv, AtPrompt

\* The end deletes the groups of the last event graph, for the first time.
LEMMA ExitKeeps ==
  ASSUME ShellInv, Exit
  PROVE  ShellInv'
<1>1. /\ phase = "idle" /\ phase' = "exited" /\ builds \in Nat /\ builds' = builds
      /\ eventGraph = builds /\ freed = (1 .. builds) \ {builds}
      /\ eventGraph' = 0 /\ transGraph' = 0
      /\ freed' = freed \cup ({builds} \ {0})
  BY DEF Exit, ShellInv, AtPrompt
<1>2. freed' = 1 .. builds'
  BY <1>1
<1>3. misuse' = "none"
  BY <1>1 DEF Exit, Touch
<1> QED BY <1>1, <1>2, <1>3 DEF ShellInv, Over

\* What the shell may hold in each phase, after any sequence of commands.
THEOREM ShellInvariant == Spec => []ShellInv
<1>1. InitShell => ShellInv
  BY InitEstablishes
<1>2. ShellInv /\ [Next]_allVars => ShellInv'
  <2> SUFFICES ASSUME ShellInv, [Next]_allVars PROVE ShellInv'
    OBVIOUS
  <2>1. ASSUME NEW l \in Logs, ConstructEventGraph(l) PROVE ShellInv'
    BY <2>1, ConstructKeeps
  <2>2. ASSUME NEW w \in Workers, Task(w), UNCHANGED shellVars PROVE ShellInv'
    BY <2>2, TasksLeaveShell
  <2>3. CASE Constructed
    BY <2>3, JoinKeeps
  <2>4. CASE ConstructTransGraph \/ SaveGraph \/ ViewVertex \/ BeamDiagnose
    BY <2>4, CommandsKeep
  <2>5. CASE Exit
    BY <2>5, ExitKeeps
  <2>6. CASE UNCHANGED allVars
    BY <2>6 DEF ShellInv, AtPrompt, Building, Over, allVars, vars, shellVars
  <2> QED BY <2>1, <2>2, <2>3, <2>4, <2>5, <2>6 DEF Next
<1> QED BY <1>1, <1>2, PTL DEF Spec

\* Groups are deleted once and by their owner, and deleted ones are touched
\* only by saving or searching a transaction graph older than the event graph.
THEOREM GroupsAreLeft == Spec => []DeletedGroupsAreLeft
<1>1. ShellInv => DeletedGroupsAreLeft
  <2> SUFFICES ASSUME ShellInv PROVE DeletedGroupsAreLeft
    OBVIOUS
  <2>1. phase \in {"idle", "exited"} => (1 .. builds) \ freed = {eventGraph} \ {0}
    BY DEF ShellInv, AtPrompt, Over
  <2>2. misuse # "none" => transGraph < eventGraph
    BY DEF ShellInv, AtPrompt
  <2> QED BY <2>1, <2>2 DEF DeletedGroupsAreLeft, ShellInv
<1> QED BY <1>1, ShellInvariant, PTL
-----------------------------------------------------------------------------
(* The table of processes and its tasks. *)

\* What the program keeps: the table names threads, each with information or
\* none, every list of events has some, and what waits in the pool is a list.
DataInv ==
  /\ log \in Logs
  /\ DOMAIN table \subseteq Nat
  /\ \A t \in DOMAIN table : table[t] \in Infos \cup {Null}
  /\ DOMAIN events \subseteq DOMAIN table
  /\ \A t \in DOMAIN events : events[t] \in Seq(Infos) /\ events[t] # <<>>
  /\ queue \subseteq DOMAIN events

Steps == {"idle", "enter", "find", "override", "events", "names"}

\* Where a task is: it was posted before all that wait; once it has entered
\* its thread the entry stays, and its search has not passed it.
TaskOK(w) ==
  LET t == worker[w].tid
      i == worker[w].at
      pc == worker[w].pc
  IN  /\ t \in DOMAIN events
      /\ \A u \in queue : t < u
      /\ pc # "enter" => table[t] # Null
      /\ pc = "find" => i \in DOMAIN table /\ i <= t
      /\ pc \in {"events", "names"} => i \in DOMAIN events[t]

WorkersInv ==
  /\ worker \in [Workers -> [pc : Steps, tid : Nat, at : Nat, name : Names]]
  /\ \A w \in Workers : IF worker[w].pc = "idle" THEN worker[w] = Idle ELSE TaskOK(w)

\* An entry without information is one whose task has still to enter it.
EntriesInv ==
  \A t \in DOMAIN table :
    table[t] = Null => \/ t \in queue
                       \/ \E w \in Workers : worker[w].tid = t /\ worker[w].pc = "enter"

PoolInv ==
  /\ phase \in {"idle", "pool", "crashed", "exited"}
  /\ phase \in {"idle", "exited"} => queue = {} /\ \A w \in Workers : worker[w] = Idle
  /\ phase = "crashed" =>
       \E w \in Workers : worker[w].pc = "find" /\ table[worker[w].at] = Null

TableInv == DataInv /\ WorkersInv /\ EntriesInv /\ PoolInv

\* The least of some numbers is one of them, and no other is less.
LEMMA MinIsLeast ==
  ASSUME NEW S \in SUBSET Nat, S # {}
  PROVE  Min(S) \in S /\ \A i \in S : Min(S) <= i
BY MinExists DEF Min

\* The blank name, torn names and those of processes are names.
LEMMA NamesKnown == Blank \in Names /\ Torn \in Names /\ \A p \in DOMAIN Procs : Procs[p] \in Names
<1>1. PICK l \in Logs : TRUE
  BY TracesOK
<1>2. Blank \in OwnNames(l) /\ Torn \in OwnNames(l) /\ \A p \in DOMAIN Procs : Procs[p] \in OwnNames(l)
  BY DEF OwnNames, Range
<1> QED BY <1>1, <1>2 DEF Names

\* Information is made of a process id and a name, whatever the name.
LEMMA NewInfoType ==
  ASSUME NEW pid \in Int, NEW name \in Names
  PROVE  NewInfo(pid, name) \in Infos /\ NewInfo(pid, name) # Null
<1>1. ValidName(name) \in Names
  BY NamesKnown DEF ValidName
<1>2. NewInfo(pid, name) \in Infos
  BY <1>1 DEF NewInfo, Infos
<1> QED BY <1>2, NamesOK

\* Loading the map file line by line is defined.
LEMMA StepsDefined ==
  ASSUME NEW tab, NEW n \in Nat
  PROVE  \E f : f = [k \in 0 .. n |-> IF k = 0 THEN tab ELSE Load(f[k - 1], MapFile[k])]
<1> DEFINE Has(m) == \E f : f = [k \in 0 .. m |-> IF k = 0 THEN tab ELSE Load(f[k - 1], MapFile[k])]
           bad == {m \in Nat : ~Has(m)}
<1> SUFFICES bad = {}
  OBVIOUS
<1>1. SUFFICES ASSUME bad # {} PROVE FALSE
  OBVIOUS
<1>2. PICK m \in bad : \A i \in bad : m <= i
  BY <1>1, MinExists
<1>3. m # 0
  <2> SUFFICES ASSUME m = 0 PROVE Has(m)
    BY <1>2
  <2>1. PICK f : f = [k \in 0 .. m |-> tab]
    OBVIOUS
  <2> QED BY <2>1
<1>4. PICK f : f = [k \in 0 .. m - 1 |-> IF k = 0 THEN tab ELSE Load(f[k - 1], MapFile[k])]
  <2>1. m \in Nat /\ m - 1 \in Nat /\ ~(m <= m - 1)
    BY <1>2, <1>3
  <2>2. Has(m - 1)
    BY <1>2, <2>1
  <2> QED BY <2>2
<1> DEFINE g == [k \in 0 .. m |-> IF k < m THEN f[k] ELSE Load(f[m - 1], MapFile[m])]
<1>5. ASSUME NEW k \in 0 .. m PROVE g[k] = IF k = 0 THEN tab ELSE Load(g[k - 1], MapFile[k])
  <2>1. CASE k = 0
    <3>1. 0 \in 0 .. m - 1 /\ 0 < m
      BY <1>2, <1>3
    <3> QED BY <2>1, <3>1, <1>4
  <2>2. CASE k # 0 /\ k < m
    <3>1. k \in 0 .. m - 1 /\ k - 1 \in 0 .. m /\ k - 1 < m
      BY <1>2, <2>2
    <3>2. g[k] = f[k] /\ g[k - 1] = f[k - 1]
      BY <2>2, <3>1
    <3>3. f[k] = Load(f[k - 1], MapFile[k])
      BY <1>4, <2>2, <3>1
    <3> QED BY <2>2, <3>2, <3>3
  <2>3. CASE k = m
    <3>1. k - 1 \in 0 .. m /\ k - 1 < m
      BY <1>2, <1>3, <2>3
    <3>2. g[k - 1] = f[k - 1] /\ g[k] = Load(f[m - 1], MapFile[m])
      BY <1>2, <2>3, <3>1
    <3> QED BY <1>3, <2>3, <3>2
  <2> QED BY <1>2, <2>1, <2>2, <2>3
<1>6. g = [k \in 0 .. m |-> IF k = 0 THEN tab ELSE Load(g[k - 1], MapFile[k])]
  <2> DEFINE h == [k \in 0 .. m |-> IF k = 0 THEN tab ELSE Load(g[k - 1], MapFile[k])]
  <2>1. DOMAIN g = DOMAIN h /\ \A k \in 0 .. m : g[k] = h[k]
    BY <1>5
  <2> QED BY <2>1
<1>7. Has(m)
  BY <1>6
<1> QED BY <1>2, <1>7

\* The table loaded is the last of one for each line.
LEMMA LoadUnfolds ==
  ASSUME NEW tab, Len(MapFile) \in Nat
  PROVE  \E f : /\ LoadTpcMaps(tab) = f[Len(MapFile)]
                /\ f = [k \in 0 .. Len(MapFile) |-> IF k = 0 THEN tab ELSE Load(f[k - 1], MapFile[k])]
<1> DEFINE a == CHOOSE f : f = [k \in 0 .. Len(MapFile) |-> IF k = 0 THEN tab ELSE Load(f[k - 1], MapFile[k])]
<1>1. LoadTpcMaps(tab) = a[Len(MapFile)]
  BY DEF LoadTpcMaps
<1>2. a = [k \in 0 .. Len(MapFile) |-> IF k = 0 THEN tab ELSE Load(a[k - 1], MapFile[k])]
  BY StepsDefined
<1> HIDE DEF a
<1> QED BY <1>1, <1>2

\* Loading the map file keeps what is in the table, and enters threads with
\* their information.
LEMMA LoadKeepsInfo ==
  ASSUME NEW tab, DOMAIN tab \subseteq Nat, \A t \in DOMAIN tab : tab[t] \in Infos
  PROVE  /\ DOMAIN tab \subseteq DOMAIN LoadTpcMaps(tab) /\ DOMAIN LoadTpcMaps(tab) \subseteq Nat
         /\ \A t \in DOMAIN LoadTpcMaps(tab) : LoadTpcMaps(tab)[t] \in Infos
<1> DEFINE N == Len(MapFile)
           Good(x) == /\ DOMAIN tab \subseteq DOMAIN x /\ DOMAIN x \subseteq Nat
                      /\ \A t \in DOMAIN x : x[t] \in Infos
<1>1. N \in Nat /\ MapFile \in Seq(Lines)
  BY TracesOK
<1>2. PICK f : /\ LoadTpcMaps(tab) = f[N]
               /\ f = [k \in 0 .. N |-> IF k = 0 THEN tab ELSE Load(f[k - 1], MapFile[k])]
  BY <1>1, LoadUnfolds
<1>3. ASSUME NEW x, Good(x), NEW k \in 1 .. N PROVE Good(Load(x, MapFile[k]))
  <2>1. /\ MapFile[k].tid \in Nat /\ MapFile[k].pid \in Int /\ MapFile[k].name \in Names
    <3>1. MapFile[k] \in Lines
      BY <1>1
    <3> QED BY <3>1 DEF Lines
  <2>2. NewInfo(MapFile[k].pid, MapFile[k].name) \in Infos
    BY <2>1, NewInfoType
  <2>3. \A p \in Infos : Reload(p, MapFile[k]) \in Infos
    BY <2>1 DEF Reload, Infos
  <2>4. DOMAIN Load(x, MapFile[k]) = DOMAIN x \cup {MapFile[k].tid}
    BY DEF Load
  <2>5. ASSUME NEW t \in DOMAIN x \cup {MapFile[k].tid} PROVE Load(x, MapFile[k])[t] \in Infos
    BY <1>3, <2>2, <2>3 DEF Load
  <2> QED BY <1>3, <2>1, <2>4, <2>5
<1> DEFINE bad == {k \in 0 .. N : ~Good(f[k])}
<1>4. bad = {}
  <2> SUFFICES ASSUME bad # {} PROVE FALSE
    OBVIOUS
  <2>1. PICK k \in bad : \A i \in bad : k <= i
    <3>1. bad \in SUBSET Nat
      BY <1>1
    <3> QED BY <3>1, MinExists
  <2>2. k # 0
    BY <1>1, <1>2, <2>1
  <2>3. k \in 1 .. N /\ k - 1 \in 0 .. N /\ ~(k <= k - 1)
    BY <1>1, <2>1, <2>2
  <2>4. Good(f[k - 1])
    BY <2>1, <2>3
  <2>5. f[k] = Load(f[k - 1], MapFile[k])
    BY <1>2, <2>3
  <2>6. Good(f[k])
    BY <1>3, <2>3, <2>4, <2>5
  <2> QED BY <2>1, <2>6
<1>5. Good(f[N])
  BY <1>1, <1>4
<1> QED BY <1>2, <1>5

\* The actions of the pool, on the invariant.

LEMMA TableInit == Init => TableInv
<1> SUFFICES ASSUME Init PROVE TableInv
  OBVIOUS
<1>1. log \in Logs
  BY TracesOK DEF Init
<1>2. DataInv
  BY <1>1 DEF Init, DataInv
<1>3. WorkersInv
  <2>1. Idle \in [pc : Steps, tid : Nat, at : Nat, name : Names] /\ Idle.pc = "idle"
    BY NamesKnown DEF Idle, Steps
  <2> QED BY <2>1 DEF Init, WorkersInv
<1> QED BY <1>2, <1>3 DEF Init, TableInv, EntriesInv, PoolInv

\* At the prompt no task is under way and no entry lacks information.
LEMMA QuietAtPrompt ==
  ASSUME TableInv, phase \in {"idle", "exited"}
  PROVE  /\ queue = {} /\ \A w \in Workers : worker[w] = Idle
         /\ \A t \in DOMAIN table : table[t] \in Infos
<1>1. queue = {} /\ \A w \in Workers : worker[w] = Idle
  BY DEF TableInv, PoolInv
<1>2. \A w \in Workers : worker[w].pc # "enter"
  BY <1>1 DEF Idle
<1> QED BY <1>1, <1>2 DEF TableInv, DataInv, EntriesInv

\* The lists of events made from a log are lists of information, and none is empty.
LEMMA ParsedType ==
  ASSUME NEW l \in Logs, NEW t \in DOMAIN Traces[l]
  PROVE  Parsed(l)[t] \in Seq(Infos) /\ Parsed(l)[t] # <<>> /\ Len(Parsed(l)[t]) \in Nat \ {0}
<1> DEFINE s == Traces[l][t]
<1>1. s \in Seq(Infos) /\ Len(s) \in Nat /\ Len(s) # 0
  BY TracesOK
<1>2. Parsed(l)[t] = [i \in 1 .. Len(s) |-> NewInfo(s[i].pid, s[i].name)]
  <2>1. Parsed(l)[t] = [i \in DOMAIN s |-> NewInfo(s[i].pid, s[i].name)]
    BY Zenon DEF Parsed
  <2>2. DOMAIN s = 1 .. Len(s)
    BY <1>1
  <2> QED BY <2>1, <2>2, Zenon
<1>3. ASSUME NEW i \in 1 .. Len(s) PROVE NewInfo(s[i].pid, s[i].name) \in Infos
  <2>1. s[i] \in Infos
    BY <1>1
  <2>2. s[i].pid \in Int /\ s[i].name \in Names
    BY <2>1 DEF Infos
  <2> QED BY <2>2, NewInfoType
<1> HIDE DEF s
<1>4. [i \in 1 .. Len(s) |-> NewInfo(s[i].pid, s[i].name)] \in Seq(Infos)
  BY <1>1, <1>3
<1>5. DOMAIN Parsed(l)[t] = 1 .. Len(s)
  BY <1>2
<1>6. Parsed(l)[t] \in Seq(Infos)
  BY <1>2, <1>4
<1>7. 1 \in DOMAIN Parsed(l)[t]
  BY <1>1, <1>5
<1> QED BY <1>6, <1>7

\* Loading the map file and entering the threads of the log.
LEMMA BeginKeeps ==
  ASSUME TableInv, NEW l \in Logs, Begin(l)
  PROVE  TableInv'
<1> DEFINE old == LoadTpcMaps(table)
           tab == Prepared(old, l)
           list == Traces[l]
<1>1. /\ phase = "idle" /\ log' = l /\ phase' = "pool" /\ table' = tab
      /\ events' = Parsed(l) /\ queue' = DOMAIN list /\ worker' = worker
  BY DEF Begin
<1>2. \A w \in Workers : worker[w] = Idle
  BY <1>1, QuietAtPrompt
<1>3. DOMAIN old \subseteq Nat /\ \A t \in DOMAIN old : old[t] \in Infos
  BY <1>1, QuietAtPrompt, LoadKeepsInfo DEF TableInv, DataInv
<1>4. \A t \in DOMAIN list : t \in Nat /\ list[t] \in Seq(Infos) /\ list[t] # <<>>
  BY TracesOK
<1> HIDE DEF old, list
<1>5. /\ DOMAIN tab = DOMAIN old \cup DOMAIN list
      /\ \A t \in DOMAIN tab : tab[t] = IF t \in DOMAIN old THEN old[t] ELSE Null
  BY DEF Prepared, list
<1>6. /\ DOMAIN Parsed(l) = DOMAIN list
      /\ \A t \in DOMAIN list : Parsed(l)[t] \in Seq(Infos) /\ Parsed(l)[t] # <<>>
  <2>1. DOMAIN Parsed(l) = DOMAIN list
    BY DEF Parsed, list
  <2>2. ASSUME NEW t \in DOMAIN list PROVE Parsed(l)[t] \in Seq(Infos) /\ Parsed(l)[t] # <<>>
    BY ParsedType DEF list
  <2> QED BY <2>1, <2>2
<1> HIDE DEF tab
<1>7. DataInv'
  BY <1>1, <1>3, <1>4, <1>5, <1>6 DEF DataInv
<1>8. WorkersInv'
  BY <1>1, <1>2 DEF TableInv, WorkersInv, Idle
<1>9. EntriesInv'
  <2>1. \A t \in DOMAIN tab : tab[t] = Null => t \in DOMAIN list
    BY <1>3, <1>5, NamesOK
  <2> QED BY <1>1, <2>1 DEF EntriesInv
<1> QED BY <1>1, <1>7, <1>8, <1>9 DEF TableInv, PoolInv

\* A task goes to a worker before those of greater threads.
LEMMA TakeKeeps ==
  ASSUME TableInv, NEW w \in Workers, Take(w)
  PROVE  TableInv'
<1> DEFINE t == Min(queue)
           task == [Idle EXCEPT !.pc = "enter", !.tid = t]
<1>1. /\ phase = "pool" /\ worker[w].pc = "idle" /\ queue # {}
      /\ worker' = [worker EXCEPT ![w] = task] /\ queue' = queue \ {t}
      /\ UNCHANGED <<table, events, phase, log>>
  BY DEF Take, At
<1>2. queue \in SUBSET Nat
  BY DEF TableInv, DataInv
<1>3. t \in queue /\ \A u \in queue : t <= u
  BY <1>1, <1>2, MinIsLeast
<1>4. /\ task \in [pc : Steps, tid : Nat, at : Nat, name : Names]
      /\ task.pc = "enter" /\ task.tid = t
  BY <1>2, <1>3, NamesKnown DEF Idle, Steps
<1> HIDE DEF t, task
<1>5. worker \in [Workers -> [pc : Steps, tid : Nat, at : Nat, name : Names]]
  BY DEF TableInv, WorkersInv
<1>6. worker'[w] = task /\ \A v \in Workers \ {w} : worker'[v] = worker[v]
  BY <1>1, <1>5
<1>7. DataInv'
  BY <1>1 DEF TableInv, DataInv
<1>8. WorkersInv'
  <2>1. worker' \in [Workers -> [pc : Steps, tid : Nat, at : Nat, name : Names]]
    BY <1>1, <1>4, <1>5
  <2>2. TaskOK(w)'
    <3>1. t \in DOMAIN events /\ \A u \in queue' : t < u
      BY <1>1, <1>2, <1>3 DEF TableInv, DataInv
    <3> QED BY <1>1, <1>4, <1>6, <3>1 DEF TaskOK
  <2>3. ASSUME NEW v \in Workers \ {w}, worker'[v].pc # "idle" PROVE TaskOK(v)'
    <3>1. TaskOK(v)
      BY <1>6, <2>3 DEF TableInv, WorkersInv
    <3> QED BY <1>1, <1>6, <3>1 DEF TaskOK
  <2>4. ASSUME NEW v \in Workers, worker'[v].pc = "idle" PROVE worker'[v] = Idle
    BY <1>4, <1>6, <2>4 DEF TableInv, WorkersInv
  <2> QED BY <2>1, <2>2, <2>3, <2>4 DEF WorkersInv
<1>9. EntriesInv'
  <2> SUFFICES ASSUME NEW u \in DOMAIN table, table[u] = Null, u \notin queue'
               PROVE  \E v \in Workers : worker'[v].tid = u /\ worker'[v].pc = "enter"
    BY <1>1 DEF EntriesInv
  <2>1. CASE u = t
    BY <1>4, <1>6, <2>1
  <2>2. CASE u # t
    <3>1. PICK v \in Workers : worker[v].tid = u /\ worker[v].pc = "enter"
      BY <1>1, <2>2 DEF TableInv, EntriesInv
    <3> QED BY <1>1, <1>6, <3>1
  <2> QED BY <2>1, <2>2
<1> QED BY <1>1, <1>7, <1>8, <1>9 DEF TableInv, PoolInv

\* What a step of a task may change: its own entry, which then has information,
\* the information of its own events, and its own place.
OwnStep(w, p, task) ==
  LET t == worker[w].tid
  IN  /\ DOMAIN table' = DOMAIN table /\ table'[t] = p
      /\ \A u \in DOMAIN table \ {t} : table'[u] = table[u]
      /\ DOMAIN events' = DOMAIN events
      /\ \A u \in DOMAIN events : /\ events'[u] \in Seq(Infos)
                                  /\ DOMAIN events'[u] = DOMAIN events[u]
      /\ worker' = [worker EXCEPT ![w] = task]
      /\ UNCHANGED <<queue, phase, log>>

LEMMA OwnStepKeeps ==
  ASSUME TableInv, phase = "pool",
         NEW w \in Workers, worker[w].pc # "idle",
         NEW p \in Infos, NEW task \in [pc : Steps \ {"enter"}, tid : Nat, at : Nat, name : Names],
         OwnStep(w, p, task), task = Idle \/ (task.pc # "idle" /\ task.tid = worker[w].tid),
         task.pc = "find" => task.at \in DOMAIN table /\ task.at <= task.tid,
         task.pc \in {"events", "names"} => task.at \in DOMAIN events[worker[w].tid]
  PROVE  TableInv'
<1> DEFINE t == worker[w].tid
<1>1. /\ DOMAIN events' = DOMAIN events
      /\ \A u \in DOMAIN events : /\ events'[u] \in Seq(Infos)
                                  /\ DOMAIN events'[u] = DOMAIN events[u]
      /\ worker' = [worker EXCEPT ![w] = task]
      /\ UNCHANGED <<queue, phase, log>>
  BY DEF OwnStep
<1>2. worker \in [Workers -> [pc : Steps, tid : Nat, at : Nat, name : Names]]
  BY DEF TableInv, WorkersInv
<1>3. worker'[w] = task /\ \A v \in Workers \ {w} : worker'[v] = worker[v]
  BY <1>1, <1>2
<1>4. TaskOK(w)
  BY DEF TableInv, WorkersInv
<1>5. t \in DOMAIN events /\ t \in DOMAIN table /\ p # Null
  BY <1>4, NamesOK DEF TaskOK, TableInv, DataInv
<1>6. /\ DOMAIN table' = DOMAIN table /\ table'[t] = p
      /\ \A u \in DOMAIN table \ {t} : table'[u] = table[u]
  BY DEF OwnStep
<1> HIDE DEF t
<1>7. \A u \in DOMAIN table : table'[u] = Null => table[u] = Null /\ u # t
  BY <1>5, <1>6
<1>8. DataInv'
  <2>1. \A u \in DOMAIN events : events'[u] \in Seq(Infos) /\ events'[u] # <<>>
    <3> SUFFICES ASSUME NEW u \in DOMAIN events PROVE events'[u] # <<>>
      BY <1>1
    <3>1. events[u] \in Seq(Infos) /\ events[u] # <<>>
      BY DEF TableInv, DataInv
    <3>2. Len(events[u]) \in Nat /\ Len(events[u]) # 0 /\ DOMAIN events[u] = 1 .. Len(events[u])
      BY <3>1
    <3>3. 1 \in DOMAIN events'[u]
      BY <1>1, <3>2
    <3> QED BY <3>3
  <2>2. \A u \in DOMAIN table : table'[u] \in Infos \cup {Null}
    BY <1>6 DEF TableInv, DataInv
  <2> QED BY <1>1, <1>6, <2>1, <2>2 DEF TableInv, DataInv
<1>9. WorkersInv'
  <2>1. worker' \in [Workers -> [pc : Steps, tid : Nat, at : Nat, name : Names]]
    BY <1>1, <1>2
  <2>2. task.pc # "idle" => TaskOK(w)'
    <3> SUFFICES ASSUME task.pc # "idle" PROVE TaskOK(w)'
      OBVIOUS
    <3>1. task.tid = t /\ task.pc # "enter"
      BY DEF Idle, t
    <3>2. \A u \in queue : t < u
      BY <1>4 DEF TaskOK, t
    <3>3. task.pc \in {"events", "names"} => task.at \in DOMAIN events[t]
      BY DEF t
    <3> QED BY <1>1, <1>3, <1>5, <1>6, <3>1, <3>2, <3>3 DEF TaskOK
  <2>3. ASSUME NEW v \in Workers \ {w}, worker[v].pc # "idle" PROVE TaskOK(v)'
    <3>1. TaskOK(v)
      BY <2>3 DEF TableInv, WorkersInv
    <3>2. worker[v].tid \in DOMAIN table
      BY <3>1 DEF TaskOK, TableInv, DataInv
    <3>3. table[worker[v].tid] # Null => table'[worker[v].tid] # Null
      BY <1>7, <3>2
    <3> QED BY <1>1, <1>3, <1>6, <3>1, <3>3 DEF TaskOK
  <2>4. \A v \in Workers : worker'[v].pc = "idle" => worker'[v] = Idle
    BY <1>3 DEF TableInv, WorkersInv
  <2> QED BY <1>3, <2>1, <2>2, <2>3, <2>4 DEF WorkersInv
<1>10. EntriesInv'
  <2> SUFFICES ASSUME NEW u \in DOMAIN table, table'[u] = Null, u \notin queue
               PROVE  \E v \in Workers : worker'[v].tid = u /\ worker'[v].pc = "enter"
    BY <1>1, <1>6 DEF EntriesInv
  <2>1. table[u] = Null /\ u # t
    BY <1>7
  <2>2. PICK v \in Workers : worker[v].tid = u /\ worker[v].pc = "enter"
    BY <2>1 DEF TableInv, EntriesInv
  <2>3. v # w
    BY <2>1, <2>2 DEF t
  <2> QED BY <1>3, <2>2, <2>3
<1> QED BY <1>1, <1>8, <1>9, <1>10 DEF TableInv, PoolInv

\* An entry that is made for a thread without one has the name of its last event.
LEMMA EnterKeeps ==
  ASSUME TableInv, NEW w \in Workers, Enter(w)
  PROVE  TableInv'
<1> DEFINE t == worker[w].tid
           p == Entered(t)
           task == [worker[w] EXCEPT !.pc = IF NeedsName(p) THEN "find" ELSE "events",
                                     !.at = IF NeedsName(p) THEN Min(DOMAIN table) ELSE 1]
<1>1. /\ phase = "pool" /\ worker[w].pc = "enter"
      /\ table' = [table EXCEPT ![t] = p] /\ UNCHANGED <<events, queue, phase, log>>
  BY DEF Enter, At
<1>2. /\ worker[w] \in [pc : Steps, tid : Nat, at : Nat, name : Names] /\ TaskOK(w)
  BY <1>1 DEF TableInv, WorkersInv
<1>3. worker' = [worker EXCEPT ![w] = task]
  BY DEF Enter
<1>4. /\ DOMAIN table \in SUBSET Nat /\ t \in DOMAIN table /\ t \in DOMAIN events
      /\ events[t] \in Seq(Infos) /\ events[t] # <<>>
  BY <1>2 DEF TaskOK, TableInv, DataInv
<1>5. Min(DOMAIN table) \in DOMAIN table /\ Min(DOMAIN table) <= t
  BY <1>4, MinIsLeast
<1>6. p \in Infos
  <2>1. CASE table[t] = Null
    <3>1. Last(events[t]) \in Infos
      BY <1>4 DEF Last
    <3>2. Last(events[t]).name \in Names /\ Unknown \in Int
      BY <3>1 DEF Infos, Unknown
    <3>3. p = NewInfo(Unknown, Last(events[t]).name)
      BY <2>1 DEF Entered
    <3> QED BY <3>2, <3>3, NewInfoType
  <2>2. CASE table[t] # Null
    BY <1>4, <2>2 DEF Entered, TableInv, DataInv
  <2> QED BY <2>1, <2>2
<1>7. 1 \in DOMAIN events[t] /\ 1 \in Nat
  BY <1>4
<1> HIDE DEF p
<1>8. /\ task \in [pc : Steps \ {"enter"}, tid : Nat, at : Nat, name : Names]
      /\ task.tid = t /\ task.pc \in {"find", "events"}
      /\ task.pc = "find" => task.at = Min(DOMAIN table)
      /\ task.pc = "events" => task.at = 1
  BY <1>2, <1>4, <1>5 DEF Steps
<1>9. OwnStep(w, p, task)
  BY <1>1, <1>3, <1>4 DEF OwnStep, TableInv, DataInv
<1> HIDE DEF task
<1> QED BY <1>1, <1>4, <1>5, <1>6, <1>7, <1>8, <1>9, OwnStepKeeps

\* A name read is a name.
LEMMA NameReadType ==
  ASSUME TableInv, NEW t \in DOMAIN table, table[t] \in Infos, NEW n \in NamesRead(t), NEW pid
  PROVE  OrFromProcs(n, pid) \in Names
<1>1. n \in Names
  BY NamesKnown DEF NamesRead, Infos
<1>2. FindCommInProcs(pid) \in Names
  BY NamesKnown DEF FindCommInProcs
<1> QED BY <1>1, <1>2 DEF OrFromProcs

\* A search ends at the entry of its own thread at the latest.
LEMMA FindKeeps ==
  ASSUME TableInv, NEW w \in Workers, Find(w)
  PROVE  TableInv'
<1> DEFINE t == worker[w].tid
           i == worker[w].at
           pid == table[t].pid
<1>1. /\ phase = "pool" /\ worker[w].pc = "find" /\ UNCHANGED <<table, events, queue, log>>
  BY DEF Find, At
<1>2. /\ worker[w] \in [pc : Steps, tid : Nat, at : Nat, name : Names] /\ TaskOK(w)
      /\ worker \in [Workers -> [pc : Steps, tid : Nat, at : Nat, name : Names]]
  BY <1>1 DEF TableInv, WorkersInv
<1>3. /\ DOMAIN table \in SUBSET Nat /\ t \in DOMAIN table /\ table[t] \in Infos
      /\ i \in DOMAIN table /\ i <= t
  BY <1>1, <1>2 DEF TaskOK, TableInv, DataInv
<1>4. CASE table[i] = Null /\ phase' = "crashed" /\ UNCHANGED worker
  <2>1. DataInv' /\ WorkersInv'
    BY <1>1, <1>4 DEF TableInv, DataInv, WorkersInv, TaskOK
  <2>2. EntriesInv'
    BY <1>1, <1>4 DEF TableInv, EntriesInv
  <2> QED BY <1>1, <1>4, <2>1, <2>2 DEF TableInv, PoolInv
<1> DEFINE Stays(task) == OwnStep(w, table[t], task)
<1>5. ASSUME UNCHANGED phase, NEW task, worker' = [worker EXCEPT ![w] = task]
      PROVE  Stays(task)
  BY <1>1, <1>5 DEF OwnStep, TableInv, DataInv
<1>6. CASE table[i].pid # pid /\ UNCHANGED phase /\ worker' = [worker EXCEPT ![w].at = NextKey(i)]
  <2> DEFINE task == [worker[w] EXCEPT !.at = NextKey(i)]
             later == {u \in DOMAIN table : u > i}
  <2>1. i # t
    BY <1>6
  <2>2. t \in later /\ later \in SUBSET Nat
    BY <1>3, <2>1
  <2>3. NextKey(i) \in later /\ NextKey(i) <= t
    BY <2>2, MinIsLeast DEF NextKey
  <2> HIDE DEF later
  <2>4. NextKey(i) \in DOMAIN table /\ NextKey(i) \in Nat
    BY <2>2, <2>3 DEF later
  <2>5. /\ task \in [pc : Steps \ {"enter"}, tid : Nat, at : Nat, name : Names]
        /\ task.tid = t /\ task.pc = "find" /\ task.at = NextKey(i)
    BY <1>1, <1>2, <2>4 DEF Steps
  <2>6. worker' = [worker EXCEPT ![w] = task]
    BY <1>6
  <2> HIDE DEF task
  <2>7. Stays(task)
    BY <1>5, <1>6, <2>6
  <2> QED BY <1>1, <1>3, <2>3, <2>4, <2>5, <2>7, OwnStepKeeps
<1>7. CASE /\ table[i] # Null /\ UNCHANGED phase
           /\ \E n \in NamesRead(i) :
                worker' = [worker EXCEPT ![w].pc = "override", ![w].name = OrFromProcs(n, pid)]
  <2>1. PICK n \in NamesRead(i) :
          worker' = [worker EXCEPT ![w].pc = "override", ![w].name = OrFromProcs(n, pid)]
    BY <1>7
  <2> DEFINE name == OrFromProcs(n, pid)
             task == [worker[w] EXCEPT !.pc = "override", !.name = name]
  <2>2. name \in Names
    BY <1>3, <1>7, NameReadType DEF TableInv, DataInv
  <2> HIDE DEF name
  <2>3. /\ task \in [pc : Steps \ {"enter"}, tid : Nat, at : Nat, name : Names]
        /\ task.tid = t /\ task.pc = "override"
    BY <1>1, <1>2, <2>2 DEF Steps
  <2>4. worker' = [worker EXCEPT ![w] = task]
    BY <2>1 DEF name
  <2> HIDE DEF task
  <2>5. Stays(task)
    BY <1>5, <1>7, <2>4
  <2> QED BY <1>1, <1>3, <2>3, <2>5, OwnStepKeeps
<1> QED BY <1>4, <1>6, <1>7 DEF Find

LEMMA OverrideKeeps ==
  ASSUME TableInv, NEW w \in Workers, Override(w)
  PROVE  TableInv'
<1> DEFINE t == worker[w].tid
           n == worker[w].name
           p == IF n = Blank THEN table[t] ELSE [table[t] EXCEPT !.name = n]
           task == [worker[w] EXCEPT !.pc = "events", !.at = 1, !.name = Blank]
<1>1. /\ phase = "pool" /\ worker[w].pc = "override" /\ UNCHANGED <<events, queue, phase, log>>
      /\ worker' = [worker EXCEPT ![w] = task]
      /\ table' = IF n = Blank THEN table ELSE [table EXCEPT ![t].name = n]
  BY DEF Override, At
<1>2. worker[w] \in [pc : Steps, tid : Nat, at : Nat, name : Names] /\ TaskOK(w)
  BY <1>1 DEF TableInv, WorkersInv
<1>3. /\ t \in DOMAIN table /\ table[t] \in Infos /\ 1 \in DOMAIN events[t]
  BY <1>1, <1>2 DEF TaskOK, TableInv, DataInv
<1>4. p \in Infos
  BY <1>2, <1>3 DEF Infos
<1>5. DOMAIN table' = DOMAIN table /\ table'[t] = p /\ \A u \in DOMAIN table \ {t} : table'[u] = table[u]
  BY <1>1, <1>3
<1> HIDE DEF p
<1>6. /\ task \in [pc : Steps \ {"enter"}, tid : Nat, at : Nat, name : Names]
      /\ task.tid = t /\ task.pc = "events" /\ task.at = 1
  BY <1>2, NamesKnown DEF Steps
<1> HIDE DEF task
<1>7. OwnStep(w, p, task)
  BY <1>1, <1>5 DEF OwnStep, TableInv, DataInv
<1> QED BY <1>1, <1>3, <1>4, <1>6, <1>7, OwnStepKeeps

\* Completing an event and an entry from each other leaves information.
LEMMA UpdatesType ==
  ASSUME NEW e \in Infos, NEW p \in Infos
  PROVE  UpdatedEvent(e, p) \in Infos /\ UpdatedInfo(p, e) \in Infos
BY DEF UpdatedEvent, UpdatedInfo, Infos

\* One event of a list of information is replaced.
LEMMA ReplaceOne ==
  ASSUME NEW s \in Seq(Infos), NEW i \in DOMAIN s, NEW e \in Infos
  PROVE  [s EXCEPT ![i] = e] \in Seq(Infos) /\ DOMAIN [s EXCEPT ![i] = e] = DOMAIN s
OBVIOUS

LEMMA UpdatePidKeeps ==
  ASSUME TableInv, NEW w \in Workers, UpdatePid(w)
  PROVE  TableInv'
<1> DEFINE t == worker[w].tid
           i == worker[w].at
           e == events[t][i]
           p == [table[t] EXCEPT !.pid = UpdatedInfo(table[t], e).pid]
           f == [e EXCEPT !.pid = UpdatedEvent(e, table[t]).pid]
           task == [worker[w] EXCEPT !.pc = "names"]
<1>1. /\ phase = "pool" /\ worker[w].pc = "events" /\ UNCHANGED <<queue, phase, log>>
      /\ worker' = [worker EXCEPT ![w] = task]
      /\ table' = [table EXCEPT ![t] = p] /\ events' = [events EXCEPT ![t] = [events[t] EXCEPT ![i] = f]]
  BY DEF UpdatePid, At
<1>2. worker[w] \in [pc : Steps, tid : Nat, at : Nat, name : Names] /\ TaskOK(w)
  BY <1>1 DEF TableInv, WorkersInv
<1>3. /\ t \in DOMAIN table /\ table[t] \in Infos /\ t \in DOMAIN events /\ i \in DOMAIN events[t]
      /\ events[t] \in Seq(Infos)
  BY <1>1, <1>2 DEF TaskOK, TableInv, DataInv
<1>4. e \in Infos
  BY <1>3
<1> HIDE DEF e
<1>5. UpdatedInfo(table[t], e) \in Infos /\ UpdatedEvent(e, table[t]) \in Infos
  BY <1>3, <1>4, UpdatesType
<1>6. p \in Infos /\ f \in Infos
  BY <1>3, <1>4, <1>5 DEF Infos
<1> HIDE DEF p, f
<1> DEFINE s == [events[t] EXCEPT ![i] = f]
<1>7. s \in Seq(Infos) /\ DOMAIN s = DOMAIN events[t]
  BY <1>3, <1>6, ReplaceOne
<1> HIDE DEF s
<1>8. /\ task \in [pc : Steps \ {"enter"}, tid : Nat, at : Nat, name : Names]
      /\ task.tid = t /\ task.pc = "names" /\ task.at = i
  BY <1>2 DEF Steps
<1> HIDE DEF task
<1>9. events' = [events EXCEPT ![t] = s]
  BY <1>1 DEF s
<1>10. OwnStep(w, p, task)
  BY <1>1, <1>3, <1>7, <1>9 DEF OwnStep, TableInv, DataInv
<1> QED BY <1>1, <1>3, <1>6, <1>8, <1>10, OwnStepKeeps

LEMMA UpdateNameKeeps ==
  ASSUME TableInv, NEW w \in Workers, UpdateName(w)
  PROVE  TableInv'
<1> DEFINE t == worker[w].tid
           i == worker[w].at
           e == events[t][i]
           p == [table[t] EXCEPT !.name = UpdatedInfo(table[t], e).name]
           f == [e EXCEPT !.name = UpdatedEvent(e, table[t]).name]
           on == [worker[w] EXCEPT !.pc = "events", !.at = i + 1]
           task == IF i = Len(events[t]) THEN Idle ELSE on
<1>1. /\ phase = "pool" /\ worker[w].pc = "names" /\ UNCHANGED <<queue, phase, log>>
      /\ worker' = [worker EXCEPT ![w] = task]
      /\ table' = [table EXCEPT ![t] = p] /\ events' = [events EXCEPT ![t] = [events[t] EXCEPT ![i] = f]]
  BY DEF UpdateName, At
<1>2. worker[w] \in [pc : Steps, tid : Nat, at : Nat, name : Names] /\ TaskOK(w)
  BY <1>1 DEF TableInv, WorkersInv
<1>3. /\ t \in DOMAIN table /\ table[t] \in Infos /\ t \in DOMAIN events /\ i \in DOMAIN events[t]
      /\ events[t] \in Seq(Infos)
  BY <1>1, <1>2 DEF TaskOK, TableInv, DataInv
<1>4. e \in Infos
  BY <1>3
<1> HIDE DEF e
<1>5. UpdatedInfo(table[t], e) \in Infos /\ UpdatedEvent(e, table[t]) \in Infos
  BY <1>3, <1>4, UpdatesType
<1>6. p \in Infos /\ f \in Infos
  BY <1>3, <1>4, <1>5 DEF Infos
<1> HIDE DEF p, f
<1> DEFINE s == [events[t] EXCEPT ![i] = f]
<1>7. s \in Seq(Infos) /\ DOMAIN s = DOMAIN events[t]
  BY <1>3, <1>6, ReplaceOne
<1> HIDE DEF s
<1>8. i # Len(events[t]) => i + 1 \in DOMAIN events[t] /\ i + 1 \in Nat
  BY <1>3
<1>9. /\ Idle \in [pc : Steps \ {"enter"}, tid : Nat, at : Nat, name : Names] /\ Idle.pc = "idle"
  BY NamesKnown DEF Idle, Steps
<1>10. i # Len(events[t]) => /\ on \in [pc : Steps \ {"enter"}, tid : Nat, at : Nat, name : Names]
                             /\ on.tid = t /\ on.pc = "events" /\ on.at = i + 1
  BY <1>2, <1>8 DEF Steps
<1> HIDE DEF on
<1>11. IF i = Len(events[t]) THEN task = Idle ELSE task = on
  OBVIOUS
<1> HIDE DEF task
<1>12. /\ task \in [pc : Steps \ {"enter"}, tid : Nat, at : Nat, name : Names]
       /\ task = Idle \/ (task.pc # "idle" /\ task.tid = t)
       /\ task.pc # "find"
       /\ task.pc \in {"events", "names"} => task.at \in DOMAIN events[t]
  <2>1. CASE i = Len(events[t])
    <3>1. task = Idle
      BY <1>11, <2>1
    <3> QED BY <1>9, <3>1
  <2>2. CASE i # Len(events[t])
    BY <1>8, <1>10, <1>11, <2>2
  <2> QED BY <2>1, <2>2
<1>13. events' = [events EXCEPT ![t] = s]
  BY <1>1 DEF s
<1>14. OwnStep(w, p, task)
  BY <1>1, <1>3, <1>7, <1>13 DEF OwnStep, TableInv, DataInv
<1> QED BY <1>1, <1>3, <1>6, <1>12, <1>14, OwnStepKeeps

\* The end of the pool.
LEMMA JoinLeavesNothing ==
  ASSUME TableInv, Join
  PROVE  TableInv'
<1>1. /\ phase' = "idle" /\ queue = {} /\ \A w \in Workers : worker[w] = Idle
      /\ UNCHANGED <<table, events, queue, worker, log>>
  BY DEF Join
<1> QED BY <1>1 DEF TableInv, DataInv, WorkersInv, TaskOK, EntriesInv, PoolInv

\* The table stays what it is while no construction is under way.
LEMMA PromptLeavesTable ==
  ASSUME TableInv, table' = table, events' = events, queue' = queue, worker' = worker, log' = log,
         phase' = phase \/ (phase = "idle" /\ phase' = "exited")
  PROVE  TableInv'
BY DEF TableInv, DataInv, WorkersInv, TaskOK, EntriesInv, PoolInv

\* What is known of threads, tasks and workers, whatever the shell is told.
THEOREM TableInvariant == Spec => []TableInv
<1>1. InitShell => TableInv
  BY TableInit DEF InitShell
<1>2. TableInv /\ [Next]_allVars => TableInv'
  <2> SUFFICES ASSUME TableInv, [Next]_allVars PROVE TableInv'
    OBVIOUS
  <2>1. ASSUME NEW l \in Logs, ConstructEventGraph(l) PROVE TableInv'
    BY <2>1, BeginKeeps DEF ConstructEventGraph
  <2>2. ASSUME NEW w \in Workers, Task(w) PROVE TableInv'
    BY <2>2, TakeKeeps, EnterKeeps, FindKeeps, OverrideKeeps, UpdatePidKeeps, UpdateNameKeeps DEF Task
  <2>3. CASE Constructed
    BY <2>3, JoinLeavesNothing DEF Constructed
  <2>4. CASE ConstructTransGraph \/ SaveGraph \/ ViewVertex \/ BeamDiagnose
    <3>1. /\ table' = table /\ events' = events /\ queue' = queue
          /\ worker' = worker /\ log' = log /\ phase' = phase
      BY <2>4 DEF ConstructTransGraph, SaveGraph, ViewVertex, BeamDiagnose, vars
    <3> QED BY <3>1, PromptLeavesTable
  <2>5. CASE Exit
    BY <2>5, PromptLeavesTable DEF Exit
  <2>6. CASE UNCHANGED allVars
    <3>1. /\ table' = table /\ events' = events /\ queue' = queue
          /\ worker' = worker /\ log' = log /\ phase' = phase
      BY <2>6 DEF allVars, vars
    <3> QED BY <3>1, PromptLeavesTable
  <2> QED BY <2>1, <2>2, <2>3, <2>4, <2>5, <2>6 DEF Next
<1> QED BY <1>1, <1>2, PTL DEF Spec

\* A worker is on a thread, an entry or an event that is there, and an entry
\* lacks information only until its task enters it.
THEOREM TableTypeCorrect == Spec => []TypeOK
<1>1. TableInv => TypeOK
  <2> SUFFICES ASSUME TableInv PROVE TypeOK
    OBVIOUS
  <2>1. \A t \in DOMAIN table :
          \/ table[t] \in Infos
          \/ table[t] = Null /\ t \in queue
          \/ table[t] = Null /\ \E w \in Workers : worker[w].tid = t /\ worker[w].pc = "enter"
    BY DEF TableInv, DataInv, EntriesInv
  <2>2. ASSUME NEW w \in Workers
        PROVE  /\ worker[w].pc = "find" => worker[w].at \in DOMAIN table
               /\ worker[w].pc \in {"events", "names"} => worker[w].at \in DOMAIN events[worker[w].tid]
               /\ worker[w] # Idle => worker[w].tid \notin queue
    <3>1. CASE worker[w].pc = "idle"
      BY <3>1 DEF TableInv, WorkersInv
    <3>2. CASE worker[w].pc # "idle"
      <4>1. TaskOK(w) /\ worker[w].tid \in Nat
        BY <3>2 DEF TableInv, WorkersInv
      <4> QED BY <4>1 DEF TaskOK
    <3> QED BY <3>1, <3>2
  <2> QED BY <2>1, <2>2 DEF TypeOK, TableInv, PoolInv, DataInv
<1> QED BY <1>1, TableInvariant, PTL

\* A lookup meets a thread without information only while another worker is
\* about to enter that thread, which is before its own in the table.
THEOREM OnlyEnteringMissed == Spec => []OnlyEnteringThreadsAreMissed
<1>1. TableInv => OnlyEnteringThreadsAreMissed
  <2> SUFFICES ASSUME TableInv, phase = "crashed"
               PROVE  \E w, v \in Workers : /\ worker[w].pc = "find" /\ worker[v].pc = "enter"
                                            /\ worker[w].at = worker[v].tid
                                            /\ worker[v].tid < worker[w].tid
    BY DEF OnlyEnteringThreadsAreMissed
  <2>1. PICK w \in Workers : worker[w].pc = "find" /\ table[worker[w].at] = Null
    BY DEF TableInv, PoolInv
  <2>2. TaskOK(w) /\ worker[w] \in [pc : Steps, tid : Nat, at : Nat, name : Names]
    BY <2>1 DEF TableInv, WorkersInv
  <2>3. /\ worker[w].at \in DOMAIN table /\ worker[w].at < worker[w].tid
        /\ worker[w].at \notin queue
    BY <2>1, <2>2 DEF TaskOK
  <2>4. PICK v \in Workers : worker[v].tid = worker[w].at /\ worker[v].pc = "enter"
    BY <2>1, <2>3 DEF TableInv, EntriesInv
  <2> QED BY <2>1, <2>3, <2>4
<1> QED BY <1>1, TableInvariant, PTL

-----------------------------------------------------------------------------
(* What a log tells of a thread, from one construction to the next.        *)

\* What the map file tells.
FileNames == {MapFile[i].name : i \in DOMAIN MapFile}
FilePids  == {MapFile[i].pid : i \in DOMAIN MapFile}

\* The thread t is in one of the first k lines.
FiledBy(t, k) == \E i \in 1 .. k : MapFile[i].tid = t

\* What becomes of t in k lines: x is the table so far, which was tab, and y the one
\* that the lines make of an empty one.
AfterLines(t, tab, x, y, k) ==
  /\ t \in DOMAIN x <=> t \in DOMAIN tab \/ FiledBy(t, k)
  /\ t \in DOMAIN y <=> FiledBy(t, k)
  /\ ~FiledBy(t, k) /\ t \in DOMAIN tab => x[t] = tab[t]
  /\ FiledBy(t, k) => y[t].pid \in FilePids /\ y[t].name \in FileNames \cup {Blank}
  /\ FiledBy(t, k) /\ t \notin DOMAIN tab => x[t] = y[t]
  /\ FiledBy(t, k) /\ t \in DOMAIN tab =>
       /\ x[t].name \in FileNames /\ x[t].name # Blank /\ y[t].name \in {Blank, x[t].name}
       /\ x[t].pid = tab[t].pid \/ (x[t].pid > 0 /\ x[t].pid = y[t].pid)

\* A line leaves the other threads.
LEMMA LineOfAnother ==
  ASSUME NEW t, NEW tab, NEW x, NEW y, NEW k \in Nat, k + 1 \in DOMAIN MapFile,
         MapFile[k + 1].tid # t, AfterLines(t, tab, x, y, k)
  PROVE  AfterLines(t, tab, Load(x, MapFile[k + 1]), Load(y, MapFile[k + 1]), k + 1)
<1>1. FiledBy(t, k + 1) <=> FiledBy(t, k)
  <2>1. \A i \in 1 .. k + 1 : i \in 1 .. k \/ i = k + 1
    OBVIOUS
  <2>2. \A i \in 1 .. k : i \in 1 .. k + 1
    OBVIOUS
  <2> QED BY <2>1, <2>2 DEF FiledBy
<1>2. ASSUME NEW z
      PROVE  /\ t \in DOMAIN Load(z, MapFile[k + 1]) <=> t \in DOMAIN z
             /\ t \in DOMAIN z => Load(z, MapFile[k + 1])[t] = z[t]
  BY DEF Load
<1> PICK x1, y1 : x1 = Load(x, MapFile[k + 1]) /\ y1 = Load(y, MapFile[k + 1])
  OBVIOUS
<1>3. /\ t \in DOMAIN x1 <=> t \in DOMAIN x
      /\ t \in DOMAIN y1 <=> t \in DOMAIN y
      /\ t \in DOMAIN x => x1[t] = x[t]
      /\ t \in DOMAIN y => y1[t] = y[t]
  BY <1>2
<1> QED BY <1>1, <1>3 DEF AfterLines

\* A line of the thread.
LEMMA LineOfItsOwn ==
  ASSUME NEW t, NEW tab, \A u \in DOMAIN tab : tab[u] \in Infos, NEW x, NEW y, NEW k \in Nat,
         k + 1 \in DOMAIN MapFile, MapFile[k + 1].tid = t, AfterLines(t, tab, x, y, k)
  PROVE  AfterLines(t, tab, Load(x, MapFile[k + 1]), Load(y, MapFile[k + 1]), k + 1)
<1> PICK line : line = MapFile[k + 1]
  OBVIOUS
<1>1. /\ line.tid = t /\ line.pid \in Int /\ line.name # Blank /\ line.pid \in FilePids /\ line.name \in FileNames
  <2>1. MapFile[k + 1] \in Lines
    BY TracesOK
  <2> QED BY <2>1 DEF Lines, FilePids, FileNames
<1>2. FiledBy(t, k + 1)
  <2>1. k + 1 \in 1 .. k + 1
    OBVIOUS
  <2> QED BY <2>1 DEF FiledBy
<1>3. ASSUME NEW z
      PROVE  /\ t \in DOMAIN Load(z, line)
             /\ Load(z, line)[t] = IF t \in DOMAIN z THEN Reload(z[t], line) ELSE NewInfo(line.pid, line.name)
  BY <1>1 DEF Load
<1>4. ASSUME NEW q
      PROVE  /\ Reload(q, line).name = line.name
             /\ Reload(q, line).pid = IF line.pid > 0 THEN line.pid ELSE q.pid
  BY DEF Reload
<1>5. /\ NewInfo(line.pid, line.name).pid = line.pid
      /\ NewInfo(line.pid, line.name).name \in {Blank, line.name}
  BY DEF NewInfo, ValidName
<1> PICK x1, y1 : x1 = Load(x, line) /\ y1 = Load(y, line)
  OBVIOUS
<1>6. /\ t \in DOMAIN x1 /\ t \in DOMAIN y1
      /\ x1[t] = IF t \in DOMAIN x THEN Reload(x[t], line) ELSE NewInfo(line.pid, line.name)
      /\ y1[t] = IF t \in DOMAIN y THEN Reload(y[t], line) ELSE NewInfo(line.pid, line.name)
  BY <1>3
<1>7. y1[t].pid \in FilePids /\ y1[t].name \in FileNames \cup {Blank}
  BY <1>1, <1>4, <1>5, <1>6 DEF AfterLines
<1>8. ASSUME t \notin DOMAIN tab PROVE x1[t] = y1[t]
  BY <1>6, <1>8 DEF AfterLines
<1>9. ASSUME t \in DOMAIN tab
      PROVE  /\ x1[t].name = line.name /\ y1[t].name \in {Blank, line.name}
             /\ x1[t].pid = tab[t].pid \/ (x1[t].pid > 0 /\ x1[t].pid = y1[t].pid)
  <2>1. x1[t] = Reload(x[t], line)
    BY <1>6, <1>9 DEF AfterLines
  <2>2. CASE FiledBy(t, k)
    <3>1. y1[t] = Reload(y[t], line)
      BY <1>6, <2>2 DEF AfterLines
    <3>2. x[t].pid = tab[t].pid \/ (x[t].pid > 0 /\ x[t].pid = y[t].pid)
      BY <1>9, <2>2 DEF AfterLines
    <3>3. CASE line.pid > 0
      BY <1>4, <2>1, <3>1, <3>3
    <3>4. CASE ~(line.pid > 0)
      BY <1>4, <2>1, <3>1, <3>2, <3>4
    <3> QED BY <3>3, <3>4
  <2>3. CASE ~FiledBy(t, k)
    <3>1. y1[t] = NewInfo(line.pid, line.name) /\ x[t] = tab[t]
      BY <1>6, <1>9, <2>3 DEF AfterLines
    <3> QED BY <1>4, <1>5, <2>1, <3>1
  <2> QED BY <2>2, <2>3
<1> QED BY <1>1, <1>2, <1>6, <1>7, <1>8, <1>9 DEF AfterLines

\* What becomes of a thread in the whole file.
LEMMA AfterFile ==
  ASSUME NEW t, NEW tab, \A u \in DOMAIN tab : tab[u] \in Infos
  PROVE  AfterLines(t, tab, LoadTpcMaps(tab), LoadTpcMaps(<< >>), Len(MapFile))
<1>1. Len(MapFile) \in Nat /\ DOMAIN MapFile = 1 .. Len(MapFile)
  BY TracesOK
<1> PICK N \in Nat : N = Len(MapFile)
  BY <1>1
<1>2. PICK f : /\ LoadTpcMaps(tab) = f[N]
               /\ f = [k \in 0 .. N |-> IF k = 0 THEN tab ELSE Load(f[k - 1], MapFile[k])]
  BY <1>1, LoadUnfolds
<1>3. PICK g : /\ LoadTpcMaps(<< >>) = g[N]
               /\ g = [k \in 0 .. N |-> IF k = 0 THEN << >> ELSE Load(g[k - 1], MapFile[k])]
  BY <1>1, LoadUnfolds
<1>4. /\ f[0] = tab /\ g[0] = << >>
      /\ \A k \in 1 .. N : f[k] = Load(f[k - 1], MapFile[k]) /\ g[k] = Load(g[k - 1], MapFile[k])
  <2>1. 0 \in 0 .. N /\ \A k \in 1 .. N : k \in 0 .. N /\ k # 0
    OBVIOUS
  <2> QED BY <1>2, <1>3, <2>1
<1> DEFINE bad == {k \in 0 .. N : ~AfterLines(t, tab, f[k], g[k], k)}
<1>5. bad = {}
  <2> SUFFICES ASSUME bad # {} PROVE FALSE
    OBVIOUS
  <2>1. PICK k \in bad : \A i \in bad : k <= i
    <3>1. bad \in SUBSET Nat
      OBVIOUS
    <3> QED BY <3>1, MinExists
  <2>2. k \in 0 .. N /\ ~AfterLines(t, tab, f[k], g[k], k)
    BY <2>1
  <2>3. k # 0
    <3>1. ~FiledBy(t, 0) /\ DOMAIN << >> = {}
      BY DEF FiledBy
    <3>2. AfterLines(t, tab, tab, << >>, 0)
      BY <3>1 DEF AfterLines
    <3> QED BY <1>4, <2>2, <3>2
  <2>4. k - 1 \in 0 .. N /\ k - 1 \in Nat /\ (k - 1) + 1 = k /\ k \in 1 .. N /\ ~(k <= k - 1)
    BY <2>2, <2>3
  <2>5. AfterLines(t, tab, f[k - 1], g[k - 1], k - 1)
    BY <2>1, <2>4
  <2>6. /\ f[k] = Load(f[k - 1], MapFile[(k - 1) + 1]) /\ g[k] = Load(g[k - 1], MapFile[(k - 1) + 1])
        /\ (k - 1) + 1 \in DOMAIN MapFile
    BY <1>1, <1>4, <2>4
  <2>7. AfterLines(t, tab, f[k], g[k], (k - 1) + 1)
    BY <2>4, <2>5, <2>6, LineOfAnother, LineOfItsOwn
  <2> QED BY <2>2, <2>4, <2>7
<1>6. AfterLines(t, tab, f[N], g[N], N)
  <2>1. N \in 0 .. N
    OBVIOUS
  <2> QED BY <1>5, <2>1
<1> QED BY <1>2, <1>3, <1>6

\* The same, in the words of the property: a thread that is not in the file stays as it is;
\* of another the file tells the name, and the process if it knows one.
LEMMA Reloaded ==
  ASSUME NEW tab, \A u \in DOMAIN tab : tab[u] \in Infos, NEW t,
         NEW new, new = LoadTpcMaps(tab)
  PROVE  /\ t \in DOMAIN new <=> t \in DOMAIN tab \/ FromFile(t)
         /\ ~FromFile(t) /\ t \in DOMAIN tab => new[t] = tab[t]
         /\ FromFile(t) => /\ Filed(t).pid \in FilePids /\ new[t].name \in FileNames \cup {Blank}
                           /\ t \notin DOMAIN tab => new[t] = Filed(t)
         /\ FromFile(t) /\ t \in DOMAIN tab =>
              /\ new[t].name # Blank
              /\ Filed(t).name # Blank => new[t].name = Filed(t).name
              /\ new[t].pid \in {tab[t].pid, Filed(t).pid}
              /\ Filed(t).pid = Unknown => new[t].pid = tab[t].pid
<1>1. FromFile(t) <=> FiledBy(t, Len(MapFile))
  <2>1. DOMAIN MapFile = 1 .. Len(MapFile)
    BY TracesOK
  <2> QED BY <2>1 DEF FromFile, FiledBy
<1> PICK y : y = LoadTpcMaps(<< >>)
  OBVIOUS
<1>2. AfterLines(t, tab, new, y, Len(MapFile)) /\ Filed(t) = y[t]
  BY AfterFile DEF Filed
<1>3. ~(Unknown > 0)
  BY DEF Unknown
<1> QED BY <1>1, <1>2, <1>3 DEF AfterLines

Raw(l, t, i) == Parsed(l)[t][i]

\* The map file tells all of the thread.
Known(t) == FromFile(t) /\ Complete(Filed(t))

\* n is the name of the last of the first i events of t in l that have one, else the one
\* in the file.
NamedBy(l, t, i, n) ==
  \/ n = Filed(t).name /\ \A j \in 1 .. i : Raw(l, t, j).name = Blank
  \/ \E k \in 1 .. i : /\ n # Blank /\ n = Raw(l, t, k).name
                       /\ \A j \in k + 1 .. i : Raw(l, t, j).name = Blank

\* A task at x has still to complete the process, or the name, of event i.
PidToCome(x, i) ==
  \/ x.pc \in {"enter", "find", "override"}
  \/ x.pc = "events" /\ x.at <= i
  \/ x.pc = "names" /\ x.at < i
NameToCome(x, i) ==
  \/ x.pc \in {"enter", "find", "override"}
  \/ x.pc \in {"events", "names"} /\ x.at <= i

\* The task of t has.
PidAhead(t, i)  == t \in queue \/ \E w \in Workers : worker[w].tid = t /\ PidToCome(worker[w], i)
NameAhead(t, i) == t \in queue \/ \E w \in Workers : worker[w].tid = t /\ NameToCome(worker[w], i)

\* What can become of the event i of t in l, if p is the entry of t: what it said stays, and
\* what it has learned the entry knows.
Says(l, t, i, e, p) ==
  /\ IF Raw(l, t, i).pid # Unknown THEN e.pid = Raw(l, t, i).pid
     ELSE e.pid = Unknown \/ (p # Null /\ e.pid = p.pid)
  /\ IF Raw(l, t, i).name # Blank THEN e.name = Raw(l, t, i).name
     ELSE e.name = Blank \/ (p # Null /\ p.name # Blank)

\* What completing the event does: a thread that the file knows has its process and the name
\* last said, and no other less than in the first construction.
PidDone(l, t, i, q) ==
  /\ Known(t) => q # Unknown
  /\ l \in DOMAIN earlier /\ earlier[l][t][i].pid # Unknown => q # Unknown
NameDone(l, t, i, n) ==
  /\ Known(t) => NamedBy(l, t, i, n)
  /\ l \in DOMAIN earlier /\ earlier[l][t][i].name # Blank => n # Blank

EventOK(t, i) ==
  /\ Says(log, t, i, events[t][i], table[t])
  /\ ~PidAhead(t, i) => PidDone(log, t, i, events[t][i].pid)
  /\ IF NameAhead(t, i) THEN events[t][i].name = Raw(log, t, i).name
     ELSE NameDone(log, t, i, events[t][i].name)

\* The events of the construction under way, or the last one.
EventsInv ==
  /\ \A t \in DOMAIN events : /\ t \in DOMAIN Traces[log] /\ DOMAIN events[t] = DOMAIN Traces[log][t]
                              /\ \A i \in DOMAIN events[t] : EventOK(t, i)
  /\ phase = "pool" => DOMAIN events = DOMAIN Traces[log]

Recalled(l, t, i) ==
  /\ earlier[l][t][i] \in Infos
  /\ Says(l, t, i, earlier[l][t][i], table[t])
  /\ Known(t) => /\ earlier[l][t][i].pid # Unknown
                 /\ NamedBy(l, t, i, earlier[l][t][i].name)

\* Those of the first construction from each log.
EarlierInv ==
  \A l \in DOMAIN earlier :
    /\ l \in Logs /\ DOMAIN earlier[l] = DOMAIN Traces[l]
    /\ \A t \in DOMAIN earlier[l] : /\ t \in DOMAIN table /\ DOMAIN earlier[l][t] = DOMAIN Traces[l][t]
                                    /\ \A i \in DOMAIN earlier[l][t] : Recalled(l, t, i)

\* The threads of the file: all are in the table since the first construction, with the process
\* that the file tells; after it, they have names when the pool starts.
FileInv ==
  /\ \A t \in DOMAIN table : FromFile(t) =>
       /\ table[t] # Null
       /\ Filed(t).pid # Unknown => table[t].pid = Filed(t).pid
       /\ phase = "pool" /\ table[t].name = Blank => DOMAIN earlier = {}
       /\ table[t].name \in OwnNames(log)
       /\ Known(t) /\ t \in queue => table[t].name = Filed(t).name
  /\ phase = "pool" \/ DOMAIN earlier # {} => \A i \in DOMAIN MapFile : MapFile[i].tid \in DOMAIN table
  /\ phase = "idle" => log \in DOMAIN earlier \/ (DOMAIN table = {} /\ DOMAIN events = {})
  /\ \A t \in DOMAIN events : FromFile(t) => \A i \in DOMAIN events[t] : events[t][i].name \in OwnNames(log)

\* What a task x of a thread of the file, whose entry is p, knows at each step.
FileTask(x, p) ==
  /\ x.pc \in {"find", "override"} => ~Known(x.tid) /\ DOMAIN earlier = {}
  /\ Known(x.tid) /\ x.pc = "enter" => p.name = Filed(x.tid).name
  /\ Known(x.tid) /\ x.pc \in {"events", "names"} => NamedBy(log, x.tid, x.at - 1, p.name)

Working(w) == worker[w].pc # "idle"
\* A thread has one task.
TasksInv ==
  /\ \A w, v \in Workers : Working(w) /\ Working(v) /\ worker[w].tid = worker[v].tid => w = v
  /\ \A w \in Workers : Working(w) /\ FromFile(worker[w].tid) => FileTask(worker[w], table[worker[w].tid])

\* Where processes and names come from: the file, or an event of a log constructed from, of the
\* thread itself, and for names of the process.
Heard == DOMAIN earlier \cup {log}
PidFrom(t, q) == q \in {Unknown} \cup FilePids \/ \E l \in Heard : \E x \in Told(l, t) : x.pid = q
NameFrom(t, n) ==
  \/ n \in {Blank, Torn} \cup Range(Procs) \cup FileNames
  \/ \E l \in Heard, u \in Kin(t) : \E x \in Told(l, u) : x.name = n

OriginInv ==
  /\ \A t \in DOMAIN table : table[t] # Null => PidFrom(t, table[t].pid) /\ NameFrom(t, table[t].name)
  /\ \A t \in DOMAIN events : \A i \in DOMAIN events[t] : NameFrom(t, events[t][i].name)
  /\ \A w \in Workers : /\ worker[w].pc = "find" => table[worker[w].tid].pid # Unknown
                        /\ worker[w].pc = "override" => NameFrom(worker[w].tid, worker[w].name)

IdentityInv == EventsInv /\ EarlierInv /\ FileInv /\ TasksInv /\ OriginInv

\* What the files tell belongs to every log.
LEMMA DeclaredNames ==
  \A l \in Logs : FileNames \cup {Blank, Torn} \cup Range(Procs) \subseteq OwnNames(l)
BY DEF OwnNames, FileNames

LEMMA DeclaredPids == \A l \in Logs : FilePids \cup {Unknown} \subseteq OwnPids(l)
BY DEF OwnPids, FilePids

\* What the parsed events say is what the log does, but for a name that is not valid.
LEMMA RawIs ==
  ASSUME NEW l \in Logs, NEW t \in DOMAIN Traces[l], NEW i \in DOMAIN Traces[l][t]
  PROVE  /\ Traces[l][t][i] \in Told(l, t)
         /\ Raw(l, t, i).pid = Traces[l][t][i].pid
         /\ Raw(l, t, i).name \in {Blank, Traces[l][t][i].name}
<1>1. Raw(l, t, i) = NewInfo(Traces[l][t][i].pid, Traces[l][t][i].name)
  BY DEF Raw, Parsed
<1>2. Traces[l][t][i] \in Told(l, t)
  BY DEF Told, Range
<1> PICK x : x = Traces[l][t][i]
  OBVIOUS
<1> QED BY <1>1, <1>2 DEF NewInfo, ValidName

\* The lists of events made from a log are those of the log.
LEMMA ParsedLists ==
  ASSUME NEW l
  PROVE  /\ DOMAIN Parsed(l) = DOMAIN Traces[l]
         /\ \A t \in DOMAIN Traces[l] : DOMAIN Parsed(l)[t] = DOMAIN Traces[l][t]
BY DEF Parsed

\* What a log tells is its own.
LEMMA ToldIsOwn ==
  ASSUME NEW l \in Logs, NEW t, NEW x \in Told(l, t)
  PROVE  x.name \in OwnNames(l) /\ x.pid \in OwnPids(l)
<1>1. t \in DOMAIN Traces[l] /\ x \in Range(Traces[l][t])
  BY DEF Told
<1> QED BY <1>1 DEF OwnNames, OwnPids

\* The name of an event, by the events before it: there is one, and one only.
LEMMA NamedAtFirst ==
  ASSUME NEW l, NEW t
  PROVE  NamedBy(l, t, 0, Filed(t).name)
BY DEF NamedBy

LEMMA NamedNext ==
  ASSUME NEW l, NEW t, NEW i \in Nat, i # 0, NEW n, NamedBy(l, t, i - 1, n)
  PROVE  NamedBy(l, t, i, IF Raw(l, t, i).name = Blank THEN n ELSE Raw(l, t, i).name)
<1>1. CASE Raw(l, t, i).name # Blank
  <2>1. i \in 1 .. i /\ i + 1 .. i = {}
    OBVIOUS
  <2> QED BY <1>1, <2>1 DEF NamedBy
<1>2. CASE Raw(l, t, i).name = Blank
  <2>1. \A k \in 1 .. i : \A j \in k .. i : j = i \/ j \in k .. i - 1
    OBVIOUS
  <2>2. CASE n = Filed(t).name /\ \A j \in 1 .. i - 1 : Raw(l, t, j).name = Blank
    <3>1. \A j \in 1 .. i : j = i \/ j \in 1 .. i - 1
      OBVIOUS
    <3>2. \A j \in 1 .. i : Raw(l, t, j).name = Blank
      BY <1>2, <2>2, <3>1
    <3> QED BY <1>2, <2>2, <3>2 DEF NamedBy
  <2>3. ASSUME NEW k \in 1 .. i - 1, n # Blank, n = Raw(l, t, k).name,
               \A j \in k + 1 .. i - 1 : Raw(l, t, j).name = Blank
        PROVE  NamedBy(l, t, i, n)
    <3>1. k \in 1 .. i /\ \A j \in k + 1 .. i : j = i \/ j \in k + 1 .. i - 1
      OBVIOUS
    <3>2. \A j \in k + 1 .. i : Raw(l, t, j).name = Blank
      BY <1>2, <2>3, <3>1
    <3> QED BY <2>3, <3>1, <3>2 DEF NamedBy
  <2> QED BY <1>2, <2>2, <2>3 DEF NamedBy
<1> QED BY <1>1, <1>2

LEMMA NamedOnce ==
  ASSUME NEW l, NEW t, NEW i \in Nat, NEW n, NEW m, NamedBy(l, t, i, n), NamedBy(l, t, i, m)
  PROVE  n = m
<1>1. ASSUME NEW k \in 1 .. i, NEW j \in 1 .. i,
             n # Blank, n = Raw(l, t, k).name, \A h \in k + 1 .. i : Raw(l, t, h).name = Blank,
             m # Blank, m = Raw(l, t, j).name, \A h \in j + 1 .. i : Raw(l, t, h).name = Blank
      PROVE  n = m
  <2>1. k = j \/ k \in j + 1 .. i \/ j \in k + 1 .. i
    OBVIOUS
  <2> QED BY <1>1, <2>1
<1>2. ASSUME NEW k \in 1 .. i, Raw(l, t, k).name # Blank
      PROVE  ~ \A h \in 1 .. i : Raw(l, t, h).name = Blank
  BY <1>2
<1> QED BY <1>1, <1>2 DEF NamedBy

\* q knows what p does: the process is the same, and a name is followed by a name.
Improves(p, q) ==
  p # Null => /\ q # Null
              /\ p.pid # Unknown => q.pid = p.pid
              /\ p.name # Blank => q.name # Blank

\* Every entry does what it did.
Improved == /\ DOMAIN table \subseteq DOMAIN table'
            /\ \A t \in DOMAIN table : Improves(table[t], table'[t])

\* What an event can say, when its entry knows more.
LEMMA SaysStays ==
  ASSUME NEW l, NEW t, NEW i, NEW e, NEW p, NEW q, Says(l, t, i, e, p), Improves(p, q)
  PROVE  Says(l, t, i, e, q)
BY DEF Says, Improves

\* An event that a step leaves alone.
LEMMA EventStays ==
  ASSUME NEW t, NEW i, EventOK(t, i), events'[t][i] = events[t][i],
         PidAhead(t, i)' <=> PidAhead(t, i), NameAhead(t, i)' <=> NameAhead(t, i),
         Improves(table[t], table'[t]), log' = log, earlier' = earlier
  PROVE  EventOK(t, i)'
<1> PICK e : e = events[t][i]
  OBVIOUS
<1> PICK p, q : p = table[t] /\ q = table'[t]
  OBVIOUS
<1>1. Says(log, t, i, e, q)
  <2>1. Says(log, t, i, e, p)
    BY DEF EventOK
  <2> QED BY <2>1, SaysStays
<1>2. Says(log, t, i, events[t][i], table[t])' <=> Says(log, t, i, e, q)
  BY DEF Says, Raw
<1>3. \A n : /\ PidDone(log, t, i, n)' <=> PidDone(log, t, i, n)
             /\ NameDone(log, t, i, n)' <=> NameDone(log, t, i, n)
  BY DEF PidDone, NameDone, NamedBy, Raw
<1>4. Raw(log, t, i)' = Raw(log, t, i)
  BY DEF Raw
<1> QED BY <1>1, <1>2, <1>3, <1>4 DEF EventOK

\* What earlier constructions made, while their events are kept and the entries improve.
LEMMA EarlierStays ==
  ASSUME EarlierInv, Improved, earlier' = earlier
  PROVE  EarlierInv'
<1> SUFFICES ASSUME NEW l \in DOMAIN earlier, NEW t \in DOMAIN earlier[l]
             PROVE  /\ t \in DOMAIN table'
                    /\ \A i \in DOMAIN earlier[l][t] : Recalled(l, t, i)'
  BY DEF EarlierInv
<1>1. t \in DOMAIN table' /\ t \in DOMAIN table
  BY DEF EarlierInv, Improved
<1>2. ASSUME NEW i \in DOMAIN earlier[l][t] PROVE Recalled(l, t, i)'
  <2>1. Recalled(l, t, i)
    BY DEF EarlierInv
  <2> PICK e : e = earlier[l][t][i]
    OBVIOUS
  <2> PICK p, q : p = table[t] /\ q = table'[t]
    OBVIOUS
  <2>2. Improves(p, q)
    BY <1>1 DEF Improved
  <2>3. Says(l, t, i, e, q)
    BY <2>1, <2>2, SaysStays DEF Recalled
  <2> QED BY <2>1, <2>3 DEF Recalled
<1> QED BY <1>1, <1>2

\* The threads of a process stay in it.
LEMMA KinStays ==
  ASSUME Improved, NEW t \in DOMAIN table
  PROVE  Kin(t) \subseteq Kin(t)'
<1> SUFFICES ASSUME NEW u \in Kin(t), u # t PROVE u \in Kin(t)'
  BY DEF Kin
<1>1. u \in DOMAIN table /\ table[t] # Null /\ table[u] # Null /\ table[u].pid = table[t].pid /\ table[t].pid # Unknown
  BY DEF Kin
<1>2. Improves(table[t], table'[t]) /\ Improves(table[u], table'[u]) /\ u \in DOMAIN table'
  BY <1>1 DEF Improved
<1> QED BY <1>1, <1>2 DEF Kin, Improves

\* What came from somewhere still does.
LEMMA OriginStays ==
  ASSUME Improved, Heard \subseteq Heard', NEW t \in DOMAIN table
  PROVE  /\ \A q : PidFrom(t, q) => PidFrom(t, q)'
         /\ \A n : NameFrom(t, n) => NameFrom(t, n)'
<1>1. Kin(t) \subseteq Kin(t)'
  BY KinStays
<1> QED BY <1>1 DEF PidFrom, NameFrom

\* What a task's step does to other threads: nothing.
LEMMA OthersWait ==
  ASSUME NEW w \in Workers, NEW task, worker' = [worker EXCEPT ![w] = task], queue' = queue,
         task = Idle \/ task.tid = worker[w].tid, NEW u, u # worker[w].tid, NEW i
  PROVE  /\ PidAhead(u, i)' <=> PidAhead(u, i)
         /\ NameAhead(u, i)' <=> NameAhead(u, i)
<1>1. \A v \in Workers \ {w} : worker'[v] = worker[v]
  OBVIOUS
<1> DEFINE In(x) == x.tid = u /\ PidToCome(x, i)
           On(x) == x.tid = u /\ NameToCome(x, i)
<1>2. worker'[w] \in {worker[w], task}
  OBVIOUS
<1>3. ~In(worker[w]) /\ ~On(worker[w])
  OBVIOUS
<1>4. ~In(task) /\ ~On(task)
  BY DEF Idle, PidToCome, NameToCome
<1>5. \A v \in Workers : (In(worker'[v]) <=> In(worker[v])) /\ (On(worker'[v]) <=> On(worker[v]))
  <2> HIDE DEF In, On
  <2> QED BY <1>1, <1>2, <1>3, <1>4
<1>6. /\ PidAhead(u, i) <=> u \in queue \/ \E v \in Workers : In(worker[v])
      /\ NameAhead(u, i) <=> u \in queue \/ \E v \in Workers : On(worker[v])
      /\ PidAhead(u, i)' <=> u \in queue' \/ \E v \in Workers : In(worker'[v])
      /\ NameAhead(u, i)' <=> u \in queue' \/ \E v \in Workers : On(worker'[v])
  BY DEF PidAhead, NameAhead
<1> HIDE DEF In, On
<1> QED BY <1>5, <1>6

\* The threads of the file, while the tasks work.
LEMMA FileStays ==
  ASSUME FileInv, Improved, DOMAIN table' = DOMAIN table, DOMAIN events' = DOMAIN events,
         phase' = phase, log' = log, earlier' = earlier, queue' \subseteq queue,
         \A t \in queue : t \in DOMAIN table => table'[t] = table[t],
         \A t \in DOMAIN table : FromFile(t) => table'[t].name \in OwnNames(log),
         \A t \in DOMAIN events : FromFile(t) => \A i \in DOMAIN events'[t] : events'[t][i].name \in OwnNames(log)
  PROVE  FileInv'
<1>1. ASSUME NEW t \in DOMAIN table, FromFile(t)
      PROVE  /\ table'[t] # Null
             /\ Filed(t).pid # Unknown => table'[t].pid = Filed(t).pid
             /\ phase = "pool" /\ table'[t].name = Blank => DOMAIN earlier = {}
             /\ table'[t].name \in OwnNames(log)
             /\ Known(t) /\ t \in queue' => table'[t].name = Filed(t).name
  <2>1. Improves(table[t], table'[t])
    BY DEF Improved
  <2>2. /\ table[t] # Null
        /\ Filed(t).pid # Unknown => table[t].pid = Filed(t).pid
        /\ phase = "pool" /\ table[t].name = Blank => DOMAIN earlier = {}
        /\ Known(t) /\ t \in queue => table[t].name = Filed(t).name
    BY <1>1 DEF FileInv
  <2>3. t \in queue' => table'[t] = table[t] /\ t \in queue
    OBVIOUS
  <2>4. table'[t].name \in OwnNames(log)
    BY <1>1
  <2> QED BY <2>1, <2>2, <2>3, <2>4 DEF Improves
<1>2. \A t : (Known(t)' <=> Known(t)) /\ Filed(t)' = Filed(t) /\ (FromFile(t)' <=> FromFile(t))
  BY DEF Known, Filed, FromFile
<1> QED BY <1>1, <1>2 DEF FileInv

\* A step of the task x that leaves the entry p, as its next step finds them.
TaskStep(w, t, p, task) ==
  /\ OwnStep(w, p, task) /\ earlier' = earlier
  /\ \A u \in DOMAIN events \ {t} : events'[u] = events[u]
  /\ task = Idle \/ (task.pc # "idle" /\ task.tid = t)
  /\ task.pc = "find" => p.pid # Unknown
  /\ task.pc = "override" => NameFrom(t, task.name)
  /\ Improves(table[t], p) /\ PidFrom(t, p.pid) /\ NameFrom(t, p.name)
  /\ FromFile(t) => /\ p.name \in OwnNames(log)
                    /\ task # Idle => FileTask(task, p)
  /\ DOMAIN events'[t] = DOMAIN events[t]
  /\ \A i \in DOMAIN events[t] : /\ EventOK(t, i)' /\ NameFrom(t, events'[t][i].name)
                                 /\ FromFile(t) => events'[t][i].name \in OwnNames(log)

\* Such a step disturbs no other thread.
LEMMA TaskStepKeeps ==
  ASSUME TableInv, IdentityInv, phase = "pool", NEW w \in Workers, worker[w].pc # "idle",
         NEW t, t = worker[w].tid, NEW p \in Infos, NEW task, TaskStep(w, t, p, task)
  PROVE  IdentityInv'
<1>1. /\ worker' = [worker EXCEPT ![w] = task] /\ queue' = queue /\ phase' = phase /\ log' = log /\ earlier' = earlier
      /\ DOMAIN table' = DOMAIN table /\ DOMAIN events' = DOMAIN events
      /\ table'[t] = p /\ \A u \in DOMAIN table \ {t} : table'[u] = table[u]
      /\ \A u \in DOMAIN events \ {t} : events'[u] = events[u]
      /\ DOMAIN events'[t] = DOMAIN events[t]
  BY DEF TaskStep, OwnStep
<1>2. worker'[w] = task /\ \A v \in Workers \ {w} : worker'[v] = worker[v]
  BY <1>1 DEF TableInv, WorkersInv
<1>3. t \in DOMAIN events /\ t \in DOMAIN table /\ t \notin queue /\ t \in Nat
  <2>1. TaskOK(w) /\ worker[w].tid \in Nat
    BY DEF TableInv, WorkersInv
  <2> QED BY <2>1 DEF TaskOK, TableInv, DataInv
<1>4. Improved
  <2>1. Improves(table[t], p)
    BY DEF TaskStep
  <2>2. \A q : Improves(q, q)
    BY DEF Improves
  <2> QED BY <1>1, <2>1, <2>2 DEF Improved
<1>5. EarlierInv'
  BY <1>1, <1>4, EarlierStays DEF IdentityInv
<1>6. EventsInv'
  <2>1. ASSUME NEW u \in DOMAIN events, NEW i \in DOMAIN events[u], u # t PROVE EventOK(u, i)'
    <3>1. EventOK(u, i)
      BY DEF IdentityInv, EventsInv
    <3>2. events'[u][i] = events[u][i]
      BY <1>1, <2>1
    <3>3. Improves(table[u], table'[u])
      BY <1>4 DEF Improved, TableInv, DataInv
    <3>4. (PidAhead(u, i)' <=> PidAhead(u, i)) /\ (NameAhead(u, i)' <=> NameAhead(u, i))
      <4>1. task = Idle \/ task.tid = worker[w].tid
        BY DEF TaskStep
      <4> QED BY <1>1, <2>1, <4>1, OthersWait
    <3>5. log' = log /\ earlier' = earlier
      BY <1>1
    <3> QED BY <3>1, <3>2, <3>3, <3>4, <3>5, EventStays
  <2>2. ASSUME NEW i \in DOMAIN events[t] PROVE EventOK(t, i)'
    BY <2>2 DEF TaskStep
  <2>3. \A u \in DOMAIN events : DOMAIN events'[u] = DOMAIN events[u]
    BY <1>1
  <2>4. \A u \in DOMAIN events : \A i \in DOMAIN events'[u] : EventOK(u, i)'
    BY <2>1, <2>2, <2>3
  <2>5. /\ \A u \in DOMAIN events : u \in DOMAIN Traces[log] /\ DOMAIN events[u] = DOMAIN Traces[log][u]
        /\ phase = "pool" => DOMAIN events = DOMAIN Traces[log]
    BY DEF IdentityInv, EventsInv
  <2> QED BY <1>1, <2>3, <2>4, <2>5 DEF EventsInv
<1>7. FileInv'
  <2>1. \A u \in queue : u \in DOMAIN table => table'[u] = table[u]
    BY <1>1, <1>3
  <2>2. ASSUME NEW u \in DOMAIN table, FromFile(u) PROVE table'[u].name \in OwnNames(log)
    <3>1. CASE u = t
      BY <1>1, <2>2, <3>1 DEF TaskStep
    <3>2. CASE u # t
      BY <1>1, <2>2, <3>2 DEF IdentityInv, FileInv
    <3> QED BY <3>1, <3>2
  <2>3. ASSUME NEW u \in DOMAIN events, FromFile(u), NEW i \in DOMAIN events'[u] PROVE events'[u][i].name \in OwnNames(log)
    <3>1. CASE u = t
      BY <1>1, <2>3, <3>1 DEF TaskStep
    <3>2. CASE u # t
      BY <1>1, <2>3, <3>2 DEF IdentityInv, FileInv
    <3> QED BY <3>1, <3>2
  <2>4. FileInv
    BY DEF IdentityInv
  <2> HIDE DEF FileInv
  <2> QED BY <1>1, <1>4, <2>1, <2>2, <2>3, <2>4, FileStays
<1>8. TasksInv'
  <2>1. task = Idle \/ task.tid = t
    BY DEF TaskStep
  <2>2. \A x, q : FileTask(x, q)' <=> FileTask(x, q)
    BY <1>1 DEF FileTask, Known, FromFile, Filed, NamedBy, Raw
  <2>3. ASSUME NEW v \in Workers, worker'[v].pc # "idle", FromFile(worker'[v].tid)
        PROVE  FileTask(worker'[v], table'[worker'[v].tid])
    <3>1. CASE v = w
      <4>1. task # Idle /\ task.tid = t
        BY <1>2, <2>1, <2>3, <3>1 DEF Idle
      <4> QED BY <1>1, <1>2, <2>3, <3>1, <4>1 DEF TaskStep
    <3>2. CASE v # w
      <4>1. FileTask(worker[v], table[worker[v].tid]) /\ worker[v].tid # t /\ worker'[v] = worker[v]
        BY <1>2, <2>3, <3>2 DEF IdentityInv, TasksInv, Working
      <4>2. worker[v].tid \in DOMAIN table
        <5>1. TaskOK(v)
          BY <2>3, <4>1 DEF TableInv, WorkersInv
        <5> QED BY <5>1 DEF TaskOK, TableInv, DataInv
      <4> QED BY <1>1, <4>1, <4>2
    <3> QED BY <3>1, <3>2
  <2>4. ASSUME NEW v \in Workers, NEW x \in Workers, worker'[v].pc # "idle", worker'[x].pc # "idle", worker'[v].tid = worker'[x].tid
        PROVE  v = x
    <3>1. \A y \in Workers : worker'[y].pc # "idle" => worker[y].pc # "idle" /\ worker'[y].tid = worker[y].tid
      BY <1>2, <2>1 DEF Idle
    <3> QED BY <2>4, <3>1 DEF IdentityInv, TasksInv, Working
  <2> QED BY <2>2, <2>3, <2>4 DEF TasksInv, Working, FromFile
<1>9. OriginInv'
  <2>1. Heard' = Heard
    BY <1>1 DEF Heard
  <2>2. ASSUME NEW u \in DOMAIN table, table'[u] # Null, NEW q, q = table'[u]
        PROVE  PidFrom(u, q.pid)' /\ NameFrom(u, q.name)'
    <3>1. PidFrom(u, q.pid) /\ NameFrom(u, q.name)
      <4>1. CASE u = t
        BY <1>1, <2>2, <4>1 DEF TaskStep
      <4>2. CASE u # t
        BY <1>1, <2>2, <4>2 DEF IdentityInv, OriginInv
      <4> QED BY <4>1, <4>2
    <3> QED BY <1>4, <2>1, <3>1, OriginStays
  <2>3. ASSUME NEW u \in DOMAIN events, NEW i \in DOMAIN events'[u], NEW n, n = events'[u][i].name
        PROVE  NameFrom(u, n)'
    <3>1. NameFrom(u, n)
      <4>1. CASE u = t
        BY <1>1, <2>3, <4>1 DEF TaskStep
      <4>2. CASE u # t
        BY <1>1, <2>3, <4>2 DEF IdentityInv, OriginInv
      <4> QED BY <4>1, <4>2
    <3>2. u \in DOMAIN table
      BY DEF TableInv, DataInv
    <3> QED BY <1>4, <2>1, <3>1, <3>2, OriginStays
  <2>4. ASSUME NEW v \in Workers, NEW x, x = worker'[v], x.pc = "override" PROVE NameFrom(x.tid, x.name)'
    <3>1. x.tid \in DOMAIN table /\ NameFrom(x.tid, x.name)
      <4>1. CASE v = w
        BY <1>2, <1>3, <2>4, <4>1 DEF TaskStep, Idle
      <4>2. CASE v # w
        <5>1. x = worker[v] /\ NameFrom(x.tid, x.name)
          BY <1>2, <2>4, <4>2 DEF IdentityInv, OriginInv
        <5>2. TaskOK(v)
          BY <2>4, <5>1 DEF TableInv, WorkersInv
        <5> QED BY <5>1, <5>2 DEF TaskOK, TableInv, DataInv
      <4> QED BY <4>1, <4>2
    <3> QED BY <1>4, <2>1, <3>1, OriginStays
  <2>5. ASSUME NEW v \in Workers, worker'[v].pc = "find" PROVE table'[worker'[v].tid].pid # Unknown
    <3>1. CASE v = w
      BY <1>1, <1>2, <2>5, <3>1 DEF TaskStep, Idle
    <3>2. CASE v # w
      <4>1. worker'[v] = worker[v] /\ worker[v].tid # t /\ table[worker[v].tid].pid # Unknown
        BY <1>2, <2>5, <3>2 DEF IdentityInv, OriginInv, TasksInv, Working
      <4>2. TaskOK(v)
        BY <2>5, <4>1 DEF TableInv, WorkersInv
      <4>3. worker[v].tid \in DOMAIN table
        BY <4>2 DEF TaskOK, TableInv, DataInv
      <4> QED BY <1>1, <4>1, <4>3
    <3> QED BY <3>1, <3>2
  <2> QED BY <1>1, <2>2, <2>3, <2>4, <2>5 DEF OriginInv, PidFrom, NameFrom
<1> QED BY <1>5, <1>6, <1>7, <1>8, <1>9 DEF IdentityInv

\* What is there for a task that works on t.
Ready(w, t) ==
  /\ t = worker[w].tid /\ t \in Nat /\ t \in DOMAIN events /\ t \in DOMAIN table /\ t \notin queue
  /\ worker[w] \in [pc : Steps, tid : Nat, at : Nat, name : Names]
  /\ worker \in [Workers -> [pc : Steps, tid : Nat, at : Nat, name : Names]]
  /\ events[t] \in Seq(Infos) /\ events[t] # <<>>
  /\ log \in Logs /\ t \in DOMAIN Traces[log] /\ DOMAIN events[t] = DOMAIN Traces[log][t]

\* A task under way has all of it.
LEMMA TaskReady ==
  ASSUME TableInv, IdentityInv, NEW w \in Workers, worker[w].pc # "idle", NEW t, t = worker[w].tid
  PROVE  Ready(w, t)
<1>1. TaskOK(w) /\ worker \in [Workers -> [pc : Steps, tid : Nat, at : Nat, name : Names]]
  BY DEF TableInv, WorkersInv
<1>2. worker[w] \in [pc : Steps, tid : Nat, at : Nat, name : Names]
  BY <1>1
<1>3. t \in Nat /\ t \in DOMAIN events /\ t \in DOMAIN table /\ \A u \in queue : t < u
  BY <1>1, <1>2 DEF TaskOK, TableInv, DataInv
<1>4. events[t] \in Seq(Infos) /\ events[t] # <<>> /\ log \in Logs
  BY <1>3 DEF TableInv, DataInv
<1>5. t \in DOMAIN Traces[log] /\ DOMAIN events[t] = DOMAIN Traces[log][t]
  BY <1>3 DEF IdentityInv, EventsInv
<1> QED BY <1>1, <1>2, <1>3, <1>4, <1>5 DEF Ready

\* A task before its first event stays before it.
LEMMA StaysBefore ==
  ASSUME IdentityInv, NEW w \in Workers, NEW t, Ready(w, t), worker[w].pc \in {"enter", "find", "override"},
         NEW task, worker' = [worker EXCEPT ![w] = task], task.tid = t,
         task.pc \in {"find", "override"} \/ (task.pc = "events" /\ task.at = 1),
         events' = events, Improves(table[t], table'[t]), log' = log, earlier' = earlier
  PROVE  \A i \in DOMAIN events[t] : /\ EventOK(t, i)' /\ NameFrom(t, events'[t][i].name)
                                     /\ FromFile(t) => events'[t][i].name \in OwnNames(log)
<1> SUFFICES ASSUME NEW i \in DOMAIN events[t]
             PROVE  /\ EventOK(t, i)' /\ NameFrom(t, events'[t][i].name)
                    /\ FromFile(t) => events'[t][i].name \in OwnNames(log)
  OBVIOUS
<1>1. EventOK(t, i) /\ NameFrom(t, events[t][i].name) /\ (FromFile(t) => events[t][i].name \in OwnNames(log))
  BY DEF Ready, IdentityInv, EventsInv, OriginInv, FileInv
<1>2. i \in Nat /\ 1 <= i
  BY DEF Ready
<1>3. worker'[w] = task /\ worker[w].tid = t
  BY DEF Ready
<1>4. PidAhead(t, i) /\ NameAhead(t, i)
  BY <1>3 DEF PidAhead, NameAhead, PidToCome, NameToCome
<1>5. PidAhead(t, i)' /\ NameAhead(t, i)'
  BY <1>2, <1>3 DEF PidAhead, NameAhead, PidToCome, NameToCome
<1>6. events'[t][i] = events[t][i]
  OBVIOUS
<1>7. EventOK(t, i)'
  BY <1>1, <1>4, <1>5, <1>6, EventStays
<1> QED BY <1>1, <1>6, <1>7

\* A thread of the file is entered already; another gets the name of its last event.
LEMMA EnterIdentity ==
  ASSUME TableInv, IdentityInv, NEW w \in Workers, Enter(w)
  PROVE  IdentityInv'
<1> PICK t : t = worker[w].tid
  OBVIOUS
<1> DEFINE p == Entered(t)
           task == [worker[w] EXCEPT !.pc = IF NeedsName(p) THEN "find" ELSE "events",
                                     !.at = IF NeedsName(p) THEN Min(DOMAIN table) ELSE 1]
<1>1. /\ phase = "pool" /\ worker[w].pc = "enter" /\ worker' = [worker EXCEPT ![w] = task]
      /\ table' = [table EXCEPT ![t] = p] /\ UNCHANGED <<events, queue, phase, log, earlier>>
  BY DEF Enter, At
<1>2. Ready(w, t)
  BY <1>1, TaskReady
<1>3. Last(events[t]) \in Infos /\ \E i \in DOMAIN events[t] : Last(events[t]) = events[t][i]
  BY <1>2 DEF Last, Ready
<1>4. p \in Infos
  <2>1. CASE table[t] = Null
    <3>1. Last(events[t]).name \in Names /\ Unknown \in Int
      BY <1>3 DEF Infos, Unknown
    <3> QED BY <2>1, <3>1, NewInfoType DEF Entered
  <2>2. CASE table[t] # Null
    BY <1>2, <2>2 DEF Entered, TableInv, DataInv, Ready
  <2> QED BY <2>1, <2>2
<1>5. Improves(table[t], p) /\ (FromFile(t) => table[t] # Null /\ p = table[t])
  BY <1>2 DEF Improves, Entered, IdentityInv, FileInv, Ready
<1>6. PidFrom(t, p.pid) /\ NameFrom(t, p.name)
  <2>1. CASE table[t] = Null
    <3>1. p.pid = Unknown /\ p.name \in {Blank, Last(events[t]).name}
      BY <2>1 DEF Entered, NewInfo, ValidName
    <3>2. NameFrom(t, Last(events[t]).name)
      BY <1>2, <1>3 DEF IdentityInv, OriginInv, Ready
    <3>3. PidFrom(t, Unknown) /\ NameFrom(t, Blank)
      BY DEF PidFrom, NameFrom
    <3> QED BY <3>1, <3>2, <3>3
  <2>2. CASE table[t] # Null
    BY <1>2, <2>2 DEF Entered, IdentityInv, OriginInv, Ready
  <2> QED BY <2>1, <2>2
<1>7. /\ task.tid = t /\ task.pc \in {"find", "events"}
      /\ task.pc = "events" => task.at = 1
      /\ task.pc = "find" => NeedsName(p)
  BY <1>2 DEF Ready
<1> HIDE DEF p, task
<1>8. DOMAIN table' = DOMAIN table /\ table'[t] = p /\ \A u \in DOMAIN table \ {t} : table'[u] = table[u]
  BY <1>1, <1>2 DEF Ready
<1>9. OwnStep(w, p, task)
  BY <1>1, <1>2, <1>8 DEF OwnStep, Ready, TableInv, DataInv
<1>10. ASSUME FromFile(t)
       PROVE  p.name \in OwnNames(log) /\ FileTask(task, p)
  <2>1. p.name \in OwnNames(log) /\ (p.name = Blank => DOMAIN earlier = {})
    BY <1>1, <1>2, <1>5, <1>10 DEF IdentityInv, FileInv, Ready
  <2>2. Known(t) => p.name = Filed(t).name
    <3>1. worker[w].pc = "enter" /\ worker[w].tid = t /\ p = table[t]
      BY <1>1, <1>2, <1>5, <1>10 DEF Ready
    <3>2. FileTask(worker[w], table[t])
      BY <1>10, <3>1 DEF IdentityInv, TasksInv, Working
    <3> QED BY <3>1, <3>2 DEF FileTask
  <2>3. Known(t) => Filed(t).name # Blank
    BY DEF Known, Complete
  <2>4. CASE task.pc = "find"
    BY <1>7, <2>1, <2>2, <2>3, <2>4 DEF FileTask, NeedsName
  <2>5. CASE task.pc = "events"
    <3>1. NamedBy(log, t, 1 - 1, Filed(t).name)
      BY NamedAtFirst
    <3> QED BY <1>7, <2>1, <2>2, <2>5, <3>1 DEF FileTask
  <2> QED BY <1>7, <2>4, <2>5
<1>11. \A i \in DOMAIN events[t] : /\ EventOK(t, i)' /\ NameFrom(t, events'[t][i].name)
                                   /\ FromFile(t) => events'[t][i].name \in OwnNames(log)
  <2>1. /\ worker[w].pc \in {"enter", "find", "override"} /\ worker' = [worker EXCEPT ![w] = task]
        /\ task.tid = t
        /\ task.pc \in {"find", "override"} \/ (task.pc = "events" /\ task.at = 1)
        /\ events' = events /\ Improves(table[t], table'[t]) /\ log' = log /\ earlier' = earlier
    BY <1>1, <1>5, <1>7, <1>8
  <2> QED BY <1>2, <2>1, StaysBefore
<1>12. TaskStep(w, t, p, task)
  BY <1>1, <1>5, <1>6, <1>7, <1>9, <1>10, <1>11 DEF TaskStep, NeedsName
<1> QED BY <1>1, <1>4, <1>12, TaskStepKeeps

\* The threads of one process have the same kin.
LEMMA KinOfKin ==
  ASSUME NEW t \in DOMAIN table, NEW u \in DOMAIN table, table[t] # Null, table[u] # Null,
         table[u].pid = table[t].pid, table[t].pid # Unknown, NEW n, NameFrom(u, n)
  PROVE  NameFrom(t, n)
<1>1. Kin(u) \subseteq Kin(t)
  BY DEF Kin
<1> QED BY <1>1 DEF NameFrom

\* Steps of the shell, and the crash.
LEMMA NothingMoves ==
  ASSUME IdentityInv, table' = table, events' = events, queue' = queue, worker' = worker,
         log' = log, earlier' = earlier, phase' = phase \/ phase' \in {"crashed", "exited"}
  PROVE  IdentityInv'
<1>1. EventsInv'
  BY DEF IdentityInv, EventsInv, EventOK, Says, PidDone, NameDone, PidAhead, NameAhead, NamedBy, Raw
<1>2. EarlierInv'
  BY DEF IdentityInv, EarlierInv, Recalled, Says, NamedBy, Raw
<1>3. FileInv'
  BY DEF IdentityInv, FileInv
<1>4. TasksInv'
  BY DEF IdentityInv, TasksInv, FileTask, Working, NamedBy, Raw
<1>5. OriginInv'
  BY DEF IdentityInv, OriginInv, PidFrom, NameFrom, Heard, Kin
<1> QED BY <1>1, <1>2, <1>3, <1>4, <1>5 DEF IdentityInv

\* A name that is looked up is one of the process.
LEMMA FindIdentity ==
  ASSUME TableInv, IdentityInv, NEW w \in Workers, Find(w)
  PROVE  IdentityInv'
<1> PICK t, i : t = worker[w].tid /\ i = worker[w].at
  OBVIOUS
<1>1. /\ phase = "pool" /\ worker[w].pc = "find" /\ UNCHANGED <<table, events, queue, log, earlier>>
  BY DEF Find, At
<1>2. Ready(w, t)
  BY <1>1, TaskReady
<1>3. /\ table[t] \in Infos /\ table[t].pid # Unknown /\ i \in DOMAIN table /\ i <= t
      /\ table[t] # Null
  <2>1. TaskOK(w)
    BY <1>1 DEF TableInv, WorkersInv
  <2>2. table[worker[w].tid].pid # Unknown
    BY <1>1 DEF IdentityInv, OriginInv
  <2> QED BY <1>1, <1>2, <2>1, <2>2 DEF TaskOK, TableInv, DataInv, Ready
<1>4. CASE phase' = "crashed" /\ UNCHANGED worker
  BY <1>1, <1>4, NothingMoves
<1>5. ASSUME UNCHANGED phase, NEW task, worker' = [worker EXCEPT ![w] = task],
             task.tid = t, task.pc \in {"find", "override"},
             task.pc = "override" => NameFrom(t, task.name)
      PROVE  IdentityInv'
  <2>1. OwnStep(w, table[t], task)
    BY <1>1, <1>2, <1>5 DEF OwnStep, Ready, TableInv, DataInv
  <2>2. Improves(table[t], table[t]) /\ Improves(table[t], table'[t])
    BY <1>1 DEF Improves
  <2>3. PidFrom(t, table[t].pid) /\ NameFrom(t, table[t].name)
    BY <1>2, <1>3 DEF IdentityInv, OriginInv, Ready
  <2>4. ASSUME FromFile(t)
        PROVE  table[t].name \in OwnNames(log) /\ FileTask(task, table[t])
    <3>1. FileTask(worker[w], table[t])
      BY <1>1, <1>2, <2>4 DEF IdentityInv, TasksInv, Working, Ready
    <3>2. table[t].name \in OwnNames(log)
      BY <1>2, <2>4 DEF IdentityInv, FileInv, Ready
    <3> QED BY <1>1, <1>2, <1>5, <3>1, <3>2 DEF FileTask, Ready
  <2>5. \A j \in DOMAIN events[t] : /\ EventOK(t, j)' /\ NameFrom(t, events'[t][j].name)
                                    /\ FromFile(t) => events'[t][j].name \in OwnNames(log)
    BY <1>1, <1>2, <1>5, <2>2, StaysBefore
  <2>6. TaskStep(w, t, table[t], task)
    BY <1>1, <1>3, <1>5, <2>1, <2>2, <2>3, <2>4, <2>5 DEF TaskStep
  <2> QED BY <1>1, <1>2, <1>3, <2>6, TaskStepKeeps DEF Ready
<1>6. CASE UNCHANGED phase /\ worker' = [worker EXCEPT ![w].at = NextKey(i)]
  <2> DEFINE task == [worker[w] EXCEPT !.at = NextKey(i)]
  <2>1. task.tid = t /\ task.pc = "find" /\ worker' = [worker EXCEPT ![w] = task]
    BY <1>1, <1>2, <1>6 DEF Ready
  <2> HIDE DEF task
  <2> QED BY <1>5, <1>6, <2>1
<1>7. CASE /\ table[i] # Null /\ table[i].pid = table[t].pid /\ UNCHANGED phase
           /\ \E n \in NamesRead(i) :
                worker' = [worker EXCEPT ![w].pc = "override", ![w].name = OrFromProcs(n, table[t].pid)]
  <2>1. PICK n \in NamesRead(i) :
          worker' = [worker EXCEPT ![w].pc = "override", ![w].name = OrFromProcs(n, table[t].pid)]
    BY <1>7
  <2> PICK name : name = OrFromProcs(n, table[t].pid)
    OBVIOUS
  <2> DEFINE task == [worker[w] EXCEPT !.pc = "override", !.name = name]
  <2>2. NameFrom(t, name)
    <3>1. name \in {n, Blank} \cup Range(Procs)
      BY DEF OrFromProcs, FindCommInProcs, Range
    <3>2. n \in {table[i].name, Torn}
      BY <2>1 DEF NamesRead
    <3>3. NameFrom(t, table[i].name)
      <4>1. NameFrom(i, table[i].name)
        BY <1>3, <1>7 DEF IdentityInv, OriginInv
      <4> QED BY <1>2, <1>3, <1>7, <4>1, KinOfKin DEF Ready
    <3>4. \A m \in {Blank, Torn} \cup Range(Procs) : NameFrom(t, m)
      BY DEF NameFrom
    <3> QED BY <3>1, <3>2, <3>3, <3>4
  <2>3. /\ task.tid = t /\ task.pc = "override" /\ task.name = name
        /\ worker' = [worker EXCEPT ![w] = task]
    BY <1>2, <2>1 DEF Ready
  <2> HIDE DEF task
  <2> QED BY <1>5, <1>7, <2>2, <2>3
<1> QED BY <1>4, <1>6, <1>7 DEF Find

\* A thread of the file looks a name up only in the first construction.
LEMMA OverrideIdentity ==
  ASSUME TableInv, IdentityInv, NEW w \in Workers, Override(w)
  PROVE  IdentityInv'
<1> PICK t, n : t = worker[w].tid /\ n = worker[w].name
  OBVIOUS
<1> DEFINE p == IF n = Blank THEN table[t] ELSE [table[t] EXCEPT !.name = n]
           task == [worker[w] EXCEPT !.pc = "events", !.at = 1, !.name = Blank]
<1>1. /\ phase = "pool" /\ worker[w].pc = "override" /\ UNCHANGED <<events, queue, phase, log, earlier>>
      /\ worker' = [worker EXCEPT ![w] = task]
      /\ table' = IF n = Blank THEN table ELSE [table EXCEPT ![t].name = n]
  BY DEF Override, At
<1>2. Ready(w, t)
  BY <1>1, TaskReady
<1>3. table[t] \in Infos /\ table[t] # Null
  <2>1. TaskOK(w)
    BY <1>1 DEF TableInv, WorkersInv
  <2> QED BY <1>1, <1>2, <2>1 DEF TaskOK, TableInv, DataInv, Ready
<1>4. DOMAIN table' = DOMAIN table /\ table'[t] = p /\ \A u \in DOMAIN table \ {t} : table'[u] = table[u]
  BY <1>1, <1>2 DEF Ready
<1>5. p \in Infos /\ p.pid = table[t].pid /\ p.name = IF n = Blank THEN table[t].name ELSE n
  BY <1>2, <1>3 DEF Infos, Ready
<1>6. task.tid = t /\ task.pc = "events" /\ task.at = 1
  BY <1>2 DEF Ready
<1> HIDE DEF p, task
<1>7. p # Null
  BY <1>5, NamesOK
<1>8. OwnStep(w, p, task)
  BY <1>1, <1>2, <1>4 DEF OwnStep, Ready, TableInv, DataInv
<1>9. Improves(table[t], p)
  BY <1>5, <1>7 DEF Improves
<1>10. NameFrom(t, n)
  BY <1>1 DEF IdentityInv, OriginInv
<1>11. PidFrom(t, p.pid) /\ NameFrom(t, p.name)
  BY <1>2, <1>3, <1>5, <1>10 DEF IdentityInv, OriginInv, Ready
<1>12. ASSUME FromFile(t) PROVE p.name \in OwnNames(log) /\ FileTask(task, p)
  <2>1. ~Known(t) /\ DOMAIN earlier = {}
    BY <1>1, <1>2, <1>12 DEF IdentityInv, TasksInv, Working, FileTask, Ready
  <2>2. n \in OwnNames(log)
    <3>1. Heard = {log}
      BY <2>1 DEF Heard
    <3>2. log \in Logs
      BY <1>2 DEF Ready
    <3> QED BY <1>10, <3>1, <3>2, DeclaredNames, ToldIsOwn DEF NameFrom
  <2>3. table[t].name \in OwnNames(log)
    BY <1>2, <1>12 DEF IdentityInv, FileInv, Ready
  <2> QED BY <1>5, <1>6, <2>1, <2>2, <2>3 DEF FileTask
<1>13. \A i \in DOMAIN events[t] : /\ EventOK(t, i)' /\ NameFrom(t, events'[t][i].name)
                                   /\ FromFile(t) => events'[t][i].name \in OwnNames(log)
  BY <1>1, <1>2, <1>4, <1>6, <1>9, StaysBefore
<1>14. TaskStep(w, t, p, task)
  BY <1>1, <1>6, <1>8, <1>9, <1>11, <1>12, <1>13 DEF TaskStep
<1> QED BY <1>1, <1>2, <1>5, <1>14, TaskStepKeeps DEF Ready

\* What is ahead of a thread is ahead of the one task on it.
LEMMA OneTask ==
  ASSUME IdentityInv, NEW w \in Workers, worker[w].pc # "idle", NEW t, Ready(w, t),
         NEW task, worker' = [worker EXCEPT ![w] = task], queue' = queue, task = Idle \/ task.tid = t,
         NEW j
  PROVE  /\ PidAhead(t, j) <=> PidToCome(worker[w], j)
         /\ NameAhead(t, j) <=> NameToCome(worker[w], j)
         /\ PidAhead(t, j)' <=> PidToCome(task, j)
         /\ NameAhead(t, j)' <=> NameToCome(task, j)
<1>1. t \notin queue /\ t \notin queue' /\ worker[w].tid = t
  BY DEF Ready
<1>2. worker'[w] = task /\ \A v \in Workers \ {w} : worker'[v] = worker[v]
  BY DEF Ready
<1>3. \A v \in Workers : worker[v].pc # "idle" /\ worker[v].tid = t => v = w
  BY <1>1 DEF IdentityInv, TasksInv, Working
<1>4. \A x : x.pc = "idle" => ~PidToCome(x, j) /\ ~NameToCome(x, j)
  BY DEF PidToCome, NameToCome
<1>5. ASSUME NEW v \in Workers, worker[v].tid = t, PidToCome(worker[v], j) \/ NameToCome(worker[v], j)
      PROVE  v = w
  BY <1>3, <1>4, <1>5
<1>6. task.tid = t \/ (~PidToCome(task, j) /\ ~NameToCome(task, j))
  BY <1>4 DEF Idle
<1>7. /\ PidAhead(t, j) <=> \E v \in Workers : worker[v].tid = t /\ PidToCome(worker[v], j)
      /\ NameAhead(t, j) <=> \E v \in Workers : worker[v].tid = t /\ NameToCome(worker[v], j)
      /\ PidAhead(t, j)' <=> \E v \in Workers : worker'[v].tid = t /\ PidToCome(worker'[v], j)
      /\ NameAhead(t, j)' <=> \E v \in Workers : worker'[v].tid = t /\ NameToCome(worker'[v], j)
  BY <1>1 DEF PidAhead, NameAhead, PidToCome, NameToCome
<1> QED BY <1>1, <1>2, <1>5, <1>6, <1>7

\* What there is for a task at an event.
LEMMA AtEvent ==
  ASSUME TableInv, IdentityInv, NEW w \in Workers, worker[w].pc \in {"events", "names"},
         NEW t, Ready(w, t), NEW i, i = worker[w].at
  PROVE  /\ i \in DOMAIN events[t] /\ i \in Nat /\ i # 0 /\ i <= Len(events[t])
         /\ table[t] \in Infos /\ table[t] # Null /\ events[t][i] \in Infos
         /\ EventOK(t, i) /\ NameFrom(t, events[t][i].name)
         /\ PidFrom(t, table[t].pid) /\ NameFrom(t, table[t].name)
         /\ FromFile(t) => table[t].name \in OwnNames(log) /\ events[t][i].name \in OwnNames(log)
         /\ Known(t) => FromFile(t) /\ table[t].pid # Unknown /\ NamedBy(log, t, i - 1, table[t].name)
<1>1. TaskOK(w) /\ worker[w].tid = t
  BY DEF TableInv, WorkersInv, Ready
<1>2. /\ i \in DOMAIN events[t] /\ table[t] # Null /\ t \in DOMAIN table /\ t \in DOMAIN events
  BY <1>1 DEF TaskOK, Ready
<1>3. /\ i \in Nat /\ i # 0 /\ i <= Len(events[t]) /\ events[t][i] \in Infos
  BY <1>2 DEF Ready
<1>4. table[t] \in Infos
  BY <1>2 DEF TableInv, DataInv
<1>5. EventOK(t, i)
  BY <1>2 DEF IdentityInv, EventsInv
<1>6. NameFrom(t, events[t][i].name) /\ PidFrom(t, table[t].pid) /\ NameFrom(t, table[t].name)
  BY <1>2 DEF IdentityInv, OriginInv
<1>7. FromFile(t) => table[t].name \in OwnNames(log) /\ events[t][i].name \in OwnNames(log)
  BY <1>2 DEF IdentityInv, FileInv
<1>8. ASSUME Known(t) PROVE FromFile(t) /\ table[t].pid # Unknown /\ NamedBy(log, t, i - 1, table[t].name)
  <2>1. FromFile(t) /\ Filed(t).pid # Unknown
    BY <1>8 DEF Known, Complete
  <2>2. table[t].pid # Unknown
    BY <1>2, <2>1 DEF IdentityInv, FileInv
  <2>3. FileTask(worker[w], table[t])
    BY <1>1, <2>1 DEF IdentityInv, TasksInv, Working
  <2> QED BY <1>1, <1>8, <2>1, <2>2, <2>3 DEF FileTask
<1> QED BY <1>2, <1>3, <1>4, <1>5, <1>6, <1>7, <1>8

\* The event of an earlier construction from the same log.
LEMMA SaidBefore ==
  ASSUME IdentityInv, NEW w, NEW t, Ready(w, t), NEW i \in DOMAIN events[t], log \in DOMAIN earlier
  PROVE  Says(log, t, i, earlier[log][t][i], table[t])
<1>1. DOMAIN earlier[log] = DOMAIN Traces[log] /\ DOMAIN earlier[log][t] = DOMAIN Traces[log][t]
  BY DEF Ready, IdentityInv, EarlierInv
<1> QED BY <1>1 DEF Ready, IdentityInv, EarlierInv, Recalled

\* The event and the entry tell each other the process.
LEMMA UpdatePidIdentity ==
  ASSUME TableInv, IdentityInv, NEW w \in Workers, UpdatePid(w)
  PROVE  IdentityInv'
<1> PICK t, i, e, c : t = worker[w].tid /\ i = worker[w].at /\ e = events[t][i] /\ c = table[t]
  OBVIOUS
<1> DEFINE p == [c EXCEPT !.pid = IF c.pid = Unknown THEN e.pid ELSE c.pid]
           f == [e EXCEPT !.pid = IF e.pid = Unknown THEN c.pid ELSE e.pid]
           task == [worker[w] EXCEPT !.pc = "names"]
<1>1. /\ phase = "pool" /\ worker[w].pc = "events" /\ UNCHANGED <<queue, phase, log, earlier>>
      /\ worker' = [worker EXCEPT ![w] = task]
  BY DEF UpdatePid, At
<1>2. table' = [table EXCEPT ![t] = p] /\ events' = [events EXCEPT ![t] = [events[t] EXCEPT ![i] = f]]
  BY DEF UpdatePid, UpdatedInfo, UpdatedEvent
<1>3. Ready(w, t)
  BY <1>1, TaskReady
<1>4. /\ i \in DOMAIN events[t] /\ i \in Nat /\ i # 0 /\ i <= Len(events[t])
      /\ c \in Infos /\ c # Null /\ e \in Infos
      /\ EventOK(t, i) /\ NameFrom(t, e.name)
      /\ PidFrom(t, c.pid) /\ NameFrom(t, c.name)
      /\ FromFile(t) => c.name \in OwnNames(log) /\ e.name \in OwnNames(log)
      /\ Known(t) => FromFile(t) /\ c.pid # Unknown /\ NamedBy(log, t, i - 1, c.name)
  BY <1>1, <1>3, AtEvent
<1>5. /\ p \in Infos /\ p.pid = (IF c.pid = Unknown THEN e.pid ELSE c.pid) /\ p.name = c.name
      /\ f \in Infos /\ f.pid = (IF e.pid = Unknown THEN c.pid ELSE e.pid) /\ f.name = e.name
  BY <1>4 DEF Infos
<1>6. task.tid = t /\ task.pc = "names" /\ task.at = i
  BY <1>3 DEF Ready
<1> HIDE DEF p, f, task
<1>7. /\ DOMAIN table' = DOMAIN table /\ table'[t] = p /\ \A u \in DOMAIN table \ {t} : table'[u] = table[u]
      /\ DOMAIN events' = DOMAIN events /\ \A u \in DOMAIN events \ {t} : events'[u] = events[u]
      /\ events'[t] = [events[t] EXCEPT ![i] = f]
  BY <1>2, <1>3 DEF Ready
<1>8. /\ DOMAIN events'[t] = DOMAIN events[t] /\ events'[t] \in Seq(Infos)
      /\ events'[t][i] = f /\ \A j \in DOMAIN events[t] \ {i} : events'[t][j] = events[t][j]
  <2>1. events[t] \in Seq(Infos)
    BY <1>3 DEF Ready
  <2>2. i \in DOMAIN events[t] /\ f \in Infos /\ events'[t] = [events[t] EXCEPT ![i] = f]
    BY <1>4, <1>5, <1>7
  <2> QED BY <2>1, <2>2, ReplaceOne
<1>9. OwnStep(w, p, task)
  BY <1>1, <1>3, <1>7, <1>8 DEF OwnStep, TableInv, DataInv, Ready
<1>10. p # Null
  BY <1>5, NamesOK
<1>11. Improves(c, p)
  BY <1>5, <1>10 DEF Improves
<1>12. /\ Raw(log, t, i).pid # Unknown => e.pid = Raw(log, t, i).pid
       /\ Raw(log, t, i).pid = Unknown => e.pid \in {Unknown, c.pid}
       /\ IF Raw(log, t, i).name # Blank THEN e.name = Raw(log, t, i).name ELSE e.name = Blank \/ c.name # Blank
  BY <1>4 DEF EventOK, Says
<1>13. \A j : /\ PidAhead(t, j) <=> PidToCome(worker[w], j)
              /\ NameAhead(t, j) <=> NameToCome(worker[w], j)
              /\ PidAhead(t, j)' <=> PidToCome(task, j)
              /\ NameAhead(t, j)' <=> NameToCome(task, j)
  BY <1>1, <1>3, <1>6, OneTask
<1>14. \A j \in Nat : j # i => /\ PidToCome(worker[w], j) <=> PidToCome(task, j)
                               /\ NameToCome(worker[w], j) <=> NameToCome(task, j)
  BY <1>1, <1>3, <1>4, <1>6 DEF PidToCome, NameToCome, Ready
<1>15. PidDone(log, t, i, f.pid)
  <2>1. ASSUME log \in DOMAIN earlier, earlier[log][t][i].pid # Unknown PROVE f.pid # Unknown
    <3>1. Says(log, t, i, earlier[log][t][i], c)
      BY <1>3, <1>4, <2>1, SaidBefore
    <3> QED BY <1>5, <1>12, <2>1, <3>1 DEF Says
  <2>2. Known(t) => f.pid # Unknown
    BY <1>4, <1>5
  <2> QED BY <2>1, <2>2 DEF PidDone
<1>16. EventOK(t, i)'
  <2>1. Says(log, t, i, f, p)
    BY <1>5, <1>10, <1>12 DEF Says
  <2>2. NameAhead(t, i) /\ NameAhead(t, i)'
    <3>1. worker[w].pc = "events" /\ worker[w].at <= i /\ task.pc = "names" /\ task.at <= i
      BY <1>1, <1>3, <1>4, <1>6 DEF Ready
    <3>2. NameToCome(worker[w], i) /\ NameToCome(task, i)
      BY <3>1 DEF NameToCome
    <3> QED BY <1>13, <3>2
  <2>3. f.name = Raw(log, t, i).name
    BY <1>4, <1>5, <2>2 DEF EventOK
  <2> QED BY <1>1, <1>7, <1>8, <1>15, <2>1, <2>2, <2>3 DEF EventOK, Says, PidDone, Raw
<1>17. ASSUME NEW j \in DOMAIN events[t], j # i PROVE EventOK(t, j)'
  <2>1. j \in Nat
    BY <1>3 DEF Ready
  <2>2. (PidAhead(t, j)' <=> PidAhead(t, j)) /\ (NameAhead(t, j)' <=> NameAhead(t, j))
    BY <1>13, <1>14, <1>17, <2>1
  <2>3. EventOK(t, j)
    BY <1>3, <1>17 DEF IdentityInv, EventsInv, Ready
  <2>4. events'[t][j] = events[t][j] /\ Improves(table[t], table'[t]) /\ log' = log /\ earlier' = earlier
    BY <1>1, <1>7, <1>8, <1>11, <1>17
  <2> QED BY <2>2, <2>3, <2>4, EventStays
<1>18. PidFrom(t, p.pid)
  <2>1. PidFrom(t, Raw(log, t, i).pid)
    <3>1. Traces[log][t][i] \in Told(log, t) /\ Raw(log, t, i).pid = Traces[log][t][i].pid
      BY <1>3, <1>4, RawIs DEF Ready
    <3>2. log \in Heard
      BY DEF Heard
    <3> QED BY <3>1, <3>2 DEF PidFrom
  <2>2. PidFrom(t, Unknown)
    BY DEF PidFrom
  <2> QED BY <1>4, <1>5, <1>12, <2>1, <2>2
<1>19. FromFile(t) => p.name \in OwnNames(log) /\ FileTask(task, p)
  <2>1. Known(t) => NamedBy(log, t, task.at - 1, p.name)
    BY <1>4, <1>5, <1>6
  <2> QED BY <1>4, <1>5, <1>6, <2>1 DEF FileTask
<1>20. ASSUME NEW j \in DOMAIN events[t]
       PROVE  /\ EventOK(t, j)' /\ NameFrom(t, events'[t][j].name)
              /\ FromFile(t) => events'[t][j].name \in OwnNames(log)
  <2>1. events'[t][j].name = events[t][j].name
    BY <1>5, <1>8
  <2> QED BY <1>3, <1>16, <1>17, <2>1 DEF Ready, IdentityInv, OriginInv, FileInv
<1>21. TaskStep(w, t, p, task)
  BY <1>1, <1>4, <1>5, <1>6, <1>7, <1>8, <1>9, <1>11, <1>18, <1>19, <1>20 DEF TaskStep
<1> QED BY <1>1, <1>3, <1>5, <1>21, TaskStepKeeps DEF Ready

\* The event and the entry get one name, the event's if it has any.
LEMMA UpdateNameIdentity ==
  ASSUME TableInv, IdentityInv, NEW w \in Workers, UpdateName(w)
  PROVE  IdentityInv'
<1> PICK t, i, e, c : t = worker[w].tid /\ i = worker[w].at /\ e = events[t][i] /\ c = table[t]
  OBVIOUS
<1> DEFINE n == IF e.name = Blank THEN c.name ELSE e.name
           p == [c EXCEPT !.name = n]
           f == [e EXCEPT !.name = n]
           on == [worker[w] EXCEPT !.pc = "events", !.at = i + 1]
           task == IF i = Len(events[t]) THEN Idle ELSE on
<1>1. /\ phase = "pool" /\ worker[w].pc = "names" /\ UNCHANGED <<queue, phase, log, earlier>>
      /\ worker' = [worker EXCEPT ![w] = task]
  BY DEF UpdateName, At
<1>2. table' = [table EXCEPT ![t] = p] /\ events' = [events EXCEPT ![t] = [events[t] EXCEPT ![i] = f]]
  BY DEF UpdateName, UpdatedInfo, UpdatedEvent
<1>3. Ready(w, t)
  BY <1>1, TaskReady
<1>4. /\ i \in DOMAIN events[t] /\ i \in Nat /\ i # 0 /\ i <= Len(events[t])
      /\ c \in Infos /\ c # Null /\ e \in Infos
      /\ EventOK(t, i) /\ NameFrom(t, e.name)
      /\ PidFrom(t, c.pid) /\ NameFrom(t, c.name)
      /\ FromFile(t) => c.name \in OwnNames(log) /\ e.name \in OwnNames(log)
      /\ Known(t) => FromFile(t) /\ c.pid # Unknown /\ NamedBy(log, t, i - 1, c.name)
  BY <1>1, <1>3, AtEvent
<1>5. /\ p \in Infos /\ p.pid = c.pid /\ p.name = n
      /\ f \in Infos /\ f.pid = e.pid /\ f.name = n
  BY <1>4 DEF Infos
<1>6. /\ i = Len(events[t]) => task = Idle
      /\ i # Len(events[t]) => task.tid = t /\ task.pc = "events" /\ task.at = i + 1
  BY <1>3 DEF Ready
<1> HIDE DEF p, f, on, task
<1>7. /\ DOMAIN table' = DOMAIN table /\ table'[t] = p /\ \A u \in DOMAIN table \ {t} : table'[u] = table[u]
      /\ DOMAIN events' = DOMAIN events /\ \A u \in DOMAIN events \ {t} : events'[u] = events[u]
      /\ events'[t] = [events[t] EXCEPT ![i] = f]
  BY <1>2, <1>3 DEF Ready
<1>8. /\ DOMAIN events'[t] = DOMAIN events[t] /\ events'[t] \in Seq(Infos)
      /\ events'[t][i] = f /\ \A j \in DOMAIN events[t] \ {i} : events'[t][j] = events[t][j]
  <2>1. events[t] \in Seq(Infos)
    BY <1>3 DEF Ready
  <2>2. i \in DOMAIN events[t] /\ f \in Infos /\ events'[t] = [events[t] EXCEPT ![i] = f]
    BY <1>4, <1>5, <1>7
  <2> QED BY <2>1, <2>2, ReplaceOne
<1>9. OwnStep(w, p, task)
  BY <1>1, <1>3, <1>7, <1>8 DEF OwnStep, TableInv, DataInv, Ready
<1>10. p # Null
  BY <1>5, NamesOK
<1>11. Improves(c, p)
  BY <1>5, <1>10 DEF Improves
<1>12. IF Raw(log, t, i).pid # Unknown THEN e.pid = Raw(log, t, i).pid ELSE e.pid \in {Unknown, c.pid}
  BY <1>4 DEF EventOK, Says
<1>13. \A j : /\ PidAhead(t, j) <=> PidToCome(worker[w], j)
              /\ NameAhead(t, j) <=> NameToCome(worker[w], j)
              /\ PidAhead(t, j)' <=> PidToCome(task, j)
              /\ NameAhead(t, j)' <=> NameToCome(task, j)
  BY <1>1, <1>3, <1>6, OneTask
<1>14. \A j \in 1 .. Len(events[t]) : /\ PidToCome(worker[w], j) <=> PidToCome(task, j)
                                      /\ j # i => (NameToCome(worker[w], j) <=> NameToCome(task, j))
  <2>1. CASE i = Len(events[t])
    <3>1. \A j \in 1 .. Len(events[t]) : ~(i < j) /\ (j # i => ~(i <= j))
      BY <1>4, <2>1
    <3>2. task = Idle
      BY <1>6, <2>1
    <3> QED BY <1>1, <1>3, <3>1, <3>2 DEF PidToCome, NameToCome, Ready, Idle
  <2>2. CASE i # Len(events[t])
    <3>1. \A j \in 1 .. Len(events[t]) : (i + 1 <= j <=> i < j) /\ (j # i => (i <= j <=> i + 1 <= j))
      BY <1>4, <2>2
    <3> QED BY <1>1, <1>3, <1>6, <2>2, <3>1 DEF PidToCome, NameToCome, Ready
  <2> QED BY <2>1, <2>2
<1>15. DOMAIN events[t] = 1 .. Len(events[t])
  BY <1>3 DEF Ready
<1>16. NameAhead(t, i) /\ ~NameAhead(t, i)' /\ ~PidAhead(t, i)
  <2>1. NameToCome(worker[w], i) /\ ~PidToCome(worker[w], i)
    BY <1>1, <1>3, <1>4 DEF NameToCome, PidToCome, Ready
  <2>2. ~NameToCome(task, i)
    BY <1>4, <1>6 DEF NameToCome, Idle
  <2> QED BY <1>13, <2>1, <2>2
<1>17. e.name = Raw(log, t, i).name /\ PidDone(log, t, i, e.pid)
  BY <1>16, <1>4 DEF EventOK
<1>18. NameDone(log, t, i, n)
  <2>1. ASSUME log \in DOMAIN earlier, earlier[log][t][i].name # Blank PROVE n # Blank
    <3>1. Says(log, t, i, earlier[log][t][i], c)
      BY <1>3, <1>4, <2>1, SaidBefore
    <3> QED BY <1>17, <2>1, <3>1 DEF Says
  <2>2. Known(t) => NamedBy(log, t, i, n)
    BY <1>4, <1>17, NamedNext
  <2> HIDE DEF n
  <2> QED BY <2>1, <2>2 DEF NameDone
<1>19. EventOK(t, i)'
  <2>1. Says(log, t, i, f, p)
    BY <1>5, <1>10, <1>12, <1>17 DEF Says
  <2>2. NameDone(log, t, i, f.name) /\ PidDone(log, t, i, f.pid)
    BY <1>5, <1>17, <1>18
  <2>3. Says(log, t, i, events[t][i], table[t])' /\ NameDone(log, t, i, events[t][i].name)' /\ PidDone(log, t, i, events[t][i].pid)'
    <3>1. log' = log /\ earlier' = earlier /\ events'[t][i] = f /\ table'[t] = p
      BY <1>1, <1>7, <1>8
    <3>2. Says(log, t, i, events[t][i], table[t])'
      BY <2>1, <3>1 DEF Says, Raw
    <3>3. PidDone(log, t, i, events[t][i].pid)'
      BY <2>2, <3>1 DEF PidDone
    <3>4. NameDone(log, t, i, events[t][i].name)'
      BY <2>2, <3>1 DEF NameDone, NamedBy, Raw
    <3> QED BY <3>2, <3>3, <3>4
  <2> QED BY <1>16, <2>3 DEF EventOK
<1>20. ASSUME NEW j \in DOMAIN events[t], j # i PROVE EventOK(t, j)'
  <2>1. (PidAhead(t, j)' <=> PidAhead(t, j)) /\ (NameAhead(t, j)' <=> NameAhead(t, j))
    BY <1>13, <1>14, <1>15, <1>20
  <2>2. EventOK(t, j)
    BY <1>3, <1>20 DEF IdentityInv, EventsInv, Ready
  <2>3. events'[t][j] = events[t][j] /\ Improves(table[t], table'[t]) /\ log' = log /\ earlier' = earlier
    BY <1>1, <1>7, <1>8, <1>11, <1>20
  <2> QED BY <2>1, <2>2, <2>3, EventStays
<1>21. NameFrom(t, n) /\ (FromFile(t) => n \in OwnNames(log))
  BY <1>4
<1>22. FromFile(t) => p.name \in OwnNames(log) /\ (task # Idle => FileTask(task, p))
  <2>1. ASSUME task # Idle PROVE FileTask(task, p)
    <3>1. task.tid = t /\ task.pc = "events" /\ task.at - 1 = i
      <4>1. task.tid = t /\ task.pc = "events" /\ task.at = i + 1
        BY <1>6, <2>1
      <4>2. i \in Nat
        BY <1>4
      <4> QED BY <4>1, <4>2
    <3>2. Known(t) => NamedBy(log, t, i, n)
      BY <1>18 DEF NameDone
    <3> QED BY <1>5, <3>1, <3>2 DEF FileTask
  <2> QED BY <1>5, <1>21, <2>1
<1>23. ASSUME NEW j \in DOMAIN events[t]
       PROVE  /\ EventOK(t, j)' /\ NameFrom(t, events'[t][j].name)
              /\ FromFile(t) => events'[t][j].name \in OwnNames(log)
  <2>1. CASE j = i
    BY <1>5, <1>8, <1>19, <1>21, <2>1
  <2>2. CASE j # i
    BY <1>3, <1>8, <1>20, <2>2 DEF Ready, IdentityInv, OriginInv, FileInv
  <2> QED BY <2>1, <2>2
<1>24. task = Idle \/ (task.tid = t /\ task.pc = "events")
  BY <1>6
<1>25. PidFrom(t, p.pid) /\ NameFrom(t, p.name)
  BY <1>4, <1>5, <1>21
<1>26. TaskStep(w, t, p, task)
  <2>1. /\ task = Idle \/ (task.pc # "idle" /\ task.tid = t)
        /\ task.pc # "find" /\ task.pc # "override"
    BY <1>24 DEF Idle
  <2>2. Improves(table[t], p) /\ earlier' = earlier
    BY <1>1, <1>11
  <2>3. \A u \in DOMAIN events \ {t} : events'[u] = events[u]
    BY <1>7
  <2>4. DOMAIN events'[t] = DOMAIN events[t]
    BY <1>8
  <2> QED BY <1>9, <1>22, <1>23, <1>25, <2>1, <2>2, <2>3, <2>4 DEF TaskStep
<1> QED BY <1>1, <1>3, <1>5, <1>26, TaskStepKeeps DEF Ready

\* Taking a task leaves as much ahead as before.
LEMMA TakeAhead ==
  ASSUME TableInv, NEW w \in Workers, Take(w), NEW u, NEW j
  PROVE  (PidAhead(u, j)' <=> PidAhead(u, j)) /\ (NameAhead(u, j)' <=> NameAhead(u, j))
<1> PICK t : t = Min(queue)
  OBVIOUS
<1> DEFINE task == [Idle EXCEPT !.pc = "enter", !.tid = t]
<1>1. /\ worker[w].pc = "idle" /\ queue # {}
      /\ worker' = [worker EXCEPT ![w] = task] /\ queue' = queue \ {t}
  BY DEF Take, At
<1>2. queue \in SUBSET Nat
  BY DEF TableInv, DataInv
<1>3. t \in queue
  BY <1>1, <1>2, MinIsLeast
<1>4. task.pc = "enter" /\ task.tid = t
  BY DEF Idle
<1> HIDE DEF task
<1>5. worker'[w] = task /\ \A v \in Workers \ {w} : worker'[v] = worker[v]
  BY <1>1 DEF TableInv, WorkersInv
<1>6. ~PidToCome(worker[w], j) /\ ~NameToCome(worker[w], j) /\ PidToCome(task, j) /\ NameToCome(task, j)
  BY <1>1, <1>4 DEF PidToCome, NameToCome
<1>7. /\ PidAhead(u, j)' <=> u \in queue' \/ \E v \in Workers : worker'[v].tid = u /\ PidToCome(worker'[v], j)
      /\ NameAhead(u, j)' <=> u \in queue' \/ \E v \in Workers : worker'[v].tid = u /\ NameToCome(worker'[v], j)
  BY DEF PidAhead, NameAhead, PidToCome, NameToCome
<1>8. CASE u = t
  BY <1>3, <1>4, <1>5, <1>6, <1>7, <1>8 DEF PidAhead, NameAhead
<1>9. CASE u # t
  <2>1. u \in queue' <=> u \in queue
    BY <1>1, <1>9
  <2>2. \A v \in Workers : /\ (worker'[v].tid = u /\ PidToCome(worker'[v], j)) <=> (worker[v].tid = u /\ PidToCome(worker[v], j))
                           /\ (worker'[v].tid = u /\ NameToCome(worker'[v], j)) <=> (worker[v].tid = u /\ NameToCome(worker[v], j))
    BY <1>4, <1>5, <1>6, <1>9
  <2> QED BY <1>7, <2>1, <2>2 DEF PidAhead, NameAhead
<1> QED BY <1>8, <1>9

\* The identities are not disturbed by it.
LEMMA TakeIdentity ==
  ASSUME TableInv, IdentityInv, NEW w \in Workers, Take(w)
  PROVE  IdentityInv'
<1> PICK t : t = Min(queue)
  OBVIOUS
<1> DEFINE task == [Idle EXCEPT !.pc = "enter", !.tid = t]
<1>1. /\ worker[w].pc = "idle" /\ queue # {}
      /\ worker' = [worker EXCEPT ![w] = task] /\ queue' = queue \ {t}
      /\ UNCHANGED <<table, events, phase, log, earlier>>
  BY DEF Take, At
<1>2. queue \in SUBSET Nat /\ queue \subseteq DOMAIN events /\ DOMAIN events \subseteq DOMAIN table
  BY DEF TableInv, DataInv
<1>3. t \in queue /\ t \in DOMAIN table
  BY <1>1, <1>2, MinIsLeast
<1>4. task.pc = "enter" /\ task.tid = t
  BY DEF Idle
<1> HIDE DEF task
<1>5. worker'[w] = task /\ \A v \in Workers \ {w} : worker'[v] = worker[v]
  BY <1>1 DEF TableInv, WorkersInv
<1>6. \A v \in Workers : worker[v].pc # "idle" => worker[v].tid # t /\ worker[v].tid \in DOMAIN table
  <2> SUFFICES ASSUME NEW v \in Workers, worker[v].pc # "idle" PROVE worker[v].tid # t /\ worker[v].tid \in DOMAIN table
    OBVIOUS
  <2>1. TaskOK(v) /\ worker[v].tid \in Nat
    BY DEF TableInv, WorkersInv
  <2> QED BY <1>2, <1>3, <2>1 DEF TaskOK
<1>7. Improved /\ \A q : Improves(q, q)
  BY <1>1 DEF Improved, Improves
<1>8. EarlierInv'
  BY <1>1, <1>7, EarlierStays DEF IdentityInv
<1>9. ASSUME NEW u, NEW j
      PROVE  (PidAhead(u, j)' <=> PidAhead(u, j)) /\ (NameAhead(u, j)' <=> NameAhead(u, j))
  BY TakeAhead
<1>10. EventsInv'
  <2>1. ASSUME NEW u \in DOMAIN events, NEW j \in DOMAIN events[u] PROVE EventOK(u, j)'
    <3>1. EventOK(u, j)
      BY DEF IdentityInv, EventsInv
    <3>2. events'[u][j] = events[u][j] /\ Improves(table[u], table'[u]) /\ log' = log /\ earlier' = earlier
      BY <1>1, <1>7
    <3> QED BY <1>9, <3>1, <3>2, EventStays
  <2> QED BY <1>1, <2>1 DEF IdentityInv, EventsInv
<1>11. FileInv'
  <2>1. FileInv
    BY DEF IdentityInv
  <2>2. /\ \A u \in queue : u \in DOMAIN table => table'[u] = table[u]
        /\ \A u \in DOMAIN table : FromFile(u) => table'[u].name \in OwnNames(log)
        /\ \A u \in DOMAIN events : FromFile(u) => \A i \in DOMAIN events'[u] : events'[u][i].name \in OwnNames(log)
    BY <1>1, <2>1 DEF FileInv
  <2> HIDE DEF FileInv
  <2> QED BY <1>1, <1>7, <2>1, <2>2, FileStays
<1>12. TasksInv'
  <2>1. \A x, q : FileTask(x, q)' <=> FileTask(x, q)
    BY <1>1 DEF FileTask, Known, FromFile, Filed, NamedBy, Raw
  <2>2. FromFile(t) => FileTask(task, table[t])
    BY <1>3, <1>4 DEF FileTask, IdentityInv, FileInv
  <2>3. ASSUME NEW v \in Workers, worker'[v].pc # "idle", FromFile(worker'[v].tid)
        PROVE  FileTask(worker'[v], table'[worker'[v].tid])
    BY <1>1, <1>4, <1>5, <2>2, <2>3 DEF IdentityInv, TasksInv, Working
  <2>4. ASSUME NEW v \in Workers, NEW x \in Workers, worker'[v].pc # "idle", worker'[x].pc # "idle", worker'[v].tid = worker'[x].tid
        PROVE  v = x
    BY <1>4, <1>5, <1>6, <2>4 DEF IdentityInv, TasksInv, Working
  <2> QED BY <2>1, <2>3, <2>4 DEF TasksInv, Working, FromFile
<1>13. OriginInv'
  <2>1. ASSUME NEW v \in Workers PROVE worker'[v].pc \in {"find", "override"} => worker'[v] = worker[v]
    BY <1>4, <1>5
  <2>2. \A u, q : (PidFrom(u, q)' <=> PidFrom(u, q)) /\ (NameFrom(u, q)' <=> NameFrom(u, q))
    BY <1>1 DEF PidFrom, NameFrom, Heard, Kin
  <2>3. ASSUME NEW v \in Workers, NEW x, x = worker'[v], x.pc = "override" PROVE NameFrom(x.tid, x.name)'
    <3>1. NameFrom(x.tid, x.name)
      BY <2>1, <2>3 DEF IdentityInv, OriginInv
    <3> QED BY <2>2, <3>1
  <2>4. ASSUME NEW u \in DOMAIN table, table[u] # Null, NEW q, q = table[u] PROVE PidFrom(u, q.pid)' /\ NameFrom(u, q.name)'
    <3>1. PidFrom(u, q.pid) /\ NameFrom(u, q.name)
      BY <2>4 DEF IdentityInv, OriginInv
    <3> QED BY <2>2, <3>1
  <2>5. ASSUME NEW u \in DOMAIN events, NEW i \in DOMAIN events[u], NEW n, n = events[u][i].name PROVE NameFrom(u, n)'
    <3>1. NameFrom(u, n)
      BY <2>5 DEF IdentityInv, OriginInv
    <3> QED BY <2>2, <3>1
  <2>6. \A v \in Workers : worker'[v].pc = "find" => table'[worker'[v].tid].pid # Unknown
    BY <1>1, <2>1 DEF IdentityInv, OriginInv
  <2> QED BY <1>1, <2>3, <2>4, <2>5, <2>6 DEF OriginInv, PidFrom, NameFrom
<1> QED BY <1>8, <1>10, <1>11, <1>12, <1>13 DEF IdentityInv

\* At the end of the pool nothing is ahead, and the events are those of the log.
LEMMA JoinIdentity ==
  ASSUME TableInv, IdentityInv, Join
  PROVE  IdentityInv'
<1>1. /\ phase = "pool" /\ phase' = "idle" /\ queue = {} /\ \A w \in Workers : worker[w] = Idle
      /\ UNCHANGED <<table, events, queue, worker, log>>
      /\ earlier' = IF log \in DOMAIN earlier THEN earlier
                    ELSE [l \in DOMAIN earlier \cup {log} |-> IF l = log THEN events ELSE earlier[l]]
  BY DEF Join
<1>2. \A t, j : ~PidAhead(t, j) /\ ~NameAhead(t, j) /\ ~PidAhead(t, j)' /\ ~NameAhead(t, j)'
  BY <1>1 DEF PidAhead, NameAhead, PidToCome, NameToCome, Idle
<1>3. /\ DOMAIN earlier' = DOMAIN earlier \cup {log}
      /\ \A l \in DOMAIN earlier : earlier'[l] = earlier[l]
      /\ log \notin DOMAIN earlier => earlier'[log] = events
  BY <1>1
<1>4. /\ log \in Logs /\ DOMAIN events = DOMAIN Traces[log] /\ DOMAIN events \subseteq DOMAIN table
      /\ \A t \in DOMAIN events : /\ t \in DOMAIN Traces[log] /\ DOMAIN events[t] = DOMAIN Traces[log][t]
                                  /\ \A i \in DOMAIN events[t] : EventOK(t, i)
  BY <1>1 DEF TableInv, DataInv, IdentityInv, EventsInv
<1>5. ASSUME NEW t \in DOMAIN events, NEW i \in DOMAIN events[t]
      PROVE  /\ Says(log, t, i, events[t][i], table[t])
             /\ PidDone(log, t, i, events[t][i].pid) /\ NameDone(log, t, i, events[t][i].name)
  BY <1>2, <1>4 DEF EventOK
<1>6. EventsInv'
  <2>1. ASSUME NEW t \in DOMAIN events, NEW i \in DOMAIN events[t] PROVE EventOK(t, i)'
    <3>1. Says(log, t, i, events[t][i], table[t])'
      BY <1>1, <1>5 DEF Says, Raw
    <3>2. log \in DOMAIN earlier => earlier'[log] = earlier[log]
      BY <1>3
    <3>3. PidDone(log, t, i, events[t][i].pid)'
      BY <1>1, <1>3, <1>5, <3>2 DEF PidDone
    <3>4. NameDone(log, t, i, events[t][i].name)'
      BY <1>1, <1>3, <1>5, <3>2 DEF NameDone, NamedBy, Raw
    <3> QED BY <1>2, <3>1, <3>3, <3>4 DEF EventOK
  <2> QED BY <1>1, <1>4, <2>1 DEF EventsInv
<1>7. EarlierInv'
  <2>1. ASSUME NEW l \in DOMAIN earlier
        PROVE  /\ l \in Logs /\ DOMAIN earlier'[l] = DOMAIN Traces[l]
               /\ \A t \in DOMAIN earlier'[l] : /\ t \in DOMAIN table' /\ DOMAIN earlier'[l][t] = DOMAIN Traces[l][t]
                                                /\ \A i \in DOMAIN earlier'[l][t] : Recalled(l, t, i)'
    BY <1>1, <1>3 DEF IdentityInv, EarlierInv, Recalled, Says, NamedBy, Raw
  <2>2. ASSUME log \notin DOMAIN earlier
        PROVE  /\ log \in Logs /\ DOMAIN events = DOMAIN Traces[log]
               /\ \A t \in DOMAIN events : /\ t \in DOMAIN table' /\ DOMAIN events[t] = DOMAIN Traces[log][t]
                                           /\ \A i \in DOMAIN events[t] : Recalled(log, t, i)'
    <3>1. ASSUME NEW t \in DOMAIN events, NEW i \in DOMAIN events[t] PROVE Recalled(log, t, i)'
      <4>1. Known(t) => events[t][i].pid # Unknown /\ NamedBy(log, t, i, events[t][i].name)
        BY <1>5 DEF PidDone, NameDone
      <4>2. log' = log /\ table' = table /\ earlier'[log][t][i] = events[t][i]
        BY <1>1, <1>3, <2>2
      <4>3. Says(log, t, i, events[t][i], table[t]) /\ events[t][i] \in Infos
        <5>1. events[t] \in Seq(Infos)
          BY DEF TableInv, DataInv
        <5> QED BY <1>5, <5>1
      <4> QED BY <4>1, <4>2, <4>3 DEF Recalled, Says, NamedBy, Raw
    <3> QED BY <1>1, <1>4, <3>1
  <2> QED BY <1>1, <1>3, <2>1, <2>2 DEF EarlierInv
<1>8. FileInv'
  BY <1>1, <1>3 DEF IdentityInv, FileInv
<1>9. TasksInv'
  BY <1>1 DEF TasksInv, Working, Idle
<1>10. OriginInv'
  <2>1. Heard' = Heard
    BY <1>1, <1>3 DEF Heard
  <2> QED BY <1>1, <2>1 DEF IdentityInv, OriginInv, PidFrom, NameFrom, Kin
<1> QED BY <1>6, <1>7, <1>8, <1>9, <1>10 DEF IdentityInv

\* What is known of threads outlasts the loading of the map file for the next log.
LEMMA BeginIdentity ==
  ASSUME TableInv, IdentityInv, NEW l \in Logs, Begin(l)
  PROVE  IdentityInv'
<1> PICK old : old = LoadTpcMaps(table)
  OBVIOUS
<1>1. /\ phase = "idle" /\ log' = l /\ phase' = "pool" /\ table' = Prepared(old, l)
      /\ events' = Parsed(l) /\ queue' = DOMAIN Traces[l] /\ worker' = worker /\ earlier' = earlier
  BY DEF Begin
<1>2. (\A w \in Workers : worker[w] = Idle) /\ \A t \in DOMAIN table : table[t] \in Infos
  BY <1>1, QuietAtPrompt
<1>3. /\ DOMAIN table' = DOMAIN old \cup DOMAIN Traces[l]
      /\ \A t \in DOMAIN table' : table'[t] = IF t \in DOMAIN old THEN old[t] ELSE Null
  BY <1>1 DEF Prepared
<1>4. \A t : /\ t \in DOMAIN old <=> t \in DOMAIN table \/ FromFile(t)
             /\ ~FromFile(t) /\ t \in DOMAIN table => old[t] = table[t]
             /\ FromFile(t) => /\ Filed(t).pid \in FilePids /\ old[t].name \in FileNames \cup {Blank}
                               /\ t \notin DOMAIN table => old[t] = Filed(t)
             /\ FromFile(t) /\ t \in DOMAIN table =>
                  /\ old[t].name # Blank
                  /\ Filed(t).name # Blank => old[t].name = Filed(t).name
                  /\ old[t].pid \in {table[t].pid, Filed(t).pid}
                  /\ Filed(t).pid = Unknown => old[t].pid = table[t].pid
  BY <1>2, Reloaded
<1>5. \A t \in DOMAIN old : old[t] \in Infos /\ old[t] # Null
  <2>1. DOMAIN table \subseteq Nat
    BY DEF TableInv, DataInv
  <2>2. \A t \in DOMAIN old : old[t] \in Infos
    BY <1>2, <2>1, LoadKeepsInfo
  <2> QED BY <2>2, NamesOK
<1>6. \A t \in DOMAIN table : FromFile(t) /\ Filed(t).pid # Unknown => table[t].pid = Filed(t).pid
  BY DEF IdentityInv, FileInv
<1>7. ASSUME NEW t \in DOMAIN table
      PROVE  /\ t \in DOMAIN old /\ t \in DOMAIN table' /\ table'[t] = old[t]
             /\ old[t].pid = table[t].pid
             /\ table[t].name # Blank => old[t].name # Blank
             /\ old[t].name \in {table[t].name} \cup FileNames \cup {Blank}
  BY <1>3, <1>4, <1>6
<1>8. Improved
  BY <1>5, <1>7 DEF Improved, Improves
<1>9. EarlierInv'
  BY <1>1, <1>8, EarlierStays DEF IdentityInv
<1>10. /\ DOMAIN events' = DOMAIN Traces[l]
       /\ \A t \in DOMAIN Traces[l] : DOMAIN events'[t] = DOMAIN Traces[l][t]
       /\ \A t, i : events'[t][i] = Raw(l, t, i)
  BY <1>1, ParsedLists DEF Raw
<1>11. EventsInv'
  <2>1. ASSUME NEW t \in DOMAIN Traces[l], NEW i \in DOMAIN Traces[l][t] PROVE EventOK(t, i)'
    <3>1. PidAhead(t, i)' /\ NameAhead(t, i)'
      BY <1>1 DEF PidAhead, NameAhead
    <3>2. events'[t][i] = Raw(l, t, i) /\ Raw(log, t, i)' = Raw(l, t, i)
      BY <1>1, <1>10 DEF Raw
    <3>3. Says(log, t, i, events[t][i], table[t])'
      BY <1>1, <3>2 DEF Says, Raw
    <3> QED BY <3>1, <3>2, <3>3 DEF EventOK
  <2> QED BY <1>1, <1>10, <2>1 DEF EventsInv
<1>12. FileInv'
  <2>1. ASSUME NEW t \in DOMAIN table', FromFile(t)
        PROVE  /\ table'[t] # Null
               /\ Filed(t).pid # Unknown => table'[t].pid = Filed(t).pid
               /\ table'[t].name = Blank => DOMAIN earlier = {}
               /\ table'[t].name \in OwnNames(l)
               /\ Known(t) => table'[t].name = Filed(t).name
    <3>1. t \in DOMAIN old /\ table'[t] = old[t] /\ table'[t] # Null
      BY <1>3, <1>4, <1>5, <2>1
    <3>2. old[t].name \in OwnNames(l)
      BY <1>4, <2>1, DeclaredNames
    <3>3. CASE t \in DOMAIN table
      BY <1>4, <1>6, <1>7, <2>1, <3>1, <3>2, <3>3 DEF Known, Complete
    <3>4. CASE t \notin DOMAIN table
      <4>1. DOMAIN earlier = {}
        BY <2>1, <3>4 DEF IdentityInv, FileInv, FromFile
      <4> QED BY <1>4, <2>1, <3>1, <3>2, <3>4, <4>1
    <3> QED BY <3>3, <3>4
  <2>2. \A i \in DOMAIN MapFile : MapFile[i].tid \in DOMAIN table'
    BY <1>3, <1>4 DEF FromFile
  <2>3. ASSUME NEW t \in DOMAIN Traces[l], NEW i \in DOMAIN Traces[l][t] PROVE Raw(l, t, i).name \in OwnNames(l)
    BY RawIs, ToldIsOwn, DeclaredNames
  <2> QED BY <1>1, <1>10, <2>1, <2>2, <2>3 DEF FileInv, Known, Complete, Filed, FromFile
<1>13. TasksInv'
  BY <1>1, <1>2 DEF TasksInv, Working, Idle
<1>14. OriginInv'
  <2>1. ASSUME NEW t \in DOMAIN table', table'[t] # Null, NEW q, q = table'[t]
        PROVE  PidFrom(t, q.pid)' /\ NameFrom(t, q.name)'
    <3>1. t \in DOMAIN old /\ q = old[t]
      BY <1>3, <2>1
    <3>2. CASE t \notin DOMAIN table
      <4>1. q.pid \in FilePids /\ q.name \in FileNames \cup {Blank}
        BY <1>4, <3>1, <3>2
      <4> QED BY <4>1 DEF PidFrom, NameFrom
    <3>3. CASE t \in DOMAIN table
      <4>1. Heard \subseteq Heard'
        BY <1>1, <3>3 DEF Heard, IdentityInv, FileInv
      <4>2. PidFrom(t, q.pid)
        BY <1>2, <1>7, <3>1, <3>3, NamesOK DEF IdentityInv, OriginInv
      <4>3. NameFrom(t, q.name)
        <5>1. NameFrom(t, table[t].name)
          BY <1>2, <3>3, NamesOK DEF IdentityInv, OriginInv
        <5>2. \A n \in FileNames \cup {Blank} : NameFrom(t, n)
          BY DEF NameFrom
        <5> QED BY <1>7, <3>1, <3>3, <5>1, <5>2
      <4> QED BY <1>8, <3>3, <4>1, <4>2, <4>3, OriginStays
    <3> QED BY <3>2, <3>3
  <2>2. ASSUME NEW t \in DOMAIN Traces[l], NEW i \in DOMAIN Traces[l][t], NEW n, n = Raw(l, t, i).name
        PROVE  NameFrom(t, n)'
    <3>1. Traces[l][t][i] \in Told(l, t) /\ n \in {Blank, Traces[l][t][i].name}
      BY <2>2, RawIs
    <3>2. l \in Heard' /\ t \in Kin(t)'
      BY <1>1 DEF Heard, Kin
    <3> QED BY <3>1, <3>2 DEF NameFrom
  <2>3. \A w \in Workers : worker'[w].pc = "idle"
    BY <1>1, <1>2 DEF Idle
  <2> QED BY <1>10, <2>1, <2>2, <2>3 DEF OriginInv, PidFrom, NameFrom
<1> QED BY <1>9, <1>11, <1>12, <1>13, <1>14 DEF IdentityInv

\* Nothing is known at first.
LEMMA InitIdentity == Init => IdentityInv
<1> SUFFICES ASSUME Init PROVE IdentityInv
  OBVIOUS
<1>1. EventsInv
  BY DEF Init, EventsInv
<1>2. EarlierInv
  BY DEF Init, EarlierInv
<1>3. FileInv
  BY DEF Init, FileInv
<1>4. TasksInv
  BY DEF Init, TasksInv, Working, Idle
<1>5. OriginInv
  BY DEF Init, OriginInv, Idle
<1> QED BY <1>1, <1>2, <1>3, <1>4, <1>5 DEF IdentityInv

\* What is known of threads stays known, and where it comes from, over every command.
THEOREM IdentityInvariant == Spec => []IdentityInv
<1>1. InitShell => IdentityInv
  BY InitIdentity DEF InitShell
<1>2. TableInv /\ IdentityInv /\ [Next]_allVars => IdentityInv'
  <2> SUFFICES ASSUME TableInv, IdentityInv, [Next]_allVars PROVE IdentityInv'
    OBVIOUS
  <2>1. ASSUME NEW l \in Logs, ConstructEventGraph(l) PROVE IdentityInv'
    BY <2>1, BeginIdentity DEF ConstructEventGraph
  <2>2. ASSUME NEW w \in Workers, Task(w) PROVE IdentityInv'
    BY <2>2, TakeIdentity, EnterIdentity, FindIdentity, OverrideIdentity, UpdatePidIdentity, UpdateNameIdentity DEF Task
  <2>3. CASE Constructed
    BY <2>3, JoinIdentity DEF Constructed
  <2>4. CASE ConstructTransGraph \/ SaveGraph \/ ViewVertex \/ BeamDiagnose
    <3>1. /\ table' = table /\ events' = events /\ queue' = queue /\ worker' = worker
          /\ log' = log /\ earlier' = earlier /\ phase' = phase
      BY <2>4 DEF ConstructTransGraph, SaveGraph, ViewVertex, BeamDiagnose, vars
    <3> QED BY <3>1, NothingMoves
  <2>5. CASE Exit
    BY <2>5, NothingMoves DEF Exit
  <2>6. CASE UNCHANGED allVars
    <3>1. /\ table' = table /\ events' = events /\ queue' = queue /\ worker' = worker
          /\ log' = log /\ earlier' = earlier /\ phase' = phase
      BY <2>6 DEF allVars, vars
    <3> QED BY <3>1, NothingMoves
  <2> QED BY <2>1, <2>2, <2>3, <2>4, <2>5, <2>6 DEF Next
<1> QED BY <1>1, <1>2, TableInvariant, PTL DEF Spec

\* A log tells an event of a thread the same process whenever it is constructed from, and
\* what only another log tells comes from an earlier construction, of the thread or its kin.
THEOREM IdentityHolds == Spec => []IdentityAcrossBuilds
<1>1. TableInv /\ IdentityInv => IdentityAcrossBuilds
  <2> SUFFICES ASSUME TableInv, IdentityInv, Joined, NEW t \in DOMAIN events, NEW i \in DOMAIN events[t]
               PROVE  LET e == events[t][i]
                          was == earlier[log][t][i]
                          others == DOMAIN earlier \ {log}
                      IN  /\ FromFile(t) /\ Complete(Filed(t)) => e = was
                          /\ was.pid # Unknown => e.pid = was.pid
                          /\ was.name # Blank => e.name # Blank
                          /\ e.pid \notin OwnPids(log) =>
                               /\ FromFile(t) => Filed(t).pid = Unknown
                               /\ \E l \in others : \E x \in Told(l, t) : x.pid = e.pid
                          /\ e.name \notin OwnNames(log) =>
                               /\ ~FromFile(t)
                               /\ \E l \in others, u \in Kin(t) : \E x \in Told(l, u) : x.name = e.name
    BY DEF IdentityAcrossBuilds
  <2> PICK e, was, c : e = events[t][i] /\ was = earlier[log][t][i] /\ c = table[t]
    OBVIOUS
  <2>1. phase = "idle" /\ log \in DOMAIN earlier /\ log \in Logs
    BY DEF Joined, IdentityInv, FileInv, TableInv, DataInv
  <2>2. t \in DOMAIN table /\ c \in Infos /\ c # Null /\ e \in Infos /\ i \in Nat
        /\ t \in DOMAIN Traces[log] /\ i \in DOMAIN Traces[log][t]
    <3>1. c \in Infos /\ t \in DOMAIN table
      BY <2>1, QuietAtPrompt DEF TableInv, DataInv
    <3>2. events[t] \in Seq(Infos)
      BY DEF TableInv, DataInv
    <3>3. e \in Infos /\ i \in Nat
      BY <3>2
    <3>4. t \in DOMAIN Traces[log] /\ i \in DOMAIN Traces[log][t]
      BY DEF IdentityInv, EventsInv
    <3> QED BY <3>1, <3>3, <3>4, NamesOK
  <2>3. ~PidAhead(t, i) /\ ~NameAhead(t, i)
    <3>1. queue = {} /\ \A w \in Workers : worker[w] = Idle
      BY <2>1, QuietAtPrompt
    <3> QED BY <3>1 DEF PidAhead, NameAhead, PidToCome, NameToCome, Idle
  <2>4. Says(log, t, i, e, c) /\ PidDone(log, t, i, e.pid) /\ NameDone(log, t, i, e.name)
    <3>1. EventOK(t, i)
      BY DEF IdentityInv, EventsInv
    <3> QED BY <2>3, <3>1 DEF EventOK
  <2>5. Says(log, t, i, was, c) /\ (Known(t) => was.pid # Unknown /\ NamedBy(log, t, i, was.name))
    BY <2>1, <2>2 DEF IdentityInv, EarlierInv, Recalled
  <2>6. (was.pid # Unknown => e.pid = was.pid) /\ (was.name # Blank => e.name # Blank)
    BY <2>1, <2>4, <2>5 DEF PidDone, NameDone, Says
  <2>7. was \in Infos
    BY <2>1, <2>2 DEF IdentityInv, EarlierInv, Recalled
  <2>8. FromFile(t) /\ Complete(Filed(t)) => e = was
    <3> SUFFICES ASSUME Known(t) PROVE e = was
      BY DEF Known
    <3>1. e.name = was.name
      BY <2>2, <2>4, <2>5, NamedOnce DEF NameDone
    <3> QED BY <2>2, <2>5, <2>6, <2>7, <3>1 DEF Infos
  <2>9. ASSUME e.pid \notin OwnPids(log)
        PROVE  /\ FromFile(t) => Filed(t).pid = Unknown
               /\ \E l \in DOMAIN earlier \ {log} : \E x \in Told(l, t) : x.pid = e.pid
    <3>1. e.pid = c.pid
      <4>1. Raw(log, t, i).pid \in OwnPids(log)
        BY <2>1, <2>2, RawIs, ToldIsOwn
      <4>2. Unknown \in OwnPids(log)
        BY <2>1, DeclaredPids
      <4> QED BY <2>4, <2>9, <4>1, <4>2 DEF Says
    <3>2. PidFrom(t, c.pid)
      BY <2>2 DEF IdentityInv, OriginInv
    <3>3. e.pid \notin FilePids \cup {Unknown}
      BY <2>1, <2>9, DeclaredPids
    <3>4. PICK l \in DOMAIN earlier : \E x \in Told(l, t) : x.pid = e.pid
      BY <2>1, <3>1, <3>2, <3>3 DEF PidFrom, Heard
    <3>5. l # log
      BY <2>1, <2>9, <3>4, ToldIsOwn
    <3>6. ASSUME FromFile(t) PROVE Filed(t).pid = Unknown
      <4>1. Filed(t).pid \in FilePids
        <5>1. \A u \in DOMAIN table : table[u] \in Infos
          BY <2>1, QuietAtPrompt
        <5> QED BY <3>6, <5>1, Reloaded
      <4> QED BY <2>2, <3>1, <3>3, <3>6, <4>1 DEF IdentityInv, FileInv
    <3> QED BY <3>4, <3>5, <3>6
  <2>10. ASSUME e.name \notin OwnNames(log)
         PROVE  /\ ~FromFile(t)
                /\ \E l \in DOMAIN earlier \ {log}, u \in Kin(t) : \E x \in Told(l, u) : x.name = e.name
    <3>1. ~FromFile(t)
      BY <2>10 DEF IdentityInv, FileInv
    <3>2. NameFrom(t, e.name)
      BY DEF IdentityInv, OriginInv
    <3>3. e.name \notin {Blank, Torn} \cup Range(Procs) \cup FileNames
      BY <2>1, <2>10, DeclaredNames
    <3>4. PICK l \in DOMAIN earlier, u \in Kin(t) : \E x \in Told(l, u) : x.name = e.name
      BY <2>1, <3>2, <3>3 DEF NameFrom, Heard
    <3>5. l # log
      BY <2>1, <2>10, <3>4, ToldIsOwn
    <3> QED BY <3>1, <3>4, <3>5
  <2> QED BY <2>6, <2>8, <2>9, <2>10
<1> QED BY <1>1, TableInvariant, IdentityInvariant, PTL
-----------------------------------------------------------------------------
(* The tasks one after the other.                                          *)

\* A function of 0 .. n can be defined by recursion, by steps that are functions.
Recursion(f, n, base, step) ==
  /\ f = [k \in 0 .. n |-> f[k]] /\ f[0] = base
  /\ \A k \in 1 .. n : f[k] = step[k][f[k - 1]]

LEMMA RecursionExists ==
  ASSUME NEW base, NEW step, NEW n \in Nat
  PROVE  \E f : Recursion(f, n, base, step)
<1> DEFINE Has(m) == \E f : f = [k \in 0 .. m |-> IF k = 0 THEN base ELSE step[k][f[k - 1]]]
           bad == {m \in Nat : ~Has(m)}
<1>1. ASSUME bad = {} PROVE \E f : Recursion(f, n, base, step)
  <2>1. PICK f : f = [k \in 0 .. n |-> IF k = 0 THEN base ELSE step[k][f[k - 1]]]
    BY <1>1
  <2>2. 0 \in 0 .. n /\ \A k \in 1 .. n : k \in 0 .. n /\ k # 0
    OBVIOUS
  <2>3. f[0] = base /\ \A k \in 1 .. n : f[k] = step[k][f[k - 1]]
    BY <2>1, <2>2
  <2>4. f = [k \in 0 .. n |-> f[k]]
    BY <2>1
  <2> QED BY <2>3, <2>4 DEF Recursion
<1> SUFFICES ASSUME bad # {} PROVE FALSE
  BY <1>1
<1>2. PICK m \in bad : \A i \in bad : m <= i
  BY MinExists
<1>3. m # 0
  <2> SUFFICES ASSUME m = 0 PROVE Has(m)
    BY <1>2
  <2>1. PICK f : f = [k \in 0 .. m |-> base]
    OBVIOUS
  <2> QED BY <2>1
<1>4. PICK f : f = [k \in 0 .. m - 1 |-> IF k = 0 THEN base ELSE step[k][f[k - 1]]]
  <2>1. m \in Nat /\ m - 1 \in Nat /\ ~(m <= m - 1)
    BY <1>2, <1>3
  <2>2. Has(m - 1)
    BY <1>2, <2>1
  <2> QED BY <2>2
<1> DEFINE g == [k \in 0 .. m |-> IF k < m THEN f[k] ELSE step[m][f[m - 1]]]
<1>5. ASSUME NEW k \in 0 .. m PROVE g[k] = IF k = 0 THEN base ELSE step[k][g[k - 1]]
  <2>1. CASE k = 0
    <3>1. 0 \in 0 .. m - 1 /\ 0 < m
      BY <1>2, <1>3
    <3> QED BY <2>1, <3>1, <1>4
  <2>2. CASE k # 0 /\ k < m
    <3>1. k \in 0 .. m - 1 /\ k - 1 \in 0 .. m /\ k - 1 < m
      BY <1>2, <2>2
    <3>2. g[k] = f[k] /\ g[k - 1] = f[k - 1]
      BY <2>2, <3>1
    <3>3. f[k] = step[k][f[k - 1]]
      BY <1>4, <2>2, <3>1
    <3> QED BY <2>2, <3>2, <3>3
  <2>3. CASE k = m
    <3>1. k - 1 \in 0 .. m /\ k - 1 < m
      BY <1>2, <1>3, <2>3
    <3>2. g[k - 1] = f[k - 1] /\ g[k] = step[m][f[m - 1]]
      BY <1>2, <2>3, <3>1
    <3> QED BY <1>3, <2>3, <3>2
  <2> QED BY <1>2, <2>1, <2>2, <2>3
<1>6. g = [k \in 0 .. m |-> IF k = 0 THEN base ELSE step[k][g[k - 1]]]
  <2> DEFINE h == [k \in 0 .. m |-> IF k = 0 THEN base ELSE step[k][g[k - 1]]]
  <2>1. DOMAIN g = DOMAIN h /\ \A k \in 0 .. m : g[k] = h[k]
    BY <1>5
  <2> QED BY <2>1
<1>7. Has(m)
  BY <1>6
<1> QED BY <1>2, <1>7

\* What holds at 0 and is kept from one number to the next holds up to n.
LEMMA UpTo ==
  ASSUME NEW n \in Nat, NEW S, 0 \in S, \A k \in 1 .. n : k - 1 \in S => k \in S
  PROVE  \A k \in 0 .. n : k \in S
<1> DEFINE bad == {k \in 0 .. n : k \notin S}
<1>1. SUFFICES ASSUME bad # {} PROVE FALSE
  OBVIOUS
<1>2. bad \in SUBSET Nat
  OBVIOUS
<1>3. PICK k \in bad : \A j \in bad : k <= j
  BY <1>1, <1>2, MinExists
<1>4. k \in 1 .. n /\ k - 1 \in 0 .. n /\ ~(k <= k - 1)
  BY <1>3
<1> QED BY <1>3, <1>4

\* The tables with these threads.
Tables(D) == [D -> Infos \cup {Null}]

\* Where the lookup of thread t ends, whose entry is p.
IsFirst(tab, t, p, v) ==
  LET same == {u \in DOMAIN tab \ {t} : tab[u] # Null /\ tab[u].pid = p.pid} \cup {t}
  IN v \in same /\ \A u \in same : v <= u

LEMMA LookupEnds ==
  ASSUME NEW D \in SUBSET Nat, NEW tab \in Tables(D), NEW t \in D, NEW p \in Infos
  PROVE  \E v \in D : /\ IsFirst(tab, t, p, v)
                      /\ Pid2Comm(tab, t, p) = OrFromProcs(IF v = t THEN p.name ELSE tab[v].name, p.pid)
<1> DEFINE same == {u \in DOMAIN tab \ {t} : tab[u] # Null /\ tab[u].pid = p.pid} \cup {t}
           v == Min(same)
<1>1. same \in SUBSET Nat /\ same # {} /\ same \subseteq D
  BY DEF Tables
<1>2. v \in same /\ \A u \in same : v <= u
  BY <1>1, MinIsLeast
<1>3. IsFirst(tab, t, p, v)
  BY <1>2 DEF IsFirst
<1>4. Pid2Comm(tab, t, p) = OrFromProcs(IF v = t THEN p.name ELSE tab[v].name, p.pid)
  BY DEF Pid2Comm
<1> HIDE DEF v, same
<1> QED BY <1>1, <1>2, <1>3, <1>4

\* There is one such place.
LEMMA FirstIsOne ==
  ASSUME NEW D \in SUBSET Nat, NEW tab \in Tables(D), NEW t \in D, NEW p,
         NEW v, NEW u, IsFirst(tab, t, p, v), IsFirst(tab, t, p, u)
  PROVE  v = u
<1>1. v \in Nat /\ u \in Nat /\ v <= u /\ u <= v
  BY DEF IsFirst, Tables
<1> QED BY <1>1

LEMMA OpeningType ==
  ASSUME NEW D \in SUBSET Nat, NEW tab \in Tables(D), NEW t \in D,
         NEW list \in Seq(Infos), list # <<>>
  PROVE  /\ Opening(list, tab, t) \in Infos
         /\ Opening(list, tab, t).pid = IF tab[t] = Null THEN Unknown ELSE tab[t].pid
<1> DEFINE p == IF tab[t] = Null THEN NewInfo(Unknown, Last(list).name) ELSE tab[t]
<1>1. p \in Infos /\ p.pid = IF tab[t] = Null THEN Unknown ELSE tab[t].pid
  <2>1. CASE tab[t] = Null
    <3>1. Last(list) \in Infos
      BY DEF Last
    <3>2. Last(list).name \in Names /\ Unknown \in Int
      BY <3>1 DEF Infos, Unknown
    <3>3. NewInfo(Unknown, Last(list).name) \in Infos
      BY <3>2, NewInfoType
    <3>4. NewInfo(Unknown, Last(list).name).pid = Unknown
      BY DEF NewInfo
    <3> QED BY <2>1, <3>3, <3>4
  <2>2. CASE tab[t] # Null
    BY <2>2 DEF Tables
  <2> QED BY <2>1, <2>2
<1>2. Opening(list, tab, t) = IF NeedsName(p) THEN [p EXCEPT !.name = Pid2Comm(tab, t, p)] ELSE p
  BY DEF Opening
<1> HIDE DEF p
<1>3. Pid2Comm(tab, t, p) \in Names
  <2>1. PICK v \in D : /\ IsFirst(tab, t, p, v)
                       /\ Pid2Comm(tab, t, p) = OrFromProcs(IF v = t THEN p.name ELSE tab[v].name, p.pid)
    BY <1>1, LookupEnds
  <2>2. v # t => tab[v] \in Infos
    BY <2>1 DEF IsFirst, Tables
  <2>3. (IF v = t THEN p.name ELSE tab[v].name) \in Names
    BY <1>1, <2>2 DEF Infos
  <2>4. FindCommInProcs(p.pid) \in Names
    BY NamesKnown DEF FindCommInProcs
  <2> QED BY <2>1, <2>3, <2>4 DEF OrFromProcs
<1> QED BY <1>1, <1>2, <1>3 DEF Infos

\* The entry of a thread after each of its events.
LEMMA TurnIs ==
  ASSUME NEW D \in SUBSET Nat, NEW tab \in Tables(D), NEW t \in D,
         NEW list \in Seq(Infos), list # <<>>
  PROVE  /\ Turn(list, tab, t)[0] = Opening(list, tab, t)
         /\ \A i \in 1 .. Len(list) : Turn(list, tab, t)[i] = UpdatedInfo(Turn(list, tab, t)[i - 1], list[i])
         /\ \A i \in 0 .. Len(list) : Turn(list, tab, t)[i] \in Infos
<1> PICK n \in Nat : n = Len(list)
  OBVIOUS
<1> PICK p \in Infos : p = Opening(list, tab, t)
  BY OpeningType
<1>0. ASSUME NEW i \in 1 .. n, NEW q \in Infos PROVE UpdatedInfo(q, list[i]) \in Infos
  <2>1. list[i] \in Infos
    OBVIOUS
  <2> QED BY <2>1, UpdatesType
<1> DEFINE Is(f) == f = [i \in 0 .. n |-> IF i = 0 THEN p ELSE UpdatedInfo(f[i - 1], list[i])]
           step == [i \in 1 .. n |-> [q \in Infos |-> UpdatedInfo(q, list[i])]]
<1>1. PICK f : Recursion(f, n, p, step)
  <2> HIDE DEF step
  <2> QED BY RecursionExists
<1>2. /\ f = [i \in 0 .. n |-> f[i]] /\ f[0] = p
      /\ \A i \in 1 .. n : f[i] = step[i][f[i - 1]]
  BY <1>1 DEF Recursion
<1>3. \A i \in 0 .. n : f[i] \in Infos
  <2> DEFINE good == {i \in 0 .. n : f[i] \in Infos}
  <2>1. 0 \in good
    BY <1>2
  <2>2. ASSUME NEW i \in 1 .. n, i - 1 \in good PROVE i \in good
    <3>1. f[i - 1] \in Infos
      BY <2>2
    <3>2. f[i] = UpdatedInfo(f[i - 1], list[i])
      BY <1>2, <3>1
    <3> QED BY <1>0, <3>1, <3>2
  <2> HIDE DEF good
  <2>3. \A i \in 0 .. n : i \in good
    BY <2>1, <2>2, UpTo
  <2> QED BY <2>3 DEF good
<1>4. ASSUME NEW i \in 1 .. n PROVE f[i] = UpdatedInfo(f[i - 1], list[i])
  <2>1. i - 1 \in 0 .. n
    OBVIOUS
  <2> QED BY <1>2, <1>3, <2>1
<1> HIDE DEF step
<1>5. Is(f)
  <2> DEFINE h == [i \in 0 .. n |-> IF i = 0 THEN p ELSE UpdatedInfo(f[i - 1], list[i])]
  <2>1. ASSUME NEW i \in 0 .. n PROVE f[i] = h[i]
    BY <1>2, <1>4
  <2>2. f = [i \in 0 .. n |-> f[i]] /\ h = [i \in 0 .. n |-> h[i]]
    BY <1>2
  <2> HIDE DEF h
  <2>3. f = h
    BY <2>1, <2>2
  <2> QED BY <2>3 DEF h
<1> DEFINE g == CHOOSE x : Is(x)
<1>6. Turn(list, tab, t) = g
  BY DEF Turn
<1>7. Is(g)
  BY <1>5
<1> HIDE DEF g
<1>8. g[0] = p /\ \A i \in 1 .. n : g[i] = UpdatedInfo(g[i - 1], list[i])
  <2>1. 0 \in 0 .. n /\ \A i \in 1 .. n : i \in 0 .. n /\ i # 0
    OBVIOUS
  <2> QED BY <1>7, <2>1
<1>9. \A i \in 0 .. n : g[i] \in Infos
  <2> DEFINE good == {i \in 0 .. n : g[i] \in Infos}
  <2>1. 0 \in good
    BY <1>8
  <2>2. ASSUME NEW i \in 1 .. n, i - 1 \in good PROVE i \in good
    <3>1. g[i - 1] \in Infos
      BY <2>2
    <3> QED BY <1>0, <1>8, <3>1
  <2> HIDE DEF good
  <2>3. \A i \in 0 .. n : i \in good
    BY <2>1, <2>2, UpTo
  <2> QED BY <2>3 DEF good
<1> QED BY <1>6, <1>8, <1>9

\* A process that is known stays.
LEMMA TurnKeepsPid ==
  ASSUME NEW D \in SUBSET Nat, NEW tab \in Tables(D), NEW t \in D,
         NEW list \in Seq(Infos), list # <<>>,
         NEW i \in 0 .. Len(list), NEW f, f = Turn(list, tab, t), f[i].pid # Unknown
  PROVE  f[Len(list)].pid = f[i].pid
<1> PICK n \in Nat : n = Len(list)
  OBVIOUS
<1>1. \A j \in 1 .. n : f[j] = UpdatedInfo(f[j - 1], list[j])
  BY TurnIs
<1> DEFINE good == {j \in 0 .. n : j >= i => f[j].pid = f[i].pid}
<1>2. 0 \in good
  OBVIOUS
<1>3. ASSUME NEW j \in 1 .. n, j - 1 \in good PROVE j \in good
  <2>1. CASE j <= i
    <3>1. j >= i => j = i
      BY <2>1
    <3> QED BY <3>1
  <2>2. CASE j > i
    <3>1. f[j - 1].pid = f[i].pid
      BY <1>3, <2>2
    <3>2. f[j] = UpdatedInfo(f[j - 1], list[j]) /\ f[j - 1].pid # Unknown
      BY <1>1, <3>1
    <3>3. f[j].pid = f[j - 1].pid
      BY <3>2 DEF UpdatedInfo
    <3> QED BY <3>1, <3>3
  <2> QED BY <2>1, <2>2
<1> HIDE DEF good
<1>4. \A j \in 0 .. n : j \in good
  BY <1>2, <1>3, UpTo
<1> QED BY <1>4 DEF good

\* A thread whose entry ends as it began, and whose events tell no other name, never changes it.
LEMMA TurnSteady ==
  ASSUME NEW D \in SUBSET Nat, NEW tab \in Tables(D), NEW t \in D,
         NEW list \in Seq(Infos), list # <<>>, tab[t] # Null, tab[t].pid # Unknown,
         NEW f, f = Turn(list, tab, t), f[Len(list)] = tab[t],
         \A i \in DOMAIN list : list[i].name \in {Blank, tab[t].name}
  PROVE  \A i \in 0 .. Len(list) : f[i] = tab[t]
<1> PICK n \in Nat : n = Len(list) /\ DOMAIN list = 1 .. n
  OBVIOUS
<1> PICK p \in Infos : p = tab[t]
  BY DEF Tables
<1>1. /\ f[0] = Opening(list, tab, t) /\ \A j \in 1 .. n : f[j] = UpdatedInfo(f[j - 1], list[j])
      /\ \A i \in 0 .. n : f[i] \in Infos
  BY TurnIs
<1> PICK m : m = f[0].name
  OBVIOUS
<1>2. f[0].pid = p.pid
  BY <1>1, OpeningType
<1>3. m = p.name \/ p.name = Blank
  BY <1>1 DEF Opening, NeedsName
<1> DEFINE good == {j \in 0 .. n : f[j].pid = p.pid /\ f[j].name = m}
<1>4. 0 \in good
  BY <1>2
<1>5. ASSUME NEW j \in 1 .. n, j - 1 \in good PROVE j \in good
  <2>1. f[j - 1].pid = p.pid /\ f[j - 1].name = m /\ f[j] = UpdatedInfo(f[j - 1], list[j])
    BY <1>1, <1>5
  <2>2. list[j].name \in {Blank, p.name}
    OBVIOUS
  <2>3. f[j].pid = p.pid
    BY <2>1 DEF UpdatedInfo
  <2>4. f[j].name = m
    BY <1>3, <2>1, <2>2 DEF UpdatedInfo
  <2> QED BY <2>3, <2>4
<1> HIDE DEF good
<1>6. \A j \in 0 .. n : j \in good
  BY <1>4, <1>5, UpTo
<1>7. m = p.name
  BY <1>6 DEF good
<1>8. ASSUME NEW j \in 0 .. n PROVE f[j] = p
  <2>1. f[j] \in Infos /\ f[j].pid = p.pid /\ f[j].name = p.name
    BY <1>1, <1>6, <1>7 DEF good
  <2> QED BY <2>1 DEF Infos
<1> QED BY <1>8

\* The table when thread k of log l, if there is one, had its turn in table x.
Passed(l, x, k) ==
  IF k \in DOMAIN Traces[l]
  THEN [x EXCEPT ![k] = Turn(Parsed(l)[k], x, k)[Len(Parsed(l)[k])]]
  ELSE x

\* It stays a table with these threads.
LEMMA PassedType ==
  ASSUME NEW D \in SUBSET Nat, NEW x \in Tables(D), NEW l \in Logs,
         DOMAIN Traces[l] \subseteq D, NEW k \in Nat
  PROVE  Passed(l, x, k) \in Tables(D)
<1>1. CASE k \in DOMAIN Traces[l]
  <2> PICK list : list = Parsed(l)[k]
    OBVIOUS
  <2>1. list \in Seq(Infos) /\ list # <<>> /\ Len(list) \in Nat
    BY <1>1, ParsedType
  <2>2. k \in D
    BY <1>1
  <2>3. \A i \in 0 .. Len(list) : Turn(list, x, k)[i] \in Infos
    BY <2>1, <2>2, TurnIs
  <2>4. Turn(list, x, k)[Len(list)] \in Infos
    BY <2>1, <2>3
  <2> QED BY <1>1, <2>4 DEF Passed, Tables
<1>2. CASE k \notin DOMAIN Traces[l]
  BY <1>2 DEF Passed
<1> QED BY <1>1, <1>2

\* What the tables before each turn are, as a function of the threads up to n.
AreBefore(g, l, tab, D, n) ==
  /\ g[n] = Before(l, tab, n) /\ g[0] = tab
  /\ \A k \in 1 .. n : g[k] = Passed(l, g[k - 1], k - 1)
  /\ \A k \in 0 .. n : g[k] \in Tables(D)

LEMMA BeforeAre ==
  ASSUME NEW D \in SUBSET Nat, NEW tab \in Tables(D), NEW l \in Logs,
         DOMAIN Traces[l] \subseteq D, NEW n \in Nat
  PROVE  \E g : AreBefore(g, l, tab, D, n)
<1> DEFINE step == [k \in 1 .. n |-> [x \in Tables(D) |-> Passed(l, x, k - 1)]]
           Is(f) == f = [k \in 0 .. n |->
                           IF k = 0 THEN tab
                           ELSE IF k - 1 \in DOMAIN Traces[l]
                           THEN [f[k - 1] EXCEPT ![k - 1] =
                                   Turn(Parsed(l)[k - 1], f[k - 1], k - 1)[Len(Parsed(l)[k - 1])]]
                           ELSE f[k - 1]]
           g == CHOOSE f : Is(f)
<1>1. PICK f : Recursion(f, n, tab, step)
  <2> HIDE DEF step
  <2> QED BY RecursionExists
<1>2. /\ f = [k \in 0 .. n |-> f[k]] /\ f[0] = tab
      /\ \A k \in 1 .. n : f[k] = step[k][f[k - 1]]
  BY <1>1 DEF Recursion
<1>3. ASSUME NEW k \in 1 .. n, NEW x \in Tables(D) PROVE Passed(l, x, k - 1) \in Tables(D)
  <2>1. k - 1 \in Nat
    OBVIOUS
  <2> QED BY <2>1, PassedType
<1>4. \A k \in 0 .. n : f[k] \in Tables(D)
  <2> DEFINE good == {k \in 0 .. n : f[k] \in Tables(D)}
  <2>1. 0 \in good
    BY <1>2
  <2>2. ASSUME NEW k \in 1 .. n, k - 1 \in good PROVE k \in good
    <3>1. f[k - 1] \in Tables(D)
      BY <2>2
    <3>2. f[k] = Passed(l, f[k - 1], k - 1)
      BY <1>2, <3>1
    <3> QED BY <1>3, <3>1, <3>2
  <2> HIDE DEF good
  <2>3. \A k \in 0 .. n : k \in good
    BY <2>1, <2>2, UpTo
  <2> QED BY <2>3 DEF good
<1>5. ASSUME NEW k \in 1 .. n PROVE f[k] = Passed(l, f[k - 1], k - 1)
  <2>1. k - 1 \in 0 .. n
    OBVIOUS
  <2> QED BY <1>2, <1>4, <2>1
<1> HIDE DEF step
<1>6. Is(f)
  <2> DEFINE h == [k \in 0 .. n |->
                     IF k = 0 THEN tab
                     ELSE IF k - 1 \in DOMAIN Traces[l]
                     THEN [f[k - 1] EXCEPT ![k - 1] =
                             Turn(Parsed(l)[k - 1], f[k - 1], k - 1)[Len(Parsed(l)[k - 1])]]
                     ELSE f[k - 1]]
  <2>1. ASSUME NEW k \in 0 .. n PROVE f[k] = h[k]
    <3>1. CASE k = 0
      BY <1>2, <3>1
    <3>2. CASE k # 0
      <4>1. k \in 1 .. n
        BY <3>2
      <4>2. f[k] = Passed(l, f[k - 1], k - 1)
        BY <1>5, <4>1
      <4> QED BY <3>2, <4>2 DEF Passed
    <3> QED BY <3>1, <3>2
  <2>2. f = [k \in 0 .. n |-> f[k]] /\ h = [k \in 0 .. n |-> h[k]]
    BY <1>2
  <2> HIDE DEF h
  <2>3. f = h
    BY <2>1, <2>2
  <2> QED BY <2>3 DEF h
<1>7. Before(l, tab, n) = g[n]
  BY DEF Before
<1>8. Is(g)
  BY <1>6
<1> HIDE DEF g
<1>9. g[0] = tab /\ \A k \in 1 .. n : g[k] = Passed(l, g[k - 1], k - 1)
  <2>1. g[0] = tab
    BY <1>8
  <2>2. ASSUME NEW k \in 1 .. n PROVE g[k] = Passed(l, g[k - 1], k - 1)
    <3>1. k \in 0 .. n /\ k # 0
      OBVIOUS
    <3> QED BY <1>8, <3>1 DEF Passed
  <2> QED BY <2>1, <2>2
<1>10. \A k \in 0 .. n : g[k] \in Tables(D)
  <2> DEFINE good == {k \in 0 .. n : g[k] \in Tables(D)}
  <2>1. 0 \in good
    BY <1>9
  <2>2. ASSUME NEW k \in 1 .. n, k - 1 \in good PROVE k \in good
    BY <1>3, <1>9, <2>2
  <2> HIDE DEF good
  <2>3. \A k \in 0 .. n : k \in good
    BY <2>1, <2>2, UpTo
  <2> QED BY <2>3 DEF good
<1> QED BY <1>7, <1>9, <1>10 DEF AreBefore

\* The table before a turn is a table, and made from the one before the turn of
\* the thread before.
LEMMA BeforeStep ==
  ASSUME NEW D \in SUBSET Nat, NEW tab \in Tables(D), NEW l \in Logs,
         DOMAIN Traces[l] \subseteq D
  PROVE  /\ Before(l, tab, 0) = tab
         /\ \A n \in Nat : /\ Before(l, tab, n) \in Tables(D)
                           /\ Before(l, tab, n + 1) = Passed(l, Before(l, tab, n), n)
<1>1. Before(l, tab, 0) = tab
  <2>1. PICK g : AreBefore(g, l, tab, D, 0)
    BY BeforeAre
  <2> QED BY <2>1 DEF AreBefore
<1>2. ASSUME NEW n \in Nat
      PROVE  /\ Before(l, tab, n) \in Tables(D)
             /\ Before(l, tab, n + 1) = Passed(l, Before(l, tab, n), n)
  <2>1. PICK g : AreBefore(g, l, tab, D, n)
    BY BeforeAre
  <2> PICK m \in Nat : m = n + 1
    OBVIOUS
  <2>2. PICK h : AreBefore(h, l, tab, D, m)
    BY BeforeAre
  <2> DEFINE good == {k \in 0 .. n : g[k] = h[k]}
  <2>3. 0 \in good
    BY <2>1, <2>2 DEF AreBefore
  <2>4. ASSUME NEW k \in 1 .. n, k - 1 \in good PROVE k \in good
    <3>1. k \in 1 .. m /\ g[k - 1] = h[k - 1]
      BY <2>4
    <3>2. g[k] = h[k]
      BY <2>1, <2>2, <3>1 DEF AreBefore
    <3> QED BY <3>2
  <2> HIDE DEF good
  <2>5. \A k \in 0 .. n : k \in good
    BY <2>3, <2>4, UpTo
  <2>6. g[n] = h[n]
    BY <2>5 DEF good
  <2>7. m \in 1 .. m /\ m - 1 = n /\ n \in 0 .. n
    OBVIOUS
  <2>8. h[m] = Passed(l, h[n], n)
    BY <2>2, <2>7 DEF AreBefore
  <2> QED BY <2>1, <2>2, <2>6, <2>7, <2>8 DEF AreBefore
<1> QED BY <1>1, <1>2

\* The entry of a thread after its turn.
Ended(l, tab, v) == Turn(Parsed(l)[v], Before(l, tab, v), v)[Len(Parsed(l)[v])]

\* Before the turn of n, the threads of the log below n had theirs, and the
\* other entries are what they were.
LEMMA BeforeOf ==
  ASSUME NEW D \in SUBSET Nat, NEW tab \in Tables(D), NEW l \in Logs,
         DOMAIN Traces[l] \subseteq D, NEW n \in Nat, NEW v \in D
  PROVE  Before(l, tab, n)[v] =
           IF v \in DOMAIN Traces[l] /\ v < n THEN Ended(l, tab, v) ELSE tab[v]
<1> DEFINE good == {k \in 0 .. n : Before(l, tab, k)[v] =
                      IF v \in DOMAIN Traces[l] /\ v < k THEN Ended(l, tab, v) ELSE tab[v]}
<1>1. 0 \in good
  <2>1. ~(v < 0)
    OBVIOUS
  <2> QED BY <2>1, BeforeStep
<1>2. ASSUME NEW k \in 1 .. n, k - 1 \in good PROVE k \in good
  <2> PICK j \in Nat : j = k - 1
    OBVIOUS
  <2> PICK x : x = Before(l, tab, j)
    OBVIOUS
  <2>1. x \in Tables(D) /\ Before(l, tab, k) = Passed(l, x, j)
    <3>1. k = j + 1
      OBVIOUS
    <3>2. x \in Tables(D) /\ Before(l, tab, j + 1) = Passed(l, x, j)
      BY BeforeStep
    <3> QED BY <3>1, <3>2
  <2>2. x[v] = IF v \in DOMAIN Traces[l] /\ v < j THEN Ended(l, tab, v) ELSE tab[v]
    BY <1>2
  <2>3. CASE v = j /\ v \in DOMAIN Traces[l]
    <3>1. Passed(l, x, j)[v] = Turn(Parsed(l)[v], x, v)[Len(Parsed(l)[v])]
      BY <2>1, <2>3 DEF Passed, Tables
    <3>2. v < k
      BY <2>3
    <3>3. Before(l, tab, k)[v] = Ended(l, tab, v)
      BY <2>1, <2>3, <3>1 DEF Ended
    <3> QED BY <2>3, <3>2, <3>3
  <2>4. CASE ~(v = j /\ v \in DOMAIN Traces[l])
    <3>1. Passed(l, x, j)[v] = x[v]
      BY <2>1, <2>4 DEF Passed, Tables
    <3>2. v \in DOMAIN Traces[l] => (v < k <=> v < j)
      BY <2>4
    <3>3. Before(l, tab, k)[v] = IF v \in DOMAIN Traces[l] /\ v < k THEN Ended(l, tab, v) ELSE tab[v]
      BY <2>1, <2>2, <3>1, <3>2
    <3> QED BY <3>3
  <2> QED BY <2>3, <2>4
<1> HIDE DEF good
<1>3. \A k \in 0 .. n : k \in good
  BY <1>1, <1>2, UpTo
<1>4. n \in good
  BY <1>3
<1> QED BY <1>4 DEF good

-----------------------------------------------------------------------------
(* The pool against its tasks one after the other.                         *)

\* The entry that the task of t makes or finds.
AtFirst(t) == IF start[t] = Null THEN NewInfo(Unknown, Last(Parsed(log)[t]).name) ELSE start[t]

\* The same process; the same name too, unless that one is contested.
Alike(t, p, q) == p.pid = q.pid /\ (Contested(t) \/ p.name = q.name)

\* The task of t is over.
Gone(t) == t \notin queue /\ \A w \in Workers : worker[w].pc # "idle" => worker[w].tid # t

\* What a task x, whose entry is c, has done in its turn: while it looks a name
\* up, no entry that it passed will be of the process.
SameTask(x, c) ==
  LET t == x.tid
      i == x.at
  IN  /\ x.pc = "enter" => c = start[t]
      /\ x.pc \in {"find", "override"} => c = AtFirst(t) /\ NeedsName(AtFirst(t))
      /\ x.pc = "find" /\ ~Contested(t) =>
           \A u \in DOMAIN table : u < i =>
              Before(log, start, t)[u] = Null \/ Before(log, start, t)[u].pid # AtFirst(t).pid
      /\ x.pc = "override" => Contested(t) \/ x.name = InTurn(t)[0].name
      /\ x.pc = "events" => Alike(t, c, InTurn(t)[i - 1])
      /\ x.pc = "names" => /\ c.pid = InTurn(t)[i].pid
                           /\ Contested(t) \/ c.name = InTurn(t)[i - 1].name

\* What is done of event i, which was x and is e.
SameEvent(t, i) ==
  LET x == Raw(log, t, i)
      y == UpdatedEvent(x, InTurn(t)[i - 1])
      e == events[t][i]
  IN  /\ e.pid = IF PidAhead(t, i) THEN x.pid ELSE y.pid
      /\ IF NameAhead(t, i) THEN e.name = x.name ELSE Contested(t) \/ e.name = y.name

\* The table when the pool started.
StartInv ==
  /\ start \in Tables(DOMAIN table)
  /\ \A t \in DOMAIN table \ DOMAIN events : table[t] = start[t]
  /\ \A t \in queue : table[t] = start[t]

SameWork ==
  /\ \A w \in Workers : worker[w].pc # "idle" => SameTask(worker[w], table[worker[w].tid])
  /\ \A t \in DOMAIN events :
       /\ Gone(t) => Alike(t, table[t], InTurn(t)[Len(Parsed(log)[t])])
       /\ \A i \in DOMAIN events[t] : SameEvent(t, i)

SameInv == (phase = "pool" => StartInv /\ SameWork) /\ OnlyContestedNamesVary

\* What the tasks are about.
LEMMA StartIs ==
  ASSUME TableInv, IdentityInv, StartInv, phase = "pool"
  PROVE  /\ log \in Logs /\ DOMAIN table \in SUBSET Nat /\ start \in Tables(DOMAIN table)
         /\ DOMAIN events = DOMAIN Traces[log] /\ DOMAIN Traces[log] \subseteq DOMAIN table
BY DEF TableInv, DataInv, IdentityInv, EventsInv, StartInv

\* The turn of a thread.
LEMMA InTurnIs ==
  ASSUME TableInv, IdentityInv, StartInv, phase = "pool", NEW t \in DOMAIN events,
         NEW n, n = Len(Parsed(log)[t])
  PROVE  /\ n \in Nat \ {0} /\ DOMAIN events[t] = 1 .. n
         /\ Before(log, start, t) \in Tables(DOMAIN table) /\ Before(log, start, t)[t] = start[t]
         /\ AtFirst(t) \in Infos /\ AtFirst(t).pid = (IF start[t] = Null THEN Unknown ELSE start[t].pid)
         /\ InTurn(t)[0] = IF NeedsName(AtFirst(t))
                           THEN [AtFirst(t) EXCEPT !.name = Pid2Comm(Before(log, start, t), t, AtFirst(t))]
                           ELSE AtFirst(t)
         /\ InTurn(t)[0].pid = AtFirst(t).pid
         /\ \A i \in 1 .. n : InTurn(t)[i] = UpdatedInfo(InTurn(t)[i - 1], Raw(log, t, i))
         /\ \A i \in 0 .. n : InTurn(t)[i] \in Infos
<1> PICK list, B, D : list = Parsed(log)[t] /\ B = Before(log, start, t) /\ D = DOMAIN table
  OBVIOUS
<1>1. /\ log \in Logs /\ D \in SUBSET Nat /\ start \in Tables(D)
      /\ t \in DOMAIN Traces[log] /\ DOMAIN Traces[log] \subseteq D /\ t \in D /\ t \in Nat
  BY StartIs
<1>2. list \in Seq(Infos) /\ list # <<>> /\ n \in Nat \ {0}
  BY <1>1, ParsedType
<1>3. DOMAIN events[t] = 1 .. n
  <2>1. DOMAIN events[t] = DOMAIN list
    BY <1>1, ParsedLists DEF IdentityInv, EventsInv
  <2> QED BY <1>2, <2>1
<1>4. B \in Tables(D)
  BY <1>1, BeforeStep
<1>5. B[t] = start[t]
  <2>1. B[t] = IF t \in DOMAIN Traces[log] /\ t < t THEN Ended(log, start, t) ELSE start[t]
    BY <1>1, BeforeOf
  <2>2. ~(t < t)
    BY <1>1
  <2> QED BY <2>1, <2>2
<1>6. InTurn(t) = Turn(list, B, t)
  BY DEF InTurn
<1>7. /\ InTurn(t)[0] = Opening(list, B, t)
      /\ \A i \in 1 .. n : InTurn(t)[i] = UpdatedInfo(InTurn(t)[i - 1], list[i])
      /\ \A i \in 0 .. n : InTurn(t)[i] \in Infos
  BY <1>1, <1>2, <1>4, <1>6, TurnIs
<1>8. \A i : Raw(log, t, i) = list[i]
  BY DEF Raw
<1>9. AtFirst(t) = IF B[t] = Null THEN NewInfo(Unknown, Last(list).name) ELSE B[t]
  BY <1>5 DEF AtFirst
<1>10. AtFirst(t) \in Infos /\ AtFirst(t).pid = (IF start[t] = Null THEN Unknown ELSE start[t].pid)
  <2>1. CASE start[t] = Null
    <3>1. Last(list) \in Infos
      BY <1>2 DEF Last
    <3>2. Last(list).name \in Names /\ Unknown \in Int
      BY <3>1 DEF Infos, Unknown
    <3>3. NewInfo(Unknown, Last(list).name) \in Infos
      BY <3>2, NewInfoType
    <3>4. NewInfo(Unknown, Last(list).name).pid = Unknown
      BY DEF NewInfo
    <3> QED BY <1>5, <1>9, <2>1, <3>3, <3>4
  <2>2. CASE start[t] # Null
    BY <1>1, <2>2 DEF AtFirst, Tables
  <2> QED BY <2>1, <2>2
<1>11. Opening(list, B, t) = IF NeedsName(AtFirst(t)) THEN [AtFirst(t) EXCEPT !.name = Pid2Comm(B, t, AtFirst(t))]
                             ELSE AtFirst(t)
  BY <1>9 DEF Opening
<1>12. [AtFirst(t) EXCEPT !.name = Pid2Comm(B, t, AtFirst(t))].pid = AtFirst(t).pid
  BY <1>10 DEF Infos
<1> QED BY <1>1, <1>2, <1>3, <1>4, <1>5, <1>7, <1>8, <1>10, <1>11, <1>12

\* A process that the entry has at some event is the one it ends with.
LEMMA InTurnKeepsPid ==
  ASSUME TableInv, IdentityInv, StartInv, phase = "pool", NEW t \in DOMAIN events,
         NEW n, n = Len(Parsed(log)[t]), NEW i \in 0 .. n, InTurn(t)[i].pid # Unknown
  PROVE  InTurn(t)[n].pid = InTurn(t)[i].pid
<1> PICK list, B, D : list = Parsed(log)[t] /\ B = Before(log, start, t) /\ D = DOMAIN table
  OBVIOUS
<1>1. D \in SUBSET Nat /\ t \in D /\ log \in Logs /\ t \in DOMAIN Traces[log] /\ B \in Tables(D)
  BY StartIs, InTurnIs
<1>2. list \in Seq(Infos) /\ list # <<>>
  BY <1>1, ParsedType
<1>3. InTurn(t) = Turn(list, B, t)
  BY DEF InTurn
<1> PICK f : f = Turn(list, B, t)
  OBVIOUS
<1> QED BY <1>1, <1>2, <1>3, TurnKeepsPid

\* What an earlier thread ends with is what a later one finds.
LEMMA BeforeIs ==
  ASSUME TableInv, IdentityInv, StartInv, phase = "pool", NEW t \in DOMAIN events, NEW v \in DOMAIN table
  PROVE  Before(log, start, t)[v] = IF v \in DOMAIN events /\ v < t THEN InTurn(v)[Len(Parsed(log)[v])] ELSE start[v]
<1>1. /\ log \in Logs /\ DOMAIN table \in SUBSET Nat /\ start \in Tables(DOMAIN table)
      /\ DOMAIN events = DOMAIN Traces[log] /\ DOMAIN Traces[log] \subseteq DOMAIN table /\ t \in Nat
  BY StartIs
<1>2. Before(log, start, t)[v] = IF v \in DOMAIN Traces[log] /\ v < t THEN Ended(log, start, v) ELSE start[v]
  BY <1>1, BeforeOf
<1>3. Ended(log, start, v) = InTurn(v)[Len(Parsed(log)[v])]
  BY DEF Ended, InTurn
<1> QED BY <1>1, <1>2, <1>3

\* A thread t that is not contested: an earlier one v of its process is not
\* either, and keeps its entry as it was.
LEMMA SteadyBefore ==
  ASSUME TableInv, IdentityInv, StartInv, phase = "pool",
         NEW t \in DOMAIN events, start[t] # Null, NeedsName(start[t]), ~Contested(t),
         NEW v \in DOMAIN events, v < t, Before(log, start, t)[v].pid = start[t].pid,
         NEW n, n = Len(Parsed(log)[v])
  PROVE  /\ start[v] # Null /\ start[v] \in Infos /\ AtFirst(v) = start[v] /\ ~Contested(v)
         /\ \A i \in 0 .. n : InTurn(v)[i] = start[v]
         /\ \A i \in 1 .. n : Raw(log, v, i).name \in {Blank, start[v].name}
<1> PICK list, B, D, q : /\ list = Parsed(log)[v] /\ B = Before(log, start, v) /\ D = DOMAIN table
                         /\ q = start[t].pid
  OBVIOUS
<1>1. /\ log \in Logs /\ D \in SUBSET Nat /\ start \in Tables(D) /\ t \in Nat /\ v \in Nat /\ v \in D
      /\ DOMAIN events = DOMAIN Traces[log]
  BY StartIs
<1>2. /\ n \in Nat \ {0} /\ B \in Tables(D) /\ B[v] = start[v]
      /\ \A i \in 0 .. n : InTurn(v)[i] \in Infos
  BY InTurnIs
<1>3. list \in Seq(Infos) /\ list # <<>> /\ DOMAIN list = 1 .. n
  <2>1. list \in Seq(Infos) /\ list # <<>>
    BY <1>1, ParsedType
  <2> QED BY <2>1
<1>4. Before(log, start, t)[v] = InTurn(v)[n]
  BY <1>1, BeforeIs
<1>5. q # Unknown
  BY DEF NeedsName
<1>6. /\ InTurn(v)[n] = start[v] /\ \A i \in DOMAIN list : list[i].name \in {Blank, start[v].name}
  BY <1>1, <1>4 DEF Contested
<1>7. start[v] \in Infos /\ start[v] # Null /\ start[v].pid = q
  <2>1. n \in 0 .. n
    BY <1>2
  <2> QED BY <1>2, <1>4, <1>6, <2>1, NamesOK
<1>8. ~Contested(v)
  <2> SUFFICES ASSUME Contested(v) PROVE FALSE
    OBVIOUS
  <2>1. PICK u \in DOMAIN Traces[log] :
          /\ u < v /\ B[u].pid = q
          /\ \/ B[u] # start[u]
             \/ \E i \in DOMAIN Parsed(log)[u] : Parsed(log)[u][i].name \notin {Blank, start[u].name}
    BY <1>7 DEF Contested
  <2>2. u \in DOMAIN events /\ u \in D /\ u \in Nat
    BY <1>1, <2>1, StartIs
  <2>3. u < t
    BY <1>1, <2>1, <2>2
  <2>4. B[u] = InTurn(u)[Len(Parsed(log)[u])]
    BY <2>1, <2>2, BeforeIs
  <2>5. Before(log, start, t)[u] = InTurn(u)[Len(Parsed(log)[u])]
    BY <2>2, <2>3, BeforeIs
  <2>6. Before(log, start, t)[u] = B[u]
    BY <2>4, <2>5
  <2>7. Contested(t)
    BY <2>1, <2>3, <2>6 DEF Contested
  <2> QED BY <2>7
<1> PICK f : f = Turn(list, B, v)
  OBVIOUS
<1>9. InTurn(v) = f
  BY DEF InTurn
<1>10. B[v] # Null /\ B[v].pid # Unknown /\ f[Len(list)] = B[v]
  BY <1>2, <1>5, <1>6, <1>7, <1>9
<1>11. \A i \in DOMAIN list : list[i].name \in {Blank, B[v].name}
  BY <1>2, <1>6
<1>12. \A i \in 0 .. Len(list) : f[i] = B[v]
  <2>1. /\ D \in SUBSET Nat /\ B \in Tables(D) /\ v \in D /\ list \in Seq(Infos) /\ list # <<>>
        /\ B[v] # Null /\ B[v].pid # Unknown /\ f = Turn(list, B, v) /\ f[Len(list)] = B[v]
        /\ \A i \in DOMAIN list : list[i].name \in {Blank, B[v].name}
    BY <1>1, <1>2, <1>3, <1>10, <1>11
  <2> QED BY ONLY <2>1, TurnSteady
<1>13. \A i \in 0 .. n : InTurn(v)[i] = start[v]
  BY <1>2, <1>9, <1>12
<1>14. \A i \in 1 .. n : Raw(log, v, i).name \in {Blank, start[v].name}
  BY <1>3, <1>6 DEF Raw
<1> QED BY <1>7, <1>8, <1>13, <1>14 DEF AtFirst

\* A known process in the entry of a thread is the one its turn ends with.
LEMMA ShowsPid ==
  ASSUME TableInv, IdentityInv, StartInv, SameWork, phase = "pool",
         NEW v \in DOMAIN events, v \notin queue, table[v] # Null, table[v].pid # Unknown
  PROVE  InTurn(v)[Len(Parsed(log)[v])].pid = table[v].pid
<1> PICK n, c : n = Len(Parsed(log)[v]) /\ c = table[v]
  OBVIOUS
<1>1. /\ n \in Nat \ {0} /\ DOMAIN events[v] = 1 .. n
      /\ AtFirst(v).pid = (IF start[v] = Null THEN Unknown ELSE start[v].pid)
      /\ InTurn(v)[0].pid = AtFirst(v).pid
  BY InTurnIs
<1>2. SUFFICES \E i \in 0 .. n : InTurn(v)[i].pid = c.pid
  BY InTurnKeepsPid
<1>3. CASE Gone(v)
  <2>1. Alike(v, c, InTurn(v)[n])
    BY <1>3 DEF SameWork
  <2> QED BY <1>1, <2>1 DEF Alike
<1>4. CASE ~Gone(v)
  <2>1. PICK w \in Workers : worker[w].pc # "idle" /\ worker[w].tid = v
    BY <1>4 DEF Gone
  <2> PICK x : x = worker[w]
    OBVIOUS
  <2>2. SameTask(x, c) /\ x.tid = v /\ TaskOK(w) /\ x.pc \in Steps \ {"idle"} /\ x.at \in Nat
    BY <2>1 DEF SameWork, TableInv, WorkersInv
  <2>3. CASE x.pc = "enter"
    <3>1. c = start[v]
      BY <2>2, <2>3 DEF SameTask
    <3> QED BY <1>1, <3>1
  <2>4. CASE x.pc \in {"find", "override"}
    <3>1. c = AtFirst(v)
      BY <2>2, <2>4 DEF SameTask
    <3> QED BY <1>1, <3>1
  <2>5. CASE x.pc = "events"
    <3>1. Alike(v, c, InTurn(v)[x.at - 1])
      BY <2>2, <2>5 DEF SameTask
    <3>2. x.at \in 1 .. n
      BY <1>1, <2>2, <2>5 DEF TaskOK
    <3>3. x.at - 1 \in 0 .. n
      BY <1>1, <3>2
    <3> QED BY <3>1, <3>3 DEF Alike
  <2>6. CASE x.pc = "names"
    <3>1. c.pid = InTurn(v)[x.at].pid
      BY <2>2, <2>6 DEF SameTask
    <3>2. x.at \in 1 .. n
      BY <1>1, <2>2, <2>6 DEF TaskOK
    <3>3. x.at \in 0 .. n
      BY <1>1, <3>2
    <3> QED BY <3>1, <3>3
  <2> QED BY <2>2, <2>3, <2>4, <2>5, <2>6 DEF Steps
<1> QED BY <1>3, <1>4

\* Whatever its task has done, a steady entry is as it was, and its name is
\* not being assigned.
LEMMA ShowsSteady ==
  ASSUME TableInv, IdentityInv, StartInv, SameWork, phase = "pool",
         NEW v \in DOMAIN events, NEW n, n = Len(Parsed(log)[v]),
         start[v] # Null, start[v] \in Infos, AtFirst(v) = start[v], ~Contested(v),
         \A i \in 0 .. n : InTurn(v)[i] = start[v],
         \A i \in 1 .. n : Raw(log, v, i).name \in {Blank, start[v].name}
  PROVE  table[v] = start[v] /\ Assigned(v) = {}
<1> PICK c : c = table[v]
  OBVIOUS
<1>1. n \in Nat \ {0} /\ DOMAIN events[v] = 1 .. n /\ v \in DOMAIN table
  BY InTurnIs, StartIs
<1>2. \A q \in Infos : c # Null /\ q.pid = c.pid /\ q.name = c.name => c = q
  BY <1>1 DEF TableInv, DataInv, Infos
<1>3. ASSUME NEW w \in Workers, worker[w].pc # "idle", worker[w].tid = v
      PROVE  /\ c = start[v]
             /\ worker[w].pc = "override" => worker[w].name = c.name
             /\ worker[w].pc = "names" => events[v][worker[w].at].name \in {Blank, c.name}
  <2> PICK x : x = worker[w]
    OBVIOUS
  <2>1. SameTask(x, c) /\ x.tid = v /\ TaskOK(w) /\ x.pc \in Steps \ {"idle"} /\ x.at \in Nat
    BY <1>3 DEF SameWork, TableInv, WorkersInv
  <2>2. CASE x.pc = "enter"
    BY <2>1, <2>2 DEF SameTask
  <2>3. CASE x.pc = "find"
    BY <2>1, <2>3 DEF SameTask
  <2>4. CASE x.pc = "override"
    <3>1. c = start[v] /\ x.name = InTurn(v)[0].name
      BY <2>1, <2>4 DEF SameTask
    <3>2. InTurn(v)[0] = start[v]
      BY <1>1
    <3> QED BY <2>4, <3>1, <3>2
  <2>5. CASE x.pc = "events"
    <3>1. x.at \in 1 .. n /\ c # Null
      BY <1>1, <2>1, <2>5 DEF TaskOK
    <3>2. InTurn(v)[x.at - 1] = start[v]
      BY <1>1, <3>1
    <3>3. c.pid = start[v].pid /\ c.name = start[v].name
      BY <2>1, <2>5, <3>2 DEF SameTask, Alike
    <3> QED BY <1>2, <2>5, <3>1, <3>3
  <2>6. CASE x.pc = "names"
    <3>1. x.at \in 1 .. n /\ c # Null
      BY <1>1, <2>1, <2>6 DEF TaskOK
    <3>2. InTurn(v)[x.at] = start[v] /\ InTurn(v)[x.at - 1] = start[v]
      BY <1>1, <3>1
    <3>3. c.pid = start[v].pid /\ c.name = start[v].name
      BY <2>1, <2>6, <3>2 DEF SameTask
    <3>4. NameAhead(v, x.at)
      BY <2>1, <2>6 DEF NameAhead, NameToCome
    <3>5. EventOK(v, x.at)
      BY <1>1, <3>1 DEF IdentityInv, EventsInv
    <3>6. events[v][x.at].name = Raw(log, v, x.at).name
      BY <3>4, <3>5 DEF EventOK
    <3> QED BY <1>2, <2>6, <3>1, <3>3, <3>6
  <2> QED BY <2>1, <2>2, <2>3, <2>4, <2>5, <2>6 DEF Steps
<1>4. c = start[v]
  <2>1. CASE v \in queue
    BY <1>1, <2>1 DEF StartInv
  <2>2. CASE Gone(v)
    <3>1. Alike(v, c, InTurn(v)[n])
      BY <2>2 DEF SameWork
    <3>2. InTurn(v)[n] = start[v]
      BY <1>1
    <3>3. c.pid = start[v].pid /\ c.name = start[v].name
      BY <3>1, <3>2 DEF Alike
    <3>4. c # Null
      <4>1. \A w \in Workers : worker[w].pc = "enter" => worker[w].tid # v
        BY <2>2 DEF Gone
      <4> QED BY <1>1, <2>2, <4>1 DEF Gone, TableInv, EntriesInv
    <3> QED BY <1>2, <3>3, <3>4
  <2>3. CASE \E w \in Workers : worker[w].pc # "idle" /\ worker[w].tid = v
    BY <1>3, <2>3
  <2> QED BY <2>1, <2>2, <2>3 DEF Gone
<1>5. Assigned(v) = {}
  <2> SUFFICES ASSUME NEW m \in Assigned(v) PROVE FALSE
    OBVIOUS
  <2>1. PICK w \in Workers : /\ worker[w].tid = v /\ m \notin {Blank, c.name}
                             /\ \/ worker[w].pc = "override" /\ m = worker[w].name
                                \/ worker[w].pc = "names" /\ m = events[v][worker[w].at].name
    BY DEF Assigned
  <2> QED BY <1>3, <2>1
<1> QED BY <1>4, <1>5

\* The entry that a lookup of an uncontested thread t comes to is of the process
\* if it is when t has its turn, and has then the name it has now.
LEMMA LookupSees ==
  ASSUME TableInv, IdentityInv, StartInv, SameWork, phase = "pool",
         NEW w \in Workers, worker[w].pc = "find", NEW t, t = worker[w].tid,
         ~Contested(t), NEW v \in DOMAIN table, v <= t, table[v] # Null,
         NEW B, B = Before(log, start, t)
  PROVE  /\ table[v].pid = start[t].pid <=> (B[v] # Null /\ B[v].pid = start[t].pid)
         /\ table[v].pid = start[t].pid => table[v].name = B[v].name /\ Assigned(v) = {}
<1> PICK c, q : c = table[v] /\ q = start[t].pid
  OBVIOUS
<1>1. Ready(w, t) /\ SameTask(worker[w], table[t]) /\ TaskOK(w)
  BY TaskReady DEF SameWork, TableInv, WorkersInv
<1>2. t \in DOMAIN events /\ t \in Nat /\ v \in Nat /\ t \notin queue /\ \A u \in queue : t < u
  BY <1>1 DEF Ready, TaskOK, TableInv, DataInv
<1>3. table[t] = AtFirst(t) /\ NeedsName(AtFirst(t))
  BY <1>1 DEF SameTask
<1>4. start[t] # Null /\ AtFirst(t) = start[t] /\ q # Unknown
  <2>1. AtFirst(t).pid # Unknown
    BY <1>3 DEF NeedsName
  <2>2. AtFirst(t).pid = (IF start[t] = Null THEN Unknown ELSE start[t].pid)
    BY <1>2, InTurnIs
  <2> QED BY <2>1, <2>2 DEF AtFirst
<1>5. B[v] = IF v \in DOMAIN events /\ v < t THEN InTurn(v)[Len(Parsed(log)[v])] ELSE start[v]
  BY <1>2, BeforeIs
<1>6. ASSUME NEW u \in DOMAIN table, u \notin DOMAIN events \/ u = t PROVE Assigned(u) = {}
  <2> SUFFICES ASSUME NEW x \in Workers, worker[x].tid = u, worker[x].pc \in {"override", "names"} PROVE FALSE
    BY DEF Assigned
  <2>1. u \in DOMAIN events
    BY DEF TableInv, WorkersInv, TaskOK
  <2>2. x # w /\ worker[x].pc # "idle" /\ worker[w].pc # "idle" /\ worker[x].tid = worker[w].tid
    BY <1>6, <2>1
  <2> QED BY <2>2 DEF IdentityInv, TasksInv, Working
<1>7. CASE v = t
  <2>1. B[v] = start[v] /\ c = start[v] /\ c # Null
    BY <1>2, <1>3, <1>4, <1>5, <1>7
  <2> QED BY <1>6, <1>7, <2>1
<1>8. CASE v # t /\ v \notin DOMAIN events
  <2>1. B[v] = start[v] /\ c = start[v]
    BY <1>5, <1>8 DEF StartInv
  <2> QED BY <1>6, <1>8, <2>1
<1>9. CASE v # t /\ v \in DOMAIN events
  <2>1. v < t /\ v \notin queue
    BY <1>2, <1>9
  <2> PICK n : n = Len(Parsed(log)[v])
    OBVIOUS
  <2>2. B[v] = InTurn(v)[n]
    BY <1>5, <1>9, <2>1
  <2>3. B[v] # Null
    <3>1. n \in Nat \ {0} /\ \A i \in 0 .. n : InTurn(v)[i] \in Infos
      BY <1>9, InTurnIs
    <3>2. n \in 0 .. n
      BY <3>1
    <3> QED BY <2>2, <3>1, <3>2, NamesOK
  <2>4. c.pid = q => B[v].pid = q
    BY <1>4, <1>9, <2>1, <2>2, ShowsPid
  <2>5. ASSUME B[v].pid = q PROVE c = B[v] /\ Assigned(v) = {}
    <3>1. /\ start[v] # Null /\ start[v] \in Infos /\ AtFirst(v) = start[v] /\ ~Contested(v)
          /\ \A i \in 0 .. n : InTurn(v)[i] = start[v]
          /\ \A i \in 1 .. n : Raw(log, v, i).name \in {Blank, start[v].name}
      BY <1>2, <1>3, <1>4, <1>9, <2>1, <2>5, SteadyBefore
    <3>2. c = start[v] /\ Assigned(v) = {}
      BY <1>9, <3>1, ShowsSteady
    <3>3. n \in 0 .. n
      BY <1>9, InTurnIs
    <3> QED BY <2>2, <3>1, <3>2, <3>3
  <2> QED BY <2>3, <2>4, <2>5
<1> QED BY <1>7, <1>8, <1>9

\* What a step on t of the task, which is then task, does: it leaves the entry p.
SameStep(w, t, p, task) ==
  /\ worker' = [worker EXCEPT ![w] = task]
  /\ UNCHANGED <<queue, phase, log, start>>
  /\ task = Idle \/ (task.pc # "idle" /\ task.tid = t)
  /\ DOMAIN table' = DOMAIN table /\ table'[t] = p
  /\ \A u \in DOMAIN table \ {t} : table'[u] = table[u]
  /\ DOMAIN events' = DOMAIN events
  /\ \A u \in DOMAIN events \ {t} : events'[u] = events[u]
  /\ DOMAIN events'[t] = DOMAIN events[t]
  /\ p \in Infos
  /\ IF task = Idle THEN Alike(t, p, InTurn(t)[Len(Parsed(log)[t])]) ELSE SameTask(task, p)
  /\ \A i \in DOMAIN events[t] : SameEvent(t, i)'

\* The turns do not depend on what the tasks do.
LEMMA TurnsStay ==
  ASSUME log' = log, start' = start, DOMAIN table' = DOMAIN table
  PROVE  /\ \A t : /\ InTurn(t)' = InTurn(t) /\ AtFirst(t)' = AtFirst(t) /\ (Contested(t)' <=> Contested(t))
                   /\ Parsed(log)[t]' = Parsed(log)[t]
         /\ \A t, p, q : Alike(t, p, q)' <=> Alike(t, p, q)
         /\ \A x, c : SameTask(x, c)' <=> SameTask(x, c)
<1>1. \A t : Before(log, start, t)' = Before(log, start, t)
  OBVIOUS
<1>2. \A t : InTurn(t)' = InTurn(t)
  BY <1>1 DEF InTurn
<1>3. \A t : AtFirst(t)' = AtFirst(t)
  BY DEF AtFirst
<1>4. \A t : Contested(t)' <=> Contested(t)
  BY <1>1 DEF Contested
<1>5. \A t, p, q : Alike(t, p, q)' <=> Alike(t, p, q)
  BY <1>4 DEF Alike
<1>6. \A x, c : SameTask(x, c)' <=> SameTask(x, c)
  BY <1>1, <1>2, <1>3, <1>4, <1>5 DEF SameTask
<1> QED BY <1>2, <1>3, <1>4, <1>5, <1>6

\* Such a step disturbs no other thread.
LEMMA SameStepKeeps ==
  ASSUME TableInv, IdentityInv, SameInv, phase = "pool", NEW w \in Workers, worker[w].pc # "idle",
         NEW t, Ready(w, t), NEW p, NEW task, SameStep(w, t, p, task)
  PROVE  SameInv'
<1>1. StartInv /\ SameWork
  BY DEF SameInv
<1>2. /\ worker' = [worker EXCEPT ![w] = task] /\ queue' = queue /\ phase' = phase /\ log' = log /\ start' = start
      /\ task = Idle \/ (task.pc # "idle" /\ task.tid = t)
      /\ DOMAIN table' = DOMAIN table /\ table'[t] = p
      /\ \A u \in DOMAIN table \ {t} : table'[u] = table[u]
      /\ DOMAIN events' = DOMAIN events
      /\ \A u \in DOMAIN events \ {t} : events'[u] = events[u]
      /\ DOMAIN events'[t] = DOMAIN events[t] /\ p \in Infos
      /\ \A i \in DOMAIN events[t] : SameEvent(t, i)'
      /\ task = Idle => Alike(t, p, InTurn(t)[Len(Parsed(log)[t])])
      /\ task # Idle => SameTask(task, p)
  BY DEF SameStep
<1>3. /\ t \in DOMAIN table /\ t \in DOMAIN events /\ t \notin queue /\ worker[w].tid = t
      /\ worker'[w] = task /\ \A v \in Workers \ {w} : worker'[v] = worker[v]
  BY <1>2 DEF Ready
<1>4. \A v \in Workers \ {w} : worker[v].pc # "idle" => worker[v].tid # t /\ worker[v].tid \in DOMAIN table
  <2> SUFFICES ASSUME NEW v \in Workers \ {w}, worker[v].pc # "idle"
               PROVE  worker[v].tid # t /\ worker[v].tid \in DOMAIN table
    OBVIOUS
  <2>1. TaskOK(v)
    BY DEF TableInv, WorkersInv
  <2> QED BY <1>3, <2>1 DEF IdentityInv, TasksInv, Working, TaskOK, TableInv, DataInv
<1>5. /\ \A u : InTurn(u)' = InTurn(u) /\ (Contested(u)' <=> Contested(u)) /\ Parsed(log)[u]' = Parsed(log)[u]
      /\ \A u, x, y : Alike(u, x, y)' <=> Alike(u, x, y)
      /\ \A x, c : SameTask(x, c)' <=> SameTask(x, c)
  BY <1>2, TurnsStay
<1>6. StartInv'
  <2>1. start' \in Tables(DOMAIN table')
    BY <1>1, <1>2 DEF StartInv
  <2>2. \A u \in (DOMAIN table' \ DOMAIN events') \cup queue' : u \in DOMAIN table => table'[u] = start'[u]
    BY <1>1, <1>2, <1>3 DEF StartInv
  <2>3. queue \subseteq DOMAIN table
    BY DEF TableInv, DataInv
  <2> QED BY <1>2, <2>1, <2>2, <2>3 DEF StartInv
<1>7. ASSUME NEW v \in Workers, worker'[v].pc # "idle" PROVE SameTask(worker'[v], table'[worker'[v].tid])
  <2>1. CASE v = w
    <3>1. task # Idle /\ worker'[v] = task /\ task.tid = t
      BY <1>2, <1>3, <1>7, <2>1 DEF Idle
    <3> QED BY <1>2, <3>1
  <2>2. CASE v # w
    <3>1. worker'[v] = worker[v] /\ table'[worker[v].tid] = table[worker[v].tid]
      BY <1>2, <1>3, <1>4, <1>7, <2>2
    <3>2. SameTask(worker[v], table[worker[v].tid])
      BY <1>1, <1>7, <3>1 DEF SameWork
    <3> QED BY <3>1, <3>2
  <2> QED BY <2>1, <2>2
<1>8. ASSUME NEW u \in DOMAIN events, Gone(u)' PROVE Alike(u, table'[u], InTurn(u)[Len(Parsed(log)[u])])
  <2>1. CASE u = t
    <3>1. task = Idle
      BY <1>2, <1>3, <1>8, <2>1 DEF Gone
    <3> QED BY <1>2, <2>1, <3>1
  <2>2. CASE u # t
    <3>1. Gone(u)
      BY <1>2, <1>3, <1>8, <2>2 DEF Gone
    <3>2. u \in DOMAIN table
      BY DEF TableInv, DataInv
    <3> QED BY <1>1, <1>2, <2>2, <3>1, <3>2 DEF SameWork
  <2> QED BY <2>1, <2>2
<1>9. ASSUME NEW u \in DOMAIN events, NEW i \in DOMAIN events'[u] PROVE SameEvent(u, i)'
  <2>1. CASE u = t
    BY <1>2, <1>9, <2>1
  <2>2. CASE u # t
    <3>1. events'[u] = events[u] /\ SameEvent(u, i)
      BY <1>1, <1>2, <1>9, <2>2 DEF SameWork
    <3>2. (PidAhead(u, i)' <=> PidAhead(u, i)) /\ (NameAhead(u, i)' <=> NameAhead(u, i))
      <4>1. task = Idle \/ task.tid = worker[w].tid
        BY <1>2, <1>3
      <4> QED BY <1>2, <1>3, <2>2, <4>1, OthersWait
    <3>3. Raw(log, u, i)' = Raw(log, u, i)
      BY <1>2 DEF Raw
    <3> QED BY <1>5, <3>1, <3>2, <3>3 DEF SameEvent
  <2> QED BY <2>1, <2>2
<1>10. SameWork'
  BY <1>2, <1>5, <1>7, <1>8, <1>9 DEF SameWork
<1>11. OnlyContestedNamesVary'
  BY <1>2 DEF OnlyContestedNamesVary, Joined
<1> QED BY <1>6, <1>10, <1>11 DEF SameInv

\* A task that has no event behind it leaves them as they are.
LEMMA EventsWait ==
  ASSUME TableInv, IdentityInv, SameInv, phase = "pool",
         NEW w \in Workers, worker[w].pc \in {"enter", "find", "override"}, NEW t, Ready(w, t),
         NEW task, worker' = [worker EXCEPT ![w] = task], task.tid = t,
         task.pc \in {"find", "override"} \/ (task.pc = "events" /\ task.at = 1),
         events' = events, log' = log, start' = start, DOMAIN table' = DOMAIN table
  PROVE  \A i \in DOMAIN events[t] : SameEvent(t, i)'
<1> SUFFICES ASSUME NEW i \in DOMAIN events[t] PROVE SameEvent(t, i)'
  OBVIOUS
<1>1. SameEvent(t, i)
  BY DEF Ready, SameInv, SameWork
<1>2. i \in Nat /\ 1 <= i
  BY DEF Ready
<1>3. worker'[w] = task /\ worker[w].tid = t
  BY DEF Ready
<1>4. PidAhead(t, i) /\ NameAhead(t, i)
  BY <1>3 DEF PidAhead, NameAhead, PidToCome, NameToCome
<1>5. PidAhead(t, i)' /\ NameAhead(t, i)'
  BY <1>2, <1>3 DEF PidAhead, NameAhead, PidToCome, NameToCome
<1>6. Raw(log, t, i)' = Raw(log, t, i) /\ events'[t][i] = events[t][i]
  BY DEF Raw
<1> QED BY <1>1, <1>4, <1>5, <1>6 DEF SameEvent

LEMMA EnterSame ==
  ASSUME TableInv, IdentityInv, SameInv, NEW w \in Workers, Enter(w)
  PROVE  SameInv'
<1> PICK t, p, n : t = worker[w].tid /\ p = Entered(t) /\ n = Len(Parsed(log)[t])
  OBVIOUS
<1> DEFINE task == [worker[w] EXCEPT !.pc = IF NeedsName(p) THEN "find" ELSE "events",
                                     !.at = IF NeedsName(p) THEN Min(DOMAIN table) ELSE 1]
<1>1. /\ phase = "pool" /\ worker[w].pc = "enter"
      /\ table' = [table EXCEPT ![t] = p]
      /\ worker' = [worker EXCEPT ![w] = task]
      /\ UNCHANGED <<events, queue, phase, log, start>>
  BY DEF Enter, At
<1>2. Ready(w, t) /\ StartInv /\ SameWork /\ SameTask(worker[w], table[t])
  BY <1>1, TaskReady DEF SameInv, SameWork
<1>3. /\ t \in DOMAIN events /\ t \in DOMAIN table /\ DOMAIN table \in SUBSET Nat /\ t \in DOMAIN Traces[log]
      /\ log \in Logs /\ t \in Nat
  BY <1>1, <1>2, StartIs DEF Ready
<1>4. /\ n \in Nat \ {0} /\ DOMAIN events[t] = 1 .. n /\ AtFirst(t) \in Infos
      /\ ~NeedsName(AtFirst(t)) => InTurn(t)[0] = AtFirst(t)
  BY <1>1, <1>2, <1>3, InTurnIs
<1>5. p = AtFirst(t)
  <2>1. table[t] = start[t]
    BY <1>1, <1>2 DEF SameTask, Ready
  <2>2. CASE start[t] = Null
    <3>1. events[t] \in Seq(Infos) /\ Len(events[t]) = n
      BY <1>2, <1>4 DEF Ready
    <3>2. Parsed(log)[t] \in Seq(Infos)
      BY <1>3, ParsedType
    <3>3. Last(events[t]) = events[t][n] /\ Last(Parsed(log)[t]) = Parsed(log)[t][n]
      BY <3>1, <3>2 DEF Last
    <3>4. NameAhead(t, n)
      BY <1>1, <1>2 DEF NameAhead, NameToCome, Ready
    <3>5. EventOK(t, n)
      BY <1>3, <1>4 DEF IdentityInv, EventsInv
    <3>6. Last(events[t]).name = Last(Parsed(log)[t]).name
      BY <3>3, <3>4, <3>5 DEF EventOK, Raw
    <3> QED BY <2>1, <2>2, <3>6 DEF Entered, AtFirst
  <2>3. CASE start[t] # Null
    BY <2>1, <2>3 DEF Entered, AtFirst
  <2> QED BY <2>2, <2>3
<1>6. /\ task.tid = t /\ task.pc = (IF NeedsName(p) THEN "find" ELSE "events")
      /\ task.at = (IF NeedsName(p) THEN Min(DOMAIN table) ELSE 1)
  BY <1>2 DEF Ready
<1> HIDE DEF task
<1>7. SameTask(task, p)
  <2>1. CASE NeedsName(p)
    <3>1. \A u \in DOMAIN table : ~(u < Min(DOMAIN table))
      BY <1>3, MinIsLeast
    <3> QED BY <1>5, <1>6, <2>1, <3>1 DEF SameTask
  <2>2. CASE ~NeedsName(p)
    <3>1. Alike(t, p, InTurn(t)[0])
      BY <1>4, <1>5, <2>2 DEF Alike
    <3>2. task.pc = "events" /\ task.at = 1 /\ 1 - 1 = 0
      BY <1>6, <2>2
    <3> QED BY <1>6, <3>1, <3>2 DEF SameTask
  <2> QED BY <2>1, <2>2
<1>8. /\ DOMAIN table' = DOMAIN table /\ table'[t] = p /\ \A u \in DOMAIN table \ {t} : table'[u] = table[u]
  BY <1>1, <1>3
<1>9. \A i \in DOMAIN events[t] : SameEvent(t, i)'
  BY <1>1, <1>2, <1>6, <1>8, EventsWait
<1>10. SameStep(w, t, p, task)
  <2>1. task # Idle /\ task.pc # "idle"
    BY <1>6 DEF Idle
  <2> QED BY <1>1, <1>4, <1>5, <1>6, <1>7, <1>8, <1>9, <2>1 DEF SameStep
<1> QED BY <1>1, <1>2, <1>10, SameStepKeeps

LEMMA OverrideSame ==
  ASSUME TableInv, IdentityInv, SameInv, NEW w \in Workers, Override(w)
  PROVE  SameInv'
<1> PICK t, n, c : t = worker[w].tid /\ n = Len(Parsed(log)[t]) /\ c = table[t]
  OBVIOUS
<1> DEFINE p == IF worker[w].name = Blank THEN c ELSE [c EXCEPT !.name = worker[w].name]
           task == [worker[w] EXCEPT !.pc = "events", !.at = 1, !.name = Blank]
<1>1. /\ phase = "pool" /\ worker[w].pc = "override"
      /\ table' = IF worker[w].name = Blank THEN table ELSE [table EXCEPT ![t].name = worker[w].name]
      /\ worker' = [worker EXCEPT ![w] = task]
      /\ UNCHANGED <<events, queue, phase, log, start>>
  BY DEF Override, At
<1>2. Ready(w, t) /\ StartInv /\ SameWork /\ SameTask(worker[w], c)
  BY <1>1, TaskReady DEF SameInv, SameWork
<1>3. t \in DOMAIN events /\ t \in DOMAIN table /\ worker[w].name \in Names
  BY <1>1, <1>2 DEF Ready
<1>4. AtFirst(t) \in Infos /\ InTurn(t)[0].pid = AtFirst(t).pid
  BY <1>1, <1>2, <1>3, InTurnIs
<1>5. c = AtFirst(t) /\ c \in Infos /\ c.name = Blank
      /\ (Contested(t) \/ worker[w].name = InTurn(t)[0].name)
  BY <1>1, <1>2, <1>4 DEF SameTask, NeedsName, Ready
<1>6. p \in Infos /\ p.pid = c.pid /\ p.name = worker[w].name
  BY <1>3, <1>5 DEF Infos
<1>7. task.tid = t /\ task.pc = "events" /\ task.at = 1
  BY <1>2 DEF Ready
<1>8. /\ DOMAIN table' = DOMAIN table /\ table'[t] = p /\ \A u \in DOMAIN table \ {t} : table'[u] = table[u]
  BY <1>1, <1>3
<1> HIDE DEF p, task
<1>9. SameTask(task, p)
  <2>1. Alike(t, p, InTurn(t)[0])
    BY <1>4, <1>5, <1>6 DEF Alike
  <2>2. 1 - 1 = 0
    OBVIOUS
  <2> QED BY <1>7, <2>1, <2>2 DEF SameTask
<1>10. \A i \in DOMAIN events[t] : SameEvent(t, i)'
  BY <1>1, <1>2, <1>7, <1>8, EventsWait
<1>11. SameStep(w, t, p, task)
  <2>1. task # Idle /\ task.pc # "idle"
    BY <1>7 DEF Idle
  <2> QED BY <1>1, <1>6, <1>7, <1>8, <1>9, <1>10, <2>1 DEF SameStep
<1> QED BY <1>1, <1>2, <1>11, SameStepKeeps

\* The lookup passes no entry that will be of the process, and stops with the
\* name that the entry has in turn.
LEMMA FindSame ==
  ASSUME TableInv, IdentityInv, SameInv, NEW w \in Workers, Find(w)
  PROVE  SameInv'
<1> PICK t, n, c, at, B, D : /\ t = worker[w].tid /\ n = Len(Parsed(log)[t]) /\ c = table[t]
                             /\ at = worker[w].at /\ B = Before(log, start, t) /\ D = DOMAIN table
  OBVIOUS
<1>1. /\ phase = "pool" /\ worker[w].pc = "find"
      /\ UNCHANGED <<table, events, queue, log, start>>
  BY DEF Find, At
<1>2. Ready(w, t) /\ StartInv /\ SameWork /\ SameTask(worker[w], c) /\ TaskOK(w)
  BY <1>1, TaskReady DEF SameInv, SameWork, TableInv, WorkersInv
<1>3. /\ t \in DOMAIN events /\ t \in D /\ D \in SUBSET Nat /\ t \in Nat
      /\ at \in D /\ at \in Nat /\ at <= t
  BY <1>1, <1>2, StartIs DEF Ready, TaskOK
<1>4. /\ AtFirst(t) \in Infos /\ AtFirst(t).pid = (IF start[t] = Null THEN Unknown ELSE start[t].pid)
      /\ B \in Tables(D) /\ B[t] = start[t]
      /\ NeedsName(AtFirst(t)) => InTurn(t)[0] = [AtFirst(t) EXCEPT !.name = Pid2Comm(B, t, AtFirst(t))]
  BY <1>1, <1>2, <1>3, InTurnIs
<1>5. /\ c = AtFirst(t) /\ NeedsName(c)
      /\ ~Contested(t) => \A u \in D : u < at => B[u] = Null \/ B[u].pid # c.pid
  BY <1>1, <1>2 DEF SameTask, Ready
<1>6. start[t] # Null /\ c = start[t] /\ c \in Infos
  BY <1>4, <1>5 DEF NeedsName, AtFirst
<1>7. ASSUME ~Contested(t), table[at] # Null
      PROVE  /\ table[at].pid = c.pid <=> (B[at] # Null /\ B[at].pid = c.pid)
             /\ table[at].pid = c.pid => table[at].name = B[at].name /\ Assigned(at) = {}
  BY <1>1, <1>2, <1>3, <1>6, <1>7, LookupSees DEF Ready
<1>8. ASSUME NEW task, worker' = [worker EXCEPT ![w] = task], phase' = phase,
             task.tid = t, task.pc \in {"find", "override"}, SameTask(task, c)
      PROVE  SameInv'
  <2>1. \A i \in DOMAIN events[t] : SameEvent(t, i)'
    BY <1>1, <1>2, <1>8, EventsWait
  <2>2. task # Idle /\ task.pc # "idle"
    BY <1>8 DEF Idle
  <2>3. SameStep(w, t, c, task)
    BY <1>1, <1>6, <1>8, <2>1, <2>2 DEF SameStep
  <2> QED BY <1>1, <1>2, <2>3, SameStepKeeps
<1>9. CASE phase' = "crashed"
  BY <1>9 DEF SameInv, OnlyContestedNamesVary, Joined
<1>10. CASE table[at] # Null /\ table[at].pid # c.pid /\ phase' = phase
            /\ worker' = [worker EXCEPT ![w].at = NextKey(at)]
  <2> DEFINE task == [worker[w] EXCEPT !.at = NextKey(at)]
  <2>1. worker' = [worker EXCEPT ![w] = task]
    BY <1>10
  <2>2. task.tid = t /\ task.pc = "find" /\ task.at = NextKey(at)
    BY <1>1, <1>2 DEF Ready
  <2>3. \A u \in D : u < NextKey(at) => u <= at
    <3> DEFINE later == {u \in D : u > at}
    <3>1. later \in SUBSET Nat /\ t \in later
      <4>1. at # t
        BY <1>10
      <4> QED BY <1>3, <4>1
    <3>2. NextKey(at) \in later /\ \A u \in later : NextKey(at) <= u
      BY <3>1, MinIsLeast DEF NextKey
    <3> QED BY <1>3, <3>2
  <2> HIDE DEF task
  <2>4. ASSUME ~Contested(t), NEW u \in D, u < NextKey(at) PROVE B[u] = Null \/ B[u].pid # c.pid
    <3>1. CASE u = at
      BY <1>7, <1>10, <2>4, <3>1
    <3>2. CASE u < at
      BY <1>5, <2>4, <3>2
    <3> QED BY <1>3, <2>3, <2>4, <3>1, <3>2
  <2>5. SameTask(task, c)
    BY <1>5, <2>2, <2>4 DEF SameTask
  <2> QED BY <1>8, <1>10, <2>1, <2>2, <2>5
<1>11. ASSUME table[at] # Null, table[at].pid = c.pid, phase' = phase, NEW m \in NamesRead(at),
              worker' = [worker EXCEPT ![w].pc = "override", ![w].name = OrFromProcs(m, c.pid)]
       PROVE  SameInv'
  <2> DEFINE task == [worker[w] EXCEPT !.pc = "override", !.name = OrFromProcs(m, c.pid)]
  <2>1. worker' = [worker EXCEPT ![w] = task]
    BY <1>11
  <2>2. task.tid = t /\ task.pc = "override" /\ task.name = OrFromProcs(m, c.pid)
    BY <1>1, <1>2 DEF Ready
  <2> HIDE DEF task
  <2>3. ASSUME ~Contested(t) PROVE task.name = InTurn(t)[0].name
    <3>1. B[at] # Null /\ B[at].pid = c.pid /\ m = B[at].name
      BY <1>7, <1>11, <2>3 DEF NamesRead
    <3>2. PICK v \in D : /\ IsFirst(B, t, c, v)
                         /\ Pid2Comm(B, t, c) = OrFromProcs(IF v = t THEN c.name ELSE B[v].name, c.pid)
      <4>1. D \in SUBSET Nat /\ B \in Tables(D) /\ t \in D /\ c \in Infos
        BY <1>3, <1>4, <1>6
      <4> QED BY ONLY <4>1, LookupEnds, Zenon
    <3>3. IsFirst(B, t, c, at)
      <4> DEFINE same == {u \in DOMAIN B \ {t} : B[u] # Null /\ B[u].pid = c.pid} \cup {t}
      <4>1. at \in same
        BY <1>3, <1>4, <3>1 DEF Tables
      <4>2. ASSUME NEW u \in same PROVE at <= u
        <5>1. u \in D /\ u \in Nat /\ (u = t \/ (B[u] # Null /\ B[u].pid = c.pid))
          BY <1>3, <1>4 DEF Tables
        <5>2. ~(u < at)
          BY <1>3, <1>5, <2>3, <5>1
        <5> QED BY <1>3, <5>1, <5>2
      <4> QED BY <4>1, <4>2 DEF IsFirst
    <3>4. v = at
      BY <1>3, <1>4, <3>2, <3>3, FirstIsOne
    <3>5. Pid2Comm(B, t, c) = OrFromProcs(m, c.pid)
      BY <1>4, <1>6, <3>1, <3>2, <3>4
    <3>6. InTurn(t)[0] = [c EXCEPT !.name = Pid2Comm(B, t, c)]
      BY <1>4, <1>5
    <3>7. InTurn(t)[0].name = Pid2Comm(B, t, c)
      BY <1>6, <3>6 DEF Infos
    <3> QED BY <2>2, <3>5, <3>7
  <2>4. SameTask(task, c)
    BY <1>5, <2>2, <2>3 DEF SameTask
  <2> QED BY <1>8, <1>11, <2>1, <2>2, <2>4
<1> QED BY <1>9, <1>10, <1>11 DEF Find

\* The event and the entry have told each other the process as in turn.
LEMMA UpdatePidSame ==
  ASSUME TableInv, IdentityInv, SameInv, NEW w \in Workers, UpdatePid(w)
  PROVE  SameInv'
<1> PICK t, i, e, c, n : /\ t = worker[w].tid /\ i = worker[w].at /\ e = events[t][i] /\ c = table[t]
                         /\ n = Len(Parsed(log)[t])
  OBVIOUS
<1> DEFINE p == [c EXCEPT !.pid = IF c.pid = Unknown THEN e.pid ELSE c.pid]
           f == [e EXCEPT !.pid = IF e.pid = Unknown THEN c.pid ELSE e.pid]
           task == [worker[w] EXCEPT !.pc = "names"]
<1>1. /\ phase = "pool" /\ worker[w].pc = "events" /\ UNCHANGED <<queue, phase, log, start>>
      /\ worker' = [worker EXCEPT ![w] = task]
  BY DEF UpdatePid, At
<1>2. table' = [table EXCEPT ![t] = p] /\ events' = [events EXCEPT ![t] = [events[t] EXCEPT ![i] = f]]
  BY DEF UpdatePid, UpdatedInfo, UpdatedEvent
<1>3. Ready(w, t) /\ StartInv /\ SameWork /\ SameTask(worker[w], c)
  BY <1>1, TaskReady DEF SameInv, SameWork
<1>4. /\ i \in DOMAIN events[t] /\ i \in Nat /\ c \in Infos /\ e \in Infos
  BY <1>1, <1>3, AtEvent
<1>5. /\ t \in DOMAIN events /\ DOMAIN events[t] = 1 .. n /\ n \in Nat
      /\ InTurn(t)[i] = UpdatedInfo(InTurn(t)[i - 1], Raw(log, t, i))
  <2>1. t \in DOMAIN events
    BY <1>3 DEF Ready
  <2> QED BY <1>1, <1>3, <1>4, <2>1, InTurnIs
<1> PICK q, x : q = InTurn(t)[i - 1] /\ x = Raw(log, t, i)
  OBVIOUS
<1>6. c.pid = q.pid /\ (Contested(t) \/ c.name = q.name)
  BY <1>1, <1>3 DEF SameTask, Alike, Ready
<1>7. /\ p \in Infos /\ p.pid = (IF c.pid = Unknown THEN e.pid ELSE c.pid) /\ p.name = c.name
      /\ f \in Infos /\ f.pid = (IF e.pid = Unknown THEN c.pid ELSE e.pid) /\ f.name = e.name
  BY <1>4 DEF Infos
<1>8. task.tid = t /\ task.pc = "names" /\ task.at = i
  BY <1>3 DEF Ready
<1> HIDE DEF p, f, task
<1>9. /\ DOMAIN table' = DOMAIN table /\ table'[t] = p /\ \A u \in DOMAIN table \ {t} : table'[u] = table[u]
      /\ DOMAIN events' = DOMAIN events /\ \A u \in DOMAIN events \ {t} : events'[u] = events[u]
      /\ DOMAIN events'[t] = DOMAIN events[t]
      /\ events'[t][i] = f /\ \A j \in DOMAIN events[t] \ {i} : events'[t][j] = events[t][j]
  BY <1>2, <1>3, <1>4 DEF Ready
<1>10. \A j : /\ PidAhead(t, j) <=> PidToCome(worker[w], j)
              /\ NameAhead(t, j) <=> NameToCome(worker[w], j)
              /\ PidAhead(t, j)' <=> PidToCome(task, j)
              /\ NameAhead(t, j)' <=> NameToCome(task, j)
  BY <1>1, <1>3, <1>8, OneTask
<1>11. \A j \in Nat : j # i => /\ PidToCome(worker[w], j) <=> PidToCome(task, j)
                               /\ NameToCome(worker[w], j) <=> NameToCome(task, j)
  BY <1>1, <1>3, <1>4, <1>8 DEF PidToCome, NameToCome, Ready
<1>12. PidAhead(t, i) /\ NameAhead(t, i) /\ ~PidAhead(t, i)' /\ NameAhead(t, i)'
  BY <1>1, <1>3, <1>4, <1>8, <1>10 DEF PidToCome, NameToCome, Ready
<1>13. SameEvent(t, i)
  BY <1>3, <1>4, <1>5 DEF SameWork
<1>14. e.pid = x.pid /\ e.name = x.name
  BY <1>12, <1>13 DEF SameEvent
<1>15. SameTask(task, p)
  <2>1. p.pid = InTurn(t)[i].pid
    BY <1>5, <1>6, <1>7, <1>14 DEF UpdatedInfo
  <2> QED BY <1>6, <1>7, <1>8, <2>1 DEF SameTask
<1>16. SameEvent(t, i)'
  <2>1. f.pid = UpdatedEvent(x, q).pid /\ f.name = x.name
    BY <1>6, <1>7, <1>14 DEF UpdatedEvent
  <2>2. InTurn(t)' = InTurn(t) /\ Raw(log, t, i)' = x
    BY <1>1, <1>9, TurnsStay DEF Raw
  <2> QED BY <1>9, <1>12, <2>1, <2>2 DEF SameEvent
<1>17. ASSUME NEW j \in DOMAIN events[t] PROVE SameEvent(t, j)'
  <2>1. CASE j = i
    BY <1>16, <2>1
  <2>2. CASE j # i
    <3>1. SameEvent(t, j) /\ events'[t][j] = events[t][j] /\ j \in Nat
      BY <1>3, <1>5, <1>9, <2>2 DEF SameWork
    <3>2. (PidAhead(t, j)' <=> PidAhead(t, j)) /\ (NameAhead(t, j)' <=> NameAhead(t, j))
      BY <1>10, <1>11, <2>2, <3>1
    <3>3. InTurn(t)' = InTurn(t) /\ (Contested(t)' <=> Contested(t)) /\ Raw(log, t, j)' = Raw(log, t, j)
      BY <1>1, <1>9, TurnsStay DEF Raw
    <3> QED BY <3>1, <3>2, <3>3 DEF SameEvent
  <2> QED BY <2>1, <2>2
<1>18. SameStep(w, t, p, task)
  <2>1. task # Idle /\ task.pc # "idle"
    BY <1>8 DEF Idle
  <2> QED BY <1>1, <1>7, <1>8, <1>9, <1>15, <1>17, <2>1 DEF SameStep
<1> QED BY <1>1, <1>3, <1>18, SameStepKeeps

\* And the name.
LEMMA UpdateNameSame ==
  ASSUME TableInv, IdentityInv, SameInv, NEW w \in Workers, UpdateName(w)
  PROVE  SameInv'
<1> PICK t, i, e, c, n : /\ t = worker[w].tid /\ i = worker[w].at /\ e = events[t][i] /\ c = table[t]
                         /\ n = Len(Parsed(log)[t])
  OBVIOUS
<1> DEFINE m == IF e.name = Blank THEN c.name ELSE e.name
           p == [c EXCEPT !.name = m]
           f == [e EXCEPT !.name = m]
           on == [worker[w] EXCEPT !.pc = "events", !.at = i + 1]
           task == IF i = Len(events[t]) THEN Idle ELSE on
<1>1. /\ phase = "pool" /\ worker[w].pc = "names" /\ UNCHANGED <<queue, phase, log, start>>
      /\ worker' = [worker EXCEPT ![w] = task]
  BY DEF UpdateName, At
<1>2. table' = [table EXCEPT ![t] = p] /\ events' = [events EXCEPT ![t] = [events[t] EXCEPT ![i] = f]]
  BY DEF UpdateName, UpdatedInfo, UpdatedEvent
<1>3. Ready(w, t) /\ StartInv /\ SameWork /\ SameTask(worker[w], c)
  BY <1>1, TaskReady DEF SameInv, SameWork
<1>4. /\ i \in DOMAIN events[t] /\ i \in Nat /\ c \in Infos /\ e \in Infos
  BY <1>1, <1>3, AtEvent
<1>5. /\ t \in DOMAIN events /\ DOMAIN events[t] = 1 .. n /\ n \in Nat /\ Len(events[t]) = n
      /\ InTurn(t)[i] = UpdatedInfo(InTurn(t)[i - 1], Raw(log, t, i))
  <2>1. t \in DOMAIN events /\ events[t] \in Seq(Infos)
    BY <1>3 DEF Ready
  <2>2. /\ DOMAIN events[t] = 1 .. n /\ n \in Nat
        /\ \A j \in 1 .. n : InTurn(t)[j] = UpdatedInfo(InTurn(t)[j - 1], Raw(log, t, j))
    BY <1>1, <1>3, <2>1, InTurnIs
  <2>3. Len(events[t]) = n
    BY <2>1, <2>2
  <2> QED BY <1>4, <2>1, <2>2, <2>3
<1> PICK q, x : q = InTurn(t)[i - 1] /\ x = Raw(log, t, i)
  OBVIOUS
<1>6. c.pid = InTurn(t)[i].pid /\ (Contested(t) \/ c.name = q.name)
  BY <1>1, <1>3 DEF SameTask, Ready
<1>7. /\ p \in Infos /\ p.pid = c.pid /\ p.name = m
      /\ f \in Infos /\ f.pid = e.pid /\ f.name = m
  BY <1>4 DEF Infos
<1>8. /\ i = n => task = Idle
      /\ i # n => task.tid = t /\ task.pc = "events" /\ task.at = i + 1
  BY <1>3, <1>5 DEF Ready
<1> HIDE DEF p, f, on, task
<1>9. /\ DOMAIN table' = DOMAIN table /\ table'[t] = p /\ \A u \in DOMAIN table \ {t} : table'[u] = table[u]
      /\ DOMAIN events' = DOMAIN events /\ \A u \in DOMAIN events \ {t} : events'[u] = events[u]
      /\ DOMAIN events'[t] = DOMAIN events[t]
      /\ events'[t][i] = f /\ \A j \in DOMAIN events[t] \ {i} : events'[t][j] = events[t][j]
  BY <1>2, <1>3, <1>4 DEF Ready
<1>10. \A j : /\ PidAhead(t, j) <=> PidToCome(worker[w], j)
              /\ NameAhead(t, j) <=> NameToCome(worker[w], j)
              /\ PidAhead(t, j)' <=> PidToCome(task, j)
              /\ NameAhead(t, j)' <=> NameToCome(task, j)
  <2>1. task = Idle \/ task.tid = t
    BY <1>8
  <2> QED BY <1>1, <1>3, <2>1, OneTask
<1>11. \A j \in 1 .. n : /\ PidToCome(worker[w], j) <=> PidToCome(task, j)
                         /\ j # i => (NameToCome(worker[w], j) <=> NameToCome(task, j))
  <2>1. CASE i = n
    <3>1. \A j \in 1 .. n : ~(i < j) /\ (j # i => ~(i <= j))
      BY <1>4, <1>5, <2>1
    <3>2. task = Idle
      BY <1>8, <2>1
    <3> QED BY <1>1, <1>3, <3>1, <3>2 DEF PidToCome, NameToCome, Ready, Idle
  <2>2. CASE i # n
    <3>1. \A j \in 1 .. n : (i + 1 <= j <=> i < j) /\ (j # i => (i <= j <=> i + 1 <= j))
      BY <1>4, <1>5, <2>2
    <3> QED BY <1>1, <1>3, <1>8, <2>2, <3>1 DEF PidToCome, NameToCome, Ready
  <2> QED BY <2>1, <2>2
<1>12. ~PidAhead(t, i) /\ ~PidAhead(t, i)' /\ NameAhead(t, i) /\ ~NameAhead(t, i)'
  <2>1. NameToCome(worker[w], i) /\ ~PidToCome(worker[w], i)
    BY <1>1, <1>3, <1>4 DEF NameToCome, PidToCome, Ready
  <2>2. ~NameToCome(task, i) /\ ~PidToCome(task, i)
    BY <1>4, <1>8 DEF NameToCome, PidToCome, Idle
  <2> QED BY <1>10, <2>1, <2>2
<1>13. SameEvent(t, i)
  BY <1>3, <1>4, <1>5 DEF SameWork
<1>14. e.pid = UpdatedEvent(x, q).pid /\ e.name = x.name
  BY <1>12, <1>13 DEF SameEvent
<1>15. Alike(t, p, InTurn(t)[i])
  <2>1. Contested(t) \/ p.name = InTurn(t)[i].name
    BY <1>5, <1>6, <1>7, <1>14 DEF UpdatedInfo
  <2> QED BY <1>6, <1>7, <2>1 DEF Alike
<1>16. task # Idle => SameTask(task, p)
  <2> SUFFICES ASSUME task # Idle PROVE SameTask(task, p)
    OBVIOUS
  <2>1. task.tid = t /\ task.pc = "events" /\ task.at - 1 = i
    <3>1. task.at = i + 1 /\ task.tid = t /\ task.pc = "events"
      BY <1>8
    <3> QED BY <1>4, <3>1
  <2> QED BY <1>15, <2>1 DEF SameTask
<1>17. SameEvent(t, i)'
  <2>1. f.pid = UpdatedEvent(x, q).pid /\ (Contested(t) \/ f.name = UpdatedEvent(x, q).name)
    BY <1>6, <1>7, <1>14 DEF UpdatedEvent
  <2>2. InTurn(t)' = InTurn(t) /\ (Contested(t)' <=> Contested(t)) /\ Raw(log, t, i)' = x
    BY <1>1, <1>9, TurnsStay DEF Raw
  <2> QED BY <1>9, <1>12, <2>1, <2>2 DEF SameEvent
<1>18. ASSUME NEW j \in DOMAIN events[t] PROVE SameEvent(t, j)'
  <2>1. CASE j = i
    BY <1>17, <2>1
  <2>2. CASE j # i
    <3>1. SameEvent(t, j) /\ events'[t][j] = events[t][j]
      BY <1>3, <1>5, <1>9, <2>2 DEF SameWork
    <3>2. (PidAhead(t, j)' <=> PidAhead(t, j)) /\ (NameAhead(t, j)' <=> NameAhead(t, j))
      BY <1>5, <1>10, <1>11, <2>2
    <3>3. InTurn(t)' = InTurn(t) /\ (Contested(t)' <=> Contested(t)) /\ Raw(log, t, j)' = Raw(log, t, j)
      BY <1>1, <1>9, TurnsStay DEF Raw
    <3> QED BY <3>1, <3>2, <3>3 DEF SameEvent
  <2> QED BY <2>1, <2>2
<1>19. SameStep(w, t, p, task)
  <2>1. task = Idle => Alike(t, p, InTurn(t)[n])
    <3> SUFFICES ASSUME task = Idle, i # n PROVE FALSE
      BY <1>15
    <3> QED BY <1>8 DEF Idle
  <2>2. task = Idle \/ (task.pc # "idle" /\ task.tid = t)
    BY <1>8
  <2> QED BY <1>1, <1>7, <1>9, <1>16, <1>18, <2>1, <2>2 DEF SameStep
<1> QED BY <1>1, <1>3, <1>19, SameStepKeeps

\* A thread whose task is taken is as it was at the start.
LEMMA TakeSame ==
  ASSUME TableInv, IdentityInv, SameInv, NEW w \in Workers, Take(w)
  PROVE  SameInv'
<1> PICK t : t = Min(queue)
  OBVIOUS
<1> DEFINE task == [Idle EXCEPT !.pc = "enter", !.tid = t]
<1>1. /\ phase = "pool" /\ worker[w].pc = "idle" /\ queue # {}
      /\ worker' = [worker EXCEPT ![w] = task] /\ queue' = queue \ {t}
      /\ UNCHANGED <<table, events, phase, log, start>>
  BY DEF Take, At
<1>2. queue \in SUBSET Nat /\ queue \subseteq DOMAIN events /\ DOMAIN events \subseteq DOMAIN table
      /\ StartInv /\ SameWork
  BY <1>1 DEF TableInv, DataInv, SameInv
<1>3. t \in queue /\ t \in DOMAIN table
  BY <1>1, <1>2, MinIsLeast
<1>4. task.pc = "enter" /\ task.tid = t
  BY DEF Idle
<1> HIDE DEF task
<1>5. worker'[w] = task /\ \A v \in Workers \ {w} : worker'[v] = worker[v]
  BY <1>1 DEF TableInv, WorkersInv
<1>6. ASSUME NEW u, NEW j
      PROVE  (PidAhead(u, j)' <=> PidAhead(u, j)) /\ (NameAhead(u, j)' <=> NameAhead(u, j))
  BY TakeAhead
<1>7. /\ \A u : InTurn(u)' = InTurn(u) /\ (Contested(u)' <=> Contested(u)) /\ Parsed(log)[u]' = Parsed(log)[u]
      /\ \A u, x, y : Alike(u, x, y)' <=> Alike(u, x, y)
      /\ \A x, c : SameTask(x, c)' <=> SameTask(x, c)
  BY <1>1, TurnsStay
<1>8. StartInv'
  BY <1>1, <1>2 DEF StartInv
<1>9. ASSUME NEW v \in Workers, worker'[v].pc # "idle" PROVE SameTask(worker'[v], table'[worker'[v].tid])
  <2>1. CASE v = w
    <3>1. table[t] = start[t]
      BY <1>2, <1>3 DEF StartInv
    <3>2. SameTask(task, table[t])
      BY <1>4, <3>1 DEF SameTask
    <3> QED BY <1>1, <1>4, <1>5, <2>1, <3>2
  <2>2. CASE v # w
    BY <1>1, <1>2, <1>5, <1>9, <2>2 DEF SameWork
  <2> QED BY <2>1, <2>2
<1>10. ASSUME NEW u \in DOMAIN events, Gone(u)' PROVE Alike(u, table'[u], InTurn(u)[Len(Parsed(log)[u])])
  <2>1. u # t
    BY <1>4, <1>5, <1>10 DEF Gone
  <2>2. Gone(u)
    BY <1>1, <1>5, <1>10, <2>1 DEF Gone
  <2> QED BY <1>1, <1>2, <2>2 DEF SameWork
<1>11. ASSUME NEW u \in DOMAIN events, NEW i \in DOMAIN events[u] PROVE SameEvent(u, i)'
  <2>1. SameEvent(u, i)
    BY <1>2 DEF SameWork
  <2>2. Raw(log, u, i)' = Raw(log, u, i) /\ events'[u][i] = events[u][i]
    BY <1>1 DEF Raw
  <2> QED BY <1>6, <1>7, <2>1, <2>2 DEF SameEvent
<1>12. SameWork'
  BY <1>1, <1>7, <1>9, <1>10, <1>11 DEF SameWork
<1>13. OnlyContestedNamesVary'
  BY <1>1 DEF OnlyContestedNamesVary, Joined
<1> QED BY <1>8, <1>12, <1>13 DEF SameInv

\* At the start nothing is done.
LEMMA BeginSame ==
  ASSUME TableInv, NEW l \in Logs, Begin(l)
  PROVE  SameInv'
<1> PICK old : old = LoadTpcMaps(table)
  OBVIOUS
<1>1. /\ phase = "idle" /\ log' = l /\ phase' = "pool" /\ table' = Prepared(old, l) /\ start' = table'
      /\ events' = Parsed(l) /\ queue' = DOMAIN Traces[l] /\ worker' = worker
  BY DEF Begin
<1>2. (\A w \in Workers : worker[w] = Idle) /\ \A t \in DOMAIN table : table[t] \in Infos
  BY <1>1, QuietAtPrompt
<1>3. /\ DOMAIN table' = DOMAIN old \cup DOMAIN Traces[l]
      /\ \A t \in DOMAIN table' : table'[t] = IF t \in DOMAIN old THEN old[t] ELSE Null
  BY <1>1 DEF Prepared
<1>4. \A t \in DOMAIN old : old[t] \in Infos
  <2>1. DOMAIN table \subseteq Nat
    BY DEF TableInv, DataInv
  <2> QED BY <1>2, <2>1, LoadKeepsInfo
<1>5. StartInv'
  <2>1. start' \in Tables(DOMAIN table')
    <3>1. table' = [t \in DOMAIN table' |-> table'[t]]
      BY <1>1 DEF Prepared
    <3> QED BY <1>1, <1>3, <1>4, <3>1 DEF Tables
  <2> QED BY <1>1, <2>1 DEF StartInv
<1>6. SameWork'
  <2>1. \A w \in Workers : worker'[w].pc = "idle"
    BY <1>1, <1>2 DEF Idle
  <2>2. \A t \in DOMAIN events' : ~Gone(t)'
    BY <1>1, ParsedLists DEF Gone
  <2>3. ASSUME NEW t \in DOMAIN events', NEW i \in DOMAIN events'[t] PROVE SameEvent(t, i)'
    <3>1. PidAhead(t, i)' /\ NameAhead(t, i)'
      BY <1>1, ParsedLists DEF PidAhead, NameAhead
    <3>2. events'[t][i] = Raw(log, t, i)'
      BY <1>1 DEF Raw
    <3> QED BY <3>1, <3>2 DEF SameEvent
  <2> QED BY <2>1, <2>2, <2>3 DEF SameWork
<1>7. OnlyContestedNamesVary'
  BY <1>1 DEF OnlyContestedNamesVary, Joined
<1> QED BY <1>5, <1>6, <1>7 DEF SameInv

\* At the end everything is done.
LEMMA JoinSame ==
  ASSUME TableInv, IdentityInv, SameInv, Join
  PROVE  SameInv'
<1>1. /\ phase = "pool" /\ phase' = "idle" /\ queue = {} /\ \A w \in Workers : worker[w] = Idle
      /\ UNCHANGED <<table, events, queue, worker, log, start>>
  BY DEF Join
<1>2. StartInv /\ SameWork
  BY <1>1 DEF SameInv
<1>3. ASSUME NEW t \in DOMAIN events, ~Contested(t), NEW list, list = Parsed(log)[t]
      PROVE  /\ table[t] = InTurn(t)[Len(list)]
             /\ events[t] = [i \in DOMAIN list |-> UpdatedEvent(list[i], InTurn(t)[i - 1])]
  <2> PICK n : n = Len(list)
    OBVIOUS
  <2>1. /\ n \in Nat \ {0} /\ DOMAIN events[t] = 1 .. n /\ \A i \in 0 .. n : InTurn(t)[i] \in Infos
    BY <1>1, <1>2, <1>3, InTurnIs
  <2>2. /\ log \in Logs /\ t \in DOMAIN Traces[log] /\ t \in DOMAIN table
    BY <1>1, <1>2, StartIs
  <2>3. list \in Seq(Infos) /\ DOMAIN list = 1 .. n
    BY <1>3, <2>2, ParsedType
  <2>4. events[t] \in Seq(Infos) /\ table[t] \in Infos
    <3>1. table[t] # Null
      BY <1>1, <2>2 DEF TableInv, EntriesInv, Idle
    <3> QED BY <2>2, <3>1 DEF TableInv, DataInv
  <2>5. table[t] = InTurn(t)[n]
    <3>1. Gone(t)
      BY <1>1 DEF Gone, Idle
    <3>2. Alike(t, table[t], InTurn(t)[n])
      BY <1>2, <1>3, <3>1 DEF SameWork
    <3>3. InTurn(t)[n] \in Infos
      BY <2>1
    <3> QED BY <1>3, <2>4, <3>2, <3>3 DEF Alike, Infos
  <2>6. ASSUME NEW i \in 1 .. n PROVE events[t][i] = UpdatedEvent(list[i], InTurn(t)[i - 1])
    <3>1. ~PidAhead(t, i) /\ ~NameAhead(t, i)
      BY <1>1 DEF PidAhead, NameAhead, PidToCome, NameToCome, Idle
    <3>2. SameEvent(t, i)
      BY <1>2, <2>1 DEF SameWork
    <3> PICK e, y : e = events[t][i] /\ y = UpdatedEvent(list[i], InTurn(t)[i - 1])
      OBVIOUS
    <3>3. e.pid = y.pid /\ e.name = y.name
      BY <1>3, <3>1, <3>2 DEF SameEvent, Raw
    <3>4. e \in Infos /\ y \in Infos
      <4>1. list[i] \in Infos /\ InTurn(t)[i - 1] \in Infos
        BY <2>1, <2>3
      <4>2. e \in Infos
        BY <2>1, <2>4
      <4> QED BY <4>1, <4>2, UpdatesType
    <3> QED BY <3>3, <3>4 DEF Infos
  <2>7. events[t] = [i \in DOMAIN list |-> UpdatedEvent(list[i], InTurn(t)[i - 1])]
    <3> DEFINE s == [i \in DOMAIN list |-> UpdatedEvent(list[i], InTurn(t)[i - 1])]
    <3>1. DOMAIN s = 1 .. n /\ \A i \in 1 .. n : s[i] = UpdatedEvent(list[i], InTurn(t)[i - 1])
      BY <2>3
    <3>2. s = [i \in 1 .. n |-> s[i]]
      BY <2>3
    <3>3. events[t] = [i \in 1 .. n |-> events[t][i]]
      BY <2>1, <2>4
    <3> HIDE DEF s
    <3>4. events[t] = s
      BY <2>6, <3>1, <3>2, <3>3
    <3> QED BY <3>4 DEF s
  <2> QED BY <2>5, <2>7
<1>4. OnlyContestedNamesVary
  BY <1>3 DEF OnlyContestedNamesVary
<1>5. OnlyContestedNamesVary'
  <2>1. \A t : InTurn(t)' = InTurn(t) /\ (Contested(t)' <=> Contested(t)) /\ Parsed(log)[t]' = Parsed(log)[t]
    BY <1>1, TurnsStay
  <2>2. ASSUME NEW t \in DOMAIN events, ~Contested(t), NEW list, list = Parsed(log)[t]
        PROVE  /\ table'[t] = InTurn(t)[Len(list)]
               /\ events'[t] = [i \in DOMAIN list |-> UpdatedEvent(list[i], InTurn(t)[i - 1])]
    <3>1. /\ table[t] = InTurn(t)[Len(list)]
          /\ events[t] = [i \in DOMAIN list |-> UpdatedEvent(list[i], InTurn(t)[i - 1])]
      BY <1>3, <2>2
    <3> QED BY <1>1, <3>1
  <2> QED BY <1>1, <2>1, <2>2 DEF OnlyContestedNamesVary
<1> QED BY <1>1, <1>5 DEF SameInv

\* Commands that leave the table alone.
LEMMA NothingVaries ==
  ASSUME SameInv, UNCHANGED <<table, events, queue, worker, log, start>>,
         phase' = phase \/ (phase = "idle" /\ phase' = "exited")
  PROVE  SameInv'
<1>1. CASE phase' = phase
  <2>1. (phase = "pool" => StartInv /\ SameWork) => (phase = "pool" => StartInv /\ SameWork)'
    <3>1. \A t : InTurn(t)' = InTurn(t) /\ Contested(t)' = Contested(t) /\ AtFirst(t)' = AtFirst(t)
      BY DEF InTurn, Contested, AtFirst
    <3>2. \A t, i : PidAhead(t, i)' = PidAhead(t, i) /\ NameAhead(t, i)' = NameAhead(t, i)
      BY DEF PidAhead, NameAhead
    <3>3. \A t : Gone(t)' = Gone(t)
      BY DEF Gone
    <3>4. \A t, p, q : Alike(t, p, q)' = Alike(t, p, q)
      BY <3>1 DEF Alike
    <3>5. StartInv => StartInv'
      BY DEF StartInv
    <3>6. \A w \in Workers : SameTask(worker[w], table[worker[w].tid]) => SameTask(worker[w], table[worker[w].tid])'
      BY <3>1, <3>4 DEF SameTask
    <3>7. \A t, i : SameEvent(t, i) => SameEvent(t, i)'
      BY <3>1, <3>2 DEF SameEvent, Raw
    <3>8. SameWork => SameWork'
      BY <3>3, <3>4, <3>1, <3>6, <3>7 DEF SameWork
    <3> QED BY <1>1, <3>5, <3>8
  <2>2. OnlyContestedNamesVary => OnlyContestedNamesVary'
    BY <1>1 DEF OnlyContestedNamesVary, Joined, InTurn, Contested
  <2> QED BY <2>1, <2>2 DEF SameInv
<1>2. CASE phase' = "exited"
  BY <1>2 DEF SameInv, OnlyContestedNamesVary, Joined
<1> QED BY <1>1, <1>2

\* What each task does is what it does in its turn, whatever the others do, but
\* for the name of a contested thread.
THEOREM SameInvariant == Spec => []SameInv
<1>1. InitShell => SameInv
  BY DEF InitShell, Init, SameInv, OnlyContestedNamesVary, Joined
<1>2. TableInv /\ IdentityInv /\ SameInv /\ [Next]_allVars => SameInv'
  <2> SUFFICES ASSUME TableInv, IdentityInv, SameInv, [Next]_allVars PROVE SameInv'
    OBVIOUS
  <2>1. ASSUME NEW l \in Logs, ConstructEventGraph(l) PROVE SameInv'
    BY <2>1, BeginSame DEF ConstructEventGraph
  <2>2. ASSUME NEW w \in Workers, Task(w) PROVE SameInv'
    BY <2>2, TakeSame, EnterSame, FindSame, OverrideSame, UpdatePidSame, UpdateNameSame DEF Task
  <2>3. CASE Constructed
    BY <2>3, JoinSame DEF Constructed
  <2>4. CASE ConstructTransGraph \/ SaveGraph \/ ViewVertex \/ BeamDiagnose
    <3>1. UNCHANGED <<table, events, queue, worker, log, start, phase>>
      BY <2>4 DEF ConstructTransGraph, SaveGraph, ViewVertex, BeamDiagnose, vars
    <3> QED BY <3>1, NothingVaries
  <2>5. CASE Exit
    BY <2>5, NothingVaries DEF Exit
  <2>6. CASE UNCHANGED allVars
    <3>1. UNCHANGED <<table, events, queue, worker, log, start, phase>>
      BY <2>6 DEF allVars, vars
    <3> QED BY <3>1, NothingVaries
  <2> QED BY <2>1, <2>2, <2>3, <2>4, <2>5, <2>6 DEF Next
<1> QED BY <1>1, <1>2, TableInvariant, IdentityInvariant, PTL DEF Spec

\* After the join all is as if the tasks had run one after the other, but for the
\* names of threads that look them up where they are being learned.
THEOREM ContestedHolds == Spec => []OnlyContestedNamesVary
<1>1. SameInv => OnlyContestedNamesVary
  BY DEF SameInv
<1> QED BY <1>1, SameInvariant, PTL
===============================================================================
