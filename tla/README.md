# Argus: a verification project

Argus reads a trace of a macOS system, cuts the events of every thread into
execution segments (*groups*), connects the groups by what the events say of
each other (messages, dispatched blocks, wake-ups, timers, ...) and searches the
resulting *event graph* for the cause of a performance anomaly. This directory
holds TLA+ models of the parts of that pipeline, the TLC configurations that
check them, and TLAPS proofs about them. Paths below are relative to `src/`;
`G/` stands for `src/src/GraphsGenerator/`.

## The system

| Component | State | Operations | Talks to |
|---|---|---|---|
| Parser pool (`src/src/Parser/para_parse.cpp`, `parser.cpp`) | one file and one parser per kind of record, merged event lists | split the trace, one parser per file in a pool, join, merge, sort | event parsers; gives `EventLists` to the groups |
| Event parsers (`src/src/Parser/*_parser.cpp`) | open system calls, open messages, open blocks by thread and context | decode one record, pair begin and end | parser pool |
| Groups pipeline (`G/group_init.cpp`, `group.cpp`) | lists per thread, groups by id, main and host groups, pool counters | sequential wait graph, four pool phases with a join after each: clean the thread lists, identify threads, connect, divide | parsers before, graphs after |
| Connectors (`G/Connectors/`) | peers of events (`event_peer`, `owner`, `consumer`, ...) | seven passes posted to one pool | read and write the events of all threads |
| Thread dividers (`G/Dividers/`) | current group, stack of open blocks, held wake-up and voucher, saved run-loop group | one handler per kind of event | one task per thread; result stored by thread id |
| Graph, node, edge (`G/graph.cpp`) | `nodes_map`, `edge_map`, `edges`, per-node edge maps and degrees | locked insertion, unlocked endpoints, look-ups | event graph, transaction graph, searches |
| Event graph (`G/eventgraph.cpp`) | the above and statistics | one task per node in a pool, join, weak edges, duplicates, completion | groups before, shell and searches after |
| Transaction graph (`G/transactiongraph.cpp`) | nodes found, work list, nodes of the main thread, end node | forward search from a root group, walk along the main thread | groups, shell |
| Searches (`src/utils/search_helper.cpp`, `beam_search.cpp`) | causal paths, beam, lookback, step | find the anomaly, expand, collapse, score, select, search from a baseline | a finished graph; canonization for similar nodes |
| Canonization (`src/src/Canonization`) | normalised groups | normalise, compare | searches |
| Shell (`src/shell/argus_loop.cpp`) | event graph, transaction graph, searcher | construct, view, save, diagnose | all of the above |
| Loader (`src/src/Loader/loader.cpp`) | `tpc_maps`: process id and name by thread | load from the map file, look a name up | the sequential pass and the cleaning tasks complete it without a lock |
| Tracing events, logging | records; vendored code | - | - |

What is hard here:

* *Concurrency.* Every pool phase shares objects. Most phases touch disjoint
  keys; the construction of the event graph does not: both ends of a connection
  propose the same edge, from two workers, and only the insertion is locked.
* *Order.* Dividers, connectors and searches rely on events sorted by time, on
  groups in the order of their ids, on passes in a fixed order.
* *Incomplete data.* A trace starts and ends anywhere and loses records. Begins
  without ends, wake-ups without the woken thread and events in no group occur.
* *Termination.* The search loops until no candidate is left.

What makes each part correct, in short: a *divider* puts every event in exactly
one group, keeps a block and a round of a run loop together, isolates dispatched
blocks, and leaves the groups in the order of time; the *event graph* has one edge
per connection, complete at both ends, whatever the interleaving; a *search*
returns maximal causal paths, loses no cause unless it pruned it by cost, and
ends; the *groups pipeline* numbers groups uniquely and pairs each wake-up with
one faked wake-up; a *connector* pairs each event at most once, in order of time;
a *transaction graph* holds what is reachable from its root; the *shell* uses no
graph after freeing what it points at. `PROJECT.json` lists the hazards line by
line, those that no property covers yet included.

## Modules

| Module | What it is |
|---|---|
| `EdgeTable` | what the construction promises: connections inserted one at a time, then published |
| `EventGraph` | the construction as the code does it; implements `EdgeTable` |
| `EventGraph_proofs` | two inductive invariants and the theorems on the edge table, the maps and `EdgeTable` |
| `WaitGraph` | the lists of events per thread: faked wake-ups, cleaning |
| `WaitGraph_proofs` | its inductive invariant and theorems |
| `ThreadDivider` | both dividers, one event of one thread per step |
| `ThreadDivider_proofs` | what each handler does to the groups, the inductive invariant and the theorems |
| `TransactionGraph` | the graph of one user-interface event |
| `TransactionGraph_proofs` | its inductive invariant, the levels of the reference, and the theorems |
| `BeamSearch` | the diagnosis over a finished graph |
| `BeamSearch_proofs` | its inductive invariant and theorems |
| `Connectors` | a traced system, and the seven connectors that tie its records |
| `Connectors_proofs` | the invariant of what is tied, that of the calls and that of the traps; theorems |
| `Parsers` | kernel operations, and the parsers that make one event of several records |
| `Parsers_proofs` | what each handler does to an open operation, the inductive invariant, and the theorems |
| `ProcessTable` | the table of processes and the unlocked tasks that complete it |
| `ArgusLoop` | the shell's commands; extends `ProcessTable`, a construction being one of these |
| `ArgusLoop_proofs` | the inductive invariants and the theorems about the shell and the table |
| `MC*` | the instances TLC checks |

Operators whose comment starts with "Mutant:" are plausible mistakes in the code
next to them. No specification uses them; they show that the properties would
notice.

### EventGraph

State: the phase of the main thread, the queue of the pool (`posted`, `taken`),
for each worker the node, event and proposals it is at, the holder of
`graph_edge_mtx`, the edge table, the maps and degrees of each node, the
statistics. A trace is the output of the earlier stages: groups, and events with
the peers the connectors gave them. The assumption `TraceOK` says what is relied
on.

Actions follow the code at the grain of what another thread can see: `Take` a
task, `NextEvent` (the switch of `add_edges` and what its handler proposes),
`Refuse` (the return when the source is later than the sink), `Lock` and `Scan`
of `check_and_add_edge`, `Insert`, and then, outside the lock, `Link`: the
endpoint, the map of the node and its degree. `Load` and `Store` are the unlocked
increment of `weak_mkrun_edge`. The main thread `Post`s, `Join`s, and runs
`AddWeakEdge` for one node after the other, `OptimizeMkrunEdges` and
`CompleteVertices`. `Link` is one step because a node's maps are written by the
worker that runs the node and by no other, and the endpoint it sets is written
by no other worker with another value (`EdgesAreStable`).

Two edges are equal when their events and their relation are
(`Edge::operator==`); an edge's address is its position in the table.

### WaitGraph

State: the trace and its position, the wake-up pending for each thread
(`waker`, `who_make_me_run_map`), the event each faked wake-up was inserted
before, the lists, and for each thread the state of its cleaning task: what it is about to
do, its iterator, the reverse iterator of `remove_sigprocessing_events`.
`Split` is one turn of `threads_wait_graph`. A turn of
`update_events_in_thread` is `Event`, then `Tsm`, then `Intr`, repeated as by the
`goto`; `Load` and `Store` are the unlocked increment of a counter; `SigSkip`,
`SigMatch` and `SigReturn` are the loops before a breakpoint, one turn a step.
`SigNull` and the first branch of `Store` follow the end of a list as if it held
an event: the standard libraries keep the size there, zero for an empty list, so
that a null is followed; before the first event of a list that is not empty
any outcome is possible, and the model stops there, too.

### ThreadDivider

State: the list of the thread as read so far, the divider object (`div`: current
group, stack of blocks, held wake-up and voucher, saved and interrupted groups,
result), the calls open in the traced thread (`frames`). `Record` and
`RecordRunLoopEnd` are the traced program: calls nest, and a `Lossy` trace may
lack ends. `RecordBlockEnd` adds the end of a block, paired with its begin by
thread and context as `DispatchParser` does. `Divide` is one turn of the loop of
`divide`, whole handler included; `Abort` the failing assertion; `Submit` the
end. Dividers of different threads share nothing that any of them writes, so one
thread is the whole story.

Peers are processes; a message is abstracted to the process it ties the group
to, whether the peer is known directly, and whether its group is a hook.

`Abort` is the build with assertions. `src/Makefile:17` defines `NDEBUG` on Linux;
there the divider goes on with the block that was on top.

### Connectors

First the system traced: `Record` writes one more record of what its kernel and
libraries allow next (a block is invoked after it was enqueued, a reply follows the
receipt, ...), `history` remembers with `causes` what really led to it, and some
records get lost. After `EndTrace` the connectors see what is left, and not `causes`.
All seven are in the pool at once: `Turn(p, i)` is the turn of pass `p` at the next
record it does more than remember; cancellations and callouts of timers are two
passes of one task. `LeaveLoop` is the walk of the run-loop connector left at the
first record of its list, `Abort` the assertion of core animation (families with
`asserts`), `Join` the end. The dictionaries a walk builds are functions of the
records it has passed and of what is connected, and are written so. A turn is one
step: different connectors write different fields of different records, and
`TypeOK` and the run over all at once keep to that.

The connector of blocks compares `Item`s. An enqueue has its context; an invocation has the -1
that its constructor sets and that nothing replaces, so `ConnectInvoke` finds no enqueue and a
turn of it changes nothing (`NoBlockTied` in the proofs, the run `Blocks`). What `EventGraph`,
`TransactionGraph` and `ThreadDivider` say of dispatched blocks is what their code does with
such a connection if a trace has one; with the connector as it is, none has.

### Parsers

The environment is the kernel: operations `Start` in a thread, may interrupt one
another, pass a message from one thread to another, and write their records
(`Record`), each of which the trace has or lacks; `Free` releases a message,
delivered or not. A message has a `header`: whether its number is that of a MIG routine and whether
it has a local port. State of the parser: the events made (`evs`, each with the
operations whose records it took) and those waiting for more (`open`). `mig` of an event
is the flag of its header: `set_msgh_id` sets it for a send, a middle record without a local port
resets it (`set_remote_local_ports`), and `FreeRecord` leaves a send alone while it is set. The
event of a receive gets another flag by other rules, which nothing modelled here reads. There is one
handler for each parser: messages, wake-ups, interrupts, block executions, calls,
backtraces (Apple's build only), application events, breakpoints. Parsers of different kinds
run in different tasks and share nothing, so a behaviour is about one of them. `open` is the
set of the events that a parser's table points at: one for a thread at most, but for blocks,
where begins pile up. `inside` is history: the operations of the thread that were open when this
one began. `FamiliesOK` says of the traces that a thread has one call, backtrace,
application event or breakpoint at a time, and which kinds have a record in the middle.

### ProcessTable and ArgusLoop

State of `ProcessTable`: `tpc_maps` (`table`), the process information of each event,
the threads whose tasks wait in the pool (`queue`; posted and taken in the order of
`tid_lists`, the least first) and the place of each worker in its task. `Begin` is what is
sequential: the map file is loaded over the table of the construction before
(`LoadTpcMaps`), the threads it lacks are entered with a null pointer (`Prepared`). A task
then is `Take`, `Enter`, `Find` (one entry of `pid2comm` a step), `Override`, and
for each event `UpdatePid` and `UpdateName`. A name copied while its owner assigns it
is the old one or `Torn`. `start` and `earlier` are history: the table at the start of
the pool, and the events of the first construction from each log.

`ArgusLoop` adds the shell: the event graph, the transaction graph and the searcher,
each named by the construction its groups come from, the groups `freed`, and the first
`misuse` of freed ones. One action for each command that makes, uses or
deletes one of the three, and `Exit` for the destructor. What happens
between the join of the cleaning and the finished graph is in the other modules.

### TransactionGraph

State: the walk (`cur`), the search (`work`), the groups that have a node
(`nodes`), those filed in the graph (`filed`), the nodes of the main thread, the end node,
the edges. The turns of `init_graph`'s loop are `Skip` (a group some search has
reached) and `Augment`, `Search`..., `Advance`; `Finish` is the end. `Search` is
one call of `BFS` with everything it calls, for any waiting node, since `search_node` is
hashed by address. `entry` records the event by which a node was entered, which fixes
which of its connections are followed. `Asserts` tells the builds apart.

### BeamSearch

State: the graph and the searcher's parameters, chosen at the start and never
changed, the paths, the phase and the step counter. `Start` is
`search_paths_to_node`; a round of `beam_search` is `Expand` (whole
`expand_paths`), `Prune` and `Test` (candidates left?); `SearchBaseline` starts
the second search; `NoBaseline` and `Return` are the exits of `init_diagnose`. A
lookback of zero divides by zero and stops the program. `EdgeVal`, `Penalty`,
`Collapse` and `Selected` are the pure functions the loop calls.

## What the runs show

| Run | Question | Answer |
|---|---|---|
| `EventGraph` | Is the finished graph that of the trace, whatever the interleaving of two workers? | Yes: no duplicate edge, exactly the connections (`EdgesAreTheConnections`), maps and degrees agree with them, endpoints complete, wake-ups have a source when `optimize_mkrun_edges` follows it. Edges never move or lose an endpoint. The construction ends, and it implements `EdgeTable`. |
| `WaitGraph` | Who gets a faked wake-up, and what does the cleaning of the lists leave? | The last wake-up since the thread ran, and only it. Lists stay in order but for events at one and the same time. The cleaning leaves a pair only at the head of a list or around another pair, an event without its process information only at the head; it ends, or follows a null in a list it has emptied, or before one that begins with a wake-up. The removal before a breakpoint comes back to it, whatever the trace lacks, and nothing else goes. Counters lose increments only to a race. |
| `WaitLeft` | Are all wake-ups by time-share maintenance removed, as the comment says? | No: see `WaitGraph`. |
| `Divider` | With nested blocks, waits, callouts, ties to peers, rounds of a run loop and lost ends: what do groups hold? | Every event once, but for a voucher or wake-up held back. Groups are stretches of the trace in order, but for the group of a round. A round stays together while rounds do not nest; ties to two processes mix only by a message, a cancelled timer or a wake-up held back. The assertion on the block stack fails exactly when an inner block lost its end (`EndsMatchTheStack`); what follows a wait joins its group only in a run-loop thread after a block that ended in another group (`WaitClosesGroup`). |
| `Connectors` | Is what gets connected what happened, and what does a lost record do? | It is, for every object no record of which was lost, but for blocks, which are never tied, a source signalled several times, a block performed again before it ran, and the run-loop list left at its first record. Whatever is lost, ends agree, kinds and keys fit, nothing is tied to a cause after it or, but for the answers to calls, crosswise; and with reply names of their own no exchange takes another's reply. |
| `Blocks` | Is an invocation of a block tied to its enqueue, as the comment where the connector is posted says? | No, never: the items that are compared are filled by different rules. |
| `ArgusLoop` | Does the table of processes depend on the interleaving of the tasks or on earlier constructions; which commands use freed groups? | A lookup meets a thread without an entry only while another worker is about to enter it. Only the name of a thread that looks it up where an earlier one is learning its own varies. What only another log tells, a thread has only where the map file does not tell it: its process from that log's events of the thread itself, its name from those of a thread of its process. Only `save graph` and `beam-diagnose` on a transaction graph older than the event graph use freed groups. |
| `LockFree` | Is the table ready for lock-free processing after the sequential pass, as the comment says? | No: see `ArgusLoop`. |
| `Parsers` | Which operations become whole events when threads interleave and records are lost? | Every one whose records are all there, but for the cases `WholeOperations` lists: each parser has its own way in which a lost record damages another operation. A send is marked undelivered if it is, except a MIG send with a local port, which is marked only when another operation of its thread reset the flag; a delivered one only if its address was used again and no operation there since left a begin and an end. |
| `TransactionGraph` | Does the graph hold what its root leads to, in every order of the search? | It holds nothing else. It may miss a group, but then some node was entered by a later event than possible and its earlier connections were not followed. A null is followed when a connection leads to an event in no group, or when the root is not on the known main thread. |
| `TransactionFiled` | Is a node filed in the graph, as the assertion around the call says? | Not where assertions are compiled out. |
| `BeamSearch` | Are the paths causal, maximal, complete up to pruning by cost, and does the search end? | Yes, on graphs without a cycle of weak edges and without a user-interface event that has causes; those two are the exceptions `SearchEnds` and `ResultIsMaximal` state. |

Met while modelling, without a run of their own: `collapse_edges` keeps the earliest of the edges
with the same ends, while `utils/search_helper.hpp:44` says the latest; `out_edges` is keyed by the sink
event where the sink's worker allocated the edge, while
`include/GraphsGenerator/graph.hpp:66` says source event; `add_weak_edge` adds the
edges between groups of unlike call stacks that its comment calls invalid; the
search of `TransactionGraph`, called `BFS`, takes waiting nodes in the order of a
hash map. The divider's assertion (`G/Dividers/divide_with_disptch.cpp:36`) and the
comment on waits (`G/Dividers/divide_with_wait.cpp:40`) fail in the cases that
`EndsMatchTheStack` and `WaitClosesGroup` state. After an event graph is constructed
again, `view graphs` still lists a transaction graph whose groups are gone. In
`search_ipc_msg` (`G/Connectors/msg_pattern.cpp`) the first candidate receive decides
process and port name for all, before the times are compared: an earlier receive
that nothing matched can keep a request from its own. An odd number of lost
breakpoint records turns every later begin of that thread into an end. After an
interrupt lost its end the parser refuses the thread's next interrupts until an end with
the same number. The host and main groups that `group_init.cpp` identifies are never
read. After two losses the answer to one call may be taken for that to an
earlier one, and answers be tied crosswise: `search_ipc_msg` takes the first message after the
request that fits by process and port names. The table of operation codes leads no record to `CA_DISPLAY` or to the assembly of
image paths in `src/src/Parser/backtrace_parser.cpp`: the connector of layers sees displays
only with a table that has one, and the paths come from a file.

### Bounds

* `EventGraph`: two workers and three traces of 9 to 14 events. Two workers
  suffice for every conflict, since a connection has two ends and each handler
  makes its proposals in sequence. The traces hold every kind of connection, chained
  and answered messages, one consumer with two owners, wake-ups weak, late,
  doubled and without the woken thread, and all the endings that suppress a weak
  edge.
* `WaitGraph`: all traces of up to three events of two threads, with ties of time,
  all of up to five of one thread, and one in which two tasks erase a pair each at
  once. Two pairs, one inside or after the other, are four events; the cleaning
  looks one event ahead and goes back one. Before a breakpoint: every subset
  of eight of the fourteen events there.
* `TransactionGraph`: eight groups on four threads, every subset of six
  connections beside four fixed ones, one of which goes back in time, groups cut or
  not, main thread known or not, every root. A node that is entered early or late needs two
  paths to one group, a crash one connection, the walk three groups.
* `ThreadDivider`: five families of threads (`MCThreads`), of five or six events
  each, all sequences of the inputs of the question. The defects above need five or six;
  the handlers look at the current group, the top of the stack and the last event,
  so longer traces repeat what short ones reach.
* `Connectors`: a family of traces for each connector, of four to six records of one
  or two keys and with one loss at most, one family with three connectors at once, and two of
  calls with twelve records and two losses. Twelve records are three calls of a thread, the
  least in which two losses tie answers crosswise; the others need at most a cause and an
  effect more than the pair in question, which is four.
* `ArgusLoop`: three workers (interchangeable, hence the symmetry), two logs, up to
  three constructions (one log, another, the first again), eight threads of which
  three are not in the map file; of those one gets its name in the other log and
  passes it on within its process, and one of the file gets its process there. A race over an entry takes two workers; the third
  shows that nothing more comes of more. `LockFree` needs one construction and two workers.
* `Parsers`: three or four operations with two or more losses; two threads where they
  meet, one where the parser looks at each thread alone. Messages have a local port and no MIG
  number in the longer families and every header in three of two or three operations, the least in
  which one message's record resets the flag of another. An address used twice is four
  message operations; three nested executions are the deepest disturbance.
* `BeamSearch`: every subset of nine edges over four nodes that holds parallel
  edges, a tie, an edge at its deadline and weak edges that close a cycle. Beams
  -1 to 2, lookbacks 0 to 2, two pairs of weights for the fields the
  constructor leaves uninitialised. `MaxLen` = 5 bounds the paths, which only a cycle of
  weak edges makes longer than four; a search stops there, hence
  `CHECK_DEADLOCK FALSE`.

### Fairness

`EventGraph!FairSpec`: weak fairness of the main thread and of each worker. The
pool's threads are kernel threads that run when they can, and a worker never waits while
holding the mutex; weak fairness for taking the mutex is enough because the
table is locked a bounded number of times. `WaitGraph!FairSpec` assumes the
same of the main thread and of each task. `BeamSearch!FairSpec`: one thread
that goes on. No fairness is assumed of the traced program, nor of the user of the
shell; the tasks of `ProcessTable`, `Connectors` and `Parsers` are loops over lists that
nothing lengthens, and their runs are about safety. `CHECK_DEADLOCK FALSE` in the runs of
`ArgusLoop` and `Parsers`: the shell exits, crashes or is at the bound of constructions, and
a trace ends.

## What is proved

`EventGraph_proofs` proves, for every set of workers, every set of events and
every family of traces that satisfies `TraceOK`:

* `TypeCorrect`: `TypeOK` - every node, edge and event that a worker or a map
  refers to exists.
* `TableHasNoDuplicates`: no two edges of the table are equal.
* `EndpointsAreComplete`: after the completion, the endpoints of an edge are the
  nodes of its events where these have one. In particular
  an edge that the pass skips because one of its events is in no group still has its other
  endpoint.
* `TableIsStable`: an edge keeps its place, its events and every endpoint set.

The invariant is `IInv == TypeOK /\ WorkersOK /\ EdgesOK /\ NoDuplicateEdges /\
PoolJoined /\ EndpointsComplete`. `NoDuplicateEdges` alone is not inductive:
`Insert` needs that the worker holds the lock and that what it `Scan`ned is still all
there is (`WorkersOK`: exclusion, and the result of the search stays
true while the lock is held). `EndpointsComplete` needs that every edge has been
filed under at least one of its ends with that end's node (`EdgesOK`; an edge
just inserted is excused while its worker is at `Link`), and that no worker is
at work after the join (`PoolJoined`). Each action's step is a lemma; the theorem
`InvariantHolds` collects them. The assumptions are those of the module: the free
lock is no worker, null is no event, and `TraceOK`.

Its second part goes on from `IInv`, under the same assumptions:

* `FinishedGraph`: `EdgesAreTheConnections` - the finished table and every map of every
  node hold exactly what the trace asks for, and the counters are right.
* `WakeupsAreSourced`: `WakeupsHaveSource` - after the join no wake-up edge lacks its
  source node.
* `ImplementsTheTable`: `Spec => Table!SafeSpec` - the refinement without its liveness.
  `TableWhenBuilt` adds it where the construction ends; that it ends is `FairSpec`'s
  matter and TLC's.

The invariant `FInv` follows the walk over the groups. `Left(n)` is what nobody has proposed
yet for node `n`: the whole walk before its task is taken, then what is left to the
one worker that has the node. `Made(n)` is the rest, as far as it goes forward in time, with
the weak edge. `WalksInv`: a worker makes the proposals of its event once each.
`MapsInv`: a map holds exactly what is `Made` for its side, and the counter its number; for
this a proposal may not be filed twice, hence what `TraceOK` says of repetitions: a
group holds an event once (a theorem of `ThreadDivider`) and a display lists a layer once,
so that an event never makes the same proposal twice (`ProposalsAreOwn`). `AreWanted`: no
edge is invented. When all is made, `MadeKeys` is what the property asks for. A
wake-up edge that the worker of the faked wake-up allocated has no source at first; but the
faked wake-up and the wake-up are each other's peers, so the wake-up's own worker proposes
the same edge as an outgoing one, and whatever is filed in `out_edges` has its source.

`ArgusLoop_proofs` proves, for any number of workers, logs, threads and constructions:

* `GroupsAreLeft`: `DeletedGroupsAreLeft` - groups are deleted once and by their owner,
  and freed ones are only touched by saving or searching a transaction graph older
  than the event graph.

Its invariant `ShellInv` says which construction each pointer can be from in each
phase: at the prompt the event graph is the last construction and everything before it is
freed, during a construction there is none. `DeletedGroupsAreLeft` alone is not
inductive, since it does not say that a transaction graph is never from the future. The
tasks of the pool enter by a single lemma: they change neither the shell nor, but
for a crash, the phase.

and, with the trace's names in `Names` and the free value `Null` no information:

* `OnlyEnteringMissed`: `OnlyEnteringThreadsAreMissed` - a lookup meets a thread without
  information only between the taking of that thread's task and its entry, and only a
  lower thread.
* `TableTypeCorrect`: `TypeOK` of `ProcessTable`.
* `IdentityHolds`: `IdentityAcrossBuilds` - constructing again gives no event another
  process or less of a name; `IdentityInvariant`: its inductive invariant.

* `ContestedHolds`: `OnlyContestedNamesVary` - after the join every entry and event is what the
  tasks one after the other give, but of a thread that looks its name up while an earlier
  one of its process is learning its own; `SameInvariant`: its inductive invariant.

All are of `ArgusLoop`'s `Spec`, so over any sequence of commands. The invariant is
`TableInv == DataInv /\ WorkersInv /\ EntriesInv /\ PoolInv`. The argument: a task that
runs was taken before all that wait, so its thread is below every thread in the queue
(`TaskOK`); its search starts at the least key and stops at its own entry, which is of its
own process, so it never passes its own thread; an entry without information is that
of a thread in the queue or of a worker at `Enter` (`EntriesInv`); hence the entry that it
meets is the latter. That the loading of the map file never leaves an entry without what
it had is a fact about a recursive function, proved by a least counterexample.

`IdentityAcrossBuilds` compares what one log's events say after two constructions, so its
invariant `IdentityInv` has to remember. `EventsInv` says what a task has done with each of
its events: before it, the event says what the log does; afterwards, its entry knows what it
has learned (`Says`). An entry only improves (`Improves`), and this holds over a reload too,
since the entry of a thread that the map file knows never has another process (`FileInv`).
So `EarlierInv` keeps `Says` for the events of every earlier construction. `NamedBy` says
what a task's name comes to without a look at the entry. `TasksInv` is that a thread has one
task, and that a thread of the file looks its name up in the first construction only.
`OriginInv` says where each process id and name comes from: the log, the files, or an earlier
log's events of the thread or of its process (`Kin`).

`OnlyContestedNamesVary` compares with `Before`, a fold over the threads in the order of their
keys, so its invariant `SameInv` compares each step. What the fold has of a thread's entry is
what that thread's own turn gives, as no turn writes another's entry; the turn itself is a
recursive function of the entry at its start. Both come by least counterexample. `StartInv` and
`SameWork` then say of each task how far its entry and its events are along its turn: the process
always (`Alike`), the name unless it is contested. The step that matters is a search (`Find`)
that is not contested: an entry that it meets may be ahead of the fold or behind, but then its
thread is one that learns nothing that the search could copy.

`WaitGraph_proofs` proves, for every family of traces that satisfies the module's
assumption and for any number of threads:

* `LastWakerHolds`: `LastWakerWins` - a thread's last wake-up since it ran, and no other,
  has a faked wake-up before the thread's next event.
* `OrderHolds`: `InOrder` - the lists stay in the order of time, but for a faked
  wake-up beside events at the time of the one it was inserted for.
* `CrashesAreKnown`: `CrashesOnly` - where the iterators leave a list.
* `TypeCorrect`: `TypeOK` - otherwise they are in the list they walk.
* `CleaningIsHeld`: `CleaningIsExact` - what the cleaning removes (`NothingElseGoes`),
  where it leaves a pair, that it completes the process information, what it counts.

The invariant has three parts: `SplitInv` ties the pending wake-ups to the part of the trace
that was read: a thread's pending wake-up is the newest since the thread ran, and what is filed
is an event of that part or a faked wake-up before one. `ListsInv` says that the lists hold
nothing else, and everything before the cleaning begins. `TasksInv` says where the iterators
of each task may be at each of its steps, which `TypeOK` needs because an erasure moves what
is behind it. `LastWakerWins` and `InOrder` themselves complete it.

`CleaningIsExact` needs three invariants more. `OwnInv`: a list holds events of its thread in
the order of `all`, so that two events between which one was erased were no neighbours there.
`DoneInv`: how far each task is, that is, up to which position of its list the process
information is complete and no pair is left; an erasure behind the iterator makes at most one
new pair, of events that were apart. With a breakpoint the iterator comes back to the place
of the same event (`Here`). `CountInv`: a counter is at most the number of erasures less the
threads that have erased and not yet counted, and equal to it if one thread erases alone; for
then no second thread can be between its load and its store (`Alone` for a pool of one thread,
else the history of erasures). It counts threads, so the module assumes that they are finitely many,
as the threads of a trace are. A crash ends the counting: it comes after the counter is
stored and before the task goes on.

`ThreadDivider_proofs` proves every property of the run `Divider`, for every set of kinds
of threads, of processes, and every list of events of any length: `EventsArePartitioned`,
`SegmentsStayApart`, `TiesStayTogether`, `RoundsStayTogether`, `AbortsOnLostEnds`,
`WaitsCloseGroups` and `TypeCorrect`. Its first part
reduces the twelve handlers to one statement (`FilingEffect`): an event that is not held
back goes to one group `t`, with the wake-up held and at most the voucher (`Filing`); `t` is
the group that the kind of event makes current, or a new one (`Moving`); what `t` is
tied to (`Tying`), and the stack and the levels (`Stacking`). The invariant speaks of
the divider object after `n` events, and its parts are those that the properties need:

* `PlaceInv`: what is held back is in no group and only held events follow it. Without
  it a released wake-up could be a duplicate.
* `StackInv`: the stack is the set of blocks that have begun and not ended, in order.
* `LevelInv`: the level of a group is the number of open blocks that began in it. Only at
  least that number in a run-loop thread once a block ended in another group
  (`LevelDown` skips it): this is the exception in `WaitClosesGroup`.
* `OrderInv`: the current group is none, the last or that of the round. So events
  are only added to the end, or to the group of a round.
* `SegmentInv`, `BorderInv`: the group of a head is not current once its end is
  seen, and never that of a round.
* `TieInv`, `RoundInv`, `DoneInv`: ties that the group records; a round that may still end
  is in the group saved, unless another began.

`FramesInv` says of the traced program what `Record` and its like build: calls nest, ends
follow their beginnings and a call ends once.

`TransactionGraph_proofs` proves every property of the run `TransactionGraph`, for every family
of traces that satisfies `TraceOK`, every root and every order in which `search_node` is
emptied:

* `Reachable`: `NodesAreReachable` - every node is reached from a group of the walk along
  connections that never go back within a group.
* `MissesOnlyLateEntries`: `CompleteUnlessEnteredLate` - a finished graph without a
  node entered late has every reachable group.
* `CrashesAreKnown`: `CrashesOnly`; `TypeCorrect`: `TypeOK`.
* `FiledWhereAssertsAre`: `NodesAreFiled` where assert is compiled in. The run
  `TransactionFiled` refutes it for the build with `NDEBUG`, which is thus the only cause.

The invariant: `WalkInv` keeps the walk on the thread of the root, and says that nothing waits
between two searches; with `MainInv`, `main_nodes` being exactly the nodes of the main thread,
it shows that the group before the current one is found there. `EdgesInv` says that what was
proposed leads to nodes, to the next application event or back to its own group, and that every
node that does not wait has been expanded in full: without it `Search`, which follows only
edges that are new to the table, could leave a group out because another had proposed the edge.
For `Reachable`, `DepthInv` says that a node is reached in fewer steps than there are nodes;
`Reach` takes as many steps as there are groups. The facts about its levels come by
least counterexample. `TraceOK` assumes of a trace that each event is once in the
group it names (`GroupsPartitionEvents` of `ThreadDivider`), that a group is next to one
group at most, of its thread (ids are counted up), and that peers are events or null.

`BeamSearch_proofs` proves every invariant of the run `BeamSearch`, for every family of finite
graphs and all beams, lookbacks and weights (`MaxLen` bounds the paths in the model only):

* `CausalPaths`: `PathsAreCausal` - a path is a chain of causes back from the node searched
  for, its score the sum of its penalties.
* `MaximalResult`: `ResultIsMaximal` - a search stops only when no path has an earlier cause
  left, with no more paths than the beam.
* `EveryCauseFound`: `AllCausesFound` - an unpruned search finds no node that is on no
  chain, and all that are unless parallel edges collapse.

`PathsInv` says of each path that it is one. `Expand` keeps it because what it appends is a
cause of the last edge, and `Prune` because what it selects is among the candidates: that
the ranks by score are a bijection, so that a sorted list has neither gaps nor two paths in one
place, is by counting those before each. `CompleteInv` is what makes `AllCausesFound`
inductive: while nothing is pruned, every edge from which a chain starts is on some path, and
the causes of every edge on a path are on a path, too, unless a path still ends in that edge.
When no path has a candidate left, the edges on paths are closed under causes, and contain
`OnChains`, whose levels grow at most as often as there are edges.

`Connectors_proofs` proves four of the five invariants of the run `Connectors`, for every family
of traces (any length, any keys, any number of losses) and every interleaving of the passes:

* `TypesHold`: `TypeOK` - nothing lost is tied, and a walk stays in its list.
* `TiesAreMutual`: `PairsAreMutual` - both ends agree, kinds and keys fit, causes come first,
  no timer is cancelled and called, and nothing but an answer is tied crosswise.
* `EpisodesHold`: `EpisodesAreOfOneRequest` - with reply names of their own, the reply that
  continues an episode is the reply to its request.
* `ReadsAreAnswered`: `ReadsTakeTheirWrites` - a read has the write that it answers.

`PairsAreMutual` speaks of the end only. In between, a part of each walk is done, and
`Tied(f, m)` says what holds of the fields `f` when pass `p` has come to `m[p]`: the two
ends agree at every step (`Mutual`); what a pass has not come to is untied (`Fresh`); timers are
called after the last cancellation was walked (`NoCallYet`), otherwise a late cancellation would
take its timer from a callout; messages not visited are free and outside of the pairs
(`MessagesFree`), which keeps the next match from crossing them; most effects have the last cause
before them (`Recent`), so they do not cross (`NoCross`). No enqueue has the item of an invocation, so
the turns of blocks change nothing (`NoBlockTied`) and no block is tied at any step. Each pass is a lemma of its own; `Untouched` and `SameTies` carry over what it does not
write.

The other two need the traced system, which `Tied` does not mention. `CallsInv` counts: a thread
has at most one call open, requests and receives alternate, and a reply is the effect of the
last receive before it. So a receive and a reply of one thread and one reply name belong to one
call, and `NextInv` says that the name is all the connector looks at. For the traps `UnreadUpTo`
is what no read has answered up to a record; `TrapHist` ties `causes` to it, and `TakenUpTo`
says that `prev_writes` holds it, in order, when the walk has come there. `TrapHist` needs that a
variable flips, `TakenUpTo` that no trap is lost and none has two variables, the hypotheses of the
property. The assumption on a family (`InputsOK`) is on the data of its records: keys are
numbers, those of the threads that call positive, a trap writes 0 or 1, and posts share one key.

`Parsers_proofs` proves both invariants of the run `Parsers`, for every family that satisfies
`FamiliesOK` (any number of threads, keys, operations and losses, and messages, wake-ups,
interrupts and blocks nested to any depth):

* `WholeHolds`: `WholeOperations` - an operation whose records are all there becomes one event
  with its own data and end, and no event takes a record of it, but for the disturbances listed.
* `FreedHolds`: `FreedMeansUndelivered` - which sends are taken for undelivered, and that a MIG
  send is one of them only after its flag was reset.

`WholeOperations` speaks of operations that are complete, and so says nothing of one in
progress: a record could find any table. The invariant is `KernelInv /\ EventsInv /\ WholeInv /\
SinceInv /\ MessageInv`. `KernelInv` is about the kernel: how many records of an operation there
are, and that the open operations of a thread are one inside the other, so that the record
that comes next is of the innermost. `EventsInv` is what the tables have in common: an event
waits for its thread alone, and only for records that did not come. `WholeInv` is the
property with its missing half: an operation that is open and not disturbed so far (`Calm`) waits
in the table with just what it has sent. A block has to be treated apart, since one inside it
looks half lost until its end has come. `SinceInv` reads each table backwards: what an event that
still waits says of the records since. An interrupt waits only if no end of its number
came (hence the next is refused), a call without all its arguments lost one, after a backtrace
nothing of the thread came but of the same tag, after an application event nothing at all,
and a breakpoint waits exactly if the number of records lost in the thread is odd, which is
a count over the thread's operations. For the marks, `AddressInv`: the kernel has one message
at an address; and `FreedInv`: the latest event at an address is of the message released
unless that one left none, since events are only deleted with their message. `MigInv`: a send of a
MIG number keeps its flag until a middle record of its thread without a local port is applied
to its event, which is its own or, where a begin or an end was lost, that of another operation
later or around it (`MayTell`). `MarksInv`: at the release of a send that was not received it
is marked or still flagged, and what a mark says of the address stays true.

Left to TLC, because out of the prover's reach: liveness and `ENABLED`, that is, that the
construction, the cleaning and the search end. Left to TLC, too: `ConnectsWhatHappened`, for
which the invariants of calls and traps would have to be repeated for the causes of each
other kind of record.

## Plan

Done: all modules of the table above and the proofs about `EventGraph`, `WaitGraph`,
`ThreadDivider`, `TransactionGraph`, `BeamSearch`, `Connectors`, `Parsers`, `ProcessTable` and
`ArgusLoop`. What is left:

1. Proofs: what really happened for connectors other than calls and traps.
2. `Canonization` as pure operators, the choice of the anomaly and the look-up of similar
   nodes, joined to `BeamSearch`.

## Not modelled, and why

* Vendored code: the debugger's headers in `lldbHeaders` and the logging in
  `utils/loguru.*` are most of the lines of the repository (and hold no logic of Argus).
* Decoding of lines, formatting, printing, and statistics that nothing reads. Argus's own
  lines are for a great part these: the output of every kind of event, the options and the
  printing of the shell, the reading of each field of a record.
* Canonization: comparisons of strings and attributes without state, on data the models
  abstract. Symbolication: it asks the debugger's library.
* The parser pool: it splits the trace into files, one for each kind, and its tasks share
  nothing; a malformed line is outside of what the traces hold.
* In the connectors: messages of MIG and run-loop source 1, whose functions nothing calls,
  and the patterns of messages from a file, which replace the matching when there is
  such a file.
* In the groups pipeline: the names of processes that vouchers ask for after the join, the
  identification of the main and host threads (nothing reads it), the collection of
  the groups by id, in which ids of one thread meet another's only after 2^20 groups.
* In the parsers: image paths (see above), a call with no arguments at all, the table of MIG numbers (a
  message has such a number or not), and system calls paired with waits (no group depends on them).
* In the search: edges without a source node. `complete_vertices_for_edges` skips an edge one of
  whose events is in no group (`EndpointsComplete`), as may happen to a wake-up that was erased
  before a breakpoint; the search would dereference its null end. `GraphOK` assumes that the
  graph has none, so the results on `BeamSearch` are about graphs whose edges have both ends.
* Memory exhaustion, except where the code reads freed or uninitialised memory.
* Options of the shell that change no graph.
