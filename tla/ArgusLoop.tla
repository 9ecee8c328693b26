------------------------------ MODULE ArgusLoop ------------------------------
(* The commands of the shell that make, use and delete the graphs and the   *)
(* searcher. A Groups object, with the groups and events that the nodes of  *)
(* a graph point at, is named by the number of the construction it comes    *)
(* from: the event graph owns it, a transaction graph only refers to it.    *)
(* A construction is the one of ProcessTable; what happens between its join *)
(* and the finished graph is in the other modules.                          *)
EXTENDS ProcessTable

CONSTANT MaxBuilds      \* bound: constructions of an event graph

VARIABLES
  builds,       \* constructions so far
  eventGraph,   \* the Groups of the event graph, 0 for a null pointer
  transGraph,   \* the Groups that the transaction graph refers to, or 0
  bsearch,      \* the Groups of the graph the searcher was made for, or 0
  freed,        \* the Groups deleted
  misuse        \* "none", or how freed memory was first touched

shellVars == <<builds, eventGraph, transGraph, bsearch, freed, misuse>>
allVars == <<vars, shellVars>>

ASSUME MaxBuildsOK == MaxBuilds \in Nat

InitShell ==
  /\ Init
  /\ builds = 0 /\ eventGraph = 0 /\ transGraph = 0 /\ bsearch = 0
  /\ freed = {} /\ misuse = "none"

\* The prompt: no command is under way, and nothing undefined has happened.
Prompt == phase = "idle" /\ misuse = "none" /\ UNCHANGED log

Touch(g, how) == IF g \in freed THEN how ELSE "none"

\* construct event-graph, with a file that can be read: one that cannot is
\* given up before anything is deleted.
ConstructEventGraph(l) ==
  /\ misuse = "none" /\ builds < MaxBuilds
  /\ Begin(l)
  /\ builds' = builds + 1
  /\ freed' = freed \cup ({eventGraph} \ {0})
  /\ misuse' = Touch(eventGraph, "delete")
  /\ eventGraph' = 0
  /\ UNCHANGED <<transGraph, bsearch>>

Constructed ==
  /\ Join
  /\ eventGraph' = builds
  /\ UNCHANGED <<builds, transGraph, bsearch, freed, misuse>>

\* construct trans-graph: it needs the event graph to have the root's node.
ConstructTransGraph ==
  /\ Prompt /\ eventGraph # 0
  /\ transGraph' = eventGraph
  /\ misuse' = Touch(eventGraph, "construct")
  /\ UNCHANGED <<vars, builds, eventGraph, bsearch, freed>>

Graphs == {eventGraph, transGraph} \ {0}

\* save graph writes the events of the nodes' groups.
SaveGraph ==
  /\ Prompt
  /\ \E g \in Graphs : misuse' = Touch(g, "save")
  /\ UNCHANGED <<vars, builds, eventGraph, transGraph, bsearch, freed>>

\* view vertex and view event-at work on the event graph only.
ViewVertex ==
  /\ Prompt /\ eventGraph # 0
  /\ misuse' = Touch(eventGraph, "view")
  /\ UNCHANGED <<vars, builds, eventGraph, transGraph, bsearch, freed>>

\* Mutant: a searcher that is there is run again.
BeamDiagnose_Again ==
  /\ Prompt
  /\ \E g \in Graphs :
       /\ bsearch' = IF bsearch = 0 THEN g ELSE bsearch
       /\ misuse' = Touch(bsearch', "diagnose")
  /\ UNCHANGED <<vars, builds, eventGraph, transGraph, freed>>

\* beam-diagnose deletes the searcher, makes a new one and runs it. What a
\* searcher holds is not touched when it is deleted.
BeamDiagnose ==
  /\ Prompt
  /\ \E g \in Graphs : bsearch' = g /\ misuse' = Touch(g, "diagnose")
  /\ UNCHANGED <<vars, builds, eventGraph, transGraph, freed>>

\* The destructor, after exit: the transaction graph, the event graph and the
\* searcher are deleted; of the three only the event graph deletes groups.
Exit ==
  /\ phase = "idle" /\ misuse = "none"
  /\ phase' = "exited"
  /\ transGraph' = 0 /\ eventGraph' = 0 /\ bsearch' = 0
  /\ freed' = freed \cup ({eventGraph} \ {0})
  /\ misuse' = Touch(eventGraph, "delete")
  /\ UNCHANGED <<table, events, queue, worker, log, start, earlier, builds>>

Next ==
  \/ \E l \in Logs : ConstructEventGraph(l)
  \/ \E w \in Workers : Task(w) /\ UNCHANGED shellVars
  \/ Constructed
  \/ ConstructTransGraph \/ SaveGraph \/ ViewVertex \/ BeamDiagnose
  \/ Exit

Spec == InitShell /\ [][Next]_allVars

-----------------------------------------------------------------------------
(* Properties *)

\* The groups of every construction but the one of the event graph at hand
\* have been deleted, those of no construction twice, and a command touches
\* deleted groups only through a transaction graph made before the last
\* construction of the event graph, by saving it or searching it: nothing else
\* of the shell does, its end included. About the commands and ~ArgusLoop.
DeletedGroupsAreLeft ==
  /\ phase \in {"idle", "exited"} => (1 .. builds) \ freed = {eventGraph} \ {0}
  /\ misuse # "none" => /\ misuse \in {"save", "diagnose"}
                        /\ transGraph \in freed /\ transGraph < eventGraph
=============================================================================
