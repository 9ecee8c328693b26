------------------------------ MODULE BeamSearch ------------------------------
(***************************************************************************)
(* The search for causal paths and the diagnosis that runs it              *)
(* (src/utils/beam_search.cpp, src/utils/search_helper.cpp).               *)
(*                                                                         *)
(* init_diagnose first searches backwards from the anomaly node; then, if  *)
(* a baseline node was found, it searches backwards from the edge that     *)
(* woke its thread.  A path is a sequence of edges, the effect first; the  *)
(* end of a path is extended by the edges that came into its last node     *)
(* before the last edge left it.  Every lookback steps, and at the end,    *)
(* only the cheapest `beam` paths are kept.                                *)
(*                                                                         *)
(* The graph is finished when the search reads it: its edges have both     *)
(* endpoints.  Left out: which node is the anomaly and which nodes are     *)
(* similar to it, the comparison of the paths found, printing.             *)
(***************************************************************************)
EXTENDS Integers, Sequences, FiniteSets, SequencesExt

CONSTANTS Graphs,      \* the graphs that may be searched
          Beams,       \* arguments of beam-diagnose: the width of the beam, ...
          Lookbacks,   \* ... the number of steps between two selections
          Weights,     \* pairs <<a, b>>: the fields a and b of BeamSearcher
          MaxLen       \* bound: the length of a path

NoEdge == 0

VARIABLES
  graph,   \* the graph, the anomaly node and the wake-up edges of baselines
  config,  \* the searcher: beam, lookback, a and b
  mode,    \* "anomaly", then "baseline"
  phase,   \* what the searcher does next
  paths,   \* causal_paths
  steps    \* steps of beam_search, modulo lookback

vars == <<graph, config, mode, phase, paths, steps>>

EdgeIds == DOMAIN graph.edges
Edge(i) == graph.edges[i]

\* An edge leaves its source at the time of e_from and enters its sink at that
\* of e_to, not earlier: Node::add_in_edge refuses the others.
GraphOK(g) ==
  /\ NoEdge \notin DOMAIN g.edges /\ IsFiniteSet(DOMAIN g.edges)
  /\ \A i \in DOMAIN g.edges :
       LET e == g.edges[i] IN
       /\ e.from \in Nat /\ e.to \in Nat /\ e.weak \in BOOLEAN
       /\ e.sent \in Nat /\ e.got \in Nat /\ e.sent <= e.got
  /\ g.root \in Nat /\ g.deadline \in Nat
  /\ g.ui \subseteq Nat /\ g.wakes \subseteq DOMAIN g.edges \cup {NoEdge}

ASSUME SearchAssumption ==
  /\ \A g \in Graphs : GraphOK(g)
  /\ Beams \subseteq Int /\ Lookbacks \subseteq Nat /\ MaxLen \in Nat
  /\ \A w \in Weights : w[1] \in Int /\ w[2] \in Int

-----------------------------------------------------------------------------
(* The incoming edges of a node.                                           *)

(* get_incoming_edges_before: weak edges have no deadline.                 *)
Earlier(n, time) ==
  {i \in EdgeIds : /\ Edge(i).to = n /\ Edge(i).from # n
                   /\ Edge(i).weak \/ Edge(i).got < time}

Sources(es) == {Edge(i).from : i \in es}

(* collapse_edges: one edge for each source, in the order of group ids.    *)
(* The edges come sorted by decreasing time of arrival and overwrite each  *)
(* other, so the earliest stays; which of two with the same time is open,  *)
(* for std::sort is not stable.                                            *)
Collapse(es) ==
  {s \in [1 .. Cardinality(Sources(es)) -> es] :
     /\ \A j, k \in DOMAIN s : j < k => Edge(s[j]).from < Edge(s[k]).from
     /\ \A k \in DOMAIN s, j \in es :
          Edge(j).from = Edge(s[k]).from => Edge(s[k]).got <= Edge(j).got}

-----------------------------------------------------------------------------
(* Paths.                                                                  *)

\* penalty_func and edge_val: only wake-ups have weak edges among in_weak_edges.
EdgeVal(i) == IF Edge(i).weak THEN 1 ELSE -1
Penalty(i) == config.a * EdgeVal(i) + config.b

NewPath(i)    == [edges |-> <<i>>, score |-> Penalty(i)]
Extend(p, i)  == [edges |-> Append(p.edges, i), score |-> p.score + Penalty(i)]
LastNode(p)   == Edge(Last(p.edges)).from
CausesOf(i)   == Earlier(Edge(i).from, Edge(i).sent)
Causes(p)     == CausesOf(Last(p.edges))

\* Mutant: a path that cannot be extended is forgotten.
Expansions_Forget(p) ==
  {[k \in DOMAIN es |-> Extend(p, es[k])] : es \in Collapse(Causes(p))}

\* What expand_paths puts in the place of a path.
Expansions(p) ==
  IF Causes(p) = {} \/ LastNode(p) \in graph.ui THEN {<<p>>}
  ELSE {[k \in DOMAIN es |-> Extend(p, es[k])] : es \in Collapse(Causes(p))}

\* The lists expand_paths can make of the first k of causal_paths, and of all.
Joined(lists, news) == UNION {{ps \o new : new \in news} : ps \in lists}
Lists ==
  LET lists[k \in 0 .. Len(paths)] ==
        IF k = 0 THEN {<<>>} ELSE Joined(lists[k - 1], Expansions(paths[k]))
  IN  lists
Expanded == Lists[Len(paths)]

\* The size is compared as unsigned: a negative beam never overflows.
TooMany == config.beam >= 0 /\ Len(paths) > config.beam

(* select_paths: a stable sort, then pop_back down to the beam.            *)
Cheaper(i, j) == \/ paths[i].score < paths[j].score
                 \/ paths[i].score = paths[j].score /\ i < j
Rank(i)  == Cardinality({j \in DOMAIN paths : Cheaper(j, i)}) + 1
Selected == [k \in 1 .. config.beam |-> paths[CHOOSE i \in DOMAIN paths : Rank(i) = k]]

\* Mutants: only the first path is looked at; the paths are counted, not their causes.
CandidatesLeft_First == paths # <<>> /\ Causes(Head(paths)) # {}
CandidatesLeft_Paths == paths # <<>>

\* calculate_candidates() > 0; ui_nodes, which it skips, is always empty.
CandidatesLeft == \E k \in DOMAIN paths : Causes(paths[k]) # {}

-----------------------------------------------------------------------------
Init ==
  /\ graph \in Graphs
  /\ \E b \in Beams, l \in Lookbacks, w \in Weights :
        config = [beam |-> b, lookback |-> l, a |-> w[1], b |-> w[2]]
  /\ mode = "anomaly" /\ phase = "start" /\ paths = <<>> /\ steps = 0

(* search_paths_to_node(anomaly_node).                                     *)
Start ==
  /\ phase = "start"
  /\ IF Earlier(graph.root, graph.deadline) = {}
     THEN phase' = "found" /\ UNCHANGED paths
     ELSE /\ \E es \in Collapse(Earlier(graph.root, graph.deadline)) :
               paths' = [k \in DOMAIN es |-> NewPath(es[k])]
          /\ phase' = "expand"
  /\ UNCHANGED <<graph, config, mode, steps>>

(* One turn of the loop of beam_search: expand_paths; ...                  *)
Expand ==
  /\ phase = "expand"
  /\ \A k \in DOMAIN paths : Len(paths[k].edges) < MaxLen
  /\ paths' \in Expanded
  /\ phase' = "prune"
  /\ UNCHANGED <<graph, config, mode, steps>>

(* ... a selection every lookback steps (steps % 0 stops the program); ... *)
Prune ==
  /\ phase = "prune"
  /\ IF config.lookback = 0 THEN phase' = "crashed" /\ UNCHANGED <<paths, steps>>
     ELSE /\ steps' = (steps + 1) % config.lookback
          /\ paths' = IF steps' = 0 /\ TooMany THEN Selected ELSE paths
          /\ phase' = "test"
  /\ UNCHANGED <<graph, config, mode>>

(* ... and again while there are candidates, or the last selection.        *)
Test ==
  /\ phase = "test"
  /\ IF CandidatesLeft THEN phase' = "expand" /\ UNCHANGED paths
     ELSE phase' = "found" /\ paths' = IF TooMany THEN Selected ELSE paths
  /\ UNCHANGED <<graph, config, mode, steps>>

\* Mutant: the paths of the anomaly are not cleared.
SearchBaseline_NoClear ==
  /\ phase = "found" /\ mode = "anomaly"
  /\ \E wake \in graph.wakes \ {NoEdge} :
       paths' = Append(paths, NewPath(wake)) /\ phase' = "expand"
  /\ mode' = "baseline" /\ steps' = 0
  /\ UNCHANGED <<graph, config>>

(* search_from_baseline: get_edge finds no edge, which is dereferenced, if *)
(* the edge of the wake-up was refused or its source is in no group.       *)
SearchBaseline ==
  /\ phase = "found" /\ mode = "anomaly"
  /\ \E wake \in graph.wakes :
       IF wake = NoEdge THEN phase' = "crashed" /\ paths' = <<>>
       ELSE phase' = "expand" /\ paths' = <<NewPath(wake)>>
  /\ mode' = "baseline" /\ steps' = 0
  /\ UNCHANGED <<graph, config>>

(* No baseline node, or the thread of the one found is not woken.          *)
NoBaseline ==
  /\ phase = "found" /\ mode = "anomaly"
  /\ phase' = "ended" /\ paths' \in {paths, <<>>}
  /\ UNCHANGED <<graph, config, mode, steps>>

(* init_diagnose returns after the first baseline node.                    *)
Return ==
  /\ phase = "found" /\ mode = "baseline"
  /\ phase' = "ended"
  /\ UNCHANGED <<graph, config, mode, paths, steps>>

Stopped == phase \in {"ended", "crashed"} /\ UNCHANGED vars

Next == Start \/ Expand \/ Prune \/ Test \/ SearchBaseline \/ NoBaseline \/ Return \/ Stopped

Spec == Init /\ [][Next]_vars

\* One thread runs the search and waits for nothing.
FairSpec == Spec /\ WF_vars(Next)

-----------------------------------------------------------------------------
(* Properties.                                                             *)

FirstEdges == IF mode = "anomaly" THEN Earlier(graph.root, graph.deadline)
              ELSE graph.wakes \ {NoEdge}
NodesOf(p) == {Edge(i).from : i \in ToSet(p.edges)}
Total(es)  == LET sum[k \in 0 .. Len(es)] == IF k = 0 THEN 0 ELSE sum[k - 1] + Penalty(es[k])
              IN  sum[Len(es)]
EdgesOf(p) == [k \in DOMAIN p.edges |-> Edge(p.edges[k])]

(* A path is a causal chain back from the node the current search is for,  *)
(* never from that of the search before it: each edge enters the node the  *)
(* one before it leaves, earlier unless it is weak, and the score is the   *)
(* sum of the penalties.                                                   *)
PathsAreCausal ==
  \A n \in DOMAIN paths :
    LET es == EdgesOf(paths[n]) IN
    /\ paths[n].edges # <<>> /\ ToSet(paths[n].edges) \subseteq EdgeIds
    /\ Head(paths[n].edges) \in FirstEdges
    /\ \A k \in 1 .. Len(es) - 1 :
         es[k + 1].to = es[k].from /\ (es[k + 1].weak \/ es[k + 1].got < es[k].sent)
    /\ paths[n].score = Total(paths[n].edges)

(* The search stops only when no path it kept has an earlier cause; a path *)
(* that ends at a user-interface event with earlier causes keeps it going. *)
ResultIsMaximal ==
  phase = "found" => /\ \A k \in DOMAIN paths : Causes(paths[k]) = {}
                     /\ config.beam >= 0 => Len(paths) <= config.beam

\* The edges that lie on some chain back from the first edges, by a reference
\* definition: the limit of one step back at a time, collapsing nothing.
StepBack(es) ==
  es \cup UNION {CausesOf(i) : i \in {j \in es : Edge(j).from \notin graph.ui}}
Reach[k \in 0 .. Cardinality(EdgeIds)] == IF k = 0 THEN FirstEdges ELSE StepBack(Reach[k - 1])
OnChains == Reach[Cardinality(EdgeIds)]
Parallel == \E i, j \in EdgeIds : i # j /\ Edge(i).from = Edge(j).from /\ Edge(i).to = Edge(j).to

(* A search that the beam does not prune finds every node on a chain back  *)
(* from where it starts, and no other node, unless parallel edges collapse.*)
AllCausesFound ==
  phase = "found" /\ mode = "anomaly" /\ config.beam < 0 =>
    LET found == UNION {NodesOf(paths[k]) : k \in DOMAIN paths} IN
    /\ found \subseteq Sources(OnChains)
    /\ Parallel \/ found = Sources(OnChains)

\* The graphs without the two reasons for a search not to end: weak edges that
\* close a cycle, and a user-interface event with earlier causes.
Leading(es) == {i \in es : CausesOf(i) \cap es # {}}
Core[k \in Nat] == IF k = 0 THEN EdgeIds ELSE Leading(Core[k - 1])
Cyclic  == Core[Cardinality(EdgeIds)] # {}
UICause == \E i \in EdgeIds : Edge(i).from \in graph.ui /\ CausesOf(i) # {}
Ends    == ~Cyclic /\ ~UICause

(* The search ends, with whatever beam, lookback and weights, when time    *)
(* goes back along every chain.                                            *)
SearchEnds == Ends ~> phase \in {"ended", "crashed"}
=============================================================================
