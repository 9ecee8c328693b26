----------------------------- MODULE MCBeamSearch -----------------------------
(* Instances of BeamSearch: the graphs made of some of nine edges. *)
EXTENDS BeamSearch

E(from, to, sent, got, weak) ==
  [from |-> from, to |-> to, sent |-> sent, got |-> got, weak |-> weak]

\* Two parallel edges to the anomaly node 4, an edge at its deadline, causes that
\* only the later of the parallel edges reaches, weak edges that close a cycle, a tie.
Pool == << E(3, 4, 7, 8, FALSE), E(3, 4, 4, 5, FALSE), E(2, 4, 6, 9, TRUE),
           E(2, 3, 3, 6, FALSE), E(1, 3, 2, 3, FALSE), E(3, 2, 5, 5, TRUE),
           E(2, 3, 4, 4, TRUE),  E(1, 4, 8, 9, FALSE), E(1, 3, 1, 3, FALSE) >>

GraphOf(ids, ui) ==
  [edges |-> [i \in ids |-> Pool[i]], root |-> 4, deadline |-> 9, ui |-> ui,
   wakes |-> (ids \cap {1, 3, 6}) \cup {NoEdge}]

MCGraphs == {GraphOf({1} \cup ids, ui) : ids \in SUBSET (2 .. 9), ui \in {{}, {2}}}
            \cup {GraphOf(ids, {}) : ids \in SUBSET {4, 6}}
MCBeams == {-1, 0, 1, 2}
MCWeights == {<<1, 0>>, <<-1, 2>>}
=============================================================================
