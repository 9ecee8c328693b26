--------------------------- MODULE BeamSearch_proofs ---------------------------
(***************************************************************************)
(* Theorems on the search for causal paths, for every finite graph, every   *)
(* beam, lookback and pair of weights.                                     *)
(***************************************************************************)
EXTENDS BeamSearch, Integers, SequencesExt, FiniteSetTheorems, SequenceTheorems, WellFoundedInduction, TLAPS

\* A non-empty set of naturals has a least element.
LEMMA MinExists ==
  ASSUME NEW S \in SUBSET Nat, S # {}
  PROVE  \E i \in S : \A j \in S : i <= j
<1> DEFINE less == {x \in Nat \X Nat : x[1] < x[2]}
<1>1. IsWellFoundedOn(less, Nat)
  BY NatLessThanWellFounded DEF OpToRel
<1>2. PICK i \in S : \A j \in S : ~ (<<j, i>> \in less)
  BY <1>1, WFMin
<1>3. ASSUME NEW j \in S PROVE i <= j
  <2>1. ~(<<j, i>> \in less) /\ i \in Nat /\ j \in Nat
    BY <1>2
  <2> QED BY <2>1
<1> QED BY <1>3

\* Induction up to n, over the numbers of a set.
LEMMA UpTo ==
  ASSUME NEW n \in Nat, NEW S, 0 \in S, \A k \in 1 .. n : k - 1 \in S => k \in S
  PROVE  \A k \in 0 .. n : k \in S
<1> DEFINE bad == {k \in 0 .. n : k \notin S}
<1>1. SUFFICES ASSUME bad # {} PROVE FALSE
  OBVIOUS
<1>2. bad \in SUBSET Nat
  OBVIOUS
<1>3. PICK k \in bad : \A j \in bad : k <= j
  BY <1>1, <1>2, MinExists
<1>4. k \in 1 .. n /\ k - 1 \in 0 .. n /\ ~(k <= k - 1)
  BY <1>3
<1> QED BY <1>3, <1>4

\* f is the function on 0 .. n with this base and these steps.
Recursion(f, n, base, step) == f[0] = base /\ \A k \in 1 .. n : f[k] = step[k][f[k - 1]]

\* A function of 0 .. n can be defined by recursion.
LEMMA RecursionExists ==
  ASSUME NEW n \in Nat, NEW T, NEW base \in T, NEW step \in [1 .. n -> [T -> T]]
  PROVE  \E f \in [0 .. n -> T] : Recursion(f, n, base, step)
<1> DEFINE Part(f, m) == f[0] = base /\ \A k \in 1 .. m : f[k] = step[k][f[k - 1]]
           good == {m \in 0 .. n : \E f \in [0 .. m -> T] : Part(f, m)}
<1>1. 0 \in good
  <2> DEFINE f == [k \in 0 .. 0 |-> base]
  <2>1. f \in [0 .. 0 -> T] /\ Part(f, 0)
    OBVIOUS
  <2> HIDE DEF Part, f
  <2> QED BY <2>1
<1>2. ASSUME NEW m \in 1 .. n, m - 1 \in good PROVE m \in good
  <2>1. PICK f \in [0 .. m - 1 -> T] : Part(f, m - 1)
    BY <1>2
  <2> DEFINE x == step[m][f[m - 1]]
             g == [k \in 0 .. m |-> IF k = m THEN x ELSE f[k]]
  <2>2. x \in T
    <3>1. m - 1 \in 0 .. m - 1
      OBVIOUS
    <3>2. f[m - 1] \in T /\ step[m] \in [T -> T]
      BY <3>1
    <3> QED BY <3>2
  <2> HIDE DEF x
  <2>3. \A k \in 0 .. m - 1 : g[k] = f[k]
    OBVIOUS
  <2>4. g[m] = x
    OBVIOUS
  <2>5. g \in [0 .. m -> T]
    <3>1. \A k \in 0 .. m : k # m => k \in 0 .. m - 1
      OBVIOUS
    <3> QED BY <2>2, <3>1
  <2> HIDE DEF g
  <2>6. g[0] = base
    <3>1. 0 \in 0 .. m - 1
      OBVIOUS
    <3> QED BY <2>1, <2>3, <3>1
  <2>7. ASSUME NEW k \in 1 .. m PROVE g[k] = step[k][g[k - 1]]
    <3>1. k - 1 \in 0 .. m - 1
      OBVIOUS
    <3>2. CASE k = m
      BY <2>3, <2>4, <3>1, <3>2 DEF x
    <3>3. CASE k # m
      <4>1. k \in 1 .. m - 1 /\ k \in 0 .. m - 1
        BY <3>3
      <4> QED BY <2>1, <2>3, <3>1, <4>1
    <3> QED BY <3>2, <3>3
  <2>8. Part(g, m)
    BY <2>6, <2>7
  <2> HIDE DEF Part
  <2> QED BY <2>5, <2>8
<1> HIDE DEF good
<1>3. \A k \in 1 .. n : k - 1 \in good => k \in good
  BY <1>2
<1>4. \A k \in 0 .. n : k \in good
  BY <1>1, <1>3, UpTo
<1>5. n \in good
  BY <1>4
<1>6. PICK f \in [0 .. n -> T] : Part(f, n)
  BY <1>5 DEF good
<1>7. Recursion(f, n, base, step)
  BY <1>6 DEF Recursion
<1> QED BY <1>7

-----------------------------------------------------------------------------
(* What the assumptions say of the graph and of the searcher.              *)

ConfigOK ==
  /\ graph \in Graphs
  /\ config.beam \in Int /\ config.lookback \in Nat /\ config.a \in Int /\ config.b \in Int

LEMMA GraphFacts ==
  ASSUME graph \in Graphs
  PROVE  /\ IsFiniteSet(EdgeIds) /\ NoEdge \notin EdgeIds
         /\ \A i \in EdgeIds : /\ Edge(i).from \in Nat /\ Edge(i).to \in Nat /\ Edge(i).weak \in BOOLEAN
                               /\ Edge(i).sent \in Nat /\ Edge(i).got \in Nat
         /\ graph.wakes \subseteq EdgeIds \cup {NoEdge}
         /\ \A n, t : Earlier(n, t) \subseteq EdgeIds
         /\ FirstEdges \subseteq EdgeIds
<1>1. GraphOK(graph)
  BY SearchAssumption
<1>2. /\ IsFiniteSet(EdgeIds) /\ NoEdge \notin EdgeIds
      /\ graph.wakes \subseteq EdgeIds \cup {NoEdge}
  BY <1>1 DEF GraphOK, EdgeIds
<1>3. \A i \in EdgeIds : /\ Edge(i).from \in Nat /\ Edge(i).to \in Nat /\ Edge(i).weak \in BOOLEAN
                         /\ Edge(i).sent \in Nat /\ Edge(i).got \in Nat
  BY <1>1 DEF GraphOK, EdgeIds, Edge
<1>4. \A n, t : Earlier(n, t) \subseteq EdgeIds
  BY DEF Earlier
<1>5. FirstEdges \subseteq EdgeIds
  BY <1>2, <1>4 DEF FirstEdges
<1> QED BY <1>2, <1>3, <1>4, <1>5

\* The graph, the searcher and the node searched for stay what they are.
LEMMA SearchFixed ==
  ASSUME graph' = graph, config' = config
  PROVE  /\ EdgeIds' = EdgeIds /\ ConfigOK' = ConfigOK /\ Parallel' = Parallel
         /\ \A i : Edge(i)' = Edge(i) /\ CausesOf(i)' = CausesOf(i) /\ Penalty(i)' = Penalty(i)
         /\ \A es : Total(es)' = Total(es)
         /\ mode' = mode => FirstEdges' = FirstEdges /\ OnChains' = OnChains
<1>1. EdgeIds' = EdgeIds /\ ConfigOK' = ConfigOK /\ \A i : Edge(i)' = Edge(i)
  BY DEF EdgeIds, ConfigOK, Edge
<1>2. \A n, t : Earlier(n, t)' = Earlier(n, t)
  BY <1>1 DEF Earlier
<1>3. \A i : CausesOf(i)' = CausesOf(i) /\ Penalty(i)' = Penalty(i)
  BY <1>1, <1>2 DEF CausesOf, Penalty, EdgeVal
<1>4. Parallel' = Parallel
  BY <1>1 DEF Parallel
<1>5. \A es : Total(es)' = Total(es)
  BY <1>3 DEF Total
<1>6. mode' = mode => FirstEdges' = FirstEdges
  BY <1>2 DEF FirstEdges
<1>7. mode' = mode => OnChains' = OnChains
  BY DEF OnChains, Reach, FirstEdges, Earlier, StepBack, CausesOf, Edge, EdgeIds
<1> QED BY <1>1, <1>3, <1>4, <1>5, <1>6, <1>7

-----------------------------------------------------------------------------
(* The score of a path.                                                    *)

LEMMA PenaltyType == ASSUME ConfigOK, NEW i PROVE Penalty(i) \in Int
<1>1. EdgeVal(i) = 1 \/ EdgeVal(i) = -1
  BY DEF EdgeVal
<1>2. config.a \in Int /\ config.b \in Int
  BY DEF ConfigOK
<1>3. config.a * EdgeVal(i) \in Int
  <2>1. CASE EdgeVal(i) = 1
    BY <1>2, <2>1
  <2>2. CASE EdgeVal(i) = -1
    BY <1>2, <2>2
  <2> QED BY <1>1, <2>1, <2>2
<1> QED BY <1>2, <1>3 DEF Penalty

\* The sums of the first penalties of es.
Sums(sum, es) == sum = [k \in 0 .. Len(es) |-> IF k = 0 THEN 0 ELSE sum[k - 1] + Penalty(es[k])]

LEMMA SumsExist ==
  ASSUME ConfigOK, NEW es, Len(es) \in Nat
  PROVE  \E sum : Sums(sum, es)
<1> DEFINE N == Len(es)
           step == [k \in 1 .. N |-> [x \in Int |-> x + Penalty(es[k])]]
<1>1. \A i : Penalty(i) \in Int
  BY PenaltyType
<1>2. step \in [1 .. N -> [Int -> Int]]
  BY <1>1
<1>3. \A k \in 1 .. N, x \in Int : step[k][x] = x + Penalty(es[k])
  OBVIOUS
<1> DEFINE T == Int
           zero == 0
<1>0. N \in Nat /\ zero \in T /\ step \in [1 .. N -> [T -> T]]
  BY <1>2
<1> HIDE DEF step, zero, T
<1>4. PICK f \in [0 .. N -> T] : Recursion(f, N, zero, step)
  <2> HIDE DEF N
  <2> QED BY <1>0, RecursionExists
<1>5. \A k \in 1 .. N : f[k] = f[k - 1] + Penalty(es[k])
  <2>1. \A k \in 1 .. N : f[k - 1] \in Int
    BY DEF T
  <2> QED BY <1>3, <1>4, <2>1 DEF Recursion
<1>6. f = [k \in 0 .. N |-> IF k = 0 THEN 0 ELSE f[k - 1] + Penalty(es[k])]
  BY <1>4, <1>5 DEF zero, Recursion
<1> QED BY <1>6 DEF Sums

\* Extending a path adds the penalty of the edge to the sum.
LEMMA TotalFacts ==
  ASSUME ConfigOK, NEW es \in Seq(EdgeIds)
  PROVE  /\ Total(es) \in Int
         /\ es = <<>> => Total(es) = 0
         /\ \A i \in EdgeIds : Total(Append(es, i)) = Total(es) + Penalty(i)
<1> DEFINE TotalOf(s) == CHOOSE sum : Sums(sum, s)
<1>1. \A s \in Seq(EdgeIds) : Total(s) = TotalOf(s)[Len(s)] /\ Sums(TotalOf(s), s)
  <2> SUFFICES ASSUME NEW s \in Seq(EdgeIds)
               PROVE  Total(s) = TotalOf(s)[Len(s)] /\ Sums(TotalOf(s), s)
    OBVIOUS
  <2>1. \E sum : Sums(sum, s)
    BY SumsExist
  <2>2. Sums(TotalOf(s), s)
    BY <2>1
  <2>3. Total(s) = TotalOf(s)[Len(s)]
    BY DEF Total, Sums
  <2> QED BY <2>2, <2>3
<1> HIDE DEF TotalOf
<1>2. \A s \in Seq(EdgeIds) : \A k \in 0 .. Len(s) :
        Sums(TotalOf(s), s) => TotalOf(s)[k] = IF k = 0 THEN 0 ELSE TotalOf(s)[k - 1] + Penalty(s[k])
  <2> SUFFICES ASSUME NEW s \in Seq(EdgeIds), NEW k \in 0 .. Len(s), Sums(TotalOf(s), s)
               PROVE  TotalOf(s)[k] = IF k = 0 THEN 0 ELSE TotalOf(s)[k - 1] + Penalty(s[k])
    OBVIOUS
  <2> DEFINE f == TotalOf(s)
  <2>1. f = [n \in 0 .. Len(s) |-> IF n = 0 THEN 0 ELSE f[n - 1] + Penalty(s[n])]
    BY DEF Sums
  <2> HIDE DEF f
  <2>2. f[k] = IF k = 0 THEN 0 ELSE f[k - 1] + Penalty(s[k])
    BY <2>1
  <2> QED BY <2>2 DEF f
<1>3. \A s \in Seq(EdgeIds) : TotalOf(s)[0] = 0
  <2> SUFFICES ASSUME NEW s \in Seq(EdgeIds) PROVE TotalOf(s)[0] = 0
    OBVIOUS
  <2>1. 0 \in 0 .. Len(s)
    OBVIOUS
  <2> QED BY <1>1, <1>2, <2>1
<1>4. \A s \in Seq(EdgeIds) : \A k \in 1 .. Len(s) : TotalOf(s)[k] = TotalOf(s)[k - 1] + Penalty(s[k])
  <2> SUFFICES ASSUME NEW s \in Seq(EdgeIds), NEW k \in 1 .. Len(s)
               PROVE TotalOf(s)[k] = TotalOf(s)[k - 1] + Penalty(s[k])
    OBVIOUS
  <2>1. k \in 0 .. Len(s) /\ k # 0
    OBVIOUS
  <2> QED BY <1>1, <1>2, <2>1
<1>5. ASSUME NEW s \in Seq(EdgeIds), NEW k \in 0 .. Len(s) PROVE TotalOf(s)[k] \in Int
  <2> DEFINE good == {j \in 0 .. Len(s) : TotalOf(s)[j] \in Int}
  <2>0. Len(s) \in Nat
    OBVIOUS
  <2>1. 0 \in good
    BY <1>3, <2>0
  <2>2. ASSUME NEW j \in 1 .. Len(s), j - 1 \in good PROVE j \in good
    <3>1. TotalOf(s)[j] = TotalOf(s)[j - 1] + Penalty(s[j])
      BY <1>4
    <3>2. Penalty(s[j]) \in Int /\ TotalOf(s)[j - 1] \in Int
      BY <2>2, PenaltyType
    <3> QED BY <2>0, <3>1, <3>2
  <2> HIDE DEF good
  <2>3. \A j \in 1 .. Len(s) : j - 1 \in good => j \in good
    BY <2>2
  <2>4. \A j \in 0 .. Len(s) : j \in good
    BY <2>0, <2>1, <2>3, UpTo
  <2>5. k \in good
    BY <2>4
  <2> QED BY <2>5 DEF good
<1>6. Total(es) \in Int
  <2>1. Len(es) \in 0 .. Len(es)
    OBVIOUS
  <2> QED BY <1>1, <1>5, <2>1
<1>7. es = <<>> => Total(es) = 0
  BY <1>1, <1>3
<1>8. ASSUME NEW i \in EdgeIds PROVE Total(Append(es, i)) = Total(es) + Penalty(i)
  <2> DEFINE l == Append(es, i)
  <2>1. l \in Seq(EdgeIds) /\ Len(l) = Len(es) + 1 /\ l[Len(l)] = i
    OBVIOUS
  <2>2. \A k \in 1 .. Len(es) : l[k] = es[k]
    OBVIOUS
  <2> HIDE DEF l
  <2> DEFINE good == {k \in 0 .. Len(es) : TotalOf(l)[k] = TotalOf(es)[k]}
  <2>3. \A k \in 0 .. Len(es) : k \in good
    <3>1. 0 \in good
      BY <1>3, <2>1
    <3>2. ASSUME NEW k \in 1 .. Len(es), k - 1 \in good PROVE k \in good
      <4>1. k \in 1 .. Len(l) /\ l[k] = es[k]
        BY <2>1, <2>2
      <4>2. TotalOf(l)[k] = TotalOf(es)[k]
        BY <1>4, <2>1, <3>2, <4>1
      <4> QED BY <4>2
    <3> HIDE DEF good
    <3>3. \A k \in 1 .. Len(es) : k - 1 \in good => k \in good
      BY <3>2
    <3>4. Len(es) \in Nat
      OBVIOUS
    <3> QED BY <3>1, <3>3, <3>4, UpTo
  <2>4. TotalOf(l)[Len(es)] = TotalOf(es)[Len(es)]
    <3>1. Len(es) \in good
      BY <2>3
    <3> QED BY <3>1
  <2>5. TotalOf(l)[Len(l)] = TotalOf(l)[Len(l) - 1] + Penalty(l[Len(l)])
    <3>1. Len(l) \in 1 .. Len(l)
      BY <2>1
    <3> QED BY <1>4, <2>1, <3>1
  <2>6. Len(l) - 1 = Len(es)
    BY <2>1
  <2>7. Total(l) = Total(es) + Penalty(i)
    BY <1>1, <2>1, <2>4, <2>5, <2>6
  <2> QED BY <2>7 DEF l
<1> QED BY <1>6, <1>7, <1>8

-----------------------------------------------------------------------------
(* The edges a node is reached by, and the paths made of them.             *)

\* What collapse_edges leaves of the edges into a node: one or more of them, and
\* without parallel edges all of them.
LEMMA CollapseFacts ==
  ASSUME graph \in Graphs, NEW es \in SUBSET EdgeIds, es # {}, NEW s \in Collapse(es)
  PROVE  /\ s \in Seq(EdgeIds) /\ s # <<>>
         /\ \A k \in DOMAIN s : s[k] \in es
         /\ ~Parallel /\ (\A i, j \in es : Edge(i).to = Edge(j).to)
              => \A i \in es : \E k \in DOMAIN s : s[k] = i
<1> DEFINE N == Cardinality(Sources(es))
           source == [i \in es |-> Edge(i).from]
<1>1. IsFiniteSet(es)
  BY GraphFacts, FS_Subset
<1>2. source \in Surjection(es, Sources(es))
  BY DEF Surjection, Sources
<1>3. IsFiniteSet(Sources(es)) /\ (N = Cardinality(es) <=> source \in Injection(es, Sources(es)))
  BY <1>1, <1>2, FS_Surjection
<1>4. N \in Nat /\ N # 0
  <2>1. Sources(es) # {}
    BY DEF Sources
  <2> QED BY <1>3, <2>1, FS_CardinalityType, FS_EmptySet
<1>5. /\ s \in [1 .. N -> es]
      /\ \A j, k \in DOMAIN s : j < k => Edge(s[j]).from < Edge(s[k]).from
  BY DEF Collapse
<1> HIDE DEF N
<1>6. /\ s \in Seq(EdgeIds) /\ s # <<>> /\ DOMAIN s = 1 .. N
      /\ \A k \in DOMAIN s : s[k] \in es
  <2>1. DOMAIN s = 1 .. N /\ \A k \in DOMAIN s : s[k] \in es
    BY <1>5
  <2>2. s \in [1 .. N -> EdgeIds]
    BY <1>5
  <2>3. s \in Seq(EdgeIds)
    BY <1>4, <2>2
  <2>4. s # <<>>
    BY <1>4, <2>1
  <2> QED BY <2>1, <2>3, <2>4
<1>7. ASSUME ~Parallel, \A i, j \in es : Edge(i).to = Edge(j).to, NEW i \in es
      PROVE  \E k \in DOMAIN s : s[k] = i
  <2>1. source \in Injection(es, Sources(es))
    <3>1. \A k, j \in es : source[k] = source[j] => k = j
      BY <1>7 DEF Parallel
    <3>2. IsInjective(source)
      BY <3>1 DEF IsInjective
    <3> QED BY <1>2, <3>2 DEF Injection, Surjection
  <2>2. N = Cardinality(es)
    BY <1>3, <2>1
  <2>3. s \in Injection(1 .. N, es)
    <3>1. ASSUME NEW j \in 1 .. N, NEW k \in 1 .. N, s[j] = s[k] PROVE j = k
      <4>1. Edge(s[j]).from \in Nat /\ Edge(s[k]).from = Edge(s[j]).from
        BY <1>6, <3>1, GraphFacts
      <4>2. ~(j < k) /\ ~(k < j)
        BY <1>5, <1>6, <4>1
      <4> QED BY <1>4, <4>2
    <3>2. IsInjective(s)
      BY <1>6, <3>1 DEF IsInjective
    <3> QED BY <1>5, <3>2 DEF Injection
  <2>4. Cardinality(1 .. N) = N
    BY <1>4, FS_Interval
  <2>5. s \in Surjection(1 .. N, es)
    BY <1>1, <2>2, <2>3, <2>4, FS_Injection
  <2> QED BY <1>6, <2>5 DEF Surjection
<1> QED BY <1>6, <1>7

PathType == [edges : Seq(EdgeIds), score : Int]

\* A chain of causes back from one of the first edges, with the sum of its penalties.
IsPath(p) ==
  /\ p \in PathType /\ p.edges # <<>> /\ p.edges[1] \in FirstEdges
  /\ \A k \in 1 .. Len(p.edges) - 1 : /\ p.edges[k + 1] \in CausesOf(p.edges[k])
                                      /\ Edge(p.edges[k]).from \notin graph.ui
  /\ p.score = Total(p.edges)

LEMMA NewPathFacts ==
  ASSUME ConfigOK, NEW i \in EdgeIds
  PROVE  /\ NewPath(i) \in PathType /\ NewPath(i).edges = <<i>>
         /\ NewPath(i).score = Total(<<i>>)
<1>1. NewPath(i) = [edges |-> <<i>>, score |-> Penalty(i)]
  BY DEF NewPath
<1>2. <<>> \in Seq(EdgeIds) /\ <<i>> \in Seq(EdgeIds) /\ Append(<<>>, i) = <<i>>
  OBVIOUS
<1>3. Total(<<i>>) = 0 + Penalty(i) /\ Penalty(i) \in Int
  BY <1>2, TotalFacts, PenaltyType
<1>4. Total(<<i>>) = Penalty(i)
  BY <1>3
<1> QED BY <1>1, <1>2, <1>3, <1>4 DEF PathType

\* The last edge of a path.
LEMMA LastFacts ==
  ASSUME NEW p \in PathType, p.edges # <<>>
  PROVE  /\ Len(p.edges) \in Nat \ {0} /\ Len(p.edges) \in DOMAIN p.edges
         /\ Last(p.edges) = p.edges[Len(p.edges)] /\ Last(p.edges) \in EdgeIds
         /\ Causes(p) = CausesOf(p.edges[Len(p.edges)])
<1>1. p.edges \in Seq(EdgeIds)
  BY DEF PathType
<1>2. Len(p.edges) \in Nat \ {0} /\ Len(p.edges) \in DOMAIN p.edges
  BY <1>1, EmptySeq, LenProperties
<1>3. Last(p.edges) = p.edges[Len(p.edges)]
  BY DEF Last
<1>4. Last(p.edges) \in EdgeIds
  BY <1>1, <1>2, <1>3
<1> QED BY <1>2, <1>3, <1>4 DEF Causes

\* A path extended by a cause is a path.
LEMMA ExtendFacts ==
  ASSUME ConfigOK, NEW p, IsPath(p), LastNode(p) \notin graph.ui, NEW i \in Causes(p)
  PROVE  /\ IsPath(Extend(p, i)) /\ Last(Extend(p, i).edges) = i
         /\ \A k \in DOMAIN p.edges : k \in DOMAIN Extend(p, i).edges /\ Extend(p, i).edges[k] = p.edges[k]
         /\ Extend(p, i).edges = Append(p.edges, i)
<1> DEFINE es == p.edges
           n  == Len(es)
           x  == Extend(p, i)
           xs == Append(es, i)
<1>1. p \in PathType /\ es \in Seq(EdgeIds) /\ es # <<>> /\ p.score \in Int
  BY DEF IsPath, PathType
<1>2. /\ n \in Nat \ {0} /\ DOMAIN es = 1 .. n /\ Last(es) = es[n]
      /\ Causes(p) = CausesOf(es[n])
  BY <1>1, LastFacts
<1>3. i \in EdgeIds
  <2>1. graph \in Graphs
    BY DEF ConfigOK
  <2> QED BY <1>2, <2>1, GraphFacts DEF CausesOf
<1>4. x = [edges |-> xs, score |-> p.score + Penalty(i)]
  BY DEF Extend
<1>5. /\ xs \in Seq(EdgeIds) /\ Len(xs) = n + 1 /\ xs[n + 1] = i /\ DOMAIN xs = 1 .. n + 1
      /\ \A k \in 1 .. n : xs[k] = es[k]
  BY <1>1, <1>3
<1>6. x \in PathType /\ x.edges = xs
  <2>1. p.score + Penalty(i) \in Int
    BY <1>1, PenaltyType
  <2> QED BY <1>4, <1>5, <2>1 DEF PathType
<1> HIDE DEF xs, x, es, n
<1>7. xs # <<>> /\ xs[1] \in FirstEdges
  <2>1. es[1] \in FirstEdges
    BY DEF IsPath, es
  <2>2. xs[1] = es[1] /\ Len(xs) # 0
    BY <1>2, <1>5
  <2> QED BY <1>5, <2>1, <2>2
<1>8. ASSUME NEW k \in 1 .. Len(xs) - 1
      PROVE  xs[k + 1] \in CausesOf(xs[k]) /\ Edge(xs[k]).from \notin graph.ui
  <2>1. CASE k = n
    <3>1. xs[k + 1] = i /\ xs[k] = es[n]
      BY <1>2, <1>5, <2>1
    <3>2. Edge(es[n]).from \notin graph.ui
      BY <1>2 DEF LastNode, es
    <3> QED BY <1>2, <3>1, <3>2
  <2>2. CASE k # n
    <3>1. k \in 1 .. n - 1 /\ xs[k] = es[k] /\ xs[k + 1] = es[k + 1]
      BY <1>2, <1>5, <2>2
    <3>2. es[k + 1] \in CausesOf(es[k]) /\ Edge(es[k]).from \notin graph.ui
      BY <3>1 DEF IsPath, es, n
    <3> QED BY <3>1, <3>2
  <2> QED BY <2>1, <2>2
<1>9. x.score = Total(xs)
  <2>1. Total(Append(es, i)) = Total(es) + Penalty(i)
    BY <1>1, <1>3, TotalFacts
  <2>2. p.score = Total(es)
    BY DEF IsPath, es
  <2> QED BY <1>4, <2>1, <2>2 DEF x, xs
<1>10. IsPath(x)
  BY <1>6, <1>7, <1>8, <1>9 DEF IsPath
<1>11. Last(xs) = i
  BY <1>5 DEF Last
<1>12. \A k \in DOMAIN es : k \in DOMAIN xs /\ xs[k] = es[k]
  BY <1>2, <1>5
<1> QED BY <1>6, <1>10, <1>11, <1>12 DEF x, xs, es

\* The edge is on the path.
Has(p, e) == \E j \in DOMAIN p.edges : p.edges[j] = e

\* What expand_paths puts in the place of a path: paths, one of which goes on where
\* it ended; the path itself when it cannot be extended, else one path to each
\* cause, unless parallel edges collapse.
LEMMA ExpansionsFacts ==
  ASSUME ConfigOK, NEW p, IsPath(p), NEW new \in Expansions(p)
  PROVE  /\ new \in Seq(PathType) /\ \A k \in DOMAIN new : IsPath(new[k])
         /\ \E k \in DOMAIN new : \A e : Has(p, e) => Has(new[k], e)
         /\ \A k \in DOMAIN new : \A e : Has(new[k], e) => Has(p, e) \/ Last(new[k].edges) = e
         /\ Causes(p) = {} \/ LastNode(p) \in graph.ui => \E k \in DOMAIN new : new[k] = p
         /\ ~Parallel /\ LastNode(p) \notin graph.ui
              => \A c \in Causes(p) : \E k \in DOMAIN new : Last(new[k].edges) = c
<1>0. p \in PathType
  BY DEF IsPath
<1>1. CASE Causes(p) = {} \/ LastNode(p) \in graph.ui
  <2>1. new = <<p>>
    BY <1>1 DEF Expansions
  <2>2. DOMAIN new = {1} /\ new[1] = p /\ new \in Seq(PathType)
    BY <1>0, <2>1
  <2> QED BY <1>1, <2>2
<1>2. CASE ~(Causes(p) = {} \/ LastNode(p) \in graph.ui)
  <2>1. PICK es \in Collapse(Causes(p)) : new = [k \in DOMAIN es |-> Extend(p, es[k])]
    BY <1>2 DEF Expansions
  <2>2. graph \in Graphs /\ Causes(p) \in SUBSET EdgeIds
    BY GraphFacts DEF ConfigOK, Causes, CausesOf
  <2>3. \A i, j \in Causes(p) : Edge(i).to = Edge(j).to
    BY DEF Causes, CausesOf, Earlier
  <2>4. /\ es \in Seq(EdgeIds) /\ es # <<>> /\ \A k \in DOMAIN es : es[k] \in Causes(p)
        /\ ~Parallel => \A i \in Causes(p) : \E k \in DOMAIN es : es[k] = i
    BY <1>2, <2>2, <2>3, CollapseFacts
  <2>5. DOMAIN new = DOMAIN es /\ \A k \in DOMAIN es : new[k] = Extend(p, es[k])
    BY <2>1
  <2>6. ASSUME NEW k \in DOMAIN new
        PROVE  /\ IsPath(new[k]) /\ Last(new[k].edges) = es[k]
               /\ \A j \in DOMAIN p.edges : j \in DOMAIN new[k].edges /\ new[k].edges[j] = p.edges[j]
               /\ new[k].edges = Append(p.edges, es[k])
    BY <1>2, <2>4, <2>5, ExtendFacts
  <2>7. new \in Seq(PathType)
    <3>1. \A k \in 1 .. Len(es) : new[k] \in PathType
      BY <2>4, <2>5, <2>6 DEF IsPath
    <3>2. new = [k \in 1 .. Len(es) |-> new[k]] /\ Len(es) \in Nat
      BY <2>1, <2>4
    <3>3. new \in [1 .. Len(es) -> PathType]
      BY <3>1, <3>2
    <3> QED BY <3>2, <3>3, SeqDef
  <2>8. \E k \in DOMAIN new : \A e : Has(p, e) => Has(new[k], e)
    <3>1. 1 \in DOMAIN new
      BY <2>4, <2>5
    <3>2. \A e : Has(p, e) => Has(new[1], e)
      BY <2>6, <3>1 DEF Has
    <3> QED BY <3>1, <3>2
  <2>9. ASSUME NEW k \in DOMAIN new, NEW e, Has(new[k], e) PROVE Has(p, e) \/ Last(new[k].edges) = e
    <3>1. PICK j \in DOMAIN new[k].edges : new[k].edges[j] = e
      BY <2>9 DEF Has
    <3>2. p.edges \in Seq(EdgeIds) /\ es[k] \in EdgeIds
      BY <1>0, <2>2, <2>4, <2>5 DEF PathType
    <3>3. CASE j \in DOMAIN p.edges
      BY <2>6, <3>1, <3>3 DEF Has
    <3>4. CASE j \notin DOMAIN p.edges
      <4>1. new[k].edges = Append(p.edges, es[k]) /\ Last(new[k].edges) = es[k]
        BY <2>6
      <4>2. j = Len(p.edges) + 1 /\ new[k].edges[j] = es[k]
        BY <3>1, <3>2, <3>4, <4>1
      <4> QED BY <3>1, <4>1, <4>2
    <3> QED BY <3>3, <3>4
  <2>10. ~Parallel => \A c \in Causes(p) : \E k \in DOMAIN new : Last(new[k].edges) = c
    BY <2>4, <2>5, <2>6
  <2> QED BY <1>2, <2>6, <2>7, <2>8, <2>9, <2>10
<1> QED BY <1>1, <1>2

PathsInv == paths \in Seq(PathType) /\ \A n \in DOMAIN paths : IsPath(paths[n])

\* ps holds the expansions of each of the first k paths, and nothing else.
Made(ps, k) ==
  /\ ps \in Seq(PathType)
  /\ \A m \in DOMAIN ps : \E j \in 1 .. k : \E new \in Expansions(paths[j]) :
       \E x \in DOMAIN new : ps[m] = new[x]
  /\ \A j \in 1 .. k : \E new \in Expansions(paths[j]) :
       \A x \in DOMAIN new : \E m \in DOMAIN ps : ps[m] = new[x]

ListsAre(f) ==
  f = [k \in 0 .. Len(paths) |->
         IF k = 0 THEN {<<>>} ELSE Joined(f[k - 1], Expansions(paths[k]))]

LEMMA ListsExist ==
  ASSUME ConfigOK, PathsInv
  PROVE  \E f : ListsAre(f)
<1> DEFINE N == Len(paths)
           T == SUBSET Seq(PathType)
           base == {<<>>}
           Next1(k, ls) == Joined(ls, Expansions(paths[k]))
           step == [k \in 1 .. N |-> [ls \in T |-> Next1(k, ls)]]
<1>1. N \in Nat /\ DOMAIN paths = 1 .. N
  BY DEF PathsInv
<1>2. base \in T
  OBVIOUS
<1>3. ASSUME NEW k \in 1 .. N, NEW ls \in T PROVE Next1(k, ls) \in T
  <2>1. IsPath(paths[k])
    BY <1>1 DEF PathsInv
  <2>2. \A new \in Expansions(paths[k]) : new \in Seq(PathType)
    BY <2>1, ExpansionsFacts
  <2>3. ASSUME NEW ps \in ls, NEW new \in Expansions(paths[k]) PROVE ps \o new \in Seq(PathType)
    <3>1. ps \in Seq(PathType) /\ new \in Seq(PathType)
      BY <2>2
    <3> QED BY <3>1, ConcatProperties
  <2>4. ASSUME NEW x \in Next1(k, ls) PROVE x \in Seq(PathType)
    <3>1. \E ps \in ls, new \in Expansions(paths[k]) : x = ps \o new
      BY DEF Joined
    <3> QED BY <2>3, <3>1
  <2> HIDE DEF Next1
  <2> QED BY <2>4
<1> HIDE DEF Next1
<1>4. step \in [1 .. N -> [T -> T]] /\ \A k \in 1 .. N : \A ls \in T : step[k][ls] = Next1(k, ls)
  BY <1>3
<1> HIDE DEF step, base, T
<1>5. PICK f \in [0 .. N -> T] : Recursion(f, N, base, step)
  <2> HIDE DEF N
  <2> QED BY <1>1, <1>2, <1>4, RecursionExists
<1>6. \A k \in 1 .. N : f[k] = Next1(k, f[k - 1])
  <2>1. \A k \in 1 .. N : k - 1 \in 0 .. N
    BY <1>1
  <2> QED BY <1>4, <1>5, <2>1 DEF Recursion
<1>7. f[0] = {<<>>}
  BY <1>5 DEF Recursion, base
<1>8. f = [k \in 0 .. N |-> IF k = 0 THEN {<<>>} ELSE Next1(k, f[k - 1])]
  <2> HIDE DEF N
  <2>1. \A k \in 0 .. N : k # 0 => k \in 1 .. N
    BY <1>1
  <2> DEFINE value(k) == IF k = 0 THEN {<<>>} ELSE Next1(k, f[k - 1])
  <2>2. \A k \in 0 .. N : f[k] = value(k)
    BY <1>6, <1>7, <2>1
  <2> HIDE DEF value
  <2>3. f = [k \in 0 .. N |-> value(k)]
    BY <2>2
  <2> QED BY <2>3 DEF value
<1> QED BY <1>8 DEF ListsAre, Next1

\* Putting the expansions of the next path behind the list.
LEMMA MadeStep ==
  ASSUME ConfigOK, PathsInv, NEW k \in 1 .. Len(paths),
         NEW ps, Made(ps, k - 1), NEW new \in Expansions(paths[k])
  PROVE  Made(ps \o new, k)
<1> DEFINE all == ps \o new
<1>1. k \in Nat \ {0} /\ k \in DOMAIN paths
  BY DEF PathsInv
<1>2. ps \in Seq(PathType) /\ new \in Seq(PathType)
  <2>1. IsPath(paths[k])
    BY <1>1 DEF PathsInv
  <2> QED BY <2>1, ExpansionsFacts DEF Made
<1>3. /\ all \in Seq(PathType) /\ Len(all) = Len(ps) + Len(new)
      /\ \A i \in 1 .. Len(ps) + Len(new) : all[i] = IF i <= Len(ps) THEN ps[i] ELSE new[i - Len(ps)]
  BY <1>2, ConcatProperties
<1>4. /\ Len(ps) \in Nat /\ Len(new) \in Nat /\ DOMAIN ps = 1 .. Len(ps) /\ DOMAIN new = 1 .. Len(new)
      /\ DOMAIN all = 1 .. Len(ps) + Len(new)
  BY <1>2, <1>3
<1> HIDE DEF all
<1>5. /\ \A m \in DOMAIN ps : m \in DOMAIN all /\ all[m] = ps[m]
      /\ \A x \in DOMAIN new : Len(ps) + x \in DOMAIN all /\ all[Len(ps) + x] = new[x]
  <2>1. ASSUME NEW x \in DOMAIN new PROVE Len(ps) + x \in DOMAIN all /\ all[Len(ps) + x] = new[x]
    <3>1. Len(ps) + x \in 1 .. Len(ps) + Len(new) /\ ~(Len(ps) + x <= Len(ps)) /\ Len(ps) + x - Len(ps) = x
      BY <1>4
    <3> QED BY <1>3, <1>4, <3>1
  <2> QED BY <1>3, <1>4, <2>1
<1>6. ASSUME NEW m \in DOMAIN all
      PROVE  \E j \in 1 .. k : \E n \in Expansions(paths[j]) : \E x \in DOMAIN n : all[m] = n[x]
  <2>1. CASE m <= Len(ps)
    <3>1. m \in DOMAIN ps /\ all[m] = ps[m]
      BY <1>3, <1>4, <2>1
    <3>2. PICK j \in 1 .. k - 1 : \E n \in Expansions(paths[j]) : \E x \in DOMAIN n : ps[m] = n[x]
      BY <3>1 DEF Made
    <3>3. j \in 1 .. k
      BY <1>1, <3>2
    <3> QED BY <3>1, <3>2, <3>3
  <2>2. CASE ~(m <= Len(ps))
    <3>1. m - Len(ps) \in DOMAIN new /\ all[m] = new[m - Len(ps)]
      BY <1>3, <1>4, <2>2
    <3>2. k \in 1 .. k
      BY <1>1
    <3> QED BY <3>1, <3>2
  <2> QED BY <2>1, <2>2
<1>7. ASSUME NEW j \in 1 .. k
      PROVE  \E n \in Expansions(paths[j]) : \A x \in DOMAIN n : \E m \in DOMAIN all : all[m] = n[x]
  <2>1. CASE j = k
    BY <1>5, <2>1
  <2>2. CASE j # k
    <3>1. j \in 1 .. k - 1
      BY <1>1, <2>2
    <3>2. PICK n \in Expansions(paths[j]) : \A x \in DOMAIN n : \E m \in DOMAIN ps : ps[m] = n[x]
      BY <3>1 DEF Made
    <3> QED BY <1>5, <3>2
  <2> QED BY <2>1, <2>2
<1>8. Made(all, k)
  BY <1>3, <1>6, <1>7 DEF Made
<1> QED BY <1>8 DEF all

\* Every list that expand_paths can leave is made of expansions of all the paths.
LEMMA ExpandedFacts ==
  ASSUME ConfigOK, PathsInv, NEW ps \in Expanded
  PROVE  Made(ps, Len(paths))
<1> DEFINE N == Len(paths)
<1>1. N \in Nat
  BY DEF PathsInv
<1> DEFINE F == CHOOSE f : ListsAre(f)
<1>2. Lists = F
  BY DEF Lists, ListsAre
<1>3. ListsAre(F)
  BY ListsExist
<1> HIDE DEF F
<1>4. F[0] = {<<>>} /\ \A k \in 1 .. N : F[k] = Joined(F[k - 1], Expansions(paths[k]))
  <2> DEFINE value(k) == IF k = 0 THEN {<<>>} ELSE Joined(F[k - 1], Expansions(paths[k]))
  <2>1. F = [k \in 0 .. N |-> value(k)]
    BY <1>3 DEF ListsAre
  <2> HIDE DEF value, N
  <2>2. \A k \in 0 .. N : F[k] = value(k)
    BY <2>1
  <2>3. 0 \in 0 .. N /\ \A k \in 1 .. N : k \in 0 .. N /\ k # 0
    BY <1>1
  <2> QED BY <2>2, <2>3 DEF value
<1> DEFINE good == {k \in 0 .. N : \A l \in F[k] : Made(l, k)}
<1>5. 0 \in good
  <2>1. Made(<<>>, 0)
    BY DEF Made
  <2> QED BY <1>1, <1>4, <2>1
<1>6. ASSUME NEW k \in 1 .. N, k - 1 \in good PROVE k \in good
  <2>1. ASSUME NEW l \in F[k] PROVE Made(l, k)
    <3>0. l \in Joined(F[k - 1], Expansions(paths[k]))
      BY <1>4
    <3>1. PICK l1 \in F[k - 1], new \in Expansions(paths[k]) : l = l1 \o new
      BY <3>0 DEF Joined
    <3>2. Made(l1, k - 1)
      BY <1>6
    <3> QED BY <3>1, <3>2, MadeStep
  <2> QED BY <1>1, <2>1
<1> HIDE DEF good
<1>7. \A k \in 1 .. N : k - 1 \in good => k \in good
  BY <1>6
<1>8. \A k \in 0 .. N : k \in good
  <2> HIDE DEF N
  <2> QED BY <1>1, <1>5, <1>7, UpTo
<1>9. N \in good
  BY <1>1, <1>8
<1> QED BY <1>2, <1>9 DEF good, Expanded

-----------------------------------------------------------------------------
(* The selection.                                                          *)

\* Score and place order the paths: every rank is that of one of them.
LEMMA RankFacts ==
  ASSUME PathsInv, NEW k \in DOMAIN paths
  PROVE  \E i \in DOMAIN paths : Rank(i) = k
<1> DEFINE N == Len(paths)
           D == DOMAIN paths
           before(i) == {j \in D : Cheaper(j, i)}
<1>1. N \in Nat /\ D = 1 .. N /\ \A i \in D : paths[i].score \in Int
  <2>1. paths \in Seq(PathType)
    BY DEF PathsInv
  <2>2. N \in Nat /\ D = 1 .. N /\ \A i \in D : paths[i] \in PathType
    BY <2>1
  <2> QED BY <2>2 DEF PathType
<1>2. IsFiniteSet(D) /\ Cardinality(D) = N
  <2> HIDE DEF N, D
  <2>1. IsFiniteSet(1 .. N) /\ Cardinality(1 .. N) = N
    BY <1>1, FS_Interval
  <2> QED BY <1>1, <2>1
<1>3. \A i, j \in D : i # j => (Cheaper(i, j) <=> ~Cheaper(j, i))
  BY <1>1 DEF Cheaper
<1>4. \A i, j, l \in D : Cheaper(i, j) /\ Cheaper(j, l) => Cheaper(i, l)
  BY <1>1 DEF Cheaper
<1>5. \A i \in D : ~Cheaper(i, i)
  BY <1>1 DEF Cheaper
<1>6. \A i \in D : Rank(i) = Cardinality(before(i)) + 1
  BY DEF Rank
<1>7. \A i \in D : before(i) \in SUBSET D
  OBVIOUS
<1> HIDE DEF D, N
<1>8. ASSUME NEW i \in D PROVE Rank(i) \in 1 .. N
  <2>1. IsFiniteSet(before(i)) /\ Cardinality(before(i)) <= N /\ (N = Cardinality(before(i)) => D = before(i))
    BY <1>2, <1>7, FS_Subset
  <2>2. Cardinality(before(i)) \in Nat
    BY <2>1, FS_CardinalityType
  <2>3. Cardinality(before(i)) # N
    BY <1>5, <2>1
  <2> QED BY <1>1, <1>6, <2>1, <2>2, <2>3
<1>9. ASSUME NEW i \in D, NEW j \in D, Cheaper(i, j) PROVE Rank(i) # Rank(j)
  <2>1. before(i) \in SUBSET before(j)
    BY <1>4, <1>9
  <2>2. i \in before(j) /\ i \notin before(i)
    BY <1>5, <1>9
  <2>3. IsFiniteSet(before(j))
    BY <1>2, <1>7, FS_Subset
  <2> HIDE DEF before
  <2>4. Cardinality(before(j)) = Cardinality(before(i)) => before(j) = before(i)
    BY <2>1, <2>3, FS_Subset
  <2>5. IsFiniteSet(before(i)) /\ Cardinality(before(i)) \in Nat /\ Cardinality(before(j)) \in Nat
    BY <2>1, <2>3, FS_Subset, FS_CardinalityType
  <2> QED BY <1>6, <2>2, <2>4, <2>5
<1> DEFINE rank == [i \in D |-> Rank(i)]
<1>10. rank \in Injection(D, D)
  <2>1. rank \in [D -> D]
    BY <1>1, <1>8
  <2>2. \A i, j \in D : rank[i] = rank[j] => i = j
    BY <1>3, <1>9
  <2>3. IsInjective(rank)
    BY <2>2 DEF IsInjective
  <2> QED BY <2>1, <2>3 DEF Injection
<1>11. rank \in Surjection(D, D)
  BY <1>2, <1>10, FS_Injection
<1> QED BY <1>11 DEF Surjection, D

\* select_paths keeps paths, beam of them.
LEMMA SelectedFacts ==
  ASSUME ConfigOK, PathsInv, TooMany
  PROVE  /\ Selected \in Seq(PathType) /\ Len(Selected) = config.beam
         /\ \A k \in DOMAIN Selected : \E i \in DOMAIN paths : Selected[k] = paths[i]
<1> DEFINE N == config.beam
<1>1. N \in Nat /\ Len(paths) \in Nat /\ N < Len(paths) /\ DOMAIN paths = 1 .. Len(paths)
  BY DEF ConfigOK, TooMany, PathsInv
<1>2. Selected = [k \in 1 .. N |-> paths[CHOOSE i \in DOMAIN paths : Rank(i) = k]]
  BY DEF Selected
<1>3. ASSUME NEW k \in 1 .. N PROVE \E i \in DOMAIN paths : Selected[k] = paths[i]
  <2>1. k \in DOMAIN paths
    BY <1>1
  <2>2. \E i \in DOMAIN paths : Rank(i) = k
    BY <2>1, RankFacts
  <2>3. (CHOOSE i \in DOMAIN paths : Rank(i) = k) \in DOMAIN paths
    BY <2>2
  <2> QED BY <1>2, <2>3
<1>4. DOMAIN Selected = 1 .. N /\ Len(Selected) = N
  BY <1>1, <1>2
<1>5. \A k \in 1 .. N : Selected[k] \in PathType
  BY <1>3 DEF PathsInv, IsPath
<1>6. Selected \in Seq(PathType)
  <2>1. Selected = [k \in 1 .. N |-> Selected[k]]
    BY <1>2
  <2>2. Selected \in [1 .. N -> PathType]
    BY <1>5, <2>1
  <2> QED BY <1>1, <2>2, SeqDef
<1> QED BY <1>3, <1>4, <1>6

-----------------------------------------------------------------------------
(* The edges on the chains back from the first edges.                      *)

LEMMA StepBackFacts ==
  ASSUME ConfigOK, NEW es \in SUBSET EdgeIds
  PROVE  /\ StepBack(es) \in SUBSET EdgeIds /\ es \subseteq StepBack(es)
         /\ \A x : x \in StepBack(es) <=>
              x \in es \/ \E i \in es : Edge(i).from \notin graph.ui /\ x \in CausesOf(i)
<1>1. \A i : CausesOf(i) \subseteq EdgeIds
  BY GraphFacts DEF ConfigOK, CausesOf
<1>2. \A x : x \in StepBack(es) <=>
        x \in es \/ \E i \in es : Edge(i).from \notin graph.ui /\ x \in CausesOf(i)
  BY DEF StepBack
<1> QED BY <1>1, <1>2

ReachIs(f) ==
  f = [k \in 0 .. Cardinality(EdgeIds) |-> IF k = 0 THEN FirstEdges ELSE StepBack(f[k - 1])]

LEMMA ReachFacts ==
  ASSUME ConfigOK, NEW N, N = Cardinality(EdgeIds)
  PROVE  /\ N \in Nat /\ Reach[0] = FirstEdges
         /\ \A k \in 1 .. N : Reach[k] = StepBack(Reach[k - 1])
         /\ \A k \in 0 .. N : Reach[k] \in SUBSET EdgeIds
<1> DEFINE T == SUBSET EdgeIds
           step == [k \in 1 .. N |-> [es \in T |-> StepBack(es)]]
<1>1. N \in Nat /\ FirstEdges \in T
  BY GraphFacts, FS_CardinalityType DEF ConfigOK
<1>2. \A es \in T : StepBack(es) \in T
  BY StepBackFacts
<1>3. step \in [1 .. N -> [T -> T]] /\ \A k \in 1 .. N : \A es \in T : step[k][es] = StepBack(es)
  BY <1>2
<1> HIDE DEF step, T
<1>4. PICK f \in [0 .. N -> T] : Recursion(f, N, FirstEdges, step)
  BY <1>1, <1>3, RecursionExists
<1>5. f[0] = FirstEdges /\ \A k \in 1 .. N : f[k] = StepBack(f[k - 1])
  <2>1. \A k \in 1 .. N : k - 1 \in 0 .. N
    BY <1>1
  <2> QED BY <1>3, <1>4, <2>1 DEF Recursion
<1>6. ReachIs(f)
  <2> DEFINE value(k) == IF k = 0 THEN FirstEdges ELSE StepBack(f[k - 1])
  <2>1. \A k \in 0 .. N : f[k] = value(k)
    <3>1. \A k \in 0 .. N : k # 0 => k \in 1 .. N
      BY <1>1
    <3> QED BY <1>5, <3>1
  <2> HIDE DEF value
  <2>2. f = [k \in 0 .. N |-> value(k)]
    BY <2>1
  <2> QED BY <2>2 DEF value, ReachIs
<1> DEFINE F == CHOOSE g : ReachIs(g)
<1>7. Reach = F
  BY DEF Reach, ReachIs
<1>8. ReachIs(F)
  BY <1>6
<1> HIDE DEF F
<1>9. F[0] = FirstEdges /\ \A k \in 1 .. N : F[k] = StepBack(F[k - 1])
  <2> DEFINE value(k) == IF k = 0 THEN FirstEdges ELSE StepBack(F[k - 1])
  <2>1. F = [k \in 0 .. N |-> value(k)]
    BY <1>8 DEF ReachIs
  <2> HIDE DEF value
  <2>2. \A k \in 0 .. N : F[k] = value(k)
    BY <2>1
  <2>3. 0 \in 0 .. N /\ \A k \in 1 .. N : k \in 0 .. N /\ k # 0
    BY <1>1
  <2> QED BY <2>2, <2>3 DEF value
<1> DEFINE good == {k \in 0 .. N : F[k] \in T}
<1>10. \A k \in 0 .. N : F[k] \in T
  <2>1. 0 \in good
    BY <1>1, <1>9
  <2>2. \A k \in 1 .. N : k - 1 \in good => k \in good
    BY <1>1, <1>2, <1>9
  <2>3. \A k \in 0 .. N : k \in good
    <3> HIDE DEF good
    <3> QED BY <1>1, <2>1, <2>2, UpTo
  <2> QED BY <2>3
<1> QED BY <1>1, <1>7, <1>9, <1>10 DEF T

\* The limit is the least set with the first edges and the causes of its edges.
LEMMA OnChainsFacts ==
  ASSUME ConfigOK
  PROVE  /\ OnChains \in SUBSET EdgeIds /\ FirstEdges \subseteq OnChains
         /\ \A i \in OnChains : Edge(i).from \notin graph.ui => CausesOf(i) \subseteq OnChains
         /\ \A S \in SUBSET EdgeIds :
              FirstEdges \subseteq S /\ (\A i \in S : Edge(i).from \notin graph.ui => CausesOf(i) \subseteq S)
                => OnChains \subseteq S
<1> DEFINE N == Cardinality(EdgeIds)
           R(k) == Reach[k]
<1>1. /\ N \in Nat /\ R(0) = FirstEdges
      /\ \A k \in 1 .. N : R(k) = StepBack(R(k - 1))
      /\ \A k \in 0 .. N : R(k) \in SUBSET EdgeIds
  BY ReachFacts
<1>2. OnChains = R(N) /\ IsFiniteSet(EdgeIds)
  BY GraphFacts DEF OnChains, ConfigOK
<1>3. \A S \in SUBSET EdgeIds : IsFiniteSet(S) /\ Cardinality(S) \in Nat
  BY <1>2, FS_Subset, FS_CardinalityType
<1>4. \A S \in SUBSET EdgeIds : Cardinality(S) = N => S = EdgeIds
  BY <1>2, FS_Subset
<1>5. \A S \in SUBSET EdgeIds : Cardinality(S) <= N
  BY <1>2, FS_Subset
<1> HIDE DEF R, N
<1> DEFINE Large(k)  == Cardinality(R(k)) >= k
           Closed(k) == StepBack(R(k)) = R(k)
           done == {k \in 0 .. N : Large(k) \/ Closed(k)}
<1>6. \A k \in 0 .. N : k \in done
  <2>1. 0 \in done
    <3>1. 0 \in 0 .. N /\ Cardinality(R(0)) \in Nat
      BY <1>1, <1>3
    <3>2. Large(0)
      BY <3>1
    <3> QED BY <3>1, <3>2
  <2>2. ASSUME NEW k \in 1 .. N, k - 1 \in done PROVE k \in done
    <3>1. R(k - 1) \in SUBSET EdgeIds /\ R(k) \in SUBSET EdgeIds /\ R(k) = StepBack(R(k - 1))
      BY <1>1
    <3>2. k \in 0 .. N /\ (Large(k - 1) \/ Closed(k - 1))
      BY <2>2
    <3>3. CASE Closed(k - 1)
      <4>1. Closed(k)
        BY <3>1, <3>3
      <4> QED BY <3>2, <4>1
    <3>4. CASE Large(k - 1) /\ ~Closed(k - 1)
      <4>1. R(k - 1) \in SUBSET R(k) /\ R(k - 1) # R(k)
        BY <3>1, <3>4, StepBackFacts
      <4>2. Cardinality(R(k - 1)) <= Cardinality(R(k)) /\ Cardinality(R(k)) # Cardinality(R(k - 1))
        BY <1>3, <3>1, <4>1, FS_Subset
      <4>3. Cardinality(R(k - 1)) \in Nat /\ Cardinality(R(k)) \in Nat
        BY <1>3, <3>1
      <4>4. Cardinality(R(k - 1)) >= k - 1
        BY <3>4
      <4>5. Large(k)
        BY <4>2, <4>3, <4>4
      <4> QED BY <3>2, <4>5
    <3> QED BY <3>2, <3>3, <3>4
  <2> HIDE DEF done
  <2>3. \A k \in 1 .. N : k - 1 \in done => k \in done
    BY <2>2
  <2> QED BY <1>1, <2>1, <2>3, UpTo
<1>7. R(N) \in SUBSET EdgeIds /\ (Large(N) \/ Closed(N))
  <2>1. N \in 0 .. N
    BY <1>1
  <2> QED BY <1>1, <1>6, <2>1
<1>8. Closed(N)
  <2>1. CASE Large(N)
    <3>1. Cardinality(R(N)) \in Nat /\ Cardinality(R(N)) <= N
      BY <1>3, <1>5, <1>7
    <3>2. Cardinality(R(N)) = N
      BY <1>1, <2>1, <3>1
    <3>3. R(N) = EdgeIds
      BY <1>4, <1>7, <3>2
    <3> QED BY <3>3, StepBackFacts
  <2> QED BY <1>7, <2>1
<1>9. \A i \in R(N) : Edge(i).from \notin graph.ui => CausesOf(i) \subseteq R(N)
  BY <1>7, <1>8, StepBackFacts
<1>10. FirstEdges \subseteq R(N)
  <2> DEFINE good == {k \in 0 .. N : FirstEdges \subseteq R(k)}
  <2>1. 0 \in good
    BY <1>1
  <2>2. ASSUME NEW k \in 1 .. N, k - 1 \in good PROVE k \in good
    <3>1. R(k - 1) \in SUBSET EdgeIds /\ R(k) = StepBack(R(k - 1)) /\ FirstEdges \subseteq R(k - 1)
      BY <1>1, <2>2
    <3>2. FirstEdges \subseteq R(k)
      BY <3>1, StepBackFacts
    <3> QED BY <3>2
  <2> HIDE DEF good
  <2>3. \A k \in 1 .. N : k - 1 \in good => k \in good
    BY <2>2
  <2>4. N \in 0 .. N
    BY <1>1
  <2>5. N \in good
    BY <1>1, <2>1, <2>3, <2>4, UpTo
  <2> QED BY <2>5 DEF good
<1>11. ASSUME NEW S \in SUBSET EdgeIds, FirstEdges \subseteq S,
              \A i \in S : Edge(i).from \notin graph.ui => CausesOf(i) \subseteq S
       PROVE  R(N) \subseteq S
  <2> DEFINE good == {k \in 0 .. N : R(k) \subseteq S}
  <2>1. 0 \in good
    BY <1>1, <1>11
  <2>2. ASSUME NEW k \in 1 .. N, k - 1 \in good PROVE k \in good
    <3>1. R(k - 1) \in SUBSET EdgeIds /\ R(k) = StepBack(R(k - 1)) /\ R(k - 1) \subseteq S
      BY <1>1, <2>2
    <3>2. R(k) \subseteq S
      BY <1>11, <3>1, StepBackFacts
    <3> QED BY <3>2
  <2> HIDE DEF good
  <2>3. \A k \in 1 .. N : k - 1 \in good => k \in good
    BY <2>2
  <2>4. N \in 0 .. N
    BY <1>1
  <2>5. N \in good
    BY <1>1, <2>1, <2>3, <2>4, UpTo
  <2> QED BY <2>5 DEF good
<1> QED BY <1>2, <1>7, <1>9, <1>10, <1>11

-----------------------------------------------------------------------------
(* The inductive invariant.                                                *)

OnPath(e) == \E n \in DOMAIN paths : Has(paths[n], e)
Ending(e) == \E n \in DOMAIN paths : Last(paths[n].edges) = e

\* A search for the anomaly from which nothing is dropped.
Unpruned == /\ config.beam < 0 /\ ~Parallel /\ mode = "anomaly"
            /\ phase \in {"expand", "prune", "test", "found"}

\* Its paths hold the first edges, and with an edge that no path ends at all causes.
CompleteInv ==
  Unpruned =>
    /\ \A e \in FirstEdges : OnPath(e)
    /\ \A e \in EdgeIds : OnPath(e) /\ Edge(e).from \notin graph.ui
                            => Ending(e) \/ \A c \in CausesOf(e) : OnPath(c)

StartInv == phase = "start" => paths = <<>> /\ mode = "anomaly"

IInv == ConfigOK /\ StartInv /\ PathsInv /\ CompleteInv /\ ResultIsMaximal

LEMMA PathFixed ==
  ASSUME graph' = graph, config' = config
  PROVE  /\ PathType' = PathType /\ \A p : Causes(p)' = Causes(p)
         /\ FirstEdges' = FirstEdges => \A p : IsPath(p)' = IsPath(p)
<1>1. /\ EdgeIds' = EdgeIds
      /\ \A i : Edge(i)' = Edge(i) /\ CausesOf(i)' = CausesOf(i)
      /\ \A es : Total(es)' = Total(es)
  BY SearchFixed
<1>2. PathType' = PathType
  BY <1>1 DEF PathType
<1>3. \A p : Causes(p)' = Causes(p)
  BY <1>1 DEF Causes
<1>4. FirstEdges' = FirstEdges => \A p : IsPath(p)' = IsPath(p)
  BY <1>1, <1>2 DEF IsPath
<1> QED BY <1>2, <1>3, <1>4

\* What the next paths must be.
LEMMA PathsNext ==
  ASSUME graph' = graph, config' = config, FirstEdges' = FirstEdges,
         NEW ps \in Seq(PathType), paths' = ps, \A n \in DOMAIN ps : IsPath(ps[n])
  PROVE  PathsInv'
<1>1. \A p : IsPath(p)' = IsPath(p)
  BY PathFixed
<1>2. PathType' = PathType
  BY PathFixed
<1>3. \A n \in DOMAIN ps : IsPath(ps[n])'
  BY <1>1
<1> QED BY <1>2, <1>3 DEF PathsInv

LEMMA StartPreserves ==
  ASSUME IInv, Start
  PROVE  IInv'
<1>1. /\ ConfigOK /\ paths = <<>> /\ mode = "anomaly"
      /\ graph' = graph /\ config' = config /\ mode' = mode
  BY DEF IInv, Start, StartInv
<1>2. FirstEdges = Earlier(graph.root, graph.deadline) /\ FirstEdges \in SUBSET EdgeIds
  BY <1>1, GraphFacts DEF FirstEdges, ConfigOK
<1>3. /\ FirstEdges' = FirstEdges /\ EdgeIds' = EdgeIds /\ ConfigOK' /\ Parallel' = Parallel
  BY <1>1, SearchFixed
<1>4. StartInv'
  BY DEF Start, StartInv
<1>5. CASE FirstEdges = {}
  <2>1. phase' = "found" /\ paths' = <<>>
    BY <1>1, <1>2, <1>5 DEF Start
  <2>2. PathsInv'
    <3>1. <<>> \in Seq(PathType) /\ DOMAIN <<>> = {}
      OBVIOUS
    <3> QED BY <1>1, <1>3, <2>1, <3>1, PathsNext
  <2>3. DOMAIN (paths') = {}
    BY <2>1
  <2>4. CompleteInv'
    BY <1>3, <1>5, <2>3 DEF CompleteInv, OnPath
  <2>5. ResultIsMaximal'
    <3>1. Len(paths') = 0
      BY <2>1
    <3>2. config'.beam \in Int
      BY <1>3 DEF ConfigOK
    <3> QED BY <2>3, <3>1, <3>2 DEF ResultIsMaximal
  <2> QED BY <1>3, <1>4, <2>2, <2>4, <2>5 DEF IInv
<1>6. CASE FirstEdges # {}
  <2>1. PICK es \in Collapse(FirstEdges) : paths' = [k \in DOMAIN es |-> NewPath(es[k])]
    BY <1>2, <1>6 DEF Start
  <2>2. phase' = "expand"
    BY <1>2, <1>6 DEF Start
  <2>3. \A i, j \in FirstEdges : Edge(i).to = Edge(j).to
    BY <1>2 DEF Earlier
  <2>4. /\ es \in Seq(EdgeIds) /\ \A k \in DOMAIN es : es[k] \in FirstEdges
        /\ ~Parallel => \A i \in FirstEdges : \E k \in DOMAIN es : es[k] = i
    BY <1>1, <1>2, <1>6, <2>3, CollapseFacts DEF ConfigOK
  <2>5. PICK ps : ps = [k \in DOMAIN es |-> NewPath(es[k])]
    OBVIOUS
  <2>6. DOMAIN ps = DOMAIN es /\ \A k \in DOMAIN es : ps[k] = NewPath(es[k])
    BY <2>5
  <2>7. ASSUME NEW k \in DOMAIN ps
        PROVE  IsPath(ps[k]) /\ ps[k].edges = <<es[k]>> /\ es[k] \in EdgeIds
    <3>1. es[k] \in EdgeIds /\ es[k] \in FirstEdges
      BY <1>2, <2>4, <2>6
    <3>2. ps[k] \in PathType /\ ps[k].edges = <<es[k]>> /\ ps[k].score = Total(<<es[k]>>)
      BY <1>1, <2>6, <3>1, NewPathFacts
    <3>3. <<es[k]>> # <<>> /\ <<es[k]>>[1] = es[k] /\ Len(<<es[k]>>) = 1
      OBVIOUS
    <3>4. \A j \in 1 .. Len(ps[k].edges) - 1 : FALSE
      BY <3>2, <3>3
    <3>5. ps[k].edges # <<>> /\ ps[k].edges[1] \in FirstEdges /\ ps[k].score = Total(ps[k].edges)
      BY <3>1, <3>2, <3>3
    <3> QED BY <3>1, <3>2, <3>4, <3>5 DEF IsPath
  <2>8. ps \in Seq(PathType)
    <3>1. \A k \in 1 .. Len(es) : ps[k] \in PathType
      BY <2>4, <2>6, <2>7 DEF IsPath
    <3>2. ps = [k \in 1 .. Len(es) |-> ps[k]] /\ Len(es) \in Nat
      BY <2>4, <2>5, <2>6
    <3>3. ps \in [1 .. Len(es) -> PathType]
      BY <3>1, <3>2
    <3> QED BY <3>2, <3>3, SeqDef
  <2>9. paths' = ps
    BY <2>1, <2>5
  <2>10. PathsInv'
    BY <1>1, <1>3, <2>7, <2>8, <2>9, PathsNext
  <2>11. CompleteInv'
    <3> SUFFICES ASSUME ~Parallel
                 PROVE  /\ \A e \in FirstEdges : OnPath(e)'
                        /\ \A e : OnPath(e)' => Ending(e)'
      BY <1>3 DEF CompleteInv, Unpruned
    <3>1. \A k \in DOMAIN ps : Has(ps[k], es[k]) /\ Last(ps[k].edges) = es[k]
      BY <2>7 DEF Has, Last
    <3>2. \A e \in FirstEdges : OnPath(e)'
      BY <2>4, <2>6, <2>9, <3>1 DEF OnPath
    <3>3. \A k \in DOMAIN ps : \A e : Has(ps[k], e) => e = es[k]
      BY <2>7 DEF Has
    <3>4. \A e : OnPath(e)' => Ending(e)'
      BY <2>9, <3>1, <3>3 DEF OnPath, Ending
    <3> QED BY <3>2, <3>4
  <2>12. ResultIsMaximal'
    BY <2>2 DEF ResultIsMaximal
  <2> QED BY <1>3, <1>4, <2>10, <2>11, <2>12 DEF IInv
<1> QED BY <1>5, <1>6

LEMMA ExpandPreserves ==
  ASSUME IInv, Expand
  PROVE  IInv'
<1>1. /\ ConfigOK /\ PathsInv /\ CompleteInv /\ phase = "expand" /\ phase' = "prune"
      /\ graph' = graph /\ config' = config /\ mode' = mode
  BY DEF IInv, Expand
<1>2. /\ FirstEdges' = FirstEdges /\ EdgeIds' = EdgeIds /\ ConfigOK' /\ Parallel' = Parallel
      /\ \A i : Edge(i)' = Edge(i) /\ CausesOf(i)' = CausesOf(i)
  BY <1>1, SearchFixed
<1>3. PICK ps : ps = paths' /\ Made(ps, Len(paths))
  <2>1. PICK ps : ps = paths'
    OBVIOUS
  <2>2. ps \in Expanded
    BY <2>1 DEF Expand
  <2> QED BY <1>1, <2>1, <2>2, ExpandedFacts
<1>4. /\ DOMAIN paths = 1 .. Len(paths) /\ \A j \in DOMAIN paths : IsPath(paths[j])
  BY <1>1 DEF PathsInv
<1>5. /\ ps \in Seq(PathType)
      /\ \A m \in DOMAIN ps : \E j \in DOMAIN paths : \E new \in Expansions(paths[j]) :
           \E x \in DOMAIN new : ps[m] = new[x]
      /\ \A j \in DOMAIN paths : \E new \in Expansions(paths[j]) :
           \A x \in DOMAIN new : \E m \in DOMAIN ps : ps[m] = new[x]
  BY <1>3, <1>4 DEF Made
<1>6. PathsInv'
  <2>1. ASSUME NEW m \in DOMAIN ps PROVE IsPath(ps[m])
    <3>1. PICK j \in DOMAIN paths : \E new \in Expansions(paths[j]) : \E x \in DOMAIN new : ps[m] = new[x]
      BY <1>5
    <3>2. PICK new \in Expansions(paths[j]) : \E x \in DOMAIN new : ps[m] = new[x]
      BY <3>1
    <3>3. \A k \in DOMAIN new : IsPath(new[k])
      BY <1>1, <1>4, ExpansionsFacts
    <3> QED BY <3>2, <3>3
  <2> QED BY <1>1, <1>2, <1>3, <1>5, <2>1, PathsNext
<1>7. CompleteInv'
  <2> SUFFICES ASSUME Unpruned' PROVE CompleteInv'
    BY DEF CompleteInv
  <2>1. Unpruned /\ ~Parallel
    BY <1>1, <1>2 DEF Unpruned
  <2>2. ASSUME NEW e, OnPath(e) PROVE OnPath(e)'
    <3>1. PICK j \in DOMAIN paths : Has(paths[j], e)
      BY <2>2 DEF OnPath
    <3>2. PICK new \in Expansions(paths[j]) : \A x \in DOMAIN new : \E m \in DOMAIN ps : ps[m] = new[x]
      BY <1>5
    <3>3. PICK k \in DOMAIN new : Has(new[k], e)
      BY <1>1, <1>4, <3>1, ExpansionsFacts
    <3>4. PICK m \in DOMAIN ps : ps[m] = new[k]
      BY <3>2
    <3> QED BY <1>3, <3>3, <3>4 DEF OnPath
  <2>3. ASSUME NEW e, OnPath(e)', ~OnPath(e) PROVE Ending(e)'
    <3>1. PICK m \in DOMAIN ps : Has(ps[m], e)
      BY <1>3, <2>3 DEF OnPath
    <3>2. PICK j \in DOMAIN paths : \E new \in Expansions(paths[j]) : \E x \in DOMAIN new : ps[m] = new[x]
      BY <1>5
    <3>3. PICK new \in Expansions(paths[j]) : \E x \in DOMAIN new : ps[m] = new[x]
      BY <3>2
    <3>4. PICK x \in DOMAIN new : ps[m] = new[x]
      BY <3>3
    <3>5. Has(paths[j], e) \/ Last(new[x].edges) = e
      BY <1>1, <1>4, <3>1, <3>4, ExpansionsFacts
    <3>6. Last(ps[m].edges) = e
      BY <2>3, <3>4, <3>5 DEF OnPath
    <3> QED BY <1>3, <3>6 DEF Ending
  <2>4. ASSUME NEW e \in EdgeIds, Ending(e), Edge(e).from \notin graph.ui, NEW c \in CausesOf(e)
        PROVE  OnPath(c)'
    <3>1. PICK j \in DOMAIN paths : Last(paths[j].edges) = e
      BY <2>4 DEF Ending
    <3>2. IsPath(paths[j])
      BY <1>4
    <3>3. c \in Causes(paths[j]) /\ LastNode(paths[j]) \notin graph.ui
      BY <2>4, <3>1 DEF Causes, LastNode
    <3>4. PICK new \in Expansions(paths[j]) : \A x \in DOMAIN new : \E m \in DOMAIN ps : ps[m] = new[x]
      BY <1>5
    <3>5. PICK k \in DOMAIN new : Last(new[k].edges) = c
      BY <1>1, <2>1, <3>2, <3>3, ExpansionsFacts
    <3>6. IsPath(new[k])
      BY <1>1, <3>2, ExpansionsFacts
    <3>7. Has(new[k], c)
      <4>1. new[k] \in PathType /\ new[k].edges # <<>>
        BY <3>6 DEF IsPath
      <4>2. Len(new[k].edges) \in DOMAIN new[k].edges /\ new[k].edges[Len(new[k].edges)] = c
        BY <3>5, <4>1, LastFacts
      <4> QED BY <4>2 DEF Has
    <3>8. PICK m \in DOMAIN ps : ps[m] = new[k]
      BY <3>4
    <3> QED BY <1>3, <3>7, <3>8 DEF OnPath
  <2>5. \A e \in FirstEdges : OnPath(e)'
    BY <1>1, <2>1, <2>2 DEF CompleteInv
  <2>6. ASSUME NEW e \in EdgeIds, OnPath(e)', Edge(e).from \notin graph.ui, ~Ending(e)', NEW c \in CausesOf(e)
        PROVE  OnPath(c)'
    <3>1. OnPath(e)
      BY <2>3, <2>6
    <3>2. Ending(e) \/ OnPath(c)
      BY <1>1, <2>1, <2>6, <3>1 DEF CompleteInv
    <3> QED BY <2>2, <2>4, <2>6, <3>2
  <2> QED BY <1>1, <1>2, <2>5, <2>6 DEF CompleteInv
<1>8. StartInv' /\ ResultIsMaximal'
  BY <1>1 DEF StartInv, ResultIsMaximal
<1> QED BY <1>2, <1>6, <1>7, <1>8 DEF IInv

\* A step that at most selects among the paths.
LEMMA SelectionPreserves ==
  ASSUME ConfigOK, PathsInv, CompleteInv, phase \in {"prune", "test", "found"},
         graph' = graph, config' = config, mode' = mode,
         paths' = paths \/ (TooMany /\ paths' = Selected)
  PROVE  /\ PathsInv' /\ CompleteInv'
         /\ \A k \in DOMAIN (paths') : \E i \in DOMAIN paths : paths'[k] = paths[i]
<1>1. /\ FirstEdges' = FirstEdges /\ EdgeIds' = EdgeIds /\ Parallel' = Parallel
      /\ \A i : Edge(i)' = Edge(i) /\ CausesOf(i)' = CausesOf(i)
  BY SearchFixed
<1>2. PICK ps : ps = paths'
  OBVIOUS
<1>3. ps \in Seq(PathType) /\ \A k \in DOMAIN ps : \E i \in DOMAIN paths : ps[k] = paths[i]
  <2>1. CASE paths' = paths
    BY <1>2, <2>1 DEF PathsInv
  <2>2. CASE TooMany /\ paths' = Selected
    BY <1>2, <2>2, SelectedFacts
  <2> QED BY <2>1, <2>2
<1>4. PathsInv'
  <2>1. \A n \in DOMAIN ps : IsPath(ps[n])
    BY <1>3 DEF PathsInv
  <2> QED BY <1>1, <1>2, <1>3, <2>1, PathsNext
<1>5. CompleteInv'
  <2> SUFFICES ASSUME Unpruned' PROVE CompleteInv'
    BY DEF CompleteInv
  <2>1. Unpruned
    BY <1>1 DEF Unpruned
  <2>2. paths' = paths
    BY <2>1 DEF Unpruned, TooMany, ConfigOK
  <2>3. \A e : OnPath(e)' = OnPath(e) /\ Ending(e)' = Ending(e)
    BY <2>2 DEF OnPath, Ending
  <2> QED BY <1>1, <2>1, <2>3 DEF CompleteInv
<1> QED BY <1>2, <1>3, <1>4, <1>5

LEMMA PrunePreserves ==
  ASSUME IInv, Prune
  PROVE  IInv'
<1>1. /\ ConfigOK /\ PathsInv /\ CompleteInv /\ phase = "prune" /\ phase' \in {"crashed", "test"}
      /\ graph' = graph /\ config' = config /\ mode' = mode
      /\ paths' = paths \/ (TooMany /\ paths' = Selected)
  BY DEF IInv, Prune
<1>2. PathsInv' /\ CompleteInv'
  BY <1>1, SelectionPreserves
<1>3. ConfigOK'
  BY <1>1, SearchFixed
<1>4. StartInv' /\ ResultIsMaximal'
  BY <1>1 DEF StartInv, ResultIsMaximal
<1> QED BY <1>2, <1>3, <1>4 DEF IInv

LEMMA TestPreserves ==
  ASSUME IInv, Test
  PROVE  IInv'
<1>1. /\ ConfigOK /\ PathsInv /\ CompleteInv /\ phase = "test" /\ phase' \in {"expand", "found"}
      /\ graph' = graph /\ config' = config /\ mode' = mode
      /\ paths' = paths \/ (TooMany /\ paths' = Selected)
  BY DEF IInv, Test
<1>2. /\ PathsInv' /\ CompleteInv'
      /\ \A k \in DOMAIN (paths') : \E i \in DOMAIN paths : paths'[k] = paths[i]
  BY <1>1, SelectionPreserves
<1>3. ConfigOK'
  BY <1>1, SearchFixed
<1>4. StartInv'
  BY <1>1 DEF StartInv
<1>5. ResultIsMaximal'
  <2> SUFFICES ASSUME phase' = "found" PROVE ResultIsMaximal'
    BY DEF ResultIsMaximal
  <2>1. ~CandidatesLeft /\ paths' = IF TooMany THEN Selected ELSE paths
    BY DEF Test
  <2>2. \A i \in DOMAIN paths : Causes(paths[i]) = {}
    BY <2>1 DEF CandidatesLeft
  <2>3. \A p : Causes(p)' = Causes(p)
    BY <1>1, PathFixed
  <2>4. PICK ps : ps = paths'
    OBVIOUS
  <2>5. \A k \in DOMAIN ps : Causes(ps[k])' = {}
    BY <1>2, <2>2, <2>3, <2>4
  <2>6. config.beam >= 0 => Len(ps) <= config.beam
    <3>1. config.beam \in Int /\ Len(paths) \in Nat
      BY <1>1 DEF ConfigOK, PathsInv
    <3>2. CASE TooMany
      <4>1. Len(Selected) = config.beam
        BY <1>1, <3>2, SelectedFacts
      <4> QED BY <2>1, <2>4, <3>1, <3>2, <4>1
    <3>3. CASE ~TooMany
      BY <2>1, <2>4, <3>1, <3>3 DEF TooMany
    <3> QED BY <3>2, <3>3
  <2> QED BY <1>1, <2>4, <2>5, <2>6 DEF ResultIsMaximal
<1> QED BY <1>2, <1>3, <1>4, <1>5 DEF IInv

LEMMA SearchBaselinePreserves ==
  ASSUME IInv, SearchBaseline
  PROVE  IInv'
<1>1. /\ ConfigOK /\ graph \in Graphs /\ graph' = graph /\ config' = config
      /\ mode' = "baseline" /\ phase' \in {"crashed", "expand"}
  BY DEF IInv, SearchBaseline, ConfigOK
<1>2. ConfigOK'
  BY <1>1, SearchFixed
<1>3. StartInv' /\ ResultIsMaximal' /\ CompleteInv'
  BY <1>1 DEF StartInv, ResultIsMaximal, CompleteInv, Unpruned
<1>4. PathsInv'
  <2>1. CASE paths' = <<>>
    BY <2>1 DEF PathsInv
  <2>2. CASE paths' # <<>>
    <3>1. PICK wake \in graph.wakes : wake # NoEdge /\ paths' = <<NewPath(wake)>>
      BY <2>2 DEF SearchBaseline
    <3>2. wake \in EdgeIds
      BY <1>1, <3>1, GraphFacts
    <3>3. PICK p : p = NewPath(wake)
      OBVIOUS
    <3>4. p \in PathType /\ p.edges = <<wake>> /\ p.score = Total(<<wake>>)
      BY <1>1, <3>2, <3>3, NewPathFacts
    <3>5. wake \in FirstEdges'
      BY <1>1, <3>1 DEF FirstEdges
    <3>6. <<wake>> # <<>> /\ <<wake>>[1] = wake /\ Len(<<wake>>) = 1
      OBVIOUS
    <3>7. PathType' = PathType /\ Total(<<wake>>)' = Total(<<wake>>)
      BY <1>1, PathFixed, SearchFixed
    <3>8. \A k \in 1 .. Len(p.edges) - 1 : FALSE
      BY <3>4, <3>6
    <3>9. IsPath(p)'
      BY <3>4, <3>5, <3>6, <3>7, <3>8 DEF IsPath
    <3>10. paths' = <<p>> /\ DOMAIN <<p>> = {1} /\ <<p>>[1] = p /\ <<p>> \in Seq(PathType)
      BY <3>1, <3>3, <3>4
    <3> QED BY <3>7, <3>9, <3>10 DEF PathsInv
  <2> QED BY <2>1, <2>2
<1> QED BY <1>2, <1>3, <1>4 DEF IInv

LEMMA OthersPreserve ==
  ASSUME IInv, NoBaseline \/ Return \/ UNCHANGED vars
  PROVE  IInv'
<1>1. CASE UNCHANGED vars
  <2>1. graph' = graph /\ config' = config /\ mode' = mode /\ phase' = phase /\ paths' = paths
    BY <1>1 DEF vars
  <2>2. /\ FirstEdges' = FirstEdges /\ EdgeIds' = EdgeIds /\ ConfigOK' /\ Parallel' = Parallel
        /\ \A i : Edge(i)' = Edge(i) /\ CausesOf(i)' = CausesOf(i)
    BY <2>1, SearchFixed DEF IInv
  <2>3. PathType' = PathType /\ \A p : Causes(p)' = Causes(p) /\ IsPath(p)' = IsPath(p)
    BY <2>1, <2>2, PathFixed
  <2>4. PathsInv'
    BY <2>1, <2>3 DEF PathsInv, IInv
  <2>5. StartInv'
    BY <2>1 DEF StartInv, IInv
  <2>6. ResultIsMaximal'
    BY <2>1, <2>3 DEF ResultIsMaximal, IInv
  <2>7. CompleteInv'
    <3>1. \A e : (OnPath(e)' <=> OnPath(e)) /\ (Ending(e)' <=> Ending(e))
      BY <2>1 DEF OnPath, Ending
    <3>2. SUFFICES ASSUME Unpruned' PROVE CompleteInv'
      BY DEF CompleteInv
    <3>3. Unpruned
      BY <2>1, <2>2, <3>2 DEF Unpruned
    <3>4. /\ \A e \in FirstEdges : OnPath(e)
          /\ \A e \in EdgeIds : OnPath(e) /\ Edge(e).from \notin graph.ui
                                  => Ending(e) \/ \A c \in CausesOf(e) : OnPath(c)
      BY <3>3 DEF CompleteInv, IInv
    <3> QED BY <2>1, <2>2, <3>1, <3>4 DEF CompleteInv
  <2> QED BY <2>2, <2>4, <2>5, <2>6, <2>7 DEF IInv
<1>2. CASE NoBaseline \/ Return
  <2>1. /\ ConfigOK /\ PathsInv /\ CompleteInv /\ phase = "found" /\ phase' = "ended"
        /\ graph' = graph /\ config' = config /\ mode' = mode /\ paths' \in {paths, <<>>}
    BY <1>2 DEF IInv, NoBaseline, Return
  <2>2. FirstEdges' = FirstEdges /\ ConfigOK'
    BY <2>1, SearchFixed
  <2>3. StartInv' /\ ResultIsMaximal' /\ CompleteInv'
    BY <2>1 DEF StartInv, ResultIsMaximal, CompleteInv, Unpruned
  <2>4. PathsInv'
    <3>1. PICK ps : ps = paths'
      OBVIOUS
    <3>2. CASE ps = paths
      BY <2>1, <2>2, <3>1, <3>2, PathsNext DEF PathsInv
    <3>3. CASE ps = <<>>
      BY <3>1, <3>3 DEF PathsInv
    <3> QED BY <2>1, <3>1, <3>2, <3>3
  <2> QED BY <2>2, <2>3, <2>4 DEF IInv
<1> QED BY <1>1, <1>2

LEMMA InitHolds ==
  ASSUME Init
  PROVE  IInv
<1>1. /\ graph \in Graphs /\ mode = "anomaly" /\ phase = "start" /\ paths = <<>>
      /\ \E b \in Beams, l \in Lookbacks, w \in Weights :
           config = [beam |-> b, lookback |-> l, a |-> w[1], b |-> w[2]]
  BY DEF Init
<1>2. ConfigOK
  BY <1>1, SearchAssumption DEF ConfigOK
<1>3. PathsInv
  BY <1>1 DEF PathsInv
<1>4. StartInv /\ CompleteInv /\ ResultIsMaximal
  BY <1>1 DEF StartInv, CompleteInv, Unpruned, ResultIsMaximal
<1> QED BY <1>2, <1>3, <1>4 DEF IInv

LEMMA NextPreserves ==
  ASSUME IInv, [Next]_vars
  PROVE  IInv'
<1>1. CASE Start
  BY <1>1, StartPreserves
<1>2. CASE Expand
  BY <1>2, ExpandPreserves
<1>3. CASE Prune
  BY <1>3, PrunePreserves
<1>4. CASE Test
  BY <1>4, TestPreserves
<1>5. CASE SearchBaseline
  BY <1>5, SearchBaselinePreserves
<1>6. CASE NoBaseline \/ Return \/ UNCHANGED vars
  BY <1>6, OthersPreserve
<1>7. CASE Stopped
  BY <1>7, OthersPreserve DEF Stopped
<1> QED BY <1>1, <1>2, <1>3, <1>4, <1>5, <1>6, <1>7 DEF Next

-----------------------------------------------------------------------------
(* The theorems.                                                           *)

\* Everything below follows from this.
THEOREM InvariantHolds == Spec => []IInv
<1>1. Init => IInv
  BY InitHolds
<1>2. IInv /\ [Next]_vars => IInv'
  BY NextPreserves
<1> QED BY <1>1, <1>2, PTL DEF Spec

(* A path is a causal chain back from the node the current search is for,  *)
(* with the sum of its penalties for its score (expand_path, PathNode).    *)
THEOREM CausalPaths == Spec => []PathsAreCausal
<1>1. ASSUME IInv PROVE PathsAreCausal
  <2> SUFFICES ASSUME NEW n \in DOMAIN paths
               PROVE  LET es == EdgesOf(paths[n]) IN
                      /\ paths[n].edges # <<>> /\ ToSet(paths[n].edges) \subseteq EdgeIds
                      /\ Head(paths[n].edges) \in FirstEdges
                      /\ \A k \in 1 .. Len(es) - 1 :
                           es[k + 1].to = es[k].from /\ (es[k + 1].weak \/ es[k + 1].got < es[k].sent)
                      /\ paths[n].score = Total(paths[n].edges)
    BY DEF PathsAreCausal
  <2> DEFINE p  == paths[n]
             es == EdgesOf(p)
  <2>1. IsPath(p)
    BY <1>1 DEF IInv, PathsInv
  <2> HIDE DEF p
  <2>2. p.edges \in Seq(EdgeIds) /\ p.edges # <<>> /\ p.score = Total(p.edges)
    BY <2>1 DEF IsPath, PathType
  <2>3. ToSet(p.edges) \subseteq EdgeIds
    BY <2>2 DEF ToSet
  <2>4. Head(p.edges) \in FirstEdges
    BY <2>1, <2>2 DEF IsPath
  <2>5. /\ DOMAIN p.edges = 1 .. Len(p.edges) /\ Len(p.edges) \in Nat
        /\ es = [k \in 1 .. Len(p.edges) |-> Edge(p.edges[k])]
    BY <2>2 DEF EdgesOf
  <2>6. Len(es) = Len(p.edges)
    BY <2>5
  <2>7. ASSUME NEW k \in 1 .. Len(es) - 1
        PROVE  es[k + 1].to = es[k].from /\ (es[k + 1].weak \/ es[k + 1].got < es[k].sent)
    <3>1. k \in 1 .. Len(p.edges) /\ k + 1 \in 1 .. Len(p.edges) /\ k \in 1 .. Len(p.edges) - 1
      BY <2>5, <2>6
    <3>2. p.edges[k + 1] \in CausesOf(p.edges[k])
      BY <2>1, <3>1 DEF IsPath
    <3>3. es[k] = Edge(p.edges[k]) /\ es[k + 1] = Edge(p.edges[k + 1])
      BY <2>5, <3>1
    <3> HIDE DEF es
    <3> QED BY <3>2, <3>3 DEF CausesOf, Earlier
  <2> QED BY <2>2, <2>3, <2>4, <2>7 DEF p
<1>2. IInv => PathsAreCausal
  BY <1>1
<1> QED BY <1>2, InvariantHolds, PTL

(* The search stops only when no path it kept has an earlier cause, and    *)
(* keeps no more paths than the beam (beam_search).                        *)
THEOREM MaximalResult == Spec => []ResultIsMaximal
<1>1. IInv => ResultIsMaximal
  BY DEF IInv
<1> QED BY <1>1, InvariantHolds, PTL

(* Unless the beam prunes it, a search finds the nodes on the chains back  *)
(* from where it starts, all of them unless parallel edges collapse, and   *)
(* no other.                                                               *)
THEOREM EveryCauseFound == Spec => []AllCausesFound
<1>1. ASSUME IInv PROVE AllCausesFound
  <2> SUFFICES ASSUME phase = "found", mode = "anomaly", config.beam < 0
               PROVE  LET found == UNION {NodesOf(paths[k]) : k \in DOMAIN paths} IN
                      /\ found \subseteq Sources(OnChains)
                      /\ Parallel \/ found = Sources(OnChains)
    BY DEF AllCausesFound
  <2> DEFINE found == UNION {NodesOf(paths[k]) : k \in DOMAIN paths}
             S     == {e \in EdgeIds : OnPath(e)}
  <2>1. ConfigOK /\ PathsInv /\ CompleteInv /\ ResultIsMaximal
    BY <1>1 DEF IInv
  <2>2. \A n \in DOMAIN paths : IsPath(paths[n]) /\ paths[n].edges \in Seq(EdgeIds)
    BY <2>1 DEF PathsInv, IsPath, PathType
  <2>3. found = Sources(S)
    <3>1. ASSUME NEW x \in found PROVE x \in Sources(S)
      <4>1. PICK k \in DOMAIN paths : x \in NodesOf(paths[k])
        BY <3>1
      <4>2. PICK i \in ToSet(paths[k].edges) : x = Edge(i).from
        BY <4>1 DEF NodesOf
      <4>3. i \in EdgeIds /\ Has(paths[k], i)
        BY <2>2, <4>2 DEF ToSet, Has
      <4> QED BY <4>2, <4>3 DEF Sources, OnPath
    <3>2. ASSUME NEW x \in Sources(S) PROVE x \in found
      <4>1. PICK i \in S : x = Edge(i).from
        BY DEF Sources
      <4>2. PICK n \in DOMAIN paths : Has(paths[n], i)
        BY <4>1 DEF OnPath
      <4>3. i \in ToSet(paths[n].edges)
        BY <4>2 DEF Has, ToSet
      <4>4. x \in NodesOf(paths[n])
        BY <4>1, <4>3 DEF NodesOf
      <4> QED BY <4>4
    <3> QED BY <3>1, <3>2
  <2> HIDE DEF found
  <2>4. ASSUME NEW n \in DOMAIN paths, NEW j \in DOMAIN paths[n].edges
        PROVE  paths[n].edges[j] \in OnChains
    <3> DEFINE es == paths[n].edges
               good == {i \in 0 .. Len(es) - 1 : es[i + 1] \in OnChains}
    <3>1. es \in Seq(EdgeIds) /\ DOMAIN es = 1 .. Len(es) /\ Len(es) \in Nat /\ Len(es) - 1 \in Nat
      <4>1. es \in Seq(EdgeIds) /\ es # <<>>
        BY <2>2 DEF IsPath
      <4> HIDE DEF es
      <4> QED BY <4>1
    <3>2. 0 \in good
      <4>1. es[1] \in FirstEdges
        BY <2>2 DEF IsPath
      <4> QED BY <2>1, <3>1, <4>1, OnChainsFacts
    <3>3. ASSUME NEW i \in 1 .. Len(es) - 1, i - 1 \in good PROVE i \in good
      <4>1. es[i + 1] \in CausesOf(es[i]) /\ Edge(es[i]).from \notin graph.ui
        BY <2>2 DEF IsPath
      <4>2. es[i] \in OnChains /\ i \in 0 .. Len(es) - 1
        BY <3>1, <3>3
      <4>3. CausesOf(es[i]) \subseteq OnChains
        BY <2>1, <4>1, <4>2, OnChainsFacts
      <4> QED BY <4>1, <4>2, <4>3
    <3>4. \A i \in 1 .. Len(es) - 1 : i - 1 \in good => i \in good
      BY <3>3
    <3>5. j - 1 \in 0 .. Len(es) - 1 /\ (j - 1) + 1 = j
      BY <3>1
    <3>6. \A i \in 0 .. Len(es) - 1 : i \in good
      <4> HIDE DEF good, es
      <4> QED BY <3>1, <3>2, <3>4, UpTo
    <3> QED BY <3>5, <3>6
  <2>5. S \subseteq OnChains
    BY <2>4 DEF OnPath, Has
  <2>6. found \subseteq Sources(OnChains)
    BY <2>3, <2>5 DEF Sources
  <2>7. ASSUME ~Parallel PROVE found = Sources(OnChains)
    <3>1. Unpruned
      BY <2>7 DEF Unpruned
    <3>2. FirstEdges \subseteq S
      BY <2>1, <3>1, GraphFacts DEF CompleteInv, ConfigOK
    <3>3. ASSUME NEW e \in S, Edge(e).from \notin graph.ui, NEW c \in CausesOf(e) PROVE c \in S
      <4>1. ~Ending(e)
        <5> SUFFICES ASSUME NEW n \in DOMAIN paths, Last(paths[n].edges) = e PROVE FALSE
          BY DEF Ending
        <5>1. Causes(paths[n]) = {}
          BY <2>1 DEF ResultIsMaximal
        <5>2. CausesOf(e) = {}
          BY <5>1 DEF Causes
        <5> QED BY <3>3, <5>2
      <4>2. OnPath(c)
        BY <2>1, <3>1, <3>3, <4>1 DEF CompleteInv
      <4>3. c \in EdgeIds
        BY <2>1, GraphFacts DEF CausesOf, ConfigOK
      <4> QED BY <4>2, <4>3
    <3>4. S \in SUBSET EdgeIds /\ \A e \in S : Edge(e).from \notin graph.ui => CausesOf(e) \subseteq S
      BY <3>3
    <3>5. OnChains \subseteq S
      <4> HIDE DEF S
      <4> QED BY <2>1, <3>2, <3>4, OnChainsFacts
    <3> QED BY <2>3, <2>6, <3>5 DEF Sources
  <2> QED BY <2>6, <2>7 DEF found
<1>2. IInv => AllCausesFound
  BY <1>1
<1> QED BY <1>2, InvariantHolds, PTL

===============================================================================
