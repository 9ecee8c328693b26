------------------------- MODULE ThreadDivider_proofs -------------------------
(***************************************************************************)
(* Theorems on the division of a thread, for every thread and every list   *)
(* of events it may leave behind.                                          *)
(*                                                                         *)
(* The parts of the inductive invariant that speak of the divider object   *)
(* are operators of an object d and of the number n of events divided: a   *)
(* step takes d and n to r and n + 1.  The first half says what one event  *)
(* does to the divider object, whatever its kind (HoldingEffect and        *)
(* FilingEffect); the second half is about the specification.              *)
(***************************************************************************)
EXTENDS ThreadDivider, FiniteSetTheorems, SequenceTheorems, TLAPS

-----------------------------------------------------------------------------
(* The divider object: types, and what a group holds.                      *)

Cuts       == {"disp", "wait", "msg_old", "msg_new"}
Group(n)   == [events : Seq(1 .. n), level : Int, peers : SUBSET Peers, cut : SUBSET Cuts]
Divider(n) == [groups : Seq(Group(n)), cur : Nat, voucher : 0 .. n, fake : 0 .. n,
               invokers : Seq(1 .. n), migs : Seq((1 .. n) \cup {Garbage}), rl : Nat]

WellFormed(d, n) ==
  d \in Divider(n) /\ d.cur \in 0 .. Len(d.groups) /\ d.rl \in 0 .. Len(d.groups)

\* No group is empty, and no event is twice in a group or in two.
Filled(d) == \A g \in DOMAIN d.groups : d.groups[g].events # <<>>
Once(d)   ==
  \A g, h \in DOMAIN d.groups :
    \A j \in DOMAIN d.groups[g].events, k \in DOMAIN d.groups[h].events :
      d.groups[g].events[j] = d.groups[h].events[k] => g = h /\ j = k

\* The events, the level and the ties of a group; those of a group yet to be created.
Ev(d, g)    == IF g \in DOMAIN d.groups
               THEN {d.groups[g].events[j] : j \in DOMAIN d.groups[g].events} ELSE {}
Level(d, g) == IF g \in DOMAIN d.groups THEN d.groups[g].level ELSE 0
Ties(d, g)  == IF g \in DOMAIN d.groups THEN d.groups[g].peers ELSE {}

-----------------------------------------------------------------------------
(* Changes of one group.                                                   *)

\* r is d, but for the group g, which is G.
Updated(d, r, g, G) ==
  /\ Len(r.groups) = Len(d.groups) /\ r.groups[g] = G
  /\ \A h \in DOMAIN d.groups : h # g => r.groups[h] = d.groups[h]
  /\ r.cur = d.cur /\ r.voucher = d.voucher /\ r.fake = d.fake
  /\ r.invokers = d.invokers /\ r.migs = d.migs /\ r.rl = d.rl

LEMMA DividerFacts ==
  ASSUME NEW n \in Nat, NEW d, WellFormed(d, n)
  PROVE  /\ d.groups \in Seq(Group(n)) /\ Len(d.groups) \in Nat
         /\ DOMAIN d.groups = 1 .. Len(d.groups)
         /\ \A g \in DOMAIN d.groups :
              /\ d.groups[g] \in Group(n)
              /\ d.groups[g].events \in Seq(1 .. n) /\ d.groups[g].level \in Int
              /\ d.groups[g].peers \subseteq Peers /\ d.groups[g].cut \subseteq Cuts
         /\ d.cur \in 0 .. Len(d.groups) /\ d.rl \in 0 .. Len(d.groups)
         /\ d.voucher \in 0 .. n /\ d.fake \in 0 .. n /\ d.invokers \in Seq(1 .. n)
         /\ d.migs \in Seq((1 .. n) \cup {Garbage})
<1>1. d \in Divider(n)
  BY DEF WellFormed
<1>2. d.groups \in Seq(Group(n))
  BY <1>1 DEF Divider
<1>3. \A g \in DOMAIN d.groups : d.groups[g] \in Group(n)
  BY <1>2
<1>4. /\ d.voucher \in 0 .. n /\ d.fake \in 0 .. n /\ d.invokers \in Seq(1 .. n)
      /\ d.migs \in Seq((1 .. n) \cup {Garbage})
  BY <1>1 DEF Divider
<1> QED BY <1>2, <1>3, <1>4, SMTT(60) DEF WellFormed, Group

LEMMA UpdateFacts ==
  ASSUME NEW n \in Nat, NEW d, WellFormed(d, n), NEW g \in DOMAIN d.groups,
         NEW G \in Group(n)
  PROVE  LET r == [d EXCEPT !.groups[g] = G]
         IN  WellFormed(r, n) /\ Updated(d, r, g, G)
<1> DEFINE r  == [d EXCEPT !.groups[g] = G]
           gs == [d.groups EXCEPT ![g] = G]
<1>1. d \in Divider(n) /\ d.groups \in Seq(Group(n)) /\ DOMAIN d.groups = 1 .. Len(d.groups)
  BY DividerFacts DEF WellFormed
<1>2. gs \in Seq(Group(n)) /\ Len(gs) = Len(d.groups) /\ gs[g] = G
      /\ \A h \in DOMAIN d.groups : h # g => gs[h] = d.groups[h]
  BY <1>1
<1>3. r = [d EXCEPT !.groups = gs]
  OBVIOUS
<1> HIDE DEF gs
<1>4. /\ r \in Divider(n) /\ r.groups = gs /\ r.cur = d.cur /\ r.voucher = d.voucher
      /\ r.fake = d.fake /\ r.invokers = d.invokers /\ r.migs = d.migs /\ r.rl = d.rl
  BY <1>1, <1>2, <1>3 DEF Divider
<1> QED BY <1>2, <1>4 DEF WellFormed, Updated

\* r is d, but for cuts and for the level of the current group, which is x higher.
Alike(d, r, x) ==
  /\ Len(r.groups) = Len(d.groups)
  /\ \A g \in DOMAIN d.groups :
       /\ r.groups[g].events = d.groups[g].events /\ r.groups[g].peers = d.groups[g].peers
       /\ r.groups[g].level = d.groups[g].level + (IF g = d.cur THEN x ELSE 0)
  /\ r.cur = d.cur /\ r.voucher = d.voucher /\ r.fake = d.fake
  /\ r.invokers = d.invokers /\ r.migs = d.migs /\ r.rl = d.rl

LEMMA AlikeFacts ==
  ASSUME NEW n \in Nat, NEW d, WellFormed(d, n), NEW r, WellFormed(r, n),
         NEW x \in Int, Alike(d, r, x), d.cur = None => x = 0
  PROVE  /\ \A g : Ev(r, g) = Ev(d, g) /\ Ties(r, g) = Ties(d, g)
         /\ \A g : Level(r, g) = Level(d, g) + (IF g = d.cur THEN x ELSE 0)
         /\ Once(d) => Once(r)
         /\ \A g \in DOMAIN d.groups : (r.groups[g].events = <<>>) <=> d.groups[g].events = <<>>
<1>1. DOMAIN r.groups = DOMAIN d.groups
  BY DividerFacts DEF Alike
<1>2. \A g \in DOMAIN d.groups :
       /\ r.groups[g].events = d.groups[g].events /\ r.groups[g].peers = d.groups[g].peers
       /\ r.groups[g].level = d.groups[g].level + (IF g = d.cur THEN x ELSE 0)
  BY DEF Alike
<1>3. \A g : Ev(r, g) = Ev(d, g) /\ Ties(r, g) = Ties(d, g)
  <2>1. ASSUME NEW g PROVE Ev(r, g) = Ev(d, g) /\ Ties(r, g) = Ties(d, g)
    <3>1. CASE g \in DOMAIN d.groups
      <4>1. r.groups[g].events = d.groups[g].events /\ r.groups[g].peers = d.groups[g].peers
        BY <1>2, <3>1
      <4> QED BY <1>1, <3>1, <4>1 DEF Ev, Ties
    <3>2. CASE g \notin DOMAIN d.groups
      BY <1>1, <3>2 DEF Ev, Ties
    <3> QED BY <3>1, <3>2
  <2> QED BY <2>1
<1>4. \A g : Level(r, g) = Level(d, g) + (IF g = d.cur THEN x ELSE 0)
  <2>1. d.cur \in 0 .. Len(d.groups) /\ DOMAIN d.groups = 1 .. Len(d.groups)
    BY DividerFacts
  <2>2. d.cur = None \/ d.cur \in DOMAIN d.groups
    BY <2>1 DEF None
  <2>3. ASSUME NEW g, g \notin DOMAIN d.groups
        PROVE  Level(r, g) = Level(d, g) + (IF g = d.cur THEN x ELSE 0)
    BY <1>1, <2>2, <2>3 DEF Level
  <2> QED BY <1>1, <1>2, <2>3 DEF Level
<1>5. Once(d) => Once(r)
  BY <1>1, <1>2 DEF Once
<1> QED BY <1>2, <1>3, <1>4, <1>5

LEMMA CutFacts ==
  ASSUME NEW n \in Nat, NEW d, WellFormed(d, n), NEW why \in Cuts
  PROVE  WellFormed(Cut(d, why), n) /\ Alike(d, Cut(d, why), 0)
<1>0. /\ Len(d.groups) \in Nat /\ DOMAIN d.groups = 1 .. Len(d.groups)
      /\ d.cur \in 0 .. Len(d.groups) /\ \A g \in DOMAIN d.groups : d.groups[g].level \in Int
  BY DividerFacts
<1>1. CASE d.cur = None
  BY <1>0, <1>1 DEF Cut, Alike
<1>2. CASE d.cur # None
  <2> DEFINE G == [d.groups[d.cur] EXCEPT !.cut = @ \cup {why}]
  <2>1. d.cur \in DOMAIN d.groups /\ d.groups[d.cur] \in Group(n)
    <3>1. d.cur \in DOMAIN d.groups
      BY <1>0, <1>2 DEF None
    <3> QED BY <3>1, DividerFacts
  <2>2. /\ G \in Group(n) /\ G.events = d.groups[d.cur].events
        /\ G.level = d.groups[d.cur].level /\ G.peers = d.groups[d.cur].peers
    BY <2>1 DEF Group
  <2>3. Cut(d, why) = [d EXCEPT !.groups[d.cur] = G]
    BY <1>2 DEF Cut
  <2> HIDE DEF G
  <2>4. WellFormed(Cut(d, why), n) /\ Updated(d, Cut(d, why), d.cur, G)
    BY <2>1, <2>2, <2>3, UpdateFacts
  <2> QED BY <1>0, <2>1, <2>2, <2>4, SMTT(60) DEF Updated, Alike
<1> QED BY <1>1, <1>2

\* The level of the current group changes by x.
LEMMA LevelFacts ==
  ASSUME NEW n \in Nat, NEW d, WellFormed(d, n), d.cur # None, NEW x \in Int,
         NEW r, r = [d EXCEPT !.groups[d.cur].level = @ + x]
  PROVE  WellFormed(r, n) /\ Alike(d, r, x)
<1>0. /\ Len(d.groups) \in Nat /\ DOMAIN d.groups = 1 .. Len(d.groups)
      /\ d.cur \in 0 .. Len(d.groups) /\ \A g \in DOMAIN d.groups : d.groups[g].level \in Int
  BY DividerFacts
<1> DEFINE G == [d.groups[d.cur] EXCEPT !.level = @ + x]
<1>1. d.cur \in DOMAIN d.groups /\ d.groups[d.cur] \in Group(n)
  <2>1. d.cur \in DOMAIN d.groups
    BY <1>0 DEF None
  <2> QED BY <2>1, DividerFacts
<1>2. /\ G \in Group(n) /\ G.events = d.groups[d.cur].events
      /\ G.level = d.groups[d.cur].level + x /\ G.peers = d.groups[d.cur].peers
  <2>1. d.groups[d.cur].level + x \in Int
    BY <1>0, <1>1
  <2> QED BY <1>1, <2>1 DEF Group
<1>3. r = [d EXCEPT !.groups[d.cur] = G]
  OBVIOUS
<1> HIDE DEF G
<1>4. WellFormed(r, n) /\ Updated(d, r, d.cur, G)
  BY <1>1, <1>2, <1>3, UpdateFacts
<1> QED BY <1>0, <1>1, <1>2, <1>4, SMTT(60) DEF Updated, Alike

\* Ties are added to the current group.
LEMMA AddPeersFacts ==
  ASSUME NEW n \in Nat, NEW d, WellFormed(d, n), d.cur # None, NEW P \in SUBSET Peers
  PROVE  LET r == AddPeers(d, P)
         IN  /\ WellFormed(r, n)
             /\ Updated(d, r, d.cur, [d.groups[d.cur] EXCEPT !.peers = @ \cup P])
<1>0. /\ Len(d.groups) \in Nat /\ DOMAIN d.groups = 1 .. Len(d.groups)
      /\ d.cur \in 0 .. Len(d.groups)
  BY DividerFacts
<1> DEFINE G == [d.groups[d.cur] EXCEPT !.peers = @ \cup P]
<1>1. d.cur \in DOMAIN d.groups /\ d.groups[d.cur] \in Group(n)
  <2>1. d.cur \in DOMAIN d.groups
    BY <1>0 DEF None
  <2> QED BY <2>1, DividerFacts
<1>2. G \in Group(n)
  BY <1>1 DEF Group
<1>3. AddPeers(d, P) = [d EXCEPT !.groups[d.cur] = G]
  BY DEF AddPeers
<1> HIDE DEF G
<1>4. WellFormed(AddPeers(d, P), n) /\ Updated(d, AddPeers(d, P), d.cur, G)
  BY <1>1, <1>2, <1>3, UpdateFacts
<1> QED BY <1>4 DEF G

\* A new group is current; it holds nothing yet.
LEMMA CreateGroupFacts ==
  ASSUME NEW n \in Nat, NEW d, WellFormed(d, n)
  PROVE  LET r == CreateGroup(d)
         IN  /\ WellFormed(r, n) /\ r.cur = Len(d.groups) + 1 /\ Len(r.groups) = Len(d.groups) + 1
             /\ \A g : Ev(r, g) = Ev(d, g) /\ Ties(r, g) = Ties(d, g) /\ Level(r, g) = Level(d, g)
             /\ Once(d) => Once(r)
             /\ r.voucher = d.voucher /\ r.fake = d.fake
             /\ r.invokers = d.invokers /\ r.migs = d.migs /\ r.rl = d.rl
<1> DEFINE r  == CreateGroup(d)
           gs == Append(d.groups, EmptyGroup)
           m  == Len(d.groups) + 1
<1>1. d \in Divider(n) /\ d.groups \in Seq(Group(n)) /\ DOMAIN d.groups = 1 .. Len(d.groups)
      /\ Len(d.groups) \in Nat /\ d.rl \in 0 .. Len(d.groups)
  BY DividerFacts DEF WellFormed
<1>2. EmptyGroup \in Group(n) /\ EmptyGroup.events = <<>> /\ EmptyGroup.level = 0 /\ EmptyGroup.peers = {}
  BY DEF EmptyGroup, Group
<1>3. /\ gs \in Seq(Group(n)) /\ Len(gs) = m /\ DOMAIN gs = 1 .. m /\ gs[m] = EmptyGroup
      /\ \A g \in DOMAIN d.groups : gs[g] = d.groups[g]
  BY <1>1, <1>2
<1>4. r = [d EXCEPT !.groups = gs, !.cur = m]
  BY DEF CreateGroup
<1>0. m \in Nat
  BY <1>1
<1> HIDE DEF gs, r, m
<1>5. /\ r \in Divider(n) /\ r.groups = gs /\ r.cur = m /\ r.voucher = d.voucher
      /\ r.fake = d.fake /\ r.invokers = d.invokers /\ r.migs = d.migs /\ r.rl = d.rl
  BY <1>0, <1>1, <1>3, <1>4 DEF Divider
<1>6. WellFormed(r, n)
  BY <1>1, <1>3, <1>5 DEF WellFormed, m
<1>7. \A g : g \in DOMAIN gs <=> g \in DOMAIN d.groups \/ g = m
  BY <1>1, <1>3 DEF m
<1>8. m \notin DOMAIN d.groups
  BY <1>1 DEF m
<1>9. ASSUME NEW g
      PROVE  Ev(r, g) = Ev(d, g) /\ Ties(r, g) = Ties(d, g) /\ Level(r, g) = Level(d, g)
  <2>1. CASE g \in DOMAIN d.groups
    BY <1>3, <1>5, <1>7, <2>1 DEF Ev, Ties, Level
  <2>2. CASE g = m
    <3>1. gs[g].events = <<>> /\ gs[g].level = 0 /\ gs[g].peers = {} /\ DOMAIN gs[g].events = {}
      BY <1>2, <1>3, <2>2
    <3> QED BY <1>5, <1>7, <1>8, <2>2, <3>1 DEF Ev, Ties, Level
  <2>3. CASE g \notin DOMAIN gs
    BY <1>5, <1>7, <2>3 DEF Ev, Ties, Level
  <2> QED BY <1>7, <2>1, <2>2, <2>3
<1>10. Once(d) => Once(r)
  <2>1. \A g \in DOMAIN gs : g = m => DOMAIN gs[g].events = {}
    BY <1>2, <1>3
  <2> QED BY <1>3, <1>5, <1>7, <2>1 DEF Once
<1> QED BY <1>3, <1>5, <1>6, <1>9, <1>10 DEF r, m

\* The events of a sequence.
Elements(s) == {s[j] : j \in DOMAIN s}
Injective(s) == \A j, k \in DOMAIN s : s[j] = s[k] => j = k

LEMMA AppendFacts ==
  ASSUME NEW S, NEW s \in Seq(S), NEW x \in S
  PROVE  /\ s \o <<x>> \in Seq(S) /\ Elements(s \o <<x>>) = Elements(s) \cup {x}
         /\ Injective(s) /\ x \notin Elements(s) => Injective(s \o <<x>>)
<1> DEFINE c == s \o <<x>>
<1>1. c \in Seq(S) /\ Len(c) = Len(s) + 1 /\ Len(s) \in Nat /\ DOMAIN s = 1 .. Len(s)
      /\ c[Len(s) + 1] = x /\ \A j \in 1 .. Len(s) : c[j] = s[j]
  OBVIOUS
<1>2. DOMAIN c = 1 .. Len(s) + 1
  BY <1>1
<1> HIDE DEF c
<1>3. Elements(c) = Elements(s) \cup {x}
  <2>1. \A j \in DOMAIN c : j \in DOMAIN s \/ j = Len(s) + 1
    BY <1>1, <1>2
  <2>2. \A j \in DOMAIN s : j \in DOMAIN c
    BY <1>1, <1>2
  <2>3. Len(s) + 1 \in DOMAIN c
    BY <1>1, <1>2
  <2> QED BY <1>1, <2>1, <2>2, <2>3 DEF Elements
<1>4. Injective(s) /\ x \notin Elements(s) => Injective(c)
  <2>1. \A j \in DOMAIN c : j \in DOMAIN s \/ j = Len(s) + 1
    BY <1>1, <1>2
  <2> QED BY <1>1, <2>1 DEF Elements, Injective
<1> QED BY <1>1, <1>3, <1>4 DEF c

\* The wake-up held back and the event itself, at the end of a group.
Joined(s, f, i) == s \o (IF f = None THEN <<>> ELSE <<f>>) \o <<i>>

LEMMA HeldAndEvent ==
  ASSUME NEW n \in Nat, NEW s \in Seq(1 .. n), NEW f \in 0 .. n, NEW i \in 1 .. n
  PROVE  /\ Joined(s, f, i) \in Seq(1 .. n)
         /\ Elements(Joined(s, f, i)) = Elements(s) \cup ({i} \cup ({f} \ {None}))
         /\ Injective(s) /\ f # i /\ i \notin Elements(s) /\ f \notin Elements(s)
              => Injective(Joined(s, f, i))
<1>1. CASE f = None
  <2>1. Joined(s, f, i) = s \o <<>> \o <<i>>
    BY <1>1 DEF Joined
  <2>2. Joined(s, f, i) = s \o <<i>>
    BY <2>1
  <2>3. /\ s \o <<i>> \in Seq(1 .. n) /\ Elements(s \o <<i>>) = Elements(s) \cup {i}
        /\ Injective(s) /\ i \notin Elements(s) => Injective(s \o <<i>>)
    BY AppendFacts
  <2>4. {f} \ {None} = {}
    BY <1>1
  <2> QED BY <2>2, <2>3, <2>4
<1>2. CASE f # None
  <2> DEFINE b == s \o <<f>>
  <2>1. f \in 1 .. n
    BY <1>2 DEF None
  <2>2. /\ b \in Seq(1 .. n) /\ Elements(b) = Elements(s) \cup {f}
        /\ Injective(s) /\ f \notin Elements(s) => Injective(b)
    BY <2>1, AppendFacts
  <2>3. Joined(s, f, i) = b \o <<i>>
    BY <1>2 DEF Joined
  <2> HIDE DEF b
  <2>4. /\ b \o <<i>> \in Seq(1 .. n) /\ Elements(b \o <<i>>) = Elements(b) \cup {i}
        /\ Injective(b) /\ i \notin Elements(b) => Injective(b \o <<i>>)
    BY <2>2, AppendFacts
  <2> QED BY <1>2, <2>2, <2>3, <2>4
<1> QED BY <1>1, <1>2

\* add_general_event_to_group: the wake-up held back and the event go to the current
\* group, or to a new one.
Adds(d, r, t, S, P) ==
  /\ t \in 1 .. Len(d.groups) + 1
  /\ Len(r.groups) = IF t > Len(d.groups) THEN t ELSE Len(d.groups)
  /\ \A g : Ev(r, g) = Ev(d, g) \cup (IF g = t THEN S ELSE {})
  /\ \A g : Ties(r, g) = Ties(d, g) \cup (IF g = t THEN P ELSE {})
  /\ \A g : Level(r, g) = Level(d, g)
  /\ Once(d) /\ (\A x \in S, g \in DOMAIN d.groups : x \notin Ev(d, g)) => Once(r)

Tie(i)       == {PeerOf(i)} \ {NoPeer}
HeldBy(d)    == {d.fake} \ {None}
GoesTo(d, i) == IF d.cur = None \/ LeavesPeers(d, i) THEN Len(d.groups) + 1 ELSE d.cur

\* The events of the current group with event i, and the divider with them.
WithEvent(d, i) == Joined(d.groups[d.cur].events, d.fake, i)
Filed(d, i, P)  == [AddPeers(d, P) EXCEPT !.groups[d.cur].events = WithEvent(d, i), !.fake = None]

LEMMA FileFacts ==
  ASSUME NEW n \in Nat, NEW d, WellFormed(d, n), d.cur # None, NEW i \in 1 .. n, d.fake # i,
         NEW P \in SUBSET Peers
  PROVE  LET r == Filed(d, i, P)
         IN  /\ WellFormed(r, n) /\ Adds(d, r, d.cur, {i} \cup HeldBy(d), P)
             /\ r.cur = d.cur /\ r.voucher = d.voucher /\ r.fake = None
             /\ r.invokers = d.invokers /\ r.migs = d.migs /\ r.rl = d.rl
<1> SUFFICES ASSUME NEW t, t = d.cur, NEW r, r = Filed(d, i, P)
             PROVE  /\ WellFormed(r, n) /\ Adds(d, r, t, {i} \cup HeldBy(d), P)
                    /\ r.cur = t /\ r.voucher = d.voucher /\ r.fake = None
                    /\ r.invokers = d.invokers /\ r.migs = d.migs /\ r.rl = d.rl
  OBVIOUS
<1> DEFINE c == WithEvent(d, i)
           s == d.groups[t].events
           a == AddPeers(d, P)
           A == [d.groups[t] EXCEPT !.peers = @ \cup P]
           G == [A EXCEPT !.events = c]
           b == [a EXCEPT !.groups[t] = G]
<1>1. /\ Len(d.groups) \in Nat /\ DOMAIN d.groups = 1 .. Len(d.groups) /\ d.groups \in Seq(Group(n))
      /\ t \in 0 .. Len(d.groups) /\ d.fake \in 0 .. n
  BY DividerFacts
<1>2. t \in DOMAIN d.groups
  BY <1>1 DEF None
<1>3. /\ d.groups[t] \in Group(n) /\ s \in Seq(1 .. n)
  BY <1>2, DividerFacts
<1>4. /\ c \in Seq(1 .. n) /\ Elements(c) = Elements(s) \cup ({i} \cup HeldBy(d))
      /\ Injective(s) /\ i \notin Elements(s) /\ d.fake \notin Elements(s) => Injective(c)
  <2>1. /\ c \in Seq(1 .. n) /\ Elements(c) = Elements(s) \cup ({i} \cup ({d.fake} \ {None}))
        /\ Injective(s) /\ d.fake # i /\ i \notin Elements(s) /\ d.fake \notin Elements(s)
             => Injective(c)
    <3>1. c = Joined(s, d.fake, i)
      BY DEF WithEvent
    <3> HIDE DEF s, c
    <3>2. s \in Seq(1 .. n) /\ d.fake \in 0 .. n
      BY <1>1, <1>3
    <3>3. ASSUME NEW x \in Seq(1 .. n), NEW f \in 0 .. n
          PROVE  /\ Joined(x, f, i) \in Seq(1 .. n)
                 /\ Elements(Joined(x, f, i)) = Elements(x) \cup ({i} \cup ({f} \ {None}))
                 /\ Injective(x) /\ f # i /\ i \notin Elements(x) /\ f \notin Elements(x)
                      => Injective(Joined(x, f, i))
      BY HeldAndEvent
    <3> QED BY <3>1, <3>2, <3>3
  <2> QED BY <2>1 DEF HeldBy
<1> HIDE DEF c
<1>5. WellFormed(a, n) /\ Updated(d, a, t, A)
  BY AddPeersFacts
<1>6. /\ A \in Group(n) /\ G \in Group(n)
      /\ G.events = c /\ G.level = d.groups[t].level /\ G.peers = d.groups[t].peers \cup P
  BY <1>3, <1>4 DEF Group
<1>7. t \in DOMAIN a.groups /\ a.groups[t] = A /\ DOMAIN a.groups = DOMAIN d.groups
  <2>1. DOMAIN a.groups = 1 .. Len(a.groups)
    BY <1>5, DividerFacts
  <2> QED BY <1>1, <1>2, <1>5, <2>1 DEF Updated
<1>8. r = [b EXCEPT !.fake = None]
  <2>1. G = [a.groups[t] EXCEPT !.events = c]
    BY <1>7
  <2> HIDE DEF G, A
  <2>2. b = [a EXCEPT !.groups[t].events = c]
    BY <2>1
  <2>3. r = [[a EXCEPT !.groups[t].events = c] EXCEPT !.fake = None]
    BY DEF Filed, c
  <2> QED BY <2>2, <2>3
<1> HIDE DEF A, G, a, b, s
<1>9. WellFormed(b, n) /\ Updated(a, b, t, G)
  BY <1>5, <1>6, <1>7, UpdateFacts DEF b
<1>10. /\ WellFormed(r, n) /\ r.groups = b.groups /\ r.cur = b.cur /\ r.voucher = b.voucher
       /\ r.fake = None /\ r.invokers = b.invokers /\ r.migs = b.migs /\ r.rl = b.rl
  <2>1. b \in Divider(n) /\ 0 \in 0 .. n
    BY <1>9 DEF WellFormed
  <2>2. /\ r \in Divider(n) /\ r.groups = b.groups /\ r.cur = b.cur /\ r.voucher = b.voucher
        /\ r.fake = None /\ r.invokers = b.invokers /\ r.migs = b.migs /\ r.rl = b.rl
    BY <1>8, <2>1 DEF Divider, None
  <2> QED BY <1>9, <2>2 DEF WellFormed
<1>11. /\ Len(r.groups) = Len(d.groups) /\ DOMAIN r.groups = DOMAIN d.groups /\ r.groups[t] = G
       /\ \A g \in DOMAIN d.groups : g # t => r.groups[g] = d.groups[g]
  <2>1. DOMAIN r.groups = 1 .. Len(r.groups)
    BY <1>10, DividerFacts
  <2>2. Len(b.groups) = Len(a.groups) /\ b.groups[t] = G
        /\ \A g \in DOMAIN a.groups : g # t => b.groups[g] = a.groups[g]
    BY <1>9 DEF Updated
  <2>3. Len(a.groups) = Len(d.groups)
        /\ \A g \in DOMAIN d.groups : g # t => a.groups[g] = d.groups[g]
    BY <1>5 DEF Updated
  <2>4. r.groups = b.groups
    BY <1>10
  <2> QED BY <1>1, <1>7, <2>1, <2>2, <2>3, <2>4
<1>12. ASSUME NEW g
       PROVE  /\ Ev(r, g) = Ev(d, g) \cup (IF g = t THEN {i} \cup HeldBy(d) ELSE {})
              /\ Ties(r, g) = Ties(d, g) \cup (IF g = t THEN P ELSE {})
              /\ Level(r, g) = Level(d, g)
  <2>1. CASE g = t
    <3>1. Ev(r, g) = Elements(c) /\ Ev(d, g) = Elements(s)
      BY <1>2, <1>6, <1>11, <2>1 DEF Ev, Elements, s
    <3> QED BY <1>2, <1>4, <1>6, <1>11, <2>1, <3>1 DEF Ties, Level
  <2>2. CASE g # t
    BY <1>11, <2>2 DEF Ev, Ties, Level
  <2> QED BY <2>1, <2>2
<1>13. ASSUME Once(d), \A x \in {i} \cup HeldBy(d), g \in DOMAIN d.groups : x \notin Ev(d, g)
       PROVE  Once(r)
  <2>1. Injective(s)
    BY <1>2, <1>13 DEF Once, Injective, s
  <2>2. i \notin Elements(s) /\ d.fake \notin Elements(s)
    <3>1. Ev(d, t) = Elements(s)
      BY <1>2 DEF Ev, Elements, s
    <3>2. None \notin Elements(s)
      BY <1>3 DEF Elements, None
    <3> QED BY <1>2, <1>13, <3>1, <3>2 DEF HeldBy
  <2>3. Injective(c)
    BY <1>4, <2>1, <2>2
  <2>4. ASSUME NEW g \in DOMAIN d.groups, g # t, NEW j \in DOMAIN d.groups[g].events,
               NEW k \in DOMAIN c
        PROVE  d.groups[g].events[j] # c[k]
    <3>1. c[k] \in Elements(s) \cup ({i} \cup HeldBy(d))
      BY <1>4 DEF Elements
    <3>2. d.groups[g].events[j] \in Ev(d, g)
      BY DEF Ev
    <3>3. d.groups[g].events[j] \notin Elements(s)
      BY <1>2, <1>13, <2>4 DEF Once, Elements, s
    <3> QED BY <1>13, <3>1, <3>2, <3>3
  <2>5. ASSUME NEW g \in DOMAIN r.groups, NEW h \in DOMAIN r.groups,
               NEW j \in DOMAIN r.groups[g].events, NEW k \in DOMAIN r.groups[h].events,
               r.groups[g].events[j] = r.groups[h].events[k]
        PROVE  g = h /\ j = k
    <3>0. /\ g \in DOMAIN d.groups /\ h \in DOMAIN d.groups
          /\ r.groups[g].events = IF g = t THEN c ELSE d.groups[g].events
          /\ r.groups[h].events = IF h = t THEN c ELSE d.groups[h].events
      BY <1>6, <1>11
    <3>1. CASE g = t /\ h = t
      BY <2>3, <2>5, <3>0, <3>1 DEF Injective
    <3>2. CASE g = t /\ h # t
      BY <2>4, <2>5, <3>0, <3>2
    <3>3. CASE g # t /\ h = t
      BY <2>4, <2>5, <3>0, <3>3
    <3>4. CASE g # t /\ h # t
      BY <1>13, <2>5, <3>0, <3>4 DEF Once
    <3> QED BY <3>1, <3>2, <3>3, <3>4
  <2> QED BY <2>5 DEF Once
<1>14. t \in 1 .. Len(d.groups) + 1 /\ ~(t > Len(d.groups))
  BY <1>1, <1>2
<1>15. Adds(d, r, t, {i} \cup HeldBy(d), P)
  BY <1>11, <1>12, <1>13, <1>14 DEF Adds
<1> QED BY <1>5, <1>9, <1>10, <1>15 DEF Updated


LEMMA AddGeneralFacts ==
  ASSUME NEW n \in Nat, NEW d, WellFormed(d, n), NEW i \in 1 .. n, d.fake # i,
         PeerOf(i) \in Peers \cup {NoPeer}
  PROVE  LET r == AddGeneral(d, i)
         IN  /\ WellFormed(r, n) /\ Adds(d, r, GoesTo(d, i), {i} \cup HeldBy(d), Tie(i))
             /\ r.cur = GoesTo(d, i) /\ r.voucher = d.voucher /\ r.fake = None
             /\ r.invokers = d.invokers /\ r.migs = d.migs /\ r.rl = d.rl
<1> DEFINE new == d.cur = None \/ LeavesPeers(d, i)
           o   == IF new THEN CreateGroup(d) ELSE d
           r   == AddGeneral(d, i)
           S   == {i} \cup HeldBy(d)
<1>0. Len(d.groups) \in Nat /\ d.cur \in 0 .. Len(d.groups) /\ Tie(i) \in SUBSET Peers
  BY DividerFacts DEF Tie
<1>1. /\ WellFormed(o, n) /\ o.cur = GoesTo(d, i) /\ o.cur # None
      /\ Len(o.groups) = IF new THEN Len(d.groups) + 1 ELSE Len(d.groups)
      /\ \A g : Ev(o, g) = Ev(d, g) /\ Ties(o, g) = Ties(d, g) /\ Level(o, g) = Level(d, g)
      /\ Once(d) => Once(o)
      /\ o.voucher = d.voucher /\ o.fake = d.fake
      /\ o.invokers = d.invokers /\ o.migs = d.migs /\ o.rl = d.rl
  <2>1. CASE new
    <3>1. o = CreateGroup(d) /\ GoesTo(d, i) = Len(d.groups) + 1
      BY <2>1 DEF GoesTo
    <3>2. Len(d.groups) + 1 # None
      BY <1>0 DEF None
    <3> HIDE DEF o, new
    <3> QED BY <2>1, <3>1, <3>2, CreateGroupFacts
  <2>2. CASE ~new
    BY <2>2 DEF GoesTo
  <2> QED BY <2>1, <2>2
<1>2. r = Filed(o, i, Tie(i))
  <2>1. AddPeers(o, Tie(i)).groups[o.cur].events = o.groups[o.cur].events
    <3>1. Updated(o, AddPeers(o, Tie(i)), o.cur, [o.groups[o.cur] EXCEPT !.peers = @ \cup Tie(i)])
      <4> HIDE DEF o
      <4> QED BY <1>0, <1>1, AddPeersFacts
    <3>2. o.groups[o.cur] \in Group(n)
      <4>1. \A g \in DOMAIN o.groups : o.groups[g] \in Group(n)
        BY <1>1, DividerFacts
      <4>2. Len(o.groups) \in Nat /\ DOMAIN o.groups = 1 .. Len(o.groups) /\ o.cur \in 0 .. Len(o.groups)
        BY <1>1, DividerFacts
      <4>3. o.cur \in DOMAIN o.groups
        BY <1>1, <4>2 DEF None
      <4> QED BY <4>1, <4>3
    <3> QED BY <3>1, <3>2 DEF Updated, Group
  <2>2. r = [AddPeers(o, Tie(i)) EXCEPT !.groups[o.cur].events =
               @ \o (IF o.fake = None THEN <<>> ELSE <<o.fake>>) \o <<i>>, !.fake = None]
    BY SMTT(60) DEF AddGeneral, Tie
  <2> QED BY <2>1, <2>2 DEF Filed, WithEvent, Joined
<1> HIDE DEF o, r, new
<1>3. /\ WellFormed(r, n) /\ Adds(o, r, o.cur, S, Tie(i))
      /\ r.cur = o.cur /\ r.voucher = o.voucher /\ r.fake = None
      /\ r.invokers = o.invokers /\ r.migs = o.migs /\ r.rl = o.rl
  <2>1. S = {i} \cup HeldBy(o)
    BY <1>1 DEF HeldBy
  <2>3. WellFormed(o, n) /\ o.cur # None /\ o.fake # i /\ Tie(i) \in SUBSET Peers
    BY <1>0, <1>1
  <2> DEFINE q == Filed(o, i, Tie(i))
  <2>4. /\ WellFormed(q, n) /\ Adds(o, q, o.cur, {i} \cup HeldBy(o), Tie(i))
        /\ q.cur = o.cur /\ q.voucher = o.voucher /\ q.fake = None
        /\ q.invokers = o.invokers /\ q.migs = o.migs /\ q.rl = o.rl
    BY <2>3, FileFacts
  <2> HIDE DEF q
  <2>5. r = q
    BY <1>2 DEF q
  <2> QED BY <2>1, <2>4, <2>5
<1>4. Adds(d, r, o.cur, S, Tie(i))
  <2>1. /\ Len(r.groups) = IF o.cur > Len(o.groups) THEN o.cur ELSE Len(o.groups)
        /\ \A g : Ev(r, g) = Ev(o, g) \cup (IF g = o.cur THEN S ELSE {})
        /\ \A g : Ties(r, g) = Ties(o, g) \cup (IF g = o.cur THEN Tie(i) ELSE {})
        /\ \A g : Level(r, g) = Level(o, g)
        /\ Once(o) /\ (\A x \in S, g \in DOMAIN o.groups : x \notin Ev(o, g)) => Once(r)
    BY <1>3 DEF Adds
  <2>2. \A g : g \notin DOMAIN d.groups => Ev(d, g) = {}
    BY DEF Ev
  <2>3. Once(d) /\ (\A x \in S, g \in DOMAIN d.groups : x \notin Ev(d, g)) => Once(r)
    BY <1>1, <2>1, <2>2
  <2>4. /\ o.cur \in 1 .. Len(d.groups) + 1
        /\ Len(r.groups) = IF o.cur > Len(d.groups) THEN o.cur ELSE Len(d.groups)
    <3>1. CASE new
      <4>1. o.cur = Len(d.groups) + 1 /\ Len(o.groups) = Len(d.groups) + 1
        BY <1>1, <3>1 DEF GoesTo, new
      <4> QED BY <1>0, <2>1, <4>1
    <3>2. CASE ~new
      <4>1. o.cur = d.cur /\ Len(o.groups) = Len(d.groups)
        BY <1>1, <3>2 DEF GoesTo, new
      <4> QED BY <1>0, <1>1, <2>1, <4>1 DEF None
    <3> QED BY <3>1, <3>2
  <2> QED BY <1>1, <2>1, <2>3, <2>4 DEF Adds
<1> QED BY <1>1, <1>3, <1>4 DEF r


-----------------------------------------------------------------------------
(* What one event does.                                                    *)

Fresh(d, x) == \A g \in DOMAIN d.groups : x \notin Ev(d, g)

\* The divider before event i.
Before(d, i) ==
  /\ WellFormed(d, i) /\ Once(d) /\ Fresh(d, i) /\ d.fake # i /\ d.voucher # i
  /\ d.fake # None => Kind(d.fake) = "fake" /\ Fresh(d, d.fake)
  /\ d.voucher # None => Kind(d.voucher) = "voucher" /\ Fresh(d, d.voucher)

\* The events up to i: which have no peer, what a voucher and a block's end carry.
EventOK(i) ==
  /\ PeerOf(i) \in Peers \cup {NoPeer}
  /\ Kind(i) \in {"voucher", "end", "events_end"} => PeerOf(i) = NoPeer
  /\ Kind(i) = "voucher" => events[i].banks \subseteq Peers

\* Event i goes to group t, after the wake-up held back and with the vouchers V.
Filing(d, r, i, t, V) ==
  /\ t \in 1 .. Len(d.groups) + 1
  /\ Len(r.groups) = IF t > Len(d.groups) THEN t ELSE Len(d.groups)
  /\ V \subseteq {d.voucher} \ {None} /\ (V # {} => Kind(i) = "msg")
  /\ \A g : Ev(r, g) = Ev(d, g) \cup (IF g = t THEN {i} \cup HeldBy(d) \cup V ELSE {})
  /\ r.voucher = (IF V = {} THEN d.voucher ELSE None) /\ r.fake = None
  /\ Once(r)

\* Group t is tied to the peer of i; only a message or a cancelled timer may add a
\* second tie, and only a message more than that of i.
Tying(d, r, i, t) ==
  /\ \A g : Ties(d, g) \subseteq Ties(r, g) /\ Ties(r, g) \subseteq Peers
  /\ \A g : g # t => Ties(r, g) = Ties(d, g)
  /\ Tie(i) \subseteq Ties(r, t)
  /\ Kind(i) \notin {"msg", "cancel", "fake"} =>
       /\ Ties(r, t) = Ties(d, t) \cup Tie(i)
       /\ Tie(i) = {} \/ Ties(d, t) = {} \/ Tie(i) \subseteq Ties(d, t)

\* The group that is current when event i is added.
Home(d, i) ==
  CASE Kind(i) = "begin" -> IF events[i].rooted THEN None ELSE d.cur
    [] Kind(i) = "callout" -> None
    [] RunLoop /\ Kind(i) \in {"nsapp", "item_begin"} -> None
    [] RunLoop /\ Kind(i) = "events_begin" -> IF d.cur # d.rl THEN None ELSE d.cur
    [] RunLoop /\ Kind(i) = "events_end" -> d.rl
    [] OTHER -> d.cur

\* It goes there or to a new group, and what is current or saved thereafter.
Moving(d, r, i, t) ==
  /\ t = Home(d, i) \/ t = Len(d.groups) + 1
  /\ Kind(i) \in {"end", "events_end"} /\ Home(d, i) # None => t = Home(d, i)
  /\ IF RunLoop /\ Kind(i) = "item_end" THEN r.cur = d.rl ELSE r.cur \in {None, t}
  /\ Kind(i) = "end" /\ events[events[i].root].rooted => r.cur = None
  /\ RunLoop /\ Kind(i) = "events_end" => r.cur = None
  /\ r.rl = IF RunLoop /\ Kind(i) = "events_begin" THEN t
            ELSE IF RunLoop /\ Kind(i) = "events_end" THEN None ELSE d.rl

\* The stack of blocks, and the levels.
Stacking(d, r, i, t) ==
  /\ r.invokers = CASE Kind(i) = "begin" -> Append(d.invokers, i)
                    [] Kind(i) = "end"   -> Front(d.invokers)
                    [] OTHER             -> d.invokers
  /\ \A g : Level(r, g) = Level(d, g) + (IF Kind(i) = "begin" /\ g = t THEN 1 ELSE 0)
                            - (IF /\ Kind(i) = "end" /\ d.cur # None
                                  /\ GroupOf(d, events[i].root) = d.cur /\ g = d.cur
                               THEN 1 ELSE 0)
  /\ Kind(i) = "wait" /\ Level(r, t) = 0 => r.cur = None

Step(d, r, i) ==
  /\ WellFormed(r, i)
  /\ \E t, V : Filing(d, r, i, t, V) /\ Tying(d, r, i, t) /\ Moving(d, r, i, t) /\ Stacking(d, r, i, t)

\* d and r differ in nothing but the current and saved group, stacks, levels and cuts.
SameContent(d, r) ==
  /\ Len(r.groups) = Len(d.groups)
  /\ \A g : Ev(r, g) = Ev(d, g) /\ Ties(r, g) = Ties(d, g)
  /\ Once(d) => Once(r)
  /\ r.voucher = d.voucher /\ r.fake = d.fake

LEMMA AlikeIsSameContent ==
  ASSUME NEW n \in Nat, NEW d, WellFormed(d, n), NEW r, WellFormed(r, n),
         NEW x \in Int, Alike(d, r, x), d.cur = None => x = 0
  PROVE  SameContent(d, r)
BY AlikeFacts DEF SameContent, Alike

\* Event i is added in b, which has the content of d, and r has that of the result.
LEMMA AddingEffect ==
  ASSUME NEW i \in Nat \ {0}, NEW d, Before(d, i), EventOK(i),
         NEW b, WellFormed(b, i), SameContent(d, b),
         NEW r, SameContent(AddGeneral(b, i), r)
  PROVE  /\ GoesTo(b, i) = IF b.cur = None \/ LeavesPeers(b, i) THEN Len(d.groups) + 1 ELSE b.cur
         /\ Filing(d, r, i, GoesTo(b, i), {}) /\ Tying(d, r, i, GoesTo(b, i))
<1> DEFINE a == AddGeneral(b, i)
           t == GoesTo(b, i)
           S == {i} \cup HeldBy(b)
<1>0. /\ i \in 1 .. i /\ b.fake # i /\ PeerOf(i) \in Peers \cup {NoPeer}
      /\ HeldBy(b) = HeldBy(d) /\ Len(b.groups) = Len(d.groups)
      /\ b.voucher = d.voucher
  BY DEF Before, EventOK, SameContent, HeldBy
<1>1. /\ WellFormed(a, i) /\ Adds(b, a, t, S, Tie(i))
      /\ a.voucher = b.voucher /\ a.fake = None
  BY <1>0, AddGeneralFacts
<1> HIDE DEF a
<1>2. t = IF b.cur = None \/ LeavesPeers(b, i) THEN Len(d.groups) + 1 ELSE b.cur
  BY <1>0 DEF GoesTo
<1> HIDE DEF t
<1>3. /\ Len(r.groups) = Len(a.groups)
      /\ \A g : Ev(r, g) = Ev(a, g) /\ Ties(r, g) = Ties(a, g)
      /\ Once(a) => Once(r)
      /\ r.voucher = a.voucher /\ r.fake = a.fake
  BY DEF SameContent, a
<1>4. /\ \A g : Ev(b, g) = Ev(d, g) /\ Ties(b, g) = Ties(d, g)
      /\ Once(d) => Once(b)
  BY DEF SameContent
<1>5. /\ t \in 1 .. Len(b.groups) + 1
      /\ Len(a.groups) = IF t > Len(b.groups) THEN t ELSE Len(b.groups)
      /\ \A g : Ev(a, g) = Ev(b, g) \cup (IF g = t THEN S ELSE {})
      /\ \A g : Ties(a, g) = Ties(b, g) \cup (IF g = t THEN Tie(i) ELSE {})
      /\ Once(b) /\ (\A x \in S, g \in DOMAIN b.groups : x \notin Ev(b, g)) => Once(a)
  BY <1>1 DEF Adds
<1>6. Once(r)
  <2>1. DOMAIN b.groups = DOMAIN d.groups
    <3>1. DOMAIN b.groups = 1 .. Len(b.groups) /\ DOMAIN d.groups = 1 .. Len(d.groups)
      BY DividerFacts DEF Before
    <3> QED BY <1>0, <3>1
  <2>2. \A x \in S, g \in DOMAIN b.groups : x \notin Ev(b, g)
    BY <1>0, <1>4, <2>1 DEF Before, Fresh, HeldBy
  <2> QED BY <1>3, <1>4, <1>5, <2>2 DEF Before
<1>7. Filing(d, r, i, t, {})
  <2>1. \A g : Ev(r, g) = Ev(d, g) \cup (IF g = t THEN {i} \cup HeldBy(d) \cup {} ELSE {})
    BY <1>0, <1>3, <1>4, <1>5
  <2> QED BY <1>0, <1>1, <1>3, <1>5, <1>6, <2>1 DEF Filing
<1>8. Tying(d, r, i, t)
  <2>1. \A g : Ties(r, g) = Ties(d, g) \cup (IF g = t THEN Tie(i) ELSE {})
    BY <1>3, <1>4, <1>5
  <2>2. \A g : Ties(d, g) \subseteq Peers
    <3>1. \A g \in DOMAIN d.groups : d.groups[g].peers \subseteq Peers
      BY DividerFacts DEF Before
    <3> QED BY <3>1 DEF Ties
  <2>3. Tie(i) \subseteq Peers
    BY <1>0 DEF Tie
  <2>4. ASSUME Kind(i) \notin {"msg", "cancel", "fake"}
        PROVE  Tie(i) = {} \/ Ties(d, t) = {} \/ Tie(i) \subseteq Ties(d, t)
    <3>1. CASE b.cur = None \/ LeavesPeers(b, i)
      <4>1. DOMAIN d.groups = 1 .. Len(d.groups) /\ Len(d.groups) \in Nat
        BY DividerFacts DEF Before
      <4>2. t \notin DOMAIN d.groups
        BY <1>2, <3>1, <4>1
      <4> QED BY <4>2 DEF Ties
    <3>3. CASE ~(b.cur = None \/ LeavesPeers(b, i))
      <4>1. t = b.cur /\ Ties(b, t) = Ties(d, t)
        BY <1>2, <1>4, <3>3
      <4>2. Ties(b, t) = CurGroup(b).peers
        <5>1. DOMAIN b.groups = 1 .. Len(b.groups) /\ b.cur \in 0 .. Len(b.groups)
          BY DividerFacts
        <5>2. b.cur \in DOMAIN b.groups
          BY <3>3, <5>1 DEF None
        <5> QED BY <4>1, <5>2 DEF Ties, CurGroup
      <4> QED BY <2>4, <3>3, <4>1, <4>2 DEF LeavesPeers, Tie
    <3> QED BY <3>1, <3>3
  <2> QED BY <2>1, <2>2, <2>3, <2>4 DEF Tying
<1> QED BY <1>2, <1>7, <1>8 DEF t

\* The pointers and stacks of the divider change, and nothing else.
Repointed(d, c, l, s, m) == [d EXCEPT !.cur = c, !.rl = l, !.invokers = s, !.migs = m]

LEMMA RepointedFacts ==
  ASSUME NEW n \in Nat, NEW d, WellFormed(d, n), NEW c \in 0 .. Len(d.groups),
         NEW l \in 0 .. Len(d.groups), NEW s \in Seq(1 .. n),
         NEW m \in Seq((1 .. n) \cup {Garbage})
  PROVE  LET r == Repointed(d, c, l, s, m)
         IN  /\ WellFormed(r, n) /\ SameContent(d, r) /\ \A g : Level(r, g) = Level(d, g)
             /\ r.groups = d.groups /\ r.cur = c /\ r.rl = l /\ r.invokers = s /\ r.migs = m
<1> DEFINE r == Repointed(d, c, l, s, m)
<1>1. d \in Divider(n) /\ Len(d.groups) \in Nat
  BY DividerFacts DEF WellFormed
<1>2. /\ r \in Divider(n) /\ r.groups = d.groups /\ r.voucher = d.voucher /\ r.fake = d.fake
      /\ r.cur = c /\ r.rl = l /\ r.invokers = s /\ r.migs = m
  <2>1. c \in Nat /\ l \in Nat
    BY <1>1
  <2> QED BY <1>1, <2>1 DEF Divider, Repointed
<1> HIDE DEF r
<1>3. WellFormed(r, n)
  BY <1>2 DEF WellFormed
<1>4. SameContent(d, r) /\ \A g : Level(r, g) = Level(d, g)
  BY <1>2 DEF SameContent, Ev, Ties, Level, Once
<1> QED BY <1>2, <1>3, <1>4 DEF r

\* The group that was current is closed.
LEMMA CloseFacts ==
  ASSUME NEW n \in Nat, NEW d, WellFormed(d, n)
  PROVE  LET r == Close(d)
         IN  /\ WellFormed(r, n) /\ SameContent(d, r) /\ \A g : Level(r, g) = Level(d, g)
             /\ r.groups = d.groups /\ r.cur = None /\ r.rl = d.rl
             /\ r.invokers = d.invokers /\ r.migs = d.migs
<1>1. /\ d.rl \in 0 .. Len(d.groups) /\ d.invokers \in Seq(1 .. n) /\ Len(d.groups) \in Nat
      /\ d.migs \in Seq((1 .. n) \cup {Garbage}) /\ d \in Divider(n)
  BY DividerFacts DEF WellFormed
<1>2. Close(d) = Repointed(d, None, d.rl, d.invokers, d.migs)
  BY <1>1 DEF Close, Repointed, Divider
<1>3. None \in 0 .. Len(d.groups)
  BY <1>1 DEF None
<1> DEFINE r == Repointed(d, None, d.rl, d.invokers, d.migs)
<1>4. /\ WellFormed(r, n) /\ SameContent(d, r) /\ \A g : Level(r, g) = Level(d, g)
      /\ r.groups = d.groups /\ r.cur = None /\ r.rl = d.rl
      /\ r.invokers = d.invokers /\ r.migs = d.migs
  <2>1. ASSUME NEW c \in 0 .. Len(d.groups), NEW l \in 0 .. Len(d.groups),
               NEW s \in Seq(1 .. n), NEW m \in Seq((1 .. n) \cup {Garbage})
        PROVE  LET q == Repointed(d, c, l, s, m)
               IN  /\ WellFormed(q, n) /\ SameContent(d, q) /\ \A g : Level(q, g) = Level(d, g)
                   /\ q.groups = d.groups /\ q.cur = c /\ q.rl = l /\ q.invokers = s /\ q.migs = m
    BY RepointedFacts
  <2> QED BY <1>1, <1>3, <2>1
<1> HIDE DEF r
<1>5. Close(d) = r
  BY <1>2 DEF r
<1> QED BY <1>4, <1>5

\* What a cut and the closing of a group leave as it was.
LEMMA CutCloseFacts ==
  ASSUME NEW n \in Nat, NEW d, WellFormed(d, n), NEW why \in Cuts
  PROVE  LET r == Close(Cut(d, why))
         IN  /\ WellFormed(r, n) /\ SameContent(d, r) /\ \A g : Level(r, g) = Level(d, g)
             /\ r.cur = None /\ r.rl = d.rl /\ r.invokers = d.invokers /\ r.migs = d.migs
<1> DEFINE b == Cut(d, why)
<1>1. WellFormed(b, n) /\ Alike(d, b, 0)
  BY CutFacts
<1> HIDE DEF b
<1>2. /\ SameContent(d, b) /\ b.rl = d.rl /\ b.invokers = d.invokers /\ b.migs = d.migs
  BY <1>1, AlikeIsSameContent DEF Alike
<1>3. \A g : Level(b, g) = Level(d, g)
  <2>1. \A g : Level(b, g) = Level(d, g) + (IF g = d.cur THEN 0 ELSE 0)
    BY <1>1, AlikeFacts
  <2>2. \A g : Level(d, g) \in Int
    <3>1. \A g \in DOMAIN d.groups : d.groups[g].level \in Int
      BY DividerFacts
    <3> QED BY <3>1 DEF Level
  <2>3. ASSUME NEW g PROVE Level(b, g) = Level(d, g)
    BY <2>1, <2>2
  <2> QED BY <2>3
<1>4. LET r == Close(b)
      IN  /\ WellFormed(r, n) /\ SameContent(b, r) /\ \A g : Level(r, g) = Level(b, g)
          /\ r.cur = None /\ r.rl = b.rl /\ r.invokers = b.invokers /\ r.migs = b.migs
  BY <1>1, CloseFacts
<1>5. SameContent(d, Close(b))
  BY <1>2, <1>4 DEF SameContent
<1> QED BY <1>2, <1>3, <1>4, <1>5 DEF b

\* Event i is added in b, which has the content of d.
LEMMA Added ==
  ASSUME NEW i \in Nat \ {0}, NEW d, Before(d, i), EventOK(i),
         NEW b, WellFormed(b, i), SameContent(d, b)
  PROVE  LET a == AddGeneral(b, i)
             t == GoesTo(b, i)
         IN  /\ WellFormed(a, i) /\ a.cur = t /\ t # None
             /\ t = b.cur \/ t = Len(d.groups) + 1
             /\ b.cur = None => t = Len(d.groups) + 1
             /\ Kind(i) \in {"end", "events_end"} /\ b.cur # None => t = b.cur
             /\ a.rl = b.rl /\ a.invokers = b.invokers /\ a.migs = b.migs
             /\ \A g : Level(a, g) = Level(b, g)
             /\ Filing(d, a, i, t, {}) /\ Tying(d, a, i, t)
<1> DEFINE a == AddGeneral(b, i)
           t == GoesTo(b, i)
<1>0. i \in 1 .. i /\ b.fake # i /\ PeerOf(i) \in Peers \cup {NoPeer} /\ Len(d.groups) \in Nat
  BY DividerFacts DEF Before, EventOK, SameContent
<1>1. /\ WellFormed(a, i) /\ Adds(b, a, t, {i} \cup HeldBy(b), Tie(i)) /\ a.cur = t
      /\ a.rl = b.rl /\ a.invokers = b.invokers /\ a.migs = b.migs
  BY <1>0, AddGeneralFacts
<1>2. SameContent(a, a)
  BY DEF SameContent
<1>3. /\ t = IF b.cur = None \/ LeavesPeers(b, i) THEN Len(d.groups) + 1 ELSE b.cur
      /\ Filing(d, a, i, t, {}) /\ Tying(d, a, i, t)
  BY <1>2, AddingEffect
<1>4. ASSUME Kind(i) \in {"end", "events_end"} PROVE ~LeavesPeers(b, i)
  BY <1>4 DEF EventOK, LeavesPeers
<1> HIDE DEF a, t
<1>5. t # None
  BY <1>0, <1>3 DEF None
<1>6. \A g : Level(a, g) = Level(b, g)
  BY <1>1 DEF Adds
<1> QED BY <1>1, <1>3, <1>4, <1>5, <1>6 DEF a, t

LEMMA SameContentKeeps ==
  ASSUME NEW i \in Nat \ {0}, NEW d, NEW a, NEW r, SameContent(a, r), NEW t, NEW V,
         Filing(d, a, i, t, V), Tying(d, a, i, t)
  PROVE  Filing(d, r, i, t, V) /\ Tying(d, r, i, t)
<1>1. /\ Len(r.groups) = Len(a.groups) /\ (Once(a) => Once(r))
      /\ \A g : Ev(r, g) = Ev(a, g) /\ Ties(r, g) = Ties(a, g)
      /\ r.voucher = a.voucher /\ r.fake = a.fake
  BY DEF SameContent
<1>2. Filing(d, r, i, t, V)
  BY <1>1 DEF Filing
<1>3. Tying(d, r, i, t)
  BY <1>1 DEF Tying
<1> QED BY <1>2, <1>3

LEMMA LevelType ==
  ASSUME NEW n \in Nat, NEW d, WellFormed(d, n)
  PROVE  \A g : Level(d, g) \in Int
<1>1. \A g \in DOMAIN d.groups : d.groups[g].level \in Int
  BY DividerFacts
<1> QED BY <1>1 DEF Level

-----------------------------------------------------------------------------
(* One lemma for each handler.                                             *)

\* An event with no handler of its own.
LEMMA GeneralStep ==
  ASSUME NEW i \in Nat \ {0}, NEW d, Before(d, i), EventOK(i), Home(d, i) = d.cur,
         Kind(i) \notin {"begin", "end", "wait"},
         RunLoop => Kind(i) \notin {"events_begin", "events_end", "item_end"}
  PROVE  Step(d, AddGeneral(d, i), i)
<1> DEFINE a == AddGeneral(d, i)
           t == GoesTo(d, i)
<1>1. WellFormed(d, i) /\ SameContent(d, d)
  BY DEF Before, SameContent
<1>2. /\ WellFormed(a, i) /\ a.cur = t /\ (t = d.cur \/ t = Len(d.groups) + 1)
      /\ (Kind(i) \in {"end", "events_end"} /\ d.cur # None => t = d.cur)
      /\ a.rl = d.rl /\ a.invokers = d.invokers
      /\ \A g : Level(a, g) = Level(d, g)
      /\ Filing(d, a, i, t, {}) /\ Tying(d, a, i, t)
  BY <1>1, Added
<1> HIDE DEF a, t
<1>3. Moving(d, a, i, t)
  BY <1>2 DEF Moving
<1>4. Stacking(d, a, i, t)
  <2>1. \A g : Level(d, g) \in Int
    BY <1>1, LevelType
  <2> QED BY <1>2, <2>1 DEF Stacking
<1>5. Step(d, a, i)
  BY <1>2, <1>3, <1>4 DEF Step
<1> QED BY <1>5 DEF a

\* A timer callout, an application event, the beginning of a run-loop item.
LEMMA ApartStep ==
  ASSUME NEW i \in Nat \ {0}, NEW d, Before(d, i), EventOK(i), Home(d, i) = None,
         Kind(i) \in {"callout", "nsapp", "item_begin"}
  PROVE  Step(d, AddGeneral(Close(d), i), i)
<1> DEFINE b == Close(d)
           a == AddGeneral(b, i)
           t == GoesTo(b, i)
<1>1. WellFormed(d, i) /\ \A g : Level(d, g) \in Int
  BY LevelType DEF Before
<1>2. /\ WellFormed(b, i) /\ SameContent(d, b) /\ \A g : Level(b, g) = Level(d, g)
      /\ b.cur = None /\ b.rl = d.rl /\ b.invokers = d.invokers
  BY <1>1, CloseFacts
<1> HIDE DEF b
<1>3. /\ WellFormed(a, i) /\ a.cur = t /\ t = Len(d.groups) + 1
      /\ a.rl = b.rl /\ a.invokers = b.invokers
      /\ \A g : Level(a, g) = Level(b, g)
      /\ Filing(d, a, i, t, {}) /\ Tying(d, a, i, t)
  BY <1>2, Added
<1> HIDE DEF a, t
<1>4. Moving(d, a, i, t)
  BY <1>2, <1>3 DEF Moving
<1>5. Stacking(d, a, i, t)
  BY <1>1, <1>2, <1>3 DEF Stacking
<1>6. Step(d, a, i)
  BY <1>3, <1>4, <1>5 DEF Step
<1> QED BY <1>6 DEF a, b

\* A wait: the group is closed unless a block runs in it.
LEMMA WaitStep ==
  ASSUME NEW i \in Nat \ {0}, NEW d, Before(d, i), EventOK(i), Kind(i) = "wait"
  PROVE  Step(d, Wait(d, i), i)
<1> DEFINE a == AddGeneral(d, i)
           t == GoesTo(d, i)
           r == Wait(d, i)
           k == Close(Cut(a, "wait"))
<1>1. WellFormed(d, i) /\ SameContent(d, d) /\ \A g : Level(d, g) \in Int
  BY LevelType DEF Before, SameContent
<1>2. /\ WellFormed(a, i) /\ a.cur = t /\ t # None /\ (t = d.cur \/ t = Len(d.groups) + 1)
      /\ a.rl = d.rl /\ a.invokers = d.invokers
      /\ \A g : Level(a, g) = Level(d, g)
      /\ Filing(d, a, i, t, {}) /\ Tying(d, a, i, t)
  BY <1>1, Added
<1>3. r = IF CurGroup(a).level = 0 THEN k ELSE a
  BY DEF Wait
<1> HIDE DEF a, t, r
<1>4. CurGroup(a).level = Level(a, t)
  <2>1. DOMAIN a.groups = 1 .. Len(a.groups) /\ a.cur \in 0 .. Len(a.groups)
    BY <1>2, DividerFacts
  <2>2. t \in DOMAIN a.groups
    BY <1>2, <2>1 DEF None
  <2> QED BY <1>2, <2>2 DEF CurGroup, Level
<1>5. /\ WellFormed(k, i) /\ SameContent(a, k) /\ \A g : Level(k, g) = Level(a, g)
      /\ k.cur = None /\ k.rl = a.rl /\ k.invokers = a.invokers
  <2>1. "wait" \in Cuts
    BY DEF Cuts
  <2> QED BY <1>2, <2>1, CutCloseFacts
<1> HIDE DEF k
<1>6. /\ WellFormed(r, i) /\ (r.cur = None \/ (r.cur = t /\ Level(r, t) # 0))
      /\ r.rl = d.rl /\ r.invokers = d.invokers /\ \A g : Level(r, g) = Level(d, g)
  BY <1>2, <1>3, <1>4, <1>5
<1>7. Filing(d, r, i, t, {}) /\ Tying(d, r, i, t)
  <2>1. SameContent(a, r)
    BY <1>3, <1>5 DEF SameContent
  <2> QED BY <1>2, <2>1, SameContentKeeps
<1>8. Moving(d, r, i, t)
  BY <1>2, <1>6 DEF Moving, Home
<1>9. Stacking(d, r, i, t)
  BY <1>1, <1>6 DEF Stacking
<1>10. Step(d, r, i)
  BY <1>6, <1>7, <1>8, <1>9 DEF Step
<1> QED BY <1>10 DEF r

LEMMA FrontFacts ==
  ASSUME NEW S, NEW s \in Seq(S), s # <<>>
  PROVE  /\ Front(s) \in Seq(S) /\ Len(Front(s)) = Len(s) - 1 /\ Len(s) \in Nat \ {0}
         /\ \A j \in 1 .. Len(s) - 1 : Front(s)[j] = s[j]
<1>1. Len(s) \in Nat \ {0} /\ \A j \in 1 .. Len(s) : s[j] \in S
  OBVIOUS
<1>2. Front(s) = [j \in 1 .. Len(s) - 1 |-> s[j]]
  BY <1>1 DEF Front
<1>3. Front(s) \in [1 .. Len(s) - 1 -> S] /\ Len(s) - 1 \in Nat
  BY <1>1, <1>2
<1> QED BY <1>1, <1>2, <1>3

\* The level of the current group falls by one.
LEMMA LowerFacts ==
  ASSUME NEW n \in Nat, NEW d, WellFormed(d, n), d.cur # None,
         NEW r, r = [d EXCEPT !.groups[d.cur].level = @ - 1]
  PROVE  WellFormed(r, n) /\ Alike(d, r, -1)
<1>1. d.groups[d.cur].level \in Int
  <2>1. /\ DOMAIN d.groups = 1 .. Len(d.groups) /\ d.cur \in 0 .. Len(d.groups)
        /\ \A g \in DOMAIN d.groups : d.groups[g].level \in Int
    BY DividerFacts
  <2>2. d.cur \in DOMAIN d.groups
    BY <2>1 DEF None
  <2> QED BY <2>1, <2>2
<1>2. d.groups[d.cur].level - 1 = d.groups[d.cur].level + (-1)
  BY <1>1
<1>3. r = [d EXCEPT !.groups[d.cur].level = @ + (-1)]
  BY <1>2
<1> QED BY <1>3, LevelFacts

\* A block taken from a queue begins.
LEMMA BlockBeginStep ==
  ASSUME NEW i \in Nat \ {0}, NEW d, Before(d, i), EventOK(i), Kind(i) = "begin"
  PROVE  Step(d, BlockBegin(d, i), i)
<1> DEFINE p == [d EXCEPT !.invokers = Append(@, i)]
           b == IF events[i].rooted THEN Close(Cut(p, "disp")) ELSE p
           a == AddGeneral(b, i)
           t == GoesTo(b, i)
           r == BlockBegin(d, i)
<1>1. WellFormed(d, i) /\ \A g : Level(d, g) \in Int
  BY LevelType DEF Before
<1>2. /\ WellFormed(p, i) /\ SameContent(d, p) /\ \A g : Level(p, g) = Level(d, g)
      /\ p.cur = d.cur /\ p.rl = d.rl /\ p.invokers = Append(d.invokers, i)
  <2>1. /\ d.rl \in 0 .. Len(d.groups) /\ d.cur \in 0 .. Len(d.groups) /\ d.invokers \in Seq(1 .. i)
        /\ d.migs \in Seq((1 .. i) \cup {Garbage}) /\ d \in Divider(i)
    BY <1>1, DividerFacts DEF WellFormed
  <2> DEFINE o == Append(d.invokers, i)
  <2>2. o \in Seq(1 .. i)
    BY <2>1
  <2>3. p = Repointed(d, d.cur, d.rl, o, d.migs)
    BY <2>1 DEF Divider, Repointed
  <2> HIDE DEF p, o
  <2>4. ASSUME NEW c \in 0 .. Len(d.groups), NEW l \in 0 .. Len(d.groups),
               NEW s \in Seq(1 .. i), NEW m \in Seq((1 .. i) \cup {Garbage})
        PROVE  LET q == Repointed(d, c, l, s, m)
               IN  /\ WellFormed(q, i) /\ SameContent(d, q) /\ \A g : Level(q, g) = Level(d, g)
                   /\ q.cur = c /\ q.rl = l /\ q.invokers = s
    BY <1>1, RepointedFacts
  <2>5. /\ WellFormed(p, i) /\ SameContent(d, p) /\ \A g : Level(p, g) = Level(d, g)
        /\ p.cur = d.cur /\ p.rl = d.rl /\ p.invokers = o
    BY <2>1, <2>2, <2>3, <2>4
  <2> QED BY <2>5 DEF o
<1> HIDE DEF p
<1>3. /\ WellFormed(b, i) /\ SameContent(d, b) /\ \A g : Level(b, g) = Level(d, g)
      /\ b.cur = Home(d, i) /\ b.rl = d.rl /\ b.invokers = p.invokers
  <2>1. CASE events[i].rooted
    <3> DEFINE k == Close(Cut(p, "disp"))
    <3>1. /\ WellFormed(k, i) /\ SameContent(p, k) /\ \A g : Level(k, g) = Level(p, g)
          /\ k.cur = None /\ k.rl = p.rl /\ k.invokers = p.invokers
      <4>1. "disp" \in Cuts
        BY DEF Cuts
      <4> QED BY <1>2, <4>1, CutCloseFacts
    <3> HIDE DEF k
    <3>2. b = k
      BY <2>1 DEF k
    <3>3. SameContent(d, k)
      BY <1>2, <3>1 DEF SameContent
    <3>4. Home(d, i) = None
      BY <2>1 DEF Home
    <3> QED BY <1>2, <3>1, <3>2, <3>3, <3>4
  <2>2. CASE ~events[i].rooted
    BY <1>2, <2>2 DEF Home
  <2> QED BY <2>1, <2>2
<1> HIDE DEF b
<1>4. /\ WellFormed(a, i) /\ a.cur = t /\ t # None /\ (t = b.cur \/ t = Len(d.groups) + 1)
      /\ a.rl = b.rl /\ a.invokers = b.invokers
      /\ \A g : Level(a, g) = Level(b, g)
      /\ Filing(d, a, i, t, {}) /\ Tying(d, a, i, t)
  BY <1>3, Added
<1>5. r = [a EXCEPT !.groups[a.cur].level = @ + 1]
  BY DEF BlockBegin, a, b, p
<1> HIDE DEF a, t, r
<1>6. WellFormed(r, i) /\ Alike(a, r, 1)
  <2>1. ASSUME NEW q, q = [a EXCEPT !.groups[a.cur].level = @ + 1]
        PROVE  WellFormed(q, i) /\ Alike(a, q, 1)
    <3>1. WellFormed(a, i) /\ a.cur # None /\ 1 \in Int
      BY <1>4
    <3> QED BY <2>1, <3>1, LevelFacts
  <2> QED BY <1>5, <2>1
<1>7. /\ SameContent(a, r) /\ \A g : Level(r, g) = Level(a, g) + (IF g = t THEN 1 ELSE 0)
      /\ r.cur = a.cur /\ r.rl = a.rl /\ r.invokers = a.invokers
  <2>1. a.cur = None => 1 = 0
    BY <1>4
  <2>2. \A g : Level(r, g) = Level(a, g) + (IF g = a.cur THEN 1 ELSE 0)
    BY <1>4, <1>6, <2>1, AlikeFacts
  <2>3. SameContent(a, r)
    BY <1>4, <1>6, <2>1, AlikeIsSameContent
  <2> QED BY <1>4, <1>6, <2>2, <2>3 DEF Alike
<1>8. Filing(d, r, i, t, {}) /\ Tying(d, r, i, t)
  BY <1>4, <1>7, SameContentKeeps
<1>9. Moving(d, r, i, t)
  BY <1>3, <1>4, <1>7 DEF Moving
<1>10. Stacking(d, r, i, t)
  BY <1>1, <1>2, <1>3, <1>4, <1>7 DEF Stacking
<1>11. Step(d, r, i)
  BY <1>6, <1>8, <1>9, <1>10 DEF Step
<1> QED BY <1>11 DEF r

\* The end of a block: it is on top of the stack, as Divide requires.
LEMMA BlockEndStep ==
  ASSUME NEW i \in Nat \ {0}, NEW d, Before(d, i), EventOK(i), Kind(i) = "end",
         d.invokers # <<>>, NEW lucky \in BOOLEAN
  PROVE  Step(d, BlockEnd(d, i, lucky), i)
<1> DEFINE e == events[i].root
           isTop == d.migs # <<>> /\ (Last(d.migs) = e \/ (Last(d.migs) = Garbage /\ lucky))
           p == [d EXCEPT !.invokers = Front(@), !.migs = IF isTop THEN Front(@) ELSE @]
           b == LevelDown(p, e)
           a == AddGeneral(b, i)
           t == GoesTo(b, i)
           r == BlockEnd(d, i, lucky)
           k == Close(Cut(a, "disp"))
           x == IF d.cur # None /\ GroupOf(d, e) = d.cur THEN -1 ELSE 0
<1>1. WellFormed(d, i) /\ \A g : Level(d, g) \in Int
  BY LevelType DEF Before
<1>2. /\ WellFormed(p, i) /\ SameContent(d, p) /\ \A g : Level(p, g) = Level(d, g)
      /\ p.groups = d.groups /\ p.cur = d.cur /\ p.rl = d.rl /\ p.invokers = Front(d.invokers)
  <2>1. /\ d.rl \in 0 .. Len(d.groups) /\ d.cur \in 0 .. Len(d.groups) /\ d.invokers \in Seq(1 .. i)
        /\ d.migs \in Seq((1 .. i) \cup {Garbage}) /\ d \in Divider(i)
    BY <1>1, DividerFacts DEF WellFormed
  <2> DEFINE m == IF isTop THEN Front(d.migs) ELSE d.migs
  <2>2. Front(d.invokers) \in Seq(1 .. i)
    BY <2>1, FrontFacts
  <2>3. m \in Seq((1 .. i) \cup {Garbage})
    BY <2>1, FrontFacts
  <2>4. p = Repointed(d, d.cur, d.rl, Front(d.invokers), m)
    BY <2>1 DEF Divider, Repointed
  <2> HIDE DEF p, m
  <2>5. ASSUME NEW c \in 0 .. Len(d.groups), NEW l \in 0 .. Len(d.groups),
               NEW s \in Seq(1 .. i), NEW n \in Seq((1 .. i) \cup {Garbage})
        PROVE  LET q == Repointed(d, c, l, s, n)
               IN  /\ WellFormed(q, i) /\ SameContent(d, q) /\ \A g : Level(q, g) = Level(d, g)
                   /\ q.groups = d.groups /\ q.cur = c /\ q.rl = l /\ q.invokers = s
    BY <1>1, RepointedFacts, SMTT(60)
  <2> QED BY <2>1, <2>2, <2>3, <2>4, <2>5, SMTT(60)
<1> HIDE DEF p
<1>3. /\ WellFormed(b, i) /\ SameContent(d, b)
      /\ \A g : Level(b, g) = Level(d, g) + (IF g = d.cur THEN x ELSE 0)
      /\ b.cur = d.cur /\ b.rl = d.rl /\ b.invokers = p.invokers
  <2>0. GroupOf(p, e) = GroupOf(d, e)
    BY <1>2 DEF GroupOf
  <2>1. CASE d.cur # None /\ GroupOf(d, e) = d.cur
    <3>1. b = [p EXCEPT !.groups[p.cur].level = @ - 1]
      BY <1>2, <2>0, <2>1 DEF LevelDown
    <3> HIDE DEF b
    <3>2. WellFormed(b, i) /\ Alike(p, b, -1)
      BY <1>2, <2>1, <3>1, LowerFacts
    <3>3. -1 \in Int /\ (p.cur = None => -1 = 0)
      BY <1>2, <2>1
    <3>4. /\ SameContent(p, b) /\ b.cur = p.cur /\ b.rl = p.rl /\ b.invokers = p.invokers
      <4>1. SameContent(p, b)
        BY <1>2, <3>2, <3>3, AlikeIsSameContent
      <4> QED BY <3>2, <4>1 DEF Alike
    <3>5. \A g : Level(b, g) = Level(p, g) + (IF g = p.cur THEN -1 ELSE 0)
      BY <1>2, <3>2, <3>3, AlikeFacts
    <3>6. SameContent(d, b)
      BY <1>2, <3>4 DEF SameContent
    <3> QED BY <1>2, <2>1, <3>2, <3>4, <3>5, <3>6
  <2>2. CASE ~(d.cur # None /\ GroupOf(d, e) = d.cur)
    <3>1. b = p
      BY <1>2, <2>0, <2>2 DEF LevelDown
    <3>2. x = 0
      BY <2>2
    <3> HIDE DEF b, x
    <3> QED BY <1>1, <1>2, <3>1, <3>2
  <2> QED BY <2>1, <2>2
<1> HIDE DEF b, x
<1>4. /\ WellFormed(a, i) /\ a.cur = t /\ t # None /\ (t = b.cur \/ t = Len(d.groups) + 1)
      /\ (b.cur # None => t = b.cur)
      /\ a.rl = b.rl /\ a.invokers = b.invokers
      /\ \A g : Level(a, g) = Level(b, g)
      /\ Filing(d, a, i, t, {}) /\ Tying(d, a, i, t)
  BY <1>3, Added
<1>5. r = IF events[e].rooted THEN k ELSE a
  BY DEF BlockEnd, k, a, b, p
<1> HIDE DEF a, t, r
<1>6. /\ WellFormed(k, i) /\ SameContent(a, k) /\ \A g : Level(k, g) = Level(a, g)
      /\ k.cur = None /\ k.rl = a.rl /\ k.invokers = a.invokers
  <2>1. "disp" \in Cuts
    BY DEF Cuts
  <2> QED BY <1>4, <2>1, CutCloseFacts
<1> HIDE DEF k
<1>7. /\ WellFormed(r, i) /\ SameContent(a, r) /\ \A g : Level(r, g) = Level(a, g)
      /\ (events[e].rooted => r.cur = None) /\ r.cur \in {None, t}
      /\ r.rl = d.rl /\ r.invokers = Front(d.invokers)
  <2>1. SameContent(a, a)
    BY DEF SameContent
  <2> QED BY <1>2, <1>3, <1>4, <1>5, <1>6, <2>1
<1>8. Filing(d, r, i, t, {}) /\ Tying(d, r, i, t)
  BY <1>4, <1>7, SameContentKeeps
<1>9. Moving(d, r, i, t)
  <2>1. Home(d, i) = d.cur
    BY DEF Home
  <2> QED BY <1>3, <1>4, <1>7, <2>1 DEF Moving
<1>10. Stacking(d, r, i, t)
  <2>1. \A g : Level(r, g) = Level(d, g) + 0 - (IF /\ Kind(i) = "end" /\ d.cur # None
                                  /\ GroupOf(d, events[i].root) = d.cur /\ g = d.cur
                               THEN 1 ELSE 0)
    BY <1>1, <1>3, <1>4, <1>7 DEF x
  <2> QED BY <1>7, <2>1 DEF Stacking
<1>11. Step(d, r, i)
  BY <1>7, <1>8, <1>9, <1>10 DEF Step
<1> QED BY <1>11 DEF r

\* One pointer or stack changes.
WithCur(d, c)  == [d EXCEPT !.cur = c]
WithRl(d, l)   == [d EXCEPT !.rl = l]
WithMigs(d, m) == [d EXCEPT !.migs = m]

\* q is d with the pointers x and l.
Pointing(d, q, n, x, l) ==
  /\ WellFormed(q, n) /\ SameContent(d, q) /\ \A g : Level(q, g) = Level(d, g)
  /\ q.cur = x /\ q.rl = l /\ q.invokers = d.invokers

LEMMA PointerFacts ==
  ASSUME NEW n \in Nat, NEW d, WellFormed(d, n), NEW c \in 0 .. Len(d.groups),
         NEW m \in Seq((1 .. n) \cup {Garbage})
  PROVE  /\ Pointing(d, WithCur(d, c), n, c, d.rl)
         /\ Pointing(d, WithRl(d, c), n, d.cur, c)
         /\ Pointing(d, WithMigs(d, m), n, d.cur, d.rl)
<1>1. /\ d.cur \in 0 .. Len(d.groups) /\ d.rl \in 0 .. Len(d.groups) /\ d.invokers \in Seq(1 .. n)
      /\ d.migs \in Seq((1 .. n) \cup {Garbage}) /\ d \in Divider(n)
  BY DividerFacts DEF WellFormed
<1>2. /\ WithCur(d, c) = Repointed(d, c, d.rl, d.invokers, d.migs)
      /\ WithRl(d, c) = Repointed(d, d.cur, c, d.invokers, d.migs)
      /\ WithMigs(d, m) = Repointed(d, d.cur, d.rl, d.invokers, m)
  BY <1>1 DEF Divider, Repointed, WithCur, WithRl, WithMigs
<1>3. ASSUME NEW x \in 0 .. Len(d.groups), NEW l \in 0 .. Len(d.groups),
             NEW o \in Seq((1 .. n) \cup {Garbage})
      PROVE  Pointing(d, Repointed(d, x, l, d.invokers, o), n, x, l)
  <2> DEFINE q == Repointed(d, x, l, d.invokers, o)
  <2>1. /\ WellFormed(q, n) /\ SameContent(d, q) /\ \A g : Level(q, g) = Level(d, g)
        /\ q.cur = x /\ q.rl = l /\ q.invokers = d.invokers
    BY <1>1, RepointedFacts, SMTT(60)
  <2> QED BY <2>1 DEF Pointing
<1> QED BY <1>1, <1>2, <1>3

\* A MIG service routine: inside a block, it closes the group.
LEMMA MigServiceStep ==
  ASSUME NEW i \in Nat \ {0}, NEW d, Before(d, i), EventOK(i), Kind(i) = "mig"
  PROVE  Step(d, MigService(d, i), i)
<1> DEFINE a == AddGeneral(d, i)
           t == GoesTo(d, i)
           x == IF d.invokers = <<>> THEN Garbage ELSE Last(d.invokers)
           m == Append(a.migs, x)
           p == [a EXCEPT !.migs = m]
           k == Close(Cut(p, "disp"))
           r == MigService(d, i)
<1>1. WellFormed(d, i) /\ SameContent(d, d) /\ \A g : Level(d, g) \in Int
  BY LevelType DEF Before, SameContent
<1>2. /\ WellFormed(a, i) /\ a.cur = t /\ (t = d.cur \/ t = Len(d.groups) + 1)
      /\ a.rl = d.rl /\ a.invokers = d.invokers /\ \A g : Level(a, g) = Level(d, g)
      /\ Filing(d, a, i, t, {}) /\ Tying(d, a, i, t)
  BY <1>1, Added
<1>3. r = IF d.invokers = <<>> THEN p ELSE k
  BY DEF MigService
<1> HIDE DEF a, t, r
<1>4. x \in (1 .. i) \cup {Garbage}
  <2>1. d.invokers \in Seq(1 .. i)
    BY <1>1, DividerFacts
  <2>2. CASE d.invokers # <<>>
    <3>1. Len(d.invokers) \in DOMAIN d.invokers
      BY <2>1, <2>2
    <3> QED BY <2>1, <2>2, <3>1 DEF Last
  <2> QED BY <2>2
<1> HIDE DEF x
<1>5. m \in Seq((1 .. i) \cup {Garbage})
  <2>1. a.migs \in Seq((1 .. i) \cup {Garbage})
    BY <1>2, DividerFacts
  <2> QED BY <1>4, <2>1
<1> HIDE DEF m
<1>6. /\ WellFormed(p, i) /\ SameContent(a, p) /\ \A g : Level(p, g) = Level(a, g)
      /\ p.cur = a.cur /\ p.rl = a.rl /\ p.invokers = a.invokers
  <2>1. a.cur \in 0 .. Len(a.groups)
    BY <1>2, DividerFacts
  <2>2. Pointing(a, p, i, a.cur, a.rl)
    BY <1>2, <1>5, <2>1, PointerFacts DEF WithMigs
  <2> QED BY <2>2 DEF Pointing
<1> HIDE DEF p
<1>7. /\ WellFormed(k, i) /\ SameContent(p, k) /\ \A g : Level(k, g) = Level(p, g)
      /\ k.cur = None /\ k.rl = p.rl /\ k.invokers = p.invokers
  <2>1. "disp" \in Cuts
    BY DEF Cuts
  <2> QED BY <1>6, <2>1, CutCloseFacts
<1> HIDE DEF k
<1>8. /\ WellFormed(r, i) /\ SameContent(a, r) /\ \A g : Level(r, g) = Level(d, g)
      /\ r.cur \in {None, t} /\ r.rl = d.rl /\ r.invokers = d.invokers
  <2>1. SameContent(a, k)
    BY <1>6, <1>7 DEF SameContent
  <2> QED BY <1>2, <1>3, <1>6, <1>7, <2>1
<1>9. Filing(d, r, i, t, {}) /\ Tying(d, r, i, t)
  BY <1>2, <1>8, SameContentKeeps
<1>10. Moving(d, r, i, t)
  BY <1>2, <1>8 DEF Moving, Home
<1>11. Stacking(d, r, i, t)
  BY <1>1, <1>8 DEF Stacking
<1>12. Step(d, r, i)
  BY <1>8, <1>9, <1>10, <1>11 DEF Step
<1> QED BY <1>12 DEF r

\* The beginning of a round of run-loop events: its group is saved.
LEMMA EventsBeginStep ==
  ASSUME NEW i \in Nat \ {0}, NEW d, Before(d, i), EventOK(i), RunLoop, Kind(i) = "events_begin"
  PROVE  Step(d, EventsBegin(d, i), i)
<1> DEFINE b == IF d.cur # d.rl THEN Close(d) ELSE d
           a == AddGeneral(b, i)
           t == GoesTo(b, i)
           r == EventsBegin(d, i)
<1>1. WellFormed(d, i) /\ \A g : Level(d, g) \in Int
  BY LevelType DEF Before
<1>2. /\ WellFormed(b, i) /\ SameContent(d, b) /\ \A g : Level(b, g) = Level(d, g)
      /\ b.cur = Home(d, i) /\ b.rl = d.rl /\ b.invokers = d.invokers
  <2>0. Home(d, i) = IF d.cur # d.rl THEN None ELSE d.cur
    BY DEF Home
  <2>1. CASE d.cur # d.rl
    <3>1. LET q == Close(d) IN
          /\ WellFormed(q, i) /\ SameContent(d, q) /\ \A g : Level(q, g) = Level(d, g)
          /\ q.cur = None /\ q.rl = d.rl /\ q.invokers = d.invokers
      BY <1>1, CloseFacts
    <3> QED BY <2>0, <2>1, <3>1
  <2>2. CASE d.cur = d.rl
    <3>1. SameContent(d, d)
      BY DEF SameContent
    <3> QED BY <1>1, <2>0, <2>2, <3>1
  <2> QED BY <2>1, <2>2
<1> HIDE DEF b
<1>3. /\ WellFormed(a, i) /\ a.cur = t /\ (t = b.cur \/ t = Len(d.groups) + 1)
      /\ a.rl = b.rl /\ a.invokers = b.invokers
      /\ \A g : Level(a, g) = Level(b, g)
      /\ Filing(d, a, i, t, {}) /\ Tying(d, a, i, t)
  BY <1>2, Added
<1>4. r = [a EXCEPT !.rl = a.cur]
  BY DEF EventsBegin, a, b
<1> HIDE DEF a, t, r
<1>5. /\ WellFormed(r, i) /\ SameContent(a, r) /\ \A g : Level(r, g) = Level(a, g)
      /\ r.cur = a.cur /\ r.rl = a.cur /\ r.invokers = a.invokers
  <2>1. a.cur \in 0 .. Len(a.groups) /\ a.migs \in Seq((1 .. i) \cup {Garbage})
    BY <1>3, DividerFacts
  <2>2. Pointing(a, r, i, a.cur, a.cur)
    BY <1>3, <1>4, <2>1, PointerFacts DEF WithRl
  <2> QED BY <2>2 DEF Pointing
<1>6. Filing(d, r, i, t, {}) /\ Tying(d, r, i, t)
  BY <1>3, <1>5, SameContentKeeps
<1>7. Moving(d, r, i, t)
  BY <1>2, <1>3, <1>5 DEF Moving
<1>8. Stacking(d, r, i, t)
  BY <1>1, <1>2, <1>3, <1>5 DEF Stacking
<1>9. Step(d, r, i)
  BY <1>5, <1>6, <1>7, <1>8 DEF Step
<1> QED BY <1>9 DEF r

\* The end of a round: it goes to the saved group, which is closed.
LEMMA EventsEndStep ==
  ASSUME NEW i \in Nat \ {0}, NEW d, Before(d, i), EventOK(i), RunLoop, Kind(i) = "events_end"
  PROVE  Step(d, EventsEnd(d, i), i)
<1> DEFINE b == [d EXCEPT !.cur = d.rl]
           a == AddGeneral(b, i)
           t == GoesTo(b, i)
           p == [a EXCEPT !.rl = None]
           r == EventsEnd(d, i)
<1>1. /\ WellFormed(d, i) /\ \A g : Level(d, g) \in Int
  BY LevelType DEF Before
<1>2. /\ WellFormed(b, i) /\ SameContent(d, b) /\ \A g : Level(b, g) = Level(d, g)
      /\ b.cur = d.rl /\ b.rl = d.rl /\ b.invokers = d.invokers
  <2>1. d.rl \in 0 .. Len(d.groups) /\ d.migs \in Seq((1 .. i) \cup {Garbage})
    BY <1>1, DividerFacts
  <2>2. Pointing(d, b, i, d.rl, d.rl)
    BY <1>1, <2>1, PointerFacts DEF WithCur
  <2> QED BY <2>2 DEF Pointing
<1> HIDE DEF b
<1>3. /\ WellFormed(a, i) /\ a.cur = t /\ (t = b.cur \/ t = Len(d.groups) + 1)
      /\ (b.cur # None => t = b.cur)
      /\ a.rl = b.rl /\ a.invokers = b.invokers
      /\ \A g : Level(a, g) = Level(b, g)
      /\ Filing(d, a, i, t, {}) /\ Tying(d, a, i, t)
  BY <1>2, Added
<1>4. r = Close(p)
  BY DEF EventsEnd, a, b
<1> HIDE DEF a, t, r
<1>5. /\ WellFormed(p, i) /\ SameContent(a, p) /\ \A g : Level(p, g) = Level(a, g)
      /\ p.rl = None /\ p.invokers = a.invokers
  <2>1. Len(a.groups) \in Nat /\ a.migs \in Seq((1 .. i) \cup {Garbage})
    BY <1>3, DividerFacts
  <2>2. None \in 0 .. Len(a.groups)
    BY <2>1 DEF None
  <2>3. Pointing(a, p, i, a.cur, None)
    BY <1>3, <2>1, <2>2, PointerFacts DEF WithRl
  <2> QED BY <2>3 DEF Pointing
<1> HIDE DEF p
<1>6. /\ WellFormed(r, i) /\ SameContent(p, r) /\ \A g : Level(r, g) = Level(p, g)
      /\ r.cur = None /\ r.rl = p.rl /\ r.invokers = p.invokers
  BY <1>4, <1>5, CloseFacts
<1>7. Filing(d, r, i, t, {}) /\ Tying(d, r, i, t)
  <2>1. SameContent(a, r)
    BY <1>5, <1>6 DEF SameContent
  <2> QED BY <1>3, <2>1, SameContentKeeps
<1>8. Moving(d, r, i, t)
  <2>1. Home(d, i) = d.rl
    BY DEF Home
  <2> QED BY <1>2, <1>3, <1>5, <1>6, <2>1 DEF Moving
<1>9. Stacking(d, r, i, t)
  BY <1>1, <1>2, <1>3, <1>5, <1>6 DEF Stacking
<1>10. Step(d, r, i)
  BY <1>6, <1>7, <1>8, <1>9 DEF Step
<1> QED BY <1>10 DEF r

\* The end of a run-loop item: the group of the round is current again.
LEMMA ItemEndStep ==
  ASSUME NEW i \in Nat \ {0}, NEW d, Before(d, i), EventOK(i), RunLoop, Kind(i) = "item_end"
  PROVE  Step(d, ItemEnd(d, i), i)
<1> DEFINE a == AddGeneral(d, i)
           t == GoesTo(d, i)
           r == ItemEnd(d, i)
<1>1. WellFormed(d, i) /\ SameContent(d, d) /\ \A g : Level(d, g) \in Int
  BY LevelType DEF Before, SameContent
<1>2. /\ WellFormed(a, i) /\ (t = d.cur \/ t = Len(d.groups) + 1)
      /\ a.rl = d.rl /\ a.invokers = d.invokers /\ \A g : Level(a, g) = Level(d, g)
      /\ Filing(d, a, i, t, {}) /\ Tying(d, a, i, t)
  BY <1>1, Added
<1>3. r = [a EXCEPT !.cur = d.rl]
  BY DEF ItemEnd
<1> HIDE DEF a, t, r
<1>4. /\ WellFormed(r, i) /\ SameContent(a, r) /\ \A g : Level(r, g) = Level(a, g)
      /\ r.cur = d.rl /\ r.rl = a.rl /\ r.invokers = a.invokers
  <2>1. a.rl \in 0 .. Len(a.groups) /\ a.migs \in Seq((1 .. i) \cup {Garbage})
    BY <1>2, DividerFacts
  <2>2. d.rl \in 0 .. Len(a.groups)
    BY <1>2, <2>1
  <2>3. Pointing(a, r, i, d.rl, a.rl)
    BY <1>2, <1>3, <2>1, <2>2, PointerFacts DEF WithCur
  <2> QED BY <2>3 DEF Pointing
<1>5. Filing(d, r, i, t, {}) /\ Tying(d, r, i, t)
  BY <1>2, <1>4, SameContentKeeps
<1>6. Moving(d, r, i, t)
  BY <1>2, <1>4 DEF Moving, Home
<1>7. Stacking(d, r, i, t)
  BY <1>1, <1>2, <1>4 DEF Stacking
<1>8. Step(d, r, i)
  BY <1>4, <1>5, <1>6, <1>7 DEF Step
<1> QED BY <1>8 DEF r

-----------------------------------------------------------------------------
(* A message: it and the voucher it carries go to the current group, or to *)
(* a new one when they tie it to other processes only.                     *)

\* b has the content and the levels of d; what comes next goes to its group c, or to a
\* new one.
Ready(d, b, i, c) ==
  /\ WellFormed(b, i) /\ b.cur = c
  /\ c = d.cur \/ c = Len(d.groups) + 1
  /\ Len(b.groups) = IF c > Len(d.groups) THEN c ELSE Len(d.groups)
  /\ \A g : Ev(b, g) = Ev(d, g) /\ Ties(b, g) = Ties(d, g) /\ Level(b, g) = Level(d, g)
  /\ Once(d) => Once(b)
  /\ b.voucher = d.voucher /\ b.fake = d.fake /\ b.invokers = d.invokers /\ b.rl = d.rl

LEMMA CutIsReady ==
  ASSUME NEW i \in Nat, NEW d, NEW b, NEW c, Ready(d, b, i, c), NEW why \in Cuts
  PROVE  Ready(d, Cut(b, why), i, c)
<1> DEFINE r == Cut(b, why)
<1>1. WellFormed(b, i)
  BY DEF Ready
<1>2. WellFormed(r, i) /\ Alike(b, r, 0)
  BY <1>1, CutFacts
<1> HIDE DEF r
<1>3. SameContent(b, r)
  BY <1>1, <1>2, AlikeIsSameContent
<1>4. \A g : Level(r, g) = Level(b, g)
  <2>1. \A g : Level(r, g) = Level(b, g) + (IF g = b.cur THEN 0 ELSE 0)
    BY <1>1, <1>2, AlikeFacts
  <2>2. \A g : Level(b, g) \in Int
    BY <1>1, LevelType
  <2>3. ASSUME NEW g PROVE Level(r, g) = Level(b, g)
    BY <2>1, <2>2
  <2> QED BY <2>3
<1>5. r.cur = b.cur /\ r.invokers = b.invokers /\ r.rl = b.rl
  BY <1>2 DEF Alike
<1>6. Ready(d, r, i, c)
  BY <1>2, <1>3, <1>4, <1>5 DEF Ready, SameContent
<1> QED BY <1>6 DEF r

\* The group to which a message goes, and its ties.
Split(d, i, P) ==
  ~(events[i].direct \/ d.cur = None \/ CurGroup(d).level > 0)
  /\ P # {} /\ CurGroup(d).peers # {} /\ P \cap CurGroup(d).peers = {}
MsgBase(d, i, P) ==
  IF Split(d, i, P) THEN Cut(CreateGroup(Cut(d, "msg_old")), "msg_new") ELSE d

LEMMA MsgBaseFacts ==
  ASSUME NEW i \in Nat \ {0}, NEW d, WellFormed(d, i), NEW P
  PROVE  \E c : Ready(d, MsgBase(d, i, P), i, c)
<1>1. "msg_old" \in Cuts /\ "msg_new" \in Cuts
  BY DEF Cuts
<1>2. /\ Len(d.groups) \in Nat /\ d.cur \in 0 .. Len(d.groups)
  BY DividerFacts
<1>3. Ready(d, d, i, d.cur)
  BY <1>2 DEF Ready
<1>4. CASE Split(d, i, P)
  <2> DEFINE b == Cut(d, "msg_old")
             o == CreateGroup(b)
             n == Len(d.groups) + 1
  <2>1. Ready(d, b, i, d.cur)
    BY <1>1, <1>3, CutIsReady
  <2>2. /\ WellFormed(b, i) /\ Len(b.groups) = Len(d.groups)
    BY <1>2, <2>1 DEF Ready
  <2> HIDE DEF b
  <2>3. /\ WellFormed(o, i) /\ o.cur = Len(b.groups) + 1 /\ Len(o.groups) = Len(b.groups) + 1
        /\ \A g : Ev(o, g) = Ev(b, g) /\ Ties(o, g) = Ties(b, g) /\ Level(o, g) = Level(b, g)
        /\ Once(b) => Once(o)
        /\ o.voucher = b.voucher /\ o.fake = b.fake /\ o.invokers = b.invokers /\ o.rl = b.rl
    BY <2>2, CreateGroupFacts
  <2> HIDE DEF o
  <2>4. Ready(d, o, i, n)
    BY <1>2, <2>1, <2>2, <2>3 DEF Ready
  <2>5. Ready(d, Cut(o, "msg_new"), i, n)
    BY <1>1, <2>4, CutIsReady
  <2>6. MsgBase(d, i, P) = Cut(o, "msg_new")
    BY <1>4 DEF MsgBase, o, b
  <2> QED BY <2>5, <2>6
<1>5. CASE ~Split(d, i, P)
  BY <1>3, <1>5 DEF MsgBase
<1> QED BY <1>4, <1>5

\* The message and the wake-up held back, then the voucher, are filed in one group.
LEMMA MsgAddsFacts ==
  ASSUME NEW i \in Nat \ {0}, NEW d, Before(d, i), EventOK(i), Kind(i) = "msg",
         NEW b, NEW c, Ready(d, b, i, c)
  PROVE  LET a == AddGeneral(b, i)
             t == GoesTo(b, i)
         IN  /\ WellFormed(a, i) /\ a.cur = t /\ t # None
             /\ t = d.cur \/ t = Len(d.groups) + 1
             /\ t \in 1 .. Len(d.groups) + 1
             /\ Len(a.groups) = IF t > Len(d.groups) THEN t ELSE Len(d.groups)
             /\ \A g : Ev(a, g) = Ev(d, g) \cup (IF g = t THEN {i} \cup HeldBy(d) ELSE {})
             /\ \A g : Ties(a, g) = Ties(d, g) \cup (IF g = t THEN Tie(i) ELSE {})
             /\ \A g : Level(a, g) = Level(d, g)
             /\ Once(a) /\ a.voucher = d.voucher /\ a.fake = None
             /\ a.invokers = d.invokers /\ a.rl = d.rl
<1> DEFINE a == AddGeneral(b, i)
           t == GoesTo(b, i)
           S == {i} \cup HeldBy(b)
<1>1. /\ WellFormed(b, i) /\ b.cur = c
      /\ c = d.cur \/ c = Len(d.groups) + 1
      /\ Len(b.groups) = IF c > Len(d.groups) THEN c ELSE Len(d.groups)
      /\ \A g : Ev(b, g) = Ev(d, g) /\ Ties(b, g) = Ties(d, g) /\ Level(b, g) = Level(d, g)
      /\ b.voucher = d.voucher /\ b.fake = d.fake /\ b.invokers = d.invokers /\ b.rl = d.rl
  BY DEF Ready
<1>2. /\ WellFormed(d, i) /\ Len(d.groups) \in Nat /\ d.cur \in 0 .. Len(d.groups)
      /\ DOMAIN d.groups = 1 .. Len(d.groups) /\ DOMAIN b.groups = 1 .. Len(b.groups)
  BY <1>1, DividerFacts DEF Before
<1>3. /\ i \in 1 .. i /\ b.fake # i /\ PeerOf(i) \in Peers \cup {NoPeer} /\ HeldBy(b) = HeldBy(d)
  BY <1>1 DEF Before, EventOK, HeldBy
<1>4. /\ WellFormed(a, i) /\ Adds(b, a, t, S, Tie(i)) /\ a.cur = t
      /\ a.voucher = b.voucher /\ a.fake = None
      /\ a.invokers = b.invokers /\ a.rl = b.rl
  BY <1>1, <1>3, AddGeneralFacts
<1>5. t = IF c = None THEN Len(b.groups) + 1 ELSE c
  BY <1>1 DEF GoesTo, LeavesPeers
<1> HIDE DEF a, t
<1>6. /\ t # None /\ (t = d.cur \/ t = Len(d.groups) + 1) /\ t \in 1 .. Len(d.groups) + 1
  BY <1>1, <1>2, <1>5 DEF None
<1>7. Len(a.groups) = IF t > Len(d.groups) THEN t ELSE Len(d.groups)
  <2>1. Len(a.groups) = IF t > Len(b.groups) THEN t ELSE Len(b.groups)
    BY <1>4 DEF Adds
  <2> QED BY <1>1, <1>2, <1>5, <2>1 DEF None
<1>8. /\ \A g : Ev(a, g) = Ev(d, g) \cup (IF g = t THEN S ELSE {})
      /\ \A g : Ties(a, g) = Ties(d, g) \cup (IF g = t THEN Tie(i) ELSE {})
      /\ \A g : Level(a, g) = Level(d, g)
  BY <1>1, <1>4 DEF Adds
<1>9. Once(a)
  <2>1. Once(b)
    BY DEF Ready, Before
  <2>2. \A x \in S, g \in DOMAIN b.groups : x \notin Ev(b, g)
    <3>1. ASSUME NEW x \in S, NEW g PROVE x \notin Ev(d, g)
      <4>1. CASE g \in DOMAIN d.groups
        BY <1>3, <3>1, <4>1 DEF Before, Fresh, HeldBy
      <4>2. CASE g \notin DOMAIN d.groups
        BY <4>2 DEF Ev
      <4> QED BY <4>1, <4>2
    <3> QED BY <1>1, <3>1
  <2> QED BY <1>4, <2>1, <2>2 DEF Adds
<1> HIDE DEF S
<1>10. S = {i} \cup HeldBy(d)
  BY <1>3 DEF S
<1> QED BY <1>1, <1>4, <1>6, <1>7, <1>8, <1>9, <1>10 DEF a, t

\* What msg and its voucher leave, before the ties of the group are completed.
MsgAdded(d, o, i, t, V) ==
  /\ WellFormed(o, i) /\ o.cur = t /\ t # None /\ (t = d.cur \/ t = Len(d.groups) + 1)
  /\ t \in 1 .. Len(d.groups) + 1
  /\ Len(o.groups) = IF t > Len(d.groups) THEN t ELSE Len(d.groups)
  /\ \A g : Ev(o, g) = Ev(d, g) \cup (IF g = t THEN {i} \cup HeldBy(d) \cup V ELSE {})
  /\ \A g : Ties(o, g) = Ties(d, g) \cup (IF g = t THEN Tie(i) ELSE {})
  /\ \A g : Level(o, g) = Level(d, g)
  /\ Once(o) /\ o.voucher = None /\ o.fake = None
  /\ o.invokers = d.invokers /\ o.rl = d.rl

LEMMA VoucherFacts ==
  ASSUME NEW i \in Nat \ {0}, NEW d, Before(d, i), EventOK(i), Kind(i) = "msg",
         NEW b, NEW c, Ready(d, b, i, c), d.voucher = None,
         NEW v \in 1 .. i, EventOK(v), Kind(v) = "voucher", Fresh(d, v)
  PROVE  MsgAdded(d, AddGeneral(AddGeneral(b, i), v), i, GoesTo(b, i), {v})
<1> DEFINE a == AddGeneral(b, i)
           t == GoesTo(b, i)
           o == AddGeneral(a, v)
<1>1. /\ WellFormed(a, i) /\ a.cur = t /\ t # None
      /\ t = d.cur \/ t = Len(d.groups) + 1
      /\ t \in 1 .. Len(d.groups) + 1
      /\ Len(a.groups) = IF t > Len(d.groups) THEN t ELSE Len(d.groups)
      /\ \A g : Ev(a, g) = Ev(d, g) \cup (IF g = t THEN {i} \cup HeldBy(d) ELSE {})
      /\ \A g : Ties(a, g) = Ties(d, g) \cup (IF g = t THEN Tie(i) ELSE {})
      /\ \A g : Level(a, g) = Level(d, g)
      /\ Once(a) /\ a.voucher = d.voucher /\ a.fake = None
      /\ a.invokers = d.invokers /\ a.rl = d.rl
  BY MsgAddsFacts
<1> HIDE DEF a, t
<1>2. /\ a.fake # v /\ PeerOf(v) = NoPeer /\ ~LeavesPeers(a, v) /\ Tie(v) = {}
  BY <1>1 DEF EventOK, LeavesPeers, None, Tie
<1>3. GoesTo(a, v) = t /\ HeldBy(a) = {}
  BY <1>1, <1>2 DEF GoesTo, HeldBy
<1>4. /\ WellFormed(o, i) /\ Adds(a, o, t, {v}, {})
      /\ o.cur = t /\ o.voucher = a.voucher /\ o.fake = None
      /\ o.invokers = a.invokers /\ o.rl = a.rl
  <2>1. /\ WellFormed(o, i) /\ Adds(a, o, GoesTo(a, v), {v} \cup HeldBy(a), Tie(v))
        /\ o.cur = GoesTo(a, v) /\ o.voucher = a.voucher /\ o.fake = None
        /\ o.invokers = a.invokers /\ o.rl = a.rl
    <3>1. i \in Nat /\ PeerOf(v) \in Peers \cup {NoPeer} /\ a.fake # v /\ WellFormed(a, i)
      BY <1>1, <1>2
    <3> QED BY <3>1, AddGeneralFacts
  <2>2. {v} \cup HeldBy(a) = {v}
    BY <1>3
  <2> QED BY <1>2, <1>3, <2>1, <2>2
<1> HIDE DEF o
<1>5. /\ t \in 1 .. Len(a.groups) + 1
      /\ Len(o.groups) = IF t > Len(a.groups) THEN t ELSE Len(a.groups)
      /\ \A g : Ev(o, g) = Ev(a, g) \cup (IF g = t THEN {v} ELSE {})
      /\ \A g : Ties(o, g) = Ties(a, g)
      /\ \A g : Level(o, g) = Level(a, g)
      /\ Once(a) /\ (\A x \in {v}, g \in DOMAIN a.groups : x \notin Ev(a, g)) => Once(o)
  BY <1>4 DEF Adds
<1>6. Len(o.groups) = IF t > Len(d.groups) THEN t ELSE Len(d.groups)
  <2>1. Len(d.groups) \in Nat
    BY DividerFacts DEF Before
  <2> QED BY <1>1, <1>5, <2>1
<1>7. \A g : Ev(o, g) = Ev(d, g) \cup (IF g = t THEN {i} \cup HeldBy(d) \cup {v} ELSE {})
  BY <1>1, <1>5
<1>8. Once(o)
  <2>1. v # i /\ v \notin HeldBy(d)
    BY DEF Before, HeldBy
  <2>2. \A g : v \notin Ev(d, g)
    <3>1. \A g : g \notin DOMAIN d.groups => Ev(d, g) = {}
      BY DEF Ev
    <3> QED BY <3>1 DEF Fresh
  <2>3. \A g : v \notin Ev(a, g)
    BY <1>1, <2>1, <2>2
  <2> QED BY <1>1, <1>5, <2>3
<1>9. /\ \A g : Ties(o, g) = Ties(d, g) \cup (IF g = t THEN Tie(i) ELSE {})
      /\ \A g : Level(o, g) = Level(d, g)
  BY <1>1, <1>5
<1>10. MsgAdded(d, o, i, t, {v})
  BY <1>1, <1>4, <1>6, <1>7, <1>8, <1>9 DEF MsgAdded
<1> QED BY <1>10 DEF o, a, t

WithoutVoucher(d) == [d EXCEPT !.voucher = None]

LEMMA MsgStep ==
  ASSUME NEW i \in Nat \ {0}, NEW d, Before(d, i), EventOK(i), Kind(i) = "msg",
         d.voucher # None => EventOK(d.voucher)
  PROVE  Step(d, Msg(d, i), i)
<1> DEFINE v  == IF events[i].hook THEN d.voucher ELSE None
           f  == IF v = None THEN d ELSE WithoutVoucher(d)
           P  == Tie(i) \cup (IF v = None THEN {} ELSE events[v].banks)
           V  == IF v = None THEN {} ELSE {v}
           b  == MsgBase(f, i, P)
           a  == AddGeneral(b, i)
           o  == IF v = None THEN a ELSE AddGeneral(a, v)
           r  == Msg(d, i)
<1>1. WellFormed(d, i) /\ \A g : Level(d, g) \in Int
  BY LevelType DEF Before
<1>2. /\ f.groups = d.groups /\ f.cur = d.cur /\ f.fake = d.fake /\ f.invokers = d.invokers
      /\ f.rl = d.rl /\ f.voucher = (IF v = None THEN d.voucher ELSE None)
      /\ WellFormed(f, i)
  <2>1. CASE v = None
    BY <1>1, <2>1
  <2>2. CASE v # None
    <3>1. d \in Divider(i) /\ 0 \in 0 .. i
      BY <1>1 DEF WellFormed
    <3>2. /\ f \in Divider(i) /\ f.groups = d.groups /\ f.cur = d.cur /\ f.fake = d.fake
          /\ f.invokers = d.invokers /\ f.rl = d.rl /\ f.voucher = None
      BY <2>2, <3>1 DEF Divider, None, WithoutVoucher
    <3> QED BY <1>1, <2>2, <3>2 DEF WellFormed
  <2> QED BY <2>1, <2>2
<1>3. r = AddPeers(o, P)
  <2>1. Split(f, i, P) = (/\ ~(events[i].direct \/ d.cur = None \/ CurGroup(d).level > 0)
                          /\ P # {} /\ CurGroup(d).peers # {} /\ P \cap CurGroup(d).peers = {})
    BY <1>2 DEF Split, CurGroup
  <2> QED BY <2>1 DEF Msg, MsgBase, Tie, WithoutVoucher
<1> HIDE DEF r, o, f
<1>4. /\ \A g : Ev(f, g) = Ev(d, g) /\ Ties(f, g) = Ties(d, g) /\ Level(f, g) = Level(d, g)
      /\ HeldBy(f) = HeldBy(d)
  BY <1>2 DEF Ev, Ties, Level, HeldBy
<1>5. v # None => /\ v = d.voucher /\ v \in 1 .. i /\ EventOK(v) /\ Kind(v) = "voucher"
                  /\ Fresh(f, v) /\ events[v].banks \subseteq Peers /\ f.voucher = None
  <2>1. SUFFICES ASSUME v # None
                 PROVE  /\ v = d.voucher /\ v \in 1 .. i /\ EventOK(v) /\ Kind(v) = "voucher"
                        /\ Fresh(f, v) /\ events[v].banks \subseteq Peers /\ f.voucher = None
    OBVIOUS
  <2>2. v = d.voucher /\ d.voucher # None
    BY <2>1
  <2> HIDE DEF v
  <2>3. d.voucher \in 0 .. i
    BY <1>1, DividerFacts
  <2>4. v \in 1 .. i
    BY <2>2, <2>3 DEF None
  <2>5. EventOK(v) /\ Kind(v) = "voucher" /\ Fresh(d, v)
    BY <2>2 DEF Before
  <2>6. Fresh(f, v)
    BY <1>2, <1>4, <2>5 DEF Fresh
  <2>7. events[v].banks \subseteq Peers
    BY <2>5 DEF EventOK
  <2> QED BY <1>2, <2>1, <2>2, <2>4, <2>5, <2>6, <2>7
<1>6. Before(f, i)
  <2>1. Once(f) /\ \A x : Fresh(d, x) => Fresh(f, x)
    BY <1>2, <1>4 DEF Once, Before, Fresh
  <2>2. f.voucher \in {None, d.voucher}
    BY <1>2
  <2>3. None # i
    BY DEF None
  <2> QED BY <1>2, <2>1, <2>2, <2>3 DEF Before
<1> HIDE DEF v
<1>7. PICK c : Ready(f, b, i, c)
  BY <1>2, MsgBaseFacts
<1> HIDE DEF b, P
<1> DEFINE t == GoesTo(b, i)
<1>8. /\ WellFormed(o, i) /\ o.cur = t /\ t # None /\ (t = d.cur \/ t = Len(d.groups) + 1)
      /\ t \in 1 .. Len(d.groups) + 1
      /\ Len(o.groups) = IF t > Len(d.groups) THEN t ELSE Len(d.groups)
      /\ \A g : Ev(o, g) = Ev(d, g) \cup (IF g = t THEN {i} \cup HeldBy(d) \cup V ELSE {})
      /\ \A g : Ties(o, g) = Ties(d, g) \cup (IF g = t THEN Tie(i) ELSE {})
      /\ \A g : Level(o, g) = Level(d, g)
      /\ Once(o) /\ o.voucher = (IF V = {} THEN d.voucher ELSE None) /\ o.fake = None
      /\ o.invokers = d.invokers /\ o.rl = d.rl
  <2>1. CASE v = None
    <3>1. /\ WellFormed(a, i) /\ a.cur = t /\ t # None
          /\ t = f.cur \/ t = Len(f.groups) + 1
          /\ t \in 1 .. Len(f.groups) + 1
          /\ Len(a.groups) = IF t > Len(f.groups) THEN t ELSE Len(f.groups)
          /\ \A g : Ev(a, g) = Ev(f, g) \cup (IF g = t THEN {i} \cup HeldBy(f) ELSE {})
          /\ \A g : Ties(a, g) = Ties(f, g) \cup (IF g = t THEN Tie(i) ELSE {})
          /\ \A g : Level(a, g) = Level(f, g)
          /\ Once(a) /\ a.voucher = f.voucher /\ a.fake = None
          /\ a.invokers = f.invokers /\ a.rl = f.rl
      BY <1>6, <1>7, MsgAddsFacts
    <3>2. o = a /\ V = {}
      BY <2>1 DEF o
    <3> HIDE DEF t, a, V
    <3>3. \A g : Ev(o, g) = Ev(d, g) \cup (IF g = t THEN {i} \cup HeldBy(d) \cup V ELSE {})
      BY <1>4, <3>1, <3>2
    <3> QED BY <1>2, <1>4, <2>1, <3>1, <3>2, <3>3
  <2>2. CASE v # None
    <3>1. MsgAdded(f, AddGeneral(a, v), i, t, {v})
      BY <1>5, <1>6, <1>7, <2>2, VoucherFacts
    <3>2. o = AddGeneral(a, v) /\ V = {v}
      BY <2>2 DEF o
    <3> HIDE DEF t, a, V
    <3> QED BY <1>2, <1>4, <2>2, <3>1, <3>2 DEF MsgAdded
  <2> QED BY <2>1, <2>2
<1> HIDE DEF t, a
<1> DEFINE G == [o.groups[t] EXCEPT !.peers = @ \cup P]
<1>9. P \in SUBSET Peers /\ Tie(i) \subseteq P
  <2>1. Tie(i) \subseteq Peers
    BY DEF Tie, EventOK
  <2> QED BY <1>5, <2>1 DEF P
<1>10. WellFormed(r, i) /\ Updated(o, r, t, G)
  BY <1>3, <1>8, <1>9, AddPeersFacts
<1>11. t \in DOMAIN o.groups /\ o.groups[t] \in Group(i) /\ DOMAIN r.groups = DOMAIN o.groups
  <2>1. /\ DOMAIN o.groups = 1 .. Len(o.groups) /\ o.cur \in 0 .. Len(o.groups)
        /\ DOMAIN r.groups = 1 .. Len(r.groups)
        /\ \A g \in DOMAIN o.groups : o.groups[g] \in Group(i)
    BY <1>8, <1>10, DividerFacts
  <2>2. t \in DOMAIN o.groups
    BY <1>8, <2>1 DEF None
  <2> QED BY <1>10, <2>1, <2>2 DEF Updated
<1>12. /\ G.events = o.groups[t].events /\ G.level = o.groups[t].level
       /\ G.peers = o.groups[t].peers \cup P
  BY <1>11 DEF Group
<1> HIDE DEF G
<1>13. /\ \A g : Ev(r, g) = Ev(o, g) /\ Level(r, g) = Level(o, g)
       /\ \A g : Ties(r, g) = Ties(o, g) \cup (IF g = t THEN P ELSE {})
       /\ Once(r) /\ Len(r.groups) = Len(o.groups)
       /\ r.cur = o.cur /\ r.voucher = o.voucher /\ r.fake = o.fake
       /\ r.invokers = o.invokers /\ r.rl = o.rl
  <2>1. \A g \in DOMAIN o.groups :
          /\ r.groups[g].events = o.groups[g].events /\ r.groups[g].level = o.groups[g].level
          /\ r.groups[g].peers = o.groups[g].peers \cup (IF g = t THEN P ELSE {})
    BY <1>10, <1>12 DEF Updated
  <2>2. Once(r)
    BY <1>8, <1>11, <2>1, SMTT(60) DEF Once
  <2>3. ASSUME NEW g
        PROVE  /\ Ev(r, g) = Ev(o, g) /\ Level(r, g) = Level(o, g)
               /\ Ties(r, g) = Ties(o, g) \cup (IF g = t THEN P ELSE {})
    <3>1. CASE g \in DOMAIN o.groups
      BY <1>11, <2>1, <3>1 DEF Ev, Level, Ties
    <3>2. CASE g \notin DOMAIN o.groups
      BY <1>11, <3>2 DEF Ev, Level, Ties
    <3> QED BY <3>1, <3>2
  <2> QED BY <1>10, <2>2, <2>3 DEF Updated
<1>14. Filing(d, r, i, t, V)
  <2>1. V \subseteq {d.voucher} \ {None}
    BY <1>5 DEF V
  <2> HIDE DEF V
  <2> QED BY <1>8, <1>13, <2>1 DEF Filing
<1>15. Tying(d, r, i, t)
  <2>1. \A g : Ties(d, g) \subseteq Peers
    <3>1. \A g \in DOMAIN d.groups : d.groups[g].peers \subseteq Peers
      BY <1>1, DividerFacts
    <3> QED BY <3>1 DEF Ties
  <2>2. \A g : Ties(r, g) = Ties(d, g) \cup (IF g = t THEN P ELSE {})
    <3>1. ASSUME NEW g PROVE Ties(r, g) = Ties(d, g) \cup (IF g = t THEN P ELSE {})
      <4>1. Ties(o, g) = Ties(d, g) \cup (IF g = t THEN Tie(i) ELSE {})
        BY <1>8
      <4>2. Ties(r, g) = Ties(o, g) \cup (IF g = t THEN P ELSE {})
        BY <1>13
      <4> QED BY <1>9, <4>1, <4>2
    <3> QED BY <3>1
  <2> QED BY <1>9, <2>1, <2>2 DEF Tying
<1>16. Moving(d, r, i, t)
  BY <1>8, <1>13 DEF Moving, Home
<1>17. Stacking(d, r, i, t)
  BY <1>1, <1>8, <1>13 DEF Stacking
<1>18. Step(d, r, i)
  BY <1>10, <1>14, <1>15, <1>16, <1>17 DEF Step
<1> QED BY <1>18 DEF r

-----------------------------------------------------------------------------
(* Any event: a voucher and a wake-up are held back, the others are filed. *)

\* Event i is held back.
Holding(d, r, i) ==
  /\ WellFormed(r, i) /\ r.groups = d.groups /\ r.cur = d.cur /\ r.rl = d.rl
  /\ r.invokers = d.invokers
  /\ r.voucher = IF Kind(i) = "voucher" THEN i ELSE d.voucher
  /\ r.fake = IF Kind(i) = "voucher" THEN d.fake ELSE i

LEMMA HoldingEffect ==
  ASSUME NEW i \in Nat \ {0}, NEW d, WellFormed(d, i), NEW lucky, Kind(i) \in {"voucher", "fake"}
  PROVE  Holding(d, Divided(d, i, lucky), i)
<1> DEFINE r == StoreEvent(d, i)
<1>1. Divided(d, i, lucky) = r
  BY DEF Divided
<1>2. d \in Divider(i) /\ i \in 0 .. i
  BY DEF WellFormed
<1>3. /\ r \in Divider(i) /\ r.groups = d.groups /\ r.cur = d.cur /\ r.rl = d.rl
      /\ r.invokers = d.invokers
      /\ r.voucher = IF Kind(i) = "voucher" THEN i ELSE d.voucher
      /\ r.fake = IF Kind(i) = "voucher" THEN d.fake ELSE i
  BY <1>2 DEF StoreEvent, Divider
<1> HIDE DEF r
<1>4. Holding(d, r, i)
  BY <1>3 DEF Holding, WellFormed
<1> QED BY <1>1, <1>4

LEMMA FilingEffect ==
  ASSUME NEW i \in Nat \ {0}, NEW d, Before(d, i), EventOK(i),
         d.voucher # None => EventOK(d.voucher), NEW lucky \in BOOLEAN,
         Kind(i) \notin {"voucher", "fake"}, Kind(i) = "end" => d.invokers # <<>>
  PROVE  Step(d, Divided(d, i, lucky), i)
<1>1. CASE Kind(i) = "begin"
  <2>1. Divided(d, i, lucky) = BlockBegin(d, i)
    BY <1>1 DEF Divided
  <2> QED BY <1>1, <2>1, BlockBeginStep
<1>2. CASE Kind(i) = "end"
  <2>1. Divided(d, i, lucky) = BlockEnd(d, i, lucky)
    BY <1>2 DEF Divided
  <2> QED BY <1>2, <2>1, BlockEndStep
<1>3. CASE Kind(i) = "callout"
  <2>1. Divided(d, i, lucky) = AddGeneral(Close(d), i)
    BY <1>3 DEF Divided, Callout
  <2>2. Home(d, i) = None
    BY <1>3 DEF Home
  <2> QED BY <1>3, <2>1, <2>2, ApartStep
<1>4. CASE Kind(i) = "msg"
  <2>1. Divided(d, i, lucky) = Msg(d, i)
    BY <1>4 DEF Divided
  <2> QED BY <1>4, <2>1, MsgStep
<1>5. CASE Kind(i) = "wait"
  <2>1. Divided(d, i, lucky) = Wait(d, i)
    BY <1>5 DEF Divided
  <2> QED BY <1>5, <2>1, WaitStep
<1>6. CASE Kind(i) = "mig" /\ ~RunLoop
  <2>1. Divided(d, i, lucky) = MigService(d, i)
    BY <1>6 DEF Divided
  <2> QED BY <1>6, <2>1, MigServiceStep
<1>7. CASE Kind(i) = "nsapp" /\ RunLoop
  <2>1. Divided(d, i, lucky) = AddGeneral(Close(d), i)
    BY <1>7 DEF Divided, NSAppEvent
  <2>2. Home(d, i) = None
    BY <1>7 DEF Home
  <2> QED BY <1>7, <2>1, <2>2, ApartStep
<1>8. CASE Kind(i) = "events_begin" /\ RunLoop
  <2>1. Divided(d, i, lucky) = EventsBegin(d, i)
    BY <1>8 DEF Divided
  <2> QED BY <1>8, <2>1, EventsBeginStep
<1>9. CASE Kind(i) = "events_end" /\ RunLoop
  <2>1. Divided(d, i, lucky) = EventsEnd(d, i)
    BY <1>9 DEF Divided
  <2> QED BY <1>9, <2>1, EventsEndStep
<1>10. CASE Kind(i) = "item_begin" /\ RunLoop
  <2>1. Divided(d, i, lucky) = AddGeneral(Close(d), i)
    BY <1>10 DEF Divided, ItemBegin
  <2>2. Home(d, i) = None
    BY <1>10 DEF Home
  <2> QED BY <1>10, <2>1, <2>2, ApartStep
<1>11. CASE Kind(i) = "item_end" /\ RunLoop
  <2>1. Divided(d, i, lucky) = ItemEnd(d, i)
    BY <1>11 DEF Divided
  <2> QED BY <1>11, <2>1, ItemEndStep
<1>12. CASE /\ Kind(i) \notin {"begin", "end", "callout", "msg", "wait"}
            /\ ~(Kind(i) = "mig" /\ ~RunLoop)
            /\ RunLoop => Kind(i) \notin {"nsapp", "events_begin", "events_end", "item_begin", "item_end"}
  <2>1. Divided(d, i, lucky) = AddGeneral(d, i)
    BY <1>12 DEF Divided
  <2>2. Home(d, i) = d.cur
    BY <1>12 DEF Home
  <2> QED BY <1>12, <2>1, <2>2, GeneralStep
<1> QED BY <1>1, <1>2, <1>3, <1>4, <1>5, <1>6, <1>7, <1>8, <1>9, <1>10, <1>11, <1>12

-----------------------------------------------------------------------------
(* The inductive invariant: the list.                                      *)

Recorded == {e \in thread.inputs : e.kind \notin {"events_end", "item_end"}}
              \cup [kind : {"end", "events_end", "item_end"}, root : Nat]

ListInv ==
  /\ thread \in Threads
  /\ events \in Seq(Recorded) /\ Len(events) <= thread.max
  /\ pos \in Nat /\ Len(events) \in {pos, pos + 1}
  /\ status \in {"dividing", "submitted", "aborted"}
  /\ status = "submitted" => pos = Len(events)

\* Calls nest, and an end comes after its beginning.
BeginOf(e) == IF e = "events_end" THEN "events_begin" ELSE "item_begin"
FramesInv ==
  /\ frames \in Seq(1 .. Len(events))
  /\ \A j, k \in DOMAIN frames : j < k => frames[j] < frames[k]
  /\ \A e \in DOMAIN events : Kind(e) = "end" =>
       /\ events[e].root \in 1 .. e - 1 /\ Kind(events[e].root) = "begin"
       /\ \A j \in DOMAIN frames : frames[j] # events[e].root
       /\ \A f \in DOMAIN events : Kind(f) = "end" /\ events[f].root = events[e].root => f = e
  /\ \A e \in DOMAIN events : Kind(e) \in {"events_end", "item_end"} /\ events[e].root # None =>
       events[e].root \in 1 .. e - 1 /\ Kind(events[e].root) = BeginOf(Kind(e))
  /\ pos < Len(events) /\ Kind(pos + 1) = "events_end" =>
       \A j \in DOMAIN frames : frames[j] < events[pos + 1].root

AbortInv ==
  status = "aborted" => /\ pos < Len(events) /\ Kind(pos + 1) = "end"
                        /\ events[pos + 1].root # Last(div.invokers)

-----------------------------------------------------------------------------
(* The inductive invariant: the divider object after n events.             *)

\* The blocks that have begun and not ended, the innermost last.
Open(n) ==
  {b \in 1 .. n : Kind(b) = "begin" /\ \A e \in b + 1 .. n : Kind(e) = "end" => events[e].root # b}
StackInv(d, n) ==
  /\ \A j, k \in DOMAIN d.invokers : j < k => d.invokers[j] < d.invokers[k]
  /\ Elements(d.invokers) = Open(n)

\* Where each event is: in one group, or held back.
WaitsAsVoucher(d, n, i) ==
  Kind(i) = "voucher" /\ (d.voucher = i \/ \E j \in i + 1 .. n : Kind(j) = "voucher")
WaitsAsWakeup(d, n, i) ==
  /\ Kind(i) = "fake"
  /\ \E j \in i .. n : /\ \A k \in i .. j : Held(k)
                       /\ (d.fake = j \/ (j > i /\ Kind(j) = "fake"))
PlaceInv(d, n) ==
  /\ WellFormed(d, n) /\ Filled(d) /\ Once(d)
  /\ d.fake # None => /\ Kind(d.fake) = "fake" /\ Fresh(d, d.fake)
                      /\ \A k \in d.fake .. n : Held(k)
  /\ d.voucher # None => Kind(d.voucher) = "voucher" /\ Fresh(d, d.voucher)
  /\ \A i \in 1 .. n : Fresh(d, i) => WaitsAsVoucher(d, n, i) \/ WaitsAsWakeup(d, n, i)

\* The blocks on the stack that began in a group.
Inside(d, g) == {j \in DOMAIN d.invokers : d.invokers[j] \in Ev(d, g)}
Elsewhere(d, n) ==
  \E e \in 1 .. n : Kind(e) = "end" /\ GroupOf(d, e) # GroupOf(d, events[e].root)
LevelInv(d, n) ==
  /\ \A g : Level(d, g) >= Cardinality(Inside(d, g))
  /\ ~RunLoop /\ d.cur # None => Level(d, d.cur) <= Cardinality(Inside(d, d.cur))
  /\ RunLoop => Elsewhere(d, n) \/ \A g : Level(d, g) <= Cardinality(Inside(d, g))

\* Events go to the last group or to that of the round, which holds the round's beginning.
OwnOf(d, g) == {i \in Ev(d, g) : ~Held(i)}
OrderInv(d) ==
  /\ d.cur \in {None, Len(d.groups), d.rl}
  /\ d.rl # None => RunLoop /\ \E i \in Ev(d, d.rl) : Kind(i) = "events_begin"
  /\ \A g, h \in DOMAIN d.groups : g < h /\ OwnOf(d, g) # {} /\ OwnOf(d, h) # {} =>
       /\ \E i \in OwnOf(d, g) : \A j \in OwnOf(d, h) : i < j
       /\ \/ \A i \in OwnOf(d, g), j \in OwnOf(d, h) : i < j
          \/ RunLoop /\ \E i \in OwnOf(d, g) : Kind(i) = "events_begin"

\* The group of a block, callout or item: begun by it, never that of a round, and left
\* for good once it has ended.
EndOf(e, b) == Kind(e) \in {"end", "item_end"} /\ events[e].root = b
SegmentInv(d, n) ==
  \A b \in 1 .. n : IsHead(b) =>
    \A g : b \in Ev(d, g) =>
      /\ g # d.rl /\ \A i \in OwnOf(d, g) : i >= b
      /\ \A e \in 1 .. n : EndOf(e, b) => g # d.cur /\ \A i \in OwnOf(d, g) : i <= e

\* Without a run loop, no group spans the beginning or the end of a dequeued block.
Rooted(b) == Kind(b) = "begin" /\ events[b].rooted
BorderInv(d, n) ==
  ~RunLoop =>
    /\ \A b \in 1 .. n : Rooted(b) =>
         /\ \A g : (\A i \in OwnOf(d, g) : i < b) \/ (\A i \in OwnOf(d, g) : i >= b)
         /\ d.cur # None => \A i \in OwnOf(d, d.cur) : i >= b
    /\ \A e \in 1 .. n : Kind(e) = "end" /\ Rooted(events[e].root) =>
         /\ \A g : (\A i \in OwnOf(d, g) : i <= e) \/ (\A i \in OwnOf(d, g) : i > e)
         /\ d.cur # None => \A i \in OwnOf(d, d.cur) : i > e

TieInv(d) ==
  \A g : /\ \A i \in OwnOf(d, g) : Tie(i) \subseteq Ties(d, g)
         /\ (\A i \in Ev(d, g) : Kind(i) \notin {"msg", "cancel"})
              => \E p \in Peers \cup {NoPeer} : Ties(d, g) \subseteq {p}

\* A round that may still end is in the group saved for it, unless another began.
Live(b) == \/ \E j \in DOMAIN frames : frames[j] = b
           \/ pos < Len(events) /\ Kind(pos + 1) = "events_end" /\ events[pos + 1].root = b
InRound(d, n, b) == \/ d.rl # None /\ b \in Ev(d, d.rl)
                    \/ \E i \in b + 1 .. n : Kind(i) = "events_begin"
RoundInv(d, n) ==
  RunLoop => \A b \in 1 .. n : Kind(b) = "events_begin" /\ Live(b) => InRound(d, n, b)

\* A round that has ended was in its group, unless another began.
DoneInv(d, n) ==
  \A e \in 1 .. n : Kind(e) = "events_end" /\ events[e].root # None /\ RunLoop =>
    \/ GroupOf(d, e) = GroupOf(d, events[e].root)
    \/ \E i \in events[e].root + 1 .. e - 1 : Kind(i) = "events_begin"

DividerInv(d, n) ==
  /\ PlaceInv(d, n) /\ StackInv(d, n) /\ LevelInv(d, n) /\ OrderInv(d)
  /\ SegmentInv(d, n) /\ BorderInv(d, n) /\ TieInv(d) /\ RoundInv(d, n) /\ DoneInv(d, n)

IInv == ListInv /\ FramesInv /\ AbortInv /\ DividerInv(div, pos)

-----------------------------------------------------------------------------
(* Lemmas on one divider object.                                           *)

LEMMA Lifted ==
  ASSUME NEW n \in Nat, NEW d, WellFormed(d, n)
  PROVE  WellFormed(d, n + 1)
<1>1. d \in Divider(n)
  BY DEF WellFormed
<1>2. 1 .. n \subseteq 1 .. n + 1 /\ 0 .. n \subseteq 0 .. n + 1
  OBVIOUS
<1>3. \A S, T : S \subseteq T => Seq(S) \subseteq Seq(T)
  OBVIOUS
<1>4. Seq(1 .. n) \subseteq Seq(1 .. n + 1)
  BY <1>2, <1>3
<1>5. Group(n) \subseteq Group(n + 1)
  BY <1>4 DEF Group
<1>6. Seq(Group(n)) \subseteq Seq(Group(n + 1))
  BY <1>3, <1>5
<1>7. Seq((1 .. n) \cup {Garbage}) \subseteq Seq((1 .. n + 1) \cup {Garbage})
  <2>1. (1 .. n) \cup {Garbage} \subseteq (1 .. n + 1) \cup {Garbage}
    BY <1>2
  <2> QED BY <1>3, <2>1
<1>8. d \in Divider(n + 1)
  BY <1>1, <1>2, <1>4, <1>6, <1>7 DEF Divider
<1> QED BY <1>8 DEF WellFormed

\* The events of the groups.
LEMMA EvFacts ==
  ASSUME NEW n \in Nat, NEW d, WellFormed(d, n)
  PROVE  /\ \A g : Ev(d, g) \subseteq 1 .. n
         /\ \A g : g \notin DOMAIN d.groups => Ev(d, g) = {} /\ Level(d, g) = 0 /\ Ties(d, g) = {}
         /\ Filled(d) <=> \A g \in DOMAIN d.groups : Ev(d, g) # {}
<1>1. \A g \in DOMAIN d.groups : d.groups[g].events \in Seq(1 .. n)
  BY DividerFacts
<1>2. ASSUME NEW g PROVE Ev(d, g) \subseteq 1 .. n
  <2>1. CASE g \in DOMAIN d.groups
    <3>1. \A j \in DOMAIN d.groups[g].events : d.groups[g].events[j] \in 1 .. n
      BY <1>1, <2>1
    <3> QED BY <2>1, <3>1 DEF Ev
  <2>2. CASE g \notin DOMAIN d.groups
    BY <2>2 DEF Ev
  <2> QED BY <2>1, <2>2
<1>3. \A g \in DOMAIN d.groups : (d.groups[g].events # <<>>) <=> Ev(d, g) # {}
  <2>1. ASSUME NEW g \in DOMAIN d.groups, NEW s, s = d.groups[g].events
        PROVE  (s # <<>>) <=> Ev(d, g) # {}
    <3>1. s \in Seq(1 .. n)
      BY <1>1, <2>1
    <3>2. (s # <<>>) <=> 1 \in DOMAIN s
      BY <3>1
    <3>3. (s = <<>>) => DOMAIN s = {}
      BY <3>1
    <3> QED BY <2>1, <3>2, <3>3 DEF Ev
  <2> QED BY <2>1
<1> QED BY <1>2, <1>3 DEF Ev, Level, Ties, Filled

LEMMA GroupOfFacts ==
  ASSUME NEW n \in Nat, NEW d, WellFormed(d, n), Once(d), NEW x, NEW g, x \in Ev(d, g)
  PROVE  /\ GroupOf(d, x) = g /\ g \in DOMAIN d.groups /\ g \in Nat \ {0}
         /\ \A h : x \in Ev(d, h) => h = g
<1> DEFINE holds(h) == \E j \in DOMAIN d.groups[h].events : d.groups[h].events[j] = x
           gs == {h \in DOMAIN d.groups : holds(h)}
<1>1. g \in DOMAIN d.groups /\ g \in Nat \ {0}
  <2>1. DOMAIN d.groups = 1 .. Len(d.groups)
    BY DividerFacts
  <2>2. g \in DOMAIN d.groups
    BY DEF Ev
  <2> QED BY <2>1, <2>2
<1>2. \A h : h \in gs <=> x \in Ev(d, h)
  BY DEF Ev
<1>3. \A h : x \in Ev(d, h) => h = g
  <2>1. ASSUME NEW h, x \in Ev(d, h) PROVE h = g
    <3>1. h \in DOMAIN d.groups
      BY <2>1 DEF Ev
    <3>2. PICK j \in DOMAIN d.groups[g].events : d.groups[g].events[j] = x
      BY <1>1 DEF Ev
    <3>3. PICK k \in DOMAIN d.groups[h].events : d.groups[h].events[k] = x
      BY <2>1, <3>1 DEF Ev
    <3> QED BY <1>1, <3>1, <3>2, <3>3 DEF Once
  <2> QED BY <2>1
<1>4. gs = {g}
  BY <1>2, <1>3
<1>5. GroupOf(d, x) = IF gs = {} THEN None ELSE CHOOSE h \in gs : \A q \in gs : q <= h
  BY DEF GroupOf
<1> HIDE DEF gs
<1>6. (CHOOSE h \in gs : \A q \in gs : q <= h) = g
  <2>1. \E h \in gs : \A q \in gs : q <= h
    BY <1>1, <1>4
  <2> QED BY <1>4, <2>1
<1> QED BY <1>1, <1>3, <1>4, <1>5, <1>6

\* What the types of the events say.
LEMMA EventFacts ==
  ASSUME ListInv, NEW i \in DOMAIN events
  PROVE  /\ EventOK(i)
         /\ Kind(i) \in {"end", "events_end", "item_end"} => events[i].root \in Nat
<1>1. events[i] \in Recorded /\ thread \in Threads
  BY DEF ListInv
<1>2. CASE events[i] \in {e \in thread.inputs : e.kind \notin {"events_end", "item_end"}}
  <2>1. events[i] \in thread.inputs
    BY <1>2
  <2>2. /\ Kind(i) \notin {"end", "events_end", "item_end"}
        /\ "peer" \in DOMAIN events[i] => events[i].peer \in Peers \cup {NoPeer}
        /\ Kind(i) = "voucher" => events[i].banks \subseteq Peers /\ "peer" \notin DOMAIN events[i]
    BY <1>1, <1>2, <2>1, ThreadsAssumption DEF Kind
  <2> QED BY <2>2 DEF EventOK, PeerOf
<1>3. CASE events[i] \in [kind : {"end", "events_end", "item_end"}, root : Nat]
  <2>1. /\ Kind(i) \in {"end", "events_end", "item_end"} /\ events[i].root \in Nat
        /\ "peer" \notin DOMAIN events[i]
    BY <1>3 DEF Kind
  <2> QED BY <2>1 DEF EventOK, PeerOf
<1> QED BY <1>1, <1>2, <1>3 DEF Recorded
\* The next event finds the divider as the lemmas on the handlers want it.
LEMMA BeforeFacts ==
  ASSUME NEW n \in Nat, NEW d, PlaceInv(d, n)
  PROVE  /\ Before(d, n + 1) /\ Fresh(d, n + 1)
         /\ d.fake \in 0 .. n /\ d.voucher \in 0 .. n
<1>1. WellFormed(d, n) /\ WellFormed(d, n + 1)
  BY Lifted DEF PlaceInv
<1>2. d.fake \in 0 .. n /\ d.voucher \in 0 .. n /\ \A g : Ev(d, g) \subseteq 1 .. n
  BY <1>1, DividerFacts, EvFacts
<1>3. Fresh(d, n + 1)
  BY <1>2 DEF Fresh
<1>4. d.fake # n + 1 /\ d.voucher # n + 1
  BY <1>2
<1> QED BY <1>1, <1>2, <1>3, <1>4 DEF Before, PlaceInv

\* What filing an event changes in the groups.
LEMMA FilingFacts ==
  ASSUME NEW n \in Nat, NEW d, PlaceInv(d, n), Kind(n + 1) \notin {"voucher", "fake"},
         NEW r, NEW t, NEW V, Filing(d, r, n + 1, t, V)
  PROVE  /\ Len(d.groups) \in Nat /\ t \in 1 .. Len(d.groups) + 1
         /\ DOMAIN d.groups = 1 .. Len(d.groups)
         /\ Len(r.groups) = IF t > Len(d.groups) THEN t ELSE Len(d.groups)
         /\ \A g : Ev(d, g) \subseteq Ev(r, g) /\ Ev(d, g) \subseteq 1 .. n
         /\ \A g : g # t => Ev(r, g) = Ev(d, g) /\ OwnOf(r, g) = OwnOf(d, g)
         /\ OwnOf(r, t) = OwnOf(d, t) \cup {n + 1} /\ n + 1 \in Ev(r, t)
         /\ \A g : \A x \in Ev(r, g) :
              x \in Ev(d, g) \/ (g = t /\ (x = n + 1 \/ x \in HeldBy(d) \cup V))
         /\ \A x \in HeldBy(d) : x \in 1 .. n /\ Kind(x) = "fake"
         /\ \A x \in V : x \in 1 .. n /\ Kind(x) = "voucher"
<1> DEFINE i == n + 1
<1>1. WellFormed(d, n)
  BY DEF PlaceInv
<1>2. /\ Len(d.groups) \in Nat /\ DOMAIN d.groups = 1 .. Len(d.groups)
      /\ \A g : Ev(d, g) \subseteq 1 .. n
  BY <1>1, DividerFacts, EvFacts
<1>3. /\ t \in 1 .. Len(d.groups) + 1
      /\ Len(r.groups) = IF t > Len(d.groups) THEN t ELSE Len(d.groups)
      /\ V \subseteq {d.voucher} \ {None}
      /\ \A g : Ev(r, g) = Ev(d, g) \cup (IF g = t THEN {i} \cup HeldBy(d) \cup V ELSE {})
  BY DEF Filing
<1>4. \A x \in HeldBy(d) : x \in 1 .. n /\ Kind(x) = "fake"
  <2>1. d.fake \in 0 .. n /\ (d.fake # None => Kind(d.fake) = "fake")
    BY BeforeFacts DEF PlaceInv
  <2> QED BY <2>1 DEF HeldBy, None
<1>5. \A x \in V : x \in 1 .. n /\ Kind(x) = "voucher"
  <2>1. d.voucher \in 0 .. n /\ (d.voucher # None => Kind(d.voucher) = "voucher")
    BY BeforeFacts DEF PlaceInv
  <2> QED BY <1>3, <2>1 DEF None
<1>6. \A g : g # t => Ev(r, g) = Ev(d, g) /\ OwnOf(r, g) = OwnOf(d, g)
  BY <1>3 DEF OwnOf
<1>7. OwnOf(r, t) = OwnOf(d, t) \cup {i}
  <2>1. ~Held(i) /\ \A x \in HeldBy(d) \cup V : Held(x)
    BY <1>4, <1>5 DEF Held
  <2>2. Ev(r, t) = Ev(d, t) \cup ({i} \cup HeldBy(d) \cup V)
    BY <1>3
  <2> QED BY <2>1, <2>2 DEF OwnOf
<1>8. /\ \A g : Ev(d, g) \subseteq Ev(r, g)
      /\ i \in Ev(r, t)
      /\ \A g : \A x \in Ev(r, g) : x \in Ev(d, g) \/ (g = t /\ (x = i \/ x \in HeldBy(d) \cup V))
  BY <1>3
<1> QED BY <1>2, <1>3, <1>4, <1>5, <1>6, <1>7, <1>8

-----------------------------------------------------------------------------
(* Every event has its place.                                              *)

LEMMA FilingKeepsPlaces ==
  ASSUME NEW n \in Nat, NEW d, PlaceInv(d, n), Kind(n + 1) \notin {"voucher", "fake"},
         NEW r, WellFormed(r, n + 1), NEW t, NEW V, Filing(d, r, n + 1, t, V)
  PROVE  PlaceInv(r, n + 1)
<1> DEFINE i == n + 1
<1>1. /\ Len(d.groups) \in Nat /\ t \in 1 .. Len(d.groups) + 1
      /\ DOMAIN d.groups = 1 .. Len(d.groups)
      /\ Len(r.groups) = IF t > Len(d.groups) THEN t ELSE Len(d.groups)
      /\ \A g : Ev(d, g) \subseteq Ev(r, g) /\ Ev(d, g) \subseteq 1 .. n
      /\ i \in Ev(r, t)
      /\ \A g : \A x \in Ev(r, g) : x \in Ev(d, g) \/ (g = t /\ (x = i \/ x \in HeldBy(d) \cup V))
      /\ \A x \in HeldBy(d) : x \in 1 .. n /\ Kind(x) = "fake"
      /\ \A x \in V : x \in 1 .. n /\ Kind(x) = "voucher"
  BY FilingFacts
<1>2. /\ WellFormed(d, n) /\ Filled(d) /\ Once(d)
      /\ d.fake # None => Kind(d.fake) = "fake" /\ Fresh(d, d.fake)
      /\ d.voucher # None => Kind(d.voucher) = "voucher" /\ Fresh(d, d.voucher)
      /\ \A x \in 1 .. n : Fresh(d, x) => WaitsAsVoucher(d, n, x) \/ WaitsAsWakeup(d, n, x)
  BY DEF PlaceInv
<1>3. /\ r.voucher = (IF V = {} THEN d.voucher ELSE None) /\ r.fake = None /\ Once(r)
      /\ V \subseteq {d.voucher} \ {None}
      /\ \A g : Ev(r, g) = Ev(d, g) \cup (IF g = t THEN {i} \cup HeldBy(d) \cup V ELSE {})
  BY DEF Filing
<1>4. DOMAIN r.groups = DOMAIN d.groups \cup {t}
  <2>1. DOMAIN r.groups = 1 .. Len(r.groups)
    BY DividerFacts
  <2> QED BY <1>1, <2>1
<1>5. Filled(r)
  <2>1. \A g \in DOMAIN d.groups : Ev(d, g) # {}
    BY <1>2, EvFacts
  <2>2. \A g \in DOMAIN r.groups : Ev(r, g) # {}
    BY <1>1, <1>4, <2>1
  <2> QED BY <2>2, EvFacts
<1>6. \A x \in 1 .. n : x \notin HeldBy(d) \cup V /\ Fresh(d, x) => Fresh(r, x)
  <2>1. ASSUME NEW x \in 1 .. n, x \notin HeldBy(d) \cup V, Fresh(d, x), NEW g, x \in Ev(r, g)
        PROVE  FALSE
    <3>1. x # i
      OBVIOUS
    <3>2. x \in Ev(d, g)
      BY <1>1, <2>1, <3>1
    <3>3. g \in DOMAIN d.groups
      BY <3>2 DEF Ev
    <3> QED BY <2>1, <3>2, <3>3 DEF Fresh
  <2> QED BY <2>1 DEF Fresh
<1>7. r.voucher # None => Kind(r.voucher) = "voucher" /\ Fresh(r, r.voucher)
  <2>1. SUFFICES ASSUME r.voucher # None
                 PROVE  Kind(r.voucher) = "voucher" /\ Fresh(r, r.voucher)
    OBVIOUS
  <2>2. V = {} /\ r.voucher = d.voucher
    BY <1>3, <2>1
  <2>3. d.voucher \in 1 .. n
    BY <2>1, <2>2, BeforeFacts DEF None
  <2>4. Kind(d.voucher) = "voucher" /\ Fresh(d, d.voucher)
    BY <1>2, <2>1, <2>2
  <2>5. d.voucher \notin HeldBy(d)
    BY <1>1, <2>4
  <2> QED BY <1>6, <2>2, <2>3, <2>4, <2>5
<1>8. ASSUME NEW x \in 1 .. i, Fresh(r, x)
      PROVE  WaitsAsVoucher(r, i, x) \/ WaitsAsWakeup(r, i, x)
  <2>1. \A g : x \notin Ev(r, g)
    BY <1>8 DEF Fresh, Ev
  <2>2. x # i /\ x \notin HeldBy(d) \cup V /\ \A g : x \notin Ev(d, g)
    BY <1>1, <1>3, <2>1
  <2>3. x \in 1 .. n /\ Fresh(d, x)
    BY <2>2 DEF Fresh
  <2>4. CASE WaitsAsVoucher(d, n, x)
    <3>1. CASE d.voucher = x
      <4>1. V = {}
        BY <1>3, <2>2, <3>1
      <4> QED BY <1>3, <2>4, <3>1, <4>1 DEF WaitsAsVoucher
    <3>2. CASE d.voucher # x
      <4>1. PICK j \in x + 1 .. n : Kind(j) = "voucher"
        BY <2>4, <3>2 DEF WaitsAsVoucher
      <4>2. j \in x + 1 .. i
        BY <2>3
      <4> QED BY <2>4, <4>1, <4>2 DEF WaitsAsVoucher
    <3> QED BY <3>1, <3>2
  <2>5. CASE WaitsAsWakeup(d, n, x)
    <3>1. PICK j \in x .. n : /\ \A k \in x .. j : Held(k)
                              /\ (d.fake = j \/ (j > x /\ Kind(j) = "fake"))
      BY <2>5 DEF WaitsAsWakeup
    <3>2. j \in x .. i /\ j # None
      BY <2>3 DEF None
    <3>3. j > x /\ Kind(j) = "fake"
      <4>1. CASE d.fake = j
        <5>1. j \in HeldBy(d)
          BY <3>2, <4>1 DEF HeldBy
        <5>2. j # x /\ Kind(j) = "fake"
          BY <1>1, <2>2, <5>1
        <5> QED BY <2>3, <5>2
      <4>2. CASE d.fake # j
        BY <3>1, <4>2
      <4> QED BY <4>1, <4>2
    <3> QED BY <2>5, <3>1, <3>2, <3>3 DEF WaitsAsWakeup
  <2> QED BY <1>2, <2>3, <2>4, <2>5
<1> QED BY <1>3, <1>5, <1>7, <1>8 DEF PlaceInv

LEMMA HoldingKeepsPlaces ==
  ASSUME NEW n \in Nat, NEW d, PlaceInv(d, n), Kind(n + 1) \in {"voucher", "fake"},
         NEW r, Holding(d, r, n + 1)
  PROVE  /\ PlaceInv(r, n + 1)
         /\ \A g : Ev(r, g) = Ev(d, g) /\ Level(r, g) = Level(d, g) /\ Ties(r, g) = Ties(d, g)
<1> DEFINE i == n + 1
<1>1. /\ WellFormed(r, i) /\ r.groups = d.groups
      /\ r.voucher = IF Kind(i) = "voucher" THEN i ELSE d.voucher
      /\ r.fake = IF Kind(i) = "voucher" THEN d.fake ELSE i
  BY DEF Holding
<1>2. /\ WellFormed(d, n) /\ Filled(d) /\ Once(d)
      /\ d.fake # None => Kind(d.fake) = "fake" /\ Fresh(d, d.fake) /\ \A k \in d.fake .. n : Held(k)
      /\ d.voucher # None => Kind(d.voucher) = "voucher" /\ Fresh(d, d.voucher)
      /\ \A x \in 1 .. n : Fresh(d, x) => WaitsAsVoucher(d, n, x) \/ WaitsAsWakeup(d, n, x)
  BY DEF PlaceInv
<1>3. Fresh(d, i) /\ d.fake \in 0 .. n /\ d.voucher \in 0 .. n
  BY BeforeFacts
<1>4. \A g : Ev(r, g) = Ev(d, g) /\ Level(r, g) = Level(d, g) /\ Ties(r, g) = Ties(d, g)
  BY <1>1 DEF Ev, Level, Ties
<1>5. (\A x : Fresh(r, x) <=> Fresh(d, x)) /\ Filled(r) /\ Once(r)
  BY <1>1, <1>2, <1>4 DEF Fresh, Filled, Once
<1>6. Held(i)
  BY DEF Held
<1>7. r.fake # None => /\ Kind(r.fake) = "fake" /\ Fresh(r, r.fake)
                       /\ \A k \in r.fake .. i : Held(k)
  <2>1. CASE Kind(i) = "voucher"
    <3>1. r.fake = d.fake
      BY <1>1, <2>1
    <3>2. ASSUME d.fake # None, NEW k \in d.fake .. i PROVE Held(k)
      <4>1. k = i \/ k \in d.fake .. n
        BY <1>3
      <4> QED BY <1>2, <1>6, <3>2, <4>1
    <3> QED BY <1>2, <1>5, <3>1, <3>2
  <2>2. CASE Kind(i) = "fake"
    <3>1. r.fake = i /\ \A k \in i .. i : k = i
      BY <1>1, <2>2
    <3> QED BY <1>3, <1>5, <1>6, <2>2, <3>1
  <2> QED BY <2>1, <2>2
<1>8. r.voucher # None => Kind(r.voucher) = "voucher" /\ Fresh(r, r.voucher)
  BY <1>1, <1>2, <1>3, <1>5
<1>9. ASSUME NEW x \in 1 .. i, Fresh(r, x)
      PROVE  WaitsAsVoucher(r, i, x) \/ WaitsAsWakeup(r, i, x)
  <2>0. i \in x .. i /\ i \in Nat
    OBVIOUS
  <2>1. CASE x = i
    <3>1. CASE Kind(i) = "voucher"
      BY <1>1, <2>1, <3>1 DEF WaitsAsVoucher
    <3>2. CASE Kind(i) = "fake"
      <4>1. r.fake = i /\ \A k \in i .. i : Held(k)
        BY <1>1, <1>6, <3>2
      <4> QED BY <2>0, <2>1, <3>2, <4>1 DEF WaitsAsWakeup
    <3> QED BY <3>1, <3>2
  <2>2. CASE x # i
    <3>1. x \in 1 .. n /\ Fresh(d, x) /\ i \in x + 1 .. i
      BY <1>5, <1>9, <2>2
    <3>2. CASE WaitsAsVoucher(d, n, x)
      <4>1. CASE d.voucher = x
        <5>1. CASE Kind(i) = "voucher"
          BY <3>1, <3>2, <5>1 DEF WaitsAsVoucher
        <5>2. CASE Kind(i) = "fake"
          BY <1>1, <3>2, <4>1, <5>2 DEF WaitsAsVoucher
        <5> QED BY <5>1, <5>2
      <4>2. CASE d.voucher # x
        <5>1. PICK j \in x + 1 .. n : Kind(j) = "voucher"
          BY <3>2, <4>2 DEF WaitsAsVoucher
        <5>2. j \in x + 1 .. i
          BY <3>1
        <5> QED BY <3>2, <5>1, <5>2 DEF WaitsAsVoucher
      <4> QED BY <4>1, <4>2
    <3>3. CASE WaitsAsWakeup(d, n, x)
      <4>1. PICK j \in x .. n : /\ \A k \in x .. j : Held(k)
                                /\ (d.fake = j \/ (j > x /\ Kind(j) = "fake"))
        BY <3>3 DEF WaitsAsWakeup
      <4>2. j \in x .. i
        BY <3>1
      <4>3. CASE d.fake # j \/ Kind(i) = "voucher"
        <5>1. r.fake = j \/ (j > x /\ Kind(j) = "fake")
          BY <1>1, <4>1, <4>3
        <5> QED BY <3>3, <4>1, <4>2, <5>1 DEF WaitsAsWakeup
      <4>4. CASE d.fake = j /\ Kind(i) = "fake"
        <5>1. r.fake = i /\ d.fake # None
          BY <1>1, <3>1, <4>4 DEF None
        <5>2. ASSUME NEW k \in x .. i PROVE Held(k)
          <6>1. k \in x .. j \/ k \in d.fake .. n \/ k = i
            BY <3>1, <4>1, <4>4
          <6> QED BY <1>2, <1>6, <4>1, <5>1, <6>1
        <5> QED BY <2>0, <3>3, <5>1, <5>2 DEF WaitsAsWakeup
      <4> QED BY <4>3, <4>4
    <3> QED BY <1>2, <3>1, <3>2, <3>3
  <2> QED BY <2>1, <2>2
<1> QED BY <1>1, <1>4, <1>5, <1>7, <1>8, <1>9 DEF PlaceInv

-----------------------------------------------------------------------------
(* The stack holds the open blocks.                                        *)

\* What one event does to the open blocks.
LEMMA OpenFacts ==
  ASSUME NEW n \in Nat
  PROVE  Open(n + 1) = (Open(n) \cup (IF Kind(n + 1) = "begin" THEN {n + 1} ELSE {}))
                         \ (IF Kind(n + 1) = "end" THEN {events[n + 1].root} ELSE {})
<1> DEFINE i == n + 1
           N == (Open(n) \cup (IF Kind(i) = "begin" THEN {i} ELSE {}))
                  \ (IF Kind(i) = "end" THEN {events[i].root} ELSE {})
<1>1. ASSUME NEW b \in Open(i) PROVE b \in N
  <2>1. /\ b \in 1 .. i /\ Kind(b) = "begin"
        /\ \A e \in b + 1 .. i : Kind(e) = "end" => events[e].root # b
    BY DEF Open
  <2>2. CASE b = i
    BY <2>1, <2>2
  <2>3. CASE b # i
    <3>1. b \in 1 .. n /\ i \in b + 1 .. i /\ b + 1 .. n \subseteq b + 1 .. i
      BY <2>1, <2>3
    <3> QED BY <2>1, <3>1 DEF Open
  <2> QED BY <2>2, <2>3
<1>2. ASSUME NEW b \in N PROVE b \in Open(i)
  <2>1. CASE b \in Open(n)
    <3>1. /\ b \in 1 .. n /\ Kind(b) = "begin"
          /\ \A e \in b + 1 .. n : Kind(e) = "end" => events[e].root # b
      BY <2>1 DEF Open
    <3>2. \A e \in b + 1 .. i : e \in b + 1 .. n \/ e = i
      BY <3>1
    <3>3. b \in 1 .. i
      BY <3>1
    <3>4. Kind(i) = "end" => events[i].root # b
      OBVIOUS
    <3> QED BY <3>1, <3>2, <3>3, <3>4 DEF Open
  <2>2. CASE b \notin Open(n)
    <3>1. b = i /\ Kind(i) = "begin"
      BY <2>2
    <3>2. i \in 1 .. i /\ i + 1 .. i = {}
      OBVIOUS
    <3> QED BY <3>1, <3>2 DEF Open
  <2> QED BY <2>1, <2>2
<1> QED BY <1>1, <1>2

\* The block that ends is open.
LEMMA EndIsOpen ==
  ASSUME NEW n \in Nat, n + 1 \in DOMAIN events, ListInv, FramesInv, Kind(n + 1) = "end"
  PROVE  events[n + 1].root \in Open(n) /\ Kind(events[n + 1].root) = "begin"
<1>1. /\ events[n + 1].root \in 1 .. n /\ Kind(events[n + 1].root) = "begin"
      /\ \A f \in DOMAIN events : Kind(f) = "end" /\ events[f].root = events[n + 1].root => f = n + 1
  <2>1. (n + 1) - 1 = n
    OBVIOUS
  <2> QED BY <2>1 DEF FramesInv
<1>2. \A e \in events[n + 1].root + 1 .. n : e \in DOMAIN events /\ e # n + 1
  <2>1. DOMAIN events = 1 .. Len(events) /\ Len(events) \in Nat
    BY DEF ListInv
  <2> QED BY <1>1, <2>1
<1> QED BY <1>1, <1>2 DEF Open

LEMMA StackFacts ==
  ASSUME NEW n \in Nat, NEW d, WellFormed(d, n), StackInv(d, n), d.invokers # <<>>
  PROVE  /\ Last(d.invokers) \in Open(n) /\ \A b \in Open(n) : b <= Last(d.invokers)
         /\ Len(d.invokers) \in Nat \ {0} /\ DOMAIN d.invokers = 1 .. Len(d.invokers)
         /\ \A j \in DOMAIN d.invokers : d.invokers[j] = Last(d.invokers) => j = Len(d.invokers)
<1> DEFINE s == d.invokers
           m == Len(d.invokers)
<1>1. s \in Seq(1 .. n)
  BY DividerFacts
<1>2. /\ m \in Nat \ {0} /\ DOMAIN s = 1 .. m /\ m \in DOMAIN s /\ Last(s) = s[m]
      /\ \A j \in DOMAIN s : s[j] \in 1 .. n
  BY <1>1 DEF Last
<1>3. /\ \A j, k \in DOMAIN s : j < k => s[j] < s[k]
      /\ {s[j] : j \in DOMAIN s} = Open(n)
  BY DEF StackInv, Elements
<1> HIDE DEF s, m
<1>4. \A j \in DOMAIN s : j < m \/ j = m
  BY <1>2
<1>5. \A j \in DOMAIN s : j # m => s[j] < s[m]
  BY <1>2, <1>3, <1>4
<1>6. \A b \in Open(n) : b <= s[m]
  BY <1>2, <1>3, <1>5
<1>7. s[m] \in Open(n) /\ \A j \in DOMAIN s : s[j] = s[m] => j = m
  BY <1>2, <1>3, <1>5
<1> QED BY <1>2, <1>6, <1>7 DEF s, m

LEMMA StackKept ==
  ASSUME NEW n \in Nat, n + 1 \in DOMAIN events, ListInv, FramesInv,
         NEW d, WellFormed(d, n), StackInv(d, n),
         Kind(n + 1) = "end" => events[n + 1].root = Last(d.invokers),
         NEW r, r.invokers = CASE Kind(n + 1) = "begin" -> Append(d.invokers, n + 1)
                               [] Kind(n + 1) = "end"   -> Front(d.invokers)
                               [] OTHER                 -> d.invokers
  PROVE  StackInv(r, n + 1)
<1> DEFINE s == d.invokers
           m == Len(s)
           i == n + 1
<1>1. s \in Seq(1 .. n) /\ m \in Nat /\ DOMAIN s = 1 .. m
  <2>1. s \in Seq(1 .. n)
    BY DividerFacts
  <2> QED BY <2>1
<1>2. \A j \in DOMAIN s : s[j] \in 1 .. n
  BY <1>1
<1>3. /\ \A j, k \in DOMAIN s : j < k => s[j] < s[k]
      /\ Elements(s) = Open(n)
  BY DEF StackInv
<1>4. CASE Kind(i) = "begin"
  <2> DEFINE q == Append(s, i)
  <2>1. r.invokers = q /\ Open(i) = Open(n) \cup {i}
    BY <1>4, OpenFacts
  <2>2. /\ DOMAIN q = 1 .. m + 1 /\ q[m + 1] = i /\ \A j \in 1 .. m : q[j] = s[j]
    BY <1>1
  <2> HIDE DEF q, s, m
  <2>3. ASSUME NEW j \in DOMAIN q, NEW k \in DOMAIN q, j < k PROVE q[j] < q[k]
    <3>1. j \in 1 .. m /\ (k \in 1 .. m \/ k = m + 1)
      BY <1>1, <2>2, <2>3
    <3> QED BY <1>1, <1>2, <1>3, <2>2, <2>3, <3>1
  <2>4. Elements(q) = Elements(s) \cup {i}
    <3>1. \A j : j \in DOMAIN q <=> j \in DOMAIN s \/ j = m + 1
      BY <1>1, <2>2
    <3> QED BY <1>1, <2>2, <3>1 DEF Elements
  <2> QED BY <1>3, <2>1, <2>3, <2>4 DEF StackInv
<1>5. CASE Kind(i) = "end"
  <2> DEFINE q == Front(s)
  <2>1. r.invokers = q /\ Open(i) = Open(n) \ {Last(s)}
    <3>1. Open(i) = (Open(n) \cup {}) \ {events[i].root}
      BY <1>5, OpenFacts
    <3> QED BY <1>5, <3>1
  <2>2. s # <<>>
    <3>1. Elements(s) # {}
      BY <1>3, <1>5, EndIsOpen
    <3>2. s = <<>> => DOMAIN s = {}
      OBVIOUS
    <3> QED BY <3>1, <3>2 DEF Elements
  <2>3. /\ m \in Nat \ {0} /\ m \in DOMAIN s /\ Last(s) = s[m]
        /\ \A j \in DOMAIN s : s[j] = Last(s) => j = m
    BY <1>1, <2>2, StackFacts DEF Last
  <2>4. /\ Len(q) = m - 1 /\ q \in Seq(1 .. n) /\ \A j \in 1 .. m - 1 : q[j] = s[j]
    BY <1>1, <2>2, FrontFacts
  <2>5. DOMAIN q = 1 .. m - 1
    BY <2>4
  <2> HIDE DEF q, s, m
  <2>6. \A j : j \in DOMAIN q <=> j \in DOMAIN s /\ j # m
    BY <1>1, <2>3, <2>5
  <2>7. \A j \in DOMAIN q : q[j] = s[j]
    BY <2>4, <2>5
  <2>8. Elements(q) = Elements(s) \ {Last(s)}
    BY <2>3, <2>6, <2>7 DEF Elements
  <2>9. \A j, k \in DOMAIN q : j < k => q[j] < q[k]
    BY <1>3, <2>6, <2>7
  <2> QED BY <1>3, <2>1, <2>8, <2>9 DEF StackInv
<1>6. CASE Kind(i) \notin {"begin", "end"}
  <2>1. r.invokers = d.invokers /\ Open(i) = Open(n)
    BY <1>6, OpenFacts
  <2> QED BY <2>1 DEF StackInv
<1> QED BY <1>4, <1>5, <1>6

-----------------------------------------------------------------------------
(* Where an event can go: the last group, a new one, or that of the round. *)

LEMMA Destination ==
  ASSUME NEW n \in Nat, NEW d, PlaceInv(d, n), OrderInv(d),
         Kind(n + 1) \notin {"voucher", "fake"},
         NEW r, NEW t, NEW V, Filing(d, r, n + 1, t, V), Moving(d, r, n + 1, t)
  PROVE  /\ t = Len(d.groups) + 1 \/ t = d.cur \/ t = d.rl
         /\ ~RunLoop => d.rl = None /\ r.rl = None /\ r.cur \in {None, t}
         /\ IsHead(n + 1) => t = Len(d.groups) + 1
         /\ t # None /\ d.rl \in 0 .. Len(d.groups) /\ d.cur \in 0 .. Len(d.groups)
         /\ r.cur = None \/ r.cur = t \/ (RunLoop /\ r.cur = d.rl /\ r.rl = d.rl)
         /\ r.rl = None \/ r.rl = d.rl
              \/ (RunLoop /\ r.rl = t /\ (t = d.rl \/ t = Len(d.groups) + 1)
                   /\ Kind(n + 1) = "events_begin")
         /\ r.cur = None \/ r.rl = d.rl \/ (r.rl = t /\ r.cur = t)
<1> DEFINE i == n + 1
<1>1. /\ t \in 1 .. Len(d.groups) + 1 /\ Len(d.groups) \in Nat
      /\ d.rl \in 0 .. Len(d.groups) /\ d.cur \in 0 .. Len(d.groups)
  <2>1. WellFormed(d, n)
    BY DEF PlaceInv
  <2> QED BY <2>1, DividerFacts DEF Filing
<1>2. t # None /\ Len(d.groups) + 1 # None
  BY <1>1 DEF None
<1>3. /\ t = Home(d, i) \/ t = Len(d.groups) + 1
      /\ IF RunLoop /\ Kind(i) = "item_end" THEN r.cur = d.rl ELSE r.cur \in {None, t}
      /\ RunLoop /\ Kind(i) = "events_end" => r.cur = None
      /\ r.rl = IF RunLoop /\ Kind(i) = "events_begin" THEN t
                ELSE IF RunLoop /\ Kind(i) = "events_end" THEN None ELSE d.rl
  BY DEF Moving
<1>4. /\ Home(d, i) = None \/ Home(d, i) = d.cur \/ Home(d, i) = d.rl
      /\ IsHead(i) => Home(d, i) = None
      /\ RunLoop /\ Kind(i) = "events_begin" => Home(d, i) = None \/ Home(d, i) = d.rl
  <2>1. CASE Kind(i) = "begin"
    BY <2>1 DEF Home, IsHead
  <2>2. CASE Kind(i) = "callout"
    BY <2>2 DEF Home, IsHead
  <2>3. CASE RunLoop /\ Kind(i) \in {"nsapp", "item_begin"}
    BY <2>3 DEF Home, IsHead
  <2>4. CASE RunLoop /\ Kind(i) = "events_begin"
    BY <2>4 DEF Home, IsHead
  <2>5. CASE RunLoop /\ Kind(i) = "events_end"
    BY <2>5 DEF Home, IsHead
  <2>6. CASE /\ Kind(i) \notin {"begin", "callout"}
             /\ RunLoop => Kind(i) \notin {"nsapp", "item_begin", "events_begin", "events_end"}
    <3>1. Home(d, i) = d.cur
      BY <2>6 DEF Home
    <3> QED BY <2>6, <3>1 DEF IsHead
  <2> QED BY <2>1, <2>2, <2>3, <2>4, <2>5, <2>6
<1>5. ~RunLoop => d.rl = None
  BY DEF OrderInv
<1> QED BY <1>1, <1>2, <1>3, <1>4, <1>5

LEMMA OrderKept ==
  ASSUME NEW n \in Nat, NEW d, PlaceInv(d, n), OrderInv(d),
         Kind(n + 1) \notin {"voucher", "fake"},
         NEW r, WellFormed(r, n + 1), NEW t, NEW V, Filing(d, r, n + 1, t, V),
         Moving(d, r, n + 1, t)
  PROVE  OrderInv(r)
<1> DEFINE i == n + 1
           m == Len(d.groups)
<1>1. /\ m \in Nat /\ t \in 1 .. m + 1
      /\ Len(r.groups) = IF t > m THEN t ELSE m
      /\ \A g : Ev(d, g) \subseteq Ev(r, g) /\ Ev(d, g) \subseteq 1 .. n
      /\ \A g : g # t => Ev(r, g) = Ev(d, g) /\ OwnOf(r, g) = OwnOf(d, g)
      /\ OwnOf(r, t) = OwnOf(d, t) \cup {i} /\ i \in Ev(r, t)
  BY FilingFacts
<1>2. /\ t = m + 1 \/ t = d.cur \/ t = d.rl
      /\ t # None /\ d.rl \in 0 .. m
      /\ r.cur = None \/ r.cur = t \/ (RunLoop /\ r.cur = d.rl /\ r.rl = d.rl)
      /\ r.rl = None \/ r.rl = d.rl \/ (RunLoop /\ r.rl = t /\ Kind(i) = "events_begin")
      /\ r.cur = None \/ r.rl = d.rl \/ (r.rl = t /\ r.cur = t)
  BY Destination
<1>3. /\ d.cur \in {None, m, d.rl}
      /\ d.rl # None => RunLoop /\ \E x \in Ev(d, d.rl) : Kind(x) = "events_begin"
      /\ \A g, h \in DOMAIN d.groups : g < h /\ OwnOf(d, g) # {} /\ OwnOf(d, h) # {} =>
           /\ \E x \in OwnOf(d, g) : \A y \in OwnOf(d, h) : x < y
           /\ \/ \A x \in OwnOf(d, g), y \in OwnOf(d, h) : x < y
              \/ RunLoop /\ \E x \in OwnOf(d, g) : Kind(x) = "events_begin"
  BY DEF OrderInv
<1>4. DOMAIN r.groups = 1 .. Len(r.groups) /\ DOMAIN d.groups = 1 .. m
  BY DividerFacts DEF PlaceInv
<1>5. r.cur \in {None, Len(r.groups), r.rl}
  <2>1. t = m + 1 \/ t = m \/ t = d.rl
    BY <1>2, <1>3
  <2>2. t # d.rl => t = Len(r.groups)
    BY <1>1, <2>1
  <2> QED BY <1>2, <2>2
<1>6. r.rl # None => RunLoop /\ \E x \in Ev(r, r.rl) : Kind(x) = "events_begin"
  <2>1. \A x \in Ev(d, d.rl) : x \in Ev(r, d.rl)
    BY <1>1
  <2>2. CASE r.rl = d.rl
    BY <1>3, <2>1, <2>2
  <2>3. CASE RunLoop /\ r.rl = t /\ Kind(i) = "events_begin"
    BY <1>1, <2>3
  <2> QED BY <1>2, <2>2, <2>3
<1>7. ASSUME NEW g \in DOMAIN r.groups, NEW h \in DOMAIN r.groups, g < h,
             OwnOf(r, g) # {}, OwnOf(r, h) # {}
      PROVE  /\ \E x \in OwnOf(r, g) : \A y \in OwnOf(r, h) : x < y
             /\ \/ \A x \in OwnOf(r, g), y \in OwnOf(r, h) : x < y
                \/ RunLoop /\ \E x \in OwnOf(r, g) : Kind(x) = "events_begin"
  <2>0. /\ \A q : OwnOf(d, q) \subseteq 1 .. n
        /\ \A q : q \notin DOMAIN d.groups => OwnOf(d, q) = {}
    BY <1>1 DEF OwnOf, Ev
  <2>1. CASE g # t /\ h # t
    <3>1. g \in DOMAIN d.groups /\ h \in DOMAIN d.groups
      BY <1>1, <1>7, <2>0, <2>1
    <3> QED BY <1>1, <1>3, <1>7, <2>1, <3>1
  <2>2. CASE h = t
    <3>1. g # t
      BY <1>1, <1>4, <1>7, <2>2
    <3>2. OwnOf(r, g) = OwnOf(d, g) /\ OwnOf(d, g) # {} /\ g \in DOMAIN d.groups
      BY <1>1, <1>7, <2>0, <3>1
    <3>3. \A x \in OwnOf(d, g) : x < i
      BY <2>0
    <3>4. CASE OwnOf(d, t) = {}
      <4>1. OwnOf(r, h) = {i}
        BY <1>1, <2>2, <3>4
      <4> QED BY <3>2, <3>3, <4>1
    <3>5. CASE OwnOf(d, t) # {}
      <4>1. t \in DOMAIN d.groups
        BY <2>0, <3>5
      <4>2. /\ \E x \in OwnOf(d, g) : \A y \in OwnOf(d, t) : x < y
            /\ \/ \A x \in OwnOf(d, g), y \in OwnOf(d, t) : x < y
               \/ RunLoop /\ \E x \in OwnOf(d, g) : Kind(x) = "events_begin"
        BY <1>3, <1>7, <2>2, <3>2, <3>5, <4>1
      <4>3. \A y \in OwnOf(r, h) : y \in OwnOf(d, t) \/ y = i
        BY <1>1, <2>2
      <4> QED BY <3>2, <3>3, <4>2, <4>3
    <3> QED BY <3>4, <3>5
  <2>3. CASE g = t /\ h # t
    <3>1. t \in Nat /\ h \in Nat /\ t < h /\ h <= m
      BY <1>1, <1>4, <1>7, <2>3
    <3>2. t = d.rl /\ d.rl # None
      BY <1>1, <1>2, <1>3, <3>1
    <3>3. /\ RunLoop /\ \E x \in Ev(d, t) : Kind(x) = "events_begin"
      BY <1>3, <3>2
    <3>4. PICK e \in OwnOf(d, t) : Kind(e) = "events_begin"
      BY <3>3 DEF OwnOf, Held
    <3>5. OwnOf(r, h) = OwnOf(d, h) /\ OwnOf(d, h) # {} /\ h \in DOMAIN d.groups /\ t \in DOMAIN d.groups
      BY <1>1, <1>7, <2>0, <2>3, <3>4
    <3>6. \E x \in OwnOf(d, t) : \A y \in OwnOf(d, h) : x < y
      BY <1>3, <3>1, <3>4, <3>5
    <3> QED BY <1>1, <2>3, <3>3, <3>4, <3>5, <3>6
  <2> QED BY <2>1, <2>2, <2>3
<1> QED BY <1>5, <1>6, <1>7 DEF OrderInv

-----------------------------------------------------------------------------
(* Blocks, callouts and items, and ties.                                   *)

LEMMA SegmentKept ==
  ASSUME NEW n \in Nat, n + 1 \in DOMAIN events, ListInv, FramesInv,
         NEW d, PlaceInv(d, n), OrderInv(d), SegmentInv(d, n),
         Kind(n + 1) \notin {"voucher", "fake"},
         NEW r, NEW t, NEW V, Filing(d, r, n + 1, t, V), Moving(d, r, n + 1, t)
  PROVE  SegmentInv(r, n + 1)
<1> DEFINE i == n + 1
           m == Len(d.groups)
<1>0. /\ m \in Nat /\ t \in 1 .. m + 1 /\ DOMAIN d.groups = 1 .. m
      /\ \A g : Ev(d, g) \subseteq Ev(r, g) /\ Ev(d, g) \subseteq 1 .. n
      /\ \A g : g # t => Ev(r, g) = Ev(d, g) /\ OwnOf(r, g) = OwnOf(d, g)
      /\ OwnOf(r, t) = OwnOf(d, t) \cup {i} /\ i \in Ev(r, t)
  <2>1. m \in Nat /\ t \in 1 .. m + 1 /\ DOMAIN d.groups = 1 .. m
    BY FilingFacts
  <2>2. \A g : Ev(d, g) \subseteq Ev(r, g) /\ Ev(d, g) \subseteq 1 .. n
    BY FilingFacts
  <2>3. \A g : g # t => Ev(r, g) = Ev(d, g) /\ OwnOf(r, g) = OwnOf(d, g)
    BY FilingFacts
  <2>4. OwnOf(r, t) = OwnOf(d, t) \cup {i} /\ i \in Ev(r, t)
    BY FilingFacts
  <2> QED BY <2>1, <2>2, <2>3, <2>4
<1>1. /\ m \in Nat /\ t \in 1 .. m + 1 /\ DOMAIN d.groups = 1 .. m
      /\ \A g : Ev(d, g) \subseteq Ev(r, g) /\ Ev(d, g) \subseteq 1 .. n
      /\ \A g : g # t => Ev(r, g) = Ev(d, g) /\ OwnOf(r, g) = OwnOf(d, g)
      /\ OwnOf(r, t) = OwnOf(d, t) \cup {i} /\ i \in Ev(r, t)
      /\ \A g : \A x \in Ev(r, g) : x \in Ev(d, g) \/ (g = t /\ (x = i \/ x \in HeldBy(d) \cup V))
      /\ \A x \in HeldBy(d) \cup V : Kind(x) \in {"fake", "voucher"}
  <2>1. /\ \A g : \A x \in Ev(r, g) : x \in Ev(d, g) \/ (g = t /\ (x = i \/ x \in HeldBy(d) \cup V))
        /\ \A x \in HeldBy(d) : x \in 1 .. n /\ Kind(x) = "fake"
        /\ \A x \in V : x \in 1 .. n /\ Kind(x) = "voucher"
    BY FilingFacts
  <2> QED BY <1>0, <2>1
<1>2. /\ t = m + 1 \/ t = d.cur \/ t = d.rl
      /\ IsHead(i) => t = m + 1
      /\ t # None /\ d.rl \in 0 .. m
      /\ r.cur = None \/ r.cur = t \/ (RunLoop /\ r.cur = d.rl /\ r.rl = d.rl)
      /\ r.rl = None \/ r.rl = d.rl
           \/ (RunLoop /\ r.rl = t /\ (t = d.rl \/ t = m + 1) /\ Kind(i) = "events_begin")
  BY Destination
<1>3. ASSUME NEW e \in 1 .. i, NEW b, EndOf(e, b), b # None
      PROVE  b \in 1 .. e - 1 /\ Kind(b) = (IF Kind(e) = "end" THEN "begin" ELSE "item_begin")
  <2>1. e \in DOMAIN events
    <3>1. DOMAIN events = 1 .. Len(events) /\ Len(events) \in Nat
      BY DEF ListInv
    <3> QED BY <3>1
  <2> QED BY <1>3, <2>1 DEF EndOf, FramesInv, BeginOf
<1>4. \A g : g \notin DOMAIN d.groups => Ev(d, g) = {} /\ OwnOf(d, g) = {}
  BY DEF Ev, OwnOf
<1>5. ASSUME NEW b \in 1 .. n, IsHead(b), NEW g, b \in Ev(r, g)
      PROVE  /\ g # r.rl /\ \A x \in OwnOf(r, g) : x >= b
             /\ \A e \in 1 .. i : EndOf(e, b) => g # r.cur /\ \A x \in OwnOf(r, g) : x <= e
  <2>1. b \in Ev(d, g) /\ g \in DOMAIN d.groups
    <3>1. b # i /\ Kind(b) \notin {"fake", "voucher"}
      BY <1>5 DEF IsHead
    <3>2. b \in Ev(d, g)
      BY <1>1, <1>5, <3>1
    <3> QED BY <1>4, <3>2
  <2>2. /\ g # d.rl /\ \A x \in OwnOf(d, g) : x >= b
        /\ \A e \in 1 .. n : EndOf(e, b) => g # d.cur /\ \A x \in OwnOf(d, g) : x <= e
    BY <1>5, <2>1 DEF SegmentInv
  <2>3. g \in 1 .. m /\ g # None
    BY <1>1, <2>1 DEF None
  <2>4. g # m + 1
    BY <1>1, <2>3
  <2>5. g # r.rl
    BY <1>2, <2>2, <2>3, <2>4
  <2>6. \A x \in OwnOf(r, g) : x >= b
    <3>1. \A x \in OwnOf(r, g) : x \in OwnOf(d, g) \/ x = i
      BY <1>1
    <3> QED BY <2>2, <3>1
  <2>7. ASSUME NEW e \in 1 .. i, EndOf(e, b)
        PROVE  g # r.cur /\ \A x \in OwnOf(r, g) : x <= e
    <3>1. CASE e # i
      <4>1. e \in 1 .. n
        BY <3>1
      <4>2. g # d.cur /\ \A x \in OwnOf(d, g) : x <= e
        BY <2>2, <2>7, <4>1
      <4>3. g # t
        BY <1>2, <2>2, <2>4, <4>2
      <4> QED BY <1>1, <1>2, <2>2, <2>3, <4>2, <4>3
    <3>2. CASE e = i
      <4>1. \A x \in OwnOf(r, g) : x <= i
        <5>1. \A x \in OwnOf(r, g) : x \in 1 .. n \/ x = i
          <6>1. \A x \in OwnOf(r, g) : x \in Ev(d, g) \/ x = i
            BY <1>1 DEF OwnOf
          <6> QED BY <1>1, <6>1
        <5> QED BY <5>1
      <4>2. Kind(b) = (IF Kind(i) = "end" THEN "begin" ELSE "item_begin") /\ events[i].root = b
        <5>1. b # None
          BY DEF None
        <5> QED BY <1>3, <2>7, <3>2, <5>1 DEF EndOf
      <4>3. r.cur = None \/ r.cur = d.rl
        <5>1. CASE Kind(i) = "end"
          <6>1. events[events[i].root].rooted
            BY <1>5, <4>2, <5>1 DEF IsHead
          <6> QED BY <5>1, <6>1 DEF Moving
        <5>2. CASE Kind(i) # "end"
          <6>1. Kind(i) = "item_end"
            BY <2>7, <3>2, <5>2 DEF EndOf
          <6>2. RunLoop
            BY <1>5, <4>2, <5>2 DEF IsHead
          <6> QED BY <6>1, <6>2 DEF Moving
        <5> QED BY <5>1, <5>2
      <4> QED BY <2>2, <2>3, <3>2, <4>1, <4>3
    <3> QED BY <3>1, <3>2
  <2> QED BY <2>5, <2>6, <2>7
<1>6. ASSUME IsHead(i), NEW g, i \in Ev(r, g)
      PROVE  /\ g # r.rl /\ \A x \in OwnOf(r, g) : x >= i
             /\ \A e \in 1 .. i : EndOf(e, i) => g # r.cur /\ \A x \in OwnOf(r, g) : x <= e
  <2>1. g = t /\ t = m + 1
    <3>1. i \notin Ev(d, g)
      BY <1>1
    <3> QED BY <1>1, <1>2, <1>6, <3>1
  <2>2. OwnOf(d, t) = {} /\ OwnOf(r, g) = {i}
    <3>1. t \notin DOMAIN d.groups
      BY <1>1, <2>1
    <3> QED BY <1>1, <1>4, <2>1, <3>1
  <2>3. g # r.rl
    <3>1. Kind(i) # "events_begin"
      BY <1>6 DEF IsHead
    <3>2. r.rl = None \/ r.rl = d.rl
      BY <1>2, <3>1
    <3> QED BY <1>1, <1>2, <2>1, <3>2
  <2>4. \A e \in 1 .. i : ~EndOf(e, i)
    <3>1. ASSUME NEW e \in 1 .. i, EndOf(e, i) PROVE FALSE
      <4>1. i # None
        BY DEF None
      <4>2. i \in 1 .. e - 1
        BY <1>3, <3>1, <4>1
      <4> QED BY <4>2
    <3> QED BY <3>1
  <2> QED BY <2>2, <2>3, <2>4
<1>7. \A b \in 1 .. i : b \in 1 .. n \/ b = i
  OBVIOUS
<1> QED BY <1>5, <1>6, <1>7 DEF SegmentInv

LEMMA BorderKept ==
  ASSUME NEW n \in Nat, NEW d, PlaceInv(d, n), OrderInv(d), BorderInv(d, n),
         Kind(n + 1) \notin {"voucher", "fake"},
         NEW r, NEW t, NEW V, Filing(d, r, n + 1, t, V), Moving(d, r, n + 1, t)
  PROVE  BorderInv(r, n + 1)
<1> DEFINE i == n + 1
           m == Len(d.groups)
<1> SUFFICES ASSUME ~RunLoop
             PROVE  /\ \A b \in 1 .. i : Rooted(b) =>
                         /\ \A g : (\A x \in OwnOf(r, g) : x < b) \/ (\A x \in OwnOf(r, g) : x >= b)
                         /\ r.cur # None => \A x \in OwnOf(r, r.cur) : x >= b
                    /\ \A e \in 1 .. i : Kind(e) = "end" /\ Rooted(events[e].root) =>
                         /\ \A g : (\A x \in OwnOf(r, g) : x <= e) \/ (\A x \in OwnOf(r, g) : x > e)
                         /\ r.cur # None => \A x \in OwnOf(r, r.cur) : x > e
  BY DEF BorderInv
<1>1. /\ m \in Nat /\ t \in 1 .. m + 1 /\ DOMAIN d.groups = 1 .. m
      /\ \A g : g # t => OwnOf(r, g) = OwnOf(d, g)
      /\ OwnOf(r, t) = OwnOf(d, t) \cup {i}
  BY FilingFacts
<1>2. /\ t = m + 1 \/ (t = d.cur /\ d.cur # None)
      /\ r.cur \in {None, t}
      /\ IsHead(i) => t = m + 1
  <2>1. /\ t = m + 1 \/ t = d.cur \/ t = d.rl
        /\ d.rl = None /\ r.cur \in {None, t} /\ t # None
        /\ IsHead(i) => t = m + 1
    BY Destination
  <2> QED BY <2>1
<1>3. \A g : OwnOf(d, g) \subseteq 1 .. n
  <2>1. \A g : Ev(d, g) \subseteq 1 .. n
    BY FilingFacts
  <2> QED BY <2>1 DEF OwnOf
<1>4. t = m + 1 => OwnOf(r, t) = {i}
  <2>1. t = m + 1 => t \notin DOMAIN d.groups
    BY <1>1
  <2>2. \A g : g \notin DOMAIN d.groups => OwnOf(d, g) = {}
    BY DEF OwnOf, Ev
  <2> QED BY <1>1, <2>1, <2>2
<1>5. ASSUME NEW b \in 1 .. i, Rooted(b)
      PROVE  /\ \A g : (\A x \in OwnOf(r, g) : x < b) \/ (\A x \in OwnOf(r, g) : x >= b)
             /\ r.cur # None => \A x \in OwnOf(r, r.cur) : x >= b
  <2>1. CASE b = i
    <3>1. t = m + 1
      BY <1>2, <1>5, <2>1 DEF IsHead, Rooted
    <3>2. \A g : g # t => \A x \in OwnOf(r, g) : x < b
      BY <1>1, <1>3, <2>1
    <3> QED BY <1>2, <1>4, <2>1, <3>1, <3>2
  <2>2. CASE b # i
    <3>1. b \in 1 .. n
      BY <2>2
    <3>2. /\ \A g : (\A x \in OwnOf(d, g) : x < b) \/ (\A x \in OwnOf(d, g) : x >= b)
          /\ d.cur # None => \A x \in OwnOf(d, d.cur) : x >= b
      BY <1>5, <3>1 DEF BorderInv
    <3>3. i >= b
      BY <3>1
    <3>4. \A x \in OwnOf(r, t) : x >= b
      BY <1>1, <1>2, <1>4, <3>2, <3>3
    <3> QED BY <1>1, <1>2, <3>2, <3>4
  <2> QED BY <2>1, <2>2
<1>6. ASSUME NEW e \in 1 .. i, Kind(e) = "end", Rooted(events[e].root)
      PROVE  /\ \A g : (\A x \in OwnOf(r, g) : x <= e) \/ (\A x \in OwnOf(r, g) : x > e)
             /\ r.cur # None => \A x \in OwnOf(r, r.cur) : x > e
  <2>1. CASE e = i
    <3>1. r.cur = None
      BY <1>6, <2>1 DEF Moving, Rooted
    <3>2. \A g : \A x \in OwnOf(r, g) : x \in 1 .. n \/ x = i
      BY <1>1, <1>3
    <3> QED BY <2>1, <3>1, <3>2
  <2>2. CASE e # i
    <3>1. e \in 1 .. n
      BY <2>2
    <3>2. /\ \A g : (\A x \in OwnOf(d, g) : x <= e) \/ (\A x \in OwnOf(d, g) : x > e)
          /\ d.cur # None => \A x \in OwnOf(d, d.cur) : x > e
      BY <1>6, <3>1 DEF BorderInv
    <3>3. i > e
      BY <3>1
    <3>4. \A x \in OwnOf(r, t) : x > e
      BY <1>1, <1>2, <1>4, <3>2, <3>3
    <3> QED BY <1>1, <1>2, <3>2, <3>4
  <2> QED BY <2>1, <2>2
<1> QED BY <1>5, <1>6

LEMMA TiesKept ==
  ASSUME NEW n \in Nat, NEW d, PlaceInv(d, n), TieInv(d), EventOK(n + 1),
         Kind(n + 1) \notin {"voucher", "fake"},
         NEW r, NEW t, NEW V, Filing(d, r, n + 1, t, V), Tying(d, r, n + 1, t)
  PROVE  TieInv(r)
<1> DEFINE i == n + 1
<1>1. /\ \A g : Ev(d, g) \subseteq Ev(r, g)
      /\ \A g : g # t => Ev(r, g) = Ev(d, g) /\ OwnOf(r, g) = OwnOf(d, g)
      /\ OwnOf(r, t) = OwnOf(d, t) \cup {i} /\ i \in Ev(r, t)
  BY FilingFacts
<1>2. /\ \A g : Ties(d, g) \subseteq Ties(r, g)
      /\ \A g : g # t => Ties(r, g) = Ties(d, g)
      /\ Tie(i) \subseteq Ties(r, t)
      /\ Kind(i) \notin {"msg", "cancel", "fake"} =>
           /\ Ties(r, t) = Ties(d, t) \cup Tie(i)
           /\ Tie(i) = {} \/ Ties(d, t) = {} \/ Tie(i) \subseteq Ties(d, t)
  BY DEF Tying
<1>3. \A g : /\ \A x \in OwnOf(d, g) : Tie(x) \subseteq Ties(d, g)
             /\ (\A x \in Ev(d, g) : Kind(x) \notin {"msg", "cancel"})
                  => \E p \in Peers \cup {NoPeer} : Ties(d, g) \subseteq {p}
  BY DEF TieInv
<1>4. ASSUME NEW g, g # t
      PROVE  /\ \A x \in OwnOf(r, g) : Tie(x) \subseteq Ties(r, g)
             /\ (\A x \in Ev(r, g) : Kind(x) \notin {"msg", "cancel"})
                  => \E p \in Peers \cup {NoPeer} : Ties(r, g) \subseteq {p}
  BY <1>1, <1>2, <1>3, <1>4
<1>5. \A x \in OwnOf(r, t) : Tie(x) \subseteq Ties(r, t)
  <2>1. ASSUME NEW x \in OwnOf(r, t) PROVE Tie(x) \subseteq Ties(r, t)
    <3>1. x \in OwnOf(d, t) \/ x = i
      BY <1>1
    <3>2. x \in OwnOf(d, t) => Tie(x) \subseteq Ties(d, t)
      BY <1>3
    <3>3. Ties(d, t) \subseteq Ties(r, t)
      BY <1>2
    <3> QED BY <1>2, <3>1, <3>2, <3>3
  <2> QED BY <2>1
<1>6. ASSUME \A x \in Ev(r, t) : Kind(x) \notin {"msg", "cancel"}
      PROVE  \E p \in Peers \cup {NoPeer} : Ties(r, t) \subseteq {p}
  <2>1. Kind(i) \notin {"msg", "cancel", "fake"}
    BY <1>1, <1>6
  <2>2. \A x \in Ev(d, t) : Kind(x) \notin {"msg", "cancel"}
    BY <1>1, <1>6
  <2>3. PICK p \in Peers \cup {NoPeer} : Ties(d, t) \subseteq {p}
    BY <1>3, <2>2
  <2>4. /\ Ties(r, t) = Ties(d, t) \cup Tie(i)
        /\ Tie(i) = {} \/ Ties(d, t) = {} \/ Tie(i) \subseteq Ties(d, t)
    BY <1>2, <2>1
  <2>5. PeerOf(i) \in Peers \cup {NoPeer} /\ Tie(i) \subseteq {PeerOf(i)}
    BY DEF EventOK, Tie
  <2> QED BY <2>3, <2>4, <2>5
<1> QED BY <1>4, <1>5, <1>6 DEF TieInv

-----------------------------------------------------------------------------
(* Rounds of run-loop events.                                              *)

\* The group of an event never changes.
LEMMA GroupsStay ==
  ASSUME NEW n \in Nat, NEW d, WellFormed(d, n), Once(d), NEW r, WellFormed(r, n + 1), Once(r),
         \A g : Ev(d, g) \subseteq Ev(r, g),
         NEW x, ~Fresh(d, x)
  PROVE  GroupOf(r, x) = GroupOf(d, x)
<1>1. PICK g : x \in Ev(d, g)
  BY DEF Fresh
<1>2. GroupOf(d, x) = g
  BY <1>1, GroupOfFacts
<1>3. x \in Ev(r, g) /\ n + 1 \in Nat
  BY <1>1
<1>4. GroupOf(r, x) = g
  BY <1>3, GroupOfFacts
<1> QED BY <1>2, <1>4

\* All but vouchers and wake-ups are in a group.
LEMMA FiledOnce ==
  ASSUME NEW n \in Nat, NEW d, PlaceInv(d, n), NEW x \in 1 .. n, ~Held(x)
  PROVE  ~Fresh(d, x) /\ \E g \in DOMAIN d.groups : x \in Ev(d, g)
<1>1. ~Fresh(d, x)
  BY DEF PlaceInv, WaitsAsVoucher, WaitsAsWakeup, Held
<1> QED BY <1>1 DEF Fresh

LEMMA RoundsKept ==
  ASSUME NEW n \in Nat, n = pos, n + 1 \in DOMAIN events, ListInv, FramesInv, RunLoop,
         NEW d, PlaceInv(d, n), RoundInv(d, n), Kind(n + 1) \notin {"voucher", "fake"},
         NEW r, NEW t, NEW V, Filing(d, r, n + 1, t, V), Moving(d, r, n + 1, t),
         NEW b \in 1 .. n + 1, Kind(b) = "events_begin", \E j \in DOMAIN frames : frames[j] = b
  PROVE  InRound(r, n + 1, b)
<1> DEFINE i == n + 1
<1>1. /\ \A g : Ev(d, g) \subseteq Ev(r, g)
      /\ i \in Ev(r, t) /\ t # None
  <2>1. \A g : Ev(d, g) \subseteq Ev(r, g)
    BY FilingFacts
  <2>2. i \in Ev(r, t)
    BY FilingFacts
  <2>3. Len(d.groups) \in Nat /\ t \in 1 .. Len(d.groups) + 1
    BY FilingFacts
  <2> QED BY <2>1, <2>2, <2>3 DEF None
<1>2. r.rl = IF Kind(i) = "events_begin" THEN t
             ELSE IF Kind(i) = "events_end" THEN None ELSE d.rl
  BY DEF Moving
<1>3. CASE b = i
  BY <1>1, <1>2, <1>3 DEF InRound
<1>4. CASE b # i
  <2>1. b \in 1 .. n /\ b + 1 .. n \subseteq b + 1 .. i /\ i \in b + 1 .. i
    BY <1>4
  <2>2. InRound(d, n, b)
    BY <2>1 DEF RoundInv, Live
  <2>3. CASE \E x \in b + 1 .. n : Kind(x) = "events_begin"
    BY <2>1, <2>3 DEF InRound
  <2>4. CASE d.rl # None /\ b \in Ev(d, d.rl) /\ Kind(i) = "events_begin"
    BY <2>1, <2>4 DEF InRound
  <2>5. CASE d.rl # None /\ b \in Ev(d, d.rl) /\ Kind(i) = "events_end"
    <3> DEFINE e == events[i].root
    <3>1. pos < Len(events) /\ i = pos + 1
      <4>1. DOMAIN events = 1 .. Len(events) /\ Len(events) \in Nat
        BY DEF ListInv
      <4> QED BY <4>1
    <3>2. b < e
      BY <2>5, <3>1 DEF FramesInv
    <3>3. e \in Nat
      BY <2>5, EventFacts
    <3>4. e # None
      BY <2>1, <3>2, <3>3 DEF None
    <3>5. e \in 1 .. i - 1 /\ Kind(e) = "events_begin"
      BY <2>5, <3>4 DEF FramesInv, BeginOf
    <3> HIDE DEF e
    <3>6. e \in b + 1 .. i
      BY <2>1, <3>2, <3>5
    <3> QED BY <3>5, <3>6 DEF InRound
  <2>6. CASE d.rl # None /\ b \in Ev(d, d.rl) /\ Kind(i) \notin {"events_begin", "events_end"}
    BY <1>1, <1>2, <2>6 DEF InRound
  <2> QED BY <2>2, <2>3, <2>4, <2>5, <2>6 DEF InRound
<1> QED BY <1>3, <1>4

LEMMA DoneKept ==
  ASSUME NEW n \in Nat, n = pos, n + 1 \in DOMAIN events, ListInv, FramesInv,
         NEW d, PlaceInv(d, n), RoundInv(d, n), DoneInv(d, n),
         Kind(n + 1) \notin {"voucher", "fake"},
         NEW r, WellFormed(r, n + 1), NEW t, NEW V, Filing(d, r, n + 1, t, V),
         Moving(d, r, n + 1, t)
  PROVE  DoneInv(r, n + 1)
<1> DEFINE i == n + 1
<1>1. /\ \A g : Ev(d, g) \subseteq Ev(r, g)
      /\ i \in Ev(r, t)
  BY FilingFacts
<1>2. WellFormed(d, n) /\ Once(d) /\ Once(r)
  BY DEF PlaceInv, Filing
<1>3. \A x \in 1 .. n : ~Held(x) => GroupOf(r, x) = GroupOf(d, x)
  <2>1. ASSUME NEW x \in 1 .. n, ~Held(x) PROVE GroupOf(r, x) = GroupOf(d, x)
    <3>1. ~Fresh(d, x)
      BY <2>1, FiledOnce
    <3> QED BY <1>1, <1>2, <3>1, GroupsStay
  <2> QED BY <2>1
<1>4. \A e \in 1 .. i : e \in DOMAIN events
  <2>1. DOMAIN events = 1 .. Len(events) /\ Len(events) \in Nat
    BY DEF ListInv
  <2> QED BY <2>1
<1>5. ASSUME NEW e \in 1 .. i, Kind(e) = "events_end", events[e].root # None, RunLoop
      PROVE  \/ GroupOf(r, e) = GroupOf(r, events[e].root)
             \/ \E x \in events[e].root + 1 .. e - 1 : Kind(x) = "events_begin"
  <2> DEFINE b == events[e].root
  <2>1. b \in 1 .. e - 1 /\ Kind(b) = "events_begin"
    BY <1>4, <1>5 DEF FramesInv, BeginOf
  <2>2. ~Held(b) /\ ~Held(e)
    BY <1>5, <2>1 DEF Held
  <2>3. CASE e # i
    <3>1. e \in 1 .. n
      BY <2>3
    <3>2. \/ GroupOf(d, e) = GroupOf(d, b)
          \/ \E x \in b + 1 .. e - 1 : Kind(x) = "events_begin"
      BY <1>5, <3>1 DEF DoneInv
    <3> HIDE DEF b
    <3>3. b \in 1 .. n
      BY <2>1, <3>1
    <3>4. GroupOf(r, e) = GroupOf(d, e) /\ GroupOf(r, b) = GroupOf(d, b)
      BY <1>3, <2>2, <3>1, <3>3
    <3> QED BY <3>2, <3>4 DEF b
  <2>4. CASE e = i
    <3>1. pos < Len(events) /\ i = pos + 1
      <4>1. DOMAIN events = 1 .. Len(events) /\ Len(events) \in Nat
        BY DEF ListInv
      <4> QED BY <4>1
    <3>2. Live(b) /\ b \in 1 .. n
      BY <1>5, <2>1, <2>4, <3>1 DEF Live
    <3>3. InRound(d, n, b)
      BY <1>5, <2>1, <3>2 DEF RoundInv
    <3>4. CASE d.rl # None /\ b \in Ev(d, d.rl)
      <4>1. t = d.rl
        <5>1. Home(d, i) = d.rl
          BY <1>5, <2>4 DEF Home
        <5> QED BY <1>5, <2>4, <3>4, <5>1 DEF Moving
      <4>2. b \in Ev(r, t) /\ i \in Ev(r, t) /\ i \in Nat
        BY <1>1, <3>4, <4>1
      <4>3. GroupOf(r, b) = t /\ GroupOf(r, i) = t
        BY <1>2, <4>2, GroupOfFacts
      <4> QED BY <2>4, <4>3
    <3>5. CASE \E x \in b + 1 .. n : Kind(x) = "events_begin"
      <4>1. e - 1 = n
        BY <2>4
      <4> QED BY <3>5, <4>1
    <3> QED BY <3>3, <3>4, <3>5 DEF InRound
  <2> QED BY <2>3, <2>4
<1> QED BY <1>5 DEF DoneInv

-----------------------------------------------------------------------------
(* The level of a group counts the blocks that began in it, and are open.  *)

LEMMA InsideFacts ==
  ASSUME NEW n \in Nat, NEW d, WellFormed(d, n), NEW g
  PROVE  /\ IsFiniteSet(Inside(d, g)) /\ Cardinality(Inside(d, g)) \in Nat
         /\ Inside(d, g) \subseteq 1 .. Len(d.invokers)
         /\ Ev(d, g) = {} => Cardinality(Inside(d, g)) = 0
<1>1. d.invokers \in Seq(1 .. n)
  BY DividerFacts
<1>2. DOMAIN d.invokers = 1 .. Len(d.invokers) /\ Len(d.invokers) \in Nat
  BY <1>1
<1>3. Inside(d, g) \in SUBSET (1 .. Len(d.invokers))
  BY <1>2 DEF Inside
<1>4. IsFiniteSet(1 .. Len(d.invokers))
  BY <1>2, FS_Interval
<1>5. IsFiniteSet(Inside(d, g))
  BY <1>3, <1>4, FS_Subset
<1>6. Cardinality(Inside(d, g)) \in Nat
  BY <1>5, FS_CardinalityType
<1>7. Ev(d, g) = {} => Inside(d, g) = {}
  BY DEF Inside
<1> QED BY <1>3, <1>5, <1>6, <1>7, FS_EmptySet

\* How the open blocks of a group change with one event.
LEMMA InsideChange ==
  ASSUME NEW n \in Nat, n + 1 \in DOMAIN events, ListInv, FramesInv,
         NEW d, PlaceInv(d, n), StackInv(d, n), Kind(n + 1) \notin {"voucher", "fake"},
         Kind(n + 1) = "end" => events[n + 1].root = Last(d.invokers),
         NEW r, NEW t, NEW V, Filing(d, r, n + 1, t, V), Stacking(d, r, n + 1, t),
         NEW g
  PROVE  Cardinality(Inside(r, g)) =
           Cardinality(Inside(d, g)) + (IF Kind(n + 1) = "begin" /\ g = t THEN 1 ELSE 0)
             - (IF Kind(n + 1) = "end" /\ events[n + 1].root \in Ev(d, g) THEN 1 ELSE 0)
<1> DEFINE i == n + 1
           s == d.invokers
           m == Len(d.invokers)
           I == Inside(d, g)
           J == Inside(r, g)
<1>1. WellFormed(d, n)
  BY DEF PlaceInv
<1>2. s \in Seq(1 .. n)
  BY <1>1, DividerFacts
<1>3. m \in Nat /\ DOMAIN s = 1 .. m /\ \A j \in DOMAIN s : s[j] \in 1 .. n
  BY <1>2
<1>4. IsFiniteSet(I) /\ Cardinality(I) \in Nat /\ I \subseteq 1 .. m
  BY <1>1, InsideFacts
<1>5. \A j \in DOMAIN s : s[j] \in Ev(r, g) <=> s[j] \in Ev(d, g)
  <2>1. \A j \in DOMAIN s : s[j] \in Open(n)
    BY DEF StackInv, Elements
  <2>2. \A j \in DOMAIN s : Kind(s[j]) = "begin" /\ s[j] # i
    BY <1>3, <2>1 DEF Open
  <2>3. /\ Ev(d, g) \subseteq Ev(r, g)
        /\ \A x \in Ev(r, g) : x \in Ev(d, g) \/ x = i \/ x \in HeldBy(d) \cup V
        /\ \A x \in HeldBy(d) : Kind(x) = "fake"
        /\ \A x \in V : Kind(x) = "voucher"
    BY FilingFacts
  <2> QED BY <2>2, <2>3
<1>6. \A j : j \in I <=> j \in DOMAIN s /\ s[j] \in Ev(d, g)
  BY DEF Inside
<1>7. \A j : j \in J <=> j \in DOMAIN r.invokers /\ r.invokers[j] \in Ev(r, g)
  BY DEF Inside
<1>8. CASE Kind(i) = "begin"
  <2>1. r.invokers = Append(s, i)
    BY <1>8 DEF Stacking
  <2>2. /\ DOMAIN Append(s, i) = 1 .. m + 1 /\ Append(s, i)[m + 1] = i
        /\ \A j \in 1 .. m : Append(s, i)[j] = s[j]
    BY <1>2
  <2>3. i \in Ev(r, g) <=> g = t
    <3>1. \A h : Ev(d, h) \subseteq Ev(r, h) /\ Ev(d, h) \subseteq 1 .. n
      BY FilingFacts
    <3>2. \A h : h # t => Ev(r, h) = Ev(d, h) /\ OwnOf(r, h) = OwnOf(d, h)
      BY FilingFacts
    <3>3. i \in Ev(r, t)
      BY FilingFacts
    <3> QED BY <3>1, <3>2, <3>3
  <2>4. \A j : j \in DOMAIN r.invokers <=> j \in DOMAIN s \/ j = m + 1
    BY <1>3, <2>1, <2>2
  <2>5. /\ r.invokers[m + 1] = i /\ m + 1 \notin DOMAIN s
        /\ \A j \in DOMAIN s : r.invokers[j] = s[j]
    BY <1>3, <2>1, <2>2
  <2>6. J = I \cup (IF g = t THEN {m + 1} ELSE {})
    BY <1>5, <1>6, <1>7, <2>3, <2>4, <2>5
  <2>7. m + 1 \notin I
    BY <1>6, <2>5
  <2> HIDE DEF I, J, m
  <2>8. Cardinality(I \cup {m + 1}) = Cardinality(I) + 1
    BY <1>4, <2>7, FS_AddElement
  <2>9. Cardinality(J) = Cardinality(I) + (IF g = t THEN 1 ELSE 0)
    <3>1. CASE g = t
      BY <2>6, <2>8, <3>1
    <3>2. CASE g # t
      <4>1. J = I
        BY <2>6, <3>2
      <4> QED BY <1>4, <3>2, <4>1
    <3> QED BY <3>1, <3>2
  <2> QED BY <1>4, <1>8, <2>9 DEF I, J
<1>9. CASE Kind(i) = "end"
  <2>1. r.invokers = Front(s) /\ events[i].root = Last(s)
    BY <1>9 DEF Stacking
  <2>2. s # <<>>
    <3>1. Elements(s) # {}
      BY <1>9, EndIsOpen DEF StackInv
    <3>2. s = <<>> => DOMAIN s = {}
      OBVIOUS
    <3> QED BY <3>1, <3>2 DEF Elements
  <2>3. m \in Nat \ {0} /\ m \in DOMAIN s /\ Last(s) = s[m]
    BY <1>2, <1>3, <2>2 DEF Last
  <2>4. Len(Front(s)) = m - 1 /\ Front(s) \in Seq(1 .. n) /\ \A j \in 1 .. m - 1 : Front(s)[j] = s[j]
    BY <1>2, <2>2, FrontFacts
  <2>5. DOMAIN Front(s) = 1 .. m - 1
    BY <2>4
  <2>6. \A j : j \in DOMAIN r.invokers <=> j \in DOMAIN s /\ j # m
    BY <1>3, <2>1, <2>3, <2>5
  <2>7. \A j \in DOMAIN r.invokers : r.invokers[j] = s[j]
    BY <2>1, <2>4, <2>5
  <2>8. J = I \ {m}
    BY <1>5, <1>6, <1>7, <2>6, <2>7
  <2>9. m \in I <=> events[i].root \in Ev(d, g)
    BY <1>6, <2>1, <2>3
  <2> HIDE DEF I, J, m
  <2>10. Cardinality(J) = IF m \in I THEN Cardinality(I) - 1 ELSE Cardinality(I)
    BY <1>4, <2>8, FS_RemoveElement
  <2> QED BY <1>4, <1>9, <2>9, <2>10 DEF I, J
<1>10. CASE Kind(i) \notin {"begin", "end"}
  <2>1. r.invokers = s
    BY <1>10 DEF Stacking
  <2>2. J = I
    BY <1>5, <1>6, <1>7, <2>1
  <2> HIDE DEF I, J
  <2> QED BY <1>4, <1>10, <2>2 DEF I, J
<1> QED BY <1>8, <1>9, <1>10

\* The group in which a block began goes on without it, or its end is elsewhere.
LEMMA LevelKept ==
  ASSUME NEW n \in Nat, n + 1 \in DOMAIN events, ListInv, FramesInv,
         NEW d, PlaceInv(d, n), StackInv(d, n), OrderInv(d), LevelInv(d, n),
         Kind(n + 1) \notin {"voucher", "fake"},
         Kind(n + 1) = "end" => events[n + 1].root = Last(d.invokers),
         NEW r, WellFormed(r, n + 1), NEW t, NEW V, Filing(d, r, n + 1, t, V),
         Moving(d, r, n + 1, t), Stacking(d, r, n + 1, t)
  PROVE  LevelInv(r, n + 1)
<1> DEFINE i == n + 1
           b == events[i].root
           C(x, g) == Cardinality(Inside(x, g))
           down(g) == Kind(i) = "end" /\ b \in Ev(d, g)
           lower(g) == Kind(i) = "end" /\ d.cur # None /\ GroupOf(d, b) = d.cur /\ g = d.cur
           up(g) == Kind(i) = "begin" /\ g = t
<1>1. /\ WellFormed(d, n) /\ Once(d) /\ Once(r) /\ i \in Nat
  BY DEF PlaceInv, Filing
<1>2. \A g : C(d, g) \in Nat /\ C(r, g) \in Nat /\ Level(d, g) \in Int /\ Level(r, g) \in Int
  BY <1>1, InsideFacts, LevelType
<1>3. ASSUME NEW g
      PROVE  /\ C(r, g) = C(d, g) + (IF up(g) THEN 1 ELSE 0) - (IF down(g) THEN 1 ELSE 0)
             /\ Level(r, g) = Level(d, g) + (IF up(g) THEN 1 ELSE 0) - (IF lower(g) THEN 1 ELSE 0)
  <2>1. C(r, g) = C(d, g) + (IF up(g) THEN 1 ELSE 0) - (IF down(g) THEN 1 ELSE 0)
    BY InsideChange
  <2>2. Level(r, g) = Level(d, g) + (IF up(g) THEN 1 ELSE 0) - (IF lower(g) THEN 1 ELSE 0)
    BY DEF Stacking
  <2> QED BY <2>1, <2>2
<1>4. Kind(i) = "end" =>
        \E h : /\ b \in Ev(d, h) /\ GroupOf(d, b) = h /\ b \in 1 .. n /\ ~Held(b)
               /\ \A g : b \in Ev(d, g) => g = h
  <2>1. SUFFICES ASSUME Kind(i) = "end"
                 PROVE  \E h : /\ b \in Ev(d, h) /\ GroupOf(d, b) = h /\ b \in 1 .. n /\ ~Held(b)
                               /\ \A g : b \in Ev(d, g) => g = h
    OBVIOUS
  <2>2. b \in 1 .. n /\ Kind(b) = "begin"
    BY <2>1, EndIsOpen DEF Open
  <2> HIDE DEF b
  <2>3. ~Held(b)
    BY <2>2 DEF Held
  <2>4. PICK h : b \in Ev(d, h)
    BY <2>2, <2>3, FiledOnce
  <2> QED BY <1>1, <2>2, <2>3, <2>4, GroupOfFacts
<1>5. \A g : lower(g) => down(g)
  BY <1>4
<1> HIDE DEF down, lower, up, C
<1>6. \A g : Level(d, g) >= C(d, g)
  BY DEF LevelInv, C
<1>7. ASSUME NEW g PROVE Level(r, g) >= C(r, g)
  <2>1. /\ C(r, g) = C(d, g) + (IF up(g) THEN 1 ELSE 0) - (IF down(g) THEN 1 ELSE 0)
        /\ Level(r, g) = Level(d, g) + (IF up(g) THEN 1 ELSE 0) - (IF lower(g) THEN 1 ELSE 0)
    BY <1>3
  <2>2. Level(d, g) >= C(d, g) /\ C(d, g) \in Nat /\ Level(d, g) \in Int
    BY <1>2, <1>6
  <2> QED BY <1>5, <2>1, <2>2
\* What remains is that the level does not exceed the count.
<1>8. ASSUME NEW g, Level(d, g) <= C(d, g), down(g) => lower(g)
      PROVE  Level(r, g) <= C(r, g)
  <2>1. /\ C(r, g) = C(d, g) + (IF up(g) THEN 1 ELSE 0) - (IF down(g) THEN 1 ELSE 0)
        /\ Level(r, g) = Level(d, g) + (IF up(g) THEN 1 ELSE 0) - (IF lower(g) THEN 1 ELSE 0)
    BY <1>3
  <2>2. C(d, g) \in Nat /\ Level(d, g) \in Int
    BY <1>2
  <2> QED BY <1>8, <2>1, <2>2
<1>9. /\ Len(d.groups) \in Nat /\ t \in 1 .. Len(d.groups) + 1 /\ DOMAIN d.groups = 1 .. Len(d.groups)
      /\ \A g : Ev(d, g) \subseteq Ev(r, g)
      /\ i \in Ev(r, t)
  BY FilingFacts
<1>10. /\ t = Len(d.groups) + 1 \/ t = d.cur \/ t = d.rl
       /\ ~RunLoop => d.rl = None /\ r.cur \in {None, t}
       /\ t # None
  BY Destination
<1>11. \A g : g \notin DOMAIN d.groups => Ev(d, g) = {} /\ Level(d, g) = 0
  BY <1>1, EvFacts
<1>12. ASSUME ~RunLoop, r.cur # None PROVE Level(r, r.cur) <= C(r, r.cur)
  <2>1. r.cur = t
    BY <1>10, <1>12
  <2>2. CASE t = Len(d.groups) + 1
    <3>1. t \notin DOMAIN d.groups
      BY <1>9, <2>2
    <3>2. ~down(t) /\ Level(d, t) = 0
      BY <1>11, <3>1 DEF down
    <3>3. Level(d, t) <= C(d, t)
      BY <1>2, <3>2
    <3> QED BY <1>8, <2>1, <3>2, <3>3
  <2>3. CASE t = d.cur /\ d.cur # None
    <3>1. Level(d, t) <= C(d, t)
      BY <1>12, <2>3 DEF LevelInv, C
    <3>2. down(t) => lower(t)
      BY <1>4, <2>3 DEF down, lower
    <3> QED BY <1>8, <2>1, <3>1, <3>2
  <2> QED BY <1>10, <1>12, <2>2, <2>3
<1>13. ASSUME RunLoop PROVE Elsewhere(r, i) \/ \A g : Level(r, g) <= C(r, g)
  <2>1. CASE Elsewhere(d, n)
    <3>1. PICK e \in 1 .. n : Kind(e) = "end" /\ GroupOf(d, e) # GroupOf(d, events[e].root)
      BY <2>1 DEF Elsewhere
    <3> DEFINE q == events[e].root
    <3>2. q \in 1 .. n /\ Kind(q) = "begin"
      <4>1. e \in DOMAIN events
        <5>1. DOMAIN events = 1 .. Len(events) /\ Len(events) \in Nat
          BY DEF ListInv
        <5> QED BY <5>1
      <4>2. q \in 1 .. e - 1 /\ Kind(q) = "begin"
        BY <3>1, <4>1 DEF FramesInv
      <4> QED BY <4>2
    <3> HIDE DEF q
    <3>3. ~Held(e) /\ ~Held(q)
      BY <3>1, <3>2 DEF Held
    <3>4. ~Fresh(d, e) /\ ~Fresh(d, q)
      BY <3>2, <3>3, FiledOnce
    <3>5. GroupOf(r, e) = GroupOf(d, e) /\ GroupOf(r, q) = GroupOf(d, q)
      BY <1>1, <1>9, <3>4, GroupsStay
    <3>6. e \in 1 .. i
      OBVIOUS
    <3> QED BY <3>1, <3>5, <3>6 DEF Elsewhere, q
  <2>2. CASE \A g : Level(d, g) <= C(d, g)
    <3>1. CASE \A g : down(g) => lower(g)
      BY <1>8, <2>2, <3>1
    <3>2. CASE \E g : down(g) /\ ~lower(g)
      <4>1. PICK g : down(g) /\ ~lower(g)
        BY <3>2
      <4>2. Kind(i) = "end" /\ b \in Ev(d, g) /\ GroupOf(d, b) = g /\ ~(d.cur # None /\ g = d.cur)
        BY <1>4, <4>1 DEF down, lower
      <4>3. g \in DOMAIN d.groups
        BY <1>11, <4>2
      <4>4. t # g
        <5>1. Home(d, i) = d.cur
          BY <4>2 DEF Home
        <5>2. d.cur = None => t = Len(d.groups) + 1
          BY <1>10, <5>1 DEF Moving
        <5>3. d.cur # None => t = d.cur
          BY <4>2, <5>1 DEF Moving
        <5> QED BY <1>9, <4>2, <4>3, <5>2, <5>3
      <4>5. GroupOf(r, b) = g /\ GroupOf(r, i) = t
        <5>1. b \in Ev(r, g)
          BY <1>9, <4>2
        <5> QED BY <1>1, <1>9, <5>1, GroupOfFacts
      <4>6. i \in 1 .. i
        OBVIOUS
      <4> QED BY <4>2, <4>4, <4>5, <4>6 DEF Elsewhere
    <3> QED BY <3>1, <3>2
  <2> QED BY <1>13, <2>1, <2>2 DEF LevelInv, C
<1> QED BY <1>7, <1>12, <1>13 DEF LevelInv, C

\* An event that is held back changes no group and no block.
LEMMA HoldingKeeps ==
  ASSUME NEW n \in Nat, n = pos, n + 1 \in DOMAIN events, ListInv, FramesInv,
         NEW d, DividerInv(d, n), Kind(n + 1) \in {"voucher", "fake"},
         NEW r, Holding(d, r, n + 1)
  PROVE  /\ PlaceInv(r, n + 1) /\ StackInv(r, n + 1) /\ LevelInv(r, n + 1) /\ OrderInv(r)
         /\ SegmentInv(r, n + 1) /\ BorderInv(r, n + 1) /\ TieInv(r) /\ DoneInv(r, n + 1)
         /\ RunLoop => \A b \in 1 .. n + 1 :
              Kind(b) = "events_begin" /\ (\E j \in DOMAIN frames : frames[j] = b)
                => InRound(r, n + 1, b)
<1> DEFINE i == n + 1
<1>1. /\ PlaceInv(d, n) /\ StackInv(d, n) /\ LevelInv(d, n) /\ OrderInv(d)
      /\ SegmentInv(d, n) /\ BorderInv(d, n) /\ TieInv(d) /\ RoundInv(d, n) /\ DoneInv(d, n)
  BY DEF DividerInv
<1>2. /\ PlaceInv(r, i)
      /\ \A g : Ev(r, g) = Ev(d, g) /\ Level(r, g) = Level(d, g) /\ Ties(r, g) = Ties(d, g)
  BY <1>1, HoldingKeepsPlaces
<1>3. /\ r.groups = d.groups /\ r.cur = d.cur /\ r.rl = d.rl /\ r.invokers = d.invokers
  BY DEF Holding
<1>4. /\ \A g : OwnOf(r, g) = OwnOf(d, g) /\ Inside(r, g) = Inside(d, g)
      /\ \A x : GroupOf(r, x) = GroupOf(d, x)
  BY <1>2, <1>3 DEF OwnOf, Inside, GroupOf
<1>5. \A g : Ev(d, g) \subseteq 1 .. n /\ OwnOf(d, g) \subseteq 1 .. n
  <2>1. \A g : Ev(d, g) \subseteq 1 .. n
    BY <1>1, EvFacts DEF PlaceInv
  <2> QED BY <2>1 DEF OwnOf
<1>6. \A x \in 1 .. i : x \in 1 .. n \/ x = i
  OBVIOUS
<1>7. Kind(i) \notin {"begin", "end", "callout", "item_begin", "item_end", "events_begin", "events_end"}
  OBVIOUS
<1>8. StackInv(r, i)
  <2>1. Open(i) = Open(n)
    BY <1>7, OpenFacts
  <2> QED BY <1>1, <1>3, <2>1 DEF StackInv
<1>9. LevelInv(r, i)
  <2>1. Elsewhere(d, n) => Elsewhere(r, i)
    <3>1. \A x \in 1 .. n : x \in 1 .. i
      OBVIOUS
    <3> QED BY <1>4, <3>1 DEF Elsewhere
  <2> QED BY <1>1, <1>2, <1>3, <1>4, <2>1 DEF LevelInv
<1>10. OrderInv(r)
  BY <1>1, <1>2, <1>3, <1>4 DEF OrderInv
<1>11. SegmentInv(r, i)
  <2>1. ASSUME NEW b \in 1 .. i, IsHead(b), NEW g, b \in Ev(r, g)
        PROVE  /\ g # r.rl /\ \A x \in OwnOf(r, g) : x >= b
               /\ \A e \in 1 .. i : EndOf(e, b) => g # r.cur /\ \A x \in OwnOf(r, g) : x <= e
    <3>1. b \in 1 .. n
      BY <1>6, <1>7, <2>1 DEF IsHead
    <3>2. b \in Ev(d, g)
      BY <1>2, <2>1
    <3>3. /\ g # d.rl /\ \A x \in OwnOf(d, g) : x >= b
          /\ \A e \in 1 .. n : EndOf(e, b) => g # d.cur /\ \A x \in OwnOf(d, g) : x <= e
      BY <1>1, <2>1, <3>1, <3>2 DEF SegmentInv
    <3>4. ~EndOf(i, b)
      BY <1>7 DEF EndOf
    <3> QED BY <1>3, <1>4, <1>6, <3>3, <3>4
  <2> QED BY <2>1 DEF SegmentInv
<1>12. BorderInv(r, i)
  <2> SUFFICES ASSUME ~RunLoop
               PROVE  /\ \A b \in 1 .. i : Rooted(b) =>
                           /\ \A g : (\A x \in OwnOf(r, g) : x < b) \/ (\A x \in OwnOf(r, g) : x >= b)
                           /\ r.cur # None => \A x \in OwnOf(r, r.cur) : x >= b
                      /\ \A e \in 1 .. i : Kind(e) = "end" /\ Rooted(events[e].root) =>
                           /\ \A g : (\A x \in OwnOf(r, g) : x <= e) \/ (\A x \in OwnOf(r, g) : x > e)
                           /\ r.cur # None => \A x \in OwnOf(r, r.cur) : x > e
    BY DEF BorderInv
  <2>1. /\ \A b \in 1 .. n : Rooted(b) =>
             /\ \A g : (\A x \in OwnOf(d, g) : x < b) \/ (\A x \in OwnOf(d, g) : x >= b)
             /\ d.cur # None => \A x \in OwnOf(d, d.cur) : x >= b
        /\ \A e \in 1 .. n : Kind(e) = "end" /\ Rooted(events[e].root) =>
             /\ \A g : (\A x \in OwnOf(d, g) : x <= e) \/ (\A x \in OwnOf(d, g) : x > e)
             /\ d.cur # None => \A x \in OwnOf(d, d.cur) : x > e
    BY <1>1 DEF BorderInv
  <2>2. ~Rooted(i)
    BY <1>7 DEF Rooted
  <2> QED BY <1>3, <1>4, <1>6, <1>7, <2>1, <2>2
<1>13. TieInv(r)
  BY <1>1, <1>2, <1>4 DEF TieInv
<1>14. DoneInv(r, i)
  <2>1. \A e \in 1 .. i : Kind(e) = "events_end" => e \in 1 .. n
    BY <1>6, <1>7
  <2> QED BY <1>1, <1>4, <2>1 DEF DoneInv
<1>15. ASSUME RunLoop, NEW b \in 1 .. i, Kind(b) = "events_begin", \E j \in DOMAIN frames : frames[j] = b
       PROVE  InRound(r, i, b)
  <2>1. b \in 1 .. n
    BY <1>6, <1>7, <1>15
  <2>2. InRound(d, n, b)
    BY <1>1, <1>15, <2>1 DEF RoundInv, Live
  <2>3. b + 1 .. n \subseteq b + 1 .. i
    OBVIOUS
  <2> QED BY <1>2, <1>3, <2>2, <2>3 DEF InRound
<1> QED BY <1>2, <1>8, <1>9, <1>10, <1>11, <1>12, <1>13, <1>14, <1>15

\* An event that is filed.
LEMMA FilingKeeps ==
  ASSUME NEW n \in Nat, n = pos, n + 1 \in DOMAIN events, ListInv, FramesInv,
         NEW d, DividerInv(d, n), Kind(n + 1) \notin {"voucher", "fake"},
         Kind(n + 1) = "end" => events[n + 1].root = Last(d.invokers),
         NEW r, Step(d, r, n + 1)
  PROVE  /\ PlaceInv(r, n + 1) /\ StackInv(r, n + 1) /\ LevelInv(r, n + 1) /\ OrderInv(r)
         /\ SegmentInv(r, n + 1) /\ BorderInv(r, n + 1) /\ TieInv(r) /\ DoneInv(r, n + 1)
         /\ RunLoop => \A b \in 1 .. n + 1 :
              Kind(b) = "events_begin" /\ (\E j \in DOMAIN frames : frames[j] = b)
                => InRound(r, n + 1, b)
<1>1. /\ PlaceInv(d, n) /\ StackInv(d, n) /\ LevelInv(d, n) /\ OrderInv(d)
      /\ SegmentInv(d, n) /\ BorderInv(d, n) /\ TieInv(d) /\ RoundInv(d, n) /\ DoneInv(d, n)
  BY DEF DividerInv
<1>2. PICK t, V : /\ Filing(d, r, n + 1, t, V) /\ Tying(d, r, n + 1, t)
                  /\ Moving(d, r, n + 1, t) /\ Stacking(d, r, n + 1, t)
  BY DEF Step
<1>3. WellFormed(r, n + 1) /\ WellFormed(d, n) /\ EventOK(n + 1)
  BY <1>1, EventFacts DEF Step, PlaceInv
<1>4. PlaceInv(r, n + 1)
  BY <1>1, <1>2, <1>3, FilingKeepsPlaces
<1>5. StackInv(r, n + 1)
  <2>1. r.invokers = CASE Kind(n + 1) = "begin" -> Append(d.invokers, n + 1)
                       [] Kind(n + 1) = "end"   -> Front(d.invokers)
                       [] OTHER                 -> d.invokers
    BY <1>2 DEF Stacking
  <2> QED BY <1>1, <1>3, <2>1, StackKept
<1>6. LevelInv(r, n + 1)
  BY <1>1, <1>2, <1>3, LevelKept
<1>7. OrderInv(r)
  BY <1>1, <1>2, <1>3, OrderKept
<1>8. SegmentInv(r, n + 1)
  BY <1>1, <1>2, SegmentKept
<1>9. BorderInv(r, n + 1)
  BY <1>1, <1>2, BorderKept
<1>10. TieInv(r)
  BY <1>1, <1>2, <1>3, TiesKept
<1>11. DoneInv(r, n + 1)
  BY <1>1, <1>2, <1>3, DoneKept
<1>12. ASSUME RunLoop, NEW b \in 1 .. n + 1, Kind(b) = "events_begin",
              \E j \in DOMAIN frames : frames[j] = b
       PROVE  InRound(r, n + 1, b)
  BY <1>1, <1>2, <1>12, RoundsKept
<1> QED BY <1>4, <1>5, <1>6, <1>7, <1>8, <1>9, <1>10, <1>11, <1>12

-----------------------------------------------------------------------------
(* What happens to the list happens after the events divided.              *)

LEMMA ListGrows ==
  ASSUME ListInv, FramesInv, NEW n \in Nat, n <= Len(events), NEW d, d = div', n = pos',
         thread' = thread, \A j \in 1 .. n : events'[j] = events[j],
         PlaceInv(d, n), StackInv(d, n), LevelInv(d, n), OrderInv(d), SegmentInv(d, n),
         BorderInv(d, n), TieInv(d), DoneInv(d, n),
         RunLoop => \A b \in 1 .. n : Kind(b) = "events_begin" /\ Live(b)' => InRound(d, n, b)
  PROVE  DividerInv(div, pos)'
<1>1. /\ \A j \in 1 .. n : /\ Kind(j)' = Kind(j) /\ PeerOf(j)' = PeerOf(j)
                           /\ Held(j)' <=> Held(j)
      /\ RunLoop' = RunLoop
  BY DEF Kind, PeerOf, Held, RunLoop
<1>2. /\ \A g : Ev(d, g) \subseteq 1 .. n
      /\ d.fake \in 0 .. n /\ d.voucher \in 0 .. n
      /\ \A j \in DOMAIN d.invokers : d.invokers[j] \in 1 .. n
  <2>1. WellFormed(d, n)
    BY DEF PlaceInv
  <2>2. d.invokers \in Seq(1 .. n) /\ d.fake \in 0 .. n /\ d.voucher \in 0 .. n
    BY <2>1, DividerFacts
  <2> QED BY <2>1, <2>2, EvFacts
<1>3. /\ \A g : /\ Ev(div, g)' = Ev(d, g) /\ Level(div, g)' = Level(d, g)
                /\ Ties(div, g)' = Ties(d, g) /\ Inside(div, g)' = Inside(d, g)
      /\ \A x : Fresh(div, x)' <=> Fresh(d, x)
      /\ \A x : GroupOf(div, x)' = GroupOf(d, x)
      /\ WellFormed(div, pos)' <=> WellFormed(d, n)
      /\ (Filled(div)' <=> Filled(d)) /\ (Once(div)' <=> Once(d))
  BY DEF Ev, Level, Ties, Inside, Fresh, GroupOf, WellFormed, Divider, Group, Filled, Once
<1>4. /\ \A g : OwnOf(div, g)' = OwnOf(d, g)
      /\ \A g : OwnOf(d, g) \subseteq Ev(d, g)
  BY <1>1, <1>2, <1>3 DEF OwnOf
<1>5. \A e \in 1 .. n :
        /\ Kind(e) = "end" => events[e].root \in 1 .. n
        /\ Kind(e) \in {"events_end", "item_end"} /\ events[e].root # None =>
             events[e].root \in 1 .. n
  <2>1. \A e \in 1 .. n : e \in DOMAIN events /\ \A x \in 1 .. e - 1 : x \in 1 .. n
    <3>1. DOMAIN events = 1 .. Len(events) /\ Len(events) \in Nat
      BY DEF ListInv
    <3> QED BY <3>1
  <2> QED BY <2>1 DEF FramesInv
<1>6. PlaceInv(div, pos)'
  <2>1. /\ WellFormed(d, n) /\ Filled(d) /\ Once(d)
        /\ d.fake # None => /\ Kind(d.fake) = "fake" /\ Fresh(d, d.fake)
                            /\ \A k \in d.fake .. n : Held(k)
        /\ d.voucher # None => Kind(d.voucher) = "voucher" /\ Fresh(d, d.voucher)
        /\ \A i \in 1 .. n : Fresh(d, i) => WaitsAsVoucher(d, n, i) \/ WaitsAsWakeup(d, n, i)
    BY DEF PlaceInv
  <2>2. d.fake # None => /\ Kind(d.fake)' = "fake" /\ \A k \in d.fake .. n : Held(k)'
    <3>1. d.fake # None => d.fake \in 1 .. n /\ \A k \in d.fake .. n : k \in 1 .. n
      BY <1>2 DEF None
    <3> QED BY <1>1, <2>1, <3>1
  <2>3. d.voucher # None => Kind(d.voucher)' = "voucher"
    <3>1. d.voucher # None => d.voucher \in 1 .. n
      BY <1>2 DEF None
    <3> QED BY <1>1, <2>1, <3>1
  <2>4. ASSUME NEW i \in 1 .. n, WaitsAsVoucher(d, n, i) PROVE WaitsAsVoucher(div, pos, i)'
    <3>1. \A j \in i + 1 .. n : j \in 1 .. n
      OBVIOUS
    <3> QED BY <1>1, <2>4, <3>1 DEF WaitsAsVoucher
  <2>5. ASSUME NEW i \in 1 .. n, WaitsAsWakeup(d, n, i) PROVE WaitsAsWakeup(div, pos, i)'
    <3>1. PICK j \in i .. n : /\ \A k \in i .. j : Held(k)
                              /\ (d.fake = j \/ (j > i /\ Kind(j) = "fake"))
      BY <2>5 DEF WaitsAsWakeup
    <3>2. j \in 1 .. n /\ \A k \in i .. j : k \in 1 .. n
      OBVIOUS
    <3>3. /\ \A k \in i .. j : Held(k)'
          /\ (d.fake = j \/ (j > i /\ Kind(j)' = "fake"))
      BY <1>1, <3>1, <3>2
    <3> QED BY <1>1, <2>5, <3>3 DEF WaitsAsWakeup
  <2> QED BY <1>3, <2>1, <2>2, <2>3, <2>4, <2>5 DEF PlaceInv
<1>7. StackInv(div, pos)'
  <2>1. Open(pos)' = Open(n)
    <3>1. \A b \in 1 .. n : \A e \in b + 1 .. n : e \in 1 .. n
      OBVIOUS
    <3> QED BY <1>1, <3>1 DEF Open
  <2> QED BY <2>1 DEF StackInv, Elements
<1>8. LevelInv(div, pos)'
  <2>1. Elsewhere(d, n) => Elsewhere(div, pos)'
    BY <1>1, <1>3 DEF Elsewhere
  <2> QED BY <1>1, <1>3, <2>1 DEF LevelInv
<1>9. OrderInv(div)'
  BY <1>1, <1>2, <1>3, <1>4 DEF OrderInv
<1>10. SegmentInv(div, pos)'
  <2>1. \A b \in 1 .. n : /\ IsHead(b)' <=> IsHead(b)
                          /\ \A e \in 1 .. n : EndOf(e, b)' <=> EndOf(e, b)
    BY <1>1 DEF IsHead, EndOf
  <2> QED BY <1>3, <1>4, <2>1 DEF SegmentInv
<1>11. BorderInv(div, pos)'
  <2>1. \A b \in 1 .. n : Rooted(b)' <=> Rooted(b)
    BY <1>1 DEF Rooted
  <2>2. \A e \in 1 .. n : Kind(e) = "end" =>
          events'[e].root = events[e].root /\ (Rooted(events[e].root)' <=> Rooted(events[e].root))
    BY <1>5, <2>1
  <2> QED BY <1>1, <1>4, <2>1, <2>2 DEF BorderInv
<1>12. TieInv(div)'
  <2>1. \A i \in 1 .. n : Tie(i)' = Tie(i)
    BY <1>1 DEF Tie
  <2>2. ASSUME NEW g
        PROVE  /\ \A i \in OwnOf(d, g) : Tie(i)' \subseteq Ties(d, g)
               /\ (\A i \in Ev(d, g) : Kind(i)' \notin {"msg", "cancel"})
                    => \E p \in Peers \cup {NoPeer} : Ties(d, g) \subseteq {p}
    <3>1. \A i \in OwnOf(d, g) : i \in 1 .. n /\ Tie(i) \subseteq Ties(d, g)
      BY <1>2, <1>4 DEF TieInv
    <3>2. (\A i \in Ev(d, g) : Kind(i)' \notin {"msg", "cancel"})
            => \A i \in Ev(d, g) : Kind(i) \notin {"msg", "cancel"}
      BY <1>1, <1>2
    <3> QED BY <2>1, <3>1, <3>2 DEF TieInv
  <2> QED BY <1>3, <1>4, <2>2 DEF TieInv
<1>13. RoundInv(div, pos)'
  <2>1. ASSUME NEW b \in 1 .. n, InRound(d, n, b) PROVE InRound(div, pos, b)'
    <3>1. \A i \in b + 1 .. n : i \in 1 .. n
      OBVIOUS
    <3> QED BY <1>1, <1>3, <2>1, <3>1 DEF InRound
  <2> QED BY <1>1, <2>1 DEF RoundInv
<1>14. DoneInv(div, pos)'
  <2>1. ASSUME NEW e \in 1 .. n, Kind(e) = "events_end", events[e].root # None, RunLoop
        PROVE  \/ GroupOf(div, e)' = GroupOf(d, events[e].root)
               \/ \E i \in events[e].root + 1 .. e - 1 : Kind(i)' = "events_begin"
    <3>1. events[e].root \in 1 .. n
      BY <1>5, <2>1
    <3>2. \A i \in events[e].root + 1 .. e - 1 : i \in 1 .. n
      BY <3>1
    <3> QED BY <1>1, <1>3, <2>1, <3>2 DEF DoneInv
  <2> QED BY <1>1, <1>3, <2>1 DEF DoneInv
<1> QED BY <1>6, <1>7, <1>8, <1>9, <1>10, <1>11, <1>12, <1>13, <1>14 DEF DividerInv

LEMMA DivideSteps ==
  ASSUME IInv, Divide, Kind(pos + 1) \notin {"voucher", "fake"}
  PROVE  Step(div, div', pos + 1)
<1> DEFINE n == pos
           i == n + 1
<1>1. /\ ListInv /\ FramesInv /\ PlaceInv(div, n) /\ StackInv(div, n)
      /\ n < Len(events) /\ n \in Nat
  BY DEF IInv, DividerInv, Divide, ListInv
<1>2. /\ i \in Nat \ {0} /\ \A j \in 1 .. i : j \in DOMAIN events
  <2>1. DOMAIN events = 1 .. Len(events) /\ Len(events) \in Nat
    BY <1>1 DEF ListInv
  <2> QED BY <1>1, <2>1
<1>3. Before(div, i)
  BY <1>1, BeforeFacts
<1>4. EventOK(i)
  BY <1>1, <1>2, EventFacts
<1>5. div.voucher # None => EventOK(div.voucher)
  <2>1. div.voucher \in 0 .. n
    BY <1>1, BeforeFacts
  <2>2. div.voucher # None => div.voucher \in DOMAIN events
    BY <1>1, <1>2, <2>1 DEF None
  <2> QED BY <1>1, <2>2, EventFacts
<1>6. Kind(i) = "end" => div.invokers # <<>>
  <2>1. Kind(i) = "end" => Elements(div.invokers) # {}
    BY <1>1, <1>2, EndIsOpen DEF StackInv
  <2>2. div.invokers = <<>> => DOMAIN div.invokers = {}
    OBVIOUS
  <2> QED BY <2>1, <2>2 DEF Elements
<1>7. PICK lucky \in BOOLEAN : div' = Divided(div, i, lucky)
  BY DEF Divide
<1>8. Step(div, Divided(div, i, lucky), i)
  BY <1>2, <1>3, <1>4, <1>5, <1>6, FilingEffect
<1> QED BY <1>7, <1>8

LEMMA DivideKeeps ==
  ASSUME IInv, Divide
  PROVE  IInv'
<1> DEFINE n == pos
           i == n + 1
<1>1. /\ ListInv /\ FramesInv /\ DividerInv(div, n)
      /\ status = "dividing" /\ n < Len(events)
      /\ Kind(i) = "end" => events[i].root = Last(div.invokers)
      /\ pos' = i
  BY DEF IInv, Divide
<1>2. UNCHANGED <<thread, events, frames, status>>
  BY DEF Divide
<1>3. n \in Nat /\ Len(events) = i /\ DOMAIN events = 1 .. i /\ i \in DOMAIN events /\ i \in Nat \ {0}
  BY <1>1 DEF ListInv
<1>4. PICK lucky \in BOOLEAN : div' = Divided(div, i, lucky)
  BY DEF Divide
<1>5. /\ PlaceInv(div, n) /\ StackInv(div, n)
  BY <1>1 DEF DividerInv
<1>6. ASSUME NEW r, r = Divided(div, i, lucky)
      PROVE  /\ PlaceInv(r, i) /\ StackInv(r, i) /\ LevelInv(r, i) /\ OrderInv(r)
             /\ SegmentInv(r, i) /\ BorderInv(r, i) /\ TieInv(r) /\ DoneInv(r, i)
             /\ RunLoop => \A b \in 1 .. i :
                  Kind(b) = "events_begin" /\ (\E j \in DOMAIN frames : frames[j] = b)
                    => InRound(r, i, b)
  <2>1. CASE Kind(i) \in {"voucher", "fake"}
    <3>1. WellFormed(div, i)
      BY <1>3, <1>5, Lifted DEF PlaceInv
    <3>2. Holding(div, r, i)
      BY <1>3, <1>6, <2>1, <3>1, HoldingEffect
    <3> QED BY <1>1, <1>3, <2>1, <3>2, HoldingKeeps
  <2>2. CASE Kind(i) \notin {"voucher", "fake"}
    <3>1. Step(div, r, i)
      BY <1>4, <1>6, <2>2, DivideSteps
    <3> QED BY <1>1, <1>3, <2>2, <3>1, FilingKeeps
  <2> QED BY <2>1, <2>2
<1>7. DividerInv(div, pos)'
  <2> SUFFICES ASSUME NEW r, r = div', NEW m, m = pos' PROVE DividerInv(div, pos)'
    OBVIOUS
  <2>1. r = Divided(div, i, lucky) /\ m = i /\ m \in Nat /\ m <= Len(events)
    BY <1>1, <1>3, <1>4
  <2>2. /\ PlaceInv(r, m) /\ StackInv(r, m) /\ LevelInv(r, m) /\ OrderInv(r)
        /\ SegmentInv(r, m) /\ BorderInv(r, m) /\ TieInv(r) /\ DoneInv(r, m)
        /\ RunLoop => \A b \in 1 .. m :
             Kind(b) = "events_begin" /\ (\E j \in DOMAIN frames : frames[j] = b)
               => InRound(r, m, b)
    BY <1>6, <2>1
  <2>3. \A b : Live(b)' => \E j \in DOMAIN frames : frames[j] = b
    BY <1>1, <1>2, <1>3 DEF Live
  <2>4. RunLoop => \A b \in 1 .. m : Kind(b) = "events_begin" /\ Live(b)' => InRound(r, m, b)
    BY <2>2, <2>3
  <2>5. thread' = thread /\ \A j \in 1 .. m : events'[j] = events[j]
    BY <1>2
  <2> QED BY <1>1, <2>1, <2>2, <2>4, <2>5, ListGrows
<1>8. ListInv' /\ AbortInv'
  <2>1. ListInv'
    BY <1>1, <1>2, <1>3 DEF ListInv, Recorded
  <2> QED BY <1>1, <1>2, <2>1 DEF AbortInv
<1>9. FramesInv'
  <2>1. \A j : Kind(j)' = Kind(j)
    BY <1>2 DEF Kind
  <2>2. ~(pos' < Len(events'))
    BY <1>1, <1>2, <1>3
  <2> QED BY <1>1, <1>2, <2>1, <2>2 DEF FramesInv
<1> QED BY <1>7, <1>8, <1>9 DEF IInv

\* One more event, which ends the last of the open calls that remain, if any.
LEMMA ListExtended ==
  ASSUME IInv, CanRecord, NEW n \in Nat, n = pos, NEW e \in Recorded, events' = Append(events, e),
         UNCHANGED <<thread, pos, div, status>>,
         frames' \in Seq(1 .. Len(events) + 1),
         \A j, k \in DOMAIN frames' : j < k => frames'[j] < frames'[k],
         \A j \in DOMAIN frames' :
           frames'[j] = Len(events) + 1 \/ \E k \in DOMAIN frames : frames[k] = frames'[j],
         e.kind \in {"end", "events_end", "item_end"} /\ e.root # None =>
           /\ \E k \in DOMAIN frames : frames[k] = e.root
           /\ Kind(e.root) = (IF e.kind = "end" THEN "begin" ELSE BeginOf(e.kind))
           /\ \A j \in DOMAIN frames' : frames'[j] < e.root,
         e.kind = "end" => e.root # None,
         e.kind = "events_end" /\ e.root = None => frames' = <<>>
  PROVE  IInv'
<1> DEFINE i == n + 1
<1>1. /\ ListInv /\ FramesInv /\ DividerInv(div, n) /\ n \in Nat
      /\ status = "dividing" /\ n = Len(events) /\ Len(events) < thread.max
  BY DEF IInv, CanRecord, ListInv
<1>2. events \in Seq(Recorded) /\ thread \in Threads /\ thread.max \in Nat
  BY <1>1, ThreadsAssumption DEF ListInv
<1>3. /\ events' \in Seq(Recorded) /\ Len(events') = i /\ DOMAIN events' = 1 .. i
      /\ DOMAIN events = 1 .. n
      /\ events'[i] = e /\ \A j \in 1 .. n : events'[j] = events[j]
  BY <1>1, <1>2
<1>4. \A k \in DOMAIN frames : frames[k] \in 1 .. n
  BY <1>1 DEF FramesInv
<1>5. ListInv'
  BY <1>1, <1>2, <1>3 DEF ListInv, Recorded
<1>6. AbortInv'
  BY <1>1 DEF AbortInv
<1>7. Kind(i)' = e.kind /\ \A j \in 1 .. n : Kind(j)' = Kind(j)
  BY <1>3 DEF Kind
<1>8. FramesInv'
  <2>1. /\ \A j \in 1 .. n : Kind(j) = "end" =>
             /\ events[j].root \in 1 .. j - 1 /\ Kind(events[j].root) = "begin"
             /\ \A k \in DOMAIN frames : frames[k] # events[j].root
             /\ \A f \in 1 .. n : Kind(f) = "end" /\ events[f].root = events[j].root => f = j
        /\ \A j \in 1 .. n : Kind(j) \in {"events_end", "item_end"} /\ events[j].root # None =>
             events[j].root \in 1 .. j - 1 /\ Kind(events[j].root) = BeginOf(Kind(j))
    BY <1>1, <1>3 DEF FramesInv
  <2>2. e.kind \in {"end", "events_end", "item_end"} /\ e.root # None => e.root \in 1 .. n
    BY <1>4
  <2>3. \A j \in 1 .. i : j \in 1 .. n \/ j = i
    OBVIOUS
  <2>4. ASSUME NEW j \in 1 .. i, Kind(j)' = "end"
        PROVE  /\ events'[j].root \in 1 .. j - 1 /\ Kind(events[j].root)' = "begin"
               /\ \A k \in DOMAIN frames' : frames'[k] # events'[j].root
               /\ \A f \in 1 .. i : Kind(f)' = "end" /\ events'[f].root = events'[j].root => f = j
    <3>1. CASE j = i
      <4>1. e.kind = "end" /\ events'[j] = e /\ e.root # None
        BY <1>3, <1>7, <2>4, <3>1
      <4>2. e.root \in 1 .. n /\ j - 1 = n /\ Kind(e.root) = "begin"
        BY <2>2, <3>1, <4>1
      <4>3. \A k \in DOMAIN frames' : frames'[k] < e.root /\ frames'[k] \in 1 .. Len(events) + 1
        BY <4>1
      <4>4. \A f \in 1 .. n : Kind(f) = "end" => events[f].root # e.root
        BY <2>1, <4>1
      <4>5. \A k \in DOMAIN frames' : frames'[k] # e.root
        BY <4>2, <4>3
      <4>6. \A f \in 1 .. i : Kind(f)' = "end" /\ events'[f].root = e.root => f = i
        BY <1>3, <1>7, <2>3, <4>4
      <4> QED BY <1>7, <3>1, <4>1, <4>2, <4>5, <4>6
    <3>2. CASE j \in 1 .. n
      <4> DEFINE b == events[j].root
      <4>1. /\ Kind(j) = "end" /\ events'[j] = events[j]
            /\ b \in 1 .. j - 1 /\ b \in 1 .. n /\ Kind(b) = "begin"
            /\ \A k \in DOMAIN frames : frames[k] # b
            /\ \A f \in 1 .. n : Kind(f) = "end" /\ events[f].root = b => f = j
        <5>1. Kind(j) = "end" /\ events'[j] = events[j]
          BY <1>3, <1>7, <2>4, <3>2
        <5>2. /\ b \in 1 .. j - 1 /\ Kind(b) = "begin"
              /\ \A k \in DOMAIN frames : frames[k] # b
              /\ \A f \in 1 .. n : Kind(f) = "end" /\ events[f].root = b => f = j
          BY <2>1, <3>2, <5>1
        <5>3. b \in 1 .. n
          BY <3>2, <5>2
        <5> QED BY <5>1, <5>2, <5>3
      <4> HIDE DEF b
      <4>2. b # i
        BY <4>1
      <4>3. \A k \in DOMAIN frames' : frames'[k] # b
        BY <1>1, <4>1, <4>2
      <4>4. e.kind = "end" => e.root # b
        BY <4>1
      <4>5. ASSUME NEW f \in 1 .. i, Kind(f)' = "end", events'[f].root = b PROVE f = j
        <5>1. f # i
          BY <1>3, <1>7, <4>4, <4>5
        <5>2. f \in 1 .. n
          BY <2>3, <5>1
        <5>3. Kind(f) = "end" /\ events[f].root = b
          BY <1>3, <1>7, <4>5, <5>2
        <5> QED BY <4>1, <5>2, <5>3
      <4>6. Kind(events[j].root)' = "begin"
        BY <1>7, <4>1 DEF b
      <4> QED BY <4>1, <4>3, <4>5, <4>6 DEF b
    <3> QED BY <2>3, <3>1, <3>2
  <2>5. ASSUME NEW j \in 1 .. i, Kind(j)' \in {"events_end", "item_end"}, events'[j].root # None
        PROVE  events'[j].root \in 1 .. j - 1 /\ Kind(events[j].root)' = BeginOf(Kind(j)')
    <3>1. CASE j = i
      <4>1. e.kind \in {"events_end", "item_end"} /\ events'[j] = e /\ e.root # None /\ Kind(j)' = e.kind
        BY <1>3, <1>7, <2>5, <3>1
      <4>2. e.root \in 1 .. n /\ j - 1 = n /\ Kind(e.root) = BeginOf(e.kind)
        BY <2>2, <3>1, <4>1
      <4> QED BY <1>7, <4>1, <4>2
    <3>2. CASE j \in 1 .. n
      <4>1. Kind(j)' = Kind(j) /\ events'[j] = events[j]
        BY <1>3, <1>7, <3>2
      <4>2. events[j].root \in 1 .. j - 1 /\ Kind(events[j].root) = BeginOf(Kind(j))
        BY <2>1, <2>5, <3>2, <4>1
      <4>3. events[j].root \in 1 .. n
        BY <3>2, <4>2
      <4> QED BY <1>7, <4>1, <4>2, <4>3
    <3> QED BY <2>3, <3>1, <3>2
  <2>6. Kind(i)' = "events_end" => \A j \in DOMAIN frames' : frames'[j] < events'[pos' + 1].root
    <3>1. Kind(i)' = e.kind /\ events'[pos' + 1] = e /\ pos' + 1 = i
      BY <1>3, <1>7
    <3>2. frames' = <<>> => DOMAIN frames' = {}
      OBVIOUS
    <3> QED BY <3>1, <3>2
  <2>7. frames' \in Seq(1 .. Len(events'))
    BY <1>1, <1>3
  <2> QED BY <1>3, <2>4, <2>5, <2>6, <2>7 DEF FramesInv
<1>9. DividerInv(div, pos)'
  <2> SUFFICES ASSUME NEW d, d = div', NEW m, m = pos' PROVE DividerInv(div, pos)'
    OBVIOUS
  <2>1. d = div /\ m = n /\ m \in Nat /\ m <= Len(events)
    BY <1>1
  <2>2. /\ PlaceInv(d, m) /\ StackInv(d, m) /\ LevelInv(d, m) /\ OrderInv(d)
        /\ SegmentInv(d, m) /\ BorderInv(d, m) /\ TieInv(d) /\ RoundInv(d, m) /\ DoneInv(d, m)
    BY <1>1, <2>1 DEF DividerInv
  <2>3. ASSUME NEW b \in 1 .. m, Live(b)' PROVE Live(b)
    <3>1. CASE \E j \in DOMAIN frames' : frames'[j] = b
      <4>1. b # Len(events) + 1
        BY <1>1, <2>1
      <4> QED BY <3>1, <4>1 DEF Live
    <3>2. CASE Kind(i)' = "events_end" /\ events'[pos' + 1].root = b
      <4>1. e.kind = "events_end" /\ e.root = b /\ b # None
        BY <1>3, <1>7, <3>2 DEF None
      <4> QED BY <4>1 DEF Live
    <3> QED BY <2>3, <3>1, <3>2 DEF Live
  <2>4. RunLoop => \A b \in 1 .. m : Kind(b) = "events_begin" /\ Live(b)' => InRound(d, m, b)
    BY <2>2, <2>3 DEF RoundInv
  <2>5. thread' = thread /\ \A j \in 1 .. m : events'[j] = events[j]
    BY <1>3, <2>1
  <2> QED BY <1>1, <2>1, <2>2, <2>4, <2>5, ListGrows
<1> QED BY <1>5, <1>6, <1>8, <1>9 DEF IInv

LEMMA InitIInv ==
  ASSUME Init
  PROVE  IInv
<1>1. /\ thread \in Threads /\ events = <<>> /\ pos = 0 /\ frames = <<>>
      /\ div = NewDivider /\ status = "dividing"
  BY DEF Init
<1>2. /\ div.groups = <<>> /\ div.cur = None /\ div.voucher = None /\ div.fake = None
      /\ div.invokers = <<>> /\ div.migs = <<>> /\ div.rl = None
  BY <1>1 DEF NewDivider
<1>3. ListInv /\ FramesInv /\ AbortInv
  <2>1. thread.max \in Nat
    BY <1>1, ThreadsAssumption
  <2>2. ListInv
    BY <1>1, <2>1 DEF ListInv
  <2>3. FramesInv
    BY <1>1 DEF FramesInv
  <2> QED BY <1>1, <2>2, <2>3 DEF AbortInv
<1>4. /\ DOMAIN div.groups = {} /\ DOMAIN div.invokers = {} /\ Len(div.groups) = 0
      /\ \A i : i \notin 1 .. 0
  BY <1>2
<1>5. WellFormed(div, 0)
  <2>1. div \in Divider(0)
    BY <1>1 DEF NewDivider, Divider, None
  <2> QED BY <1>2, <1>4, <2>1 DEF WellFormed, None
<1>6. /\ \A g : Ev(div, g) = {} /\ Level(div, g) = 0 /\ Ties(div, g) = {}
      /\ \A g : OwnOf(div, g) = {} /\ Inside(div, g) = {}
  BY <1>4 DEF Ev, Level, Ties, OwnOf, Inside
<1>7. PlaceInv(div, 0)
  BY <1>2, <1>4, <1>5 DEF PlaceInv, Filled, Once
<1>8. StackInv(div, 0)
  BY <1>4 DEF StackInv, Elements, Open
<1>9. LevelInv(div, 0)
  BY <1>6, FS_EmptySet DEF LevelInv
<1>10. OrderInv(div)
  BY <1>2, <1>4 DEF OrderInv
<1>11. SegmentInv(div, 0) /\ BorderInv(div, 0)
  BY <1>4 DEF SegmentInv, BorderInv
<1>12. TieInv(div)
  BY <1>6 DEF TieInv
<1>13. RoundInv(div, 0) /\ DoneInv(div, 0)
  BY <1>4 DEF RoundInv, DoneInv
<1> QED BY <1>1, <1>3, <1>7, <1>8, <1>9, <1>10, <1>11, <1>12, <1>13 DEF IInv, DividerInv

\* The calls that remain open when that at f ends.
Outer(f) == SubSeq(frames, 1, f - 1)

LEMMA FramesLeft ==
  ASSUME ListInv, FramesInv, NEW f \in DOMAIN frames
  PROVE  /\ Outer(f) \in Seq(1 .. Len(events) + 1)
         /\ \A j, k \in DOMAIN Outer(f) : j < k => Outer(f)[j] < Outer(f)[k]
         /\ \A j \in DOMAIN Outer(f) : /\ Outer(f)[j] < frames[f]
                                      /\ \E k \in DOMAIN frames : frames[k] = Outer(f)[j]
<1> DEFINE S    == 1 .. Len(events) + 1
           left == Outer(f)
<1>1. /\ Len(events) \in Nat /\ frames \in Seq(1 .. Len(events))
      /\ \A j, k \in DOMAIN frames : j < k => frames[j] < frames[k]
  BY DEF ListInv, FramesInv
<1>2. /\ DOMAIN frames = 1 .. Len(frames) /\ Len(frames) \in Nat /\ f \in Nat \ {0}
      /\ \A j \in DOMAIN frames : frames[j] \in S
  BY <1>1
<1> HIDE DEF S
<1>3. \A j \in 1 .. f - 1 : j \in DOMAIN frames /\ j < f /\ frames[j] \in S
  BY <1>2
<1>4. /\ left \in Seq(S) /\ Len(left) = (IF 1 <= f - 1 THEN (f - 1) - 1 + 1 ELSE 0)
      /\ \A j \in 1 .. (f - 1) - 1 + 1 : left[j] = frames[1 + j - 1]
  BY <1>2, <1>3, SubSeqProperties DEF Outer
<1> HIDE DEF left
<1>5. Len(left) = f - 1 /\ (f - 1) - 1 + 1 = f - 1 /\ \A j \in 1 .. f - 1 : 1 + j - 1 = j
  BY <1>2, <1>4
<1>6. DOMAIN left = 1 .. f - 1 /\ \A j \in DOMAIN left : left[j] = frames[j]
  BY <1>4, <1>5
<1>7. \A j \in DOMAIN left : left[j] < frames[f] /\ \E k \in DOMAIN frames : frames[k] = left[j]
  BY <1>1, <1>3, <1>6
<1> QED BY <1>1, <1>3, <1>4, <1>6, <1>7 DEF S, left

LEMMA RecordKeeps ==
  ASSUME IInv, NEW e \in thread.inputs, Record(e)
  PROVE  IInv'
<1>1. ListInv /\ FramesInv /\ CanRecord /\ pos \in Nat /\ pos = Len(events)
  BY DEF IInv, Record, CanRecord, ListInv
<1>2. /\ e \in Recorded /\ e.kind \notin {"end", "events_end", "item_end"}
      /\ events' = Append(events, e) /\ UNCHANGED <<thread, pos, div, status>>
  <2>1. e.kind \notin {"events_end", "item_end"}
    BY DEF Record
  <2>2. e.kind # "end"
    BY <1>1, ThreadsAssumption DEF ListInv
  <2> QED BY <2>1, <2>2 DEF Record, Recorded
<1>3. /\ frames \in Seq(1 .. Len(events)) /\ DOMAIN frames = 1 .. Len(frames) /\ Len(frames) \in Nat
      /\ \A j, k \in DOMAIN frames : j < k => frames[j] < frames[k]
      /\ \A j \in DOMAIN frames : frames[j] \in 1 .. Len(events)
  BY <1>1 DEF FramesInv
<1>4. frames' = frames \/ frames' = Append(frames, Len(events) + 1)
  BY DEF Record
<1>5. /\ frames' \in Seq(1 .. Len(events) + 1)
      /\ \A j, k \in DOMAIN frames' : j < k => frames'[j] < frames'[k]
      /\ \A j \in DOMAIN frames' :
           frames'[j] = Len(events) + 1 \/ \E k \in DOMAIN frames : frames[k] = frames'[j]
  <2>1. frames \in Seq(1 .. Len(events) + 1)
    BY <1>1, <1>3
  <2>2. CASE frames' = frames
    BY <1>3, <2>1, <2>2
  <2>3. CASE frames' = Append(frames, Len(events) + 1)
    <3>1. /\ frames' \in Seq(1 .. Len(events) + 1) /\ DOMAIN frames' = 1 .. Len(frames) + 1
          /\ frames'[Len(frames) + 1] = Len(events) + 1
          /\ \A j \in 1 .. Len(frames) : frames'[j] = frames[j]
      BY <1>1, <1>3, <2>1, <2>3
    <3>2. \A j \in DOMAIN frames' : j \in DOMAIN frames \/ j = Len(frames) + 1
      BY <1>3, <3>1
    <3>3. \A j, k \in DOMAIN frames' : j < k => frames'[j] < frames'[k]
      <4>1. ASSUME NEW j \in DOMAIN frames', NEW k \in DOMAIN frames', j < k
            PROVE  frames'[j] < frames'[k]
        <5>1. j \in DOMAIN frames
          BY <1>3, <3>1, <4>1
        <5> QED BY <1>1, <1>3, <3>1, <3>2, <4>1, <5>1
      <4> QED BY <4>1
    <3> QED BY <1>3, <3>1, <3>2, <3>3
  <2> QED BY <1>4, <2>2, <2>3
<1> QED BY <1>1, <1>2, <1>5, ListExtended

LEMMA RecordBlockEndKeeps ==
  ASSUME IInv, NEW f \in DOMAIN frames, RecordBlockEnd(f)
  PROVE  IInv'
<1> DEFINE e == [kind |-> "end", root |-> frames[f]]
<1>1. ListInv /\ FramesInv /\ CanRecord /\ pos \in Nat /\ pos = Len(events)
  BY DEF IInv, RecordBlockEnd, CanRecord, ListInv
<1>2. frames[f] \in 1 .. Len(events) /\ frames[f] # None
  BY <1>1 DEF FramesInv, None
<1>3. /\ e \in Recorded /\ e.kind = "end" /\ e.root = frames[f] /\ Kind(e.root) = "begin"
      /\ events' = Append(events, e) /\ UNCHANGED <<thread, pos, div, status>>
  BY <1>1, <1>2 DEF RecordBlockEnd, Recorded
<1>4. frames' = SubSeq(frames, 1, f - 1)
  BY DEF RecordBlockEnd
<1> HIDE DEF e
<1>5. /\ frames' \in Seq(1 .. Len(events) + 1)
      /\ \A j, k \in DOMAIN frames' : j < k => frames'[j] < frames'[k]
      /\ \A j \in DOMAIN frames' : frames'[j] < e.root /\ \E k \in DOMAIN frames : frames[k] = frames'[j]
  <2>1. frames' = Outer(f)
    BY <1>4 DEF Outer
  <2> QED BY <1>1, <1>3, <2>1, FramesLeft
<1> QED BY <1>1, <1>2, <1>3, <1>5, ListExtended

LEMMA RecordRunLoopEndKeeps ==
  ASSUME IInv, NEW x \in thread.inputs, RecordRunLoopEnd(x)
  PROVE  IInv'
<1> DEFINE E(b) == [kind |-> x.kind, root |-> b]
<1>1. ListInv /\ FramesInv /\ CanRecord /\ pos \in Nat /\ pos = Len(events)
  BY DEF IInv, RecordRunLoopEnd, CanRecord, ListInv
<1>2. /\ x.kind \in {"events_end", "item_end"} /\ UNCHANGED <<thread, pos, div, status>>
      /\ \/ frames = <<>> /\ UNCHANGED frames /\ events' = Append(events, E(None))
         \/ \E f \in DOMAIN frames : /\ Kind(frames[f]) = BeginOf(x.kind)
                                     /\ frames' = SubSeq(frames, 1, f - 1)
                                     /\ events' = Append(events, E(frames[f]))
  BY DEF RecordRunLoopEnd, BeginOf
<1>3. CASE frames = <<>> /\ UNCHANGED frames /\ events' = Append(events, E(None))
  <2>1. E(None) \in Recorded /\ E(None).kind = x.kind /\ E(None).root = None
    BY <1>2 DEF Recorded, None
  <2>2. /\ frames' = <<>> /\ frames' \in Seq(1 .. Len(events) + 1) /\ DOMAIN frames' = {}
    BY <1>3
  <2> HIDE DEF E
  <2> QED BY <1>1, <1>2, <1>3, <2>1, <2>2, ListExtended
<1>4. ASSUME NEW f \in DOMAIN frames, Kind(frames[f]) = BeginOf(x.kind),
             frames' = SubSeq(frames, 1, f - 1), events' = Append(events, E(frames[f]))
      PROVE  IInv'
  <2>1. frames[f] \in 1 .. Len(events) /\ frames[f] # None
    BY <1>1 DEF FramesInv, None
  <2> DEFINE e == E(frames[f])
  <2>2. e \in Recorded /\ e.kind = x.kind /\ e.root = frames[f] /\ Kind(e.root) = BeginOf(e.kind)
    BY <1>1, <1>2, <1>4, <2>1 DEF Recorded
  <2>3. events' = Append(events, e)
    BY <1>4
  <2> HIDE DEF e, E
  <2>4. /\ frames' \in Seq(1 .. Len(events) + 1)
        /\ \A j, k \in DOMAIN frames' : j < k => frames'[j] < frames'[k]
        /\ \A j \in DOMAIN frames' : frames'[j] < e.root /\ \E k \in DOMAIN frames : frames[k] = frames'[j]
    <3>1. frames' = Outer(f)
      BY <1>4 DEF Outer
    <3> QED BY <1>1, <2>2, <3>1, FramesLeft
  <2> QED BY <1>1, <1>2, <2>1, <2>2, <2>3, <2>4, ListExtended
<1> QED BY <1>2, <1>3, <1>4

-----------------------------------------------------------------------------
(* The invariant holds.                                                    *)

THEOREM InvariantHolds == Spec => []IInv
<1>1. Init => IInv
  BY InitIInv
<1>2. IInv /\ [Next]_vars => IInv'
  <2> SUFFICES ASSUME IInv, [Next]_vars PROVE IInv'
    OBVIOUS
  <2>1. CASE \E e \in thread.inputs : Record(e) \/ RecordRunLoopEnd(e)
    BY <2>1, RecordKeeps, RecordRunLoopEndKeeps
  <2>2. CASE \E f \in DOMAIN frames : RecordBlockEnd(f)
    BY <2>2, RecordBlockEndKeeps
  <2>3. CASE Divide
    BY <2>3, DivideKeeps
  <2>4. ASSUME UNCHANGED <<thread, events, pos, frames, div>>, ListInv', AbortInv'
        PROVE  IInv'
    <3>1. FramesInv' /\ DividerInv(div, pos)'
      <4>1. FramesInv /\ ListInv /\ DividerInv(div, pos) /\ pos \in Nat /\ pos <= Len(events)
        BY DEF IInv, ListInv
      <4>2. FramesInv'
        BY <2>4, <4>1 DEF FramesInv, Kind
      <4>3. DividerInv(div, pos)'
        <5> SUFFICES ASSUME NEW d, d = div', NEW m, m = pos' PROVE DividerInv(div, pos)'
          OBVIOUS
        <5>1. d = div /\ m = pos /\ m \in Nat /\ m <= Len(events)
          BY <2>4, <4>1
        <5>2. /\ PlaceInv(d, m) /\ StackInv(d, m) /\ LevelInv(d, m) /\ OrderInv(d)
              /\ SegmentInv(d, m) /\ BorderInv(d, m) /\ TieInv(d) /\ RoundInv(d, m) /\ DoneInv(d, m)
          BY <4>1, <5>1 DEF DividerInv
        <5>3. \A b : Live(b)' => Live(b)
          BY <2>4 DEF Live, Kind
        <5>4. RunLoop => \A b \in 1 .. m : Kind(b) = "events_begin" /\ Live(b)' => InRound(d, m, b)
          BY <5>2, <5>3 DEF RoundInv
        <5>5. thread' = thread /\ \A j \in 1 .. m : events'[j] = events[j]
          BY <2>4
        <5> QED BY <4>1, <5>1, <5>2, <5>4, <5>5, ListGrows
      <4> QED BY <4>2, <4>3
    <3> QED BY <2>4, <3>1 DEF IInv
  <2>5. CASE Abort
    <3>1. ListInv'
      BY <2>5 DEF Abort, IInv, ListInv, Recorded
    <3>2. AbortInv'
      BY <2>5 DEF Abort, AbortInv, Kind
    <3>3. UNCHANGED <<thread, events, pos, frames, div>>
      BY <2>5 DEF Abort
    <3> QED BY <2>4, <3>1, <3>2, <3>3
  <2>6. CASE Submit
    <3>1. ListInv'
      BY <2>6 DEF Submit, IInv, ListInv, Recorded
    <3>2. AbortInv'
      BY <2>6 DEF Submit, AbortInv
    <3>3. UNCHANGED <<thread, events, pos, frames, div>>
      BY <2>6 DEF Submit
    <3> QED BY <2>4, <3>1, <3>2, <3>3
  <2>7. CASE Stopped \/ UNCHANGED vars
    <3>1. UNCHANGED vars
      BY <2>7 DEF Stopped
    <3>2. ListInv' /\ AbortInv'
      BY <3>1 DEF vars, IInv, ListInv, Recorded, AbortInv, Kind
    <3> QED BY <2>4, <3>1, <3>2 DEF vars
  <2> QED BY <2>1, <2>2, <2>3, <2>5, <2>6, <2>7 DEF Next
<1> QED BY <1>1, <1>2, PTL DEF Spec

-----------------------------------------------------------------------------
(* What follows from it.                                                   *)

\* The parts of the invariant, on the divider as it is.
LEMMA Parts ==
  ASSUME IInv
  PROVE  /\ ListInv /\ FramesInv /\ AbortInv /\ pos \in Nat
         /\ PlaceInv(div, pos) /\ StackInv(div, pos) /\ LevelInv(div, pos) /\ OrderInv(div)
         /\ SegmentInv(div, pos) /\ BorderInv(div, pos) /\ TieInv(div) /\ DoneInv(div, pos)
         /\ WellFormed(div, pos) /\ Filled(div) /\ Once(div)
         /\ DOMAIN events = 1 .. Len(events) /\ pos <= Len(events) /\ Len(events) \in Nat
BY DEF IInv, DividerInv, PlaceInv, ListInv

LEMMA OwnFacts ==
  ASSUME IInv
  PROVE  /\ \A g \in DOMAIN div.groups : Events(g) = Ev(div, g) /\ Own(g) = OwnOf(div, g)
         /\ \A g : OwnOf(div, g) \subseteq 1 .. pos
<1>1. \A g : Ev(div, g) \subseteq 1 .. pos
  BY Parts, EvFacts
<1> QED BY <1>1 DEF Events, Own, Ev, OwnOf

(* TypeOK: the groups, the pointers and the stacks are what the code takes *)
(* them to be; no group is empty and no level is negative.                 *)
THEOREM TypeCorrect == Spec => []TypeOK
<1>1. IInv => TypeOK
  <2> SUFFICES ASSUME IInv PROVE TypeOK
    OBVIOUS
  <2>1. /\ pos \in 0 .. Len(events) /\ Len(events) \in pos .. thread.max
        /\ status \in {"dividing", "submitted", "aborted"}
    <3>1. thread.max \in Nat
      BY Parts, ThreadsAssumption DEF ListInv
    <3> QED BY <3>1, Parts DEF ListInv
  <2>2. /\ div.cur \in 0 .. Len(div.groups) /\ div.rl \in 0 .. Len(div.groups)
        /\ div.voucher \in 0 .. pos /\ div.fake \in 0 .. pos
        /\ div.invokers \in Seq(1 .. pos) /\ div.migs \in Seq((1 .. pos) \cup {Garbage})
        /\ \A g \in DOMAIN div.groups :
             /\ div.groups[g].events \in Seq(1 .. pos) /\ div.groups[g].level \in Int
             /\ div.groups[g].cut \subseteq {"disp", "wait", "msg_old", "msg_new"}
    BY Parts, DividerFacts DEF Cuts
  <2>3. \A g \in DOMAIN div.groups : div.groups[g].events # <<>>
    BY Parts DEF Filled
  <2>4. ASSUME NEW g \in DOMAIN div.groups PROVE div.groups[g].level \in Nat
    <3>1. Cardinality(Inside(div, g)) \in Nat
      BY Parts, InsideFacts
    <3>2. div.groups[g].level >= Cardinality(Inside(div, g))
      BY Parts DEF LevelInv, Level
    <3> QED BY <2>2, <3>1, <3>2
  <2> QED BY <2>1, <2>2, <2>3, <2>4 DEF TypeOK
<1> QED BY <1>1, InvariantHolds, PTL

(* GroupsPartitionEvents: no event is lost or counted twice, whatever      *)
(* splits the groups, and the groups are stretches of the thread in order. *)
THEOREM EventsArePartitioned == Spec => []GroupsPartitionEvents
<1>1. IInv => GroupsPartitionEvents
  <2> SUFFICES ASSUME IInv PROVE GroupsPartitionEvents
    OBVIOUS
  <2>1. ASSUME NEW i \in 1 .. pos
        PROVE  /\ Cardinality(Places(i)) <= 1
               /\ Places(i) = {} => VoucherWaits(i) \/ WakeupWaits(i)
    <3>1. \A p : p \in Places(i) <=>
            \E g \in DOMAIN div.groups : \E j \in DOMAIN div.groups[g].events :
              p = <<g, j>> /\ div.groups[g].events[j] = i
      BY DEF Places
    <3>2. \A p, q \in Places(i) : p = q
      BY <3>1, Parts DEF Once
    <3>3. Cardinality(Places(i)) <= 1
      <4>1. CASE Places(i) = {}
        BY <4>1, FS_EmptySet
      <4>2. CASE Places(i) # {}
        <5>1. PICK p : p \in Places(i)
          BY <4>2
        <5>2. Places(i) = {p}
          BY <3>2, <5>1
        <5>3. Cardinality({p}) = 1
          BY FS_Singleton
        <5> QED BY <5>2, <5>3
      <4> QED BY <4>1, <4>2
    <3>4. ASSUME Places(i) = {} PROVE VoucherWaits(i) \/ WakeupWaits(i)
      <4>1. Fresh(div, i)
        BY <3>1, <3>4 DEF Fresh, Ev
      <4>2. WaitsAsVoucher(div, pos, i) \/ WaitsAsWakeup(div, pos, i)
        BY <4>1, Parts DEF PlaceInv
      <4> QED BY <4>2 DEF WaitsAsVoucher, WaitsAsWakeup, VoucherWaits, WakeupWaits
    <3> QED BY <3>3, <3>4
  <2>2. \A g, h \in DOMAIN div.groups : g < h /\ Own(g) # {} /\ Own(h) # {} =>
          /\ \E i \in Own(g) : \A j \in Own(h) : i < j
          /\ \/ \A i \in Own(g), j \in Own(h) : i < j
             \/ RunLoop /\ \E i \in Own(g) : Kind(i) = "events_begin"
    <3>1. \A g, h \in DOMAIN div.groups : g < h /\ OwnOf(div, g) # {} /\ OwnOf(div, h) # {} =>
            /\ \E i \in OwnOf(div, g) : \A j \in OwnOf(div, h) : i < j
            /\ \/ \A i \in OwnOf(div, g), j \in OwnOf(div, h) : i < j
               \/ RunLoop /\ \E i \in OwnOf(div, g) : Kind(i) = "events_begin"
      BY Parts DEF OrderInv
    <3> QED BY <3>1, OwnFacts
  <2> QED BY <2>1, <2>2 DEF GroupsPartitionEvents, DividedSoFar
<1> QED BY <1>1, InvariantHolds, PTL

(* SegmentsAreTheirOwn: what a dequeued block, a callout or a run-loop     *)
(* item starts has groups of its own.                                      *)
THEOREM SegmentsStayApart == Spec => []SegmentsAreTheirOwn
<1>1. IInv => SegmentsAreTheirOwn
  <2> SUFFICES ASSUME IInv PROVE SegmentsAreTheirOwn
    OBVIOUS
  <2>1. ASSUME NEW b \in 1 .. pos, IsHead(b)
        PROVE  /\ \A i \in Own(GroupOf(div, b)) : i >= b
               /\ \A e \in 1 .. pos : Kind(e) \in {"end", "item_end"} /\ events[e].root = b
                    => \A i \in Own(GroupOf(div, b)) : i <= e
    <3>1. ~Held(b)
      BY <2>1 DEF IsHead, Held
    <3>2. PICK g \in DOMAIN div.groups : b \in Ev(div, g)
      BY <3>1, Parts, FiledOnce
    <3>3. GroupOf(div, b) = g
      BY <3>2, Parts, GroupOfFacts
    <3>4. Own(g) = OwnOf(div, g)
      BY <3>2, OwnFacts
    <3>5. /\ \A i \in OwnOf(div, g) : i >= b
          /\ \A e \in 1 .. pos : EndOf(e, b) => \A i \in OwnOf(div, g) : i <= e
      BY <2>1, <3>2, Parts DEF SegmentInv
    <3> QED BY <3>3, <3>4, <3>5 DEF EndOf
  <2>2. ASSUME ~RunLoop, NEW e \in 1 .. pos PROVE IsolatedUpTo(e)
    <3> SUFFICES ASSUME Kind(e) = "end", events[events[e].root].rooted,
                        NEW g \in DOMAIN div.groups,
                        NEW inside, inside = {i \in Own(g) : i \in events[e].root .. e}
                 PROVE  inside = {} \/ inside = Own(g)
      BY DEF IsolatedUpTo
    <3> DEFINE b == events[e].root
    <3>1. b \in 1 .. e - 1 /\ Kind(b) = "begin"
      <4>1. e \in DOMAIN events
        BY Parts
      <4> QED BY <4>1, Parts DEF FramesInv
    <3>2. Rooted(b) /\ b \in 1 .. pos
      <4>1. b \in 1 .. pos
        BY <3>1, Parts
      <4> QED BY <3>1, <4>1 DEF Rooted
    <3>3. Own(g) = OwnOf(div, g) /\ OwnOf(div, g) \subseteq 1 .. pos
      BY OwnFacts
    <3>4. /\ (\A i \in OwnOf(div, g) : i < b) \/ (\A i \in OwnOf(div, g) : i >= b)
          /\ (\A i \in OwnOf(div, g) : i <= e) \/ (\A i \in OwnOf(div, g) : i > e)
      BY <2>2, <3>2, Parts DEF BorderInv
    <3> HIDE DEF b
    <3>5. inside = {i \in Own(g) : i \in b .. e}
      BY DEF b
    <3> QED BY <3>1, <3>3, <3>4, <3>5
  <2> QED BY <2>1, <2>2 DEF SegmentsAreTheirOwn, DividedSoFar
<1> QED BY <1>1, InvariantHolds, PTL

(* PeersTogether: only a message or a cancelled timer mixes events tied to *)
(* different processes.                                                    *)
THEOREM TiesStayTogether == Spec => []PeersTogether
<1>1. IInv => PeersTogether
  <2> SUFFICES ASSUME IInv, NEW g \in DOMAIN div.groups,
                      \A i \in Events(g) : Kind(i) \notin {"msg", "cancel"}
               PROVE  Cardinality({PeerOf(i) : i \in Own(g)} \ {NoPeer}) <= 1
    BY DEF PeersTogether
  <2> DEFINE P == {PeerOf(i) : i \in Own(g)} \ {NoPeer}
  <2>1. Events(g) = Ev(div, g) /\ Own(g) = OwnOf(div, g)
    BY OwnFacts
  <2>2. PICK p \in Peers \cup {NoPeer} : Ties(div, g) \subseteq {p}
    BY <2>1, Parts DEF TieInv
  <2>3. \A i \in Own(g) : {PeerOf(i)} \ {NoPeer} \subseteq {p}
    BY <2>1, <2>2, Parts DEF TieInv, Tie
  <2>4. P = {} \/ P = {p}
    BY <2>3
  <2> HIDE DEF P
  <2>5. Cardinality(P) <= 1
    BY <2>4, FS_EmptySet, FS_Singleton
  <2> QED BY <2>5 DEF P
<1> QED BY <1>1, InvariantHolds, PTL

(* RoundsTogether: the events of a round are in the group where it began.  *)
THEOREM RoundsStayTogether == Spec => []RoundsTogether
<1>1. IInv => RoundsTogether
  BY Parts DEF DoneInv, RoundsTogether, DividedSoFar
<1> QED BY <1>1, InvariantHolds, PTL

(* EndsMatchTheStack: the assertion on the stack of blocks fails exactly   *)
(* when a block ends whose inner one lost its end.                         *)
THEOREM AbortsOnLostEnds == Spec => []EndsMatchTheStack
<1>1. IInv => EndsMatchTheStack
  <2> SUFFICES ASSUME IInv PROVE EndsMatchTheStack
    OBVIOUS
  <2> DEFINE lost == \E b \in events[pos + 1].root + 1 .. pos :
                       Kind(b) = "begin" /\ \A e \in b + 1 .. pos : Kind(e) = "end" => events[e].root # b
  <2>1. ASSUME status = "aborted"
        PROVE  /\ status # "dividing" /\ pos < Len(events) /\ Kind(pos + 1) = "end" /\ lost
    <3>1. /\ pos < Len(events) /\ Kind(pos + 1) = "end" /\ events[pos + 1].root # Last(div.invokers)
      BY <2>1, Parts DEF AbortInv
    <3>2. events[pos + 1].root \in Open(pos)
      <4>1. pos + 1 \in DOMAIN events
        BY <3>1, Parts
      <4> QED BY <3>1, <4>1, Parts, EndIsOpen
    <3>3. div.invokers # <<>>
      <4>1. Elements(div.invokers) # {}
        BY <3>2, Parts DEF StackInv
      <4>2. div.invokers = <<>> => DOMAIN div.invokers = {}
        OBVIOUS
      <4> QED BY <4>1, <4>2 DEF Elements
    <3>4. Last(div.invokers) \in Open(pos) /\ events[pos + 1].root <= Last(div.invokers)
      BY <3>2, <3>3, Parts, StackFacts
    <3>5. Last(div.invokers) \in events[pos + 1].root + 1 .. pos
      BY <3>1, <3>2, <3>4, Parts DEF Open
    <3> QED BY <2>1, <3>1, <3>4, <3>5 DEF Open
  <2>2. status # "dividing" /\ pos < Len(events) => status = "aborted"
    BY Parts DEF ListInv
  <2> QED BY <2>1, <2>2 DEF EndsMatchTheStack
<1> QED BY <1>1, InvariantHolds, PTL

(* WaitClosesGroup: outside blocks, nothing joins the group of a wait,     *)
(* unless a block of a run-loop thread ended in another group.             *)
THEOREM WaitsCloseGroups == Spec => WaitClosesGroup
<1>1. IInv /\ [Next]_vars =>
        [DividesWait /\ div.invokers = <<>> => div'.cur = None \/ EndedElsewhere]_vars
  <2> SUFFICES ASSUME IInv, Next, DividesWait, div.invokers = <<>>, ~EndedElsewhere
               PROVE  div'.cur = None
    BY DEF vars
  <2>1. Divide
    <3>1. pos' # pos
      BY Parts DEF DividesWait
    <3> QED BY <3>1 DEF Next, Record, RecordRunLoopEnd, RecordBlockEnd, Abort, Submit, Stopped, vars
  <2>2. Step(div, div', pos + 1) /\ Kind(pos + 1) = "wait"
    BY <2>1, DivideSteps DEF DividesWait
  <2>3. PICK t, V : /\ Filing(div, div', pos + 1, t, V) /\ Moving(div, div', pos + 1, t)
                    /\ Stacking(div, div', pos + 1, t)
    BY <2>2 DEF Step
  <2>4. \A g : Level(div, g) \in Int
    BY Parts, LevelType
  <2>5. Level(div', t) = Level(div, t) /\ (Level(div', t) = 0 => div'.cur = None)
    BY <2>2, <2>3, <2>4 DEF Stacking
  <2>6. \A g : Inside(div, g) = {}
    BY DEF Inside
  <2>7. \A g : Cardinality(Inside(div, g)) = 0
    BY <2>6, FS_EmptySet
  <2>8. Level(div, t) >= 0
    BY <2>7, Parts DEF LevelInv
  <2>9. Level(div, t) <= 0
    <3>1. CASE RunLoop
      <4>1. ~Elsewhere(div, pos)
        BY <3>1 DEF Elsewhere, EndedElsewhere, DividedSoFar
      <4> QED BY <2>7, <3>1, <4>1, Parts DEF LevelInv
    <3>2. CASE ~RunLoop
      <4>1. t = Len(div.groups) + 1 \/ (t = div.cur /\ div.cur # None)
        <5>1. t = div.cur \/ t = Len(div.groups) + 1
          BY <2>2, <2>3, <3>2 DEF Moving, Home
        <5>2. t \in 1 .. Len(div.groups) + 1 /\ Len(div.groups) \in Nat
          BY <2>3, Parts, DividerFacts DEF Filing
        <5> QED BY <5>1, <5>2 DEF None
      <4>2. CASE t = Len(div.groups) + 1
        <5>1. t \notin DOMAIN div.groups
          <6>1. DOMAIN div.groups = 1 .. Len(div.groups) /\ Len(div.groups) \in Nat
            BY Parts, DividerFacts
          <6> QED BY <4>2, <6>1
        <5> QED BY <5>1 DEF Level
      <4>3. CASE t = div.cur /\ div.cur # None
        BY <2>7, <3>2, <4>3, Parts DEF LevelInv
      <4> QED BY <4>1, <4>2, <4>3
    <3> QED BY <3>1, <3>2
  <2> QED BY <2>4, <2>5, <2>8, <2>9
<1> QED BY <1>1, InvariantHolds, PTL DEF Spec, WaitClosesGroup

===============================================================================
