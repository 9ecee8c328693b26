---------------------------- MODULE MCConnectors ----------------------------
(* Small traces for the connectors, one family for each and one of all.    *)
EXTENDS Connectors

E(kinds, keys) == [kind : kinds, key : keys]
Ties(kinds, keys) == [kind : kinds, key : keys, tie : BOOLEAN]
Trap(targets) == [kind |-> "trap", key |-> 0, targets |-> targets]
Family(inputs, max, lost, fresh) ==
  [inputs |-> inputs, max |-> max, lost |-> lost, fresh |-> fresh, asserts |-> TRUE]

Calls == E({"request", "receive", "answer"}, {1}) \cup [kind : {"reply"}, key : {1}, kernel : BOOLEAN]
Posts == E({"deliver"}, {1}) \cup [kind : {"post"}, key : {1}, freed : BOOLEAN]
SingleVars == {Trap(x :> v) : x \in {1, 2}, v \in {0, 1}}
TwoVars == SingleVars \cup {Trap(1 :> v @@ 2 :> w) : v, w \in {0, 1}}

MCQueueVars == {2}
MCFamilies ==
  { Family(E({"enq", "inv"}, {1, 2}), 5, 1, FALSE),
    Family(E({"create", "cancel", "callout"}, {1}), 6, 1, FALSE),
    Family(E({"create", "cancel", "callout"}, {1, 2}), 5, 0, FALSE),
    Family(Ties({"set", "display"}, {1, 2}), 5, 0, FALSE),
    [Family(Ties({"set", "display"}, {1}), 4, 0, FALSE) EXCEPT !.asserts = FALSE],
    Family(SingleVars, 6, 1, FALSE),
    Family(TwoVars, 4, 0, FALSE),
    Family(E({"signal", "unset"}, {1}) \cup E({"perform", "item"}, {2}), 6, 1, FALSE),
    Family(E({"wait", "mkrun"}, {1, 2}), 6, 1, FALSE),
    Family(Calls, 12, 2, FALSE), Family(Calls, 12, 2, TRUE),
    Family(Posts, 6, 1, FALSE),
    Family(E({"enq", "inv"}, {1}) \cup E({"create", "callout"}, {2}) \cup E({"wait", "mkrun"}, {3})
             \cup {Trap(1 :> v) : v \in {0, 1}}, 5, 0, FALSE) }
=============================================================================
