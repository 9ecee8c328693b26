----------------------------- MODULE MCArgusLoop -----------------------------
(* Eight threads, five of them in the map file: of process 7 and of process  *)
(* 8 one has a name that is blanked and one a good one, and one thread has   *)
(* no process. In one log the process is told by the events of earlier       *)
(* threads, and two threads of one process have no name; in the other,       *)
(* threads come back that are told of in part: one of the file with a        *)
(* process of its own, one with a name only.                                 *)
EXTENDS ArgusLoop

Info(p, n) == [pid |-> p, name |-> n]
Line(t, p, n) == [tid |-> t, pid |-> p, name |-> n]

MCMapFile == <<Line(3, 7, "com.apple.x"), Line(4, 8, "Finder"), Line(2, -1, "launchd"), Line(5, 7, "daemon"), Line(8, 8, "com.apple.x")>>
MCProcs == 7 :> "Xcode"
MCTraces ==
  [main  |-> (1 :> <<Info(7, "agent"), Info(-1, "helper")>>
           @@ 2 :> <<Info(-1, ""), Info(7, "")>>
           @@ 3 :> <<Info(-1, ""), Info(7, "")>>
           @@ 4 :> <<Info(-1, ""), Info(-1, "xpcproxy")>>
           @@ 6 :> <<Info(9, "")>> @@ 7 :> <<Info(9, "")>>),
   other |-> (1 :> <<Info(-1, "")>> @@ 2 :> <<Info(12, "")>>
           @@ 3 :> <<Info(-1, "com.apple.x")>>
           @@ 4 :> <<Info(-1, "helper"), Info(-1, "Finder")>> @@ 8 :> <<Info(-1, "")>> @@ 6 :> <<Info(-1, "late")>>)]

Symmetry == Permutations(Workers)
=============================================================================
