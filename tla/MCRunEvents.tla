---------------------------- MODULE MCRunEvents ----------------------------
(* Small instances of RunEvents for TLC: contracts that hold, and one for   *)
(* each way in which dependencies can be wrong.                             *)
EXTENDS RunEvents, TLC

CONSTANTS s1, s2

Fan    == <<{}, {1}, {1}>>
Chain  == <<{}, {1}, {2}>>
Loop   == <<{3}, {1}, {2}>>
Stray  == <<{}, {4}>>

Assign(plan_, serves_, needs_, capped_) ==
    [plan |-> plan_, serves |-> serves_, needs |-> needs_, capped |-> capped_]

MCContract ==
    { Assign(Fan, <<1, 2, 3>>, Fan, TRUE),
      Assign(Chain, <<3, 1>>, <<{2}, {}>>, TRUE),
      Assign(Loop, <<1, 2, 3>>, Loop, TRUE),
      Assign(<<{}, {}, {}>>, <<1, 2, 3>>, Loop, TRUE),
      Assign(Stray, <<1, 2>>, Stray, TRUE),
      Assign(Fan, <<1, 2>>, <<{}, {}>>, TRUE),
      Assign(Fan, <<1, 1>>, <<{}, {}>>, TRUE),
      Assign(Fan, <<1, 2>>, <<{}, {1}>>, FALSE) }

MCPlan == {c.plan : c \in MCContract}

MCSymmetry == Permutations({s1, s2})
==========================================================================
