------------------------------ MODULE MCWorker ------------------------------
(***************************************************************************)
(* Instances of Worker for TLC: a leader and a follower, each created,     *)
(* commanded past the budget of a pass, and stopped, alone or by the end   *)
(* of the engine, while the other is created; or the engine ends twice.    *)
(***************************************************************************)
EXTENDS Worker

CONSTANTS c1, c2, c3, c4, leader, follower

FourCallers == {c1, c2, c3, c4}
TwoJobs == {leader, follower}
OneLeader == {leader}

Plan(a, b, c, d) == c1 :> a @@ c2 :> b @@ c3 :> c @@ c4 :> d

MCPlans ==
  {Plan(<<"create", leader>>, <<"command", leader>>, <<"command", leader>>, <<x, leader>>) :
     x \in {"command", "stop", "end"}}
    \cup {Plan(<<"create", follower>>, <<"command", follower>>, <<"command", follower>>, <<"stop", follower>>),
          Plan(<<"create", leader>>, <<"create", follower>>, <<"stop", leader>>, <<"end", leader>>),
          Plan(<<"create", leader>>, <<"command", leader>>, <<"end", leader>>, <<"end", leader>>)}
=============================================================================
