----------------------------- MODULE MCSession -----------------------------
(***************************************************************************)
(* Instances of Session for TLC: a generated leader, one follower, and the *)
(* network between them.                                                   *)
(***************************************************************************)
EXTENDS Session, TLC

CONSTANTS s1, s2, p1, f1

OneSession == {s1}
TwoSessions == {s1, s2}
Anonymous == Permutations(TwoSessions) \* a session is only told from another
MCParts == {p1}
MCFormats == {f1}
NoSamples == {}
OneSample == {[time |-> 1, pos |-> 0, hint |-> NONE, mark |-> FALSE]}

(* An atomic jump into play, which every error of one tick displaces by    *)
(* the hard threshold or less, and a pause.                                *)
Play  == [op |-> "Set", pos |-> 100, rate |-> 10]
Pause == [op |-> "Rate", pos |-> 0, rate |-> 0]
PlayPause == {Play, Pause}
PlayOnly == {Play}

Environment(errs, controls, replies, cuts, drops, crashes) ==
  [errors |-> errs, commands |-> controls, exchanges |-> replies,
   breaks |-> cuts, losses |-> drops, restarts |-> crashes]

(* Paths that leave the follower behind, with faults; one that errs either *)
(* way; one that puts it ahead; and restarts, also one with an exchange.    *)
SafetyEnvironments ==
  {Environment({0}, 2, 1, 0, 0, 0),
   Environment({-1, 0}, 1, 2, 0, 0, 0),
   Environment({0}, 1, 1, 1, 1, 0),
   Environment({-1, 0, 2}, 1, 2, 0, 0, 0),
   Environment({1}, 2, 1, 0, 0, 0),
   Environment({}, 1, 0, 1, 0, 1),
   Environment({0}, 1, 1, 0, 0, 1)}

RestartEnvironment == {Environment({}, 1, 0, 1, 1, 1)}
EitherWayEnvironment == {Environment({-1, 0, 1}, 1, 3, 0, 0, 0)}

(* The follower's clock behind the leader's, and ahead of it.              *)
EitherSide == {1, 3}
FromOne == {1}

SoonTimes == {3, 4}
AtThree == {3}
NoTimes == {}
=============================================================================
