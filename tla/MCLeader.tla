------------------------------ MODULE MCLeader ------------------------------
(***************************************************************************)
(* Instances of Leader for TLC: a tracked source, driven by controls while *)
(* it is silent and by samples with a control now and then.                *)
(***************************************************************************)
EXTENDS Leader, TLC

CONSTANTS s1, p1, p2, f1

MCSessions == {s1}
MCParts == {p1, p2}
MCFormats == {f1}

(* Nothing distinguishes one recording part from the other.                *)
PartsAlike == Permutations(MCParts)

(* Play, and an atomic jump into reverse.                                  *)
MCCommands ==
  {[op |-> "Rate", pos |-> 0, rate |-> 1],
   [op |-> "Set", pos |-> 7, rate |-> -1]}
Seeks == {[op |-> "Seek", pos |-> 7, rate |-> 0]}

(* The past, and both sides of a heartbeat.                                *)
MCTimes == {2, 3}

(* Samples at all ticks but the last: still or two frames ahead, and a few *)
(* marked or hinted.                                                       *)
MCSamples ==
  [time : 0..3, pos : {0, 140}, hint : {NONE}, mark : {FALSE}]
    \cup [time : {1}, pos : {0}, hint : {NONE}, mark : {TRUE}]
    \cup [time : {0, 3}, pos : {20}, hint : {20}, mark : {FALSE}]
=============================================================================
