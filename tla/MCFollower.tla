----------------------------- MODULE MCFollower -----------------------------
(***************************************************************************)
(* Instances of Follower for TLC.  A rate of 10 makes the slew limit one   *)
(* unit per tick; offsets two ticks apart are a large error, one tick      *)
(* apart a small one.                                                      *)
(***************************************************************************)
EXTENDS Follower

CONSTANTS s1, s2, p1, f1, f2

MCSessions == {s1, s2}
MCParts == {p1}
MCFormats == {f1, f2}

Seg(disc, time, pos, rate) == [disc |-> disc, time |-> time, pos |-> pos, rate |-> rate]

Snap(session, rev, format, cur, sched) ==
  [session |-> session, part |-> p1, rev |-> rev, format |-> format,
   health |-> "Healthy", cur |-> cur, sched |-> sched]

Forward == Seg(0, 0, 0, 10)
Nudged  == Seg(0, 1, 14, 10)
Reverse == Seg(1, 4, 200, -10)
Stop    == Seg(2, 5, 90, 0)

(* A leader that plays, schedules a reversal and then a stop, follows its  *)
(* source meanwhile, applies the reversal, or changes its mind; and        *)
(* another leader.                                                         *)
MCSnapshots ==
  {Snap(s1, 1, f1, Forward, <<Reverse>>),
   Snap(s1, 2, f1, Nudged, <<Reverse, Stop>>),
   Snap(s1, 3, f1, Reverse, <<Stop>>),
   Snap(s1, 4, f2, Forward, <<>>),
   Snap(s1, 4, f1, Seg(3, 3, 50, 10), <<>>),
   Snap(s2, 1, f1, Seg(0, 0, 0, 0), <<>>)}

Fit(offsets, locks) ==
  [accepted : {TRUE}, recovering : {FALSE}, offset : offsets, unc : {0}, converged : locks]
Outlier == [accepted |-> FALSE, recovering |-> TRUE, offset |-> 0, unc |-> 0,
            converged |-> FALSE]

MCMeasurements == Fit({-2, 0, 1}, BOOLEAN) \cup {Outlier}
=============================================================================
