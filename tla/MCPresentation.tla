--------------------------- MODULE MCPresentation ---------------------------
(***************************************************************************)
(* Instances of Presentation for TLC.  A rate of 10 lets a correction take *)
(* one unit per tick off the motion; a frame lasts 12 ticks at it.         *)
(***************************************************************************)
EXTENDS Presentation

CONSTANTS s1, p1, f1
MCSessions == {s1}
MCParts == {p1}
MCFormats == {f1}

Format(n, d, drop) == [num |-> n, den |-> d, drop |-> drop]
DeckFormats == {Format(30000, 1001, TRUE), Format(60000, 1001, TRUE), Format(24000, 1001, FALSE)}
DeckRates == {<<2, 4>>, <<-64, 1>>, <<3, 7>>, <<0, 5>>}

Seg(disc, time, pos, speed) == [disc |-> disc, time |-> time, pos |-> pos, rate |-> speed]

(* A change that reverses or stops, alone or after another.                *)
Schedules == {<<>>, <<Seg(1, 7, 118, -10)>>, <<Seg(1, 4, 36, 0), Seg(2, 9, 95, 20)>>}

Snapshot(speed, changes) ==
  [session |-> s1, part |-> p1, rev |-> 1, format |-> f1, health |-> "Healthy",
   cur |-> Seg(0, 0, 3, speed), sched |-> changes]

ViewOf(speed, changes, off, unc, corr, sampled) ==
  [NewCore EXCEPT !.conn = "Connected", !.tl = Snapshot(speed, changes),
     !.sync = IF sampled = 0 THEN "Acquiring" ELSE "Synchronized",
     !.offset = off, !.unc = unc, !.sampled = sampled, !.corr = corr, !.corrAt = 1]

MCViews ==
  {ViewOf(speed, changes, off, unc, corr, 1) : speed \in {-10, 0, 10, 20},
     changes \in Schedules, off \in {-3, 2}, unc \in {0, 9}, corr \in {-40, -7, 0, 30}}
  \cup {ViewOf(10, changes, 0, 0, 0, 0) : changes \in Schedules}
MCUpdates ==
  {ViewOf(10, changes, m[1], 0, -7, m[2]) : changes \in Schedules, m \in {<<-3, 2>>, <<0, 3>>}}
=============================================================================
