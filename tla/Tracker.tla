------------------------------- MODULE Tracker -------------------------------
(***************************************************************************)
(* Following a timestamped external source (protocol/src/tracking.rs).     *)
(* The tracker's memory is a record; Tracked(tr, tl, s) is the tracker,    *)
(* the timeline and the verdict that Tracker::sample leaves behind.        *)
(*                                                                         *)
(* A rate is position units per tick, so FRAME units are one frame and the *)
(* speed inferred from two samples is an integer quotient.                 *)
(***************************************************************************)
EXTENDS Timeline

CONSTANTS FRAME,       \* position units of one frame
          SPEED_NOISE, \* speed differences up to this are no rate change (0.02)
          SPEED_MATCH  \* speeds closer than this agree with each other (0.05)

ASSUME TrackerAssumption ==
  FRAME \in Nat \ {0} /\ SPEED_NOISE \in Nat /\ SPEED_MATCH \in Nat

CONFIRMED == 3  \* equal verdicts that establish a jump or a new speed

Samples == [time : Nat, pos : Int, hint : Int \cup {NONE}, mark : BOOLEAN]

InitTracker == [last |-> NONE, cand |-> NONE, count |-> 0, jumps |-> 0, sign |-> 0]

Abs(x) == IF x < 0 THEN -x ELSE x
Sign(x) == IF x > 0 THEN 1 ELSE -1

(* Tracker::sample refuses the future and anything not newer than its last.*)
SampleAccepted(tr, s, now) ==
  /\ s.time <= now
  /\ tr.last # NONE => tr.last.time < s.time

-----------------------------------------------------------------------------
(* The hint, else the speed between the last two samples, else the rate.   *)
Speed(tr, tl, s) ==
  IF s.hint # NONE THEN s.hint
  ELSE IF tr.last # NONE THEN (s.pos - tr.last.pos) \div (s.time - tr.last.time)
  ELSE tl.cur.rate

PositionError(tl, s) == s.pos - At(tl.cur, s.time)

(* Consecutive errors of more than a frame in one direction.               *)
Jumps(tr, tl, s) ==
  LET error == PositionError(tl, s)
  IN  IF Abs(error) <= FRAME THEN 0
      ELSE IF Sign(error) = tr.sign THEN tr.jumps + 1 ELSE 1

NextSign(tr, tl, s) ==
  IF Abs(PositionError(tl, s)) > FRAME THEN Sign(PositionError(tl, s)) ELSE tr.sign

(* A hint that is exactly the rate leaves the speed test to decide.        *)
Hinted(tl, s) == s.hint # NONE /\ s.hint # tl.cur.rate

SpeedMoved(tr, tl, s) == Abs(Speed(tr, tl, s) - tl.cur.rate) > SPEED_NOISE

(* How many consecutive samples agree on a speed that is not the rate.     *)
Agreeing(tr, tl, s) ==
  IF tr.cand # NONE /\ Abs(tr.cand - Speed(tr, tl, s)) < SPEED_MATCH
    THEN tr.count + 1 ELSE 1

SpeedConfirmed(tr, tl, s) ==
  ~Hinted(tl, s) /\ SpeedMoved(tr, tl, s) /\ Agreeing(tr, tl, s) >= CONFIRMED

NextRate(tr, tl, s) ==
  IF Hinted(tl, s) \/ SpeedConfirmed(tr, tl, s) THEN Speed(tr, tl, s) ELSE tl.cur.rate

Discontinuous(tr, tl, s) ==
  \/ s.mark
  \/ tr.last = NONE
  \/ Jumps(tr, tl, s) >= CONFIRMED
  \/ Hinted(tl, s)
  \/ SpeedConfirmed(tr, tl, s)

-----------------------------------------------------------------------------
(* A routine sample moves the anchor by a fifth of the error, the error    *)
(* clamped to a tenth of a frame; the quotient truncates toward zero.      *)
Nudge(error) ==
  LET bounded == IF Abs(error) * 10 > FRAME THEN FRAME \div 10 ELSE Abs(error)
  IN  Sign(error) * (bounded \div 5)

TrackedTimeline(tr, tl, s) ==
  LET changed == Discontinuous(tr, tl, s)
      anchor  == [disc |-> IF changed THEN tl.cur.disc + 1 ELSE tl.cur.disc,
                  time |-> s.time,
                  pos  |-> IF changed THEN s.pos
                           ELSE At(tl.cur, s.time) + Nudge(PositionError(tl, s)),
                  rate |-> NextRate(tr, tl, s)]
  IN  [tl EXCEPT !.cur = anchor,
                 !.health = "Healthy",
                 !.sched = IF changed THEN <<>> ELSE @]

(* A candidate that was being confirmed survives a hinted sample unless it *)
(* is a discontinuity; the discontinuity forgets all evidence.             *)
TrackedMemory(tr, tl, s) ==
  LET changed == Discontinuous(tr, tl, s)
      moved   == SpeedMoved(tr, tl, s)
  IN  [last  |-> [time |-> s.time, pos |-> s.pos],
       cand  |-> IF changed \/ ~moved THEN NONE ELSE Speed(tr, tl, s),
       count |-> IF changed \/ ~moved THEN 0 ELSE Agreeing(tr, tl, s),
       jumps |-> IF changed THEN 0 ELSE Jumps(tr, tl, s),
       sign  |-> IF changed THEN 0 ELSE NextSign(tr, tl, s)]

(* Tracker::health                                                         *)
Health(tr, now, timeout) ==
  IF tr.last = NONE THEN "Degraded"
  ELSE IF now - tr.last.time > timeout THEN "Degraded" ELSE "Healthy"
=============================================================================
