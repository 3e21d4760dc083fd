---------------------------- MODULE Presentation ----------------------------
(***************************************************************************)
(* What an application does with a reader's view: it sleeps until the next *)
(* boundary (View::next_boundary, protocol/src/boundary.rs), or it renders *)
(* on animation frames (render of web/src/main.ts), ticking the core at    *)
(* each and showing the position predicted for the moment of display       *)
(* (PresentationClock of clients/wasm/src/lib.rs).                         *)
(*                                                                         *)
(* A behaviour has one of these modes, or one of Timecode.                 *)
(***************************************************************************)
EXTENDS FollowerCore, Timecode

CONSTANTS Views,     \* views an application that sleeps starts from
          Updates,   \* views that are published later, or rendered from the start
          FRAME,     \* position units of a frame
          END,       \* last instant of the local clock (i64::MAX)
          LAST,      \* last instant of a behaviour
          LATE,      \* ticks a wake-up or a callback may come late
          RING,      \* intervals a PresentationClock keeps (32)
          MINIMUM,   \* intervals that make an estimate (8)
          GAP        \* longest interval between two frames (100 ms)

ASSUME PresentationAssumption ==
  /\ {FRAME, RING, MINIMUM, GAP} \subseteq Nat \ {0}
  /\ {LAST, END, LATE} \subseteq Nat /\ LAST + LATE < END /\ MINIMUM <= RING

VARIABLES
  view,   \* the FollowerCore that is read
  local,  \* the local clock
  due,    \* the boundary slept for, or NONE
  current, \* what was current when it was predicted
  pacer,   \* the PresentationClock
  recent, \* history: intervals between frames since the last gap, RING at most
  shown   \* history: the last frame rendered

stageVars == <<view, local, due, current, pacer, recent, shown>>
presentationVars == <<stageVars, timecodeVars>>

-----------------------------------------------------------------------------
(* boundary::first: the first instant that satisfies a predicate, given as *)
(* the instants at which it holds, which once true stays so.               *)
First(lo, hi, holding) ==
  LET halve[r \in (lo..hi) \X (lo..hi)] ==
        LET mid == r[1] + (r[2] - r[1]) \div 2
        IN  IF r[1] = r[2] THEN r[1]
            ELSE IF mid \in holding THEN halve[<<r[1], mid>>]
            ELSE halve[<<mid + 1, r[2]>>]
  IN  IF lo > hi THEN NONE ELSE IF hi \in holding THEN halve[<<lo, hi>>] ELSE NONE

Rate(c, t) == IF Initialized(c) THEN Playing(c, t).rate ELSE 0

(* The next whole frame in the direction of the motion.                    *)
Target(c, now) ==
  LET pos == Position(c, now)
  IN  FRAME * IF Rate(c, now) > 0 THEN pos \div FRAME + 1
              ELSE pos \div FRAME - (IF pos % FRAME = 0 THEN 1 ELSE 0)

Reaches(c, t, target, forward) ==
  IF forward THEN Position(c, t) >= target ELSE Position(c, t) <= target

(* When the first change that is not yet due takes effect.                 *)
NextChange(c, now) ==
  LET later == {i \in 1..Len(c.tl.sched) : c.tl.sched[i].time > LeaderTime(c, now)}
      effective == {t \in Int : LeaderTime(c, t) >= c.tl.sched[Min(later)].time}
  IN  IF later = {} THEN NONE ELSE First(now + 1, END, effective)

(* Variant: the whole time range is searched, whatever changes in it.      *)
FarCrossing(c, now, last) ==
  LET target == Target(c, now)
      reached == {t \in Int : Reaches(c, t, target, Rate(c, now) > 0)}
  IN  IF Rate(c, now) = 0 THEN NONE ELSE First(now + 1, END, reached)

(* When the target is reached, unless a change takes effect before.        *)
Crossing(c, now, last) ==
  LET target == Target(c, now)
      reached == {t \in Int : Reaches(c, t, target, Rate(c, now) > 0)}
  IN  IF Rate(c, now) = 0 THEN NONE ELSE First(now + 1, last, reached)

(* Variant: what the clock is uncertain of, the instant is.                *)
ClockUncertainty(c, now, kind) == c.unc

(* A correction may slow the motion down by a tenth; to the next tick.     *)
BoundaryUncertainty(c, now, kind) ==
  IF kind = "Frame" /\ Remaining(c, now) # 0 THEN (10 * c.unc + 8) \div 9 ELSE c.unc

(* View::next_boundary                                                     *)
Boundaries ==
  [at : Nat, kind : {"Frame", "ScheduledChange"}, pos : Int, disc : Nat, unc : Nat]

ASSUME NoBoundaryAssumption == NONE \notin Boundaries

BoundaryAt(c, now, t, kind, pos) ==
  [at |-> t, kind |-> kind, pos |-> pos, disc |-> Playing(c, t).disc,
   unc |-> BoundaryUncertainty(c, now, kind)]

NextBoundary(c, now) ==
  LET change   == NextChange(c, now)
      crossing == Crossing(c, now, IF change = NONE THEN END ELSE change - 1)
  IN  IF now + 1 > END \/ ~Initialized(c) \/ c.sync = "Uninitialized" THEN NONE
      ELSE IF crossing # NONE
        THEN BoundaryAt(c, now, crossing, "Frame", Target(c, now))
      ELSE IF change # NONE
        THEN BoundaryAt(c, now, change, "ScheduledChange", Position(c, change))
      ELSE NONE

-----------------------------------------------------------------------------
(* Where a reading stands: between which whole frames, as its motion       *)
(* enters and leaves them, and in which discontinuity.                     *)
Cell(c, t) ==
  IF Rate(c, t) >= 0 THEN Position(c, t) \div FRAME ELSE -((-Position(c, t)) \div FRAME)

Sight(c, t) == [cell |-> Cell(c, t), disc |-> IF Initialized(c) THEN Playing(c, t).disc ELSE 0,
               step |-> IF Rate(c, t) > 0 THEN 1 ELSE -1]

Predict(c, now) == due' = NextBoundary(c, now) /\ current' = Sight(c, now)

(* The application wakes and predicts again.                               *)
WakeUp ==
  /\ due # NONE /\ local >= due.at
  /\ Predict(view, local)
  /\ UNCHANGED <<view, local, pacer, recent, shown>>

(* A new mapping or new controls: what was predicted is void.              *)
Publish ==
  /\ \E c \in Updates : c.sampled > view.sampled /\ view' = c /\ Predict(c, local)
  /\ UNCHANGED <<local, pacer, recent, shown>>

Elapse ==
  /\ local < LAST /\ (due # NONE => local < due.at + LATE)
  /\ local' = local + 1
  /\ UNCHANGED <<view, due, current, pacer, recent, shown>>

-----------------------------------------------------------------------------
(* PresentationClock                                                       *)
ClockFrom(stamp) == [previous |-> stamp, intervals |-> [i \in 0..RING - 1 |-> 0], count |-> 0]
NewClock == ClockFrom(NONE)

Extended(c, stamp) ==
  [previous |-> stamp, count |-> c.count + 1,
   intervals |-> [c.intervals EXCEPT ![c.count % RING] = stamp - c.previous]]

(* Variant: a gap is passed over.                                          *)
ForgivingFramed(c, stamp) ==
  IF c.previous # NONE /\ stamp - c.previous \in 1..GAP THEN Extended(c, stamp)
  ELSE [c EXCEPT !.previous = stamp]

Framed(c, stamp) ==
  IF c.previous = NONE THEN [c EXCEPT !.previous = stamp]
  ELSE IF stamp - c.previous \notin 1..GAP THEN ClockFrom(stamp)
  ELSE Extended(c, stamp)

(* The upper median of what was measured.                                  *)
Kept(c) == 0 .. Min({c.count, RING}) - 1
Below(c, d) == {i \in Kept(c) : c.intervals[i] < d}
Period(c) ==
  IF c.count < MINIMUM THEN 0
  ELSE Max({c.intervals[i] : i \in {j \in Kept(c) :
         Cardinality(Below(c, c.intervals[j])) <= Cardinality(Kept(c)) \div 2}})

DisplayTime(c, stamp, now) ==
  IF c.count >= MINIMUM THEN Max({stamp + Period(c), now}) ELSE now

(* Follower::read_for_presentation: the core is ticked at the real time.   *)
ReadForPresentation(c, now, at) == TickCore(c, now)

(* render: an animation frame's callback, which may come late.             *)
Render ==
  \E stamp \in Max({0, local - LATE})..local :
    LET c  == Framed(pacer, stamp)
        at == DisplayTime(c, stamp, local)
    IN  /\ pacer.previous # NONE => stamp > pacer.previous
        /\ pacer' = c
        /\ view' = ReadForPresentation(view, local, at)
        /\ shown' = [frame |-> stamp, now |-> local, at |-> at,
                     pos |-> Position(view', at)]
        /\ recent' = IF pacer.previous = NONE \/ stamp - pacer.previous > GAP THEN <<>>
                     ELSE LET all == Append(recent, stamp - pacer.previous)
                          IN  SubSeq(all, Max({1, Len(all) - RING + 1}), Len(all))
        /\ UNCHANGED <<local, due, current>>

(* The page is hidden or shown again.                                      *)
Hide ==
  /\ pacer' = NewClock /\ recent' = <<>> /\ shown' = NONE
  /\ UNCHANGED <<view, local, due, current>>

-----------------------------------------------------------------------------
Idle ==
  /\ view = NewCore /\ local = 0 /\ due = NONE /\ current = NONE
  /\ pacer = NewClock /\ recent = <<>> /\ shown = NONE

StageInit ==
  /\ \/ mode = "boundaries" /\ view \in Views
     \/ mode = "render" /\ view \in Updates
  /\ local = 0 /\ due = NextBoundary(view, 0) /\ current = Sight(view, 0)
  /\ pacer = NewClock /\ recent = <<>> /\ shown = NONE
  /\ format = NONE /\ counter = NONE /\ rate = NONE /\ frame = 0 /\ elapsed = 0

PresentationInit == (TimecodeInit /\ Idle) \/ StageInit

PresentationNext ==
  \/ /\ mode \in {"labels", "advance"}
     /\ TimecodeNext /\ UNCHANGED stageVars
  \/ /\ mode \in {"boundaries", "render"}
     /\ WakeUp \/ Publish \/ Elapse
     /\ UNCHANGED timecodeVars
  \/ /\ mode = "render"
     /\ Render \/ Hide
     /\ UNCHANGED timecodeVars

PresentationSpec == PresentationInit /\ [][PresentationNext]_presentationVars

-----------------------------------------------------------------------------
Staged == mode \in {"boundaries", "render"}

(* An application that sleeps until each boundary misses nothing: until it *)
(* comes, no whole frame is crossed and no change takes effect, also while *)
(* a correction is worked off and whatever is rendered meanwhile; when it  *)
(* comes, exactly one frame was crossed, or the change is the one named.   *)
BoundaryIsFirst ==
  Staged =>
    /\ due = NONE \/ local < due.at => Sight(view, local) = current
    /\ (due # NONE /\ local = due.at) =>
         IF due.kind = "Frame"
           THEN Sight(view, local) = [current EXCEPT !.cell = @ + current.step]
           ELSE Sight(view, local).disc = due.disc /\ due.disc # current.disc

(* If the clock is wrong by no more than it claims, the boundary comes     *)
(* within the uncertainty it is given, also when a correction against the  *)
(* motion makes a small error of position cost more time.                  *)
UncertaintyCovers ==
  LET b == NextBoundary(view, local)
  IN  Staged /\ view.unc > 0 /\ b # NONE =>
        \A e \in (-view.unc..view.unc) \ {0} :
          LET d == NextBoundary([view EXCEPT !.offset = @ + e], local)
          IN  d # NONE /\ <<d.kind, d.pos, d.disc>> = <<b.kind, b.pos, b.disc>>
                => Magnitude(d.at - b.at) <= b.unc

(* A frame is never rendered for the past, nor further ahead than one of   *)
(* the intervals between frames measured since the last gap, of which      *)
(* there must be enough.                                                   *)
TargetWithinAFrame ==
  shown # NONE =>
    /\ shown.at >= shown.now
    /\ shown.at > shown.now =>
         /\ Len(recent) >= MINIMUM
         /\ shown.at - shown.frame \in {recent[i] : i \in 1..Len(recent)}
=============================================================================
