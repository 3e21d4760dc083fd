---------------------------- MODULE FollowerCore ----------------------------
(***************************************************************************)
(* FollowerCore (protocol/src/timeline.rs): the follower that the native   *)
(* engine and the browser share.  Its state is one record, the view that   *)
(* readers copy together with the confirmation counters, and every method  *)
(* is an operator from that record and its arguments to the next record.   *)
(*                                                                         *)
(* The clock estimator is reduced to what it reports of an exchange: was   *)
(* it accepted, the offset and uncertainty fitted, and whether the fit has *)
(* converged.  Drift is part of the offset of the moment.                  *)
(***************************************************************************)
EXTENDS Timeline

CONSTANTS FALLBACK,      \* configured position before there is a clock
          SETTLE,        \* CorrectionPolicy.settle_time_ns, in ticks
          THRESHOLD,     \* CorrectionPolicy.hard_threshold_frames, in position units
          CONFIRMATIONS, \* CorrectionPolicy.confirmations
          STALE,         \* stale_after: ticks without a sample before holdover
          ALIGNED        \* largest alignment error, in position units

ASSUME FollowerCoreAssumption ==
  /\ FALLBACK \in Int
  /\ {SETTLE, CONFIRMATIONS} \subseteq Nat \ {0}
  /\ {THRESHOLD, STALE, ALIGNED} \subseteq Nat

(* An exchange as the estimator judged it.  Acceptance empties the         *)
(* quarantine; a rejected outlier enters it.                               *)
Measurements ==
  [accepted : {TRUE}, recovering : {FALSE}, offset : Int, unc : Nat, converged : BOOLEAN]
    \cup [accepted : {FALSE}, recovering : BOOLEAN, offset : {0}, unc : {0},
          converged : {FALSE}]

Magnitude(x) == IF x < 0 THEN -x ELSE x
Direction(x) == IF x > 0 THEN 1 ELSE -1

(* FollowerCore::new: the fallback timeline belongs to no session.         *)
FallbackTimeline ==
  [session |-> NONE, part |-> NONE, rev |-> 0, format |-> NONE, health |-> "Healthy",
   cur |-> [disc |-> 0, time |-> 0, pos |-> FALLBACK, rate |-> 0], sched |-> <<>>]

NewCore ==
  [conn |-> "Disconnected", sync |-> "Uninitialized", tl |-> FallbackTimeline,
   offset |-> 0, unc |-> 0, sampled |-> 0,
   corr |-> 0, corrAt |-> 0, corrDisc |-> 0,
   recovering |-> FALSE, gen |-> 0,
   large |-> 0, sign |-> 0, locked |-> FALSE,
   expected |-> NONE, reported |-> NONE, event |-> "None"]

-----------------------------------------------------------------------------
(* View::evaluate, in parts.                                               *)

(* ClockMapping::leader_time: never before zero.                           *)
LeaderTime(c, local) == Max({0, local + c.offset})

EvaluatedAt(c, local) ==
  IF c.sync = "Uninitialized" THEN c.tl.cur.time ELSE LeaderTime(c, local)

Playing(c, local) == Active(c.tl, EvaluatedAt(c, local))

(* Variant: the settling slope alone.                                      *)
UnlimitedSlew(c, elapsed, rate) == (Magnitude(c.corr) * elapsed) \div SETTLE

(* What a slew has worked off since it began: the settling slope, limited  *)
(* to a tenth of the motion.                                               *)
Slewed(c, elapsed, rate) ==
  Min({(Magnitude(c.corr) * elapsed) \div SETTLE, (Magnitude(rate) * elapsed) \div 10})

(* A correction belongs to one discontinuity and ends with it.             *)
Remaining(c, local) ==
  LET seg == Playing(c, local)
      elapsed == Max({0, local - c.corrAt})
  IN  IF seg.disc = c.corrDisc
        THEN Direction(c.corr) * Max({0, Magnitude(c.corr) - Slewed(c, elapsed, seg.rate)})
        ELSE 0

Initialized(c) == c.sampled # 0

Position(c, local) ==
  IF Initialized(c)
    THEN At(Playing(c, local), EvaluatedAt(c, local)) + Remaining(c, local)
    ELSE FALLBACK

(* Variant: a correction still to be worked off does not count.            *)
ClockError(c, local) == c.unc * Magnitude(Playing(c, local).rate)

AlignmentError(c, local) ==
  c.unc * Magnitude(Playing(c, local).rate) + Magnitude(Remaining(c, local))

Aligned(c, local) ==
  /\ Initialized(c)
  /\ c.conn = "Connected"
  /\ c.sync = "Synchronized"
  /\ ~c.recovering
  /\ c.tl.health = "Healthy"
  /\ AlignmentError(c, local) <= ALIGNED

-----------------------------------------------------------------------------
(* Variant: a snapshot confirms like a measurement.                        *)
EagerCorrect(c, before, now, measured) ==
  LET at    == LeaderTime(c, now)
      seg   == Active(c.tl, at)
      error == before - At(seg, at)
      large == IF Magnitude(error) > THRESHOLD THEN c.large + 1 ELSE 0
  IN  IF large >= CONFIRMATIONS
        THEN [c EXCEPT !.large = 0, !.corr = 0, !.gen = @ + 1, !.event = "HardResync"]
        ELSE [c EXCEPT !.large = large, !.corr = error, !.corrAt = now,
                       !.corrDisc = seg.disc, !.event = "Slew"]

(* FollowerCore::correct: keep the reading where it was and slew the       *)
(* difference away, unless enough measurements in a row found it large in  *)
(* one direction.                                                          *)
Correct(c, before, now, measured) ==
  LET at    == LeaderTime(c, now)
      seg   == Active(c.tl, at)
      error == before - At(seg, at)
      isBig == Magnitude(error) > THRESHOLD
      sign  == IF isBig THEN Direction(error) ELSE c.sign
      large == (IF isBig /\ sign = c.sign THEN c.large ELSE 0)
                 + (IF isBig /\ measured THEN 1 ELSE 0)
  IN  IF isBig /\ large >= CONFIRMATIONS
        THEN [c EXCEPT !.large = 0, !.sign = sign, !.corr = 0, !.gen = @ + 1,
                       !.event = "HardResync"]
        ELSE [c EXCEPT !.large = large, !.sign = sign, !.corr = error,
                       !.corrAt = now, !.corrDisc = seg.disc, !.event = "Slew"]

(* What an applied discontinuity clears.                                   *)
Jumped(c, disc) ==
  [c EXCEPT !.large = 0, !.sign = 0, !.corr = 0,
            !.reported = <<c.tl.session, disc>>, !.event = "Discontinuity"]

(* Variant: the identity of the previous connection's leader is kept.      *)
StickyConnected(c) ==
  [c EXCEPT !.large = 0, !.sign = 0, !.conn = "Connected", !.event = "None"]

(* FollowerCore::connected                                                 *)
Connected(c) ==
  [c EXCEPT !.large = 0, !.sign = 0, !.expected = NONE, !.conn = "Connected",
            !.event = "None"]

(* FollowerCore::disconnected                                              *)
Disconnected(c) ==
  [c EXCEPT !.conn = "Disconnected", !.event = "None",
            !.sync = IF Initialized(c) THEN "Holdover" ELSE @]

-----------------------------------------------------------------------------
(* FollowerCore::state: a decoded snapshot t arrives.                      *)

(* The first snapshot of a session starts the clock afresh.                *)
AdoptSession(c, t) ==
  [c EXCEPT !.tl = t, !.expected = t.session, !.sync = "Acquiring",
            !.offset = 0, !.unc = 0, !.sampled = 0, !.recovering = FALSE,
            !.large = 0, !.sign = 0, !.locked = FALSE, !.corr = 0,
            !.gen = @ + 1, !.event = "NewSession"]

(* Variant: a snapshot is taken as it came.                                *)
AsSent(c, t, now) == t

(* A later one is advanced through what was applied already.               *)
Advanced(c, t, now) == Latch(t, Max({c.tl.cur.disc, Playing(c, now).disc}))

(* Variant: only the format is looked at.                                  *)
Reformats(c, t, now) ==
  t.format # c.tl.format /\ Advanced(c, t, now).cur.disc = Playing(c, now).disc

(* It must not undo a discontinuity, nor change the format without one.    *)
Regresses(c, t, now) ==
  LET playing == Playing(c, now).disc
  IN  \/ Advanced(c, t, now).cur.disc < playing
      \/ t.format # c.tl.format /\ Advanced(c, t, now).cur.disc = playing

(* Variant: the reading to preserve is taken after the replacement.        *)
LateReading(c, t, now) ==
  LET next == [c EXCEPT !.tl = Advanced(c, t, now), !.expected = t.session]
      disc == Active(next.tl, LeaderTime(next, now)).disc
  IN  IF disc # Playing(c, now).disc
        THEN Jumped(next, disc)
        ELSE Correct(next, Position(next, now), now, FALSE)

AdoptRevision(c, t, now) ==
  LET next == [c EXCEPT !.tl = Advanced(c, t, now), !.expected = t.session]
      disc == Active(next.tl, LeaderTime(next, now)).disc
  IN  IF disc # Playing(c, now).disc
        THEN Jumped(next, disc)
        ELSE Correct(next, Position(c, now), now, FALSE)

Foreign(c, t) == c.expected # NONE /\ c.expected # t.session

(* Variant: the revision is not looked at.                                 *)
AnyRevision(c, t, now) ==
  IF Foreign(c, t) THEN [c EXCEPT !.event = "None"]
  ELSE IF c.tl.session # t.session THEN AdoptSession(c, t)
  ELSE IF Regresses(c, t, now)
    THEN [c EXCEPT !.expected = t.session, !.event = "None"]
  ELSE AdoptRevision(c, t, now)

State(c, t, now) ==
  IF Foreign(c, t) THEN [c EXCEPT !.event = "None"]
  ELSE IF c.tl.session # t.session THEN AdoptSession(c, t)
  ELSE IF t.rev <= c.tl.rev \/ Regresses(c, t, now)
    THEN [c EXCEPT !.expected = t.session, !.event = "None"]
  ELSE AdoptRevision(c, t, now)

-----------------------------------------------------------------------------
(* FollowerCore::measurement_timed: a matched exchange is processed.       *)
Remapped(c, m, now) ==
  [c EXCEPT !.recovering = m.recovering, !.offset = m.offset, !.unc = m.unc,
            !.sampled = now,
            !.sync = IF m.converged THEN "Synchronized" ELSE "Acquiring",
            !.locked = @ \/ m.converged]

(* Until the clock has locked once the mapping is applied as it is; after  *)
(* that a difference is corrected, unless it crosses a discontinuity.      *)
AcceptMeasurement(c, m, now) ==
  LET next == Remapped(c, m, now)
      disc == Active(next.tl, LeaderTime(next, now)).disc
  IN  IF ~c.locked
        THEN [next EXCEPT !.corr = 0, !.gen = @ + 1, !.event = "HardResync"]
      ELSE IF disc # Playing(c, now).disc
        THEN Jumped(next, disc)
      ELSE Correct(next, Position(c, now), now, TRUE)

Measure(c, m, now) ==
  IF c.expected = NONE THEN [c EXCEPT !.event = "None"]
  ELSE IF m.accepted THEN AcceptMeasurement(c, m, now)
  ELSE [c EXCEPT !.recovering = m.recovering, !.event = "None"]

-----------------------------------------------------------------------------
(* FollowerCore::tick: staleness, and changes that became due are latched. *)
TickCore(c, now) ==
  LET disc    == Active(c.tl, LeaderTime(c, now)).disc
      key     == <<c.tl.session, disc>>
      crossed == /\ c.reported # NONE
                 /\ c.reported[1] = key[1]
                 /\ c.reported[2] # key[2]
      next    == [c EXCEPT !.sync = IF now - c.sampled > STALE THEN "Holdover" ELSE @,
                           !.tl = Latch(@, disc),
                           !.reported = key]
  IN  IF ~Initialized(c) THEN [c EXCEPT !.event = "None"]
      ELSE IF crossed
        THEN [next EXCEPT !.large = 0, !.sign = 0, !.event = "Discontinuity"]
      ELSE [next EXCEPT !.event = "None"]
=============================================================================
