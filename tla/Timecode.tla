------------------------------ MODULE Timecode ------------------------------
(***************************************************************************)
(* Timecode arithmetic (protocol/src/timecode.rs): labels of frames, with  *)
(* drop-frame numbering, and the position a rate reaches after a while.    *)
(*                                                                         *)
(* A behaviour walks: over consecutive frames, beside a counter that       *)
(* numbers them as a deck does, or over consecutive elapsed times, from    *)
(* before an anchor to after it.                                           *)
(***************************************************************************)
EXTENDS Integers, FiniteSetsExt

CONSTANTS Formats,    \* [num, den, drop] of FrameFormat::new
          Rates,      \* <<num, den>>, as they are given to Rate::new
          UNIT,       \* subframes of a frame (2^32)
          NANOS,      \* time units of a second (10^9)
          MAX_FRAMES, \* largest frame number (2^63 - 1)
          WALK,       \* frames walked over
          ELAPSED,    \* largest time from the anchor, either way
          ORIGIN      \* position of the anchor, in subframes

ASSUME TimecodeAssumption ==
  /\ \A f \in Formats : f.num \in Nat \ {0} /\ f.den \in Nat \ {0} /\ f.drop \in BOOLEAN
  /\ \A r \in Rates : r[1] \in Int /\ r[2] \in Nat \ {0}
  /\ {UNIT, NANOS, MAX_FRAMES} \subseteq Nat \ {0} /\ {WALK, ELAPSED} \subseteq Nat /\ ORIGIN \in Int

VARIABLES
  mode,    \* "labels" or "advance"
  format,
  frame,   \* labels: the frame walked to
  counter, \* labels: what the deck counts, [h, m, s, f]
  rate,    \* advance: Rate::new of a member of Rates
  elapsed  \* advance: time from the anchor

timecodeVars == <<mode, format, frame, counter, rate, elapsed>>

Trunc(a, b) == IF a < 0 THEN -((-a) \div b) ELSE a \div b   \* Rust's /, for b > 0
Rem(a, b) == a - b * Trunc(a, b)

-----------------------------------------------------------------------------
Nominal(f) == (f.num + f.den - 1) \div f.den
Dropped(f) == IF f.drop THEN Nominal(f) \div 15 ELSE 0
FramesPerDay(f) == 86400 * Nominal(f) - Dropped(f) * 1296
TenMinutes(f) == Nominal(f) * 600 - Dropped(f) * 9

(* Variant: every minute but the first of ten begins where it would        *)
(* without drop-frame numbering.                                           *)
LateSkips(f, rem) == Dropped(f) * (rem \div (Nominal(f) * 60))

(* Labels skipped in this ten minutes before a frame of it.                *)
Skips(f, rem) ==
  IF rem >= Dropped(f)
    THEN Dropped(f) * ((rem - Dropped(f)) \div (Nominal(f) * 60 - Dropped(f)))
    ELSE 0

(* FrameFormat::label.                                                     *)
Label(f, frames) ==
  LET n == Nominal(f)
      day == frames % FramesPerDay(f)
      numbered == day + Dropped(f) * 9 * (day \div TenMinutes(f)) + Skips(f, day % TenMinutes(f))
  IN [h |-> numbered \div (n * 3600), m |-> (numbered \div (n * 60)) % 60,
      s |-> (numbered \div n) % 60, f |-> numbered % n]

(* FrameFormat::position: the labels it takes, and the frame of one.       *)
Takes(f, l) ==
  /\ l.h < 24 /\ l.m < 60 /\ l.s < 60 /\ l.f < Nominal(f)
  /\ l.m % 10 = 0 \/ l.s > 0 \/ l.f >= Dropped(f)

PositionOf(f, l) ==
  LET mins == l.h * 60 + l.m
  IN (mins * 60 + l.s) * Nominal(f) + l.f - Dropped(f) * (mins - mins \div 10)

-----------------------------------------------------------------------------
(* Rate::new: lowest terms.  The greatest common divisor, by definition.   *)
Divisors(a, b) == {d \in 1 .. b : a % d = 0 /\ b % d = 0}
Reduced(r) ==
  LET size == IF r[1] < 0 THEN -r[1] ELSE r[1]
      gcd == Max(Divisors(size, r[2]))
  IN <<Trunc(r[1], gcd), r[2] \div gcd>>

(* Position::from_fixed: the range of an i64 of frames, and subframes.     *)
Lowest == -(MAX_FRAMES + 1) * UNIT
Highest == MAX_FRAMES * UNIT + UNIT - 1
Clamped(x) == Max({Lowest, Min({x, Highest})})

Numerator(f, r, t) == t * f.num * r[1]
Denominator(f, r) == NANOS * f.den * r[2]

(* Variant: whole frames only.                                             *)
FrameAdvance(f, r, t) ==
  Clamped(ORIGIN + Trunc(Numerator(f, r, t), Denominator(f, r)) * UNIT)

(* Position::advance: the whole part and the rest are scaled on their own. *)
Advance(f, r, t) ==
  LET num == Numerator(f, r, t)
      den == Denominator(f, r)
  IN Clamped(ORIGIN + Trunc(num, den) * UNIT + Trunc(Rem(num, den) * UNIT, den))

-----------------------------------------------------------------------------
(* The deck: it counts frames, and jumps over the labels that are dropped. *)
Following(f, l) ==
  LET n == Nominal(f)
      carried ==
        CASE l.f < n - 1 -> [l EXCEPT !.f = @ + 1]
          [] l.f = n - 1 /\ l.s < 59 -> [l EXCEPT !.f = 0, !.s = @ + 1]
          [] l.f = n - 1 /\ l.s = 59 /\ l.m < 59 -> [l EXCEPT !.f = 0, !.s = 0, !.m = @ + 1]
          [] OTHER -> [h |-> (l.h + 1) % 24, m |-> 0, s |-> 0, f |-> 0]
  IN IF carried.s = 0 /\ carried.m % 10 # 0 /\ carried.f < Dropped(f)
       THEN [carried EXCEPT !.f = Dropped(f)] ELSE carried

TimecodeInit ==
  /\ mode \in {"labels", "advance"} /\ format \in Formats
  /\ frame = -TenMinutes(format) /\ counter = [h |-> 23, m |-> 50, s |-> 0, f |-> 0]
  /\ rate \in IF mode = "advance" THEN {Reduced(r) : r \in Rates} ELSE {<<1, 1>>}
  /\ elapsed = -ELAPSED

NextFrame ==
  /\ mode = "labels" /\ frame < WALK
  /\ frame' = frame + 1 /\ counter' = Following(format, counter)
  /\ UNCHANGED <<mode, format, rate, elapsed>>

TimePasses ==
  /\ mode = "advance" /\ elapsed < ELAPSED
  /\ elapsed' = elapsed + 1
  /\ UNCHANGED <<mode, format, frame, counter, rate>>

TimecodeNext == NextFrame \/ TimePasses
TimecodeSpec == TimecodeInit /\ [][TimecodeNext]_timecodeVars

-----------------------------------------------------------------------------
(* A frame has the label a deck would count to, over minutes, tens of      *)
(* minutes and midnight and before zero; the label leads back to the       *)
(* frame, and no label the deck jumps over is taken for one.               *)
LabelsCount == mode = "labels" =>
  /\ counter = Label(format, frame)
  /\ Takes(format, counter) /\ PositionOf(format, counter) = frame % FramesPerDay(format)
  /\ \A d \in 0 .. Dropped(format) - 1 :
       counter.m % 10 # 0 => ~Takes(format, [counter EXCEPT !.s = 0, !.f = d])

(* An anchor advances by the exact motion, cut to a subframe towards the   *)
(* anchor, so that it never runs ahead of it, nor back while the rate is   *)
(* forward, until it stops at the end of the range.                        *)
AdvanceExact == mode = "advance" =>
  LET den == Denominator(format, rate)
      exact == ORIGIN * den + Numerator(format, rate, elapsed) * UNIT
      got == Advance(format, rate, elapsed)
  IN /\ exact > Highest * den => got = Highest
     /\ exact < Lowest * den => got = Lowest
     /\ exact \in Lowest * den..Highest * den =>
          /\ got * den - exact \in 1 - den..den - 1
          /\ IF exact >= ORIGIN * den THEN got * den \in ORIGIN * den..exact
                                      ELSE got * den \in exact..ORIGIN * den
=============================================================================
