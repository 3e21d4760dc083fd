------------------------------ MODULE Follower ------------------------------
(***************************************************************************)
(* FollowerCore driven by its interface: any application may call its      *)
(* methods in any order, with any valid snapshot and any judged exchange,  *)
(* while time passes (the browser does so from several concurrent loops).  *)
(***************************************************************************)
EXTENDS FollowerCore

CONSTANTS SNAPSHOTS,    \* snapshots that may be decoded
          MEASUREMENTS, \* exchanges that may be judged
          MAX_LOCAL,    \* bound on the local clock
          MAX_CALLS     \* bound on the calls made

ASSUME FollowerAssumption ==
  /\ SNAPSHOTS \subseteq {t \in Timelines : ValidSnapshot(t)}
  /\ MEASUREMENTS \subseteq Measurements

VARIABLES
  core,    \* the FollowerCore
  local,   \* the follower's monotonic clock
  calls,   \* calls made so far (bound only)
  streak,  \* history: consecutive large errors measured, signed, since the
           \* last reconnect, reported discontinuity or small error
  applied  \* history: the same, forgotten too when a change comes into effect

vars == <<core, local, calls, streak, applied>>

Init ==
  /\ core = NewCore
  /\ local = 1
  /\ calls = 0
  /\ streak = 0 /\ applied = 0

-----------------------------------------------------------------------------
Call == calls < MAX_CALLS /\ calls' = calls + 1 /\ UNCHANGED local

(* The error a measurement finds, and the run of large ones it continues.  *)
MeasuredError(m) ==
  LET next == Remapped(core, m, local)
      at   == LeaderTime(next, local)
  IN  Position(core, local) - At(Active(next.tl, at), at)

Continued(run, m) ==
  LET error == MeasuredError(m)
      base  == IF core.event = "HardResync" \/ run * Direction(error) < 0 THEN 0 ELSE run
  IN  IF Magnitude(error) > THRESHOLD THEN base + Direction(error) ELSE 0

Counts(m) == m.accepted /\ core.expected # NONE /\ core.locked

AfterMeasurement(run, m) ==
  IF core'.event = "Discontinuity" THEN 0
  ELSE IF Counts(m) THEN Continued(run, m) ELSE run

(* A snapshot counts nothing, but one that is adopted ends a run, by a new *)
(* trajectory, an error found small or a change of direction.              *)
AfterState(run) ==
  IF core'.tl = core.tl THEN run
  ELSE IF core'.event # "Slew" THEN 0
  ELSE IF Magnitude(core'.corr) <= THRESHOLD \/ run * Direction(core'.corr) < 0 THEN 0
  ELSE run

Connect ==
  /\ Call
  /\ core' = Connected(core)
  /\ streak' = 0 /\ applied' = 0

Disconnect ==
  /\ Call
  /\ core' = Disconnected(core)
  /\ UNCHANGED <<streak, applied>>

StateCall(t) ==
  /\ Call
  /\ core' = State(core, t, local)
  /\ streak' = AfterState(streak) /\ applied' = AfterState(applied)

MeasurementCall(m) ==
  /\ Call
  /\ core' = Measure(core, m, local)
  /\ streak' = AfterMeasurement(streak, m)
  /\ applied' = AfterMeasurement(applied, m)

TickCall ==
  /\ Call
  /\ core' = TickCore(core, local)
  /\ streak' = IF core'.event = "Discontinuity" THEN 0 ELSE streak
  /\ applied' = IF core'.event = "Discontinuity" THEN 0 ELSE applied

(* Time passes and readers keep evaluating the view they hold.             *)
Elapse ==
  /\ local < MAX_LOCAL
  /\ local' = local + 1
  /\ applied' = IF Playing(core, local').disc # Playing(core, local).disc
                  THEN 0 ELSE applied
  /\ UNCHANGED <<core, calls, streak>>

Next ==
  \/ Connect
  \/ Disconnect
  \/ \E t \in SNAPSHOTS : StateCall(t)
  \/ \E m \in MEASUREMENTS : MeasurementCall(m)
  \/ TickCall
  \/ Elapse

Spec == Init /\ [][Next]_vars

-----------------------------------------------------------------------------
(* A slew is invisible when it starts: a routine correction, whether from  *)
(* a measurement or from a snapshot, leaves what readers see at that       *)
(* instant where it was, whatever remained of the correction before it.    *)
SlewIsContinuous ==
  [][(core'.event = "Slew" /\ local' = local /\ core' # core)
        => Position(core', local) = Position(core, local)]_vars

(* "Phase correction must not overpower shuttle motion": while no call     *)
(* intervenes and no change comes into effect, output moves in the         *)
(* direction of playback and a paused output stands still, however large   *)
(* the pending correction.                                                 *)
NeverBackwards ==
  [][LET was  == Playing(core, local)
         step == Position(core, local') - Position(core, local)
     IN  (local' # local /\ Initialized(core) /\ Playing(core, local') = was
            /\ EvaluatedAt(core, local) < EvaluatedAt(core, local'))
           => /\ was.rate = 0 => step = 0
              /\ was.rate > 0 => step > 0
              /\ was.rate < 0 => step < 0]_vars

(* Once locked, output jumps only to apply a change or a session, or after *)
(* CONFIRMATIONS accepted measurements in a row found it far off in the    *)
(* same direction on one connection and between reported discontinuities;  *)
(* snapshots never count.                                                  *)
HardResyncConfirmed ==
  [][(core'.event = "HardResync" /\ core' # core /\ core.locked)
        => Magnitude(streak') >= CONFIRMATIONS]_vars

(* A newer snapshot of the session never takes readers back across a       *)
(* change they have seen applied, with or without the schedule that        *)
(* announced it.                                                           *)
SnapshotNeverRollsBack ==
  [][(local' = local /\ core'.tl.rev > core.tl.rev /\ core'.tl.session = core.tl.session)
        => Playing(core, local).disc <= Playing(core', local).disc]_vars

=============================================================================
