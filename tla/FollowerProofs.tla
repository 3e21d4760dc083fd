--------------------------- MODULE FollowerProofs ---------------------------
(***************************************************************************)
(* The follower's core under any sequence of calls: what output may do at  *)
(* a correction, at a snapshot and at a resynchronisation.                 *)
(***************************************************************************)
EXTENDS Follower, CoreProofs

TypeOK ==
  /\ IsCore(core)
  /\ local \in Nat \ {0} /\ calls \in Nat
  /\ streak \in Int /\ applied \in Int

(* What was measured can be evaluated.                                     *)
SyncInv == Initialized(core) => core.sync # "Uninitialized"

(* The core never counts more than was measured, in one direction, and has *)
(* nothing left to count once it resynchronised.                           *)
Backed(c, run) ==
  /\ c.large < CONFIRMATIONS
  /\ c.large <= Magnitude(run)
  /\ c.large > 0 => c.sign = Direction(run)

CountInv ==
  /\ Backed(core, streak)
  /\ ~core.locked \/ core.event = "HardResync" => core.large = 0

FollowerInv == TypeOK /\ SyncInv /\ CountInv

-----------------------------------------------------------------------------
LEMMA GivenSnapshots ==
  ASSUME NEW t \in SNAPSHOTS
  PROVE  t \in Timelines /\ Ascending(t)
BY FollowerAssumption, OrderedAscends DEF ValidSnapshot

(* A snapshot counts nothing, so it never completes a run.                 *)
LEMMA SnapshotCounts ==
  ASSUME NEW c, IsCore(c), NEW r, IsCore(r), NEW before \in Int, NEW n \in Nat,
         Corrected(c, r, before, n, FALSE), NEW run \in Int, Backed(c, run)
  PROVE  /\ r.event = "Slew"
         /\ Backed(r, IF Magnitude(r.corr) <= THRESHOLD \/ run * Direction(r.corr) < 0
                         THEN 0 ELSE run)
<1>1. PICK error : error = ErrorOf(r, before, n)
  OBVIOUS
<1>2. PICK count : count = CountOf(c, error, FALSE)
  OBVIOUS
<1>3. /\ c.large \in Nat /\ r.large \in Nat /\ r.corr \in Int
      /\ THRESHOLD \in Nat /\ CONFIRMATIONS \in Nat \ {0}
  BY FollowerCoreAssumption DEF IsCore
<1>4. count = IF Magnitude(error) > THRESHOLD /\ Direction(error) = c.sign THEN c.large ELSE 0
  BY <1>2, <1>3 DEF CountOf
<1>5. ~(count >= CONFIRMATIONS)
  BY <1>3, <1>4 DEF Backed
<1>6. /\ r.event = "Slew" /\ r.corr = error /\ r.large = count
      /\ r.large > 0 => r.sign = Direction(error)
  BY <1>1, <1>2, <1>5 DEF Corrected
<1>7. CASE Magnitude(error) <= THRESHOLD
  <2>1. Magnitude(error) \in Nat
    BY <1>3, <1>6 DEF Magnitude
  <2>2. count = 0
    BY <1>3, <1>4, <1>7, <2>1
  <2> QED
    BY <1>3, <1>6, <1>7, <2>2 DEF Backed, Magnitude
<1>8. CASE run * Direction(error) < 0
  <2>1. Direction(error) # Direction(run)
    BY <1>3, <1>6, <1>8 DEF Direction
  <2>2. count = 0
    BY <1>3, <1>4, <2>1 DEF Backed
  <2> QED
    BY <1>3, <1>6, <1>8, <2>2 DEF Backed, Magnitude
<1>9. CASE ~(Magnitude(error) <= THRESHOLD) /\ ~(run * Direction(error) < 0)
  <2>1. r.large <= Magnitude(run) /\ r.large < CONFIRMATIONS
    BY <1>3, <1>4, <1>6 DEF Backed, Magnitude
  <2>2. r.large > 0 => r.sign = Direction(run)
    BY <1>4, <1>6 DEF Backed
  <2> QED
    BY <1>6, <1>9, <2>1, <2>2 DEF Backed
<1> QED
  BY <1>6, <1>7, <1>8, <1>9

(* A measurement extends a run by one, or begins one.                      *)
Extended(c, run, error) ==
  LET base == IF c.event = "HardResync" \/ run * Direction(error) < 0 THEN 0 ELSE run
  IN  IF Magnitude(error) > THRESHOLD THEN base + Direction(error) ELSE 0

LEMMA MeasurementCounts ==
  ASSUME NEW c, IsCore(c), NEW r, IsCore(r), NEW before \in Int, NEW n \in Nat,
         Corrected(c, r, before, n, TRUE), NEW run \in Int, Backed(c, run),
         c.event = "HardResync" => c.large = 0,
         NEW error \in Int, error = ErrorOf(r, before, n)
  PROVE  /\ r.event \in {"Slew", "HardResync"} /\ Extended(c, run, error) \in Int
         /\ Backed(r, Extended(c, run, error))
         /\ r.event = "HardResync"
              => r.large = 0 /\ Magnitude(Extended(c, run, error)) >= CONFIRMATIONS
<1> DEFINE base == IF c.event = "HardResync" \/ run * Direction(error) < 0 THEN 0 ELSE run
<1>1. PICK next : next = Extended(c, run, error)
  OBVIOUS
<1>2. next = IF Magnitude(error) > THRESHOLD THEN base + Direction(error) ELSE 0
  BY <1>1 DEF Extended
<1>3. SUFFICES /\ r.event \in {"Slew", "HardResync"} /\ next \in Int
               /\ Backed(r, next)
               /\ r.event = "HardResync" => r.large = 0 /\ Magnitude(next) >= CONFIRMATIONS
  BY <1>1
<1>4. PICK count : count = CountOf(c, error, TRUE)
  OBVIOUS
<1>5. /\ c.large \in Nat /\ r.large \in Nat
      /\ THRESHOLD \in Nat /\ CONFIRMATIONS \in Nat \ {0}
  BY FollowerCoreAssumption DEF IsCore
<1>6. Direction(error) \in {-1, 1} /\ Magnitude(error) \in Nat /\ base \in Int /\ next \in Int
  BY <1>2 DEF Direction, Magnitude
<1>7. count = IF Magnitude(error) > THRESHOLD
                THEN (IF Direction(error) = c.sign THEN c.large ELSE 0) + 1 ELSE 0
  BY <1>4, <1>5 DEF CountOf
<1>8. IF count >= CONFIRMATIONS
        THEN r.event = "HardResync" /\ r.large = 0
        ELSE /\ r.event = "Slew" /\ r.large = count
             /\ r.large > 0 => r.sign = Direction(error)
  BY <1>4 DEF Corrected
<1>9. CASE ~(Magnitude(error) > THRESHOLD)
  <2>1. count = 0 /\ next = 0
    BY <1>2, <1>7, <1>9
  <2> QED
    BY <1>5, <1>8, <2>1 DEF Backed, Magnitude
<1>40. CASE Magnitude(error) > THRESHOLD
  <2>1. next = base + Direction(error)
    BY <1>2, <1>40
  <2>2. base = 0 \/ Direction(base) = Direction(error)
    <3>1. CASE base = 0
      BY <3>1
    <3>2. CASE base # 0
      <4>1. base = run /\ ~(run * Direction(error) < 0) /\ run # 0
        BY <3>2
      <4>2. CASE Direction(error) = 1
        <5>1. run * 1 = run
          OBVIOUS
        <5> QED
          BY <4>1, <4>2, <5>1 DEF Direction
      <4>3. CASE Direction(error) = -1
        <5>1. run * (-1) = -run
          OBVIOUS
        <5> QED
          BY <4>1, <4>3, <5>1 DEF Direction
      <4> QED
        BY <1>6, <4>2, <4>3
    <3> QED
      BY <3>1, <3>2
  <2>3. Magnitude(next) = Magnitude(base) + 1 /\ Direction(next) = Direction(error)
    <3>1. CASE Direction(error) = 1
      BY <1>6, <2>1, <2>2, <3>1 DEF Magnitude, Direction
    <3>2. CASE Direction(error) = -1
      BY <1>6, <2>1, <2>2, <3>2 DEF Magnitude, Direction
    <3> QED
      BY <1>6, <3>1, <3>2
  <2>4. (IF Direction(error) = c.sign THEN c.large ELSE 0) <= Magnitude(base)
    <3>1. CASE base = run
      BY <1>5, <1>6, <3>1 DEF Backed, Magnitude
    <3>2. CASE base # run
      <4>1. c.event = "HardResync" \/ run * Direction(error) < 0
        BY <3>2
      <4>2. CASE c.event = "HardResync"
        BY <1>5, <1>6, <4>2 DEF Magnitude
      <4>3. CASE run * Direction(error) < 0
        <5>1. Direction(error) # Direction(run)
          BY <4>3 DEF Direction
        <5>2. ~(Direction(error) = c.sign) \/ c.large = 0
          BY <1>5, <5>1 DEF Backed
        <5> QED
          BY <1>5, <1>6, <5>2 DEF Magnitude
      <4> QED
        BY <4>1, <4>2, <4>3
    <3> QED
      BY <3>1, <3>2
  <2>5. count <= Magnitude(next) /\ Magnitude(next) \in Nat /\ count \in Nat
    <3>1. Magnitude(base) \in Nat
      BY <1>6 DEF Magnitude
    <3> QED
      BY <1>5, <1>7, <1>40, <2>3, <2>4, <3>1
  <2> QED
    BY <1>5, <1>6, <1>8, <2>3, <2>5 DEF Backed
<1> QED
  BY <1>9, <1>40

-----------------------------------------------------------------------------
LEMMA FollowerInitial == Init => FollowerInv
<1>1. SUFFICES ASSUME Init PROVE FollowerInv
  OBVIOUS
<1>2. core = NewCore /\ local = 1 /\ calls = 0 /\ streak = 0 /\ applied = 0
  BY <1>1 DEF Init
<1>3. IsCore(core)
  BY <1>2, NewCoreType
<1>4. core.large = 0 /\ core.sign = 0 /\ core.sampled = 0 /\ core.sync = "Uninitialized"
      /\ core.locked = FALSE /\ core.event = "None"
  BY <1>2 DEF NewCore
<1> QED
  BY <1>2, <1>3, <1>4, FollowerCoreAssumption
     DEF FollowerInv, TypeOK, SyncInv, CountInv, Backed, Initialized, Magnitude

(* One call or one instant: every part of the invariant is kept.           *)
LEMMA ConnectKeeps ==
  ASSUME FollowerInv, Connect
  PROVE  FollowerInv' /\ core'.event = "None" /\ core'.tl = core.tl
<1>1. IsCore(core) /\ core' = Connected(core) /\ local' = local /\ calls' = calls + 1
      /\ streak' = 0 /\ applied' = 0
  BY DEF FollowerInv, TypeOK, Connect, Call
<1>2. DOMAIN core = Fields /\ DOMAIN core' = Fields
  BY <1>1 DEF IsCore, Connected
<1>3. /\ core'.large = 0 /\ core'.sign = 0 /\ core'.expected = NONE
      /\ core'.conn = "Connected" /\ core'.event = "None"
      /\ core'.tl = core.tl /\ core'.sync = core.sync /\ core'.sampled = core.sampled
      /\ core'.locked = core.locked
  BY <1>1, <1>2 DEF Fields, Connected
<1>4. IsCore(core')
  BY <1>1 DEF IsCore, Fields, Connected
<1> QED
  BY <1>1, <1>3, <1>4, FollowerCoreAssumption
     DEF FollowerInv, TypeOK, SyncInv, CountInv, Backed, Initialized, Magnitude

LEMMA DisconnectKeeps ==
  ASSUME FollowerInv, Disconnect
  PROVE  FollowerInv' /\ core'.event = "None" /\ core'.tl = core.tl
<1>1. IsCore(core) /\ core' = Disconnected(core) /\ local' = local /\ calls' = calls + 1
      /\ streak' = streak /\ applied' = applied
  BY DEF FollowerInv, TypeOK, Disconnect, Call
<1>2. DOMAIN core = Fields /\ DOMAIN core' = Fields
  BY <1>1 DEF IsCore, Disconnected
<1>3. /\ core'.large = core.large /\ core'.sign = core.sign
      /\ core'.conn = "Disconnected" /\ core'.event = "None"
      /\ core'.tl = core.tl /\ core'.sampled = core.sampled /\ core'.locked = core.locked
      /\ core'.sync = (IF Initialized(core) THEN "Holdover" ELSE core.sync)
  BY <1>1, <1>2 DEF Fields, Disconnected
<1>4. IsCore(core')
  BY <1>1 DEF IsCore, Fields, Disconnected
<1> QED
  BY <1>1, <1>3, <1>4 DEF FollowerInv, TypeOK, SyncInv, CountInv, Backed, Initialized

LEMMA TickKeeps ==
  ASSUME FollowerInv, TickCall
  PROVE  /\ FollowerInv' /\ core'.event \in {"None", "Discontinuity"}
         /\ core'.tl.rev = core.tl.rev
<1>1. IsCore(core) /\ local \in Nat \ {0} /\ local' = local /\ calls' \in Nat
  BY DEF FollowerInv, TypeOK, TickCall, Call
<1>2. PICK r : r = core'
  OBVIOUS
<1>3. r = TickCore(core, local)
  BY <1>2 DEF TickCall
<1>4. /\ IsCore(r) /\ r.tl.rev = core.tl.rev
      /\ r.sampled = core.sampled /\ r.locked = core.locked
      /\ r.sync = core.sync \/ r.sync = "Holdover"
      /\ \/ r.event = "None" /\ r.large = core.large /\ r.sign = core.sign
         \/ r.event = "Discontinuity" /\ r.large = 0
  <2>1. local \in Nat
    BY <1>1
  <2>2. IsCore(r) /\ TickedTo(core, r)
    BY <1>1, <1>3, <2>1, TickOutcome
  <2> QED
    BY <2>2 DEF TickedTo
<1>5. /\ streak' = IF r.event = "Discontinuity" THEN 0 ELSE streak
      /\ applied' = IF r.event = "Discontinuity" THEN 0 ELSE applied
  BY <1>2 DEF TickCall
<1> QED
  BY <1>1, <1>2, <1>4, <1>5, FollowerCoreAssumption
     DEF FollowerInv, TypeOK, SyncInv, CountInv, Backed, Initialized, Magnitude

LEMMA ElapseKeeps ==
  ASSUME FollowerInv, Elapse
  PROVE  FollowerInv'
BY DEF FollowerInv, TypeOK, SyncInv, CountInv, Backed, Initialized, Elapse

(* A reading survives the correction made to preserve it.                  *)
LEMMA SlewPreserves ==
  ASSUME NEW c, IsCore(c), NEW r, IsCore(r), NEW n \in Nat, NEW measured,
         Corrected(c, r, Position(c, n), n, measured), r.event = "Slew",
         r.sampled = 0 => c.sampled = 0,
         r.sampled # 0 => r.sync # "Uninitialized"
  PROVE  Position(r, n) = Position(c, n)
<1>1. CASE r.sampled = 0
  BY <1>1 DEF Position, Initialized
<1>2. CASE r.sampled # 0
  <2>1. Initialized(r) /\ r.sync # "Uninitialized"
    BY <1>2 DEF Initialized
  <2>2. /\ r.corr = ErrorOf(r, Position(c, n), n) /\ r.corrAt = n
        /\ r.corrDisc = Active(r.tl, LeaderTime(r, n)).disc
    BY DEF Corrected
  <2>3. Playing(r, n) = Active(r.tl, LeaderTime(r, n))
    BY <2>1, <2>2 DEF Playing, EvaluatedAt
  <2>4. Position(r, n) = At(Playing(r, n), LeaderTime(r, n)) + r.corr
    BY <2>1, <2>2, <2>3, CorrectionIsInvisible
  <2>5. At(Playing(r, n), LeaderTime(r, n)) \in Int /\ Position(c, n) \in Int
    <3>1. Playing(r, n) \in Segment /\ LeaderTime(r, n) \in Nat
      BY EvaluatedType, LeaderTimeType
    <3>2. At(Playing(r, n), LeaderTime(r, n)) \in Int
      BY <3>1 DEF At, Segment
    <3> QED
      BY <3>2, PositionType
  <2>6. r.corr = Position(c, n) - At(Playing(r, n), LeaderTime(r, n))
    BY <2>2, <2>3 DEF ErrorOf
  <2> QED
    BY <2>4, <2>5, <2>6
<1> QED
  BY <1>1, <1>2

LEMMA StateKeeps ==
  ASSUME FollowerInv, NEW t \in SNAPSHOTS, StateCall(t)
  PROVE  /\ FollowerInv' /\ core'.event # "HardResync"
         /\ core'.event = "Slew" => Position(core', local) = Position(core, local)
         /\ core'.tl.rev > core.tl.rev /\ core'.tl.session = core.tl.session
              => Playing(core, local).disc <= Playing(core', local).disc
<1>1. /\ IsCore(core) /\ local \in Nat \ {0} /\ local' = local /\ calls' \in Nat
      /\ streak \in Int /\ applied \in Int
  BY DEF FollowerInv, TypeOK, StateCall, Call
<1>2. PICK c : c = core
  OBVIOUS
<1>3. PICK r : r = core'
  OBVIOUS
<1>4. PICK n : n = local
  OBVIOUS
<1>5. IsCore(c) /\ n \in Nat /\ r = State(c, t, n)
  BY <1>1, <1>2, <1>3, <1>4 DEF StateCall
<1>6. IsCore(r) /\ (Ignored(c, r) \/ Begun(c, t, r) \/ Revised(c, t, r, n))
  BY <1>5, GivenSnapshots, StateOutcome
<1>7. /\ Backed(c, streak) /\ SyncInv
      /\ ~c.locked \/ c.event = "HardResync" => c.large = 0
  BY <1>2 DEF FollowerInv, CountInv
<1>8. /\ THRESHOLD \in Nat /\ CONFIRMATIONS \in Nat \ {0}
      /\ c.tl.rev \in Nat
  BY <1>5, FollowerCoreAssumption DEF IsCore, HeldTimelines
<1> DEFINE after(run) ==
             IF r.tl = c.tl THEN run
             ELSE IF r.event # "Slew" THEN 0
             ELSE IF Magnitude(r.corr) <= THRESHOLD \/ run * Direction(r.corr) < 0 THEN 0
             ELSE run
<1>9. streak' = after(streak) /\ applied' = after(applied)
  BY <1>2, <1>3 DEF StateCall, AfterState
<1>10. streak' \in Int /\ applied' \in Int
  BY <1>1, <1>9
<1>11. ASSUME /\ r.sampled # 0 => r.sync # "Uninitialized"
              /\ Backed(r, streak')
              /\ ~r.locked \/ r.event = "HardResync" => r.large = 0
       PROVE  FollowerInv'
  <2>1. IsCore(core') /\ TypeOK'
    BY <1>1, <1>3, <1>6, <1>10 DEF TypeOK
  <2>2. SyncInv'
    BY <1>3, <1>11 DEF SyncInv, Initialized
  <2>3. CountInv'
    BY <1>3, <1>11 DEF CountInv
  <2> QED
    BY <2>1, <2>2, <2>3 DEF FollowerInv
<1>12. c.sampled # 0 => c.sync # "Uninitialized"
  BY <1>2, <1>7 DEF SyncInv, Initialized
<1>13. CASE Ignored(c, r)
  <2>1. streak' = streak
    BY <1>9, <1>13 DEF Ignored
  <2>2. FollowerInv'
    BY <1>7, <1>11, <1>12, <1>13, <2>1 DEF Ignored, Backed
  <2>3. ~(r.tl.rev > c.tl.rev) /\ r.event = "None"
    BY <1>8, <1>13 DEF Ignored
  <2> QED
    BY <1>2, <1>3, <2>2, <2>3
<1>14. CASE Begun(c, t, r)
  <2>1. streak' = 0
    BY <1>9, <1>14 DEF Begun
  <2>2. FollowerInv'
    BY <1>8, <1>11, <1>14, <2>1 DEF Begun, Backed, Magnitude
  <2>3. r.tl.session # c.tl.session /\ r.event = "NewSession"
    BY <1>14 DEF Begun
  <2> QED
    BY <1>2, <1>3, <2>2, <2>3
<1>15. CASE Revised(c, t, r, n)
  <2>1. /\ r.tl.rev = t.rev /\ r.tl # c.tl
        /\ \A s \in Segments(r.tl) : r.tl.cur.disc <= s.disc
    <3>1. t.rev \in Nat /\ c.tl.rev < t.rev /\ r.tl = Advanced(c, t, n)
      BY <1>15, GivenSnapshots, SnapshotType DEF Revised
    <3>2. PICK a : a = Advanced(c, t, n)
      OBVIOUS
    <3>3. a.rev = t.rev /\ \A s \in Segments(a) : a.cur.disc <= s.disc
      BY <1>5, <3>2, GivenSnapshots, AdvancedType
    <3>4. c.tl.rev \in Nat
      BY <1>5 DEF IsCore, HeldTimelines
    <3> QED
      BY <3>1, <3>2, <3>3, <3>4
  <2>2. Playing(c, n).disc <= Playing(r, n).disc
    <3>1. Playing(r, n) \in Segments(r.tl) /\ Playing(r, n).disc \in Nat
      BY <1>5, <1>6, EvaluatedType DEF Segment
    <3>2. Playing(c, n).disc \in Nat /\ r.tl.cur.disc \in Nat
      BY <1>5, <1>6, EvaluatedType DEF Segment, IsCore, HeldTimelines
    <3>3. Playing(c, n).disc <= r.tl.cur.disc /\ r.tl.cur.disc <= Playing(r, n).disc
      BY <1>15, <2>1, <3>1 DEF Revised
    <3> QED
      BY <3>1, <3>2, <3>3
  <2>3. /\ r.sync = c.sync /\ r.sampled = c.sampled /\ r.locked = c.locked
    BY <1>15 DEF Revised
  <2>4. CASE r.event = "Discontinuity" /\ r.large = 0
    <3>1. streak' = 0
      BY <1>9, <2>1, <2>4
    <3>2. FollowerInv'
      BY <1>8, <1>11, <1>12, <2>3, <2>4, <3>1 DEF Backed, Magnitude
    <3> QED
      BY <1>2, <1>3, <1>4, <2>2, <2>4, <3>2
  <2>5. CASE Corrected(c, r, Position(c, n), n, FALSE)
    <3> DEFINE next == IF Magnitude(r.corr) <= THRESHOLD \/ streak * Direction(r.corr) < 0
                         THEN 0 ELSE streak
    <3>1. Position(c, n) \in Int
      BY <1>5, PositionType
    <3>2. r.event = "Slew" /\ Backed(r, next)
      BY <1>1, <1>5, <1>6, <1>7, <2>5, <3>1, SnapshotCounts
    <3>3. streak' = next
      BY <1>9, <2>1, <3>2
    <3>4. ~r.locked => r.large = 0
      <4>1. ~c.locked => c.large = 0
        BY <1>7
      <4>2. CONFIRMATIONS \in Nat \ {0} /\ THRESHOLD \in Nat /\ c.large \in Nat
        BY <1>5, <1>8 DEF IsCore
      <4>3. CountOf(c, ErrorOf(r, Position(c, n), n), FALSE) \in {0, c.large}
        BY <4>2 DEF CountOf
      <4> QED
        BY <2>3, <2>5, <4>1, <4>2, <4>3 DEF Corrected
    <3>5. FollowerInv'
      <4> HIDE DEF next
      <4> QED
        BY <1>11, <1>12, <2>3, <3>2, <3>3, <3>4
    <3>6. Position(r, n) = Position(c, n)
      BY <1>5, <1>6, <1>12, <2>3, <2>5, <3>2, SlewPreserves
    <3> QED
      BY <1>2, <1>3, <1>4, <2>2, <3>2, <3>5, <3>6
  <2> QED
    BY <1>15, <2>4, <2>5 DEF Revised
<1> QED
  BY <1>6, <1>13, <1>14, <1>15

LEMMA MeasurementKeeps ==
  ASSUME FollowerInv, NEW m \in MEASUREMENTS, MeasurementCall(m)
  PROVE  /\ FollowerInv' /\ core'.tl = core.tl
         /\ core'.event = "Slew" => Position(core', local) = Position(core, local)
         /\ core'.event = "HardResync" /\ core.locked
              => Magnitude(streak') >= CONFIRMATIONS
<1>1. /\ IsCore(core) /\ local \in Nat \ {0} /\ local' = local /\ calls' \in Nat
      /\ streak \in Int /\ applied \in Int
  BY DEF FollowerInv, TypeOK, MeasurementCall, Call
<1>2. PICK c : c = core
  OBVIOUS
<1>3. PICK r : r = core'
  OBVIOUS
<1>4. PICK n : n = local
  OBVIOUS
<1>5. IsCore(c) /\ n \in Nat /\ n # 0 /\ r = Measure(c, m, n)
  BY <1>1, <1>2, <1>3, <1>4 DEF MeasurementCall
<1>6. /\ IsCore(r)
      /\ \/ ~(m.accepted /\ c.expected # NONE) /\ Ignored(c, r)
         \/ m.accepted /\ c.expected # NONE /\ Accepted(c, m, r, n)
  BY <1>5, FollowerAssumption, MeasureOutcome
<1>7. /\ Backed(c, streak) /\ SyncInv
      /\ ~c.locked \/ c.event = "HardResync" => c.large = 0
  BY <1>2 DEF FollowerInv, CountInv
<1>8. /\ THRESHOLD \in Nat /\ CONFIRMATIONS \in Nat \ {0}
  BY FollowerCoreAssumption
<1>9. PICK error : error = ErrorOf(Remapped(c, m, n), Position(c, n), n)
  OBVIOUS
<1>10. error = MeasuredError(m)
  BY <1>2, <1>4, <1>9 DEF MeasuredError, ErrorOf
<1>11. error \in Int
  <2>1. PICK next : next = Remapped(c, m, n)
    OBVIOUS
  <2>2. IsCore(next)
    BY <1>5, <2>1, FollowerAssumption, RemappedCore
  <2>3. LeaderTime(next, n) \in Nat /\ next.tl \in HeldTimelines
    BY <1>5, <2>2, LeaderTimeType DEF IsCore
  <2>4. Active(next.tl, LeaderTime(next, n)) \in Segment
    BY <2>3, HeldActive
  <2>5. At(Active(next.tl, LeaderTime(next, n)), LeaderTime(next, n)) \in Int
    BY <2>3, <2>4 DEF At, Segment
  <2> QED
    BY <1>5, <1>9, <2>1, <2>5, PositionType DEF ErrorOf
<1> DEFINE base(run) == IF c.event = "HardResync" \/ run * Direction(error) < 0
                          THEN 0 ELSE run
           continued(run) == IF Magnitude(error) > THRESHOLD
                               THEN base(run) + Direction(error) ELSE 0
           after(run) == IF r.event = "Discontinuity" THEN 0
                         ELSE IF m.accepted /\ c.expected # NONE /\ c.locked
                           THEN continued(run) ELSE run
<1>12. streak' = after(streak) /\ applied' = after(applied)
  BY <1>2, <1>3, <1>10 DEF MeasurementCall, AfterMeasurement, Counts, Continued
<1>13. streak' \in Int /\ applied' \in Int
  <2>1. Direction(error) \in Int
    BY DEF Direction
  <2> QED
    BY <1>1, <1>12, <2>1
<1> HIDE DEF after
<1>14. ASSUME /\ r.sampled # 0 => r.sync # "Uninitialized"
              /\ Backed(r, streak')
              /\ ~r.locked \/ r.event = "HardResync" => r.large = 0
       PROVE  FollowerInv'
  <2>1. IsCore(core') /\ TypeOK'
    BY <1>1, <1>3, <1>6, <1>13 DEF TypeOK
  <2>2. SyncInv'
    BY <1>3, <1>14 DEF SyncInv, Initialized
  <2>3. CountInv'
    BY <1>3, <1>14 DEF CountInv
  <2> QED
    BY <2>1, <2>2, <2>3 DEF FollowerInv
<1>15. c.sampled # 0 => c.sync # "Uninitialized"
  BY <1>2, <1>7 DEF SyncInv, Initialized
<1>16. CASE ~(m.accepted /\ c.expected # NONE) /\ Ignored(c, r)
  <2>1. streak' = streak
    BY <1>12, <1>16 DEF Ignored, after
  <2>2. FollowerInv'
    BY <1>7, <1>14, <1>15, <1>16, <2>1 DEF Ignored, Backed
  <2>3. r.tl = c.tl /\ r.event = "None"
    BY <1>16 DEF Ignored
  <2> QED
    BY <1>2, <1>3, <2>2, <2>3
<1>17. CASE m.accepted /\ c.expected # NONE /\ Accepted(c, m, r, n)
  <2>1. /\ r.tl = c.tl /\ r.sampled = n /\ r.sync # "Uninitialized"
        /\ ~r.locked => ~c.locked
    BY <1>17 DEF Accepted
  <2>2. CASE ~c.locked /\ r.event = "HardResync" /\ r.large = c.large
    <3>1. streak' = streak /\ r.large = 0
      BY <1>7, <1>12, <2>2 DEF after
    <3>2. FollowerInv'
      BY <1>1, <1>8, <1>14, <2>1, <3>1 DEF Backed, Magnitude
    <3> QED
      BY <1>2, <1>3, <2>1, <2>2, <3>2
  <2>3. CASE c.locked /\ r.event = "Discontinuity" /\ r.large = 0
    <3>1. streak' = 0
      BY <1>12, <2>3 DEF after
    <3>2. FollowerInv'
      BY <1>8, <1>14, <2>1, <2>3, <3>1 DEF Backed, Magnitude
    <3> QED
      BY <1>2, <1>3, <2>1, <2>3, <3>2
  <2>4. CASE /\ c.locked /\ Corrected(c, r, Position(c, n), n, TRUE)
             /\ ErrorOf(r, Position(c, n), n) = ErrorOf(Remapped(c, m, n), Position(c, n), n)
    <3>1. Position(c, n) \in Int /\ error = ErrorOf(r, Position(c, n), n)
      BY <1>5, <1>9, <2>4, PositionType
    <3>2. PICK next : next = continued(streak)
      OBVIOUS
    <3>3. /\ r.event \in {"Slew", "HardResync"}
          /\ Backed(r, next)
          /\ r.event = "HardResync" => r.large = 0 /\ Magnitude(next) >= CONFIRMATIONS
      <4>1. next = Extended(c, streak, error)
        BY <3>2 DEF Extended
      <4> HIDE DEF continued, base
      <4> QED
        BY <1>1, <1>5, <1>6, <1>7, <1>11, <2>4, <3>1, <4>1, MeasurementCounts
    <3>4. streak' = next
      BY <1>12, <1>17, <2>4, <3>2, <3>3 DEF after
    <3>5. FollowerInv'
      BY <1>14, <2>1, <2>4, <3>3, <3>4
    <3>6. r.event = "Slew" => Position(r, n) = Position(c, n)
      BY <1>5, <1>6, <2>1, <2>4, SlewPreserves
    <3> QED
      BY <1>2, <1>3, <1>4, <2>1, <3>3, <3>4, <3>5, <3>6
  <2> QED
    BY <1>17, <2>2, <2>3, <2>4 DEF Accepted
<1> QED
  BY <1>6, <1>16, <1>17

-----------------------------------------------------------------------------
(* Under any sequence of calls the core's fields keep their types, what    *)
(* was measured can be evaluated, and the core's count of large errors is  *)
(* backed by that many measurements in one direction.                      *)
THEOREM FollowerInductive == Spec => []FollowerInv
<1>1. Init => FollowerInv
  BY FollowerInitial
<1>2. FollowerInv /\ [Next]_vars => FollowerInv'
  <2>1. SUFFICES ASSUME FollowerInv, [Next]_vars PROVE FollowerInv'
    OBVIOUS
  <2>2. CASE Connect
    BY <2>1, <2>2, ConnectKeeps
  <2>3. CASE Disconnect
    BY <2>1, <2>3, DisconnectKeeps
  <2>4. ASSUME NEW t \in SNAPSHOTS, StateCall(t) PROVE FollowerInv'
    BY <2>1, <2>4, StateKeeps
  <2>5. ASSUME NEW m \in MEASUREMENTS, MeasurementCall(m) PROVE FollowerInv'
    BY <2>1, <2>5, MeasurementKeeps
  <2>6. CASE TickCall
    BY <2>1, <2>6, TickKeeps
  <2>7. CASE Elapse
    BY <2>1, <2>7, ElapseKeeps
  <2>8. CASE UNCHANGED vars
    BY <2>1, <2>8
       DEF FollowerInv, TypeOK, SyncInv, CountInv, Backed, Initialized, vars
  <2> QED
    BY <2>1, <2>2, <2>3, <2>4, <2>5, <2>6, <2>7, <2>8 DEF Next
<1> QED
  BY <1>1, <1>2, PTL DEF Spec

(* FollowerCore::correct: a slew leaves what readers see at that instant   *)
(* where it was, whether it takes up a measurement or a snapshot.          *)
THEOREM FollowerSlewIsContinuous == Spec => SlewIsContinuous
<1> DEFINE Step == (core'.event = "Slew" /\ local' = local /\ core' # core)
                     => Position(core', local) = Position(core, local)
<1>1. FollowerInv /\ [Next]_vars => [Step]_vars
  <2>1. SUFFICES ASSUME FollowerInv, Next PROVE Step
    OBVIOUS
  <2>2. CASE Connect
    BY <2>1, <2>2, ConnectKeeps
  <2>3. CASE Disconnect
    BY <2>1, <2>3, DisconnectKeeps
  <2>4. ASSUME NEW t \in SNAPSHOTS, StateCall(t) PROVE Step
    BY <2>1, <2>4, StateKeeps
  <2>5. ASSUME NEW m \in MEASUREMENTS, MeasurementCall(m) PROVE Step
    BY <2>1, <2>5, MeasurementKeeps
  <2>6. CASE TickCall
    BY <2>1, <2>6, TickKeeps
  <2>7. CASE Elapse
    BY <2>7 DEF Elapse
  <2> QED
    BY <2>1, <2>2, <2>3, <2>4, <2>5, <2>6, <2>7 DEF Next
<1> QED
  BY <1>1, FollowerInductive, PTL DEF Spec, SlewIsContinuous

(* FollowerCore::state: a newer snapshot of the session never takes        *)
(* readers back across a change they have seen applied.                    *)
THEOREM FollowerSnapshotNeverRollsBack == Spec => SnapshotNeverRollsBack
<1> DEFINE Step ==
      (local' = local /\ core'.tl.rev > core.tl.rev /\ core'.tl.session = core.tl.session)
        => Playing(core, local).disc <= Playing(core', local).disc
<1>1. FollowerInv /\ [Next]_vars => [Step]_vars
  <2>1. SUFFICES ASSUME FollowerInv, Next PROVE Step
    OBVIOUS
  <2>2. core.tl.rev \in Nat
    BY <2>1 DEF FollowerInv, TypeOK, IsCore, HeldTimelines
  <2>3. CASE core'.tl.rev = core.tl.rev
    BY <2>2, <2>3
  <2>4. ASSUME NEW t \in SNAPSHOTS, StateCall(t) PROVE Step
    BY <2>1, <2>4, StateKeeps
  <2>5. CASE Connect
    BY <2>1, <2>3, <2>5, ConnectKeeps
  <2>6. CASE Disconnect
    BY <2>1, <2>3, <2>6, DisconnectKeeps
  <2>7. ASSUME NEW m \in MEASUREMENTS, MeasurementCall(m) PROVE Step
    BY <2>1, <2>3, <2>7, MeasurementKeeps
  <2>8. CASE TickCall
    BY <2>1, <2>3, <2>8, TickKeeps
  <2>9. CASE Elapse
    BY <2>3, <2>9 DEF Elapse
  <2> QED
    BY <2>1, <2>4, <2>5, <2>6, <2>7, <2>8, <2>9 DEF Next
<1> QED
  BY <1>1, FollowerInductive, PTL DEF Spec, SnapshotNeverRollsBack

(* FollowerCore::correct: once locked, output is moved by a measurement    *)
(* only after enough of them in a row found it far off in one direction,   *)
(* whatever snapshots, reconnects and reported changes came between.       *)
THEOREM FollowerHardResyncConfirmed == Spec => HardResyncConfirmed
<1> DEFINE Step == (core'.event = "HardResync" /\ core' # core /\ core.locked)
                     => Magnitude(streak') >= CONFIRMATIONS
<1>1. FollowerInv /\ [Next]_vars => [Step]_vars
  <2>1. SUFFICES ASSUME FollowerInv, Next PROVE Step
    OBVIOUS
  <2>2. CASE Connect
    BY <2>1, <2>2, ConnectKeeps
  <2>3. CASE Disconnect
    BY <2>1, <2>3, DisconnectKeeps
  <2>4. ASSUME NEW t \in SNAPSHOTS, StateCall(t) PROVE Step
    BY <2>1, <2>4, StateKeeps
  <2>5. ASSUME NEW m \in MEASUREMENTS, MeasurementCall(m) PROVE Step
    BY <2>1, <2>5, MeasurementKeeps
  <2>6. CASE TickCall
    BY <2>1, <2>6, TickKeeps
  <2>7. CASE Elapse
    BY <2>7 DEF Elapse
  <2> QED
    BY <2>1, <2>2, <2>3, <2>4, <2>5, <2>6, <2>7 DEF Next
<1> QED
  BY <1>1, FollowerInductive, PTL DEF Spec, HardResyncConfirmed

-----------------------------------------------------------------------------
(* A tick is long enough for an output that moves to move by two units, as *)
(* any two instants at which it is rendered are.  At one unit the integer  *)
(* quotients of a slew could use the whole motion up.                      *)
Rated == \A t \in SNAPSHOTS : \A s \in Segments(t) : s.rate \notin {1, -1}

RateInv == \A s \in Segments(core.tl) : s.rate \notin {1, -1}

(* No call makes segments: what is played is what a snapshot brought.      *)
LEMMA RatesKept ==
  ASSUME Rated, FollowerInv, RateInv, [Next]_vars
  PROVE  RateInv'
<1>1. IsCore(core) /\ local \in Nat /\ core.tl \in HeldTimelines
  BY DEF FollowerInv, TypeOK, IsCore
<1>2. CASE core'.tl = core.tl
  BY <1>2 DEF RateInv
<1>3. ASSUME NEW tl \in HeldTimelines, NEW k \in 0..Len(tl.sched),
             core'.tl = AdvanceTo(tl, k), \A s \in Segments(tl) : s.rate \notin {1, -1}
      PROVE  RateInv'
  <2>1. Segments(core'.tl) \subseteq Segments(tl)
    BY <1>3, FewerSegments
  <2> QED
    BY <1>3, <2>1 DEF RateInv
<1>4. ASSUME NEW t \in SNAPSHOTS, StateCall(t) PROVE RateInv'
  <2>1. t \in Timelines /\ Ascending(t) /\ t \in HeldTimelines
    BY GivenSnapshots, SnapshotType
  <2>2. PICK r : r = core'
    OBVIOUS
  <2>3. r = State(core, t, local)
    BY <1>4, <2>2 DEF StateCall
  <2>4. Ignored(core, r) \/ Begun(core, t, r) \/ Revised(core, t, r, local)
    BY <1>1, <2>1, <2>3, StateOutcome
  <2>5. CASE r.tl = core.tl
    BY <1>2, <2>2, <2>5
  <2>6. CASE r.tl = t
    BY <2>2, <2>6 DEF Rated, RateInv
  <2>7. CASE r.tl = Advanced(core, t, local)
    <3>1. PICK k \in 0..Len(t.sched) : r.tl = AdvanceTo(t, k)
      BY <1>1, <2>1, <2>7, AdvancedType
    <3>2. \A s \in Segments(t) : s.rate \notin {1, -1}
      BY DEF Rated
    <3>3. core'.tl = AdvanceTo(t, k) /\ t \in HeldTimelines
      BY <2>1, <2>2, <3>1
    <3> QED
      BY <1>3, <3>2, <3>3
  <2> QED
    BY <2>4, <2>5, <2>6, <2>7 DEF Ignored, Begun, Revised
<1>5. ASSUME NEW m \in MEASUREMENTS, MeasurementCall(m) PROVE RateInv'
  <2>1. PICK r : r = core'
    OBVIOUS
  <2>2. r = Measure(core, m, local) /\ m \in Measurements
    BY <1>5, <2>1, FollowerAssumption DEF MeasurementCall
  <2>3. Ignored(core, r) \/ Accepted(core, m, r, local)
    BY <1>1, <2>2, MeasureOutcome
  <2> QED
    BY <1>2, <2>1, <2>3 DEF Ignored, Accepted
<1>6. CASE TickCall
  <2>1. PICK r : r = core'
    OBVIOUS
  <2>2. r = TickCore(core, local)
    BY <1>6, <2>1 DEF TickCall
  <2>3. PICK k \in 0..Len(core.tl.sched) : r.tl = AdvanceTo(core.tl, k)
    <3>1. TickedTo(core, r)
      BY <1>1, <2>2, TickOutcome
    <3> QED
      BY <3>1 DEF TickedTo
  <2> QED
    BY <1>1, <1>3, <2>1, <2>3 DEF RateInv
<1>7. CASE Connect
  BY <1>2, <1>7, ConnectKeeps
<1>8. CASE Disconnect
  BY <1>2, <1>8, DisconnectKeeps
<1>9. CASE Elapse \/ UNCHANGED vars
  BY <1>2, <1>9 DEF Elapse, vars
<1> QED
  BY <1>4, <1>5, <1>6, <1>7, <1>8, <1>9 DEF Next

(* View::evaluate: while no call intervenes and no change comes into       *)
(* effect, output moves in the direction of playback and a paused output   *)
(* stands still, however large the correction that is being worked off.    *)
THEOREM FollowerNeverBackwards ==
  ASSUME Rated
  PROVE  Spec => NeverBackwards
<1> DEFINE Step ==
      LET was  == Playing(core, local)
          step == Position(core, local') - Position(core, local)
      IN  (local' # local /\ Initialized(core) /\ Playing(core, local') = was
             /\ EvaluatedAt(core, local) < EvaluatedAt(core, local'))
            => /\ was.rate = 0 => step = 0
               /\ was.rate > 0 => step > 0
               /\ was.rate < 0 => step < 0
<1>1. Init => RateInv
  <2>1. SUFFICES ASSUME Init PROVE RateInv
    OBVIOUS
  <2>2. core.tl = FallbackTimeline
    BY <2>1 DEF Init, NewCore
  <2>3. Segments(FallbackTimeline) = {FallbackTimeline.cur} /\ FallbackTimeline.cur.rate = 0
    BY DEF Segments, FallbackTimeline
  <2> QED
    BY <2>2, <2>3 DEF RateInv
<1>2. FollowerInv /\ RateInv /\ [Next]_vars => RateInv'
  BY RatesKept
<1>3. FollowerInv /\ RateInv /\ [Next]_vars => [Step]_vars
  <2>1. SUFFICES ASSUME FollowerInv, RateInv, Next, local' # local, Initialized(core),
                        Playing(core, local') = Playing(core, local),
                        EvaluatedAt(core, local) < EvaluatedAt(core, local')
                 PROVE  Onwards(Playing(core, local).rate,
                                Position(core, local') - Position(core, local))
    BY DEF Onwards
  <2>2. local' = local + 1
    BY <2>1 DEF Next, Connect, Disconnect, StateCall, MeasurementCall, TickCall, Call, Elapse
  <2>3. IsCore(core) /\ local \in Nat
    BY <2>1 DEF FollowerInv, TypeOK
  <2>4. PICK n : n = local
    OBVIOUS
  <2>5. PICK seg : seg = Playing(core, n)
    OBVIOUS
  <2>6. seg.rate \notin {1, -1}
    BY <2>1, <2>3, <2>4, <2>5, EvaluatedType DEF RateInv
  <2>7. Onwards(seg.rate, Position(core, n + 1) - Position(core, n))
    BY <2>1, <2>2, <2>3, <2>4, <2>5, <2>6, MotionStep
  <2> QED
    BY <2>2, <2>4, <2>5, <2>7
<1> QED
  BY <1>1, <1>2, <1>3, FollowerInductive, PTL DEF Spec, NeverBackwards
=============================================================================
