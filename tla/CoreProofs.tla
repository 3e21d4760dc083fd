----------------------------- MODULE CoreProofs -----------------------------
(***************************************************************************)
(* What the operators of FollowerCore return: lemmas for the proofs about  *)
(* a follower alone and about one that follows a leader.                   *)
(***************************************************************************)
EXTENDS FollowerCore, TimelineProofs

(* A timeline of a session, or the fallback, which has none.               *)
HeldTimelines ==
  [session : SESSIONS \cup {NONE}, part : PARTS \cup {NONE}, rev : Nat,
   format : FORMATS \cup {NONE}, health : HEALTH, cur : Segment, sched : Seq(Segment)]

Fields ==
  {"conn", "sync", "tl", "offset", "unc", "sampled", "corr", "corrAt", "corrDisc",
   "recovering", "gen", "large", "sign", "locked", "expected", "reported", "event"}

IsCore(c) ==
  /\ DOMAIN c = Fields
  /\ c.conn \in {"Disconnected", "Connected"}
  /\ c.sync \in {"Uninitialized", "Acquiring", "Synchronized", "Holdover"}
  /\ c.tl \in HeldTimelines /\ c.offset \in Int /\ c.unc \in Nat /\ c.sampled \in Nat
  /\ c.corr \in Int /\ c.corrAt \in Nat /\ c.corrDisc \in Nat
  /\ c.recovering \in BOOLEAN /\ c.gen \in Nat /\ c.locked \in BOOLEAN
  /\ c.large \in Nat /\ c.sign \in {-1, 0, 1}
  /\ c.expected \in SESSIONS \cup {NONE}
  /\ c.reported \in {NONE} \cup ((SESSIONS \cup {NONE}) \X Nat)
  /\ c.event \in {"None", "NewSession", "Discontinuity", "Slew", "HardResync"}

(* A follower begins with the fallback timeline and no session.            *)
LEMMA NewCoreType == IsCore(NewCore)
<1>1. PICK c : c = NewCore
  OBVIOUS
<1>2. FallbackTimeline \in HeldTimelines
  <2>1. FALLBACK \in Int
    BY FollowerCoreAssumption
  <2>2. FallbackTimeline.cur \in Segment /\ <<>> \in Seq(Segment)
    BY <2>1 DEF FallbackTimeline, Segment
  <2> QED
    BY <2>1, <2>2 DEF FallbackTimeline, HeldTimelines, Segment, HEALTH
<1>3. /\ DOMAIN c = Fields /\ c.tl = FallbackTimeline
      /\ c.conn = "Disconnected" /\ c.sync = "Uninitialized" /\ c.offset = 0
      /\ c.unc = 0 /\ c.sampled = 0 /\ c.corr = 0 /\ c.corrAt = 0
      /\ c.corrDisc = 0 /\ c.recovering = FALSE /\ c.gen = 0 /\ c.large = 0
      /\ c.sign = 0 /\ c.locked = FALSE /\ c.expected = NONE
      /\ c.reported = NONE /\ c.event = "None"
  BY <1>1 DEF NewCore, Fields
<1>4. c.recovering \in BOOLEAN /\ c.locked \in BOOLEAN
  BY <1>3
<1>5. IsCore(c)
  BY <1>2, <1>3, <1>4 DEF IsCore
<1> QED
  BY <1>1, <1>5

-----------------------------------------------------------------------------
LEMMA MaxPair ==
  ASSUME NEW a \in Int, NEW b \in Int
  PROVE  Max({a, b}) = IF a >= b THEN a ELSE b
<1>1. /\ Max({a, b}) \in {a, b}
      /\ \A x \in {a, b} : Max({a, b}) >= x
  <2>1. \E x \in {a, b} : \A y \in {a, b} : x >= y
    OBVIOUS
  <2> QED
    BY <2>1 DEF Max
<1> QED
  BY <1>1

LEMMA MinPair ==
  ASSUME NEW a \in Int, NEW b \in Int
  PROVE  Min({a, b}) = IF a <= b THEN a ELSE b
<1>1. /\ Min({a, b}) \in {a, b}
      /\ \A x \in {a, b} : Min({a, b}) <= x
  <2>1. \E x \in {a, b} : \A y \in {a, b} : x <= y
    OBVIOUS
  <2> QED
    BY <2>1 DEF Min
<1> QED
  BY <1>1

(* What a timeline plays is one of its segments.                           *)
LEMMA HeldActive ==
  ASSUME NEW tl \in HeldTimelines, NEW t \in Int
  PROVE  /\ Active(tl, t) \in Segments(tl)
         /\ Active(tl, t) \in Segment
<1>1. CASE DueAt(tl, t) = {}
  BY <1>1 DEF Active, Segments, HeldTimelines
<1>2. CASE DueAt(tl, t) # {}
  <2>1. Len(tl.sched) \in Nat /\ DueAt(tl, t) \subseteq 1..Len(tl.sched)
    BY DEF DueAt, HeldTimelines
  <2>2. DueAt(tl, t) \in SUBSET (0..Len(tl.sched))
    BY <2>1
  <2>3. Max(DueAt(tl, t)) \in 1..Len(tl.sched)
    BY <1>2, <2>1, <2>2, MaxBounded
  <2> QED
    BY <1>2, <2>3 DEF Active, Segments, HeldTimelines
<1> QED
  BY <1>1, <1>2

LEMMA LeaderTimeType ==
  ASSUME NEW c, IsCore(c), NEW n \in Nat
  PROVE  LeaderTime(c, n) \in Nat
BY MaxPair DEF LeaderTime, IsCore

LEMMA EvaluatedType ==
  ASSUME NEW c, IsCore(c), NEW n \in Nat
  PROVE  /\ EvaluatedAt(c, n) \in Nat
         /\ Playing(c, n) \in Segments(c.tl)
         /\ Playing(c, n) \in Segment
<1>1. EvaluatedAt(c, n) \in Nat
  BY LeaderTimeType DEF EvaluatedAt, IsCore, HeldTimelines, Segment
<1>2. c.tl \in HeldTimelines
  BY DEF IsCore
<1> QED
  BY <1>1, <1>2, HeldActive DEF Playing

LEMMA RemainingType ==
  ASSUME NEW c, IsCore(c), NEW n \in Nat
  PROVE  Remaining(c, n) \in Int
<1> DEFINE seg == Playing(c, n)
           elapsed == Max({0, n - c.corrAt})
<1>1. seg.rate \in Int /\ seg.disc \in Nat
  BY EvaluatedType DEF Segment
<1>2. elapsed \in Nat
  BY MaxPair DEF IsCore
<1>3. Magnitude(c.corr) \in Nat /\ Magnitude(seg.rate) \in Nat /\ Direction(c.corr) \in Int
  BY <1>1 DEF Magnitude, Direction, IsCore
<1>4. Slewed(c, elapsed, seg.rate) \in Int
  <2> HIDE DEF seg, elapsed
  <2>1. SETTLE \in Nat \ {0}
    BY FollowerCoreAssumption
  <2>2. Magnitude(c.corr) * elapsed \in Nat /\ Magnitude(seg.rate) * elapsed \in Nat
    BY <1>2, <1>3
  <2>3. /\ (Magnitude(c.corr) * elapsed) \div SETTLE \in Int
        /\ (Magnitude(seg.rate) * elapsed) \div 10 \in Int
    BY <2>1, <2>2
  <2> QED
    BY <2>3, MinPair DEF Slewed
<1>5. Max({0, Magnitude(c.corr) - Slewed(c, elapsed, seg.rate)}) \in Int
  <2> HIDE DEF seg, elapsed
  <2>1. Magnitude(c.corr) - Slewed(c, elapsed, seg.rate) \in Int
    BY <1>3, <1>4
  <2>2. ASSUME NEW x \in Int PROVE Max({0, x}) \in Int
    BY MaxPair
  <2> QED
    BY <2>1, <2>2
<1> QED
  BY <1>3, <1>5 DEF Remaining

LEMMA PositionType ==
  ASSUME NEW c, IsCore(c), NEW n \in Nat
  PROVE  Position(c, n) \in Int
<1>1. /\ Playing(c, n).pos \in Int /\ Playing(c, n).time \in Nat
      /\ Playing(c, n).rate \in Int /\ EvaluatedAt(c, n) \in Nat
  BY EvaluatedType DEF Segment
<1>2. At(Playing(c, n), EvaluatedAt(c, n)) \in Int
  BY <1>1 DEF At
<1> QED
  BY <1>2, RemainingType, FollowerCoreAssumption DEF Position

(* The correction that keeps a reading where it was does so.               *)
LEMMA CorrectionIsInvisible ==
  ASSUME NEW c, IsCore(c), NEW n \in Nat,
         Initialized(c), c.sync # "Uninitialized", c.corrAt = n,
         c.corrDisc = Playing(c, n).disc
  PROVE  Position(c, n) = At(Playing(c, n), LeaderTime(c, n)) + c.corr
<1>1. EvaluatedAt(c, n) = LeaderTime(c, n)
  BY DEF EvaluatedAt
<1>2. Max({0, n - c.corrAt}) = 0
  BY MaxPair
<1> DEFINE rate == Playing(c, n).rate
<1>3. rate \in Int
  BY EvaluatedType DEF Segment
<1>4. Magnitude(c.corr) \in Nat /\ Magnitude(rate) \in Nat
  BY <1>3 DEF Magnitude, IsCore
<1>5. Slewed(c, 0, rate) = 0
  <2> HIDE DEF rate
  <2>1. Magnitude(c.corr) * 0 = 0 /\ Magnitude(rate) * 0 = 0
    BY <1>4
  <2>2. 0 \div SETTLE = 0 /\ 0 \div 10 = 0
    BY FollowerCoreAssumption
  <2> QED
    BY <2>1, <2>2, MinPair DEF Slewed
<1>6. Max({0, Magnitude(c.corr) - 0}) = Magnitude(c.corr)
  BY <1>4, MaxPair
<1>7. Remaining(c, n) = Direction(c.corr) * Magnitude(c.corr)
  BY <1>2, <1>5, <1>4, <1>6 DEF Remaining
<1>8. Direction(c.corr) * Magnitude(c.corr) = c.corr
  BY DEF Direction, Magnitude, IsCore
<1> QED
  BY <1>1, <1>7, <1>8 DEF Position

LEMMA HeldAdvance ==
  ASSUME NEW tl \in HeldTimelines, NEW n \in 0..Len(tl.sched)
  PROVE  /\ AdvanceTo(tl, n) \in HeldTimelines
         /\ AdvanceTo(tl, n).rev = tl.rev /\ AdvanceTo(tl, n).session = tl.session
<1>1. CASE n = 0
  BY <1>1 DEF AdvanceTo, HeldTimelines
<1>2. CASE n # 0
  <2> DEFINE rest == SubSeq(tl.sched, n + 1, Len(tl.sched))
  <2>1. tl.sched \in Seq(Segment) /\ Len(tl.sched) \in Nat /\ n \in 1..Len(tl.sched)
    BY <1>2 DEF HeldTimelines
  <2>2. rest \in Seq(Segment) /\ tl.sched[n] \in Segment
    BY <2>1
  <2>3. AdvanceTo(tl, n) = [tl EXCEPT !.cur = tl.sched[n], !.sched = rest]
    BY <1>2 DEF AdvanceTo
  <2> HIDE DEF rest
  <2> QED
    BY <2>2, <2>3 DEF HeldTimelines
<1> QED
  BY <1>1, <1>2

(* Latching is advancing by some number of leading changes.                *)
LEMMA LatchRun ==
  ASSUME NEW tl \in HeldTimelines, NEW disc
  PROVE  \E n \in 0..Len(tl.sched) : Latch(tl, disc) = AdvanceTo(tl, n)
<1> DEFINE Run == {n \in 0..Len(tl.sched) : \A i \in 1..n : tl.sched[i].disc <= disc}
<1>1. Len(tl.sched) \in Nat
  BY DEF HeldTimelines
<1>2. Run \in SUBSET (0..Len(tl.sched)) /\ 0 \in Run
  BY <1>1
<1>3. Max(Run) \in Run
  <2> HIDE DEF Run
  <2> QED
    BY <1>1, <1>2, MaxBounded
<1>4. Latch(tl, disc) = AdvanceTo(tl, Max(Run))
  BY DEF Latch
<1> HIDE DEF Run
<1> QED
  BY <1>2, <1>3, <1>4

-----------------------------------------------------------------------------
(* FollowerCore::correct: what it finds, counts and leaves.                *)
ErrorOf(c, before, n) == before - At(Active(c.tl, LeaderTime(c, n)), LeaderTime(c, n))

CountOf(c, error, measured) ==
  IF Magnitude(error) > THRESHOLD
    THEN (IF Direction(error) = c.sign THEN c.large ELSE 0) + (IF measured THEN 1 ELSE 0)
    ELSE 0

(* What neither a correction nor a reported change touches.                *)
SameView(c, r) ==
  /\ r.tl = c.tl /\ r.offset = c.offset /\ r.unc = c.unc /\ r.sync = c.sync
  /\ r.sampled = c.sampled /\ r.locked = c.locked /\ r.expected = c.expected

LEMMA SameError ==
  ASSUME NEW c, NEW r, SameView(c, r), NEW before, NEW n
  PROVE  ErrorOf(r, before, n) = ErrorOf(c, before, n)
BY DEF SameView, ErrorOf, LeaderTime

(* r is c after a correction that preserved the reading before.            *)
Corrected(c, r, before, n, measured) ==
  LET error == ErrorOf(r, before, n)
      count == CountOf(c, error, measured)
  IN  IF count >= CONFIRMATIONS
        THEN r.event = "HardResync" /\ r.large = 0
        ELSE /\ r.event = "Slew" /\ r.corr = error /\ r.corrAt = n
             /\ r.corrDisc = Active(r.tl, LeaderTime(r, n)).disc
             /\ r.large = count
             /\ r.large > 0 => r.sign = Direction(error)

LEMMA CorrectOutcome ==
  ASSUME NEW c, IsCore(c), NEW before \in Int, NEW n \in Nat, NEW measured \in BOOLEAN,
         NEW r, r = Correct(c, before, n, measured)
  PROVE  IsCore(r) /\ SameView(c, r) /\ Corrected(c, r, before, n, measured)
<1>0. PICK error : error = ErrorOf(c, before, n)
  OBVIOUS
<1> DEFINE at == LeaderTime(c, n)
           seg == Active(c.tl, at)
           isBig == Magnitude(error) > THRESHOLD
           sign == IF isBig THEN Direction(error) ELSE c.sign
           large == (IF isBig /\ sign = c.sign THEN c.large ELSE 0)
                      + (IF isBig /\ measured THEN 1 ELSE 0)
<1>1. at \in Nat /\ seg \in Segment
  BY LeaderTimeType, HeldActive DEF IsCore
<1>2. error \in Int
  <2>1. seg.pos \in Int /\ seg.time \in Int /\ seg.rate \in Int
    BY <1>1 DEF Segment
  <2>2. At(seg, at) \in Int
    <3> HIDE DEF seg, at
    <3> QED
      BY <1>1, <2>1 DEF At
  <2> QED
    BY <1>0, <2>2 DEF ErrorOf
<1>3. /\ Magnitude(error) \in Nat /\ Direction(error) \in {-1, 1}
      /\ THRESHOLD \in Nat /\ CONFIRMATIONS \in Nat \ {0}
  BY <1>2, FollowerCoreAssumption DEF Magnitude, Direction
<1>4. c.large \in Nat /\ c.sign \in {-1, 0, 1} /\ c.gen \in Nat
  BY DEF IsCore
<1>5. /\ large = CountOf(c, error, measured) /\ large \in Nat
      /\ isBig /\ large >= CONFIRMATIONS <=> large >= CONFIRMATIONS
      /\ sign \in {-1, 0, 1}
      /\ large > 0 => sign = Direction(error)
  BY <1>3, <1>4 DEF CountOf
<1>6. r = IF isBig /\ large >= CONFIRMATIONS
            THEN [c EXCEPT !.large = 0, !.sign = sign, !.corr = 0, !.gen = @ + 1,
                           !.event = "HardResync"]
            ELSE [c EXCEPT !.large = large, !.sign = sign, !.corr = error,
                           !.corrAt = n, !.corrDisc = seg.disc, !.event = "Slew"]
  BY <1>0 DEF Correct, ErrorOf
<1>7. seg.disc \in Nat
  BY <1>1 DEF Segment
<1> HIDE DEF at, seg, isBig, sign, large
<1>8. CASE large >= CONFIRMATIONS
  <2>1. r = [c EXCEPT !.large = 0, !.sign = sign, !.corr = 0, !.gen = @ + 1,
                      !.event = "HardResync"]
    BY <1>5, <1>6, <1>8
  <2>2. IsCore(r) /\ SameView(c, r) /\ r.event = "HardResync" /\ r.large = 0
    <3>1. DOMAIN c = Fields /\ DOMAIN r = Fields
      BY <2>1 DEF IsCore
    <3>2. /\ r.gen = c.gen + 1 /\ r.large = 0 /\ r.sign = sign /\ r.corr = 0
          /\ r.event = "HardResync"
      BY <2>1, <3>1 DEF Fields
    <3>3. /\ SameView(c, r) /\ r.conn = c.conn /\ r.corrAt = c.corrAt
          /\ r.corrDisc = c.corrDisc /\ r.recovering = c.recovering
          /\ r.reported = c.reported
      BY <2>1, <3>1 DEF Fields, SameView
    <3> QED
      BY <1>4, <1>5, <3>1, <3>2, <3>3 DEF IsCore, SameView
  <2> QED
    BY <1>0, <1>5, <1>8, <2>2, SameError DEF Corrected
<1>9. CASE ~(large >= CONFIRMATIONS)
  <2>1. r = [c EXCEPT !.large = large, !.sign = sign, !.corr = error,
                      !.corrAt = n, !.corrDisc = seg.disc, !.event = "Slew"]
    BY <1>5, <1>6, <1>9
  <2>2. /\ IsCore(r) /\ SameView(c, r) /\ r.event = "Slew" /\ r.corr = error
        /\ r.corrAt = n /\ r.corrDisc = seg.disc /\ r.large = large /\ r.sign = sign
    <3>1. DOMAIN c = Fields /\ DOMAIN r = Fields
      BY <2>1 DEF IsCore
    <3>2. /\ r.event = "Slew" /\ r.corr = error
          /\ r.corrAt = n /\ r.corrDisc = seg.disc /\ r.large = large /\ r.sign = sign
      BY <2>1, <3>1 DEF Fields
    <3>3. /\ SameView(c, r) /\ r.conn = c.conn /\ r.gen = c.gen
          /\ r.recovering = c.recovering /\ r.reported = c.reported
      BY <2>1, <3>1 DEF Fields, SameView
    <3> QED
      BY <1>2, <1>5, <1>7, <3>1, <3>2, <3>3 DEF IsCore, SameView
  <2> QED
    <3>1. Active(c.tl, LeaderTime(c, n)) = seg
      BY DEF seg, at
    <3>2. r.large > 0 => r.sign = Direction(error)
      BY <1>5, <2>2
    <3>3. LeaderTime(r, n) = LeaderTime(c, n) /\ r.tl = c.tl
      BY <2>2 DEF SameView, LeaderTime
    <3> QED
      BY <1>0, <1>5, <1>9, <2>2, <3>1, <3>2, <3>3, SameError DEF Corrected
<1> QED
  BY <1>8, <1>9

LEMMA JumpedOutcome ==
  ASSUME NEW c, IsCore(c), NEW disc \in Nat, NEW r, r = Jumped(c, disc)
  PROVE  IsCore(r) /\ SameView(c, r) /\ r.large = 0 /\ r.event = "Discontinuity"
<1>1. <<c.tl.session, disc>> \in (SESSIONS \cup {NONE}) \X Nat
  BY DEF IsCore, HeldTimelines
<1> DEFINE key == <<c.tl.session, disc>>
<1>2. r = [c EXCEPT !.large = 0, !.sign = 0, !.corr = 0,
                    !.reported = key, !.event = "Discontinuity"]
  BY DEF Jumped
<1> HIDE DEF key
<1> QED
  BY <1>1, <1>2 DEF IsCore, Fields, SameView, key

-----------------------------------------------------------------------------
(* The outcomes of FollowerCore::state: nothing but the expected session   *)
(* changes, a session is adopted, or a revision of the one that is held.   *)
Ignored(c, r) ==
  /\ r.tl = c.tl /\ r.offset = c.offset /\ r.sync = c.sync /\ r.sampled = c.sampled
  /\ r.locked = c.locked /\ r.large = c.large /\ r.sign = c.sign /\ r.event = "None"

Begun(c, t, r) ==
  /\ c.tl.session # t.session /\ r.tl = t /\ r.expected = t.session /\ r.offset = 0
  /\ r.sampled = 0 /\ r.large = 0 /\ ~r.locked /\ r.event = "NewSession"

Revised(c, t, r, n) ==
  /\ c.tl.session = t.session /\ c.tl.rev < t.rev /\ r.expected = t.session
  /\ r.tl = Advanced(c, t, n) /\ Playing(c, n).disc <= r.tl.cur.disc
  /\ r.offset = c.offset /\ r.sync = c.sync /\ r.sampled = c.sampled /\ r.locked = c.locked
  /\ \/ r.event = "Discontinuity" /\ r.large = 0
     \/ Corrected(c, r, Position(c, n), n, FALSE)

LEMMA SnapshotType ==
  ASSUME NEW t \in Timelines
  PROVE  t \in HeldTimelines /\ t.session \in SESSIONS /\ t.session # NONE /\ t.rev \in Nat
BY NoneAssumption DEF Timelines, HeldTimelines

LEMMA AdvancedType ==
  ASSUME NEW c, IsCore(c), NEW t \in Timelines, Ascending(t), NEW n \in Nat
  PROVE  /\ \E k \in 0..Len(t.sched) : Advanced(c, t, n) = AdvanceTo(t, k)
         /\ Advanced(c, t, n) \in HeldTimelines
         /\ Advanced(c, t, n).rev = t.rev /\ Advanced(c, t, n).session = t.session
         /\ \A s \in Segments(Advanced(c, t, n)) : Advanced(c, t, n).cur.disc <= s.disc
<1>1. t \in HeldTimelines
  BY SnapshotType
<1>2. PICK k \in 0..Len(t.sched) : Advanced(c, t, n) = AdvanceTo(t, k)
  BY <1>1, LatchRun DEF Advanced
<1>3. PICK a : a = AdvanceTo(t, k)
  OBVIOUS
<1>4. a \in Timelines /\ Ascending(a) /\ a.rev = t.rev /\ a.session = t.session
  BY <1>3, AdvanceToShape, AdvancedSegments
<1> QED
  BY <1>2, <1>3, <1>4, SnapshotType, SegmentNumbers

(* The core once it took a timeline of a session.                          *)
Taking(c, tl, s) == [c EXCEPT !.tl = tl, !.expected = s]

LEMMA TakingCore ==
  ASSUME NEW c, IsCore(c), NEW tl \in HeldTimelines, NEW s \in SESSIONS, NEW r,
         r = Taking(c, tl, s)
  PROVE  /\ IsCore(r) /\ r.tl = tl /\ r.offset = c.offset /\ r.sync = c.sync
         /\ r.expected = s
         /\ r.sampled = c.sampled /\ r.locked = c.locked
         /\ r.large = c.large /\ r.sign = c.sign
<1>1. DOMAIN c = Fields /\ DOMAIN r = Fields
  BY DEF IsCore, Taking
<1>2. /\ r.tl = tl /\ r.offset = c.offset /\ r.sync = c.sync
      /\ r.sampled = c.sampled /\ r.locked = c.locked /\ r.large = c.large /\ r.sign = c.sign
      /\ r.expected = s
  BY <1>1 DEF Fields, Taking
<1>3. /\ r.conn = c.conn /\ r.unc = c.unc /\ r.corr = c.corr /\ r.corrAt = c.corrAt
      /\ r.corrDisc = c.corrDisc /\ r.recovering = c.recovering /\ r.gen = c.gen
      /\ r.reported = c.reported /\ r.event = c.event
  BY <1>1 DEF Fields, Taking
<1> QED
  BY <1>1, <1>2, <1>3 DEF IsCore

LEMMA RevisionOutcome ==
  ASSUME NEW c, IsCore(c), NEW t \in Timelines, Ascending(t), NEW n \in Nat,
         c.tl.session = t.session, c.tl.rev < t.rev, ~Regresses(c, t, n),
         NEW r, r = AdoptRevision(c, t, n)
  PROVE  IsCore(r) /\ Revised(c, t, r, n)
<1>1. PICK tl \in HeldTimelines : tl = Advanced(c, t, n)
  BY AdvancedType
<1>2. PICK next : next = Taking(c, tl, t.session)
  OBVIOUS
<1>3. /\ IsCore(next) /\ next.tl = tl /\ next.offset = c.offset /\ next.sync = c.sync
      /\ next.expected = t.session
      /\ next.sampled = c.sampled /\ next.locked = c.locked
      /\ next.large = c.large /\ next.sign = c.sign
  BY <1>2, SnapshotType, TakingCore
<1>4. PICK disc : disc = Active(next.tl, LeaderTime(next, n)).disc
  OBVIOUS
<1>5. disc \in Nat
  <2>1. next.tl \in HeldTimelines /\ LeaderTime(next, n) \in Int
    BY <1>3, LeaderTimeType DEF IsCore
  <2>2. Active(next.tl, LeaderTime(next, n)) \in Segment
    BY <2>1, HeldActive
  <2> QED
    BY <1>4, <2>2 DEF Segment
<1>6. r = IF disc # Playing(c, n).disc
            THEN Jumped(next, disc)
            ELSE Correct(next, Position(c, n), n, FALSE)
  BY <1>1, <1>2, <1>4 DEF AdoptRevision, Taking
<1>7. /\ Playing(c, n).disc \in Nat /\ tl.cur.disc \in Nat
      /\ Playing(c, n).disc <= tl.cur.disc
  <2>1. Playing(c, n).disc \in Nat /\ tl.cur.disc \in Nat
    BY EvaluatedType DEF Segment, HeldTimelines
  <2> QED
    BY <1>1, <2>1 DEF Regresses
<1>8. CASE disc # Playing(c, n).disc
  <2>1. r = Jumped(next, disc)
    BY <1>6, <1>8
  <2>2. IsCore(r) /\ SameView(next, r) /\ r.large = 0 /\ r.event = "Discontinuity"
    BY <1>3, <1>5, <2>1, JumpedOutcome
  <2> QED
    BY <1>1, <1>3, <1>7, <2>2 DEF Revised, SameView
<1>9. CASE disc = Playing(c, n).disc
  <2>1. r = Correct(next, Position(c, n), n, FALSE)
    BY <1>6, <1>9
  <2>2. /\ IsCore(r) /\ SameView(next, r)
        /\ Corrected(next, r, Position(c, n), n, FALSE)
    BY <1>3, <2>1, PositionType, CorrectOutcome
  <2>3. Corrected(c, r, Position(c, n), n, FALSE)
    BY <1>3, <2>2 DEF Corrected, CountOf
  <2> QED
    BY <1>1, <1>3, <1>7, <2>2, <2>3 DEF Revised, SameView
<1> QED
  BY <1>8, <1>9

LEMMA StateOutcome ==
  ASSUME NEW c, IsCore(c), NEW t \in Timelines, Ascending(t), NEW n \in Nat,
         NEW r, r = State(c, t, n)
  PROVE  /\ IsCore(r)
         /\ Ignored(c, r) \/ Begun(c, t, r) \/ Revised(c, t, r, n)
         /\ r.expected \in {c.expected, r.tl.session}
<1>1. t \in HeldTimelines /\ t.session \in SESSIONS /\ t.rev \in Nat /\ c.tl.rev \in Nat
  BY SnapshotType DEF IsCore, HeldTimelines
<1>2. CASE Foreign(c, t)
  <2>1. r = [c EXCEPT !.event = "None"]
    BY <1>2 DEF State
  <2> QED
    BY <2>1 DEF IsCore, Fields, Ignored
<1>3. CASE ~Foreign(c, t) /\ c.tl.session # t.session
  <2>1. r = AdoptSession(c, t)
    BY <1>3 DEF State
  <2>2. DOMAIN c = Fields /\ DOMAIN r = Fields
    BY <2>1 DEF IsCore, AdoptSession
  <2>3. /\ r.tl = t /\ r.expected = t.session /\ r.sync = "Acquiring" /\ r.offset = 0
        /\ r.unc = 0 /\ r.sampled = 0 /\ r.recovering = FALSE /\ r.large = 0 /\ r.sign = 0
        /\ r.locked = FALSE /\ r.corr = 0 /\ r.gen = c.gen + 1 /\ r.event = "NewSession"
    BY <2>1, <2>2, ZenonT(40) DEF Fields, AdoptSession
  <2>4. /\ r.conn = c.conn /\ r.corrAt = c.corrAt /\ r.corrDisc = c.corrDisc
        /\ r.reported = c.reported
    BY <2>1, <2>2, ZenonT(40) DEF Fields, AdoptSession
  <2>5. /\ c.conn \in {"Disconnected", "Connected"} /\ c.corrAt \in Nat /\ c.corrDisc \in Nat
        /\ c.gen \in Nat /\ c.reported \in {NONE} \cup ((SESSIONS \cup {NONE}) \X Nat)
    BY DEF IsCore
  <2>6. IsCore(r)
    <3>1. r.recovering \in BOOLEAN /\ r.locked \in BOOLEAN
      BY <2>3
    <3>2. r.sync \in {"Uninitialized", "Acquiring", "Synchronized", "Holdover"}
      BY <2>3
    <3>3. r.event \in {"None", "NewSession", "Discontinuity", "Slew", "HardResync"}
      BY <2>3
    <3>4. r.sign \in {-1, 0, 1} /\ r.large \in Nat /\ r.sampled \in Nat /\ r.unc \in Nat
          /\ r.offset \in Int /\ r.corr \in Int /\ r.gen \in Nat
      BY <2>3, <2>5
    <3> QED
      BY <1>1, <2>2, <2>3, <2>4, <2>5, <3>1, <3>2, <3>3, <3>4 DEF IsCore
  <2> QED
    BY <1>3, <2>3, <2>6 DEF Begun
<1>4. CASE ~Foreign(c, t) /\ c.tl.session = t.session /\ (t.rev <= c.tl.rev \/ Regresses(c, t, n))
  <2>1. r = [c EXCEPT !.expected = t.session, !.event = "None"]
    BY <1>4 DEF State
  <2>2. IsCore(r) /\ Ignored(c, r) /\ r.expected = c.tl.session
    BY <1>1, <1>4, <2>1 DEF IsCore, Fields, Ignored
  <2> QED
    BY <2>2 DEF Ignored
<1>5. CASE /\ ~Foreign(c, t) /\ c.tl.session = t.session
           /\ ~(t.rev <= c.tl.rev) /\ ~Regresses(c, t, n)
  <2>1. r = AdoptRevision(c, t, n)
    BY <1>5 DEF State
  <2>2. IsCore(r) /\ Revised(c, t, r, n)
    BY <1>1, <1>5, <2>1, RevisionOutcome
  <2>3. r.tl.session = t.session
    BY <2>2, AdvancedType DEF Revised
  <2> QED
    BY <2>2, <2>3 DEF Revised
<1> QED
  BY <1>2, <1>3, <1>4, <1>5

-----------------------------------------------------------------------------
(* The outcomes of FollowerCore::measurement_timed.                        *)
Accepted(c, m, r, n) ==
  /\ r.tl = c.tl /\ r.sampled = n /\ r.sync # "Uninitialized"
  /\ r.expected = c.expected /\ r.offset = m.offset
  /\ r.locked = (c.locked \/ m.converged)
  /\ \/ ~c.locked /\ r.event = "HardResync" /\ r.large = c.large
     \/ c.locked /\ r.event = "Discontinuity" /\ r.large = 0
     \/ /\ c.locked /\ Corrected(c, r, Position(c, n), n, TRUE)
        /\ ErrorOf(r, Position(c, n), n) = ErrorOf(Remapped(c, m, n), Position(c, n), n)

LEMMA RemappedCore ==
  ASSUME NEW c, IsCore(c), NEW m \in Measurements, NEW n \in Nat, NEW r, r = Remapped(c, m, n)
  PROVE  /\ IsCore(r) /\ r.tl = c.tl /\ r.sampled = n /\ r.sync # "Uninitialized"
         /\ r.expected = c.expected /\ r.offset = m.offset
         /\ r.locked = (c.locked \/ m.converged)
         /\ r.large = c.large /\ r.sign = c.sign
<1>1. DOMAIN c = Fields /\ DOMAIN r = Fields
  BY DEF IsCore, Remapped
<1>2. /\ m.recovering \in BOOLEAN /\ m.offset \in Int /\ m.unc \in Nat /\ m.converged \in BOOLEAN
  <2>1. m \in Measurements
    OBVIOUS
  <2>2. CASE m \in [accepted : {TRUE}, recovering : {FALSE}, offset : Int, unc : Nat,
                    converged : BOOLEAN]
    BY <2>2
  <2>3. CASE m \in [accepted : {FALSE}, recovering : BOOLEAN, offset : {0}, unc : {0},
                    converged : {FALSE}]
    <3>1. m.recovering \in BOOLEAN /\ m.offset \in Int /\ m.unc \in Nat
      BY <2>3
    <3>2. m.converged \in {FALSE}
      BY <2>3
    <3>3. m.converged \in BOOLEAN
      BY <3>2, Zenon
    <3> QED
      BY <3>1, <3>3
  <2> QED
    BY <2>1, <2>2, <2>3 DEF Measurements
<1>3. /\ r.recovering = m.recovering /\ r.offset = m.offset /\ r.unc = m.unc /\ r.sampled = n
      /\ r.sync = (IF m.converged THEN "Synchronized" ELSE "Acquiring")
      /\ r.locked = (c.locked \/ m.converged)
  BY <1>1 DEF Fields, Remapped
<1>4. /\ r.tl = c.tl /\ r.large = c.large /\ r.sign = c.sign /\ r.conn = c.conn
      /\ r.corr = c.corr /\ r.corrAt = c.corrAt /\ r.corrDisc = c.corrDisc
      /\ r.gen = c.gen /\ r.expected = c.expected /\ r.reported = c.reported
      /\ r.event = c.event
  BY <1>1 DEF Fields, Remapped
<1>5. /\ r.recovering \in BOOLEAN /\ r.locked \in BOOLEAN
      /\ r.sync \in {"Uninitialized", "Acquiring", "Synchronized", "Holdover"}
      /\ r.sync # "Uninitialized"
  BY <1>2, <1>3 DEF IsCore
<1>6. IsCore(r)
  BY <1>1, <1>2, <1>3, <1>4, <1>5 DEF IsCore
<1> QED
  BY <1>3, <1>4, <1>5, <1>6

LEMMA AcceptOutcome ==
  ASSUME NEW c, IsCore(c), NEW m \in Measurements, NEW n \in Nat,
         NEW r, r = AcceptMeasurement(c, m, n)
  PROVE  IsCore(r) /\ Accepted(c, m, r, n)
<1>1. PICK next : next = Remapped(c, m, n)
  OBVIOUS
<1>2. /\ IsCore(next) /\ next.tl = c.tl /\ next.sampled = n /\ next.sync # "Uninitialized"
      /\ next.expected = c.expected /\ next.offset = m.offset
      /\ next.locked = (c.locked \/ m.converged)
      /\ next.large = c.large /\ next.sign = c.sign
  BY <1>1, RemappedCore
<1>3. PICK disc : disc = Active(next.tl, LeaderTime(next, n)).disc
  OBVIOUS
<1>4. disc \in Nat
  <2>1. next.tl \in HeldTimelines /\ LeaderTime(next, n) \in Int
    <3>1. IsCore(next)
      BY <1>2
    <3>2. LeaderTime(next, n) \in Nat
      BY <3>1, LeaderTimeType
    <3> QED
      BY <3>1, <3>2 DEF IsCore
  <2>2. Active(next.tl, LeaderTime(next, n)) \in Segment
    BY <2>1, HeldActive
  <2> QED
    BY <1>3, <2>2 DEF Segment
<1>5. r = IF ~c.locked
            THEN [next EXCEPT !.corr = 0, !.gen = @ + 1, !.event = "HardResync"]
          ELSE IF disc # Playing(c, n).disc THEN Jumped(next, disc)
          ELSE Correct(next, Position(c, n), n, TRUE)
  BY <1>1, <1>3 DEF AcceptMeasurement
<1>6. CASE ~c.locked
  <2>1. r = [next EXCEPT !.corr = 0, !.gen = @ + 1, !.event = "HardResync"]
    BY <1>5, <1>6
  <2>2. DOMAIN next = Fields /\ DOMAIN r = Fields
    BY <1>2, <2>1 DEF IsCore
  <2>3. r.corr = 0 /\ r.gen = next.gen + 1 /\ r.event = "HardResync"
    BY <2>1, <2>2 DEF Fields
  <2>4. /\ SameView(next, r) /\ r.conn = next.conn /\ r.corrAt = next.corrAt
        /\ r.corrDisc = next.corrDisc /\ r.recovering = next.recovering
        /\ r.large = next.large /\ r.sign = next.sign /\ r.reported = next.reported
    BY <2>1, <2>2 DEF Fields, SameView
  <2>5. IsCore(r)
    BY <1>2, <2>2, <2>3, <2>4 DEF IsCore, SameView
  <2> QED
    BY <1>2, <1>6, <2>3, <2>4, <2>5 DEF Accepted, SameView
<1>7. CASE c.locked /\ disc # Playing(c, n).disc
  <2>1. r = Jumped(next, disc)
    BY <1>5, <1>7
  <2>2. IsCore(r) /\ SameView(next, r) /\ r.large = 0 /\ r.event = "Discontinuity"
    BY <1>2, <1>4, <2>1, JumpedOutcome
  <2> QED
    BY <1>2, <1>7, <2>2 DEF Accepted, SameView
<1>8. CASE c.locked /\ disc = Playing(c, n).disc
  <2>1. r = Correct(next, Position(c, n), n, TRUE)
    BY <1>5, <1>8
  <2>2. /\ IsCore(r) /\ SameView(next, r)
        /\ Corrected(next, r, Position(c, n), n, TRUE)
    BY <1>2, <2>1, PositionType, CorrectOutcome
  <2>3. Corrected(c, r, Position(c, n), n, TRUE)
    BY <1>2, <2>2 DEF Corrected, CountOf
  <2>4. ErrorOf(r, Position(c, n), n) = ErrorOf(next, Position(c, n), n)
    BY <2>2, SameError
  <2> QED
    BY <1>1, <1>2, <1>8, <2>2, <2>3, <2>4 DEF Accepted, SameView
<1> QED
  BY <1>6, <1>7, <1>8

LEMMA MeasureOutcome ==
  ASSUME NEW c, IsCore(c), NEW m \in Measurements, NEW n \in Nat, NEW r, r = Measure(c, m, n)
  PROVE  /\ IsCore(r) /\ r.expected = c.expected
         /\ \/ ~(m.accepted /\ c.expected # NONE) /\ Ignored(c, r)
            \/ m.accepted /\ c.expected # NONE /\ Accepted(c, m, r, n)
<1>1. CASE c.expected = NONE
  <2>1. r = [c EXCEPT !.event = "None"]
    BY <1>1 DEF Measure
  <2> QED
    BY <1>1, <2>1 DEF IsCore, Fields, Ignored
<1>2. CASE c.expected # NONE /\ m.accepted
  <2>1. r = AcceptMeasurement(c, m, n)
    BY <1>2 DEF Measure
  <2>2. IsCore(r) /\ Accepted(c, m, r, n)
    BY <2>1, AcceptOutcome
  <2>3. r.expected = c.expected
    BY <2>2 DEF Accepted
  <2> QED
    BY <1>2, <2>2, <2>3
<1>3. CASE c.expected # NONE /\ ~m.accepted
  <2>1. r = [c EXCEPT !.recovering = m.recovering, !.event = "None"]
    BY <1>3 DEF Measure
  <2>2. m.recovering \in BOOLEAN
    BY DEF Measurements
  <2> QED
    BY <1>3, <2>1, <2>2 DEF IsCore, Fields, Ignored
<1> QED
  BY <1>1, <1>2, <1>3

(* The outcome of FollowerCore::tick.                                      *)
Ticked(c, sync, tl, key) == [c EXCEPT !.sync = sync, !.tl = tl, !.reported = key]

TickedTo(c, r) ==
  /\ r.tl.rev = c.tl.rev /\ r.tl.session = c.tl.session
  /\ \E k \in 0..Len(c.tl.sched) : r.tl = AdvanceTo(c.tl, k)
  /\ r.sampled = c.sampled /\ r.locked = c.locked /\ r.expected = c.expected
  /\ r.offset = c.offset
  /\ r.sync = c.sync \/ r.sync = "Holdover"
  /\ \/ r.event = "None" /\ r.large = c.large /\ r.sign = c.sign
     \/ r.event = "Discontinuity" /\ r.large = 0

LEMMA TickOutcome ==
  ASSUME NEW c, IsCore(c), NEW n \in Nat, NEW r, r = TickCore(c, n)
  PROVE  IsCore(r) /\ TickedTo(c, r)
<1>1. CASE ~Initialized(c)
  <2>1. r = [c EXCEPT !.event = "None"]
    BY <1>1 DEF TickCore
  <2>2. c.tl = AdvanceTo(c.tl, 0) /\ 0 \in 0..Len(c.tl.sched)
    BY SMTT(30) DEF AdvanceTo, IsCore, HeldTimelines
  <2>3. IsCore(r) /\ r.tl = c.tl
    BY <2>1 DEF IsCore, Fields
  <2> QED
    BY <2>1, <2>2, <2>3 DEF IsCore, Fields, TickedTo
<1>2. CASE Initialized(c)
  <2>1. PICK disc : disc = Active(c.tl, LeaderTime(c, n)).disc
    OBVIOUS
  <2>2. disc \in Nat /\ c.tl \in HeldTimelines
    <3>1. c.tl \in HeldTimelines /\ LeaderTime(c, n) \in Int
      BY LeaderTimeType DEF IsCore
    <3>2. Active(c.tl, LeaderTime(c, n)) \in Segment
      BY <3>1, HeldActive
    <3> QED
      BY <2>1, <3>1, <3>2 DEF Segment
  <2>3. PICK tl : tl = Latch(c.tl, disc)
    OBVIOUS
  <2>4. /\ tl \in HeldTimelines /\ tl.rev = c.tl.rev /\ tl.session = c.tl.session
        /\ \E k \in 0..Len(c.tl.sched) : tl = AdvanceTo(c.tl, k)
    <3>1. PICK k \in 0..Len(c.tl.sched) : Latch(c.tl, disc) = AdvanceTo(c.tl, k)
      BY <2>2, LatchRun
    <3> QED
      BY <2>2, <2>3, <3>1, HeldAdvance
  <2>5. PICK sync : sync = IF n - c.sampled > STALE THEN "Holdover" ELSE c.sync
    OBVIOUS
  <2>6. PICK key : key = <<c.tl.session, disc>>
    OBVIOUS
  <2>7. key \in (SESSIONS \cup {NONE}) \X Nat
    BY <2>2, <2>6 DEF HeldTimelines
  <2>8. PICK next : next = Ticked(c, sync, tl, key)
    OBVIOUS
  <2>9. DOMAIN c = Fields /\ DOMAIN next = Fields
    BY <2>8 DEF IsCore, Ticked
  <2>10. /\ next.sync = sync /\ next.tl = tl /\ next.reported = key
         /\ next.conn = c.conn /\ next.offset = c.offset /\ next.unc = c.unc
         /\ next.sampled = c.sampled /\ next.corr = c.corr /\ next.corrAt = c.corrAt
         /\ next.corrDisc = c.corrDisc /\ next.recovering = c.recovering
         /\ next.gen = c.gen /\ next.large = c.large /\ next.sign = c.sign
         /\ next.locked = c.locked /\ next.expected = c.expected /\ next.event = c.event
    BY <2>8, <2>9 DEF Fields, Ticked
  <2>11. sync \in {"Uninitialized", "Acquiring", "Synchronized", "Holdover"}
         /\ (sync = c.sync \/ sync = "Holdover")
    BY <2>5 DEF IsCore
  <2>12. IsCore(next)
    BY <2>4, <2>7, <2>9, <2>10, <2>11 DEF IsCore
  <2>13. \/ r = [next EXCEPT !.large = 0, !.sign = 0, !.event = "Discontinuity"]
         \/ r = [next EXCEPT !.event = "None"]
    BY <1>2, <2>1, <2>3, <2>5, <2>6, <2>8 DEF TickCore, Ticked
  <2>14. CASE r = [next EXCEPT !.large = 0, !.sign = 0, !.event = "Discontinuity"]
    <3>1. IsCore(r)
      BY <2>12, <2>14 DEF IsCore, Fields
    <3>2. /\ r.tl = next.tl /\ r.sampled = next.sampled /\ r.locked = next.locked
          /\ r.sync = next.sync /\ r.large = 0 /\ r.event = "Discontinuity"
          /\ r.expected = next.expected /\ r.offset = next.offset
      BY <2>9, <2>14 DEF Fields
    <3> QED
      BY <2>4, <2>10, <2>11, <3>1, <3>2 DEF TickedTo
  <2>15. CASE r = [next EXCEPT !.event = "None"]
    <3>1. IsCore(r)
      BY <2>12, <2>15 DEF IsCore, Fields
    <3>2. /\ r.tl = next.tl /\ r.sampled = next.sampled /\ r.locked = next.locked
          /\ r.sync = next.sync /\ r.large = next.large /\ r.sign = next.sign
          /\ r.event = "None" /\ r.expected = next.expected
          /\ r.offset = next.offset
      BY <2>9, <2>15 DEF Fields
    <3> QED
      BY <2>4, <2>10, <2>11, <3>1, <3>2 DEF TickedTo
  <2> QED
    BY <2>13, <2>14, <2>15
<1> QED
  BY <1>1, <1>2

-----------------------------------------------------------------------------
(* A snapshot and what another one, or a follower, shows of it: u went on  *)
(* from a; u accounts for a, which may have run ahead; p is a with leading *)
(* changes applied, and whatever accounts for a accounts for p.            *)
Continues(u, a) == Succeeds(u, a) /\ u.format = a.format

Accounts(u, a) == Covers(u, a) /\ u.format = a.format

Orderly(t) == t \in Timelines /\ Ascending(t)

Applied(a, p) ==
  /\ Orderly(p) /\ p.session = a.session /\ p.rev = a.rev /\ p.format = a.format
  /\ \A u \in Timelines : Covers(u, a) => Covers(u, p)

LEMMA AppliedItself ==
  ASSUME NEW a, Orderly(a)
  PROVE  Applied(a, a)
BY DEF Applied, Orderly

LEMMA AppliedTwice ==
  ASSUME NEW a, NEW b, NEW c, Applied(a, b), Applied(b, c)
  PROVE  Applied(a, c)
BY DEF Applied

LEMMA AdvanceApplied ==
  ASSUME NEW a, Orderly(a), NEW k \in 0..Len(a.sched), NEW p, p = AdvanceTo(a, k)
  PROVE  Applied(a, p)
<1>1. a \in Timelines /\ Ascending(a)
  BY DEF Orderly
<1>2. /\ p \in Timelines /\ p.session = a.session /\ p.rev = a.rev /\ p.format = a.format
  BY <1>1, AdvanceToShape
<1>3. Ascending(p)
  BY <1>1, AdvancedSegments
<1>4. ASSUME NEW u \in Timelines, Covers(u, a) PROVE Covers(u, p)
  BY <1>1, <1>4, CoversAdvanced
<1> QED
  BY <1>2, <1>3, <1>4 DEF Applied, Orderly

(* A follower expects the session that it holds, or none; what it holds of *)
(* a session is in order; and it evaluates by a sample once it has one.    *)
Coherent(c) ==
  /\ IsCore(c)
  /\ c.expected \in {NONE, c.tl.session}
  /\ c.tl.session # NONE => Orderly(c.tl)
  /\ c.sampled # 0 => c.sync # "Uninitialized"

Keeps(c, r) ==
  /\ r.tl.session = c.tl.session /\ r.tl.rev = c.tl.rev
  /\ c.tl.session # NONE => Applied(c.tl, r.tl)

LEMMA TickCoherent ==
  ASSUME NEW c, Coherent(c), NEW n \in Nat, NEW r, r = TickCore(c, n)
  PROVE  Coherent(r) /\ Keeps(c, r)
<1>1. IsCore(c)
  BY DEF Coherent
<1>2. IsCore(r) /\ TickedTo(c, r)
  BY <1>1, TickOutcome
<1>3. c.tl.session # NONE => Applied(c.tl, r.tl)
  BY <1>2, AdvanceApplied DEF Coherent, TickedTo
<1>4. /\ r.tl.rev = c.tl.rev /\ r.tl.session = c.tl.session /\ r.expected = c.expected
      /\ r.sampled = c.sampled /\ (r.sync = c.sync \/ r.sync = "Holdover")
  BY <1>2 DEF TickedTo
<1> QED
  BY <1>2, <1>3, <1>4 DEF Coherent, Keeps, Applied

LEMMA MeasureCoherent ==
  ASSUME NEW c, Coherent(c), NEW m \in Measurements, NEW n \in Nat, NEW r,
         r = Measure(c, m, n)
  PROVE  Coherent(r) /\ Keeps(c, r) /\ r.expected = c.expected /\ r.tl = c.tl
<1>1. IsCore(c)
  BY DEF Coherent
<1>2. IsCore(r) /\ r.expected = c.expected
  BY <1>1, MeasureOutcome
<1>3. /\ r.tl = c.tl
      /\ r.sync # "Uninitialized" \/ (r.sampled = c.sampled /\ r.sync = c.sync)
  <2>1. Ignored(c, r) \/ Accepted(c, m, r, n)
    BY <1>1, MeasureOutcome
  <2> QED
    BY <2>1 DEF Ignored, Accepted
<1> QED
  BY <1>2, <1>3, AppliedItself DEF Coherent, Keeps

(* A snapshot changes nothing, or what is held comes from it.              *)
LEMMA StateCoherent ==
  ASSUME NEW c, Coherent(c), NEW t, Orderly(t), NEW n \in Nat, NEW r, r = State(c, t, n)
  PROVE  /\ Coherent(r)
         /\ \/ Keeps(c, r)
            \/ Applied(t, r.tl) /\ (t.session = c.tl.session => c.tl.rev < t.rev)
<1>1. IsCore(c) /\ t \in Timelines /\ Ascending(t)
  BY DEF Coherent, Orderly
<1>2. /\ IsCore(r) /\ r.expected \in {c.expected, r.tl.session}
      /\ Ignored(c, r) \/ Begun(c, t, r) \/ Revised(c, t, r, n)
  BY <1>1, StateOutcome
<1>3. CASE Ignored(c, r)
  <2>1. r.tl = c.tl /\ r.sampled = c.sampled /\ r.sync = c.sync
    BY <1>3 DEF Ignored
  <2> QED
    BY <1>2, <2>1, AppliedItself DEF Coherent, Keeps
<1>4. CASE Begun(c, t, r)
  <2>1. /\ r.tl = t /\ r.expected = t.session /\ c.tl.session # t.session
        /\ r.sampled = 0
    BY <1>4 DEF Begun
  <2> QED
    BY <1>2, <2>1, AppliedItself DEF Coherent
<1>5. CASE Revised(c, t, r, n)
  <2>1. /\ r.tl = Advanced(c, t, n) /\ r.expected = t.session /\ c.tl.rev < t.rev
        /\ r.sampled = c.sampled /\ r.sync = c.sync
    BY <1>5 DEF Revised
  <2>2. PICK k \in 0..Len(t.sched) : Advanced(c, t, n) = AdvanceTo(t, k)
    BY <1>1, AdvancedType
  <2>3. Applied(t, r.tl)
    BY <2>1, <2>2, AdvanceApplied
  <2> QED
    BY <1>2, <2>1, <2>3 DEF Coherent, Applied
<1> QED
  BY <1>2, <1>3, <1>4, <1>5

(* A later revision that accounts for what is held is not refused: it does *)
(* not fall back behind the discontinuity that plays.                      *)
LEMMA AccountedNotRefused ==
  ASSUME NEW c, Coherent(c), NEW t, Orderly(t), NEW n \in Nat,
         t.session = c.tl.session, c.tl.rev < t.rev, Accounts(t, c.tl)
  PROVE  State(c, t, n).tl.rev = t.rev
<1>1. IsCore(c) /\ t \in Timelines /\ Ascending(t)
  BY DEF Coherent, Orderly
<1>2. t.rev \in Nat /\ c.tl.rev \in Nat /\ t.session # NONE
  BY <1>1, SnapshotType DEF IsCore, HeldTimelines
<1>3. ~Foreign(c, t) /\ ~(t.rev <= c.tl.rev)
  BY <1>2 DEF Foreign, Coherent
<1>4. PICK s : s = Playing(c, n)
  OBVIOUS
<1>5. s \in Segments(c.tl) /\ s \in Segment
  BY <1>1, <1>4, EvaluatedType
<1>6. PICK d : d = Max({c.tl.cur.disc, s.disc})
  OBVIOUS
<1>7. c.tl.cur.disc \in Nat /\ s.disc \in Nat /\ d \in Nat /\ s.disc <= d
  <2>1. c.tl.cur.disc \in Nat /\ s.disc \in Nat
    BY <1>1, <1>5 DEF IsCore, HeldTimelines, Segment
  <2> QED
    BY <1>6, <2>1, MaxPair
<1>8. PICK k \in 0..Len(t.sched) :
        /\ Latch(t, d) = AdvanceTo(t, k)
        /\ \A x \in Segments(t) : x.disc <= d => x.disc <= AdvanceTo(t, k).cur.disc
  BY <1>1, <1>7, LatchReaches
<1>9. PICK a : a = AdvanceTo(t, k)
  OBVIOUS
<1>10. /\ Advanced(c, t, n) = a /\ a \in Timelines /\ t.cur.disc <= a.cur.disc
       /\ a.cur.disc \in Nat /\ t.cur.disc \in Nat
  <2>1. Advanced(c, t, n) = a
    BY <1>4, <1>6, <1>8, <1>9 DEF Advanced
  <2>2. a \in Timelines
    BY <1>1, <1>9, AdvanceToShape
  <2>3. t.cur.disc <= a.cur.disc
    BY <1>1, <1>9, AdvancedSegments
  <2> QED
    BY <1>1, <2>1, <2>2, <2>3, SegmentNumbers
<1>11. s.disc <= a.cur.disc
  <2>1. s \in Segments(t) \/ s.disc < t.cur.disc
    BY <1>5 DEF Accounts, Covers
  <2> QED
    BY <1>7, <1>8, <1>9, <1>10, <2>1
<1>12. ~Regresses(c, t, n)
  BY <1>4, <1>7, <1>10, <1>11 DEF Regresses, Accounts
<1>13. PICK r : r = State(c, t, n)
  OBVIOUS
<1>14. r = AdoptRevision(c, t, n)
  BY <1>3, <1>12, <1>13 DEF State
<1>15. Revised(c, t, r, n)
  BY <1>1, <1>12, <1>14, RevisionOutcome
<1>16. r.tl.rev = t.rev
  BY <1>1, <1>15, AdvancedType DEF Revised
<1> QED
  BY <1>13, <1>16

LEMMA NewCoherent == Coherent(NewCore) /\ NewCore.tl.session = NONE
<1>1. NewCore.tl.session = NONE /\ NewCore.expected = NONE /\ NewCore.sampled = 0
  BY DEF NewCore, FallbackTimeline
<1> QED
  BY <1>1, NewCoreType DEF Coherent

(* What a connection sets, and its loss, leaves what is held alone.        *)
LEMMA LinkCoherent ==
  ASSUME NEW c, Coherent(c), NEW r, r = Connected(c) \/ r = Disconnected(c)
  PROVE  Coherent(r) /\ r.tl = c.tl /\ r.offset = c.offset /\ r.sampled = c.sampled
<1>1. DOMAIN c = Fields /\ DOMAIN r = Fields
  BY DEF Coherent, IsCore, Connected, Disconnected
<1>2. /\ r.tl = c.tl /\ r.expected \in {c.expected, NONE} /\ r.offset = c.offset
      /\ r.sampled = c.sampled
      /\ r.sync = c.sync \/ r.sync = "Holdover"
  BY <1>1 DEF Fields, Connected, Disconnected
<1>3. IsCore(r)
  <2>1. CASE r = Connected(c)
    BY <2>1 DEF Coherent, IsCore, Fields, Connected
  <2>2. CASE r = Disconnected(c)
    BY <2>2 DEF Coherent, IsCore, Fields, Disconnected
  <2> QED
    BY <2>1, <2>2
<1> QED
  BY <1>2, <1>3 DEF Coherent

-----------------------------------------------------------------------------
(* A follower that runs ahead of the leader's clock in no respect: neither *)
(* by its mapping nor by what it has applied.  n is its clock, lead the    *)
(* leader's.                                                               *)
Punctual(c, n, lead) == c.offset <= lead - n /\ c.tl.cur.time <= lead

LEMMA ActiveDue ==
  ASSUME NEW tl \in HeldTimelines, NEW t \in Int
  PROVE  Active(tl, t) = tl.cur \/ Active(tl, t).time <= t
<1>1. CASE DueAt(tl, t) = {}
  BY <1>1 DEF Active
<1>2. CASE DueAt(tl, t) # {}
  <2>1. Len(tl.sched) \in Nat /\ DueAt(tl, t) \in SUBSET (0..Len(tl.sched))
    BY DEF DueAt, HeldTimelines
  <2>2. Max(DueAt(tl, t)) \in DueAt(tl, t)
    BY <1>2, <2>1, MaxBounded
  <2> QED
    BY <1>2, <2>2 DEF Active, DueAt
<1> QED
  BY <1>1, <1>2

LEMMA PunctualPlaying ==
  ASSUME NEW c, IsCore(c), NEW n \in Nat, NEW lead \in Nat, Punctual(c, n, lead)
  PROVE  /\ LeaderTime(c, n) <= lead
         /\ Playing(c, n).time <= lead
         /\ Active(c.tl, LeaderTime(c, n)).time <= lead
<1>1. c.tl \in HeldTimelines /\ c.offset \in Int
  BY DEF IsCore
<1>2. LeaderTime(c, n) \in Nat /\ LeaderTime(c, n) <= lead
  BY <1>1, MaxPair DEF LeaderTime, Punctual
<1>3. EvaluatedAt(c, n) \in Nat /\ EvaluatedAt(c, n) <= lead
  BY <1>2, EvaluatedType DEF EvaluatedAt, Punctual
<1>4. ASSUME NEW x \in Nat, x <= lead PROVE Active(c.tl, x).time <= lead
  <2>1. Active(c.tl, x) \in Segment /\ (Active(c.tl, x) = c.tl.cur \/ Active(c.tl, x).time <= x)
    BY <1>1, HeldActive, ActiveDue
  <2> QED
    BY <1>4, <2>1 DEF Punctual, Segment
<1> QED
  BY <1>2, <1>3, <1>4 DEF Playing

(* In order of number is in order of time, as far as the active one is due.*)
LEMMA NumberedDue ==
  ASSUME NEW t, Orderly(t), NEW x \in Segments(t), NEW y \in Segments(t), NEW lead \in Nat,
         t.cur.time <= lead, x.time <= lead, y.disc <= x.disc
  PROVE  y.time <= lead
<1>1. /\ \A s \in Segments(t) : s.disc \in Nat /\ s.time \in Nat
      /\ Len(t.sched) \in Nat /\ t.cur.disc \in Nat
  BY SegmentNumbers DEF Orderly, Timelines
<1>2. CASE y = t.cur
  BY <1>2
<1>3. CASE y # t.cur
  <2>1. PICK i \in 1..Len(t.sched) : y = t.sched[i]
    BY <1>3 DEF Segments
  <2>2. x # t.cur
    BY <1>1, <2>1 DEF Orderly, Ascending
  <2>3. PICK j \in 1..Len(t.sched) : x = t.sched[j]
    BY <2>2 DEF Segments
  <2>4. ~(j < i)
    BY <1>1, <2>1, <2>3 DEF Orderly, Ascending
  <2>5. i = j \/ t.sched[i].time < t.sched[j].time
    BY <1>1, <2>4 DEF Orderly, Ascending
  <2> QED
    BY <1>1, <2>1, <2>3, <2>5
<1> QED
  BY <1>2, <1>3

LEMMA LatchDue ==
  ASSUME NEW t, Orderly(t), NEW disc \in Nat, NEW lead \in Nat, t.cur.time <= lead,
         \A y \in Segments(t) : y.disc <= disc => y.time <= lead
  PROVE  Latch(t, disc).cur.time <= lead
<1> DEFINE Run == {k \in 0..Len(t.sched) : \A i \in 1..k : t.sched[i].disc <= disc}
<1>1. t \in Timelines /\ Len(t.sched) \in Nat
  BY DEF Orderly, Timelines
<1>2. Run \in SUBSET (0..Len(t.sched)) /\ 0 \in Run
  BY <1>1
<1>3. Max(Run) \in Run
  <2> HIDE DEF Run
  <2> QED
    BY <1>1, <1>2, MaxBounded
<1>4. Latch(t, disc) = AdvanceTo(t, Max(Run))
  BY DEF Latch
<1>5. PICK k \in 0..Len(t.sched) :
        /\ Latch(t, disc) = AdvanceTo(t, k)
        /\ \A i \in 1..k : t.sched[i].disc <= disc
  BY <1>3, <1>4
<1>6. AdvanceTo(t, k).cur = IF k = 0 THEN t.cur ELSE t.sched[k]
  BY <1>1, AdvanceToShape
<1> QED
  BY <1>1, <1>5, <1>6 DEF Segments

LEMMA TickPunctual ==
  ASSUME NEW c, Coherent(c), NEW n \in Nat, NEW lead \in Nat, Punctual(c, n, lead),
         c.tl.session # NONE, NEW r, r = TickCore(c, n)
  PROVE  Punctual(r, n, lead)
<1>1. IsCore(c) /\ Orderly(c.tl)
  BY DEF Coherent
<1>2. r.offset = c.offset
  BY <1>1, TickOutcome, ZenonT(40) DEF TickedTo
<1>3. PICK seg : seg = Active(c.tl, LeaderTime(c, n))
  OBVIOUS
<1>4. seg \in Segments(c.tl) /\ seg.disc \in Nat /\ seg.time <= lead
  <2>1. LeaderTime(c, n) \in Int /\ c.tl \in HeldTimelines
    BY <1>1, LeaderTimeType DEF IsCore
  <2>2. seg \in Segments(c.tl) /\ seg \in Segment
    BY <1>3, <2>1, HeldActive
  <2> QED
    BY <1>1, <1>3, <2>2, PunctualPlaying DEF Segment
<1>5. r.tl = c.tl \/ r.tl = Latch(c.tl, seg.disc)
  <2>1. DOMAIN c = Fields
    BY <1>1 DEF IsCore
  <2> QED
    BY <1>3, <2>1 DEF TickCore, Fields
<1>6. \A y \in Segments(c.tl) : y.disc <= seg.disc => y.time <= lead
  BY <1>1, <1>4, NumberedDue DEF Punctual
<1>7. Latch(c.tl, seg.disc).cur.time <= lead
  BY <1>1, <1>4, <1>6, LatchDue DEF Punctual
<1> QED
  BY <1>2, <1>5, <1>7 DEF Punctual

(* A revision that is not ahead of its leader does not put the follower    *)
(* ahead of it.                                                            *)
LEMMA StatePunctual ==
  ASSUME NEW c, Coherent(c), NEW t, Orderly(t), NEW n \in Nat, NEW lead \in Nat,
         NEW r, r = State(c, t, n), t.cur.time <= lead,
         t.session = c.tl.session =>
           /\ Punctual(c, n, lead)
           /\ c.tl.rev < t.rev => Accounts(t, c.tl)
  PROVE  \/ r.tl = c.tl /\ r.offset = c.offset
         \/ Begun(c, t, r)
         \/ Punctual(r, n, lead)
<1>1. IsCore(c) /\ t \in Timelines /\ Ascending(t)
  BY DEF Coherent, Orderly
<1>2. Ignored(c, r) \/ Begun(c, t, r) \/ Revised(c, t, r, n)
  BY <1>1, StateOutcome
<1>3. CASE Ignored(c, r)
  BY <1>3 DEF Ignored
<1>4. CASE Begun(c, t, r)
  BY <1>4
<1>5. CASE Revised(c, t, r, n)
  <2>1. /\ t.session = c.tl.session /\ r.offset = c.offset /\ r.tl = Advanced(c, t, n)
        /\ Punctual(c, n, lead) /\ Accounts(t, c.tl)
    BY <1>5 DEF Revised
  <2>2. Orderly(c.tl)
    BY <1>1, <2>1, SnapshotType DEF Coherent
  <2>3. PICK q : q = c.tl.cur
    OBVIOUS
  <2>4. PICK p : p = Playing(c, n)
    OBVIOUS
  <2>5. /\ q \in Segments(c.tl) /\ q.disc \in Nat /\ q.time <= lead
        /\ p \in Segments(c.tl) /\ p.disc \in Nat /\ p.time <= lead
    <3>1. q \in Segments(c.tl) /\ q.disc \in Nat
      BY <2>2, <2>3, SegmentNumbers DEF Orderly
    <3>2. p \in Segments(c.tl) /\ p \in Segment
      BY <1>1, <2>4, EvaluatedType
    <3> QED
      BY <1>1, <2>1, <2>3, <2>4, <3>1, <3>2, PunctualPlaying DEF Punctual, Segment
  <2>6. PICK x \in Segments(c.tl) :
          x \in {p, q} /\ x.disc = Max({c.tl.cur.disc, Playing(c, n).disc})
    BY <2>3, <2>4, <2>5, MaxPair
  <2>7. x.disc \in Nat /\ x.time <= lead /\ Advanced(c, t, n) = Latch(t, x.disc)
    BY <2>5, <2>6 DEF Advanced
  <2>8. ASSUME NEW y \in Segments(t), y.disc <= x.disc
        PROVE  y.time <= lead
    <3>1. y.disc \in Nat /\ t.cur.disc \in Nat /\ t.cur.disc <= y.disc
      BY <1>1, SegmentNumbers
    <3>2. CASE y \in Segments(c.tl)
      BY <2>1, <2>2, <2>7, <2>8, <3>2, NumberedDue DEF Punctual
    <3>3. CASE y.disc < q.disc
      <4>1. q \in Segments(t) \/ q.disc < t.cur.disc
        BY <2>1, <2>5 DEF Accounts, Covers
      <4>2. q \in Segments(t) /\ y.disc <= q.disc
        BY <2>5, <3>1, <3>3, <4>1
      <4> QED
        BY <2>5, <4>2, NumberedDue
    <3>4. CASE \A s \in Segments(c.tl) : s.disc < y.disc
      BY <2>6, <2>7, <2>8, <3>1, <3>4
    <3> QED
      BY <2>1, <2>3, <3>2, <3>3, <3>4 DEF Accounts, Covers
  <2>9. Latch(t, x.disc).cur.time <= lead
    BY <2>7, <2>8, LatchDue
  <2> QED
    BY <2>1, <2>7, <2>9 DEF Punctual
<1> QED
  BY <1>2, <1>3, <1>4, <1>5

-----------------------------------------------------------------------------
(* A quotient grows by less than one more than what is added.              *)
LEMMA DivideStep ==
  ASSUME NEW d \in Nat \ {0}, NEW x \in Nat, NEW p \in Nat, NEW k \in Nat, p <= k * d
  PROVE  x \div d \in Nat /\ (x + p) \div d \in x \div d .. x \div d + k
<1> DEFINE y == x + p
           a == x \div d
           b == y \div d
<1>2. y \in Nat /\ y = x + p
  OBVIOUS
<1> HIDE DEF y
<1>6. a \in Int /\ x % d \in 0 .. d - 1 /\ x = d * a + (x % d)
  BY DivModOf
<1>7. b \in Int /\ y % d \in 0 .. d - 1 /\ y = d * b + (y % d)
  BY <1>2, DivModOf
<1>1. /\ a \in Int /\ x % d \in 0 .. d - 1 /\ x = d * a + (x % d)
      /\ b \in Int /\ y % d \in 0 .. d - 1 /\ y = d * b + (y % d)
  BY <1>6, <1>7
<1> HIDE DEF a, b, y
<1>3. a >= 0
  <2>1. SUFFICES ASSUME a <= -1 PROVE FALSE
    BY <1>1
  <2>2. d * a <= -d
    BY <1>1, <2>1
  <2> QED
    BY <1>1, <2>2
<1>4. b >= a
  <2>1. SUFFICES ASSUME b + 1 <= a PROVE FALSE
    BY <1>1
  <2>2. d * (b + 1) <= d * a /\ d * (b + 1) = d * b + d /\ d * b \in Int /\ d * a \in Int
    BY <1>1, <2>1
  <2> QED
    BY <1>1, <1>2, <2>2
<1>5. b <= a + k
  <2>1. SUFFICES ASSUME a + k + 1 <= b PROVE FALSE
    BY <1>1
  <2>2. d * (a + k + 1) <= d * b
    BY <1>1, <2>1
  <2>3. d * (a + k + 1) = d * a + k * d + d /\ d * a \in Int /\ k * d \in Int /\ d * b \in Int
    BY <1>1
  <2> QED
    BY <1>1, <1>2, <2>2, <2>3
<1> QED
  BY <1>1, <1>3, <1>4, <1>5 DEF a, b, y

(* Of two slopes that start together the less steep one stays below.       *)
LEMMA SlopesCompared ==
  ASSUME NEW d \in Nat \ {0}, NEW c \in Nat \ {0}, NEW m \in Nat, NEW r \in Nat, m * c <= r * d,
         NEW e \in Nat
  PROVE  (m * e) \div d <= (r * e) \div c /\ (m * e) \div d \in Nat /\ (r * e) \div c \in Nat
<1> DEFINE x == m * e
           y == r * e
           a == x \div d
           b == y \div c
<1>1. x \in Nat /\ y \in Nat
  OBVIOUS
<1>2. x * c <= y * d
  <2>1. x * c = (m * c) * e /\ y * d = (r * d) * e
    OBVIOUS
  <2>2. m * c \in Nat /\ r * d \in Nat
    OBVIOUS
  <2> DEFINE u == m * c
             v == r * d
  <2> HIDE DEF u, v, x, y
  <2>3. u \in Nat /\ v \in Nat /\ u <= v
    BY <2>2 DEF u, v
  <2>4. u * e <= v * e
    BY <2>3
  <2> QED
    BY <2>1, <2>4 DEF u, v
<1> HIDE DEF x, y
<1>3. a \in Nat /\ b \in Nat
  <2>1. 0 <= 0 * d /\ 0 <= 0 * c
    OBVIOUS
  <2> QED
    BY <1>1, <2>1, DivideStep
<1>4. /\ x % d \in 0 .. d - 1 /\ x = d * a + (x % d)
      /\ y % c \in 0 .. c - 1 /\ y = c * b + (y % c)
  BY <1>1, DivModOf
<1> HIDE DEF a, b
<1>5. a <= b
  <2>1. SUFFICES ASSUME b + 1 <= a PROVE FALSE
    BY <1>3
  <2>2. d * a <= x /\ y < c * b + c
    BY <1>3, <1>4
  <2>3. (d * a) * c <= x * c /\ d * a \in Nat
    BY <1>1, <1>3, <2>2
  <2>4. y * d < (c * b + c) * d
    <3>1. c * b + c \in Nat
      BY <1>3
    <3> DEFINE z == c * b + c
    <3> HIDE DEF z
    <3>2. z \in Nat /\ y < z
      BY <2>2, <3>1 DEF z
    <3>3. y * d < z * d
      BY <1>1, <3>2
    <3> QED
      BY <3>3 DEF z
  <2>5. (d * a) * c = (c * d) * a /\ (c * b + c) * d = (c * d) * (b + 1)
    BY <1>3
  <2>6. c * d \in Nat \ {0}
    OBVIOUS
  <2> DEFINE w == c * d
  <2> HIDE DEF w
  <2>7. w \in Nat \ {0} /\ w * (b + 1) <= w * a
    BY <1>3, <2>1, <2>6 DEF w
  <2>8. w * a < w * (b + 1) /\ w * a \in Int /\ w * (b + 1) \in Int
    <3>1. x * c \in Int /\ y * d \in Int /\ w * a \in Int /\ w * (b + 1) \in Int
      BY <1>1, <1>3, <2>7
    <3> QED
      BY <1>2, <2>3, <2>4, <2>5, <3>1 DEF w
  <2> QED
    BY <2>7, <2>8
<1> QED
  BY <1>3, <1>5 DEF a, b, x, y

(* How the part worked off of a correction goes from one tick to the next. *)
Worked(before, after, r) ==
  /\ before \in Nat /\ after \in Nat /\ before <= after
  /\ IF r = 0 THEN after = before ELSE after - before < r

(* In a tick a correction takes less off a motion than there is of it, and *)
(* nothing off a standstill.  At a rate of one unit a tick the quotients   *)
(* could use it up.                                                        *)
LEMMA SlewedStep ==
  ASSUME NEW m \in Nat, NEW r \in Nat \ {1}, NEW e \in Nat, NEW f \in {e, e + 1},
         NEW before, before = Min({(m * e) \div SETTLE, (r * e) \div 10}),
         NEW after, after = Min({(m * f) \div SETTLE, (r * f) \div 10})
  PROVE  Worked(before, after, r)
<1>1. SETTLE \in Nat \ {0}
  BY FollowerCoreAssumption
<1>2. m * f = m * e + (IF f = e THEN 0 ELSE m) /\ r * f = r * e + (IF f = e THEN 0 ELSE r)
  OBVIOUS
<1> DEFINE a == (m * e) \div SETTLE
           b == (r * e) \div 10
           c == (m * f) \div SETTLE
           d == (r * f) \div 10
<1>3. f \in Nat /\ m * e \in Nat /\ r * e \in Nat
  OBVIOUS
<1>4. CASE r = 0
  <2>1. b = 0 /\ d = 0
    BY <1>4
  <2>2. a \in Nat /\ c \in Nat
    <3>1. m * 0 <= m * SETTLE /\ 0 <= 0 * SETTLE /\ m * e \in Nat /\ m * f \in Nat
      BY <1>1
    <3> QED
      BY <1>1, <3>1, DivideStep
  <2> HIDE DEF a, b, c, d
  <2>3. before = 0 /\ after = 0
    <3>1. before = Min({a, b}) /\ after = Min({c, d})
      BY DEF a, b, c, d
    <3> QED
      BY <2>1, <2>2, <3>1, MinPair
  <2> QED
    BY <1>4, <2>3 DEF Worked
<1>5. CASE r >= 2 /\ m * 10 <= r * SETTLE
  <2>1. a <= b /\ c <= d /\ a \in Nat /\ b \in Nat /\ c \in Nat /\ d \in Nat
    BY <1>1, <1>3, <1>5, SlopesCompared
  <2>2. c \in a .. a + (r - 1)
    <3>1. m <= (r - 1) * SETTLE
      <4>1. r * SETTLE <= 10 * ((r - 1) * SETTLE)
        <5>1. r <= 10 * (r - 1) /\ r - 1 \in Nat
          BY <1>5
        <5> DEFINE q == 10 * (r - 1)
        <5> HIDE DEF q
        <5>2. q \in Nat /\ r <= q
          BY <5>1 DEF q
        <5>3. r * SETTLE <= q * SETTLE
          BY <1>1, <5>2
        <5>4. q * SETTLE = 10 * ((r - 1) * SETTLE)
          BY <1>1 DEF q
        <5> QED
          BY <5>3, <5>4
      <4>2. (r - 1) * SETTLE \in Nat /\ r * SETTLE \in Nat
        BY <1>1, <1>5
      <4> QED
        BY <1>5, <4>1, <4>2
    <3> DEFINE p == IF f = e THEN 0 ELSE m
    <3>2. p \in Nat /\ p <= (r - 1) * SETTLE /\ r - 1 \in Nat
      BY <1>1, <1>5, <3>1
    <3> HIDE DEF p
    <3>3. (m * e + p) \div SETTLE \in a .. a + (r - 1)
      BY <1>1, <1>3, <3>2, DivideStep
    <3> QED
      BY <1>2, <3>3 DEF p
  <2> HIDE DEF a, b, c, d
  <2>3. before = a /\ after = c
    <3>1. before = Min({a, b}) /\ after = Min({c, d})
      BY DEF a, b, c, d
    <3> QED
      BY <2>1, <3>1, MinPair
  <2> QED
    BY <1>5, <2>1, <2>2, <2>3 DEF Worked
<1>6. CASE r >= 2 /\ ~(m * 10 <= r * SETTLE)
  <2>1. r * SETTLE <= m * 10
    BY <1>1, <1>6
  <2>2. b <= a /\ d <= c /\ a \in Nat /\ b \in Nat /\ c \in Nat /\ d \in Nat
    BY <1>1, <1>3, <2>1, SlopesCompared
  <2>3. d \in b .. b + (r - 1)
    <3> DEFINE p == IF f = e THEN 0 ELSE r
    <3>1. p \in Nat /\ p <= (r - 1) * 10 /\ r - 1 \in Nat
      BY <1>6
    <3> HIDE DEF p
    <3>2. (r * e + p) \div 10 \in b .. b + (r - 1)
      BY <1>3, <3>1, DivideStep
    <3> QED
      BY <1>2, <3>2 DEF p
  <2> HIDE DEF a, b, c, d
  <2>4. before = b /\ after = d
    <3>1. before = Min({a, b}) /\ after = Min({c, d})
      BY DEF a, b, c, d
    <3> QED
      BY <2>2, <3>1, MinPair
  <2> QED
    BY <1>6, <2>2, <2>3, <2>4 DEF Worked
<1> QED
  BY <1>4, <1>5, <1>6

(* From one tick to the next, while no change comes into effect, output    *)
(* moves in the direction of playback, and never faster than twice that.   *)
Onwards(rate, step) ==
  /\ rate = 0 => step = 0
  /\ rate > 0 => step > 0 /\ step < 2 * rate
  /\ rate < 0 => step < 0 /\ step > 2 * rate

LEMMA MotionStep ==
  ASSUME NEW c, IsCore(c), NEW n \in Nat, Initialized(c),
         NEW seg, seg = Playing(c, n), Playing(c, n + 1) = seg, seg.rate \notin {1, -1},
         EvaluatedAt(c, n) < EvaluatedAt(c, n + 1)
  PROVE  Onwards(seg.rate, Position(c, n + 1) - Position(c, n))
<1> DEFINE k == n + 1
           from == EvaluatedAt(c, n)
           to == EvaluatedAt(c, k)
           e == Max({0, n - c.corrAt})
           f == Max({0, k - c.corrAt})
           m == Magnitude(c.corr)
           r == Magnitude(seg.rate)
           s == Slewed(c, e, seg.rate)
           t == Slewed(c, f, seg.rate)
           dir == Direction(c.corr)
           rem == Remaining(c, n)
           left == Remaining(c, k)
<1>1. seg.pos \in Int /\ seg.time \in Nat /\ seg.rate \in Int /\ seg.disc \in Nat
  BY EvaluatedType DEF Segment
<1>2. to = from + 1 /\ from \in Nat
  <2>1. c.offset \in Int /\ c.tl.cur.time \in Nat
    BY DEF IsCore, HeldTimelines, Segment
  <2>2. c.sync # "Uninitialized"
    <3>1. SUFFICES ASSUME c.sync = "Uninitialized" PROVE FALSE
      OBVIOUS
    <3>2. EvaluatedAt(c, n) = c.tl.cur.time /\ EvaluatedAt(c, n + 1) = c.tl.cur.time
      BY <3>1 DEF EvaluatedAt
    <3>3. ~(c.tl.cur.time < c.tl.cur.time)
      BY <2>1
    <3> QED
      BY <3>2, <3>3
  <2>3. from = Max({0, n + c.offset}) /\ to = Max({0, k + c.offset})
    BY <2>2 DEF EvaluatedAt, LeaderTime
  <2> HIDE DEF from, to
  <2>4. from < to
    BY DEF from, to
  <2>5. /\ Max({0, n + c.offset}) = IF 0 >= n + c.offset THEN 0 ELSE n + c.offset
        /\ Max({0, k + c.offset}) = IF 0 >= k + c.offset THEN 0 ELSE k + c.offset
    <3> DEFINE x == n + c.offset
               y == k + c.offset
    <3>1. x \in Int /\ y \in Int
      BY <2>1
    <3> HIDE DEF x, y
    <3>2. /\ Max({0, x}) = IF 0 >= x THEN 0 ELSE x
          /\ Max({0, y}) = IF 0 >= y THEN 0 ELSE y
      BY <3>1, MaxPair
    <3> QED
      BY <3>2 DEF x, y
  <2> QED
    BY <2>1, <2>3, <2>4, <2>5
<1>3. e \in Nat /\ f \in {e, e + 1}
  <2>1. c.corrAt \in Nat
    BY DEF IsCore
  <2> DEFINE x == n - c.corrAt
             y == k - c.corrAt
  <2>2. x \in Int /\ y = x + 1
    BY <2>1
  <2> HIDE DEF x, y
  <2>3. /\ Max({0, x}) = IF 0 >= x THEN 0 ELSE x
        /\ Max({0, y}) = IF 0 >= y THEN 0 ELSE y
    BY <2>2, MaxPair
  <2> QED
    BY <2>2, <2>3 DEF x, y
<1>4. m \in Nat /\ r \in Nat \ {1} /\ dir \in {1, -1}
  BY <1>1 DEF Magnitude, Direction, IsCore
<1>5. /\ s = Min({(m * e) \div SETTLE, (r * e) \div 10})
      /\ t = Min({(m * f) \div SETTLE, (r * f) \div 10})
  BY DEF Slewed
<1>6. /\ rem = IF seg.disc = c.corrDisc THEN dir * Max({0, m - s}) ELSE 0
      /\ left = IF seg.disc = c.corrDisc THEN dir * Max({0, m - t}) ELSE 0
  BY DEF Remaining
<1>7. Position(c, n) = At(seg, from) + rem /\ Position(c, k) = At(seg, to) + left
  BY DEF Position
<1> HIDE DEF k, from, to, e, f, m, r, s, t, dir, rem, left
<1>8. /\ s \in Nat /\ t \in Nat /\ s <= t
      /\ IF r = 0 THEN t = s ELSE t - s < r
  <2>1. /\ m \in Nat /\ r \in Nat \ {1} /\ e \in Nat /\ f \in {e, e + 1}
        /\ s = Min({(m * e) \div SETTLE, (r * e) \div 10})
        /\ t = Min({(m * f) \div SETTLE, (r * f) \div 10})
    BY <1>3, <1>4, <1>5
  <2>2. Worked(s, t, r)
    BY ONLY <2>1, SlewedStep
  <2> QED
    BY <2>2 DEF Worked
<1>9. /\ rem \in Int /\ left \in Int
      /\ IF r = 0 THEN left = rem ELSE left - rem < r /\ rem - left < r
  <2> DEFINE x == m - s
             y == m - t
  <2>1. x \in Int /\ y \in Int /\ y <= x /\ IF r = 0 THEN y = x ELSE x - y < r
    BY <1>4, <1>8
  <2> HIDE DEF x, y
  <2>2. /\ Max({0, x}) = IF 0 >= x THEN 0 ELSE x
        /\ Max({0, y}) = IF 0 >= y THEN 0 ELSE y
    BY <2>1, MaxPair
  <2> DEFINE g == Max({0, x})
             h == Max({0, y})
  <2>3. g \in Nat /\ h \in Nat /\ h <= g /\ IF r = 0 THEN h = g ELSE g - h < r
    BY <1>4, <2>1, <2>2
  <2>4. /\ rem = IF seg.disc = c.corrDisc THEN dir * g ELSE 0
        /\ left = IF seg.disc = c.corrDisc THEN dir * h ELSE 0
    BY <1>6 DEF x, y
  <2> HIDE DEF g, h
  <2>5. dir * g = (IF dir = 1 THEN g ELSE -g) /\ dir * h = (IF dir = 1 THEN h ELSE -h)
    BY <1>4, <2>3
  <2> QED
    BY <1>4, <2>3, <2>4, <2>5
<1>10. At(seg, to) = At(seg, from) + seg.rate /\ At(seg, from) \in Int
  <2> DEFINE x == from - seg.time
  <2>1. x \in Int /\ to - seg.time = x + 1
    BY <1>1, <1>2
  <2>2. (x + 1) * seg.rate = x * seg.rate + seg.rate /\ x * seg.rate \in Int
    BY <1>1, <2>1
  <2> HIDE DEF x
  <2> QED
    BY <1>1, <2>1, <2>2 DEF At, x
<1>11. Position(c, k) - Position(c, n) = seg.rate + (left - rem)
  BY <1>1, <1>7, <1>9, <1>10
<1>12. r = IF seg.rate < 0 THEN -seg.rate ELSE seg.rate
  BY DEF r, Magnitude
<1>13. Onwards(seg.rate, seg.rate + (left - rem))
  BY <1>1, <1>9, <1>12 DEF Onwards
<1> QED
  BY <1>11, <1>13 DEF k

(* Advancing only drops segments.                                          *)
LEMMA FewerSegments ==
  ASSUME NEW tl \in HeldTimelines, NEW k \in 0..Len(tl.sched),
         NEW p, p = AdvanceTo(tl, k)
  PROVE  Segments(p) \subseteq Segments(tl)
<1>1. CASE k = 0
  BY <1>1 DEF AdvanceTo
<1>2. CASE k # 0
  <2>1. tl.sched \in Seq(Segment) /\ Len(tl.sched) \in Nat /\ k \in 1..Len(tl.sched)
    BY <1>2 DEF HeldTimelines
  <2> DEFINE rest == SubSeq(tl.sched, k + 1, Len(tl.sched))
  <2>3. /\ rest \in Seq(Segment) /\ Len(rest) = Len(tl.sched) - k
        /\ \A i \in 1..Len(rest) : rest[i] = tl.sched[k + i]
    BY <2>1
  <2>4. p.cur = tl.sched[k] /\ p.sched = rest
    BY <1>2 DEF AdvanceTo, HeldTimelines
  <2> HIDE DEF rest
  <2>5. \A i \in 1..Len(p.sched) : p.sched[i] \in Segments(tl)
    <3>1. SUFFICES ASSUME NEW i \in 1..Len(rest) PROVE tl.sched[k + i] \in Segments(tl)
      BY <2>3, <2>4
    <3>2. k + i \in 1..Len(tl.sched)
      <4>1. i \in Nat /\ 1 <= i /\ i <= Len(tl.sched) - k
        BY <2>1, <2>3
      <4> QED
        BY <2>1, <4>1
    <3> QED
      BY <3>2 DEF Segments
  <2>6. p.cur \in Segments(tl)
    BY <2>1, <2>4 DEF Segments
  <2> QED
    BY <2>5, <2>6 DEF Segments
<1> QED
  BY <1>1, <1>2
=============================================================================
