--------------------------- MODULE TimelineProofs ---------------------------
(***************************************************************************)
(* What the operators of Timeline return: lemmas for the proofs about the  *)
(* leader and the follower.                                                *)
(***************************************************************************)
EXTENDS Timeline, FiniteSetTheorems, WellFoundedInduction, TLAPS

(* Whole numbers divided by another.                                       *)
LEMMA ModOf ==
  ASSUME NEW d \in Nat \ {0}, NEW q \in Int, NEW r \in 0..d-1, NEW x, x = d * q + r
  PROVE  x % d = r /\ x \div d = q
BY SMT

LEMMA DivModOf ==
  ASSUME NEW d \in Nat \ {0}, NEW x \in Int
  PROVE  x \div d \in Int /\ x % d \in 0 .. d - 1 /\ x = d * (x \div d) + (x % d)
<1>1. x \div d \in Int
  BY SMT
<1>2. x % d \in 0 .. d - 1
  BY SMT
<1>3. x = d * (x \div d) + (x % d)
  BY SMT
<1> QED
  BY <1>1, <1>2, <1>3

LEMMA ModDiffers ==
  ASSUME NEW d \in Nat \ {0}, NEW x \in Int, NEW y \in Int, x < y, y < x + d
  PROVE  x % d # y % d
<1>1. SUFFICES ASSUME x % d = y % d PROVE FALSE
  OBVIOUS
<1> DEFINE p == x \div d
           q == y \div d
<1>2. p \in Int /\ q \in Int /\ x % d \in Int /\ x = d * p + (x % d) /\ y = d * q + (x % d)
  BY <1>1, DivModOf
<1> HIDE DEF p, q
<1>3. d * q - d * p = y - x /\ d * q \in Int /\ d * p \in Int
  BY <1>2
<1>4. d * (q - p) = y - x
  BY <1>2, <1>3
<1>5. CASE q - p >= 1
  <2>1. d * (q - p) >= d
    BY <1>2, <1>5
  <2> QED
    BY <1>4, <2>1
<1>6. CASE q - p <= 0
  <2>1. d * (q - p) <= 0
    BY <1>2, <1>6
  <2> QED
    BY <1>4, <2>1
<1> QED
  BY <1>2, <1>5, <1>6

(* A nonempty set of bounded naturals has the maximum that Max chooses.    *)
LEMMA MaxBounded ==
  ASSUME NEW N \in Nat, NEW D \in SUBSET (0..N), D # {}
  PROVE  /\ Max(D) \in D
         /\ \A d \in D : d <= Max(D)
<1> DEFINE Above(n) == {m \in 0..N : m > n}
           Family == {Above(n) : n \in D}
<1>1. Family \subseteq FiniteSubsetsOf(0..N)
  <2>1. IsFiniteSet(0..N)
    BY FS_Interval
  <2>2. FiniteSubsetsOf(0..N) = SUBSET (0..N)
    BY <2>1, FS_FiniteSubsetsOfFinite
  <2> QED
    BY <2>2
<1>2. Family # {}
  OBVIOUS
<1>3. IsWellFoundedOn(StrictSubsetOrdering(0..N), FiniteSubsetsOf(0..N))
  BY FS_StrictSubsetOrderingWellFounded
<1>4. PICK x \in Family :
         \A y \in Family : ~ (<<y, x>> \in StrictSubsetOrdering(0..N))
  <2> HIDE DEF Family
  <2> QED
    BY <1>1, <1>2, <1>3, WFMin
<1>5. PICK n \in D : x = Above(n)
  OBVIOUS
<1>6. \A d \in D : d <= n
  <2>1. SUFFICES ASSUME NEW d \in D, d > n PROVE FALSE
    OBVIOUS
  <2>2. Above(d) \subseteq Above(n) /\ Above(d) # Above(n)
    BY <2>1
  <2>3. <<Above(d), Above(n)>> \in StrictSubsetOrdering(0..N)
    BY <2>2 DEF StrictSubsetOrdering
  <2> QED
    BY <2>3, <1>4, <1>5
<1> QED
  BY <1>6 DEF Max

(* A nonempty set of naturals has the minimum that Min chooses.            *)
LEMMA MinNat ==
  ASSUME NEW S \in SUBSET Nat, S # {}
  PROVE  /\ Min(S) \in S
         /\ \A x \in S : Min(S) <= x
<1>1. PICK b \in S : b \in Nat
  OBVIOUS
<1> DEFINE D == {b - x : x \in {y \in S : y <= b}}
<1>2. D \in SUBSET (0..b) /\ 0 \in D
  <2>1. b <= b /\ b - b = 0
    BY <1>1
  <2>2. 0 \in D
    BY <1>1, <2>1
  <2> QED
    BY <1>1, <2>2
<1>3. Max(D) \in D /\ \A d \in D : d <= Max(D)
  <2> HIDE DEF D
  <2> QED
    BY <1>1, <1>2, MaxBounded
<1>4. PICK m \in S : m <= b /\ Max(D) = b - m
  BY <1>3
<1>5. ASSUME NEW x \in S PROVE m <= x
  <2>1. CASE x <= b
    <3>1. b - x \in D
      BY <2>1
    <3>2. b - x <= b - m
      BY <1>3, <1>4, <3>1
    <3> QED
      BY <1>1, <1>4, <3>2
  <2>2. CASE ~(x <= b)
    <3>1. x \in Nat /\ m \in Nat /\ m <= b /\ ~(x <= b)
      BY <1>4, <2>2
    <3> QED
      BY <1>1, <3>1
  <2> QED
    BY <2>1, <2>2
<1> QED
  BY <1>5 DEF Min

-----------------------------------------------------------------------------
(* Timeline::at answers with a segment of the timeline, due unless active. *)
LEMMA ActiveSegment ==
  ASSUME NEW tl \in Timelines, NEW t \in Int
  PROVE  /\ Active(tl, t) \in Segments(tl)
         /\ Active(tl, t) \in Segment
<1>1. CASE DueAt(tl, t) = {}
  BY <1>1 DEF Active, Segments, Timelines
<1>2. CASE DueAt(tl, t) # {}
  <2>1. Len(tl.sched) \in Nat /\ DueAt(tl, t) \subseteq 1..Len(tl.sched)
    BY DEF DueAt, Timelines
  <2>2. DueAt(tl, t) \in SUBSET (0..Len(tl.sched))
    BY <2>1
  <2>3. Max(DueAt(tl, t)) \in DueAt(tl, t)
    BY <1>2, <2>1, <2>2, MaxBounded
  <2>4. Max(DueAt(tl, t)) \in 1..Len(tl.sched)
    BY <2>1, <2>3
  <2> QED
    BY <1>2, <2>4 DEF Active, Segments, Timelines
<1> QED
  BY <1>1, <1>2

(* Advancing keeps the type, and says where every segment went.            *)
LEMMA AdvanceToShape ==
  ASSUME NEW tl \in Timelines, NEW n \in 0..Len(tl.sched)
  PROVE  LET a == AdvanceTo(tl, n)
         IN  /\ a \in Timelines
             /\ a.cur = IF n = 0 THEN tl.cur ELSE tl.sched[n]
             /\ Len(a.sched) = Len(tl.sched) - n
             /\ \A i \in 1..Len(a.sched) : a.sched[i] = tl.sched[n + i]
             /\ a.rev = tl.rev /\ a.session = tl.session /\ a.part = tl.part
             /\ a.format = tl.format /\ a.health = tl.health
<1>1. CASE n = 0
  BY <1>1 DEF AdvanceTo, Timelines
<1>2. CASE n # 0
  <2> DEFINE rest == SubSeq(tl.sched, n + 1, Len(tl.sched))
  <2>1. tl.sched \in Seq(Segment) /\ Len(tl.sched) \in Nat /\ n \in 1..Len(tl.sched)
    BY <1>2 DEF Timelines
  <2>2. /\ rest \in Seq(Segment)
        /\ Len(rest) = Len(tl.sched) - n
        /\ \A i \in 1..Len(rest) : rest[i] = tl.sched[n + i]
    BY <2>1
  <2>3. tl.sched[n] \in Segment
    BY <2>1
  <2>4. AdvanceTo(tl, n) = [tl EXCEPT !.cur = tl.sched[n], !.sched = rest]
    BY <1>2 DEF AdvanceTo
  <2> HIDE DEF rest
  <2> QED
    BY <1>2, <2>2, <2>3, <2>4 DEF Timelines
<1> QED
  BY <1>1, <1>2

(* The promotion loop removes exactly the leading changes that are due.    *)
LEMMA PromotedRun ==
  ASSUME NEW tl \in Timelines, NEW now \in Int
  PROVE  \E n \in 0..Len(tl.sched) :
           /\ Promote(tl, now) = AdvanceTo(tl, n)
           /\ \A i \in 1..n : tl.sched[i].time <= now
           /\ n < Len(tl.sched) => tl.sched[n + 1].time > now
<1> DEFINE Due == {n \in 0..Len(tl.sched) : \A i \in 1..n : tl.sched[i].time <= now}
           last == Max(Due)
<1>1. tl.sched \in Seq(Segment) /\ Len(tl.sched) \in Nat
  BY DEF Timelines
<1>2. 0 \in Due
  BY <1>1
<1>3. last \in Due /\ \A n \in Due : n <= last
  <2> HIDE DEF Due
  <2>1. Due \in SUBSET (0..Len(tl.sched))
    BY DEF Due
  <2> QED
    BY <1>1, <1>2, <2>1, MaxBounded
<1>4. ASSUME last < Len(tl.sched), tl.sched[last + 1].time <= now
      PROVE  FALSE
  <2> HIDE DEF last
  <2>1. last \in 0..Len(tl.sched) /\ last + 1 \in 0..Len(tl.sched)
    BY <1>1, <1>3, <1>4
  <2>2. \A i \in 1..(last + 1) : i \in 1..last \/ i = last + 1
    BY <2>1
  <2>3. \A i \in 1..(last + 1) : tl.sched[i].time <= now
    BY <1>3, <1>4, <2>2
  <2>4. last + 1 \in Due
    BY <2>1, <2>3
  <2> QED
    BY <1>1, <1>3, <2>1, <2>4
<1>5. last < Len(tl.sched) => tl.sched[last + 1].time > now
  <2> HIDE DEF last
  <2>1. last < Len(tl.sched) => tl.sched[last + 1] \in Segment
    BY <1>1, <1>3
  <2> QED
    BY <1>4, <2>1 DEF Segment
<1>6. Promote(tl, now) = AdvanceTo(tl, last)
  BY DEF Promote
<1> HIDE DEF last
<1> QED
  BY <1>3, <1>5, <1>6

(* With no change due the loop leaves the timeline alone.                  *)
LEMMA NothingToPromote ==
  ASSUME NEW tl \in Timelines, NEW now \in Int,
         tl.sched # <<>> => now < tl.sched[1].time
  PROVE  Promote(tl, now) = tl
<1>1. tl.sched \in Seq(Segment) /\ Len(tl.sched) \in Nat
  BY DEF Timelines
<1>2. PICK n \in 0..Len(tl.sched) :
         /\ Promote(tl, now) = AdvanceTo(tl, n)
         /\ \A i \in 1..n : tl.sched[i].time <= now
  BY PromotedRun
<1>3. n = 0
  <2>1. SUFFICES ASSUME n # 0 PROVE FALSE
    OBVIOUS
  <2>2. 1 \in 1..n /\ tl.sched # <<>> /\ tl.sched[1] \in Segment
    BY <1>1, <2>1
  <2>3. tl.sched[1].time \in Nat
    BY <2>2 DEF Segment
  <2> QED
    BY <1>2, <2>2, <2>3
<1> QED
  BY <1>2, <1>3 DEF AdvanceTo

-----------------------------------------------------------------------------
(* The active anchor precedes the schedule, and each change the next, by   *)
(* number; a change precedes the next in time too.  The active anchor need *)
(* not be earlier than the schedule: in the middle of a leader's pass it   *)
(* may not be, when a sample is as late as a change that is due.           *)
Ascending(t) ==
  /\ \A i \in 1..Len(t.sched) : t.cur.disc < t.sched[i].disc
  /\ \A i, j \in 1..Len(t.sched) :
       i < j => /\ t.sched[i].time < t.sched[j].time
                /\ t.sched[i].disc < t.sched[j].disc

(* What strictly rises from each index to the next rises altogether.       *)
LEMMA RisesThroughout ==
  ASSUME NEW N \in Nat, NEW d \in [0..N -> Nat], \A k \in 1..N : d[k - 1] < d[k],
         NEW i \in 0..N, NEW j \in 0..N, i < j
  PROVE  d[i] < d[j]
<1> DEFINE S == {k \in 0..N : i < k /\ ~(d[i] < d[k])}
<1>1. SUFFICES ASSUME S # {} PROVE FALSE
  OBVIOUS
<1>2. S \in SUBSET Nat
  OBVIOUS
<1>3. PICK m \in S : \A k \in S : m <= k
  <2> HIDE DEF S
  <2> QED
    BY <1>1, <1>2, MinNat
<1>4. m \in 1..N /\ m - 1 \in 0..N /\ m - 1 \notin S /\ i <= m - 1
  BY <1>3
<1>5. i = m - 1 \/ d[i] < d[m - 1]
  BY <1>4
<1>6. d[m - 1] < d[m] /\ d[i] \in Nat /\ d[m - 1] \in Nat /\ d[m] \in Nat
  BY <1>4
<1>7. d[i] < d[m]
  <2> HIDE DEF S
  <2>1. CASE i = m - 1
    BY <1>6, <2>1
  <2>2. CASE d[i] < d[m - 1]
    BY <1>6, <2>2
  <2> QED
    BY <1>5, <2>1, <2>2
<1> QED
  BY <1>3, <1>7

(* A valid snapshot ascends.                                               *)
LEMMA OrderedAscends ==
  ASSUME NEW t \in Timelines, ScheduleOrdered(t)
  PROVE  Ascending(t) /\ \A i \in 1..Len(t.sched) : t.cur.time < t.sched[i].time
<1> DEFINE N == Len(t.sched)
           d == [k \in 0..N |-> IF k = 0 THEN t.cur.disc ELSE t.sched[k].disc]
           e == [k \in 0..N |-> IF k = 0 THEN t.cur.time ELSE t.sched[k].time]
<1>1. /\ N \in Nat /\ t.cur \in Segment
      /\ \A k \in 1..N : t.sched[k] \in Segment
  BY DEF Timelines
<1>2. d \in [0..N -> Nat] /\ e \in [0..N -> Nat]
  BY <1>1 DEF Segment
<1>3. \A k \in 1..N : d[k - 1] < d[k] /\ e[k - 1] < e[k]
  BY <1>1 DEF ScheduleOrdered, Preceding
<1>4. \A i, j \in 0..N : i < j => d[i] < d[j] /\ e[i] < e[j]
  <2> HIDE DEF N, d, e
  <2> QED
    BY <1>1, <1>2, <1>3, RisesThroughout
<1>5. /\ d[0] = t.cur.disc /\ e[0] = t.cur.time
      /\ \A i \in 1..N : d[i] = t.sched[i].disc /\ e[i] = t.sched[i].time
  BY <1>1
<1>6. 0 \in 0..N /\ \A i \in 1..N : 0 < i /\ i \in 0..N
  BY <1>1
<1> HIDE DEF d, e
<1> QED
  BY <1>4, <1>5, <1>6 DEF Ascending

(* A control's discontinuity exceeds the active and every reserved one.    *)
LEMMA FreshDiscAbove ==
  ASSUME NEW t \in Timelines, Ascending(t), NEW time \in Nat
  PROVE  /\ FreshDisc(t, time) \in Nat
         /\ t.cur.disc < FreshDisc(t, time)
         /\ \A i \in 1..Len(t.sched) : t.sched[i].disc < FreshDisc(t, time)
<1> DEFINE tail == IF t.sched = <<>> THEN {} ELSE {LastScheduled(t).disc}
           D == {t.cur.disc, Active(t, time).disc} \cup tail
<1>1. /\ t.cur \in Segment /\ t.sched \in Seq(Segment) /\ Len(t.sched) \in Nat
      /\ t.sched # <<>> => Len(t.sched) \in 1..Len(t.sched)
  BY DEF Timelines
<1>2. Active(t, time) \in Segment
  BY ActiveSegment
<1>3. Active(t, time).disc \in Nat /\ t.cur.disc \in Nat
  BY <1>1, <1>2 DEF Segment
<1>4. \A i \in 1..Len(t.sched) : t.sched[i].disc \in Nat
  <2>1. \A i \in 1..Len(t.sched) : t.sched[i] \in Segment
    BY <1>1
  <2> QED
    BY <2>1 DEF Segment
<1>5. tail \in SUBSET Nat
  BY <1>1, <1>4 DEF LastScheduled
<1>6. \E N \in Nat : D \in SUBSET (0..N)
  <2>1. CASE t.sched = <<>>
    <3>1. D \in SUBSET (0..(t.cur.disc + Active(t, time).disc))
      BY <2>1, <1>3
    <3> QED
      BY <3>1, <1>3
  <2>2. CASE t.sched # <<>>
    <3> DEFINE last == LastScheduled(t).disc
    <3>1. last \in Nat
      BY <2>2, <1>1, <1>4 DEF LastScheduled
    <3>2. D = {t.cur.disc, Active(t, time).disc, last}
      BY <2>2
    <3> HIDE DEF last, D
    <3>3. D \in SUBSET (0..(t.cur.disc + Active(t, time).disc + last))
      BY <3>1, <3>2, <1>3
    <3>4. t.cur.disc + Active(t, time).disc + last \in Nat
      BY <3>1, <1>3
    <3> QED
      BY <3>3, <3>4, Zenon
  <2> QED
    BY <2>1, <2>2
<1>7. t.cur.disc \in D /\ tail \subseteq D /\ D \subseteq Nat
  BY <1>3, <1>5
<1>8. FreshDisc(t, time) = 1 + Max(D)
  BY DEF FreshDisc
<1>9. Max(D) \in D /\ \A d \in D : d <= Max(D)
  <2> HIDE DEF D
  <2> QED
    BY <1>6, <1>7, MaxBounded
<1>10. \A i \in 1..Len(t.sched) : t.sched[i].disc <= Max(D)
  <2>1. SUFFICES ASSUME NEW i \in 1..Len(t.sched)
                 PROVE  t.sched[i].disc <= Max(D)
    OBVIOUS
  <2> DEFINE last == t.sched[Len(t.sched)].disc
  <2>2. Len(t.sched) \in 1..Len(t.sched) /\ t.sched # <<>>
    BY <1>1
  <2>3. last \in tail
    BY <2>2 DEF LastScheduled
  <2>4. i = Len(t.sched) \/ t.sched[i].disc < last
    BY <1>1, <2>2 DEF Ascending
  <2>5. last \in Nat /\ t.sched[i].disc \in Nat
    BY <1>4, <2>2
  <2> HIDE DEF D, tail
  <2>6. last <= Max(D) /\ Max(D) \in Nat
    BY <1>7, <1>9, <2>3
  <2>7. t.sched[i].disc <= last
    BY <2>4, <2>5
  <2> HIDE DEF last
  <2> QED
    BY <2>5, <2>6, <2>7
<1> HIDE DEF D
<1>11. Max(D) \in Nat /\ t.cur.disc <= Max(D)
  BY <1>7, <1>9
<1> QED
  BY <1>3, <1>4, <1>8, <1>10, <1>11

LEMMA ChangedSegmentType ==
  ASSUME NEW t \in Timelines, Ascending(t), NEW time \in Nat, NEW c \in Changes
  PROVE  ChangedSegment(t, c, time) \in Segment
<1>1. FreshDisc(t, time) \in Nat
  BY FreshDiscAbove
<1>2. Active(t, time) \in Segment
  BY ActiveSegment
<1>3. At(Active(t, time), time) \in Int
  BY <1>2 DEF At, Segment
<1>4. c.pos \in Int /\ c.rate \in Int
  BY DEF Changes
<1> QED
  BY <1>1, <1>2, <1>3, <1>4 DEF ChangedSegment, Segment
-----------------------------------------------------------------------------
(* A control keeps the type and the order of the timeline.                 *)
LEMMA ChangeTimelineShape ==
  ASSUME NEW t \in Timelines, Ascending(t), NEW time \in Nat, NEW at \in Nat,
         NEW c \in Changes, ChangeAccepted(t, time, at),
         t.cur.time <= at, Len(t.sched) <= MAX_SCHEDULED
  PROVE  LET n == ChangeTimeline(t, c, time, at)
         IN  /\ n \in Timelines
             /\ Ascending(n)
             /\ n.rev = t.rev
             /\ n.cur.time <= at
             /\ Len(n.sched) <= MAX_SCHEDULED
<1> DEFINE new == ChangedSegment(t, c, time)
<1>1. t.cur \in Segment /\ t.sched \in Seq(Segment) /\ Len(t.sched) \in Nat
  BY DEF Timelines
<1>2. new \in Segment /\ new.disc = FreshDisc(t, time) /\ new.time = time
  BY ChangedSegmentType DEF ChangedSegment
<1>3. /\ t.cur.disc < new.disc
      /\ \A i \in 1..Len(t.sched) : t.sched[i].disc < new.disc
  BY <1>2, FreshDiscAbove
<1>4. CASE time > at
  <2> DEFINE later == Append(t.sched, new)
  <2>1. ChangeTimeline(t, c, time, at) = [t EXCEPT !.sched = later]
    BY <1>4 DEF ChangeTimeline
  <2>2. /\ later \in Seq(Segment) /\ Len(later) = Len(t.sched) + 1
        /\ \A i \in 1..Len(t.sched) : later[i] = t.sched[i]
        /\ later[Len(t.sched) + 1] = new
    BY <1>1, <1>2
  <2>3. Len(t.sched) < MAX_SCHEDULED
    BY <1>4 DEF ChangeAccepted
  <2>4. \A i \in 1..Len(t.sched) : t.sched[i].time < new.time
    <3>1. SUFFICES ASSUME NEW i \in 1..Len(t.sched) PROVE t.sched[i].time < time
      BY <1>2
    <3>2. t.sched # <<>> /\ Len(t.sched) \in 1..Len(t.sched)
      BY <1>1
    <3>3. t.sched[Len(t.sched)].time < time
      BY <1>4, <3>2 DEF ChangeAccepted, LastScheduled
    <3>4. i = Len(t.sched) \/ t.sched[i].time < t.sched[Len(t.sched)].time
      BY <1>1, <3>2 DEF Ascending
    <3>5. t.sched[i] \in Segment /\ t.sched[Len(t.sched)] \in Segment
      BY <1>1, <3>2
    <3>6. t.sched[i].time \in Nat /\ t.sched[Len(t.sched)].time \in Nat
      BY <3>5 DEF Segment
    <3> QED
      BY <3>3, <3>4, <3>6
  <2> HIDE DEF later, new
  <2> DEFINE n == [t EXCEPT !.sched = later]
  <2>5. n \in Timelines /\ n.sched = later /\ n.cur = t.cur /\ n.rev = t.rev
    BY <2>2 DEF Timelines
  <2>6. Len(n.sched) <= MAX_SCHEDULED
    BY <1>1, <2>2, <2>3, <2>5, MaxScheduledAssumption
  <2>7. Ascending(n)
    <3> HIDE DEF n
    <3>1. \A i \in 1..Len(later) : i \in 1..Len(t.sched) \/ i = Len(t.sched) + 1
      BY <1>1, <2>2
    <3>2. \A i \in 1..Len(later) : t.cur.disc < later[i].disc
      BY <1>3, <2>2, <3>1 DEF Ascending
    <3>3. ASSUME NEW i \in 1..Len(later), NEW j \in 1..Len(later), i < j
          PROVE  later[i].time < later[j].time /\ later[i].disc < later[j].disc
      <4>1. i \in 1..Len(t.sched)
        BY <1>1, <2>2, <3>3
      <4>2. CASE j \in 1..Len(t.sched)
        BY <2>2, <3>3, <4>1, <4>2 DEF Ascending
      <4>3. CASE j = Len(t.sched) + 1
        BY <1>3, <2>2, <2>4, <4>1, <4>3
      <4> QED
        BY <3>1, <4>2, <4>3
    <3> QED
      BY <2>5, <3>2, <3>3 DEF Ascending
  <2> HIDE DEF n
  <2> QED
    BY <2>1, <2>5, <2>6, <2>7 DEF n
<1>5. CASE ~(time > at)
  <2> DEFINE n == [t EXCEPT !.cur = new, !.sched = <<>>]
  <2>1. ChangeTimeline(t, c, time, at) = n
    BY <1>5 DEF ChangeTimeline
  <2> HIDE DEF new
  <2>2. n \in Timelines /\ n.cur = new /\ n.sched = <<>> /\ n.rev = t.rev
    <3>1. <<>> \in Seq(Segment)
      OBVIOUS
    <3> QED
      BY <1>2, <3>1 DEF Timelines
  <2>3. n.cur.time <= at
    BY <1>2, <1>5, <2>2
  <2> HIDE DEF n
  <2>4. Ascending(n) /\ Len(n.sched) <= MAX_SCHEDULED
    BY <2>2, MaxScheduledAssumption DEF Ascending
  <2> QED
    BY <2>1, <2>2, <2>3, <2>4
<1> QED
  BY <1>4, <1>5

(* What advancing by leading changes keeps, and where every segment went:  *)
(* what left has a lower number than all that stayed.                      *)
LEMMA AdvancedSegments ==
  ASSUME NEW t \in Timelines, Ascending(t), NEW n \in 0..Len(t.sched),
         NEW p, p = AdvanceTo(t, n)
  PROVE  /\ Ascending(p)
         /\ p.cur \in Segments(t)
         /\ t.cur.disc <= p.cur.disc
         /\ \A x \in Segments(p) : x \in Segments(t)
         /\ \A x \in Segments(t) : x \in Segments(p) \/ x.disc < p.cur.disc
<1>1. n \in Nat /\ n <= Len(t.sched)
  BY DEF Timelines
<1>2. /\ t.cur \in Segment /\ t.sched \in Seq(Segment) /\ Len(t.sched) \in Nat
      /\ \A i \in 1..Len(t.sched) : t.sched[i] \in Segment
  BY DEF Timelines
<1>3. \A i \in 1..Len(t.sched) : t.sched[i].disc \in Nat /\ t.sched[i].time \in Nat
  BY <1>2 DEF Segment
<1>4. /\ p \in Timelines
      /\ p.cur = IF n = 0 THEN t.cur ELSE t.sched[n]
      /\ Len(p.sched) = Len(t.sched) - n
      /\ \A i \in 1..Len(p.sched) : p.sched[i] = t.sched[n + i]
  BY AdvanceToShape
<1>6. \A i \in 1..Len(p.sched) : n + i \in 1..Len(t.sched)
  BY <1>1, <1>2, <1>4
<1>7. Ascending(p)
  <2>1. ASSUME NEW i \in 1..Len(p.sched) PROVE p.cur.disc < p.sched[i].disc
    <3>1. CASE n = 0
      BY <1>4, <1>6, <3>1 DEF Ascending
    <3>2. CASE n # 0
      <4>1. n \in 1..Len(t.sched) /\ n < n + i
        BY <1>1, <1>2, <1>4, <3>2
      <4> QED
        BY <1>4, <1>6, <3>2, <4>1 DEF Ascending
    <3> QED
      BY <3>1, <3>2
  <2>2. ASSUME NEW i \in 1..Len(p.sched), NEW j \in 1..Len(p.sched), i < j
        PROVE  p.sched[i].time < p.sched[j].time /\ p.sched[i].disc < p.sched[j].disc
    <3>1. n + i < n + j
      BY <1>1, <2>2
    <3> QED
      BY <1>4, <1>6, <3>1 DEF Ascending
  <2> QED
    BY <2>1, <2>2 DEF Ascending
<1>10. p.cur \in Segments(t) /\ t.cur.disc <= p.cur.disc
  <2>1. CASE n = 0
    <3>1. t.cur.disc \in Nat
      BY <1>2 DEF Segment
    <3> QED
      BY <1>4, <2>1, <3>1 DEF Segments
  <2>2. CASE n # 0
    <3>1. n \in 1..Len(t.sched)
      BY <1>1, <1>2, <2>2
    <3>2. t.cur.disc \in Nat /\ t.sched[n].disc \in Nat
      BY <1>2, <1>3, <3>1 DEF Segment
    <3> QED
      BY <1>4, <2>2, <3>1, <3>2 DEF Segments, Ascending
  <2> QED
    BY <2>1, <2>2
<1>11. \A x \in Segments(p) : x \in Segments(t)
  BY <1>4, <1>6, <1>10 DEF Segments
<1>12. ASSUME NEW x \in Segments(t) PROVE x \in Segments(p) \/ x.disc < p.cur.disc
  <2>1. CASE n = 0
    <3>1. \A i \in 1..Len(t.sched) : i \in 1..Len(p.sched) /\ p.sched[i] = t.sched[i]
      BY <1>2, <1>4, <2>1
    <3> QED
      BY <1>4, <2>1, <3>1 DEF Segments
  <2>2. CASE n # 0
    <3>1. n \in 1..Len(t.sched) /\ p.cur = t.sched[n]
      BY <1>1, <1>2, <1>4, <2>2
    <3>2. CASE x = t.cur
      BY <3>1, <3>2 DEF Ascending
    <3>3. ASSUME NEW i \in 1..Len(t.sched), x = t.sched[i]
          PROVE  x \in Segments(p) \/ x.disc < p.cur.disc
      <4>1. CASE i < n
        BY <3>1, <3>3, <4>1 DEF Ascending
      <4>2. CASE i = n
        BY <3>1, <3>3, <4>2 DEF Segments
      <4>3. CASE i > n
        <5>1. i - n \in 1..Len(p.sched) /\ n + (i - n) = i
          BY <1>1, <1>2, <1>4, <4>3
        <5>2. p.sched[i - n] = t.sched[i]
          BY <1>4, <5>1
        <5> QED
          BY <3>3, <5>1, <5>2 DEF Segments
      <4> QED
        BY <1>1, <1>2, <4>1, <4>2, <4>3
    <3> QED
      BY <3>2, <3>3 DEF Segments
  <2> QED
    BY <2>1, <2>2
<1> QED
  BY <1>7, <1>10, <1>11, <1>12

(* After the promotion loop no change is due, so that the active anchor,   *)
(* which is never in the future, precedes the schedule: this is what       *)
(* validate_snapshot asks.  A segment that left has a lower number.        *)
LEMMA PromotedShape ==
  ASSUME NEW t \in Timelines, NEW at \in Nat, Ascending(t), t.cur.time <= at,
         Len(t.sched) <= MAX_SCHEDULED
  PROVE  LET p == Promote(t, at)
         IN  /\ p \in Timelines
             /\ Ascending(p)
             /\ ScheduleOrdered(p)
             /\ p.rev = t.rev /\ p.session = t.session /\ p.format = t.format
             /\ p.cur.time <= at
             /\ Len(p.sched) <= MAX_SCHEDULED
             /\ p.cur \in Segments(t)
             /\ t.cur.disc <= p.cur.disc
             /\ \A x \in Segments(p) : x \in Segments(t)
             /\ \A x \in Segments(t) : x \in Segments(p) \/ x.disc < p.cur.disc
<1> DEFINE p == Promote(t, at)
<1>1. PICK n \in 0..Len(t.sched) :
         /\ p = AdvanceTo(t, n)
         /\ \A i \in 1..n : t.sched[i].time <= at
         /\ n < Len(t.sched) => t.sched[n + 1].time > at
  BY PromotedRun
<1>2. /\ t.cur \in Segment /\ t.sched \in Seq(Segment) /\ Len(t.sched) \in Nat
      /\ \A i \in 1..Len(t.sched) : t.sched[i] \in Segment
  BY DEF Timelines
<1>3. \A i \in 1..Len(t.sched) : t.sched[i].disc \in Nat /\ t.sched[i].time \in Nat
  BY <1>2 DEF Segment
<1> HIDE DEF p
<1>4. /\ p \in Timelines
      /\ p.cur = IF n = 0 THEN t.cur ELSE t.sched[n]
      /\ Len(p.sched) = Len(t.sched) - n
      /\ \A i \in 1..Len(p.sched) : p.sched[i] = t.sched[n + i]
      /\ p.rev = t.rev /\ p.session = t.session /\ p.format = t.format
  BY <1>1, AdvanceToShape
<1>5. p.cur.time <= at /\ Len(p.sched) <= MAX_SCHEDULED
  BY <1>1, <1>2, <1>4, MaxScheduledAssumption
<1>6. \A i \in 1..Len(p.sched) : n + i \in 1..Len(t.sched)
  BY <1>1, <1>2, <1>4
<1>7. /\ Ascending(p) /\ p.cur \in Segments(t) /\ t.cur.disc <= p.cur.disc
      /\ \A x \in Segments(p) : x \in Segments(t)
      /\ \A x \in Segments(t) : x \in Segments(p) \/ x.disc < p.cur.disc
  BY <1>1, AdvancedSegments
<1>8. \A i \in 1..Len(p.sched) : at < p.sched[i].time
  <2>1. SUFFICES ASSUME NEW i \in 1..Len(p.sched) PROVE at < t.sched[n + i].time
    BY <1>4
  <2>2. n + 1 \in 1..Len(t.sched) /\ n < Len(t.sched)
    BY <1>1, <1>2, <1>4
  <2>3. at < t.sched[n + 1].time
    BY <1>1, <2>2
  <2>4. i = 1 \/ n + 1 < n + i
    BY <1>1
  <2>5. i = 1 \/ t.sched[n + 1].time < t.sched[n + i].time
    BY <1>6, <2>2, <2>4 DEF Ascending
  <2> QED
    BY <1>3, <1>6, <2>2, <2>3, <2>5
<1>9. ScheduleOrdered(p)
  <2>1. SUFFICES ASSUME NEW i \in 1..Len(p.sched)
                 PROVE  /\ Preceding(p, i).time < p.sched[i].time
                        /\ Preceding(p, i).disc < p.sched[i].disc
    BY DEF ScheduleOrdered
  <2>2. CASE i = 1
    <3>1. p.cur \in Segment /\ p.sched[i] \in Segment
      BY <1>4 DEF Timelines
    <3>2. p.cur.time \in Nat /\ p.sched[i].time \in Nat
      BY <3>1 DEF Segment
    <3> QED
      BY <1>5, <1>7, <1>8, <2>2, <3>2 DEF Preceding, Ascending
  <2>3. CASE i # 1
    <3>1. i - 1 \in 1..Len(p.sched) /\ i - 1 < i
      BY <2>3, <1>2, <1>4
    <3> QED
      BY <1>7, <2>3, <3>1 DEF Preceding, Ascending
  <2> QED
    BY <2>2, <2>3
<1> QED
  BY <1>4, <1>5, <1>7, <1>9 DEF p

-----------------------------------------------------------------------------
(* What snapshots of one leader have to do with each other while only      *)
(* controls have moved its anchor: u is a later state of the timeline a.   *)
(* What a shows, u shows too or is past; what u shows is in a or was       *)
(* numbered after all of a.                                                *)
Succeeds(u, a) ==
  /\ a.cur.disc <= u.cur.disc
  /\ \A s \in Segments(a) : s \in Segments(u) \/ s.disc < u.cur.disc
  /\ \A r \in Segments(u) : r \in Segments(a) \/ \A s \in Segments(a) : s.disc < r.disc

(* The same, when a may have been advanced ahead of u.                     *)
Covers(u, a) ==
  /\ \A s \in Segments(a) : s \in Segments(u) \/ s.disc < u.cur.disc
  /\ \A r \in Segments(u) :
       \/ r \in Segments(a)
       \/ r.disc < a.cur.disc
       \/ \A s \in Segments(a) : s.disc < r.disc

LEMMA SegmentNumbers ==
  ASSUME NEW t \in Timelines
  PROVE  /\ Segments(t) \subseteq Segment /\ t.cur \in Segments(t) /\ t.cur.disc \in Nat
         /\ \A s \in Segments(t) : s.disc \in Nat /\ s.time \in Nat
         /\ Ascending(t) => \A s \in Segments(t) : t.cur.disc <= s.disc
<1>1. Segments(t) \subseteq Segment /\ t.cur \in Segments(t)
  BY DEF Segments, Timelines
<1>2. /\ t.cur.disc \in Nat
      /\ \A s \in Segments(t) : s.disc \in Nat /\ s.time \in Nat
  BY <1>1 DEF Segment
<1>3. ASSUME Ascending(t), NEW s \in Segments(t) PROVE t.cur.disc <= s.disc
  <2>1. s = t.cur \/ \E i \in 1..Len(t.sched) : s = t.sched[i]
    BY DEF Segments
  <2>2. s = t.cur \/ t.cur.disc < s.disc
    BY <1>3, <2>1 DEF Ascending
  <2> QED
    BY <1>2, <2>2
<1> QED
  BY <1>1, <1>2, <1>3

(* A number names one segment of a timeline, and a higher one in the       *)
(* schedule is later.                                                      *)
LEMMA NumbersName ==
  ASSUME NEW t \in Timelines, Ascending(t), NEW r \in Segments(t), NEW s \in Segments(t),
         r.disc = s.disc
  PROVE  r = s
<1>1. /\ r = t.cur \/ \E i \in 1..Len(t.sched) : r = t.sched[i]
      /\ s = t.cur \/ \E i \in 1..Len(t.sched) : s = t.sched[i]
  BY DEF Segments
<1>2. r.disc \in Nat /\ s.disc \in Nat /\ Len(t.sched) \in Nat
  BY SegmentNumbers DEF Timelines
<1>3. ASSUME NEW i \in 1..Len(t.sched), NEW j \in 1..Len(t.sched),
             r = t.sched[i], s = t.sched[j]
      PROVE  r = s
  <2>1. ~(i < j) /\ ~(j < i)
    BY <1>2, <1>3 DEF Ascending
  <2> QED
    BY <1>3, <2>1
<1>4. ASSUME NEW i \in 1..Len(t.sched) PROVE ~(t.cur.disc = t.sched[i].disc)
  <2>1. t.cur.disc < t.sched[i].disc /\ t.cur.disc \in Nat
    BY SegmentNumbers DEF Ascending
  <2>2. t.sched[i] \in Segments(t)
    BY DEF Segments
  <2>3. t.sched[i].disc \in Nat
    BY <2>2, SegmentNumbers
  <2> QED
    BY <2>1, <2>3
<1> QED
  BY <1>1, <1>3, <1>4

LEMMA SucceedsItself ==
  ASSUME NEW t \in Timelines
  PROVE  Succeeds(t, t)
BY SegmentNumbers DEF Succeeds

LEMMA SucceedsCovers ==
  ASSUME NEW u, NEW a, Succeeds(u, a)
  PROVE  Covers(u, a)
BY DEF Succeeds, Covers

LEMMA CoversOnward ==
  ASSUME NEW u \in Timelines, NEW b \in Timelines, NEW a \in Timelines,
         Succeeds(u, b), Covers(b, a)
  PROVE  Covers(u, a)
<1>1. /\ u.cur.disc \in Nat /\ b.cur.disc \in Nat /\ b.cur.disc <= u.cur.disc
      /\ b.cur \in Segments(b)
      /\ \A s \in Segments(a) : s.disc \in Nat
      /\ \A s \in Segments(b) : s.disc \in Nat
      /\ \A s \in Segments(u) : s.disc \in Nat
  BY SegmentNumbers DEF Succeeds
<1>2. ASSUME NEW s \in Segments(a) PROVE s \in Segments(u) \/ s.disc < u.cur.disc
  <2>1. s \in Segments(b) \/ s.disc < b.cur.disc
    BY DEF Covers
  <2>2. s \in Segments(b) => s \in Segments(u) \/ s.disc < u.cur.disc
    BY DEF Succeeds
  <2> QED
    BY <1>1, <2>1, <2>2
<1>3. ASSUME NEW r \in Segments(u), r \notin Segments(b), NEW s \in Segments(a)
      PROVE  s.disc < r.disc
  <2>1. \A x \in Segments(b) : x.disc < r.disc
    BY <1>3 DEF Succeeds
  <2>2. s \in Segments(b) \/ s.disc < b.cur.disc
    BY DEF Covers
  <2> QED
    BY <1>1, <2>1, <2>2
<1> QED
  BY <1>2, <1>3 DEF Covers

LEMMA SucceedsOnward ==
  ASSUME NEW u \in Timelines, NEW b \in Timelines, NEW a \in Timelines, Ascending(b),
         Succeeds(u, b), Succeeds(b, a)
  PROVE  Succeeds(u, a)
<1>1. Covers(u, a)
  BY SucceedsCovers, CoversOnward
<1>2. a.cur.disc <= u.cur.disc
  <2>1. a.cur.disc \in Nat /\ b.cur.disc \in Nat /\ u.cur.disc \in Nat
    BY SegmentNumbers
  <2> QED
    BY <2>1 DEF Succeeds
<1>3. ASSUME NEW r \in Segments(u), r \notin Segments(a), NEW s \in Segments(a)
      PROVE  s.disc < r.disc
  <2>1. CASE r \in Segments(b)
    BY <1>3, <2>1 DEF Succeeds
  <2>2. CASE r \notin Segments(b)
    <3>1. \A x \in Segments(b) : x.disc < r.disc
      BY <2>2 DEF Succeeds
    <3>2. s \in Segments(b) \/ s.disc < b.cur.disc
      BY DEF Succeeds
    <3>3. b.cur \in Segments(b) /\ s.disc \in Nat /\ r.disc \in Nat /\ b.cur.disc \in Nat
      BY SegmentNumbers
    <3> QED
      BY <3>1, <3>2, <3>3
  <2> QED
    BY <2>1, <2>2
<1> QED
  BY <1>1, <1>2, <1>3 DEF Succeeds, Covers

(* Applying leading changes early, as a follower may, loses nothing.       *)
LEMMA CoversAdvanced ==
  ASSUME NEW u \in Timelines, NEW a \in Timelines, Ascending(a), Covers(u, a),
         NEW n \in 0..Len(a.sched), NEW p, p = AdvanceTo(a, n)
  PROVE  Covers(u, p)
<1>1. /\ p \in Timelines /\ Ascending(p) /\ p.cur \in Segments(a)
      /\ a.cur.disc <= p.cur.disc
      /\ \A x \in Segments(p) : x \in Segments(a)
      /\ \A x \in Segments(a) : x \in Segments(p) \/ x.disc < p.cur.disc
  BY AdvancedSegments, AdvanceToShape
<1>2. /\ a.cur.disc \in Nat /\ p.cur.disc \in Nat
      /\ \A s \in Segments(u) : s.disc \in Nat
  BY <1>1, SegmentNumbers
<1> QED
  BY <1>1, <1>2 DEF Covers

(* A change of one number in two snapshots is one change.                  *)
LEMMA CoversAgrees ==
  ASSUME NEW u \in Timelines, NEW a \in Timelines, Ascending(a), Covers(u, a),
         NEW r \in Segments(u), NEW s \in Segments(a), r.disc = s.disc
  PROVE  r = s
<1>1. a.cur.disc <= s.disc /\ a.cur.disc \in Nat /\ s.disc \in Nat
  BY SegmentNumbers
<1>2. r \in Segments(a)
  BY <1>1 DEF Covers
<1> QED
  BY <1>2, NumbersName

-----------------------------------------------------------------------------
(* A control and a promotion lead to a later state.                        *)
LEMMA ChangeSucceeds ==
  ASSUME NEW t \in Timelines, Ascending(t), NEW time \in Nat, NEW at \in Nat,
         NEW c \in Changes, NEW n, n = ChangeTimeline(t, c, time, at)
  PROVE  n.session = t.session /\ n.rev = t.rev /\ n.format = t.format /\ Succeeds(n, t)
<1>1. PICK new : new = ChangedSegment(t, c, time)
  OBVIOUS
<1>2. t.cur \in Segment /\ t.sched \in Seq(Segment) /\ Len(t.sched) \in Nat
  BY DEF Timelines
<1>3. new \in Segment /\ new.disc = FreshDisc(t, time)
  BY <1>1, ChangedSegmentType DEF ChangedSegment
<1>4. /\ t.cur.disc < new.disc /\ t.cur.disc \in Nat /\ new.disc \in Nat
      /\ \A s \in Segments(t) : s.disc < new.disc
  BY <1>3, FreshDiscAbove, SegmentNumbers DEF Segments, Segment
<1>5. CASE time > at
  <2>1. n = [t EXCEPT !.sched = Append(t.sched, new)]
    BY <1>1, <1>5 DEF ChangeTimeline
  <2>2. n.cur = t.cur /\ n.sched = Append(t.sched, new)
        /\ n.session = t.session /\ n.rev = t.rev /\ n.format = t.format
    BY <2>1 DEF Timelines
  <2>3. /\ Len(n.sched) = Len(t.sched) + 1 /\ n.sched[Len(t.sched) + 1] = new
        /\ \A i \in 1..Len(t.sched) : n.sched[i] = t.sched[i]
    BY <1>2, <1>3, <2>2
  <2>4. /\ \A s \in Segments(t) : s \in Segments(n)
        /\ \A r \in Segments(n) : r \in Segments(t) \/ r = new
    <3>1. \A i \in 1..Len(n.sched) : i \in 1..Len(t.sched) \/ i = Len(t.sched) + 1
      BY <1>2, <2>3
    <3>2. \A i \in 1..Len(t.sched) : i \in 1..Len(n.sched)
      BY <1>2, <2>3
    <3> QED
      BY <2>2, <2>3, <3>1, <3>2 DEF Segments
  <2> QED
    BY <1>4, <2>2, <2>4 DEF Succeeds
<1>6. CASE ~(time > at)
  <2>1. n = [t EXCEPT !.cur = new, !.sched = <<>>]
    BY <1>1, <1>6 DEF ChangeTimeline
  <2>2. n.cur = new /\ n.sched = <<>>
        /\ n.session = t.session /\ n.rev = t.rev /\ n.format = t.format
    BY <2>1 DEF Timelines
  <2>3. Segments(n) = {new}
    BY <2>2 DEF Segments
  <2> QED
    BY <1>4, <2>2, <2>3 DEF Succeeds
<1> QED
  BY <1>5, <1>6

LEMMA PromotionSucceeds ==
  ASSUME NEW t \in Timelines, Ascending(t), NEW at \in Nat, NEW p, p = Promote(t, at)
  PROVE  p.session = t.session /\ p.rev = t.rev /\ p.format = t.format /\ Succeeds(p, t)
<1>1. PICK n \in 0..Len(t.sched) : p = AdvanceTo(t, n)
  BY PromotedRun
<1>2. p.session = t.session /\ p.rev = t.rev /\ p.format = t.format
  BY <1>1, AdvanceToShape
<1> QED
  BY <1>1, <1>2, AdvancedSegments DEF Succeeds

-----------------------------------------------------------------------------
(* Latching is advancing by some number of leading changes, and reaches    *)
(* every change numbered up to the one named.                              *)
LEMMA LatchReaches ==
  ASSUME NEW t \in Timelines, Ascending(t), NEW disc \in Nat
  PROVE  \E n \in 0..Len(t.sched) :
           /\ Latch(t, disc) = AdvanceTo(t, n)
           /\ \A s \in Segments(t) :
                s.disc <= disc => s.disc <= AdvanceTo(t, n).cur.disc
<1> DEFINE Run == {n \in 0..Len(t.sched) : \A i \in 1..n : t.sched[i].disc <= disc}
<1>1. Len(t.sched) \in Nat
  BY DEF Timelines
<1>2. Run \in SUBSET (0..Len(t.sched)) /\ 0 \in Run
  BY <1>1
<1>3. PICK n \in Run : n = Max(Run) /\ \A k \in Run : k <= n
  <2> HIDE DEF Run
  <2> QED
    BY <1>1, <1>2, MaxBounded
<1>4. Latch(t, disc) = AdvanceTo(t, n)
  BY <1>3 DEF Latch
<1>5. n \in 0..Len(t.sched)
  BY <1>2
<1>6. PICK p : p = AdvanceTo(t, n)
  OBVIOUS
<1>7. /\ p \in Timelines
      /\ p.cur = IF n = 0 THEN t.cur ELSE t.sched[n]
      /\ t.cur.disc <= p.cur.disc
  BY <1>5, <1>6, AdvanceToShape, AdvancedSegments
<1>8. ASSUME NEW s \in Segments(t), s.disc <= disc PROVE s.disc <= p.cur.disc
  <2>1. CASE s = t.cur
    BY <1>7, <2>1
  <2>2. ASSUME NEW i \in 1..Len(t.sched), s = t.sched[i] PROVE s.disc <= p.cur.disc
    <3>1. \A k \in 1..Len(t.sched) : t.sched[k] \in Segments(t)
      BY DEF Segments
    <3>2. \A k \in 1..Len(t.sched) : t.sched[k].disc \in Nat
      BY <3>1, SegmentNumbers
    <3>3. \A k \in 1..i : k \in 1..Len(t.sched) /\ (k = i \/ t.sched[k].disc < t.sched[i].disc)
      BY <1>1 DEF Ascending
    <3>4. \A k \in 1..i : t.sched[k].disc <= disc
      BY <1>8, <2>2, <3>2, <3>3
    <3>5. i \in Run
      BY <1>1, <3>4
    <3>6. i <= n
      BY <1>3, <3>5
    <3>7. n \in 1..Len(t.sched) /\ p.cur = t.sched[n]
      BY <1>1, <1>5, <1>7, <3>6
    <3>8. i = n \/ t.sched[i].disc < t.sched[n].disc
      BY <3>6, <3>7 DEF Ascending
    <3> QED
      BY <2>2, <3>2, <3>7, <3>8
  <2> QED
    BY <2>1, <2>2 DEF Segments
<1> QED
  BY <1>4, <1>5, <1>6, <1>8
=============================================================================
