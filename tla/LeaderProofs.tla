---------------------------- MODULE LeaderProofs ----------------------------
(***************************************************************************)
(* The leader's invariants hold for every capacity, clock bound, set of    *)
(* controls and set of samples; what an answered call promises the readers *)
(* of its job, and that slots serve the readers that live, for any number  *)
(* of threads and slots.                                                   *)
(***************************************************************************)
EXTENDS Leader, Readers, TimelineProofs, FiniteSetTheorems, SequenceTheorems

(* What the promotion loop and the validation rest on: the schedule rises, *)
(* and no anchor is in the future.                                         *)
OrderInv ==
  /\ tl.rev # 0
  /\ Len(tl.sched) <= MAX_SCHEDULED
  /\ Ascending(tl)
  /\ tl.cur.time <= now

IInv == TypeOK /\ OrderInv /\ PublishedValid

(* Every published segment is still in the timeline or has a lower number  *)
(* than everything that is.                                                *)
Unambiguous == \A a, b \in names : a.disc = b.disc => a = b

NamesInv ==
  /\ Unambiguous
  /\ \A n \in names : n.disc < tl.cur.disc \/ n \in Segments(tl)

-----------------------------------------------------------------------------
LEMMA TrackedMemoryType ==
  ASSUME NEW r \in Trackers, NEW t \in Timelines, NEW s \in Samples, NEW at \in Nat,
         SampleAccepted(r, s, at)
  PROVE  /\ TrackedMemory(r, t, s) \in Trackers
         /\ Speed(r, t, s) \in Int
         /\ PositionError(t, s) \in Int
<1>1. s.time \in Nat /\ s.pos \in Int /\ s.hint \in Int \cup {NONE}
  BY DEF Samples
<1>2. t.cur \in Segment
  BY DEF Timelines
<1>3. t.cur.rate \in Int /\ t.cur.pos \in Int /\ t.cur.time \in Nat
  BY <1>2 DEF Segment
<1>4. /\ r.last = NONE \/ r.last \in [time : Nat, pos : Int]
      /\ r.cand \in Int \cup {NONE} /\ r.count \in Nat /\ r.jumps \in Nat
      /\ r.sign \in {-1, 0, 1}
  BY DEF Trackers
<1>5. Speed(r, t, s) \in Int
  <2>1. CASE r.last # NONE
    <3>1. r.last.time \in Nat /\ r.last.pos \in Int /\ r.last.time < s.time
      BY <1>4, <2>1 DEF SampleAccepted
    <3>2. (s.pos - r.last.pos) \div (s.time - r.last.time) \in Int
      BY <1>1, <3>1
    <3> QED
      BY <1>1, <2>1, <3>2 DEF Speed
  <2>2. CASE r.last = NONE
    BY <1>1, <1>3, <2>2 DEF Speed
  <2> QED
    BY <2>1, <2>2
<1>6. PositionError(t, s) \in Int
  BY <1>1, <1>3 DEF PositionError, At
<1>7. Jumps(r, t, s) \in Nat
  BY <1>4 DEF Jumps
<1>8. Agreeing(r, t, s) \in Nat
  BY <1>4 DEF Agreeing
<1>9. NextSign(r, t, s) \in {-1, 0, 1}
  BY <1>4 DEF NextSign, Sign
<1> QED
  BY <1>1, <1>5, <1>6, <1>7, <1>8, <1>9 DEF TrackedMemory, Trackers

(* A sample leaves the order of the schedule alone or empties it.          *)
LEMMA TrackedTimelineShape ==
  ASSUME NEW r \in Trackers, NEW t \in Timelines, NEW s \in Samples, NEW at \in Nat,
         SampleAccepted(r, s, at), Ascending(t), Len(t.sched) <= MAX_SCHEDULED
  PROVE  LET n == TrackedTimeline(r, t, s)
         IN  /\ n \in Timelines
             /\ Ascending(n)
             /\ n.rev = t.rev
             /\ n.cur.time <= at
             /\ Len(n.sched) <= MAX_SCHEDULED
<1> DEFINE changed == Discontinuous(r, t, s)
           n == TrackedTimeline(r, t, s)
<1>1. t.cur \in Segment /\ t.sched \in Seq(Segment) /\ <<>> \in Seq(Segment)
  BY DEF Timelines
<1>2. s.time \in Nat /\ s.pos \in Int /\ s.time <= at
  BY DEF Samples, SampleAccepted
<1>3. t.cur.disc \in Nat /\ t.cur.rate \in Int /\ t.cur.pos \in Int /\ t.cur.time \in Nat
  BY <1>1 DEF Segment
<1>4. At(t.cur, s.time) \in Int
  BY <1>2, <1>3 DEF At
<1>5. NextRate(r, t, s) \in Int
  <2>1. Speed(r, t, s) \in Int
    BY TrackedMemoryType
  <2> QED
    BY <1>3, <2>1 DEF NextRate
<1>6. Nudge(PositionError(t, s)) \in Int
  <2> DEFINE e == PositionError(t, s)
             bounded == IF Abs(e) * 10 > FRAME THEN FRAME \div 10 ELSE Abs(e)
  <2>1. e \in Int
    BY TrackedMemoryType
  <2> HIDE DEF e
  <2>2. FRAME \div 10 \in Int /\ Abs(e) \in Int
    BY <2>1, TrackerAssumption DEF Abs
  <2>3. bounded \in Int
    BY <2>2
  <2>4. Nudge(e) = Sign(e) * (bounded \div 5)
    BY DEF Nudge
  <2> HIDE DEF bounded
  <2>5. bounded \div 5 \in Int /\ Sign(e) \in {-1, 1}
    BY <2>3 DEF Sign
  <2>6. Sign(e) * (bounded \div 5) \in Int
    BY <2>5
  <2> QED
    BY <2>4, <2>6 DEF e
<1>7. /\ n.cur \in Segment
      /\ n.cur.time = s.time
      /\ n.cur.disc = IF changed THEN t.cur.disc + 1 ELSE t.cur.disc
  <2> DEFINE p == IF changed THEN s.pos ELSE At(t.cur, s.time) + Nudge(PositionError(t, s))
             d == IF changed THEN t.cur.disc + 1 ELSE t.cur.disc
  <2>1. p \in Int /\ d \in Nat
    BY <1>2, <1>3, <1>4, <1>6
  <2>2. n.cur = [disc |-> d, time |-> s.time, pos |-> p, rate |-> NextRate(r, t, s)]
    <3>1. "cur" \in DOMAIN t
      BY DEF Timelines
    <3> QED
      BY <3>1 DEF TrackedTimeline
  <2> HIDE DEF p, d, n
  <2>3. n.cur \in Segment /\ n.cur.time = s.time /\ n.cur.disc = d
    BY <1>2, <1>5, <2>1, <2>2 DEF Segment
  <2> QED
    BY <2>3 DEF d
<1>8. /\ n.sched = IF changed THEN <<>> ELSE t.sched
      /\ n.rev = t.rev
  BY DEF TrackedTimeline, Timelines
<1>9. n \in Timelines
  <2>1. n = [t EXCEPT !.cur = n.cur, !.health = "Healthy", !.sched = n.sched]
    BY DEF TrackedTimeline, Timelines
  <2>2. n.sched \in Seq(Segment)
    BY <1>1, <1>8
  <2> HIDE DEF n
  <2>3. n.cur \in Segment
    BY <1>7
  <2> QED
    BY <2>1, <2>2, <2>3 DEF Timelines, HEALTH
<1> HIDE DEF n, changed
<1>10. Ascending(n)
  BY <1>7, <1>8 DEF Ascending
<1>11. Len(n.sched) <= MAX_SCHEDULED
  BY <1>8, MaxScheduledAssumption
<1> QED
  BY <1>2, <1>7, <1>8, <1>9, <1>10, <1>11 DEF n

-----------------------------------------------------------------------------
LEMMA SettledShape ==
  ASSUME IInv
  PROVE  /\ Settled \in Timelines
         /\ Ascending(Settled)
         /\ ScheduleOrdered(Settled)
         /\ Settled.rev = tl.rev
         /\ Settled.cur.time <= now
         /\ Len(Settled.sched) <= MAX_SCHEDULED
         /\ Settled.cur = Promote(tl, now).cur
         /\ Settled.sched = Promote(tl, now).sched
<1> DEFINE p == Promote(tl, now)
<1>1. /\ p \in Timelines /\ Ascending(p) /\ ScheduleOrdered(p)
      /\ p.rev = tl.rev /\ p.cur.time <= now /\ Len(p.sched) <= MAX_SCHEDULED
  BY PromotedShape DEF IInv, TypeOK, OrderInv
<1>2. Settled.cur = p.cur /\ Settled.sched = p.sched /\ Settled.rev = p.rev
  <2> HIDE DEF p
  <2>1. Settled = IF KIND = "Tracked"
                    THEN [p EXCEPT !.health = Health(tracker, now, SOURCE_TIMEOUT)]
                    ELSE p
    BY DEF Settled, p
  <2> QED
    BY <1>1, <2>1 DEF Timelines
<1>3. Settled \in Timelines
  <2>1. Health(tracker, now, SOURCE_TIMEOUT) \in HEALTH
    BY DEF Health, HEALTH
  <2> HIDE DEF p
  <2>2. Settled = IF KIND = "Tracked"
                    THEN [p EXCEPT !.health = Health(tracker, now, SOURCE_TIMEOUT)]
                    ELSE p
    BY DEF Settled, p
  <2> QED
    BY <1>1, <2>1, <2>2 DEF Timelines
<1> HIDE DEF p
<1> QED
  BY <1>1, <1>2, <1>3 DEF Ascending, ScheduleOrdered, Preceding, p

-----------------------------------------------------------------------------
LEMMA InitIInv == Init => IInv
<1> SUFFICES ASSUME Init PROVE IInv
  OBVIOUS
<1>1. PICK s \in SESSIONS, p \in PARTS, f \in FORMATS :
         tl = InitialTimeline(s, p, f, 0, 0, START)
  BY DEF Init
<1>2. <<>> \in Seq(Segment)
  OBVIOUS
<1>0. START \in Nat
  BY LeaderAssumption
<1>3. /\ tl \in Timelines /\ tl.rev = 1 /\ tl.sched = <<>> /\ tl.cur.time = START
      /\ tl.cur \in Segment
  BY <1>0, <1>1, <1>2 DEF InitialTimeline, Timelines, Segment, HEALTH
<1>4. OrderInv
  BY <1>0, <1>3, MaxScheduledAssumption DEF Init, OrderInv, Ascending
<1>5. PublishedValid
  BY <1>3, MaxScheduledAssumption DEF Init, PublishedValid, ValidSnapshot, ScheduleOrdered
<1>6. tracker \in Trackers
  BY DEF Init, InitTracker, Trackers
<1>7. names \subseteq Segment
  BY <1>3 DEF Init, Segments
<1>8. TypeOK
  BY <1>0, <1>3, <1>6, <1>7 DEF Init, TypeOK
<1> QED
  BY <1>4, <1>5, <1>8 DEF IInv

LEMMA SegmentsType ==
  ASSUME NEW t \in Timelines
  PROVE  Segments(t) \subseteq Segment
BY DEF Segments, Timelines

(* One step per action; an action that leaves tl or bytes alone keeps what *)
(* the invariant says of it.                                               *)
LEMMA NextIInv == IInv /\ [Next]_vars => IInv'
<1> SUFFICES ASSUME IInv, [Next]_vars PROVE IInv'
  OBVIOUS
<1> USE DEF IInv
<1>0. NONE \notin Nat /\ SOURCE_TIMEOUT \in Nat /\ COMMANDS \subseteq Changes
      /\ TIMES \subseteq Nat /\ SAMPLES \subseteq Samples
  BY LeaderAssumption, NoneAssumption
<1>1. ASSUME NEW c \in COMMANDS, NEW effective \in TIMES \cup {NONE},
             ChangeCmd(c, effective)
      PROVE  IInv'
  <2> DEFINE time == IF effective = NONE THEN now ELSE effective
  <2>1. time \in Nat /\ c \in Changes /\ now \in Nat
    BY <1>0 DEF TypeOK
  <2>2. tl' = ChangeTimeline(tl, c, time, now) /\ ChangeAccepted(tl, time, now)
    BY <1>1 DEF ChangeCmd
  <2>3. tl \in Timelines /\ Ascending(tl) /\ tl.cur.time <= now
        /\ Len(tl.sched) <= MAX_SCHEDULED /\ tl.rev # 0
    BY DEF TypeOK, OrderInv
  <2> HIDE DEF time
  <2>4. tl' \in Timelines /\ Ascending(tl') /\ tl'.rev = tl.rev
        /\ tl'.cur.time <= now /\ Len(tl'.sched) <= MAX_SCHEDULED
    BY <2>1, <2>2, <2>3, ChangeTimelineShape
  <2>5. OrderInv'
    BY <1>1, <2>3, <2>4 DEF OrderInv, ChangeCmd, Ascending
  <2>6. TypeOK'
    BY <1>1, <2>4 DEF TypeOK, ChangeCmd, Count
  <2>7. PublishedValid'
    BY <1>1 DEF PublishedValid, ChangeCmd
  <2> QED
    BY <2>5, <2>6, <2>7
<1>2. ASSUME NEW part \in PARTS, SessionIdCmd(part)
      PROVE  IInv'
  <2>1. tl' = [tl EXCEPT !.part = part] /\ tl \in Timelines
    BY <1>2 DEF SessionIdCmd, TypeOK
  <2>2. tl' \in Timelines /\ tl'.rev = tl.rev /\ tl'.cur = tl.cur /\ tl'.sched = tl.sched
    BY <2>1 DEF Timelines
  <2>3. OrderInv'
    BY <1>2, <2>2 DEF OrderInv, SessionIdCmd, Ascending
  <2>4. (publish \/ tl.part # part) \in BOOLEAN
    BY DEF TypeOK
  <2>5. TypeOK'
    BY <1>2, <2>2, <2>4 DEF TypeOK, SessionIdCmd, Count
  <2>6. PublishedValid'
    BY <1>2 DEF PublishedValid, SessionIdCmd
  <2> QED
    BY <2>3, <2>5, <2>6
<1>3. ASSUME NEW s \in SAMPLES, SampleCmd(s)
      PROVE  IInv'
  <2>1. s \in Samples /\ SampleAccepted(tracker, s, now) /\ now \in Nat
        /\ tracker \in Trackers /\ tl \in Timelines /\ Ascending(tl)
        /\ Len(tl.sched) <= MAX_SCHEDULED /\ tl.rev # 0
    BY <1>0, <1>3 DEF SampleCmd, TypeOK, OrderInv
  <2>2. tl' = TrackedTimeline(tracker, tl, s)
    BY <1>3 DEF SampleCmd
  <2>3. tl' \in Timelines /\ Ascending(tl') /\ tl'.rev = tl.rev
        /\ tl'.cur.time <= now /\ Len(tl'.sched) <= MAX_SCHEDULED
    BY <2>1, <2>2, TrackedTimelineShape
  <2>4. tracker' \in Trackers
    BY <1>3, <2>1, TrackedMemoryType DEF SampleCmd
  <2>5. OrderInv'
    BY <1>3, <2>1, <2>3 DEF OrderInv, SampleCmd, Ascending
  <2>6. sourceDeadline' \in Nat
    BY <1>0, <1>3, <2>1 DEF SampleCmd, Samples
  <2>7. publish' \in BOOLEAN
    BY <1>3 DEF SampleCmd
  <2>8. TypeOK'
    BY <1>3, <2>3, <2>4, <2>6, <2>7 DEF TypeOK, SampleCmd, Count
  <2>9. PublishedValid'
    BY <1>3 DEF PublishedValid, SampleCmd
  <2> QED
    BY <2>5, <2>8, <2>9
<1>4. ASSUME FinishPass
      PROVE  IInv'
  <2> DEFINE next == [Settled EXCEPT !.rev = @ + 1]
  <2>1. /\ Settled \in Timelines /\ Ascending(Settled) /\ ScheduleOrdered(Settled)
        /\ Settled.rev = tl.rev /\ Settled.cur.time <= now
        /\ Len(Settled.sched) <= MAX_SCHEDULED
    BY SettledShape
  <2>2. tl.rev \in Nat /\ now' = now
    BY <1>4 DEF TypeOK, Timelines, FinishPass
  <2>3. /\ next \in Timelines /\ next.rev = tl.rev + 1
        /\ next.cur = Settled.cur /\ next.sched = Settled.sched
    BY <2>1, <2>2 DEF Timelines
  <2>4. PublicationDue => tl' = next /\ bytes' = next
    BY <1>4 DEF FinishPass
  <2>5. ~PublicationDue => tl' = tl /\ bytes' = bytes
    BY <1>4 DEF FinishPass
  <2> HIDE DEF next
  <2>6. ScheduleOrdered(next) /\ Ascending(next)
    BY <2>1, <2>3 DEF ScheduleOrdered, Preceding, Ascending
  <2>7. OrderInv'
    BY <2>1, <2>2, <2>3, <2>4, <2>5, <2>6 DEF OrderInv, Ascending
  <2>8. PublishedValid'
    <3>1. next.rev # 0 /\ Len(next.sched) <= MAX_SCHEDULED
      BY <2>1, <2>2, <2>3
    <3>2. ValidSnapshot(next)
      BY <2>6, <3>1 DEF ValidSnapshot
    <3>3. CASE PublicationDue
      BY <2>4, <3>2, <3>3 DEF PublishedValid
    <3>4. CASE ~PublicationDue
      <4>1. ValidSnapshot(bytes)
        BY DEF PublishedValid
      <4> QED
        BY <2>5, <3>4, <4>1 DEF PublishedValid
    <3> QED
      BY <3>3, <3>4
  <2>9. TypeOK'
    <3>1. tl' \in Timelines /\ bytes' \in Timelines
      BY <2>3, <2>4, <2>5 DEF TypeOK
    <3>2. names' \subseteq Segment
      <4>1. names \subseteq Segment /\ Segments(next) \subseteq Segment
        BY <2>3, SegmentsType DEF TypeOK
      <4>2. PublicationDue => names' = names \cup Segments(next)
        BY <1>4, <2>4 DEF FinishPass
      <4>3. ~PublicationDue => names' = names
        BY <1>4 DEF FinishPass
      <4> QED
        BY <4>1, <4>2, <4>3
    <3>3. dirty' \in BOOLEAN /\ publish' \in BOOLEAN /\ lastPublish' \in Nat
      BY <1>4 DEF FinishPass, TypeOK
    <3>4. sourceDeadline' \in Nat \cup {NONE}
      BY <1>4 DEF FinishPass, AssessedDeadline, TypeOK
    <3>5. UNCHANGED <<now, tracker, commands>>
      BY <1>4 DEF FinishPass
    <3> QED
      BY <3>1, <3>2, <3>3, <3>4, <3>5 DEF TypeOK
  <2> QED
    BY <2>7, <2>8, <2>9
<1>5. ASSUME Tick PROVE IInv'
  <2>1. now' = now + 1 /\ now \in Nat /\ tl.cur.time \in Nat /\ tl.cur.time <= now
    <3>1. tl.cur \in Segment
      BY DEF TypeOK, Timelines
    <3> QED
      BY <1>5, <3>1 DEF Tick, TypeOK, OrderInv, Segment
  <2>2. OrderInv'
    BY <1>5, <2>1 DEF Tick, OrderInv, Ascending
  <2>3. TypeOK'
    BY <1>5, <2>1 DEF Tick, TypeOK
  <2>4. PublishedValid'
    BY <1>5 DEF Tick, PublishedValid
  <2> QED
    BY <2>2, <2>3, <2>4
<1>6. CASE UNCHANGED vars
  BY <1>6 DEF vars, TypeOK, OrderInv, Ascending, PublishedValid
<1> QED
  BY <1>1, <1>2, <1>3, <1>4, <1>5, <1>6 DEF Next

-----------------------------------------------------------------------------
(* Type correctness of the leader.                                         *)
THEOREM LeaderTypeOK == Spec => []TypeOK
<1>1. IInv => TypeOK
  BY DEF IInv
<1> QED
  BY <1>1, InitIInv, NextIInv, PTL DEF Spec

(* Every snapshot a leader encodes passes validate_snapshot, whatever      *)
(* controls and samples its passes handled.                                *)
THEOREM LeaderPublishedValid == Spec => []PublishedValid
<1>1. IInv => PublishedValid
  BY DEF IInv
<1> QED
  BY <1>1, InitIInv, NextIInv, PTL DEF Spec

-----------------------------------------------------------------------------
LEMMA SegmentsNamed ==
  ASSUME NEW t \in Timelines, Ascending(t)
  PROVE  /\ \A a \in Segments(t) : a.disc \in Nat /\ t.cur.disc <= a.disc
         /\ \A a, b \in Segments(t) : a.disc = b.disc => a = b
<1>1. \A a \in Segments(t) : a \in Segment
  BY SegmentsType
<1>2. \A a \in Segments(t) : a.disc \in Nat
  BY <1>1 DEF Segment
<1>3. t.cur \in Segments(t) /\ \A i \in 1..Len(t.sched) : t.sched[i] \in Segments(t)
  BY DEF Segments
<1>4. \A a \in Segments(t) : t.cur.disc <= a.disc
  BY <1>2, <1>3 DEF Ascending, Segments
<1>5. ASSUME NEW i \in 1..Len(t.sched), NEW j \in 1..Len(t.sched),
             t.sched[i].disc = t.sched[j].disc
      PROVE  i = j
  <2>1. i \in Nat /\ j \in Nat
    BY DEF Timelines
  <2>2. ~(i < j) /\ ~(j < i)
    BY <1>2, <1>3, <1>5 DEF Ascending
  <2> QED
    BY <2>1, <2>2
<1>6. ASSUME NEW i \in 1..Len(t.sched) PROVE t.sched[i].disc # t.cur.disc
  BY <1>2, <1>3 DEF Ascending
<1>7. ASSUME NEW a \in Segments(t), NEW b \in Segments(t), a.disc = b.disc
      PROVE  a = b
  BY <1>5, <1>6, <1>7 DEF Segments
<1> QED
  BY <1>2, <1>4, <1>7

(* A sample is remembered, and only samples change what is remembered.     *)
LEMMA SampleRemembered ==
  ASSUME NEW s \in SAMPLES, SampleCmd(s)
  PROVE  tracker'.last # NONE
<1>1. s.time \in Nat /\ s.pos \in Int
  BY LeaderAssumption DEF Samples
<1>2. tracker' = TrackedMemory(tracker, tl, s)
  BY DEF SampleCmd
<1>3. tracker'.last = [time |-> s.time, pos |-> s.pos]
  BY <1>2 DEF TrackedMemory
<1>4. tracker'.last \in [time : Nat, pos : Int]
  BY <1>1, <1>3
<1> QED
  BY <1>4, NoneAssumption

LEMMA SilentBefore ==
  ASSUME [Next]_vars, tracker'.last = NONE
  PROVE  tracker.last = NONE
<1>1. ASSUME NEW s \in SAMPLES, SampleCmd(s) PROVE FALSE
  BY <1>1, SampleRemembered
<1>2. CASE tracker' = tracker
  BY <1>2
<1> QED
  BY <1>1, <1>2
  DEF Next, vars, ChangeCmd, SessionIdCmd, FinishPass, Tick

LEMMA NextNamesInv ==
  ASSUME tracker.last = NONE, tracker'.last = NONE, IInv, NamesInv, [Next]_vars
  PROVE  NamesInv'
<1> USE DEF NamesInv
<1>0. /\ tl \in Timelines /\ Ascending(tl) /\ now \in Nat
      /\ tl.cur.time <= now /\ Len(tl.sched) <= MAX_SCHEDULED
      /\ names \subseteq Segment /\ tl.cur \in Segment
  BY DEF IInv, TypeOK, OrderInv, Timelines
<1>a. tl.cur.disc \in Nat /\ \A n \in names : n.disc \in Nat
  BY <1>0 DEF Segment
<1>b. TIMES \subseteq Nat /\ COMMANDS \subseteq Changes
  BY LeaderAssumption
<1>1. ASSUME NEW c \in COMMANDS, NEW effective \in TIMES \cup {NONE},
             ChangeCmd(c, effective)
      PROVE  NamesInv'
  <2> DEFINE time == IF effective = NONE THEN now ELSE effective
             new == ChangedSegment(tl, c, time)
  <2>1. time \in Nat /\ c \in Changes
    BY <1>0, <1>b
  <2>2. tl' = ChangeTimeline(tl, c, time, now) /\ names' = names
    BY <1>1 DEF ChangeCmd
  <2> HIDE DEF time
  <2>3. /\ new \in Segment /\ new.disc = FreshDisc(tl, time)
        /\ tl.cur.disc < FreshDisc(tl, time)
        /\ \A i \in 1..Len(tl.sched) : tl.sched[i].disc < FreshDisc(tl, time)
    BY <1>0, <2>1, ChangedSegmentType, FreshDiscAbove DEF ChangedSegment
  <2> HIDE DEF new
  <2>4. new.disc \in Nat
    BY <2>3 DEF Segment
  <2>5. CASE time > now
    <3>1. tl' = [tl EXCEPT !.sched = Append(tl.sched, new)]
      BY <2>2, <2>5 DEF ChangeTimeline, new
    <3>2. tl'.cur = tl.cur /\ tl'.sched = Append(tl.sched, new)
      BY <3>1, <1>0 DEF Timelines
    <3>3. tl.sched \in Seq(Segment)
      BY <1>0 DEF Timelines
    <3>4. \A i \in 1..Len(tl.sched) :
            i \in 1..Len(tl'.sched) /\ tl'.sched[i] = tl.sched[i]
      BY <3>2, <3>3, <2>3
    <3>5. \A n \in Segments(tl) : n \in Segments(tl')
      BY <3>2, <3>4 DEF Segments
    <3> QED
      BY <2>2, <3>2, <3>5 DEF Unambiguous
  <2>6. CASE ~(time > now)
    <3>1. tl' = [tl EXCEPT !.cur = new, !.sched = <<>>]
      BY <2>2, <2>6 DEF ChangeTimeline, new
    <3>2. tl'.cur = new
      BY <3>1, <1>0 DEF Timelines
    <3>3. \A n \in Segments(tl) : n.disc < new.disc
      BY <2>3 DEF Segments
    <3>4. \A n \in names : n.disc < new.disc
      BY <1>a, <2>3, <2>4, <3>3
    <3> QED
      BY <2>2, <3>2, <3>4 DEF Unambiguous
  <2> QED
    BY <2>5, <2>6
<1>2. ASSUME NEW part \in PARTS, SessionIdCmd(part)
      PROVE  NamesInv'
  <2>1. tl'.cur = tl.cur /\ tl'.sched = tl.sched /\ names' = names
    BY <1>0, <1>2 DEF SessionIdCmd, Timelines
  <2>2. Segments(tl') = Segments(tl)
    BY <2>1 DEF Segments
  <2> QED
    BY <2>1, <2>2 DEF Unambiguous
<1>3. ASSUME NEW s \in SAMPLES, SampleCmd(s)
      PROVE  NamesInv'
  BY <1>3, SampleRemembered
<1>4. ASSUME FinishPass
      PROVE  NamesInv'
  <2> DEFINE p == Promote(tl, now)
  <2>1. /\ p \in Timelines /\ Ascending(p) /\ tl.cur.disc <= p.cur.disc
        /\ \A x \in Segments(p) : x \in Segments(tl)
        /\ \A x \in Segments(tl) : x \in Segments(p) \/ x.disc < p.cur.disc
    BY <1>0, PromotedShape
  <2>2. Settled.cur = p.cur /\ Settled.sched = p.sched /\ Settled \in Timelines
    BY SettledShape
  <2> HIDE DEF p
  <2>3. CASE PublicationDue
    <3>1. tl' = [Settled EXCEPT !.rev = @ + 1] /\ names' = names \cup Segments(tl')
      BY <1>4, <2>3 DEF FinishPass
    <3>2. tl'.cur = p.cur /\ tl'.sched = p.sched
      BY <2>2, <3>1 DEF Timelines
    <3>3. Segments(tl') = Segments(p)
      BY <3>2 DEF Segments
    <3>4. ASSUME NEW n \in names' PROVE n.disc < tl'.cur.disc \/ n \in Segments(tl')
      <4>1. CASE n \in Segments(tl')
        BY <4>1
      <4>2. CASE n \in names /\ n \in Segments(tl)
        BY <2>1, <3>2, <3>3, <4>2
      <4>3. CASE n \in names /\ n.disc < tl.cur.disc
        <5>1. p.cur \in Segment
          BY <2>1 DEF Timelines
        <5>2. p.cur.disc \in Nat
          BY <5>1 DEF Segment
        <5> QED
          BY <1>a, <2>1, <3>2, <4>3, <5>2
      <4> QED
        BY <3>1, <4>1, <4>2, <4>3
    <3>5. ASSUME NEW a \in names', NEW b \in names', a.disc = b.disc
          PROVE  a = b
      <4>1. \A n \in names' : n \in names \/ n \in Segments(tl)
        BY <2>1, <3>1, <3>3
      <4>2. \A n \in Segments(tl) : n.disc \in Nat /\ tl.cur.disc <= n.disc
        BY <1>0, SegmentsNamed
      <4>3. CASE a \in names /\ b \in names
        BY <3>5, <4>3 DEF Unambiguous
      <4>4. CASE a \in Segments(tl) \/ b \in Segments(tl)
        <5>1. a \in Segments(tl) /\ b \in Segments(tl)
          BY <1>a, <3>5, <4>1, <4>2, <4>4
        <5> QED
          BY <1>0, <3>5, <5>1, SegmentsNamed
      <4> QED
        BY <4>1, <4>3, <4>4
    <3> QED
      BY <3>4, <3>5 DEF Unambiguous
  <2>4. CASE ~PublicationDue
    <3>1. tl' = tl /\ names' = names
      BY <1>4, <2>4 DEF FinishPass
    <3> QED
      BY <3>1 DEF Unambiguous, Segments
  <2> QED
    BY <2>3, <2>4
<1>5. ASSUME Tick PROVE NamesInv'
  BY <1>5 DEF Tick, Unambiguous, Segments
<1>6. CASE UNCHANGED vars
  BY <1>6 DEF vars, Unambiguous, Segments
<1> QED
  BY <1>1, <1>2, <1>3, <1>4, <1>5, <1>6 DEF Next

(* While only controls move the anchor a leader never publishes two        *)
(* trajectories under one number: the premise of every comparison of       *)
(* discontinuities by a follower.                                          *)
THEOREM LeaderNamesUnique == Spec => []NamesUnique
<1> DEFINE J == tracker.last = NONE => NamesInv
<1>1. Init => J
  BY DEF Init, NamesInv, Unambiguous, Segments, InitialTimeline
<1>2. IInv /\ J /\ [Next]_vars => J'
  BY NextNamesInv, SilentBefore
<1>3. J => NamesUnique
  BY DEF NamesInv, Unambiguous, NamesUnique
<1> HIDE DEF J
<1> QED
  BY <1>1, <1>2, <1>3, InitIInv, NextIInv, PTL DEF Spec

(* Between passes the last snapshot is the whole timeline.                 *)
THEOREM LeaderPublishedFresh == Spec => []PublishedFresh
<1>1. Init => PublishedFresh
  BY DEF Init, PublishedFresh
<1>2. IInv /\ PublishedFresh /\ [Next]_vars => PublishedFresh'
  <2> SUFFICES ASSUME IInv, PublishedFresh, [Next]_vars PROVE PublishedFresh'
    OBVIOUS
  <2>1. ASSUME NEW c \in COMMANDS, NEW effective \in TIMES \cup {NONE},
               ChangeCmd(c, effective)
        PROVE  PublishedFresh'
    BY <2>1 DEF ChangeCmd, PublishedFresh
  <2>2. ASSUME NEW part \in PARTS, SessionIdCmd(part)
        PROVE  PublishedFresh'
    <3>1. CASE tl.part # part
      BY <2>2, <3>1 DEF SessionIdCmd, PublishedFresh
    <3>2. CASE tl.part = part
      <4>1. tl' = tl
        BY <2>2, <3>2 DEF SessionIdCmd, IInv, TypeOK, Timelines
      <4>2. publish => publish'
        BY <2>2 DEF SessionIdCmd
      <4> QED
        BY <2>2, <4>1, <4>2 DEF SessionIdCmd, PublishedFresh
    <3> QED
      BY <3>1, <3>2
  <2>3. ASSUME NEW s \in SAMPLES, SampleCmd(s)
        PROVE  PublishedFresh'
    BY <2>3 DEF SampleCmd, PublishedFresh
  <2>4. ASSUME FinishPass PROVE PublishedFresh'
    <3>1. CASE PublicationDue
      BY <2>4, <3>1 DEF FinishPass, PublishedFresh
    <3>2. CASE ~PublicationDue
      BY <2>4, <3>2 DEF FinishPass, PublishedFresh, PublicationDue
    <3> QED
      BY <3>1, <3>2
  <2>5. ASSUME Tick PROVE PublishedFresh'
    BY <2>5 DEF Tick, PublishedFresh
  <2>6. CASE UNCHANGED vars
    BY <2>6 DEF vars, PublishedFresh
  <2> QED
    BY <2>1, <2>2, <2>3, <2>4, <2>5, <2>6 DEF Next
<1> QED
  BY <1>1, <1>2, InitIInv, NextIInv, PTL DEF Spec

-----------------------------------------------------------------------------
(* Until the source's deadline passes, the health that was published is    *)
(* the health that would be assessed.                                      *)
HealthInv ==
  KIND = "Tracked" =>
    /\ tracker.last = NONE => tl.health = "Degraded" /\ sourceDeadline = NONE
    /\ tracker.last # NONE =>
         \/ /\ tl.health = "Healthy"
            /\ sourceDeadline = tracker.last.time + SOURCE_TIMEOUT + 1
         \/ /\ tl.health = "Degraded"
            /\ sourceDeadline = NONE
            /\ now - tracker.last.time > SOURCE_TIMEOUT

LEMMA ChangeKeepsHealth ==
  ASSUME NEW t \in Timelines, NEW c, NEW time, NEW at
  PROVE  ChangeTimeline(t, c, time, at).health = t.health
BY DEF ChangeTimeline, Timelines

LEMMA InitHealthInv == Init => HealthInv
BY DEF Init, HealthInv, InitTracker, InitialTimeline

LEMMA NextHealthInv == IInv /\ HealthInv /\ [Next]_vars => HealthInv'
<1> SUFFICES ASSUME IInv, HealthInv, [Next]_vars PROVE HealthInv'
  OBVIOUS
<1> SUFFICES ASSUME KIND = "Tracked" PROVE HealthInv'
  BY DEF HealthInv
<1>0. /\ tl \in Timelines /\ now \in Nat /\ tracker \in Trackers
      /\ SOURCE_TIMEOUT \in Nat /\ NONE \notin Nat
      /\ sourceDeadline \in Nat \cup {NONE}
  BY LeaderAssumption, NoneAssumption DEF IInv, TypeOK
<1>a. tracker.last # NONE => tracker.last.time \in Nat
  BY <1>0 DEF Trackers
<1>1. ASSUME NEW c \in COMMANDS, NEW effective \in TIMES \cup {NONE},
             ChangeCmd(c, effective)
      PROVE  HealthInv'
  <2>1. tl'.health = tl.health
    BY <1>0, <1>1, ChangeKeepsHealth DEF ChangeCmd
  <2> QED
    BY <1>1, <2>1 DEF ChangeCmd, HealthInv
<1>2. ASSUME NEW part \in PARTS, SessionIdCmd(part)
      PROVE  HealthInv'
  <2>1. tl'.health = tl.health
    BY <1>0, <1>2 DEF SessionIdCmd, Timelines
  <2> QED
    BY <1>2, <2>1 DEF SessionIdCmd, HealthInv
<1>3. ASSUME NEW s \in SAMPLES, SampleCmd(s)
      PROVE  HealthInv'
  <2>1. tl'.health = "Healthy"
    BY <1>0, <1>3 DEF SampleCmd, TrackedTimeline, Timelines
  <2>2. tracker'.last = [time |-> s.time, pos |-> s.pos]
    BY <1>3 DEF SampleCmd, TrackedMemory
  <2>3. sourceDeadline' = tracker'.last.time + SOURCE_TIMEOUT + 1
    BY <1>3, <2>2 DEF SampleCmd
  <2> QED
    BY <1>3, <2>1, <2>3, SampleRemembered DEF HealthInv
<1>4. ASSUME FinishPass
      PROVE  HealthInv'
  <2>1. UNCHANGED <<now, tracker>> /\ sourceDeadline' = AssessedDeadline
    BY <1>4 DEF FinishPass
  <2>2. Settled.health = Health(tracker, now, SOURCE_TIMEOUT)
    <3>1. Promote(tl, now) \in Timelines
      BY PromotedShape DEF IInv, TypeOK, OrderInv
    <3> QED
      BY <3>1 DEF Settled, Timelines
  <2>3. Settled \in Timelines
    BY SettledShape
  <2>4. tl'.health = Health(tracker, now, SOURCE_TIMEOUT)
    <3>1. CASE PublicationDue
      BY <1>4, <2>2, <2>3, <3>1 DEF FinishPass, Timelines
    <3>2. CASE ~PublicationDue
      BY <1>4, <2>2, <3>2 DEF FinishPass, PublicationDue
    <3> QED
      BY <3>1, <3>2
  <2>5. CASE tracker.last = NONE
    BY <2>1, <2>4, <2>5 DEF HealthInv, Health, AssessedDeadline
  <2>6. CASE tracker.last # NONE /\ now - tracker.last.time > SOURCE_TIMEOUT
    <3>1. tl'.health = "Degraded"
      BY <2>4, <2>6 DEF Health
    <3>2. sourceDeadline' = NONE
      BY <1>0, <1>a, <2>1, <2>6 DEF HealthInv, AssessedDeadline
    <3> QED
      BY <2>1, <2>6, <3>1, <3>2 DEF HealthInv
  <2>7. CASE tracker.last # NONE /\ ~(now - tracker.last.time > SOURCE_TIMEOUT)
    <3>1. tl'.health = "Healthy"
      BY <2>4, <2>7 DEF Health
    <3>2. sourceDeadline = tracker.last.time + SOURCE_TIMEOUT + 1
      BY <2>7 DEF HealthInv
    <3>3. sourceDeadline' = sourceDeadline
      BY <1>0, <1>a, <2>1, <2>7, <3>2 DEF AssessedDeadline
    <3> QED
      BY <2>1, <2>7, <3>1, <3>2, <3>3 DEF HealthInv
  <2> QED
    BY <2>5, <2>6, <2>7
<1>5. ASSUME Tick PROVE HealthInv'
  <2>1. now' = now + 1 /\ UNCHANGED <<tl, tracker, sourceDeadline>>
    BY <1>5 DEF Tick
  <2>2. tracker.last # NONE /\ now - tracker.last.time > SOURCE_TIMEOUT
          => now' - tracker.last.time > SOURCE_TIMEOUT
    BY <1>0, <1>a, <2>1
  <2> QED
    BY <2>1, <2>2 DEF HealthInv
<1>6. CASE UNCHANGED vars
  BY <1>6 DEF vars, HealthInv
<1> QED
  BY <1>1, <1>2, <1>3, <1>4, <1>5, <1>6 DEF Next

(* Before its deadline a leader that owes nothing finds nothing to         *)
(* publish.                                                                *)
LEMMA NothingDueYet ==
  ASSUME IInv, HealthInv, now < Deadline, ~publish
  PROVE  ~PublicationDue
<1> DEFINE S == {lastPublish + HEARTBEAT}
                  \cup (IF dirty THEN {lastPublish + TRACKED_PUBLISH} ELSE {})
                  \cup (IF tl.sched = <<>> THEN {} ELSE {tl.sched[1].time})
                  \cup (IF sourceDeadline = NONE THEN {} ELSE {sourceDeadline})
<1>1. /\ tl \in Timelines /\ now \in Nat /\ tracker \in Trackers
      /\ lastPublish \in Nat /\ sourceDeadline \in Nat \cup {NONE}
      /\ HEARTBEAT \in Nat /\ TRACKED_PUBLISH \in Nat /\ SOURCE_TIMEOUT \in Nat
  BY LeaderAssumption DEF IInv, TypeOK
<1>2. tl.sched # <<>> => tl.sched[1].time \in Nat
  <2>1. tl.sched # <<>> => tl.sched[1] \in Segment
    BY <1>1 DEF Timelines
  <2> QED
    BY <2>1 DEF Segment
<1>3. S \in SUBSET Nat /\ lastPublish + HEARTBEAT \in S
  BY <1>1, <1>2
<1>4. \A x \in S : now < x
  <2>1. Deadline = Min(S)
    BY DEF Deadline
  <2> HIDE DEF S
  <2>2. Min(S) \in S /\ \A x \in S : Min(S) <= x
    BY <1>3, MinNat
  <2>3. Deadline \in Nat /\ \A x \in S : x \in Nat /\ Deadline <= x
    BY <1>3, <2>1, <2>2
  <2> QED
    BY <1>1, <2>3
<1>5. now < lastPublish + HEARTBEAT
  BY <1>4
<1>6. dirty => now < lastPublish + TRACKED_PUBLISH
  BY <1>4
<1>7. tl.sched # <<>> => now < tl.sched[1].time
  BY <1>4
<1>8. sourceDeadline # NONE => now < sourceDeadline
  BY <1>4
<1> HIDE DEF S
<1>9. Settled = tl
  <2>1. Promote(tl, now) = tl
    BY <1>1, <1>7, NothingToPromote
  <2>2. ASSUME KIND = "Tracked" PROVE Health(tracker, now, SOURCE_TIMEOUT) = tl.health
    <3>1. CASE tracker.last = NONE
      BY <2>2, <3>1 DEF HealthInv, Health
    <3>2. CASE tracker.last # NONE
      <4>1. tracker.last.time \in Nat
        BY <1>1, <3>2 DEF Trackers
      <4>2. CASE tl.health = "Healthy" /\ sourceDeadline = tracker.last.time + SOURCE_TIMEOUT + 1
        <5>1. sourceDeadline \in Nat
          BY <1>1, <4>1, <4>2
        <5>2. sourceDeadline # NONE
          BY <5>1, NoneAssumption
        <5>3. ~(now - tracker.last.time > SOURCE_TIMEOUT)
          BY <1>1, <1>8, <4>1, <4>2, <5>2
        <5> QED
          BY <3>2, <4>2, <5>3 DEF Health
      <4>3. CASE tl.health = "Degraded" /\ now - tracker.last.time > SOURCE_TIMEOUT
        BY <3>2, <4>3 DEF Health
      <4> QED
        BY <2>2, <3>2, <4>2, <4>3 DEF HealthInv
    <3> QED
      BY <3>1, <3>2
  <2>3. CASE KIND = "Tracked"
    <3>1. Settled = [tl EXCEPT !.health = tl.health]
      BY <2>1, <2>2, <2>3 DEF Settled
    <3> QED
      BY <1>1, <3>1 DEF Timelines
  <2>4. CASE KIND # "Tracked"
    BY <2>1, <2>4 DEF Settled
  <2> QED
    BY <2>3, <2>4
<1> QED
  BY <1>1, <1>5, <1>6, <1>9 DEF PublicationDue

(* No lost wakeup: LeaderJob::deadline covers every condition on which     *)
(* LeaderJob::progress publishes.                                          *)
THEOREM LeaderNoLostWakeup == Spec => NoLostWakeup
<1>1. IInv /\ HealthInv /\ [Next]_vars => [now' # now => publish \/ ~PublicationDue]_vars
  <2> SUFFICES ASSUME IInv, HealthInv, [Next]_vars, now' # now
               PROVE  publish \/ ~PublicationDue
    OBVIOUS
  <2>1. Tick
    BY DEF Next, vars, ChangeCmd, SessionIdCmd, SampleCmd, FinishPass
  <2>2. now < Deadline
    BY <2>1 DEF Tick
  <2> QED
    BY <2>2, NothingDueYet
<1> QED
  BY <1>1, InitIInv, NextIInv, InitHealthInv, NextHealthInv, PTL
  DEF Spec, NoLostWakeup

-----------------------------------------------------------------------------
(* The readers of its job.                                                 *)
Phases == {"start", "commands", "reclaim", "sweep", "write", "gone"}

Thread == [calls : Nat, waits : {"no", "reader", "change", "shutdown"},
           answer : {"none", "reader", "limit", "ok", "gone"},
           promised : Nat, room : BOOLEAN]

ReadersTypeOK ==
  /\ threads \in [THREADS -> Thread]
  /\ pending \in Seq(THREADS)
  /\ server \in [pc : Phases, view : 1..FINAL, todo : SUBSET inputs,
                 serving : BOOLEAN, stop : BOOLEAN]
  /\ shown \in Seq(Nat)
  /\ inputs \subseteq DOMAIN shown /\ IsFiniteSet(inputs)
  /\ live \subseteq inputs

(* A command is only served while it is the first of the channel, and a    *)
(* reader is only made room for while its thread waits for one.            *)
ServedInv ==
  /\ server.serving => server.pc \in {"sweep", "write"} /\ pending # <<>>
  /\ server.pc = "reclaim" => pending # <<>> /\ threads[Head(pending)].waits = "reader"

(* Nothing newer than the job's view was promised; the slots it is done    *)
(* with show that view, and a job that is gone left the final one in all.  *)
ViewInv ==
  /\ \A t \in THREADS : threads[t].promised <= server.view
  /\ server.pc = "write" => \A h \in live \ server.todo : shown[h] = server.view
  /\ server.pc = "gone" => /\ server.view = FINAL
                           /\ \A h \in live : shown[h] = FINAL

(* While there is room for a thread there is a slot that no living reader  *)
(* has; while its reader is made room for, none that was found alive had   *)
(* it when the visit began.                                                *)
RoomInv ==
  /\ \A t \in THREADS : threads[t].room => Cardinality(live) < SLOTS
  /\ server.pc = "reclaim" /\ threads[Head(pending)].room =>
       Cardinality(live \cup (inputs \ server.todo)) < SLOTS

ReadersInv ==
  ReadersTypeOK /\ ServedInv /\ ViewInv /\ RoomInv /\ AnswerIsShown /\ SlotsServeTheLiving

-----------------------------------------------------------------------------
LEMMA InitReaders == ReadersInit => ReadersInv
<1> SUFFICES ASSUME ReadersInit PROVE ReadersInv
  OBVIOUS
<1> USE ReadersAssumption DEF ReadersInit
<1>1. IsFiniteSet(inputs) /\ Cardinality(inputs) = 0 /\ Cardinality(live) = 0
  BY FS_EmptySet
<1>2. ReadersTypeOK
  BY <1>1 DEF ReadersTypeOK, Thread, Phases, FINAL
<1>3. ServedInv /\ ViewInv /\ RoomInv
  BY <1>1 DEF ServedInv, ViewInv, RoomInv
<1>4. AnswerIsShown /\ SlotsServeTheLiving
  BY <1>1 DEF AnswerIsShown, SlotsServeTheLiving
<1> QED
  BY <1>2, <1>3, <1>4 DEF ReadersInv

(* A call changes nothing of what was promised, and its thread did not     *)
(* wait for anything.                                                      *)
LEMMA CallsFacts ==
  ASSUME ReadersTypeOK, NEW t \in THREADS, NEW what \in {"reader", "change", "shutdown"},
         Calls(t, what)
  PROVE  /\ threads' \in [THREADS -> Thread]
         /\ threads[t].waits = "no"
         /\ threads'[t].answer = "none"
         /\ threads'[t].room => Cardinality(live) < SLOTS
         /\ \A u \in THREADS : threads'[u].promised = threads[u].promised
         /\ \A u \in THREADS \ {t} : threads'[u] = threads[u]
<1> DEFINE count == threads[t].calls + 1
           fits == Cardinality(live) < SLOTS
           new == [threads[t] EXCEPT !.calls = count, !.waits = what, !.answer = "none",
                                     !.room = fits]
<1>1. /\ threads[t] \in Thread /\ threads[t].waits = "no"
      /\ count \in Nat /\ fits \in BOOLEAN
  BY DEF ReadersTypeOK, Calls, Thread
<1>2. threads' = [threads EXCEPT ![t] = new]
  BY DEF Calls
<1> HIDE DEF count, fits
<1>3. new \in Thread
  BY <1>1 DEF Thread
<1>4. new.answer = "none" /\ new.promised = threads[t].promised /\ new.room = fits
  BY <1>1 DEF Thread
<1> HIDE DEF new
<1> QED
  BY <1>1, <1>2, <1>3, <1>4 DEF ReadersTypeOK, fits

LEMMA AskStep == ASSUME ReadersInv, NEW t \in THREADS, Ask(t) PROVE ReadersInv'
<1> USE DEF ReadersInv
<1>1. PICK what \in {"reader", "change"} :
        /\ Calls(t, what) /\ server.pc # "gone"
        /\ pending' = Append(pending, t)
        /\ UNCHANGED <<server, inputs, live, shown>>
  BY DEF Ask
<1>2. /\ threads' \in [THREADS -> Thread]
      /\ threads[t].waits = "no"
      /\ threads'[t].answer = "none"
      /\ threads'[t].room => Cardinality(live) < SLOTS
      /\ \A u \in THREADS : threads'[u].promised = threads[u].promised
      /\ \A u \in THREADS \ {t} : threads'[u] = threads[u]
  BY <1>1, CallsFacts
<1>3. /\ pending' \in Seq(THREADS) /\ pending' # <<>>
      /\ pending # <<>> => Head(pending') = Head(pending) /\ Head(pending) \in THREADS
  <2>1. /\ pending \in Seq(THREADS) /\ pending' \in Seq(THREADS)
        /\ Len(pending') = Len(pending) + 1
        /\ \A i \in 1..Len(pending) : pending'[i] = pending[i]
    BY <1>1, AppendProperties DEF ReadersTypeOK
  <2>2. pending # <<>> => Len(pending) > 0 /\ Head(pending) = pending[1]
    BY <2>1, EmptySeq, LenProperties, HeadTailProperties
  <2> QED
    BY <2>1, <2>2, ElementOfSeq
<1>4. ReadersTypeOK'
  BY <1>1, <1>2, <1>3 DEF ReadersTypeOK
<1>5. server.pc = "reclaim" => threads'[Head(pending')] = threads[Head(pending)]
  BY <1>2, <1>3 DEF ServedInv
<1>6. ServedInv'
  BY <1>1, <1>3, <1>5 DEF ServedInv
<1>7. ViewInv' /\ AnswerIsShown'
  BY <1>1, <1>2 DEF ViewInv, AnswerIsShown
<1>8. RoomInv'
  BY <1>1, <1>2, <1>5 DEF RoomInv
<1>9. SlotsServeTheLiving'
  BY <1>1, <1>2 DEF SlotsServeTheLiving
<1> QED
  BY <1>4, <1>6, <1>7, <1>8, <1>9

LEMMA ShutDownStep == ASSUME ReadersInv, NEW t \in THREADS, ShutDown(t) PROVE ReadersInv'
<1> USE DEF ReadersInv
<1>1. /\ server' = [server EXCEPT !.stop = TRUE]
      /\ UNCHANGED <<pending, inputs, live, shown>>
  BY DEF ShutDown
<1>2. /\ threads' \in [THREADS -> Thread]
      /\ threads[t].waits = "no"
      /\ threads'[t].answer = "none"
      /\ threads'[t].room => Cardinality(live) < SLOTS
      /\ \A u \in THREADS : threads'[u].promised = threads[u].promised
      /\ \A u \in THREADS \ {t} : threads'[u] = threads[u]
  BY CallsFacts DEF ShutDown
<1>3. /\ server'.pc = server.pc /\ server'.view = server.view
      /\ server'.todo = server.todo /\ server'.serving = server.serving
  BY <1>1 DEF ReadersTypeOK
<1>4. ReadersTypeOK'
  BY <1>1, <1>2 DEF ReadersTypeOK
<1>5. server.pc = "reclaim" => threads'[Head(pending)] = threads[Head(pending)]
  BY <1>2, HeadTailProperties DEF ServedInv, ReadersTypeOK
<1>6. ServedInv'
  BY <1>1, <1>3, <1>5 DEF ServedInv
<1>7. ViewInv' /\ AnswerIsShown'
  BY <1>1, <1>2, <1>3 DEF ViewInv, AnswerIsShown
<1>8. RoomInv'
  BY <1>1, <1>2, <1>3, <1>5 DEF RoomInv
<1>9. SlotsServeTheLiving'
  BY <1>1, <1>2 DEF SlotsServeTheLiving
<1> QED
  BY <1>4, <1>6, <1>7, <1>8, <1>9

LEMMA ShutDownReturnsStep ==
  ASSUME ReadersInv, NEW t \in THREADS, ShutDownReturns(t) PROVE ReadersInv'
<1> USE DEF ReadersInv
<1>1. /\ server.pc = "gone" /\ server.view = FINAL
      /\ UNCHANGED <<pending, server, inputs, live, shown>>
  BY DEF ShutDownReturns, ViewInv
<1>2. /\ threads' \in [THREADS -> Thread]
      /\ threads'[t].promised = FINAL
      /\ \A u \in THREADS : /\ threads'[u].room = threads[u].room
                            /\ threads'[u].answer = threads[u].answer
      /\ \A u \in THREADS \ {t} : threads'[u] = threads[u]
  <2>1. threads[t] \in Thread /\ FINAL \in Nat
    BY ReadersAssumption DEF ReadersTypeOK, FINAL
  <2>2. threads' = [threads EXCEPT ![t] =
          [threads[t] EXCEPT !.waits = "no", !.promised = FINAL]]
    BY DEF ShutDownReturns, ReadersTypeOK
  <2> QED
    BY <2>1, <2>2 DEF ReadersTypeOK, Thread
<1>3. FINAL \in Nat
  BY ReadersAssumption DEF FINAL
<1>4. ReadersTypeOK' /\ ServedInv'
  BY <1>1, <1>2 DEF ReadersTypeOK, ServedInv
<1>5. ViewInv'
  BY <1>1, <1>2, <1>3 DEF ViewInv
<1>6. AnswerIsShown'
  BY <1>1, <1>2, <1>3 DEF ViewInv, AnswerIsShown
<1>7. RoomInv' /\ SlotsServeTheLiving'
  BY <1>1, <1>2 DEF RoomInv, SlotsServeTheLiving
<1> QED
  BY <1>4, <1>5, <1>6, <1>7

LEMMA DropReaderStep == ASSUME ReadersInv, NEW h \in live, DropReader(h) PROVE ReadersInv'
<1> USE DEF ReadersInv
<1>1. live' = live \ {h} /\ UNCHANGED <<threads, pending, server, inputs, shown>>
  BY DEF DropReader
<1>2. IsFiniteSet(live) /\ IsFiniteSet(live \cup (inputs \ server.todo))
  BY FS_Subset DEF ReadersTypeOK
<1>3. Cardinality(live') <= Cardinality(live)
  BY <1>1, <1>2, FS_Subset
<1>4. Cardinality(live' \cup (inputs \ server.todo))
        <= Cardinality(live \cup (inputs \ server.todo))
  <2>1. live' \cup (inputs \ server.todo) \subseteq live \cup (inputs \ server.todo)
    BY <1>1
  <2> QED
    BY <1>2, <2>1, FS_Subset
<1>5. /\ Cardinality(live') \in Nat /\ Cardinality(live) \in Nat
      /\ Cardinality(live \cup (inputs \ server.todo)) \in Nat
      /\ Cardinality(live' \cup (inputs \ server.todo)) \in Nat
  BY <1>1, <1>2, FS_Subset, FS_CardinalityType
<1>6. ReadersTypeOK' /\ ServedInv' /\ ViewInv' /\ AnswerIsShown' /\ SlotsServeTheLiving'
  BY <1>1 DEF ReadersTypeOK, ServedInv, ViewInv, AnswerIsShown, SlotsServeTheLiving
<1>7. RoomInv'
  BY <1>1, <1>3, <1>4, <1>5, ReadersAssumption DEF RoomInv
<1> QED
  BY <1>6, <1>7

-----------------------------------------------------------------------------
(* The job begins to visit the slots, to publish a view no older than the  *)
(* last.                                                                   *)
LEMMA PublishingStep ==
  ASSUME ReadersInv, NEW view \in 1..FINAL, view >= server.view,
         NEW serving \in BOOLEAN, serving => pending # <<>>,
         server' = Publishing(view, serving),
         UNCHANGED <<threads, pending, inputs, live, shown>>
  PROVE  ReadersInv'
<1> USE DEF ReadersInv
<1>1. /\ server' \in [pc : Phases, view : 1..FINAL, todo : SUBSET inputs,
                      serving : BOOLEAN, stop : BOOLEAN]
      /\ server'.pc = "sweep" /\ server'.view = view /\ server'.serving = serving
  BY DEF Publishing, Goto, ReadersTypeOK, Phases
<1>2. ReadersTypeOK'
  BY <1>1 DEF ReadersTypeOK
<1>3. ServedInv'
  BY <1>1 DEF ServedInv
<1>4. ViewInv'
  <2>1. FINAL \in Nat
    BY ReadersAssumption DEF FINAL
  <2>2. \A t \in THREADS : threads[t].promised \in Nat
    BY DEF ReadersTypeOK, Thread
  <2>3. server.view \in Nat
    BY <2>1 DEF ReadersTypeOK
  <2>4. ASSUME NEW t \in THREADS PROVE threads[t].promised <= view
    BY <2>1, <2>2, <2>3 DEF ViewInv
  <2> QED
    BY <1>1, <2>4 DEF ViewInv
<1>5. RoomInv' /\ AnswerIsShown' /\ SlotsServeTheLiving'
  BY <1>1 DEF RoomInv, AnswerIsShown, SlotsServeTheLiving
<1> QED
  BY <1>2, <1>3, <1>4, <1>5

(* Or goes on to something that is not about the slots, or to make room.   *)
LEMMA GotoStep ==
  ASSUME ReadersInv, NEW where \in {"commands", "reclaim"}, server' = Goto(where),
         ~server.serving,
         where = "reclaim" => pending # <<>> /\ threads[Head(pending)].waits = "reader",
         UNCHANGED <<threads, pending, inputs, live, shown>>
  PROVE  ReadersInv'
<1> USE DEF ReadersInv
<1>1. /\ server' \in [pc : Phases, view : 1..FINAL, todo : SUBSET inputs,
                      serving : BOOLEAN, stop : BOOLEAN]
      /\ server'.pc = where /\ server'.view = server.view /\ ~server'.serving
      /\ server'.todo = inputs
  BY DEF Goto, ReadersTypeOK, Phases
<1>2. ReadersTypeOK' /\ ServedInv' /\ ViewInv'
  BY <1>1 DEF ReadersTypeOK, ServedInv, ViewInv
<1>3. RoomInv'
  <2>1. where = "reclaim" => Head(pending) \in THREADS
    BY HeadTailProperties DEF ReadersTypeOK
  <2>2. live \cup (inputs \ inputs) = live
    OBVIOUS
  <2> QED
    BY <1>1, <2>1, <2>2 DEF RoomInv
<1>4. AnswerIsShown' /\ SlotsServeTheLiving'
  BY DEF AnswerIsShown, SlotsServeTheLiving
<1> QED
  BY <1>2, <1>3, <1>4

LEMMA StartPassStep == ASSUME ReadersInv, StartPass PROVE ReadersInv'
<1>1. FINAL \in 1..FINAL /\ FINAL >= server.view
  BY ReadersAssumption DEF FINAL, ReadersInv, ReadersTypeOK
<1>2. /\ ~server.serving
      /\ UNCHANGED <<threads, pending, inputs, live, shown>>
  BY DEF StartPass, ReadersInv, ServedInv, ReadersTypeOK
<1>3. CASE server.stop
  <2>1. server' = Publishing(FINAL, FALSE)
    BY <1>3 DEF StartPass
  <2> QED
    BY <1>1, <1>2, <2>1, PublishingStep
<1>4. CASE ~server.stop
  <2>1. server' = Goto("commands")
    BY <1>4 DEF StartPass
  <2> QED
    BY <1>2, <2>1, GotoStep
<1> QED
  BY <1>3, <1>4

LEMMA ReachedIsNewer ==
  ASSUME ReadersInv, NEW view \in Reached
  PROVE  view \in 1..FINAL /\ view >= server.view
BY ReadersAssumption DEF Reached, FINAL, ReadersInv, ReadersTypeOK

LEMMA TakeCommandStep == ASSUME ReadersInv, TakeCommand PROVE ReadersInv'
<1>1. /\ pending # <<>> /\ ~server.serving
      /\ UNCHANGED <<threads, pending, inputs, live, shown>>
  BY DEF TakeCommand, ReadersInv, ServedInv, ReadersTypeOK
<1>2. CASE threads[Head(pending)].waits = "reader"
  <2>1. server' = Goto("reclaim")
    BY <1>2 DEF TakeCommand
  <2> QED
    BY <1>1, <1>2, <2>1, GotoStep
<1>3. CASE threads[Head(pending)].waits # "reader"
  <2>1. PICK view \in Reached : server' = Publishing(view, TRUE)
    BY <1>3 DEF TakeCommand
  <2> QED
    BY <1>1, <2>1, ReachedIsNewer, PublishingStep
<1> QED
  BY <1>2, <1>3

LEMMA EndPassStep == ASSUME ReadersInv, EndPass PROVE ReadersInv'
<1>1. PICK view \in Reached \cup {FINAL} : server' = Publishing(view, FALSE)
  BY DEF EndPass
<1>2. view \in 1..FINAL /\ view >= server.view
  BY ReadersAssumption, ReachedIsNewer DEF FINAL, ReadersInv, ReadersTypeOK
<1> QED
  BY <1>1, <1>2, PublishingStep DEF EndPass

LEMMA SweepStep == ASSUME ReadersInv, Sweep PROVE ReadersInv'
<1> USE DEF ReadersInv
<1>1. PICK h \in First : /\ inputs' = Swept(h)
                         /\ server' = [server EXCEPT !.todo = @ \ {h}]
  BY DEF Sweep
<1>2. /\ server.pc \in {"reclaim", "sweep"}
      /\ UNCHANGED <<threads, pending, live, shown>>
      /\ h \in server.todo /\ server.todo \subseteq inputs
  BY DEF Sweep, First, ReadersTypeOK
<1>3. /\ server'.todo = server.todo \ {h} /\ server'.pc = server.pc
      /\ server'.view = server.view /\ server'.serving = server.serving
      /\ server'.stop = server.stop
      /\ server' \in [pc : Phases, view : 1..FINAL, todo : SUBSET inputs,
                      serving : BOOLEAN, stop : BOOLEAN]
  BY <1>1, <1>2 DEF ReadersTypeOK
<1>4. /\ inputs' \subseteq inputs /\ live \subseteq inputs'
      /\ server.todo \ {h} \subseteq inputs'
      /\ live \cup (inputs' \ server'.todo) = live \cup (inputs \ server.todo)
  BY <1>1, <1>2, <1>3 DEF Swept, ReadersTypeOK
<1>5. /\ IsFiniteSet(inputs') /\ Cardinality(inputs') <= Cardinality(inputs)
      /\ Cardinality(inputs') \in Nat /\ Cardinality(inputs) \in Nat
  BY <1>4, FS_Subset, FS_CardinalityType DEF ReadersTypeOK
<1>6. ReadersTypeOK'
  <2>1. server' \in [pc : Phases, view : 1..FINAL, todo : SUBSET inputs',
                     serving : BOOLEAN, stop : BOOLEAN]
    BY <1>3, <1>4
  <2> QED
    BY <1>2, <1>4, <1>5, <2>1 DEF ReadersTypeOK
<1>7. ServedInv' /\ ViewInv' /\ AnswerIsShown'
  BY <1>2, <1>3 DEF ServedInv, ViewInv, AnswerIsShown
<1>8. RoomInv'
  BY <1>2, <1>3, <1>4 DEF RoomInv
<1>9. SlotsServeTheLiving'
  BY <1>2, <1>4, <1>5, ReadersAssumption DEF SlotsServeTheLiving
<1> QED
  BY <1>6, <1>7, <1>8, <1>9

LEMMA WriteStep == ASSUME ReadersInv, Write PROVE ReadersInv'
<1> USE DEF ReadersInv
<1>1. UNCHANGED <<threads, pending, inputs, live>>
  BY DEF Write
<1>2. CASE server.pc = "sweep" /\ server.todo = {} /\ server' = Goto("write") /\ UNCHANGED shown
  <2>1. /\ server' \in [pc : Phases, view : 1..FINAL, todo : SUBSET inputs,
                        serving : BOOLEAN, stop : BOOLEAN]
        /\ server'.pc = "write" /\ server'.view = server.view
        /\ server'.todo = inputs /\ server'.serving = server.serving
    BY <1>2 DEF Goto, ReadersTypeOK, Phases
  <2>2. ReadersTypeOK' /\ ServedInv'
    BY <1>1, <1>2, <2>1 DEF ReadersTypeOK, ServedInv
  <2>3. ViewInv'
    BY <1>1, <1>2, <2>1 DEF ViewInv, ReadersTypeOK
  <2> QED
    BY <1>1, <1>2, <2>1, <2>2, <2>3 DEF RoomInv, AnswerIsShown, SlotsServeTheLiving
<1>3. CASE /\ server.pc = "write"
           /\ \E h \in First : /\ shown' = [shown EXCEPT ![h] = server.view]
                               /\ server' = [server EXCEPT !.todo = @ \ {h}]
  <2>1. PICK h \in First : /\ shown' = [shown EXCEPT ![h] = server.view]
                           /\ server' = [server EXCEPT !.todo = @ \ {h}]
    BY <1>3
  <2>2. h \in DOMAIN shown /\ server.view \in Nat /\ FINAL \in Nat
    BY ReadersAssumption DEF First, ReadersTypeOK, FINAL
  <2>3. /\ server'.todo = server.todo \ {h} /\ server'.pc = "write"
        /\ server'.view = server.view /\ server'.serving = server.serving
        /\ server' \in [pc : Phases, view : 1..FINAL, todo : SUBSET inputs,
                        serving : BOOLEAN, stop : BOOLEAN]
    BY <1>3, <2>1 DEF ReadersTypeOK
  <2>4. shown' \in Seq(Nat) /\ DOMAIN shown' = DOMAIN shown
    BY <2>1, <2>2, ExceptSeq DEF ReadersTypeOK
  <2>5. \A g \in DOMAIN shown : shown'[g] = IF g = h THEN server.view ELSE shown[g]
    BY <2>1, <2>2
  <2>6. ReadersTypeOK' /\ ServedInv'
    BY <1>1, <1>3, <2>3, <2>4 DEF ReadersTypeOK, ServedInv
  <2>7. ViewInv'
    BY <1>1, <1>3, <2>3, <2>5 DEF ViewInv, ReadersTypeOK
  <2>8. AnswerIsShown'
    BY <1>1, <2>5 DEF AnswerIsShown, ViewInv, ReadersTypeOK
  <2> QED
    BY <1>1, <1>3, <2>3, <2>6, <2>7, <2>8 DEF RoomInv, SlotsServeTheLiving
<1> QED
  BY <1>2, <1>3 DEF Write

(* A thread that had room ever since it asked is not refused: every slot   *)
(* taken was then found to have a living reader since its visit began.     *)
LEMMA AddReaderStep == ASSUME ReadersInv, AddReader PROVE ReadersInv'
<1> USE DEF ReadersInv
<1> DEFINE t == Head(pending)
           h == Len(shown) + 1
<1>1. /\ server.pc = "reclaim" /\ server.todo = {} /\ pending # <<>> /\ ~server.serving
      /\ pending' = Tail(pending) /\ server' = Goto("commands")
  BY DEF AddReader, ServedInv
<1>2. t \in THREADS /\ pending' \in Seq(THREADS)
  BY <1>1, HeadTailProperties DEF ReadersTypeOK
<1>3. /\ server'.pc = "commands" /\ server'.todo = inputs /\ server'.view = server.view
      /\ server'.serving = FALSE /\ server'.stop \in BOOLEAN
      /\ server' \in [pc : Phases, view : 1..FINAL, todo : SUBSET inputs,
                      serving : BOOLEAN, stop : BOOLEAN]
  BY <1>1 DEF Goto, ReadersTypeOK, Phases
<1>4. ServedInv'
  BY <1>3 DEF ServedInv
<1>5. /\ IsFiniteSet(live) /\ Cardinality(live) \in Nat /\ Cardinality(inputs) \in Nat
      /\ SLOTS \in Nat
  BY FS_Subset, FS_CardinalityType, ReadersAssumption DEF ReadersTypeOK
<1>6. CASE Cardinality(inputs) >= SLOTS
  <2>1. /\ threads' = [threads EXCEPT ![t] = Replied(t, "limit")]
        /\ UNCHANGED <<inputs, live, shown>>
    BY <1>6 DEF AddReader
  <2>2. /\ Replied(t, "limit") \in Thread
        /\ Replied(t, "limit").promised = threads[t].promised
        /\ Replied(t, "limit").room = threads[t].room
        /\ Replied(t, "limit").answer = "limit"
    BY <1>2 DEF Replied, ReadersTypeOK, Thread
  <2>3. /\ threads' \in [THREADS -> Thread]
        /\ \A u \in THREADS : /\ threads'[u].promised = threads[u].promised
                              /\ threads'[u].room = threads[u].room
        /\ \A u \in THREADS \ {t} : threads'[u] = threads[u]
    BY <1>2, <2>1, <2>2 DEF ReadersTypeOK
  <2>4. ~threads[t].room
    <3>1. live \cup (inputs \ server.todo) = inputs
      BY <1>1 DEF ReadersTypeOK
    <3>2. threads[t].room => Cardinality(inputs) < SLOTS
      BY <1>1, <3>1, Zenon DEF RoomInv
    <3>3. ~(Cardinality(inputs) < SLOTS)
      BY <1>5, <1>6
    <3> QED
      BY <3>2, <3>3
  <2>5. ReadersTypeOK'
    BY <1>2, <1>3, <2>1, <2>3 DEF ReadersTypeOK
  <2>6. ViewInv' /\ RoomInv' /\ AnswerIsShown'
    BY <1>3, <2>1, <2>3 DEF ViewInv, RoomInv, AnswerIsShown
  <2>7. SlotsServeTheLiving'
    BY <2>1, <2>3, <2>4 DEF SlotsServeTheLiving
  <2> QED
    BY <1>4, <2>5, <2>6, <2>7
<1>7. CASE ~(Cardinality(inputs) >= SLOTS)
  <2> DEFINE fits == Cardinality(live') < SLOTS
             told(u) == IF u = t THEN Replied(t, "reader") ELSE threads[u]
             next(u) == [told(u) EXCEPT !.room = @ /\ fits]
  <2>1. /\ inputs' = inputs \cup {h} /\ live' = live \cup {h}
        /\ shown' = Append(shown, server.view)
        /\ threads' = [u \in THREADS |-> next(u)]
    BY <1>7 DEF AddReader
  <2>2. ASSUME NEW u \in THREADS
        PROVE  /\ next(u) \in Thread /\ next(u).promised = threads[u].promised
               /\ next(u).room => threads[u].room /\ fits
               /\ next(u).answer = "limit" => threads[u].answer = "limit"
    <3>1. /\ told(u) \in Thread /\ told(u).promised = threads[u].promised
          /\ told(u).room = threads[u].room
          /\ told(u).answer = "limit" => threads[u].answer = "limit"
      BY <1>2 DEF Replied, ReadersTypeOK, Thread
    <3> DEFINE room == told(u).room /\ fits
    <3>2. room \in BOOLEAN
      OBVIOUS
    <3>3. next(u) = [told(u) EXCEPT !.room = room]
      OBVIOUS
    <3> HIDE DEF told, next, room
    <3>4. next(u) \in Thread /\ next(u).promised = told(u).promised
          /\ next(u).room = room /\ next(u).answer = told(u).answer
      BY <3>1, <3>2, <3>3 DEF Thread
    <3> QED
      BY <3>1, <3>4 DEF room
  <2> HIDE DEF next
  <2>3. /\ threads' \in [THREADS -> Thread]
        /\ \A u \in THREADS : /\ threads'[u].promised = threads[u].promised
                              /\ threads'[u].room => threads[u].room /\ fits
                              /\ threads'[u].answer = "limit" => threads[u].answer = "limit"
    BY <2>1, <2>2
  <2>4. /\ server.view \in Nat
        /\ shown' \in Seq(Nat) /\ DOMAIN shown' = DOMAIN shown \cup {h}
        /\ \A g \in DOMAIN shown : g # h /\ shown'[g] = shown[g]
        /\ shown'[h] = server.view
    <3>1. server.view \in Nat
      BY ReadersAssumption DEF ReadersTypeOK, FINAL
    <3>2. Len(shown) \in Nat /\ DOMAIN shown = 1..Len(shown)
      BY LenProperties DEF ReadersTypeOK
    <3> QED
      BY <2>1, <3>1, <3>2, AppendProperties DEF ReadersTypeOK
  <2>5. /\ IsFiniteSet(inputs') /\ Cardinality(inputs') = Cardinality(inputs) + 1
        /\ h \notin inputs
    BY <2>1, <2>4, FS_AddElement DEF ReadersTypeOK
  <2>6. ReadersTypeOK'
    <3>1. server' \in [pc : Phases, view : 1..FINAL, todo : SUBSET inputs',
                       serving : BOOLEAN, stop : BOOLEAN]
      BY <1>3, <2>1
    <3> QED
      BY <1>2, <2>1, <2>3, <2>4, <2>5, <3>1 DEF ReadersTypeOK
  <2>7. ViewInv'
    BY <1>3, <2>3 DEF ViewInv
  <2>8. RoomInv'
    BY <1>3, <2>3 DEF RoomInv
  <2>9. AnswerIsShown'
    BY <2>1, <2>3, <2>4 DEF AnswerIsShown, ViewInv, ReadersTypeOK
  <2>10. SlotsServeTheLiving'
    BY <1>5, <1>7, <2>1, <2>3, <2>5 DEF SlotsServeTheLiving
  <2> QED
    BY <1>4, <2>6, <2>7, <2>8, <2>9, <2>10
<1> QED
  BY <1>6, <1>7

LEMMA AcknowledgeStep == ASSUME ReadersInv, Acknowledge PROVE ReadersInv'
<1> USE DEF ReadersInv
<1> DEFINE t == Head(pending)
           new == [Replied(t, "ok") EXCEPT !.promised = server.view]
<1>1. /\ server.pc = "write" /\ server.todo = {} /\ pending # <<>>
      /\ pending' = Tail(pending) /\ server' = [Goto("commands") EXCEPT !.serving = FALSE]
      /\ threads' = [threads EXCEPT ![t] = new]
      /\ UNCHANGED <<inputs, live, shown>>
  BY DEF Acknowledge, Acknowledges, ServedInv
<1>2. t \in THREADS /\ pending' \in Seq(THREADS)
  BY <1>1, HeadTailProperties DEF ReadersTypeOK
<1>3. server.view \in Nat /\ FINAL \in Nat
  BY ReadersAssumption DEF ReadersTypeOK, FINAL
<1>4. /\ server'.pc = "commands" /\ server'.todo = inputs /\ server'.view = server.view
      /\ server'.serving = FALSE
      /\ server' \in [pc : Phases, view : 1..FINAL, todo : SUBSET inputs,
                      serving : BOOLEAN, stop : BOOLEAN]
  BY <1>1 DEF Goto, ReadersTypeOK, Phases
<1>5. /\ new \in Thread /\ new.promised = server.view /\ new.room = threads[t].room
      /\ new.answer = "ok"
  BY <1>2, <1>3 DEF Replied, ReadersTypeOK, Thread
<1> HIDE DEF new
<1>6. /\ threads' \in [THREADS -> Thread]
      /\ threads'[t].promised = server.view /\ threads'[t].answer = "ok"
      /\ \A u \in THREADS : threads'[u].room = threads[u].room
      /\ \A u \in THREADS \ {t} : threads'[u] = threads[u]
  BY <1>1, <1>2, <1>5 DEF ReadersTypeOK
<1>7. ReadersTypeOK' /\ ServedInv'
  BY <1>1, <1>2, <1>4, <1>6 DEF ReadersTypeOK, ServedInv
<1>8. ViewInv'
  BY <1>3, <1>4, <1>6 DEF ViewInv
<1>9. RoomInv'
  BY <1>1, <1>4, <1>6 DEF RoomInv
<1>10. AnswerIsShown'
  BY <1>1, <1>3, <1>6 DEF AnswerIsShown, ViewInv
<1>11. SlotsServeTheLiving'
  BY <1>1, <1>6 DEF SlotsServeTheLiving
<1> QED
  BY <1>7, <1>8, <1>9, <1>10, <1>11

LEMMA LeaveStep == ASSUME ReadersInv, Leave PROVE ReadersInv'
<1> USE DEF ReadersInv
<1>1. /\ server.pc = "write" /\ server.todo = {} /\ ~server.serving
      /\ UNCHANGED <<inputs, live, shown>>
  BY DEF Leave
<1>2. ASSUME NEW where \in {"start", "gone"}
      PROVE  /\ Goto(where).pc = where /\ Goto(where).todo = inputs
             /\ Goto(where).view = server.view /\ ~Goto(where).serving
             /\ Goto(where) \in [pc : Phases, view : 1..FINAL, todo : SUBSET inputs,
                                 serving : BOOLEAN, stop : BOOLEAN]
  BY <1>1 DEF Goto, ReadersTypeOK, Phases
<1>3. CASE server.view = FINAL
  <2> DEFINE hangs(u) == \E i \in DOMAIN pending : pending[i] = u
             next(u) == IF hangs(u) THEN Replied(u, "gone") ELSE threads[u]
  <2>1. /\ server' = Goto("gone") /\ pending' = <<>>
        /\ threads' = [u \in THREADS |-> next(u)]
    BY <1>3 DEF Leave
  <2>2. ASSUME NEW u \in THREADS
        PROVE  /\ next(u) \in Thread /\ next(u).promised = threads[u].promised
               /\ next(u).room = threads[u].room
               /\ next(u).answer = "limit" => threads[u].answer = "limit"
    <3> HIDE DEF hangs
    <3> QED
      BY DEF Replied, ReadersTypeOK, Thread
  <2> HIDE DEF next
  <2>3. /\ threads' \in [THREADS -> Thread]
        /\ \A u \in THREADS : /\ threads'[u].promised = threads[u].promised
                              /\ threads'[u].room = threads[u].room
                              /\ threads'[u].answer = "limit" => threads[u].answer = "limit"
    BY <2>1, <2>2
  <2>4. /\ server'.pc = "gone" /\ server'.todo = inputs /\ server'.view = server.view
        /\ ~server'.serving
        /\ server' \in [pc : Phases, view : 1..FINAL, todo : SUBSET inputs,
                        serving : BOOLEAN, stop : BOOLEAN]
    BY <1>2, <2>1
  <2>5. ReadersTypeOK' /\ ServedInv'
    BY <1>1, <2>1, <2>3, <2>4 DEF ReadersTypeOK, ServedInv
  <2>6. ViewInv'
    BY <1>1, <1>3, <2>3, <2>4 DEF ViewInv
  <2>7. RoomInv' /\ AnswerIsShown' /\ SlotsServeTheLiving'
    BY <1>1, <2>3, <2>4 DEF RoomInv, AnswerIsShown, SlotsServeTheLiving
  <2> QED
    BY <2>5, <2>6, <2>7
<1>4. CASE server.view # FINAL
  <2>1. server' = Goto("start") /\ UNCHANGED <<pending, threads>>
    BY <1>4 DEF Leave
  <2>2. /\ server'.pc = "start" /\ server'.todo = inputs /\ server'.view = server.view
        /\ ~server'.serving
        /\ server' \in [pc : Phases, view : 1..FINAL, todo : SUBSET inputs,
                        serving : BOOLEAN, stop : BOOLEAN]
    BY <1>2, <2>1
  <2>3. ReadersTypeOK' /\ ServedInv' /\ ViewInv'
    BY <1>1, <2>1, <2>2 DEF ReadersTypeOK, ServedInv, ViewInv
  <2> QED
    BY <1>1, <2>1, <2>2, <2>3 DEF RoomInv, AnswerIsShown, SlotsServeTheLiving
<1> QED
  BY <1>3, <1>4

-----------------------------------------------------------------------------
(* The invariant that both of the next two follow from.                    *)
THEOREM ReadersInductive == ReadersSpec => []ReadersInv
<1>1. ReadersInv /\ [ReadersNext]_readersVars => ReadersInv'
  <2>1. SUFFICES ASSUME ReadersInv, [ReadersNext]_readersVars PROVE ReadersInv'
    OBVIOUS
  <2>2. CASE JobNext
    <3>1. CASE StartPass
      BY <2>1, <3>1, StartPassStep
    <3>2. CASE TakeCommand
      BY <2>1, <3>2, TakeCommandStep
    <3>3. CASE EndPass
      BY <2>1, <3>3, EndPassStep
    <3>4. CASE Sweep
      BY <2>1, <3>4, SweepStep
    <3>5. CASE Write
      BY <2>1, <3>5, WriteStep
    <3>6. CASE AddReader
      BY <2>1, <3>6, AddReaderStep
    <3>7. CASE Acknowledge
      BY <2>1, <3>7, AcknowledgeStep
    <3>8. CASE Leave
      BY <2>1, <3>8, LeaveStep
    <3> QED
      BY <2>2, <3>1, <3>2, <3>3, <3>4, <3>5, <3>6, <3>7, <3>8 DEF JobNext
  <2>3. CASE \E t \in THREADS : Ask(t) \/ ShutDown(t) \/ ShutDownReturns(t)
    BY <2>1, <2>3, AskStep, ShutDownStep, ShutDownReturnsStep
  <2>4. CASE \E h \in live : DropReader(h)
    BY <2>1, <2>4, DropReaderStep
  <2>5. CASE UNCHANGED readersVars
    BY <2>1, <2>5 DEF readersVars, ReadersInv, ReadersTypeOK, ServedInv, ViewInv, RoomInv,
         AnswerIsShown, SlotsServeTheLiving
  <2> QED
    BY <2>1, <2>2, <2>3, <2>4, <2>5 DEF ReadersNext
<1> QED
  BY InitReaders, <1>1, PTL DEF ReadersSpec

(* What Control::change or shutdown answered is what any thread reads next *)
(* through any reader that was not dropped.                                *)
THEOREM ReadersAnswerIsShown == ReadersSpec => []AnswerIsShown
<1>1. ReadersInv => AnswerIsShown
  BY DEF ReadersInv
<1> QED
  BY ReadersInductive, <1>1, PTL

(* Readers::reclaim and add_reader keep no slot of a dropped reader from a *)
(* thread that waits for one, and take none from a living reader.          *)
THEOREM ReadersSlotsServeTheLiving == ReadersSpec => []SlotsServeTheLiving
<1>1. ReadersInv => SlotsServeTheLiving
  BY DEF ReadersInv
<1> QED
  BY ReadersInductive, <1>1, PTL
=============================================================================
