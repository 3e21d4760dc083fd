------------------------------ MODULE Timeline ------------------------------
(***************************************************************************)
(* The value every engine exchanges and evaluates: a Timeline, the active  *)
(* anchor plus up to MAX_SCHEDULED scheduled changes                       *)
(* (protocol/src/timeline.rs, protocol/src/lib.rs).  Pure operators only.  *)
(*                                                                         *)
(* Positions are integers, rates are integer position units per tick, and  *)
(* a tick is the unit of every clock, so that an anchor is evaluated       *)
(* exactly; saturation at the Q32 bounds is left out.                      *)
(***************************************************************************)
EXTENDS Integers, Sequences, FiniteSetsExt

CONSTANTS MAX_SCHEDULED,  \* capacity of the schedule array
          SESSIONS,       \* identities an engine draws at each leader start
          PARTS,          \* caller-controlled recording-part identifiers
          FORMATS,        \* frame formats
          NONE            \* an absent value

ASSUME MaxScheduledAssumption == MAX_SCHEDULED \in Nat \ {0}
ASSUME NoneAssumption == NONE \notin Int \cup SESSIONS \cup [time : Nat, pos : Int]

(* An anchor together with the discontinuity that names it: the pair       *)
(* (Timeline.discontinuity, Timeline.anchor), or one Scheduled.            *)
Segment == [disc : Nat, time : Nat, pos : Int, rate : Int]

HEALTH == {"Healthy", "Degraded"}

Timelines == [session : SESSIONS, part : PARTS, rev : Nat, format : FORMATS,
              health : HEALTH, cur : Segment, sched : Seq(Segment)]

ASSUME NoTimelineAssumption == NONE \notin Timelines

-----------------------------------------------------------------------------
(* Anchor::at: where the trajectory of an anchor is at time t.             *)
At(seg, t) == seg.pos + (t - seg.time) * seg.rate

(* Timeline::at: the last scheduled change due at t, else the active one.  *)
DueAt(tl, t) == {i \in 1..Len(tl.sched) : tl.sched[i].time <= t}

Active(tl, t) == IF DueAt(tl, t) = {} THEN tl.cur ELSE tl.sched[Max(DueAt(tl, t))]

(* The first n scheduled changes leave the schedule, the nth is active.    *)
AdvanceTo(tl, n) ==
  IF n = 0 THEN tl
           ELSE [tl EXCEPT !.cur = tl.sched[n],
                           !.sched = SubSeq(tl.sched, n + 1, Len(tl.sched))]

(* Timeline::latch: leading changes numbered up to disc were applied.      *)
Latch(tl, disc) ==
  AdvanceTo(tl, Max({n \in 0..Len(tl.sched) :
                       \A i \in 1..n : tl.sched[i].disc <= disc}))

(* Variant: the schedule is left to the receivers.                         *)
Unpromoted(tl, now) == tl

(* LeaderJob::progress, the promotion loop: leading changes now due.       *)
Promote(tl, now) ==
  AdvanceTo(tl, Max({n \in 0..Len(tl.sched) :
                       \A i \in 1..n : tl.sched[i].time <= now}))

-----------------------------------------------------------------------------
(* validate_snapshot: what a receiver requires of a decoded snapshot.  The *)
(* schedule is strictly later and strictly higher-numbered, change after   *)
(* change, starting from the active anchor.                                *)
Preceding(tl, i) == IF i = 1 THEN tl.cur ELSE tl.sched[i - 1]

ScheduleOrdered(tl) ==
  \A i \in 1..Len(tl.sched) :
    /\ Preceding(tl, i).time < tl.sched[i].time
    /\ Preceding(tl, i).disc < tl.sched[i].disc

ValidSnapshot(tl) ==
  /\ tl.rev # 0
  /\ Len(tl.sched) <= MAX_SCHEDULED
  /\ ScheduleOrdered(tl)

Segments(tl) == {tl.cur} \cup {tl.sched[i] : i \in 1..Len(tl.sched)}

-----------------------------------------------------------------------------
(* change_timeline: a control of the leader, effective at `time`.          *)
Changes == [op : {"Rate", "Seek", "Set"}, pos : Int, rate : Int]

LastScheduled(tl) == tl.sched[Len(tl.sched)]

(* Variant: a change may be scheduled before the last one scheduled.       *)
UnorderedAccepted(tl, time, now) == time > now => Len(tl.sched) < MAX_SCHEDULED

ChangeAccepted(tl, time, now) ==
  time > now => /\ Len(tl.sched) < MAX_SCHEDULED
                /\ tl.sched # <<>> => LastScheduled(tl).time < time

(* Variant: a number above the active one only.                            *)
UnreservedDisc(tl, time) == 1 + Max({tl.cur.disc, Active(tl, time).disc})

(* One above the active and every reserved discontinuity.                  *)
FreshDisc(tl, time) ==
  1 + Max({tl.cur.disc, Active(tl, time).disc}
            \cup IF tl.sched = <<>> THEN {} ELSE {LastScheduled(tl).disc})

ChangedSegment(tl, c, time) ==
  LET was == Active(tl, time)
  IN  [disc |-> FreshDisc(tl, time),
       time |-> time,
       pos  |-> IF c.op = "Rate" THEN At(was, time) ELSE c.pos,
       rate |-> IF c.op = "Seek" THEN was.rate ELSE c.rate]

(* A future change is appended to the schedule; one already effective      *)
(* becomes active and cancels the schedule.                                *)
ChangeTimeline(tl, c, time, now) ==
  IF time > now
    THEN [tl EXCEPT !.sched = Append(@, ChangedSegment(tl, c, time))]
    ELSE [tl EXCEPT !.cur = ChangedSegment(tl, c, time), !.sched = <<>>]
=============================================================================
