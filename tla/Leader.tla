------------------------------- MODULE Leader -------------------------------
(***************************************************************************)
(* LeaderJob (native/src/network.rs): the authoritative timeline, the      *)
(* commands that change it, and what each worker pass publishes.           *)
(*                                                                         *)
(* A pass of LeaderJob::progress handles queued commands one after the     *)
(* other (the actions ChangeCmd, SampleCmd and SessionIdCmd) and then      *)
(* promotes, assesses health and publishes (FinishPass).  Time may move    *)
(* between any two of these, but not beyond LeaderJob::deadline, which the *)
(* worker polls with: Tick is guarded by it.                               *)
(***************************************************************************)
EXTENDS Tracker

CONSTANTS KIND,            \* LeaderConfig.source_kind
          HEARTBEAT,       \* Timing.heartbeat
          TRACKED_PUBLISH, \* Timing.tracked_publish
          SOURCE_TIMEOUT,  \* Timing.source_timeout
          COMMANDS,        \* controls an application may send
          TIMES,           \* effective times it may ask for
          SAMPLES,         \* samples an external source may produce
          START,           \* the engine's clock when the leader is created
          MAX_TIME,        \* bound on the clock
          MAX_COMMANDS     \* bound on the commands handled

ASSUME LeaderAssumption ==
  /\ KIND \in {"Generated", "Tracked"}
  /\ {HEARTBEAT, TRACKED_PUBLISH, SOURCE_TIMEOUT} \subseteq Nat \ {0}
  /\ COMMANDS \subseteq Changes
  /\ TIMES \subseteq Nat
  /\ SAMPLES \subseteq Samples
  /\ START \in Nat

VARIABLES
  now,            \* the engine's monotonic clock
  tl,             \* LeaderJob.timeline
  bytes,          \* LeaderJob.bytes: the snapshot last encoded
  publish,        \* progress's local: this pass must publish
  dirty,          \* routine samples await publication
  tracker,        \* LeaderJob.tracker
  lastPublish,    \* when bytes was last encoded
  sourceDeadline, \* when health must be assessed again, or NONE
  commands,       \* commands handled so far (bound only)
  names           \* history: every segment ever published

vars == <<now, tl, bytes, publish, dirty, tracker, lastPublish, sourceDeadline,
          commands, names>>

-----------------------------------------------------------------------------
(* LeaderJob::new.  The first snapshot is encoded without a pass.          *)
InitialTimeline(session, part, format, pos, rate, time) ==
  [session |-> session, part |-> part, rev |-> 1, format |-> format,
   health  |-> IF KIND = "Tracked" THEN "Degraded" ELSE "Healthy",
   cur     |-> [disc |-> 0, time |-> time, pos |-> pos, rate |-> rate],
   sched   |-> <<>>]

Init ==
  /\ now = START
  /\ \E s \in SESSIONS, p \in PARTS, f \in FORMATS :
       tl = InitialTimeline(s, p, f, 0, 0, START)
  /\ bytes = tl
  /\ publish = FALSE /\ dirty = FALSE
  /\ tracker = InitTracker
  /\ lastPublish = START
  /\ sourceDeadline = NONE
  /\ commands = 0
  /\ names = Segments(tl)

-----------------------------------------------------------------------------
Count == commands < MAX_COMMANDS /\ commands' = commands + 1

(* Command::Change.  A refused change only answers the caller.             *)
ChangeCmd(c, effective) ==
  LET time == IF effective = NONE THEN now ELSE effective
  IN  /\ Count
      /\ ChangeAccepted(tl, time, now)
      /\ tl' = ChangeTimeline(tl, c, time, now)
      /\ publish' = TRUE
      /\ UNCHANGED <<now, bytes, dirty, tracker, lastPublish, sourceDeadline, names>>

(* Command::SessionId.                                                     *)
SessionIdCmd(part) ==
  /\ Count
  /\ tl' = [tl EXCEPT !.part = part]
  /\ publish' = (publish \/ tl.part # part)
  /\ UNCHANGED <<now, bytes, dirty, tracker, lastPublish, sourceDeadline, names>>

(* Variant: a routine sample marks nothing for publication.                *)
UnmarkedSample(s) ==
  /\ Count
  /\ KIND = "Tracked" /\ SampleAccepted(tracker, s, now)
  /\ tl' = TrackedTimeline(tracker, tl, s)
  /\ tracker' = TrackedMemory(tracker, tl, s)
  /\ publish' = (publish \/ Discontinuous(tracker, tl, s))
  /\ sourceDeadline' = s.time + SOURCE_TIMEOUT + 1
  /\ UNCHANGED <<now, bytes, dirty, lastPublish, names>>

(* Command::Sample.  A refused sample only answers the caller.             *)
SampleCmd(s) ==
  /\ Count
  /\ KIND = "Tracked"
  /\ SampleAccepted(tracker, s, now)
  /\ tl' = TrackedTimeline(tracker, tl, s)
  /\ tracker' = TrackedMemory(tracker, tl, s)
  /\ dirty' = TRUE
  /\ publish' = (publish \/ Discontinuous(tracker, tl, s) \/ tl.health # "Healthy")
  /\ sourceDeadline' = s.time + SOURCE_TIMEOUT + 1
  /\ UNCHANGED <<now, bytes, lastPublish, names>>

-----------------------------------------------------------------------------
(* The rest of a pass: promotion of the changes now due, source health,    *)
(* and the rule that decides on a publication.                             *)
Settled ==
  LET promoted == Promote(tl, now)
  IN  IF KIND = "Tracked"
        THEN [promoted EXCEPT !.health = Health(tracker, now, SOURCE_TIMEOUT)]
        ELSE promoted

PublicationDue ==
  \/ publish
  \/ Settled # tl
  \/ now - lastPublish >= HEARTBEAT
  \/ dirty /\ now - lastPublish >= TRACKED_PUBLISH

AssessedDeadline ==
  IF KIND = "Tracked" /\ sourceDeadline # NONE /\ sourceDeadline <= now
    THEN NONE ELSE sourceDeadline

FinishPass ==
  /\ sourceDeadline' = AssessedDeadline
  /\ publish' = FALSE
  /\ IF PublicationDue
       THEN /\ tl' = [Settled EXCEPT !.rev = @ + 1]
            /\ bytes' = tl'
            /\ names' = names \cup Segments(tl')
            /\ lastPublish' = now
            /\ dirty' = FALSE
       ELSE UNCHANGED <<tl, bytes, names, lastPublish, dirty>>
  /\ UNCHANGED <<now, tracker, commands>>

-----------------------------------------------------------------------------
(* Variant: nothing wakes the worker when the source goes silent.          *)
DeafDeadline ==
  Min({lastPublish + HEARTBEAT}
        \cup (IF dirty THEN {lastPublish + TRACKED_PUBLISH} ELSE {})
        \cup (IF tl.sched = <<>> THEN {} ELSE {tl.sched[1].time}))

(* LeaderJob::deadline: the worker starts a pass no later than this.       *)
Deadline ==
  Min({lastPublish + HEARTBEAT}
        \cup (IF dirty THEN {lastPublish + TRACKED_PUBLISH} ELSE {})
        \cup (IF tl.sched = <<>> THEN {} ELSE {tl.sched[1].time})
        \cup (IF sourceDeadline = NONE THEN {} ELSE {sourceDeadline}))

Tick ==
  /\ now < MAX_TIME
  /\ now < Deadline
  /\ now' = now + 1
  /\ UNCHANGED <<tl, bytes, publish, dirty, tracker, lastPublish, sourceDeadline,
                 commands, names>>

Next ==
  \/ \E c \in COMMANDS, effective \in TIMES \cup {NONE} : ChangeCmd(c, effective)
  \/ \E part \in PARTS : SessionIdCmd(part)
  \/ \E s \in SAMPLES : SampleCmd(s)
  \/ FinishPass
  \/ Tick

(* The worker finishes every pass it starts, and the clock moves on.       *)
Spec == Init /\ [][Next]_vars /\ WF_vars(FinishPass) /\ WF_vars(Tick)

-----------------------------------------------------------------------------
Trackers == [last  : [time : Nat, pos : Int] \cup {NONE},
             cand  : Int \cup {NONE}, count : Nat, jumps : Nat,
             sign  : {-1, 0, 1}]

TypeOK ==
  /\ now \in Nat
  /\ tl \in Timelines /\ bytes \in Timelines
  /\ publish \in BOOLEAN /\ dirty \in BOOLEAN
  /\ tracker \in Trackers
  /\ lastPublish \in Nat
  /\ sourceDeadline \in Nat \cup {NONE}
  /\ commands \in Nat
  /\ names \subseteq Segment

(* Whatever sequence of commands a pass handled, and wherever the clock    *)
(* moved meanwhile, the snapshot it encodes passes the validation of every *)
(* receiver (validate_snapshot): a sample or a late control may leave the  *)
(* active anchor beyond changes that are due, so the promotion loop must   *)
(* restore the order before the encoding.                                  *)
PublishedValid == ValidSnapshot(bytes)

(* A discontinuity number published once never names a second trajectory:  *)
(* followers compare only the number to decide whether to apply a change   *)
(* at once or to correct smoothly.  Stated while only controls have moved  *)
(* the anchor: a routine sample replaces it under its number.              *)
NamesUnique ==
  tracker.last = NONE => \A a, b \in names : a.disc = b.disc => a = b

(* Between passes a follower holding the last snapshot knows the whole     *)
(* timeline: it lags only while a pass is under way or while routine       *)
(* samples are coalesced.                                                  *)
PublishedFresh == publish \/ dirty \/ bytes = tl

(* No lost wakeup: whenever the clock leaves an instant between passes,    *)
(* progress would have found nothing to publish at that instant, so        *)
(* LeaderJob::deadline covers every condition that progress tests - a due  *)
(* change, a heartbeat, coalesced samples, a source gone silent.           *)
NoLostWakeup == [][now' # now => publish \/ ~PublicationDue]_vars

(* docs/protocol.md:42 and :58 - a change takes a discontinuity above      *)
(* every reserved one - of what is published after what was published.     *)
FreshNames ==
  [][\A s \in names' \ names :
       s.disc > bytes.cur.disc => \A r \in names : s.disc > r.disc]_vars
=============================================================================
