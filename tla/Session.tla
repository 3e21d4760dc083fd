------------------------------ MODULE Session ------------------------------
(***************************************************************************)
(* One leader and one follower joined by the network: LeaderJob publishing *)
(* to a Peer, FollowerJob connecting, measuring and adopting               *)
(* (native/src/network.rs).  The leader is module Leader, the follower     *)
(* module FollowerCore.                                                    *)
(*                                                                         *)
(* The transport is external: a published snapshot is a group of its own   *)
(* on the state track, so groups may overtake one another, and one may be  *)
(* superseded before it was read.  Each process has its own epoch, so      *)
(* either clock may be further on; they tick together, so the true offset  *)
(* of a leader's clock is constant for its life.  A measured offset is off *)
(* by some error of the path and reports that as its uncertainty.          *)
(***************************************************************************)
EXTENDS FollowerCore

CONSTANTS KIND, HEARTBEAT, TRACKED_PUBLISH, SOURCE_TIMEOUT, COMMANDS, TIMES,
          SAMPLES, START, MAX_TIME, MAX_COMMANDS, FRAME, SPEED_NOISE, SPEED_MATCH,
          LOCAL_STARTS, \* what a follower's clock may read when it is created
          ENVIRONMENTS \* paths between the two and bounds on what happens

ASSUME SessionAssumption ==
  /\ KIND \in {"Generated", "Tracked"}
  /\ COMMANDS \subseteq Changes /\ TIMES \subseteq Nat /\ START \in Nat
  /\ LOCAL_STARTS \subseteq Nat \ {0}
  /\ ENVIRONMENTS \subseteq [errors : SUBSET Int, commands : Nat, exchanges : Nat,
                              breaks : Nat, losses : Nat, restarts : Nat]

VARIABLES
  now, tl, bytes, publish, dirty, tracker, lastPublish, sourceDeadline, commands,
  names,  \* the leader's, see Leader
  core,   \* FollowerJob.core
  local,  \* the follower's monotonic clock
  link,   \* session of the leader the follower is connected to, or NONE
  flight, \* snapshots written to the state track and not yet read
  past,   \* history: the leaders that were restarted, with their last revision
  hasty,  \* history: a change was latched before the first exchange, and early
  env     \* the errors of the path's measurements, and how many controls,
          \* exchanges, breaks, losses and restarts are left (bounds only)

L == INSTANCE Leader

leader == <<now, tl, bytes, publish, dirty, tracker, lastPublish, sourceDeadline,
            commands, names>>
ends == <<core, local, link>>
vars == <<leader, ends, flight, past, hasty, env>>

Init ==
  /\ L!Init
  /\ core = NewCore
  /\ local \in LOCAL_STARTS
  /\ link = NONE
  /\ flight = {}
  /\ past = <<>>
  /\ hasty = FALSE
  /\ env \in ENVIRONMENTS

Spend(what) == env[what] > 0 /\ env' = [env EXCEPT ![what] = @ - 1]

-----------------------------------------------------------------------------
(* A command that the leader handles stays inside the leader.              *)
Command ==
  /\ \/ \E c \in COMMANDS, effective \in TIMES \cup {NONE} : L!ChangeCmd(c, effective)
     \/ \E part \in PARTS : L!SessionIdCmd(part)
     \/ \E s \in SAMPLES : L!SampleCmd(s)
  /\ Spend("commands")
  /\ UNCHANGED <<ends, flight, past, hasty>>

(* The end of a leader's pass: what it publishes is written to its peer.   *)
Pass ==
  /\ L!FinishPass
  /\ flight' = IF link = tl.session /\ bytes' # bytes THEN flight \cup {bytes'} ELSE flight
  /\ UNCHANGED <<ends, past, hasty, env>>

Elapse ==
  /\ L!Tick
  /\ local' = local + 1
  /\ UNCHANGED <<core, link, flight, past, hasty, env>>

(* The leader's process ends and another starts: a new session, a new      *)
(* clock, no memory.  The follower's connection does not notice yet.       *)
Used(s) == s = tl.session \/ \E i \in 1..Len(past) : past[i].session = s

Restart(s) ==
  /\ ~Used(s) /\ Spend("restarts")
  /\ past' = Append(past, [session |-> tl.session, rev |-> bytes.rev])
  /\ now' = START
  /\ tl' = L!InitialTimeline(s, tl.part, tl.format, 0, 0, START)
  /\ bytes' = tl'
  /\ publish' = FALSE /\ dirty' = FALSE
  /\ tracker' = L!InitTracker
  /\ lastPublish' = START
  /\ sourceDeadline' = NONE
  /\ names' = {tl'.cur}
  /\ UNCHANGED <<commands, ends, flight, hasty>>

-----------------------------------------------------------------------------
(* Peer::new: the state track of a new peer starts with the last snapshot. *)
FirstGroups == {bytes}

(* FollowerJob::progress once peer.step is ready for the first time.       *)
Connect ==
  /\ link = NONE
  /\ link' = tl.session
  /\ flight' = FirstGroups
  /\ core' = TickCore(Connected(core), local)
  /\ UNCHANGED <<leader, local, past, hasty, env>>

(* FollowerJob::disconnect, and the tick that ends the pass.               *)
Disconnect ==
  /\ link # NONE
  /\ link' = NONE
  /\ flight' = {}
  /\ core' = TickCore(Disconnected(core), local)
  /\ UNCHANGED <<leader, local, past, hasty>>

Break == link = tl.session /\ Disconnect /\ Spend("breaks")

(* The idle timeout of a connection whose leader is gone.                  *)
NoticeDeath == link # tl.session /\ Disconnect /\ UNCHANGED env

(* What the estimator may make of exchanges with the leader.               *)
Exchanges ==
  IF link # tl.session THEN {}
  ELSE {[accepted |-> TRUE, recovering |-> FALSE, offset |-> now - local + err,
         unc |-> Magnitude(err), converged |-> locks] : err \in env.errors, locks \in BOOLEAN}

(* FollowerJob::step: replies, then the newest state group, then the tick; *)
(* readers see the view that the pass leaves.                              *)
AfterReply(m) == IF m = NONE THEN core ELSE Measure(core, m, local)
AfterGroup(c, t) == IF t = NONE THEN c ELSE State(c, t, local)

(* Until the first exchange with a leader its snapshots are advanced by    *)
(* the follower's own clock, which may show changes as due that the leader *)
(* has not come to.  Another session starts afresh.                        *)
Hasty(m) ==
  /\ core'.tl.session = core.tl.session
  /\ hasty \/ (~Initialized(AfterReply(m)) /\ core'.tl.session = tl.session
                 /\ core'.tl.cur.time > now)

FollowerPass(m, t) ==
  /\ core' = TickCore(AfterGroup(AfterReply(m), t), local)
  /\ flight' = flight \ {t}
  /\ hasty' = Hasty(m)
  /\ IF m = NONE THEN UNCHANGED env ELSE Spend("exchanges")
  /\ UNCHANGED <<leader, local, link, past>>

(* A group is superseded unread, or its stream is reset.  The bound leaves *)
(* room for the heartbeat that repairs the loss.                           *)
Lose(t) ==
  /\ Spend("losses")
  /\ lastPublish + HEARTBEAT <= MAX_TIME
  /\ flight' = flight \ {t}
  /\ UNCHANGED <<leader, ends, past, hasty>>

Deliver == \E t \in flight : FollowerPass(NONE, t)

Next ==
  \/ Command
  \/ Pass
  \/ Elapse
  \/ \E s \in SESSIONS : Restart(s)
  \/ Connect
  \/ Break
  \/ NoticeDeath
  \/ \E m \in Exchanges \cup {NONE}, t \in flight \cup {NONE} : FollowerPass(m, t)
  \/ \E t \in flight : Lose(t)

(* Both workers finish the passes they start, time passes, the follower    *)
(* retries, QUIC delivers what it was given and notices a dead peer.       *)
Fairness ==
  /\ WF_vars(Pass) /\ WF_vars(Elapse)
  /\ WF_vars(Connect) /\ WF_vars(NoticeDeath) /\ WF_vars(Deliver)

Spec == Init /\ [][Next]_vars /\ Fairness

-----------------------------------------------------------------------------
(* Replica, the specification of what the follower holds.                  *)
Eras == Append(past, [session |-> tl.session, rev |-> bytes.rev])
EraOf(s) == {i \in 1..Len(Eras) : Eras[i].session = s}
Held == <<Max(EraOf(core.tl.session) \cup {0}), core.tl.rev>>

R == INSTANCE Replica WITH eras <- Eras, held <- Held

(* Reordered, superseded and late snapshots, reconnections and restarts    *)
(* notwithstanding, the follower only moves forward through what leaders   *)
(* published.                                                              *)
Replicates == R!Spec

(* A leader that keeps the rules is never mistaken for one that rolls      *)
(* back: the transition checks of FollowerCore::state, made against a      *)
(* trajectory that may run ahead of the leader's, refuse no newer          *)
(* revision of the session.                                                *)
LeaderNeverRefused ==
  [][\A t \in flight :
       (t \notin flight' /\ link' = link /\ env'.losses = env.losses
          /\ t.session = core.tl.session /\ t.rev > core.tl.rev)
         => core'.tl.rev = t.rev]_vars

(* Controls take effect together.  A follower that has heard of every      *)
(* control and knows the offset plays what the leader plays, at every      *)
(* instant: connected or not, whether or not the schedule arrived, was     *)
(* latched, promoted or re-announced meanwhile, and whichever of the two   *)
(* clocks is the further on.  A follower that latched a change early does  *)
(* not take it back, and plays in step again once the leader has come to   *)
(* it; where no path shows the leader's clock as further on than it is,    *)
(* only snapshots advanced before the first exchange are latched early.    *)
Highest(t) == Max({s.disc : s \in Segments(t)})

LeavesBehind == \A err \in env.errors : err <= 0

InStep ==
  (/\ (LeavesBehind /\ ~hasty) \/ core.tl.cur.time <= now
   /\ Initialized(core)
   /\ core.tl.session = tl.session
   /\ core.offset = now - local
   /\ Highest(core.tl) = Highest(tl))
    => Playing(core, local) = Active(tl, now)

(* Status::aligned can be believed: when it is shown and the estimator's   *)
(* bound is right, output is within the advertised bound of the leader's,  *)
(* as long as both play the same change.                                   *)
AlignedIsHonest ==
  (/\ Aligned(core, local)
   /\ core.tl.session = tl.session
   /\ Magnitude(core.offset - (now - local)) <= core.unc
   /\ Playing(core, local).disc = Active(tl, now).disc)
    => Magnitude(Position(core, local) - At(Active(tl, now), now)) <= ALIGNED

(* The last snapshot of the last leader is adopted in the end and kept:    *)
(* heartbeats repair lost groups, reconnection repairs lost connections    *)
(* and dead leaders.                                                       *)
Converges ==
  <>[](core.tl.session = tl.session /\ core.tl.rev = bytes.rev)

(* docs/protocol.md:58 - "Applied schedules are latched, so a subsequent   *)
(* clock correction cannot move the follower back across an                *)
(* already-applied discontinuity" - of what readers see once the clock has *)
(* locked.                                                                 *)
AppliedStaysApplied ==
  [][(core.locked /\ core'.tl.session = core.tl.session)
        => Playing(core, local).disc <= Playing(core', local').disc]_vars
=============================================================================
