----------------------------- MODULE TaskProofs -----------------------------
(***************************************************************************)
(* Tasks that leave work to each other and may fail in between.            *)
(*                                                                         *)
(* The worker of the native crate: no call is left to it while it sleeps,  *)
(* for any number of threads and jobs and any capacities.  A WebTransport  *)
(* session: where its streams end up, what a failed handshake leaves       *)
(* behind, and what its CONNECT stream is read to say, for any number of   *)
(* streams and bytes, however slow the peer is and whatever the limits     *)
(* are.  The browser's page: the core of its follower hears only the       *)
(* attempt that connected it, however much is clicked and goes wrong.      *)
(***************************************************************************)
EXTENDS Worker, WebSession, Browser, FiniteSetTheorems, SequenceTheorems,
        WellFoundedInduction, TLAPS

(* The worker.                                                             *)
Labels == {"idle", "registered", "spawning", "sent", "flagged", "stopping", "waiting",
           "ok", "failed"}

WorkerTypeOK ==
  /\ op \in [CALLERS -> {"create", "command", "stop", "end"}] /\ at \in [CALLERS -> JOBS]
  /\ pc \in [CALLERS -> Labels]
  /\ answer \in [CALLERS -> {"none", "ok", "failed"}]
  /\ stop \in [JOBS -> BOOLEAN]
  /\ status \in [JOBS -> {"none", "registered", "queued", "running", "gone"}]
  /\ tasks \in Seq(CALLERS) /\ queue \in [JOBS -> Seq(CALLERS)]
  /\ wpc \in {"clear", "take", "step", "decide", "poll", "poll now", "exited"}
  /\ left \subseteq JOBS

Begun == {"queued", "running", "gone"}
Creates(c) == op[c] = "create" /\ pc[c] \notin {"idle", "failed"}

(* A job is known to the worker from the moment that its one creator sent  *)
(* it, and what runs before that is only the creator.                      *)
CreatorInv ==
  \A c \in CALLERS :
    /\ pc[c] \in {"registered", "spawning"} => Creates(c) /\ status[at[c]] = "registered"
    /\ Creates(c) /\ pc[c] \notin {"registered", "spawning"} => status[at[c]] \in Begun
    /\ \A d \in CALLERS : Creates(c) /\ Creates(d) /\ at[c] = at[d] => c = d

(* The factory of a queued job is in the channel; commands are only queued *)
(* for a job that the worker has or will take; what is still to be stepped *)
(* runs.                                                                   *)
ChannelInv ==
  /\ \A j \in JOBS : status[j] = "queued" => \E c \in ToSet(tasks) : at[c] = j
  /\ \A c \in ToSet(tasks) : status[at[c]] = "queued"
  /\ \A j \in JOBS : queue[j] # <<>> => status[j] \in {"queued", "running"}
  /\ wpc = "step" => \A j \in left : status[j] = "running"

(* What a caller has done by the time it notifies.                         *)
CallInv ==
  \A c \in CALLERS :
    /\ op[c] = "stop" /\ pc[c] # "idle" => stop[at[c]] /\ status[at[c]] \in Begun
    /\ op[c] = "end" /\ pc[c] # "idle" => estop
    /\ pc[c] = "stopping" => op[c] = "end"
    /\ op[c] = "command" /\ pc[c] \in {"sent", "flagged", "waiting"} =>
         c \in ToSet(queue[at[c]]) \/ answer[c] # "none"
    /\ op[c] = "create" /\ pc[c] \in {"sent", "flagged", "waiting"} =>
         c \in ToSet(tasks) \/ answer[c] # "none"

(* Once a pass is beyond something, whoever is not about to notify has     *)
(* notified since the pass began, or the pass knows that it left a rest.   *)
PassInv ==
  /\ wpc \in {"step", "decide"} =>
       /\ \A c \in ToSet(tasks) : pc[c] # "sent" => notified
       /\ \A j \in JOBS : \A c \in ToSet(queue[j]) :
            pc[c] # "sent" => notified \/ j \in more \/ (wpc = "step" /\ j \in left)
       /\ \A c \in CALLERS :
            op[c] = "stop" /\ pc[c] \notin {"idle", "sent"} =>
              status[at[c]] = "gone" \/ notified \/ (wpc = "step" /\ at[c] \in left)
  /\ wpc = "decide" =>
       \A c \in CALLERS : op[c] = "end" /\ pc[c] \notin {"idle", "sent"} => notified

(* And while the worker sleeps, it is about to wake it.                    *)
SleepInv ==
  wpc = "poll" /\ ~event =>
    /\ \A c \in ToSet(tasks) : pc[c] \in {"sent", "flagged"}
    /\ \A j \in JOBS : \A c \in ToSet(queue[j]) : pc[c] \in {"sent", "flagged"}
    /\ \A c \in CALLERS :
         /\ op[c] = "stop" => pc[c] \in {"idle", "sent", "flagged"} \/ status[at[c]] = "gone"
         /\ op[c] = "end" => pc[c] \in {"idle", "sent", "flagged"}

WorkerInv == WorkerTypeOK /\ CreatorInv /\ ChannelInv /\ CallInv /\ PassInv /\ SleepInv

-----------------------------------------------------------------------------
LEMMA AppendedTo ==
  ASSUME NEW S, NEW s \in Seq(S), NEW e \in S
  PROVE  Append(s, e) \in Seq(S) /\ ToSet(Append(s, e)) = ToSet(s) \cup {e}
<1>1. /\ Append(s, e) \in Seq(S) /\ Len(Append(s, e)) = Len(s) + 1
      /\ \A i \in 1..Len(s) : Append(s, e)[i] = s[i]
      /\ Append(s, e)[Len(s) + 1] = e
  BY AppendProperties
<1>2. /\ Len(s) \in Nat /\ DOMAIN s = 1..Len(s)
      /\ DOMAIN Append(s, e) = 1..(Len(s) + 1)
  BY <1>1, LenProperties
<1> QED
  BY <1>1, <1>2 DEF ToSet

LEMMA WaitingAreCallers ==
  ASSUME WorkerTypeOK
  PROVE  ToSet(tasks) \subseteq CALLERS /\ \A j \in JOBS : ToSet(queue[j]) \subseteq CALLERS
<1>1. ASSUME NEW s \in Seq(CALLERS) PROVE ToSet(s) \subseteq CALLERS
  BY LenProperties, ElementOfSeq DEF ToSet
<1> QED
  BY <1>1 DEF WorkerTypeOK

LEMMA NothingIn == ToSet(<<>>) = {}
BY DEF ToSet

LEMMA InitWorker == WorkerInit => WorkerInv
<1> SUFFICES ASSUME WorkerInit PROVE WorkerInv
  OBVIOUS
<1>1. PICK calling \in PLANS : /\ op = [c \in CALLERS |-> calling[c][1]]
                               /\ at = [c \in CALLERS |-> calling[c][2]]
  BY DEF WorkerInit
<1>2. calling \in [CALLERS -> {"create", "command", "stop", "end"} \X JOBS]
  BY WorkerAssumption
<1>3. \A c \in CALLERS : /\ calling[c][1] \in {"create", "command", "stop", "end"}
                         /\ calling[c][2] \in JOBS
  BY <1>2
<1>4. WorkerTypeOK
  BY <1>1, <1>3, EmptySeq DEF WorkerInit, WorkerTypeOK, Labels
<1>5. CreatorInv /\ CallInv
  BY DEF WorkerInit, CreatorInv, Creates, CallInv
<1>6. ChannelInv /\ PassInv /\ SleepInv
  BY NothingIn DEF WorkerInit, ChannelInv, PassInv, SleepInv
<1> QED
  BY <1>4, <1>5, <1>6 DEF WorkerInv

-----------------------------------------------------------------------------
(* What a caller may do between the channels: it owes a notification until *)
(* it has set the flag, and a wakeup until it has woken.                   *)
LEMMA CallerMoves ==
  ASSUME WorkerInv, NEW c \in CALLERS, NEW label \in Labels \ {"idle", "registered"},
         pc' = [pc EXCEPT ![c] = label],
         UNCHANGED <<calls, answer, channels, pass>>,
         stop' \in [JOBS -> BOOLEAN], \A j \in JOBS : stop[j] => stop'[j], estop => estop',
         notified => notified', event => event',
         label = "spawning" => pc[c] = "registered",
         label = "stopping" => op[c] = "end",
         op[c] = "create" /\ label \notin {"failed", "spawning"} =>
           pc[c] \in {"sent", "flagged", "waiting"},
         op[c] \in {"create", "command"} /\ label \in {"sent", "flagged", "waiting"} =>
           pc[c] \in {"sent", "flagged", "waiting"},
         op[c] = "stop" => stop'[at[c]] /\ status[at[c]] \in Begun,
         op[c] = "end" => estop',
         label # "sent" /\ (pc[c] = "sent" \/ (pc[c] = "idle" /\ op[c] \in {"stop", "end"})) =>
           notified',
         label \notin {"sent", "flagged"} /\ pc[c] \in {"sent", "flagged"} => event',
         label \notin {"sent", "flagged"} /\ op[c] \in {"stop", "end"} => pc[c] # "idle"
  PROVE  WorkerInv'
<1> USE DEF WorkerInv, calls, channels, pass
<1>1. /\ pc' \in [CALLERS -> Labels] /\ pc'[c] = label
      /\ \A d \in CALLERS \ {c} : pc'[d] = pc[d]
  BY DEF WorkerTypeOK
<1>2. WorkerTypeOK'
  BY <1>1 DEF WorkerTypeOK
<1>3. \A d \in CALLERS : Creates(d)' => Creates(d)
  BY <1>1 DEF Creates, CreatorInv
<1>4. CreatorInv'
  <2>1. ASSUME NEW d \in CALLERS
        PROVE  /\ pc'[d] \in {"registered", "spawning"} =>
                    Creates(d)' /\ status[at[d]] = "registered"
               /\ Creates(d)' /\ pc'[d] \notin {"registered", "spawning"} =>
                    status[at[d]] \in Begun
    BY <1>1, <1>3 DEF CreatorInv, Creates
  <2> QED
    BY <1>3, <2>1 DEF CreatorInv
<1>5. ChannelInv'
  BY DEF ChannelInv
<1>6. CallInv'
  <2>1. \A d \in CALLERS : at[d] \in JOBS
    BY DEF WorkerTypeOK
  <2> QED
    BY <1>1, <2>1 DEF CallInv
<1>7. PassInv'
  <2>1. \A d \in CALLERS : pc[d] = "sent" /\ pc'[d] # "sent" => notified'
    BY <1>1
  <2>2. \A d \in CALLERS :
          op[d] \in {"stop", "end"} /\ pc[d] \in {"idle", "sent"} /\ pc'[d] \notin {"idle", "sent"}
            => notified'
    BY <1>1
  <2> QED
    BY <2>1, <2>2, WaitingAreCallers DEF PassInv
<1>8. SleepInv'
  <2>1. SUFFICES ASSUME wpc = "poll", ~event'
                 PROVE  SleepInv'
    BY DEF SleepInv
  <2>2. \A d \in CALLERS : pc[d] \in {"sent", "flagged"} => pc'[d] \in {"sent", "flagged"}
    BY <1>1, <2>1
  <2>3. \A d \in CALLERS : op[d] \in {"stop", "end"} /\ pc[d] = "idle" =>
                             pc'[d] \in {"idle", "sent", "flagged"}
    BY <1>1
  <2> QED
    BY <2>1, <2>2, <2>3, WaitingAreCallers DEF SleepInv
<1> QED
  BY <1>2, <1>4, <1>5, <1>6, <1>7, <1>8

LEMMA HandleIsBegun ==
  ASSUME WorkerInv, NEW j \in JOBS, Handle(j)
  PROVE  status[j] \in Begun
BY DEF Handle, WorkerInv, CreatorInv, Creates

(* The calls that only move their caller, or raise a flag.                 *)
LEMMA FlagsStep ==
  ASSUME WorkerInv, NEW c \in CALLERS,
         CheckStop(c) \/ StopJob(c) \/ Shutdown(c) \/ Flag(c) \/ Wake(c) \/ StopAll(c) \/ Return(c)
  PROVE  WorkerInv'
<1> USE DEF calls, flags, channels, signal, pass, Goto
<1>1. /\ op[c] \in {"create", "command", "stop", "end"} /\ at[c] \in JOBS
      /\ pc[c] \in Labels /\ stop \in [JOBS -> BOOLEAN]
      /\ answer[c] \in {"none", "ok", "failed"}
  BY DEF WorkerInv, WorkerTypeOK
<1>2. /\ pc[c] \in {"registered", "spawning"} => op[c] = "create"
      /\ pc[c] = "stopping" => op[c] = "end"
      /\ op[c] = "create" /\ pc[c] \notin {"idle", "failed", "registered", "spawning"} =>
           status[at[c]] \in Begun
      /\ op[c] = "stop" /\ pc[c] # "idle" => stop[at[c]] /\ status[at[c]] \in Begun
      /\ op[c] = "end" /\ pc[c] # "idle" => estop
  BY DEF WorkerInv, CreatorInv, Creates, CallInv
<1>3. CASE CheckStop(c)
  <2>1. PICK label \in {"failed", "spawning"} : pc' = [pc EXCEPT ![c] = label]
    BY <1>3 DEF CheckStop
  <2> QED
    BY <1>1, <1>2, <1>3, <2>1, CallerMoves DEF CheckStop, Labels
<1>4. CASE StopJob(c)
  <2>1. stop' \in [JOBS -> BOOLEAN] /\ stop'[at[c]] /\ \A j \in JOBS : stop[j] => stop'[j]
    BY <1>1, <1>4 DEF StopJob
  <2>2. status[at[c]] \in Begun
    BY <1>1, <1>4, HandleIsBegun DEF StopJob
  <2> QED
    BY <1>1, <1>4, <2>1, <2>2, CallerMoves DEF StopJob, Labels
<1>5. CASE Shutdown(c)
  BY <1>1, <1>5, CallerMoves DEF Shutdown, Labels
<1>6. CASE Flag(c)
  BY <1>1, <1>2, <1>6, CallerMoves DEF Flag, Labels
<1>7. CASE Wake(c)
  <2>1. /\ AfterWake(c) \in {"stopping", "ok", "waiting"}
        /\ AfterWake(c) = "stopping" => op[c] = "end"
    BY DEF AfterWake
  <2> QED
    BY <1>1, <1>2, <1>7, <2>1, CallerMoves DEF Wake, Labels
<1>8. CASE StopAll(c)
  <2>1. stop' \in [JOBS -> BOOLEAN] /\ \A j \in JOBS : stop[j] => stop'[j]
    <3> DEFINE known(j) == stop[j] \/ status[j] # "none"
    <3>1. stop' = [j \in JOBS |-> known(j)]
      BY <1>8 DEF StopAll
    <3>2. \A j \in JOBS : known(j) \in BOOLEAN /\ (stop[j] => known(j))
      OBVIOUS
    <3> HIDE DEF known
    <3> QED
      BY <3>1, <3>2
  <2> QED
    BY <1>1, <1>2, <1>8, <2>1, CallerMoves DEF StopAll, Labels
<1>9. CASE Return(c)
  <2>1. Result(c) \in {"ok", "failed"}
    BY <1>1, <1>9 DEF Return, Result
  <2> QED
    BY <1>1, <1>2, <1>9, <2>1, CallerMoves DEF Return, Labels
<1> QED
  BY <1>3, <1>4, <1>5, <1>6, <1>7, <1>8, <1>9

LEMMA RegisterStep == ASSUME WorkerInv, NEW c \in CALLERS, Register(c) PROVE WorkerInv'
<1> USE DEF WorkerInv, calls, flags, signal, pass, Goto
<1>1. at[c] \in JOBS /\ op[c] = "create" /\ pc[c] = "idle" /\ status[at[c]] = "none"
  BY DEF Register, WorkerTypeOK
<1>2. PICK label \in {"failed", "registered"} :
        /\ pc' = [pc EXCEPT ![c] = label]
        /\ status' = IF label = "failed" THEN status
                     ELSE [status EXCEPT ![at[c]] = "registered"]
  BY DEF Register
<1>3. UNCHANGED <<calls, answer, flags, tasks, queue, signal, pass>>
  BY DEF Register
<1>4. /\ pc' \in [CALLERS -> Labels] /\ pc'[c] = label
      /\ \A d \in CALLERS \ {c} : pc'[d] = pc[d]
  BY <1>2 DEF WorkerTypeOK, Labels
<1>5. /\ status' \in [JOBS -> {"none", "registered", "queued", "running", "gone"}]
      /\ label = "registered" => status'[at[c]] = "registered"
      /\ \A j \in JOBS : status'[j] = status[j] \/ (j = at[c] /\ status'[j] = "registered")
  BY <1>1, <1>2 DEF WorkerTypeOK
<1>6. WorkerTypeOK'
  BY <1>3, <1>4, <1>5 DEF WorkerTypeOK
<1>7. \A d \in CALLERS : at[d] \in JOBS
  BY DEF WorkerTypeOK
<1>8. \A d \in CALLERS : Creates(d) => at[d] # at[c] /\ status'[at[d]] = status[at[d]]
  BY <1>1, <1>5, <1>7 DEF CreatorInv, Begun
<1>9. CreatorInv'
  BY <1>1, <1>3, <1>4, <1>5, <1>8 DEF CreatorInv, Creates
<1>10. queue[at[c]] = <<>>
  BY <1>1 DEF ChannelInv
<1>11. ChannelInv'
  <2>1. \A d \in ToSet(tasks) : at[d] \in JOBS /\ status'[at[d]] = status[at[d]]
    BY <1>1, <1>5, <1>7, WaitingAreCallers DEF ChannelInv
  <2>2. wpc = "step" => \A j \in left : j \in JOBS /\ status'[j] = status[j]
    BY <1>1, <1>5 DEF ChannelInv, WorkerTypeOK
  <2> QED
    BY <1>3, <1>5, <1>10, <2>1, <2>2 DEF ChannelInv
<1>12. CallInv'
  BY <1>1, <1>3, <1>4, <1>5, <1>7 DEF CallInv, Begun
<1>13. PassInv'
  BY <1>1, <1>3, <1>4, <1>5, <1>7, WaitingAreCallers DEF PassInv, CallInv, Begun
<1>14. SleepInv'
  BY <1>1, <1>3, <1>4, <1>5, <1>7, WaitingAreCallers DEF SleepInv
<1> QED
  BY <1>6, <1>9, <1>11, <1>12, <1>13, <1>14

LEMMA SendTaskStep == ASSUME WorkerInv, NEW c \in CALLERS, SendTask(c) PROVE WorkerInv'
<1> USE DEF WorkerInv, calls, flags, channels, signal, pass, Goto
<1>1. /\ at[c] \in JOBS /\ op[c] = "create" /\ pc[c] = "spawning"
      /\ Creates(c) /\ status[at[c]] = "registered"
  BY DEF SendTask, WorkerTypeOK, CreatorInv, Creates
<1>2. UNCHANGED <<calls, answer, flags, queue, signal, pass>>
  BY DEF SendTask
<1>3. CASE pc' = [pc EXCEPT ![c] = "failed"] /\ UNCHANGED <<tasks, status>>
  BY <1>1, <1>2, <1>3, CallerMoves DEF Labels, WorkerTypeOK
<1>4. CASE /\ tasks' = Append(tasks, c)
           /\ status' = [status EXCEPT ![at[c]] = "queued"]
           /\ pc' = [pc EXCEPT ![c] = "sent"]
  <2>1. /\ pc' \in [CALLERS -> Labels] /\ pc'[c] = "sent"
        /\ \A d \in CALLERS \ {c} : pc'[d] = pc[d]
    BY <1>4 DEF WorkerTypeOK, Labels
  <2>2. tasks' \in Seq(CALLERS) /\ ToSet(tasks') = ToSet(tasks) \cup {c}
    <3>1. tasks \in Seq(CALLERS)
      BY DEF WorkerTypeOK
    <3> QED
      BY <1>4, <3>1, AppendedTo
  <2>3. /\ status' \in [JOBS -> {"none", "registered", "queued", "running", "gone"}]
        /\ status'[at[c]] = "queued"
        /\ \A j \in JOBS \ {at[c]} : status'[j] = status[j]
    BY <1>1, <1>4 DEF WorkerTypeOK
  <2>4. WorkerTypeOK'
    BY <1>2, <2>1, <2>2, <2>3 DEF WorkerTypeOK
  <2>5. \A d \in CALLERS : at[d] \in JOBS
    BY DEF WorkerTypeOK
  <2>6. CreatorInv'
    <3>1. \A d \in CALLERS : Creates(d)' <=> Creates(d)
      BY <1>1, <1>2, <2>1 DEF Creates
    <3>2. \A d \in CALLERS \ {c} : Creates(d) => at[d] # at[c]
      BY <1>1 DEF CreatorInv
    <3> QED
      BY <1>1, <1>2, <2>1, <2>3, <2>5, <3>1, <3>2 DEF CreatorInv, Begun
  <2>7. queue[at[c]] = <<>> /\ (wpc = "step" => at[c] \notin left)
    BY <1>1 DEF ChannelInv
  <2>8. ChannelInv'
    <3>1. wpc = "step" => \A j \in left : j \in JOBS \ {at[c]}
      BY <2>7 DEF WorkerTypeOK
    <3> QED
      BY <1>1, <1>2, <2>2, <2>3, <2>5, <2>7, <3>1, WaitingAreCallers DEF ChannelInv
  <2>9. CallInv'
    BY <1>1, <1>2, <2>1, <2>2, <2>3, <2>5 DEF CallInv, Begun
  <2>10. PassInv'
    BY <1>1, <1>2, <2>1, <2>2, <2>3, <2>5, WaitingAreCallers DEF PassInv, CallInv, Begun
  <2>11. SleepInv'
    <3>1. ASSUME NEW d \in CALLERS, op[d] = "stop", status[at[d]] = "gone" \/ at[d] = at[c]
          PROVE  pc'[d] = "idle" \/ status'[at[d]] = "gone"
      BY <1>1, <2>1, <2>3, <2>5, <3>1 DEF CallInv, Begun
    <3> QED
      BY <1>1, <1>2, <2>1, <2>2, <2>3, <2>5, <3>1, WaitingAreCallers DEF SleepInv
  <2> QED
    BY <2>4, <2>6, <2>8, <2>9, <2>10, <2>11
<1> QED
  BY <1>3, <1>4 DEF SendTask

LEMMA SendCommandStep == ASSUME WorkerInv, NEW c \in CALLERS, SendCommand(c) PROVE WorkerInv'
<1> USE DEF WorkerInv, calls, flags, channels, signal, pass, Goto
<1>1. /\ at[c] \in JOBS /\ op[c] = "command" /\ pc[c] = "idle"
      /\ status[at[c]] \in Begun
  BY HandleIsBegun DEF SendCommand, WorkerTypeOK
<1>2. UNCHANGED <<calls, answer, flags, status, tasks, signal, pass>>
  BY DEF SendCommand
<1>3. CASE pc' = [pc EXCEPT ![c] = "failed"] /\ UNCHANGED queue
  BY <1>1, <1>2, <1>3, CallerMoves DEF Labels, WorkerTypeOK
<1>4. CASE /\ status[at[c]] # "gone"
           /\ queue' = [queue EXCEPT ![at[c]] = Append(@, c)]
           /\ pc' = [pc EXCEPT ![c] = "sent"]
  <2>1. /\ pc' \in [CALLERS -> Labels] /\ pc'[c] = "sent"
        /\ \A d \in CALLERS \ {c} : pc'[d] = pc[d]
    BY <1>4 DEF WorkerTypeOK, Labels
  <2>2. /\ Append(queue[at[c]], c) \in Seq(CALLERS)
        /\ ToSet(Append(queue[at[c]], c)) = ToSet(queue[at[c]]) \cup {c}
    <3>1. queue[at[c]] \in Seq(CALLERS)
      BY <1>1 DEF WorkerTypeOK
    <3> QED
      BY <3>1, AppendedTo
  <2>3. /\ queue' \in [JOBS -> Seq(CALLERS)]
        /\ ToSet(queue'[at[c]]) = ToSet(queue[at[c]]) \cup {c}
        /\ \A j \in JOBS \ {at[c]} : queue'[j] = queue[j]
    BY <1>1, <1>4, <2>2 DEF WorkerTypeOK
  <2>4. WorkerTypeOK'
    BY <1>2, <2>1, <2>3 DEF WorkerTypeOK
  <2>5. \A d \in CALLERS : at[d] \in JOBS
    BY DEF WorkerTypeOK
  <2>6. CreatorInv'
    BY <1>1, <1>2, <2>1 DEF CreatorInv, Creates
  <2>7. ChannelInv'
    BY <1>1, <1>2, <1>4, <2>3 DEF ChannelInv, Begun
  <2>8. CallInv'
    BY <1>1, <1>2, <2>1, <2>3, <2>5 DEF CallInv
  <2>9. \A j \in JOBS : \A d \in ToSet(queue'[j]) : d = c \/ d \in ToSet(queue[j])
    BY <2>3
  <2>10. PassInv'
    BY <1>1, <1>2, <2>1, <2>9, WaitingAreCallers DEF PassInv
  <2>11. SleepInv'
    BY <1>1, <1>2, <2>1, <2>9, WaitingAreCallers DEF SleepInv
  <2> QED
    BY <2>4, <2>6, <2>7, <2>8, <2>10, <2>11
<1> QED
  BY <1>3, <1>4 DEF SendCommand

-----------------------------------------------------------------------------
LEMMA SplitSeq ==
  ASSUME NEW S, NEW s \in Seq(S), NEW k \in 0..Len(s)
  PROVE  /\ SubSeq(s, 1, k) \in Seq(S) /\ Len(SubSeq(s, 1, k)) = k
         /\ SubSeq(s, k + 1, Len(s)) \in Seq(S) /\ Len(SubSeq(s, k + 1, Len(s))) = Len(s) - k
         /\ ToSet(SubSeq(s, 1, k)) \subseteq S
         /\ ToSet(SubSeq(s, k + 1, Len(s))) \subseteq ToSet(s)
         /\ ToSet(s) \subseteq ToSet(SubSeq(s, 1, k)) \cup ToSet(SubSeq(s, k + 1, Len(s)))
<1>1. Len(s) \in Nat /\ DOMAIN s = 1..Len(s) /\ \A i \in 1..Len(s) : s[i] \in S
  BY LenProperties, ElementOfSeq
<1> Len(s) \in Nat
  BY LenProperties
<1>2. PICK front : front = SubSeq(s, 1, k)
  OBVIOUS
<1>3. PICK back : back = SubSeq(s, k + 1, Len(s))
  OBVIOUS
<1>4. /\ front \in Seq(S) /\ Len(front) = k /\ \A i \in 1..k : front[i] = s[i]
  <2>1. \A i \in 1..k : s[i] \in S
    BY <1>1
  <2>2. /\ front \in Seq(S) /\ Len(front) = IF 1 <= k THEN k - 1 + 1 ELSE 0
        /\ \A i \in 1..(k - 1 + 1) : front[i] = s[1 + i - 1]
    BY <1>1, <1>2, <2>1, SubSeqProperties
  <2> QED
    BY <1>1, <2>2
<1>5. /\ back \in Seq(S) /\ Len(back) = Len(s) - k
      /\ \A i \in 1..(Len(s) - k) : back[i] = s[k + i]
  <2>1. PICK m \in Int : m = k + 1
    BY <1>1
  <2>2. \A i \in m..Len(s) : s[i] \in S
    BY <1>1, <2>1
  <2>3. /\ SubSeq(s, m, Len(s)) \in Seq(S)
        /\ Len(SubSeq(s, m, Len(s))) = IF m <= Len(s) THEN Len(s) - m + 1 ELSE 0
        /\ \A i \in 1..(Len(s) - m + 1) : SubSeq(s, m, Len(s))[i] = s[m + i - 1]
    BY <1>1, <2>2, SubSeqProperties
  <2>4. back = SubSeq(s, m, Len(s))
    BY <1>3, <2>1
  <2>5. back \in Seq(S) /\ Len(back) = Len(s) - k
    <3>1. back \in Seq(S) /\ Len(back) = IF m <= Len(s) THEN Len(s) - m + 1 ELSE 0
      BY <2>3, <2>4
    <3> QED
      BY <2>1, <3>1
  <2>6. ASSUME NEW i \in 1..(Len(s) - k) PROVE back[i] = s[k + i]
    <3>1. i \in 1..(Len(s) - m + 1) /\ m + i - 1 = k + i
      BY <1>1, <2>1
    <3>2. back[i] = s[m + i - 1]
      BY <2>3, <2>4, <3>1
    <3> QED
      BY <3>1, <3>2
  <2> QED
    BY <2>5, <2>6
<1>6. DOMAIN front = 1..k /\ DOMAIN back = 1..(Len(s) - k)
  BY <1>4, <1>5, LenProperties
<1>7. ToSet(front) \subseteq S
  BY <1>1, <1>4, <1>6 DEF ToSet
<1>8. ToSet(back) \subseteq ToSet(s)
  <2>1. \A i \in 1..(Len(s) - k) : k + i \in 1..Len(s)
    BY <1>1
  <2> QED
    BY <1>1, <1>5, <1>6, <2>1 DEF ToSet
<1>9. ToSet(s) \subseteq ToSet(front) \cup ToSet(back)
  <2>1. ASSUME NEW i \in 1..Len(s) PROVE s[i] \in ToSet(front) \cup ToSet(back)
    <3>1. CASE i <= k
      BY <1>4, <1>6, <3>1 DEF ToSet
    <3>2. CASE i > k
      <4>1. i - k \in 1..(Len(s) - k) /\ k + (i - k) = i
        BY <1>1, <3>2
      <4> QED
        BY <1>5, <1>6, <4>1 DEF ToSet
    <3> QED
      BY <1>1, <3>1, <3>2
  <2> QED
    BY <1>1, <2>1 DEF ToSet
<1> QED
  BY <1>2, <1>3, <1>4, <1>5, <1>7, <1>8, <1>9

(* Every command is served or left, and what is left means that the budget *)
(* was spent.                                                              *)
Rest(j) == SubSeq(queue[j], Len(Served(j)) + 1, Len(queue[j]))

LEMMA ServedOrRest ==
  ASSUME WorkerTypeOK, NEW j \in JOBS
  PROVE  /\ Rest(j) \in Seq(CALLERS)
         /\ ToSet(Served(j)) \subseteq CALLERS
         /\ ToSet(Rest(j)) \subseteq ToSet(queue[j])
         /\ ToSet(queue[j]) \subseteq ToSet(Served(j)) \cup ToSet(Rest(j))
         /\ Len(Served(j)) # BATCH => Rest(j) = <<>>
<1>1. queue[j] \in Seq(CALLERS) /\ Len(queue[j]) \in Nat /\ BATCH \in Nat \ {0}
  BY LenProperties, WorkerAssumption DEF WorkerTypeOK
<1>2. PICK k \in 0..Len(queue[j]) : /\ k # BATCH => k = Len(queue[j])
                                   /\ Served(j) = SubSeq(queue[j], 1, k)
  <2>1. CASE Len(queue[j]) < BATCH
    BY <1>1, <2>1 DEF Served
  <2>2. CASE ~(Len(queue[j]) < BATCH)
    <3>1. BATCH \in 0..Len(queue[j])
      BY <1>1, <2>2
    <3>2. Served(j) = SubSeq(queue[j], 1, BATCH)
      BY <2>2 DEF Served
    <3> QED
      BY <3>1, <3>2
  <2> QED
    BY <2>1, <2>2
<1>3. Len(Served(j)) = k /\ Rest(j) = SubSeq(queue[j], k + 1, Len(queue[j]))
  <2>1. Len(SubSeq(queue[j], 1, k)) = k
    BY <1>1, SplitSeq
  <2>2. Len(Served(j)) = k
    BY <1>2, <2>1
  <2> QED
    BY <2>2 DEF Rest
<1>4. Rest(j) \in Seq(CALLERS) /\ Len(Rest(j)) = Len(queue[j]) - k
  BY <1>1, <1>3, SplitSeq
<1>5. Len(Served(j)) # BATCH => Rest(j) = <<>>
  BY <1>1, <1>2, <1>3, <1>4, EmptySeq
<1> QED
  BY <1>1, <1>2, <1>3, <1>5, SplitSeq

(* Between passes and around poll nothing is taken or answered.            *)
LEMMA TurnsStep ==
  ASSUME WorkerInv, Clear \/ Decide \/ Poll \/ Readiness
  PROVE  WorkerInv'
<1> USE DEF WorkerInv, calls, flags, channels, signal, pass
<1>1. /\ UNCHANGED <<calls, pc, answer, flags, channels, left, more>>
      /\ wpc' \in {"clear", "take", "poll", "poll now"}
  BY DEF Clear, Decide, Poll, Readiness
<1>2. WorkerTypeOK' /\ CreatorInv' /\ CallInv'
  BY <1>1 DEF WorkerTypeOK, CreatorInv, Creates, CallInv
<1>3. ChannelInv' /\ PassInv'
  BY <1>1 DEF ChannelInv, PassInv
<1>4. SleepInv'
  <2>1. CASE Decide
    <3>1. SUFFICES ASSUME ~notified, more = {}, wpc = "decide", ~event'
                   PROVE  SleepInv'
      BY <2>1 DEF Decide, SleepInv
    <3>2. UNCHANGED <<pc, status, tasks, queue, op, at>>
      BY <1>1
    <3> QED
      BY <3>1, <3>2 DEF PassInv, SleepInv
  <2>2. CASE ~Decide
    <3>1. wpc' # "poll"
      BY <2>2 DEF Clear, Poll, Readiness
    <3> QED
      BY <3>1 DEF SleepInv
  <2> QED
    BY <2>1, <2>2
<1> QED
  BY <1>2, <1>3, <1>4

(* The factories that were in the channel run or are dropped, and all that *)
(* is queued then is still before the pass.                                *)
LEMMA TakeStep == ASSUME WorkerInv, TakeTasks PROVE WorkerInv'
<1> USE DEF WorkerInv, calls, flags, channels, signal, pass
<1>1. PICK built \in SUBSET ToSet(tasks) :
        LET new == {at[c] : c \in built}
            dropped == {at[c] : c \in ToSet(tasks) \ built}
        IN  /\ status' = [j \in JOBS |-> IF j \in new THEN "running"
                                         ELSE IF j \in dropped THEN "gone" ELSE status[j]]
            /\ answer' = [c \in CALLERS |->
                            IF c \in built THEN "ok"
                            ELSE IF c \in ToSet(tasks) \/ \E j \in dropped : c \in ToSet(queue[j])
                              THEN "failed" ELSE answer[c]]
            /\ queue' = [j \in JOBS |-> IF j \in dropped THEN <<>> ELSE queue[j]]
            /\ left' = RunningJobs \cup new
  BY DEF TakeTasks
<1> DEFINE new == {at[c] : c \in built}
           dropped == {at[c] : c \in ToSet(tasks) \ built}
           lost(c) == \E j \in dropped : c \in ToSet(queue[j])
<1>2. /\ wpc = "take" /\ wpc' = "step" /\ tasks' = <<>>
      /\ UNCHANGED <<op, at, pc, estop, stop, notified, event>>
  BY DEF TakeTasks
<1>3. /\ \A c \in CALLERS : at[c] \in JOBS
      /\ ToSet(tasks) \subseteq CALLERS /\ new \subseteq JOBS /\ dropped \subseteq JOBS
      /\ ToSet(tasks') = {}
  BY <1>2, WaitingAreCallers, NothingIn DEF WorkerTypeOK
<1>4. \A j \in JOBS : status[j] = "queued" <=> j \in new \cup dropped
  <2>1. \A c \in ToSet(tasks) : at[c] \in new \cup dropped
    OBVIOUS
  <2> QED
    BY <2>1 DEF ChannelInv
<1>5. /\ status' \in [JOBS -> {"none", "registered", "queued", "running", "gone"}]
      /\ \A j \in JOBS : /\ status'[j] # "queued"
                         /\ j \in new => status'[j] = "running"
                         /\ j \in dropped \ new => status'[j] = "gone"
                         /\ j \notin new \cup dropped => status'[j] = status[j]
  BY <1>1, <1>4 DEF WorkerTypeOK
<1>6. /\ answer' \in [CALLERS -> {"none", "ok", "failed"}]
      /\ \A c \in CALLERS : answer[c] # "none" => answer'[c] # "none"
      /\ \A c \in ToSet(tasks) : answer'[c] # "none"
      /\ \A c \in CALLERS : lost(c) => answer'[c] # "none"
  <2>1. answer' = [c \in CALLERS |->
                     IF c \in built THEN "ok"
                     ELSE IF c \in ToSet(tasks) \/ lost(c) THEN "failed" ELSE answer[c]]
    BY <1>1
  <2> HIDE DEF lost, new, dropped
  <2> QED
    BY <1>3, <2>1 DEF WorkerTypeOK
<1>7. /\ queue' \in [JOBS -> Seq(CALLERS)]
      /\ \A j \in dropped : queue'[j] = <<>>
      /\ \A j \in JOBS \ dropped : queue'[j] = queue[j]
  BY <1>1, <1>3, EmptySeq DEF WorkerTypeOK
<1>8. left' \subseteq JOBS /\ \A j \in JOBS : j \in left' <=> status'[j] = "running"
  <2>1. left' = {j \in JOBS : status[j] = "running"} \cup new
    BY <1>1 DEF RunningJobs
  <2> QED
    BY <1>3, <1>4, <1>5, <2>1
<1> HIDE DEF new, dropped, lost
<1>9. WorkerTypeOK'
  BY <1>2, <1>5, <1>6, <1>7, <1>8, EmptySeq DEF WorkerTypeOK
<1>10. \A j \in JOBS : /\ status[j] \in Begun => status'[j] \in Begun
                       /\ status'[j] = "registered" <=> status[j] = "registered"
  BY <1>4, <1>5 DEF Begun, WorkerTypeOK
<1>11. CreatorInv'
  BY <1>2, <1>3, <1>10 DEF CreatorInv, Creates
<1>12. ChannelInv'
  <2>1. ASSUME NEW j \in JOBS, queue'[j] # <<>> PROVE status'[j] = "running"
    <3>1. queue[j] # <<>> /\ j \notin dropped
      BY <1>7, <2>1
    <3> QED
      BY <1>4, <1>5, <3>1 DEF ChannelInv
  <2> QED
    BY <1>3, <1>5, <1>8, <2>1 DEF ChannelInv
<1>13. CallInv'
  <2>1. ASSUME NEW c \in CALLERS, c \in ToSet(queue[at[c]])
        PROVE  c \in ToSet(queue'[at[c]]) \/ answer'[c] # "none"
    <3>1. CASE at[c] \in dropped
      BY <1>6, <2>1, <3>1 DEF lost
    <3>2. CASE at[c] \notin dropped
      BY <1>3, <1>7, <2>1, <3>2
    <3> QED
      BY <3>1, <3>2
  <2> QED
    BY <1>2, <1>3, <1>6, <1>10, <2>1 DEF CallInv
<1>14. PassInv'
  <2>1. ASSUME NEW j \in JOBS, NEW c \in ToSet(queue'[j]) PROVE j \in left'
    <3>1. queue'[j] # <<>>
      BY NothingIn, <2>1
    <3>2. queue[j] # <<>> /\ j \notin dropped
      BY <1>7, <3>1
    <3> QED
      BY <1>4, <1>5, <1>8, <3>2 DEF ChannelInv
  <2>2. ASSUME NEW c \in CALLERS, op[c] = "stop", pc[c] # "idle"
        PROVE  status'[at[c]] = "gone" \/ at[c] \in left'
    <3>1. at[c] \in JOBS /\ status[at[c]] \in Begun
      BY <1>3, <2>2 DEF CallInv
    <3> QED
      BY <1>4, <1>5, <1>8, <3>1 DEF Begun
  <2> QED
    BY <1>2, <1>3, <2>1, <2>2 DEF PassInv
<1>15. SleepInv'
  BY <1>2 DEF SleepInv
<1> QED
  BY <1>9, <1>11, <1>12, <1>13, <1>14, <1>15

LEMMA StepJobStep == ASSUME WorkerInv, NEW j \in JOBS, StepJob(j) PROVE WorkerInv'
<1> USE DEF WorkerInv, calls, flags, channels, signal, pass
<1>1. /\ wpc = "step" /\ j \in left /\ ~stop[j]
      /\ queue' = [queue EXCEPT ![j] = Rest(j)]
      /\ more' = IF Len(Served(j)) = BATCH THEN more \cup {j} ELSE more
      /\ left' = left \ {j}
      /\ UNCHANGED <<op, at, pc, estop, stop, status, tasks, notified, event, wpc>>
  BY DEF StepJob, Rest, WorkerTypeOK
<1>2. /\ answer' = [c \in CALLERS |-> IF c \in ToSet(Served(j)) THEN "ok" ELSE answer[c]]
  BY DEF StepJob, Answer
<1>3. /\ Rest(j) \in Seq(CALLERS)
      /\ ToSet(Rest(j)) \subseteq ToSet(queue[j])
      /\ ToSet(queue[j]) \subseteq ToSet(Served(j)) \cup ToSet(Rest(j))
      /\ Rest(j) # <<>> => j \in more'
  BY <1>1, ServedOrRest
<1>4. /\ queue' \in [JOBS -> Seq(CALLERS)] /\ queue'[j] = Rest(j)
      /\ \A i \in JOBS \ {j} : queue'[i] = queue[i]
  BY <1>1, <1>3 DEF WorkerTypeOK
<1>5. /\ answer' \in [CALLERS -> {"none", "ok", "failed"}]
      /\ \A c \in CALLERS : /\ answer[c] # "none" => answer'[c] # "none"
                            /\ c \in ToSet(Served(j)) => answer'[c] # "none"
  BY <1>2 DEF WorkerTypeOK
<1>6. WorkerTypeOK'
  BY <1>1, <1>4, <1>5 DEF WorkerTypeOK
<1>7. CreatorInv'
  BY <1>1 DEF CreatorInv, Creates
<1>8. ChannelInv'
  <2>1. status[j] = "running"
    BY <1>1 DEF ChannelInv
  <2> QED
    BY <1>1, <1>4, <2>1 DEF ChannelInv
<1>9. CallInv'
  <2>1. ASSUME NEW c \in CALLERS, c \in ToSet(queue[at[c]])
        PROVE  c \in ToSet(queue'[at[c]]) \/ answer'[c] # "none"
    <3>1. at[c] \in JOBS
      BY DEF WorkerTypeOK
    <3> QED
      BY <1>3, <1>4, <1>5, <2>1, <3>1
  <2> QED
    BY <1>1, <1>5, <2>1 DEF CallInv
<1>10. PassInv'
  <2>1. ASSUME NEW c \in ToSet(queue'[j]) PROVE j \in more'
    BY <1>3, <1>4, NothingIn
  <2>2. \A i \in JOBS \ {j} : (i \in left' <=> i \in left) /\ (i \in more => i \in more')
    BY <1>1
  <2>3. ASSUME NEW c \in CALLERS, op[c] = "stop", pc[c] # "idle" PROVE at[c] # j
    BY <1>1, <2>3 DEF CallInv
  <2>4. \A c \in CALLERS : at[c] \in JOBS
    BY DEF WorkerTypeOK
  <2> QED
    BY <1>1, <1>4, <2>1, <2>2, <2>3, <2>4 DEF PassInv
<1>11. SleepInv'
  BY <1>1 DEF SleepInv
<1> QED
  BY <1>6, <1>7, <1>8, <1>9, <1>10, <1>11

LEMMA DropJobStep == ASSUME WorkerInv, NEW j \in JOBS, DropJob(j) PROVE WorkerInv'
<1> USE DEF WorkerInv, calls, flags, channels, signal, pass
<1>1. /\ wpc = "step" /\ j \in left
      /\ status' = [status EXCEPT ![j] = "gone"]
      /\ queue' = [queue EXCEPT ![j] = <<>>]
      /\ left' = left \ {j}
      /\ UNCHANGED <<op, at, pc, estop, stop, tasks, notified, event, wpc, more>>
  BY DEF DropJob
<1>2. answer' = [c \in CALLERS |-> IF c \in ToSet(queue[j]) THEN "failed" ELSE answer[c]]
  BY DEF DropJob, Answer
<1>3. /\ status' \in [JOBS -> {"none", "registered", "queued", "running", "gone"}]
      /\ status'[j] = "gone" /\ \A i \in JOBS \ {j} : status'[i] = status[i]
  BY <1>1 DEF WorkerTypeOK
<1>4. /\ queue' \in [JOBS -> Seq(CALLERS)] /\ queue'[j] = <<>>
      /\ \A i \in JOBS \ {j} : queue'[i] = queue[i]
  BY <1>1, EmptySeq DEF WorkerTypeOK
<1>5. /\ answer' \in [CALLERS -> {"none", "ok", "failed"}]
      /\ \A c \in CALLERS : /\ answer[c] # "none" => answer'[c] # "none"
                            /\ c \in ToSet(queue[j]) => answer'[c] # "none"
  BY <1>2 DEF WorkerTypeOK
<1>6. WorkerTypeOK'
  BY <1>1, <1>3, <1>4, <1>5 DEF WorkerTypeOK
<1>7. status[j] = "running" /\ \A c \in CALLERS : at[c] \in JOBS
  BY <1>1 DEF ChannelInv, WorkerTypeOK
<1>8. CreatorInv'
  <2>1. \A c \in CALLERS : /\ status[at[c]] \in Begun => status'[at[c]] \in Begun
                           /\ status[at[c]] = "registered" => status'[at[c]] = "registered"
    BY <1>3, <1>7 DEF Begun
  <2> QED
    BY <1>1, <2>1 DEF CreatorInv, Creates
<1>9. ChannelInv'
  <2>1. \A c \in ToSet(tasks) : at[c] \in JOBS \ {j}
    BY <1>7, WaitingAreCallers DEF ChannelInv
  <2>2. \A i \in left' : i \in JOBS \ {j}
    BY <1>1 DEF WorkerTypeOK
  <2> QED
    BY <1>1, <1>3, <1>4, <2>1, <2>2 DEF ChannelInv
<1>10. CallInv'
  <2>1. ASSUME NEW c \in CALLERS, c \in ToSet(queue[at[c]])
        PROVE  c \in ToSet(queue'[at[c]]) \/ answer'[c] # "none"
    BY <1>4, <1>5, <1>7, <2>1
  <2>2. \A c \in CALLERS : status[at[c]] \in Begun => status'[at[c]] \in Begun
    BY <1>3, <1>7 DEF Begun
  <2> QED
    BY <1>1, <1>5, <2>1, <2>2 DEF CallInv
<1>11. PassInv'
  <2>1. ToSet(queue'[j]) = {}
    BY <1>4, NothingIn
  <2> QED
    BY <1>1, <1>3, <1>4, <1>7, <2>1 DEF PassInv
<1>12. SleepInv'
  BY <1>1 DEF SleepInv
<1> QED
  BY <1>6, <1>8, <1>9, <1>10, <1>11, <1>12

LEMMA CheckStep == ASSUME WorkerInv, Check PROVE WorkerInv'
<1> USE DEF WorkerInv, calls, flags, channels, signal, pass
<1>1. /\ wpc = "step" /\ left = {}
      /\ UNCHANGED <<op, at, pc, estop, stop, notified, event, left, more>>
  BY DEF Check
<1>2. CASE ~estop
  <2>1. wpc' = "decide" /\ UNCHANGED <<status, answer, tasks, queue>>
    BY <1>2 DEF Check
  <2>2. WorkerTypeOK' /\ CreatorInv' /\ CallInv'
    BY <1>1, <2>1 DEF WorkerTypeOK, CreatorInv, Creates, CallInv
  <2>3. ChannelInv' /\ SleepInv'
    BY <1>1, <2>1 DEF ChannelInv, SleepInv
  <2>4. \A c \in CALLERS : op[c] = "end" => pc[c] = "idle"
    BY <1>2 DEF CallInv
  <2>5. PassInv'
    BY <1>1, <2>1, <2>4 DEF PassInv
  <2> QED
    BY <2>2, <2>3, <2>5
<1>3. CASE estop
  <2> DEFINE heard == ToSet(tasks) \cup UNION {ToSet(queue[j]) : j \in JOBS}
  <2>1. /\ wpc' = "exited" /\ tasks' = <<>> /\ queue' = [j \in JOBS |-> <<>>]
        /\ status' = [j \in JOBS |-> IF status[j] \in {"queued", "running"}
                                       THEN "gone" ELSE status[j]]
        /\ answer' = [c \in CALLERS |-> IF c \in heard THEN "failed" ELSE answer[c]]
    BY <1>3 DEF Check, Answer
  <2>2. /\ status' \in [JOBS -> {"none", "registered", "queued", "running", "gone"}]
        /\ \A j \in JOBS : /\ status'[j] \notin {"queued", "running"}
                           /\ status[j] \in Begun => status'[j] \in Begun
                           /\ status[j] = "registered" => status'[j] = "registered"
    BY <2>1 DEF WorkerTypeOK, Begun
  <2>3. \A c \in CALLERS : at[c] \in JOBS
    BY DEF WorkerTypeOK
  <2>4. /\ answer' \in [CALLERS -> {"none", "ok", "failed"}]
        /\ \A c \in CALLERS :
             /\ answer[c] # "none" => answer'[c] # "none"
             /\ c \in ToSet(tasks) \/ c \in ToSet(queue[at[c]]) => answer'[c] # "none"
    <3>1. \A c \in CALLERS : c \in ToSet(tasks) \/ c \in ToSet(queue[at[c]]) => c \in heard
      BY <2>3
    <3> HIDE DEF heard
    <3> QED
      BY <2>1, <3>1 DEF WorkerTypeOK
  <2>5. WorkerTypeOK'
    BY <1>1, <2>1, <2>2, <2>4, EmptySeq DEF WorkerTypeOK
  <2>6. CreatorInv'
    BY <1>1, <2>2, <2>3 DEF CreatorInv, Creates
  <2>7. ChannelInv'
    BY <2>1, <2>2, NothingIn DEF ChannelInv
  <2>8. CallInv'
    BY <1>1, <2>2, <2>3, <2>4 DEF CallInv
  <2>9. PassInv' /\ SleepInv'
    BY <2>1 DEF PassInv, SleepInv
  <2> QED
    BY <2>5, <2>6, <2>7, <2>8, <2>9
<1> QED
  BY <1>2, <1>3

-----------------------------------------------------------------------------
(* The worker never sleeps on a call that returned or waits: a waker that  *)
(* Signal::notify woke, or the flag it set before, outlives every pass     *)
(* that did not see what was put in a channel before it.                   *)
THEOREM WorkerNeverAsleep == WorkerSpec => []NeverAsleep
<1>1. WorkerInv /\ [WorkerNext]_workerVars => WorkerInv'
  <2>1. SUFFICES ASSUME WorkerInv, [WorkerNext]_workerVars PROVE WorkerInv'
    OBVIOUS
  <2>2. CASE \E c \in CALLERS : Call(c)
    <3>1. PICK c \in CALLERS : Call(c)
      BY <2>2
    <3>2. \/ Register(c)
          \/ CheckStop(c) \/ StopJob(c) \/ Shutdown(c) \/ Flag(c) \/ Wake(c)
          \/ StopAll(c) \/ Return(c)
          \/ SendTask(c) \/ SendCommand(c)
      BY <3>1 DEF Call
    <3>3. CASE Register(c)
      BY <2>1, <3>3, RegisterStep
    <3>4. CASE SendTask(c)
      BY <2>1, <3>4, SendTaskStep
    <3>5. CASE SendCommand(c)
      BY <2>1, <3>5, SendCommandStep
    <3>6. CASE \/ CheckStop(c) \/ StopJob(c) \/ Shutdown(c) \/ Flag(c) \/ Wake(c)
               \/ StopAll(c) \/ Return(c)
      BY <2>1, <3>6, FlagsStep
    <3> QED
      BY <3>2, <3>3, <3>4, <3>5, <3>6
  <2>3. CASE Run \/ Readiness
    <3>1. CASE \E j \in JOBS : StepJob(j) \/ DropJob(j)
      BY <2>1, <3>1, StepJobStep, DropJobStep
    <3>2. CASE TakeTasks
      BY <2>1, <3>2, TakeStep
    <3>3. CASE Check
      BY <2>1, <3>3, CheckStep
    <3>4. CASE Clear \/ Decide \/ Poll \/ Readiness
      BY <2>1, <3>4, TurnsStep
    <3> QED
      BY <2>3, <3>1, <3>2, <3>3, <3>4 DEF Run
  <2>4. CASE UNCHANGED workerVars
    <3> USE DEF WorkerInv
    <3>1. UNCHANGED <<op, at, pc, answer, estop, stop, status, tasks, queue, notified,
                      event, wpc, left, more>>
      BY <2>4 DEF workerVars, calls, flags, channels, signal, pass
    <3>2. WorkerTypeOK'
      BY <2>1, <3>1 DEF WorkerTypeOK
    <3>3. CreatorInv' /\ ChannelInv'
      BY <2>1, <3>1 DEF CreatorInv, Creates, ChannelInv
    <3>4. CallInv' /\ PassInv' /\ SleepInv'
      BY <2>1, <3>1 DEF CallInv, PassInv, SleepInv
    <3> QED
      BY <3>2, <3>3, <3>4
  <2> QED
    BY <2>1, <2>2, <2>3, <2>4 DEF WorkerNext
<1>2. WorkerInv => NeverAsleep
  <2>1. SUFFICES ASSUME WorkerInv, wpc = "poll", ~event, NEW c \in CALLERS,
                        pc[c] \in {"waiting", "ok"}
                 PROVE  /\ \A j \in JOBS : c \notin ToSet(queue[j])
                        /\ c \notin ToSet(tasks)
                        /\ pc[c] = "waiting" => Result(c) # "none"
    BY DEF NeverAsleep
  <2>2. c \notin ToSet(tasks) /\ \A j \in JOBS : c \notin ToSet(queue[j])
    BY <2>1 DEF WorkerInv, SleepInv
  <2>3. op[c] \in {"create", "command", "stop", "end"} /\ at[c] \in JOBS
    BY <2>1 DEF WorkerInv, WorkerTypeOK
  <2>4. /\ op[c] = "stop" => status[at[c]] = "gone"
        /\ op[c] # "end"
    BY <2>1 DEF WorkerInv, SleepInv
  <2>5. op[c] \in {"create", "command"} /\ pc[c] = "waiting" => answer[c] # "none"
    BY <2>1, <2>2, <2>3 DEF WorkerInv, CallInv
  <2> QED
    BY <2>2, <2>3, <2>4, <2>5 DEF Result
<1> QED
  BY InitWorker, <1>1, <1>2, PTL DEF WorkerSpec

-----------------------------------------------------------------------------
(* Recursion.  What a poll or a reader computes, it computes in steps.     *)
(*                                                                         *)
(* A set of naturals that is not empty has a least element.                *)
LEMMA LeastNat ==
  ASSUME NEW S \in SUBSET Nat, S # {}
  PROVE  \E m \in S : \A x \in S : m <= x
<1>1. PICK n \in S : n \in Nat
  OBVIOUS
<1> DEFINE Family == {0..x : x \in {y \in S : y <= n}}
<1>2. Family \subseteq FiniteSubsetsOf(0..n)
  <2>1. IsFiniteSet(0..n)
    BY <1>1, FS_Interval
  <2>2. FiniteSubsetsOf(0..n) = SUBSET (0..n)
    BY <2>1, FS_FiniteSubsetsOfFinite
  <2>3. \A x \in S : x <= n => 0..x \subseteq 0..n
    BY <1>1
  <2> QED
    BY <2>2, <2>3
<1>3. Family # {}
  BY <1>1
<1>4. IsWellFoundedOn(StrictSubsetOrdering(0..n), FiniteSubsetsOf(0..n))
  BY FS_StrictSubsetOrderingWellFounded
<1>5. PICK F \in Family : \A G \in Family : ~(<<G, F>> \in StrictSubsetOrdering(0..n))
  <2> HIDE DEF Family
  <2> QED
    BY <1>2, <1>3, <1>4, WFMin
<1>6. PICK m \in S : m <= n /\ F = 0..m
  BY <1>5
<1>7. ASSUME NEW x \in S PROVE m <= x
  <2>1. x \in Nat /\ m \in Nat /\ n \in Nat
    BY <1>1
  <2>2. SUFFICES ASSUME x < m PROVE FALSE
    BY <2>1
  <2>3. x <= n /\ 0..x \subseteq 0..n /\ 0..m \subseteq 0..n
    BY <1>6, <2>1, <2>2
  <2>4. 0..x \in Family
    BY <2>3
  <2>5. 0..x \subseteq 0..m /\ 0..x # 0..m
    <3>1. m \in 0..m /\ m \notin 0..x
      BY <2>1, <2>2
    <3>2. 0..x \subseteq 0..m
      BY <2>1, <2>2
    <3> QED
      BY <3>1, <3>2
  <2>6. <<0..x, 0..m>> \in StrictSubsetOrdering(0..n)
    BY <2>3, <2>5 DEF StrictSubsetOrdering
  <2> QED
    BY <1>5, <1>6, <2>4, <2>6
<1> QED
  BY <1>7

(* A recursion whose argument loses rank at every call has a solution ...  *)
Falls(n, D, W, nx, rank) ==
  /\ n \in Nat /\ W \subseteq D /\ nx \in [W -> D] /\ rank \in [D -> 0..n]
  /\ \A i \in W : rank[nx[i]] < rank[i]
Computes(D, V, W, base, step) == base \in [D -> V] /\ step \in [W -> [V -> V]]

LEMMA Recursion ==
  ASSUME NEW n, NEW D, NEW V, NEW W, NEW nx, NEW rank, NEW base, NEW step,
         Falls(n, D, W, nx, rank), Computes(D, V, W, base, step)
  PROVE  \E f \in [D -> V] :
           \A i \in D : f[i] = IF i \in W THEN step[i][f[nx[i]]] ELSE base[i]
<1> DEFINE Good(f, i) == f[i] = IF i \in W THEN step[i][f[nx[i]]] ELSE base[i]
           Solved(f, k) == \A i \in D : rank[i] < k => Good(f, i)
           Bad == {k \in Nat : ~ \E f \in [D -> V] : Solved(f, k)}
<1> USE DEF Falls, Computes
<1>1. \A i \in D : rank[i] \in Nat /\ rank[i] < n + 1
  OBVIOUS
<1>2. SUFFICES ASSUME Bad # {} PROVE FALSE
  <2>1. n + 1 \in Nat
    OBVIOUS
  <2>2. n + 1 \notin Bad
    BY <1>2
  <2>3. PICK f \in [D -> V] : Solved(f, n + 1)
    BY <2>1, <2>2
  <2> QED
    BY <1>1, <2>3
<1>3. PICK k \in Bad : \A m \in Bad : k <= m
  <2>1. Bad \in SUBSET Nat
    OBVIOUS
  <2> HIDE DEF Bad
  <2> QED
    BY <1>2, <2>1, LeastNat
<1>4. k \in Nat /\ ~ \E f \in [D -> V] : Solved(f, k)
  BY <1>3
<1>5. k # 0
  <2>1. Solved(base, 0)
    BY <1>1
  <2> QED
    BY <1>4, <2>1
<1>6. PICK j \in Nat : k = j + 1
  <2>1. k - 1 \in Nat /\ k = (k - 1) + 1
    BY <1>4, <1>5
  <2> QED
    BY <2>1
<1>7. PICK f \in [D -> V] : Solved(f, j)
  <2>1. j \notin Bad
    <3>1. ~(k <= j)
      BY <1>6
    <3> HIDE DEF Bad
    <3> QED
      BY <1>3, <3>1
  <2> QED
    BY <2>1
<1> DEFINE g == [i \in D |-> IF rank[i] = j
                                THEN IF i \in W THEN step[i][f[nx[i]]] ELSE base[i]
                                ELSE f[i]]
<1>8. g \in [D -> V]
  OBVIOUS
<1>9. Solved(g, k)
  <2>1. SUFFICES ASSUME NEW i \in D, rank[i] < k PROVE Good(g, i)
    OBVIOUS
  <2>2. \A x \in D : rank[x] < j => g[x] = f[x]
    BY <1>1
  <2>3. i \in W => nx[i] \in D /\ rank[nx[i]] < j
    BY <1>1, <1>6, <2>1
  <2>4. i \in W => g[nx[i]] = f[nx[i]]
    BY <2>2, <2>3, Zenon
  <2>5. CASE rank[i] = j
    <3>1. g[i] = IF i \in W THEN step[i][f[nx[i]]] ELSE base[i]
      BY <2>5, Zenon
    <3> HIDE DEF g
    <3> QED
      BY <2>4, <3>1
  <2>6. CASE rank[i] < j
    <3>1. Good(f, i)
      BY <1>7, <2>6
    <3>2. g[i] = f[i]
      BY <2>2, <2>6
    <3> HIDE DEF g
    <3> QED
      BY <2>4, <3>1, <3>2
  <2>7. rank[i] = j \/ rank[i] < j
    BY <1>1, <1>6, <2>1
  <2> HIDE DEF g, Good
  <2> QED
    BY <2>5, <2>6, <2>7
<1> HIDE DEF g, Bad
<1> QED
  BY <1>4, <1>8, <1>9

(* ... and any two agree.                                                  *)
LEMMA Agreement ==
  ASSUME NEW n, NEW D, NEW W, NEW nx, NEW rank, Falls(n, D, W, nx, rank), NEW f, NEW g,
         \A i \in D : (i \in W => f[nx[i]] = g[nx[i]]) => f[i] = g[i]
  PROVE  \A i \in D : f[i] = g[i]
<1> USE DEF Falls
<1> DEFINE Ranks == {k \in Nat : \E i \in D : rank[i] = k /\ f[i] # g[i]}
<1>1. SUFFICES ASSUME Ranks # {} PROVE FALSE
  <2>1. \A i \in D : rank[i] \in Nat
    OBVIOUS
  <2> QED
    BY <1>1, <2>1
<1>2. PICK k \in Ranks : \A m \in Ranks : k <= m
  <2>1. Ranks \in SUBSET Nat
    OBVIOUS
  <2> HIDE DEF Ranks
  <2> QED
    BY <1>1, <2>1, LeastNat
<1>3. PICK i \in D : rank[i] = k /\ f[i] # g[i]
  BY <1>2
<1>4. i \in W /\ f[nx[i]] # g[nx[i]]
  BY <1>3
<1>5. rank[nx[i]] \in Ranks
  BY <1>4
<1>6. rank[nx[i]] \in Nat /\ k \in Nat /\ rank[nx[i]] < k
  BY <1>2, <1>3, <1>4
<1> HIDE DEF Ranks
<1> QED
  BY <1>2, <1>5, <1>6

Iterates(n, P, start, next) == n \in Nat /\ start \in P /\ next \in [P -> SUBSET P]
Reached(f, n, start, next) ==
  \A k \in 0..n : f[k] = IF k = 0 THEN {start} ELSE UNION {next[s] : s \in f[k - 1]}

(* The sets that steps of a function reach from a start, one after the     *)
(* other, exist, ...                                                       *)
LEMMA Iteration ==
  ASSUME NEW n, NEW P, NEW start, NEW next, Iterates(n, P, start, next)
  PROVE  \E f \in [0..n -> SUBSET P] : Reached(f, n, start, next)
<1> DEFINE D == 0..n
           W == 1..n
           V == SUBSET P
           nx == [k \in W |-> k - 1]
           rank == [k \in D |-> k]
           base == [k \in D |-> {start}]
           step == [k \in W |-> [S \in V |-> UNION {next[s] : s \in S}]]
<1> USE DEF Iterates
<1>1. Falls(n, D, W, nx, rank)
  <2>1. nx \in [W -> D] /\ W \subseteq D /\ rank \in [D -> 0..n]
    OBVIOUS
  <2>2. \A k \in W : rank[nx[k]] < rank[k]
    OBVIOUS
  <2> HIDE DEF D, W, nx, rank
  <2> QED
    BY <2>1, <2>2 DEF Falls
<1>2. Computes(D, V, W, base, step)
  <2>1. base \in [D -> V]
    OBVIOUS
  <2>2. \A S \in V : UNION {next[s] : s \in S} \in V
    OBVIOUS
  <2>3. step \in [W -> [V -> V]]
    <3> HIDE DEF W, V
    <3> QED
      BY <2>2
  <2> HIDE DEF D, V, W, base, step
  <2> QED
    BY <2>1, <2>3 DEF Computes
<1>3. PICK f \in [D -> V] :
        \A i \in D : f[i] = IF i \in W THEN step[i][f[nx[i]]] ELSE base[i]
  <2> HIDE DEF D, V, W, nx, rank, base, step
  <2> QED
    BY <1>1, <1>2, Recursion
<1>4. ASSUME NEW k \in D
      PROVE  f[k] = IF k = 0 THEN {start} ELSE UNION {next[s] : s \in f[k - 1]}
  <2>1. CASE k = 0
    <3>1. k \notin W /\ base[k] = {start}
      BY <2>1
    <3> HIDE DEF W, base, step
    <3> QED
      BY <1>3, <2>1, <3>1
  <2>2. CASE k # 0
    <3>1. k \in W /\ k - 1 \in D /\ nx[k] = k - 1
      BY <2>2
    <3>2. f[k - 1] \in V
      BY <3>1
    <3>3. f[k] = step[k][f[k - 1]]
      BY <1>3, <3>1
    <3>4. step[k][f[k - 1]] = UNION {next[s] : s \in f[k - 1]}
      <4> HIDE DEF V, W
      <4> QED
        BY <3>1, <3>2
    <3> QED
      BY <2>2, <3>3, <3>4
  <2> QED
    BY <2>1, <2>2
<1> QED
  BY <1>3, <1>4 DEF Reached

(* ... and stay where one step stays.                                      *)
LEMMA StaysWithin ==
  ASSUME NEW n \in Nat, NEW P, NEW f, f[0] \subseteq P,
         \A k \in 1..n : f[k - 1] \subseteq P => f[k] \subseteq P
  PROVE  f[n] \subseteq P
<1> DEFINE Bad == {k \in 0..n : ~(f[k] \subseteq P)}
<1>1. SUFFICES ASSUME Bad # {} PROVE FALSE
  BY <1>1
<1>2. PICK k \in Bad : \A m \in Bad : k <= m
  <2>1. Bad \in SUBSET Nat
    OBVIOUS
  <2> HIDE DEF Bad
  <2> QED
    BY <1>1, <2>1, LeastNat
<1>3. k \in 1..n /\ k - 1 \in 0..n /\ ~(k <= k - 1) /\ ~(f[k] \subseteq P)
  BY <1>2
<1>4. k - 1 \notin Bad
  <2> HIDE DEF Bad
  <2> QED
    BY <1>2, <1>3
<1> QED
  BY <1>3, <1>4

-----------------------------------------------------------------------------
(* A WebTransport session.                                                 *)
Unis == DOMAIN plan.uni
Bis == DOMAIN plan.bi

Entries == [id : Nat, read : Nat]

WebTypeOK ==
  /\ plan \in Plans
  /\ peer \in [opened : Nat, head : [Unis -> 0..3], ended : SUBSET Unis,
               biOpened : Nat, biHead : [Bis -> 0..3], biEnded : SUBSET Bis,
               settings : BOOLEAN, request : BOOLEAN, data : Nat, fin : BOOLEAN,
               stopped : BOOLEAN]
  /\ uni \in [Unis -> {"unseen", "pending", "early", "ready", "accepted", "held", "dropped"}]
  /\ pending \in Seq(Entries)
  /\ bi \in [Bis -> {"unseen", "pending", "ready", "accepted", "dropped"}]
  /\ phase \in {"opening", "sorting", "settings", "connect", "request", "refusing",
                "running", "gone"}

(* The header of a stream that went somewhere was whole, or never will be; *)
(* an early stream has a whole one, of this session or of another.         *)
UniInv ==
  \A i \in Unis :
    /\ uni[i] = "early" => plan.uni[i] \in {"own", "other"} /\ peer.head[i] = 3
    /\ uni[i] \in {"ready", "accepted"} => plan.uni[i] = "own" /\ peer.head[i] = 3
    /\ uni[i] = "dropped" /\ plan.uni[i] = "own" => i \in peer.ended

BiInv ==
  \A i \in Bis :
    /\ bi[i] \in {"ready", "accepted"} => plan.bi[i] = "own" /\ peer.biHead[i] = 3
    /\ bi[i] = "dropped" /\ plan.bi[i] = "own" => i \in peer.biEnded

(* From the request on, the guard stands for the connection.               *)
GuardInv ==
  /\ phase \in {"request", "refusing"} => armed
  /\ phase = "gone" => ~Open

WebInv == WebTypeOK /\ UniInv /\ BiInv /\ GuardInv

-----------------------------------------------------------------------------
(* Every kind of stream has a header of one part or three, and a stream of *)
(* this session or of another one has three.                               *)
LEMMA Headers ==
  /\ \A kind : HeaderLength(kind) \in {1, 3}
  /\ HeaderLength("own") = 3 /\ HeaderLength("other") = 3
BY DEF HeaderLength

LEMMA PlanTypes ==
  ASSUME plan \in Plans
  PROVE  /\ Len(plan.data) \in Nat
         /\ \A i \in Unis : plan.uni[i] \in UniKinds
         /\ \A i \in Bis : plan.bi[i] \in BiKinds
<1>1. /\ plan.uni \in Seq(UniKinds) /\ plan.bi \in Seq(BiKinds) /\ plan.data \in Seq(Nat)
  BY PlansAssumption DEF PlanShape
<1> QED
  BY <1>1 DEF Unis, Bis

LEMMA InitWeb == WebInit => WebInv
<1> SUFFICES ASSUME WebInit PROVE WebInv
  OBVIOUS
<1>1. WebTypeOK
  BY DEF WebInit, WebTypeOK, Unis, Bis
<1>2. \A i \in Unis : uni[i] = "unseen"
  BY DEF WebInit, Unis
<1>3. \A i \in Bis : bi[i] = "unseen"
  BY DEF WebInit, Bis
<1>4. UniInv /\ BiInv
  BY <1>2, <1>3 DEF UniInv, BiInv
<1>5. GuardInv
  BY DEF WebInit, GuardInv
<1> QED
  BY <1>1, <1>4, <1>5 DEF WebInv

(* The peer only adds to what it sent: a header that is whole stays as it  *)
(* is, and so does one that ended.                                         *)
LEMMA PeerStep == ASSUME WebInv, PeerNext PROVE WebInv'
<1> USE DEF WebInv
<1>1. /\ UNCHANGED <<plan, uni, pending, bi, phase, armed>>
      /\ conn' # "open" \/ conn' = conn
      /\ Unis' = Unis /\ Bis' = Bis
  BY DEF PeerNext, PeerOpensUni, PeerHeadsUni, PeerOpensBi, PeerHeadsBi, PeerSendsMessage,
         PeerSendsData, PeerLeaves, Unis, Bis
<1>2. GuardInv'
  BY <1>1 DEF GuardInv, Open
<1> DEFINE PeerType == [opened : Nat, head : [Unis -> 0..3], ended : SUBSET Unis,
               biOpened : Nat, biHead : [Bis -> 0..3], biEnded : SUBSET Bis,
               settings : BOOLEAN, request : BOOLEAN, data : Nat, fin : BOOLEAN,
               stopped : BOOLEAN]
           Added == /\ peer' \in PeerType
                    /\ \A i \in Unis : /\ i \in peer.ended => i \in peer'.ended
                                       /\ peer.head[i] = 3 => peer'.head[i] = 3
                    /\ \A i \in Bis : /\ i \in peer.biEnded => i \in peer'.biEnded
                                      /\ peer.biHead[i] = 3 => peer'.biHead[i] = 3
<1>3. peer \in PeerType /\ Len(plan.data) \in Nat
  BY PlanTypes DEF WebTypeOK
<1>4. Added
  <2>1. CASE PeerOpensUni
    BY <1>3, <2>1 DEF PeerOpensUni
  <2>2. CASE PeerOpensBi
    BY <1>3, <2>2 DEF PeerOpensBi
  <2>3. CASE PeerSendsMessage
    BY <1>3, <2>3 DEF PeerSendsMessage
  <2>4. CASE PeerSendsData
    <3>1. \/ \E k \in (peer.data + 1)..Len(plan.data) : peer' = [peer EXCEPT !.data = k]
          \/ peer' = [peer EXCEPT !.fin = TRUE]
          \/ peer' = [peer EXCEPT !.stopped = TRUE]
      BY <2>4 DEF PeerSendsData
    <3>2. \A k \in (peer.data + 1)..Len(plan.data) : k \in Nat
      BY <1>3
    <3> QED
      BY <1>3, <3>1, <3>2
  <2>5. CASE PeerLeaves
    BY <1>3, <2>5 DEF PeerLeaves
  <2>6. ASSUME NEW i \in Unis, PeerHeadsUni(i) PROVE Added
    <3>1. peer.head[i] < HeaderLength(plan.uni[i]) /\ peer.head[i] \in 0..3
      BY <1>3, <2>6 DEF PeerHeadsUni
    <3>2. peer.head[i] + 1 \in 0..3 /\ peer.head[i] # 3
      BY <3>1, Headers
    <3>3. CASE peer' = [peer EXCEPT !.head[i] = @ + 1]
      <4>1. peer' = [peer EXCEPT !.head = [peer.head EXCEPT ![i] = peer.head[i] + 1]]
        BY <3>2, <3>3
      <4>2. [peer.head EXCEPT ![i] = peer.head[i] + 1] \in [Unis -> 0..3]
        BY <1>3, <3>2
      <4> QED
        BY <1>3, <3>2, <4>1, <4>2
    <3>4. CASE peer' = [peer EXCEPT !.ended = @ \cup {i}]
      BY <1>3, <3>4
    <3> QED
      BY <2>6, <3>3, <3>4 DEF PeerHeadsUni
  <2>7. ASSUME NEW i \in Bis, PeerHeadsBi(i) PROVE Added
    <3>1. peer.biHead[i] < HeaderLength(plan.bi[i]) /\ peer.biHead[i] \in 0..3
      BY <1>3, <2>7 DEF PeerHeadsBi
    <3>2. peer.biHead[i] + 1 \in 0..3 /\ peer.biHead[i] # 3
      BY <3>1, Headers
    <3>3. CASE peer' = [peer EXCEPT !.biHead[i] = @ + 1]
      <4>1. peer' = [peer EXCEPT !.biHead = [peer.biHead EXCEPT ![i] = peer.biHead[i] + 1]]
        BY <3>2, <3>3
      <4>2. [peer.biHead EXCEPT ![i] = peer.biHead[i] + 1] \in [Bis -> 0..3]
        BY <1>3, <3>2
      <4> QED
        BY <1>3, <3>2, <4>1, <4>2
    <3>4. CASE peer' = [peer EXCEPT !.biEnded = @ \cup {i}]
      BY <1>3, <3>4
    <3> QED
      BY <2>7, <3>3, <3>4 DEF PeerHeadsBi
  <2> QED
    BY <2>1, <2>2, <2>3, <2>4, <2>5, <2>6, <2>7 DEF PeerNext, Unis, Bis
<1>5. WebTypeOK'
  BY <1>1, <1>4 DEF WebTypeOK
<1>6. UniInv' /\ BiInv'
  BY <1>1, <1>4 DEF UniInv, BiInv
<1> QED
  BY <1>2, <1>5, <1>6

-----------------------------------------------------------------------------
(* A stream that is classified is settled, and its class is its kind or,   *)
(* if it ended first, none.                                                *)
LEMMA ClassOfUni ==
  ASSUME WebTypeOK, NEW i \in Unis, Settled(i)
  PROVE  /\ Class(i) \in {"own", "other"} => plan.uni[i] = Class(i) /\ peer.head[i] = 3
         /\ plan.uni[i] = "own" => Class(i) = "own" \/ i \in peer.ended
<1>1. Class(i) \in {"own", "other"} => /\ peer.head[i] = HeaderLength(plan.uni[i])
                                       /\ Class(i) = plan.uni[i]
  BY DEF Class
<1>2. plan.uni[i] = "own" => Class(i) = "own" \/ i \in peer.ended
  BY DEF Class, Settled
<1> QED
  BY <1>1, <1>2, Headers

LEMMA SettledBi ==
  ASSUME WebTypeOK, NEW i \in Bis, BiSettled(i)
  PROVE  /\ BiClassified(i) \in {"ready", "dropped"}
         /\ BiClassified(i) = "ready" => plan.bi[i] = "own" /\ peer.biHead[i] = 3
         /\ BiClassified(i) = "dropped" /\ plan.bi[i] = "own" => i \in peer.biEnded
BY Headers DEF BiClassified, BiSettled

(* The steps that move no stream: the connection, the guard, the session.  *)
LEMMA QuietStep ==
  ASSUME WebInv, UNCHANGED <<plan, peer, uni, pending, bi>>,
         phase' \in {"opening", "sorting", "settings", "connect", "request", "refusing",
                     "running", "gone"},
         GuardInv'
  PROVE  WebInv'
<1>1. Unis' = Unis /\ Bis' = Bis
  BY DEF Unis, Bis
<1> QED
  BY <1>1 DEF WebInv, WebTypeOK, UniInv, BiInv

LEMMA FailStep == ASSUME WebInv, Fail PROVE WebInv'
<1>1. UNCHANGED <<plan, peer, uni, pending, bi>> /\ phase' = "gone" /\ conn' # "open"
  BY DEF Fail, Abandon, CloseConn, Open
<1>2. GuardInv'
  BY <1>1 DEF GuardInv, Open
<1> QED
  BY <1>1, <1>2, QuietStep

LEMMA GuardStep == ASSUME WebInv, armed, GuardDrop, Abandon PROVE WebInv'
<1>1. UNCHANGED <<plan, peer, uni, pending, bi>> /\ phase' = "gone" /\ conn' # "open"
  BY DEF GuardDrop, Abandon, CloseConn, Open
<1>2. GuardInv'
  BY <1>1 DEF GuardInv, Open
<1> QED
  BY <1>1, <1>2, QuietStep

LEMMA HandshakeStep ==
  ASSUME WebInv,
         ReadSettings \/ ReadConnect \/ Rejected \/ Reject \/ Release
  PROVE  WebInv'
<1> USE DEF WebInv
<1>1. CASE ReadSettings
  <2>1. CASE Fail
    BY <2>1, FailStep
  <2>2. CASE ~Fail
    BY <1>1, <2>2, QuietStep DEF ReadSettings, GuardInv, Open
  <2> QED
    BY <2>1, <2>2
<1>2. CASE ReadConnect
  <2>1. CASE Fail
    BY <2>1, FailStep
  <2>2. CASE ~Fail
    BY <1>2, <2>2, QuietStep DEF ReadConnect, GuardInv, Open
  <2> QED
    BY <2>1, <2>2
<1>3. CASE Rejected
  <2>1. armed
    BY <1>3 DEF Rejected, GuardInv
  <2>2. CASE CloseConn("noerror") /\ Abandon
    BY <2>2, QuietStep DEF CloseConn, Abandon, GuardInv, Open
  <2>3. CASE GuardDrop /\ Abandon
    BY <2>1, <2>3, GuardStep
  <2> QED
    BY <1>3, <2>2, <2>3 DEF Rejected
<1>4. CASE Reject
  <2>1. armed
    BY <1>4 DEF Reject, GuardInv
  <2>2. CASE Open
    BY <1>4, <2>1, <2>2, QuietStep DEF Reject, GuardInv, Open
  <2>3. CASE ~Open
    BY <1>4, <2>1, <2>3, GuardStep DEF Reject
  <2> QED
    BY <2>2, <2>3
<1>5. CASE Release
  <2>1. /\ UNCHANGED <<plan, peer, uni, pending, bi>> /\ conn' # "open" /\ ~armed'
        /\ phase' \in {"running", "gone"}
    BY <1>5 DEF Release, CloseConn, Open
  <2>2. GuardInv'
    BY <2>1 DEF GuardInv, Open
  <2> QED
    BY <2>1, <2>2, QuietStep
<1> QED
  BY <1>1, <1>2, <1>3, <1>4, <1>5

(* Where the streams of the peer may be, and where the loop of the         *)
(* handshake may be with them.                                             *)
Placed ==
  {u \in [Unis -> {"unseen", "pending", "early", "ready", "accepted", "held", "dropped"}] :
     \A i \in Unis :
       /\ u[i] = "early" => plan.uni[i] \in {"own", "other"} /\ peer.head[i] = 3
       /\ u[i] \in {"ready", "accepted"} => plan.uni[i] = "own" /\ peer.head[i] = 3
       /\ u[i] = "dropped" /\ plan.uni[i] = "own" => i \in peer.ended}

Sorting == [do : {"go", "wait", "found", "over"}, at : Nat, moved : BOOLEAN, left : Int,
            count : Nat, queue : Seq(Entries), uni : Placed]

(* A stream that arrives waits for its header; one that is classified goes *)
(* where its class belongs.                                                *)
LEMMA PlacedAt ==
  ASSUME WebTypeOK, NEW u \in Placed, NEW i
  PROVE  /\ [u EXCEPT ![i] = "pending"] \in Placed
         /\ Settled(i) => [u EXCEPT ![i] = Sorted(i)] \in Placed
<1>1. [u EXCEPT ![i] = "pending"] \in Placed
  BY DEF Placed
<1>2. ASSUME Settled(i) PROVE [u EXCEPT ![i] = Sorted(i)] \in Placed
  <2>1. Sorted(i) \in {"held", "early", "dropped"}
    BY DEF Sorted
  <2>2. i \in Unis =>
          /\ Sorted(i) = "early" => plan.uni[i] \in {"own", "other"} /\ peer.head[i] = 3
          /\ Sorted(i) = "dropped" /\ plan.uni[i] = "own" => i \in peer.ended
    <3> SUFFICES ASSUME i \in Unis
                 PROVE  /\ Sorted(i) = "early" => /\ plan.uni[i] \in {"own", "other"}
                                                  /\ peer.head[i] = 3
                        /\ Sorted(i) = "dropped" /\ plan.uni[i] = "own" => i \in peer.ended
      OBVIOUS
    <3>1. /\ Class(i) \in {"own", "other"} => plan.uni[i] = Class(i) /\ peer.head[i] = 3
          /\ plan.uni[i] = "own" => Class(i) = "own" \/ i \in peer.ended
      BY <1>2, ClassOfUni
    <3> QED
      BY <3>1 DEF Sorted
  <2> QED
    BY <2>1, <2>2 DEF Placed
<1> QED
  BY <1>1, <1>2

(* A sequence without one of its elements, whose place the last one takes. *)
LEMMA Swapped ==
  ASSUME NEW q \in Seq(Entries), NEW k \in DOMAIN q
  PROVE  SwapRemove(q, k) \in Seq(Entries)
<1>1. Len(q) \in Nat /\ DOMAIN q = 1..Len(q) /\ \A j \in 1..Len(q) : q[j] \in Entries
  OBVIOUS
<1>2. Len(q) - 1 \in Nat
  BY <1>1
<1>3. \A j \in 1..(Len(q) - 1) : (IF j = k THEN q[Len(q)] ELSE q[j]) \in Entries
  BY <1>1, <1>2
<1>4. SwapRemove(q, k) \in [1..(Len(q) - 1) -> Entries]
  BY <1>3 DEF SwapRemove
<1> QED
  BY <1>2, <1>4

(* Each step of the loop leaves it as it may be.                           *)
LEMMA TurnSorts == ASSUME WebTypeOK, NEW s \in Sorting PROVE Turn(s) \in Sorting
<1>1. /\ s.at \in Nat /\ s.left \in Int /\ s.count \in Nat
      /\ s.queue \in Seq(Entries) /\ s.uni \in Placed
  BY DEF Sorting
<1>2. Adopt(s) \in Sorting
  <2>1. [s EXCEPT !.at = 1, !.moved = FALSE] \in Sorting
    BY DEF Sorting
  <2>2. Append(s.queue, [id |-> s.count + 1, read |-> 0]) \in Seq(Entries)
    <3>1. [id |-> s.count + 1, read |-> 0] \in Entries
      BY <1>1 DEF Entries
    <3> QED
      BY <1>1, <3>1
  <2>3. [s.uni EXCEPT ![s.count + 1] = "pending"] \in Placed
    BY <1>1, PlacedAt
  <2>4. s.left - 1 \in Int /\ s.count + 1 \in Nat
    BY <1>1
  <2>5. ASSUME NEW q \in Seq(Entries), NEW u \in Placed, NEW l \in Int, NEW c \in Nat
        PROVE  [s EXCEPT !.left = l, !.count = c, !.uni = u, !.queue = q] \in Sorting
    BY DEF Sorting
  <2>6. [s EXCEPT !.left = @ - 1, !.count = @ + 1, !.uni[s.count + 1] = "pending",
                  !.queue = Append(@, [id |-> s.count + 1, read |-> 0])]
          = [s EXCEPT !.left = s.left - 1, !.count = s.count + 1,
                      !.uni = [s.uni EXCEPT ![s.count + 1] = "pending"],
                      !.queue = Append(s.queue, [id |-> s.count + 1, read |-> 0])]
    BY DEF Sorting
  <2>7. [s EXCEPT !.left = @ - 1, !.count = @ + 1, !.uni[s.count + 1] = "pending",
                  !.queue = Append(@, [id |-> s.count + 1, read |-> 0])] \in Sorting
    BY <2>2, <2>3, <2>4, <2>5, <2>6
  <2> QED
    BY <2>1, <2>7 DEF Adopt
<1>3. ASSUME s.at \in DOMAIN s.queue PROVE Look(s) \in Sorting
  <2> DEFINE i == s.queue[s.at].id
             unread == peer.head[i] - s.queue[s.at].read
  <2>1. s.queue[s.at] \in Entries
    BY <1>1, <1>3
  <2>2. PassesOver(s) \in Sorting
    BY <1>1 DEF PassesOver, Sorting
  <2>3. [s EXCEPT !.left = @ - 1, !.queue[s.at].read = @ + 1] \in Sorting
    <3> DEFINE entry == [s.queue[s.at] EXCEPT !.read = @ + 1]
               q == [s.queue EXCEPT ![s.at] = entry]
    <3>1. entry \in Entries
      BY <2>1 DEF Entries
    <3>2. q \in Seq(Entries)
      <4> HIDE DEF entry
      <4> QED
        BY <1>1, <1>3, <3>1
    <3>3. s.left - 1 \in Int
      BY <1>1
    <3>4. ASSUME NEW p \in Seq(Entries), NEW l \in Int
          PROVE  [s EXCEPT !.left = l, !.queue = p] \in Sorting
      BY DEF Sorting
    <3>5. [s EXCEPT !.left = @ - 1, !.queue[s.at].read = @ + 1]
            = [s EXCEPT !.left = s.left - 1, !.queue = q]
      BY DEF Sorting
    <3> HIDE DEF q
    <3> QED
      BY <3>2, <3>3, <3>4, <3>5
  <2>4. ASSUME Settled(i)
        PROVE  [s EXCEPT !.queue = SwapRemove(@, s.at), !.uni[i] = Sorted(i), !.moved = TRUE,
                         !.do = IF Class(i) = "control" THEN "found" ELSE "go"] \in Sorting
    <3> DEFINE do == IF Class(i) = "control" THEN "found" ELSE "go"
               q == SwapRemove(s.queue, s.at)
               u == [s.uni EXCEPT ![i] = Sorted(i)]
    <3>1. q \in Seq(Entries)
      BY <1>1, <1>3, Swapped
    <3>2. u \in Placed
      BY <1>1, <2>4, PlacedAt
    <3>3. do \in {"found", "go"}
      OBVIOUS
    <3>4. ASSUME NEW p \in Seq(Entries), NEW v \in Placed, NEW d \in {"found", "go"}
          PROVE  [s EXCEPT !.queue = p, !.uni = v, !.moved = TRUE, !.do = d] \in Sorting
      BY DEF Sorting
    <3>5. [s EXCEPT !.queue = SwapRemove(@, s.at), !.uni[i] = Sorted(i), !.moved = TRUE,
                    !.do = do]
            = [s EXCEPT !.queue = q, !.uni = u, !.moved = TRUE, !.do = do]
      BY DEF Sorting
    <3>6. [s EXCEPT !.queue = q, !.uni = u, !.moved = TRUE, !.do = do] \in Sorting
      <4> HIDE DEF do, q, u
      <4> QED
        BY <3>1, <3>2, <3>3, <3>4
    <3> QED
      BY <3>5, <3>6
  <2> QED
    BY <2>2, <2>3, <2>4 DEF Look
<1>4. EndRound(s) \in Sorting
  BY DEF EndRound, Sorting
<1> QED
  BY <1>2, <1>3, <1>4 DEF Turn

(* So does a whole poll of it.                                             *)
LEMMA PolledSorts == ASSUME WebInv, NEW credit \in Int PROVE Polled(credit) \subseteq Sorting
<1> DEFINE start == [do |-> "go", at |-> 0, moved |-> FALSE, left |-> credit,
                     count |-> Cardinality(Arrivals), queue |-> pending, uni |-> uni]
           next(s) == {IF s.do = "go" THEN Turn(s) ELSE s}
           from(f) == [k \in 0..Turns |->
                         IF k = 0 THEN {start} ELSE UNION {next(s) : s \in f[k - 1]}]
           after == CHOOSE f : f = from(f)
           nexts == [s \in Sorting |-> next(s)]
<1>1. Polled(credit) = after[Turns]
  BY Zenon DEF Polled
<1>2. Turns \in Nat
  BY WebAssumption DEF Turns
<1>3. start \in Sorting
  <2>1. uni \in Placed
    BY DEF WebInv, WebTypeOK, UniInv, Placed
  <2>2. Cardinality(Arrivals) \in Nat
    <3>1. plan.uni \in Seq(UniKinds)
      BY PlansAssumption DEF WebInv, WebTypeOK, PlanShape
    <3>2. Len(plan.uni) \in Nat /\ Unis = 1..Len(plan.uni)
      BY <3>1 DEF Unis
    <3>3. IsFiniteSet(Unis)
      BY <3>2, FS_Interval
    <3>4. Arrivals \subseteq Unis
      BY DEF WebInv, WebTypeOK, Arrivals
    <3> QED
      BY <3>3, <3>4, FS_Subset, FS_CardinalityType
  <2>3. pending \in Seq(Entries)
    BY DEF WebInv, WebTypeOK
  <2> QED
    BY <2>1, <2>2, <2>3 DEF Sorting
<1>4. \A s \in Sorting : next(s) \subseteq Sorting
  BY TurnSorts DEF WebInv
<1>5. PICK f \in [0..Turns -> SUBSET Sorting] :
        Reached(f, Turns, start, nexts)
  <2>1. nexts \in [Sorting -> SUBSET Sorting]
    <3> HIDE DEF next
    <3> QED
      BY <1>4
  <2> HIDE DEF nexts, start
  <2>2. Iterates(Turns, Sorting, start, nexts)
    BY <1>2, <1>3, <2>1 DEF Iterates
  <2> QED
    BY <2>2, Iteration
<1>6. f = from(f)
  <2>1. ASSUME NEW k \in 0..Turns PROVE f[k] = from(f)[k]
    <3>1. CASE k = 0
      BY <1>5, <3>1 DEF Reached
    <3>2. CASE k # 0
      <4>1. k - 1 \in 0..Turns
        BY <1>2, <3>2
      <4>2. f[k - 1] \subseteq Sorting
        BY <4>1
      <4>3. \A s \in f[k - 1] : nexts[s] = next(s)
        <5> HIDE DEF next
        <5> QED
          BY <4>2
      <4> HIDE DEF next, nexts, start
      <4> QED
        BY <1>5, <3>2, <4>3 DEF Reached
    <3> QED
      BY <3>1, <3>2
  <2> HIDE DEF next
  <2> QED
    BY <2>1
<1>7. after = from(after)
  <2> HIDE DEF from
  <2> QED
    BY <1>6 DEF after
<1> HIDE DEF after, next, start
<1>8. /\ after[0] = {start}
      /\ \A k \in 1..Turns : after[k] = UNION {next(s) : s \in after[k - 1]}
  <2>1. /\ from(after)[0] = {start}
        /\ \A k \in 1..Turns : from(after)[k] = UNION {next(s) : s \in after[k - 1]}
    BY <1>2
  <2> HIDE DEF from
  <2> QED
    BY <1>7, <2>1
<1>9. after[0] \subseteq Sorting
  BY <1>3, <1>8
<1>10. \A k \in 1..Turns : after[k - 1] \subseteq Sorting => after[k] \subseteq Sorting
  BY <1>4, <1>8
<1> QED
  BY <1>1, <1>2, <1>9, <1>10, StaysWithin

(* A poll of the classification leaves every stream where it may be.       *)
LEMMA SortStep == ASSUME WebInv, OpenControl \/ Sort PROVE WebInv'
<1> USE DEF WebInv
<1>1. PICK credit \in Int : SortPoll(credit)
  BY WebAssumption DEF OpenControl, Sort
<1>2. CASE Fail
  BY <1>2, FailStep
<1>3. CASE ~Fail
  <2>1. PICK s \in Polled(credit) :
          /\ uni' = s.uni /\ pending' = IF s.do = "found" THEN <<>> ELSE s.queue
          /\ phase' = IF s.do = "found" THEN "settings" ELSE "sorting"
          /\ UNCHANGED <<plan, peer, bi, armed, conn, web>>
    BY <1>1, <1>3 DEF SortPoll
  <2>2. s \in Sorting
    BY PolledSorts
  <2>3. uni' \in Placed /\ pending' \in Seq(Entries)
    BY <2>1, <2>2 DEF Sorting
  <2>4. Unis' = Unis /\ Bis' = Bis
    BY <2>1 DEF Unis, Bis
  <2>5. WebTypeOK'
    BY <2>1, <2>3, <2>4 DEF WebTypeOK, Placed
  <2>6. UniInv' /\ BiInv'
    BY <2>1, <2>3, <2>4 DEF UniInv, BiInv, Placed
  <2>7. GuardInv'
    BY <2>1 DEF GuardInv
  <2> QED
    BY <2>5, <2>6, <2>7
<1> QED
  BY <1>2, <1>3

(* The session inherits what the handshake set aside for it.               *)
LEMMA RespondStep == ASSUME WebInv, Respond PROVE WebInv'
<1> USE DEF WebInv
<1>1. CASE Establish /\ phase' = "running" /\ UNCHANGED <<plan, peer, pending, bi, conn>>
  <2>1. Unis' = Unis /\ Bis' = Bis /\ DOMAIN uni = Unis
    BY <1>1 DEF Unis, Bis, WebTypeOK
  <2>2. uni' = [i \in Unis |->
                  IF uni[i] = "early" THEN (IF plan.uni[i] = "own" THEN "ready" ELSE "dropped")
                  ELSE uni[i]]
    BY <1>1, <2>1 DEF Establish
  <2>3. WebTypeOK'
    BY <1>1, <2>1, <2>2 DEF WebTypeOK
  <2>4. UniInv' /\ BiInv'
    BY <1>1, <2>1, <2>2 DEF UniInv, BiInv
  <2>5. GuardInv'
    BY <1>1 DEF GuardInv
  <2> QED
    BY <2>3, <2>4, <2>5
<1>2. CASE GuardDrop /\ Abandon
  BY <1>2, GuardStep DEF Respond, GuardInv
<1> QED
  BY <1>1, <1>2 DEF Respond

-----------------------------------------------------------------------------
(* One poll for a unidirectional stream of a running session.              *)
LEMMA AcceptUniStep == ASSUME WebInv, AcceptUni PROVE WebInv'
<1> USE DEF WebInv
<1>1. /\ UNCHANGED <<plan, peer, pending, bi, phase, armed, conn>>
      /\ Unis' = Unis /\ Bis' = Bis /\ DOMAIN uni = Unis
  BY DEF AcceptUni, Unis, Bis, WebTypeOK
<1> DEFINE Good(u) ==
      /\ u \in [Unis -> {"unseen", "pending", "early", "ready", "accepted", "held", "dropped"}]
      /\ \A i \in Unis :
           /\ u[i] = "early" => plan.uni[i] \in {"own", "other"} /\ peer.head[i] = 3
           /\ u[i] \in {"ready", "accepted"} => plan.uni[i] = "own" /\ peer.head[i] = 3
           /\ u[i] = "dropped" /\ plan.uni[i] = "own" => i \in peer.ended
<1>2. Good(uni)
  BY DEF WebTypeOK, UniInv
<1>3. ASSUME NEW u, Good(u), NEW i \in Unis, u[i] = "ready"
      PROVE  Good([u EXCEPT ![i] = "accepted"])
  BY <1>3
<1>4. ASSUME NEW waiting \in SUBSET Unis, NEW held
      PROVE  Good([i \in Unis |-> IF i \in {j \in waiting : Settled(j)} THEN Classified(i, held)
                                 ELSE IF i \in waiting THEN "pending" ELSE uni[i]])
  <2>1. \A i \in Unis : Settled(i) =>
          /\ Classified(i, held) \in {"ready", "held", "dropped"}
          /\ Classified(i, held) = "ready" => plan.uni[i] = "own" /\ peer.head[i] = 3
          /\ Classified(i, held) = "dropped" /\ plan.uni[i] = "own" => i \in peer.ended
    BY ClassOfUni DEF Classified
  <2> QED
    BY <1>2, <2>1
<1>5. Good(uni')
  <2> DEFINE waiting == {i \in DOMAIN uni :
                           uni[i] = "pending" \/ (uni[i] = "unseen" /\ i <= peer.opened)}
             settled == {i \in waiting : Settled(i)}
             sorted(held) == [i \in DOMAIN uni |->
                                IF i \in settled THEN Classified(i, held)
                                ELSE IF i \in waiting THEN "pending" ELSE uni[i]]
             ready(of) == {i \in DOMAIN uni : of[i] = "ready"}
  <2>1. \/ \E i \in Unis : uni[i] = "ready" /\ uni' = [uni EXCEPT ![i] = "accepted"]
        \/ \E held : \/ uni' = sorted(held)
                      \/ \E i \in Unis : /\ sorted(held)[i] = "ready"
                                         /\ uni' = [sorted(held) EXCEPT ![i] = "accepted"]
    <3>1. \/ \E i \in ready(uni) : uni' = [uni EXCEPT ![i] = "accepted"]
          \/ \E held \in Holdable(settled) :
               \/ uni' = sorted(held)
               \/ \E i \in ready(sorted(held)) : uni' = [sorted(held) EXCEPT ![i] = "accepted"]
      BY Zenon DEF AcceptUni
    <3>2. ASSUME NEW of PROVE \A i \in ready(of) : i \in Unis /\ of[i] = "ready"
      BY <1>1
    <3> HIDE DEF sorted, ready
    <3> QED
      BY <3>1, <3>2
  <2>2. ASSUME NEW held PROVE Good(sorted(held))
    <3>1. waiting \in SUBSET Unis
      BY <1>1
    <3> HIDE DEF waiting, Good
    <3>2. sorted(held) =
            [i \in Unis |-> IF i \in {j \in waiting : Settled(j)} THEN Classified(i, held)
                           ELSE IF i \in waiting THEN "pending" ELSE uni[i]]
      BY <1>1
    <3> QED
      BY <1>4, <3>1, <3>2
  <2> HIDE DEF sorted, Good
  <2>3. CASE \E i \in Unis : uni[i] = "ready" /\ uni' = [uni EXCEPT ![i] = "accepted"]
    BY <1>2, <1>3, <2>3
  <2>4. ASSUME NEW held,
               \/ uni' = sorted(held)
               \/ \E i \in Unis : /\ sorted(held)[i] = "ready"
                                  /\ uni' = [sorted(held) EXCEPT ![i] = "accepted"]
        PROVE  Good(uni')
    <3>1. Good(sorted(held))
      BY <2>2
    <3> QED
      BY <1>3, <2>4, <3>1
  <2> QED
    BY <2>1, <2>3, <2>4
<1>6. WebTypeOK' /\ UniInv' /\ BiInv' /\ GuardInv'
  BY <1>1, <1>5 DEF WebTypeOK, UniInv, BiInv, GuardInv, Open
<1> QED
  BY <1>6

(* And for a bidirectional one.                                            *)
LEMMA AcceptBiStep == ASSUME WebInv, AcceptBi PROVE WebInv'
<1> USE DEF WebInv
<1>1. /\ UNCHANGED <<plan, peer, uni, pending, phase, armed, conn>>
      /\ Unis' = Unis /\ Bis' = Bis /\ DOMAIN bi = Bis
  BY DEF AcceptBi, Unis, Bis, WebTypeOK
<1> DEFINE Good(b) ==
      /\ b \in [Bis -> {"unseen", "pending", "ready", "accepted", "dropped"}]
      /\ \A i \in Bis :
           /\ b[i] \in {"ready", "accepted"} => plan.bi[i] = "own" /\ peer.biHead[i] = 3
           /\ b[i] = "dropped" /\ plan.bi[i] = "own" => i \in peer.biEnded
           sorted == [i \in Bis |->
                        IF (bi[i] = "pending" \/ (bi[i] = "unseen" /\ i <= peer.biOpened))
                             /\ BiSettled(i) THEN BiClassified(i)
                        ELSE IF bi[i] = "pending" \/ (bi[i] = "unseen" /\ i <= peer.biOpened)
                          THEN "pending" ELSE bi[i]]
<1>2. Good(bi)
  BY DEF WebTypeOK, BiInv
<1>3. ASSUME NEW b, Good(b), NEW i \in Bis, b[i] = "ready"
      PROVE  Good([b EXCEPT ![i] = "accepted"])
  BY <1>3
<1>4. Good(sorted)
  <2>1. \A i \in Bis : BiSettled(i) =>
          /\ BiClassified(i) \in {"ready", "dropped"}
          /\ BiClassified(i) = "ready" => plan.bi[i] = "own" /\ peer.biHead[i] = 3
          /\ BiClassified(i) = "dropped" /\ plan.bi[i] = "own" => i \in peer.biEnded
    BY SettledBi
  <2> QED
    BY <1>2, <2>1
<1>5. Good(bi')
  <2>1. \/ \E i \in Bis : bi[i] = "ready" /\ bi' = [bi EXCEPT ![i] = "accepted"]
        \/ bi' = sorted
        \/ \E i \in Bis : sorted[i] = "ready" /\ bi' = [sorted EXCEPT ![i] = "accepted"]
    <3> DEFINE waiting == {i \in Bis :
                             bi[i] = "pending" \/ (bi[i] = "unseen" /\ i <= peer.biOpened)}
    <3>1. sorted = [i \in Bis |-> IF i \in waiting /\ BiSettled(i) THEN BiClassified(i)
                                 ELSE IF i \in waiting THEN "pending" ELSE bi[i]]
      OBVIOUS
    <3> HIDE DEF sorted
    <3> QED
      BY <1>1, <3>1 DEF AcceptBi
  <2> HIDE DEF sorted, Good
  <2> QED
    BY <1>2, <1>3, <1>4, <2>1
<1>6. WebTypeOK' /\ UniInv' /\ BiInv' /\ GuardInv'
  BY <1>1, <1>5 DEF WebTypeOK, UniInv, BiInv, GuardInv, Open
<1> QED
  BY <1>6

(* What goes on in the CONNECT stream moves no other stream.               *)
LEMMA RunningStep ==
  ASSUME WebInv, Close \/ DriverStep \/ WebTick
  PROVE  WebInv'
<1>1. /\ UNCHANGED <<plan, peer, uni, pending, bi, phase, armed>>
      /\ phase = "running" \/ conn' = conn
  BY DEF Close, DriverStep, WebTick, Running
<1>2. GuardInv'
  BY <1>1 DEF WebInv, GuardInv, Open
<1> QED
  BY <1>1, <1>2, QuietStep DEF WebInv, WebTypeOK

-----------------------------------------------------------------------------
LEMMA WebInductive == WebInv /\ [WebNext]_webVars => WebInv'
<1>1. SUFFICES ASSUME WebInv, [WebNext]_webVars PROVE WebInv'
  OBVIOUS
<1>2. CASE PeerNext
  BY <1>1, <1>2, PeerStep
<1>3. CASE ReadSettings \/ ReadConnect \/ Rejected \/ Reject \/ Release
  BY <1>1, <1>3, HandshakeStep
<1>4. CASE OpenControl \/ Sort \/ Respond
  BY <1>1, <1>4, SortStep, RespondStep
<1>5. CASE AcceptUni \/ AcceptBi
  BY <1>1, <1>5, AcceptUniStep, AcceptBiStep
<1>6. CASE Close \/ DriverStep \/ WebTick
  BY <1>1, <1>6, RunningStep
<1>7. CASE UNCHANGED webVars
  BY <1>1, <1>7, QuietStep DEF webVars, WebInv, WebTypeOK, GuardInv, Open
<1> QED
  BY <1>1, <1>2, <1>3, <1>4, <1>5, <1>6, <1>7 DEF WebNext, WebServer

(* No stream of the session is dropped that could still say whose it is,   *)
(* and none of another session is handed over: a stream that comes before  *)
(* its session waits among the early ones with its whole header, and one   *)
(* that is mid-header goes on pending (PendingUni, early and pending of    *)
(* web.rs).                                                                *)
THEOREM WebStreamsSorted == WebSpec => []StreamsSorted
<1>1. WebInv => StreamsSorted
  BY Headers DEF WebInv, WebTypeOK, UniInv, BiInv, StreamsSorted
<1> QED
  BY InitWeb, WebInductive, <1>1, PTL DEF WebSpec

(* However a handshake ends without a session, the connection is closed:   *)
(* by the error, by the guard that was armed with the request, or by the   *)
(* peer that owns the transport (Guard, Request of web.rs).                *)
THEOREM WebAbandonedIsClosed == WebSpec => []AbandonedIsClosed
<1>1. WebInv => AbandonedIsClosed
  BY DEF WebInv, GuardInv, AbandonedIsClosed
<1> QED
  BY InitWeb, WebInductive, <1>1, PTL DEF WebSpec

-----------------------------------------------------------------------------
(* The bytes of the CONNECT stream.  What its reader and the reference     *)
(* compute, they compute by recursion from one message to the next.        *)
(*                                                                         *)
(* What is left of a sequence from its k-th element on.                    *)
Cut(s, k, t) == s \in Seq(Nat) /\ k \in 1..(Len(s) + 1) /\ t = SubSeq(s, k, Len(s))

LEMMA Suffix ==
  ASSUME NEW s, NEW k, NEW t, Cut(s, k, t)
  PROVE  /\ t \in Seq(Nat) /\ Len(t) \in Nat /\ Len(s) \in Nat /\ Len(t) = Len(s) - k + 1
         /\ \A i \in 1..Len(t) : t[i] = s[i + k - 1]
<1> USE DEF Cut
<1>1. Len(s) \in Nat /\ k \in Nat /\ k <= Len(s) + 1
  BY LenProperties
<1>2. \A i \in k..Len(s) : s[i] \in Nat
  BY <1>1, ElementOfSeq
<1>3. /\ t \in Seq(Nat)
      /\ Len(t) = IF k <= Len(s) THEN Len(s) - k + 1 ELSE 0
      /\ \A i \in 1..(Len(s) - k + 1) : t[i] = s[k + i - 1]
  <2>1. k \in Int /\ Len(s) \in Int
    BY <1>1
  <2> QED
    BY <1>2, <2>1, SubSeqProperties
<1>4. Len(t) = Len(s) - k + 1 /\ Len(t) \in Nat
  BY <1>1, <1>3
<1>5. ASSUME NEW i \in 1..Len(t) PROVE t[i] = s[i + k - 1]
  <2>1. i \in 1..(Len(s) - k + 1) /\ k + i - 1 = i + k - 1
    BY <1>1, <1>4
  <2>2. t[i] = s[k + i - 1]
    BY <1>3, <2>1
  <2> QED
    BY <2>1, <2>2
<1> QED
  BY <1>1, <1>3, <1>4, <1>5

(* A frame, or a capsule, that has arrived: where it ends and what it has. *)
LEMMA WholeFacts ==
  ASSUME NEW s \in Seq(Nat), NEW i \in 1..(Len(s) + 1), Whole(s, i)
  PROVE  /\ i \in 1..Len(s) /\ s[i] \in Nat /\ s[i + 1] \in Nat
         /\ After(s, i) \in 1..(Len(s) + 1) /\ i < After(s, i)
         /\ After(s, i) = i + 2 + s[i + 1]
         /\ Payload(s, i) \in Seq(Nat) /\ Len(Payload(s, i)) = s[i + 1]
         /\ \A j \in 1..s[i + 1] : Payload(s, i)[j] = s[i + 1 + j]
<1>1. Len(s) \in Nat /\ i \in Nat /\ 1 <= i
  BY LenProperties
<1>2. i + 1 <= Len(s) /\ i + 1 + s[i + 1] <= Len(s)
  BY DEF Whole
<1>3. i \in 1..Len(s) /\ i + 1 \in 1..Len(s)
  BY <1>1, <1>2
<1>4. s[i] \in Nat /\ s[i + 1] \in Nat
  BY <1>3, ElementOfSeq
<1>5. PICK n \in Nat : n = s[i + 1]
  BY <1>4
<1>6. i + 2 \in Int /\ i + 1 + n \in Int /\ \A j \in (i + 2)..(i + 1 + n) : s[j] \in Nat
  <2>1. i + 1 + n <= Len(s)
    BY <1>2, <1>5
  <2>2. \A j \in (i + 2)..(i + 1 + n) : j \in 1..Len(s)
    BY <1>1, <2>1
  <2> QED
    BY <1>1, <2>2, ElementOfSeq
<1>7. Payload(s, i) = SubSeq(s, i + 2, i + 1 + n)
  BY <1>5 DEF Payload
<1>8. /\ Payload(s, i) \in Seq(Nat)
      /\ Len(Payload(s, i)) = IF i + 2 <= i + 1 + n THEN (i + 1 + n) - (i + 2) + 1 ELSE 0
      /\ \A j \in 1..((i + 1 + n) - (i + 2) + 1) : Payload(s, i)[j] = s[(i + 2) + j - 1]
  <2>1. PICK a \in Int, b \in Int : a = i + 2 /\ b = i + 1 + n
    BY <1>6
  <2>2. \A j \in a..b : s[j] \in Nat
    BY <1>6, <2>1
  <2>3. /\ SubSeq(s, a, b) \in Seq(Nat)
        /\ Len(SubSeq(s, a, b)) = IF a <= b THEN b - a + 1 ELSE 0
        /\ \A j \in 1..(b - a + 1) : SubSeq(s, a, b)[j] = s[a + j - 1]
    BY <2>2, SubSeqProperties, SMTT(60)
  <2> QED
    BY <1>7, <2>1, <2>3
<1>9. Len(Payload(s, i)) = n
  BY <1>1, <1>8
<1>10. ASSUME NEW j \in 1..n PROVE Payload(s, i)[j] = s[i + 1 + j]
  <2>1. j \in 1..((i + 1 + n) - (i + 2) + 1) /\ (i + 2) + j - 1 = i + 1 + j
    BY <1>1
  <2>2. Payload(s, i)[j] = s[(i + 2) + j - 1]
    BY <1>8, <2>1
  <2> QED
    BY <2>1, <2>2
<1>11. After(s, i) = i + 2 + n /\ i + 2 + n \in 1..(Len(s) + 1) /\ i < i + 2 + n
  BY <1>1, <1>2, <1>5, SMTT(60) DEF After
<1> QED
  BY <1>3, <1>4, <1>5, <1>8, <1>9, <1>10, <1>11

(* It is the same one in what is left from some place on.                  *)
LEMMA WholeInSuffix ==
  ASSUME NEW s, NEW k, NEW t, Cut(s, k, t)
  PROVE  \A i \in 1..(Len(t) + 1) :
           /\ i + k - 1 \in 1..(Len(s) + 1)
           /\ Whole(t, i) <=> Whole(s, i + k - 1)
           /\ Whole(t, i) => /\ t[i] = s[i + k - 1] /\ t[i + 1] = s[(i + k - 1) + 1]
                             /\ After(s, i + k - 1) = After(t, i) + k - 1
                             /\ Payload(t, i) = Payload(s, i + k - 1)
<1> SUFFICES ASSUME NEW i \in 1..(Len(t) + 1)
             PROVE  /\ i + k - 1 \in 1..(Len(s) + 1)
                    /\ Whole(t, i) <=> Whole(s, i + k - 1)
                    /\ Whole(t, i) => /\ t[i] = s[i + k - 1] /\ t[i + 1] = s[(i + k - 1) + 1]
                                      /\ After(s, i + k - 1) = After(t, i) + k - 1
                                      /\ Payload(t, i) = Payload(s, i + k - 1)
  OBVIOUS
<1>0. s \in Seq(Nat) /\ k \in 1..(Len(s) + 1)
  BY DEF Cut
<1>1. /\ t \in Seq(Nat) /\ Len(t) \in Nat /\ Len(s) \in Nat /\ Len(t) = Len(s) - k + 1
      /\ \A j \in 1..Len(t) : t[j] = s[j + k - 1]
  BY Suffix
<1>2. PICK j \in Int : j = i + k - 1
  BY <1>0, <1>1
<1>3. j \in 1..(Len(s) + 1) /\ i \in Nat /\ k \in Nat /\ 1 <= i
  BY <1>0, <1>1, <1>2
<1>4. i + 1 <= Len(t) <=> j + 1 <= Len(s)
  BY <1>1, <1>2, <1>3
<1>5. ASSUME i + 1 <= Len(t)
      PROVE  /\ t[i] = s[j] /\ t[i + 1] = s[j + 1] /\ s[j + 1] \in Nat
             /\ i + 1 + t[i + 1] <= Len(t) <=> j + 1 + s[j + 1] <= Len(s)
  <2>1. i \in 1..Len(t) /\ i + 1 \in 1..Len(t) /\ j + 1 \in 1..Len(s)
    BY <1>1, <1>2, <1>3, <1>5
  <2>2. t[i] = s[j]
    BY <1>1, <1>2, <2>1
  <2>3. t[i + 1] = s[(i + 1) + k - 1] /\ (i + 1) + k - 1 = j + 1
    BY <1>1, <1>2, <1>3, <2>1
  <2>4. s[j + 1] \in Nat
    BY <1>0, <2>1, ElementOfSeq
  <2>5. PICK n \in Nat : n = s[j + 1] /\ n = t[i + 1]
    BY <2>3, <2>4
  <2>6. i + 1 + n <= Len(t) <=> j + 1 + n <= Len(s)
    BY <1>1, <1>2, <1>3
  <2> QED
    BY <2>2, <2>3, <2>4, <2>5, <2>6
<1>6. Whole(t, i) <=> Whole(s, j)
  BY <1>4, <1>5 DEF Whole
<1>7. ASSUME Whole(t, i)
      PROVE  /\ t[i] = s[j] /\ t[i + 1] = s[j + 1]
             /\ After(s, j) = After(t, i) + k - 1
             /\ Payload(t, i) = Payload(s, j)
  <2>1. /\ s[j + 1] \in Nat /\ t[i] = s[j] /\ t[i + 1] = s[j + 1]
    BY <1>5, <1>7 DEF Whole
  <2>2. PICK n \in Nat : n = s[j + 1] /\ n = t[i + 1]
    BY <2>1
  <2>3. i + 2 + n + k - 1 = j + 2 + n
    BY <1>2, <1>3
  <2>4. After(s, j) = j + 2 + n /\ After(t, i) = i + 2 + n
    BY <2>2 DEF After
  <2>5. After(s, j) = After(t, i) + k - 1
    BY <1>2, <1>3, <2>4
  <2>6. /\ Payload(t, i) \in Seq(Nat) /\ Len(Payload(t, i)) = n
        /\ \A m \in 1..n : Payload(t, i)[m] = t[i + 1 + m]
    <3>1. t \in Seq(Nat) /\ i \in 1..(Len(t) + 1) /\ Whole(t, i)
      BY <1>1, <1>7
    <3>2. /\ Payload(t, i) \in Seq(Nat) /\ Len(Payload(t, i)) = t[i + 1]
          /\ \A m \in 1..t[i + 1] : Payload(t, i)[m] = t[i + 1 + m]
      BY <3>1, WholeFacts
    <3> QED
      BY <2>2, <3>2
  <2>7. /\ Payload(s, j) \in Seq(Nat) /\ Len(Payload(s, j)) = n
        /\ \A m \in 1..n : Payload(s, j)[m] = s[j + 1 + m]
    BY <1>0, <1>3, <1>6, <1>7, <2>2, WholeFacts
  <2>8. ASSUME NEW m \in 1..n PROVE Payload(t, i)[m] = Payload(s, j)[m]
    <3>1. i + 1 + n <= Len(t)
      BY <1>7, <2>2 DEF Whole
    <3>2. i + 1 + m \in 1..Len(t) /\ (i + 1 + m) + k - 1 = j + 1 + m
      <4>1. i + 1 + m \in 1..Len(t)
        BY <1>1, <1>3, <3>1
      <4>2. (i + 1 + m) + k - 1 = j + 1 + m
        BY <1>2, <1>3, <2>8
      <4> QED
        BY <4>1, <4>2
    <3>3. t[i + 1 + m] = s[(i + 1 + m) + k - 1]
      BY <1>1, <3>2
    <3> QED
      BY <2>6, <2>7, <3>2, <3>3
  <2>9. Payload(t, i) = Payload(s, j)
    BY <2>6, <2>7, <2>8, SeqEqual
  <2> QED
    BY <2>1, <2>5, <2>9
<1> QED
  BY <1>2, <1>3, <1>6, <1>7

(* The payload of a frame, if it counts; the DATA from every place on, as  *)
(* Demux and Contents compute it.                                          *)
Part(s, i) == IF s[i] = DATA THEN Payload(s, i) ELSE <<>>
DataFrom(s, f) ==
  [i \in 1..(Len(s) + 1) |->
     IF ~Whole(s, i) THEN <<>>
     ELSE (IF s[i] = DATA THEN Payload(s, i) ELSE <<>>) \o f[After(s, i)]]
DataOf(s) == CHOOSE f : f = DataFrom(s, f)

LEMMA DataSolved ==
  ASSUME NEW s \in Seq(Nat)
  PROVE  DataOf(s) \in [1..(Len(s) + 1) -> Seq(Nat)] /\ DataOf(s) = DataFrom(s, DataOf(s))
<1> DEFINE D == 1..(Len(s) + 1)
           W == {i \in D : Whole(s, i)}
           nx == [i \in W |-> After(s, i)]
           rank == [i \in D |-> (Len(s) + 1) - i]
           base == [i \in D |-> <<>>]
           step == [i \in W |-> [v \in Seq(Nat) |-> Part(s, i) \o v]]
<1>1. Len(s) \in Nat
  BY LenProperties
<1>2. \A i \in W : After(s, i) \in D /\ i < After(s, i) /\ Part(s, i) \in Seq(Nat)
  BY WholeFacts, EmptySeq DEF Part
<1>3. nx \in [W -> D] /\ W \subseteq D
  BY <1>2
<1>4. rank \in [D -> 0..Len(s)]
  BY <1>1
<1>5. \A i \in W : rank[nx[i]] < rank[i]
  <2>1. SUFFICES ASSUME NEW i \in W PROVE rank[nx[i]] < rank[i]
    OBVIOUS
  <2>2. nx[i] = After(s, i) /\ i \in D /\ After(s, i) \in D /\ i < After(s, i)
    BY <1>2
  <2>3. rank[After(s, i)] = (Len(s) + 1) - After(s, i) /\ rank[i] = (Len(s) + 1) - i
    BY <2>2
  <2> QED
    BY <1>1, <2>2, <2>3
<1>6. Falls(Len(s), D, W, nx, rank)
  <2> HIDE DEF D, W, nx, rank
  <2> QED
    BY <1>1, <1>3, <1>4, <1>5 DEF Falls
<1>7. Computes(D, Seq(Nat), W, base, step)
  <2>1. base \in [D -> Seq(Nat)]
    BY EmptySeq
  <2>2. \A i \in W : \A v \in Seq(Nat) : Part(s, i) \o v \in Seq(Nat)
    BY <1>2, ConcatProperties
  <2>3. step \in [W -> [Seq(Nat) -> Seq(Nat)]]
    <3> HIDE DEF W
    <3> QED
      BY <2>2
  <2> QED
    BY <2>1, <2>3 DEF Computes
<1>8. PICK f \in [D -> Seq(Nat)] :
        \A i \in D : f[i] = IF i \in W THEN step[i][f[nx[i]]] ELSE base[i]
  <2> HIDE DEF D, W, nx, rank, base, step
  <2> QED
    BY <1>6, <1>7, Recursion
<1>9. f = DataFrom(s, f)
  <2>1. ASSUME NEW i \in D PROVE f[i] = DataFrom(s, f)[i]
    <3>1. CASE i \in W
      <4>1. f[nx[i]] \in Seq(Nat) /\ nx[i] = After(s, i)
        BY <1>3, <3>1
      <4>2. step[i][f[nx[i]]] = Part(s, i) \o f[nx[i]]
        BY <3>1, <4>1
      <4>3. Whole(s, i)
        BY <3>1
      <4> QED
        BY <1>8, <3>1, <4>1, <4>2, <4>3 DEF DataFrom, Part
    <3>2. CASE i \notin W
      BY <1>8, <3>2 DEF DataFrom
    <3> QED
      BY <3>1, <3>2
  <2> QED
    BY <2>1 DEF DataFrom
<1>10. DataOf(s) = DataFrom(s, DataOf(s))
  BY <1>9 DEF DataOf
<1> DEFINE g == DataOf(s)
<1>11. ASSUME NEW i \in D, i \in W => f[nx[i]] = g[nx[i]] PROVE f[i] = g[i]
  <2>1. /\ f[i] = IF ~Whole(s, i) THEN <<>> ELSE Part(s, i) \o f[After(s, i)]
        /\ g[i] = IF ~Whole(s, i) THEN <<>> ELSE Part(s, i) \o g[After(s, i)]
    <3>1. \A h : DataFrom(s, h)[i] = IF ~Whole(s, i) THEN <<>> ELSE Part(s, i) \o h[After(s, i)]
      BY DEF DataFrom, Part
    <3> HIDE DEF g
    <3>2. g = DataFrom(s, g)
      BY <1>10 DEF g
    <3> QED
      BY <1>9, <3>1, <3>2, Zenon
  <2> HIDE DEF g
  <2> QED
    BY <1>11, <2>1
<1>12. \A i \in D : f[i] = g[i]
  <2> HIDE DEF D, W, nx, rank, base, step, g
  <2> QED
    BY <1>6, <1>11, Agreement
<1>13. g = [i \in D |-> g[i]]
  <2>1. \A h : DataFrom(s, h) = [i \in D |-> DataFrom(s, h)[i]]
    BY DEF DataFrom
  <2> QED
    BY <1>10, <2>1
<1>14. g = f
  <2> HIDE DEF g, D
  <2> QED
    BY <1>12, <1>13
<1> QED
  BY <1>10, <1>14

LEMMA DataInSuffix ==
  ASSUME NEW s, NEW k, NEW t, Cut(s, k, t)
  PROVE  \A i \in 1..(Len(t) + 1) : DataOf(t)[i] = DataOf(s)[i + k - 1]
<1> DEFINE D == 1..(Len(t) + 1)
           W == {j \in D : Whole(t, j)}
           nx == [j \in W |-> After(t, j)]
           rank == [j \in D |-> (Len(t) + 1) - j]
           f == DataOf(t)
           g == [j \in D |-> DataOf(s)[j + k - 1]]
<1>0. s \in Seq(Nat) /\ k \in 1..(Len(s) + 1)
  BY DEF Cut
<1>1. t \in Seq(Nat) /\ Len(t) \in Nat
  BY <1>0, Suffix
<1>2. \A j \in W : After(t, j) \in D /\ j < After(t, j)
  BY <1>1, WholeFacts
<1>3. nx \in [W -> D] /\ W \subseteq D /\ rank \in [D -> 0..Len(t)]
  BY <1>1, <1>2
<1>4. \A j \in W : rank[nx[j]] < rank[j]
  <2>1. SUFFICES ASSUME NEW j \in W PROVE rank[nx[j]] < rank[j]
    OBVIOUS
  <2>2. nx[j] = After(t, j) /\ j \in D /\ After(t, j) \in D /\ j < After(t, j)
    BY <1>2
  <2>3. rank[After(t, j)] = (Len(t) + 1) - After(t, j) /\ rank[j] = (Len(t) + 1) - j
    BY <2>2
  <2> QED
    BY <1>1, <2>2, <2>3
<1>5. ASSUME NEW j \in D, j \in W => f[nx[j]] = g[nx[j]] PROVE f[j] = g[j]
  <2>1. f[j] = IF ~Whole(t, j) THEN <<>> ELSE Part(t, j) \o f[After(t, j)]
    <3>1. \A h : DataFrom(t, h)[j] = IF ~Whole(t, j) THEN <<>> ELSE Part(t, j) \o h[After(t, j)]
      BY DEF DataFrom, Part
    <3> HIDE DEF f
    <3>2. f = DataFrom(t, f)
      BY <1>1, DataSolved DEF f
    <3> QED
      BY <3>1, <3>2, Zenon
  <2> DEFINE m == j + k - 1
             h == DataOf(s)
  <2>2. /\ m \in 1..(Len(s) + 1) /\ (Whole(t, j) <=> Whole(s, m))
        /\ Whole(t, j) => /\ After(s, m) = After(t, j) + k - 1
                           /\ Part(t, j) = Part(s, m)
    <3>1. /\ m \in 1..(Len(s) + 1) /\ (Whole(t, j) <=> Whole(s, m))
          /\ Whole(t, j) => /\ t[j] = s[m]
                            /\ After(s, m) = After(t, j) + k - 1
                            /\ Payload(t, j) = Payload(s, m)
      BY WholeInSuffix
    <3> HIDE DEF m
    <3> QED
      BY <3>1 DEF Part
  <2>3. h[m] = IF ~Whole(s, m) THEN <<>> ELSE Part(s, m) \o h[After(s, m)]
    <3> HIDE DEF m
    <3>1. \A u : DataFrom(s, u)[m] = IF ~Whole(s, m) THEN <<>> ELSE Part(s, m) \o u[After(s, m)]
      BY <2>2 DEF DataFrom, Part
    <3> HIDE DEF h
    <3>2. h = DataFrom(s, h)
      BY <1>0, DataSolved DEF h
    <3> QED
      BY <3>1, <3>2, Zenon
  <2>4. g[j] = h[m] /\ (Whole(t, j) => g[After(t, j)] = h[After(s, m)])
    <3>1. Whole(t, j) => After(t, j) \in D
      BY <1>2
    <3> QED
      BY <2>2, <3>1
  <2>5. Whole(t, j) => f[After(t, j)] = g[After(t, j)]
    BY <1>5
  <2> HIDE DEF f, g, h, m
  <2> QED
    BY <2>1, <2>2, <2>3, <2>4, <2>5
<1>6. Falls(Len(t), D, W, nx, rank)
  <2> HIDE DEF D, W, nx, rank
  <2> QED
    BY <1>1, <1>3, <1>4 DEF Falls
<1>7. \A j \in D : f[j] = g[j]
  <2> HIDE DEF D, W, nx, rank, f, g
  <2> QED
    BY <1>6, <1>5, Agreement
<1> QED
  BY <1>7

(* The contents of bytes, a frame at a time.                               *)
LEMMA ContentsUnfold ==
  ASSUME NEW s \in Seq(Nat)
  PROVE  /\ Contents(s) \in Seq(Nat)
         /\ ~Whole(s, 1) => Contents(s) = <<>>
         /\ Whole(s, 1) => /\ After(s, 1) \in 1..(Len(s) + 1)
                           /\ Part(s, 1) \in Seq(Nat)
                           /\ Contents(s) = Part(s, 1) \o Contents(SubSeq(s, After(s, 1), Len(s)))
<1>1. Len(s) \in Nat /\ 1 \in 1..(Len(s) + 1)
  <2>1. Len(s) \in Nat
    BY LenProperties
  <2> QED
    BY <2>1
<1>2. \A u : Contents(u) = DataOf(u)[1]
  BY Zenon DEF Contents, DataOf, DataFrom
<1>3. DataOf(s)[1] = IF ~Whole(s, 1) THEN <<>> ELSE Part(s, 1) \o DataOf(s)[After(s, 1)]
  <2>1. \A u : DataFrom(s, u)[1] = IF ~Whole(s, 1) THEN <<>> ELSE Part(s, 1) \o u[After(s, 1)]
    BY <1>1 DEF DataFrom, Part
  <2>2. DataOf(s) = DataFrom(s, DataOf(s))
    BY DataSolved
  <2> QED
    BY <2>1, <2>2, Zenon
<1>4. Contents(s) \in Seq(Nat)
  BY <1>1, <1>2, DataSolved
<1>5. ASSUME Whole(s, 1)
      PROVE  /\ After(s, 1) \in 1..(Len(s) + 1)
             /\ Part(s, 1) \in Seq(Nat)
             /\ Contents(s) = Part(s, 1) \o Contents(SubSeq(s, After(s, 1), Len(s)))
  <2>1. After(s, 1) \in 1..(Len(s) + 1) /\ Payload(s, 1) \in Seq(Nat)
    BY <1>1, <1>5, WholeFacts
  <2>2. PICK k \in 1..(Len(s) + 1) : k = After(s, 1)
    BY <2>1
  <2>3. PICK t : t = SubSeq(s, k, Len(s)) /\ Cut(s, k, t)
    BY DEF Cut
  <2>4. Len(t) \in Nat /\ t \in Seq(Nat)
    BY <2>3, Suffix
  <2>5. DataOf(t)[1] = DataOf(s)[k]
    <3>1. 1 \in 1..(Len(t) + 1) /\ 1 + k - 1 = k
      BY <1>1, <2>4
    <3>2. DataOf(t)[1] = DataOf(s)[1 + k - 1]
      BY <2>3, <3>1, DataInSuffix
    <3> QED
      BY <3>1, <3>2
  <2>6. Part(s, 1) \in Seq(Nat)
    BY <2>1, EmptySeq DEF Part
  <2> QED
    BY <1>2, <1>3, <1>5, <2>1, <2>2, <2>3, <2>5, <2>6
<1> QED
  BY <1>2, <1>3, <1>4, <1>5

(* Whether what starts at a place is a close capsule, an empty one if e;   *)
(* whether one is reached from each place, as Says computes it.            *)
IsClose(b, i, e) == b[i] = CLOSE /\ (e => b[i + 1] = 0)
EndsFrom(b, e, f) ==
  [i \in 1..(Len(b) + 1) |-> Whole(b, i) /\ (IsClose(b, i, e) \/ f[After(b, i)])]
EndsOf(b, e) == CHOOSE f : f = EndsFrom(b, e, f)

LEMMA EndsSolved ==
  ASSUME NEW s \in Seq(Nat), NEW e \in BOOLEAN
  PROVE  /\ EndsOf(s, e) \in [1..(Len(s) + 1) -> BOOLEAN]
         /\ EndsOf(s, e) = EndsFrom(s, e, EndsOf(s, e))
<1> DEFINE D == 1..(Len(s) + 1)
           W == {i \in D : Whole(s, i)}
           nx == [i \in W |-> After(s, i)]
           rank == [i \in D |-> (Len(s) + 1) - i]
           base == [i \in D |-> FALSE]
           step == [i \in W |-> [v \in BOOLEAN |-> IsClose(s, i, e) \/ v]]
<1>1. Len(s) \in Nat
  BY LenProperties
<1>2. \A i \in W : After(s, i) \in D /\ i < After(s, i) /\ IsClose(s, i, e) \in BOOLEAN
  BY WholeFacts DEF IsClose
<1>3. nx \in [W -> D] /\ W \subseteq D
  BY <1>2
<1>4. rank \in [D -> 0..Len(s)]
  BY <1>1
<1>5. \A i \in W : rank[nx[i]] < rank[i]
  <2>1. SUFFICES ASSUME NEW i \in W PROVE rank[nx[i]] < rank[i]
    OBVIOUS
  <2>2. nx[i] = After(s, i) /\ i \in D /\ After(s, i) \in D /\ i < After(s, i)
    BY <1>2
  <2>3. rank[After(s, i)] = (Len(s) + 1) - After(s, i) /\ rank[i] = (Len(s) + 1) - i
    BY <2>2
  <2> QED
    BY <1>1, <2>2, <2>3
<1>6. Falls(Len(s), D, W, nx, rank)
  <2> HIDE DEF D, W, nx, rank
  <2> QED
    BY <1>1, <1>3, <1>4, <1>5 DEF Falls
<1>7. Computes(D, BOOLEAN, W, base, step)
  <2>1. base \in [D -> BOOLEAN]
    OBVIOUS
  <2>2. \A i \in W : \A v \in BOOLEAN : (IsClose(s, i, e) \/ v) \in BOOLEAN
    OBVIOUS
  <2>3. step \in [W -> [BOOLEAN -> BOOLEAN]]
    <3> HIDE DEF W
    <3> QED
      BY <2>2
  <2> QED
    BY <2>1, <2>3 DEF Computes
<1>8. PICK f \in [D -> BOOLEAN] :
        \A i \in D : f[i] = IF i \in W THEN step[i][f[nx[i]]] ELSE base[i]
  <2> HIDE DEF D, W, nx, rank, base, step
  <2> QED
    BY <1>6, <1>7, Recursion
<1>9. f = EndsFrom(s, e, f)
  <2>1. ASSUME NEW i \in D PROVE f[i] = EndsFrom(s, e, f)[i]
    <3>1. CASE i \in W
      <4>1. f[nx[i]] \in BOOLEAN /\ nx[i] = After(s, i)
        BY <1>3, <3>1
      <4>2. step[i][f[nx[i]]] = (IsClose(s, i, e) \/ f[nx[i]])
        BY <3>1, <4>1
      <4>3. Whole(s, i)
        BY <3>1
      <4> QED
        BY <1>8, <3>1, <4>1, <4>2, <4>3 DEF EndsFrom
    <3>2. CASE i \notin W
      BY <1>8, <3>2 DEF EndsFrom
    <3> QED
      BY <3>1, <3>2
  <2> QED
    BY <2>1 DEF EndsFrom
<1>10. EndsOf(s, e) = EndsFrom(s, e, EndsOf(s, e))
  BY <1>9 DEF EndsOf
<1> DEFINE g == EndsOf(s, e)
<1>11. ASSUME NEW i \in D, i \in W => f[nx[i]] = g[nx[i]] PROVE f[i] = g[i]
  <2>1. /\ f[i] = (Whole(s, i) /\ (IsClose(s, i, e) \/ f[After(s, i)]))
        /\ g[i] = (Whole(s, i) /\ (IsClose(s, i, e) \/ g[After(s, i)]))
    <3>1. \A h : EndsFrom(s, e, h)[i] = (Whole(s, i) /\ (IsClose(s, i, e) \/ h[After(s, i)]))
      BY DEF EndsFrom
    <3> HIDE DEF g
    <3>2. g = EndsFrom(s, e, g)
      BY <1>10 DEF g
    <3> QED
      BY <1>9, <3>1, <3>2, Zenon
  <2> HIDE DEF g
  <2> QED
    BY <1>11, <2>1
<1>12. \A i \in D : f[i] = g[i]
  <2> HIDE DEF D, W, nx, rank, base, step, g
  <2> QED
    BY <1>6, <1>11, Agreement
<1>13. g = [i \in D |-> g[i]]
  <2>1. \A h : EndsFrom(s, e, h) = [i \in D |-> EndsFrom(s, e, h)[i]]
    BY DEF EndsFrom
  <2> QED
    BY <1>10, <2>1
<1>14. g = f
  <2> HIDE DEF g, D
  <2> QED
    BY <1>12, <1>13
<1> QED
  BY <1>10, <1>14

LEMMA EndsInSuffix ==
  ASSUME NEW s, NEW k, NEW t, Cut(s, k, t), NEW e \in BOOLEAN
  PROVE  \A i \in 1..(Len(t) + 1) : EndsOf(t, e)[i] = EndsOf(s, e)[i + k - 1]
<1> DEFINE D == 1..(Len(t) + 1)
           W == {j \in D : Whole(t, j)}
           nx == [j \in W |-> After(t, j)]
           rank == [j \in D |-> (Len(t) + 1) - j]
           f == EndsOf(t, e)
           g == [j \in D |-> EndsOf(s, e)[j + k - 1]]
<1>0. s \in Seq(Nat) /\ k \in 1..(Len(s) + 1)
  BY DEF Cut
<1>1. t \in Seq(Nat) /\ Len(t) \in Nat
  BY <1>0, Suffix
<1>2. \A j \in W : After(t, j) \in D /\ j < After(t, j)
  BY <1>1, WholeFacts
<1>3. nx \in [W -> D] /\ W \subseteq D /\ rank \in [D -> 0..Len(t)]
  BY <1>1, <1>2
<1>4. \A j \in W : rank[nx[j]] < rank[j]
  <2>1. SUFFICES ASSUME NEW j \in W PROVE rank[nx[j]] < rank[j]
    OBVIOUS
  <2>2. nx[j] = After(t, j) /\ j \in D /\ After(t, j) \in D /\ j < After(t, j)
    BY <1>2
  <2>3. rank[After(t, j)] = (Len(t) + 1) - After(t, j) /\ rank[j] = (Len(t) + 1) - j
    BY <2>2
  <2> QED
    BY <1>1, <2>2, <2>3
<1>5. ASSUME NEW j \in D, j \in W => f[nx[j]] = g[nx[j]] PROVE f[j] = g[j]
  <2>1. f[j] = (Whole(t, j) /\ (IsClose(t, j, e) \/ f[After(t, j)]))
    <3>1. \A h : EndsFrom(t, e, h)[j] = (Whole(t, j) /\ (IsClose(t, j, e) \/ h[After(t, j)]))
      BY DEF EndsFrom
    <3> HIDE DEF f
    <3>2. f = EndsFrom(t, e, f)
      BY <1>1, EndsSolved DEF f
    <3> QED
      BY <3>1, <3>2, Zenon
  <2> DEFINE m == j + k - 1
             h == EndsOf(s, e)
  <2>2. /\ m \in 1..(Len(s) + 1) /\ (Whole(t, j) <=> Whole(s, m))
        /\ Whole(t, j) => /\ After(s, m) = After(t, j) + k - 1
                           /\ IsClose(t, j, e) = IsClose(s, m, e)
    <3>1. /\ m \in 1..(Len(s) + 1) /\ (Whole(t, j) <=> Whole(s, m))
          /\ Whole(t, j) => /\ t[j] = s[m]
                            /\ After(s, m) = After(t, j) + k - 1
                            /\ t[j + 1] = s[m + 1]
      BY WholeInSuffix
    <3> HIDE DEF m
    <3> QED
      BY <3>1 DEF IsClose
  <2>3. h[m] = (Whole(s, m) /\ (IsClose(s, m, e) \/ h[After(s, m)]))
    <3> HIDE DEF m
    <3>1. \A u : EndsFrom(s, e, u)[m] = (Whole(s, m) /\ (IsClose(s, m, e) \/ u[After(s, m)]))
      BY <2>2 DEF EndsFrom
    <3> HIDE DEF h
    <3>2. h = EndsFrom(s, e, h)
      BY <1>0, EndsSolved DEF h
    <3> QED
      BY <3>1, <3>2, Zenon
  <2>4. g[j] = h[m] /\ (Whole(t, j) => g[After(t, j)] = h[After(s, m)])
    <3>1. Whole(t, j) => After(t, j) \in D
      BY <1>2
    <3> QED
      BY <2>2, <3>1
  <2>5. Whole(t, j) => f[After(t, j)] = g[After(t, j)]
    BY <1>5
  <2> HIDE DEF f, g, h, m
  <2> QED
    BY <2>1, <2>2, <2>3, <2>4, <2>5
<1>6. Falls(Len(t), D, W, nx, rank)
  <2> HIDE DEF D, W, nx, rank
  <2> QED
    BY <1>1, <1>3, <1>4 DEF Falls
<1>7. \A j \in D : f[j] = g[j]
  <2> HIDE DEF D, W, nx, rank, f, g
  <2> QED
    BY <1>6, <1>5, Agreement
<1> QED
  BY <1>7

LEMMA EndsUnique ==
  ASSUME NEW s \in Seq(Nat), NEW e \in BOOLEAN, NEW f, f = EndsFrom(s, e, f)
  PROVE  \A i \in 1..(Len(s) + 1) : f[i] = EndsOf(s, e)[i]
<1> DEFINE D == 1..(Len(s) + 1)
           W == {i \in D : Whole(s, i)}
           nx == [i \in W |-> After(s, i)]
           rank == [i \in D |-> (Len(s) + 1) - i]
           g == EndsOf(s, e)
<1>1. Len(s) \in Nat
  BY LenProperties
<1>2. \A i \in W : After(s, i) \in D /\ i < After(s, i)
  BY WholeFacts
<1>3. nx \in [W -> D] /\ W \subseteq D /\ rank \in [D -> 0..Len(s)]
  BY <1>1, <1>2
<1>4. \A i \in W : rank[nx[i]] < rank[i]
  <2>1. SUFFICES ASSUME NEW i \in W PROVE rank[nx[i]] < rank[i]
    OBVIOUS
  <2>2. nx[i] = After(s, i) /\ i \in D /\ After(s, i) \in D /\ i < After(s, i)
    BY <1>2
  <2>3. rank[After(s, i)] = (Len(s) + 1) - After(s, i) /\ rank[i] = (Len(s) + 1) - i
    BY <2>2
  <2> QED
    BY <1>1, <2>2, <2>3
<1>5. Falls(Len(s), D, W, nx, rank)
  <2> HIDE DEF D, W, nx, rank
  <2> QED
    BY <1>1, <1>3, <1>4 DEF Falls
<1>6. ASSUME NEW i \in D, i \in W => f[nx[i]] = g[nx[i]] PROVE f[i] = g[i]
  <2>1. /\ f[i] = (Whole(s, i) /\ (IsClose(s, i, e) \/ f[After(s, i)]))
        /\ g[i] = (Whole(s, i) /\ (IsClose(s, i, e) \/ g[After(s, i)]))
    <3>1. \A h : EndsFrom(s, e, h)[i] = (Whole(s, i) /\ (IsClose(s, i, e) \/ h[After(s, i)]))
      BY DEF EndsFrom
    <3> HIDE DEF g
    <3>2. g = EndsFrom(s, e, g)
      BY EndsSolved DEF g
    <3> QED
      BY <3>1, <3>2, Zenon
  <2>2. Whole(s, i) => f[After(s, i)] = g[After(s, i)]
    BY <1>6
  <2> HIDE DEF g
  <2> QED
    BY <2>1, <2>2
<1>7. \A i \in D : f[i] = g[i]
  <2> HIDE DEF D, W, nx, rank, g
  <2> QED
    BY <1>5, <1>6, Agreement
<1> QED
  BY <1>7

(* Whether contents say so, a capsule at a time.                           *)
Closes(b, e) == EndsOf(b, e)[1]

LEMMA ClosesUnfold ==
  ASSUME NEW s \in Seq(Nat), NEW e \in BOOLEAN
  PROVE  /\ Closes(s, e) \in BOOLEAN
         /\ ~Whole(s, 1) => ~Closes(s, e)
         /\ Whole(s, 1) => /\ After(s, 1) \in 1..(Len(s) + 1)
                           /\ Closes(s, e) <=> \/ IsClose(s, 1, e)
                                               \/ Closes(SubSeq(s, After(s, 1), Len(s)), e)
<1>1. Len(s) \in Nat /\ 1 \in 1..(Len(s) + 1)
  <2>1. Len(s) \in Nat
    BY LenProperties
  <2> QED
    BY <2>1
<1>2. EndsOf(s, e)[1] = (Whole(s, 1) /\ (IsClose(s, 1, e) \/ EndsOf(s, e)[After(s, 1)]))
  <2>1. \A u : EndsFrom(s, e, u)[1] = (Whole(s, 1) /\ (IsClose(s, 1, e) \/ u[After(s, 1)]))
    BY <1>1 DEF EndsFrom
  <2>2. EndsOf(s, e) = EndsFrom(s, e, EndsOf(s, e))
    BY EndsSolved
  <2> QED
    BY <2>1, <2>2, Zenon
<1>3. EndsOf(s, e)[1] \in BOOLEAN
  BY <1>1, EndsSolved
<1>4. ASSUME Whole(s, 1)
      PROVE  /\ After(s, 1) \in 1..(Len(s) + 1)
             /\ EndsOf(s, e)[After(s, 1)] = Closes(SubSeq(s, After(s, 1), Len(s)), e)
  <2>1. After(s, 1) \in 1..(Len(s) + 1)
    BY <1>1, <1>4, WholeFacts
  <2>2. PICK k \in 1..(Len(s) + 1) : k = After(s, 1)
    BY <2>1
  <2>3. PICK t : t = SubSeq(s, k, Len(s)) /\ Cut(s, k, t)
    BY DEF Cut
  <2>4. Len(t) \in Nat
    BY <2>3, Suffix
  <2>5. EndsOf(t, e)[1] = EndsOf(s, e)[k]
    <3>1. 1 \in 1..(Len(t) + 1) /\ 1 + k - 1 = k
      BY <1>1, <2>4
    <3>2. EndsOf(t, e)[1] = EndsOf(s, e)[1 + k - 1]
      BY <2>3, <3>1, EndsInSuffix
    <3> QED
      BY <3>1, <3>2
  <2> QED
    BY <2>1, <2>2, <2>3, <2>5 DEF Closes
<1> QED
  BY <1>2, <1>3, <1>4 DEF Closes

(* What SaysClose and SaysNonsense ask, in terms of Closes.                *)
LEMMA SaysThat ==
  ASSUME NEW s \in Seq(Nat)
  PROVE  /\ SaysClose(s) = Closes(Contents(s), FALSE)
         /\ SaysNonsense(s) <=> Len(s) > MESSAGE_LIMIT \/ Closes(Contents(s), TRUE)
<1> DEFINE b == Contents(s)
           plain(f) == [i \in 1..(Len(b) + 1) |->
                          Whole(b, i) /\ (b[i] = CLOSE \/ f[After(b, i)])]
           empty(f) == [i \in 1..(Len(b) + 1) |->
                          Whole(b, i) /\ ((b[i] = CLOSE /\ b[i + 1] = 0) \/ f[After(b, i)])]
           p == CHOOSE f : f = plain(f)
           q == CHOOSE f : f = empty(f)
<1>1. SaysClose(s) = p[1]
  BY Zenon DEF SaysClose, Says
<1>2. SaysNonsense(s) = (Len(s) > MESSAGE_LIMIT \/ q[1])
  BY Zenon DEF SaysNonsense, Says
<1>3. b \in Seq(Nat) /\ Len(b) \in Nat /\ 1 \in 1..(Len(b) + 1)
  <2>1. b \in Seq(Nat)
    BY ContentsUnfold
  <2> HIDE DEF b
  <2>2. Len(b) \in Nat
    BY <2>1, LenProperties
  <2> QED
    BY <2>1, <2>2
<1> HIDE DEF b
<1>4. \A f : plain(f) = EndsFrom(b, FALSE, f) /\ empty(f) = EndsFrom(b, TRUE, f)
  BY DEF EndsFrom, IsClose
<1>5. EndsOf(b, FALSE) = plain(EndsOf(b, FALSE)) /\ EndsOf(b, TRUE) = empty(EndsOf(b, TRUE))
  <2>1. /\ EndsOf(b, FALSE) = EndsFrom(b, FALSE, EndsOf(b, FALSE))
        /\ EndsOf(b, TRUE) = EndsFrom(b, TRUE, EndsOf(b, TRUE))
    BY <1>3, EndsSolved
  <2> HIDE DEF plain, empty
  <2> QED
    BY <1>4, <2>1
<1>6. p = plain(p) /\ q = empty(q)
  <2> HIDE DEF plain, empty
  <2> QED
    BY <1>5 DEF p, q
<1> HIDE DEF p, q
<1>7. p = EndsFrom(b, FALSE, p) /\ q = EndsFrom(b, TRUE, q)
  <2> HIDE DEF plain, empty
  <2> QED
    BY <1>4, <1>6
<1>8. p[1] = EndsOf(b, FALSE)[1] /\ q[1] = EndsOf(b, TRUE)[1]
  <2>1. \A i \in 1..(Len(b) + 1) : p[i] = EndsOf(b, FALSE)[i]
    BY <1>3, <1>7, EndsUnique, Zenon
  <2>2. \A i \in 1..(Len(b) + 1) : q[i] = EndsOf(b, TRUE)[i]
    BY <1>3, <1>7, EndsUnique, Zenon
  <2> QED
    BY <1>3, <2>1, <2>2
<1> QED
  BY <1>1, <1>2, <1>8 DEF Closes, b

-----------------------------------------------------------------------------
(* Of any sequences one is no longer than the others.                      *)
LEMMA ShortestOf ==
  ASSUME NEW B \in SUBSET Seq(Nat), B # {}
  PROVE  \E s \in B : \A r \in B : ~(Len(r) < Len(s))
<1> DEFINE L == {Len(s) : s \in B}
<1>1. \A s \in B : Len(s) \in Nat
  BY LenProperties
<1>2. L \in SUBSET Nat /\ L # {}
  BY <1>1
<1>3. PICK m \in L : \A x \in L : m <= x
  <2> HIDE DEF L
  <2> QED
    BY <1>2, LeastNat
<1>4. PICK s \in B : Len(s) = m
  BY <1>3
<1>5. ASSUME NEW r \in B PROVE ~(Len(r) < Len(s))
  <2>1. Len(r) \in L
    OBVIOUS
  <2>2. m <= Len(r) /\ m \in Nat /\ Len(r) \in Nat
    BY <1>1, <1>2, <1>3, <2>1
  <2> QED
    BY <1>4, <2>2
<1> QED
  BY <1>5

(* What stands in front stays there when more comes.                       *)
LEMMA WholeInFront ==
  ASSUME NEW s \in Seq(Nat), NEW t \in Seq(Nat), Whole(s, 1)
  PROVE  /\ s \o t \in Seq(Nat) /\ Whole(s \o t, 1)
         /\ (s \o t)[1] = s[1] /\ (s \o t)[2] = s[2]
         /\ After(s \o t, 1) = After(s, 1)
         /\ Payload(s \o t, 1) = Payload(s, 1)
         /\ SubSeq(s, After(s, 1), Len(s)) \in Seq(Nat)
         /\ Len(SubSeq(s, After(s, 1), Len(s))) < Len(s)
         /\ SubSeq(s \o t, After(s \o t, 1), Len(s \o t)) = SubSeq(s, After(s, 1), Len(s)) \o t
<1> DEFINE u == s \o t
<1>1. /\ u \in Seq(Nat) /\ Len(u) = Len(s) + Len(t) /\ Len(s) \in Nat /\ Len(t) \in Nat
      /\ \A i \in 1..(Len(s) + Len(t)) : u[i] = IF i <= Len(s) THEN s[i] ELSE t[i - Len(s)]
  BY ConcatProperties, LenProperties
<1>0. /\ 1 \in 1..Len(s) /\ s[1] \in Nat /\ s[1 + 1] \in Nat
      /\ After(s, 1) \in 1..(Len(s) + 1) /\ 1 < After(s, 1) /\ After(s, 1) = 1 + 2 + s[1 + 1]
      /\ Payload(s, 1) \in Seq(Nat) /\ Len(Payload(s, 1)) = s[1 + 1]
      /\ \A j \in 1..s[1 + 1] : Payload(s, 1)[j] = s[1 + 1 + j]
  <2>1. 1 \in 1..(Len(s) + 1)
    BY <1>1
  <2> QED
    BY <2>1, WholeFacts
<1>2. PICK k \in Nat, n \in Nat : k = After(s, 1) /\ n = s[2] /\ k = 3 + n
  BY <1>0, <1>1
<1>3. /\ k \in 1..(Len(s) + 1) /\ 1 < k
      /\ Payload(s, 1) \in Seq(Nat) /\ Len(Payload(s, 1)) = n
      /\ \A j \in 1..n : Payload(s, 1)[j] = s[2 + j]
  BY <1>0, <1>2
<1>4. 2 <= Len(s) /\ 2 + n <= Len(s)
  BY <1>2 DEF Whole
<1>5. u[1] = s[1] /\ u[2] = n
  BY <1>1, <1>2, <1>4
<1> HIDE DEF u
<1>6. Whole(u, 1) /\ After(u, 1) = k
  <2>1. Len(u) \in Nat /\ 2 <= Len(u) /\ 2 + n <= Len(u)
    BY <1>1, <1>4, SMTT(60)
  <2>2. Whole(u, 1) = (2 <= Len(u) /\ 2 + u[2] <= Len(u)) /\ After(u, 1) = 3 + u[2]
    BY <1>2, <1>5, SMTT(60) DEF Whole, After
  <2> QED
    BY <1>2, <1>5, <2>1, <2>2
<1>7. Payload(u, 1) = Payload(s, 1)
  <2>1. 1 \in 1..(Len(u) + 1)
    BY <1>1
  <2>2. /\ Payload(u, 1) \in Seq(Nat) /\ Len(Payload(u, 1)) = u[1 + 1]
        /\ \A j \in 1..u[1 + 1] : Payload(u, 1)[j] = u[1 + 1 + j]
    BY <1>1, <1>6, <2>1, WholeFacts
  <2>3. /\ Len(Payload(u, 1)) = n /\ \A j \in 1..n : Payload(u, 1)[j] = u[2 + j]
    BY <1>5, <2>2
  <2>4. \A j \in 1..n : u[2 + j] = s[2 + j]
    <3>1. SUFFICES ASSUME NEW j \in 1..n PROVE u[2 + j] = s[2 + j]
      OBVIOUS
    <3>2. 2 + j \in 1..(Len(s) + Len(t)) /\ 2 + j <= Len(s)
      BY <1>1, <1>4, SMTT(60)
    <3> QED
      BY <1>1, <3>2
  <2>5. \A j \in 1..n : Payload(u, 1)[j] = Payload(s, 1)[j]
    BY <1>3, <2>3, <2>4
  <2> QED
    BY <1>3, <2>2, <2>3, <2>5, SeqEqual
<1>8. PICK r : r = SubSeq(s, k, Len(s)) /\ Cut(s, k, r)
  BY <1>3 DEF Cut
<1>9. PICK v : v = SubSeq(u, k, Len(u)) /\ Cut(u, k, v)
  <2>1. k \in 1..(Len(u) + 1)
    BY <1>1, <1>3
  <2> QED
    BY <1>1, <2>1 DEF Cut
<1>10. /\ r \in Seq(Nat) /\ Len(r) \in Nat /\ Len(r) = Len(s) - k + 1
       /\ \A i \in 1..Len(r) : r[i] = s[i + k - 1]
  <2>1. Cut(s, k, r)
    BY <1>8
  <2> QED
    BY <2>1, Suffix, SMTT(60)
<1>11. /\ v \in Seq(Nat) /\ Len(v) \in Nat /\ Len(v) = Len(u) - k + 1
       /\ \A i \in 1..Len(v) : v[i] = u[i + k - 1]
  <2>1. Cut(u, k, v)
    BY <1>9
  <2> QED
    BY <2>1, Suffix, SMTT(60)
<1>12. /\ r \o t \in Seq(Nat) /\ Len(r \o t) = Len(r) + Len(t)
       /\ \A i \in 1..(Len(r) + Len(t)) : (r \o t)[i] = IF i <= Len(r) THEN r[i] ELSE t[i - Len(r)]
  BY <1>10, ConcatProperties
<1>13. Len(r \o t) = Len(v)
  BY <1>1, <1>3, <1>10, <1>11, <1>12
<1>14. ASSUME NEW i \in 1..Len(v) PROVE v[i] = (r \o t)[i]
  <2>1. /\ i \in Nat /\ i + k - 1 \in 1..(Len(s) + Len(t)) /\ i \in 1..(Len(r) + Len(t))
        /\ v[i] = u[i + k - 1]
    <3>1. i \in 1..(Len(r) + Len(t))
      BY <1>12, <1>13
    <3> QED
      BY <1>1, <1>3, <1>10, <1>11, <3>1
  <2>2. CASE i <= Len(r)
    <3>1. i + k - 1 <= Len(s) /\ i \in 1..Len(r)
      BY <1>3, <1>10, <2>1, <2>2
    <3>2. u[i + k - 1] = s[i + k - 1]
      BY <1>1, <2>1, <3>1
    <3>3. (r \o t)[i] = r[i] /\ r[i] = s[i + k - 1]
      BY <1>10, <1>12, <2>1, <2>2, <3>1
    <3> QED
      BY <2>1, <3>2, <3>3
  <2>3. CASE ~(i <= Len(r))
    <3>1. ~(i + k - 1 <= Len(s)) /\ (i + k - 1) - Len(s) = i - Len(r)
      BY <1>1, <1>3, <1>10, <2>1, <2>3
    <3>2. u[i + k - 1] = t[(i + k - 1) - Len(s)]
      BY <1>1, <2>1, <3>1
    <3>3. (r \o t)[i] = t[i - Len(r)]
      BY <1>12, <2>1, <2>3
    <3> QED
      BY <2>1, <3>1, <3>2, <3>3
  <2> QED
    BY <2>2, <2>3
<1>15. v = r \o t
  BY <1>11, <1>12, <1>13, <1>14, SeqEqual
<1>16. Len(r) < Len(s)
  BY <1>1, <1>3, <1>10
<1> QED
  BY <1>1, <1>2, <1>5, <1>6, <1>7, <1>8, <1>9, <1>10, <1>15, <1>16 DEF u

(* The bytes of a whole number of frames: what is in them does not depend  *)
(* on what follows.  And capsules that hide no close capsule behind them.  *)
Splits(h) == \A t \in Seq(Nat) : Contents(h \o t) = Contents(h) \o Contents(t)
Skips(c) == \A e \in BOOLEAN : \A x \in Seq(Nat) : Closes(x, e) => Closes(c \o x, e)

(* One whole frame, or one whole capsule, leaves the rest to the rest.     *)
LEMMA OfOneFrame ==
  ASSUME NEW s \in Seq(Nat), NEW t \in Seq(Nat), Whole(s, 1)
  PROVE  /\ Part(s \o t, 1) = Part(s, 1) /\ Part(s, 1) \in Seq(Nat)
         /\ Contents(s \o t) = Part(s, 1) \o Contents(SubSeq(s, After(s, 1), Len(s)) \o t)
         /\ \A e \in BOOLEAN : Closes(s \o t, e)
              <=> IsClose(s, 1, e) \/ Closes(SubSeq(s, After(s, 1), Len(s)) \o t, e)
<1> DEFINE u == s \o t
           r == SubSeq(s, After(s, 1), Len(s))
<1>1. /\ u \in Seq(Nat) /\ Whole(u, 1) /\ u[1] = s[1] /\ u[2] = s[2]
      /\ After(u, 1) = After(s, 1) /\ Payload(u, 1) = Payload(s, 1)
      /\ SubSeq(u, After(u, 1), Len(u)) = r \o t
  BY WholeInFront
<1>2. Part(u, 1) = Part(s, 1) /\ Part(s, 1) \in Seq(Nat)
  BY <1>1, ContentsUnfold DEF Part
<1> HIDE DEF u, r
<1>3. Contents(u) = Part(u, 1) \o Contents(SubSeq(u, After(u, 1), Len(u)))
  BY <1>1, ContentsUnfold
<1>4. \A e \in BOOLEAN :
        Closes(u, e) <=> IsClose(u, 1, e) \/ Closes(SubSeq(u, After(u, 1), Len(u)), e)
  BY <1>1, ClosesUnfold, SMTT(60)
<1>5. \A e : IsClose(u, 1, e) = IsClose(s, 1, e)
  BY <1>1 DEF IsClose
<1> QED
  BY <1>1, <1>2, <1>3, <1>4, <1>5 DEF u, r

(* Three sequences put end to end, grouped either way.                     *)
Regroups(a, b, c) == (a \o b) \o c = a \o (b \o c)

LEMMA Regrouped ==
  ASSUME NEW a \in Seq(Nat), NEW b \in Seq(Nat), NEW c \in Seq(Nat)
  PROVE  Regroups(a, b, c)
BY DEF Regroups

(* Whole frames put end to end are whole frames, and so with capsules.     *)
LEMMA SplitsBoth ==
  ASSUME NEW g \in Seq(Nat), NEW h \in Seq(Nat), Splits(g), Splits(h)
  PROVE  Splits(g \o h) /\ Contents(g \o h) = Contents(g) \o Contents(h)
<1>1. Contents(g \o h) = Contents(g) \o Contents(h)
  BY DEF Splits
<1>2. ASSUME NEW t \in Seq(Nat)
      PROVE  Contents((g \o h) \o t) = Contents(g \o h) \o Contents(t)
  <2>1. (g \o h) \o t = g \o (h \o t) /\ h \o t \in Seq(Nat)
    OBVIOUS
  <2>2. Contents(g \o (h \o t)) = Contents(g) \o (Contents(h) \o Contents(t))
    BY <2>1 DEF Splits
  <2>3. Contents(g) \in Seq(Nat) /\ Contents(h) \in Seq(Nat) /\ Contents(t) \in Seq(Nat)
    BY ContentsUnfold
  <2>4. Contents(g) \o (Contents(h) \o Contents(t)) = (Contents(g) \o Contents(h)) \o Contents(t)
    <3>1. Regroups(Contents(g), Contents(h), Contents(t))
      BY <2>3, Regrouped
    <3> QED
      BY <3>1 DEF Regroups
  <2> QED
    BY <1>1, <2>1, <2>2, <2>4
<1> QED
  BY <1>1, <1>2 DEF Splits

LEMMA SkipsBoth ==
  ASSUME NEW c \in Seq(Nat), NEW d \in Seq(Nat), Skips(c), Skips(d)
  PROVE  Skips(c \o d)
<1>1. SUFFICES ASSUME NEW e \in BOOLEAN, NEW x \in Seq(Nat), Closes(x, e)
               PROVE  Closes((c \o d) \o x, e)
  BY DEF Skips
<1>2. d \o x \in Seq(Nat) /\ (c \o d) \o x = c \o (d \o x)
  OBVIOUS
<1> QED
  BY <1>1, <1>2 DEF Skips

LEMMA NoBytes ==
  /\ <<>> \in Seq(Nat) /\ Contents(<<>>) = <<>> /\ Splits(<<>>) /\ Skips(<<>>)
<1>1. <<>> \in Seq(Nat) /\ Len(<<>>) = 0
  OBVIOUS
<1>2. ~Whole(<<>>, 1)
  BY <1>1 DEF Whole
<1>3. Contents(<<>>) = <<>>
  BY <1>1, <1>2, ContentsUnfold
<1>4. \A t \in Seq(Nat) : <<>> \o t = t
  BY ConcatEmptySeq
<1>5. \A t \in Seq(Nat) : <<>> \o Contents(t) = Contents(t)
  BY <1>4, ContentsUnfold
<1> QED
  BY <1>1, <1>3, <1>4, <1>5 DEF Splits, Skips

(* A frame, or a capsule, in front of the rest.                            *)
LEMMA OneOff ==
  ASSUME NEW s \in Seq(Nat), Whole(s, 1)
  PROVE  \E g \in Seq(Nat) :
           /\ s = g \o SubSeq(s, After(s, 1), Len(s))
           /\ Splits(g) /\ Skips(g) /\ Contents(g) = Part(s, 1)
<1>1. PICK k \in Int : k = After(s, 1)
  <2>1. After(s, 1) \in 1..(Len(s) + 1)
    BY ContentsUnfold
  <2> QED
    BY <2>1
<1>2. Len(s) \in Nat /\ k \in 1..(Len(s) + 1) /\ 1 < k /\ s[2] \in Nat /\ k = 3 + s[2]
  <2>1. Len(s) \in Nat /\ 1 \in 1..(Len(s) + 1)
    <3>1. Len(s) \in Nat
      BY LenProperties
    <3> QED
      BY <3>1
  <2>2. /\ After(s, 1) \in 1..(Len(s) + 1) /\ 1 < After(s, 1)
        /\ After(s, 1) = 1 + 2 + s[1 + 1] /\ s[1 + 1] \in Nat
    BY <2>1, WholeFacts
  <2> QED
    BY <1>1, <2>1, <2>2
<1> DEFINE g == SubSeq(s, 1, k - 1)
           r == SubSeq(s, k, Len(s))
<1>3. /\ g \in Seq(Nat) /\ Len(g) = k - 1 /\ \A i \in 1..(k - 1) : g[i] = s[i]
  <2>1. PICK m \in Nat : m = k - 1 /\ m <= Len(s) /\ 1 <= m
    BY <1>2
  <2>2. \A i \in 1..m : s[i] \in Nat
    BY <1>2, <2>1, ElementOfSeq, SMTT(60)
  <2>3. /\ SubSeq(s, 1, m) \in Seq(Nat)
        /\ Len(SubSeq(s, 1, m)) = IF 1 <= m THEN m - 1 + 1 ELSE 0
        /\ \A i \in 1..(m - 1 + 1) : SubSeq(s, 1, m)[i] = s[1 + i - 1]
    BY <2>2, SubSeqProperties
  <2>4. ASSUME NEW i \in 1..m PROVE SubSeq(s, 1, m)[i] = s[i]
    <3>1. i \in 1..(m - 1 + 1) /\ 1 + i - 1 = i
      BY <2>1
    <3> QED
      BY <2>3, <3>1
  <2>5. Len(SubSeq(s, 1, m)) = m
    BY <2>1, <2>3
  <2> QED
    BY <2>1, <2>3, <2>4, <2>5
<1>4. s = g \o r
  <2>1. PICK m \in Int : m = k - 1 /\ m + 1 = k
    BY <1>2
  <2>2. 1 \in 1..(Len(s) + 1) /\ m \in (1 - 1)..Len(s) /\ Len(s) \in m..Len(s)
    BY <1>2, <2>1, SMTT(60)
  <2>3. SubSeq(s, 1, m) \o SubSeq(s, m + 1, Len(s)) = SubSeq(s, 1, Len(s))
    BY <2>2, ConcatAdjacentSubSeq
  <2>4. SubSeq(s, 1, Len(s)) = s
    BY SubSeqFull
  <2> QED
    BY <2>1, <2>3, <2>4, Zenon
<1> HIDE DEF g, r
<1>5. g[1] = s[1] /\ g[2] = s[2]
  BY <1>2, <1>3, SMTT(60)
<1>6. Whole(g, 1) /\ After(g, 1) = k
  <2>1. 2 <= Len(g) /\ 2 + s[2] <= Len(g)
    BY <1>2, <1>3, SMTT(60)
  <2>2. Whole(g, 1) = (2 <= Len(g) /\ 2 + g[2] <= Len(g)) /\ After(g, 1) = 3 + g[2]
    BY <1>2, <1>5 DEF Whole, After
  <2> QED
    BY <1>2, <1>5, <2>1, <2>2
<1>7. SubSeq(g, After(g, 1), Len(g)) = <<>>
  <2>1. Len(g) \in Int /\ Len(g) < k
    BY <1>2, <1>3
  <2> QED
    BY <1>6, <2>1, SubSeqEmpty
<1>8. ASSUME NEW t \in Seq(Nat)
      PROVE  /\ Part(g \o t, 1) = Part(g, 1) /\ Part(g, 1) \in Seq(Nat)
             /\ Contents(g \o t) = Part(g, 1) \o Contents(t)
             /\ \A e \in BOOLEAN : Closes(t, e) => Closes(g \o t, e)
  <2>1. <<>> \o t = t
    BY ConcatEmptySeq
  <2>2. /\ Part(g \o t, 1) = Part(g, 1) /\ Part(g, 1) \in Seq(Nat)
        /\ Contents(g \o t) = Part(g, 1) \o Contents(SubSeq(g, After(g, 1), Len(g)) \o t)
        /\ \A e \in BOOLEAN : Closes(g \o t, e)
             <=> IsClose(g, 1, e) \/ Closes(SubSeq(g, After(g, 1), Len(g)) \o t, e)
    BY <1>3, <1>6, OfOneFrame
  <2> QED
    BY <1>7, <2>1, <2>2
<1>9. Contents(g) = Part(g, 1)
  <2>1. g \o <<>> = g /\ Contents(g \o <<>>) = Part(g, 1) \o <<>>
    BY <1>3, <1>8, NoBytes, ConcatEmptySeq
  <2>2. Part(g, 1) \o <<>> = Part(g, 1)
    BY <1>8, NoBytes, ConcatEmptySeq
  <2> QED
    BY <2>1, <2>2
<1>10. Splits(g) /\ Skips(g)
  BY <1>8, <1>9 DEF Splits, Skips
<1>11. Part(g, 1) = Part(s, 1)
  <2>1. r \in Seq(Nat)
    BY <1>1, NoBytes, WholeInFront DEF r
  <2> QED
    BY <1>4, <1>8, <2>1
<1> QED
  BY <1>1, <1>3, <1>4, <1>9, <1>10, <1>11 DEF r

-----------------------------------------------------------------------------
(* Contents never take more than the bytes that carried them.              *)
LEMMA ContentsShort ==
  ASSUME NEW s \in Seq(Nat)
  PROVE  Len(Contents(s)) <= Len(s)
<1> DEFINE B == {r \in Seq(Nat) : ~(Len(Contents(r)) <= Len(r))}
<1>1. SUFFICES ASSUME B # {} PROVE FALSE
  BY <1>1
<1>2. PICK r \in B : \A q \in B : ~(Len(q) < Len(r))
  <2>1. B \in SUBSET Seq(Nat)
    OBVIOUS
  <2> HIDE DEF B
  <2> QED
    BY <1>1, <2>1, ShortestOf
<1>3. r \in Seq(Nat) /\ ~(Len(Contents(r)) <= Len(r)) /\ Len(r) \in Nat
  BY <1>2, LenProperties
<1>4. CASE ~Whole(r, 1)
  <2>1. Len(Contents(r)) = 0
    BY <1>3, <1>4, ContentsUnfold, EmptySeq
  <2> QED
    BY <1>3, <2>1
<1>5. CASE Whole(r, 1)
  <2>1. PICK k \in Nat, n \in Nat : k = After(r, 1) /\ k = 3 + n /\ n = Len(Payload(r, 1))
                                  /\ k \in 1..(Len(r) + 1)
    <3>1. 1 \in 1..(Len(r) + 1)
      BY <1>3
    <3>2. /\ After(r, 1) \in 1..(Len(r) + 1) /\ After(r, 1) = 1 + 2 + r[1 + 1]
          /\ r[1 + 1] \in Nat /\ Len(Payload(r, 1)) = r[1 + 1]
      BY <1>3, <1>5, <3>1, WholeFacts
    <3> QED
      BY <1>3, <3>2
  <2>2. PICK q : q = SubSeq(r, k, Len(r)) /\ Cut(r, k, q)
    BY <1>3, <2>1 DEF Cut
  <2>3. q \in Seq(Nat) /\ Len(q) \in Nat
    <3>1. q \in Seq(Nat)
      BY <1>3, <1>5, <2>1, <2>2, NoBytes, WholeInFront
    <3> QED
      BY <3>1, LenProperties
  <2>4. Len(q) = Len(r) - k + 1
    BY <2>2, Suffix, SMTT(30)
  <2>5. Len(Contents(q)) <= Len(q)
    <3>1. q \notin B
      <4>1. Len(q) < Len(r)
        BY <1>3, <2>1, <2>3, <2>4
      <4> HIDE DEF B
      <4> QED
        BY <1>2, <4>1
    <3> QED
      BY <2>3, <3>1
  <2>6. Part(r, 1) \in Seq(Nat) /\ Len(Part(r, 1)) <= n /\ Len(Part(r, 1)) \in Nat
    <3>1. Part(r, 1) \in Seq(Nat)
      BY <1>3, <1>5, ContentsUnfold
    <3>2. Len(Part(r, 1)) = n \/ Len(Part(r, 1)) = 0
      BY <2>1, EmptySeq DEF Part
    <3> QED
      BY <2>1, <3>1, <3>2
  <2>7. Contents(r) = Part(r, 1) \o Contents(q) /\ Contents(q) \in Seq(Nat)
    BY <1>3, <1>5, <2>1, <2>2, <2>3, ContentsUnfold
  <2>8. Len(Contents(r)) = Len(Part(r, 1)) + Len(Contents(q)) /\ Len(Contents(q)) \in Nat
    BY <2>6, <2>7
  <2> QED
    BY <1>3, <2>1, <2>3, <2>4, <2>5, <2>6, <2>8
<1> QED
  BY <1>4, <1>5

(* More bytes have more contents, and contents that close go on closing.   *)
LEMMA ContentsGrow ==
  ASSUME NEW s \in Seq(Nat), NEW t \in Seq(Nat)
  PROVE  \E z \in Seq(Nat) : Contents(s \o t) = Contents(s) \o z
<1> DEFINE Goal(r) == \E z \in Seq(Nat) : Contents(r \o t) = Contents(r) \o z
           B == {r \in Seq(Nat) : ~Goal(r)}
<1>1. SUFFICES ASSUME B # {} PROVE FALSE
  BY <1>1
<1>2. PICK r \in B : \A q \in B : ~(Len(q) < Len(r))
  <2>1. B \in SUBSET Seq(Nat)
    OBVIOUS
  <2> HIDE DEF B
  <2> QED
    BY <1>1, <2>1, ShortestOf
<1>3. r \in Seq(Nat) /\ ~Goal(r)
  BY <1>2
<1>4. CASE ~Whole(r, 1)
  <2>1. Contents(r) = <<>>
    BY <1>3, <1>4, ContentsUnfold
  <2>2. Contents(r \o t) \in Seq(Nat)
    <3>1. r \o t \in Seq(Nat)
      BY <1>3
    <3> QED
      BY <3>1, ContentsUnfold
  <2>3. <<>> \o Contents(r \o t) = Contents(r \o t)
    BY <2>2, ConcatEmptySeq
  <2> QED
    BY <1>3, <2>1, <2>2, <2>3
<1>5. CASE Whole(r, 1)
  <2> DEFINE q == SubSeq(r, After(r, 1), Len(r))
  <2>1. q \in Seq(Nat) /\ Len(q) < Len(r)
    BY <1>3, <1>5, WholeInFront
  <2>2. Goal(q)
    <3>1. q \notin B
      <4> HIDE DEF B, q
      <4> QED
        BY <1>2, <2>1
    <3> HIDE DEF q
    <3> QED
      BY <2>1, <3>1
  <2> HIDE DEF q
  <2>3. PICK z \in Seq(Nat) : Contents(q \o t) = Contents(q) \o z
    BY <2>2
  <2>4. /\ Contents(r \o t) = Part(r, 1) \o Contents(q \o t)
        /\ Contents(r) = Part(r, 1) \o Contents(q) /\ Part(r, 1) \in Seq(Nat)
    BY <1>3, <1>5, OfOneFrame, ContentsUnfold DEF q
  <2>5. Contents(q) \in Seq(Nat)
    BY <2>1, ContentsUnfold
  <2>6. Part(r, 1) \o (Contents(q) \o z) = (Part(r, 1) \o Contents(q)) \o z
    <3>1. PICK a \in Seq(Nat), b \in Seq(Nat) : a = Part(r, 1) /\ b = Contents(q)
      BY <2>4, <2>5
    <3>2. (a \o b) \o z = a \o (b \o z)
      BY SMTT(60)
    <3> QED
      BY <3>1, <3>2
  <2> QED
    BY <1>3, <2>3, <2>4, <2>6
<1> QED
  BY <1>4, <1>5

LEMMA ClosesGrow ==
  ASSUME NEW e \in BOOLEAN, NEW s \in Seq(Nat), NEW t \in Seq(Nat), Closes(s, e)
  PROVE  Closes(s \o t, e)
<1> DEFINE B == {r \in Seq(Nat) : Closes(r, e) /\ ~Closes(r \o t, e)}
<1>1. SUFFICES ASSUME B # {} PROVE FALSE
  BY <1>1
<1>2. PICK r \in B : \A q \in B : ~(Len(q) < Len(r))
  <2>1. B \in SUBSET Seq(Nat)
    OBVIOUS
  <2> HIDE DEF B
  <2> QED
    BY <1>1, <2>1, ShortestOf
<1>3. r \in Seq(Nat) /\ Closes(r, e) /\ ~Closes(r \o t, e)
  BY <1>2
<1>4. Whole(r, 1)
  BY <1>3, ClosesUnfold
<1> DEFINE q == SubSeq(r, After(r, 1), Len(r))
<1>5. q \in Seq(Nat) /\ Len(q) < Len(r)
  BY <1>3, <1>4, WholeInFront
<1>6. /\ Closes(r, e) <=> IsClose(r, 1, e) \/ Closes(q, e)
      /\ Closes(r \o t, e) <=> IsClose(r, 1, e) \/ Closes(q \o t, e)
  BY <1>3, <1>4, OfOneFrame, ClosesUnfold
<1> HIDE DEF q
<1>7. q \in B
  BY <1>3, <1>5, <1>6
<1> QED
  <2> HIDE DEF B
  <2> QED
    BY <1>2, <1>5, <1>7

-----------------------------------------------------------------------------
(* Where the last whole frame ends, from every place on, as Demux does.    *)
StopFrom(s, f) ==
  [i \in 1..(Len(s) + 1) |-> IF Whole(s, i) THEN f[After(s, i)] ELSE i]
StopOf(s) == CHOOSE f : f = StopFrom(s, f)

(* What is left of what is left.                                           *)
LEMMA CutAgain ==
  ASSUME NEW s, NEW i, NEW t, Cut(s, i, t)
  PROVE  \A a \in 1..(Len(t) + 1) : SubSeq(t, a, Len(t)) = SubSeq(s, a + i - 1, Len(s))
<1> SUFFICES ASSUME NEW a \in 1..(Len(t) + 1)
             PROVE  SubSeq(t, a, Len(t)) = SubSeq(s, a + i - 1, Len(s))
  OBVIOUS
<1>0. s \in Seq(Nat) /\ i \in 1..(Len(s) + 1)
  BY DEF Cut
<1>1. /\ t \in Seq(Nat) /\ Len(t) \in Nat /\ Len(s) \in Nat /\ Len(t) = Len(s) - i + 1
      /\ \A j \in 1..Len(t) : t[j] = s[j + i - 1]
  BY Suffix, SMTT(60)
<1>2. PICK k : k = a + i - 1 /\ k \in 1..(Len(s) + 1)
  BY <1>0, <1>1
<1>3. PICK b, u : b = a /\ u = SubSeq(t, b, Len(t)) /\ Cut(t, b, u)
  BY <1>1 DEF Cut
<1>4. PICK v : v = SubSeq(s, k, Len(s)) /\ Cut(s, k, v)
  BY <1>0, <1>2 DEF Cut
<1>5. /\ u \in Seq(Nat) /\ Len(u) \in Nat /\ Len(t) \in Nat /\ Len(u) = Len(t) - b + 1
      /\ \A j \in 1..Len(u) : u[j] = t[j + b - 1]
  <2>1. Cut(t, b, u)
    BY <1>3
  <2> QED
    BY <2>1, Suffix, SMTT(60)
<1>6. /\ v \in Seq(Nat) /\ Len(v) \in Nat /\ Len(s) \in Nat /\ Len(v) = Len(s) - k + 1
      /\ \A j \in 1..Len(v) : v[j] = s[j + k - 1]
  <2>1. Cut(s, k, v)
    BY <1>4
  <2> QED
    BY <2>1, Suffix, SMTT(60)
<1>7. Len(u) = Len(v)
  BY <1>0, <1>1, <1>2, <1>3, <1>5, <1>6
<1>8. ASSUME NEW j \in 1..Len(u) PROVE u[j] = v[j]
  <2>1. j + a - 1 \in 1..Len(t) /\ (j + a - 1) + i - 1 = j + k - 1 /\ j \in 1..Len(v)
    <3>1. j \in 1..Len(v) /\ j \in Nat /\ a \in Nat /\ i \in Nat /\ 1 <= a /\ j <= Len(t) - a + 1
      BY <1>0, <1>1, <1>3, <1>5, <1>7
    <3>2. j + a - 1 \in 1..Len(t)
      BY <1>1, <1>5, <3>1
    <3>3. (j + a - 1) + i - 1 = j + k - 1
      BY <1>2, <3>1
    <3> QED
      BY <3>1, <3>2, <3>3
  <2>2. t[j + a - 1] = s[(j + a - 1) + i - 1]
    BY <1>1, <2>1
  <2>3. u[j] = t[j + a - 1] /\ v[j] = s[j + k - 1]
    BY <1>3, <1>5, <1>6, <2>1
  <2> QED
    BY <2>1, <2>2, <2>3
<1>9. u = v
  BY <1>5, <1>6, <1>7, <1>8, SeqEqual
<1> QED
  BY <1>2, <1>3, <1>4, <1>9

(* Before that, whole frames; after it, none.                              *)
LEMMA StopSplits ==
  ASSUME NEW s \in Seq(Nat)
  PROVE  \A i \in 1..(Len(s) + 1) :
           /\ StopOf(s)[i] \in 1..(Len(s) + 1) /\ ~Whole(s, StopOf(s)[i])
           /\ \E h \in Seq(Nat) : /\ Splits(h)
                                  /\ SubSeq(s, i, Len(s)) = h \o SubSeq(s, StopOf(s)[i], Len(s))
<1> DEFINE D == 1..(Len(s) + 1)
           W == {i \in D : Whole(s, i)}
           nx == [i \in W |-> After(s, i)]
           rank == [i \in D |-> (Len(s) + 1) - i]
           base == [i \in D |-> i]
           step == [i \in W |-> [v \in D |-> v]]
<1>1. Len(s) \in Nat
  BY LenProperties
<1>2. \A i \in W : After(s, i) \in D /\ i < After(s, i)
  BY WholeFacts
<1>3. nx \in [W -> D] /\ W \subseteq D /\ rank \in [D -> 0..Len(s)]
  BY <1>1, <1>2
<1>4. \A i \in W : rank[nx[i]] < rank[i]
  <2>1. SUFFICES ASSUME NEW i \in W PROVE rank[nx[i]] < rank[i]
    OBVIOUS
  <2>2. nx[i] = After(s, i) /\ i \in D /\ After(s, i) \in D /\ i < After(s, i)
    BY <1>2
  <2>3. rank[After(s, i)] = (Len(s) + 1) - After(s, i) /\ rank[i] = (Len(s) + 1) - i
    BY <2>2
  <2> QED
    BY <1>1, <2>2, <2>3
<1>5. Falls(Len(s), D, W, nx, rank)
  <2> HIDE DEF D, W, nx, rank
  <2> QED
    BY <1>1, <1>3, <1>4 DEF Falls
<1>6. Computes(D, D, W, base, step)
  BY DEF Computes
<1>7. PICK f \in [D -> D] :
        \A i \in D : f[i] = IF i \in W THEN step[i][f[nx[i]]] ELSE base[i]
  <2> HIDE DEF D, W, nx, rank, base, step
  <2> QED
    BY <1>5, <1>6, Recursion
<1>8. f = StopFrom(s, f)
  <2>1. ASSUME NEW i \in D PROVE f[i] = StopFrom(s, f)[i]
    <3>1. CASE i \in W
      <4>1. f[nx[i]] \in D /\ nx[i] = After(s, i)
        BY <1>3, <3>1
      <4>2. step[i][f[nx[i]]] = f[nx[i]]
        BY <3>1, <4>1
      <4>3. Whole(s, i)
        BY <3>1
      <4> QED
        BY <1>7, <3>1, <4>1, <4>2, <4>3 DEF StopFrom
    <3>2. CASE i \notin W
      BY <1>7, <3>2 DEF StopFrom
    <3> QED
      BY <3>1, <3>2
  <2> QED
    BY <2>1 DEF StopFrom
<1>9. StopOf(s) = StopFrom(s, StopOf(s))
  BY <1>8 DEF StopOf
<1> DEFINE g == StopOf(s)
           Goal(i) == /\ g[i] \in D /\ ~Whole(s, g[i])
                      /\ \E h \in Seq(Nat) : /\ Splits(h)
                                             /\ SubSeq(s, i, Len(s)) = h \o SubSeq(s, g[i], Len(s))
           all == [i \in D |-> TRUE]
           good == [i \in D |-> Goal(i)]
<1>10. ASSUME NEW i \in D PROVE g[i] = IF Whole(s, i) THEN g[After(s, i)] ELSE i
  <2>1. \A u : StopFrom(s, u)[i] = IF Whole(s, i) THEN u[After(s, i)] ELSE i
    BY DEF StopFrom
  <2> QED
    BY <1>9, <2>1, Zenon
<1> HIDE DEF g
<1>11. ASSUME NEW i \in D, i \in W => Goal(nx[i]) PROVE Goal(i)
  <2>1. CASE ~Whole(s, i)
    <3>1. g[i] = i
      BY <1>10, <2>1
    <3>2. PICK t : t = SubSeq(s, i, Len(s)) /\ Cut(s, i, t)
      BY DEF Cut
    <3>3. t \in Seq(Nat)
      BY <3>2, Suffix
    <3>4. <<>> \o t = t
      BY <3>3, ConcatEmptySeq
    <3> QED
      BY <2>1, <3>1, <3>2, <3>4, NoBytes
  <2>2. CASE Whole(s, i)
    <3>1. PICK k \in D : k = After(s, i) /\ g[i] = g[k] /\ Goal(k)
      BY <1>2, <1>10, <1>11, <2>2
    <3>2. PICK t : t = SubSeq(s, i, Len(s)) /\ Cut(s, i, t)
      BY DEF Cut
    <3>3. t \in Seq(Nat) /\ Len(t) \in Nat /\ 1 \in 1..(Len(t) + 1)
      <4>1. t \in Seq(Nat) /\ Len(t) \in Nat
        BY <3>2, Suffix
      <4> QED
        BY <4>1
    <3>4. Whole(t, 1) /\ k = After(t, 1) + i - 1
      <4>1. 1 + i - 1 = i
        OBVIOUS
      <4>2. /\ Whole(t, 1) <=> Whole(s, 1 + i - 1)
            /\ Whole(t, 1) => After(s, 1 + i - 1) = After(t, 1) + i - 1
        <5>1. Cut(s, i, t)
          BY <3>2
        <5> QED
          BY <3>3, <5>1, WholeInSuffix
      <4> QED
        BY <2>2, <3>1, <4>1, <4>2
    <3>5. PICK a \in Seq(Nat) : t = a \o SubSeq(t, After(t, 1), Len(t)) /\ Splits(a)
      BY <3>3, <3>4, OneOff
    <3>6. SubSeq(t, After(t, 1), Len(t)) = SubSeq(s, k, Len(s))
      <4>1. After(t, 1) \in 1..(Len(t) + 1)
        BY <3>3, <3>4, ContentsUnfold
      <4>2. Cut(s, i, t)
        BY <3>2
      <4>3. SubSeq(t, After(t, 1), Len(t)) = SubSeq(s, After(t, 1) + i - 1, Len(s))
        BY <4>1, <4>2, CutAgain
      <4> QED
        BY <3>4, <4>3
    <3>7. PICK h \in Seq(Nat) : Splits(h) /\ SubSeq(s, k, Len(s)) = h \o SubSeq(s, g[k], Len(s))
      BY <3>1
    <3>8. PICK r \in Seq(Nat) : r = SubSeq(s, g[k], Len(s))
      <4>1. PICK r : r = SubSeq(s, g[k], Len(s)) /\ Cut(s, g[k], r)
        BY <3>1 DEF Cut
      <4>2. r \in Seq(Nat)
        BY <4>1, Suffix
      <4> QED
        BY <4>1, <4>2
    <3>9. t = (a \o h) \o r
      <4>1. (a \o h) \o r = a \o (h \o r)
        BY SMTT(60)
      <4> QED
        BY <3>5, <3>6, <3>7, <3>8, <4>1
    <3>10. a \o h \in Seq(Nat) /\ Splits(a \o h)
      BY <3>5, <3>7, SplitsBoth
    <3> QED
      BY <3>1, <3>2, <3>8, <3>9, <3>10
  <2> QED
    BY <2>1, <2>2
<1>12. ASSUME NEW i \in D, i \in W => good[nx[i]] = all[nx[i]] PROVE good[i] = all[i]
  <2>1. i \in W => nx[i] \in D
    BY <1>3
  <2> HIDE DEF Goal, D, W, nx
  <2>2. good[i] = Goal(i) /\ all[i] = TRUE /\ (i \in W => good[nx[i]] = Goal(nx[i]) /\ all[nx[i]])
    BY <2>1
  <2>3. i \in W => Goal(nx[i])
    BY <1>12, <2>2
  <2> QED
    BY <1>11, <2>2, <2>3
<1>13. \A i \in D : good[i] = all[i]
  <2> HIDE DEF D, W, nx, rank, good, all
  <2> QED
    BY <1>5, <1>12, Agreement
<1>14. \A i \in D : Goal(i)
  <2> HIDE DEF Goal, D
  <2> QED
    BY <1>13
<1> QED
  BY <1>14 DEF g

(* Demux takes off all whole frames, and keeps what was in them.           *)
Buffered == [frames : Seq(Nat), body : Seq(Nat)]

(* Capsules::demux takes off the whole frames and appends their DATA.      *)
LEMMA Demuxed ==
  ASSUME NEW c \in Buffered
  PROVE  /\ Demux(c) \in Buffered /\ Contents(Demux(c).frames) = <<>>
         /\ \E h \in Seq(Nat) : /\ Splits(h) /\ c.frames = h \o Demux(c).frames
                                /\ Demux(c).body = c.body \o Contents(h)
<1> DEFINE s == c.frames
           k == StopOf(s)[1]
           r == SubSeq(s, k, Len(s))
<1>1. Demux(c) = [frames |-> r, body |-> c.body \o Contents(s)]
  BY Zenon DEF Demux, StopOf, StopFrom, Contents
<1>2. s \in Seq(Nat) /\ c.body \in Seq(Nat) /\ Len(s) \in Nat /\ 1 \in 1..(Len(s) + 1)
  <2>1. s \in Seq(Nat) /\ c.body \in Seq(Nat)
    BY DEF Buffered
  <2> HIDE DEF s
  <2>2. Len(s) \in Nat
    BY <2>1, LenProperties
  <2> QED
    BY <2>1, <2>2
<1> HIDE DEF s
<1>3. /\ k \in 1..(Len(s) + 1) /\ ~Whole(s, k)
      /\ \E h \in Seq(Nat) : Splits(h) /\ SubSeq(s, 1, Len(s)) = h \o r
  BY <1>2, StopSplits
<1> HIDE DEF k
<1>4. PICK h \in Seq(Nat) : Splits(h) /\ s = h \o r
  BY <1>2, <1>3, SubSeqFull
<1>5. Cut(s, k, r)
  BY <1>2, <1>3 DEF Cut
<1> HIDE DEF r
<1>6. r \in Seq(Nat) /\ Len(r) \in Nat
  BY <1>5, Suffix, SMTT(60)
<1>7. ~Whole(r, 1)
  <2>1. 1 \in 1..(Len(r) + 1)
    BY <1>6
  <2>2. Whole(r, 1) <=> Whole(s, 1 + k - 1)
    BY <1>5, <2>1, WholeInSuffix
  <2>3. 1 + k - 1 = k
    BY <1>2, <1>3
  <2> QED
    BY <1>3, <2>2, <2>3
<1>8. Contents(r) = <<>>
  BY <1>6, <1>7, ContentsUnfold
<1>9. Contents(s) = Contents(h) /\ Contents(h) \in Seq(Nat)
  <2>1. Contents(h \o r) = Contents(h) \o <<>>
    BY <1>4, <1>6, <1>8 DEF Splits
  <2>2. Contents(h) \in Seq(Nat)
    BY ContentsUnfold
  <2>3. Contents(h) \o <<>> = Contents(h)
    BY <2>2, ConcatEmptySeq
  <2> QED
    BY <1>4, <2>1, <2>2, <2>3
<1>10. c.body \o Contents(h) \in Seq(Nat)
  BY <1>2, <1>9
<1>11. Demux(c) \in Buffered
  BY <1>1, <1>6, <1>9, <1>10 DEF Buffered
<1>12. Demux(c).frames = r /\ Demux(c).body = c.body \o Contents(h) /\ c.frames = s
  BY <1>1, <1>9 DEF s
<1>13. c.frames = h \o Demux(c).frames /\ Contents(Demux(c).frames) = <<>>
  BY <1>4, <1>8, <1>12
<1> QED
  BY <1>4, <1>11, <1>12, <1>13

(* What the buffers hold of the bytes that were read: these are whole      *)
(* frames and what is left of the last; the frames held capsules that did  *)
(* not close and what is left of the last.                                 *)
Parsed(bytes, c) ==
  /\ c \in Buffered
  /\ \E h \in Seq(Nat), x \in Seq(Nat) :
       /\ bytes = h \o c.frames /\ Splits(h)
       /\ Contents(h) = x \o c.body /\ Skips(x)

LEMMA ParsedBytes ==
  ASSUME NEW bytes, NEW c, Parsed(bytes, c)
  PROVE  bytes \in Seq(Nat) /\ Len(c.frames) <= Len(bytes) /\ Len(c.frames) \in Nat
<1>1. PICK h \in Seq(Nat) : bytes = h \o c.frames
  BY DEF Parsed
<1>2. c.frames \in Seq(Nat)
  BY DEF Parsed, Buffered
<1>3. Len(bytes) = Len(h) + Len(c.frames) /\ Len(h) \in Nat /\ Len(c.frames) \in Nat
  BY <1>1, <1>2, LenProperties, ConcatProperties
<1> QED
  BY <1>1, <1>2, <1>3

(* It keeps the account: what it takes from the frames it has read.        *)
LEMMA ParsedDemux ==
  ASSUME NEW bytes, NEW c, Parsed(bytes, c)
  PROVE  /\ Parsed(bytes, Demux(c))
         /\ \E x \in Seq(Nat) : Skips(x) /\ Contents(bytes) = x \o Demux(c).body
<1>1. PICK h \in Seq(Nat), x \in Seq(Nat) :
        /\ bytes = h \o c.frames /\ Splits(h) /\ Contents(h) = x \o c.body /\ Skips(x)
  BY DEF Parsed
<1>2. c \in Buffered /\ c.frames \in Seq(Nat) /\ c.body \in Seq(Nat)
  BY DEF Parsed, Buffered
<1>3. PICK d : d = Demux(c)
  OBVIOUS
<1>4. PICK g \in Seq(Nat) : /\ Splits(g) /\ c.frames = g \o d.frames
                           /\ d.body = c.body \o Contents(g)
  BY <1>2, <1>3, Demuxed
<1>5. d \in Buffered /\ d.frames \in Seq(Nat) /\ d.body \in Seq(Nat) /\ Contents(d.frames) = <<>>
  <2>1. d \in Buffered /\ Contents(d.frames) = <<>>
    BY <1>2, <1>3, Demuxed
  <2> QED
    BY <2>1 DEF Buffered
<1>6. PICK r \in Seq(Nat), b \in Seq(Nat), y \in Seq(Nat) :
        r = d.frames /\ b = c.body /\ y = Contents(g)
  BY <1>2, <1>5, ContentsUnfold
<1>7. bytes = (h \o g) \o d.frames
  <2>1. (h \o g) \o r = h \o (g \o r)
    BY SMTT(30)
  <2> QED
    BY <1>1, <1>4, <1>6, <2>1
<1>8. h \o g \in Seq(Nat) /\ Splits(h \o g) /\ Contents(h \o g) = x \o d.body
  <2>1. (x \o b) \o y = x \o (b \o y)
    BY SMTT(60)
  <2>2. Splits(h \o g) /\ Contents(h \o g) = Contents(h) \o Contents(g)
    BY <1>1, <1>4, SplitsBoth
  <2>3. h \o g \in Seq(Nat)
    OBVIOUS
  <2> QED
    BY <1>1, <1>4, <1>6, <2>1, <2>2, <2>3
<1>9. Parsed(bytes, d)
  BY <1>1, <1>5, <1>7, <1>8 DEF Parsed
<1>10. Contents(bytes) = x \o d.body
  <2>1. Contents(bytes) = Contents(h \o g) \o <<>>
    BY <1>5, <1>7, <1>8 DEF Splits
  <2>2. Contents(h \o g) \in Seq(Nat)
    BY <1>8, ContentsUnfold
  <2>3. Contents(h \o g) \o <<>> = Contents(h \o g)
    BY <2>2, ConcatEmptySeq
  <2> QED
    BY <1>8, <2>1, <2>3
<1> QED
  BY <1>1, <1>3, <1>9, <1>10

(* What was said stays said.                                               *)
LEMMA SaysMore ==
  ASSUME NEW bytes \in Seq(Nat), NEW added \in Seq(Nat)
  PROVE  /\ SaysClose(bytes) => SaysClose(bytes \o added)
         /\ SaysNonsense(bytes) => SaysNonsense(bytes \o added)
<1> DEFINE all == bytes \o added
<1>1. /\ all \in Seq(Nat) /\ Len(all) = Len(bytes) + Len(added)
      /\ Len(bytes) \in Nat /\ Len(added) \in Nat
  BY LenProperties, ConcatProperties
<1>2. PICK z \in Seq(Nat) : Contents(all) = Contents(bytes) \o z
  BY ContentsGrow
<1>3. Contents(bytes) \in Seq(Nat)
  BY ContentsUnfold
<1> HIDE DEF all
<1>4. \A e \in BOOLEAN : Closes(Contents(bytes), e) => Closes(Contents(all), e)
  BY <1>2, <1>3, ClosesGrow
<1>5. /\ SaysClose(bytes) = Closes(Contents(bytes), FALSE)
      /\ SaysNonsense(bytes) <=> Len(bytes) > MESSAGE_LIMIT \/ Closes(Contents(bytes), TRUE)
  BY SaysThat
<1>6. /\ SaysClose(all) = Closes(Contents(all), FALSE)
      /\ SaysNonsense(all) <=> Len(all) > MESSAGE_LIMIT \/ Closes(Contents(all), TRUE)
  BY <1>1, SaysThat
<1>7. Len(bytes) > MESSAGE_LIMIT => Len(all) > MESSAGE_LIMIT
  BY <1>1, CapsulesAssumption
<1>8. SaysClose(bytes) => SaysClose(all)
  BY <1>4, <1>5, <1>6
<1>9. SaysNonsense(bytes) => SaysNonsense(all)
  BY <1>4, <1>5, <1>6, <1>7
<1> QED
  BY <1>8, <1>9 DEF all

(* Capsules::take keeps the account, and is right about what it finds.     *)
LEMMA Taken ==
  ASSUME NEW bytes, NEW c, Parsed(bytes, c), NEW t, t = Take(c)
  PROVE  /\ t.what \in {"none", "other", "close", "invalid"}
         /\ t.rest \in Buffered
         /\ t.what \in {"none", "other"} => Parsed(bytes, t.rest)
         /\ t.what = "close" => SaysClose(bytes)
         /\ t.what = "invalid" => SaysNonsense(bytes)
<1>1. PICK d : d = Demux(c)
  OBVIOUS
<1>2. Parsed(bytes, d) /\ d \in Buffered /\ d.body \in Seq(Nat) /\ d.frames \in Seq(Nat)
  <2>1. Parsed(bytes, d)
    BY <1>1, ParsedDemux
  <2> QED
    BY <2>1 DEF Parsed, Buffered
<1>3. PICK x \in Seq(Nat) : Skips(x) /\ Contents(bytes) = x \o d.body
  BY <1>1, ParsedDemux
<1>4. bytes \in Seq(Nat) /\ Len(bytes) \in Nat
  <2>1. bytes \in Seq(Nat)
    BY ParsedBytes
  <2> QED
    BY <2>1, LenProperties
<1>5. PICK b \in Seq(Nat) : b = d.body /\ Len(b) \in Nat
  BY <1>2, LenProperties
<1>6. /\ t.what = IF Len(b) > MESSAGE_LIMIT THEN "invalid" ELSE Decoded(b)
      /\ t.rest = IF t.what \in {"close", "other"}
                    THEN [d EXCEPT !.body = SubSeq(b, After(b, 1), Len(b))] ELSE d
  BY <1>1, <1>5 DEF Take
<1>7. Decoded(b) \in {"none", "other", "close", "invalid"}
  BY DEF Decoded
<1>8. t.what \in {"close", "other"} => Whole(b, 1)
  BY <1>6 DEF Decoded
<1>9. ASSUME Whole(b, 1)
      PROVE  /\ SubSeq(b, After(b, 1), Len(b)) \in Seq(Nat)
             /\ IsClose(b, 1, FALSE) => SaysClose(bytes)
             /\ IsClose(b, 1, TRUE) => SaysNonsense(bytes)
  <2>1. SubSeq(b, After(b, 1), Len(b)) \in Seq(Nat)
    BY <1>9, NoBytes, WholeInFront
  <2>2. \A e \in BOOLEAN : IsClose(b, 1, e) => Closes(b, e)
    BY <1>9, ClosesUnfold
  <2>3. \A e \in BOOLEAN : Closes(b, e) => Closes(Contents(bytes), e)
    BY <1>3, <1>5 DEF Skips
  <2> QED
    BY <1>4, <2>1, <2>2, <2>3, SaysThat
<1>10. t.rest \in Buffered
  <2>1. \A z \in Seq(Nat) : [d EXCEPT !.body = z] \in Buffered
    BY <1>2 DEF Buffered
  <2> QED
    BY <1>2, <1>6, <1>8, <1>9, <2>1
<1>11. CASE t.what = "none"
  BY <1>2, <1>6, <1>10, <1>11
<1>12. CASE t.what = "other"
  <2>1. PICK r : r = SubSeq(b, After(b, 1), Len(b))
    OBVIOUS
  <2>2. t.rest = [d EXCEPT !.body = r] /\ t.rest.body = r /\ t.rest.frames = d.frames
    BY <1>2, <1>6, <1>12, <2>1 DEF Buffered
  <2>3. PICK g \in Seq(Nat) : b = g \o r /\ Skips(g)
    BY <1>8, <1>12, <2>1, OneOff
  <2>4. PICK h \in Seq(Nat), y \in Seq(Nat) :
          bytes = h \o d.frames /\ Splits(h) /\ Contents(h) = y \o d.body /\ Skips(y)
    BY <1>2 DEF Parsed
  <2>5. r \in Seq(Nat)
    BY <1>8, <1>9, <1>12, <2>1
  <2>6. (y \o g) \o r = y \o (g \o r) /\ y \o g \in Seq(Nat)
    <3>1. Regroups(y, g, r)
      BY <2>5, Regrouped
    <3>2. y \o g \in Seq(Nat)
      OBVIOUS
    <3> QED
      BY <3>1, <3>2 DEF Regroups
  <2>7. Contents(h) = (y \o g) \o r
    BY <1>5, <2>3, <2>4, <2>6
  <2>8. Skips(y \o g)
    BY <2>3, <2>4, SkipsBoth
  <2>9. Parsed(bytes, t.rest)
    BY <1>10, <2>2, <2>4, <2>6, <2>7, <2>8 DEF Parsed
  <2> QED
    BY <1>10, <1>12, <2>9
<1>13. CASE t.what = "close"
  <2>1. IsClose(b, 1, FALSE)
    BY <1>6, <1>13 DEF Decoded, IsClose
  <2> QED
    BY <1>8, <1>9, <1>10, <1>13, <2>1
<1>14. CASE t.what = "invalid"
  <2>1. CASE Len(b) > MESSAGE_LIMIT
    <3>1. Len(Contents(bytes)) = Len(x) + Len(b) /\ Len(x) \in Nat
      BY <1>3, <1>5, LenProperties, ConcatProperties
    <3>2. Len(Contents(bytes)) <= Len(bytes)
      BY <1>4, ContentsShort
    <3>3. Len(bytes) > MESSAGE_LIMIT
      BY <1>4, <1>5, <2>1, <3>1, <3>2, CapsulesAssumption
    <3>4. SaysNonsense(bytes)
      BY <3>3 DEF SaysNonsense
    <3> QED
      BY <1>10, <1>14, <3>4
  <2>2. CASE ~(Len(b) > MESSAGE_LIMIT)
    <3>1. Whole(b, 1) /\ b[1] = CLOSE /\ Payload(b, 1) = <<>>
      BY <1>6, <1>14, <2>2 DEF Decoded
    <3>2. b[1 + 1] = 0
      <4>1. 1 \in 1..(Len(b) + 1)
        BY <1>5
      <4>2. Len(Payload(b, 1)) = b[1 + 1]
        BY <3>1, <4>1, WholeFacts
      <4> QED
        BY <3>1, <4>2
    <3>3. IsClose(b, 1, TRUE)
      BY <3>1, <3>2 DEF IsClose
    <3> QED
      BY <1>9, <1>10, <1>14, <3>1, <3>3
  <2> QED
    BY <2>1, <2>2
<1>15. t.what \in {"none", "other", "close", "invalid"}
  BY <1>6, <1>7
<1> QED
  BY <1>11, <1>12, <1>13, <1>14, <1>15

-----------------------------------------------------------------------------
(* What was read of what was sent, and the chunk that comes next.          *)
LEMMA FrontAndRest ==
  ASSUME NEW s \in Seq(Nat), NEW a \in Nat, NEW b \in Nat, a <= b, b <= Len(s)
  PROVE  /\ SubSeq(s, 1, a) \in Seq(Nat) /\ Len(SubSeq(s, 1, a)) = a
         /\ SubSeq(s, a + 1, b) \in Seq(Nat) /\ Len(SubSeq(s, a + 1, b)) = b - a
         /\ SubSeq(s, 1, b) = SubSeq(s, 1, a) \o SubSeq(s, a + 1, b)
<1>1. Len(s) \in Nat /\ \A i \in 1..Len(s) : s[i] \in Nat
  BY LenProperties, ElementOfSeq
<1>2. /\ SubSeq(s, 1, a) \in Seq(Nat) /\ Len(SubSeq(s, 1, a)) = a
  <2>1. \A i \in 1..a : s[i] \in Nat
    BY <1>1
  <2>2. /\ SubSeq(s, 1, a) \in Seq(Nat)
        /\ Len(SubSeq(s, 1, a)) = IF 1 <= a THEN a - 1 + 1 ELSE 0
    BY <2>1, SubSeqProperties
  <2> QED
    BY <2>2
<1>3. /\ SubSeq(s, a + 1, b) \in Seq(Nat) /\ Len(SubSeq(s, a + 1, b)) = b - a
  <2>1. PICK m \in Int : m = a + 1
    OBVIOUS
  <2>2. \A i \in m..b : s[i] \in Nat
    BY <1>1, <2>1
  <2>3. /\ SubSeq(s, m, b) \in Seq(Nat)
        /\ Len(SubSeq(s, m, b)) = IF m <= b THEN b - m + 1 ELSE 0
    BY <2>2, SubSeqProperties
  <2>4. (IF m <= b THEN b - m + 1 ELSE 0) = b - a
    BY <2>1
  <2> QED
    BY <2>1, <2>3, <2>4
<1>4. SubSeq(s, 1, a) \o SubSeq(s, a + 1, b) = SubSeq(s, 1, b)
  <2>1. 1 \in 1..(Len(s) + 1) /\ a \in (1 - 1)..Len(s) /\ b \in a..Len(s)
    BY <1>1
  <2> QED
    BY <2>1, ConcatAdjacentSubSeq
<1> QED
  BY <1>2, <1>3, <1>4

(* A pass of the driver over the CONNECT stream: what it may have come to  *)
(* after any number of operations.                                         *)
Sent == SubSeq(plan.data, 1, peer.data)
Fine(s) ==
  /\ s.read <= peer.data
  /\ s.do \in {"go", "wait"} => Parsed(SubSeq(plan.data, 1, s.read), s.capsules)
  /\ s.do = "capsule" => SaysClose(Sent)
  /\ s.do = "general" => SaysNonsense(Sent)
Pass == [do : {"go", "wait", "ended", "capsule", "general"}, read : Nat, capsules : Buffered]
Passes == {s \in Pass : Fine(s)}

(* So does a chunk that arrives.                                           *)
LEMMA ParsedMore ==
  ASSUME NEW bytes, NEW c, NEW d, NEW added \in Seq(Nat), Parsed(bytes, c),
         d.frames = c.frames \o added, d.body = c.body, c \in Buffered, d \in Buffered
  PROVE  Parsed(bytes \o added, d)
<1>1. PICK h \in Seq(Nat), x \in Seq(Nat) :
        bytes = h \o c.frames /\ Splits(h) /\ Contents(h) = x \o c.body /\ Skips(x)
  BY DEF Parsed
<1>2. c.frames \in Seq(Nat)
  BY DEF Buffered
<1>3. Regroups(h, c.frames, added)
  BY <1>2, Regrouped
<1>4. bytes \o added = h \o d.frames
  BY <1>1, <1>3, Zenon DEF Regroups
<1> QED
  BY <1>1, <1>4 DEF Parsed

(* An operation of the driver keeps what it knows ...                      *)
LEMMA OperatedIsFine ==
  ASSUME plan.data \in Seq(Nat), peer.data \in Nat, peer.data <= Len(plan.data),
         NEW s \in Passes, s.do = "go", NEW t, t = Take(s.capsules)
  PROVE  Operated(s, t) \in Passes
<1> DEFINE bytes == SubSeq(plan.data, 1, s.read)
           chunk == SubSeq(plan.data, s.read + 1, peer.data)
<1>1. /\ s \in Pass
      /\ s.read \in Nat /\ s.read <= peer.data /\ Parsed(bytes, s.capsules)
  BY DEF Pass, Passes, Fine
<1>2. /\ bytes \in Seq(Nat) /\ Len(bytes) = s.read
      /\ chunk \in Seq(Nat) /\ Len(chunk) = peer.data - s.read
      /\ Sent = bytes \o chunk
  BY <1>1, FrontAndRest DEF Sent
<1> HIDE DEF bytes, chunk
<1>3. /\ t.what \in {"none", "other", "close", "invalid"}
      /\ t.rest \in Buffered
      /\ t.what \in {"none", "other"} => Parsed(bytes, t.rest)
      /\ t.what = "close" => SaysClose(bytes)
      /\ t.what = "invalid" => SaysNonsense(bytes)
  BY <1>1, Taken
<1>4. t.what = "close" => SaysClose(Sent)
  BY <1>2, <1>3, SaysMore
<1>5. t.what = "invalid" => SaysNonsense(Sent)
  BY <1>2, <1>3, SaysMore
<1>6. Operated(s, t) =
        CASE t.what = "close" -> [s EXCEPT !.do = "capsule", !.capsules = t.rest]
          [] t.what = "other" -> [s EXCEPT !.capsules = t.rest]
          [] t.what = "invalid" -> [s EXCEPT !.do = "general"]
          [] t.what = "none" /\ chunk # <<>> ->
               IF Len(t.rest.frames) + Len(chunk) > MESSAGE_LIMIT
                 THEN [s EXCEPT !.do = "general"]
                 ELSE [s EXCEPT !.read = peer.data,
                                !.capsules = [t.rest EXCEPT !.frames = @ \o chunk]]
          [] OTHER -> [s EXCEPT !.do = IF peer.fin THEN "ended" ELSE "wait",
                                !.capsules = t.rest]
  BY Zenon DEF Operated, chunk
<1>7. CASE t.what = "close"
  <2>1. Operated(s, t) = [s EXCEPT !.do = "capsule", !.capsules = t.rest]
    BY <1>6, <1>7
  <2> QED
    BY <1>1, <1>3, <1>4, <1>7, <2>1 DEF Pass, Passes, Fine
<1>8. CASE t.what = "other"
  <2>1. Operated(s, t) = [s EXCEPT !.capsules = t.rest]
    BY <1>6, <1>8
  <2> QED
    BY <1>1, <1>3, <1>8, <2>1 DEF Pass, Passes, Fine, bytes
<1>9. CASE t.what = "invalid"
  <2>1. Operated(s, t) = [s EXCEPT !.do = "general"]
    BY <1>6, <1>9
  <2> QED
    BY <1>1, <1>3, <1>5, <1>9, <2>1 DEF Pass, Passes, Fine
<1>10. CASE t.what = "none" /\ chunk # <<>>
  <2>1. Parsed(bytes, t.rest) /\ Len(t.rest.frames) <= s.read /\ Len(t.rest.frames) \in Nat
    <3>1. Parsed(bytes, t.rest)
      BY <1>3, <1>10
    <3> QED
      BY <1>2, <3>1, ParsedBytes
  <2>2. CASE Len(t.rest.frames) + Len(chunk) > MESSAGE_LIMIT
    <3>1. Operated(s, t) = [s EXCEPT !.do = "general"]
      BY <1>6, <1>10, <2>2
    <3>2. Len(Sent) = peer.data
      BY FrontAndRest DEF Sent
    <3>3. Len(Sent) > MESSAGE_LIMIT
      BY <1>1, <1>2, <2>1, <2>2, <3>2, CapsulesAssumption, SMTT(30)
    <3>4. SaysNonsense(Sent)
      BY <3>3 DEF SaysNonsense
    <3> QED
      BY <1>1, <3>1, <3>4 DEF Pass, Passes, Fine
  <2>3. CASE ~(Len(t.rest.frames) + Len(chunk) > MESSAGE_LIMIT)
    <3>1. PICK c : c = [t.rest EXCEPT !.frames = @ \o chunk]
      OBVIOUS
    <3>2. Operated(s, t) = [s EXCEPT !.read = peer.data, !.capsules = c]
      BY <1>6, <1>10, <2>3, <3>1
    <3>3. t.rest.frames \in Seq(Nat) /\ t.rest.body \in Seq(Nat)
      BY <1>3 DEF Buffered
    <3>4. c \in Buffered /\ c.frames = t.rest.frames \o chunk /\ c.body = t.rest.body
      <4>1. t.rest.frames \o chunk \in Seq(Nat)
        BY <1>2, <3>3
      <4> QED
        BY <1>3, <3>1, <4>1 DEF Buffered
    <3>7. Parsed(Sent, c)
      BY <1>2, <1>3, <2>1, <3>4, ParsedMore
    <3>8. PICK r : r = Operated(s, t)
      OBVIOUS
    <3>9. /\ r \in Pass
          /\ r.do = "go" /\ r.read = peer.data /\ r.capsules = c
      BY <1>1, <3>2, <3>4, <3>8 DEF Pass
    <3>10. Fine(r)
      BY <3>7, <3>9 DEF Fine, Sent
    <3> QED
      BY <3>8, <3>9, <3>10 DEF Pass, Passes
  <2> QED
    BY <2>2, <2>3
<1>11. CASE t.what = "none" /\ chunk = <<>>
  <2>1. Operated(s, t) = [s EXCEPT !.do = IF peer.fin THEN "ended" ELSE "wait", !.capsules = t.rest]
    BY <1>6, <1>11
  <2> QED
    BY <1>1, <1>3, <1>11, <2>1 DEF Pass, Passes, Fine, bytes
<1> QED
  BY <1>3, <1>7, <1>8, <1>9, <1>10, <1>11

(* ... and so does every pass of them.                                     *)
LEMMA PassesStayFine ==
  ASSUME plan.data \in Seq(Nat), peer.data \in Nat, peer.data <= Len(plan.data),
         web.read \in Nat, web.read <= peer.data,
         Parsed(SubSeq(plan.data, 1, web.read), web.capsules)
  PROVE  ReadConnectStream \subseteq Passes
<1> DEFINE start == [do |-> "go", read |-> web.read, capsules |-> web.capsules]
           next(s) == {IF s.do = "go" THEN Operated(s, t) ELSE s : t \in {Take(s.capsules)}}
           from(f) == [k \in 0..OPERATIONS |->
                         IF k = 0 THEN {start} ELSE UNION {next(s) : s \in f[k - 1]}]
           after == CHOOSE f : f = from(f)
           nexts == [s \in Passes |-> next(s)]
<1>1. ReadConnectStream = after[OPERATIONS]
  BY Zenon DEF ReadConnectStream
<1>2. OPERATIONS \in Nat
  BY WebAssumption
<1>3. start \in Passes
  BY DEF Pass, Passes, Fine, Parsed
<1>4. \A s \in Passes : next(s) \subseteq Passes
  <2>1. SUFFICES ASSUME NEW s \in Passes PROVE next(s) \subseteq Passes
    OBVIOUS
  <2>2. s.do = "go" => Operated(s, Take(s.capsules)) \in Passes
    BY OperatedIsFine
  <2>3. next(s) = {IF s.do = "go" THEN Operated(s, Take(s.capsules)) ELSE s}
    OBVIOUS
  <2> QED
    BY <2>2, <2>3
<1>5. PICK f \in [0..OPERATIONS -> SUBSET Passes] :
        Reached(f, OPERATIONS, start, nexts)
  <2>1. nexts \in [Passes -> SUBSET Passes]
    <3> HIDE DEF next
    <3> QED
      BY <1>4
  <2> HIDE DEF nexts, start
  <2>2. Iterates(OPERATIONS, Passes, start, nexts)
    BY <1>2, <1>3, <2>1 DEF Iterates
  <2> QED
    BY <2>2, Iteration
<1>6. f = from(f)
  <2>1. ASSUME NEW k \in 0..OPERATIONS PROVE f[k] = from(f)[k]
    <3>1. CASE k = 0
      BY <1>5, <3>1 DEF Reached
    <3>2. CASE k # 0
      <4>1. k - 1 \in 0..OPERATIONS
        BY <1>2, <3>2
      <4>2. f[k - 1] \subseteq Passes
        BY <4>1
      <4>3. \A s \in f[k - 1] : nexts[s] = next(s)
        <5> HIDE DEF next
        <5> QED
          BY <4>2
      <4> HIDE DEF next, nexts, start
      <4> QED
        BY <1>5, <3>2, <4>3 DEF Reached
    <3> QED
      BY <3>1, <3>2
  <2> HIDE DEF next
  <2> QED
    BY <2>1
<1>7. after = from(after)
  <2> HIDE DEF from
  <2> QED
    BY <1>6 DEF after
<1> HIDE DEF after, next, start
<1>8. /\ after[0] = {start}
      /\ \A k \in 1..OPERATIONS : after[k] = UNION {next(s) : s \in after[k - 1]}
  <2>1. /\ from(after)[0] = {start}
        /\ \A k \in 1..OPERATIONS : from(after)[k] = UNION {next(s) : s \in after[k - 1]}
    BY <1>2
  <2> HIDE DEF from
  <2> QED
    BY <1>7, <2>1
<1>9. after[0] \subseteq Passes
  BY <1>3, <1>8
<1>10. \A k \in 1..OPERATIONS : after[k - 1] \subseteq Passes => after[k] \subseteq Passes
  BY <1>4, <1>8
<1> QED
  BY <1>1, <1>2, <1>9, <1>10, StaysWithin

-----------------------------------------------------------------------------
(* What the driver knows of the CONNECT stream in every state: while it    *)
(* has a session that runs, what it buffers is what it read, less whole    *)
(* frames and capsules that say nothing; and what it concluded was said.   *)
ReadTypeOK ==
  /\ web \in [closed : {"none", "local", "peer"}, closing : BOOLEAN, offset : Nat,
              left : Int, read : Nat, capsules : Buffered, driven : BOOLEAN]
  /\ web.read <= peer.data /\ peer.data <= Len(plan.data)

ReadInv ==
  /\ ReadTypeOK
  /\ (Running => web.driven) => Parsed(SubSeq(plan.data, 1, web.read), web.capsules)
  /\ CapsuleAgrees

LEMMA PlanData == ASSUME plan \in Plans PROVE plan.data \in Seq(Nat) /\ Len(plan.data) \in Nat
BY PlansAssumption DEF PlanShape

LEMMA InitRead == WebInit => ReadInv
<1> SUFFICES ASSUME WebInit PROVE ReadInv
  OBVIOUS
<1>1. /\ web = [closed |-> "none", closing |-> FALSE, offset |-> 0, left |-> 0,
                read |-> 0, capsules |-> Nothing, driven |-> FALSE]
      /\ peer.data = 0 /\ phase = "opening" /\ conn = "open" /\ plan \in Plans
  BY DEF WebInit
<1>2. Nothing \in Buffered
  BY DEF Nothing, Buffered
<1>3. ReadTypeOK
  BY <1>1, <1>2, PlanData DEF ReadTypeOK
<1>4. SubSeq(plan.data, 1, web.read) = <<>>
  BY <1>1, PlanData
<1>5. Parsed(<<>>, Nothing)
  <2>1. <<>> \in Seq(Nat) /\ <<>> = <<>> \o <<>>
    OBVIOUS
  <2> QED
    BY <1>2, <2>1, NoBytes DEF Parsed, Nothing
<1> QED
  BY <1>1, <1>3, <1>4, <1>5 DEF ReadInv, CapsuleAgrees

(* The peer has sent more: what its bytes said, they say still.            *)
LEMMA MoreIsSaid ==
  ASSUME WebTypeOK, ReadTypeOK, plan' = plan, peer'.data \in Nat, peer.data <= peer'.data,
         peer'.data <= Len(plan.data)
  PROVE  /\ SaysClose(Sent) => SaysClose(Sent')
         /\ SaysNonsense(Sent) => SaysNonsense(Sent')
<1>1. plan.data \in Seq(Nat) /\ peer.data \in Nat
  BY PlanData DEF WebTypeOK
<1> DEFINE added == SubSeq(plan.data, peer.data + 1, peer'.data)
<1>2. Sent \in Seq(Nat) /\ added \in Seq(Nat) /\ Sent' = Sent \o added
  BY <1>1, FrontAndRest, ZenonT(60) DEF ReadTypeOK, Sent
<1> HIDE DEF added
<1> QED
  BY <1>2, SaysMore

(* An action that leaves the driver's part of the session alone.           *)
LEMMA UnreadStep ==
  ASSUME WebTypeOK, ReadInv, plan' = plan, peer'.data \in Nat, peer.data <= peer'.data,
         peer'.data <= Len(plan.data),
         web'.read = web.read, web'.capsules = web.capsules, ReadTypeOK',
         (Running => web.driven)' => (Running => web.driven),
         web'.closed = "peer" => web.closed = "peer",
         (Running /\ conn = "general")' => Running /\ conn = "general"
  PROVE  ReadInv'
<1>1. (Running => web.driven)' => Parsed(SubSeq(plan.data, 1, web.read), web.capsules)'
  BY DEF ReadInv
<1>2. CapsuleAgrees'
  BY MoreIsSaid DEF ReadInv, CapsuleAgrees, Sent
<1> QED
  BY <1>1, <1>2 DEF ReadInv

(* What the peer does.                                                     *)
LEMMA PeerRead == ASSUME WebTypeOK, ReadInv, PeerNext PROVE ReadInv'
<1>1. /\ plan \in Plans /\ plan.data \in Seq(Nat) /\ peer.data \in Nat /\ ReadTypeOK
  BY PlanData DEF WebTypeOK, ReadInv
<1>2. /\ UNCHANGED <<plan, phase, web>> /\ conn' \in {conn, "lost"}
      /\ peer'.data \in Nat /\ peer.data <= peer'.data /\ peer'.data <= Len(plan.data)
  <2>1. peer.data <= Len(plan.data) /\ Len(plan.data) \in Nat
    BY <1>1 DEF ReadTypeOK
  <2>2. CASE PeerSendsData
    <3>1. /\ UNCHANGED <<plan, phase, web, conn>>
          /\ \/ \E k \in (peer.data + 1)..Len(plan.data) : peer' = [peer EXCEPT !.data = k]
             \/ peer' = [peer EXCEPT !.fin = TRUE]
             \/ peer' = [peer EXCEPT !.stopped = TRUE]
      BY <2>2 DEF PeerSendsData
    <3>2. "data" \in DOMAIN peer
      BY DEF WebTypeOK
    <3> QED
      BY <1>1, <2>1, <3>1, <3>2
  <2>3. CASE PeerLeaves
    BY <1>1, <2>1, <2>3 DEF PeerLeaves
  <2>4. CASE PeerOpensUni \/ PeerOpensBi \/ PeerSendsMessage
    BY <1>1, <2>1, <2>4 DEF PeerOpensUni, PeerOpensBi, PeerSendsMessage, WebTypeOK
  <2>5. CASE \E i \in DOMAIN plan.uni : PeerHeadsUni(i)
    BY <1>1, <2>1, <2>5 DEF PeerHeadsUni, WebTypeOK
  <2>6. CASE \E i \in DOMAIN plan.bi : PeerHeadsBi(i)
    BY <1>1, <2>1, <2>6, SMTT(30) DEF PeerHeadsBi, WebTypeOK
  <2> QED
    BY <2>2, <2>3, <2>4, <2>5, <2>6 DEF PeerNext
<1>3. ReadTypeOK'
  BY <1>1, <1>2 DEF ReadTypeOK
<1> QED
  BY <1>1, <1>2, <1>3, UnreadStep DEF Running

(* The handshake, and the streams beside the CONNECT stream; a session     *)
(* begins on an open connection.                                           *)
LEMMA BesidesRead ==
  ASSUME WebTypeOK, ReadInv,
         OpenControl \/ Sort \/ ReadSettings \/ ReadConnect \/ Respond \/ Rejected
           \/ Reject \/ Release \/ AcceptUni \/ AcceptBi
  PROVE  ReadInv'
<1>1. /\ plan \in Plans /\ plan.data \in Seq(Nat) /\ peer.data \in Nat /\ ReadTypeOK
      /\ peer.data <= Len(plan.data)
  BY PlanData DEF WebTypeOK, ReadInv, ReadTypeOK
<1>2. /\ UNCHANGED <<plan, peer>>
      /\ \/ web' = web /\ \/ ~Running /\ ~Running'
                          \/ Running /\ Running' /\ conn' \in {conn, "released"}
         \/ web' = [web EXCEPT !.driven = TRUE] /\ conn' = "open" /\ ~Running
  <2>1. CASE OpenControl \/ Sort
    <3>1. phase \in {"opening", "sorting"} /\ \E credit : SortPoll(credit)
      BY <2>1 DEF OpenControl, Sort
    <3>2. UNCHANGED <<plan, peer, web>> /\ phase' \in {"sorting", "settings", "gone"}
      BY <3>1 DEF SortPoll, Fail, Abandon
    <3> QED
      BY <3>1, <3>2 DEF Running
  <2>2. CASE ReadSettings
    BY <2>2 DEF ReadSettings, Fail, Abandon, Running
  <2>3. CASE ReadConnect
    BY <2>3 DEF ReadConnect, Fail, Abandon, Running
  <2>4. CASE Respond
    BY <2>4 DEF Respond, Establish, Abandon, Running, Open
  <2>5. CASE Rejected \/ Reject
    BY <2>5 DEF Rejected, Reject, Abandon, Running
  <2>6. CASE Release
    BY <2>6 DEF Release, CloseConn, Running
  <2>7. CASE AcceptUni \/ AcceptBi
    <3>1. Running /\ UNCHANGED <<plan, peer, phase, conn, web>>
      BY <2>7 DEF AcceptUni, AcceptBi
    <3> QED
      BY <3>1 DEF Running
  <2> QED
    BY <2>1, <2>2, <2>3, <2>4, <2>5, <2>6, <2>7
<1>3. CASE web' = web /\ \/ ~Running /\ ~Running'
                         \/ Running /\ Running' /\ conn' \in {conn, "released"}
  <2>1. ReadTypeOK'
    BY <1>1, <1>2, <1>3 DEF ReadTypeOK
  <2>2. (Running => web.driven)' => (Running => web.driven)
    BY <1>3
  <2> QED
    BY <1>1, <1>2, <1>3, <2>1, UnreadStep
<1>4. CASE web' = [web EXCEPT !.driven = TRUE] /\ conn' = "open" /\ ~Running
  <2>1. ReadTypeOK'
    BY <1>1, <1>2, <1>4 DEF ReadTypeOK
  <2>2. /\ web'.read = web.read /\ web'.capsules = web.capsules /\ web'.closed = web.closed
    BY <1>1, <1>4 DEF ReadTypeOK
  <2> QED
    BY <1>1, <1>2, <1>4, <2>1, <2>2, UnreadStep
<1> QED
  BY <1>2, <1>3, <1>4

(* A pass of the driver; on an open connection it concludes what the bytes *)
(* it has read say, and goes on with what it has not decided.              *)
LEMMA DriverRead == ASSUME WebTypeOK, ReadInv, DriverStep PROVE ReadInv'
<1>1. /\ plan \in Plans /\ plan.data \in Seq(Nat) /\ peer.data \in Nat /\ ReadTypeOK
      /\ peer.data <= Len(plan.data) /\ web.read \in Nat /\ web.read <= peer.data
  BY PlanData DEF WebTypeOK, ReadInv, ReadTypeOK
<1>2. Running /\ web.driven /\ UNCHANGED <<plan, peer, phase>> /\ Running'
  BY DEF DriverStep, Running
<1>3. CASE web' = [web EXCEPT !.driven = FALSE] /\ conn' \in {conn, "local"}
  <2>1. ReadTypeOK' /\ ~web'.driven /\ web'.closed = web.closed
    BY <1>1, <1>2, <1>3 DEF ReadTypeOK
  <2>2. CapsuleAgrees'
    BY <1>2, <1>3, <2>1 DEF ReadInv, CapsuleAgrees
  <2> QED
    BY <1>2, <2>1, <2>2 DEF ReadInv
<1>4. CASE \E offset \in Written, s \in ReadConnectStream :
             /\ Open
             /\ web' = [web EXCEPT !.offset = offset, !.read = s.read,
                                   !.capsules = s.capsules,
                                   !.driven = s.do \in {"go", "wait"},
                                   !.closed = IF s.do = "capsule" /\ @ = "none"
                                                THEN "peer" ELSE @]
             /\ conn' = IF s.do \in {"go", "wait"} THEN conn ELSE s.do
  <2>1. PICK offset \in Written, s \in ReadConnectStream :
             /\ Open
             /\ web' = [web EXCEPT !.offset = offset, !.read = s.read,
                                   !.capsules = s.capsules,
                                   !.driven = s.do \in {"go", "wait"},
                                   !.closed = IF s.do = "capsule" /\ @ = "none"
                                                THEN "peer" ELSE @]
             /\ conn' = IF s.do \in {"go", "wait"} THEN conn ELSE s.do
    BY <1>4
  <2>2. s \in Passes
    <3>1. Parsed(SubSeq(plan.data, 1, web.read), web.capsules)
      BY <1>2 DEF ReadInv
    <3> QED
      BY <1>1, <3>1, PassesStayFine
  <2>3. /\ s \in Pass /\ s.read \in Nat /\ s.read <= peer.data /\ s.capsules \in Buffered
        /\ s.do \in {"go", "wait"} => Parsed(SubSeq(plan.data, 1, s.read), s.capsules)
        /\ s.do = "capsule" => SaysClose(Sent)
        /\ s.do = "general" => SaysNonsense(Sent)
    BY <2>2 DEF Passes, Pass, Fine
  <2>4. offset \in Nat
    BY <1>1, WebAssumption DEF Written, ReadTypeOK
  <2>5. /\ ReadTypeOK'
        /\ web'.read = s.read /\ web'.capsules = s.capsules
        /\ web'.driven = (s.do \in {"go", "wait"})
        /\ web'.closed = "peer" => web.closed = "peer" \/ s.do = "capsule"
    <3>1. PICK closed : closed = IF s.do = "capsule" /\ web.closed = "none"
                                   THEN "peer" ELSE web.closed
      OBVIOUS
    <3>2. PICK driven : driven = (s.do \in {"go", "wait"})
      OBVIOUS
    <3>3. web' = [web EXCEPT !.offset = offset, !.read = s.read, !.capsules = s.capsules,
                             !.driven = driven, !.closed = closed]
      BY <2>1, <3>1, <3>2, Zenon
    <3>4. /\ closed \in {"none", "local", "peer"} /\ driven \in BOOLEAN
          /\ closed = "peer" => web.closed = "peer" \/ s.do = "capsule"
      BY <1>1, <3>1, <3>2 DEF ReadTypeOK
    <3> QED
      BY <1>1, <1>2, <2>3, <2>4, <3>2, <3>3, <3>4 DEF ReadTypeOK
  <2>6. conn' = "general" => s.do = "general"
    BY <2>1 DEF Open
  <2>7. CapsuleAgrees'
    BY <1>2, <2>3, <2>5, <2>6 DEF ReadInv, CapsuleAgrees, Sent
  <2>8. (Running => web.driven)' => Parsed(SubSeq(plan.data, 1, web.read), web.capsules)'
    BY <1>2, <2>3, <2>5
  <2> QED
    BY <2>5, <2>7, <2>8 DEF ReadInv
<1> QED
  BY <1>3, <1>4 DEF DriverStep, CloseConn

(* Our own close.                                                          *)
LEMMA OursRead == ASSUME WebTypeOK, ReadInv, Close \/ WebTick PROVE ReadInv'
<1>1. /\ plan \in Plans /\ plan.data \in Seq(Nat) /\ peer.data \in Nat /\ ReadTypeOK
      /\ peer.data <= Len(plan.data)
  BY PlanData DEF WebTypeOK, ReadInv, ReadTypeOK
<1>2. /\ UNCHANGED <<plan, peer, phase, conn>> /\ ReadTypeOK'
      /\ web'.read = web.read /\ web'.capsules = web.capsules /\ web'.driven = web.driven
      /\ web'.closed = "peer" => web.closed = "peer"
  <2>1. CASE Close
    <3>1. GRACE \in Nat
      BY WebAssumption
    <3>2. /\ UNCHANGED <<plan, peer, phase, conn>>
          /\ web' = [web EXCEPT !.closed = "local", !.closing = TRUE, !.offset = 0, !.left = GRACE]
      BY <2>1 DEF Close
    <3>3. ReadTypeOK'
      <4>1. PICK closed, closing, offset, grace :
              closed = "local" /\ closing = TRUE /\ offset = 0 /\ grace = GRACE
        OBVIOUS
      <4>2. web' = [web EXCEPT !.closed = closed, !.closing = closing, !.offset = offset,
                               !.left = grace]
        BY <3>2, <4>1, Zenon
      <4>3. /\ closed \in {"none", "local", "peer"} /\ closing \in BOOLEAN
            /\ offset \in Nat /\ grace \in Int
        BY <3>1, <4>1
      <4> QED
        BY <1>1, <3>2, <4>2, <4>3 DEF ReadTypeOK
    <3>4. /\ web'.read = web.read /\ web'.capsules = web.capsules
          /\ web'.driven = web.driven /\ web'.closed = "local"
      BY <1>1, <3>2 DEF ReadTypeOK
    <3> QED
      BY <3>2, <3>3, <3>4
  <2>2. CASE WebTick
    BY <1>1, <2>2, SMTT(30) DEF WebTick, ReadTypeOK
  <2> QED
    BY <2>1, <2>2
<1> QED
  BY <1>1, <1>2, UnreadStep DEF Running

(* Every step of the session.                                              *)
LEMMA ReadInductive == WebTypeOK /\ ReadInv /\ [WebNext]_webVars => ReadInv'
<1>1. SUFFICES ASSUME WebTypeOK, ReadInv, [WebNext]_webVars PROVE ReadInv'
  OBVIOUS
<1>2. CASE PeerNext
  BY <1>1, <1>2, PeerRead
<1>3. CASE OpenControl \/ Sort \/ ReadSettings \/ ReadConnect \/ Respond \/ Rejected
             \/ Reject \/ Release \/ AcceptUni \/ AcceptBi
  BY <1>1, <1>3, BesidesRead
<1>4. CASE DriverStep
  BY <1>1, <1>4, DriverRead
<1>5. CASE Close \/ WebTick
  BY <1>1, <1>5, OursRead
<1>6. CASE UNCHANGED webVars
  BY <1>1, <1>6 DEF webVars, ReadInv, ReadTypeOK, CapsuleAgrees, Running
<1> QED
  BY <1>1, <1>2, <1>3, <1>4, <1>5, <1>6 DEF WebNext, WebServer

(* The driver takes the CONNECT stream for closed by the peer only if the  *)
(* bytes it was sent hold a whole close capsule behind whole capsules      *)
(* only, and for invalid only if they hold an empty one or more than may   *)
(* be buffered: for every sequence of bytes, every way to cut it into      *)
(* chunks, and however capsules and frames overlap (Capsules::take and     *)
(* Driver::step of web.rs).                                                *)
THEOREM WebCapsuleAgrees == WebSpec => []CapsuleAgrees
<1>1. WebInv => WebTypeOK
  BY DEF WebInv
<1>2. ReadInv => CapsuleAgrees
  BY DEF ReadInv
<1> QED
  BY InitWeb, WebInductive, InitRead, ReadInductive, <1>1, <1>2, PTL DEF WebSpec

-----------------------------------------------------------------------------
(* The browser's page and its attempts.                                    *)
Places == {"connecting", "up", "ending", "delay", "done"}
Follow == [at : Places, aborted : BOOLEAN, attempt : Nat]
By == [follow : Nat, attempt : Nat]

PageTypeOK ==
  /\ page \in [operation : Nat, active : Nat, finished : Nat, connect : BOOLEAN,
               disconnect : BOOLEAN,
               waiting : SUBSET [handler : {"submit", "disconnect"}, operation : Nat, for : Nat]]
  /\ follows \in Seq(Follow)
  /\ loops \subseteq [by : By, awaits : {"group", "frame", "reply", "probe", "stats"}]
  /\ \A l \in loops : l.by.follow \in DOMAIN follows

(* Only the newest handler goes on after its await, and it awaits the      *)
(* newest call of follow().                                                *)
HandlersInv ==
  /\ page.finished = Len(follows)
  /\ \A w \in page.waiting :
       /\ w.operation <= page.operation
       /\ Current(w) => w.for = page.finished /\ \A v \in page.waiting : Current(v) => v = w

(* So no two follow loops are at work at once.                             *)
OneFollowsInv == \A f \in DOMAIN follows : follows[f].at # "done" => f = Len(follows)

(* And the core is connected by the attempt that is up.                    *)
CoreInv ==
  \A f \in DOMAIN follows :
    follows[f].at \in {"up", "ending"} => core = [conn |-> "Connected", by |-> Attempt(f)]

BrowserInv == PageTypeOK /\ HandlersInv /\ OneFollowsInv /\ CoreInv /\ MessagesBelong

-----------------------------------------------------------------------------
LEMMA InitBrowser == PageInit => BrowserInv
<1> SUFFICES ASSUME PageInit PROVE BrowserInv
  OBVIOUS
<1> USE DEF PageInit
<1>1. PageTypeOK
  BY EmptySeq DEF PageTypeOK, Follow, Places, By
<1>2. HandlersInv /\ OneFollowsInv /\ CoreInv /\ MessagesBelong
  BY DEF HandlersInv, OneFollowsInv, CoreInv, MessagesBelong
<1> QED
  BY <1>1, <1>2 DEF BrowserInv

(* A follow loop for every one there was.                                  *)
LEMMA SameFollows ==
  ASSUME PageTypeOK, NEW new \in [DOMAIN follows -> Follow]
  PROVE  new \in Seq(Follow) /\ Len(new) = Len(follows) /\ DOMAIN new = DOMAIN follows
<1>1. Len(follows) \in Nat /\ DOMAIN follows = 1..Len(follows)
  BY LenProperties DEF PageTypeOK
<1> QED
  BY <1>1

(* Nothing that leaves the attempts as they are, and at most ends one, is  *)
(* felt by the core.                                                       *)
LEMMA SameAttempts ==
  ASSUME BrowserInv, follows' \in [DOMAIN follows -> Follow], core' = core,
         \A f \in DOMAIN follows :
           /\ follows'[f].attempt = follows[f].attempt
           /\ \/ follows'[f].at = follows[f].at
              \/ follows[f].at = "up" /\ follows'[f].at = "ending"
  PROVE  OneFollowsInv' /\ CoreInv'
<1>1. Len(follows') = Len(follows) /\ DOMAIN follows' = DOMAIN follows
  BY SameFollows DEF BrowserInv
<1>2. OneFollowsInv'
  BY <1>1 DEF BrowserInv, OneFollowsInv
<1>3. ASSUME NEW f \in DOMAIN follows, follows'[f].at \in {"up", "ending"}
      PROVE  core' = [conn |-> "Connected", by |-> [follow |-> f, attempt |-> follows'[f].attempt]]
  <2>1. follows[f].at \in {"up", "ending"}
    BY <1>3
  <2>2. core = [conn |-> "Connected", by |-> [follow |-> f, attempt |-> follows[f].attempt]]
    BY <2>1 DEF BrowserInv, CoreInv, Attempt
  <2> QED
    BY <2>2
<1> QED
  BY <1>1, <1>2, <1>3 DEF CoreInv, Attempt

LEMMA AbortFacts ==
  ASSUME PageTypeOK, AbortActive
  PROVE  /\ follows' \in [DOMAIN follows -> Follow]
         /\ \A f \in DOMAIN follows : /\ follows'[f].attempt = follows[f].attempt
                                      /\ follows'[f].at = follows[f].at
<1> DEFINE aborted(f) == follows[f].aborted \/ f = page.active
           new(f) == [follows[f] EXCEPT !.aborted = aborted(f)]
<1>1. follows' = [f \in DOMAIN follows |-> new(f)]
  BY DEF AbortActive
<1>2. ASSUME NEW f \in DOMAIN follows
      PROVE  new(f) \in Follow /\ new(f).at = follows[f].at /\ new(f).attempt = follows[f].attempt
  <2>1. follows[f] \in Follow
    BY ElementOfSeq, LenProperties DEF PageTypeOK
  <2>2. aborted(f) \in BOOLEAN
    OBVIOUS
  <2> HIDE DEF aborted
  <2> QED
    BY <2>1, <2>2 DEF Follow
<1> HIDE DEF new
<1> QED
  BY <1>1, <1>2

(* A handler that begins to await is the newest; one that was refused, or  *)
(* does not await, makes all that are waiting old or leaves them as they   *)
(* are.                                                                    *)
LEMMA HandlersStep ==
  ASSUME BrowserInv, UNCHANGED <<loops, core, stray>>,
         \/ UNCHANGED follows
         \/ AbortActive,
         NEW operation \in {page.operation, page.operation + 1},
         NEW connect \in BOOLEAN,
         \/ page' = [page EXCEPT !.operation = operation]
         \/ /\ operation = page.operation + 1
            /\ \E handler \in {"submit", "disconnect"} :
                 page' = [page EXCEPT !.operation = operation, !.connect = connect,
                                      !.waiting = Awaits(handler)]
  PROVE  BrowserInv'
<1> USE DEF BrowserInv
<1>1. /\ follows' \in [DOMAIN follows -> Follow]
      /\ \A f \in DOMAIN follows : /\ follows'[f].attempt = follows[f].attempt
                                   /\ follows'[f].at = follows[f].at
  BY AbortFacts, ElementOfSeq, LenProperties DEF PageTypeOK
<1>2. /\ follows' \in Seq(Follow) /\ Len(follows') = Len(follows)
      /\ DOMAIN follows' = DOMAIN follows
  BY <1>1, SameFollows
<1>3. OneFollowsInv' /\ CoreInv' /\ MessagesBelong'
  BY <1>1, SameAttempts DEF MessagesBelong
<1>4. page.operation \in Nat /\ operation \in Nat
  BY DEF PageTypeOK
<1>5. CASE page' = [page EXCEPT !.operation = operation]
  <2>1. /\ page'.operation = operation /\ page'.finished = page.finished
        /\ page'.waiting = page.waiting
    BY <1>5 DEF PageTypeOK
  <2>2. PageTypeOK'
    BY <1>2, <1>4, <1>5 DEF PageTypeOK
  <2>3. HandlersInv'
    BY <1>2, <1>4, <2>1 DEF HandlersInv, Current, PageTypeOK
  <2> QED
    BY <1>3, <2>2, <2>3
<1>6. CASE /\ operation = page.operation + 1
           /\ \E handler \in {"submit", "disconnect"} :
                page' = [page EXCEPT !.operation = operation, !.connect = connect,
                                     !.waiting = Awaits(handler)]
  <2>1. PICK handler \in {"submit", "disconnect"} :
          page' = [page EXCEPT !.operation = operation, !.connect = connect,
                               !.waiting = Awaits(handler)]
    BY <1>6
  <2> DEFINE w == [handler |-> handler, operation |-> page.operation + 1, for |-> page.finished]
  <2>2. /\ page'.operation = operation /\ page'.finished = page.finished
        /\ page'.waiting = page.waiting \cup {w}
    BY <2>1 DEF PageTypeOK, Awaits
  <2>3. page' \in [operation : Nat, active : Nat, finished : Nat, connect : BOOLEAN,
                   disconnect : BOOLEAN,
                   waiting : SUBSET [handler : {"submit", "disconnect"}, operation : Nat,
                                     for : Nat]]
    <3>1. w \in [handler : {"submit", "disconnect"}, operation : Nat, for : Nat]
      BY DEF PageTypeOK
    <3>2. Awaits(handler) \subseteq [handler : {"submit", "disconnect"}, operation : Nat, for : Nat]
      BY <3>1 DEF PageTypeOK, Awaits
    <3> QED
      BY <1>4, <2>1, <3>2 DEF PageTypeOK
  <2>4. PageTypeOK'
    BY <1>2, <2>3 DEF PageTypeOK
  <2>5. \A v \in page.waiting : v.operation \in Nat /\ v.operation <= page.operation
    BY DEF HandlersInv, PageTypeOK
  <2>6. HandlersInv'
    BY <1>2, <1>4, <1>6, <2>2, <2>5 DEF HandlersInv, Current
  <2> QED
    BY <1>3, <2>4, <2>6
<1> QED
  BY <1>5, <1>6

LEMMA ClicksStep ==
  ASSUME BrowserInv, Submit \/ SubmitRefused \/ ClickDisconnect \/ PageHide
  PROVE  BrowserInv'
<1>1. page \in [operation : Nat, active : Nat, finished : Nat, connect : BOOLEAN,
                disconnect : BOOLEAN,
                waiting : SUBSET [handler : {"submit", "disconnect"}, operation : Nat, for : Nat]]
  BY DEF BrowserInv, PageTypeOK
<1>2. UNCHANGED <<loops, core, stray>> /\ (UNCHANGED follows \/ AbortActive)
  BY DEF Submit, SubmitRefused, ClickDisconnect, PageHide, Clicks
<1>3. CASE Submit
  <2>1. page' = [page EXCEPT !.operation = page.operation + 1, !.connect = FALSE,
                             !.waiting = Awaits("submit")]
    BY <1>3 DEF Submit
  <2> QED
    BY <1>2, <2>1, HandlersStep
<1>4. CASE SubmitRefused
  <2>1. page' = [page EXCEPT !.operation = page.operation + 1]
    BY <1>4 DEF SubmitRefused
  <2> QED
    BY <1>2, <2>1, HandlersStep
<1>5. CASE ClickDisconnect
  <2>1. page' = [page EXCEPT !.operation = page.operation + 1, !.connect = page.connect,
                             !.waiting = Awaits("disconnect")]
    BY <1>1, <1>5 DEF ClickDisconnect
  <2>2. page.connect \in BOOLEAN
    BY <1>1
  <2> QED
    BY <1>2, <2>1, <2>2, HandlersStep
<1>6. CASE PageHide
  <2>1. page' = [page EXCEPT !.operation = page.operation]
    BY <1>6 DEF PageHide
  <2> QED
    BY <1>2, <2>1, HandlersStep
<1> QED
  BY <1>3, <1>4, <1>5, <1>6

(* A new follow() begins when the last has ended, and every other with it. *)
LEMMA ResumeStep == ASSUME BrowserInv, Resume PROVE BrowserInv'
<1> USE DEF BrowserInv
<1> DEFINE Waiting == [handler : {"submit", "disconnect"}, operation : Nat, for : Nat]
           Page == [operation : Nat, active : Nat, finished : Nat, connect : BOOLEAN,
                    disconnect : BOOLEAN, waiting : SUBSET Waiting]
<1>1. PICK w \in page.waiting :
        LET rest == page.waiting \ {w}
            new  == Len(follows) + 1
        IN  /\ MayResume(w)
            /\ IF ~Current(w)
                 THEN page' = [page EXCEPT !.waiting = rest] /\ UNCHANGED <<follows, core>>
               ELSE IF w.handler = "submit"
                 THEN /\ page' = [page EXCEPT !.waiting = rest, !.active = new,
                                              !.finished = new, !.connect = TRUE,
                                              !.disconnect = TRUE]
                      /\ follows' = Append(follows, NewFollow) /\ Connecting(new, 1)
               ELSE /\ page' = [page EXCEPT !.waiting = rest, !.connect = TRUE,
                                            !.disconnect = FALSE]
                    /\ UNCHANGED <<follows, core>>
            /\ UNCHANGED <<loops, stray, silent, troubles, last>>
  BY DEF Resume
<1> DEFINE rest == page.waiting \ {w}
           new == Len(follows) + 1
<1>2. /\ page \in Page /\ rest \subseteq Waiting
      /\ Len(follows) \in Nat /\ DOMAIN follows = 1..Len(follows) /\ new \in Nat
  BY LenProperties DEF PageTypeOK
<1>3. MessagesBelong' /\ loops' = loops
  BY <1>1 DEF MessagesBelong
<1>4. CASE /\ page'.operation = page.operation /\ page'.finished = page.finished
           /\ page'.waiting = rest /\ page' \in Page
           /\ UNCHANGED <<follows, core>>
  <2>1. PageTypeOK'
    BY <1>3, <1>4 DEF PageTypeOK
  <2>2. HandlersInv'
    BY <1>4 DEF HandlersInv, Current
  <2>3. OneFollowsInv' /\ CoreInv'
    BY <1>4 DEF OneFollowsInv, CoreInv, Attempt
  <2> QED
    BY <1>3, <2>1, <2>2, <2>3
<1>5. CASE ~Current(w)
  <2>1. page' = [page EXCEPT !.waiting = rest] /\ UNCHANGED <<follows, core>>
    BY <1>1, <1>5
  <2> QED
    BY <1>2, <1>4, <2>1
<1>6. CASE Current(w) /\ w.handler # "submit"
  <2>1. page' = [page EXCEPT !.waiting = rest, !.connect = TRUE, !.disconnect = FALSE]
        /\ UNCHANGED <<follows, core>>
    BY <1>1, <1>6
  <2> QED
    BY <1>2, <1>4, <2>1
<1>7. CASE Current(w) /\ w.handler = "submit"
  <2>1. /\ page' = [page EXCEPT !.waiting = rest, !.active = new, !.finished = new,
                                !.connect = TRUE, !.disconnect = TRUE]
        /\ follows' = Append(follows, NewFollow)
    BY <1>1, <1>7
  <2>2. /\ page' \in Page /\ page'.waiting = rest /\ page'.finished = new
        /\ page'.operation = page.operation
    BY <1>2, <2>1
  <2>3. /\ follows' \in Seq(Follow) /\ Len(follows') = new /\ DOMAIN follows' = 1..new
        /\ follows'[new] = NewFollow
        /\ \A f \in DOMAIN follows : f # new /\ follows'[f] = follows[f]
    <3>1. NewFollow \in Follow
      BY DEF NewFollow, Follow, Places
    <3>2. follows' \in Seq(Follow)
      BY <2>1, <3>1, AppendProperties DEF PageTypeOK
    <3>3. /\ Len(follows') = new /\ follows'[new] = NewFollow
          /\ \A f \in 1..Len(follows) : follows'[f] = follows[f]
      BY <2>1, <3>1, AppendProperties DEF PageTypeOK
    <3>4. DOMAIN follows' = 1..new
      BY <3>2, <3>3, LenProperties
    <3> QED
      BY <1>2, <3>2, <3>3, <3>4
  <2>4. ASSUME NEW f \in DOMAIN follows PROVE follows[f].at = "done"
    <3>1. w.for = Len(follows)
      BY <1>7 DEF HandlersInv
    <3>2. Len(follows) # 0
      BY <1>2
    <3>3. follows[Len(follows)].at = "done"
      BY <1>1, <3>1, <3>2 DEF MayResume, Finished
    <3> QED
      BY <3>3 DEF OneFollowsInv
  <2>5. PageTypeOK'
    BY <1>2, <1>3, <2>2, <2>3 DEF PageTypeOK
  <2>6. HandlersInv'
    BY <1>7, <2>2, <2>3 DEF HandlersInv, Current
  <2>7. OneFollowsInv'
    BY <1>2, <2>3, <2>4 DEF OneFollowsInv
  <2>8. CoreInv'
    <3>1. ASSUME NEW f \in DOMAIN follows' PROVE follows'[f].at \notin {"up", "ending"}
      BY <1>2, <2>3, <2>4 DEF NewFollow
    <3> QED
      BY <3>1 DEF CoreInv
  <2> QED
    BY <1>3, <2>5, <2>6, <2>7, <2>8
<1> QED
  BY <1>5, <1>6, <1>7, SMTT(30)

-----------------------------------------------------------------------------
(* A step of the follow loop at work moves it alone, and leaves the core   *)
(* connected by it if that is where it is.                                 *)
LEMMA FollowStep ==
  ASSUME BrowserInv, NEW f \in DOMAIN follows, follows[f].at # "done",
         UNCHANGED <<page, stray>>,
         NEW to \in Places, NEW attempt \in Nat,
         follows' = [follows EXCEPT ![f].at = to, ![f].attempt = attempt],
         to \in {"up", "ending"} =>
           core' = [conn |-> "Connected", by |-> [follow |-> f, attempt |-> attempt]],
         loops' \subseteq loops \cup
           {[by |-> Attempt(f), awaits |-> a] : a \in {"group", "reply", "probe", "stats"}}
  PROVE  BrowserInv'
<1> USE DEF BrowserInv
<1>1. f = Len(follows) /\ \A g \in DOMAIN follows : g # f => follows[g].at = "done"
  BY DEF OneFollowsInv
<1>2. /\ Len(follows) \in Nat /\ DOMAIN follows = 1..Len(follows)
      /\ \A g \in DOMAIN follows : follows[g] \in Follow
  BY LenProperties, ElementOfSeq DEF PageTypeOK
<1>3. /\ follows' \in [DOMAIN follows -> Follow]
      /\ follows'[f].at = to /\ follows'[f].attempt = attempt
      /\ \A g \in DOMAIN follows : g # f => follows'[g] = follows[g]
  BY <1>2 DEF Follow
<1>4. /\ follows' \in Seq(Follow) /\ Len(follows') = Len(follows)
      /\ DOMAIN follows' = DOMAIN follows
  BY <1>3, SameFollows
<1>5. PageTypeOK'
  <2>1. Attempt(f) \in By /\ Attempt(f).follow = f
    BY <1>2 DEF Attempt, By, Follow
  <2>2. \A l \in loops' : /\ l \in [by : By, awaits : {"group", "frame", "reply", "probe", "stats"}]
                          /\ l.by.follow \in DOMAIN follows
    BY <2>1 DEF PageTypeOK
  <2> QED
    BY <1>4, <2>2 DEF PageTypeOK
<1>6. HandlersInv' /\ MessagesBelong'
  BY <1>4 DEF HandlersInv, Current, MessagesBelong
<1>7. OneFollowsInv'
  BY <1>1, <1>3, <1>4 DEF OneFollowsInv
<1>8. CoreInv'
  BY <1>1, <1>3, <1>4 DEF CoreInv, Attempt
<1> QED
  BY <1>5, <1>6, <1>7, <1>8

LEMMA LeaveFacts ==
  ASSUME BrowserInv, NEW f \in DOMAIN follows, Leave(f)
  PROVE  /\ loops' \subseteq loops
         /\ \E to \in {"done", "delay"} :
              follows' = [follows EXCEPT ![f].at = to, ![f].attempt = follows[f].attempt]
<1>1. follows \in Seq(Follow) /\ follows[f] \in Follow
  BY LenProperties, ElementOfSeq DEF BrowserInv, PageTypeOK
<1> DEFINE to == IF Aborted(f) THEN "done" ELSE "delay"
<1>2. follows' = [follows EXCEPT ![f].at = to]
  BY DEF Leave
<1>3. to \in {"done", "delay"}
  OBVIOUS
<1> HIDE DEF to
<1>4. follows' = [follows EXCEPT ![f].at = to, ![f].attempt = follows[f].attempt]
  BY <1>1, <1>2 DEF Follow
<1> QED
  BY <1>3, <1>4 DEF Leave

LEMMA FollowsStep ==
  ASSUME BrowserInv, NEW f \in DOMAIN follows,
         Connects(f) \/ ConnectFails(f) \/ Ends(f) \/ Ended(f) \/ Retries(f)
  PROVE  BrowserInv'
<1>1. follows \in Seq(Follow) /\ follows[f] \in Follow /\ follows[f].attempt \in Nat
  <2>1. follows \in Seq(Follow) /\ follows[f] \in Follow
    BY LenProperties, ElementOfSeq DEF BrowserInv, PageTypeOK
  <2> QED
    BY <2>1 DEF Follow
<1>2. UNCHANGED <<page, stray>> /\ follows[f].at # "done"
  BY DEF Connects, ConnectFails, Ends, Ended, Retries, Unattended
<1>3. CASE Leave(f)
  <2>1. PICK to \in {"done", "delay"} :
          follows' = [follows EXCEPT ![f].at = to, ![f].attempt = follows[f].attempt]
    BY <1>3, LeaveFacts
  <2>2. loops' \subseteq loops
    BY <1>3, LeaveFacts
  <2> QED
    BY <1>1, <1>2, <2>1, <2>2, FollowStep DEF Places
<1>4. CASE Connects(f) /\ ~Aborted(f)
  <2>1. /\ follows' = [follows EXCEPT ![f].at = "up"]
        /\ core' = [conn |-> "Connected", by |-> [follow |-> f, attempt |-> follows[f].attempt]]
        /\ loops' = loops \cup
             {[by |-> Attempt(f), awaits |-> a] : a \in {"group", "reply", "probe", "stats"}}
    BY <1>4 DEF Connects, Attempt
  <2>2. follows' = [follows EXCEPT ![f].at = "up", ![f].attempt = follows[f].attempt]
    BY <1>1, <2>1 DEF Follow
  <2> QED
    BY <1>1, <1>2, <2>1, <2>2, FollowStep DEF Places
<1>5. CASE Ends(f)
  <2>1. /\ follows[f].at = "up" /\ follows' = [follows EXCEPT ![f].at = "ending"]
        /\ UNCHANGED <<loops, core>>
    BY <1>5 DEF Ends
  <2>2. follows' = [follows EXCEPT ![f].at = "ending", ![f].attempt = follows[f].attempt]
    BY <1>1, <2>1 DEF Follow
  <2>3. core' = [conn |-> "Connected", by |-> [follow |-> f, attempt |-> follows[f].attempt]]
    BY <2>1 DEF BrowserInv, CoreInv, Attempt
  <2> QED
    BY <1>1, <1>2, <2>1, <2>2, <2>3, FollowStep DEF Places
<1>6. CASE Retries(f)
  <2>1. UNCHANGED loops
    BY <1>6 DEF Retries
  <2>2. CASE Aborted(f)
    <3>1. follows' = [follows EXCEPT ![f].at = "done"]
      BY <1>6, <2>2 DEF Retries
    <3>2. follows' = [follows EXCEPT ![f].at = "done", ![f].attempt = follows[f].attempt]
      BY <1>1, <3>1 DEF Follow
    <3> QED
      BY <1>1, <1>2, <2>1, <3>2, FollowStep DEF Places
  <2>3. CASE ~Aborted(f)
    <3>1. follows' = [follows EXCEPT ![f].at = "connecting",
                                     ![f].attempt = follows[f].attempt + 1]
      BY <1>6, <2>3 DEF Retries
    <3>2. follows[f].attempt + 1 \in Nat
      BY <1>1
    <3> QED
      BY <1>2, <2>1, <3>1, <3>2, FollowStep DEF Places
  <2> QED
    BY <2>2, <2>3
<1> QED
  BY <1>3, <1>4, <1>5, <1>6 DEF Connects, ConnectFails, Ended

-----------------------------------------------------------------------------
(* What a loop may do, whichever it is: it awaits something else or        *)
(* returns, may end the attempt that is up, and gives the core a message   *)
(* only after it looked at its signal.                                     *)
Moves(l) ==
  \/ loops' = loops \ {l} /\ UNCHANGED follows
  \/ \E a \in {"group", "frame", "reply", "probe", "stats"} : Steps(l, a) /\ UNCHANGED follows
  \/ Fails(l)

Heeds(l) ==
  \/ UNCHANGED stray
  \/ Alive(l) /\ stray' = (stray \/ core # [conn |-> "Connected", by |-> l.by])

LEMMA FailsFacts ==
  ASSUME PageTypeOK, NEW l \in loops, Fails(l)
  PROVE  /\ follows' \in [DOMAIN follows -> Follow]
         /\ \A f \in DOMAIN follows :
              /\ follows'[f].attempt = follows[f].attempt
              /\ \/ follows'[f].at = follows[f].at
                 \/ follows[f].at = "up" /\ follows'[f].at = "ending"
<1> DEFINE hit(f) == l.by = Attempt(f) /\ follows[f].at = "up"
           to(f) == IF hit(f) THEN "ending" ELSE follows[f].at
           new(f) == [follows[f] EXCEPT !.at = to(f)]
<1>1. follows' = [f \in DOMAIN follows |-> new(f)]
  BY DEF Fails
<1>2. ASSUME NEW f \in DOMAIN follows
      PROVE  /\ new(f) \in Follow /\ new(f).attempt = follows[f].attempt
             /\ new(f).at = to(f)
             /\ to(f) = follows[f].at \/ (follows[f].at = "up" /\ to(f) = "ending")
  <2>1. follows[f] \in Follow
    BY ElementOfSeq, LenProperties DEF PageTypeOK
  <2>2. /\ to(f) \in Places
        /\ to(f) = follows[f].at \/ (follows[f].at = "up" /\ to(f) = "ending")
    BY <2>1 DEF Follow, Places
  <2> HIDE DEF to
  <2> QED
    BY <2>1, <2>2 DEF Follow
<1> HIDE DEF new, to
<1> QED
  BY <1>1, <1>2

LEMMA AliveIsConnected ==
  ASSUME BrowserInv, NEW l \in loops, Alive(l)
  PROVE  core = [conn |-> "Connected", by |-> l.by]
<1> DEFINE f == l.by.follow
<1>1. f \in DOMAIN follows /\ l.by \in By
  BY DEF BrowserInv, PageTypeOK
<1>2. follows[f].attempt = l.by.attempt /\ follows[f].at \in {"up", "ending"}
  BY DEF Alive
<1>3. Attempt(f) = l.by
  BY <1>1, <1>2 DEF Attempt, By
<1> QED
  BY <1>1, <1>2, <1>3 DEF BrowserInv, CoreInv

LEMMA LoopMoves ==
  ASSUME BrowserInv, NEW l \in loops, UNCHANGED <<page, core>>, Moves(l), Heeds(l)
  PROVE  BrowserInv'
<1> USE DEF BrowserInv
<1>1. /\ follows' \in [DOMAIN follows -> Follow]
      /\ \A f \in DOMAIN follows :
           /\ follows'[f].attempt = follows[f].attempt
           /\ \/ follows'[f].at = follows[f].at
              \/ follows[f].at = "up" /\ follows'[f].at = "ending"
  BY FailsFacts, LenProperties DEF Moves, PageTypeOK
<1>2. /\ follows' \in Seq(Follow) /\ Len(follows') = Len(follows)
      /\ DOMAIN follows' = DOMAIN follows
  BY <1>1, SameFollows
<1>3. \A k \in loops' : /\ k \in [by : By, awaits : {"group", "frame", "reply", "probe", "stats"}]
                        /\ k.by.follow \in DOMAIN follows
  BY DEF Moves, Steps, Fails, PageTypeOK
<1>4. PageTypeOK'
  BY <1>2, <1>3 DEF PageTypeOK
<1>5. HandlersInv'
  BY <1>2 DEF HandlersInv, Current
<1>6. OneFollowsInv' /\ CoreInv'
  BY <1>1, SameAttempts
<1>7. MessagesBelong'
  BY AliveIsConnected DEF Heeds, MessagesBelong
<1> QED
  BY <1>4, <1>5, <1>6, <1>7

LEMMA LoopsStep ==
  ASSUME BrowserInv, NEW l \in loops,
         GroupArrives(l) \/ FrameArrives(l) \/ ReplyArrives(l) \/ ProbeDue(l) \/ StatsArrive(l)
  PROVE  BrowserInv'
<1>1. UNCHANGED <<page, core>>
  BY DEF GroupArrives, FrameArrives, ReplyArrives, ProbeDue, StatsArrive, Loop
<1>2. CASE GroupArrives(l) \/ StatsArrive(l)
  <2>1. Heeds(l)
    BY <1>2 DEF GroupArrives, StatsArrive, Returns, Heeds
  <2>2. Moves(l)
    <3>1. CASE UNCHANGED <<loops, follows>>
      <4>1. Steps(l, l.awaits)
        BY <3>1 DEF BrowserInv, PageTypeOK, Steps
      <4> QED
        BY <3>1, <4>1 DEF BrowserInv, PageTypeOK, Moves
    <3>2. CASE Steps(l, "frame") /\ UNCHANGED follows
      BY <3>2 DEF Moves
    <3> QED
      BY <1>2, <3>1, <3>2 DEF GroupArrives, StatsArrive, Returns, Moves
  <2> QED
    BY <1>1, <2>1, <2>2, LoopMoves
<1>3. ASSUME NEW a \in {"group", "reply", "probe"}, Alive(l), Gives(l, a)
      PROVE  BrowserInv'
  <2>1. Moves(l) /\ Heeds(l)
    BY <1>3 DEF Gives, Moves, Heeds
  <2> QED
    BY <1>1, <2>1, LoopMoves
<1>4. ASSUME Returns(l) PROVE BrowserInv'
  <2>1. Moves(l) /\ Heeds(l)
    BY <1>4 DEF Returns, Moves, Heeds
  <2> QED
    BY <1>1, <2>1, LoopMoves
<1>5. CASE FrameArrives(l)
  BY <1>3, <1>4, <1>5 DEF FrameArrives
<1>6. CASE ReplyArrives(l)
  BY <1>3, <1>4, <1>6 DEF ReplyArrives
<1>7. CASE ProbeDue(l)
  BY <1>3, <1>4, <1>7 DEF ProbeDue
<1> QED
  BY <1>2, <1>5, <1>6, <1>7

-----------------------------------------------------------------------------
(* A message reaches the core of the browser's follower only through the   *)
(* attempt that connected it, however promises are continued late.         *)
THEOREM BrowserMessagesBelong == PageSpec => []MessagesBelong
<1>1. BrowserInv /\ [PageNext]_pageVars => BrowserInv'
  <2>1. SUFFICES ASSUME BrowserInv, [PageNext]_pageVars PROVE BrowserInv'
    OBVIOUS
  <2>2. CASE Submit \/ SubmitRefused \/ ClickDisconnect \/ PageHide
    BY <2>1, <2>2, ClicksStep
  <2>3. CASE Resume
    BY <2>1, <2>3, ResumeStep
  <2>4. CASE FallsSilent
    BY <2>1, <2>4 DEF FallsSilent, BrowserInv, PageTypeOK, HandlersInv, Current, OneFollowsInv,
         CoreInv, Attempt, MessagesBelong
  <2>5. CASE \E f \in DOMAIN follows :
               Connects(f) \/ ConnectFails(f) \/ Ends(f) \/ Ended(f) \/ Retries(f)
    BY <2>1, <2>5, FollowsStep
  <2>6. CASE \E l \in loops : \/ GroupArrives(l) \/ FrameArrives(l) \/ ReplyArrives(l)
                              \/ ProbeDue(l) \/ StatsArrive(l)
    BY <2>1, <2>6, LoopsStep
  <2>7. CASE UNCHANGED pageVars
    BY <2>1, <2>7 DEF pageVars, BrowserInv, PageTypeOK, HandlersInv, Current, OneFollowsInv,
         CoreInv, Attempt, MessagesBelong
  <2> QED
    BY <2>1, <2>2, <2>3, <2>4, <2>5, <2>6, <2>7 DEF PageNext
<1>2. BrowserInv => MessagesBelong
  BY DEF BrowserInv
<1> QED
  BY InitBrowser, <1>1, <1>2, PTL DEF PageSpec
=============================================================================
