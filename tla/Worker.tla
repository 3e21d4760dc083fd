------------------------------- MODULE Worker -------------------------------
(***************************************************************************)
(* One engine's worker thread and the application threads that use it      *)
(* (native/src/worker.rs, Engine and Control of native/src/api.rs).        *)
(*                                                                         *)
(* An application thread puts a task or a command in a bounded channel,    *)
(* notifies, and blocks until it is answered; the worker runs its jobs in  *)
(* passes and sleeps in poll between them.  Every access to shared state   *)
(* is a step of its own.  What a job does with a command is the business   *)
(* of other modules: here it is only answered.                             *)
(***************************************************************************)
EXTENDS Integers, Sequences, SequencesExt

CONSTANTS CALLERS,  \* application threads, each making one call
          JOBS,     \* leaders and followers
          LEADERS,  \* the jobs whose creator waits for the worker's answer
          PLANS,    \* what the threads may call: functions from CALLERS to
                    \* an operation and the job it is about
          CAPACITY, \* COMMAND_CAPACITY, and the factories taken in a pass
          BATCH     \* commands a job takes in a pass

ASSUME WorkerAssumption ==
  /\ LEADERS \subseteq JOBS
  /\ PLANS \subseteq [CALLERS -> {"create", "command", "stop", "end"} \X JOBS]
  /\ CAPACITY \in Nat \ {0} /\ BATCH \in Nat \ {0}

VARIABLES
  op,       \* what each thread calls: create, command, stop or end
  at,       \* the job its call is about
  pc,       \* how far it is
  answer,   \* what its reply channel holds
  estop,    \* Engine.stop
  stop,     \* Control.stop of each job
  status,   \* of each job
  tasks,    \* channel of factories, by the calling thread
  queue,    \* channel of commands of each job, by the calling thread
  notified, \* Signal.notified
  event,    \* mio's waker was woken since poll last returned
  wpc,      \* how far the worker is
  left,     \* jobs still to be stepped in this pass
  more      \* jobs that found their budget spent, "tasks" for the factories

calls == <<op, at>>
flags == <<estop, stop>>
channels == <<status, tasks, queue>>
signal == <<notified, event>>
pass == <<wpc, left, more>>
workerVars == <<calls, pc, answer, flags, channels, signal, pass>>

WorkerInit ==
  /\ \E plan \in PLANS : /\ op = [c \in CALLERS |-> plan[c][1]]
                         /\ at = [c \in CALLERS |-> plan[c][2]]
  /\ pc = [c \in CALLERS |-> "idle"]
  /\ answer = [c \in CALLERS |-> "none"]
  /\ estop = FALSE /\ stop = [j \in JOBS |-> FALSE]
  /\ status = [j \in JOBS |-> "none"]
  /\ tasks = <<>> /\ queue = [j \in JOBS |-> <<>>]
  /\ notified = FALSE /\ event = FALSE
  /\ wpc = "clear" /\ left = {} /\ more = {}

Goto(c, label) == pc' = [pc EXCEPT ![c] = label]

-----------------------------------------------------------------------------
(* Engine::leader and Engine::follower: register_stop takes the lock that  *)
(* shutdown holds, spawn loads the flag and then sends.                    *)
Ending(c) == op[c] = "end" /\ pc[c] \in {"sent", "flagged", "stopping"}

Register(c) ==
  /\ op[c] = "create" /\ pc[c] = "idle" /\ status[at[c]] = "none"
  /\ ~\E d \in CALLERS : Ending(d)
  /\ IF estop
       THEN Goto(c, "failed") /\ UNCHANGED status
       ELSE Goto(c, "registered") /\ status' = [status EXCEPT ![at[c]] = "registered"]
  /\ UNCHANGED <<calls, answer, flags, tasks, queue, signal, pass>>

CheckStop(c) ==
  /\ pc[c] = "registered"
  /\ Goto(c, IF estop THEN "failed" ELSE "spawning")
  /\ UNCHANGED <<calls, answer, flags, channels, signal, pass>>

SendTask(c) ==
  /\ pc[c] = "spawning"
  /\ IF wpc # "exited" /\ Len(tasks) < CAPACITY
       THEN /\ tasks' = Append(tasks, c)
            /\ status' = [status EXCEPT ![at[c]] = "queued"]
            /\ Goto(c, "sent")
       ELSE Goto(c, "failed") /\ UNCHANGED <<tasks, status>>
  /\ UNCHANGED <<calls, answer, flags, queue, signal, pass>>

(* A handle exists once the call that creates the job has returned it.     *)
Handle(j) == \E c \in CALLERS : op[c] = "create" /\ at[c] = j /\ pc[c] = "ok"

(* Control::change, Control::reader, Leader::track: the receiver exists    *)
(* until the factory or the job that owns it is dropped.                   *)
SendCommand(c) ==
  /\ op[c] = "command" /\ pc[c] = "idle" /\ Handle(at[c])
  /\ IF status[at[c]] # "gone" /\ Len(queue[at[c]]) < CAPACITY
       THEN queue' = [queue EXCEPT ![at[c]] = Append(@, c)] /\ Goto(c, "sent")
       ELSE Goto(c, "failed") /\ UNCHANGED queue
  /\ UNCHANGED <<calls, answer, flags, status, tasks, signal, pass>>

(* Control::shutdown, and the drop of a Control.                           *)
StopJob(c) ==
  /\ op[c] = "stop" /\ pc[c] = "idle" /\ Handle(at[c])
  /\ stop' = [stop EXCEPT ![at[c]] = TRUE]
  /\ Goto(c, "sent")
  /\ UNCHANGED <<calls, answer, estop, channels, signal, pass>>

(* Engine::shutdown, and the drop of an Engine.                            *)
Shutdown(c) ==
  /\ op[c] = "end" /\ pc[c] = "idle"
  /\ ~\E d \in CALLERS : Ending(d)
  /\ estop' = TRUE
  /\ Goto(c, "sent")
  /\ UNCHANGED <<calls, answer, stop, channels, signal, pass>>

(* Signal::notify: the flag, then mio's waker.                             *)
Flag(c) ==
  /\ pc[c] = "sent"
  /\ notified' = TRUE
  /\ Goto(c, "flagged")
  /\ UNCHANGED <<calls, answer, flags, channels, event, pass>>

AfterWake(c) ==
  IF op[c] = "end" THEN "stopping"
  ELSE IF op[c] = "create" /\ at[c] \notin LEADERS THEN "ok" ELSE "waiting"

Wake(c) ==
  /\ pc[c] = "flagged"
  /\ event' = TRUE
  /\ Goto(c, AfterWake(c))
  /\ UNCHANGED <<calls, answer, flags, channels, notified, pass>>

(* Engine::shutdown stops every registered job before it joins.            *)
StopAll(c) ==
  /\ pc[c] = "stopping"
  /\ stop' = [j \in JOBS |-> stop[j] \/ status[j] # "none"]
  /\ Goto(c, "waiting")
  /\ UNCHANGED <<calls, answer, estop, channels, signal, pass>>

(* The reply, the dropped Completion or the end of the thread.             *)
Result(c) ==
  IF op[c] = "end" THEN (IF wpc = "exited" THEN "ok" ELSE "none")
  ELSE IF op[c] = "stop" THEN (IF status[at[c]] = "gone" THEN "ok" ELSE "none")
  ELSE answer[c]

Return(c) ==
  /\ pc[c] = "waiting" /\ Result(c) # "none"
  /\ Goto(c, Result(c))
  /\ UNCHANGED <<calls, answer, flags, channels, signal, pass>>

Call(c) ==
  \/ Register(c) \/ CheckStop(c) \/ SendTask(c) \/ SendCommand(c)
  \/ StopJob(c) \/ Shutdown(c)
  \/ Flag(c) \/ Wake(c) \/ StopAll(c) \/ Return(c)

-----------------------------------------------------------------------------
(* worker::run, one pass.                                                  *)
Answer(cs, result) == answer' = [c \in CALLERS |-> IF c \in cs THEN result ELSE answer[c]]

Clear ==
  /\ wpc = "clear"
  /\ notified' = FALSE
  /\ wpc' = "take"
  /\ UNCHANGED <<calls, pc, answer, flags, channels, event, left, more>>

RunningJobs == {j \in JOBS : status[j] = "running"}

(* Factories run; a leader that cannot be built reports why and is dropped.*)
TakeTasks ==
  /\ wpc = "take"
  /\ \E built \in SUBSET ToSet(tasks) :
       LET new == {at[c] : c \in built}
           dropped == {at[c] : c \in ToSet(tasks) \ built}
       IN  /\ status' = [j \in JOBS |-> IF j \in new THEN "running"
                                        ELSE IF j \in dropped THEN "gone" ELSE status[j]]
           /\ answer' = [c \in CALLERS |->
                           IF c \in built THEN "ok"
                           ELSE IF c \in ToSet(tasks) \/ \E j \in dropped : c \in ToSet(queue[j])
                             THEN "failed" ELSE answer[c]]
           /\ queue' = [j \in JOBS |-> IF j \in dropped THEN <<>> ELSE queue[j]]
           /\ left' = RunningJobs \cup new
  /\ more' = IF Len(tasks) = CAPACITY THEN {"tasks"} ELSE {}
  /\ tasks' = <<>>
  /\ wpc' = "step"
  /\ UNCHANGED <<calls, pc, flags, signal>>

(* Job::step: up to BATCH commands are answered, and the rest remembered.  *)
Served(j) == SubSeq(queue[j], 1, IF Len(queue[j]) < BATCH THEN Len(queue[j]) ELSE BATCH)

(* Variant: a spent budget is forgotten.                                   *)
ForgetfulStep(j) ==
  /\ wpc = "step" /\ j \in left /\ ~stop[j]
  /\ Answer(ToSet(Served(j)), "ok")
  /\ queue' = [queue EXCEPT ![j] = SubSeq(@, Len(Served(j)) + 1, Len(@))]
  /\ left' = left \ {j}
  /\ UNCHANGED <<calls, pc, flags, status, tasks, signal, wpc, more>>

StepJob(j) ==
  /\ wpc = "step" /\ j \in left /\ ~stop[j]
  /\ Answer(ToSet(Served(j)), "ok")
  /\ queue' = [queue EXCEPT ![j] = SubSeq(@, Len(Served(j)) + 1, Len(@))]
  /\ more' = IF Len(Served(j)) = BATCH THEN more \cup {j} ELSE more
  /\ left' = left \ {j}
  /\ UNCHANGED <<calls, pc, flags, status, tasks, signal, wpc>>

(* Variant: a job that ends keeps the commands it did not take.            *)
LeakyDrop(j) ==
  /\ wpc = "step" /\ j \in left
  /\ stop[j] \/ j \in LEADERS
  /\ status' = [status EXCEPT ![j] = "gone"]
  /\ left' = left \ {j}
  /\ UNCHANGED <<calls, pc, answer, flags, tasks, queue, signal, wpc, more>>

(* A stopped job, or a leader whose pass failed, is dropped with its       *)
(* receiver, whose callers fail, and then its Completion.                  *)
DropJob(j) ==
  /\ wpc = "step" /\ j \in left
  /\ stop[j] \/ j \in LEADERS
  /\ status' = [status EXCEPT ![j] = "gone"]
  /\ Answer(ToSet(queue[j]), "failed")
  /\ queue' = [queue EXCEPT ![j] = <<>>]
  /\ left' = left \ {j}
  /\ UNCHANGED <<calls, pc, flags, tasks, signal, wpc, more>>

(* The stop flag is looked at after the jobs; run returns and drops all.   *)
Check ==
  /\ wpc = "step" /\ left = {}
  /\ wpc' = IF estop THEN "exited" ELSE "decide"
  /\ IF estop
       THEN /\ status' = [j \in JOBS |-> IF status[j] \in {"queued", "running"}
                                           THEN "gone" ELSE status[j]]
            /\ Answer(ToSet(tasks) \cup UNION {ToSet(queue[j]) : j \in JOBS}, "failed")
            /\ tasks' = <<>> /\ queue' = [j \in JOBS |-> <<>>]
       ELSE UNCHANGED <<status, answer, tasks, queue>>
  /\ UNCHANGED <<calls, pc, flags, signal, left, more>>

Decide ==
  /\ wpc = "decide"
  /\ wpc' = IF notified \/ more # {} THEN "poll now" ELSE "poll"
  /\ UNCHANGED <<calls, pc, answer, flags, channels, signal, left, more>>

(* poll returns at once, for the waker, or for a socket or a deadline.     *)
Poll ==
  /\ wpc = "poll now" \/ (wpc = "poll" /\ event)
  /\ event' = FALSE
  /\ wpc' = "clear"
  /\ UNCHANGED <<calls, pc, answer, flags, channels, notified, left, more>>

Readiness ==
  /\ wpc = "poll"
  /\ wpc' = "clear"
  /\ UNCHANGED <<calls, pc, answer, flags, channels, signal, left, more>>

Run == Clear \/ TakeTasks \/ (\E j \in JOBS : StepJob(j) \/ DropJob(j)) \/ Check \/ Decide \/ Poll

WorkerNext == (\E c \in CALLERS : Call(c)) \/ Run \/ Readiness

(* Threads that may run do.  Nothing is assumed of sockets and deadlines.  *)
WorkerFairness == WF_workerVars(Run) /\ \A c \in CALLERS : WF_workerVars(Call(c))

WorkerSpec == WorkerInit /\ [][WorkerNext]_workerVars /\ WorkerFairness

-----------------------------------------------------------------------------
(* The worker does not sleep on work: while it is blocked in poll with no  *)
(* wakeup on the way, every call that returned or waits has been served,   *)
(* whenever it was made and however many commands the last pass left over. *)
NeverAsleep ==
  (wpc = "poll" /\ ~event) =>
    \A c \in CALLERS :
      pc[c] \in {"waiting", "ok"} =>
        /\ \A j \in JOBS : c \notin ToSet(queue[j])
        /\ c \notin ToSet(tasks)
        /\ pc[c] = "waiting" => Result(c) # "none"

(* Every call that was started returns, without the help of a socket or a  *)
(* timer: a stop or a shutdown racing with it fails it but never loses it. *)
(* (A thread makes one call: in the end none is on its way for ever.)      *)
CallsReturn == <>[](\A c \in CALLERS : pc[c] \in {"idle", "ok", "failed"})
=============================================================================
