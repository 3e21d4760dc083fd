-------------------------------- MODULE Link --------------------------------
(***************************************************************************)
(* The life of a follower's connection (FollowerJob of                     *)
(* native/src/network.rs): waiting to retry, opening, up; the deadline of  *)
(* an attempt, the deadline of a snapshot that arrives in parts, and the   *)
(* back-off between attempts.                                              *)
(*                                                                         *)
(* An Instant is kept as the ticks left until it.  The worker is prompt:   *)
(* time does not pass while it has been woken or its deadline has come     *)
(* (worker::run), and nothing else makes it run a pass.                    *)
(***************************************************************************)
EXTENDS Integers, FiniteSetsExt

CONSTANTS CONNECT_TIMEOUT, \* Timing.connect_timeout
          RETRY_MIN,       \* Timing.retry_min
          RETRY_MAX,       \* Timing.retry_max
          PROBE,           \* interval between probes
          STABLE,          \* age beyond which a connection resets the back-off
          MAX_FAULTS       \* bound on what goes wrong

ASSUME LinkAssumption ==
  /\ {CONNECT_TIMEOUT, RETRY_MIN, RETRY_MAX, PROBE} \subseteq Nat \ {0}
  /\ RETRY_MIN <= RETRY_MAX
  /\ {STABLE, MAX_FAULTS} \subseteq Nat

VARIABLES
  job,    \* the FollowerJob
  inbox,  \* what awaits its next pass
  faults  \* faults so far (bound only)

vars == <<job, inbox, faults>>

NEVER == -1

Init ==
  /\ job = [peer |-> "none", conn |-> "Disconnected", connected |-> FALSE,
            retry |-> 0, backoff |-> RETRY_MIN, age |-> 0, timeout |-> 0,
            probe |-> 0, group |-> FALSE, frame |-> NEVER]
  /\ inbox = {}
  /\ faults = 0

-----------------------------------------------------------------------------
(* FollowerJob::disconnect.                                                *)
Disconnect(j) ==
  LET backoff == IF j.age > STABLE THEN RETRY_MIN ELSE j.backoff
  IN  [j EXCEPT !.peer = "none", !.group = FALSE, !.frame = NEVER, !.connected = FALSE,
                !.conn = "Disconnected", !.retry = backoff,
                !.backoff = Min({2 * backoff, RETRY_MAX})]

(* FollowerJob::progress, in order: commands, a new attempt,               *)
Commanded(j) ==
  IF "reconnect" \in inbox THEN [Disconnect(j) EXCEPT !.retry = 0] ELSE j

Opens(j) == j.peer = "none" /\ j.retry = 0

Open(j) == [j EXCEPT !.peer = "opening", !.conn = "Connecting", !.age = 0,
                     !.timeout = CONNECT_TIMEOUT]

(* Peer::step: the deadline is looked at before the handshake,             *)
Expired(j) == j.peer = "opening" /\ j.timeout = 0

Up(j) ==
  IF "ready" \in inbox
    THEN [j EXCEPT !.peer = "up", !.connected = TRUE,
                   !.conn = IF j.connected THEN @ ELSE "Connected",
                   !.probe = IF j.connected THEN @ ELSE 0]
    ELSE j

(* Variant: a group that arrives has no deadline.                          *)
PatientReceived(j) ==
  [j EXCEPT !.group = (@ \/ "group" \in inbox) /\ "rest" \notin inbox]

(* the newest group replaces one that is still being read, and has a       *)
(* deadline until it was read,                                             *)
Received(j) ==
  [j EXCEPT !.group = (@ \/ "group" \in inbox) /\ "rest" \notin inbox,
            !.frame = IF "rest" \in inbox THEN NEVER
                      ELSE IF "group" \in inbox THEN CONNECT_TIMEOUT ELSE @]

(* and a probe when it is time.                                            *)
Probed(j) == IF j.probe = 0 THEN [j EXCEPT !.probe = PROBE] ELSE j

(* FollowerJob::step when there is a peer: an error ends the connection.   *)
Stepped(j) ==
  LET k == Received(Up(j))
  IN  IF Expired(j) \/ "closed" \in inbox THEN Disconnect(j)
      ELSE IF Up(j).peer # "up" THEN j
      ELSE IF k.frame = 0 THEN Disconnect(k)
      ELSE Probed(k)

(* Variant: the worker is not told of the next attempt.                    *)
DeafDeadline(j) ==
  IF j.peer = "none" THEN NEVER
  ELSE IF j.connected THEN (IF j.frame = NEVER THEN j.probe ELSE Min({j.probe, j.frame}))
  ELSE j.timeout

(* FollowerJob::deadline, of what this module keeps.                       *)
Deadline(j) ==
  LET connection == IF j.peer = "none" THEN j.retry
                    ELSE IF j.connected THEN j.probe ELSE j.timeout
  IN  IF j.frame = NEVER THEN connection ELSE Min({connection, j.frame})

Running == job.conn # "Shutdown"
Awake == Running /\ (inbox # {} \/ Deadline(job) = 0)

(* A pass that keeps or ends the connection it finds, or only waits.       *)
Pass ==
  /\ Awake /\ inbox \cap {"stop", "io"} = {}
  /\ ~Opens(Commanded(job))
  /\ job' = IF job.peer = "none" THEN job ELSE Stepped(job)
  /\ inbox' = {}
  /\ UNCHANGED faults

(* A pass that opens a connection; the endpoint may refuse to.             *)
PassOpens ==
  /\ Awake /\ inbox \cap {"stop", "io"} = {}
  /\ Opens(Commanded(job))
  /\ \/ job' = Open(Commanded(job)) /\ UNCHANGED faults
     \/ faults < MAX_FAULTS /\ faults' = faults + 1
          /\ job' = Disconnect(Open(Commanded(job)))
  /\ inbox' = {}

(* A pass whose socket fails gets no further than that: commands wait, and *)
(* the endpoint asks for another pass.                                     *)
PassFails ==
  /\ Awake /\ "io" \in inbox /\ "stop" \notin inbox
  /\ job' = Disconnect(job)
  /\ inbox' = inbox \cap {"reconnect"}
  /\ UNCHANGED faults

(* A stopped job is dropped.                                               *)
Drop ==
  /\ Awake /\ "stop" \in inbox
  /\ job' = [job EXCEPT !.conn = "Shutdown"]
  /\ inbox' = {}
  /\ UNCHANGED faults

-----------------------------------------------------------------------------
(* What wakes the worker: the transport and the application.               *)
Arrive(new, cost) ==
  /\ Running /\ new \notin SUBSET inbox
  /\ faults + cost <= MAX_FAULTS /\ faults' = faults + cost
  /\ inbox' = inbox \cup new
  /\ UNCHANGED job

Ready == job.peer = "opening" /\ Arrive({"ready"}, 0)
Close == job.peer # "none" /\ Arrive({"closed"}, 1)
Group == job.peer = "up" /\ Arrive({"group", "rest"}, 0)
PartOfGroup ==
  /\ job.peer = "up" /\ "rest" \notin inbox
  /\ Arrive({"group"}, 1)
Rest == job.peer = "up" /\ job.group /\ Arrive({"rest"}, 0)
Fail == Arrive({"io"}, 1)
Command == Arrive({"reconnect"}, 1)
Stop == Arrive({"stop"}, 0)

(* A tick; an attempt that times out is a fault.                           *)
Later(ticks) == Max({0, ticks - 1})

Tick ==
  /\ Running /\ ~Awake
  /\ IF job.peer = "opening" /\ job.timeout = 1
       THEN faults < MAX_FAULTS /\ faults' = faults + 1 ELSE UNCHANGED faults
  /\ job' = [job EXCEPT !.retry = Later(@), !.timeout = Later(@), !.probe = Later(@),
                        !.frame = IF @ = NEVER THEN @ ELSE Later(@),
                        !.age = Min({@ + 1, STABLE + 1})]
  /\ UNCHANGED inbox

Next ==
  \/ Pass \/ PassOpens \/ PassFails \/ Drop
  \/ Ready \/ Close \/ Fail \/ Group \/ PartOfGroup \/ Rest \/ Command \/ Stop
  \/ Tick

(* The worker runs when it is awake, time passes, and a handshake that is  *)
(* not lost completes.  The rest of a group need never come.               *)
LinkFairness ==
  /\ WF_vars(Pass) /\ WF_vars(PassOpens) /\ WF_vars(PassFails) /\ WF_vars(Drop)
  /\ WF_vars(Ready) /\ WF_vars(Tick)

Spec == Init /\ [][Next]_vars /\ LinkFairness

-----------------------------------------------------------------------------

(* A snapshot that stalls does not hold the follower for ever: it is read, *)
(* replaced or given up with its connection.                               *)
StallEnds == job.group /\ Running ~> ~job.group \/ ~Running

(* Once faults end the follower is connected for good, by the deadlines it *)
(* gives the worker alone.                                                 *)
Reconnects == <>[](job.conn \in {"Connected", "Shutdown"})

(* docs/protocol.md:94 - "Retry only the configured endpoint with          *)
(* exponential backoff from 100 ms to 5 s, and a default three-second      *)
(* connection timeout. Stable connections reset backoff."                  *)
FailuresBackOff ==
  [][(job.peer = "opening" /\ job'.peer = "none" /\ "reconnect" \notin inbox)
        => job'.backoff = Min({2 * job.backoff, RETRY_MAX})]_vars
=============================================================================
