----------------------------- MODULE MCClients -----------------------------
(***************************************************************************)
(* The threads and tasks that use the engine's worker or are its clients,  *)
(* for TLC: the application threads of one engine (MCWorker), the native   *)
(* follower's connection, and the browser's page.  A behaviour is one of   *)
(* them, beside which the others have stopped.                             *)
(***************************************************************************)
EXTENDS Link, Browser, MCWorker

LinkRests ==
  /\ job = [peer |-> "none", conn |-> "Shutdown", connected |-> FALSE,
            retry |-> 0, backoff |-> RETRY_MIN, age |-> 0, timeout |-> 0,
            probe |-> 0, group |-> FALSE, frame |-> NEVER]
  /\ inbox = {} /\ faults = 0

PageRests ==
  /\ page = [operation |-> MAX_CLICKS, active |-> 0, finished |-> 0, connect |-> FALSE,
             disconnect |-> FALSE, waiting |-> {}]
  /\ follows = <<>> /\ loops = {}
  /\ core = [conn |-> "Disconnected", by |-> NOBODY]
  /\ stray = FALSE /\ silent = FALSE /\ troubles = 0 /\ last = "none"

WorkerRests ==
  /\ op = [c \in CALLERS |-> "end"] /\ at = [c \in CALLERS |-> leader]
  /\ pc = [c \in CALLERS |-> "ok"] /\ answer = [c \in CALLERS |-> "none"]
  /\ estop = TRUE /\ stop = [j \in JOBS |-> TRUE]
  /\ status = [j \in JOBS |-> "gone"]
  /\ tasks = <<>> /\ queue = [j \in JOBS |-> <<>>]
  /\ notified = FALSE /\ event = FALSE
  /\ wpc = "exited" /\ left = {} /\ more = {}

ClientsSpec ==
  /\ \/ Init /\ PageRests /\ WorkerRests
     \/ PageInit /\ LinkRests /\ WorkerRests
     \/ WorkerInit /\ LinkRests /\ PageRests
  /\ [][\/ Next /\ UNCHANGED <<pageVars, workerVars>>
        \/ PageNext /\ UNCHANGED <<vars, workerVars>>
        \/ WorkerNext /\ UNCHANGED <<vars, pageVars>>]_<<vars, pageVars, workerVars>>
  /\ LinkFairness /\ PageFairness /\ WorkerFairness
=============================================================================
