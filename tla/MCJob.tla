-------------------------------- MODULE MCJob --------------------------------
(***************************************************************************)
(* A leader's job for TLC, from its two sides: a behaviour is that of its  *)
(* timeline, or that of the readers which two threads get from it, beside  *)
(* which the other has stopped.                                            *)
(***************************************************************************)
EXTENDS MCLeader, Readers

CONSTANTS t1, t2
TwoThreads == {t1, t2}

LeaderOnly ==
  /\ Init
  /\ threads = [t \in THREADS |-> [calls |-> MAX_CALLS, waits |-> "no", answer |-> "none",
                                  promised |-> 0, room |-> FALSE]]
  /\ pending = <<>> /\ inputs = {} /\ live = {} /\ shown = <<>>
  /\ server = [pc |-> "gone", view |-> FINAL, todo |-> {}, serving |-> FALSE, stop |-> TRUE]

ReadersOnly ==
  /\ ReadersInit
  /\ now = MAX_TIME /\ lastPublish = MAX_TIME
  /\ tl = InitialTimeline(s1, p1, f1, 0, 0, MAX_TIME)
  /\ bytes = tl /\ publish = FALSE /\ dirty = FALSE /\ tracker = InitTracker
  /\ sourceDeadline = NONE /\ commands = MAX_COMMANDS /\ names = Segments(tl)

JobSpec ==
  /\ LeaderOnly \/ ReadersOnly
  /\ [][(Next /\ UNCHANGED readersVars) \/ (ReadersNext /\ UNCHANGED vars)]_<<vars, readersVars>>
=============================================================================
