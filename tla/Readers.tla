------------------------------- MODULE Readers -------------------------------
(***************************************************************************)
(* The readers of one leader or follower (Readers and Control of           *)
(* native/src/api.rs): each is a triple buffer that the job's passes write *)
(* and an application thread reads without a lock, and gives up its slot   *)
(* by being dropped.  A view is the number of the state it shows; the      *)
(* last, FINAL, is the one a job leaves behind.  Reading returns what was  *)
(* written last, so it changes nothing here and is not an action.          *)
(***************************************************************************)
EXTENDS Integers, Sequences, FiniteSets

CONSTANTS THREADS,   \* application threads that hold the leader or follower
          SLOTS,     \* READER_CAPACITY
          MAX_CALLS, \* bound: calls of a thread
          MAX_VIEW   \* bound: states that the job reaches by itself or is told to

ASSUME ReadersAssumption == {SLOTS, MAX_CALLS, MAX_VIEW} \subseteq Nat \ {0}
FINAL == MAX_VIEW + 1

VARIABLES
  threads,  \* of each: the calls it has made, the one it waits for, what it
            \* was answered, the newest view it was promised, and room: a
            \* reader could have been had ever since it asked for one
  pending,  \* the channel of commands
  server,   \* the job: how far it is, its state, the slots still to visit,
            \* whether it publishes for a command, Control.stop
  inputs,   \* Readers.inputs
  live,     \* readers not dropped yet
  shown     \* what each triple buffer holds

readersVars == <<threads, pending, server, inputs, live, shown>>

ReadersInit ==
  /\ threads = [t \in THREADS |->
       [calls |-> 0, waits |-> "no", answer |-> "none", promised |-> 0, room |-> FALSE]]
  /\ pending = <<>>
  /\ server = [pc |-> "start", view |-> 1, todo |-> {}, serving |-> FALSE, stop |-> FALSE]
  /\ inputs = {} /\ live = {} /\ shown = <<>>

-----------------------------------------------------------------------------
(* The threads.                                                            *)
Calls(t, what) ==
  /\ threads[t].waits = "no" /\ threads[t].calls < MAX_CALLS
  /\ threads' = [threads EXCEPT ![t] =
       [threads[t] EXCEPT !.calls = @ + 1, !.waits = what, !.answer = "none",
                          !.room = Cardinality(live) < SLOTS]]

(* reader, and change or set_session_id: refused at once if the job is     *)
(* gone, otherwise answered by it.                                         *)
Ask(t) ==
  \E what \in {"reader", "change"} :
    /\ server.pc # "gone"
    /\ Calls(t, what)
    /\ pending' = Append(pending, t)
    /\ UNCHANGED <<server, inputs, live, shown>>

ShutDown(t) ==
  /\ Calls(t, "shutdown")
  /\ server' = [server EXCEPT !.stop = TRUE]
  /\ UNCHANGED <<pending, inputs, live, shown>>

(* shutdown waits until the job's Completion is dropped, which is after    *)
(* the job was.                                                            *)
ShutDownReturns(t) ==
  /\ threads[t].waits = "shutdown" /\ server.pc = "gone"
  /\ threads' = [threads EXCEPT ![t] = [@ EXCEPT !.waits = "no", !.promised = FINAL]]
  /\ UNCHANGED <<pending, server, inputs, live, shown>>

DropReader(h) ==
  /\ h \in live
  /\ live' = live \ {h}
  /\ UNCHANGED <<threads, pending, server, inputs, shown>>

-----------------------------------------------------------------------------
(* The job: it looks at its stop flag, takes commands, and publishes its   *)
(* view for a change and at the end of the pass, or, when it is dropped,   *)
(* the final one.  Every slot is visited in a step of its own, the oldest  *)
(* first.                                                                  *)
Goto(where) == [server EXCEPT !.pc = where, !.todo = inputs]
Publishing(view, serving) == [Goto("sweep") EXCEPT !.view = view, !.serving = serving]

StartPass ==
  /\ server.pc = "start"
  /\ server' = IF server.stop THEN Publishing(FINAL, FALSE) ELSE Goto("commands")
  /\ UNCHANGED <<threads, pending, inputs, live, shown>>

(* A change makes a new state or is refused; a pass may find that the      *)
(* state moved, or fail, which ends a leader.                              *)
Reached == {server.view, server.view + 1} \cap 1 .. MAX_VIEW
TakeCommand ==
  /\ server.pc = "commands" /\ pending # <<>>
  /\ IF threads[Head(pending)].waits = "reader" THEN server' = Goto("reclaim")
     ELSE \E view \in Reached : server' = Publishing(view, TRUE)
  /\ UNCHANGED <<threads, pending, inputs, live, shown>>
EndPass ==
  /\ server.pc = "commands"
  /\ \E view \in Reached \cup {FINAL} : server' = Publishing(view, FALSE)
  /\ UNCHANGED <<threads, pending, inputs, live, shown>>

First == {h \in server.todo : \A g \in server.todo : h <= g}

(* Slots whose reader was dropped are given up, before there is room for   *)
(* one more and before a view is written.                                  *)
StaleSwept(h) ==   \* variant
  IF server.pc = "reclaim" \/ h \in live THEN inputs ELSE inputs \ {h}
Swept(h) == IF h \in live THEN inputs ELSE inputs \ {h}
Sweep ==
  /\ server.pc \in {"reclaim", "sweep"}
  /\ \E h \in First :
       /\ inputs' = Swept(h)
       /\ server' = [server EXCEPT !.todo = @ \ {h}]
  /\ UNCHANGED <<threads, pending, live, shown>>
Write ==
  /\ \/ /\ server.pc = "sweep" /\ server.todo = {}
        /\ server' = Goto("write") /\ UNCHANGED shown
     \/ /\ server.pc = "write"
        /\ \E h \in First :
             /\ shown' = [shown EXCEPT ![h] = server.view]
             /\ server' = [server EXCEPT !.todo = @ \ {h}]
  /\ UNCHANGED <<threads, pending, inputs, live>>

Replied(t, answer) == [threads[t] EXCEPT !.waits = "no", !.answer = answer]

AddReader ==
  /\ server.pc = "reclaim" /\ server.todo = {}
  /\ pending' = Tail(pending)
  /\ server' = Goto("commands")
  /\ LET t == Head(pending)
         h == Len(shown) + 1
     IN IF Cardinality(inputs) >= SLOTS
        THEN /\ threads' = [threads EXCEPT ![t] = Replied(t, "limit")]
             /\ UNCHANGED <<inputs, live, shown>>
        ELSE /\ inputs' = inputs \cup {h} /\ live' = live \cup {h}
             /\ shown' = Append(shown, server.view)
             /\ threads' = [u \in THREADS |->
                  [(IF u = t THEN Replied(t, "reader") ELSE threads[u])
                     EXCEPT !.room = @ /\ Cardinality(live') < SLOTS]]

Acknowledges(from) ==
  /\ server.pc = from /\ server.todo = {} /\ server.serving
  /\ LET t == Head(pending)
     IN threads' = [threads EXCEPT ![t] = [Replied(t, "ok") EXCEPT !.promised = server.view]]
  /\ pending' = Tail(pending)
  /\ server' = [Goto("commands") EXCEPT !.serving = FALSE]
  /\ UNCHANGED <<inputs, live, shown>>
EagerAcknowledge == Acknowledges("sweep")   \* variant
Acknowledge == Acknowledges("write")

(* Nothing is served: the pass ends, or the job is dropped and its channel *)
(* with it, which answers those who wait in it.                            *)
Leave ==
  /\ server.pc = "write" /\ server.todo = {} /\ ~server.serving
  /\ IF server.view = FINAL
     THEN /\ server' = Goto("gone")
          /\ pending' = <<>>
          /\ threads' = [t \in THREADS |->
               IF \E i \in DOMAIN pending : pending[i] = t THEN Replied(t, "gone") ELSE threads[t]]
     ELSE server' = Goto("start") /\ UNCHANGED <<pending, threads>>
  /\ UNCHANGED <<inputs, live, shown>>

JobNext ==
  StartPass \/ TakeCommand \/ EndPass \/ Sweep \/ Write \/ AddReader \/ Acknowledge \/ Leave
ReadersNext ==
  \/ JobNext
  \/ \E t \in THREADS : Ask(t) \/ ShutDown(t) \/ ShutDownReturns(t)
  \/ \E h \in live : DropReader(h)

ReadersSpec == ReadersInit /\ [][ReadersNext]_readersVars

-----------------------------------------------------------------------------
(* A call that returned is visible to whoever reads next, on any thread,   *)
(* through any reader: a control's state or a later one, and after         *)
(* shutdown the final view (docs/native-bindings.md:22).                   *)
AnswerIsShown == \A t \in THREADS, h \in live : shown[h] >= threads[t].promised

(* No reader loses its slot before it is dropped, however it is dropped    *)
(* while slots are visited; there are never more than SLOTS; and none is   *)
(* refused to a thread while there has been room ever since it asked.      *)
SlotsServeTheLiving ==
  /\ live \subseteq inputs /\ Cardinality(inputs) <= SLOTS
  /\ \A t \in THREADS : threads[t].answer = "limit" => ~threads[t].room
=============================================================================
