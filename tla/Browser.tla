------------------------------- MODULE Browser -------------------------------
(***************************************************************************)
(* The browser's follower: the page's buttons (web/src/main.ts), the       *)
(* follow loop each connection starts (web/src/transport.ts), and the four *)
(* loops of an attempt, which call the one core that the page owns.        *)
(*                                                                         *)
(* JavaScript runs one piece between two awaits at a time: an action is    *)
(* such a piece.  A promise that was awaited may be continued long after   *)
(* its attempt was aborted.  Delays and the silence of a leader end at any *)
(* time; how long they take is left out.                                   *)
(***************************************************************************)
EXTENDS Integers, Sequences, FiniteSets

CONSTANTS MAX_CLICKS,  \* bound on what the user does
          MAX_TROUBLES \* bound on what goes wrong

ASSUME BrowserAssumption == {MAX_CLICKS, MAX_TROUBLES} \subseteq Nat

VARIABLES
  page,     \* main.ts: operation, active, finished, the buttons, handlers that await
  follows,  \* calls of follow(), in their order
  loops,    \* loops of attempts, and what each awaits
  core,     \* the connection the core shows, and the attempt that set it
  stray,    \* history: the core was given a message by an attempt it is not connected by
  silent,   \* the leader of the present attempt is silent for 5 s
  troubles, \* what went wrong (bound only)
  last      \* history: what the user did last

pageVars == <<page, follows, loops, core, stray, silent, troubles, last>>

NOBODY == [follow |-> 0, attempt |-> 0]
Attempt(f) == [follow |-> f, attempt |-> follows[f].attempt]

PageInit ==
  /\ page = [operation |-> 0, active |-> 0, finished |-> 0, connect |-> TRUE,
             disconnect |-> FALSE, waiting |-> {}]
  /\ follows = <<>> /\ loops = {}
  /\ core = [conn |-> "Disconnected", by |-> NOBODY]
  /\ stray = FALSE /\ silent = FALSE /\ troubles = 0 /\ last = "none"

-----------------------------------------------------------------------------
(* The page's handlers.  A follow loop is aborted by its own controller.   *)
Aborted(f) == IF f = 0 THEN FALSE ELSE follows[f].aborted
Finished(f) == IF f = 0 THEN TRUE ELSE follows[f].at = "done"

AbortActive ==
  follows' = [f \in DOMAIN follows |->
                [follows[f] EXCEPT !.aborted = @ \/ f = page.active]]

Clicks(what) ==
  /\ page.operation < MAX_CLICKS /\ last' = what
  /\ UNCHANGED <<loops, core, stray, silent, troubles>>

Awaits(handler) ==
  page.waiting \cup
    {[handler |-> handler, operation |-> page.operation + 1, for |-> page.finished]}

(* submit, with an address and a pin that are in order or not.             *)
Submit ==
  /\ page.connect /\ Clicks("connect") /\ AbortActive
  /\ page' = [page EXCEPT !.operation = @ + 1, !.connect = FALSE, !.waiting = Awaits("submit")]

SubmitRefused ==
  /\ page.connect /\ Clicks(last)
  /\ page' = [page EXCEPT !.operation = @ + 1]
  /\ UNCHANGED follows

ClickDisconnect ==
  /\ page.disconnect /\ Clicks("disconnect") /\ AbortActive
  /\ page' = [page EXCEPT !.operation = @ + 1, !.waiting = Awaits("disconnect")]

PageHide ==
  /\ page.active # 0 /\ ~Aborted(page.active) /\ Clicks("hide") /\ AbortActive
  /\ page' = [page EXCEPT !.operation = @]

(* Variant: a handler that was superseded goes on.                         *)
AnyCurrent(w) == TRUE

Current(w) == w.operation = page.operation
MayResume(w) == Finished(w.for)

(* follow() runs up to its first await; so does its next attempt.          *)
NewFollow == [at |-> "connecting", aborted |-> FALSE, attempt |-> 1]
Connecting(f, attempt) ==
  core' = [conn |-> "Connecting", by |-> [follow |-> f, attempt |-> attempt]]

Resume ==
  \E w \in page.waiting :
    LET left == page.waiting \ {w}
        new  == Len(follows) + 1
    IN  /\ MayResume(w)
        /\ IF ~Current(w)
             THEN page' = [page EXCEPT !.waiting = left] /\ UNCHANGED <<follows, core>>
           ELSE IF w.handler = "submit"
             THEN /\ page' = [page EXCEPT !.waiting = left, !.active = new, !.finished = new,
                                          !.connect = TRUE, !.disconnect = TRUE]
                  /\ follows' = Append(follows, NewFollow) /\ Connecting(new, 1)
           ELSE /\ page' = [page EXCEPT !.waiting = left, !.connect = TRUE,
                                        !.disconnect = FALSE]
                /\ UNCHANGED <<follows, core>>
        /\ UNCHANGED <<loops, stray, silent, troubles, last>>

-----------------------------------------------------------------------------
(* follow()                                                                *)
Trouble(cost) == troubles + cost <= MAX_TROUBLES /\ troubles' = troubles + cost
Unattended == UNCHANGED <<page, stray, last>>

(* The end of an attempt, and what follows it: nothing once aborted.  Its  *)
(* delay between probes is cut short; what else its loops await may yet    *)
(* come.                                                                   *)
Leave(f) ==
  /\ loops' = loops \ {[by |-> Attempt(f), awaits |-> "probe"]}
  /\ follows' = [follows EXCEPT ![f].at = IF Aborted(f) THEN "done" ELSE "delay"]
  /\ core' = [core EXCEPT !.conn = "Disconnected"]

Connects(f) ==
  /\ follows[f].at = "connecting" /\ Unattended
  /\ IF Aborted(f)
       THEN Leave(f) /\ UNCHANGED silent
       ELSE /\ follows' = [follows EXCEPT ![f].at = "up"]
            /\ core' = [conn |-> "Connected", by |-> Attempt(f)]
            /\ loops' = loops \cup
                 {[by |-> Attempt(f), awaits |-> a] : a \in {"group", "reply", "probe", "stats"}}
            /\ silent' = FALSE
  /\ UNCHANGED troubles

ConnectFails(f) ==
  /\ follows[f].at = "connecting" /\ Unattended
  /\ Trouble(IF Aborted(f) THEN 0 ELSE 1)
  /\ Leave(f) /\ UNCHANGED silent

(* The connection is lost, or the attempt was aborted: the race is over,   *)
Ends(f) ==
  /\ follows[f].at = "up" /\ Unattended
  /\ Trouble(IF Aborted(f) THEN 0 ELSE 1)
  /\ follows' = [follows EXCEPT ![f].at = "ending"]
  /\ UNCHANGED <<loops, core, silent>>

(* and its outcome is continued with.                                      *)
Ended(f) ==
  /\ follows[f].at = "ending" /\ Unattended
  /\ Leave(f)
  /\ UNCHANGED <<silent, troubles>>

Retries(f) ==
  /\ follows[f].at = "delay" /\ Unattended
  /\ IF Aborted(f)
       THEN follows' = [follows EXCEPT ![f].at = "done"] /\ UNCHANGED core
       ELSE /\ follows' = [follows EXCEPT ![f].at = "connecting", ![f].attempt = @ + 1]
            /\ Connecting(f, follows[f].attempt + 1)
  /\ UNCHANGED <<loops, silent, troubles>>

-----------------------------------------------------------------------------
(* The loops of an attempt.  Its signal is aborted with that of follow(),  *)
(* and when the attempt is left.                                           *)
Alive(l) ==
  LET f == follows[l.by.follow]
  IN  f.attempt = l.by.attempt /\ f.at \in {"up", "ending"} /\ ~f.aborted

Steps(l, awaits) ==
  loops' = (loops \ {l}) \cup {[by |-> l.by, awaits |-> awaits]}

(* It returns, or fails: then the race is over if it is still run.         *)
Returns(l) == loops' = loops \ {l} /\ UNCHANGED <<follows, stray, silent, troubles>>

Fails(l) ==
  /\ loops' = loops \ {l}
  /\ follows' = [f \in DOMAIN follows |->
       [follows[f] EXCEPT !.at = IF l.by = Attempt(f) /\ @ = "up" THEN "ending" ELSE @]]

(* The message of an attempt is given to the core, which may refuse it; or *)
(* it is the end of its track.                                             *)
Gives(l, awaits) ==
  \/ /\ stray' = (stray \/ core # [conn |-> "Connected", by |-> l.by])
     /\ \/ Steps(l, awaits) /\ UNCHANGED <<follows, troubles>>
        \/ Fails(l) /\ Trouble(1)
  \/ /\ UNCHANGED stray
     /\ Fails(l) /\ Trouble(1)

Loop(l) == l \in loops /\ UNCHANGED <<page, core, last>>

(* A group is awaited without a look at the signal; the track may end.     *)
GroupArrives(l) ==
  /\ Loop(l) /\ l.awaits = "group" /\ UNCHANGED <<stray, silent>>
  /\ \/ Steps(l, "frame") /\ ~silent /\ UNCHANGED <<follows, troubles>>
     \/ Fails(l) /\ Trouble(IF Alive(l) THEN 1 ELSE 0)

(* Variant: the signal is not looked at after the wait.                    *)
HeedlessFrame(l) ==
  /\ Loop(l) /\ l.awaits = "frame"
  /\ Gives(l, "group") /\ silent' = FALSE

FrameArrives(l) ==
  /\ Loop(l) /\ l.awaits = "frame"
  /\ IF Alive(l) THEN Gives(l, "group") /\ silent' = FALSE ELSE Returns(l)

ReplyArrives(l) ==
  /\ Loop(l) /\ l.awaits = "reply"
  /\ IF Alive(l) THEN Gives(l, "reply") /\ UNCHANGED silent ELSE Returns(l)

ProbeDue(l) ==
  /\ Loop(l) /\ l.awaits = "probe"
  /\ IF Alive(l) THEN Gives(l, "probe") /\ UNCHANGED silent ELSE Returns(l)

StatsArrive(l) ==
  /\ Loop(l) /\ l.awaits = "stats"
  /\ IF ~Alive(l) THEN Returns(l)
     ELSE /\ UNCHANGED <<stray, silent, troubles>>
          /\ IF silent THEN Fails(l) ELSE UNCHANGED <<loops, follows>>

(* The leader of the present attempt stops sending.                        *)
FallsSilent ==
  /\ core.conn = "Connected" /\ ~silent /\ silent' = TRUE /\ Trouble(1)
  /\ UNCHANGED <<page, follows, loops, core, stray, last>>

PageNext ==
  \/ Submit \/ SubmitRefused \/ ClickDisconnect \/ PageHide \/ Resume \/ FallsSilent
  \/ \E f \in DOMAIN follows :
       Connects(f) \/ ConnectFails(f) \/ Ends(f) \/ Ended(f) \/ Retries(f)
  \/ \E l \in loops :
       GroupArrives(l) \/ FrameArrives(l) \/ ReplyArrives(l) \/ ProbeDue(l) \/ StatsArrive(l)

(* Promises that are due are continued; an attempt to connect succeeds     *)
(* unless something goes wrong, and answers to stats() come.  Groups and   *)
(* frames need not come.                                                   *)
PageFairness ==
  /\ WF_pageVars(Resume)
  /\ \A f \in 1..MAX_CLICKS :
       WF_pageVars(f \in DOMAIN follows /\ (Connects(f) \/ Ended(f) \/ Retries(f)))
         /\ WF_pageVars(f \in DOMAIN follows /\ Aborted(f) /\ Ends(f))
  /\ WF_pageVars(\E l \in loops : StatsArrive(l))

PageSpec == PageInit /\ [][PageNext]_pageVars /\ PageFairness

-----------------------------------------------------------------------------
(* A message reaches the core only through the attempt that connected it,  *)
(* and while it is connected: never one of an attempt that was aborted or  *)
(* left, whose loops may still be waiting, and never two at once.          *)
MessagesBelong == ~stray

(* In the end the page does what the user asked for last: it is connected  *)
(* to a leader that sends, or has stopped.                                 *)
LastClickWins ==
  /\ <>[](last = "connect" => core.conn = "Connected" /\ ~silent)
  /\ <>[](last = "disconnect" => core.conn = "Disconnected" 
                               /\ \A f \in DOMAIN follows : follows[f].at = "done")
=============================================================================
