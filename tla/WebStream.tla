------------------------------ MODULE WebStream ------------------------------
(***************************************************************************)
(* One stream that a session opens, in one or both directions, as its      *)
(* application holds it (SendStream and RecvStream of                      *)
(* native/src/transport/web.rs): the session's header goes out before the  *)
(* first byte of payload, as flow control lets it, and stays owed by a     *)
(* stream that is finished before.                                         *)
(* A call that only returns an error leaves everything as it is and is not *)
(* an action; nor are wake-ups, which are those of Endpoint.               *)
(***************************************************************************)
EXTENDS Integers, FiniteSetsExt

CONSTANTS HEADER,      \* length of header_bi, in units of flow control
          MAX_CREDIT   \* bound: units the peer grants in all
ASSUME StreamAssumption == {HEADER, MAX_CREDIT} \subseteq Nat \ {0}

VARIABLES
  stream,  \* the sending half, and what it put on the wire
  recv,    \* the receiving half
  caller,  \* what the application asked, and was told
  line     \* the peer and the connection

streamVars == <<stream, recv, caller, line>>

StreamInit ==
  \E web \in BOOLEAN :
    /\ stream = [web |-> web, owed |-> IF web THEN HEADER ELSE 0, framed |-> 0,
                 payload |-> 0, finishing |-> FALSE, inner |-> "unopened", code |-> "none"]
    /\ recv = [inner |-> "unopened", code |-> "none"]
    /\ caller = [holds |-> FALSE, finished |-> FALSE, reset |-> FALSE, told |-> "nothing"]
    /\ line = [opens |-> FALSE, credit |-> 0, granted |-> 0, stopped |-> FALSE, acked |-> FALSE, lost |-> FALSE]

Writable == stream.inner = "open" /\ ~line.stopped /\ ~line.lost
Takes(n) == IF Writable THEN Min({n, line.credit}) ELSE 0
Code == IF stream.web THEN "http3" ELSE "raw"

(* s after n units of its header were taken by the connection.             *)
Framed(s, n) == [s EXCEPT !.owed = @ - n, !.framed = @ + n]
Spent(n) == [line EXCEPT !.credit = @ - n]

(* What the inner stream does to s when it is told to finish.              *)
Ended(s) ==
  IF s.inner = "open" /\ ~line.stopped THEN [s EXCEPT !.inner = "finished"] ELSE s
ResetBy(s, code) == [s EXCEPT !.inner = "reset", !.code = code]

-----------------------------------------------------------------------------
(* poll_open_bi and poll_open_uni: parked until the peer allows a stream.  *)
PollOpen ==
  /\ stream.inner = "unopened" /\ line.opens /\ ~line.lost
  /\ stream' = [stream EXCEPT !.inner = "open"]
  /\ \E bi \in BOOLEAN : recv' = [recv EXCEPT !.inner = IF bi THEN "open" ELSE "none"]
  /\ caller' = [caller EXCEPT !.holds = TRUE]
  /\ UNCHANGED line

(* A write goes as far as credit and the worker's budget let it.           *)
PollWrite ==
  /\ caller.holds /\ ~stream.finishing /\ Writable /\ line.credit > 0
  /\ LET h == Takes(stream.owed)
         Most == IF h = stream.owed THEN Min({1, line.credit - h}) ELSE 0
     IN \E p \in 0 .. Most :
          /\ stream' = [Framed(stream, h) EXCEPT !.payload = @ + p]
          /\ line' = Spent(h + p)
  /\ UNCHANGED <<recv, caller>>

FinishStream ==
  LET h == Takes(stream.owed)
      s == Framed(stream, h)
      Owes == s.owed > 0
      Refused == ~Owes /\ s.inner = "open" /\ line.stopped
  IN /\ caller.holds
     /\ stream' = IF Owes THEN [s EXCEPT !.finishing = TRUE] ELSE Ended(s)
     /\ caller' = [caller EXCEPT !.finished = @ \/ ~Refused]
     /\ line' = Spent(h)
     /\ UNCHANGED recv

Reset ==
  /\ caller.holds /\ ~line.acked
  /\ stream' = ResetBy(stream, Code)
  /\ caller' = [caller EXCEPT !.reset = TRUE]
  /\ UNCHANGED <<recv, line>>

(* What poll_closed does about a header that finish left owed.             *)
InnerTold ==
  IF line.acked THEN "ok" ELSE IF line.stopped \/ line.lost THEN "error" ELSE "nothing"
InnerClosed == [stream |-> stream, told |-> InnerTold, spent |-> 0]   \* and a variant of Closed
Closed ==
  LET h == Takes(stream.owed)
      s == Framed(stream, h)
  IN IF ~stream.finishing THEN InnerClosed
     ELSE IF ~Writable THEN [stream |-> stream, told |-> "error", spent |-> 0]
     ELSE IF s.owed > 0 THEN [stream |-> s, told |-> "nothing", spent |-> h]
     ELSE [stream |-> Ended([s EXCEPT !.finishing = FALSE]), told |-> InnerTold, spent |-> h]

PollClosed ==
  /\ caller.holds
  /\ stream' = Closed.stream
  /\ caller' = [caller EXCEPT !.told = Closed.told]
  /\ line' = Spent(Closed.spent)
  /\ UNCHANGED recv

(* The debt is paid if the credit is there; what has not ended by then is  *)
(* cancelled, and what the wrapper leaves to the inner stream is cancelled *)
(* without an HTTP/3 code.                                                 *)
Unpaid == stream   \* variant
Paid ==
  LET h == Takes(stream.owed)
      s == Framed(stream, h)
  IN IF ~stream.finishing THEN stream ELSE IF s.owed = 0 THEN Ended(s) ELSE s
DropStream ==
  /\ caller.holds
  /\ stream' = IF Paid.inner = "open" THEN ResetBy(Paid, Code) ELSE Paid
  /\ caller' = [caller EXCEPT !.holds = FALSE]
  /\ line' = Spent(Paid.framed - stream.framed)
  /\ UNCHANGED recv

(* The receiving half: read to its end, stopped, or dropped before.        *)
StopRecv ==
  /\ recv.inner = "open"
  /\ recv' = [inner |-> "stopped", code |-> Code]
  /\ UNCHANGED <<stream, caller, line>>
ReadRecv ==
  /\ recv.inner = "open" /\ ~line.lost
  /\ recv' = [recv EXCEPT !.inner = "over"]
  /\ UNCHANGED <<stream, caller, line>>

-----------------------------------------------------------------------------
(* The peer and the path.                                                  *)
Allows ==
  /\ ~line.opens /\ ~line.lost
  /\ line' = [line EXCEPT !.opens = TRUE]
  /\ UNCHANGED <<stream, recv, caller>>
Grant ==
  /\ line.granted < MAX_CREDIT
  /\ line' = [line EXCEPT !.credit = @ + 1, !.granted = @ + 1]
  /\ UNCHANGED <<stream, recv, caller>>
StopsReading ==
  /\ stream.inner \in {"open", "finished"} /\ ~line.stopped /\ ~line.acked /\ ~line.lost
  /\ line' = [line EXCEPT !.stopped = TRUE]
  /\ UNCHANGED <<stream, recv, caller>>
Acknowledges ==
  /\ stream.inner = "finished" /\ ~line.stopped /\ ~line.acked /\ ~line.lost
  /\ line' = [line EXCEPT !.acked = TRUE]
  /\ UNCHANGED <<stream, recv, caller>>
Loses ==
  /\ ~line.lost
  /\ line' = [line EXCEPT !.lost = TRUE]
  /\ UNCHANGED <<stream, recv, caller>>

StreamNext ==
  \/ PollOpen \/ PollWrite \/ FinishStream \/ Reset \/ PollClosed \/ DropStream
  \/ StopRecv \/ ReadRecv
  \/ Allows \/ Grant \/ StopsReading \/ Acknowledges \/ Loses

(* An application that finished a stream polls it until it is closed, and  *)
(* a peer that reads grants credit.                                        *)
StreamFairness == WF_streamVars(caller.finished /\ PollClosed) /\ WF_streamVars(Grant)

StreamSpec == StreamInit /\ [][StreamNext]_streamVars /\ StreamFairness

-----------------------------------------------------------------------------
(* Nothing reaches the wire ahead of the header and no end without it,     *)
(* only what the application finished ends cleanly, "closed" is only said  *)
(* of what the peer has whole, and a WebTransport stream is never          *)
(* cancelled with a raw code; and once finish returned, the stream is cut  *)
(* off only by the application, by the peer, or by being dropped while     *)
(* there is no room for the header it owes (web.rs:843).                   *)
Cut == stream.inner = "open" /\ stream'.inner = "reset"
EndsAsMeant ==
  /\ [](/\ stream.payload > 0 \/ stream.inner = "finished" => stream.owed = 0
        /\ stream.inner = "finished" => caller.finished
        /\ caller.told = "ok" => stream.inner = "finished" /\ line.acked
        /\ {stream.code, recv.code} \subseteq {"none", Code})
  /\ [][Cut /\ caller.finished =>
          caller'.reset \/ line.stopped \/ line.lost \/ line.credit < stream.owed]_streamVars

(* A stream that was finished before its header was out reaches its end    *)
(* while its application polls it and its peer reads.                      *)
FinishedArrives ==
  caller.finished ~> stream.inner # "open" \/ line.stopped \/ line.lost
=============================================================================
