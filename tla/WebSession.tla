----------------------------- MODULE WebSession -----------------------------
(***************************************************************************)
(* The server's side of one WebTransport session over one QUIC connection  *)
(* (Request, Session and Driver of native/src/transport/web.rs), until the *)
(* connection is closed.  Everything runs on the networking worker: an     *)
(* action is one poll of a future, or one pass of the driver.              *)
(*                                                                         *)
(* The peer sends what its plan says, at any pace, and may stop anywhere.  *)
(* A stream is known by the order in which it was opened; its header comes *)
(* in parts, each of which takes a read.                                   *)
(***************************************************************************)
EXTENDS Integers, Sequences, FiniteSets, Capsules

CONSTANTS Plans,      \* what a peer may send: records of PlanShape
          STREAM_CAP, \* HANDSHAKE_STREAMS
          HELD,       \* HELD_STREAMS
          GRACE,      \* CLOSE_GRACE, in ticks
          BUDGET,     \* OPERATIONS of quic.rs: of a connection in one pass
          OPERATIONS, \* operations of the driver on a session in one pass
          CAPSULE     \* pieces in which our own close capsule is written

ASSUME WebAssumption ==
  /\ {STREAM_CAP, GRACE, BUDGET, OPERATIONS, CAPSULE} \subseteq Nat \ {0}
  /\ HELD \in Nat

VARIABLES
  plan,   \* what the peer would send
  peer,   \* what it sent so far
  uni,    \* where each of its unidirectional streams is
  pending, \* Request::handshake: those mid-header, and how much was read of each
  bi,     \* and each bidirectional stream after the CONNECT stream
  phase,  \* where the server is: Request::accept, Request, Session, none
  armed,  \* Request::guard
  conn,   \* "open", or what the connection was closed for
  web     \* the session: its record, its capsules, its close

webVars == <<plan, peer, uni, pending, bi, phase, armed, conn, web>>

UniKinds == {"control", "qpack", "own", "other", "grease"}
BiKinds == {"own", "other", "plain"}
PlanShape(p) ==
  /\ p.uni \in Seq(UniKinds) /\ p.bi \in Seq(BiKinds)
  /\ p.settings \in {"good", "unsupported", "invalid"}
  /\ p.request \in {"offered", "unoffered", "invalid"}
  /\ p.data \in Seq(Nat) /\ p.stops \in BOOLEAN
ASSUME PlansAssumption == \A p \in Plans : PlanShape(p)

(* The type of a WebTransport stream is a varint of two bytes, which take  *)
(* two reads; a session id takes one more.                                 *)
HeaderLength(kind) == IF kind \in {"own", "other"} THEN 3 ELSE 1

WebInit ==
  /\ plan \in Plans
  /\ peer = [opened |-> 0, head |-> [i \in DOMAIN plan.uni |-> 0], ended |-> {},
             biOpened |-> 0, biHead |-> [i \in DOMAIN plan.bi |-> 0], biEnded |-> {},
             settings |-> FALSE, request |-> FALSE, data |-> 0, fin |-> FALSE,
             stopped |-> FALSE]
  /\ uni = [i \in DOMAIN plan.uni |-> "unseen"]
  /\ pending = <<>>
  /\ bi = [i \in DOMAIN plan.bi |-> "unseen"]
  /\ phase = "opening"
  /\ armed = FALSE
  /\ conn = "open"
  /\ web = [closed |-> "none", closing |-> FALSE, offset |-> 0, left |-> 0,
            read |-> 0, capsules |-> Nothing, driven |-> FALSE]

-----------------------------------------------------------------------------
(* The peer.                                                               *)
Open == conn = "open"

(* The transport lets a peer have as many streams at once as the handshake *)
(* takes (max_concurrent_uni_streams); one that is done with, at the       *)
(* earliest when it was dropped or handed over, gives its place back.      *)
Freed == {i \in DOMAIN uni : uni[i] \in {"dropped", "accepted"}}

PeerOpensUni ==
  /\ Open /\ peer.opened < Len(plan.uni)
  /\ peer.opened < STREAM_CAP + Cardinality(Freed)
  /\ peer' = [peer EXCEPT !.opened = @ + 1]
  /\ UNCHANGED <<plan, uni, pending, bi, phase, armed, conn, web>>

PeerHeadsUni(i) ==
  /\ Open /\ i <= peer.opened /\ i \notin peer.ended
  /\ peer.head[i] < HeaderLength(plan.uni[i])
  /\ \/ peer' = [peer EXCEPT !.head[i] = @ + 1]
     \/ peer' = [peer EXCEPT !.ended = @ \cup {i}]
  /\ UNCHANGED <<plan, uni, pending, bi, phase, armed, conn, web>>

PeerOpensBi ==
  /\ Open /\ peer.biOpened < Len(plan.bi)
  /\ peer' = [peer EXCEPT !.biOpened = @ + 1]
  /\ UNCHANGED <<plan, uni, pending, bi, phase, armed, conn, web>>

PeerHeadsBi(i) ==
  /\ Open /\ i <= peer.biOpened /\ i \notin peer.biEnded
  /\ peer.biHead[i] < HeaderLength(plan.bi[i])
  /\ \/ peer' = [peer EXCEPT !.biHead[i] = @ + 1]
     \/ peer' = [peer EXCEPT !.biEnded = @ \cup {i}]
  /\ UNCHANGED <<plan, uni, pending, bi, phase, armed, conn, web>>

(* The messages of the handshake, each once it is whole (or wrong), and    *)
(* the bytes that follow the CONNECT request.                              *)
PeerSendsMessage ==
  /\ Open
  /\ \/ ~peer.settings /\ peer' = [peer EXCEPT !.settings = TRUE]
     \/ ~peer.request /\ peer' = [peer EXCEPT !.request = TRUE]
  /\ UNCHANGED <<plan, uni, pending, bi, phase, armed, conn, web>>

PeerSendsData ==
  /\ Open /\ peer.request /\ ~peer.fin
  /\ \/ \E k \in (peer.data + 1)..Len(plan.data) : peer' = [peer EXCEPT !.data = k]
     \/ plan.stops /\ peer' = [peer EXCEPT !.fin = TRUE]
     \/ plan.stops /\ ~peer.stopped /\ peer' = [peer EXCEPT !.stopped = TRUE]
  /\ UNCHANGED <<plan, uni, pending, bi, phase, armed, conn, web>>

(* The connection is lost, or the peer closes it.                          *)
PeerLeaves ==
  /\ Open /\ plan.stops
  /\ conn' = "lost"
  /\ UNCHANGED <<plan, peer, uni, pending, bi, phase, armed, web>>

PeerNext ==
  \/ PeerOpensUni \/ PeerOpensBi \/ PeerSendsMessage \/ PeerSendsData \/ PeerLeaves
  \/ \E i \in DOMAIN plan.uni : PeerHeadsUni(i)
  \/ \E i \in DOMAIN plan.bi : PeerHeadsBi(i)

-----------------------------------------------------------------------------
(* Connection::close_code: only the first close has a meaning.             *)
CloseConn(why) == conn' = IF Open THEN why ELSE conn

(* The handshake ends without a session; what it held is dropped with it.  *)
Abandon == phase' = "gone" /\ armed' = FALSE /\ UNCHANGED <<plan, peer, uni, pending, bi, web>>

(* Request::accept with an error, and Guard::drop.                         *)
Fail == CloseConn("general") /\ Abandon

(* PendingUni::poll_classify: the header is whole, or will never be.       *)
Settled(i) == peer.head[i] = HeaderLength(plan.uni[i]) \/ i \in peer.ended
Class(i) == IF peer.head[i] = HeaderLength(plan.uni[i]) THEN plan.uni[i] ELSE "grease"

(* The streams that were taken over, and where one goes that is classified *)
(* during the handshake; the control stream is kept by the caller.         *)
Arrivals == {i \in DOMAIN uni : uni[i] # "unseen"}
Sorted(i) == CASE Class(i) = "qpack" -> "held"
               [] Class(i) = "control" -> "held"
               [] Class(i) \in {"own", "other"} -> "early"
               [] OTHER -> "dropped"

(* The loop of the handshake, an operation or a look at a time.  A poll s  *)
(* adopts while s.at is 0, and else looks at the pending stream s.at.  An  *)
(* accept and a read take one of the operations left; without any left the *)
(* connection answers that nothing is there, whatever is (Shared::enter).  *)
Adopts(s) == s.left > 0 /\ s.count < peer.opened /\ s.count <= STREAM_CAP

Adopt(s) ==
  IF Adopts(s)
    THEN [s EXCEPT !.left = @ - 1, !.count = @ + 1, !.uni[s.count + 1] = "pending",
                   !.queue = Append(@, [id |-> s.count + 1, read |-> 0])]
    ELSE [s EXCEPT !.at = 1, !.moved = FALSE]

(* Vec::swap_remove                                                        *)
SwapRemove(q, k) == [j \in 1..(Len(q) - 1) |-> IF j = k THEN q[Len(q)] ELSE q[j]]

(* A stream that is not classified is passed over.  Variant: it is waited  *)
(* for.                                                                    *)
WaitsFor(s) == [s EXCEPT !.do = "wait"]
PassesOver(s) == [s EXCEPT !.at = @ + 1]

(* What is there of a header is read; its end is seen for nothing, but     *)
(* only while something is left.  A control stream ends the poll at once.  *)
Look(s) ==
  LET i == s.queue[s.at].id
      unread == peer.head[i] - s.queue[s.at].read
  IN  CASE s.left > 0 /\ unread > 0 ->
             [s EXCEPT !.left = @ - 1, !.queue[s.at].read = @ + 1]
        [] unread = 0 /\ Settled(i) /\ (s.left > 0 \/ i \notin peer.ended) ->
             [s EXCEPT !.queue = SwapRemove(@, s.at), !.uni[i] = Sorted(i), !.moved = TRUE,
                       !.do = IF Class(i) = "control" THEN "found" ELSE "go"]
        [] OTHER -> PassesOver(s)

(* When all were looked at, a peer that opened too many is refused, and    *)
(* what was classified gives reason to start again.                        *)
EndRound(s) ==
  IF s.count > STREAM_CAP THEN [s EXCEPT !.do = "over"]
  ELSE IF s.moved THEN [s EXCEPT !.at = 0]
  ELSE [s EXCEPT !.do = "wait"]

Turn(s) == CASE s.at = 0 -> Adopt(s)
             [] s.at \in DOMAIN s.queue -> Look(s)
             [] OTHER -> EndRound(s)

(* Every round but the last classifies one of STREAM_CAP + 1 streams.      *)
Turns == BUDGET + STREAM_CAP + 1 + (STREAM_CAP + 2) * (STREAM_CAP + 3)

Polled(left) ==
  LET next(s) == {IF s.do = "go" THEN Turn(s) ELSE s}
      after[k \in 0..Turns] ==
        IF k = 0 THEN {[do |-> "go", at |-> 0, moved |-> FALSE, left |-> left,
                        count |-> Cardinality(Arrivals), queue |-> pending, uni |-> uni]}
        ELSE UNION {next(s) : s \in after[k - 1]}
  IN  after[Turns]

(* One poll of the classification.  What is pending when the control       *)
(* stream is found goes on so in the session, and in no order there.       *)
SortPoll(left) ==
  \/ ~Open /\ Fail
  \/ /\ Open
     /\ \E s \in Polled(left) :
          \/ s.do = "over" /\ Fail
          \/ /\ s.do # "over"
             /\ uni' = s.uni
             /\ pending' = IF s.do = "found" THEN <<>> ELSE s.queue
             /\ phase' = IF s.do = "found" THEN "settings" ELSE "sorting"
             /\ UNCHANGED <<plan, peer, bi, armed, conn, web>>

(* Request::handshake: our control stream is opened and SETTINGS written,  *)
(* at once or after the stream was opened in an earlier pass; the same     *)
(* poll goes on to the classification.                                     *)
OpenControl == phase = "opening" /\ \E left \in {BUDGET - 2, BUDGET - 1} : SortPoll(left)

Sort == phase = "sorting" /\ SortPoll(BUDGET)

(* read_settings.                                                          *)
ReadSettings ==
  /\ phase = "settings"
  /\ \/ Open /\ peer.settings /\ plan.settings = "good"
        /\ phase' = "connect" /\ UNCHANGED <<plan, peer, uni, pending, bi, armed, conn, web>>
     \/ (~Open \/ (peer.settings /\ plan.settings # "good")) /\ Fail

(* Variant: the guard is not armed until the request was answered.         *)
UnguardedReadConnect ==
  /\ phase = "connect"
  /\ \/ Open /\ peer.request /\ plan.request # "invalid"
        /\ phase' = "request" /\ UNCHANGED <<plan, peer, uni, pending, bi, armed, conn, web>>
     \/ (~Open \/ (peer.request /\ plan.request = "invalid")) /\ Fail

(* accept_bi and read_connect: the request is there, guarded.              *)
ReadConnect ==
  /\ phase = "connect"
  /\ \/ Open /\ peer.request /\ plan.request # "invalid"
        /\ phase' = "request" /\ armed' = TRUE
        /\ UNCHANGED <<plan, peer, uni, pending, bi, conn, web>>
     \/ (~Open \/ (peer.request /\ plan.request = "invalid")) /\ Fail

(* The request is dropped: its guard closes, unless the peer was answered. *)
GuardDrop == IF armed THEN CloseConn("general") ELSE UNCHANGED conn

(* Session::establish: early streams of this session are ready, those that *)
(* are mid-header go on; the driver has the session from now on.           *)
Establish ==
  /\ uni' = [i \in DOMAIN uni |->
               IF uni[i] = "early" THEN (IF plan.uni[i] = "own" THEN "ready" ELSE "dropped")
               ELSE uni[i]]
  /\ web' = [web EXCEPT !.driven = TRUE]

(* Request::respond with the protocol the program speaks.                  *)
Respond ==
  /\ phase = "request"
  /\ \/ /\ Open /\ plan.request = "offered"
        /\ phase' = "running" /\ armed' = FALSE
        /\ Establish
        /\ UNCHANGED <<plan, peer, pending, bi, conn>>
     \/ (~Open \/ plan.request # "offered") /\ GuardDrop /\ Abandon

(* Request::reject: the answer is written and finished; then, once the     *)
(* peer has it or after a grace period, the connection is closed.  The     *)
(* caller may drop the future while it waits.                              *)
Reject ==
  /\ phase = "request"
  /\ \/ Open /\ phase' = "refusing" /\ UNCHANGED <<plan, peer, uni, pending, bi, armed, conn, web>>
     \/ ~Open /\ GuardDrop /\ Abandon

Rejected ==
  /\ phase = "refusing"
  /\ \/ CloseConn("noerror") /\ Abandon
     \/ GuardDrop /\ Abandon

(* Peer::drop of network.rs: closes whatever there is.                     *)
Release ==
  /\ phase # "gone"
  /\ CloseConn("released")
  /\ phase' = IF phase = "running" THEN "running" ELSE "gone"
  /\ armed' = FALSE
  /\ UNCHANGED <<plan, peer, uni, pending, bi, web>>

-----------------------------------------------------------------------------
Running == phase = "running"

(* classify_uni: what is not a stream of this session is dropped, but for  *)
(* critical streams, of which some are held, up to a limit.                *)
Free == HELD - Cardinality({i \in DOMAIN uni : uni[i] = "held"})
Critical(ready) == {i \in ready : Class(i) \in {"control", "qpack"}}
Holdable(ready) ==
  {h \in SUBSET Critical(ready) :
     Cardinality(h) = IF Free <= 0 THEN 0
                      ELSE IF Cardinality(Critical(ready)) < Free THEN Cardinality(Critical(ready))
                      ELSE Free}

(* Variant: a stream is taken whatever session it names.                   *)
TrustingClassified(i, held) ==
  IF Class(i) \in {"own", "other"} THEN "ready" ELSE IF i \in held THEN "held" ELSE "dropped"

Classified(i, held) ==
  IF Class(i) = "own" THEN "ready" ELSE IF i \in held THEN "held" ELSE "dropped"

(* Session::poll_accept_uni: a ready stream first; else every arrival is   *)
(* adopted and everything pending classified.                              *)
AcceptUni ==
  /\ Running
  /\ LET waiting == {i \in DOMAIN uni :
                       uni[i] = "pending" \/ (uni[i] = "unseen" /\ i <= peer.opened)}
         settled == {i \in waiting : Settled(i)}
         sorted(held) == [i \in DOMAIN uni |-> IF i \in settled THEN Classified(i, held)
                                               ELSE IF i \in waiting THEN "pending" ELSE uni[i]]
         ready(at) == {i \in DOMAIN uni : at[i] = "ready"}
     IN  \/ \E i \in ready(uni) : uni' = [uni EXCEPT ![i] = "accepted"]
         \/ /\ ready(uni) = {} /\ Open
            /\ \E held \in Holdable(settled) :
                 /\ sorted(held) # uni
                 /\ \/ ready(sorted(held)) = {} /\ uni' = sorted(held)
                    \/ \E i \in ready(sorted(held)) : uni' = [sorted(held) EXCEPT ![i] = "accepted"]
  /\ UNCHANGED <<plan, peer, pending, bi, phase, armed, conn, web>>

(* PendingBi::poll_classify and classify_bi.                               *)
BiSettled(i) == peer.biHead[i] = HeaderLength(plan.bi[i]) \/ i \in peer.biEnded
BiClassified(i) ==
  IF peer.biHead[i] = HeaderLength(plan.bi[i]) /\ plan.bi[i] = "own" THEN "ready" ELSE "dropped"

(* Variant: an arrival is adopted once the one before it was classified.   *)
PatientAcceptBi ==
  /\ Running /\ Open
  /\ \E i \in DOMAIN bi :
       /\ i <= peer.biOpened /\ BiSettled(i) /\ bi[i] = "unseen"
       /\ \A j \in 1..(i - 1) : bi[j] # "unseen"
       /\ bi' = [bi EXCEPT ![i] = IF BiClassified(i) = "ready" THEN "accepted" ELSE "dropped"]
  /\ UNCHANGED <<plan, peer, uni, pending, phase, armed, conn, web>>

(* Session::poll_accept_bi.                                                *)
AcceptBi ==
  /\ Running
  /\ LET waiting == {i \in DOMAIN bi :
                       bi[i] = "pending" \/ (bi[i] = "unseen" /\ i <= peer.biOpened)}
         sorted == [i \in DOMAIN bi |-> IF i \in waiting /\ BiSettled(i) THEN BiClassified(i)
                                        ELSE IF i \in waiting THEN "pending" ELSE bi[i]]
         ready(at) == {i \in DOMAIN bi : at[i] = "ready"}
     IN  \/ \E i \in ready(bi) : bi' = [bi EXCEPT ![i] = "accepted"]
         \/ /\ ready(bi) = {} /\ Open /\ sorted # bi
            /\ \/ ready(sorted) = {} /\ bi' = sorted
               \/ \E i \in ready(sorted) : bi' = [sorted EXCEPT ![i] = "accepted"]
  /\ UNCHANGED <<plan, peer, uni, pending, phase, armed, conn, web>>

-----------------------------------------------------------------------------
(* Session::close: the first close is recorded; the driver writes the      *)
(* capsule, and closes the connection after a grace period.                *)
Close ==
  /\ Running /\ web.closed = "none"
  /\ web' = [web EXCEPT !.closed = "local", !.closing = TRUE, !.offset = 0, !.left = GRACE]
  /\ UNCHANGED <<plan, peer, uni, pending, bi, phase, armed, conn>>

(* Session::poll_closed: nothing, or what the application is told.         *)
Told == IF Open THEN "nothing" ELSE IF web.closed # "none" THEN web.closed ELSE conn

(* One operation of Driver::step on a session: take a capsule or read a    *)
(* chunk.  "go" continues, "wait" ends the pass.                           *)
Operated(s, taken) ==
  LET chunk == SubSeq(plan.data, s.read + 1, peer.data)
  IN  CASE taken.what = "close" -> [s EXCEPT !.do = "capsule", !.capsules = taken.rest]
        [] taken.what = "other" -> [s EXCEPT !.capsules = taken.rest]
        [] taken.what = "invalid" -> [s EXCEPT !.do = "general"]
        [] taken.what = "none" /\ chunk # <<>> ->
             IF Len(taken.rest.frames) + Len(chunk) > MESSAGE_LIMIT
               THEN [s EXCEPT !.do = "general"]
               ELSE [s EXCEPT !.read = peer.data,
                              !.capsules = [taken.rest EXCEPT !.frames = @ \o chunk]]
        [] OTHER -> [s EXCEPT !.do = IF peer.fin THEN "ended" ELSE "wait",
                              !.capsules = taken.rest]

(* A pass is at most OPERATIONS of them.  (The sets of one element make    *)
(* TLC evaluate each step once.)                                           *)
ReadConnectStream ==
  LET next(s) == {IF s.do = "go" THEN Operated(s, t) ELSE s : t \in {Take(s.capsules)}}
      after[k \in 0..OPERATIONS] ==
        IF k = 0 THEN {[do |-> "go", read |-> web.read, capsules |-> web.capsules]}
        ELSE UNION {next(s) : s \in after[k - 1]}
  IN  after[OPERATIONS]

(* Writing our own capsule: some of what is left, or an error.             *)
Written == IF web.closing THEN web.offset..CAPSULE ELSE {web.offset}
WriteFails == web.closing /\ web.offset < CAPSULE /\ peer.stopped

(* Variant: the deadline of the close is not looked at.                    *)
PatientDriverStep ==
  /\ Running /\ web.driven /\ Open
  /\ \E offset \in Written, s \in ReadConnectStream :
           /\ web' = [web EXCEPT !.offset = offset, !.read = s.read, !.capsules = s.capsules,
                                 !.driven = s.do \in {"go", "wait"},
                                 !.closed = IF s.do = "capsule" /\ @ = "none" THEN "peer" ELSE @]
           /\ IF s.do \in {"go", "wait"} THEN UNCHANGED conn ELSE CloseConn(s.do)
  /\ UNCHANGED <<plan, peer, uni, pending, bi, phase, armed>>

(* Driver::step: a closed connection is forgotten; a close whose grace has *)
(* passed, or that cannot be written, closes the connection; then the      *)
(* CONNECT stream is read.                                                 *)
DriverStep ==
  /\ Running /\ web.driven
  /\ \/ ~Open /\ web' = [web EXCEPT !.driven = FALSE] /\ UNCHANGED conn
     \/ /\ Open /\ ((web.closing /\ web.left = 0) \/ WriteFails)
        /\ CloseConn("local") /\ web' = [web EXCEPT !.driven = FALSE]
     \/ /\ Open /\ ~(web.closing /\ web.left = 0) /\ ~WriteFails
        /\ \E offset \in Written, s \in ReadConnectStream :
                 /\ web' = [web EXCEPT !.offset = offset, !.read = s.read,
                                       !.capsules = s.capsules,
                                       !.driven = s.do \in {"go", "wait"},
                                       !.closed = IF s.do = "capsule" /\ @ = "none"
                                                     THEN "peer" ELSE @]
                 /\ IF s.do \in {"go", "wait"} THEN UNCHANGED conn ELSE CloseConn(s.do)
  /\ UNCHANGED <<plan, peer, uni, pending, bi, phase, armed>>

(* The grace period passes.                                                *)
WebTick ==
  /\ web.closing /\ Open /\ web.left > 0
  /\ web' = [web EXCEPT !.left = @ - 1]
  /\ UNCHANGED <<plan, peer, uni, pending, bi, phase, armed, conn>>

WebServer ==
  \/ OpenControl \/ Sort \/ ReadSettings \/ ReadConnect \/ Respond \/ Rejected
  \/ AcceptUni \/ AcceptBi \/ DriverStep \/ WebTick

WebNext == PeerNext \/ WebServer \/ Reject \/ Close \/ Release

(* The worker polls a future that was woken and runs the driver in every   *)
(* pass; the application goes on accepting; the grace period ends.         *)
WebFairness ==
  /\ WF_webVars(OpenControl) /\ WF_webVars(Sort) /\ WF_webVars(ReadSettings)
  /\ WF_webVars(ReadConnect) /\ WF_webVars(Respond) /\ WF_webVars(Rejected)
  /\ WF_webVars(AcceptUni) /\ WF_webVars(AcceptBi) /\ WF_webVars(DriverStep)
  /\ WF_webVars(WebTick)

WebSpec == WebInit /\ [][WebNext]_webVars /\ WebFairness

-----------------------------------------------------------------------------
(* A stream that the peer opened for this session, before or after its     *)
(* CONNECT was answered, is never dropped unless it ended before it said   *)
(* so; and the application is never given one that did not name this       *)
(* session with a whole header.                                            *)
StreamsSorted ==
  /\ \A i \in DOMAIN uni :
       /\ uni[i] = "dropped" /\ plan.uni[i] = "own" => i \in peer.ended
       /\ uni[i] \in {"ready", "accepted"} =>
            plan.uni[i] = "own" /\ peer.head[i] = HeaderLength("own")
  /\ \A i \in DOMAIN bi :
       /\ bi[i] = "dropped" /\ plan.bi[i] = "own" => i \in peer.biEnded
       /\ bi[i] \in {"ready", "accepted"} =>
            plan.bi[i] = "own" /\ peer.biHead[i] = HeaderLength("own")

(* A handshake that ends without a session, at whatever point and for      *)
(* whatever reason, leaves no open connection behind: nothing else would   *)
(* close it.                                                               *)
AbandonedIsClosed == phase = "gone" => ~Open

(* The driver takes the CONNECT stream for closed by the peer, or for      *)
(* invalid, only when the bytes it was sent say so, in whatever chunks     *)
(* they come and however capsules and frames overlap.                      *)
CapsuleAgrees ==
  LET bytes == SubSeq(plan.data, 1, peer.data)
  IN  /\ web.closed = "peer" => SaysClose(bytes)
      /\ Running /\ conn = "general" => SaysNonsense(bytes)

(* A peer that has sent a control stream, good SETTINGS and a request for  *)
(* the protocol gets its session whatever else it opened, in any order,    *)
(* even if those streams stall for ever; unless it opened more of them     *)
(* than the handshake takes.                                               *)
Promised ==
  /\ Open /\ plan.settings = "good" /\ plan.request = "offered" /\ peer.settings /\ peer.request
  /\ \E i \in DOMAIN uni : plan.uni[i] = "control" /\ peer.head[i] = 1

HandshakeSettles ==
  Promised ~> \/ Running \/ phase = "refusing" \/ conn \in {"lost", "released"}
              \/ conn = "general" /\ peer.opened > STREAM_CAP

(* native/src/transport/web.rs:226 - "Only now, with everything adopted    *)
(* classified: the peer sent this many streams and none of them was a      *)
(* control stream" - of a refusal while streams are sorted.                *)
RefusedForTheControl ==
  [][(phase \in {"opening", "sorting"} /\ Open /\ conn' = "general")
        => \A i \in 1..STREAM_CAP + 1 :
             i <= peer.opened /\ plan.uni[i] = "control" => peer.head[i] = 0]_webVars

(* Every stream of the session reaches the application once its header is  *)
(* whole, though other streams stall mid-header for ever.                  *)
StreamsArrive ==
  /\ \A i \in 1..STREAM_CAP + 1 :
       (Running /\ i \in DOMAIN uni /\ plan.uni[i] = "own" /\ peer.head[i] = HeaderLength("own"))
         ~> (~Open \/ (i \in DOMAIN uni /\ uni[i] = "accepted"))
  /\ \A i \in 1..2 :
       (Running /\ i \in DOMAIN bi /\ plan.bi[i] = "own" /\ peer.biHead[i] = HeaderLength("own"))
         ~> (~Open \/ (i \in DOMAIN bi /\ bi[i] = "accepted"))

(* A close, ours or the capsule of the peer, ends the connection, though   *)
(* the peer may stop reading, writing or answering at any point.           *)
CloseEnds == (Running /\ (web.closing \/ SaysClose(SubSeq(plan.data, 1, peer.data)))) ~> ~Open
=============================================================================
