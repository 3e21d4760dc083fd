------------------------------ MODULE Endpoint ------------------------------
(***************************************************************************)
(* The QUIC endpoint (native/src/transport/quic.rs) under its worker: a    *)
(* pass reads the socket, serves every connection, empties the output      *)
(* queue, lets the tasks that were woken run, and sleeps when nothing is   *)
(* left to do (Io::step of network.rs, run of worker.rs, the timers and    *)
(* machines of runtime.rs).                                                *)
(*                                                                         *)
(* A connection of quinn-proto is what the endpoint sees of it: packets it *)
(* owes, events it reports, how much the peer lets it write, what it has   *)
(* received, its draining timer.  A task is polled when its waker was      *)
(* woken, as a Waker promises; waking one also notifies the worker.  The   *)
(* socket reports an edge when a datagram arrives or, if the endpoint asks *)
(* for it, when there is room again, and none before it said WouldBlock.   *)
(***************************************************************************)
EXTENDS Integers, Sequences, FiniteSets, FiniteSetsExt, SequencesExt

CONSTANTS Conns,      \* connections the peers make
          Plans,      \* what happens in a behaviour, see plan
          OPERATIONS, \* transport operations of a connection in a pass
          BATCH,      \* packets, and events, of a connection in a pass (8)
          RECEIVES,   \* datagrams of a pass (32)
          OUT,        \* datagrams the output queue holds (64)
          ROOM,       \* datagrams the kernel takes before it blocks
          WINDOW      \* writes the peer allows before it acknowledges one

(* What the peers send, and what happens in a behaviour.                   *)
Sent == {"data", "fin", "close"}
PlanShape ==
  [does : [Conns -> [hello : {"wanted", "never"}, messages : Nat, drops : BOOLEAN,
                     closer : {"us", "peer"}, sends : Seq(Sent)]],
   limit : Nat, reversed : BOOLEAN, alarms : Nat]

ASSUME EndpointAssumption ==
  /\ {OPERATIONS, BATCH, RECEIVES, OUT, ROOM, WINDOW} \subseteq Nat \ {0}
  /\ IsFiniteSet(Conns)
  /\ Plans \subseteq PlanShape

VARIABLES
  plan,    \* does: [hello, messages, drops, closer, sends] of each connection; limit:
           \* connections the endpoint accepts; reversed: the order of its tasks;
           \* alarms: times the owner's timer is set
  peer,    \* [hello, left]: the far side
  sock,    \* [rx, tx, ready]: datagrams of the kernel, and its edge
  worker,  \* [pc, round, todo, next, more, blocked, sched, notified, ready]
  out,     \* Endpoint.out: <<connection, packet>>
  conn,    \* of each connection: quinn's part, then Shared
  app,     \* of each connection: [send, left, recv, watch, ended, backlog]
  machines,\* [incoming, woken, polled]: pending connections, woken tasks,
           \* and those this pass polls
  alarm    \* [at, waiting, left]: one Timer of the registry

vars == <<plan, peer, sock, worker, out, conn, app, machines, alarm>>

Tasks == {"send", "recv", "watch"}
ALARM == <<"timer", "alarm">>   \* the task that polls the timer

Fresh == [known |-> TRUE, owed |-> <<>>, window |-> WINDOW, inbox |-> <<>>,
          events |-> <<>>, timer |-> "off", closing |-> FALSE,
          error |-> "none", waiters |-> {}, budget |-> OPERATIONS,
          needs |-> TRUE, acked |-> FALSE]

Init ==
  /\ plan \in Plans
  /\ peer = [c \in Conns |-> [hello |-> plan.does[c].hello, left |-> plan.does[c].sends]]
  /\ sock = [rx |-> <<>>, tx |-> <<>>, ready |-> FALSE]
  /\ worker = [pc |-> "receive", round |-> 0, todo |-> <<>>, next |-> 0, more |-> FALSE,
               blocked |-> FALSE, sched |-> FALSE, notified |-> FALSE, ready |-> FALSE]
  /\ out = <<>>
  /\ conn = [c \in Conns |-> [Fresh EXCEPT !.known = FALSE]]
  /\ app = [c \in Conns |-> [send |-> "none", left |-> plan.does[c].messages, recv |-> "none",
                             watch |-> "none", ended |-> FALSE, backlog |-> FALSE]]
  /\ machines = [incoming |-> <<>>, woken |-> {ALARM}, polled |-> <<>>]
  /\ alarm = [at |-> IF plan.alarms > 0 THEN "armed" ELSE "off", waiting |-> FALSE, left |-> plan.alarms]

Known == {c \in Conns : conn[c].known}
At(label) == worker.pc = label

(* Shared::wake, on a connection that becomes r: its waiters are taken and *)
(* woken, and each of them notifies the worker.                            *)
Wakes(c, r) ==
  /\ conn' = [conn EXCEPT ![c] = [r EXCEPT !.waiters = {}]]
  /\ machines' = [machines EXCEPT !.woken = @ \cup {<<c, t>> : t \in r.waiters}]

Notified(c, r) == worker.notified \/ r.waiters # {}

-----------------------------------------------------------------------------
(* Endpoint::step receives: it stops at the limit of a pass, or at         *)
(* WouldBlock, and only the second says that an edge will follow.          *)
Rotated ==
  LET ids == SetToSeq(Known)
      n == Len(ids)
  IN IF n = 0 THEN <<>> ELSE [i \in 1 .. n |-> ids[1 + ((i - 1 + worker.next) % n)]]

ServeAll(more) ==
  LET ids == Rotated
  IN /\ worker' = [worker EXCEPT !.pc = "serve", !.round = 0, !.more = more, !.todo = ids,
                                 !.next = IF ids = <<>> THEN @ ELSE (@ + 1) % Len(ids)]
     /\ UNCHANGED <<plan, peer, sock, out, conn, app, machines, alarm>>

ReceiveEnds ==
  /\ At("receive")
  /\ \/ worker.round = RECEIVES /\ ServeAll(TRUE)
     \/ worker.round < RECEIVES /\ sock.rx = <<>> /\ ServeAll(FALSE)

(* quinn_proto::Connection::handle_event.  What a datagram brings takes    *)
(* two reads, the second of which frees enough of the window to owe the    *)
(* peer an update.                                                         *)
Chunks(kind) == IF kind = "data" THEN <<"note", "data">> ELSE <<"fin">>

Handled(r, kind) ==
  IF r.closing THEN r
  ELSE CASE kind = "ack" -> [r EXCEPT !.window = @ + 1, !.events = Append(@, "writable")]
         [] kind = "finack" -> [r EXCEPT !.events = Append(@, "finished")]
         [] kind \in {"data", "fin"} ->
              [r EXCEPT !.inbox = @ \o Chunks(kind), !.events = Append(@, "readable")]
         [] kind = "close" ->
              [r EXCEPT !.closing = TRUE, !.owed = <<>>, !.timer = "armed",
                        !.events = Append(@, "lost")]

Taken == /\ sock' = [sock EXCEPT !.rx = Tail(@)]
         /\ UNCHANGED <<plan, out, app, alarm>>

ReceiveHello ==
  /\ At("receive") /\ worker.round < RECEIVES /\ sock.rx # <<>>
  /\ LET c == Head(sock.rx)[1]
     IN /\ Head(sock.rx)[2] = "hello"
        /\ IF Cardinality(Known) >= plan.limit
             THEN /\ peer' = [peer EXCEPT ![c].hello = "ignored"]
                  /\ UNCHANGED <<conn, machines>>
             ELSE /\ peer' = [peer EXCEPT ![c].hello = "in"]
                  /\ conn' = [conn EXCEPT ![c] = Fresh]
                  /\ machines' = [machines EXCEPT !.incoming = Append(@, c)]
  /\ worker' = [worker EXCEPT !.round = @ + 1]
  /\ Taken

ReceivePacket ==
  /\ At("receive") /\ worker.round < RECEIVES /\ sock.rx # <<>>
  /\ LET c == Head(sock.rx)[1]
         kind == Head(sock.rx)[2]
     IN /\ kind # "hello"
        /\ IF conn[c].known
             THEN /\ Wakes(c, Handled(conn[c], kind))
                  /\ worker' = [worker EXCEPT !.round = @ + 1, !.notified = Notified(c, conn[c])]
             ELSE /\ worker' = [worker EXCEPT !.round = @ + 1]
                  /\ UNCHANGED <<conn, machines>>
  /\ Taken
  /\ UNCHANGED peer

-----------------------------------------------------------------------------
(* Endpoint::step serves one connection: a new budget, its timer, at most  *)
(* BATCH packets while there is room, at most BATCH events.  A full queue  *)
(* asks for another pass unless the socket is what blocks it.              *)
Room == OUT - Len(out)

Occupied(r) == TRUE   \* variant: a drained connection keeps its place
Undrained(r) == r.timer # "due"

Served(r) ==
  LET room == Room
      due == r.timer = "due"
      owed == IF due THEN <<>> ELSE r.owed
      sent == Min({Len(owed), BATCH, room})
      full == room < BATCH /\ sent = room
      read == Min({Len(r.events), BATCH})
      news == ToSet(SubSeq(r.events, 1, read))
  IN [packets |-> SubSeq(owed, 1, sent),
      wakes |-> r.needs \/ due \/ read > 0,
      next |-> [r EXCEPT !.owed = SubSeq(owed, sent + 1, Len(owed)),
                         !.events = SubSeq(@, read + 1, Len(@)),
                         !.known = Undrained(r), !.timer = IF due THEN "off" ELSE @,
                         !.budget = OPERATIONS,
                         !.needs = (full /\ ~worker.blocked) \/ BATCH \in {sent, read},
                         !.error = IF "lost" \in news THEN "remote" ELSE @,
                         !.acked = @ \/ "finished" \in news]]

Serve ==
  /\ At("serve") /\ worker.todo # <<>>
  /\ LET c == Head(worker.todo)
         s == Served(conn[c])
     IN /\ out' = out \o [i \in 1 .. Len(s.packets) |-> <<c, s.packets[i]>>]
        /\ IF s.wakes THEN Wakes(c, s.next)
                      ELSE conn' = [conn EXCEPT ![c] = s.next] /\ UNCHANGED machines
        /\ worker' = [worker EXCEPT !.todo = Tail(@),
                                    !.notified = @ \/ (s.wakes /\ conn[c].waiters # {})]
  /\ UNCHANGED <<plan, peer, sock, app, alarm>>

ServeEnds ==
  /\ At("serve") /\ worker.todo = <<>>
  /\ worker' = [worker EXCEPT !.pc = "send"]
  /\ UNCHANGED <<plan, peer, sock, out, conn, app, machines, alarm>>

(* Endpoint::step sends: the first datagram that passes after WouldBlock   *)
(* gives every connection another turn.                                    *)
AllNeed == [c \in Conns |-> IF conn[c].known THEN [conn[c] EXCEPT !.needs = TRUE] ELSE conn[c]]

Send ==
  /\ At("send") /\ out # <<>> /\ Len(sock.tx) < ROOM
  /\ sock' = [sock EXCEPT !.tx = Append(@, Head(out))]
  /\ out' = Tail(out)
  /\ worker' = [worker EXCEPT !.blocked = FALSE]
  /\ conn' = IF worker.blocked THEN AllNeed ELSE conn
  /\ UNCHANGED <<plan, peer, app, machines, alarm>>

SendEnds ==
  /\ At("send") /\ (out = <<>> \/ Len(sock.tx) >= ROOM)
  /\ worker' = [worker EXCEPT !.pc = "timers", !.blocked = @ \/ out # <<>>]
  /\ UNCHANGED <<plan, peer, sock, out, conn, app, machines, alarm>>

-----------------------------------------------------------------------------
(* Timers::advance: a timer that is due wakes those who wait for it.       *)
Due == alarm.at = "due" /\ alarm.waiting

Advance ==
  /\ alarm' = [alarm EXCEPT !.waiting = @ /\ ~Due]
  /\ machines' = IF Due THEN [machines EXCEPT !.woken = @ \cup {ALARM}] ELSE machines

(* Io::step: the timers, then Runtime::step takes what was woken.          *)
RunTimers ==
  /\ At("timers")
  /\ alarm' = [alarm EXCEPT !.waiting = @ /\ ~Due]
  /\ LET woken == machines.woken \cup (IF Due THEN {ALARM} ELSE {})
         order == SetToSeq(woken)
     IN machines' = [machines EXCEPT !.woken = {},
                                     !.polled = IF plan.reversed THEN Reverse(order) ELSE order]
  /\ worker' = [worker EXCEPT !.pc = "tasks", !.ready = FALSE, !.notified = @ \/ Due]
  /\ UNCHANGED <<plan, peer, sock, out, conn, app>>

Pending(c, t) == machines' = [machines EXCEPT !.polled = Tail(@)]

(* Shared::enter, when it lets an operation pass and when it does not.     *)
Enters(r) == r.error = "none" /\ r.budget > 0
SilentParked(r, t) == [r EXCEPT !.waiters = @ \cup {t}]   \* variant: no pass is asked for
Parked(r, t) == [r EXCEPT !.waiters = @ \cup {t}, !.needs = @ \/ r.budget = 0]
Consumed(r) == [r EXCEPT !.budget = @ - 1]
Owing(r, kind) == [r EXCEPT !.owed = IF r.closing THEN @ ELSE Append(@, kind), !.needs = TRUE]

Polling(c, t) == At("tasks") /\ machines.polled # <<>> /\ Head(machines.polled) = <<c, t>>

Become(c, r) == conn' = [conn EXCEPT ![c] = r]

(* SendStream::poll_write.                                                 *)
Write(c) ==
  /\ Polling(c, "send") /\ app[c].send = "write" /\ app[c].left > 0
  /\ LET r == conn[c]
     IN IF Enters(r) /\ r.window > 0
          THEN /\ Become(c, Owing(Consumed([r EXCEPT !.window = @ - 1]), "data"))
               /\ app' = [app EXCEPT ![c].left = @ - 1]
               /\ UNCHANGED machines
          ELSE IF r.error = "none"
                 THEN Become(c, Parked(r, "send")) /\ Pending(c, "send") /\ UNCHANGED app
                 ELSE app' = [app EXCEPT ![c].send = "failed"] /\ UNCHANGED <<conn, machines>>
  /\ UNCHANGED <<plan, peer, sock, worker, out, alarm>>

(* SendStream::finish, or its Drop before the end: FIN or a reset.         *)
Finish(c) ==
  /\ Polling(c, "send") /\ app[c].send = "write"
  /\ \/ /\ app[c].left = 0 /\ ~plan.does[c].drops
        /\ Become(c, Owing(conn[c], "fin")) /\ app' = [app EXCEPT ![c].send = "closed"]
     \/ /\ plan.does[c].drops
        /\ Become(c, Owing(conn[c], "reset")) /\ app' = [app EXCEPT ![c].send = "ended"]
  /\ UNCHANGED <<plan, peer, sock, worker, out, machines, alarm>>

(* SendStream::poll_closed: the stream's own outcome before the            *)
(* connection's.                                                           *)
SendClosed(c) ==
  /\ Polling(c, "send") /\ app[c].send = "closed"
  /\ LET r == conn[c]
     IN IF r.acked \/ r.error # "none"
          THEN /\ app' = [app EXCEPT ![c].send = IF r.acked THEN "ended" ELSE "failed"]
               /\ UNCHANGED <<conn, machines>>
          ELSE /\ Become(c, [r EXCEPT !.waiters = @ \cup {"send"}])
               /\ Pending(c, "send") /\ UNCHANGED app
  /\ UNCHANGED <<plan, peer, sock, worker, out, alarm>>

(* Connection::close_code, if it is this side that closes: the first       *)
(* reason stays, and every waiter hears of it.                             *)
CloseCode(c) ==
  /\ Polling(c, "send") /\ app[c].send \in {"ended", "failed"}
  /\ app' = [app EXCEPT ![c].send = "done"]
  /\ IF plan.does[c].closer = "us" /\ conn[c].error = "none"
       THEN LET r == conn[c]
                closed == [r EXCEPT !.error = "local", !.closing = TRUE,
                                    !.timer = IF r.closing THEN @ ELSE "armed",
                                    !.owed = IF r.closing THEN @ ELSE <<"close">>,
                                    !.needs = TRUE, !.waiters = {}]
            IN /\ Become(c, closed)
               /\ machines' = [machines EXCEPT !.woken = @ \cup {<<c, t>> : t \in r.waiters},
                                               !.polled = Tail(@)]
               /\ worker' = [worker EXCEPT !.notified = Notified(c, r)]
       ELSE Pending(c, "send") /\ UNCHANGED <<conn, worker>>
  /\ UNCHANGED <<plan, peer, sock, out, alarm>>

-----------------------------------------------------------------------------
(* RecvStream::read: what the next chunk is, and what taking it does.      *)
Blocked(c) == Enters(conn[c]) /\ conn[c].inbox = <<>>
Chunk(c) == Head(conn[c].inbox)

TakeChunk(c) ==
  LET r == [conn[c] EXCEPT !.inbox = Tail(@)]
  IN Become(c, CASE Chunk(c) = "fin" -> r
                 [] Chunk(c) = "note" -> Consumed(r)
                 [] Chunk(c) = "data" -> Owing(Consumed(r), "credit"))

Over(c) == app[c].ended \/ conn[c].error # "none"

ParkOn(c, t) == Become(c, Parked(conn[c], t)) /\ Pending(c, t) /\ UNCHANGED <<app, worker>>

(* RecvStream::poll_read: what poll_closed read ahead comes first, and the *)
(* one who takes the last of it wakes the others.                          *)
Read(c) ==
  /\ Polling(c, "recv") /\ app[c].recv = "read"
  /\ \/ /\ app[c].backlog
        /\ app' = [app EXCEPT ![c].backlog = FALSE]
        /\ Wakes(c, conn[c]) /\ worker' = [worker EXCEPT !.notified = Notified(c, conn[c])]
     \/ /\ ~app[c].backlog /\ Over(c)
        /\ app' = [app EXCEPT ![c].recv = "done"]
        /\ Pending(c, "recv") /\ UNCHANGED <<conn, worker>>
     \/ /\ ~app[c].backlog /\ ~Over(c) /\ Enters(conn[c]) /\ ~Blocked(c)
        /\ TakeChunk(c)
        /\ app' = [app EXCEPT ![c].ended = Chunk(c) = "fin"]
        /\ UNCHANGED <<machines, worker>>
     \/ /\ ~app[c].backlog /\ ~Over(c) /\ (conn[c].budget = 0 \/ Blocked(c))
        /\ ParkOn(c, "recv")
  /\ UNCHANGED <<plan, peer, sock, out, alarm>>

(* RecvStream::poll_closed reads ahead to see the end.                     *)
WatchClosed(c) ==
  /\ Polling(c, "watch") /\ app[c].watch = "wait"
  /\ \/ /\ app[c].ended \/ (~app[c].backlog /\ Over(c))
        /\ app' = [app EXCEPT ![c].watch = "done"]
        /\ Pending(c, "watch") /\ UNCHANGED <<conn, worker>>
     \/ /\ ~app[c].ended /\ app[c].backlog
        /\ Become(c, [conn[c] EXCEPT !.waiters = @ \cup {"watch"}])
        /\ Pending(c, "watch") /\ UNCHANGED <<app, worker>>
     \/ /\ ~app[c].backlog /\ ~Over(c) /\ Enters(conn[c]) /\ ~Blocked(c)
        /\ TakeChunk(c)
        /\ app' = [app EXCEPT ![c].ended = Chunk(c) = "fin", ![c].backlog = Chunk(c) # "fin"]
        /\ UNCHANGED <<machines, worker>>
     \/ /\ ~app[c].backlog /\ ~Over(c) /\ (conn[c].budget = 0 \/ Blocked(c))
        /\ ParkOn(c, "watch")
  /\ UNCHANGED <<plan, peer, sock, out, alarm>>

(* Peer::step and Runtime::spawn: an accepted connection gets its tasks,   *)
(* which run in the pass after this one.                                   *)
Accept ==
  /\ At("tasks") /\ machines.polled = <<>> /\ machines.incoming # <<>>
  /\ LET c == Head(machines.incoming)
     IN /\ app' = [app EXCEPT ![c].send = "write", ![c].recv = "read", ![c].watch = "wait"]
        /\ machines' = [machines EXCEPT !.incoming = Tail(@),
                                        !.woken = @ \cup {<<c, t>> : t \in Tasks}]
  /\ worker' = [worker EXCEPT !.ready = TRUE]
  /\ UNCHANGED <<plan, peer, sock, out, conn, alarm>>

(* Timer::poll, and the Timer::set of the machine that has it.             *)
PollTimer ==
  /\ Polling("timer", "alarm")
  /\ IF alarm.at = "due"
       THEN /\ alarm' = [alarm EXCEPT !.left = @ - 1,
                                      !.at = IF alarm.left > 1 THEN "armed" ELSE "off"]
            /\ UNCHANGED machines
       ELSE /\ alarm' = [alarm EXCEPT !.waiting = TRUE]
            /\ Pending("timer", "alarm")
  /\ UNCHANGED <<plan, peer, sock, worker, out, conn, app>>

TasksEnd ==
  /\ At("tasks") /\ machines.polled = <<>> /\ machines.incoming = <<>>
  /\ worker' = [worker EXCEPT !.pc = "deadline"]
  /\ UNCHANGED <<plan, peer, sock, out, conn, app, machines, alarm>>

-----------------------------------------------------------------------------
(* Io::deadline advances the timers as well; run looks at the notification *)
(* and at Job::ready after it.                                             *)
Deadline ==
  /\ At("deadline")
  /\ Advance
  /\ worker' = [worker EXCEPT !.pc = "decide", !.notified = @ \/ Due,
                              !.sched = alarm.at = "armed"
                                        \/ \E c \in Known : conn[c].timer # "off"]
  /\ UNCHANGED <<plan, peer, sock, out, conn, app>>

NeedsPass == worker.more \/ \E c \in Known : conn[c].needs

Decide ==
  /\ At("decide")
  /\ worker' = [worker EXCEPT !.pc = IF worker.notified \/ NeedsPass \/ worker.ready
                                       THEN "wake" ELSE "asleep"]
  /\ UNCHANGED <<plan, peer, sock, out, conn, app, machines, alarm>>

TimerDue == alarm.at = "due" \/ \E c \in Known : conn[c].timer = "due"

(* poll returns, for an edge or the deadline, and a pass begins.           *)
Wake ==
  /\ \/ At("wake")
     \/ At("asleep") /\ (sock.ready \/ (worker.sched /\ TimerDue))
  /\ worker' = [worker EXCEPT !.pc = "receive", !.notified = FALSE]
  /\ sock' = [sock EXCEPT !.ready = FALSE]
  /\ UNCHANGED <<plan, peer, out, conn, app, machines, alarm>>

WorkerNext ==
  \/ ReceiveEnds \/ ReceiveHello \/ ReceivePacket
  \/ Serve \/ ServeEnds \/ Send \/ SendEnds \/ RunTimers
  \/ \E c \in Conns : Write(c) \/ Finish(c) \/ SendClosed(c) \/ CloseCode(c)
                      \/ Read(c) \/ WatchClosed(c)
  \/ Accept \/ PollTimer \/ TasksEnd \/ Deadline \/ Decide \/ Wake

-----------------------------------------------------------------------------
(* The peers, the kernel and the clock.  What they do at other points of a *)
(* pass commutes to the next of the points they name.                      *)
Outside == worker.pc \in {"asleep", "wake"}

Arrives(c, kind) == sock' = [sock EXCEPT !.rx = Append(@, <<c, kind>>), !.ready = TRUE]

(* A peer that was ignored tries again after a while; of its tries only    *)
(* the first and the one that finds a place are kept.                      *)
Hello(c) ==
  /\ \/ peer[c].hello = "wanted" /\ (Outside \/ At("receive"))
     \/ peer[c].hello = "ignored" /\ Outside /\ Cardinality(Known) < plan.limit
  /\ peer' = [peer EXCEPT ![c].hello = "sent"]
  /\ Arrives(c, "hello")
  /\ UNCHANGED <<plan, worker, out, conn, app, machines, alarm>>

PeerSends(c) ==
  /\ (Outside \/ At("receive")) /\ peer[c].hello = "in" /\ peer[c].left # <<>>
  /\ peer' = [peer EXCEPT ![c].left = Tail(@)]
  /\ Arrives(c, Head(peer[c].left))
  /\ UNCHANGED <<plan, worker, out, conn, app, machines, alarm>>

(* A datagram leaves the kernel; the peer answers data and FIN.            *)
Leaves ==
  /\ (Outside \/ At("send")) /\ sock.tx # <<>>
  /\ LET c == Head(sock.tx)[1]
         kind == Head(sock.tx)[2]
         answer == CASE kind = "data" -> <<<<c, "ack">>>> [] kind = "fin" -> <<<<c, "finack">>>>
                     [] OTHER -> <<>>
     IN sock' = [sock EXCEPT !.tx = Tail(@), !.rx = @ \o answer,
                             !.ready = @ \/ worker.blocked \/ answer # <<>>]
  /\ UNCHANGED <<plan, peer, worker, out, conn, app, machines, alarm>>

(* The draining period of a connection outlasts the reading of its events. *)
Expire(c) ==
  /\ Outside /\ conn[c].known /\ conn[c].timer = "armed" /\ conn[c].events = <<>>
  /\ conn' = [conn EXCEPT ![c].timer = "due"]
  /\ UNCHANGED <<plan, peer, sock, worker, out, app, machines, alarm>>

Ring ==
  /\ (Outside \/ At("send") \/ At("deadline")) /\ alarm.at = "armed"
  /\ alarm' = [alarm EXCEPT !.at = "due"]
  /\ UNCHANGED <<plan, peer, sock, worker, out, conn, app, machines>>

World == Leaves \/ Ring \/ \E c \in Conns : Hello(c) \/ PeerSends(c) \/ Expire(c)

Next == WorkerNext \/ World

Fairness ==
  /\ WF_vars(WorkerNext) /\ SF_vars(Leaves) /\ WF_vars(Ring)
  /\ \A c \in Conns : WF_vars(Hello(c)) /\ WF_vars(PeerSends(c)) /\ SF_vars(Expire(c))

Spec == Init /\ [][Next]_vars /\ Fairness

-----------------------------------------------------------------------------
(* A worker that is asleep with nothing to wake it leaves nothing behind:  *)
(* no datagram unread, no task woken, no packet owed unless the socket is  *)
(* what holds it, and nobody parked on what could be done now              *)
(* (needs_pass, park and wake of quic.rs, advance of runtime.rs).          *)
Able(c, t) ==
  LET r == conn[c]
  IN \/ r.error # "none"
     \/ t = "send" /\ app[c].send = "write" /\ r.window > 0
     \/ t = "send" /\ app[c].send = "closed" /\ r.acked
     \/ t = "recv" /\ (app[c].backlog \/ app[c].ended \/ r.inbox # <<>>)
     \/ t = "watch" /\ (app[c].ended \/ (~app[c].backlog /\ r.inbox # <<>>))

Sleeping == At("asleep") /\ ~sock.ready /\ ~(worker.sched /\ TimerDue)

NothingStranded ==
  Sleeping =>
    /\ sock.rx = <<>> /\ machines.woken = {} /\ machines.incoming = <<>>
    /\ out # <<>> => worker.blocked /\ sock.tx # <<>>
    /\ ~Due
    /\ \A c \in Conns : /\ conn[c].known /\ conn[c].owed # <<>> => worker.blocked
                        /\ \A t \in conn[c].waiters : ~Able(c, t)

(* While the socket drains and the peers answer, every connection is       *)
(* accepted in its turn, everything its tasks do comes to an end, and its  *)
(* place is given back.                                                    *)
Finished(c) == app[c].send = "done" /\ app[c].recv = "done" /\ app[c].watch = "done"
              /\ ~conn[c].known
EveryoneServed == <>[](\A c \in Conns : plan.does[c].hello # "never" => Finished(c))
=============================================================================
