--------------------------- MODULE EndpointProofs ---------------------------
(***************************************************************************)
(* Nobody is left behind by an endpoint whose worker sleeps, for any       *)
(* connections, budgets, queues and windows; and a stream ends as it was   *)
(* meant to, for any header and any credit.                                *)
(***************************************************************************)
EXTENDS Endpoint, WebStream, FiniteSetTheorems, SequenceTheorems, TLAPS

Tags == (Conns \X Tasks) \cup {ALARM}
Stages == {"wanted", "never", "sent", "ignored", "in"}
Labels == {"receive", "serve", "send", "timers", "tasks", "deadline", "decide", "asleep", "wake"}

Packets == {"data", "fin", "reset", "credit", "close"}
Chunked == {"note", "data", "fin"}
News == {"writable", "readable", "finished", "lost"}

ConnFields == {"known", "owed", "window", "inbox", "events", "timer", "closing", "error",
               "waiters", "budget", "needs", "acked"}

IsConn(r) ==
  /\ DOMAIN r = ConnFields
  /\ r.known \in BOOLEAN /\ r.closing \in BOOLEAN /\ r.needs \in BOOLEAN /\ r.acked \in BOOLEAN
  /\ r.owed \in Seq(Packets) /\ r.inbox \in Seq(Chunked) /\ r.events \in Seq(News)
  /\ r.window \in Int /\ r.budget \in Nat /\ r.waiters \in SUBSET Tasks
  /\ r.timer \in {"off", "armed", "due"} /\ r.error \in {"none", "remote", "local"}

App == [send : {"none", "write", "closed", "ended", "failed", "done"}, left : Int,
        recv : {"none", "read", "done"}, watch : {"none", "wait", "done"},
        ended : BOOLEAN, backlog : BOOLEAN]

Datagrams == Conns \X ({"hello", "ack", "finack"} \cup Sent)
Socket == [rx : Seq(Datagrams), tx : Seq(Conns \X Packets), ready : BOOLEAN]
Working == [pc : Labels, round : Nat, todo : Seq(Conns), next : Nat, more : BOOLEAN,
            blocked : BOOLEAN, sched : BOOLEAN, notified : BOOLEAN, ready : BOOLEAN]
Machines == [incoming : Seq(Conns), woken : SUBSET Tags, polled : Seq(Tags)]
Alarm == [at : {"off", "armed", "due"}, waiting : BOOLEAN, left : Int]

TypeOK ==
  /\ plan \in PlanShape
  /\ peer \in [Conns -> [hello : Stages, left : Seq(Sent)]]
  /\ sock \in Socket /\ worker \in Working /\ machines \in Machines /\ alarm \in Alarm
  /\ out \in Seq(Conns \X Packets) /\ Len(out) <= OUT
  /\ conn = [c \in Conns |-> conn[c]] /\ \A c \in Conns : IsConn(conn[c])
  /\ app \in [Conns -> App]

(* A datagram to read, or to send, keeps the worker up or is followed by   *)
(* an edge of the socket.                                                  *)
SocketInv ==
  /\ sock.rx # <<>> => sock.ready \/ worker.more \/ worker.pc \in {"receive", "wake"}
  /\ worker.pc \notin {"receive", "serve", "send"} /\ out # <<>>
       => worker.blocked /\ (sock.tx # <<>> \/ sock.ready)

(* What a pass has emptied, and what is left that will start another one.  *)
PassInv ==
  /\ worker.pc # "tasks" => machines.polled = <<>>
  /\ worker.pc \in {"deadline", "decide", "asleep"} => machines.incoming = <<>>
  /\ worker.pc \in {"tasks", "deadline", "decide"}
       => machines.woken = {} \/ worker.notified \/ worker.ready
  /\ worker.pc = "asleep" =>
       /\ machines.woken = {} /\ ~worker.more
       /\ \A c \in Conns : conn[c].known => ~conn[c].needs
  /\ worker.pc \in {"decide", "asleep"} /\ (alarm.at = "armed" \/ Due) => worker.sched

(* A task is due to be polled once, if it is.                              *)
QueueInv ==
  /\ \A i, j \in 1..Len(machines.polled) : machines.polled[i] = machines.polled[j] => i = j
  /\ \A i \in 1..Len(machines.polled) : machines.polled[i] \notin machines.woken

Queued == machines.woken \cup ToSet(machines.polled)
TasksOf(c) == {t \in Tasks : <<c, t>> \in Queued}

(* A connection is accepted once.                                          *)
HelloInv ==
  /\ \A i, j \in 1..Len(sock.rx) :
       sock.rx[i][2] = "hello" /\ sock.rx[j] = sock.rx[i] => i = j
  /\ \A i \in 1..Len(sock.rx) :
       sock.rx[i][2] = "hello" => peer[sock.rx[i][1]].hello = "sent"
  /\ \A i, j \in 1..Len(machines.incoming) :
       machines.incoming[i] = machines.incoming[j] => i = j
  /\ \A i \in 1..Len(machines.incoming) :
       /\ peer[machines.incoming[i]].hello = "in"
       /\ app[machines.incoming[i]].recv = "none"
  /\ \A i \in 1..Len(worker.todo) : peer[worker.todo[i]].hello = "in"

Ready(r, a, t) ==
  \/ r.error # "none"
  \/ t = "send" /\ a.send = "write" /\ r.window > 0
  \/ t = "send" /\ a.send = "closed" /\ r.acked
  \/ t = "recv" /\ (a.backlog \/ a.ended \/ r.inbox # <<>>)
  \/ t = "watch" /\ (a.ended \/ (~a.backlog /\ r.inbox # <<>>))

(* A connection r with tasks a, of which those in q are due to be polled.  *)
(* It is born once; it drains only after it closed.                        *)
Life(r, a, q, stage) ==
  /\ stage # "in" => ~r.known /\ a.recv = "none"
  /\ stage = "in" /\ ~r.known => r.error # "none"
  /\ a.recv = "none" => /\ a.send = "none" /\ a.watch = "none" /\ ~a.ended /\ ~a.backlog
                        /\ r.waiters = {} /\ q = {}
  /\ r.timer # "off" => r.closing
  /\ r.timer = "due" => r.error # "none"
  /\ r.closing => r.error # "none" \/ \E i \in 1..Len(r.events) : r.events[i] = "lost"

(* What it owes, another pass or room in the socket gets going.            *)
Owes(r, blocked) == r.known /\ r.owed # <<>> => r.needs \/ blocked

(* A parked task could do nothing, or will be woken: by the pass that      *)
(* renews the budget, or by the reader of what was read ahead.             *)
Parks(r, a, q) ==
  /\ r.waiters \cap q = {}
  /\ a.backlog => "recv" \in q
  /\ a.recv = "read" => "recv" \in q \cup r.waiters
  /\ a.recv = "done" => a.ended \/ r.error # "none"
  /\ \A t \in r.waiters : Ready(r, a, t) =>
       (r.known /\ r.budget = 0 /\ r.needs) \/ (t = "watch" /\ a.backlog)

ConnOK(c) ==
  /\ Life(conn[c], app[c], TasksOf(c), peer[c].hello)
  /\ Owes(conn[c], worker.blocked)
  /\ Parks(conn[c], app[c], TasksOf(c))

ConnInv == \A c \in Conns : ConnOK(c)

EndpointInv == TypeOK /\ SocketInv /\ PassInv /\ QueueInv /\ HelloInv /\ ConnInv

-----------------------------------------------------------------------------
(* The elements of a finite set in some order, and in the reverse of it.   *)
LEMMA Listing ==
  ASSUME NEW S, IsFiniteSet(S), NEW s, s = SetToSeq(S)
  PROVE  /\ s \in Seq(S) /\ ToSet(s) = S
         /\ \A i, j \in 1..Len(s) : s[i] = s[j] => i = j
<1> DEFINE n == Cardinality(S)
<1>1. n \in Nat /\ ExistsBijection(1..n, S)
  BY FS_CardinalityType
<1>2. PICK f \in Bijection(1..n, S) : TRUE
  BY <1>1 DEF ExistsBijection
<1>3. f \in [1..n -> S] /\ IsInjective(f)
  BY <1>2 DEF Bijection, Injection
<1>4. s \in [1..n -> S] /\ IsInjective(s)
  BY <1>3 DEF SetToSeq
<1>5. s \in Injection(1..n, S)
  BY <1>4 DEF Injection
<1>6. IsFiniteSet(1..n) /\ Cardinality(1..n) = n
  BY <1>1, FS_Interval
<1>7. s \in Surjection(1..n, S)
  <2> HIDE DEF n
  <2> QED
    BY <1>5, <1>6, FS_Injection DEF n
<1>8. s \in Seq(S) /\ Len(s) = n /\ DOMAIN s = 1..n
  BY <1>1, <1>4
<1>9. ToSet(s) = S
  BY <1>7, <1>8 DEF Surjection, ToSet
<1> QED
  BY <1>4, <1>8, <1>9 DEF IsInjective

LEMMA Backwards ==
  ASSUME NEW S, NEW s \in Seq(S), \A i, j \in 1..Len(s) : s[i] = s[j] => i = j
  PROVE  /\ Reverse(s) \in Seq(S) /\ ToSet(Reverse(s)) = ToSet(s)
         /\ \A i, j \in 1..Len(Reverse(s)) : Reverse(s)[i] = Reverse(s)[j] => i = j
<1> DEFINE b == Reverse(s)
<1>1. /\ Len(s) \in Nat /\ DOMAIN s = 1..Len(s)
      /\ \A i \in 1..Len(s) : s[i] \in S
  OBVIOUS
<1>2. b = [i \in 1..Len(s) |-> s[(Len(s) - i) + 1]]
  BY DEF Reverse
<1>3. \A i \in 1..Len(s) : (Len(s) - i) + 1 \in 1..Len(s)
  BY <1>1
<1>4. /\ b \in [1..Len(s) -> S] /\ DOMAIN b = 1..Len(s)
      /\ \A i \in 1..Len(s) : b[i] = s[(Len(s) - i) + 1]
  BY <1>1, <1>2, <1>3
<1>5. b \in Seq(S) /\ Len(b) = Len(s)
  BY <1>1, <1>4
<1> HIDE DEF b
<1>6. ToSet(b) = ToSet(s)
  <2>1. ASSUME NEW i \in 1..Len(s) PROVE b[i] \in ToSet(s)
    BY <1>1, <1>3, <1>4 DEF ToSet
  <2>2. ASSUME NEW i \in 1..Len(s) PROVE s[i] \in ToSet(b)
    <3>1. (Len(s) - i) + 1 \in 1..Len(s) /\ (Len(s) - ((Len(s) - i) + 1)) + 1 = i
      BY <1>1
    <3>2. b[(Len(s) - i) + 1] = s[i]
      BY <1>4, <3>1
    <3> QED
      BY <1>4, <3>1, <3>2 DEF ToSet
  <2> QED
    BY <1>1, <1>4, <2>1, <2>2 DEF ToSet
<1>7. ASSUME NEW i \in 1..Len(s), NEW j \in 1..Len(s), b[i] = b[j] PROVE i = j
  <2>1. s[(Len(s) - i) + 1] = s[(Len(s) - j) + 1]
    BY <1>4, <1>7
  <2>2. (Len(s) - i) + 1 = (Len(s) - j) + 1
    BY <1>3, <2>1
  <2> QED
    BY <1>1, <2>2
<1> QED
  BY <1>5, <1>6, <1>7 DEF b

(* Whoever is served is known.                                             *)
LEMMA RotatedType ==
  ASSUME TypeOK
  PROVE  /\ Rotated \in Seq(Conns)
         /\ \A i \in 1..Len(Rotated) : conn[Rotated[i]].known
<1> DEFINE ids == SetToSeq(Known)
           n == Len(ids)
<1>1. IsFiniteSet(Known)
  <2>1. Known \in SUBSET Conns
    BY DEF Known
  <2> QED
    BY <2>1, FS_Subset, EndpointAssumption
<1>2. ids \in Seq(Known)
  BY <1>1, Listing
<1>3. n \in Nat /\ \A i \in 1..n : ids[i] \in Known
  <2> HIDE DEF ids
  <2> QED
    BY <1>2
<1>4. Rotated = IF n = 0 THEN <<>> ELSE [i \in 1..n |-> ids[1 + ((i - 1 + worker.next) % n)]]
  BY DEF Rotated
<1>5. CASE n = 0
  <2> HIDE DEF n, ids
  <2> QED
    BY <1>4, <1>5
<1>6. CASE n # 0
  <2>1. worker.next \in Nat
    BY DEF TypeOK, Working
  <2>2. ASSUME NEW i \in 1..n PROVE 1 + ((i - 1 + worker.next) % n) \in 1..n
    <3> HIDE DEF n
    <3>1. i - 1 + worker.next \in Nat /\ n \in Nat \ {0}
      BY <1>3, <1>6, <2>1, <2>2
    <3>2. (i - 1 + worker.next) % n \in 0..(n - 1)
      BY <3>1
    <3> QED
      BY <1>3, <3>2
  <2> HIDE DEF n, ids
  <2>3. Rotated \in [1..n -> Known] /\ Len(Rotated) = n
    BY <1>3, <1>4, <1>6, <2>2
  <2> QED
    BY <1>3, <2>3 DEF Known
<1> QED
  BY <1>5, <1>6

-----------------------------------------------------------------------------
(* One connection.  What a datagram makes of it.                           *)
Same(r, h) ==
  /\ h.known = r.known /\ h.needs = r.needs /\ h.error = r.error /\ h.budget = r.budget
  /\ h.waiters = r.waiters /\ h.acked = r.acked

HasLost(r) == \E i \in 1..Len(r.events) : r.events[i] = "lost"

LEMMA AppendedNews ==
  ASSUME NEW e \in Seq(News), NEW x \in News
  PROVE  /\ Append(e, x) \in Seq(News) /\ Append(e, x) # <<>>
         /\ Append(e, x)[Len(Append(e, x))] = x /\ Len(Append(e, x)) \in Nat \ {0}
BY AppendProperties

LEMMA HandledFacts ==
  ASSUME NEW r, IsConn(r), NEW kind \in {"ack", "finack"} \cup Sent,
         NEW h, h = Handled(r, kind)
  PROVE  /\ IsConn(h) /\ Same(r, h)
         /\ h.owed = r.owed \/ h.owed = <<>>
         /\ \/ h = r
            \/ ~r.closing /\ h.timer = r.timer /\ h.closing = r.closing
            \/ ~r.closing /\ h.closing /\ h.timer = "armed" /\ HasLost(h)
<1>1. /\ DOMAIN r = ConnFields
      /\ r.owed \in Seq(Packets) /\ r.inbox \in Seq(Chunked) /\ r.events \in Seq(News)
  BY DEF IsConn
<1>2. CASE r.closing
  BY <1>2 DEF Handled, Same
<1>3. CASE ~r.closing /\ kind = "ack"
  <2>1. PICK e : e = Append(r.events, "writable")
    OBVIOUS
  <2>2. e \in Seq(News)
    BY <1>1, <2>1, AppendedNews DEF News
  <2>3. h = [r EXCEPT !.window = @ + 1, !.events = e]
    BY <1>3, <2>1 DEF Handled
  <2>4. DOMAIN h = ConnFields /\ h.window = r.window + 1 /\ h.events = e /\ h.inbox = r.inbox
        /\ h.owed = r.owed /\ h.timer = r.timer /\ h.closing = r.closing /\ Same(r, h)
    BY <1>1, <2>3 DEF ConnFields, Same
  <2> QED
    BY <1>3, <2>2, <2>4 DEF IsConn, Same
<1>4. CASE ~r.closing /\ kind = "finack"
  <2>1. PICK e : e = Append(r.events, "finished")
    OBVIOUS
  <2>2. e \in Seq(News)
    BY <1>1, <2>1, AppendedNews DEF News
  <2>3. h = [r EXCEPT !.events = e]
    BY <1>4, <2>1 DEF Handled
  <2>4. DOMAIN h = ConnFields /\ h.window = r.window /\ h.events = e /\ h.inbox = r.inbox
        /\ h.owed = r.owed /\ h.timer = r.timer /\ h.closing = r.closing /\ Same(r, h)
    BY <1>1, <2>3 DEF ConnFields, Same
  <2> QED
    BY <1>4, <2>2, <2>4 DEF IsConn, Same
<1>5. CASE ~r.closing /\ kind \in {"data", "fin"}
  <2>1. PICK e : e = Append(r.events, "readable")
    OBVIOUS
  <2>2. PICK x : x = r.inbox \o Chunks(kind)
    OBVIOUS
  <2>3. e \in Seq(News)
    BY <1>1, <2>1, AppendedNews DEF News
  <2>4. x \in Seq(Chunked)
    <3>1. <<"note", "data">> \in Seq(Chunked) /\ <<"fin">> \in Seq(Chunked)
      BY DEF Chunked
    <3>2. Chunks(kind) \in Seq(Chunked)
      BY <3>1 DEF Chunks
    <3> QED
      BY <1>1, <2>2, <3>2, ConcatProperties
  <2>5. h = [r EXCEPT !.inbox = x, !.events = e]
    BY <1>5, <2>1, <2>2 DEF Handled
  <2>6. DOMAIN h = ConnFields /\ h.window = r.window /\ h.events = e /\ h.inbox = x
        /\ h.owed = r.owed /\ h.timer = r.timer /\ h.closing = r.closing /\ Same(r, h)
    BY <1>1, <2>5 DEF ConnFields, Same
  <2> QED
    BY <1>5, <2>3, <2>4, <2>6 DEF IsConn, Same
<1>6. CASE ~r.closing /\ kind = "close"
  <2>1. PICK e : e = Append(r.events, "lost")
    OBVIOUS
  <2>2. e \in Seq(News) /\ e[Len(e)] = "lost" /\ Len(e) \in Nat \ {0}
    BY <1>1, <2>1, AppendedNews DEF News
  <2>3. h = [r EXCEPT !.closing = TRUE, !.owed = <<>>, !.timer = "armed", !.events = e]
    BY <1>6, <2>1 DEF Handled
  <2>4. DOMAIN h = ConnFields /\ h.window = r.window /\ h.events = e /\ h.inbox = r.inbox
        /\ h.owed = <<>> /\ h.timer = "armed" /\ h.closing = TRUE /\ Same(r, h)
    BY <1>1, <2>3 DEF ConnFields, Same
  <2>5. HasLost(h)
    BY <2>2, <2>4 DEF HasLost
  <2>6. IsConn(h)
    <3>1. h.owed \in Seq(Packets)
      BY <2>4
    <3>2. h.closing = TRUE
      BY <2>4
    <3>3. h.closing \in BOOLEAN
      BY <3>2, Zenon
    <3> QED
      BY <2>2, <2>4, <3>1, <3>3 DEF IsConn, Same
  <2> QED
    BY <1>6, <2>4, <2>5, <2>6
<1> QED
  BY <1>2, <1>3, <1>4, <1>5, <1>6 DEF Sent

(* Whoever was parked is queued, and nobody is left parked.                *)
Woken(r) == [r EXCEPT !.waiters = {}]

LEMMA WokenFacts ==
  ASSUME NEW r, IsConn(r), NEW w, w = Woken(r)
  PROVE  /\ IsConn(w) /\ w.waiters = {}
         /\ w.known = r.known /\ w.needs = r.needs /\ w.error = r.error /\ w.budget = r.budget
         /\ w.owed = r.owed /\ w.timer = r.timer /\ w.closing = r.closing
         /\ w.events = r.events
<1>1. DOMAIN r = ConnFields /\ DOMAIN w = ConnFields
  BY DEF IsConn, Woken
<1>2. /\ w.waiters = {} /\ w.known = r.known /\ w.needs = r.needs /\ w.error = r.error
      /\ w.budget = r.budget /\ w.owed = r.owed /\ w.timer = r.timer
      /\ w.closing = r.closing /\ w.events = r.events /\ w.acked = r.acked
      /\ w.window = r.window /\ w.inbox = r.inbox
  BY <1>1 DEF ConnFields, Woken
<1> QED
  BY <1>1, <1>2 DEF IsConn

LEMMA WokenParks ==
  ASSUME NEW r, NEW a, NEW q, NEW w, Parks(r, a, q), w.waiters = {},
         r.error # "none" => w.error # "none"
  PROVE  Parks(w, a, q \cup r.waiters)
BY DEF Parks

LEMMA HandledOK ==
  ASSUME NEW r, IsConn(r), NEW a, NEW q, NEW st, NEW b, r.known,
         Life(r, a, q, st), Owes(r, b), Parks(r, a, q),
         NEW kind \in {"ack", "finack"} \cup Sent, NEW w, w = Woken(Handled(r, kind))
  PROVE  /\ IsConn(w) /\ w.known = r.known /\ w.needs = r.needs
         /\ Life(w, a, q \cup r.waiters, st) /\ Owes(w, b) /\ Parks(w, a, q \cup r.waiters)
<1>1. PICK h : h = Handled(r, kind)
  OBVIOUS
<1>2. /\ IsConn(h) /\ Same(r, h)
      /\ h.owed = r.owed \/ h.owed = <<>>
      /\ \/ h = r
         \/ ~r.closing /\ h.timer = r.timer /\ h.closing = r.closing
         \/ ~r.closing /\ h.closing /\ h.timer = "armed" /\ HasLost(h)
  BY <1>1, HandledFacts
<1>3. /\ IsConn(w) /\ w.waiters = {}
      /\ w.known = h.known /\ w.needs = h.needs /\ w.error = h.error /\ w.budget = h.budget
      /\ w.owed = h.owed /\ w.timer = h.timer /\ w.closing = h.closing
      /\ w.events = h.events
  BY <1>1, <1>2, WokenFacts
<1>4. Life(w, a, q \cup r.waiters, st)
  BY <1>2, <1>3 DEF Life, Same, HasLost
<1>5. Owes(w, b)
  BY <1>2, <1>3 DEF Owes, Same
<1>6. Parks(w, a, q \cup r.waiters)
  BY <1>2, <1>3, WokenParks DEF Same
<1> QED
  BY <1>2, <1>3, <1>4, <1>5, <1>6 DEF Same

-----------------------------------------------------------------------------
(* Its turn in a pass.                                                     *)
LEMMA Least ==
  ASSUME NEW S, NEW a \in S, S \subseteq Int, \E x \in S : \A y \in S : x <= y
  PROVE  Min(S) \in S /\ \A y \in S : Min(S) <= y
BY DEF Min

LEMMA LeastOfThree ==
  ASSUME NEW a \in Int, NEW b \in Int, NEW d \in Int
  PROVE  /\ Min({a, b, d}) \in {a, b, d}
         /\ Min({a, b, d}) <= a /\ Min({a, b, d}) <= b /\ Min({a, b, d}) <= d
<1>1. \E x \in {a, b, d} : \A y \in {a, b, d} : x <= y
  OBVIOUS
<1> QED
  BY <1>1, Least

LEMMA LeastOfTwo ==
  ASSUME NEW a \in Int, NEW b \in Int
  PROVE  Min({a, b}) \in {a, b} /\ Min({a, b}) <= a /\ Min({a, b}) <= b
<1>1. \E x \in {a, b} : \A y \in {a, b} : x <= y
  OBVIOUS
<1> QED
  BY <1>1, Least

LEMMA Taking ==
  ASSUME NEW S, NEW e \in Seq(S), NEW k \in 0..Len(e)
  PROVE  /\ SubSeq(e, 1, k) \in Seq(S) /\ Len(SubSeq(e, 1, k)) = k
         /\ SubSeq(e, k + 1, Len(e)) \in Seq(S)
         /\ Len(SubSeq(e, k + 1, Len(e))) = Len(e) - k
         /\ \A i \in 1..k : e[i] \in ToSet(SubSeq(e, 1, k))
         /\ \A i \in 1..(Len(e) - k) : SubSeq(e, k + 1, Len(e))[i] = e[k + i]
<1>1. Len(e) \in Nat /\ \A i \in 1..Len(e) : e[i] \in S
  OBVIOUS
<1>2. /\ SubSeq(e, 1, k) \in Seq(S) /\ Len(SubSeq(e, 1, k)) = k
      /\ \A i \in 1..k : SubSeq(e, 1, k)[i] = e[i]
  BY <1>1
<1>3. /\ SubSeq(e, k + 1, Len(e)) \in Seq(S)
      /\ Len(SubSeq(e, k + 1, Len(e))) = Len(e) - k
      /\ \A i \in 1..(Len(e) - k) : SubSeq(e, k + 1, Len(e))[i] = e[k + i]
  BY <1>1
<1>4. ASSUME NEW i \in 1..k PROVE e[i] \in ToSet(SubSeq(e, 1, k))
  <2>1. PICK t \in Seq(S) : t = SubSeq(e, 1, k)
    BY <1>2
  <2>2. DOMAIN t = 1..k /\ t[i] = e[i]
    BY <1>2, <2>1
  <2> QED
    BY <2>1, <2>2 DEF ToSet
<1> QED
  BY <1>2, <1>3, <1>4

LEMMA ServedFacts ==
  ASSUME TypeOK, NEW r, IsConn(r), NEW s, s = Served(r)
  PROVE  /\ s.packets \in Seq(Packets) /\ Len(s.packets) <= OUT - Len(out)
         /\ IsConn(s.next) /\ s.next.waiters = r.waiters /\ s.next.closing = r.closing
         /\ s.next.window = r.window /\ s.next.inbox = r.inbox
         /\ s.next.known <=> r.timer # "due"
         /\ s.next.timer = IF r.timer = "due" THEN "off" ELSE r.timer
         /\ s.next.error = r.error \/ s.next.error = "remote"
         /\ HasLost(r) => s.next.error # "none" \/ HasLost(s.next)
         /\ s.next.known /\ s.next.owed # <<>> => s.next.needs \/ worker.blocked
         /\ ~s.wakes => /\ ~r.needs /\ r.timer # "due"
                        /\ s.next.error = r.error /\ s.next.acked = r.acked
<1> DEFINE due == r.timer = "due"
           owed == IF due THEN <<>> ELSE r.owed
           room == OUT - Len(out)
           sent == Min({Len(owed), BATCH, room})
           read == Min({Len(r.events), BATCH})
           news == ToSet(SubSeq(r.events, 1, read))
           left == SubSeq(owed, sent + 1, Len(owed))
           ahead == SubSeq(r.events, read + 1, Len(r.events))
           again == (room < BATCH /\ sent = room /\ ~worker.blocked) \/ BATCH \in {sent, read}
           fails == IF "lost" \in news THEN "remote" ELSE r.error
           acks == r.acked \/ "finished" \in news
           timer == IF due THEN "off" ELSE r.timer
           lives == r.timer # "due"
           put == SubSeq(owed, 1, sent)
           wakes == r.needs \/ due \/ read > 0
           after == [r EXCEPT !.owed = left, !.events = ahead, !.known = lives,
                              !.timer = timer, !.budget = OPERATIONS, !.needs = again,
                              !.error = fails, !.acked = acks]
<1>12. s = [packets |-> put, wakes |-> wakes, next |-> after]
  BY DEF Served, Room, Undrained
<1> HIDE DEF put, wakes, after
<1>14. s.packets = put /\ s.wakes = wakes /\ s.next = after
  BY <1>12
<1> HIDE DEF sent, read, news, left, ahead, again, fails, acks, timer, lives, owed, room, due
<1>15. /\ OUT \in Nat \ {0} /\ BATCH \in Nat \ {0} /\ OPERATIONS \in Nat
       /\ Len(out) \in Nat /\ Len(out) <= OUT /\ worker.blocked \in BOOLEAN
  BY EndpointAssumption DEF TypeOK, Working
<1>16. /\ DOMAIN r = ConnFields /\ r.owed \in Seq(Packets) /\ r.events \in Seq(News)
  BY DEF IsConn
<1>17. owed \in Seq(Packets) /\ Len(owed) \in Nat /\ Len(r.events) \in Nat /\ room \in Nat
  BY <1>15, <1>16 DEF owed, room
<1>18. /\ sent \in {Len(owed), BATCH, room}
       /\ sent <= Len(owed) /\ sent <= BATCH /\ sent <= room
       /\ sent \in 0..Len(owed)
  <2>1. Len(owed) \in Int /\ BATCH \in Int /\ room \in Int
    BY <1>15, <1>17
  <2>2. sent \in {Len(owed), BATCH, room} /\ sent <= Len(owed) /\ sent <= BATCH /\ sent <= room
    BY <2>1, LeastOfThree, Zenon DEF sent
  <2> QED
    BY <1>15, <1>17, <2>2
<1>19. /\ read \in {Len(r.events), BATCH} /\ read <= Len(r.events) /\ read <= BATCH
       /\ read \in 0..Len(r.events)
  <2>1. Len(r.events) \in Int /\ BATCH \in Int
    BY <1>15, <1>17
  <2>2. read \in {Len(r.events), BATCH} /\ read <= Len(r.events) /\ read <= BATCH
    BY <2>1, LeastOfTwo, Zenon DEF read
  <2> QED
    BY <1>15, <1>17, <2>2
<1>20. /\ s.packets \in Seq(Packets) /\ Len(s.packets) <= OUT - Len(out)
       /\ left \in Seq(Packets) /\ Len(left) = Len(owed) - sent
  <2>1. /\ SubSeq(owed, 1, sent) \in Seq(Packets) /\ Len(SubSeq(owed, 1, sent)) = sent
        /\ left \in Seq(Packets) /\ Len(left) = Len(owed) - sent
    BY <1>17, <1>18, Taking DEF left
  <2>2. s.packets = SubSeq(owed, 1, sent)
    BY <1>14, Zenon DEF put
  <2> QED
    BY <1>18, <2>1, <2>2 DEF room
<1>21. /\ ahead \in Seq(News) /\ Len(ahead) = Len(r.events) - read
       /\ \A i \in 1..read : r.events[i] \in news
       /\ \A i \in 1..(Len(r.events) - read) : ahead[i] = r.events[read + i]
  <2>1. PICK e \in Seq(News) : e = r.events
    BY <1>16
  <2>2. read \in 0..Len(e)
    BY <1>19, <2>1
  <2>3. /\ SubSeq(e, read + 1, Len(e)) \in Seq(News)
        /\ Len(SubSeq(e, read + 1, Len(e))) = Len(e) - read
        /\ \A i \in 1..read : e[i] \in ToSet(SubSeq(e, 1, read))
        /\ \A i \in 1..(Len(e) - read) : SubSeq(e, read + 1, Len(e))[i] = e[read + i]
    BY <2>2, Taking
  <2> QED
    BY <2>1, <2>3 DEF news, ahead
<1>22. PICK h : h = s.next
  OBVIOUS
<1>23. h = [r EXCEPT !.owed = left, !.events = ahead, !.known = lives,
                     !.timer = timer, !.budget = OPERATIONS, !.needs = again,
                     !.error = fails, !.acked = acks]
  BY <1>22, <1>14 DEF after
<1>24. /\ DOMAIN h = ConnFields /\ h.owed = left /\ h.events = ahead /\ h.known = lives
       /\ h.timer = timer /\ h.budget = OPERATIONS /\ h.needs = again /\ h.error = fails
       /\ h.acked = acks /\ h.waiters = r.waiters /\ h.closing = r.closing
       /\ h.window = r.window /\ h.inbox = r.inbox
  BY <1>16, <1>23 DEF ConnFields
<1>25. /\ lives \in BOOLEAN /\ again \in BOOLEAN /\ acks \in BOOLEAN
       /\ fails \in {"none", "remote", "local"} /\ timer \in {"off", "armed", "due"}
  BY DEF IsConn, again, fails, acks, timer, lives
<1>26. IsConn(h)
  BY <1>15, <1>20, <1>21, <1>24, <1>25 DEF IsConn
<1>27. HasLost(r) => h.error # "none" \/ HasLost(h)
  <2>1. SUFFICES ASSUME NEW i \in 1..Len(r.events), r.events[i] = "lost"
                 PROVE  h.error # "none" \/ HasLost(h)
    BY DEF HasLost
  <2>2. CASE i <= read
    <3>1. i \in 1..read
      BY <1>17, <1>19, <2>2
    <3>2. "lost" \in news
      BY <1>21, <2>1, <3>1
    <3> QED
      BY <1>24, <3>2 DEF fails
  <2>3. CASE ~(i <= read)
    <3>1. i - read \in 1..(Len(r.events) - read) /\ read + (i - read) = i
      BY <1>17, <1>19, <2>3
    <3>2. ahead[i - read] = "lost"
      BY <1>21, <2>1, <3>1
    <3> QED
      BY <1>21, <1>24, <3>1, <3>2 DEF HasLost
  <2> QED
    BY <2>2, <2>3
<1>28. h.known /\ h.owed # <<>> => h.needs \/ worker.blocked
  <2>1. SUFFICES ASSUME h.owed # <<>>, ~worker.blocked PROVE h.needs
    OBVIOUS
  <2>2. Len(left) # 0
    BY <1>20, <1>24, <2>1
  <2>3. sent = BATCH \/ (sent = room /\ room < BATCH)
    BY <1>15, <1>17, <1>18, <1>20, <2>2
  <2>4. again
    BY <2>1, <2>3 DEF again
  <2> QED
    BY <1>24, <2>4
<1>29. ASSUME ~s.wakes
       PROVE  /\ ~r.needs /\ r.timer # "due" /\ h.error = r.error /\ h.acked = r.acked
  <2>1. ~(r.needs \/ due \/ read > 0)
    <3>1. s.wakes = wakes
      BY <1>14
    <3> QED
      BY <1>29, <3>1 DEF wakes
  <2>2. read = 0
    BY <1>19, <2>1
  <2>3. Len(r.events) = 0
    BY <1>15, <1>19, <2>2
  <2>4. news = {}
    <3>1. SubSeq(r.events, 1, 0) = <<>>
      BY <1>16
    <3> QED
      BY <2>2, <3>1 DEF ToSet, news
  <2>5. fails = r.error /\ acks = r.acked
    <3>1. r.acked \in BOOLEAN
      BY DEF IsConn
    <3> QED
      BY <2>4, <3>1 DEF fails, acks
  <2> QED
    BY <1>24, <2>1, <2>5 DEF due
<1>30. (h.known <=> r.timer # "due") /\ h.timer = (IF r.timer = "due" THEN "off" ELSE r.timer)
  BY <1>24 DEF due, timer, lives
<1>31. h.error = r.error \/ h.error = "remote"
  BY <1>24 DEF fails
<1> QED
  BY <1>20, <1>22, <1>24, <1>26, <1>27, <1>28, <1>29, <1>30, <1>31

LEMMA ServedOK ==
  ASSUME TypeOK, NEW r, IsConn(r), NEW a, NEW q, NEW s, s = Served(r),
         Life(r, a, q, "in"), Owes(r, worker.blocked), Parks(r, a, q),
         NEW w, NEW k,
         \/ s.wakes /\ w = Woken(s.next) /\ k = q \cup r.waiters
         \/ ~s.wakes /\ w = s.next /\ k = q
  PROVE  /\ IsConn(w) /\ Life(w, a, k, "in") /\ Owes(w, worker.blocked) /\ Parks(w, a, k)
<1>1. PICK n : n = s.next
  OBVIOUS
<1>2. /\ IsConn(n) /\ n.waiters = r.waiters /\ n.closing = r.closing
      /\ n.window = r.window /\ n.inbox = r.inbox
      /\ n.known <=> r.timer # "due"
      /\ n.timer = IF r.timer = "due" THEN "off" ELSE r.timer
      /\ n.error = r.error \/ n.error = "remote"
      /\ HasLost(r) => n.error # "none" \/ HasLost(n)
      /\ n.known /\ n.owed # <<>> => n.needs \/ worker.blocked
      /\ ~s.wakes => /\ ~r.needs /\ r.timer # "due"
                     /\ n.error = r.error /\ n.acked = r.acked
  BY <1>1, ServedFacts
<1>3. /\ IsConn(w)
      /\ w.closing = n.closing /\ w.known = n.known /\ w.timer = n.timer /\ w.error = n.error
      /\ w.owed = n.owed /\ w.needs = n.needs /\ w.events = n.events
      /\ IF s.wakes THEN w.waiters = {} /\ k = q \cup r.waiters ELSE w = n /\ k = q
  BY <1>1, <1>2, WokenFacts
<1>4. Life(w, a, k, "in")
  BY <1>2, <1>3 DEF Life, HasLost
<1>5. Owes(w, worker.blocked)
  BY <1>2, <1>3 DEF Owes
<1>6. Parks(w, a, k)
  <2>1. CASE s.wakes
    BY <1>2, <1>3, <2>1, WokenParks
  <2>2. CASE ~s.wakes
    BY <1>2, <1>3, <2>2 DEF Parks, Ready
  <2> QED
    BY <2>1, <2>2
<1> QED
  BY <1>3, <1>4, <1>5, <1>6

-----------------------------------------------------------------------------
(* What a task makes of its connection: the fields that no task touches,   *)
(* and each thing it may do.                                               *)
Alike(r, w) ==
  /\ w.known = r.known /\ w.error = r.error /\ w.acked = r.acked /\ w.events = r.events
  /\ w.timer = r.timer /\ w.closing = r.closing

LEMMA OwingFacts ==
  ASSUME NEW r, IsConn(r), NEW kind \in Packets, NEW w, w = Owing(r, kind)
  PROVE  /\ IsConn(w) /\ Alike(r, w) /\ w.needs = TRUE
         /\ w.window = r.window /\ w.inbox = r.inbox /\ w.budget = r.budget
         /\ w.waiters = r.waiters
<1>1. DOMAIN r = ConnFields /\ r.owed \in Seq(Packets)
  BY DEF IsConn
<1>2. PICK o \in Seq(Packets) : o = IF r.closing THEN r.owed ELSE Append(r.owed, kind)
  <2>1. Append(r.owed, kind) \in Seq(Packets)
    BY <1>1
  <2> QED
    BY <1>1, <2>1
<1>3. w = [r EXCEPT !.owed = o, !.needs = TRUE]
  BY <1>2 DEF Owing
<1>4. /\ DOMAIN w = ConnFields /\ w.owed = o /\ w.needs = TRUE /\ Alike(r, w)
      /\ w.window = r.window /\ w.inbox = r.inbox /\ w.budget = r.budget
      /\ w.waiters = r.waiters
  BY <1>1, <1>3 DEF ConnFields, Alike
<1>5. w.needs \in BOOLEAN
  BY <1>4, Zenon
<1> QED
  BY <1>2, <1>4, <1>5 DEF IsConn, Alike

LEMMA ConsumedFacts ==
  ASSUME NEW r, IsConn(r), r.budget > 0, NEW w, w = Consumed(r)
  PROVE  /\ IsConn(w) /\ Alike(r, w) /\ w.needs = r.needs /\ w.owed = r.owed
         /\ w.window = r.window /\ w.inbox = r.inbox /\ w.budget = r.budget - 1
         /\ w.waiters = r.waiters
<1>1. DOMAIN r = ConnFields /\ r.budget \in Nat
  BY DEF IsConn
<1>2. /\ DOMAIN w = ConnFields /\ w.owed = r.owed /\ w.needs = r.needs /\ Alike(r, w)
      /\ w.window = r.window /\ w.inbox = r.inbox /\ w.budget = r.budget - 1
      /\ w.waiters = r.waiters
  BY <1>1 DEF Consumed, ConnFields, Alike
<1> QED
  BY <1>1, <1>2 DEF IsConn, Alike

LEMMA ParkedFacts ==
  ASSUME NEW r, IsConn(r), NEW t \in Tasks, NEW w, w = Parked(r, t)
  PROVE  /\ IsConn(w) /\ Alike(r, w) /\ w.needs = (r.needs \/ r.budget = 0) /\ w.owed = r.owed
         /\ w.window = r.window /\ w.inbox = r.inbox /\ w.budget = r.budget
         /\ w.waiters = r.waiters \cup {t}
<1>1. DOMAIN r = ConnFields
  BY DEF IsConn
<1>2. PICK n \in BOOLEAN : n = (r.needs \/ r.budget = 0)
  BY Zenon
<1>3. w = [r EXCEPT !.waiters = r.waiters \cup {t}, !.needs = n]
  BY <1>2 DEF Parked
<1>4. /\ DOMAIN w = ConnFields /\ w.owed = r.owed /\ w.needs = n /\ Alike(r, w)
      /\ w.window = r.window /\ w.inbox = r.inbox /\ w.budget = r.budget
      /\ w.waiters = r.waiters \cup {t}
  BY <1>1, <1>3 DEF ConnFields, Alike
<1> QED
  BY <1>2, <1>4 DEF IsConn, Alike

Lowered(r) == [r EXCEPT !.window = @ - 1]
Eaten(r) == [r EXCEPT !.inbox = Tail(@)]
Joined(r, t) == [r EXCEPT !.waiters = @ \cup {t}]

LEMMA LoweredFacts ==
  ASSUME NEW r, IsConn(r), NEW w, w = Lowered(r)
  PROVE  /\ IsConn(w) /\ Alike(r, w) /\ w.needs = r.needs /\ w.owed = r.owed
         /\ w.inbox = r.inbox /\ w.budget = r.budget /\ w.waiters = r.waiters
<1>1. DOMAIN r = ConnFields
  BY DEF IsConn
<1>2. /\ DOMAIN w = ConnFields /\ w.owed = r.owed /\ w.needs = r.needs /\ Alike(r, w)
      /\ w.window = r.window - 1 /\ w.inbox = r.inbox /\ w.budget = r.budget
      /\ w.waiters = r.waiters
  BY <1>1 DEF Lowered, ConnFields, Alike
<1> QED
  BY <1>2 DEF IsConn, Alike

LEMMA EatenFacts ==
  ASSUME NEW r, IsConn(r), r.inbox # <<>>, NEW w, w = Eaten(r)
  PROVE  /\ IsConn(w) /\ Alike(r, w) /\ w.needs = r.needs /\ w.owed = r.owed
         /\ w.window = r.window /\ w.budget = r.budget /\ w.waiters = r.waiters
<1>1. DOMAIN r = ConnFields /\ r.inbox \in Seq(Chunked)
  BY DEF IsConn
<1>2. PICK i \in Seq(Chunked) : i = Tail(r.inbox)
  <2>1. Tail(r.inbox) \in Seq(Chunked)
    BY <1>1, HeadTailProperties
  <2> QED
    BY <2>1, Zenon
<1>3. w = [r EXCEPT !.inbox = i]
  BY <1>2 DEF Eaten
<1>4. /\ DOMAIN w = ConnFields /\ w.owed = r.owed /\ w.needs = r.needs /\ Alike(r, w)
      /\ w.window = r.window /\ w.inbox = i /\ w.budget = r.budget
      /\ w.waiters = r.waiters
  BY <1>1, <1>3 DEF ConnFields, Alike
<1> QED
  BY <1>2, <1>4 DEF IsConn, Alike

LEMMA JoinedFacts ==
  ASSUME NEW r, IsConn(r), NEW t \in Tasks, NEW w, w = Joined(r, t)
  PROVE  /\ IsConn(w) /\ Alike(r, w) /\ w.needs = r.needs /\ w.owed = r.owed
         /\ w.window = r.window /\ w.inbox = r.inbox /\ w.budget = r.budget
         /\ w.waiters = r.waiters \cup {t}
<1>1. DOMAIN r = ConnFields
  BY DEF IsConn
<1>2. /\ DOMAIN w = ConnFields /\ w.owed = r.owed /\ w.needs = r.needs /\ Alike(r, w)
      /\ w.window = r.window /\ w.inbox = r.inbox /\ w.budget = r.budget
      /\ w.waiters = r.waiters \cup {t}
  BY <1>1 DEF Joined, ConnFields, Alike
<1> QED
  BY <1>2 DEF IsConn, Alike

(* What taking a chunk does, whatever it is.                               *)
Took(r) ==
  CASE Head(r.inbox) = "fin" -> Eaten(r)
    [] Head(r.inbox) = "note" -> Consumed(Eaten(r))
    [] Head(r.inbox) = "data" -> Owing(Consumed(Eaten(r)), "credit")

LEMMA TookFacts ==
  ASSUME NEW r, IsConn(r), r.inbox # <<>>, r.budget > 0, NEW w, w = Took(r)
  PROVE  /\ IsConn(w) /\ Alike(r, w) /\ w.window = r.window /\ w.waiters = r.waiters
         /\ w.needs = TRUE \/ (w.needs = r.needs /\ w.owed = r.owed)
<1>1. PICK e : e = Eaten(r)
  OBVIOUS
<1>2. /\ IsConn(e) /\ Alike(r, e) /\ e.needs = r.needs /\ e.owed = r.owed
      /\ e.window = r.window /\ e.budget = r.budget /\ e.waiters = r.waiters
  BY <1>1, EatenFacts
<1>3. PICK d : d = Consumed(e)
  OBVIOUS
<1>4. /\ IsConn(d) /\ Alike(e, d) /\ d.needs = e.needs /\ d.owed = e.owed
      /\ d.window = e.window /\ d.waiters = e.waiters
  BY <1>2, <1>3, ConsumedFacts
<1>5. PICK o : o = Owing(d, "credit")
  OBVIOUS
<1>6. /\ IsConn(o) /\ Alike(d, o) /\ o.needs = TRUE /\ o.window = d.window
      /\ o.waiters = d.waiters
  BY <1>4, <1>5, OwingFacts DEF Packets
<1>7. w \in {e, d, o}
  <2>1. Head(r.inbox) \in Chunked
    BY HeadTailProperties DEF IsConn
  <2> QED
    BY <1>1, <1>3, <1>5, <2>1 DEF Took, Chunked
<1> QED
  BY <1>2, <1>4, <1>6, <1>7 DEF Alike

Fine(r, a, q, stage, blocked) == Life(r, a, q, stage) /\ Owes(r, blocked) /\ Parks(r, a, q)

LEMMA LifeStays ==
  ASSUME NEW r, NEW a, NEW q, NEW st, Life(r, a, q, st), a.recv # "none",
         NEW w, NEW d, NEW k, Alike(r, w), d.recv # "none"
  PROVE  Life(w, d, k, st)
BY DEF Life, Alike

(* Who is queued has been started, on a connection that is known unless it *)
(* failed.                                                                 *)
LEMMA Started ==
  ASSUME NEW r, NEW a, NEW q, NEW st, Life(r, a, q, st), q # {}
  PROVE  a.recv # "none" /\ st = "in" /\ (r.error = "none" => r.known)
BY DEF Life

LEMMA WriteOK ==
  ASSUME NEW r, IsConn(r), NEW a, NEW q, NEW st, NEW b, Fine(r, a, q, st, b), "send" \in q,
         Enters(r), NEW w, w = Owing(Consumed(Lowered(r)), "data"),
         NEW d, d.recv = a.recv, d.send = a.send, d.ended = a.ended, d.backlog = a.backlog
  PROVE  IsConn(w) /\ Fine(w, d, q, st, b)
<1>1. PICK l : l = Lowered(r)
  OBVIOUS
<1>2. /\ IsConn(l) /\ Alike(r, l) /\ l.inbox = r.inbox /\ l.budget = r.budget
      /\ l.waiters = r.waiters
  BY <1>1, LoweredFacts
<1>3. PICK e : e = Consumed(l)
  OBVIOUS
<1>4. /\ IsConn(e) /\ Alike(l, e) /\ e.inbox = l.inbox /\ e.waiters = l.waiters
  BY <1>2, <1>3, ConsumedFacts DEF Enters
<1>5. w = Owing(e, "data")
  BY <1>1, <1>3
<1>6. /\ IsConn(w) /\ Alike(e, w) /\ w.needs = TRUE /\ w.inbox = e.inbox
      /\ w.waiters = e.waiters
  <2>1. "data" \in Packets
    BY DEF Packets
  <2> QED
    BY <1>4, <1>5, <2>1, OwingFacts
<1>7. Alike(r, w) /\ w.inbox = r.inbox /\ w.waiters = r.waiters
  BY <1>2, <1>4, <1>6 DEF Alike
<1>8. Life(w, d, q, st)
  BY <1>7, Started, LifeStays DEF Fine
<1>9. Parks(w, d, q)
  <2>1. r.waiters \cap q = {} /\ r.budget # 0 /\ w.error = r.error
    BY <1>7 DEF Fine, Parks, Enters, Alike, IsConn
  <2>2. ASSUME NEW x \in r.waiters, Ready(w, d, x) PROVE x = "watch" /\ d.backlog
    <3>1. x # "send"
      BY <2>1
    <3>2. Ready(r, a, x)
      BY <1>7, <2>2, <3>1 DEF Ready, Alike
    <3> QED
      BY <2>1, <3>2 DEF Fine, Parks
  <2> QED
    BY <1>7, <2>1, <2>2 DEF Fine, Parks
<1> QED
  BY <1>6, <1>8, <1>9 DEF Fine, Owes

LEMMA ParkOK ==
  ASSUME NEW r, IsConn(r), NEW a, NEW q, NEW st, NEW b, Fine(r, a, q, st, b),
         NEW t \in Tasks, t \in q, r.error = "none", r.budget = 0 \/ ~Ready(r, a, t),
         t = "recv" => ~a.backlog, NEW w, w = Parked(r, t)
  PROVE  IsConn(w) /\ Fine(w, a, q \ {t}, st, b)
<1>1. /\ IsConn(w) /\ Alike(r, w) /\ w.needs = (r.needs \/ r.budget = 0) /\ w.owed = r.owed
      /\ w.window = r.window /\ w.inbox = r.inbox /\ w.budget = r.budget
      /\ w.waiters = r.waiters \cup {t}
  BY ParkedFacts
<1>2. a.recv # "none" /\ r.known
  BY Started DEF Fine
<1>3. Life(w, a, q \ {t}, st)
  BY <1>1, <1>2, LifeStays DEF Fine
<1>4. Owes(w, b)
  BY <1>1 DEF Fine, Owes, Alike
<1>5. Parks(w, a, q \ {t})
  <2>1. \A x : Ready(w, a, x) => Ready(r, a, x)
    BY <1>1 DEF Ready, Alike
  <2>2. w.waiters \cap (q \ {t}) = {} /\ (a.backlog => "recv" \in q \ {t})
        /\ (a.recv = "read" => "recv" \in (q \ {t}) \cup w.waiters)
        /\ (a.recv = "done" => a.ended \/ w.error # "none")
    BY <1>1 DEF Fine, Parks, Alike
  <2>3. ASSUME NEW x \in w.waiters, Ready(w, a, x)
        PROVE  (w.known /\ w.budget = 0 /\ w.needs) \/ (x = "watch" /\ a.backlog)
    <3>1. CASE x \in r.waiters
      BY <1>1, <2>1, <2>3, <3>1 DEF Fine, Parks, Alike
    <3>2. CASE x = t
      BY <1>1, <1>2, <2>1, <2>3, <3>2 DEF Alike
    <3> QED
      BY <1>1, <2>3, <3>1, <3>2
  <2> QED
    BY <2>2, <2>3 DEF Parks
<1> QED
  BY <1>1, <1>3, <1>4, <1>5 DEF Fine

(* The writer goes on to its end, with or without a packet.                *)
LEMMA SendMovesOK ==
  ASSUME NEW r, IsConn(r), NEW a, NEW q, NEW st, NEW b, Fine(r, a, q, st, b), "send" \in q,
         NEW w, w = r \/ \E kind \in Packets : w = Owing(r, kind),
         NEW d, d.recv = a.recv, d.ended = a.ended, d.backlog = a.backlog
  PROVE  IsConn(w) /\ Fine(w, d, q, st, b)
<1>1. /\ IsConn(w) /\ Alike(r, w) /\ w.inbox = r.inbox /\ w.budget = r.budget
      /\ w.waiters = r.waiters
      /\ w.needs = TRUE \/ (w.needs = r.needs /\ w.owed = r.owed)
  <2>1. CASE w = r
    BY <2>1 DEF Alike
  <2>2. CASE \E kind \in Packets : w = Owing(r, kind)
    BY <2>2, OwingFacts
  <2> QED
    BY <2>1, <2>2
<1>2. Life(w, d, q, st)
  BY <1>1, Started, LifeStays DEF Fine
<1>3. Owes(w, b)
  BY <1>1 DEF Fine, Owes, Alike
<1>4. Parks(w, d, q)
  <2>1. r.waiters \cap q = {} /\ w.error = r.error /\ w.known = r.known
    BY <1>1 DEF Fine, Parks, Alike
  <2>2. ASSUME NEW x \in r.waiters, Ready(w, d, x)
        PROVE  (w.known /\ w.budget = 0 /\ w.needs) \/ (x = "watch" /\ d.backlog)
    <3>1. x # "send"
      BY <2>1
    <3>2. Ready(r, a, x)
      BY <1>1, <2>2, <3>1 DEF Ready, Alike
    <3> QED
      BY <1>1, <2>1, <3>2 DEF Fine, Parks
  <2> QED
    BY <1>1, <2>1, <2>2 DEF Fine, Parks
<1> QED
  BY <1>1, <1>2, <1>3, <1>4 DEF Fine

(* A task that is done leaves the queue, and nobody waits for it.          *)
LEMMA DoneOK ==
  ASSUME NEW r, NEW a, NEW q, NEW st, NEW b, Fine(r, a, q, st, b), NEW t \in q,
         NEW d, d.ended = a.ended, d.backlog = a.backlog,
         \/ t = "send" /\ d.recv = a.recv
         \/ t = "watch" /\ d.recv = a.recv /\ d.send = a.send
         \/ /\ t = "recv" /\ d.recv = "done" /\ d.send = a.send
            /\ ~a.backlog /\ (a.ended \/ r.error # "none")
  PROVE  Fine(r, d, q \ {t}, st, b)
<1>1. Alike(r, r)
  BY DEF Alike
<1>2. Life(r, d, q \ {t}, st)
  BY <1>1, Started, LifeStays DEF Fine
<1>3. ASSUME NEW x \in r.waiters, Ready(r, d, x)
      PROVE  (r.known /\ r.budget = 0 /\ r.needs) \/ (x = "watch" /\ d.backlog)
  <2>1. x # t
    BY DEF Fine, Parks
  <2>2. Ready(r, a, x)
    BY <1>3, <2>1 DEF Ready
  <2> QED
    BY <2>2 DEF Fine, Parks
<1>4. Parks(r, d, q \ {t})
  BY <1>3 DEF Fine, Parks
<1> QED
  BY <1>2, <1>4 DEF Fine

(* poll_closed parks the writer whatever the budget is.                    *)
LEMMA ClosedParksOK ==
  ASSUME NEW r, IsConn(r), NEW a, NEW q, NEW st, NEW b, Fine(r, a, q, st, b),
         NEW t \in Tasks, t \in q,
         \/ t = "send" /\ a.send = "closed" /\ ~r.acked /\ r.error = "none"
         \/ t = "watch" /\ a.backlog,
         NEW w, w = Joined(r, t)
  PROVE  IsConn(w) /\ Fine(w, a, q \ {t}, st, b)
<1>1. /\ IsConn(w) /\ Alike(r, w) /\ w.needs = r.needs /\ w.owed = r.owed
      /\ w.window = r.window /\ w.inbox = r.inbox /\ w.budget = r.budget
      /\ w.waiters = r.waiters \cup {t}
  BY JoinedFacts
<1>2. Life(w, a, q \ {t}, st)
  BY <1>1, Started, LifeStays DEF Fine
<1>3. Owes(w, b)
  BY <1>1 DEF Fine, Owes, Alike
<1>4. \A x : Ready(w, a, x) => Ready(r, a, x)
  BY <1>1 DEF Ready, Alike
<1>5. ~Ready(r, a, t) \/ (t = "watch" /\ a.backlog)
  BY DEF Ready
<1>6. ASSUME NEW x \in w.waiters, Ready(w, a, x)
      PROVE  (w.known /\ w.budget = 0 /\ w.needs) \/ (x = "watch" /\ a.backlog)
  BY <1>1, <1>4, <1>5, <1>6 DEF Fine, Parks, Alike
<1>7. Parks(w, a, q \ {t})
  BY <1>1, <1>6 DEF Fine, Parks, Alike
<1> QED
  BY <1>1, <1>2, <1>3, <1>7 DEF Fine

(* The first reason stays, and every waiter hears of it.                   *)
Shut(r) ==
  [r EXCEPT !.error = "local", !.closing = TRUE,
            !.timer = IF r.closing THEN @ ELSE "armed",
            !.owed = IF r.closing THEN @ ELSE <<"close">>, !.needs = TRUE, !.waiters = {}]

LEMMA ShutOK ==
  ASSUME NEW r, IsConn(r), NEW a, NEW q, NEW st, NEW b, Fine(r, a, q, st, b), "send" \in q,
         NEW d, d.recv = a.recv, d.backlog = a.backlog, d.ended = a.ended,
         NEW w, w = Shut(r), NEW k, k = (q \ {"send"}) \cup r.waiters
  PROVE  IsConn(w) /\ Fine(w, d, k, st, b)
<1>1. DOMAIN r = ConnFields /\ r.owed \in Seq(Packets) /\ r.timer \in {"off", "armed", "due"}
  BY DEF IsConn
<1>2. PICK o \in Seq(Packets) : o = IF r.closing THEN r.owed ELSE <<"close">>
  <2>1. <<"close">> \in Seq(Packets)
    BY DEF Packets
  <2> QED
    BY <1>1, <2>1
<1>3. PICK t \in {"off", "armed", "due"} : t = IF r.closing THEN r.timer ELSE "armed"
  BY <1>1
<1>4. w = [r EXCEPT !.error = "local", !.closing = TRUE, !.timer = t, !.owed = o,
                    !.needs = TRUE, !.waiters = {}]
  BY <1>2, <1>3 DEF Shut
<1>5. /\ DOMAIN w = ConnFields /\ w.error = "local" /\ w.closing = TRUE /\ w.timer = t
      /\ w.owed = o /\ w.needs = TRUE /\ w.waiters = {} /\ w.known = r.known
      /\ w.acked = r.acked /\ w.window = r.window /\ w.inbox = r.inbox
      /\ w.budget = r.budget /\ w.events = r.events
  BY <1>1, <1>4 DEF ConnFields
<1>6. w.closing \in BOOLEAN /\ w.needs \in BOOLEAN
  BY <1>5, Zenon
<1>7. IsConn(w)
  BY <1>5, <1>6 DEF IsConn
<1>8. a.recv # "none" /\ st = "in"
  BY Started DEF Fine
<1>9. Life(w, d, k, st)
  BY <1>5, <1>8 DEF Life
<1>10. Parks(w, d, k)
  BY <1>5 DEF Fine, Parks
<1> QED
  BY <1>5, <1>7, <1>9, <1>10 DEF Fine, Owes

(* A chunk is taken by the reader, or by whoever watches for the end: then *)
(* the reader was not parked, since there was something to read.           *)
LEMMA TakeOK ==
  ASSUME NEW r, IsConn(r), NEW a, NEW q, NEW st, NEW b, Fine(r, a, q, st, b),
         NEW t \in {"recv", "watch"}, t \in q, ~a.backlog, ~a.ended, r.error = "none",
         a.recv \in {"none", "read", "done"}, r.budget > 0, r.inbox # <<>>,
         NEW w, w = Took(r), NEW d, d.recv = a.recv, d.send = a.send,
         t = "recv" => ~d.backlog
  PROVE  IsConn(w) /\ Fine(w, d, q, st, b)
<1>1. /\ IsConn(w) /\ Alike(r, w) /\ w.window = r.window /\ w.waiters = r.waiters
      /\ w.needs = TRUE \/ (w.needs = r.needs /\ w.owed = r.owed)
  BY TookFacts
<1>2. Life(w, d, q, st)
  BY <1>1, Started, LifeStays DEF Fine
<1>3. Owes(w, b)
  BY <1>1 DEF Fine, Owes, Alike
<1>4. r.budget # 0 /\ r.waiters \cap q = {}
  BY DEF IsConn, Fine, Parks
<1>5. \A x \in r.waiters : ~Ready(r, a, x)
  BY <1>4 DEF Fine, Parks
<1>6. "recv" \notin r.waiters /\ "watch" \notin r.waiters
  BY <1>5 DEF Ready
<1>7. a.recv = "read" /\ "recv" \in q
  BY <1>6, Started DEF Fine, Parks
<1>8. ASSUME NEW x \in r.waiters PROVE ~Ready(w, d, x)
  <2>1. ~Ready(r, a, x) /\ x # "recv" /\ x # "watch"
    BY <1>5, <1>6
  <2> QED
    BY <1>1, <2>1 DEF Ready, Alike
<1>9. Parks(w, d, q)
  BY <1>1, <1>4, <1>7, <1>8 DEF Parks
<1> QED
  BY <1>1, <1>2, <1>3, <1>9 DEF Fine

(* Who takes the last of what was read ahead wakes the others.             *)
LEMMA BacklogOK ==
  ASSUME NEW r, IsConn(r), NEW a, NEW q, NEW st, NEW b, Fine(r, a, q, st, b), "recv" \in q,
         a.backlog, NEW d, d.recv = a.recv, d.ended = a.ended, ~d.backlog,
         NEW w, w = Woken(r), NEW k, k = q \cup r.waiters
  PROVE  IsConn(w) /\ Fine(w, d, k, st, b)
<1>1. /\ IsConn(w) /\ w.waiters = {}
      /\ w.known = r.known /\ w.needs = r.needs /\ w.error = r.error /\ w.budget = r.budget
      /\ w.owed = r.owed /\ w.timer = r.timer /\ w.closing = r.closing
      /\ w.events = r.events
  BY WokenFacts
<1>2. a.recv # "none" /\ st = "in"
  BY Started DEF Fine
<1>3. Life(w, d, k, st)
  BY <1>1, <1>2 DEF Fine, Life
<1>4. Owes(w, b)
  BY <1>1 DEF Fine, Owes
<1>5. Parks(w, d, k)
  BY <1>1 DEF Fine, Parks
<1> QED
  BY <1>1, <1>3, <1>4, <1>5 DEF Fine

-----------------------------------------------------------------------------
(* What is left of a list without its head.                                *)
LEMMA Rest ==
  ASSUME NEW S, NEW p \in Seq(S), p # <<>>, NEW t, t = Tail(p)
  PROVE  /\ t \in Seq(S) /\ Len(p) = Len(t) + 1 /\ Head(p) = p[1] /\ 1 \in 1..Len(p)
         /\ Head(p) \in S
         /\ \A i \in 1..Len(t) : t[i] = p[i + 1] /\ i + 1 \in 1..Len(p) /\ i + 1 # 1
         /\ \A i \in 1..Len(t) : t[i] \in S
<1>1. t \in Seq(S)
  BY HeadTailProperties, Zenon
<1>2. Len(p) \in Nat \ {0} /\ Len(t) = Len(p) - 1 /\ \A i \in 1..Len(t) : t[i] = p[i + 1]
  OBVIOUS
<1> QED
  BY <1>1, <1>2

Once(p) == \A i, j \in 1..Len(p) : p[i] = p[j] => i = j

LEMMA RestOnce ==
  ASSUME NEW S, NEW p \in Seq(S), p # <<>>, Once(p), NEW t, t = Tail(p)
  PROVE  Once(t) /\ ToSet(t) = ToSet(p) \ {Head(p)} /\ Head(p) \in ToSet(p)
<1>1. /\ t \in Seq(S) /\ Len(p) = Len(t) + 1 /\ Head(p) = p[1] /\ 1 \in 1..Len(p)
      /\ \A i \in 1..Len(t) : t[i] = p[i + 1] /\ i + 1 \in 1..Len(p) /\ i + 1 # 1
  BY Rest
<1>2. DOMAIN p = 1..Len(p) /\ DOMAIN t = 1..Len(t) /\ Len(t) \in Nat
  BY <1>1
<1>3. Once(t)
  BY <1>1, <1>2 DEF Once
<1>4. ASSUME NEW i \in 1..Len(t) PROVE t[i] \in ToSet(p) \ {Head(p)}
  BY <1>1, <1>2 DEF ToSet, Once
<1>5. ASSUME NEW i \in 1..Len(p), p[i] # Head(p) PROVE p[i] \in ToSet(t)
  <2>1. i - 1 \in 1..Len(t) /\ (i - 1) + 1 = i
    BY <1>1, <1>2, <1>5
  <2>2. t[i - 1] = p[i]
    BY <1>1, <2>1
  <2> QED
    BY <1>2, <2>1, <2>2 DEF ToSet
<1> QED
  BY <1>1, <1>2, <1>3, <1>4, <1>5 DEF ToSet

(* The queue of tasks: one leaves it, some are woken.                      *)
LEMMA QueueMoves ==
  ASSUME TypeOK, QueueInv, machines.polled # <<>>, NEW W \in SUBSET Tags, W \cap Queued = {},
         machines'.woken = machines.woken \cup W, machines'.polled = Tail(machines.polled)
  PROVE  QueueInv' /\ Queued' = (Queued \ {Head(machines.polled)}) \cup W
<1>1. PICK p \in Seq(Tags) : p = machines.polled
  BY DEF TypeOK, Machines
<1>2. PICK t : t = Tail(p)
  OBVIOUS
<1>3. machines'.woken = machines.woken \cup W /\ machines'.polled = t
  BY <1>1, <1>2
<1>4. Once(p) /\ p # <<>> /\ \A i \in 1..Len(p) : p[i] \notin machines.woken
  BY <1>1 DEF QueueInv, Once
<1>5. Once(t) /\ ToSet(t) = ToSet(p) \ {Head(p)} /\ Head(p) \in ToSet(p) /\ t \in Seq(Tags)
  BY <1>2, <1>4, Rest, RestOnce
<1>6. /\ DOMAIN p = 1..Len(p) /\ DOMAIN t = 1..Len(t)
      /\ ToSet(p) \cap machines.woken = {}
      /\ \A i \in 1..Len(t) : t[i] \in ToSet(t)
  BY <1>4, <1>5 DEF ToSet
<1>7. Queued = machines.woken \cup ToSet(p)
  BY <1>1 DEF Queued
<1>8. \A i \in 1..Len(t) : t[i] \notin machines.woken \cup W
  BY <1>5, <1>6, <1>7
<1>9. QueueInv'
  BY <1>3, <1>5, <1>8 DEF QueueInv, Once
<1>10. Queued' = machines.woken \cup W \cup ToSet(t)
  BY <1>3 DEF Queued
<1> QED
  BY <1>1, <1>5, <1>6, <1>7, <1>9, <1>10

LEMMA QueueTail ==
  ASSUME TypeOK, QueueInv, machines.polled # <<>>,
         machines' = [machines EXCEPT !.polled = Tail(@)]
  PROVE  /\ machines' \in Machines
         /\ machines'.incoming = machines.incoming /\ machines'.woken = machines.woken
         /\ QueueInv' /\ Queued' = Queued \ {Head(machines.polled)}
<1>1. machines \in Machines
  BY DEF TypeOK
<1>2. PICK t \in Seq(Tags) : t = Tail(machines.polled)
  <2>1. Tail(machines.polled) \in Seq(Tags)
    BY <1>1, Rest DEF Machines
  <2> QED
    BY <2>1, Zenon
<1>3. machines' = [machines EXCEPT !.polled = t]
  BY <1>2
<1>4. /\ machines'.incoming = machines.incoming /\ machines'.woken = machines.woken
      /\ machines'.polled = t /\ machines' \in Machines
  BY <1>1, <1>3 DEF Machines
<1>5. PICK W \in SUBSET Tags : W = {}
  OBVIOUS
<1>6. QueueInv' /\ Queued' = (Queued \ {Head(machines.polled)}) \cup W
  <2>1. W \cap Queued = {} /\ machines'.woken = machines.woken \cup W
    BY <1>4, <1>5
  <2> QED
    BY <1>2, <1>4, <2>1, QueueMoves
<1> QED
  BY <1>4, <1>5, <1>6

LEMMA QueueWoken ==
  ASSUME TypeOK, QueueInv, NEW W \in SUBSET Tags, W \cap Queued = {},
         machines' = [machines EXCEPT !.woken = @ \cup W]
  PROVE  /\ machines' \in Machines
         /\ machines'.incoming = machines.incoming /\ machines'.woken = machines.woken \cup W
         /\ machines'.polled = machines.polled
         /\ QueueInv' /\ Queued' = Queued \cup W
<1>1. machines \in Machines
  BY DEF TypeOK
<1>2. /\ machines'.incoming = machines.incoming /\ machines'.woken = machines.woken \cup W
      /\ machines'.polled = machines.polled
      /\ machines' \in Machines
  BY <1>1 DEF Machines
<1>3. \A i \in 1..Len(machines.polled) : machines.polled[i] \in Queued
  BY <1>1 DEF Machines, Queued, ToSet
<1> QED
  BY <1>2, <1>3 DEF QueueInv, Queued

LEMMA QueueBoth ==
  ASSUME TypeOK, QueueInv, machines.polled # <<>>, NEW W \in SUBSET Tags, W \cap Queued = {},
         machines' = [machines EXCEPT !.woken = @ \cup W, !.polled = Tail(@)]
  PROVE  /\ machines' \in Machines
         /\ machines'.incoming = machines.incoming /\ machines'.woken = machines.woken \cup W
         /\ QueueInv' /\ Queued' = (Queued \ {Head(machines.polled)}) \cup W
<1>1. machines \in Machines
  BY DEF TypeOK
<1>2. PICK t \in Seq(Tags) : t = Tail(machines.polled)
  <2>1. Tail(machines.polled) \in Seq(Tags)
    BY <1>1, Rest DEF Machines
  <2> QED
    BY <2>1, Zenon
<1>3. PICK k \in SUBSET Tags : k = machines.woken \cup W
  BY <1>1 DEF Machines
<1>4. machines' = [machines EXCEPT !.woken = k, !.polled = t]
  BY <1>2, <1>3
<1>5. /\ machines'.incoming = machines.incoming /\ machines'.woken = k
      /\ machines'.polled = t /\ machines' \in Machines
  BY <1>1, <1>4 DEF Machines
<1>6. QueueInv' /\ Queued' = (Queued \ {Head(machines.polled)}) \cup W
  BY <1>2, <1>3, <1>5, QueueMoves
<1> QED
  BY <1>3, <1>5, <1>6

LEMMA TagsOf ==
  ASSUME NEW c \in Conns, NEW ws \in SUBSET Tasks
  PROVE  \E W \in SUBSET Tags : W = {<<c, x>> : x \in ws}
<1>1. {<<c, x>> : x \in ws} \in SUBSET Tags
  BY DEF Tags
<1> QED
  BY <1>1, Zenon

LEMMA TasksLeave ==
  ASSUME NEW c \in Conns, NEW t \in Tasks, Queued' = Queued \ {<<c, t>>}
  PROVE  /\ TasksOf(c)' = TasksOf(c) \ {t}
         /\ \A d \in Conns : d # c => TasksOf(d)' = TasksOf(d)
BY DEF TasksOf

LEMMA TasksJoin ==
  ASSUME NEW c \in Conns, NEW W \in SUBSET Tasks, Queued' = Queued \cup {<<c, t>> : t \in W}
  PROVE  /\ TasksOf(c)' = TasksOf(c) \cup W
         /\ \A d \in Conns : d # c => TasksOf(d)' = TasksOf(d)
BY DEF TasksOf

LEMMA TasksStay ==
  ASSUME Queued' = Queued
  PROVE  \A c \in Conns : TasksOf(c)' = TasksOf(c)
BY DEF TasksOf

LEMMA PollingFacts ==
  ASSUME EndpointInv, NEW c \in Conns, NEW t \in Tasks, Polling(c, t)
  PROVE  /\ machines.polled # <<>> /\ Head(machines.polled) = <<c, t>> /\ worker.pc = "tasks"
         /\ t \in TasksOf(c) /\ app[c].recv # "none" /\ peer[c].hello = "in"
         /\ conn[c].error = "none" => conn[c].known
         /\ IsConn(conn[c]) /\ app[c] \in App
         /\ Fine(conn[c], app[c], TasksOf(c), peer[c].hello, worker.blocked)
<1>1. /\ machines.polled # <<>> /\ Head(machines.polled) = <<c, t>> /\ worker.pc = "tasks"
  BY DEF Polling, At
<1>2. <<c, t>> \in Queued
  <2>1. PICK p \in Seq(Tags) : p = machines.polled
    BY DEF EndpointInv, TypeOK, Machines
  <2>2. p[1] = <<c, t>> /\ 1 \in DOMAIN p
    BY <1>1, <2>1
  <2> QED
    BY <2>1, <2>2 DEF Queued, ToSet
<1>3. t \in TasksOf(c)
  BY <1>2 DEF TasksOf
<1>4. Fine(conn[c], app[c], TasksOf(c), peer[c].hello, worker.blocked)
  BY DEF EndpointInv, ConnInv, ConnOK, Fine
<1>5. app[c].recv # "none" /\ peer[c].hello = "in" /\ (conn[c].error = "none" => conn[c].known)
  BY <1>3, <1>4 DEF Fine, Life
<1> QED
  BY <1>1, <1>3, <1>4, <1>5 DEF EndpointInv, TypeOK

-----------------------------------------------------------------------------
(* A step of one connection's task, or of the worker on its behalf.        *)
SameWorker ==
  /\ worker' \in Working /\ worker'.pc = worker.pc /\ worker'.todo = worker.todo
  /\ worker'.more = worker.more /\ worker'.blocked = worker.blocked
  /\ worker'.ready = worker.ready /\ (worker.notified => worker'.notified)

LEMMA TaskStep ==
  ASSUME EndpointInv, NEW c \in Conns, worker.pc = "tasks", app[c].recv # "none",
         UNCHANGED <<plan, peer, sock, out, alarm>>, SameWorker,
         machines' \in Machines, machines'.incoming = machines.incoming, QueueInv',
         machines'.woken = machines.woken \/ worker'.notified,
         NEW w, IsConn(w), conn' = [conn EXCEPT ![c] = w],
         NEW a \in App, app' = [app EXCEPT ![c] = a],
         Fine(w, a, TasksOf(c)', peer[c].hello, worker.blocked),
         \A d \in Conns : d # c => TasksOf(d)' = TasksOf(d)
  PROVE  EndpointInv'
<1>1. TypeOK /\ SocketInv /\ PassInv /\ HelloInv /\ ConnInv
  BY DEF EndpointInv
<1>2. /\ DOMAIN conn' = Conns /\ conn'[c] = w /\ app' \in [Conns -> App] /\ app'[c] = a
      /\ \A d \in Conns : d # c => conn'[d] = conn[d] /\ app'[d] = app[d]
  BY <1>1 DEF TypeOK
<1>3. TypeOK'
  <2>1. conn' = [d \in Conns |-> conn'[d]]
    BY <1>1 DEF TypeOK
  <2>2. \A d \in Conns : IsConn(conn'[d])
    BY <1>1, <1>2 DEF TypeOK
  <2> QED
    BY <1>1, <1>2, <2>1, <2>2 DEF TypeOK, SameWorker
<1>4. SocketInv'
  BY <1>1 DEF SocketInv, SameWorker
<1>5. PassInv'
  BY <1>1 DEF PassInv, SameWorker
<1>6. HelloInv'
  <2>1. ASSUME NEW i \in 1..Len(machines.incoming)
        PROVE  app'[machines.incoming[i]].recv = "none"
    <3>1. machines.incoming[i] \in Conns
      BY <1>1 DEF TypeOK, Machines
    <3>2. app[machines.incoming[i]].recv = "none"
      BY <1>1 DEF HelloInv
    <3> QED
      BY <1>2, <3>1, <3>2
  <2> QED
    BY <1>1, <2>1 DEF HelloInv, SameWorker
<1>7. ConnInv'
  <2>1. ASSUME NEW d \in Conns, d # c PROVE ConnOK(d)'
    <3>1. /\ conn'[d] = conn[d] /\ app'[d] = app[d] /\ TasksOf(d)' = TasksOf(d)
          /\ peer' = peer /\ worker'.blocked = worker.blocked
      BY <1>2, <2>1 DEF SameWorker
    <3>2. ConnOK(d)
      BY <1>1 DEF ConnInv
    <3> QED
      BY <3>1, <3>2 DEF ConnOK
  <2>2. ConnOK(c)'
    BY <1>2 DEF ConnOK, Fine, SameWorker
  <2> QED
    BY <2>1, <2>2 DEF ConnInv
<1> QED
  BY <1>3, <1>4, <1>5, <1>6, <1>7 DEF EndpointInv

LEMMA Unchanged ==
  ASSUME EndpointInv, UNCHANGED machines, UNCHANGED worker
  PROVE  /\ SameWorker /\ machines' \in Machines /\ QueueInv'
         /\ \A c \in Conns : TasksOf(c)' = TasksOf(c)
BY DEF EndpointInv, TypeOK, QueueInv, SameWorker, TasksOf, Queued

(* The three ways a task's turn goes: on, to its end, or waking others.    *)
Still == UNCHANGED <<plan, peer, sock, out, alarm>>

LEMMA GoesOn ==
  ASSUME EndpointInv, NEW c \in Conns, NEW t \in Tasks, Polling(c, t),
         Still, UNCHANGED worker, UNCHANGED machines,
         NEW w, IsConn(w), conn' = [conn EXCEPT ![c] = w],
         NEW a \in App, app' = [app EXCEPT ![c] = a],
         Fine(w, a, TasksOf(c), peer[c].hello, worker.blocked)
  PROVE  EndpointInv'
<1>1. /\ SameWorker /\ machines' \in Machines /\ QueueInv' /\ TasksOf(c)' = TasksOf(c)
      /\ \A d \in Conns : d # c => TasksOf(d)' = TasksOf(d)
  BY Unchanged
<1>2. app[c].recv # "none" /\ worker.pc = "tasks"
  BY PollingFacts
<1> QED
  BY <1>1, <1>2, TaskStep DEF Still

LEMMA GoesOut ==
  ASSUME EndpointInv, NEW c \in Conns, NEW t \in Tasks, Polling(c, t),
         Still, UNCHANGED worker, Pending(c, t),
         NEW w, IsConn(w), conn' = [conn EXCEPT ![c] = w],
         NEW a \in App, app' = [app EXCEPT ![c] = a],
         Fine(w, a, TasksOf(c) \ {t}, peer[c].hello, worker.blocked)
  PROVE  EndpointInv'
<1>1. TypeOK /\ QueueInv
  BY DEF EndpointInv
<1>2. /\ app[c].recv # "none" /\ worker.pc = "tasks"
      /\ machines.polled # <<>> /\ Head(machines.polled) = <<c, t>>
  BY PollingFacts
<1>3. /\ machines' \in Machines /\ machines'.incoming = machines.incoming
      /\ machines'.woken = machines.woken /\ QueueInv' /\ Queued' = Queued \ {<<c, t>>}
  BY <1>1, <1>2, QueueTail DEF Pending
<1>4. /\ TasksOf(c)' = TasksOf(c) \ {t}
      /\ \A d \in Conns : d # c => TasksOf(d)' = TasksOf(d)
  BY <1>3, TasksLeave
<1>5. SameWorker
  BY <1>1 DEF SameWorker, TypeOK
<1> QED
  BY <1>2, <1>3, <1>4, <1>5, TaskStep DEF Still

LEMMA WakesOthers ==
  ASSUME EndpointInv, NEW c \in Conns, NEW t \in Tasks, Polling(c, t),
         Still, worker' = [worker EXCEPT !.notified = Notified(c, conn[c])],
         machines' = [machines EXCEPT !.woken = @ \cup {<<c, x>> : x \in conn[c].waiters}],
         NEW w, IsConn(w), conn' = [conn EXCEPT ![c] = w],
         NEW a \in App, app' = [app EXCEPT ![c] = a],
         Fine(w, a, TasksOf(c) \cup conn[c].waiters, peer[c].hello, worker.blocked)
  PROVE  EndpointInv'
<1>1. TypeOK /\ QueueInv /\ worker \in Working
  BY DEF EndpointInv, TypeOK
<1>2. /\ app[c].recv # "none" /\ worker.pc = "tasks"
      /\ conn[c].waiters \in SUBSET Tasks /\ conn[c].waiters \cap TasksOf(c) = {}
  BY PollingFacts DEF IsConn, Fine, Parks
<1>3. PICK ws \in SUBSET Tasks : ws = conn[c].waiters
  BY <1>2
<1>4. PICK W \in SUBSET Tags : W = {<<c, x>> : x \in ws}
  BY TagsOf
<1>5. W \cap Queued = {}
  BY <1>2, <1>3, <1>4 DEF TasksOf
<1>6. machines' = [machines EXCEPT !.woken = @ \cup W]
  BY <1>3, <1>4
<1>7. /\ machines' \in Machines /\ machines'.incoming = machines.incoming
      /\ machines'.woken = machines.woken \cup W /\ QueueInv' /\ Queued' = Queued \cup W
  BY <1>1, <1>5, <1>6, QueueWoken
<1>8. /\ TasksOf(c)' = TasksOf(c) \cup ws
      /\ \A d \in Conns : d # c => TasksOf(d)' = TasksOf(d)
  BY <1>4, <1>7, TasksJoin
<1>9. PICK n \in BOOLEAN : n = Notified(c, conn[c])
  BY DEF Notified
<1>10. worker' \in Working /\ worker'.notified = n /\ SameWorker
  BY <1>1, <1>9 DEF SameWorker, Working, Notified
<1>11. machines'.woken = machines.woken \/ worker'.notified
  BY <1>3, <1>4, <1>7, <1>9, <1>10 DEF Notified
<1>12. Fine(w, a, TasksOf(c)', peer[c].hello, worker.blocked)
  BY <1>3, <1>8
<1> QED
  BY <1>2, <1>7, <1>8, <1>10, <1>11, <1>12, TaskStep DEF Still

LEMMA WriteStep ==
  ASSUME EndpointInv, NEW c \in Conns, Write(c)
  PROVE  EndpointInv'
<1>1. Polling(c, "send") /\ app[c].send = "write" /\ UNCHANGED worker /\ Still
  BY DEF Write, Still
<1>2. "send" \in Tasks
  BY DEF Tasks
<1>3. PICK r : r = conn[c]
  OBVIOUS
<1>4. PICK a : a = app[c]
  OBVIOUS
<1>5. PICK q : q = TasksOf(c)
  OBVIOUS
<1>6. /\ "send" \in q /\ (r.error = "none" => r.known) /\ IsConn(r) /\ a \in App
      /\ Fine(r, a, q, peer[c].hello, worker.blocked)
  BY <1>1, <1>2, <1>3, <1>4, <1>5, PollingFacts
<1>7. CASE Enters(r) /\ r.window > 0
  <2>1. PICK w : w = Owing(Consumed(Lowered(r)), "data")
    OBVIOUS
  <2>2. PICK d : d = [a EXCEPT !.left = a.left - 1]
    OBVIOUS
  <2>3. conn' = [conn EXCEPT ![c] = w] /\ app' = [app EXCEPT ![c] = d] /\ UNCHANGED machines
    BY <1>3, <1>4, <1>7, <2>1, <2>2 DEF Write, Become, Lowered
  <2>4. /\ d \in App /\ d.recv = a.recv /\ d.send = a.send /\ d.ended = a.ended
        /\ d.backlog = a.backlog
    BY <1>6, <2>2 DEF App
  <2>5. IsConn(w) /\ Fine(w, d, q, peer[c].hello, worker.blocked)
    BY <1>6, <1>7, <2>1, <2>4, WriteOK
  <2> QED
    BY <1>1, <1>2, <1>5, <2>3, <2>4, <2>5, GoesOn
<1>8. CASE ~(Enters(r) /\ r.window > 0) /\ r.error = "none"
  <2>1. PICK w : w = Parked(r, "send")
    OBVIOUS
  <2>2. conn' = [conn EXCEPT ![c] = w] /\ Pending(c, "send")
    BY <1>3, <1>8, <2>1 DEF Write, Become
  <2>3. app' = [app EXCEPT ![c] = a]
    BY <1>3, <1>4, <1>8 DEF EndpointInv, TypeOK, Write
  <2>4. r.budget = 0 \/ ~Ready(r, a, "send")
    BY <1>1, <1>4, <1>6, <1>8 DEF Enters, Ready, IsConn
  <2>5. IsConn(w) /\ Fine(w, a, q \ {"send"}, peer[c].hello, worker.blocked)
    BY <1>2, <1>6, <1>8, <2>1, <2>4, ParkOK
  <2> QED
    BY <1>1, <1>2, <1>5, <1>6, <2>2, <2>3, <2>5, GoesOut
<1>9. CASE ~(Enters(r) /\ r.window > 0) /\ r.error # "none"
  <2>1. PICK d : d = [a EXCEPT !.send = "failed"]
    OBVIOUS
  <2>2. UNCHANGED machines /\ app' = [app EXCEPT ![c] = d]
    BY <1>3, <1>4, <1>9, <2>1 DEF Write
  <2>3. conn' = [conn EXCEPT ![c] = r]
    BY <1>3, <1>9 DEF EndpointInv, TypeOK, Write
  <2>4. d \in App /\ d.recv = a.recv /\ d.ended = a.ended /\ d.backlog = a.backlog
    BY <1>6, <2>1 DEF App
  <2>5. Fine(r, d, q, peer[c].hello, worker.blocked)
    BY <1>6, <2>4, SendMovesOK
  <2> QED
    BY <1>1, <1>2, <1>5, <1>6, <2>2, <2>3, <2>4, <2>5, GoesOn
<1> QED
  BY <1>7, <1>8, <1>9

LEMMA FinishStep ==
  ASSUME EndpointInv, NEW c \in Conns, Finish(c)
  PROVE  EndpointInv'
<1>1. Polling(c, "send") /\ UNCHANGED worker /\ UNCHANGED machines /\ Still
  BY DEF Finish, Still
<1>2. "send" \in Tasks
  BY DEF Tasks
<1>3. PICK r : r = conn[c]
  OBVIOUS
<1>4. PICK a : a = app[c]
  OBVIOUS
<1>5. PICK q : q = TasksOf(c)
  OBVIOUS
<1>6. /\ "send" \in q /\ IsConn(r) /\ a \in App
      /\ Fine(r, a, q, peer[c].hello, worker.blocked)
  BY <1>1, <1>2, <1>3, <1>4, <1>5, PollingFacts
<1>7. PICK kind \in {"fin", "reset"}, to \in {"closed", "ended"} :
        conn' = [conn EXCEPT ![c] = Owing(r, kind)] /\ app' = [app EXCEPT ![c].send = to]
  BY <1>3 DEF Finish, Become
<1>8. PICK w : w = Owing(r, kind)
  OBVIOUS
<1>9. PICK d : d = [a EXCEPT !.send = to]
  OBVIOUS
<1>10. conn' = [conn EXCEPT ![c] = w] /\ app' = [app EXCEPT ![c] = d]
  BY <1>4, <1>7, <1>8, <1>9
<1>11. d \in App /\ d.recv = a.recv /\ d.ended = a.ended /\ d.backlog = a.backlog
  BY <1>6, <1>9 DEF App
<1>12. IsConn(w) /\ Fine(w, d, q, peer[c].hello, worker.blocked)
  <2>1. kind \in Packets
    BY DEF Packets
  <2> QED
    BY <1>6, <1>8, <1>11, <2>1, SendMovesOK
<1> QED
  BY <1>1, <1>2, <1>5, <1>10, <1>11, <1>12, GoesOn

LEMMA SendClosedStep ==
  ASSUME EndpointInv, NEW c \in Conns, SendClosed(c)
  PROVE  EndpointInv'
<1>1. Polling(c, "send") /\ app[c].send = "closed" /\ UNCHANGED worker /\ Still
  BY DEF SendClosed, Still
<1>2. "send" \in Tasks
  BY DEF Tasks
<1>3. PICK r : r = conn[c]
  OBVIOUS
<1>4. PICK a : a = app[c]
  OBVIOUS
<1>5. PICK q : q = TasksOf(c)
  OBVIOUS
<1>6. /\ "send" \in q /\ IsConn(r) /\ a \in App
      /\ Fine(r, a, q, peer[c].hello, worker.blocked)
  BY <1>1, <1>2, <1>3, <1>4, <1>5, PollingFacts
<1>7. CASE r.acked \/ r.error # "none"
  <2>1. PICK to \in {"ended", "failed"} : to = IF r.acked THEN "ended" ELSE "failed"
    OBVIOUS
  <2>2. PICK d : d = [a EXCEPT !.send = to]
    OBVIOUS
  <2>3. UNCHANGED machines /\ app' = [app EXCEPT ![c] = d]
    BY <1>3, <1>4, <1>7, <2>1, <2>2 DEF SendClosed
  <2>4. conn' = [conn EXCEPT ![c] = r]
    BY <1>3, <1>7 DEF EndpointInv, TypeOK, SendClosed
  <2>5. d \in App /\ d.recv = a.recv /\ d.ended = a.ended /\ d.backlog = a.backlog
    BY <1>6, <2>2 DEF App
  <2>6. Fine(r, d, q, peer[c].hello, worker.blocked)
    BY <1>6, <2>5, SendMovesOK
  <2> QED
    BY <1>1, <1>2, <1>5, <1>6, <2>3, <2>4, <2>5, <2>6, GoesOn
<1>8. CASE ~(r.acked \/ r.error # "none")
  <2>1. PICK w : w = Joined(r, "send")
    OBVIOUS
  <2>2. conn' = [conn EXCEPT ![c] = w] /\ Pending(c, "send")
    BY <1>3, <1>8, <2>1 DEF SendClosed, Become, Joined
  <2>3. app' = [app EXCEPT ![c] = a]
    BY <1>3, <1>4, <1>8 DEF EndpointInv, TypeOK, SendClosed
  <2>4. IsConn(w) /\ Fine(w, a, q \ {"send"}, peer[c].hello, worker.blocked)
    BY <1>1, <1>2, <1>4, <1>6, <1>8, <2>1, ClosedParksOK
  <2> QED
    BY <1>1, <1>2, <1>5, <1>6, <2>2, <2>3, <2>4, GoesOut
<1> QED
  BY <1>7, <1>8

LEMMA CloseCodeStep ==
  ASSUME EndpointInv, NEW c \in Conns, CloseCode(c)
  PROVE  EndpointInv'
<1>1. Polling(c, "send") /\ Still
  BY DEF CloseCode, Still
<1>2. "send" \in Tasks
  BY DEF Tasks
<1>3. PICK r : r = conn[c]
  OBVIOUS
<1>4. PICK a : a = app[c]
  OBVIOUS
<1>5. PICK q : q = TasksOf(c)
  OBVIOUS
<1>6. /\ "send" \in q /\ IsConn(r) /\ a \in App
      /\ Fine(r, a, q, peer[c].hello, worker.blocked)
      /\ machines.polled # <<>> /\ Head(machines.polled) = <<c, "send">>
      /\ app[c].recv # "none" /\ worker.pc = "tasks"
  BY <1>1, <1>2, <1>3, <1>4, <1>5, PollingFacts
<1>7. PICK d : d = [a EXCEPT !.send = "done"]
  OBVIOUS
<1>8. app' = [app EXCEPT ![c] = d]
  BY <1>4, <1>7 DEF CloseCode
<1>9. d \in App /\ d.recv = a.recv /\ d.ended = a.ended /\ d.backlog = a.backlog
  BY <1>6, <1>7 DEF App
<1>10. CASE ~(plan.does[c].closer = "us" /\ r.error = "none")
  <2>1. Pending(c, "send") /\ UNCHANGED worker /\ conn' = conn
    BY <1>3, <1>10 DEF CloseCode
  <2>2. conn' = [conn EXCEPT ![c] = r]
    BY <1>3, <2>1 DEF EndpointInv, TypeOK
  <2>3. Fine(r, d, q \ {"send"}, peer[c].hello, worker.blocked)
    BY <1>6, <1>9, DoneOK
  <2> QED
    BY <1>1, <1>2, <1>5, <1>6, <1>8, <1>9, <2>1, <2>2, <2>3, GoesOut
<1>11. CASE plan.does[c].closer = "us" /\ r.error = "none"
  <2>1. PICK w : w = Shut(r)
    OBVIOUS
  <2>2. PICK ws \in SUBSET Tasks : ws = r.waiters
    BY <1>6 DEF IsConn
  <2>3. PICK W \in SUBSET Tags : W = {<<c, x>> : x \in ws}
    BY TagsOf
  <2>4. /\ conn' = [conn EXCEPT ![c] = w]
        /\ machines' = [machines EXCEPT !.woken = @ \cup W, !.polled = Tail(@)]
        /\ worker' = [worker EXCEPT !.notified = Notified(c, r)]
    BY <1>3, <1>11, <2>1, <2>2, <2>3 DEF CloseCode, Become, Shut
  <2>5. IsConn(w) /\ Fine(w, d, (q \ {"send"}) \cup ws, peer[c].hello, worker.blocked)
    BY <1>6, <1>9, <2>1, <2>2, ShutOK
  <2>6. /\ machines' \in Machines /\ machines'.incoming = machines.incoming
        /\ machines'.woken = machines.woken \cup W /\ QueueInv'
        /\ Queued' = (Queued \ {<<c, "send">>}) \cup W
    <3>1. W \cap Queued = {}
      BY <1>5, <1>6, <2>2, <2>3 DEF Fine, Parks, TasksOf
    <3> QED
      BY <1>6, <2>4, <3>1, QueueBoth DEF EndpointInv
  <2>7. /\ TasksOf(c)' = (q \ {"send"}) \cup ws
        /\ \A e \in Conns : e # c => TasksOf(e)' = TasksOf(e)
    BY <1>2, <1>5, <2>2, <2>3, <2>6 DEF TasksOf
  <2>8. PICK n \in BOOLEAN : n = Notified(c, r)
    BY DEF Notified
  <2>9. worker' \in Working /\ worker'.notified = n /\ SameWorker
    BY <2>4, <2>8 DEF EndpointInv, TypeOK, SameWorker, Working, Notified
  <2>10. machines'.woken = machines.woken \/ worker'.notified
    BY <2>2, <2>3, <2>6, <2>8, <2>9 DEF Notified
  <2>11. Fine(w, d, TasksOf(c)', peer[c].hello, worker.blocked)
    BY <2>5, <2>7
  <2> QED
    BY <1>1, <1>6, <1>8, <1>9, <2>4, <2>5, <2>6, <2>7, <2>9, <2>10, <2>11, TaskStep DEF Still
<1> QED
  BY <1>10, <1>11

(* The reader, and whoever watches for the end.                            *)
LEMMA OpenFacts ==
  ASSUME NEW c, IsConn(conn[c]), app[c] \in App, ~Over(c)
  PROVE  conn[c].error = "none" /\ ~app[c].ended
         /\ (~Blocked(c) /\ Enters(conn[c]) => conn[c].inbox # <<>> /\ conn[c].budget > 0)
         /\ (Blocked(c) => conn[c].inbox = <<>>)
BY DEF Over, Blocked, Enters

LEMMA ReadStep ==
  ASSUME EndpointInv, NEW c \in Conns, Read(c)
  PROVE  EndpointInv'
<1>1. Polling(c, "recv") /\ app[c].recv = "read" /\ Still
  BY DEF Read, Still
<1>2. "recv" \in Tasks
  BY DEF Tasks
<1>3. PICK r : r = conn[c]
  OBVIOUS
<1>4. PICK a : a = app[c]
  OBVIOUS
<1>5. PICK q : q = TasksOf(c)
  OBVIOUS
<1>6. /\ "recv" \in q /\ IsConn(r) /\ a \in App
      /\ Fine(r, a, q, peer[c].hello, worker.blocked)
  BY <1>1, <1>2, <1>3, <1>4, <1>5, PollingFacts
<1>7. CASE /\ app[c].backlog
           /\ app' = [app EXCEPT ![c].backlog = FALSE]
           /\ Wakes(c, conn[c]) /\ worker' = [worker EXCEPT !.notified = Notified(c, conn[c])]
  <2>1. PICK w : w = Woken(r)
    OBVIOUS
  <2>2. PICK d : d = [a EXCEPT !.backlog = FALSE]
    OBVIOUS
  <2>3. conn' = [conn EXCEPT ![c] = w] /\ app' = [app EXCEPT ![c] = d]
    BY <1>3, <1>4, <1>7, <2>1, <2>2 DEF Wakes, Woken
  <2>4. /\ d \in App /\ d.recv = a.recv /\ d.ended = a.ended /\ ~d.backlog
    BY <1>6, <2>2 DEF App
  <2>5. IsConn(w) /\ Fine(w, d, q \cup r.waiters, peer[c].hello, worker.blocked)
    BY <1>4, <1>6, <1>7, <2>1, <2>4, BacklogOK
  <2>6. machines' = [machines EXCEPT !.woken = @ \cup {<<c, x>> : x \in conn[c].waiters}]
    BY <1>7 DEF Wakes
  <2> QED
    BY <1>1, <1>2, <1>3, <1>5, <1>7, <2>3, <2>4, <2>5, <2>6, WakesOthers
<1>8. CASE /\ ~app[c].backlog /\ Over(c)
           /\ app' = [app EXCEPT ![c].recv = "done"]
           /\ Pending(c, "recv") /\ UNCHANGED <<conn, worker>>
  <2>1. PICK d : d = [a EXCEPT !.recv = "done"]
    OBVIOUS
  <2>2. app' = [app EXCEPT ![c] = d]
    BY <1>4, <1>8, <2>1
  <2>3. conn' = [conn EXCEPT ![c] = r]
    BY <1>3, <1>8 DEF EndpointInv, TypeOK
  <2>4. /\ d \in App /\ d.recv = "done" /\ d.send = a.send /\ d.ended = a.ended
        /\ d.backlog = a.backlog
    BY <1>6, <2>1 DEF App
  <2>5. Fine(r, d, q \ {"recv"}, peer[c].hello, worker.blocked)
    BY <1>3, <1>4, <1>6, <1>8, <2>4, DoneOK DEF Over
  <2> QED
    BY <1>1, <1>2, <1>5, <1>6, <1>8, <2>2, <2>3, <2>4, <2>5, GoesOut
<1>9. CASE /\ ~app[c].backlog /\ ~Over(c) /\ Enters(conn[c]) /\ ~Blocked(c)
           /\ TakeChunk(c)
           /\ app' = [app EXCEPT ![c].ended = Chunk(c) = "fin"]
           /\ UNCHANGED <<machines, worker>>
  <2>1. PICK w : w = Took(r)
    OBVIOUS
  <2>2. PICK end \in BOOLEAN : end = (Chunk(c) = "fin")
    OBVIOUS
  <2>3. PICK d : d = [a EXCEPT !.ended = end]
    OBVIOUS
  <2>4. conn' = [conn EXCEPT ![c] = w]
    BY <1>3, <1>9, <2>1 DEF TakeChunk, Become, Took, Chunk, Eaten
  <2>5. app' = [app EXCEPT ![c] = d]
    BY <1>4, <1>9, <2>2, <2>3
  <2>6. /\ d \in App /\ d.recv = a.recv /\ d.send = a.send /\ d.backlog = a.backlog
        /\ a.recv \in {"none", "read", "done"}
    BY <1>6, <2>3 DEF App
  <2>7. IsConn(w) /\ Fine(w, d, q, peer[c].hello, worker.blocked)
    BY <1>3, <1>4, <1>6, <1>9, <2>1, <2>6, OpenFacts, TakeOK
  <2> QED
    BY <1>1, <1>2, <1>5, <1>9, <2>4, <2>5, <2>6, <2>7, GoesOn
<1>10. CASE /\ ~app[c].backlog /\ ~Over(c) /\ (conn[c].budget = 0 \/ Blocked(c))
            /\ ParkOn(c, "recv")
  <2>1. PICK w : w = Parked(r, "recv")
    OBVIOUS
  <2>2. conn' = [conn EXCEPT ![c] = w] /\ Pending(c, "recv") /\ UNCHANGED worker
    BY <1>3, <1>10, <2>1 DEF ParkOn, Become
  <2>3. app' = [app EXCEPT ![c] = a]
    BY <1>4, <1>10 DEF EndpointInv, TypeOK, ParkOn
  <2>4. r.error = "none" /\ (r.budget = 0 \/ ~Ready(r, a, "recv"))
    BY <1>3, <1>4, <1>6, <1>10, OpenFacts DEF Ready
  <2>5. IsConn(w) /\ Fine(w, a, q \ {"recv"}, peer[c].hello, worker.blocked)
    BY <1>2, <1>4, <1>6, <1>10, <2>1, <2>4, ParkOK
  <2> QED
    BY <1>1, <1>2, <1>5, <1>6, <2>2, <2>3, <2>5, GoesOut
<1> QED
  BY <1>7, <1>8, <1>9, <1>10 DEF Read

LEMMA WatchClosedStep ==
  ASSUME EndpointInv, NEW c \in Conns, WatchClosed(c)
  PROVE  EndpointInv'
<1>1. Polling(c, "watch") /\ app[c].watch = "wait" /\ Still
  BY DEF WatchClosed, Still
<1>2. "watch" \in Tasks
  BY DEF Tasks
<1>3. PICK r : r = conn[c]
  OBVIOUS
<1>4. PICK a : a = app[c]
  OBVIOUS
<1>5. PICK q : q = TasksOf(c)
  OBVIOUS
<1>6. /\ "watch" \in q /\ IsConn(r) /\ a \in App
      /\ Fine(r, a, q, peer[c].hello, worker.blocked)
  BY <1>1, <1>2, <1>3, <1>4, <1>5, PollingFacts
<1>7. CASE /\ app' = [app EXCEPT ![c].watch = "done"]
           /\ Pending(c, "watch") /\ UNCHANGED <<conn, worker>>
  <2>1. PICK d : d = [a EXCEPT !.watch = "done"]
    OBVIOUS
  <2>2. app' = [app EXCEPT ![c] = d]
    BY <1>4, <1>7, <2>1
  <2>3. conn' = [conn EXCEPT ![c] = r]
    BY <1>3, <1>7 DEF EndpointInv, TypeOK
  <2>4. /\ d \in App /\ d.recv = a.recv /\ d.send = a.send /\ d.ended = a.ended
        /\ d.backlog = a.backlog
    BY <1>6, <2>1 DEF App
  <2>5. Fine(r, d, q \ {"watch"}, peer[c].hello, worker.blocked)
    BY <1>6, <2>4, DoneOK
  <2> QED
    BY <1>1, <1>2, <1>5, <1>6, <1>7, <2>2, <2>3, <2>4, <2>5, GoesOut
<1>8. CASE /\ ~app[c].ended /\ app[c].backlog
           /\ Become(c, [conn[c] EXCEPT !.waiters = @ \cup {"watch"}])
           /\ Pending(c, "watch") /\ UNCHANGED <<app, worker>>
  <2>1. PICK w : w = Joined(r, "watch")
    OBVIOUS
  <2>2. conn' = [conn EXCEPT ![c] = w]
    BY <1>3, <1>8, <2>1 DEF Become, Joined
  <2>3. app' = [app EXCEPT ![c] = a]
    BY <1>4, <1>8 DEF EndpointInv, TypeOK
  <2>4. IsConn(w) /\ Fine(w, a, q \ {"watch"}, peer[c].hello, worker.blocked)
    BY <1>2, <1>4, <1>6, <1>8, <2>1, ClosedParksOK
  <2> QED
    BY <1>1, <1>2, <1>5, <1>6, <1>8, <2>2, <2>3, <2>4, GoesOut
<1>9. CASE /\ ~app[c].backlog /\ ~Over(c) /\ Enters(conn[c]) /\ ~Blocked(c)
           /\ TakeChunk(c)
           /\ app' = [app EXCEPT ![c].ended = Chunk(c) = "fin", ![c].backlog = Chunk(c) # "fin"]
           /\ UNCHANGED <<machines, worker>>
  <2>1. PICK w : w = Took(r)
    OBVIOUS
  <2>2. PICK end \in BOOLEAN : end = (Chunk(c) = "fin")
    OBVIOUS
  <2>3. PICK more \in BOOLEAN : more = (Chunk(c) # "fin")
    OBVIOUS
  <2>4. PICK d : d = [a EXCEPT !.ended = end, !.backlog = more]
    OBVIOUS
  <2>5. conn' = [conn EXCEPT ![c] = w]
    BY <1>3, <1>9, <2>1 DEF TakeChunk, Become, Took, Chunk, Eaten
  <2>6. app' = [app EXCEPT ![c] = d]
    BY <1>4, <1>9, <2>2, <2>3, <2>4 DEF EndpointInv, TypeOK
  <2>7. /\ d \in App /\ d.recv = a.recv /\ d.send = a.send
        /\ a.recv \in {"none", "read", "done"}
    BY <1>6, <2>4 DEF App
  <2>8. IsConn(w) /\ Fine(w, d, q, peer[c].hello, worker.blocked)
    BY <1>3, <1>4, <1>6, <1>9, <2>1, <2>7, OpenFacts, TakeOK
  <2> QED
    BY <1>1, <1>2, <1>5, <1>9, <2>5, <2>6, <2>7, <2>8, GoesOn
<1>10. CASE /\ ~app[c].backlog /\ ~Over(c) /\ (conn[c].budget = 0 \/ Blocked(c))
            /\ ParkOn(c, "watch")
  <2>1. PICK w : w = Parked(r, "watch")
    OBVIOUS
  <2>2. conn' = [conn EXCEPT ![c] = w] /\ Pending(c, "watch") /\ UNCHANGED worker
    BY <1>3, <1>10, <2>1 DEF ParkOn, Become
  <2>3. app' = [app EXCEPT ![c] = a]
    BY <1>4, <1>10 DEF EndpointInv, TypeOK, ParkOn
  <2>4. r.error = "none" /\ (r.budget = 0 \/ ~Ready(r, a, "watch"))
    BY <1>3, <1>4, <1>6, <1>10, OpenFacts DEF Ready
  <2>5. IsConn(w) /\ Fine(w, a, q \ {"watch"}, peer[c].hello, worker.blocked)
    BY <1>2, <1>6, <2>1, <2>4, ParkOK
  <2> QED
    BY <1>1, <1>2, <1>5, <1>6, <2>2, <2>3, <2>5, GoesOut
<1> QED
  BY <1>7, <1>8, <1>9, <1>10 DEF WatchClosed

-----------------------------------------------------------------------------
(* What the worker does around its tasks.  The connections do not see it.  *)
LEMMA ConnsStay ==
  ASSUME ConnInv, UNCHANGED <<conn, app, peer>>, Queued' = Queued,
         worker.blocked => worker'.blocked
  PROVE  ConnInv'
<1>1. ASSUME NEW c \in Conns PROVE ConnOK(c)'
  <2>1. TasksOf(c)' = TasksOf(c) /\ ConnOK(c)
    BY TasksStay DEF ConnInv
  <2>2. Owes(conn[c], worker.blocked)'
    BY <2>1 DEF ConnOK, Owes
  <2> QED
    BY <2>1, <2>2 DEF ConnOK
<1> QED
  BY <1>1 DEF ConnInv

(* It sees what is done to it, and no other.                               *)
LEMMA OthersStay ==
  ASSUME TypeOK, ConnInv, NEW c \in Conns, NEW w, IsConn(w), conn' = [conn EXCEPT ![c] = w],
         \A d \in Conns : d # c => /\ app'[d] = app[d] /\ peer'[d].hello = peer[d].hello
                                   /\ TasksOf(d)' = TasksOf(d),
         worker'.blocked = worker.blocked,
         Fine(w, app'[c], TasksOf(c)', peer'[c].hello, worker.blocked)
  PROVE  /\ conn' = [d \in Conns |-> conn'[d]] /\ (\A d \in Conns : IsConn(conn'[d]))
         /\ ConnInv'
<1>1. /\ conn' = [d \in Conns |-> conn'[d]] /\ conn'[c] = w
      /\ \A d \in Conns : d # c => conn'[d] = conn[d]
  BY DEF TypeOK
<1>2. \A d \in Conns : IsConn(conn'[d])
  BY <1>1 DEF TypeOK
<1>3. ASSUME NEW d \in Conns, d # c PROVE ConnOK(d)'
  <2>1. ConnOK(d)
    BY DEF ConnInv
  <2> QED
    BY <1>1, <1>3, <2>1 DEF ConnOK
<1>4. ConnOK(c)'
  BY <1>1 DEF ConnOK, Fine
<1> QED
  BY <1>1, <1>2, <1>3, <1>4 DEF ConnInv

LEMMA ReceiveEndsStep ==
  ASSUME EndpointInv, ReceiveEnds
  PROVE  EndpointInv'
<1>1. TypeOK /\ SocketInv /\ PassInv /\ QueueInv /\ HelloInv /\ ConnInv
  BY DEF EndpointInv
<1>2. PICK more \in BOOLEAN : ServeAll(more) /\ (more \/ sock.rx = <<>>) /\ worker.pc = "receive"
  BY DEF ReceiveEnds, At
<1>3. Rotated \in Seq(Conns) /\ \A i \in 1..Len(Rotated) : conn[Rotated[i]].known
  BY <1>1, RotatedType
<1>4. PICK ids \in Seq(Conns) : ids = Rotated
  BY <1>3, Zenon
<1>5. PICK n \in Nat : n = IF ids = <<>> THEN worker.next ELSE (worker.next + 1) % Len(ids)
  <2>1. worker.next \in Nat
    BY <1>1 DEF TypeOK, Working
  <2>2. CASE ids # <<>>
    <3>1. Len(ids) \in Nat \ {0}
      BY <2>2
    <3>2. (worker.next + 1) % Len(ids) \in Nat
      BY <2>1, <3>1
    <3> QED
      BY <2>2, <3>2
  <2> QED
    BY <2>1, <2>2
<1>6. /\ worker' = [worker EXCEPT !.pc = "serve", !.round = 0, !.more = more, !.todo = ids,
                                  !.next = n]
      /\ UNCHANGED <<plan, peer, sock, out, conn, app, machines, alarm>>
  BY <1>2, <1>4, <1>5 DEF ServeAll
<1>7. /\ worker' \in Working /\ worker'.pc = "serve" /\ worker'.more = more
      /\ worker'.todo = ids /\ worker'.blocked = worker.blocked
  <2>1. "serve" \in Labels
    BY DEF Labels
  <2> QED
    BY <1>1, <1>6, <2>1 DEF TypeOK, Working
<1>8. TypeOK'
  BY <1>1, <1>6, <1>7 DEF TypeOK
<1>9. SocketInv'
  BY <1>1, <1>2, <1>6, <1>7 DEF SocketInv
<1>10. PassInv'
  BY <1>1, <1>2, <1>6, <1>7 DEF PassInv
<1>11. QueueInv' /\ Queued' = Queued
  BY <1>1, <1>6 DEF QueueInv, Queued
<1>12. HelloInv'
  <2>1. ASSUME NEW i \in 1..Len(ids) PROVE peer[ids[i]].hello = "in"
    <3>1. ids[i] \in Conns /\ conn[ids[i]].known
      BY <1>3, <1>4
    <3> QED
      BY <1>1, <3>1 DEF ConnInv, ConnOK, Life
  <2> QED
    BY <1>1, <1>6, <1>7, <2>1 DEF HelloInv
<1>13. ConnInv'
  BY <1>1, <1>6, <1>7, <1>11, ConnsStay
<1> QED
  BY <1>8, <1>9, <1>10, <1>11, <1>12, <1>13 DEF EndpointInv

LEMMA ServeEndsStep ==
  ASSUME EndpointInv, ServeEnds
  PROVE  EndpointInv'
<1>1. TypeOK /\ SocketInv /\ PassInv /\ QueueInv /\ HelloInv /\ ConnInv
  BY DEF EndpointInv
<1>2. /\ worker.pc = "serve" /\ worker' = [worker EXCEPT !.pc = "send"]
      /\ UNCHANGED <<plan, peer, sock, out, conn, app, machines, alarm>>
  BY DEF ServeEnds, At
<1>3. /\ worker' \in Working /\ worker'.pc = "send" /\ worker'.more = worker.more
      /\ worker'.todo = worker.todo /\ worker'.blocked = worker.blocked
  <2>1. "send" \in Labels
    BY DEF Labels
  <2> QED
    BY <1>1, <1>2, <2>1 DEF TypeOK, Working
<1>4. TypeOK'
  BY <1>1, <1>2, <1>3 DEF TypeOK
<1>5. SocketInv' /\ PassInv' /\ HelloInv'
  BY <1>1, <1>2, <1>3 DEF SocketInv, PassInv, HelloInv
<1>6. QueueInv' /\ Queued' = Queued
  BY <1>1, <1>2 DEF QueueInv, Queued
<1>7. ConnInv'
  BY <1>1, <1>2, <1>3, <1>6, ConnsStay
<1> QED
  BY <1>4, <1>5, <1>6, <1>7 DEF EndpointInv

LEMMA SendEndsStep ==
  ASSUME EndpointInv, SendEnds
  PROVE  EndpointInv'
<1>1. TypeOK /\ SocketInv /\ PassInv /\ QueueInv /\ HelloInv /\ ConnInv
  BY DEF EndpointInv
<1>2. PICK b \in BOOLEAN : b = (worker.blocked \/ out # <<>>)
  OBVIOUS
<1>3. /\ worker.pc = "send" /\ worker' = [worker EXCEPT !.pc = "timers", !.blocked = b]
      /\ out = <<>> \/ Len(sock.tx) >= ROOM
      /\ UNCHANGED <<plan, peer, sock, out, conn, app, machines, alarm>>
  BY <1>2 DEF SendEnds, At
<1>4. /\ worker' \in Working /\ worker'.pc = "timers" /\ worker'.more = worker.more
      /\ worker'.todo = worker.todo /\ worker'.blocked = b
  <2>1. "timers" \in Labels
    BY DEF Labels
  <2> QED
    BY <1>1, <1>3, <2>1 DEF TypeOK, Working
<1>5. TypeOK'
  BY <1>1, <1>3, <1>4 DEF TypeOK
<1>6. out # <<>> => sock.tx # <<>>
  <2>1. ROOM \in Nat \ {0}
    BY EndpointAssumption
  <2> QED
    BY <1>3, <2>1
<1>7. SocketInv' /\ PassInv' /\ HelloInv'
  <2>1. out # <<>> => worker'.blocked
    BY <1>2, <1>4
  <2>2. SocketInv'
    BY <1>1, <1>3, <1>4, <1>6, <2>1 DEF SocketInv
  <2> QED
    BY <1>1, <1>3, <1>4, <2>2 DEF PassInv, HelloInv
<1>8. QueueInv' /\ Queued' = Queued
  BY <1>1, <1>3 DEF QueueInv, Queued
<1>9. ConnInv'
  BY <1>1, <1>2, <1>3, <1>4, <1>8, ConnsStay
<1> QED
  BY <1>5, <1>7, <1>8, <1>9 DEF EndpointInv

LEMMA TasksEndStep ==
  ASSUME EndpointInv, TasksEnd
  PROVE  EndpointInv'
<1>1. TypeOK /\ SocketInv /\ PassInv /\ QueueInv /\ HelloInv /\ ConnInv
  BY DEF EndpointInv
<1>2. /\ worker.pc = "tasks" /\ worker' = [worker EXCEPT !.pc = "deadline"]
      /\ machines.polled = <<>> /\ machines.incoming = <<>>
      /\ UNCHANGED <<plan, peer, sock, out, conn, app, machines, alarm>>
  BY DEF TasksEnd, At
<1>3. /\ worker' \in Working /\ worker'.pc = "deadline" /\ worker'.more = worker.more
      /\ worker'.todo = worker.todo /\ worker'.blocked = worker.blocked
      /\ worker'.notified = worker.notified /\ worker'.ready = worker.ready
  <2>1. "deadline" \in Labels
    BY DEF Labels
  <2> QED
    BY <1>1, <1>2, <2>1 DEF TypeOK, Working
<1>4. TypeOK'
  BY <1>1, <1>2, <1>3 DEF TypeOK
<1>5. SocketInv' /\ PassInv' /\ HelloInv'
  BY <1>1, <1>2, <1>3 DEF SocketInv, PassInv, HelloInv
<1>6. QueueInv' /\ Queued' = Queued
  BY <1>1, <1>2 DEF QueueInv, Queued
<1>7. ConnInv'
  BY <1>1, <1>2, <1>3, <1>6, ConnsStay
<1> QED
  BY <1>4, <1>5, <1>6, <1>7 DEF EndpointInv

LEMMA DecideStep ==
  ASSUME EndpointInv, Decide
  PROVE  EndpointInv'
<1>1. TypeOK /\ SocketInv /\ PassInv /\ QueueInv /\ HelloInv /\ ConnInv
  BY DEF EndpointInv
<1>2. PICK to \in {"wake", "asleep"} :
        to = IF worker.notified \/ NeedsPass \/ worker.ready THEN "wake" ELSE "asleep"
  OBVIOUS
<1>3. /\ worker.pc = "decide" /\ worker' = [worker EXCEPT !.pc = to]
      /\ UNCHANGED <<plan, peer, sock, out, conn, app, machines, alarm>>
  BY <1>2 DEF Decide, At
<1>4. /\ worker' \in Working /\ worker'.pc = to /\ worker'.more = worker.more
      /\ worker'.todo = worker.todo /\ worker'.blocked = worker.blocked
      /\ worker'.sched = worker.sched
  <2>1. to \in Labels
    BY <1>2 DEF Labels
  <2> QED
    BY <1>1, <1>3, <2>1 DEF TypeOK, Working
<1>5. TypeOK'
  BY <1>1, <1>3, <1>4 DEF TypeOK
<1>6. to = "asleep" => /\ ~worker.notified /\ ~worker.ready /\ ~worker.more
                       /\ \A c \in Conns : conn[c].known => ~conn[c].needs
  BY <1>2 DEF NeedsPass, Known
<1>7. SocketInv' /\ HelloInv'
  BY <1>1, <1>3, <1>4, <1>6 DEF SocketInv, HelloInv
<1>8. PassInv'
  BY <1>1, <1>3, <1>4, <1>6 DEF PassInv, Due
<1>9. QueueInv' /\ Queued' = Queued
  BY <1>1, <1>3 DEF QueueInv, Queued
<1>10. ConnInv'
  BY <1>1, <1>3, <1>4, <1>9, ConnsStay
<1> QED
  BY <1>5, <1>7, <1>8, <1>9, <1>10 DEF EndpointInv

LEMMA WakeStep ==
  ASSUME EndpointInv, Wake
  PROVE  EndpointInv'
<1>1. TypeOK /\ SocketInv /\ PassInv /\ QueueInv /\ HelloInv /\ ConnInv
  BY DEF EndpointInv
<1>2. /\ worker.pc \in {"asleep", "wake"}
      /\ worker' = [worker EXCEPT !.pc = "receive", !.notified = FALSE]
      /\ sock' = [sock EXCEPT !.ready = FALSE]
      /\ UNCHANGED <<plan, peer, out, conn, app, machines, alarm>>
  BY DEF Wake, At
<1>3. /\ worker' \in Working /\ worker'.pc = "receive" /\ worker'.more = worker.more
      /\ worker'.todo = worker.todo /\ worker'.blocked = worker.blocked
  <2>1. "receive" \in Labels
    BY DEF Labels
  <2> QED
    BY <1>1, <1>2, <2>1 DEF TypeOK, Working
<1>4. sock' \in Socket /\ sock'.rx = sock.rx /\ sock'.tx = sock.tx
  BY <1>1, <1>2 DEF TypeOK, Socket
<1>5. TypeOK'
  BY <1>1, <1>2, <1>3, <1>4 DEF TypeOK
<1>6. SocketInv' /\ PassInv' /\ HelloInv'
  BY <1>1, <1>2, <1>3, <1>4 DEF SocketInv, PassInv, HelloInv
<1>7. QueueInv' /\ Queued' = Queued
  BY <1>1, <1>2 DEF QueueInv, Queued
<1>8. ConnInv'
  BY <1>1, <1>2, <1>3, <1>7, ConnsStay
<1> QED
  BY <1>5, <1>6, <1>7, <1>8 DEF EndpointInv

LEMMA RingStep ==
  ASSUME EndpointInv, Ring
  PROVE  EndpointInv'
<1>1. TypeOK /\ SocketInv /\ PassInv /\ QueueInv /\ HelloInv /\ ConnInv
  BY DEF EndpointInv
<1>2. /\ worker.pc \in {"asleep", "wake", "send", "deadline"} /\ alarm.at = "armed"
      /\ alarm' = [alarm EXCEPT !.at = "due"]
      /\ UNCHANGED <<plan, peer, sock, worker, out, conn, app, machines>>
  BY DEF Ring, Outside, At
<1>3. alarm' \in Alarm
  BY <1>1, <1>2 DEF TypeOK, Alarm
<1>4. TypeOK'
  BY <1>1, <1>2, <1>3 DEF TypeOK
<1>5. SocketInv' /\ PassInv' /\ HelloInv'
  BY <1>1, <1>2 DEF SocketInv, PassInv, HelloInv
<1>6. QueueInv' /\ Queued' = Queued
  BY <1>1, <1>2 DEF QueueInv, Queued
<1>7. ConnInv'
  BY <1>1, <1>2, <1>6, ConnsStay
<1> QED
  BY <1>4, <1>5, <1>6, <1>7 DEF EndpointInv

LEMMA RunTimersStep ==
  ASSUME EndpointInv, RunTimers
  PROVE  EndpointInv'
<1>1. TypeOK /\ SocketInv /\ PassInv /\ QueueInv /\ HelloInv /\ ConnInv
  BY DEF EndpointInv
<1>2. PICK ws \in SUBSET Tags : ws = machines.woken \cup (IF Due THEN {ALARM} ELSE {})
  <2>1. machines.woken \cup (IF Due THEN {ALARM} ELSE {}) \in SUBSET Tags
    BY <1>1 DEF TypeOK, Machines, Tags
  <2> QED
    BY <2>1, Zenon
<1>3. IsFiniteSet(ws)
  <2>1. IsFiniteSet(Tasks)
    <3>1. Tasks = {"send"} \cup {"recv"} \cup {"watch"}
      BY DEF Tasks
    <3> QED
      BY <3>1, FS_Singleton, FS_Union
  <2>2. IsFiniteSet(Conns \X Tasks)
    BY <2>1, FS_Product, EndpointAssumption
  <2>3. IsFiniteSet(Tags)
    BY <2>2, FS_AddElement DEF Tags
  <2> QED
    BY <2>3, FS_Subset
<1>4. PICK order : order = SetToSeq(ws)
  OBVIOUS
<1>5. order \in Seq(ws) /\ ToSet(order) = ws /\ \A i, j \in 1..Len(order) : order[i] = order[j] => i = j
  BY <1>3, <1>4, Listing
<1>6. PICK p : p = IF plan.reversed THEN Reverse(order) ELSE order
  OBVIOUS
<1>7. p \in Seq(ws) /\ ToSet(p) = ws /\ Once(p)
  <2>1. /\ Reverse(order) \in Seq(ws) /\ ToSet(Reverse(order)) = ToSet(order)
        /\ \A i, j \in 1..Len(Reverse(order)) : Reverse(order)[i] = Reverse(order)[j] => i = j
    BY <1>5, Backwards
  <2> QED
    BY <1>5, <1>6, <2>1 DEF Once
<1>8. p \in Seq(Tags)
  BY <1>7
<1>9. PICK w \in BOOLEAN : w = (alarm.waiting /\ ~Due)
  OBVIOUS
<1>10. PICK n \in BOOLEAN : n = (worker.notified \/ Due)
  OBVIOUS
<1>11. /\ worker.pc = "timers"
       /\ alarm' = [alarm EXCEPT !.waiting = w]
       /\ machines' = [machines EXCEPT !.woken = {}, !.polled = p]
       /\ worker' = [worker EXCEPT !.pc = "tasks", !.ready = FALSE, !.notified = n]
       /\ UNCHANGED <<plan, peer, sock, out, conn, app>>
  BY <1>2, <1>4, <1>6, <1>9, <1>10 DEF RunTimers, At
<1>12. /\ worker' \in Working /\ worker'.pc = "tasks" /\ worker'.more = worker.more
       /\ worker'.todo = worker.todo /\ worker'.blocked = worker.blocked
  <2>1. "tasks" \in Labels
    BY DEF Labels
  <2> QED
    BY <1>1, <1>11, <2>1 DEF TypeOK, Working
<1>13. /\ machines' \in Machines /\ machines'.woken = {} /\ machines'.polled = p
       /\ machines'.incoming = machines.incoming
  BY <1>1, <1>8, <1>11 DEF TypeOK, Machines
<1>14. alarm' \in Alarm
  BY <1>1, <1>11 DEF TypeOK, Alarm
<1>15. TypeOK'
  BY <1>1, <1>11, <1>12, <1>13, <1>14 DEF TypeOK
<1>16. SocketInv' /\ PassInv'
  BY <1>1, <1>11, <1>12, <1>13 DEF SocketInv, PassInv
<1>17. HelloInv'
  BY <1>1, <1>11, <1>12, <1>13 DEF HelloInv
<1>18. QueueInv'
  BY <1>7, <1>13 DEF QueueInv, Once
<1>19. \A c \in Conns : TasksOf(c)' = TasksOf(c)
  <2>1. Queued' = ws
    BY <1>7, <1>13 DEF Queued
  <2>2. Queued = machines.woken
    <3>1. machines.polled = <<>>
      BY <1>1, <1>11 DEF PassInv
    <3> QED
      BY <3>1 DEF Queued, ToSet
  <2>3. \A c \in Conns, t \in Tasks : <<c, t>> \in ws <=> <<c, t>> \in machines.woken
    BY <1>2 DEF ALARM, Tasks
  <2> QED
    BY <2>1, <2>2, <2>3 DEF TasksOf
<1>20. ConnInv'
  BY <1>1, <1>11, <1>12, <1>19 DEF ConnInv, ConnOK
<1> QED
  BY <1>15, <1>16, <1>17, <1>18, <1>20 DEF EndpointInv

LEMMA DeadlineStep ==
  ASSUME EndpointInv, Deadline
  PROVE  EndpointInv'
<1>1. TypeOK /\ SocketInv /\ PassInv /\ QueueInv /\ HelloInv /\ ConnInv
  BY DEF EndpointInv
<1>2. PICK ws \in SUBSET Tags : ws = IF Due THEN machines.woken \cup {ALARM} ELSE machines.woken
  <2>1. (IF Due THEN machines.woken \cup {ALARM} ELSE machines.woken) \in SUBSET Tags
    BY <1>1 DEF TypeOK, Machines, Tags
  <2> QED
    BY <2>1, Zenon
<1>3. PICK w \in BOOLEAN : w = (alarm.waiting /\ ~Due)
  OBVIOUS
<1>4. PICK n \in BOOLEAN : n = (worker.notified \/ Due)
  OBVIOUS
<1>5. PICK s \in BOOLEAN : s = (alarm.at = "armed" \/ \E c \in Known : conn[c].timer # "off")
  OBVIOUS
<1>6. machines \in Machines /\ alarm \in Alarm /\ worker \in Working
  BY <1>1 DEF TypeOK
<1>7. /\ worker.pc = "deadline"
      /\ alarm' = [alarm EXCEPT !.waiting = w]
      /\ worker' = [worker EXCEPT !.pc = "decide", !.notified = n, !.sched = s]
      /\ UNCHANGED <<plan, peer, sock, out, conn, app>>
  BY <1>3, <1>4, <1>5 DEF Deadline, Advance, At
<1>8. machines' = [machines EXCEPT !.woken = ws]
  BY <1>2, <1>6 DEF Deadline, Advance, Machines
<1>9. /\ worker' \in Working /\ worker'.pc = "decide" /\ worker'.more = worker.more
      /\ worker'.todo = worker.todo /\ worker'.blocked = worker.blocked
      /\ worker'.notified = n /\ worker'.sched = s /\ worker'.ready = worker.ready
  <2>1. "decide" \in Labels
    BY DEF Labels
  <2> QED
    BY <1>6, <1>7, <2>1 DEF Working
<1>10. /\ machines' \in Machines /\ machines'.woken = ws /\ machines'.polled = machines.polled
       /\ machines'.incoming = machines.incoming
  BY <1>6, <1>8 DEF Machines
<1>11. alarm' \in Alarm /\ alarm'.at = alarm.at /\ alarm'.waiting = w
  BY <1>6, <1>7 DEF Alarm
<1>12. TypeOK'
  BY <1>1, <1>7, <1>9, <1>10, <1>11 DEF TypeOK
<1>13. machines.polled = <<>> /\ machines.incoming = <<>>
       /\ (machines.woken = {} \/ worker.notified \/ worker.ready)
  BY <1>1, <1>7 DEF PassInv
<1>14. SocketInv' /\ HelloInv'
  BY <1>1, <1>7, <1>9, <1>10 DEF SocketInv, HelloInv
<1>15. PassInv'
  <2>1. ws = {} \/ n \/ worker.ready
    BY <1>2, <1>4, <1>13
  <2>2. Due' => ~Due /\ alarm.at = "due" /\ alarm.waiting
    BY <1>3, <1>11 DEF Due
  <2>3. ~Due'
    BY <2>2 DEF Due
  <2>4. alarm.at = "armed" => s
    BY <1>5
  <2> QED
    BY <1>9, <1>10, <1>11, <1>13, <2>1, <2>3, <2>4 DEF PassInv
<1>16. QueueInv'
  BY <1>10, <1>13 DEF QueueInv
<1>17. \A c \in Conns : TasksOf(c)' = TasksOf(c)
  <2>1. Queued' = ws /\ Queued = machines.woken
    BY <1>10, <1>13 DEF Queued, ToSet
  <2>2. \A c \in Conns, t \in Tasks : <<c, t>> \in ws <=> <<c, t>> \in machines.woken
    BY <1>2 DEF ALARM, Tasks
  <2> QED
    BY <2>1, <2>2 DEF TasksOf
<1>18. ConnInv'
  BY <1>1, <1>7, <1>9, <1>17 DEF ConnInv, ConnOK
<1> QED
  BY <1>12, <1>14, <1>15, <1>16, <1>18 DEF EndpointInv

LEMMA PollTimerStep ==
  ASSUME EndpointInv, PollTimer
  PROVE  EndpointInv'
<1>1. TypeOK /\ SocketInv /\ PassInv /\ QueueInv /\ HelloInv /\ ConnInv
  BY DEF EndpointInv
<1>2. /\ worker.pc = "tasks" /\ machines.polled # <<>> /\ Head(machines.polled) = ALARM
      /\ UNCHANGED <<plan, peer, sock, worker, out, conn, app>>
  BY DEF PollTimer, Polling, At, ALARM
<1>3. alarm' \in Alarm
  <2>1. alarm \in Alarm
    BY <1>1 DEF TypeOK
  <2>2. CASE alarm.at = "due"
    <3>1. PICK to \in {"armed", "off"} : to = IF alarm.left > 1 THEN "armed" ELSE "off"
      OBVIOUS
    <3>2. PICK k \in Int : k = alarm.left - 1
      BY <2>1 DEF Alarm
    <3>3. alarm' = [alarm EXCEPT !.left = k, !.at = to]
      BY <2>2, <3>1, <3>2 DEF PollTimer
    <3>4. to \in {"off", "armed", "due"}
      OBVIOUS
    <3> QED
      BY <2>1, <3>3, <3>4 DEF Alarm
  <2>3. CASE alarm.at # "due"
    <3>1. alarm' = [alarm EXCEPT !.waiting = TRUE]
      BY <2>3 DEF PollTimer
    <3> QED
      BY <2>1, <3>1 DEF Alarm
  <2> QED
    BY <2>2, <2>3
<1>4. /\ machines' \in Machines /\ machines'.incoming = machines.incoming
      /\ machines'.woken = machines.woken /\ QueueInv'
      /\ \A c \in Conns : TasksOf(c)' = TasksOf(c)
  <2>1. CASE UNCHANGED machines
    BY <1>1, <2>1 DEF TypeOK, QueueInv, TasksOf, Queued
  <2>2. CASE machines' = [machines EXCEPT !.polled = Tail(@)]
    <3>1. /\ machines' \in Machines /\ machines'.incoming = machines.incoming
          /\ machines'.woken = machines.woken /\ QueueInv' /\ Queued' = Queued \ {ALARM}
      BY <1>1, <1>2, <2>2, QueueTail
    <3>2. \A c \in Conns, t \in Tasks : <<c, t>> # ALARM
      BY DEF ALARM, Tasks
    <3> QED
      BY <3>1, <3>2 DEF TasksOf
  <2> QED
    BY <2>1, <2>2 DEF PollTimer, Pending
<1>5. TypeOK'
  BY <1>1, <1>2, <1>3, <1>4 DEF TypeOK
<1>6. SocketInv' /\ PassInv' /\ HelloInv'
  BY <1>1, <1>2, <1>4 DEF SocketInv, PassInv, HelloInv
<1>7. ConnInv'
  BY <1>1, <1>2, <1>4 DEF ConnInv, ConnOK
<1> QED
  BY <1>4, <1>5, <1>6, <1>7 DEF EndpointInv

LEMMA AcceptStep ==
  ASSUME EndpointInv, Accept
  PROVE  EndpointInv'
<1>1. TypeOK /\ SocketInv /\ PassInv /\ QueueInv /\ HelloInv /\ ConnInv
  BY DEF EndpointInv
<1>2. PICK p \in Seq(Conns) : p = machines.incoming
  BY <1>1 DEF TypeOK, Machines
<1>3. p # <<>> /\ worker.pc = "tasks" /\ machines.polled = <<>>
  BY <1>2 DEF Accept, At
<1>4. PICK c \in Conns : c = Head(p)
  <2>1. Head(p) \in Conns
    BY <1>3, Rest
  <2> QED
    BY <2>1, Zenon
<1>5. PICK t \in Seq(Conns) : t = Tail(p)
  <2>1. Tail(p) \in Seq(Conns)
    BY <1>3, Rest
  <2> QED
    BY <2>1, Zenon
<1>6. /\ c = p[1] /\ 1 \in 1..Len(p) /\ Len(p) = Len(t) + 1
      /\ \A i \in 1..Len(t) : t[i] = p[i + 1] /\ i + 1 \in 1..Len(p) /\ i + 1 # 1
  BY <1>3, <1>4, <1>5, Rest
<1>7. /\ Once(p)
      /\ \A i \in 1..Len(p) : peer[p[i]].hello = "in" /\ app[p[i]].recv = "none"
  BY <1>1, <1>2 DEF HelloInv, Once
<1>8. peer[c].hello = "in" /\ app[c].recv = "none" /\ TasksOf(c) = {} /\ conn[c].waiters = {}
  <2>1. peer[c].hello = "in" /\ app[c].recv = "none"
    BY <1>6, <1>7
  <2> QED
    BY <1>1, <2>1 DEF ConnInv, ConnOK, Life
<1>9. \A i \in 1..Len(t) : t[i] # c
  BY <1>6, <1>7 DEF Once
<1>10. PICK a : a = [app[c] EXCEPT !.send = "write", !.recv = "read", !.watch = "wait"]
  OBVIOUS
<1>11. app' = [app EXCEPT ![c] = a]
  BY <1>1, <1>2, <1>4, <1>10 DEF Accept, TypeOK
<1>12. /\ a \in App /\ a.send = "write" /\ a.recv = "read" /\ a.watch = "wait"
       /\ a.ended = app[c].ended /\ a.backlog = app[c].backlog
  <2>1. app[c] \in App
    BY <1>1 DEF TypeOK
  <2> QED
    BY <1>10, <2>1 DEF App
<1>13. /\ app' \in [Conns -> App] /\ app'[c] = a
       /\ \A d \in Conns : d # c => app'[d] = app[d]
  BY <1>1, <1>11, <1>12 DEF TypeOK
<1>14. PICK W \in SUBSET Tags : W = {<<c, x>> : x \in Tasks}
  BY TagsOf
<1>15. PICK k \in SUBSET Tags : k = machines.woken \cup W
  BY <1>1 DEF TypeOK, Machines
<1>16. machines' = [machines EXCEPT !.incoming = t, !.woken = k]
  BY <1>2, <1>4, <1>5, <1>14, <1>15 DEF Accept
<1>17. /\ machines' \in Machines /\ machines'.incoming = t /\ machines'.woken = k
       /\ machines'.polled = <<>>
  BY <1>1, <1>3, <1>16 DEF TypeOK, Machines
<1>18. /\ worker' = [worker EXCEPT !.ready = TRUE]
       /\ UNCHANGED <<plan, peer, sock, out, conn, alarm>>
  BY DEF Accept
<1>19. /\ worker' \in Working /\ worker'.pc = "tasks" /\ worker'.more = worker.more
       /\ worker'.todo = worker.todo /\ worker'.blocked = worker.blocked /\ worker'.ready = TRUE
  BY <1>1, <1>3, <1>18 DEF TypeOK, Working
<1>20. TypeOK'
  BY <1>1, <1>13, <1>17, <1>18, <1>19 DEF TypeOK
<1>21. SocketInv' /\ PassInv'
  BY <1>1, <1>18, <1>19 DEF SocketInv, PassInv
<1>22. QueueInv'
  BY <1>17 DEF QueueInv
<1>23. Queued' = Queued \cup {<<c, x>> : x \in Tasks}
  BY <1>3, <1>14, <1>15, <1>17 DEF Queued
<1>24. /\ TasksOf(c)' = TasksOf(c) \cup Tasks
       /\ \A d \in Conns : d # c => TasksOf(d)' = TasksOf(d)
  BY <1>23, TasksJoin
<1>25. HelloInv'
  <2>1. ASSUME NEW i \in 1..Len(t)
        PROVE  peer[t[i]].hello = "in" /\ app'[t[i]].recv = "none"
    <3>1. t[i] \in Conns /\ t[i] # c
      BY <1>5, <1>9
    <3>2. peer[t[i]].hello = "in" /\ app[t[i]].recv = "none"
      BY <1>6, <1>7
    <3> QED
      BY <1>13, <3>1, <3>2
  <2>2. Once(t)
    BY <1>3, <1>5, <1>7, RestOnce
  <2> QED
    BY <1>1, <1>17, <1>18, <1>19, <2>1, <2>2 DEF HelloInv, Once
<1>26. ConnInv'
  <2>1. ASSUME NEW d \in Conns, d # c PROVE ConnOK(d)'
    <3>1. ConnOK(d)
      BY <1>1 DEF ConnInv
    <3> QED
      BY <1>13, <1>18, <1>19, <1>24, <2>1, <3>1 DEF ConnOK
  <2>2. ConnOK(c)'
    <3>1. ConnOK(c)
      BY <1>1 DEF ConnInv
    <3>2. Life(conn[c], a, Tasks, "in")
      BY <1>8, <1>12, <3>1 DEF ConnOK, Life
    <3>3. Parks(conn[c], a, Tasks)
      BY <1>8, <1>12, <3>1 DEF ConnOK, Parks, Tasks
    <3>4. TasksOf(c)' = Tasks
      BY <1>8, <1>24
    <3> QED
      BY <1>8, <1>13, <1>18, <1>19, <3>1, <3>2, <3>3, <3>4 DEF ConnOK
  <2> QED
    BY <2>1, <2>2 DEF ConnInv
<1> QED
  BY <1>20, <1>21, <1>22, <1>25, <1>26 DEF EndpointInv

(* A socket that drains gives everyone another turn.                       *)
Needing(r) == [r EXCEPT !.needs = TRUE]

LEMMA NeedingOK ==
  ASSUME NEW r, IsConn(r), NEW a, NEW q, NEW st, NEW b, NEW z, Fine(r, a, q, st, b),
         NEW w, w = IF r.known THEN Needing(r) ELSE r
  PROVE  IsConn(w) /\ Fine(w, a, q, st, z)
<1>1. DOMAIN r = ConnFields
  BY DEF IsConn
<1>2. CASE r.known
  <2>1. w = [r EXCEPT !.needs = TRUE]
    BY <1>2 DEF Needing
  <2>2. /\ DOMAIN w = ConnFields /\ Alike(r, w) /\ w.needs = TRUE /\ w.owed = r.owed
        /\ w.window = r.window /\ w.inbox = r.inbox /\ w.waiters = r.waiters
        /\ w.budget = r.budget /\ w.events = r.events /\ w.timer = r.timer
        /\ w.closing = r.closing /\ w.known = r.known /\ w.error = r.error /\ w.acked = r.acked
    BY <1>1, <2>1 DEF Alike, ConnFields
  <2>3. IsConn(w)
    BY <2>2 DEF IsConn
  <2>4. Life(w, a, q, st) /\ Owes(w, z)
    BY <2>2 DEF Fine, Life, Owes
  <2>5. \A t : Ready(w, a, t) <=> Ready(r, a, t)
    BY <2>2 DEF Ready
  <2>6. Parks(w, a, q)
    BY <2>2, <2>5 DEF Fine, Parks
  <2> QED
    BY <2>3, <2>4, <2>6 DEF Fine
<1>3. CASE ~r.known
  BY <1>3 DEF Fine, Owes
<1> QED
  BY <1>2, <1>3

LEMMA SendStep ==
  ASSUME EndpointInv, Send
  PROVE  EndpointInv'
<1>1. TypeOK /\ SocketInv /\ PassInv /\ QueueInv /\ HelloInv /\ ConnInv
  BY DEF EndpointInv
<1>2. PICK o \in Seq(Conns \X Packets) : o = out
  BY <1>1 DEF TypeOK
<1>3. o # <<>> /\ worker.pc = "send"
  BY <1>2 DEF Send, At
<1>4. PICK x \in Conns \X Packets : x = Head(o)
  <2>1. Head(o) \in Conns \X Packets
    BY <1>3, Rest
  <2> QED
    BY <2>1, Zenon
<1>5. PICK t \in Seq(Conns \X Packets) : t = Tail(o)
  <2>1. Tail(o) \in Seq(Conns \X Packets)
    BY <1>3, Rest
  <2> QED
    BY <2>1, Zenon
<1>6. Len(t) <= OUT
  <2>1. Len(o) = Len(t) + 1 /\ Len(t) \in Nat /\ Len(o) <= OUT /\ OUT \in Nat
    BY <1>1, <1>2, <1>3, <1>5, Rest, EndpointAssumption DEF TypeOK
  <2> QED
    BY <2>1
<1>7. PICK tx \in Seq(Conns \X Packets) : tx = Append(sock.tx, x)
  <2>1. Append(sock.tx, x) \in Seq(Conns \X Packets)
    BY <1>1, AppendProperties DEF TypeOK, Socket
  <2> QED
    BY <2>1, Zenon
<1>8. /\ sock' = [sock EXCEPT !.tx = tx] /\ out' = t
      /\ worker' = [worker EXCEPT !.blocked = FALSE]
      /\ conn' = IF worker.blocked THEN AllNeed ELSE conn
      /\ UNCHANGED <<plan, peer, app, machines, alarm>>
  BY <1>2, <1>4, <1>5, <1>7 DEF Send
<1>9. sock' \in Socket /\ sock'.rx = sock.rx /\ sock'.ready = sock.ready
  BY <1>1, <1>8 DEF TypeOK, Socket
<1>10. /\ worker' \in Working /\ worker'.pc = "send" /\ worker'.more = worker.more
       /\ worker'.todo = worker.todo /\ worker'.blocked = FALSE
  BY <1>1, <1>3, <1>8 DEF TypeOK, Working
<1>11. QueueInv' /\ Queued' = Queued /\ \A c \in Conns : TasksOf(c)' = TasksOf(c)
  BY <1>1, <1>8 DEF QueueInv, Queued, TasksOf
<1>12. /\ conn' = [c \in Conns |-> conn'[c]]
       /\ \A c \in Conns : IsConn(conn'[c]) /\ ConnOK(c)'
  <2>1. CASE worker.blocked
    <3>1. /\ conn' = [c \in Conns |-> conn'[c]]
          /\ \A c \in Conns : conn'[c] = IF conn[c].known THEN Needing(conn[c]) ELSE conn[c]
      BY <1>8, <2>1 DEF AllNeed, Needing
    <3>2. ASSUME NEW c \in Conns PROVE IsConn(conn'[c]) /\ ConnOK(c)'
      <4>1. PICK r : r = conn[c]
        OBVIOUS
      <4>2. PICK w : w = IF r.known THEN Needing(r) ELSE r
        OBVIOUS
      <4>3. conn'[c] = w
        BY <3>1, <4>1, <4>2
      <4>4. IsConn(r) /\ Fine(r, app[c], TasksOf(c), peer[c].hello, worker.blocked)
        BY <1>1, <4>1 DEF TypeOK, ConnInv, ConnOK, Fine
      <4>5. IsConn(w) /\ Fine(w, app[c], TasksOf(c), peer[c].hello, worker'.blocked)
        BY <4>2, <4>4, NeedingOK
      <4> QED
        BY <1>8, <1>11, <4>3, <4>5 DEF ConnOK, Fine
    <3> QED
      BY <3>1, <3>2
  <2>2. CASE ~worker.blocked
    <3>1. conn' = conn
      BY <1>8, <2>2
    <3>2. ConnInv'
      BY <1>1, <1>8, <1>11, <2>2, <3>1, ConnsStay
    <3> QED
      BY <1>1, <3>1, <3>2 DEF TypeOK, ConnInv
  <2> QED
    BY <2>1, <2>2
<1>13. TypeOK'
  BY <1>1, <1>6, <1>8, <1>9, <1>10, <1>12 DEF TypeOK
<1>14. SocketInv' /\ PassInv' /\ HelloInv'
  BY <1>1, <1>3, <1>8, <1>9, <1>10 DEF SocketInv, PassInv, HelloInv
<1> QED
  BY <1>11, <1>12, <1>13, <1>14 DEF EndpointInv, ConnInv

(* The tasks that waited for a connection are queued.                      *)
LEMMA QueueWakes ==
  ASSUME EndpointInv, NEW c \in Conns, NEW ws, ws = conn[c].waiters,
         machines' = [machines EXCEPT !.woken = @ \cup {<<c, x>> : x \in ws}]
  PROVE  /\ machines' \in Machines /\ machines'.incoming = machines.incoming
         /\ machines'.polled = machines.polled /\ QueueInv'
         /\ TasksOf(c)' = TasksOf(c) \cup ws
         /\ \A d \in Conns : d # c => TasksOf(d)' = TasksOf(d)
<1>1. TypeOK /\ QueueInv
  BY DEF EndpointInv
<1>2. ws \in SUBSET Tasks /\ ws \cap TasksOf(c) = {}
  BY DEF EndpointInv, TypeOK, IsConn, ConnInv, ConnOK, Parks
<1>3. PICK W \in SUBSET Tags : W = {<<c, x>> : x \in ws}
  BY <1>2, TagsOf
<1>4. W \cap Queued = {}
  BY <1>2, <1>3 DEF TasksOf
<1>5. machines' = [machines EXCEPT !.woken = @ \cup W]
  BY <1>3
<1>6. /\ machines' \in Machines /\ machines'.incoming = machines.incoming
      /\ machines'.polled = machines.polled /\ QueueInv' /\ Queued' = Queued \cup W
  BY <1>1, <1>4, <1>5, QueueWoken
<1>7. Queued' = Queued \cup {<<c, x>> : x \in ws}
  BY <1>3, <1>6
<1> QED
  BY <1>2, <1>6, <1>7, TasksJoin

LEMMA ServeStep ==
  ASSUME EndpointInv, Serve
  PROVE  EndpointInv'
<1>1. TypeOK /\ SocketInv /\ PassInv /\ QueueInv /\ HelloInv /\ ConnInv
  BY DEF EndpointInv
<1>2. PICK todo \in Seq(Conns) : todo = worker.todo
  BY <1>1 DEF TypeOK, Working
<1>3. todo # <<>> /\ worker.pc = "serve"
  BY <1>2 DEF Serve, At
<1>4. PICK c \in Conns : c = Head(todo)
  <2>1. Head(todo) \in Conns
    BY <1>3, Rest
  <2> QED
    BY <2>1, Zenon
<1>5. PICK t \in Seq(Conns) : t = Tail(todo)
  <2>1. Tail(todo) \in Seq(Conns)
    BY <1>3, Rest
  <2> QED
    BY <2>1, Zenon
<1>6. /\ c = todo[1] /\ 1 \in 1..Len(todo)
      /\ \A i \in 1..Len(t) : t[i] = todo[i + 1] /\ i + 1 \in 1..Len(todo)
  BY <1>3, <1>4, <1>5, Rest
<1>7. PICK r : r = conn[c]
  OBVIOUS
<1>8. PICK a : a = app[c]
  OBVIOUS
<1>9. PICK q : q = TasksOf(c)
  OBVIOUS
<1>10. peer[c].hello = "in"
  BY <1>1, <1>2, <1>6 DEF HelloInv
<1>11. IsConn(r) /\ Life(r, a, q, "in") /\ Owes(r, worker.blocked) /\ Parks(r, a, q)
  BY <1>1, <1>7, <1>8, <1>9, <1>10 DEF TypeOK, ConnInv, ConnOK
<1>12. PICK s : s = Served(r)
  OBVIOUS
<1>13. s.packets \in Seq(Packets) /\ Len(s.packets) <= OUT - Len(out)
  BY <1>1, <1>11, <1>12, ServedFacts
<1>14. PICK n \in BOOLEAN : n = (worker.notified \/ (s.wakes /\ conn[c].waiters # {}))
  OBVIOUS
<1>15. PICK more : more = [i \in 1..Len(s.packets) |-> <<c, s.packets[i]>>]
  OBVIOUS
<1>16. PICK w, k : \/ s.wakes /\ w = Woken(s.next) /\ k = q \cup r.waiters
                   \/ ~s.wakes /\ w = s.next /\ k = q
  OBVIOUS
<1>17. /\ out' = out \o more
       /\ worker' = [worker EXCEPT !.todo = t, !.notified = n]
       /\ UNCHANGED <<plan, peer, sock, app, alarm>>
  BY <1>2, <1>4, <1>5, <1>7, <1>12, <1>14, <1>15 DEF Serve
<1>18. conn' = [conn EXCEPT ![c] = w]
  BY <1>2, <1>4, <1>7, <1>12, <1>16 DEF Serve, Wakes, Woken
<1>19. /\ machines' \in Machines /\ machines'.incoming = machines.incoming
       /\ machines'.polled = machines.polled /\ QueueInv' /\ TasksOf(c)' = k
       /\ \A d \in Conns : d # c => TasksOf(d)' = TasksOf(d)
  <2>1. CASE s.wakes
    <3>1. s.next.waiters = r.waiters
      BY <1>1, <1>11, <1>12, ServedFacts
    <3>2. PICK ws : ws = conn[c].waiters
      OBVIOUS
    <3>3. machines' = [machines EXCEPT !.woken = @ \cup {<<c, x>> : x \in ws}]
      <4>1. PICK h : h = s.next
        OBVIOUS
      <4>2. Wakes(c, h)
        BY <1>2, <1>4, <1>7, <1>12, <2>1, <4>1 DEF Serve
      <4>3. PICK hs : hs = h.waiters
        OBVIOUS
      <4>4. machines' = [machines EXCEPT !.woken = @ \cup {<<c, x>> : x \in hs}]
        BY <4>2, <4>3 DEF Wakes
      <4>5. hs = ws
        BY <1>7, <3>1, <3>2, <4>1, <4>3
      <4> QED
        BY <4>4, <4>5
    <3> QED
      BY <1>7, <1>9, <1>16, <2>1, <3>2, <3>3, QueueWakes
  <2>2. CASE ~s.wakes
    <3>1. UNCHANGED machines
      BY <1>2, <1>4, <1>7, <1>12, <2>2 DEF Serve
    <3> QED
      BY <1>1, <1>9, <1>16, <2>2, <3>1 DEF TypeOK, QueueInv, TasksOf, Queued
  <2> QED
    BY <2>1, <2>2
<1>20. /\ worker' \in Working /\ worker'.pc = "serve" /\ worker'.more = worker.more
       /\ worker'.todo = t /\ worker'.blocked = worker.blocked
  BY <1>1, <1>3, <1>17 DEF TypeOK, Working
<1>21. IsConn(w) /\ Fine(w, a, k, "in", worker.blocked)
  BY <1>1, <1>11, <1>12, <1>16, ServedOK DEF Fine
<1>22. /\ conn' = [d \in Conns |-> conn'[d]] /\ (\A d \in Conns : IsConn(conn'[d]))
       /\ ConnInv'
  <2>1. Fine(w, app'[c], TasksOf(c)', peer'[c].hello, worker.blocked)
    BY <1>8, <1>10, <1>17, <1>19, <1>21
  <2>2. \A d \in Conns : d # c => /\ app'[d] = app[d] /\ peer'[d].hello = peer[d].hello
                                  /\ TasksOf(d)' = TasksOf(d)
    BY <1>17, <1>19
  <2> QED
    BY <1>1, <1>18, <1>20, <1>21, <2>1, <2>2, OthersStay
<1>23. out' \in Seq(Conns \X Packets) /\ Len(out') <= OUT
  <2>1. PICK m \in Nat : m = Len(s.packets)
    BY <1>13
  <2>2. \A i \in 1..m : s.packets[i] \in Packets
    BY <1>13, <2>1
  <2>3. more = [i \in 1..m |-> <<c, s.packets[i]>>] /\ m <= OUT - Len(out)
    BY <1>13, <1>15, <2>1
  <2>4. more \in Seq(Conns \X Packets) /\ Len(more) = m
    BY <2>2, <2>3
  <2>5. out \in Seq(Conns \X Packets) /\ OUT \in Nat /\ Len(out) \in Nat
    BY <1>1, EndpointAssumption DEF TypeOK
  <2>6. out \o more \in Seq(Conns \X Packets) /\ Len(out \o more) = Len(out) + m
    BY <2>4, <2>5, ConcatProperties
  <2> QED
    BY <1>17, <2>3, <2>5, <2>6
<1>24. TypeOK'
  BY <1>1, <1>17, <1>19, <1>20, <1>22, <1>23 DEF TypeOK
<1>25. SocketInv' /\ PassInv'
  BY <1>1, <1>3, <1>17, <1>19, <1>20 DEF SocketInv, PassInv
<1>26. HelloInv'
  <2>1. \A i \in 1..Len(t) : peer[t[i]].hello = "in"
    BY <1>1, <1>2, <1>6 DEF HelloInv
  <2> QED
    BY <1>1, <1>17, <1>19, <1>20, <2>1 DEF HelloInv
<1> QED
  BY <1>19, <1>22, <1>24, <1>25, <1>26 DEF EndpointInv

-----------------------------------------------------------------------------
(* What the kernel has to read: one goes, some come.  None of those that   *)
(* are left greets for a connection that did.                              *)
Greeting(rx) == \A i, j \in 1..Len(rx) : rx[i][2] = "hello" /\ rx[j] = rx[i] => i = j
Greeted(rx) == \A i \in 1..Len(rx) : rx[i][2] = "hello" => peer[rx[i][1]].hello = "sent"

LEMMA RestGreets ==
  ASSUME NEW p \in Seq(Datagrams), p # <<>>, Greeting(p), Greeted(p), NEW t, t = Tail(p)
  PROVE  /\ Greeting(t) /\ Greeted(t)
         /\ \A i \in 1..Len(t) : t[i][2] = "hello" /\ Head(p)[2] = "hello"
              => t[i][1] # Head(p)[1]
<1>1. /\ t \in Seq(Datagrams) /\ Len(p) = Len(t) + 1 /\ Head(p) = p[1] /\ 1 \in 1..Len(p)
      /\ \A i \in 1..Len(t) : t[i] = p[i + 1] /\ i + 1 \in 1..Len(p) /\ i + 1 # 1
  BY Rest
<1>2. Greeting(t)
  <2>1. ASSUME NEW i \in 1..Len(t), NEW j \in 1..Len(t), t[i][2] = "hello", t[j] = t[i]
        PROVE  i = j
    <3>1. i + 1 = j + 1
      BY <1>1, <2>1 DEF Greeting
    <3> QED
      BY <1>1, <3>1
  <2> QED
    BY <2>1 DEF Greeting
<1>3. Greeted(t)
  BY <1>1 DEF Greeted
<1>4. ASSUME NEW i \in 1..Len(t), t[i][2] = "hello", Head(p)[2] = "hello", t[i][1] = Head(p)[1]
      PROVE  FALSE
  <2>1. p[1] \in Datagrams /\ p[i + 1] \in Datagrams /\ i + 1 \in 1..Len(p) /\ t[i] = p[i + 1]
    BY <1>1
  <2>2. p[1] = <<p[1][1], p[1][2]>> /\ p[i + 1] = <<p[i + 1][1], p[i + 1][2]>>
    BY <2>1 DEF Datagrams
  <2>3. p[i + 1] = p[1]
    BY <1>1, <1>4, <2>1, <2>2
  <2>4. 1 = i + 1
    BY <1>1, <1>4, <2>1, <2>3 DEF Greeting
  <2> QED
    BY <1>1, <2>4
<1> QED
  BY <1>2, <1>3, <1>4

LEMMA ReceivePacketStep ==
  ASSUME EndpointInv, ReceivePacket
  PROVE  EndpointInv'
<1>1. TypeOK /\ SocketInv /\ PassInv /\ QueueInv /\ HelloInv /\ ConnInv
  BY DEF EndpointInv
<1>2. PICK p \in Seq(Datagrams) : p = sock.rx
  BY <1>1 DEF TypeOK, Socket
<1>3. p # <<>> /\ worker.pc = "receive"
  BY <1>2 DEF ReceivePacket, At
<1>4. PICK x \in Datagrams : x = Head(p)
  <2>1. Head(p) \in Datagrams
    BY <1>3, Rest
  <2> QED
    BY <2>1, Zenon
<1>5. PICK c \in Conns : c = x[1]
  BY DEF Datagrams
<1>6. PICK kind \in {"ack", "finack"} \cup Sent : kind = x[2]
  BY <1>2, <1>4 DEF Datagrams, ReceivePacket
<1>7. PICK t \in Seq(Datagrams) : t = Tail(p)
  <2>1. Tail(p) \in Seq(Datagrams)
    BY <1>3, Rest
  <2> QED
    BY <2>1, Zenon
<1>8. Greeting(t) /\ Greeted(t)
  BY <1>1, <1>2, <1>3, <1>7, RestGreets DEF HelloInv, Greeting, Greeted
<1>9. /\ sock' = [sock EXCEPT !.rx = t] /\ UNCHANGED <<plan, peer, out, app, alarm>>
  BY <1>2, <1>7 DEF ReceivePacket, Taken
<1>10. sock' \in Socket /\ sock'.rx = t /\ sock'.tx = sock.tx /\ sock'.ready = sock.ready
  BY <1>1, <1>9 DEF TypeOK, Socket
<1>11. PICK u \in Nat : u = worker.round + 1
  BY <1>1 DEF TypeOK, Working
<1>12. /\ worker' \in Working /\ worker'.pc = "receive" /\ worker'.more = worker.more
       /\ worker'.todo = worker.todo /\ worker'.blocked = worker.blocked
  <2>1. worker \in Working
    BY <1>1 DEF TypeOK
  <2>2. PICK n \in BOOLEAN : n = Notified(c, conn[c])
    BY DEF Notified
  <2>3. \/ worker' = [worker EXCEPT !.round = u, !.notified = n]
        \/ worker' = [worker EXCEPT !.round = u]
    BY <1>2, <1>4, <1>5, <1>11, <2>2 DEF ReceivePacket
  <2> QED
    BY <1>3, <2>1, <2>3 DEF Working
<1>13. /\ machines' \in Machines /\ machines'.incoming = machines.incoming
       /\ machines'.polled = machines.polled /\ QueueInv'
       /\ conn' = [d \in Conns |-> conn'[d]] /\ (\A d \in Conns : IsConn(conn'[d]))
       /\ ConnInv'
  <2>1. CASE conn[c].known
    <3>1. PICK r : r = conn[c]
      OBVIOUS
    <3>2. PICK w : w = Woken(Handled(r, kind))
      OBVIOUS
    <3>3. PICK ws : ws = conn[c].waiters
      OBVIOUS
    <3>4. Wakes(c, Handled(conn[c], kind))
      BY <1>2, <1>4, <1>5, <1>6, <2>1 DEF ReceivePacket
    <3>5. IsConn(r) /\ Fine(r, app[c], TasksOf(c), peer[c].hello, worker.blocked) /\ r.known
      BY <1>1, <2>1, <3>1 DEF TypeOK, ConnInv, ConnOK, Fine
    <3>6. Handled(r, kind).waiters = r.waiters
      BY <3>5, HandledFacts DEF Same
    <3>7. conn' = [conn EXCEPT ![c] = w]
      BY <3>1, <3>2, <3>4 DEF Wakes, Woken
    <3>8. machines' = [machines EXCEPT !.woken = @ \cup {<<c, y>> : y \in ws}]
      <4>1. PICK hs : hs = Handled(conn[c], kind).waiters
        OBVIOUS
      <4>2. machines' = [machines EXCEPT !.woken = @ \cup {<<c, y>> : y \in hs}]
        BY <3>4, <4>1 DEF Wakes
      <4>3. hs = ws
        BY <3>1, <3>3, <3>6, <4>1
      <4> QED
        BY <4>2, <4>3
    <3>9. /\ machines' \in Machines /\ machines'.incoming = machines.incoming
          /\ machines'.polled = machines.polled /\ QueueInv'
          /\ TasksOf(c)' = TasksOf(c) \cup ws
          /\ \A d \in Conns : d # c => TasksOf(d)' = TasksOf(d)
      BY <3>3, <3>8, QueueWakes
    <3>10. IsConn(w) /\ Fine(w, app[c], TasksOf(c) \cup ws, peer[c].hello, worker.blocked)
      BY <3>1, <3>2, <3>3, <3>5, HandledOK DEF Fine
    <3>11. Fine(w, app'[c], TasksOf(c)', peer'[c].hello, worker.blocked)
      BY <1>9, <3>9, <3>10
    <3>12. \A d \in Conns : d # c => /\ app'[d] = app[d] /\ peer'[d].hello = peer[d].hello
                                     /\ TasksOf(d)' = TasksOf(d)
      BY <1>9, <3>9
    <3>13. /\ conn' = [d \in Conns |-> conn'[d]] /\ (\A d \in Conns : IsConn(conn'[d]))
           /\ ConnInv'
      BY <1>1, <1>12, <3>7, <3>10, <3>11, <3>12, OthersStay
    <3> QED
      BY <3>9, <3>13
  <2>2. CASE ~conn[c].known
    <3>1. UNCHANGED <<conn, machines>>
      BY <1>2, <1>4, <1>5, <2>2 DEF ReceivePacket
    <3>2. QueueInv' /\ Queued' = Queued
      BY <1>1, <3>1 DEF QueueInv, Queued
    <3>3. ConnInv'
      BY <1>1, <1>9, <1>12, <3>1, <3>2, ConnsStay
    <3> QED
      BY <1>1, <3>1, <3>2, <3>3 DEF TypeOK
  <2> QED
    BY <2>1, <2>2
<1>14. TypeOK'
  BY <1>1, <1>9, <1>10, <1>12, <1>13 DEF TypeOK
<1>15. SocketInv' /\ PassInv'
  BY <1>1, <1>3, <1>9, <1>12, <1>13 DEF SocketInv, PassInv
<1>16. HelloInv'
  BY <1>1, <1>8, <1>9, <1>10, <1>12, <1>13 DEF HelloInv, Greeting, Greeted
<1> QED
  BY <1>13, <1>14, <1>15, <1>16 DEF EndpointInv

(* A connection begins with nothing owed and nothing waited for.           *)
LEMMA FreshOK ==
  ASSUME NEW r, IsConn(r), NEW a, NEW st, NEW b, st # "in", Life(r, a, {}, st), NEW f, f = Fresh
  PROVE  IsConn(f) /\ Fine(f, a, {}, "in", b)
<1>1. OPERATIONS \in Nat \ {0} /\ WINDOW \in Nat \ {0}
  BY EndpointAssumption
<1>2. /\ DOMAIN f = ConnFields /\ f.known = TRUE /\ f.owed = <<>> /\ f.window = WINDOW
      /\ f.inbox = <<>> /\ f.events = <<>> /\ f.timer = "off" /\ f.closing = FALSE
      /\ f.error = "none" /\ f.waiters = {} /\ f.budget = OPERATIONS /\ f.needs = TRUE
      /\ f.acked = FALSE
  BY DEF Fresh, ConnFields
<1>3. IsConn(f)
  <2>1. f.owed \in Seq(Packets) /\ f.inbox \in Seq(Chunked) /\ f.events \in Seq(News)
    BY <1>2
  <2>2. f.known \in BOOLEAN /\ f.closing \in BOOLEAN /\ f.needs \in BOOLEAN /\ f.acked \in BOOLEAN
    BY <1>2, Zenon
  <2> QED
    BY <1>1, <1>2, <2>1, <2>2 DEF IsConn
<1>4. Life(f, a, {}, "in") /\ Owes(f, b)
  BY <1>2 DEF Life, Owes
<1>5. Parks(f, a, {})
  BY <1>2 DEF Life, Parks
<1> QED
  BY <1>3, <1>4, <1>5 DEF Fine

LEMMA ReceiveHelloStep ==
  ASSUME EndpointInv, ReceiveHello
  PROVE  EndpointInv'
<1>1. TypeOK /\ SocketInv /\ PassInv /\ QueueInv /\ HelloInv /\ ConnInv
  BY DEF EndpointInv
<1>2. PICK p \in Seq(Datagrams) : p = sock.rx
  BY <1>1 DEF TypeOK, Socket
<1>3. p # <<>> /\ worker.pc = "receive"
  BY <1>2 DEF ReceiveHello, At
<1>4. PICK x \in Datagrams : x = Head(p)
  <2>1. Head(p) \in Datagrams
    BY <1>3, Rest
  <2> QED
    BY <2>1, Zenon
<1>5. PICK c \in Conns : c = x[1]
  BY DEF Datagrams
<1>6. x[2] = "hello"
  BY <1>2, <1>4 DEF ReceiveHello
<1>7. PICK t \in Seq(Datagrams) : t = Tail(p)
  <2>1. Tail(p) \in Seq(Datagrams)
    BY <1>3, Rest
  <2> QED
    BY <2>1, Zenon
<1>8. /\ Greeting(t) /\ Greeted(t)
      /\ \A i \in 1..Len(t) : t[i][2] = "hello" => t[i][1] # c
  <2>1. Greeting(p) /\ Greeted(p)
    BY <1>1, <1>2 DEF HelloInv, Greeting, Greeted
  <2>2. /\ Greeting(t) /\ Greeted(t)
        /\ \A i \in 1..Len(t) : t[i][2] = "hello" /\ Head(p)[2] = "hello"
             => t[i][1] # Head(p)[1]
    BY <1>3, <1>7, <2>1, RestGreets
  <2> QED
    BY <1>4, <1>5, <1>6, <2>2
<1>9. peer[c].hello = "sent"
  <2>1. 1 \in 1..Len(p) /\ x = p[1]
    BY <1>3, <1>4, Rest
  <2> QED
    BY <1>1, <1>2, <1>5, <1>6, <2>1 DEF HelloInv
<1>10. /\ sock' = [sock EXCEPT !.rx = t] /\ UNCHANGED <<plan, out, app, alarm>>
  BY <1>2, <1>7 DEF ReceiveHello, Taken
<1>11. sock' \in Socket /\ sock'.rx = t /\ sock'.tx = sock.tx /\ sock'.ready = sock.ready
  BY <1>1, <1>10 DEF TypeOK, Socket
<1>12. PICK u \in Nat : u = worker.round + 1
  BY <1>1 DEF TypeOK, Working
<1>13. /\ worker' \in Working /\ worker'.pc = "receive" /\ worker'.more = worker.more
       /\ worker'.todo = worker.todo /\ worker'.blocked = worker.blocked
  <2>1. worker' = [worker EXCEPT !.round = u]
    BY <1>12 DEF ReceiveHello
  <2> QED
    BY <1>1, <1>3, <2>1 DEF TypeOK, Working
<1>14. PICK stage \in {"ignored", "in"} :
         /\ stage = IF Cardinality(Known) >= plan.limit THEN "ignored" ELSE "in"
         /\ peer' = [peer EXCEPT ![c].hello = stage]
  BY <1>2, <1>4, <1>5 DEF ReceiveHello
<1>15. /\ peer' \in [Conns -> [hello : Stages, left : Seq(Sent)]] /\ peer'[c].hello = stage
       /\ \A d \in Conns : d # c => peer'[d] = peer[d]
  <2>1. /\ peer \in [Conns -> [hello : Stages, left : Seq(Sent)]] /\ stage \in Stages
    BY <1>1 DEF TypeOK, Stages
  <2>2. PICK e \in [hello : Stages, left : Seq(Sent)] : e = peer[c]
    BY <2>1
  <2>3. PICK f : f = [e EXCEPT !.hello = stage]
    OBVIOUS
  <2>4. f \in [hello : Stages, left : Seq(Sent)] /\ f.hello = stage
    BY <2>1, <2>3
  <2>5. peer' = [peer EXCEPT ![c] = f]
    BY <1>14, <2>2, <2>3
  <2> QED
    BY <2>1, <2>4, <2>5
<1>16. PICK r : r = conn[c]
  OBVIOUS
<1>17. PICK a : a = app[c]
  OBVIOUS
<1>18. /\ IsConn(r) /\ ~r.known /\ TasksOf(c) = {} /\ a.recv = "none"
       /\ Fine(r, a, {}, "sent", worker.blocked)
  BY <1>1, <1>9, <1>16, <1>17 DEF TypeOK, ConnInv, ConnOK, Fine, Life
<1>19. \A i \in 1..Len(worker.todo) : peer'[worker.todo[i]].hello = "in"
  <2>1. ASSUME NEW i \in 1..Len(worker.todo) PROVE peer'[worker.todo[i]].hello = "in"
    <3>1. worker.todo[i] \in Conns /\ peer[worker.todo[i]].hello = "in"
      BY <1>1 DEF TypeOK, Working, HelloInv
    <3> QED
      BY <1>9, <1>15, <3>1
  <2> QED
    BY <2>1
<1>20. PICK m \in Seq(Conns) : m = machines.incoming
  BY <1>1 DEF TypeOK, Machines
<1>21. /\ Once(m)
       /\ \A i \in 1..Len(m) : /\ peer'[m[i]].hello = "in" /\ app[m[i]].recv = "none"
                               /\ m[i] \in Conns /\ m[i] # c
  <2>1. ASSUME NEW i \in 1..Len(m) PROVE peer'[m[i]].hello = "in" /\ app[m[i]].recv = "none"
                                         /\ m[i] \in Conns /\ m[i] # c
    <3>1. m[i] \in Conns /\ peer[m[i]].hello = "in" /\ app[m[i]].recv = "none"
      BY <1>1, <1>20 DEF HelloInv
    <3> QED
      BY <1>9, <1>15, <3>1
  <2> QED
    BY <1>1, <1>20, <2>1 DEF HelloInv, Once
<1>22. \A i \in 1..Len(t) : t[i][2] = "hello" => peer'[t[i][1]].hello = "sent"
  <2>1. ASSUME NEW i \in 1..Len(t), t[i][2] = "hello" PROVE peer'[t[i][1]].hello = "sent"
    <3>1. t[i] \in Datagrams
      BY <1>7
    <3>2. t[i][1] \in Conns /\ t[i][1] # c /\ peer[t[i][1]].hello = "sent"
      BY <1>8, <2>1, <3>1 DEF Greeted, Datagrams
    <3> QED
      BY <1>15, <3>2
  <2> QED
    BY <2>1
<1>23. /\ machines' \in Machines /\ machines'.polled = machines.polled
       /\ machines'.woken = machines.woken /\ Once(machines'.incoming)
       /\ \A i \in 1..Len(machines'.incoming) :
            /\ peer'[machines'.incoming[i]].hello = "in"
            /\ app[machines'.incoming[i]].recv = "none"
       /\ conn' = [d \in Conns |-> conn'[d]] /\ (\A d \in Conns : IsConn(conn'[d]))
       /\ ConnInv'
  <2>1. CASE stage = "in"
    <3>1. conn' = [conn EXCEPT ![c] = Fresh] /\ machines' = [machines EXCEPT !.incoming = Append(@, c)]
      BY <1>2, <1>4, <1>5, <1>14, <2>1 DEF ReceiveHello
    <3>2. PICK l \in Seq(Conns) : l = Append(m, c)
      <4>1. Append(m, c) \in Seq(Conns)
        BY AppendProperties
      <4> QED
        BY <4>1, Zenon
    <3>3. machines' = [machines EXCEPT !.incoming = l]
      BY <1>20, <3>1, <3>2
    <3>4. /\ machines' \in Machines /\ machines'.polled = machines.polled
          /\ machines'.woken = machines.woken /\ machines'.incoming = l
      BY <1>1, <3>3 DEF TypeOK, Machines
    <3>5. /\ Len(m) \in Nat /\ Len(l) = Len(m) + 1 /\ l[Len(l)] = c
          /\ \A i \in 1..Len(m) : l[i] = m[i]
      BY <3>2
    <3>6. \A i \in 1..Len(l) : i \in 1..Len(m) \/ i = Len(l)
      BY <3>5
    <3>7. Once(l)
      BY <1>21, <3>5, <3>6 DEF Once
    <3>8. \A i \in 1..Len(l) : peer'[l[i]].hello = "in" /\ app[l[i]].recv = "none"
      <4>1. peer'[c].hello = "in" /\ app[c].recv = "none"
        BY <1>15, <1>17, <1>18, <2>1
      <4>2. ASSUME NEW i \in 1..Len(l), i \in 1..Len(m)
            PROVE  peer'[l[i]].hello = "in" /\ app[l[i]].recv = "none"
        <5>1. l[i] = m[i]
          BY <3>5, <4>2
        <5> QED
          BY <1>21, <4>2, <5>1
      <4> QED
        BY <3>5, <3>6, <4>1, <4>2
    <3>9. PICK f : f = Fresh
      OBVIOUS
    <3>10. IsConn(f) /\ Fine(f, a, {}, "in", worker.blocked)
      BY <1>18, <3>9, FreshOK DEF Fine
    <3>11. \A d \in Conns : TasksOf(d)' = TasksOf(d)
      BY <3>4 DEF TasksOf, Queued
    <3>12. Fine(f, app'[c], TasksOf(c)', peer'[c].hello, worker.blocked)
      BY <1>10, <1>15, <1>17, <1>18, <2>1, <3>10, <3>11
    <3>13. \A d \in Conns : d # c => /\ app'[d] = app[d] /\ peer'[d].hello = peer[d].hello
                                     /\ TasksOf(d)' = TasksOf(d)
      BY <1>10, <1>15, <3>11
    <3>14. conn' = [conn EXCEPT ![c] = f]
      BY <3>1, <3>9
    <3>15. /\ conn' = [d \in Conns |-> conn'[d]] /\ (\A d \in Conns : IsConn(conn'[d]))
           /\ ConnInv'
      BY <1>1, <1>13, <3>10, <3>12, <3>13, <3>14, OthersStay
    <3> QED
      BY <3>4, <3>7, <3>8, <3>15
  <2>2. CASE stage = "ignored"
    <3>1. conn' = conn /\ machines' = machines
      BY <1>2, <1>4, <1>5, <1>14, <2>2 DEF ReceiveHello
    <3>2. \A d \in Conns : TasksOf(d)' = TasksOf(d)
      BY <3>1 DEF TasksOf, Queued
    <3>3. ASSUME NEW d \in Conns PROVE ConnOK(d)'
      <4>1. ConnOK(d)
        BY <1>1 DEF ConnInv
      <4>2. CASE d # c
        BY <1>10, <1>13, <1>15, <3>1, <3>2, <4>1, <4>2 DEF ConnOK
      <4>3. CASE d = c
        <5>1. Life(r, a, {}, "ignored")
          BY <1>18 DEF Fine, Life
        <5>2. Fine(r, a, {}, "ignored", worker.blocked)
          BY <1>18, <5>1 DEF Fine
        <5> QED
          BY <1>10, <1>13, <1>15, <1>16, <1>17, <1>18, <2>2, <3>1, <3>2, <4>3, <5>2
             DEF ConnOK, Fine
      <4> QED
        BY <4>2, <4>3
    <3> QED
      BY <1>1, <1>20, <1>21, <3>1, <3>3 DEF TypeOK, ConnInv
  <2> QED
    BY <2>1, <2>2
<1>24. TypeOK'
  BY <1>1, <1>10, <1>11, <1>13, <1>15, <1>23 DEF TypeOK
<1>25. SocketInv' /\ PassInv'
  BY <1>1, <1>3, <1>10, <1>13, <1>23 DEF SocketInv, PassInv
<1>26. QueueInv'
  BY <1>1, <1>23 DEF QueueInv
<1>27. HelloInv'
  BY <1>8, <1>10, <1>11, <1>13, <1>19, <1>22, <1>23 DEF HelloInv, Greeting, Once
<1> QED
  BY <1>23, <1>24, <1>25, <1>26, <1>27 DEF EndpointInv

-----------------------------------------------------------------------------
(* What the world does.                                                    *)
LEMMA Arriving ==
  ASSUME TypeOK, NEW c \in Conns, NEW kind \in {"hello", "ack", "finack"} \cup Sent,
         sock' = [sock EXCEPT !.rx = Append(@, <<c, kind>>), !.ready = TRUE]
  PROVE  /\ sock' \in Socket /\ sock'.tx = sock.tx /\ sock'.ready = TRUE
         /\ Len(sock.rx) \in Nat /\ Len(sock'.rx) = Len(sock.rx) + 1
         /\ sock'.rx[Len(sock'.rx)] = <<c, kind>>
         /\ \A i \in 1..Len(sock.rx) : sock'.rx[i] = sock.rx[i] /\ sock.rx[i] \in Datagrams
         /\ \A i \in 1..Len(sock'.rx) : i \in 1..Len(sock.rx) \/ i = Len(sock'.rx)
<1>1. sock \in Socket
  BY DEF TypeOK
<1>2. PICK p \in Seq(Datagrams) : p = sock.rx
  BY <1>1 DEF Socket
<1>3. PICK x \in Datagrams : x = <<c, kind>>
  BY DEF Datagrams
<1>4. PICK t \in Seq(Datagrams) : t = Append(p, x)
  <2>1. Append(p, x) \in Seq(Datagrams)
    BY AppendProperties
  <2> QED
    BY <2>1, Zenon
<1>5. sock' = [sock EXCEPT !.rx = t, !.ready = TRUE]
  BY <1>2, <1>3, <1>4
<1>6. sock' \in Socket /\ sock'.tx = sock.tx /\ sock'.ready = TRUE /\ sock'.rx = t
  BY <1>1, <1>5 DEF Socket
<1>7. /\ Len(p) \in Nat /\ Len(t) = Len(p) + 1 /\ t[Len(t)] = x
      /\ \A i \in 1..Len(p) : t[i] = p[i] /\ p[i] \in Datagrams
  BY <1>4
<1> QED
  BY <1>2, <1>3, <1>6, <1>7

LEMMA HelloStep ==
  ASSUME EndpointInv, NEW c \in Conns, Hello(c)
  PROVE  EndpointInv'
<1>1. TypeOK /\ SocketInv /\ PassInv /\ QueueInv /\ HelloInv /\ ConnInv
  BY DEF EndpointInv
<1>2. /\ peer[c].hello \in {"wanted", "ignored"} /\ peer' = [peer EXCEPT ![c].hello = "sent"]
      /\ worker.pc \in {"receive", "asleep", "wake"}
      /\ sock' = [sock EXCEPT !.rx = Append(@, <<c, "hello">>), !.ready = TRUE]
      /\ UNCHANGED <<plan, worker, out, conn, app, machines, alarm>>
  BY DEF Hello, Arrives, Outside, At
<1>3. /\ sock' \in Socket /\ sock'.tx = sock.tx /\ sock'.ready = TRUE
      /\ Len(sock.rx) \in Nat /\ Len(sock'.rx) = Len(sock.rx) + 1
      /\ sock'.rx[Len(sock'.rx)] = <<c, "hello">>
      /\ \A i \in 1..Len(sock.rx) : sock'.rx[i] = sock.rx[i] /\ sock.rx[i] \in Datagrams
      /\ \A i \in 1..Len(sock'.rx) : i \in 1..Len(sock.rx) \/ i = Len(sock'.rx)
  <2>1. "hello" \in {"hello", "ack", "finack"} \cup Sent
    OBVIOUS
  <2> QED
    BY <1>1, <1>2, <2>1, Arriving
<1>4. /\ peer' \in [Conns -> [hello : Stages, left : Seq(Sent)]] /\ peer'[c].hello = "sent"
      /\ \A d \in Conns : d # c => peer'[d] = peer[d]
  <2>1. /\ peer \in [Conns -> [hello : Stages, left : Seq(Sent)]] /\ "sent" \in Stages
    BY <1>1 DEF TypeOK, Stages
  <2>2. PICK e \in [hello : Stages, left : Seq(Sent)] : e = peer[c]
    BY <2>1
  <2>3. PICK f : f = [e EXCEPT !.hello = "sent"]
    OBVIOUS
  <2>4. f \in [hello : Stages, left : Seq(Sent)] /\ f.hello = "sent"
    BY <2>1, <2>3
  <2>5. peer' = [peer EXCEPT ![c] = f]
    BY <1>2, <2>2, <2>3
  <2> QED
    BY <2>1, <2>4, <2>5
<1>5. TypeOK'
  BY <1>1, <1>2, <1>3, <1>4 DEF TypeOK
<1>6. SocketInv' /\ PassInv'
  BY <1>1, <1>2, <1>3 DEF SocketInv, PassInv, Due
<1>7. QueueInv' /\ \A d \in Conns : TasksOf(d)' = TasksOf(d)
  BY <1>1, <1>2 DEF QueueInv, TasksOf, Queued
<1>8. ASSUME NEW i \in 1..Len(sock.rx), sock.rx[i][2] = "hello"
      PROVE  sock.rx[i] # <<c, "hello">> /\ peer'[sock.rx[i][1]].hello = "sent"
  <2>1. sock.rx[i][1] \in Conns /\ peer[sock.rx[i][1]].hello = "sent"
    BY <1>1, <1>3, <1>8 DEF HelloInv, Datagrams
  <2> QED
    BY <1>2, <1>4, <2>1
<1>9. Greeting(sock.rx)'
  <2>1. ASSUME NEW i \in 1..Len(sock'.rx), NEW j \in 1..Len(sock'.rx),
               sock'.rx[i][2] = "hello", sock'.rx[j] = sock'.rx[i]
        PROVE  i = j
    <3>1. CASE i \in 1..Len(sock.rx) /\ j \in 1..Len(sock.rx)
      <4>1. sock.rx[i][2] = "hello" /\ sock.rx[j] = sock.rx[i]
        BY <1>3, <2>1, <3>1
      <4> QED
        BY <1>1, <3>1, <4>1 DEF HelloInv
    <3>2. CASE i \in 1..Len(sock.rx) /\ j = Len(sock'.rx)
      <4>1. sock.rx[i] = <<c, "hello">> /\ sock.rx[i][2] = "hello"
        BY <1>3, <2>1, <3>2
      <4> QED
        BY <1>8, <3>2, <4>1
    <3>3. CASE j \in 1..Len(sock.rx) /\ i = Len(sock'.rx)
      <4>1. sock.rx[j] = <<c, "hello">> /\ sock.rx[j][2] = "hello"
        BY <1>3, <2>1, <3>3
      <4> QED
        BY <1>8, <3>3, <4>1
    <3> QED
      BY <1>3, <2>1, <3>1, <3>2, <3>3
  <2> QED
    BY <2>1 DEF Greeting
<1>10. Greeted(sock.rx)'
  <2>1. ASSUME NEW i \in 1..Len(sock'.rx), sock'.rx[i][2] = "hello"
        PROVE  peer'[sock'.rx[i][1]].hello = "sent"
    <3>1. CASE i \in 1..Len(sock.rx)
      BY <1>3, <1>8, <2>1, <3>1
    <3>2. CASE i = Len(sock'.rx)
      <4>1. sock'.rx[i][1] = c
        BY <1>3, <3>2
      <4> QED
        BY <1>4, <4>1
    <3> QED
      BY <1>3, <3>1, <3>2
  <2> QED
    BY <2>1 DEF Greeted
<1>11. HelloInv'
  <2>1. ASSUME NEW d \in Conns, peer[d].hello = "in" PROVE peer'[d].hello = "in"
    BY <1>2, <1>4, <2>1
  <2>2. \A i \in 1..Len(machines.incoming) : machines.incoming[i] \in Conns
    BY <1>1 DEF TypeOK, Machines
  <2>3. \A i \in 1..Len(worker.todo) : worker.todo[i] \in Conns
    BY <1>1 DEF TypeOK, Working
  <2>4. \A i \in 1..Len(machines.incoming) : peer'[machines.incoming[i]].hello = "in"
    BY <1>1, <2>1, <2>2 DEF HelloInv
  <2>5. \A i \in 1..Len(worker.todo) : peer'[worker.todo[i]].hello = "in"
    BY <1>1, <2>1, <2>3 DEF HelloInv
  <2> QED
    BY <1>1, <1>2, <1>9, <1>10, <2>4, <2>5 DEF HelloInv, Greeting, Greeted
<1>12. ConnInv'
  <2>1. ASSUME NEW d \in Conns PROVE ConnOK(d)'
    <3>1. ConnOK(d)
      BY <1>1 DEF ConnInv
    <3>2. CASE d # c
      BY <1>2, <1>4, <1>7, <3>1, <3>2 DEF ConnOK
    <3>3. CASE d = c
      <4>1. Life(conn[c], app[c], TasksOf(c), "sent")
        BY <1>2, <3>1, <3>3 DEF ConnOK, Life
      <4> QED
        BY <1>2, <1>4, <1>7, <3>1, <3>3, <4>1 DEF ConnOK
    <3> QED
      BY <3>2, <3>3
  <2> QED
    BY <2>1 DEF ConnInv
<1> QED
  BY <1>5, <1>6, <1>7, <1>11, <1>12 DEF EndpointInv

LEMMA PeerSendsStep ==
  ASSUME EndpointInv, NEW c \in Conns, PeerSends(c)
  PROVE  EndpointInv'
<1>1. TypeOK /\ SocketInv /\ PassInv /\ QueueInv /\ HelloInv /\ ConnInv
  BY DEF EndpointInv
<1>2. PICK e \in [hello : Stages, left : Seq(Sent)] : e = peer[c]
  BY <1>1 DEF TypeOK
<1>3. e.left # <<>> /\ e.left \in Seq(Sent) /\ e.hello \in Stages
  BY <1>2 DEF PeerSends
<1>4. PICK kind \in Sent : kind = Head(e.left)
  <2>1. Head(e.left) \in Sent
    BY <1>3, Rest
  <2> QED
    BY <2>1, Zenon
<1>5. PICK t \in Seq(Sent) : t = Tail(e.left)
  <2>1. Tail(e.left) \in Seq(Sent)
    BY <1>3, Rest
  <2> QED
    BY <2>1, Zenon
<1>6. /\ peer' = [peer EXCEPT ![c].left = t]
      /\ worker.pc \in {"receive", "asleep", "wake"}
      /\ sock' = [sock EXCEPT !.rx = Append(@, <<c, kind>>), !.ready = TRUE]
      /\ UNCHANGED <<plan, worker, out, conn, app, machines, alarm>>
  BY <1>2, <1>4, <1>5 DEF PeerSends, Arrives, Outside, At
<1>7. /\ sock' \in Socket /\ sock'.tx = sock.tx /\ sock'.ready = TRUE
      /\ Len(sock.rx) \in Nat /\ Len(sock'.rx) = Len(sock.rx) + 1
      /\ sock'.rx[Len(sock'.rx)] = <<c, kind>>
      /\ \A i \in 1..Len(sock.rx) : sock'.rx[i] = sock.rx[i] /\ sock.rx[i] \in Datagrams
      /\ \A i \in 1..Len(sock'.rx) : i \in 1..Len(sock.rx) \/ i = Len(sock'.rx)
  <2>1. kind \in {"hello", "ack", "finack"} \cup Sent
    OBVIOUS
  <2> QED
    BY <1>1, <1>6, <2>1, Arriving
<1>8. /\ peer' \in [Conns -> [hello : Stages, left : Seq(Sent)]]
      /\ \A d \in Conns : peer'[d].hello = peer[d].hello
  <2>1. peer \in [Conns -> [hello : Stages, left : Seq(Sent)]]
    BY <1>1 DEF TypeOK
  <2>2. PICK f : f = [e EXCEPT !.left = t]
    OBVIOUS
  <2>3. f \in [hello : Stages, left : Seq(Sent)] /\ f.hello = e.hello
    BY <1>3, <2>2
  <2>4. peer' = [peer EXCEPT ![c] = f]
    BY <1>2, <1>6, <2>2
  <2> QED
    BY <1>2, <2>1, <2>3, <2>4
<1>9. TypeOK'
  BY <1>1, <1>6, <1>7, <1>8 DEF TypeOK
<1>10. SocketInv' /\ PassInv'
  BY <1>1, <1>6, <1>7 DEF SocketInv, PassInv, Due
<1>11. QueueInv' /\ \A d \in Conns : TasksOf(d)' = TasksOf(d)
  BY <1>1, <1>6 DEF QueueInv, TasksOf, Queued
<1>12. kind # "hello"
  BY DEF Sent
<1>13. ASSUME NEW i \in 1..Len(sock'.rx), sock'.rx[i][2] = "hello"
       PROVE  i \in 1..Len(sock.rx) /\ sock'.rx[i] = sock.rx[i] /\ sock.rx[i][1] \in Conns
  <2>1. i # Len(sock'.rx)
    BY <1>7, <1>12, <1>13
  <2>2. i \in 1..Len(sock.rx)
    BY <1>7, <2>1
  <2> QED
    BY <1>7, <2>2 DEF Datagrams
<1>14. Greeting(sock.rx)'
  <2>1. ASSUME NEW i \in 1..Len(sock'.rx), NEW j \in 1..Len(sock'.rx),
               sock'.rx[i][2] = "hello", sock'.rx[j] = sock'.rx[i]
        PROVE  i = j
    <3>1. i \in 1..Len(sock.rx) /\ j \in 1..Len(sock.rx) /\ sock.rx[i][2] = "hello"
          /\ sock.rx[j] = sock.rx[i]
      BY <1>13, <2>1
    <3> QED
      BY <1>1, <3>1 DEF HelloInv
  <2> QED
    BY <2>1 DEF Greeting
<1>15. Greeted(sock.rx)'
  <2>1. ASSUME NEW i \in 1..Len(sock'.rx), sock'.rx[i][2] = "hello"
        PROVE  peer'[sock'.rx[i][1]].hello = "sent"
    <3>1. /\ i \in 1..Len(sock.rx) /\ sock.rx[i][2] = "hello"
          /\ sock'.rx[i] = sock.rx[i] /\ sock.rx[i][1] \in Conns
      BY <1>13, <2>1
    <3>2. peer[sock.rx[i][1]].hello = "sent"
      BY <1>1, <3>1 DEF HelloInv
    <3> QED
      BY <1>8, <3>1, <3>2
  <2> QED
    BY <2>1 DEF Greeted
<1>16. HelloInv'
  <2>1. \A i \in 1..Len(machines.incoming) : machines.incoming[i] \in Conns
    BY <1>1 DEF TypeOK, Machines
  <2>2. \A i \in 1..Len(worker.todo) : worker.todo[i] \in Conns
    BY <1>1 DEF TypeOK, Working
  <2>3. \A i \in 1..Len(machines.incoming) : peer'[machines.incoming[i]].hello = "in"
    BY <1>1, <1>8, <2>1 DEF HelloInv
  <2>4. \A i \in 1..Len(worker.todo) : peer'[worker.todo[i]].hello = "in"
    BY <1>1, <1>8, <2>2 DEF HelloInv
  <2>5. machines' = machines /\ worker' = worker /\ app' = app
    BY <1>6
  <2> QED
    BY <1>1, <1>14, <1>15, <2>3, <2>4, <2>5 DEF HelloInv, Greeting, Greeted
<1>17. ConnInv'
  BY <1>1, <1>6, <1>8, <1>11 DEF ConnInv, ConnOK
<1> QED
  BY <1>9, <1>10, <1>11, <1>16, <1>17 DEF EndpointInv

(* The peer answers what it got, and never with a greeting.                *)
LEMMA LeavesStep ==
  ASSUME EndpointInv, Leaves
  PROVE  EndpointInv'
<1>1. TypeOK /\ SocketInv /\ PassInv /\ QueueInv /\ HelloInv /\ ConnInv
  BY DEF EndpointInv
<1>2. PICK p \in Seq(Conns \X Packets) : p = sock.tx
  BY <1>1 DEF TypeOK, Socket
<1>3. p # <<>> /\ worker.pc \in {"asleep", "wake", "send"}
  BY <1>2 DEF Leaves, Outside, At
<1>4. PICK x \in Conns \X Packets : x = Head(p)
  <2>1. Head(p) \in Conns \X Packets
    BY <1>3, Rest
  <2> QED
    BY <2>1, Zenon
<1>5. PICK t \in Seq(Conns \X Packets) : t = Tail(p)
  <2>1. Tail(p) \in Seq(Conns \X Packets)
    BY <1>3, Rest
  <2> QED
    BY <2>1, Zenon
<1>6. PICK answer : answer = CASE x[2] = "data" -> <<<<x[1], "ack">>>>
                               [] x[2] = "fin" -> <<<<x[1], "finack">>>>
                               [] OTHER -> <<>>
  OBVIOUS
<1>7. answer \in Seq(Datagrams) /\ \A i \in 1..Len(answer) : answer[i][2] # "hello"
  <2>1. <<x[1], "ack">> \in Datagrams /\ <<x[1], "finack">> \in Datagrams
    BY DEF Datagrams
  <2>2. CASE x[2] = "data"
    <3>1. answer = <<<<x[1], "ack">>>>
      BY <1>6, <2>2
    <3> QED
      BY <2>1, <3>1
  <2>3. CASE x[2] = "fin"
    <3>1. answer = <<<<x[1], "finack">>>>
      BY <1>6, <2>3
    <3> QED
      BY <2>1, <3>1
  <2>4. CASE x[2] \notin {"data", "fin"}
    <3>1. answer = <<>>
      BY <1>6, <2>4
    <3> QED
      BY <3>1
  <2> QED
    BY <2>2, <2>3, <2>4
<1>8. PICK edge \in BOOLEAN : edge = (sock.ready \/ worker.blocked \/ answer # <<>>)
  OBVIOUS
<1>9. PICK rx \in Seq(Datagrams) : rx = sock.rx \o answer
  <2>1. sock.rx \o answer \in Seq(Datagrams)
    BY <1>1, <1>7, ConcatProperties DEF TypeOK, Socket
  <2> QED
    BY <2>1, Zenon
<1>10. /\ sock' = [sock EXCEPT !.tx = t, !.rx = rx, !.ready = edge]
       /\ UNCHANGED <<plan, peer, worker, out, conn, app, machines, alarm>>
  BY <1>2, <1>4, <1>5, <1>6, <1>8, <1>9 DEF Leaves
<1>11. sock' \in Socket /\ sock'.tx = t /\ sock'.rx = rx /\ sock'.ready = edge
  BY <1>1, <1>10 DEF TypeOK, Socket
<1>12. PICK r \in Seq(Datagrams) : r = sock.rx
  BY <1>1 DEF TypeOK, Socket
<1>13. /\ Len(r) \in Nat /\ Len(answer) \in Nat /\ Len(rx) = Len(r) + Len(answer)
       /\ \A i \in 1..Len(r) : rx[i] = r[i] /\ r[i] \in Datagrams
       /\ \A i \in (Len(r) + 1)..Len(rx) : rx[i] = answer[i - Len(r)]
  <2>1. /\ Len(r) \in Nat /\ Len(answer) \in Nat
        /\ rx = r \o answer
    BY <1>7, <1>9, <1>12
  <2> QED
    BY <1>7, <2>1
<1>14. ASSUME NEW i \in 1..Len(rx), rx[i][2] = "hello"
       PROVE  i \in 1..Len(r) /\ rx[i] = r[i] /\ r[i][1] \in Conns
  <2>1. CASE i \in 1..Len(r)
    BY <1>13, <2>1 DEF Datagrams
  <2>2. CASE i \notin 1..Len(r)
    <3>1. i \in (Len(r) + 1)..Len(rx) /\ i - Len(r) \in 1..Len(answer)
      BY <1>13, <2>2
    <3>2. rx[i] = answer[i - Len(r)]
      BY <1>13, <3>1
    <3> QED
      BY <1>7, <1>14, <3>1, <3>2
  <2> QED
    BY <2>1, <2>2
<1>15. TypeOK'
  BY <1>1, <1>10, <1>11 DEF TypeOK
<1>16. SocketInv'
  <2>1. rx # <<>> => sock.rx # <<>> \/ edge
    <3>1. SUFFICES ASSUME r = <<>>, ~edge PROVE rx = <<>>
      BY <1>12
    <3>2. answer = <<>>
      BY <1>8, <3>1
    <3>3. Len(rx) = 0
      BY <1>13, <3>1, <3>2
    <3> QED
      BY <3>3
  <2>2. edge \in BOOLEAN /\ (sock.ready \/ worker.blocked => edge)
    BY <1>8
  <2> QED
    BY <1>1, <1>10, <1>11, <2>1, <2>2 DEF SocketInv
<1>17. PassInv' /\ QueueInv'
  BY <1>1, <1>10 DEF PassInv, QueueInv, Due
<1>18. Greeting(rx)
  <2>1. ASSUME NEW i \in 1..Len(rx), NEW j \in 1..Len(rx), rx[i][2] = "hello", rx[j] = rx[i]
        PROVE  i = j
    <3>1. i \in 1..Len(r) /\ j \in 1..Len(r) /\ r[i][2] = "hello" /\ r[j] = r[i]
      BY <1>14, <2>1
    <3> QED
      BY <1>1, <1>12, <3>1 DEF HelloInv
  <2> QED
    BY <2>1 DEF Greeting
<1>19. Greeted(rx)
  <2>1. ASSUME NEW i \in 1..Len(rx), rx[i][2] = "hello" PROVE peer[rx[i][1]].hello = "sent"
    <3>1. i \in 1..Len(r) /\ rx[i] = r[i]
      BY <1>14, <2>1
    <3>2. peer[r[i][1]].hello = "sent"
      BY <1>1, <1>12, <2>1, <3>1 DEF HelloInv
    <3> QED
      BY <3>1, <3>2
  <2> QED
    BY <2>1 DEF Greeted
<1>20. HelloInv'
  BY <1>1, <1>10, <1>11, <1>18, <1>19 DEF HelloInv, Greeting, Greeted
<1>21. Queued' = Queued
  BY <1>10 DEF Queued
<1>22. ConnInv'
  BY <1>1, <1>10, <1>21, ConnsStay
<1> QED
  BY <1>15, <1>16, <1>17, <1>20, <1>22 DEF EndpointInv

(* A connection that drained closed before, and its end was read.          *)
LEMMA ExpireStep ==
  ASSUME EndpointInv, NEW c \in Conns, Expire(c)
  PROVE  EndpointInv'
<1>1. TypeOK /\ SocketInv /\ PassInv /\ QueueInv /\ HelloInv /\ ConnInv
  BY DEF EndpointInv
<1>2. PICK r : r = conn[c]
  OBVIOUS
<1>3. PICK a : a = app[c]
  OBVIOUS
<1>4. PICK w : w = [r EXCEPT !.timer = "due"]
  OBVIOUS
<1>5. /\ worker.pc \in {"asleep", "wake"} /\ r.timer = "armed" /\ r.events = <<>>
      /\ conn' = [conn EXCEPT ![c] = w]
      /\ UNCHANGED <<plan, peer, sock, worker, out, app, machines, alarm>>
  BY <1>2, <1>4 DEF Expire, Outside
<1>6. IsConn(r) /\ Fine(r, a, TasksOf(c), peer[c].hello, worker.blocked)
  BY <1>1, <1>2, <1>3 DEF TypeOK, ConnInv, ConnOK, Fine
<1>7. /\ DOMAIN w = ConnFields /\ w.timer = "due" /\ w.known = r.known /\ w.error = r.error
      /\ w.acked = r.acked /\ w.events = r.events /\ w.closing = r.closing
      /\ w.owed = r.owed /\ w.window = r.window /\ w.inbox = r.inbox
      /\ w.waiters = r.waiters /\ w.budget = r.budget /\ w.needs = r.needs
  BY <1>4, <1>6 DEF IsConn, ConnFields
<1>8. IsConn(w)
  BY <1>6, <1>7 DEF IsConn
<1>9. Life(w, a, TasksOf(c), peer[c].hello)
  BY <1>5, <1>6, <1>7 DEF Fine, Life
<1>10. Owes(w, worker.blocked)
  BY <1>6, <1>7 DEF Fine, Owes
<1>11. Parks(w, a, TasksOf(c))
  <2>1. \A t : Ready(w, a, t) <=> Ready(r, a, t)
    BY <1>7 DEF Ready
  <2> QED
    BY <1>6, <1>7, <2>1 DEF Fine, Parks
<1>12. \A d \in Conns : TasksOf(d)' = TasksOf(d)
  BY <1>5 DEF TasksOf, Queued
<1>13. /\ conn' = [d \in Conns |-> conn'[d]] /\ (\A d \in Conns : IsConn(conn'[d]))
       /\ ConnInv'
  <2>1. Fine(w, app'[c], TasksOf(c)', peer'[c].hello, worker.blocked)
    BY <1>3, <1>5, <1>9, <1>10, <1>11, <1>12 DEF Fine
  <2>2. \A d \in Conns : d # c => /\ app'[d] = app[d] /\ peer'[d].hello = peer[d].hello
                                  /\ TasksOf(d)' = TasksOf(d)
    BY <1>5, <1>12
  <2> QED
    BY <1>1, <1>5, <1>8, <2>1, <2>2, OthersStay
<1>14. TypeOK'
  BY <1>1, <1>5, <1>13 DEF TypeOK
<1>15. SocketInv' /\ QueueInv' /\ HelloInv'
  BY <1>1, <1>5 DEF SocketInv, QueueInv, HelloInv
<1>16. PassInv'
  <2>1. \A d \in Conns : conn'[d].known = conn[d].known /\ conn'[d].needs = conn[d].needs
    BY <1>1, <1>2, <1>5, <1>7 DEF TypeOK
  <2> QED
    BY <1>1, <1>5, <2>1 DEF PassInv, Due
<1> QED
  BY <1>13, <1>14, <1>15, <1>16 DEF EndpointInv

-----------------------------------------------------------------------------
LEMMA InitEndpoint == Init => EndpointInv
<1> SUFFICES ASSUME Init PROVE EndpointInv
  OBVIOUS
<1>1. plan \in PlanShape
  BY EndpointAssumption DEF Init
<1>2. /\ peer \in [Conns -> [hello : Stages, left : Seq(Sent)]]
      /\ \A c \in Conns : peer[c].hello \in {"wanted", "never"}
  <2>1. \A c \in Conns : plan.does[c] \in [hello : {"wanted", "never"}, messages : Nat,
          drops : BOOLEAN, closer : {"us", "peer"}, sends : Seq(Sent)]
    BY <1>1 DEF PlanShape
  <2>2. \A c \in Conns : plan.does[c].hello \in {"wanted", "never"}
                         /\ plan.does[c].sends \in Seq(Sent)
    BY <2>1
  <2>3. peer = [c \in Conns |-> [hello |-> plan.does[c].hello, left |-> plan.does[c].sends]]
    BY DEF Init
  <2>4. \A x \in {"wanted", "never"} : x \in Stages
    BY DEF Stages
  <2> QED
    BY <2>2, <2>3, <2>4
<1>3. /\ sock = [rx |-> <<>>, tx |-> <<>>, ready |-> FALSE]
      /\ worker = [pc |-> "receive", round |-> 0, todo |-> <<>>, next |-> 0, more |-> FALSE,
                   blocked |-> FALSE, sched |-> FALSE, notified |-> FALSE, ready |-> FALSE]
      /\ out = <<>>
      /\ machines = [incoming |-> <<>>, woken |-> {ALARM}, polled |-> <<>>]
  BY DEF Init
<1>4. sock \in Socket
  BY <1>3 DEF Socket
<1>5. worker \in Working /\ worker.pc = "receive"
  <2>1. "receive" \in Labels
    BY DEF Labels
  <2> QED
    BY <1>3, <2>1 DEF Working
<1>6. machines \in Machines
  <2>1. {ALARM} \in SUBSET Tags
    BY DEF Tags
  <2> QED
    BY <1>3, <2>1 DEF Machines
<1>7. alarm \in Alarm
  <2>1. PICK at \in {"off", "armed", "due"} : at = IF plan.alarms > 0 THEN "armed" ELSE "off"
    OBVIOUS
  <2>2. plan.alarms \in Nat
    BY <1>1 DEF PlanShape
  <2>3. alarm = [at |-> at, waiting |-> FALSE, left |-> plan.alarms]
    BY <2>1 DEF Init
  <2> QED
    BY <2>2, <2>3 DEF Alarm
<1>8. /\ app \in [Conns -> App]
      /\ \A c \in Conns : app[c].recv = "none" /\ app[c].send = "none" /\ app[c].watch = "none"
                          /\ ~app[c].ended /\ ~app[c].backlog
  <2>1. app = [c \in Conns |-> [send |-> "none", left |-> plan.does[c].messages, recv |-> "none",
                                watch |-> "none", ended |-> FALSE, backlog |-> FALSE]]
    BY DEF Init
  <2>2. \A c \in Conns : plan.does[c].messages \in Int
    BY <1>1 DEF PlanShape
  <2> QED
    BY <2>1, <2>2 DEF App
<1>9. \A c \in Conns : TasksOf(c) = {}
  BY <1>3 DEF TasksOf, Queued, ToSet, ALARM, Tasks
<1>10. ASSUME NEW c \in Conns
       PROVE  IsConn(conn[c]) /\ Fine(conn[c], app[c], {}, peer[c].hello, worker.blocked)
  <2>1. PICK r : r = conn[c]
    OBVIOUS
  <2>2. r = [Fresh EXCEPT !.known = FALSE]
    BY <2>1 DEF Init
  <2>3. OPERATIONS \in Nat \ {0} /\ WINDOW \in Nat \ {0}
    BY EndpointAssumption
  <2>4. /\ DOMAIN r = ConnFields /\ r.known = FALSE /\ r.owed = <<>> /\ r.window = WINDOW
        /\ r.inbox = <<>> /\ r.events = <<>> /\ r.timer = "off" /\ r.closing = FALSE
        /\ r.error = "none" /\ r.waiters = {} /\ r.budget = OPERATIONS /\ r.needs = TRUE
        /\ r.acked = FALSE
    BY <2>2 DEF Fresh, ConnFields
  <2>5. IsConn(r)
    <3>1. r.owed \in Seq(Packets) /\ r.inbox \in Seq(Chunked) /\ r.events \in Seq(News)
      BY <2>4
    <3>2. r.known \in BOOLEAN /\ r.closing \in BOOLEAN /\ r.needs \in BOOLEAN
          /\ r.acked \in BOOLEAN
      BY <2>4, Zenon
    <3> QED
      BY <2>3, <2>4, <3>1, <3>2 DEF IsConn
  <2>6. Life(r, app[c], {}, peer[c].hello)
    BY <1>2, <1>8, <2>4 DEF Life
  <2>7. Owes(r, worker.blocked) /\ Parks(r, app[c], {})
    BY <1>8, <2>4 DEF Owes, Parks
  <2> QED
    BY <2>1, <2>5, <2>6, <2>7 DEF Fine
<1>11. TypeOK
  <2>1. out \in Seq(Conns \X Packets) /\ Len(out) <= OUT
    BY <1>3, EndpointAssumption
  <2>2. conn = [c \in Conns |-> conn[c]]
    BY DEF Init
  <2> QED
    BY <1>1, <1>2, <1>4, <1>5, <1>6, <1>7, <1>8, <1>10, <2>1, <2>2 DEF TypeOK
<1>12. SocketInv /\ PassInv /\ QueueInv /\ HelloInv
  BY <1>3 DEF SocketInv, PassInv, QueueInv, HelloInv
<1>13. ConnInv
  BY <1>9, <1>10 DEF ConnInv, ConnOK, Fine
<1> QED
  BY <1>11, <1>12, <1>13 DEF EndpointInv

LEMMA EndpointInductive == EndpointInv /\ [Next]_vars => EndpointInv'
<1> SUFFICES ASSUME EndpointInv, [Next]_vars PROVE EndpointInv'
  OBVIOUS
<1>1. CASE UNCHANGED vars
  BY <1>1 DEF vars, EndpointInv, TypeOK, SocketInv, PassInv, QueueInv, HelloInv, ConnInv, ConnOK,
              Due, TasksOf, Queued
<1>2. CASE WorkerNext
  BY <1>2, ReceiveEndsStep, ReceiveHelloStep, ReceivePacketStep, ServeStep, ServeEndsStep,
     SendStep, SendEndsStep, RunTimersStep, WriteStep, FinishStep, SendClosedStep, CloseCodeStep,
     ReadStep, WatchClosedStep, AcceptStep, PollTimerStep, TasksEndStep, DeadlineStep, DecideStep,
     WakeStep
     DEF WorkerNext
<1>3. CASE World
  BY <1>3, LeavesStep, RingStep, HelloStep, PeerSendsStep, ExpireStep DEF World
<1> QED
  BY <1>1, <1>2, <1>3 DEF Next

(* Whenever the worker sleeps with nothing to wake it, nothing is left     *)
(* behind that it could do: no datagram, no task, no packet, no timer, no  *)
(* operation that could go on (quic.rs, runtime.rs, worker.rs).            *)
THEOREM EndpointNothingStranded == Spec => []NothingStranded
<1>1. EndpointInv => NothingStranded
  <2> SUFFICES ASSUME EndpointInv, Sleeping PROVE NothingStranded
    BY DEF NothingStranded
  <2>1. TypeOK /\ SocketInv /\ PassInv /\ QueueInv /\ HelloInv /\ ConnInv
    BY DEF EndpointInv
  <2>2. /\ worker.pc = "asleep" /\ ~sock.ready /\ ~(worker.sched /\ TimerDue)
        /\ machines.woken = {} /\ machines.polled = <<>> /\ machines.incoming = <<>>
        /\ ~worker.more
        /\ \A c \in Conns : conn[c].known => ~conn[c].needs
    BY <2>1 DEF Sleeping, At, PassInv
  <2>3. sock.rx = <<>> /\ (out # <<>> => worker.blocked /\ sock.tx # <<>>)
    BY <2>1, <2>2 DEF SocketInv
  <2>4. ~Due
    BY <2>1, <2>2 DEF PassInv, Due, TimerDue
  <2>5. ASSUME NEW c \in Conns
        PROVE  /\ conn[c].known /\ conn[c].owed # <<>> => worker.blocked
               /\ \A t \in conn[c].waiters : ~Able(c, t)
    <3>1. ConnOK(c) /\ TasksOf(c) = {}
      BY <2>1, <2>2 DEF ConnInv, TasksOf, Queued, ToSet
    <3>2. \A t : Able(c, t) => Ready(conn[c], app[c], t)
      BY DEF Able, Ready
    <3>3. ~app[c].backlog
      BY <3>1 DEF ConnOK, Parks
    <3>4. \A t \in conn[c].waiters : ~Ready(conn[c], app[c], t)
      BY <2>2, <3>1, <3>3 DEF ConnOK, Parks
    <3> QED
      BY <2>2, <3>1, <3>2, <3>4 DEF ConnOK, Owes
  <2> QED
    BY <2>2, <2>3, <2>4, <2>5 DEF NothingStranded
<1> QED
  BY <1>1, InitEndpoint, EndpointInductive, PTL DEF Spec

-----------------------------------------------------------------------------
(* One stream of a session.                                                *)
(* The fields of each half.                                                *)
Codes == {"none", "http3", "raw"}
Sending == [web : BOOLEAN, owed : Nat, framed : Int, payload : Nat, finishing : BOOLEAN,
            inner : {"unopened", "open", "finished", "reset"}, code : Codes]
Receiving == [inner : {"unopened", "none", "open", "stopped", "over"}, code : Codes]
Calling == [holds : BOOLEAN, finished : BOOLEAN, reset : BOOLEAN, told : {"nothing", "ok", "error"}]
Line == [opens : BOOLEAN, credit : Nat, granted : Nat, stopped : BOOLEAN, acked : BOOLEAN,
         lost : BOOLEAN]

StreamTypeOK == stream \in Sending /\ recv \in Receiving /\ caller \in Calling /\ line \in Line

(* What the application finished and is not ended yet is finishing, and    *)
(* nothing but a stream that ended whole is acknowledged.                  *)
FinishInv ==
  /\ stream.inner = "unopened" => ~caller.holds /\ ~caller.finished
  /\ stream.finishing => caller.finished
  /\ caller.finished /\ stream.inner = "open" => stream.finishing
  /\ line.acked => stream.inner = "finished"

MeantInv ==
  /\ stream.payload > 0 \/ stream.inner = "finished" => stream.owed = 0
  /\ stream.inner = "finished" => caller.finished
  /\ caller.told = "ok" => stream.inner = "finished" /\ line.acked
  /\ {stream.code, recv.code} \subseteq {"none", Code}

StreamInv == StreamTypeOK /\ FinishInv /\ MeantInv

Meant == [Cut /\ caller.finished =>
            caller'.reset \/ line.stopped \/ line.lost \/ line.credit < stream.owed]_streamVars

(* The smaller of two.                                                     *)
LEMMA LesserOfTwo ==
  ASSUME NEW a \in Nat, NEW b \in Nat
  PROVE  Min({a, b}) = IF a <= b THEN a ELSE b
<1>1. PICK m \in {a, b} : \A y \in {a, b} : m <= y
  <2>1. CASE a <= b
    BY <2>1
  <2>2. CASE ~(a <= b)
    BY <2>2
  <2> QED
    BY <2>1, <2>2
<1>2. Min({a, b}) \in {a, b} /\ \A y \in {a, b} : Min({a, b}) <= y
  BY <1>1, Zenon DEF Min
<1> QED
  BY <1>2

(* What the connection takes of n units.                                   *)
LEMMA TakesSome ==
  ASSUME StreamTypeOK, NEW n \in Nat
  PROVE  /\ Takes(n) \in Nat /\ Takes(n) <= n /\ Takes(n) <= line.credit
         /\ Takes(n) < n => ~Writable \/ line.credit < n
<1>1. line.credit \in Nat
  BY DEF StreamTypeOK, Line
<1>2. CASE Writable
  <2>1. Takes(n) = IF n <= line.credit THEN n ELSE line.credit
    BY <1>1, <1>2, LesserOfTwo DEF Takes
  <2> QED
    BY <1>1, <1>2, <2>1
<1>3. CASE ~Writable
  BY <1>1, <1>3 DEF Takes
<1> QED
  BY <1>2, <1>3

LEMMA InitStream == StreamInit => StreamInv
<1>1. HEADER \in Nat
  BY StreamAssumption
<1>2. SUFFICES ASSUME StreamInit PROVE StreamInv
  OBVIOUS
<1>3. StreamTypeOK
  BY <1>1, <1>2 DEF StreamInit, StreamTypeOK, Sending, Receiving, Calling, Line, Codes
<1>4. /\ stream.inner = "unopened" /\ stream.payload = 0 /\ stream.finishing = FALSE
      /\ stream.code = "none" /\ recv.code = "none" /\ caller.told = "nothing"
      /\ caller.holds = FALSE /\ caller.finished = FALSE /\ line.acked = FALSE
  BY <1>2 DEF StreamInit
<1> QED
  BY <1>3, <1>4 DEF StreamInv, FinishInv, MeantInv

LEMMA OpenStep ==
  ASSUME StreamInv, PollOpen
  PROVE  StreamInv' /\ Meant
<1>1. PICK there \in {"open", "none"} : recv' = [recv EXCEPT !.inner = there]
  BY DEF PollOpen
<1>2. StreamTypeOK'
  BY <1>1 DEF PollOpen, StreamInv, StreamTypeOK, Sending, Receiving, Calling, Line
<1>3. /\ stream'.inner = "open" /\ stream'.web = stream.web /\ stream'.code = stream.code
      /\ stream'.owed = stream.owed /\ stream'.payload = stream.payload
      /\ stream'.finishing = stream.finishing /\ recv'.code = recv.code
      /\ caller'.finished = caller.finished /\ caller'.told = caller.told /\ line' = line
  BY <1>1 DEF PollOpen, StreamInv, StreamTypeOK, Sending, Receiving, Calling
<1> QED
  BY <1>2, <1>3 DEF PollOpen, StreamInv, FinishInv, MeantInv, Code, Meant, Cut

LEMMA LineStep ==
  ASSUME StreamInv, Allows \/ Grant \/ StopsReading \/ Acknowledges \/ Loses
  PROVE  StreamInv' /\ Meant
<1>1. stream' = stream /\ recv' = recv /\ caller' = caller
  BY DEF Allows, Grant, StopsReading, Acknowledges, Loses
<1>2. line \in Line
  BY DEF StreamInv, StreamTypeOK
<1>3. line' \in Line /\ (line'.acked = line.acked \/ stream.inner = "finished")
  <2>1. CASE Allows \/ Loses
    BY <1>2, <2>1 DEF Allows, Loses, Line
  <2>3. CASE Grant
    <3>1. line.credit + 1 \in Nat /\ line.granted + 1 \in Nat
      BY <1>2 DEF Line
    <3>2. line' = [line EXCEPT !.credit = line.credit + 1, !.granted = line.granted + 1]
      BY <2>3 DEF Grant
    <3> QED
      BY <1>2, <3>1, <3>2 DEF Line
  <2>2. CASE StopsReading \/ Acknowledges
    BY <1>2, <2>2 DEF StopsReading, Acknowledges, Line
  <2> QED
    BY <2>1, <2>2, <2>3
<1>4. line.acked => line'.acked
  <2>1. CASE Allows \/ Grant \/ Loses
    BY <1>2, <2>1 DEF Allows, Grant, Loses, Line
  <2>2. CASE StopsReading \/ Acknowledges
    BY <1>2, <2>2 DEF StopsReading, Acknowledges, Line
  <2> QED
    BY <2>1, <2>2
<1> QED
  BY <1>1, <1>3, <1>4 DEF StreamInv, StreamTypeOK, FinishInv, MeantInv, Code, Meant, Cut

LEMMA RecvStep ==
  ASSUME StreamInv, StopRecv \/ ReadRecv
  PROVE  StreamInv' /\ Meant
<1>1. stream' = stream /\ caller' = caller /\ line' = line
  BY DEF StopRecv, ReadRecv
<1>2. recv' \in Receiving /\ recv'.code \in {recv.code, Code}
  BY DEF StopRecv, ReadRecv, Code, StreamInv, StreamTypeOK, Receiving, Codes
<1> QED
  BY <1>1, <1>2 DEF StreamInv, StreamTypeOK, FinishInv, MeantInv, Code, Meant, Cut

LEMMA ResetStep ==
  ASSUME StreamInv, Reset
  PROVE  StreamInv' /\ Meant
<1>1. StreamTypeOK'
  BY DEF Reset, ResetBy, Code, StreamInv, StreamTypeOK, Sending, Calling, Codes
<1>2. /\ stream'.inner = "reset" /\ stream'.web = stream.web /\ stream'.code = Code
      /\ stream'.owed = stream.owed /\ stream'.payload = stream.payload
      /\ stream'.finishing = stream.finishing
      /\ caller'.finished = caller.finished /\ caller'.told = caller.told /\ caller'.reset
      /\ recv' = recv /\ line' = line /\ ~line.acked /\ caller.holds
  BY DEF Reset, ResetBy, StreamInv, StreamTypeOK, Sending, Calling
<1> QED
  BY <1>1, <1>2 DEF StreamInv, FinishInv, MeantInv, Code, Meant, Cut

(* What each helper leaves alone, and what it changes.                     *)
LEMMA FramedFields ==
  ASSUME NEW s \in Sending, NEW n \in Nat, n <= s.owed
  PROVE  /\ Framed(s, n) \in Sending
         /\ Framed(s, n).owed = s.owed - n /\ Framed(s, n).framed = s.framed + n
         /\ Framed(s, n).payload = s.payload /\ Framed(s, n).finishing = s.finishing
         /\ Framed(s, n).inner = s.inner /\ Framed(s, n).code = s.code
         /\ Framed(s, n).web = s.web
<1>1. s.owed - n \in Nat /\ s.framed + n \in Int
  BY DEF Sending
<1>2. Framed(s, n) = [s EXCEPT !.owed = s.owed - n, !.framed = s.framed + n]
  BY DEF Framed
<1> QED
  BY <1>1, <1>2 DEF Sending

LEMMA EndedFields ==
  ASSUME NEW s \in Sending, line \in Line
  PROVE  /\ Ended(s) \in Sending
         /\ Ended(s).owed = s.owed /\ Ended(s).framed = s.framed /\ Ended(s).web = s.web
         /\ Ended(s).payload = s.payload /\ Ended(s).finishing = s.finishing
         /\ Ended(s).code = s.code
         /\ Ended(s).inner = IF s.inner = "open" /\ ~line.stopped THEN "finished" ELSE s.inner
BY DEF Ended, Sending

LEMMA SpentFields ==
  ASSUME line \in Line, NEW n \in Nat, n <= line.credit
  PROVE  /\ Spent(n) \in Line
         /\ Spent(n).acked = line.acked /\ Spent(n).stopped = line.stopped
         /\ Spent(n).lost = line.lost
BY DEF Spent, Line

LEMMA StreamWriteStep ==
  ASSUME StreamInv, PollWrite
  PROVE  StreamInv' /\ Meant
<1> DEFINE h == Takes(stream.owed)
<1>1. /\ StreamTypeOK /\ stream \in Sending /\ line \in Line
      /\ stream.owed \in Nat /\ line.credit \in Nat /\ stream.payload \in Nat
  BY DEF StreamInv, StreamTypeOK, Sending, Line
<1>2. h \in Nat /\ h <= stream.owed /\ h <= line.credit
  BY <1>1, TakesSome
<1>3. PICK p \in 0..(IF h = stream.owed THEN Min({1, line.credit - h}) ELSE 0) :
        /\ stream' = [Framed(stream, h) EXCEPT !.payload = @ + p]
        /\ line' = Spent(h + p)
  BY DEF PollWrite
<1>4. p \in Nat /\ (p > 0 => h = stream.owed) /\ h + p <= line.credit
  <2>1. line.credit - h \in Nat
    BY <1>1, <1>2
  <2>2. Min({1, line.credit - h}) = IF 1 <= line.credit - h THEN 1 ELSE line.credit - h
    BY <2>1, LesserOfTwo
  <2> QED
    BY <1>1, <1>2, <1>3, <2>1, <2>2
<1> HIDE DEF h
<1>5. PICK s \in Sending : s = Framed(stream, h)
  BY <1>1, <1>2, FramedFields
<1>6. /\ s.owed = stream.owed - h /\ s.payload = stream.payload /\ s.finishing = stream.finishing
      /\ s.inner = stream.inner /\ s.code = stream.code /\ s.web = stream.web
  BY <1>1, <1>2, <1>5, FramedFields
<1>7. stream' = [s EXCEPT !.payload = s.payload + p]
  BY <1>3, <1>5
<1>8. /\ stream' \in Sending /\ stream'.owed = s.owed /\ stream'.payload = s.payload + p
      /\ stream'.finishing = s.finishing /\ stream'.inner = s.inner /\ stream'.code = s.code
      /\ stream'.web = s.web
  BY <1>4, <1>7 DEF Sending
<1>9. line' \in Line /\ line'.acked = line.acked
  BY <1>1, <1>2, <1>3, <1>4, SpentFields
<1>10. recv' = recv /\ caller' = caller /\ Writable
  BY DEF PollWrite
<1> QED
  BY <1>1, <1>2, <1>4, <1>6, <1>8, <1>9, <1>10
     DEF Writable, StreamInv, StreamTypeOK, FinishInv, MeantInv, Code, Meant, Cut

LEMMA StreamFinishStep ==
  ASSUME StreamInv, FinishStream
  PROVE  StreamInv' /\ Meant
<1> DEFINE h == Takes(stream.owed)
<1>1. /\ StreamTypeOK /\ stream \in Sending /\ line \in Line
      /\ stream.owed \in Nat /\ line.credit \in Nat
  BY DEF StreamInv, StreamTypeOK, Sending, Line
<1>2. h \in Nat /\ h <= stream.owed /\ h <= line.credit
  BY <1>1, TakesSome
<1>3. PICK s \in Sending : s = Framed(stream, h)
  BY <1>1, <1>2, FramedFields
<1>4. /\ s.owed = stream.owed - h /\ s.payload = stream.payload /\ s.finishing = stream.finishing
      /\ s.inner = stream.inner /\ s.code = stream.code /\ s.web = stream.web
      /\ s.owed \in Nat
  BY <1>1, <1>2, <1>3, FramedFields
<1>5. /\ caller.holds /\ recv' = recv /\ line' = Spent(h)
      /\ stream' = IF s.owed > 0 THEN [s EXCEPT !.finishing = TRUE] ELSE Ended(s)
      /\ caller' = [caller EXCEPT !.finished =
                      @ \/ ~(~(s.owed > 0) /\ s.inner = "open" /\ line.stopped)]
  BY <1>3 DEF FinishStream
<1>6. line' \in Line /\ line'.acked = line.acked
  BY <1>1, <1>2, <1>5, SpentFields
<1>7. /\ caller' \in Calling /\ caller'.told = caller.told /\ caller'.holds = caller.holds
      /\ caller'.finished =
           (caller.finished \/ ~(~(s.owed > 0) /\ s.inner = "open" /\ line.stopped))
  BY <1>1, <1>5 DEF StreamTypeOK, Calling
<1>8. /\ stream' \in Sending /\ stream'.web = s.web /\ stream'.owed = s.owed
      /\ stream'.payload = s.payload /\ stream'.code = s.code
  BY <1>1, <1>5, EndedFields DEF Sending
<1>9. IF s.owed > 0 THEN stream'.finishing /\ stream'.inner = s.inner
      ELSE /\ stream'.finishing = s.finishing
           /\ stream'.inner = IF s.inner = "open" /\ ~line.stopped THEN "finished" ELSE s.inner
  BY <1>1, <1>5, EndedFields DEF Sending
<1> HIDE DEF h
<1>10. StreamTypeOK' /\ Code' = Code
  BY <1>1, <1>4, <1>5, <1>6, <1>7, <1>8 DEF StreamTypeOK, Code
<1>11. FinishInv' /\ Meant
  <2>1. stream'.inner = "unopened" => stream.inner = "unopened"
    BY <1>4, <1>9
  <2>2. caller'.finished /\ stream'.inner = "open" => stream'.finishing
    BY <1>4, <1>7, <1>9 DEF StreamInv, FinishInv
  <2>3. stream'.finishing => caller'.finished
    BY <1>4, <1>7, <1>9 DEF StreamInv, FinishInv
  <2>4. line'.acked => stream'.inner = "finished"
    BY <1>4, <1>6, <1>9 DEF StreamInv, FinishInv
  <2>5. stream'.inner = "reset" => stream.inner = "reset"
    BY <1>4, <1>9
  <2> QED
    BY <1>5, <2>1, <2>2, <2>3, <2>4, <2>5 DEF StreamInv, FinishInv, Meant, Cut
<1>12. MeantInv'
  <2>1. stream'.payload > 0 => stream'.owed = 0
    BY <1>1, <1>2, <1>4, <1>8 DEF StreamInv, MeantInv
  <2>2. stream'.inner = "finished" => stream'.owed = 0 /\ caller'.finished
    <3>1. stream.inner = "finished" => s.owed = 0 /\ caller.finished
      BY <1>1, <1>2, <1>4 DEF StreamInv, MeantInv
    <3>2. stream'.inner = "finished" => ~(s.owed > 0)
      BY <1>4, <1>9, <3>1
    <3>3. stream'.inner = "finished" => stream.inner = "finished" \/ ~line.stopped
      BY <1>4, <1>9, <3>2
    <3>4. stream'.inner = "finished" => caller'.finished
      BY <1>4, <1>7, <3>1, <3>3
    <3> QED
      BY <1>4, <1>8, <3>2, <3>4
  <2>3. caller'.told = "ok" => stream'.inner = "finished" /\ line'.acked
    BY <1>4, <1>6, <1>7, <1>9 DEF StreamInv, MeantInv
  <2> QED
    BY <1>4, <1>5, <1>8, <1>10, <2>1, <2>2, <2>3 DEF StreamInv, MeantInv
<1> QED
  BY <1>10, <1>11, <1>12 DEF StreamInv

LEMMA ClosedStep ==
  ASSUME StreamInv, PollClosed
  PROVE  StreamInv' /\ Meant
<1> DEFINE h == Takes(stream.owed)
<1>1. /\ StreamTypeOK /\ stream \in Sending /\ line \in Line
      /\ stream.owed \in Nat /\ line.credit \in Nat
  BY DEF StreamInv, StreamTypeOK, Sending, Line
<1>2. h \in Nat /\ h <= stream.owed /\ h <= line.credit
  BY <1>1, TakesSome
<1>3. PICK s \in Sending : s = Framed(stream, h)
  BY <1>1, <1>2, FramedFields
<1>4. /\ s.owed = stream.owed - h /\ s.payload = stream.payload /\ s.finishing = stream.finishing
      /\ s.inner = stream.inner /\ s.code = stream.code /\ s.web = stream.web
  BY <1>1, <1>2, <1>3, FramedFields
<1>5. PICK q \in Sending : q = [s EXCEPT !.finishing = FALSE]
  BY DEF Sending
<1>6. /\ q.owed = s.owed /\ q.payload = s.payload /\ ~q.finishing /\ q.inner = s.inner
      /\ q.code = s.code /\ q.web = s.web
  BY <1>5 DEF Sending
<1>7. PICK spent \in {0, h}, told \in {InnerTold, "error", "nothing"} :
        /\ caller.holds /\ recv' = recv
        /\ line' = Spent(spent) /\ caller' = [caller EXCEPT !.told = told]
        /\ \/ stream' = stream
           \/ told # "ok" /\ stream' = s
           \/ stream.finishing /\ Writable /\ s.owed = 0 /\ stream' = Ended(q)
  BY <1>1, <1>2, <1>3, <1>4, <1>5, <1>6 DEF PollClosed, Closed, InnerClosed
<1>8. line' \in Line /\ line'.acked = line.acked
  BY <1>1, <1>2, <1>7, SpentFields
<1>9. /\ caller' \in Calling /\ caller'.finished = caller.finished
      /\ caller'.holds = caller.holds /\ caller'.told = told
      /\ told = "ok" => line.acked
  BY <1>1, <1>7 DEF InnerTold, StreamTypeOK, Calling
<1>10. /\ stream' \in Sending /\ stream'.web = stream.web /\ stream'.owed <= stream.owed
       /\ stream'.payload = stream.payload /\ stream'.code = stream.code
  BY <1>1, <1>2, <1>4, <1>6, <1>7, EndedFields DEF Sending
<1>11. \/ stream'.inner = stream.inner /\ stream'.finishing = stream.finishing
       \/ stream'.inner = "finished" /\ stream.finishing /\ stream.inner = "open"
            /\ stream'.owed = 0 /\ ~stream'.finishing
  BY <1>1, <1>4, <1>6, <1>7, EndedFields DEF Writable
<1> HIDE DEF h
<1> QED
  BY <1>1, <1>7, <1>8, <1>9, <1>10, <1>11
     DEF StreamInv, StreamTypeOK, FinishInv, MeantInv, Code, Meant, Cut, Sending

LEMMA DropStep ==
  ASSUME StreamInv, DropStream
  PROVE  StreamInv' /\ Meant
<1> DEFINE h == Takes(stream.owed)
<1>1. /\ StreamTypeOK /\ stream \in Sending /\ line \in Line
      /\ stream.owed \in Nat /\ line.credit \in Nat
  BY DEF StreamInv, StreamTypeOK, Sending, Line
<1>2. /\ h \in Nat /\ h <= stream.owed /\ h <= line.credit
      /\ h < stream.owed => ~Writable \/ line.credit < stream.owed
  BY <1>1, TakesSome
<1>3. PICK s \in Sending : s = Framed(stream, h)
  BY <1>1, <1>2, FramedFields
<1>4. /\ s.owed = stream.owed - h /\ s.payload = stream.payload /\ s.finishing = stream.finishing
      /\ s.inner = stream.inner /\ s.code = stream.code /\ s.web = stream.web
      /\ s.framed = stream.framed + h
  BY <1>1, <1>2, <1>3, FramedFields
<1>5. Paid = IF ~stream.finishing THEN stream ELSE IF s.owed = 0 THEN Ended(s) ELSE s
  BY <1>3 DEF Paid
<1>6. PICK q \in Sending : q = Paid
  BY <1>1, <1>5, EndedFields
<1>7. /\ q.owed <= stream.owed /\ q.payload = stream.payload /\ q.finishing = stream.finishing
      /\ q.code = stream.code /\ q.web = stream.web
      /\ q.framed - stream.framed \in {0, h}
  BY <1>1, <1>2, <1>4, <1>5, <1>6, EndedFields DEF Sending
<1>8. \/ q.inner = stream.inner
      \/ q.inner = "finished" /\ q.owed = 0 /\ stream.finishing /\ stream.inner = "open"
  BY <1>1, <1>4, <1>5, <1>6, EndedFields
<1>9. q.inner = "open" /\ stream.finishing =>
        line.stopped \/ line.lost \/ line.credit < stream.owed
  BY <1>1, <1>2, <1>4, <1>5, <1>6, EndedFields DEF Writable
<1>10. /\ caller.holds /\ recv' = recv /\ caller' = [caller EXCEPT !.holds = FALSE]
       /\ line' = Spent(q.framed - stream.framed)
       /\ stream' = IF q.inner = "open" THEN ResetBy(q, Code) ELSE q
  BY <1>6 DEF DropStream
<1>11. line' \in Line /\ line'.acked = line.acked
  BY <1>1, <1>2, <1>7, <1>10, SpentFields
<1>12. /\ caller' \in Calling /\ caller'.finished = caller.finished /\ ~caller'.holds
       /\ caller'.told = caller.told
  BY <1>1, <1>10 DEF StreamTypeOK, Calling
<1>13. /\ stream' \in Sending /\ stream'.web = q.web /\ stream'.owed = q.owed
       /\ stream'.payload = q.payload /\ stream'.finishing = q.finishing
       /\ stream'.code \in {q.code, Code}
       /\ stream'.inner = IF q.inner = "open" THEN "reset" ELSE q.inner
  BY <1>10 DEF ResetBy, Sending, Code, Codes
<1> HIDE DEF h
<1> QED
  BY <1>1, <1>7, <1>8, <1>9, <1>10, <1>11, <1>12, <1>13
     DEF StreamInv, StreamTypeOK, FinishInv, MeantInv, Code, Meant, Cut, Sending

LEMMA StreamInductive == StreamInv /\ [StreamNext]_streamVars => StreamInv' /\ Meant
<1> SUFFICES ASSUME StreamInv, [StreamNext]_streamVars PROVE StreamInv' /\ Meant
  OBVIOUS
<1>1. CASE PollOpen \/ PollWrite \/ FinishStream \/ Reset
  BY <1>1, OpenStep, StreamWriteStep, StreamFinishStep, ResetStep
<1>2. CASE PollClosed \/ DropStream \/ StopRecv \/ ReadRecv
  BY <1>2, ClosedStep, DropStep, RecvStep
<1>3. CASE Allows \/ Grant \/ StopsReading \/ Acknowledges \/ Loses
  BY <1>3, LineStep
<1>4. CASE UNCHANGED streamVars
  BY <1>4 DEF streamVars, StreamInv, StreamTypeOK, FinishInv, MeantInv, Code, Meant
<1> QED
  BY <1>1, <1>2, <1>3, <1>4 DEF StreamNext

(* A stream ends as it was meant: nothing reaches the wire ahead of its    *)
(* header, it ends cleanly only if the application finished it, and one    *)
(* that was finished is cut off only by whoever may, in whatever pieces    *)
(* credit comes (SendStream of web.rs).                                    *)
THEOREM StreamEndsAsMeant == StreamSpec => EndsAsMeant
<1>1. StreamInv => /\ stream.payload > 0 \/ stream.inner = "finished" => stream.owed = 0
                   /\ stream.inner = "finished" => caller.finished
                   /\ caller.told = "ok" => stream.inner = "finished" /\ line.acked
                   /\ {stream.code, recv.code} \subseteq {"none", Code}
  BY DEF StreamInv, MeantInv
<1> QED
  BY InitStream, StreamInductive, <1>1, PTL DEF StreamSpec, EndsAsMeant, Meant
=============================================================================
