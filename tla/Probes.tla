------------------------------- MODULE Probes -------------------------------
(***************************************************************************)
(* Matching of clock probes (protocol/src/probes.rs) over an unreliable    *)
(* datagram track, with the leader's echo (native/src/network.rs).         *)
(*                                                                         *)
(* Requests and replies may be lost, duplicated and reordered, so what the *)
(* network may deliver is every reply the leader could have made by now    *)
(* from a request already sent, any number of times or never.  Both clocks *)
(* tick together; LEAD is the leader's lead over the follower.             *)
(***************************************************************************)
EXTENDS Integers, FiniteSets

CONSTANTS SLOTS,        \* entries of the outstanding ring (128)
          MAX_EXCHANGE, \* longest exchange that is matched (500 ms)
          LEAD,         \* leader's clock minus follower's
          MAX_TIME,     \* bound on the clock
          MAX_PROBES    \* bound on the requests sent on one connection

ASSUME ProbesAssumption ==
  SLOTS \in Nat \ {0} /\ {MAX_EXCHANGE, LEAD, MAX_TIME, MAX_PROBES} \subseteq Nat

VARIABLES
  now,         \* the follower's clock
  sequence,    \* Probes.sequence
  outstanding, \* Probes.outstanding: the request of each slot, or EMPTY
  publication, \* Probes.publication: how long publishing it took, or -1
  open,        \* the request whose publication has not returned, or 0
  exchanges,   \* history: exchanges handed to the estimator
  sent         \* history: when each request was sent and how long that took

vars == <<now, sequence, outstanding, publication, open, exchanges, sent>>

EMPTY == [seq |-> 0, t1 |-> 0]
Slot(n) == n % SLOTS

Init ==
  /\ now = 1
  /\ sequence = 0
  /\ outstanding = [i \in 0..SLOTS - 1 |-> EMPTY]
  /\ publication = [i \in 0..SLOTS - 1 |-> -1]
  /\ open = 0
  /\ exchanges = {}
  /\ sent = <<>>

(* The slot of the next request.                                           *)
NextSlot == Slot(sequence + 1)

(* Probes::request, then append_datagram.                                  *)
Request ==
  /\ sequence < MAX_PROBES /\ open = 0
  /\ sequence' = sequence + 1
  /\ outstanding' = [outstanding EXCEPT ![NextSlot] = [seq |-> sequence', t1 |-> now]]
  /\ publication' = [publication EXCEPT ![NextSlot] = -1]
  /\ open' = sequence'
  /\ sent' = [n \in 1..sequence' |-> IF n = sequence' THEN [t1 |-> now, took |-> -1] ELSE sent[n]]
  /\ UNCHANGED <<now, exchanges>>

(* Probes::publication_finished, when the publication returns.             *)
PublicationFinished ==
  /\ open # 0
  /\ publication' = IF outstanding[Slot(open)].seq = open
                      THEN [publication EXCEPT ![Slot(open)] = now - outstanding[Slot(open)].t1]
                      ELSE publication
  /\ sent' = [sent EXCEPT ![open].took = now - sent[open].t1]
  /\ open' = 0
  /\ UNCHANGED <<now, sequence, outstanding, exchanges>>

(* The leader stamps a request when it is received and when it is answered.*)
Echoes(n) == {[seq |-> n, t1 |-> sent[n].t1, t2 |-> a + LEAD, t3 |-> b + LEAD] :
                a \in sent[n].t1..now, b \in sent[n].t1..now}

Replies == {p \in UNION {Echoes(n) : n \in 1..sequence} : p.t2 <= p.t3}

(* Probes::reply.  decode_probe has refused a reply with t3 < t2.          *)
(* Variant: any occupied slot matches.                                     *)
MatchesSlot(p) == outstanding[Slot(p.seq)] # EMPTY
Matches(p) == outstanding[Slot(p.seq)] = [seq |-> p.seq, t1 |-> p.t1]
Timely(p) == now - p.t1 <= MAX_EXCHANGE

Reply(p) ==
  /\ open = 0
  /\ Matches(p) /\ p.t3 - p.t2 <= now - p.t1
  /\ outstanding' = [outstanding EXCEPT ![Slot(p.seq)] = EMPTY]
  /\ exchanges' = IF ~Timely(p) THEN exchanges
                  ELSE exchanges \cup
                         {[seq |-> p.seq, t1 |-> p.t1, t2 |-> p.t2, t3 |-> p.t3, t4 |-> now,
                           took |-> publication[Slot(p.seq)]]}
  /\ UNCHANGED <<now, sequence, publication, open, sent>>

Tick ==
  /\ now < MAX_TIME
  /\ now' = now + 1
  /\ UNCHANGED <<sequence, outstanding, publication, open, exchanges, sent>>

Next ==
  \/ Request
  \/ PublicationFinished
  \/ \E p \in Replies : Reply(p)
  \/ Tick

Spec == Init /\ [][Next]_vars

-----------------------------------------------------------------------------
(* An exchange handed on is the measurement of the request it names: sent  *)
(* at t1 and published in that time, no older than MAX_EXCHANGE, and its   *)
(* offset is wrong by no more than half of the round trip it shows.        *)
Abs(x) == IF x < 0 THEN -x ELSE x

ExchangesSound ==
  \A x \in exchanges :
    LET trip == (x.t4 - x.t1) - (x.t3 - x.t2)
    IN  /\ x.t1 = sent[x.seq].t1 /\ x.took = sent[x.seq].took
        /\ x.t1 <= x.t4 /\ x.t4 - x.t1 <= MAX_EXCHANGE
        /\ Abs((x.t2 - x.t1) + (x.t3 - x.t4) - 2 * LEAD) <= trip
=============================================================================
