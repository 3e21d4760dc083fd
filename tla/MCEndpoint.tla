----------------------------- MODULE MCEndpoint -----------------------------
(***************************************************************************)
(* QUIC's endpoint and the streams above it, for TLC: a behaviour is that  *)
(* of an endpoint, with two connections that do different things (one      *)
(* writes and closes, one receives, drops, or is closed), or of one stream *)
(* of a session, over an endpoint that is otherwise idle.                  *)
(***************************************************************************)
EXTENDS Endpoint, WebStream, TLC

CONSTANTS c1, c2

Does(messages, drops, closer, sends) ==
  [hello |-> "wanted", messages |-> messages, drops |-> drops, closer |-> closer, sends |-> sends]

Writes(n) == Does(n, FALSE, "us", <<>>)
Echoes == Does(1, FALSE, "us", <<"data", "fin">>)
Reads(n) == Does(n, FALSE, "peer", <<"data", "close">>)
Drops == Does(1, TRUE, "us", <<"fin">>)
Absent == [Reads(0) EXCEPT !.hello = "never"]

Both(a, b, limit, reversed, alarms) ==
  [does |-> (c1 :> a) @@ (c2 :> b), limit |-> limit, reversed |-> reversed, alarms |-> alarms]

IdlePlan == Both(Absent, Absent, 1, FALSE, 0)

(* Two that share the queue, one that reads ahead in both orders, one      *)
(* beside a timer, two of which the second has to wait for a place.        *)
MCPlans ==
  {Both(Writes(2), Writes(1), 2, FALSE, 0), Both(Drops, Reads(1), 1, FALSE, 0),
   Both(Writes(0), Absent, 1, FALSE, 2)}
  \cup {Both(Echoes, Absent, 1, r, 0) : r \in BOOLEAN}
  \cup {IdlePlan}

EndpointOnly ==
  /\ Init /\ plan # IdlePlan
  /\ stream = [owed |-> 0, payload |-> 0, inner |-> "none", code |-> "none", web |-> TRUE]
  /\ recv = [inner |-> "none", code |-> "none"]
  /\ caller = [holds |-> FALSE, finished |-> FALSE, told |-> "nothing"]
  /\ line = [opens |-> TRUE, granted |-> MAX_CREDIT, stopped |-> TRUE, acked |-> FALSE, lost |-> TRUE]
StreamOnly == StreamInit /\ Init /\ plan = IdlePlan

EndpointSpec ==
  /\ EndpointOnly \/ StreamOnly
  /\ [][(Next /\ UNCHANGED streamVars) \/ (StreamNext /\ UNCHANGED vars)]_<<vars, streamVars>>
  /\ Fairness /\ StreamFairness
=============================================================================
