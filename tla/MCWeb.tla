-------------------------------- MODULE MCWeb --------------------------------
(***************************************************************************)
(* Instances of WebSession for TLC: peers whose streams come in different  *)
(* orders and stall, peers that fail the handshake, and peers that close   *)
(* the session through one or several frames and capsules.                 *)
(***************************************************************************)
EXTENDS WebSession

Peer(u, b, data, stops) ==
  [uni |-> u, bi |-> b, settings |-> "good", request |-> "offered", data |-> data, stops |-> stops]

(* Streams around the control stream: early, mid-header, of another        *)
(* session, more critical ones than are held, and one past the cap, which  *)
(* a stream that is dropped leaves room for.                               *)
Orders ==
  {Peer(u, <<>>, <<>>, FALSE) :
     u \in {<<"qpack", "own", "control">>, <<"control", "other">>,
            <<"control", "qpack", "qpack", "own">>, <<"grease", "own", "qpack", "control">>}}

BiOrders == {Peer(<<"control">>, b, <<>>, FALSE) : b \in {<<"own", "own">>, <<"plain", "other">>}}

Failing ==
  {[Peer(<<"control">>, <<>>, <<>>, TRUE) EXCEPT !.settings = x, !.request = y] :
     <<x, y>> \in {<<"good", "unoffered">>, <<"good", "invalid">>, <<"unsupported", "offered">>,
                   <<"invalid", "offered">>}}

(* The close capsule <<1, 1, 9>>: in one DATA frame, in two, after another *)
(* capsule, after a frame of another type; empty; and too much of it.      *)
Closings ==
  {Peer(<<"control">>, <<>>, d, TRUE) :
     d \in {<<0, 3, 1, 1, 9>>, <<0, 1, 1, 0, 2, 1, 9>>, <<0, 3, 4, 1, 1, 0, 3, 1, 1, 9>>,
            <<0, 6, 4, 1, 1, 1, 1, 9>>, <<7, 3, 1, 1, 9, 0, 3, 1, 1, 9>>, <<0, 2, 1, 0>>,
            <<0, 2, 4, 9, 0, 9, 1, 1, 1, 1, 1, 1, 1, 1, 1>>}}

MCPlans == Orders \cup BiOrders \cup Failing \cup Closings

(* A peer that is refused: the stream it drops lets it open one too many,  *)
(* and the headers ahead of the control stream spend the operations.       *)
RefusedPlans == {Peer(<<"grease", "control", "qpack", "own">>, <<>>, <<>>, FALSE)}
=============================================================================
