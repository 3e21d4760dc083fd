------------------------------ MODULE Capsules ------------------------------
(***************************************************************************)
(* The two framings of the CONNECT stream (Capsules of                     *)
(* native/src/transport/web.rs): HTTP/3 frames, whose DATA payloads put    *)
(* end to end are the capsules.  A varint, and a byte of a payload, is one *)
(* number; the length of a message is counted in them.                     *)
(***************************************************************************)
EXTENDS Integers, Sequences

CONSTANT MESSAGE_LIMIT \* what may be buffered while a message is incomplete

ASSUME CapsulesAssumption == MESSAGE_LIMIT \in Nat \ {0}

DATA == 0  \* type of the HTTP/3 frame that carries capsules
CLOSE == 1 \* type of the capsule CloseWebTransportSession

Nothing == [frames |-> <<>>, body |-> <<>>]

(* A frame or a capsule is a type, a length and that many bytes: whether   *)
(* the one that starts at i has arrived, and where the next one starts.    *)
Whole(s, i) == i + 1 <= Len(s) /\ i + 1 + s[i + 1] <= Len(s)
After(s, i) == i + 2 + s[i + 1]
Payload(s, i) == SubSeq(s, i + 2, i + 1 + s[i + 1])

-----------------------------------------------------------------------------
(* Variant: every frame counts as DATA.                                    *)
GreedyDemux(c) ==
  LET stop[i \in 1..(Len(c.frames) + 1)] ==
        IF Whole(c.frames, i) THEN stop[After(c.frames, i)] ELSE i
      data[i \in 1..(Len(c.frames) + 1)] ==
        IF Whole(c.frames, i) THEN Payload(c.frames, i) \o data[After(c.frames, i)] ELSE <<>>
  IN  [frames |-> SubSeq(c.frames, stop[1], Len(c.frames)), body |-> c.body \o data[1]]

(* Capsules::demux: every whole frame is taken off; DATA is kept.          *)
Demux(c) ==
  LET stop[i \in 1..(Len(c.frames) + 1)] ==
        IF Whole(c.frames, i) THEN stop[After(c.frames, i)] ELSE i
      data[i \in 1..(Len(c.frames) + 1)] ==
        IF ~Whole(c.frames, i) THEN <<>>
        ELSE (IF c.frames[i] = DATA THEN Payload(c.frames, i) ELSE <<>>)
               \o data[After(c.frames, i)]
  IN  [frames |-> SubSeq(c.frames, stop[1], Len(c.frames)), body |-> c.body \o data[1]]

(* Capsule::decode of the front of the body: not yet, invalid, the close   *)
(* capsule, or another.                                                    *)
Decoded(body) ==
  IF ~Whole(body, 1) THEN "none"
  ELSE IF body[1] # CLOSE THEN "other"
  ELSE IF Payload(body, 1) = <<>> THEN "invalid" ELSE "close"

(* Capsules::take: what it returns, and what it leaves.                    *)
Take(c) ==
  LET d == Demux(c)
      what == IF Len(d.body) > MESSAGE_LIMIT THEN "invalid" ELSE Decoded(d.body)
  IN  [what |-> what,
       rest |-> IF what \in {"close", "other"}
                  THEN [d EXCEPT !.body = SubSeq(@, After(@, 1), Len(@))] ELSE d]

-----------------------------------------------------------------------------
(* Reference: whether these bytes, however they arrive, hold a whole close *)
(* capsule that only whole capsules precede - the DATA payloads put end to *)
(* end, and cut into capsules.                                             *)
Contents(bytes) ==
  LET data[i \in 1..(Len(bytes) + 1)] ==
        IF ~Whole(bytes, i) THEN <<>>
        ELSE (IF bytes[i] = DATA THEN Payload(bytes, i) ELSE <<>>) \o data[After(bytes, i)]
  IN  data[1]

Says(bytes, P(_, _)) ==
  LET b == Contents(bytes)
      from[i \in 1..(Len(b) + 1)] == Whole(b, i) /\ (P(b, i) \/ from[After(b, i)])
  IN  from[1]

SaysClose(bytes) == Says(bytes, LAMBDA b, i : b[i] = CLOSE)

(* Or hold an empty close capsule, or more than may be buffered.           *)
SaysNonsense(bytes) ==
  \/ Len(bytes) > MESSAGE_LIMIT
  \/ Says(bytes, LAMBDA b, i : b[i] = CLOSE /\ b[i + 1] = 0)
=============================================================================
