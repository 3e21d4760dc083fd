------------------------------ MODULE Replica ------------------------------
(***************************************************************************)
(* What the pair of engines promises, whatever the network does: leaders   *)
(* live one after another and each publishes revisions 1, 2, ...; what the *)
(* follower holds is always something that was published, and it only ever *)
(* replaces it by something published later.                               *)
(***************************************************************************)
EXTENDS Integers, Sequences

CONSTANT SESSIONS

VARIABLES
  eras, \* the leaders so far, each with the last revision it published
  held  \* <<era, revision>> the follower holds, <<0, 0>> at first

vars == <<eras, held>>

Init ==
  /\ \E s \in SESSIONS : eras = <<[session |-> s, rev |-> 1]>>
  /\ held = <<0, 0>>

Publish ==
  /\ eras' = [eras EXCEPT ![Len(eras)].rev = @ + 1]
  /\ UNCHANGED held

Restart(s) ==
  /\ \A i \in 1..Len(eras) : eras[i].session # s
  /\ eras' = Append(eras, [session |-> s, rev |-> 1])
  /\ UNCHANGED held

Later(a, b) == a[1] > b[1] \/ (a[1] = b[1] /\ a[2] > b[2])

Adopt ==
  /\ \E e \in 1..Len(eras) : \E r \in 1..eras[e].rev :
       held' = <<e, r>> /\ Later(held', held)
  /\ UNCHANGED eras

Next == Publish \/ (\E s \in SESSIONS : Restart(s)) \/ Adopt

Spec == Init /\ [][Next]_vars
=============================================================================
