----------------------------- MODULE Measurement -----------------------------
(***************************************************************************)
(* From probes to a clock mapping: what Probes::reply returns is what      *)
(* ClockEstimator::observe_timed is given (progress of native/src/         *)
(* network.rs, Follower of clients/wasm/src/lib.rs).                       *)
(*                                                                         *)
(* A behaviour feeds the estimator in one of two ways: with the exchanges  *)
(* that the probes match over a network that loses, repeats and reorders   *)
(* them, for as long as Probes runs; or for ever, with exchanges over the  *)
(* paths of Clock.  Ages are in halves of the probes' ticks.               *)
(***************************************************************************)
EXTENDS Probes, Clock

VARIABLES
  feed,  \* "probes" or "paths"
  last   \* ClockEstimator.last_observed, doubled

allVars == <<vars, clockVars, feed, last>>

MeasurementInit ==
  /\ Init /\ ClockInit
  /\ feed \in {"probes", "paths"} /\ last = 0
  /\ feed = "probes" => leads = LEAD

(* The sample an exchange stands for.                                      *)
Exchanged(p) ==
  [age |-> 0, offset |-> (p.t2 - p.t1) + (p.t3 - now), delay |-> (now - p.t1) - (p.t3 - p.t2),
   leads |-> leads]

Midpoint(p) == p.t1 + now

(* A reply that matches is observed; a midpoint that is not after the last *)
(* one changes nothing.                                                    *)
ReplyObserved(p) ==
  /\ Reply(p)
  /\ IF Timely(p) /\ Midpoint(p) > last
       THEN Observe(Midpoint(p) - last, Exchanged(p)) /\ last' = Midpoint(p)
       ELSE UNCHANGED <<clockVars, last>>

Probing ==
  /\ feed = "probes"
  /\ \/ (Request \/ PublicationFinished \/ Tick) /\ UNCHANGED <<clockVars, last>>
     \/ \E p \in Replies : ReplyObserved(p)
  /\ UNCHANGED feed

Sampling ==
  /\ feed = "paths"
  /\ ClockNext
  /\ UNCHANGED <<vars, feed, last>>

MeasurementNext == Probing \/ Sampling

MeasurementSpec ==
  /\ MeasurementInit /\ [][MeasurementNext]_allVars
  /\ feed = "paths" => ClockFairness

-----------------------------------------------------------------------------

(* Reacquires, where exchanges keep coming.                                *)
PathsReacquire == feed = "paths" => Reacquires
=============================================================================
