------------------------------ MODULE MCOutput ------------------------------
(***************************************************************************)
(* From exchanges to a clock mapping, and from a mapping to what an        *)
(* application shows, for TLC: a behaviour is one of either, on inputs of  *)
(* its own, beside which the other is idle.                                *)
(***************************************************************************)
EXTENDS Measurement, MCPresentation

(* A symmetric path, one that is faster there than back, and one slow      *)
(* enough to be an outlier of delay.                                       *)
MCPaths == {<<1, 1>>, <<0, 2>>, <<1, 8>>}

MeasurementOnly ==
  /\ MeasurementInit
  /\ Idle /\ mode = "none"
  /\ format = NONE /\ counter = NONE /\ rate = NONE /\ frame = 0 /\ elapsed = 0

PresentationOnly ==
  /\ PresentationInit
  /\ Init /\ ClockInit /\ leads = LEAD /\ feed = "none" /\ last = 0

OutputSpec ==
  /\ MeasurementOnly \/ PresentationOnly
  /\ [][\/ MeasurementNext /\ UNCHANGED presentationVars
        \/ PresentationNext /\ UNCHANGED allVars]_<<allVars, presentationVars>>
  /\ feed = "paths" => ClockFairness
=============================================================================
