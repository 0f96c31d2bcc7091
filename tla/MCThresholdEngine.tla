-------------------------- MODULE MCThresholdEngine --------------------------
(* Values shared by the engine's TLC models. *)
EXTENDS ThresholdEngine

\* Idle, half-loaded, at the threshold's edge, saturated
MCUtils == {0, 40, 90, 100}
\* No I/O, some, and enough more to pass the gain
MCRates == 0 .. 2
=============================================================================
