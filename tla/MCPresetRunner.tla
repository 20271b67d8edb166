---------------------------- MODULE MCPresetRunner ----------------------------
(* The presets the runner is checked with.                                  *)
EXTENDS PresetRunner

Timed(heat) == [kind |-> "timed", setpoint |-> heat, brief |-> FALSE]
Preheat == [kind |-> "preheat", setpoint |-> "high", brief |-> FALSE]
Hold == [kind |-> "hold", setpoint |-> "none", brief |-> FALSE]

\* A pizza: preheat, then bake.
PreheatAndBake == {<<Preheat, Timed("high")>>}
\* A roast: hot, then kept warm until somebody comes.
RoastAndHold == {<<Timed("high"), Hold>>}
\* Two timed steps.
TwoTimed == {<<Timed("low"), Timed("high")>>}
OneTimed == {<<Timed("high")>>}

=============================================================================
