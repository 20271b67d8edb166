------------------------------ MODULE MCRunTimes ------------------------------
(* The presets whose times are checked.  One unit of time is 30 seconds, with *)
(* minutes shortened so that all deadlines fall within a behaviour.           *)
EXTENDS RunTimes

Step(kind, minutes) == [kind |-> kind, minutes |-> minutes]

BakeOrKeep ==
    { <<Step("preheat", 2), Step("timed", 3)>>,
      <<Step("timed", 3), Step("hold", 0)>> }
\* A time that has passed, now, and one that is ahead.
LateNowAhead == {-1, 0, 5}

=============================================================================
