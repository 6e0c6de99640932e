--------------------------- MODULE MCEventBuilder --------------------------
(* The event builder on small instances; see the cfg of each run for its bounds. *)
EXTENDS EventBuilderRefinement

(* "Fragment Required": every channel, or by mistake none.    *)
AllRequired == {Channel}
AllOrNone == {Channel, {}}

AlwaysEnabled == {TRUE}
AnyEnabled == BOOLEAN
=============================================================================
