--------------------------- MODULE MCCaloReadout ---------------------------
(* The calorimeter readout on small instances; see the cfg of each run for its bounds.  *)
EXTENDS CaloReadoutRefinement

(* Payload sizes: one for all events, which fits the GPU's input buffer; or *)
(* events each smaller than the one before, of which the first is too large.*)
OneSize == {2}
AllOneSize == [n \in 1 .. MaxFills |-> OneSize]
AnySize == {1, 2, 3}
Shrinking == [n \in 1 .. MaxFills |-> {4 - n}]
=============================================================================
