-------------------------- MODULE MCMasterTrigger ---------------------------
(* The master on small instances; see the cfg of each run for its bounds.   *)
EXTENDS MasterTriggerRefinement

(* Slave 1 is a readout frontend, the others are simulators: the readout    *)
(* frontends have the lower indices (experiment.h).                         *)
Simulators == Slave \ {1}
AllSources == {"PP", "SOCKET", "FAKE"}
FakeOnly == {"FAKE"}
=============================================================================
