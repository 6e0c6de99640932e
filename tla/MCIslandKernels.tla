-------------------------- MODULE MCIslandKernels ---------------------------
(* The island kernels on short fills; see the cfg of each run for its bounds. *)
EXTENDS IslandKernels

(* All fills in which any samples of detector 0, but the two left quiet to  *)
(* bound their number, are over the threshold; every sample of every        *)
(* detector has a value of its own.                                         *)
Quiet == {1, 6}
PulsesAnywhere ==
  {[d \in Detector |-> [s \in Sample |-> 10 * d + s + (IF d = 0 /\ s \in pulses THEN 100 ELSE 0)]]
     : pulses \in SUBSET (Sample \ Quiet)}

(* Two pulses, or one, one after the other and not at the ends of the fill. *)
PulsesApart ==
  {[d \in Detector |-> [s \in Sample |-> IF s \in {p, q} THEN 100 ELSE 0]] : p, q \in 4 .. DEV_N_samples - 1}
=============================================================================
