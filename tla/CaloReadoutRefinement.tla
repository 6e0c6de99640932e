----------------------- MODULE CaloReadoutRefinement -----------------------
(***************************************************************************)
(* The three threads, their ring and their locks implement FillPipeline    *)
(* when triggers and transitions keep to the timing the experiment relies  *)
(* on.  The queue of the abstract pipeline is whatever is in flight, on    *)
(* the wire, in the ring or in the output buffer, in the order of sending. *)
(***************************************************************************)
EXTENDS CaloReadout

SentBefore(f, g) == f.run < g.run \/ (f.run = g.run /\ f.nr < g.nr)

(* The place of a fill in a set of fills, and the set in order of sending.  *)
Rank(f, S) == Cardinality({g \in S : SentBefore(g, f)})
Only(S) == CHOOSE f \in S : TRUE
InOrder(S) == [k \in 1 .. Cardinality(S) |-> Only({f \in S : Rank(f, S) = k - 1})]

Queue == InOrder(InFlight)
Out == [k \in 1 .. Len(delivered) |-> delivered[k].head]

Pipeline == INSTANCE FillPipeline WITH
  Fills <- Fill, running <- run_state = "running", queue <- Queue, out <- Out

(* The readout frontend implements the pipeline: every step of a thread is  *)
(* a Send, a Deliver, a run transition or a stutter, and delivery is live.  *)
ImplementsPipeline == Pipeline!FairSpec
=============================================================================
