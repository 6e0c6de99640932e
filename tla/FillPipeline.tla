---------------------------- MODULE FillPipeline ---------------------------
(***************************************************************************)
(* What the readout frontend promises to the run: a queue.  Fills enter    *)
(* while a run is on, each leaves once, in the order they entered, none is *)
(* lost, and a run neither starts nor stops with fills in the queue.       *)
(***************************************************************************)
EXTENDS Sequences

CONSTANT Fills      \* the fills that can be sent

VARIABLES
  running,          \* a run is on
  queue,            \* fills sent and not yet delivered
  out               \* fills delivered, in order

vars == <<running, queue, out>>

Init == running = FALSE /\ queue = <<>> /\ out = <<>>

Send ==
  /\ running
  /\ \E f \in Fills : queue' = Append(queue, f)
  /\ UNCHANGED <<running, out>>

Deliver ==
  /\ running /\ queue # <<>>
  /\ out' = Append(out, Head(queue))
  /\ queue' = Tail(queue)
  /\ UNCHANGED running

StartStop ==
  /\ queue = <<>>
  /\ running' = ~ running
  /\ UNCHANGED <<queue, out>>

Next == Send \/ Deliver \/ StartStop

Spec == Init /\ [][Next]_vars

(* A queued fill is delivered: the readout does not stop by itself.         *)
FairSpec == Spec /\ WF_vars(Deliver)
=============================================================================
