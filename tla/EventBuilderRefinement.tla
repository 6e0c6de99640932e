----------------------- MODULE EventBuilderRefinement ----------------------
(***************************************************************************)
(* mevb implements EventMerger.  A channel's queue is the fragment mevb    *)
(* holds of it, if any, followed by what waits in its MIDAS buffer.        *)
(***************************************************************************)
EXTENDS EventBuilder

Held(i) == IF i \in received \cap Booked THEN <<pfragment[i]>> ELSE <<>>
Queue(i) == Held(i) \o buf[i]

Merger == INSTANCE EventMerger WITH
  Channels <- Channel,
  Fragments <- Fragment,
  members <- preqfrag,
  queue <- [i \in Channel |-> Queue(i)],
  out <- [k \in 1 .. Len(events) |-> events[k].frags]

(* Polling, errors, restarts and transitions are steps of the merger or     *)
(* stutters: nothing is lost but whole queues at run boundaries.            *)
ImplementsMerger == Merger!Spec
=============================================================================
