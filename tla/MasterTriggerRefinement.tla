---------------------- MODULE MasterTriggerRefinement ----------------------
(***************************************************************************)
(* The master and its synchronous slaves implement FillBarrier.  A fill    *)
(* begins when the trigger thread accepts its trigger, before the master's *)
(* own event is made.  Runs with the parallel port, whose triggers reach   *)
(* the thread past the barrier, have no fills in this mapping, and the     *)
(* others have them until rpc_g2_ready and send_eof overlap in the run.    *)
(***************************************************************************)
EXTENDS MasterTrigger

HasBarrier == trigger_source # "PP" /\ ~ overlapped
Begun == IF pcTrig = "eof" THEN Append(masterEvents, trigger_nr) ELSE masterEvents

Members == Sync \cap inRun
Closing == transition = "stop"
Fills == IF Master \in inRun /\ HasBarrier THEN Begun ELSE <<>>
Events == [s \in Sync |-> IF s \in inRun /\ HasBarrier THEN slaveEvents[s] ELSE <<>>]

Barrier == INSTANCE FillBarrier WITH
  Slaves <- Sync, Triggers <- 1 .. MaxTriggers,
  members <- Members, closing <- Closing, fills <- Fills, events <- Events

(* READYs, EOFs, the two threads and the server only add stutters: every    *)
(* fill waits for the events of the fill before, whatever the order of      *)
(* messages, and a simulator that is stopped lacks at most the last event.  *)
(* The step in which the two threads overlap breaks the barrier of its run, *)
(* and of no other.                                                         *)
ImplementsBarrier ==
  Barrier!Init /\ [][~ overlapped' => [Barrier!Next]_(Barrier!vars)]_vars
=============================================================================
