----------------------------- MODULE FillBarrier ----------------------------
(***************************************************************************)
(* What the trigger master promises to the event builder about its         *)
(* synchronous slaves: fills are a barrier.  A fill begins only when all   *)
(* slaves take part and each has made its event of every fill before, so   *)
(* that a slave's events are those of the run's fills, in step with the    *)
(* master's.  When the run closes slaves leave one by one, and a fill can  *)
(* begin without those that have left.                                     *)
(***************************************************************************)
EXTENDS Sequences

CONSTANTS Slaves, Triggers

VARIABLES
  members,          \* the slaves that take part
  closing,          \* the run is being stopped
  fills,            \* the triggers of the run's fills
  events            \* [slave -> the triggers of its events]

vars == <<members, closing, fills, events>>

Init ==
  /\ members = {} /\ closing = FALSE
  /\ fills = <<>> /\ events = [s \in Slaves |-> <<>>]

Join(s) ==
  /\ ~ closing /\ s \notin members /\ fills = <<>>
  /\ members' = members \cup {s}
  /\ UNCHANGED <<closing, fills, events>>

NewFill ==
  /\ members = Slaves \/ closing
  /\ \A s \in members : events[s] = fills
  /\ \E t \in Triggers : fills' = Append(fills, t)
  /\ UNCHANGED <<members, closing, events>>

MakeEvent(s) ==
  /\ s \in members /\ events[s] # fills
  /\ events' = [events EXCEPT ![s] = fills]
  /\ UNCHANGED <<members, closing, fills>>

Close ==
  /\ members = Slaves /\ ~ closing /\ closing' = TRUE
  /\ UNCHANGED <<members, fills, events>>

(* A slave may leave without its event of the last fill that began.         *)
Leave(s) ==
  /\ closing /\ s \in members
  /\ members' = members \ {s} /\ events' = [events EXCEPT ![s] = <<>>]
  /\ UNCHANGED <<closing, fills>>

End ==
  /\ closing /\ members = {}
  /\ fills' = <<>> /\ closing' \in BOOLEAN
  /\ UNCHANGED <<members, events>>

Next == NewFill \/ Close \/ End \/ \E s \in Slaves : Join(s) \/ MakeEvent(s) \/ Leave(s)

Spec == Init /\ [][Next]_vars
=============================================================================
