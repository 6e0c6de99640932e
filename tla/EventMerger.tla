---------------------------- MODULE EventMerger ----------------------------
(***************************************************************************)
(* What the event builder promises to the logger: one queue of fragments   *)
(* per channel, merged head by head.  Only a run boundary changes the      *)
(* members of an event, and it discards every queue as a whole, so that no *)
(* fragment is ever dropped or skipped between two merged events.          *)
(***************************************************************************)
EXTENDS Sequences

CONSTANTS Channels, Fragments

VARIABLES
  members,          \* the channels an event is made of
  queue,            \* [channel -> fragments that have arrived, oldest first]
  out               \* merged events

vars == <<members, queue, out>>

NoFragments == [c \in Channels |-> <<>>]

Init == members = {} /\ queue = NoFragments /\ out = <<>>

Arrive ==
  /\ \E c \in Channels, f \in Fragments : queue' = [queue EXCEPT ![c] = Append(@, f)]
  /\ UNCHANGED <<members, out>>

Merge ==
  /\ \E f \in Fragments :
       /\ \A c \in members : queue[c] # <<>> /\ Head(queue[c]) = f
       /\ out' = Append(out, [c \in members |-> f])
  /\ queue' = [c \in Channels |-> IF c \in members THEN Tail(queue[c]) ELSE queue[c]]
  /\ members # {} /\ UNCHANGED members

RunBoundary ==
  /\ queue' = NoFragments
  /\ members' \in SUBSET Channels
  /\ UNCHANGED out

Next == Arrive \/ Merge \/ RunBoundary

Spec == Init /\ [][Next]_vars
=============================================================================
