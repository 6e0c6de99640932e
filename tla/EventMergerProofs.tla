------------------------- MODULE EventMergerProofs -------------------------
(***************************************************************************)
(* What mevb merges: the queue of a channel, the fragment held of it and   *)
(* those in its buffer, keeps its order while a fragment moves on, grows   *)
(* at its end and is merged at its head, or is discarded as a whole.       *)
(***************************************************************************)
EXTENDS EventBuilderProofs, SequenceTheorems

Queues == [i \in Channel |-> Queue(i)]

(* Every step but a merge and an arrival leaves the queues alone,           *)
Quiet ==
  /\ UNCHANGED Queues /\ UNCHANGED events /\ UNCHANGED preqfrag /\ UNCHANGED run
  /\ \/ transition = "startFe" /\ transition' # "startFe"
     \/ /\ transition' = "startFe" => transition = "startFe"
        /\ \A i \in Channel : feSerial[i] <= feSerial'[i]

(* or leaves none, and then begins a run or keeps the serial numbers.       *)
Boundary ==
  /\ \A i \in Channel : Queue(i)' = <<>>
  /\ UNCHANGED events
  /\ \/ run' = run + 1
     \/ /\ UNCHANGED run /\ UNCHANGED feSerial /\ UNCHANGED transition
        /\ preqfrag' \in {preqfrag, {}}

LEMMA QueueIsTyped ==
  ASSUME Running, NEW i \in Channel
  PROVE  /\ Queue(i) \in Seq(Fragment) /\ \A k \in 1 .. Len(Queue(i)) : Queue(i)[k].run = run
         /\ i \notin Booked => Queue(i) = <<>>
  <1>1. buf[i] \in Seq(Fragment) /\ \A k \in 1 .. Len(buf[i]) : buf[i][k].run = run
    BY DEF Running, TypeOK, OfThisRun
  <1>2. CASE i \in received \cap Booked
    <2>1. Queue(i) = <<pfragment[i]>> \o buf[i] /\ pfragment[i] \in Fragment /\ pfragment[i].run = run
      BY <1>2 DEF Queue, Held, Running, OfThisRun
    <2> QED
      BY <1>1, <1>2, <2>1
  <1>3. CASE i \notin received \cap Booked
    <2>1. Queue(i) = buf[i]
      BY <1>1, <1>3, ConcatEmptySeq DEF Queue, Held
    <2>2. i \notin Booked => buf[i] = <<>>
      BY DEF Running, OfThisRun
    <2> QED
      BY <1>1, <2>1, <2>2
  <1> QED
    BY <1>2, <1>3

LEMMA SameQueues == ASSUME UNCHANGED <<received, pfragment, buf>> PROVE UNCHANGED Queues
  BY DEF Queues, Queue, Held, Booked

(* A fragment that is received goes from the buffer's head to its holder.   *)
LEMMA ReceiveKeepsQueues == ASSUME Running, ReceiveFragment PROVE UNCHANGED Queues
  <1>1. PICK i \in Channel :
          /\ i = fragn /\ i \in Booked /\ i \notin received /\ buf[i] # <<>>
          /\ received' = received \cup {i}
          /\ pfragment' = [pfragment EXCEPT ![i] = Head(buf[i])]
          /\ buf' = [buf EXCEPT ![i] = Tail(@)]
    BY DEF ReceiveFragment, Polls, Running, TypeOK
  <1>2. /\ buf \in [Channel -> Seq(Fragment)]
        /\ pfragment \in [Channel -> Fragment \cup {Null, Unwritten}]
    BY DEF Running, TypeOK
  <1>3. \A j \in Channel : pfragment'[j] = IF j = i THEN Head(buf[i]) ELSE pfragment[j]
    BY <1>1, <1>2
  <1>4. Head(buf[i]) \in Fragment
    BY <1>1, <1>2
  <1>5. Booked' = Booked
    BY <1>1, <1>3, <1>4, Allocated DEF Booked
  <1>6. Queue(i)' = Queue(i)
    <2>1. Queue(i) = buf[i]
      BY <1>1, <1>2, ConcatEmptySeq DEF Queue, Held
    <2>2. Queue(i)' = <<Head(buf[i])>> \o Tail(buf[i])
      BY <1>1, <1>2, <1>3, <1>5 DEF Queue, Held
    <2> QED
      BY <1>1, <1>2, <2>1, <2>2
  <1>7. ASSUME NEW j \in Channel, j # i PROVE Queue(j)' = Queue(j)
    <2>1. Held(j)' = Held(j)
      BY <1>1, <1>3, <1>5, <1>7 DEF Held
    <2>2. buf'[j] = buf[j]
      BY <1>1, <1>2, <1>7
    <2> QED
      BY <2>1, <2>2 DEF Queue
  <1>8. \A j \in Channel : Queue(j)' = Queue(j)
    BY <1>6, <1>7
  <1> QED
    BY <1>8 DEF Queues

LEMMA SendTakesHeads ==
  ASSUME Running, SendEvent
  PROVE  /\ \A i \in Channel \ preqfrag : Queue(i)' = Queue(i)
         /\ \A i \in preqfrag : /\ pfragment[i] \in Fragment /\ pfragment[i].run = run
                               /\ Queue(i) = <<pfragment[i]>> \o buf[i] /\ Queue(i)' = buf[i]
         /\ preqfrag # {} /\ preqfrag \subseteq Channel
         /\ \A i, j \in preqfrag : pfragment[i] = pfragment[j]
         /\ events' = Append(events, [run |-> run, frags |-> [i \in preqfrag |-> pfragment[i]]])
         /\ UNCHANGED preqfrag /\ UNCHANGED run /\ UNCHANGED feSerial /\ UNCHANGED transition
  <1>1. /\ pc = "poll" /\ preqfrag \subseteq received /\ received' = {}
        /\ \A i, j \in preqfrag : pfragment[i].serial = pfragment[j].serial
        /\ events' = Append(events, [run |-> run, frags |-> [i \in preqfrag |-> pfragment[i]]])
        /\ UNCHANGED pfragment /\ UNCHANGED buf
        /\ UNCHANGED preqfrag /\ UNCHANGED run /\ UNCHANGED feSerial /\ UNCHANGED transition
    BY DEF SendEvent, ScanDone, Complete, SerialsMatch, envVars
  <1>2. /\ preqfrag = received /\ preqfrag \subseteq Booked /\ preqfrag # {} /\ preqfrag \subseteq Channel
        /\ \A i \in preqfrag : pfragment[i] \in Fragment /\ pfragment[i].run = run
    BY <1>1 DEF Running, TypeOK, OfThisRun, Scanning
  <1>3. buf \in [Channel -> Seq(Fragment)]
    BY DEF Running, TypeOK
  <1>4. \A i \in Channel \ preqfrag : Queue(i)' = Queue(i)
    BY <1>1, <1>2 DEF Queue, Held
  <1>5. \A i \in preqfrag : Queue(i) = <<pfragment[i]>> \o buf[i] /\ Queue(i)' = buf[i]
    BY <1>1, <1>2, <1>3, ConcatEmptySeq DEF Queue, Held
  <1>6. \A i, j \in preqfrag : pfragment[i] = pfragment[j]
    BY <1>1, <1>2, SMTT(30) DEF Fragment
  <1> QED
    BY <1>1, <1>2, <1>4, <1>5, <1>6

LEMMA SendAppends ==
  ASSUME Running, NEW i \in Channel, FrontendSend(i), i \in Booked
  PROVE  LET f == [run |-> run, serial |-> feSerial[i] + 1]
         IN  /\ f \in Fragment /\ Queue(i)' = Append(Queue(i), f)
             /\ \A j \in Channel \ {i} : Queue(j)' = Queue(j)
             /\ feSerial' = [feSerial EXCEPT ![i] = @ + 1] /\ transition # "startFe"
             /\ UNCHANGED events /\ UNCHANGED preqfrag /\ UNCHANGED run /\ UNCHANGED transition
  <1> DEFINE f == [run |-> run, serial |-> feSerial[i] + 1]
  <1>1. /\ buf' = [buf EXCEPT ![i] = Append(@, f)]
        /\ feSerial' = [feSerial EXCEPT ![i] = @ + 1] /\ transition # "startFe"
        /\ UNCHANGED <<received, pfragment>>
        /\ UNCHANGED events /\ UNCHANGED preqfrag /\ UNCHANGED run /\ UNCHANGED transition
    BY DEF FrontendSend, chVars, histVars, Running, Transitions
  <1>2. f \in Fragment
    <2>1. feSerial[i] + 1 \in 1 .. MaxTriggers
      BY Numbers DEF FrontendSend, Running, TypeOK
    <2>2. run \in 1 .. MaxRuns
      BY Numbers DEF FrontendSend, Running, TypeOK, Transitions
    <2> QED
      BY <2>1, <2>2 DEF Fragment
  <1>3. Held(i)' = Held(i) /\ \A j \in Channel : Held(j)' = Held(j)
    BY <1>1 DEF Held, Booked
  <1>4. buf \in [Channel -> Seq(Fragment)] /\ Held(i) \in Seq(Fragment)
    BY SMTT(30) DEF Running, TypeOK, Held, OfThisRun
  <1>5. \A j \in Channel \ {i} : Queue(j)' = Queue(j)
    BY <1>1, <1>3, <1>4 DEF Queue
  <1>6. Queue(i)' = Append(Queue(i), f)
    <2>1. buf'[i] = Append(buf[i], f)
      BY <1>1, <1>4
    <2> HIDE DEF f
    <2> QED
      BY <1>2, <1>3, <1>4, <2>1, SMTT(30) DEF Queue
  <1> QED
    BY <1>1, <1>2, <1>5, <1>6

LEMMA ClosedIsBoundary ==
  ASSUME \A i \in Channel : buf'[i] = <<>>, received' = {} \/ Booked' = {}, UNCHANGED events,
         run' = run + 1 \/ (UNCHANGED envVars /\ preqfrag' \in {preqfrag, {}})
  PROVE  Boundary
  <1>1. \A i \in Channel : Queue(i)' = <<>>
    BY DEF Queue, Held
  <1> QED
    BY <1>1, Zenon DEF Boundary, envVars

LEMMA StepKinds ==
  ASSUME NoPause, SomeRequired, Running, Next
  PROVE  Quiet \/ Boundary \/ SendEvent \/ \E i \in Channel : FrontendSend(i) /\ i \in Booked
  <1>s. ASSUME run < MaxRuns, NEW req \in RequiredSets, NEW enabled \in EnabledValues,
               StartEffects(req, enabled), UNCHANGED events
        PROVE  Boundary
    <2>1. run' = run + 1 /\ received' = {} /\ \A i \in Channel : buf'[i] = <<>>
      BY <1>s, StartIsTyped DEF Running
    <2> QED
      BY <1>s, <2>1, ClosedIsBoundary
  <1>t. feSerial \in [Channel -> 0 .. MaxTriggers] /\ MaxTriggers \in Nat /\ run \in Nat
    BY Numbers DEF Running, TypeOK
  <1>q. ASSUME UNCHANGED <<received, pfragment, buf, events, preqfrag, run>>,
               transition' = "startFe" => transition = "startFe",
               \A i \in Channel : feSerial[i] <= feSerial'[i]
        PROVE  Quiet
    BY <1>q, SameQueues DEF Quiet
  <1>u. ASSUME UNCHANGED <<received, pfragment, buf, events, preqfrag, run>>,
               transition' = "startFe" => transition = "startFe", UNCHANGED feSerial
        PROVE  Quiet
    <2>1. \A i \in Channel : feSerial[i] <= feSerial'[i]
      BY <1>t, <1>u
    <2> QED
      BY <1>q, <1>u, <2>1
  <1>1. CASE \/ Tick \/ RequestStart \/ RequestStop \/ RequestPause \/ RequestResume
    BY <1>1, <1>u
    DEF Tick, RequestStart, RequestStop, RequestPause, RequestResume, chVars, histVars
  <1>2. CASE FrontendsBegin
    <2>1. UNCHANGED <<received, pfragment, buf, events, preqfrag, run>>
      BY <1>2 DEF FrontendsBegin, chVars, histVars
    <2>2. transition = "startFe" /\ transition' # "startFe"
      BY <1>2 DEF FrontendsBegin, Running, Transitions
    <2> QED
      BY <2>1, <2>2, SameQueues DEF Quiet
  <1>3. CASE TransitionWithoutEb
    <2>1. /\ Booked = {} /\ UNCHANGED <<received, pfragment, buf, events, preqfrag>>
          /\ \A i \in Channel : buf[i] = <<>>
      BY <1>3 DEF TransitionWithoutEb, chVars, histVars, Running, Scanning, OfThisRun
    <2>2. Booked' = {} /\ \A i \in Channel : buf'[i] = <<>>
      BY <2>1 DEF Booked
    <2>3. CASE run' = run + 1
      BY <2>1, <2>2, <2>3, ClosedIsBoundary
    <2>4. CASE UNCHANGED run
      BY <1>3, <1>t, <1>u, <2>1, <2>4 DEF TransitionWithoutEb, Running, Transitions
    <2> QED
      BY <1>3, <2>3, <2>4 DEF TransitionWithoutEb
  <1>4. ASSUME NEW i \in Channel, FrontendSend(i) \/ FrontendLoses(i)
        PROVE  Quiet \/ (FrontendSend(i) /\ i \in Booked)
    <2>1. CASE FrontendSend(i) /\ i \in Booked
      BY <2>1
    <2>2. CASE ~ (FrontendSend(i) /\ i \in Booked)
      <3>1. /\ UNCHANGED <<received, pfragment, buf, events, preqfrag, run, transition>>
            /\ feSerial' = [feSerial EXCEPT ![i] = @ + 1]
        BY <1>4, <2>2 DEF FrontendSend, FrontendLoses, chVars, histVars
      <3>2. \A j \in Channel : feSerial[j] <= feSerial'[j]
        BY <1>t, <3>1
      <3> QED
        BY <1>q, <3>1, <3>2
    <2> QED
      BY <2>1, <2>2
  <1>5. CASE tr_start
    BY <1>5, <1>s DEF tr_start, Running, Transitions, histVars
  <1>6. CASE tr_resume \/ tr_pause
    BY <1>6 DEF tr_resume, tr_pause, Running, Transitions
  <1>7. CASE tr_stop
    BY <1>7, <1>u DEF tr_stop, chVars
  <1>8. CASE \/ Snooze \/ YieldReturns \/ Statistics \/ NoStatistics \/ ReceiveErrorForgotten
             \/ StartScan \/ SkipChannel \/ ReceiveNothing \/ Mismatch \/ SendError
             \/ ScanGotLast \/ ScanBadFragment \/ ScanNoEvent \/ NoTimeout \/ TimingYield
             \/ TimingYieldReturns
    BY <1>8, <1>u
    DEF Snooze, YieldReturns, Statistics, NoStatistics, ReceiveErrorForgotten, StartScan,
        SkipChannel, ReceiveNothing, Mismatch, SendError, ScanGotLast, ScanBadFragment,
        ScanNoEvent, NoTimeout, TimingYield, TimingYieldReturns, envVars, chVars, histVars
  <1>9. CASE ReceiveFragment
    <2>1. UNCHANGED <<events, preqfrag, run, transition, feSerial>>
      BY <1>9 DEF ReceiveFragment, envVars, histVars
    <2>2. \A i \in Channel : feSerial[i] <= feSerial'[i]
      BY <1>t, <2>1
    <2> QED
      BY <1>9, <2>1, <2>2, ReceiveKeepsQueues DEF Quiet
  <1>10. CASE ReceiveError
    <2>1. Booked' = {} /\ \A i \in Channel : buf'[i] = <<>>
      BY <1>10 DEF ReceiveError, Booked
    <2> QED
      BY <1>10, <2>1, ClosedIsBoundary DEF ReceiveError, histVars
  <1>11. CASE CloseRun \/ CloseOnError
    BY <1>11, ClosedIsUnbooked, ClosedIsBoundary DEF CloseRun, CloseOnError, histVars
  <1>12. CASE StopOnError
    BY <1>12, <1>u DEF StopOnError, chVars
  <1>13. CASE Restart
    <2>1. CASE UNCHANGED <<transition, run, buf, chVars, runVars>>
      BY <1>13, <1>u, <2>1 DEF Restart, chVars, histVars
    <2> QED
      BY <1>13, <1>s, <2>1 DEF Restart, histVars
  <1>14. CASE Relaunch
    <2>1. /\ Booked = {} /\ Booked' = {} /\ UNCHANGED buf /\ UNCHANGED events /\ UNCHANGED envVars
          /\ preqfrag' = {}
      BY <1>14 DEF Relaunch, Running, Scanning, Booked
    <2>2. \A i \in Channel : buf'[i] = <<>>
      BY <2>1 DEF Running, OfThisRun
    <2> QED
      BY <2>1, <2>2, ClosedIsBoundary
  <1> QED
    BY <1>1, <1>2, <1>3, <1>4, <1>5, <1>6, <1>7, <1>8, <1>9, <1>10, <1>11, <1>12, <1>13, <1>14
    DEF Next, Environment, Callback, EbStep

-----------------------------------------------------------------------------
(* Serial numbers grow along a channel: in its merged events, in the        *)
(* fragment held, in the buffer, and up to the frontend's last one.         *)
QueuesOrdered ==
  \A i \in Channel :
    /\ Queue(i) # <<>> => transition # "startFe"
    /\ \A k \in 1 .. Len(Queue(i)) :
         /\ Queue(i)[k].serial <= feSerial[i]
         /\ \A j \in 1 .. k - 1 : Queue(i)[j].serial < Queue(i)[k].serial

EventsBefore ==
  \A n \in 1 .. Len(events) :
    /\ events[n].run <= run
    /\ events[n].run = run =>
         /\ transition # "startFe" /\ preqfrag \in {{}, DOMAIN events[n].frags}
         /\ \A i \in DOMAIN events[n].frags :
              /\ events[n].frags[i].serial <= feSerial[i]
              /\ \A k \in 1 .. Len(Queue(i)) : events[n].frags[i].serial < Queue(i)[k].serial

Ordered == QueuesOrdered /\ EventsBefore /\ MergedInOrder /\ MergedWhole

LEMMA SerialIsNumber == \A f \in Fragment : f.serial \in Nat
  BY DEF Fragment

LEMMA RunIsNat == TypeOK => run \in Nat
  BY Numbers DEF TypeOK

LEMMA EventIsTyped ==
  ASSUME TypeOK, NEW n \in 1 .. Len(events)
  PROVE  /\ events[n].run \in Nat /\ DOMAIN events[n].frags \subseteq Channel
         /\ \A i \in DOMAIN events[n].frags : events[n].frags[i].serial \in Nat
  <1>1. events[n] \in [run : 0 .. MaxRuns, frags : UNION {[c -> Fragment] : c \in SUBSET Channel}]
    <2>1. events \in Seq([run : 0 .. MaxRuns, frags : UNION {[c -> Fragment] : c \in SUBSET Channel}])
      BY Zenon DEF TypeOK
    <2> QED
      BY <2>1, ElementOfSeq
  <1>2. events[n].run \in Nat
    BY <1>1, Numbers
  <1>3. PICK c \in SUBSET Channel : events[n].frags \in [c -> Fragment]
    BY <1>1
  <1> QED
    BY <1>2, <1>3, SerialIsNumber

LEMMA QuietOrdered == ASSUME Running, TypeOK', Ordered, Quiet PROVE Ordered'
  <1> USE DEF Ordered
  <1>1. /\ \A i \in Channel : Queue(i)' = Queue(i)
        /\ UNCHANGED events /\ UNCHANGED preqfrag /\ UNCHANGED run
    BY DEF Quiet, Queues
  <1>2. MergedInOrder' /\ MergedWhole'
    BY <1>1 DEF MergedInOrder, MergedWhole
  <1>3. CASE transition = "startFe" /\ transition' # "startFe"
    <2>1. \A i \in Channel : Queue(i)' = <<>>
      BY <1>1, <1>3 DEF QueuesOrdered
    <2>2. QueuesOrdered'
      BY <2>1 DEF QueuesOrdered
    <2>3. EventsBefore'
      BY <1>1, <1>3 DEF EventsBefore
    <2> QED
      BY <1>2, <2>2, <2>3
  <1>4. CASE /\ transition' = "startFe" => transition = "startFe"
             /\ \A i \in Channel : feSerial[i] <= feSerial'[i]
    <2>1. feSerial \in [Channel -> Nat] /\ \A i \in Channel : feSerial'[i] \in Nat
      BY Numbers DEF Running, TypeOK
    <2>2. QueuesOrdered'
      <3>1. SUFFICES ASSUME NEW i \in Channel, NEW k \in 1 .. Len(Queue(i))
                     PROVE  Queue(i)[k].serial <= feSerial'[i]
        BY <1>1, <1>4 DEF QueuesOrdered
      <3>2. Queue(i)[k].serial \in Nat
        BY QueueIsTyped, SerialIsNumber
      <3> QED
        BY <1>4, <2>1, <3>2 DEF QueuesOrdered
    <2>3. EventsBefore'
      <3>1. SUFFICES ASSUME NEW n \in 1 .. Len(events), events[n].run = run,
                            NEW i \in DOMAIN events[n].frags
                     PROVE  i \in Channel /\ events[n].frags[i].serial <= feSerial'[i]
        BY <1>1, <1>4 DEF EventsBefore
      <3>2. i \in Channel /\ events[n].frags[i].serial \in Nat
        BY EventIsTyped DEF Running
      <3> QED
        BY <1>4, <2>1, <3>1, <3>2 DEF EventsBefore
    <2> QED
      BY <1>2, <2>2, <2>3
  <1> QED
    BY <1>3, <1>4 DEF Quiet

LEMMA BoundaryOrdered == ASSUME Running, Ordered, Boundary PROVE Ordered'
  <1> USE DEF Ordered
  <1>1. (\A i \in Channel : Queue(i)' = <<>>) /\ UNCHANGED events
    BY DEF Boundary
  <1>2. QueuesOrdered' /\ MergedInOrder' /\ MergedWhole'
    BY <1>1 DEF QueuesOrdered, MergedInOrder, MergedWhole
  <1>3. EventsBefore'
    <2>1. SUFFICES ASSUME NEW n \in 1 .. Len(events)
                   PROVE  /\ events[n].run <= run'
                          /\ events[n].run = run' =>
                               /\ transition' # "startFe"
                               /\ preqfrag' \in {{}, DOMAIN events[n].frags}
                               /\ \A i \in DOMAIN events[n].frags :
                                    i \in Channel /\ events[n].frags[i].serial <= feSerial'[i]
      BY <1>1 DEF EventsBefore
    <2>2. events[n].run \in Nat /\ DOMAIN events[n].frags \subseteq Channel /\ run \in Nat
      BY EventIsTyped, SMTT(30) DEF Running, TypeOK
    <2>3. CASE run' = run + 1
      BY <2>2, <2>3 DEF EventsBefore
    <2>4. CASE /\ UNCHANGED run /\ UNCHANGED feSerial /\ UNCHANGED transition
               /\ preqfrag' \in {preqfrag, {}}
      BY <2>2, <2>4 DEF EventsBefore
    <2> QED
      BY <2>3, <2>4 DEF Boundary
  <1> QED
    BY <1>2, <1>3

LEMMA ArrivalOrdered ==
  ASSUME Running, Ordered, NEW i \in Channel, FrontendSend(i), i \in Booked PROVE Ordered'
  <1> USE DEF Ordered
  <1> DEFINE f == [run |-> run, serial |-> feSerial[i] + 1]
  <1>1. /\ f \in Fragment /\ Queue(i)' = Append(Queue(i), f)
        /\ \A j \in Channel \ {i} : Queue(j)' = Queue(j)
        /\ feSerial' = [feSerial EXCEPT ![i] = @ + 1] /\ transition # "startFe"
        /\ UNCHANGED events /\ UNCHANGED preqfrag /\ UNCHANGED run /\ UNCHANGED transition
    BY SendAppends
  <1>2. /\ f.serial = feSerial[i] + 1 /\ feSerial'[i] = feSerial[i] + 1 /\ feSerial[i] \in Nat
        /\ \A j \in Channel \ {i} : feSerial'[j] = feSerial[j]
    BY <1>1, Numbers DEF Running, TypeOK
  <1>3. /\ Queue(i) \in Seq(Fragment) /\ Len(Queue(i)') = Len(Queue(i)) + 1
        /\ \A k \in 1 .. Len(Queue(i)) :
             Queue(i)'[k] = Queue(i)[k] /\ Queue(i)[k].serial \in Nat
        /\ Queue(i)'[Len(Queue(i)) + 1] = f
    <2> HIDE DEF f
    <2>1. Queue(i) \in Seq(Fragment)
      BY QueueIsTyped
    <2> QED
      BY <1>1, <2>1, SerialIsNumber
  <1> HIDE DEF f
  <1>4. MergedInOrder' /\ MergedWhole'
    BY <1>1 DEF MergedInOrder, MergedWhole
  <1>5. QueuesOrdered'
    <2>1. ASSUME NEW j \in Channel \ {i}
          PROVE  /\ Queue(j)' # <<>> => transition' # "startFe"
                 /\ \A k \in 1 .. Len(Queue(j)') :
                      /\ Queue(j)'[k].serial <= feSerial'[j]
                      /\ \A l \in 1 .. k - 1 : Queue(j)'[l].serial < Queue(j)'[k].serial
      BY <1>1, <1>2 DEF QueuesOrdered
    <2>2. ASSUME NEW k \in 1 .. Len(Queue(i)')
          PROVE  /\ Queue(i)'[k].serial <= feSerial'[i]
                 /\ \A l \in 1 .. k - 1 : Queue(i)'[l].serial < Queue(i)'[k].serial
      <3>1. \A m \in 1 .. Len(Queue(i)) : Queue(i)[m].serial <= feSerial[i]
        BY DEF QueuesOrdered
      <3>2. CASE k = Len(Queue(i)) + 1
        BY <1>2, <1>3, <3>1, <3>2
      <3>3. CASE k \in 1 .. Len(Queue(i))
        <4>1. Queue(i)'[k].serial <= feSerial'[i]
          BY <1>2, <1>3, <3>1, <3>3
        <4>2. ASSUME NEW l \in 1 .. k - 1 PROVE Queue(i)'[l].serial < Queue(i)'[k].serial
          <5>1. l \in 1 .. Len(Queue(i)) /\ Queue(i)[l].serial < Queue(i)[k].serial
            BY <1>3, <3>3 DEF QueuesOrdered
          <5> QED
            BY <1>3, <3>3, <5>1
        <4> QED
          BY <4>1, <4>2
      <3> QED
        BY <1>3, <3>2, <3>3
    <2> QED
      BY <1>1, <2>1, <2>2 DEF QueuesOrdered
  <1>6. EventsBefore'
    <2>1. SUFFICES ASSUME NEW n \in 1 .. Len(events), events[n].run = run,
                          NEW j \in DOMAIN events[n].frags
                   PROVE  /\ events[n].frags[j].serial <= feSerial'[j]
                          /\ \A k \in 1 .. Len(Queue(j)') :
                               events[n].frags[j].serial < Queue(j)'[k].serial
      BY <1>1 DEF EventsBefore
    <2>2. j \in Channel /\ events[n].frags[j].serial \in Nat
      BY EventIsTyped DEF Running
    <2>3. /\ events[n].frags[j].serial <= feSerial[j]
          /\ \A k \in 1 .. Len(Queue(j)) : events[n].frags[j].serial < Queue(j)[k].serial
      BY <2>1 DEF EventsBefore
    <2>4. CASE j # i
      BY <1>1, <1>2, <2>2, <2>3, <2>4
    <2>5. CASE j = i
      <3>1. events[n].frags[i].serial <= feSerial'[i]
        BY <1>2, <2>2, <2>3, <2>5
      <3>2. ASSUME NEW k \in 1 .. Len(Queue(i)')
            PROVE  events[n].frags[i].serial < Queue(i)'[k].serial
        <4>1. CASE k = Len(Queue(i)) + 1
          BY <1>2, <1>3, <2>2, <2>3, <2>5, <4>1, SMTT(30)
        <4>2. CASE k \in 1 .. Len(Queue(i))
          BY <1>3, <2>3, <2>5, <4>2
        <4> QED
          BY <1>3, <4>1, <4>2
      <3> QED
        BY <2>5, <3>1, <3>2
    <2> QED
      BY <2>4, <2>5
  <1> QED
    BY <1>4, <1>5, <1>6

LEMMA MergeOrdered == ASSUME Running, Ordered, SendEvent PROVE Ordered'
  <1> USE DEF Ordered
  <1> DEFINE N == Len(events)
             e == [run |-> run, frags |-> [i \in preqfrag |-> pfragment[i]]]
  <1>1. /\ \A i \in Channel \ preqfrag : Queue(i)' = Queue(i)
        /\ \A i \in preqfrag : Queue(i) = <<pfragment[i]>> \o buf[i] /\ Queue(i)' = buf[i]
        /\ \A i \in preqfrag : pfragment[i] \in Fragment /\ pfragment[i].run = run
        /\ preqfrag # {} /\ preqfrag \subseteq Channel
        /\ \A i, j \in preqfrag : pfragment[i] = pfragment[j]
        /\ events' = Append(events, e)
        /\ UNCHANGED preqfrag /\ UNCHANGED run /\ UNCHANGED feSerial /\ UNCHANGED transition
    BY SendTakesHeads
  <1>2. /\ e.run = run /\ DOMAIN e.frags = preqfrag
        /\ \A i \in preqfrag : e.frags[i] = pfragment[i]
    OBVIOUS
  <1>3. /\ N \in Nat /\ Len(events') = N + 1 /\ events'[N + 1] = e
        /\ \A n \in 1 .. N : events'[n] = events[n]
    <2> HIDE DEF e
    <2> QED
      BY <1>1 DEF Running, TypeOK
  <1> HIDE DEF N, e
  <1>4. ASSUME NEW i \in preqfrag
        PROVE  /\ Len(Queue(i)) = Len(Queue(i)') + 1 /\ Len(Queue(i)') \in Nat
               /\ Queue(i)[1] = pfragment[i]
               /\ \A k \in 1 .. Len(Queue(i)') : Queue(i)'[k] = Queue(i)[k + 1]
    <2>1. /\ buf[i] \in Seq(Fragment) /\ <<pfragment[i]>> \in Seq(Fragment)
          /\ Len(<<pfragment[i]>>) = 1
      BY <1>1 DEF Running, TypeOK
    <2>2. /\ Len(Queue(i)) = 1 + Len(buf[i])
          /\ \A k \in 1 .. 1 + Len(buf[i]) :
               Queue(i)[k] = IF k <= 1 THEN <<pfragment[i]>>[k] ELSE buf[i][k - 1]
      BY <1>1, <2>1, ConcatProperties
    <2>3. Len(buf[i]) \in Nat /\ <<pfragment[i]>>[1] = pfragment[i]
      BY <2>1
    <2>4. Queue(i)' = buf[i]
      BY <1>1
    <2> QED
      BY <2>2, <2>3, <2>4, SMTT(30)
  <1>5. ASSUME NEW i \in preqfrag, NEW k \in 1 .. Len(Queue(i)')
        PROVE  /\ Queue(i)'[k] = Queue(i)[k + 1] /\ k + 1 \in 1 .. Len(Queue(i))
               /\ pfragment[i].serial < Queue(i)'[k].serial
    <2>1. /\ Queue(i)'[k] = Queue(i)[k + 1] /\ k + 1 \in 1 .. Len(Queue(i))
          /\ Queue(i)[1] = pfragment[i] /\ 1 \in 1 .. (k + 1) - 1
      BY <1>4
    <2> QED
      BY <1>1, <2>1 DEF QueuesOrdered
  <1>6. MergedWhole'
    BY <1>1, <1>2, <1>3 DEF MergedWhole
  <1>7. ASSUME NEW n \in 1 .. N
        PROVE  /\ events[n].run <= run
               /\ events[n].run = run =>
                    /\ transition # "startFe" /\ DOMAIN events[n].frags = preqfrag
                    /\ \A i \in preqfrag : /\ events[n].frags[i].serial <= feSerial[i]
                                          /\ events[n].frags[i].serial < pfragment[i].serial
    BY <1>1, <1>4, SMTT(30) DEF EventsBefore, N
  <1>8. MergedInOrder'
    <2>1. SUFFICES ASSUME NEW j \in 1 .. N + 1, NEW k \in 1 .. N + 1, j < k,
                          NEW i \in DOMAIN events'[j].frags, NEW l \in DOMAIN events'[k].frags
                   PROVE  \/ events'[j].run < events'[k].run
                          \/ /\ events'[j].run = events'[k].run
                             /\ events'[j].frags[i].serial < events'[k].frags[l].serial
      BY <1>3 DEF MergedInOrder
    <2>2. CASE k \in 1 .. N
      BY <1>3, <2>1, <2>2 DEF MergedInOrder, N
    <2>3. CASE k = N + 1
      <3>1. /\ j \in 1 .. N /\ events'[j] = events[j] /\ events'[k] = e
            /\ i \in DOMAIN events[j].frags /\ l \in preqfrag
        BY <1>2, <1>3, <2>1, <2>3
      <3>2. CASE events[j].run = run
        <4>1. i \in preqfrag /\ events[j].frags[i].serial < pfragment[i].serial
          BY <1>7, <3>1, <3>2
        <4> QED
          BY <1>1, <1>2, <3>1, <3>2, <4>1
      <3>3. CASE events[j].run # run
        <4>1. events[j].run \in Nat
          BY <3>1, EventIsTyped DEF Running, N
        <4>2. run \in Nat
          BY RunIsNat DEF Running
        <4> QED
          BY <1>2, <1>7, <3>1, <3>3, <4>1, <4>2
      <3> QED
        BY <3>2, <3>3
    <2> QED
      BY <1>3, <2>1, <2>2, <2>3
  <1>9. QueuesOrdered'
    <2>1. SUFFICES ASSUME NEW i \in Channel, NEW k \in 1 .. Len(Queue(i)')
                   PROVE  /\ Queue(i)'[k].serial <= feSerial[i] /\ transition # "startFe"
                          /\ \A j \in 1 .. k - 1 : Queue(i)'[j].serial < Queue(i)'[k].serial
      BY <1>1 DEF QueuesOrdered
    <2>2. CASE i \notin preqfrag
      BY <1>1, <2>2 DEF QueuesOrdered
    <2>3. CASE i \in preqfrag
      <3>1. Queue(i)'[k] = Queue(i)[k + 1] /\ k + 1 \in 1 .. Len(Queue(i))
        BY <1>5, <2>3
      <3>2. Queue(i)'[k].serial <= feSerial[i] /\ transition # "startFe"
        BY <3>1 DEF QueuesOrdered
      <3>3. ASSUME NEW j \in 1 .. k - 1 PROVE Queue(i)'[j].serial < Queue(i)'[k].serial
        <4>1. Queue(i)'[j] = Queue(i)[j + 1] /\ j + 1 \in 1 .. (k + 1) - 1
          <5>1. j \in 1 .. Len(Queue(i)') /\ j \in Nat /\ k \in Nat /\ j <= k - 1
            BY <1>4, <2>3
          <5> QED
            BY <1>4, <2>3, <5>1
        <4> QED
          BY <3>1, <4>1 DEF QueuesOrdered
      <3> QED
        BY <3>2, <3>3
    <2> QED
      BY <2>2, <2>3
  <1>10. EventsBefore'
    <2>1. ASSUME NEW n \in 1 .. N
          PROVE  /\ events[n].run <= run
                 /\ events[n].run = run =>
                      /\ transition # "startFe" /\ preqfrag \in {{}, DOMAIN events[n].frags}
                      /\ \A i \in DOMAIN events[n].frags :
                           /\ events[n].frags[i].serial <= feSerial[i]
                           /\ \A k \in 1 .. Len(Queue(i)') :
                                events[n].frags[i].serial < Queue(i)'[k].serial
      <3>1. SUFFICES ASSUME events[n].run = run, NEW i \in preqfrag, NEW k \in 1 .. Len(Queue(i)')
                     PROVE  events[n].frags[i].serial < Queue(i)'[k].serial
        BY <1>7
      <3>2. i \in DOMAIN events[n].frags /\ n \in 1 .. Len(events)
        BY <1>7, <3>1 DEF N
      <3> QED
        BY <1>5, <3>1, <3>2 DEF EventsBefore
    <2>2. /\ e.run <= run /\ transition # "startFe"
          /\ \A i \in preqfrag : /\ e.frags[i].serial <= feSerial[i]
                                /\ \A k \in 1 .. Len(Queue(i)') :
                                     e.frags[i].serial < Queue(i)'[k].serial
      <3>1. ASSUME NEW i \in preqfrag
            PROVE  pfragment[i].serial <= feSerial[i] /\ transition # "startFe"
        <4>1. Queue(i)[1] = pfragment[i] /\ 1 \in 1 .. Len(Queue(i))
          BY <1>4
        <4> QED
          BY <1>1, <4>1 DEF QueuesOrdered
      <3>2. e.run <= run
        BY <1>2 DEF Running, TypeOK
      <3> QED
        BY <1>1, <1>2, <1>5, <3>1, <3>2
    <2>3. \A n \in 1 .. N + 1 : n \in 1 .. N \/ n = N + 1
      BY <1>3
    <2> QED
      BY <1>1, <1>2, <1>3, <2>1, <2>2, <2>3 DEF EventsBefore
  <1> QED
    BY <1>6, <1>8, <1>9, <1>10

LEMMA AlwaysOrdered == ASSUME NoPause, SomeRequired PROVE Spec => [](Running /\ Ordered)
  <1>1. Init => Ordered
    <2> SUFFICES ASSUME Init PROVE Ordered
      OBVIOUS
    <2>1. events = <<>> /\ \A i \in Channel : Queue(i) = <<>>
      BY DEF Init, Queue, Held
    <2> QED
      BY <2>1 DEF Ordered, QueuesOrdered, EventsBefore, MergedInOrder, MergedWhole
  <1>2. Running /\ Ordered /\ [Next]_vars => Running' /\ Ordered'
    <2> SUFFICES ASSUME Running, Ordered, [Next]_vars PROVE Running' /\ Ordered'
      OBVIOUS
    <2>1. Running'
      BY NextTypeOK, NextTransitions, NextScanning, NextOfThisRun DEF Running
    <2>2. CASE UNCHANGED vars
      <3>1. UNCHANGED Queues
        BY <2>2, SameQueues DEF vars, chVars
      <3>2. \A i \in Channel : feSerial[i] <= feSerial'[i]
        BY <2>2, Numbers DEF vars, envVars, Running, TypeOK
      <3>3. Quiet
        BY <2>2, <3>1, <3>2 DEF Quiet, vars, envVars, chVars, histVars
      <3> QED
        BY <2>1, <3>3, QuietOrdered DEF Running
    <2> QED
      BY <2>1, <2>2, StepKinds, QuietOrdered, BoundaryOrdered, ArrivalOrdered, MergeOrdered
      DEF Running
  <1> QED
    BY <1>1, <1>2, InitRunning, PTL DEF Spec

(* A merged event has one fragment of every required channel, all of them   *)
(* with the serial number and the run of one trigger: eb_user compares the  *)
(* serial numbers, and nothing held or queued outlives its run.             *)
THEOREM EventsAreWhole == ASSUME NoPause, SomeRequired PROVE Spec => []MergedWhole
  <1>1. Running /\ Ordered => MergedWhole
    BY DEF Ordered
  <1> QED
    BY <1>1, AlwaysOrdered, PTL

(* The merged events are written in the order of the runs and of the        *)
(* triggers of each run, and no trigger twice.                              *)
THEOREM EventsInOrder == ASSUME NoPause, SomeRequired PROVE Spec => []MergedInOrder
  <1>1. Running /\ Ordered => MergedInOrder
    BY DEF Ordered
  <1> QED
    BY <1>1, AlwaysOrdered, PTL
-----------------------------------------------------------------------------
(* The steps of mevb are steps of EventMerger.                              *)
Merged(s) == [k \in 1 .. Len(s) |-> s[k].frags]
Mapped == <<preqfrag, Queues, Merged(events)>>

LEMMA MergedAppends ==
  ASSUME NEW S, NEW s \in Seq(S), NEW r, NEW f
  PROVE  Merged(Append(s, [run |-> r, frags |-> f])) = Append(Merged(s), f)
  <1> DEFINE e == [run |-> r, frags |-> f]
  <1>1. /\ Len(s) \in Nat /\ Len(Append(s, e)) = Len(s) + 1 /\ Append(s, e)[Len(s) + 1] = e
        /\ \A k \in 1 .. Len(s) : Append(s, e)[k] = s[k]
    <2> HIDE DEF e
    <2> QED
      OBVIOUS
  <1>2. Merged(s) \in Seq({s[k].frags : k \in 1 .. Len(s)}) /\ Len(Merged(s)) = Len(s)
    BY <1>1 DEF Merged
  <1>3. Append(Merged(s), f) = [k \in 1 .. Len(s) + 1 |-> IF k = Len(s) + 1 THEN f ELSE s[k].frags]
    BY <1>1, <1>2 DEF Merged
  <1>4. e.frags = f
    OBVIOUS
  <1> HIDE DEF e
  <1>5. Merged(Append(s, e)) = [k \in 1 .. Len(s) + 1 |-> IF k = Len(s) + 1 THEN f ELSE s[k].frags]
    BY <1>1, <1>4 DEF Merged
  <1> QED
    BY <1>3, <1>5 DEF e

LEMMA MapsInit == Init => Merger!Init
  BY DEF Init, Merger!Init, Merger!NoFragments, Queue, Held

LEMMA MapsStep ==
  ASSUME NoPause, SomeRequired, Running, Running', [Next]_vars
  PROVE  UNCHANGED Mapped \/ Merger!Next
  <1>1. CASE UNCHANGED vars
    BY <1>1, SameQueues DEF vars, chVars, histVars, Mapped
  <1>2. CASE Quiet
    BY <1>2 DEF Quiet, Mapped
  <1>3. CASE Boundary
    <2>1. preqfrag' \in SUBSET Channel
      BY DEF Running, TypeOK
    <2>2. Merger!RunBoundary
      BY <1>3, <2>1 DEF Boundary, Merger!RunBoundary, Merger!NoFragments
    <2> QED
      BY <2>2 DEF Merger!Next
  <1>4. ASSUME NEW i \in Channel, FrontendSend(i), i \in Booked PROVE Merger!Next
    <2>1. PICK f \in Fragment :
            /\ Queue(i)' = Append(Queue(i), f) /\ \A j \in Channel \ {i} : Queue(j)' = Queue(j)
            /\ UNCHANGED events /\ UNCHANGED preqfrag
      BY <1>4, SendAppends
    <2>2. Queues' = [Queues EXCEPT ![i] = Append(@, f)]
      BY <2>1 DEF Queues
    <2> QED
      BY <2>1, <2>2 DEF Merger!Next, Merger!Arrive, Queues
  <1>5. CASE SendEvent
    <2>1. /\ \A i \in Channel \ preqfrag : Queue(i)' = Queue(i)
          /\ preqfrag # {} /\ preqfrag \subseteq Channel /\ UNCHANGED preqfrag
          /\ events' = Append(events, [run |-> run, frags |-> [i \in preqfrag |-> pfragment[i]]])
      BY <1>5, SendTakesHeads, Zenon
    <2>2. PICK f \in Fragment : \A i \in preqfrag : pfragment[i] = f
      <3>1. PICK j \in preqfrag : TRUE
        BY <2>1, Zenon
      <3>2. pfragment[j] \in Fragment /\ \A i \in preqfrag : pfragment[i] = pfragment[j]
        BY <1>5, SendTakesHeads, Zenon
      <3> QED
        BY <3>2, Zenon
    <2>3. ASSUME NEW i \in preqfrag
          PROVE  Queue(i) # <<>> /\ Head(Queue(i)) = f /\ Queue(i)' = Tail(Queue(i))
      <3>1. buf[i] \in Seq(Fragment) /\ <<f>> \in Seq(Fragment)
        BY <2>1 DEF Running, TypeOK
      <3>2. Queue(i) = <<pfragment[i]>> \o buf[i] /\ Queue(i)' = buf[i]
        BY <1>5, SendTakesHeads
      <3>3. Queue(i) = <<f>> \o buf[i]
        BY <2>2, <3>2
      <3> QED
        BY <3>1, <3>2, <3>3, SMTT(30)
    <2>4. Queues' = [i \in Channel |-> IF i \in preqfrag THEN Tail(Queues[i]) ELSE Queues[i]]
      BY <2>1, <2>3 DEF Queues
    <2>5. Merged(events') = Append(Merged(events), [i \in preqfrag |-> f])
      <3>1. [i \in preqfrag |-> pfragment[i]] = [i \in preqfrag |-> f]
        BY <2>2
      <3> QED
        <4> DEFINE E == [run : 0 .. MaxRuns, frags : UNION {[c -> Fragment] : c \in SUBSET Channel}]
                   s == events
        <4>1. s \in Seq(E)
          BY Zenon DEF Running, TypeOK
        <4>2. events' = Append(s, [run |-> run, frags |-> [i \in preqfrag |-> f]])
          BY <2>1, <3>1, Zenon
        <4> HIDE DEF E, s
        <4>3. Merged(Append(s, [run |-> run, frags |-> [i \in preqfrag |-> f]]))
                = Append(Merged(s), [i \in preqfrag |-> f])
          BY <4>1, MergedAppends, Zenon
        <4> QED
          BY <4>2, <4>3, Zenon DEF s
    <2>6. \A i \in preqfrag : Queues[i] # <<>> /\ Head(Queues[i]) = f
      BY <2>1, <2>3 DEF Queues
    <2> QED
      BY <2>1, <2>4, <2>5, <2>6 DEF Merger!Next, Merger!Merge, Queues, Merged
  <1> QED
    BY <1>1, <1>2, <1>3, <1>4, <1>5, StepKinds

(* mevb implements EventMerger: whatever it polls, drops, closes, restarts  *)
(* or is called back for, a fragment leaves its queue only in an event with *)
(* the heads of the other channels, or with all queues at a run boundary.   *)
THEOREM BuilderIsMerger == ASSUME NoPause, SomeRequired PROVE Spec => ImplementsMerger
  <1>1. Running /\ Running' /\ [Next]_vars => [Merger!Next]_(Merger!vars)
    BY MapsStep DEF Mapped, Merged, Queues, Merger!vars
  <1> QED
    BY <1>1, MapsInit, AlwaysRunning, PTL DEF Spec, ImplementsMerger, Merger!Spec
=============================================================================
