------------------------- MODULE EventBuilderProofs ------------------------
(***************************************************************************)
(* Theorems about EventBuilder, for any number of channels, runs, triggers *)
(* and ODB settings.  Two hypotheses, where they are named: runs are not   *)
(* paused (the frontends do not implement it), and every value of          *)
(* "Fragment Required" has at least one channel.                           *)
(***************************************************************************)
EXTENDS EventBuilderRefinement, TLAPS

NoPause == ~ PauseAllowed
SomeRequired == {} \notin RequiredSets

(* The transitions in progress, and what they leave of a run.               *)
Transitions ==
  /\ odb # "paused" /\ transition \notin {"pauseEb", "resumeEb", "resumeFe"}
  /\ run_state # "paused"
  /\ transition = "startEb" => run < MaxRuns
  /\ transition \in {"startEb", "startFe"} => odb = "stopped"
  /\ odb = "stopped" \/ transition = "stopEb" => ~ feRunning
  /\ odb # "stopped" \/ transition \in {"startFe", "stopEb"} => run > 0

(* Where mevb is: it scans only in a run, and a closed run has no buffers.  *)
Scanning ==
  /\ pc \in {"poll", "timeouts", "timingYield", "error", "userError"} => run_state = "running"
  /\ pc \in {"stopError", "stopUserError", "restart"} => run_state = "stopped"
  /\ pc \in {"stopError", "stopUserError", "restart", "exit"} => Booked = {}
  /\ pc = "timingYield" => fragn <= nfragment

(* What waits in an open buffer, and what is held, is of the current run.   *)
OfThisRun ==
  /\ \A i \in Channel : i \notin Booked => buf[i] = <<>>
  /\ \A i \in Channel : \A k \in 1 .. Len(buf[i]) : buf[i][k].run = run
  /\ received \subseteq preqfrag
  /\ \A i \in received \cap Booked : pfragment[i] \in Fragment /\ pfragment[i].run = run
  /\ run_state = "running" /\ pc # "exit" => preqfrag \subseteq Booked /\ preqfrag # {}

Running == TypeOK /\ Transitions /\ Scanning /\ OfThisRun

-----------------------------------------------------------------------------
LEMMA Numbers ==
  /\ nfragment \in Nat \ {0} /\ TIMEOUT \in Nat /\ TIMEOUT_ABORT \in Nat
  /\ MaxClock \in Nat \ {0} /\ MaxRuns \in Nat /\ MaxTriggers \in Nat /\ MaxLost \in Nat
  /\ RequiredSets \subseteq SUBSET Channel /\ EnabledValues \subseteq BOOLEAN
  BY EventBuilderAssumption

LEMMA Allocated ==
  Unwritten # Null /\ Null \notin Fragment /\ \A f \in Fragment : f.run \in 1 .. MaxRuns /\ f # Null
  <1>1. Unwritten.serial = 1 /\ Null.serial = 0 /\ Null.run = 0
    BY DEF Unwritten, Null
  <1>2. \A f \in Fragment : f.run \in 1 .. MaxRuns
    BY DEF Fragment
  <1> QED
    BY <1>1, <1>2

(* A start without a channel changes no buffer, any other one empties all.  *)
LEMMA StartIsTyped ==
  ASSUME TypeOK, SomeRequired, run < MaxRuns,
         NEW req \in RequiredSets, NEW enabled \in EnabledValues, StartEffects(req, enabled)
  PROVE  /\ req # {} /\ req \subseteq Channel
         /\ preqfrag' = req /\ received' = {} /\ UNCHANGED waiting_for_stop
         /\ run' = run + 1 /\ run' \in 1 .. MaxRuns
         /\ buf' = [i \in Channel |-> <<>>] /\ buf' \in [Channel -> Seq(Fragment)]
         /\ pfragment' = [i \in Channel |-> IF i \in req THEN Unwritten ELSE pfragment[i]]
         /\ pfragment' \in [Channel -> Fragment \cup {Null, Unwritten}]
         /\ timeout' \in [Channel -> 0 .. TIMEOUT + 1] /\ time' \in [Channel -> 0 .. MaxClock]
         /\ run_state' \in {"running", run_state} /\ stop_requested' \in BOOLEAN
         /\ run_state' # run_state => ~ stop_requested'
         /\ stop_requested' => stop_requested
  <1>1. req # {} /\ req \subseteq Channel
    BY Numbers DEF SomeRequired
  <1>2. preqfrag' = req /\ received' = {} /\ UNCHANGED waiting_for_stop
    BY DEF StartEffects
  <1>3. /\ pfragment' = [i \in Channel |-> IF i \in req THEN Unwritten ELSE pfragment[i]]
        /\ buf' = [i \in Channel |-> <<>>]
        /\ run' = run + 1
    BY <1>1 DEF StartEffects
  <1>4. \/ /\ run_state' = "running" /\ stop_requested' = FALSE
           /\ timeout' = [i \in Channel |-> 0]
           /\ time' = [i \in Channel |-> clock]
        \/ /\ UNCHANGED run_state /\ UNCHANGED stop_requested
           /\ UNCHANGED timeout /\ UNCHANGED time
    BY <1>1, Zenon DEF StartEffects
  <1>5. run' \in 1 .. MaxRuns
    BY <1>3, Numbers DEF TypeOK
  <1>6. pfragment' \in [Channel -> Fragment \cup {Null, Unwritten}]
    BY <1>3 DEF TypeOK
  <1>7. timeout' \in [Channel -> 0 .. TIMEOUT + 1] /\ time' \in [Channel -> 0 .. MaxClock]
    <2>1. \/ timeout' = [i \in Channel |-> 0] /\ time' = [i \in Channel |-> clock]
          \/ timeout' = timeout /\ time' = time
      BY <1>4, Zenon
    <2>2. clock \in 0 .. MaxClock /\ 0 \in 0 .. TIMEOUT + 1
      BY Numbers DEF TypeOK
    <2>3. timeout \in [Channel -> 0 .. TIMEOUT + 1] /\ time \in [Channel -> 0 .. MaxClock]
      BY DEF TypeOK
    <2> QED
      BY <2>1, <2>2, <2>3
  <1>8. /\ run_state' \in {"running", run_state} /\ stop_requested' \in BOOLEAN
        /\ run_state' # run_state => ~ stop_requested'
        /\ stop_requested' => stop_requested
    <2>1. stop_requested \in BOOLEAN
      BY DEF TypeOK
    <2>2. run_state' \in {"running", run_state}
      BY <1>4, Zenon
    <2>3. stop_requested' = FALSE \/ (stop_requested' = stop_requested /\ run_state' = run_state)
      BY <1>4, Zenon
    <2>4. stop_requested' \in BOOLEAN
      BY <2>1, <2>3, Zenon
    <2>5. run_state' # run_state => ~ stop_requested'
      BY <1>4, Zenon
    <2>6. stop_requested' => stop_requested
      BY <2>3, Zenon
    <2> QED
      BY <2>2, <2>4, <2>5, <2>6, Zenon
  <1>9. buf' \in [Channel -> Seq(Fragment)]
    BY <1>3
  <1> QED
    BY <1>1, <1>2, <1>3, <1>5, <1>6, <1>7, <1>8, <1>9

LEMMA InitRunning == Init => Running
  <1> SUFFICES ASSUME Init PROVE Running
    OBVIOUS
  <1>1. /\ feRunning \in BOOLEAN /\ stop_requested \in BOOLEAN /\ waiting_for_stop \in BOOLEAN
        /\ staleStop \in BOOLEAN
    BY Zenon DEF Init
  <1>2. buf \in [Channel -> Seq(Fragment)] /\ events = <<>>
    BY DEF Init
  <1>3. TypeOK
    BY <1>1, <1>2, Numbers DEF Init, TypeOK
  <1>4. Transitions /\ Scanning /\ OfThisRun
    BY SMTT(30) DEF Init, Transitions, Scanning, OfThisRun, Booked
  <1> QED
    BY <1>3, <1>4 DEF Running

LEMMA NextTypeOK == NoPause /\ SomeRequired /\ Running /\ [Next]_vars => TypeOK'
  <1> SUFFICES ASSUME NoPause, SomeRequired, Running, [Next]_vars PROVE TypeOK'
    OBVIOUS
  <1>s. ASSUME run < MaxRuns,
               NEW req \in RequiredSets, NEW enabled \in EnabledValues, StartEffects(req, enabled)
        PROVE  /\ preqfrag' \subseteq Channel /\ received' = {} /\ run' \in 0 .. MaxRuns
               /\ UNCHANGED waiting_for_stop /\ stop_requested' \in BOOLEAN
               /\ buf' \in [Channel -> Seq(Fragment)]
               /\ pfragment' \in [Channel -> Fragment \cup {Null, Unwritten}]
               /\ timeout' \in [Channel -> 0 .. TIMEOUT + 1]
               /\ time' \in [Channel -> 0 .. MaxClock] /\ run_state' \in {"running", run_state}
    BY <1>s, StartIsTyped DEF Running
  <1> USE Numbers DEF Running, TypeOK, envVars, chVars, runVars, histVars
  <1>1. CASE Tick
    BY <1>1 DEF Tick
  <1>2. ASSUME NEW i \in Channel, FrontendSend(i) PROVE TypeOK'
    <2>1. run \in 1 .. MaxRuns
      BY <1>2 DEF FrontendSend, Transitions
    <2>2. feSerial[i] + 1 \in 1 .. MaxTriggers
      BY <1>2, SMTT(30) DEF FrontendSend
    <2>3. [run |-> run, serial |-> feSerial[i] + 1] \in Fragment
      BY <2>1, <2>2 DEF Fragment
    <2>4. buf' \in [Channel -> Seq(Fragment)]
      BY <1>2, <2>3 DEF FrontendSend
    <2>5. feSerial' \in [Channel -> 0 .. MaxTriggers]
      BY <1>2, <2>2, SMTT(30) DEF FrontendSend
    <2> QED
      BY <1>2, <2>4, <2>5, SMTT(30) DEF FrontendSend
  <1>3. ASSUME NEW i \in Channel, FrontendLoses(i) PROVE TypeOK'
    BY <1>3, SMTT(30) DEF FrontendLoses
  <1>4. CASE RequestStart
    BY <1>4 DEF RequestStart
  <1>5. CASE FrontendsBegin
    <2>1. feRunning' \in BOOLEAN
      BY <1>5, Zenon DEF FrontendsBegin
    <2> QED
      BY <1>5, <2>1, SMTT(30) DEF FrontendsBegin
  <1>6. CASE RequestStop
    <2>1. feRunning' \in BOOLEAN
      BY <1>6, Zenon DEF RequestStop
    <2> QED
      BY <1>6, <2>1 DEF RequestStop
  <1>7. CASE RequestPause \/ RequestResume
    BY <1>7 DEF RequestPause, RequestResume, NoPause, Transitions
  <1>8. CASE TransitionWithoutEb
    BY <1>8 DEF TransitionWithoutEb, Transitions
  <1>9. CASE tr_start
    <2>1. PICK req \in RequiredSets, enabled \in EnabledValues :
            StartEffects(req, enabled) /\ transition' = IF req = {} THEN "none" ELSE "startFe"
      BY <1>9 DEF tr_start
    <2>2. run < MaxRuns
      BY <1>9 DEF tr_start, Transitions
    <2>3. transition' \in {"none", "startFe"}
      BY <2>1, Zenon
    <2>4. /\ preqfrag' \subseteq Channel /\ received' = {} /\ run' \in 0 .. MaxRuns
          /\ UNCHANGED waiting_for_stop /\ stop_requested' \in BOOLEAN
          /\ buf' \in [Channel -> Seq(Fragment)]
          /\ pfragment' \in [Channel -> Fragment \cup {Null, Unwritten}]
          /\ timeout' \in [Channel -> 0 .. TIMEOUT + 1]
          /\ time' \in [Channel -> 0 .. MaxClock] /\ run_state' \in {"running", run_state}
      BY <2>1, <2>2, <1>s, Zenon
    <2>5. UNCHANGED <<clock, odb, feRunning, feSerial, lost, pc, fragn, status>>
      BY <1>9 DEF tr_start
    <2>6. UNCHANGED <<events, staleStop, spawned>>
      BY <1>9 DEF tr_start
    <2> QED
      BY <2>3, <2>4, <2>5, <2>6
  <1>10. CASE tr_resume \/ tr_pause
    BY <1>10 DEF tr_resume, tr_pause, Transitions
  <1>11. CASE tr_stop
    <2>1. stop_requested' \in BOOLEAN /\ waiting_for_stop' \in BOOLEAN /\ staleStop' \in BOOLEAN
      BY <1>11, Zenon DEF tr_stop
    <2> QED
      BY <1>11, <2>1 DEF tr_stop
  <1>12. CASE Snooze \/ YieldReturns \/ Statistics \/ NoStatistics \/ ReceiveErrorForgotten
    BY <1>12 DEF Snooze, YieldReturns, Statistics, NoStatistics, ReceiveErrorForgotten
  <1>13. CASE StartScan
    <2>1. staleStop' \in BOOLEAN
      BY <1>13, Zenon DEF StartScan
    <2> QED
      BY <1>13, <2>1 DEF StartScan
  <1>14. CASE SkipChannel
    BY <1>14 DEF SkipChannel
  <1>15. CASE ReceiveFragment
    <2>1. fragn \in Channel
      BY <1>15 DEF ReceiveFragment, Polls
    <2>2. Head(buf[fragn]) \in Fragment /\ Tail(buf[fragn]) \in Seq(Fragment)
      BY <1>15, <2>1 DEF ReceiveFragment
    <2>3. buf' \in [Channel -> Seq(Fragment)]
      BY <1>15, <2>1, <2>2 DEF ReceiveFragment
    <2>4. pfragment' \in [Channel -> Fragment \cup {Null, Unwritten}]
      BY <1>15, <2>1, <2>2 DEF ReceiveFragment
    <2>5. timeout' = [timeout EXCEPT ![fragn] = 0] /\ time' = [time EXCEPT ![fragn] = clock]
      BY <1>15 DEF ReceiveFragment
    <2>6. timeout' \in [Channel -> 0 .. TIMEOUT + 1] /\ time' \in [Channel -> 0 .. MaxClock]
      <3>1. clock \in 0 .. MaxClock /\ 0 \in 0 .. TIMEOUT + 1
        BY Numbers
      <3> QED
        BY <2>1, <2>5, <3>1
    <2>7. received' \subseteq Channel
      BY <1>15, <2>1 DEF ReceiveFragment
    <2>8. fragn' \in 1 .. nfragment + 1
      BY <1>15, Numbers DEF ReceiveFragment
    <2> QED
      BY <1>15, <2>3, <2>4, <2>6, <2>7, <2>8, SMTT(30) DEF ReceiveFragment
  <1>16. CASE ReceiveNothing
    <2>1. fragn \in Channel
      BY <1>16 DEF ReceiveNothing, Polls
    <2>2. timeout' \in [Channel -> 0 .. TIMEOUT + 1]
      BY <1>16, <2>1, SMTT(30) DEF ReceiveNothing
    <2> QED
      BY <1>16, <2>2 DEF ReceiveNothing
  <1>17. CASE ReceiveError
    BY <1>17 DEF ReceiveError
  <1>18. CASE SendEvent
    <2>1. \A i \in preqfrag : pfragment[i] \in Fragment
      BY <1>18 DEF SendEvent, ScanDone, Complete, Scanning, OfThisRun
    <2>2. [i \in preqfrag |-> pfragment[i]] \in [preqfrag -> Fragment]
      BY <2>1
    <2>3. [i \in preqfrag |-> pfragment[i]] \in UNION {[c -> Fragment] : c \in SUBSET Channel}
      BY <2>2
    <2>4. events' \in Seq([run : 0 .. MaxRuns, frags : UNION {[c -> Fragment] : c \in SUBSET Channel}])
      BY <1>18, <2>3 DEF SendEvent
    <2> QED
      BY <1>18, <2>4 DEF SendEvent
  <1>19. CASE Mismatch \/ SendError \/ ScanGotLast
    BY <1>19, SMTT(30) DEF Mismatch, SendError, ScanGotLast
  <1>20. CASE ScanBadFragment
    <2>1. waiting_for_stop' \in BOOLEAN
      BY <1>20, Zenon DEF ScanBadFragment
    <2>2. spawned' \in Nat
      BY <1>20 DEF ScanBadFragment
    <2> QED
      BY <1>20, <2>1, <2>2 DEF ScanBadFragment
  <1>21. CASE ScanNoEvent \/ NoTimeout \/ TimingYield
    <2>1. CASE ScanNoEvent \/ TimingYield
      BY <2>1, SMTT(30) DEF ScanNoEvent, TimingYield
    <2>2. CASE NoTimeout
      BY <2>2, SMTT(30) DEF NoTimeout
    <2> QED
      BY <1>21, <2>1, <2>2
  <1>22. CASE TimingYieldReturns
    BY <1>22 DEF TimingYieldReturns, Scanning
  <1>23. CASE CloseRun \/ CloseOnError
    <2>1. /\ buf' \in [Channel -> Seq(Fragment)]
          /\ pfragment' \in [Channel -> Fragment \cup {Null, Unwritten}]
      <3>1. buf' = [i \in Channel |-> <<>>] /\ pfragment' = [i \in Channel |-> Null]
        BY <1>23 DEF CloseRun, CloseOnError, CloseBuffers
      <3> QED
        BY <3>1
    <2>2. CASE CloseRun
      BY <2>1, <2>2 DEF CloseRun, CloseBuffers
    <2>3. CASE CloseOnError
      BY <2>1, <2>3 DEF CloseOnError, CloseBuffers
    <2> QED
      BY <1>23, <2>2, <2>3
  <1>24. CASE StopOnError
    <2>1. feRunning' \in BOOLEAN /\ stop_requested' \in BOOLEAN /\ waiting_for_stop' \in BOOLEAN
      BY <1>24, Zenon DEF StopOnError
    <2> QED
      BY <1>24, <2>1, SMTT(30) DEF StopOnError
  <1>25. CASE Restart
    <2>1. CASE UNCHANGED <<transition, run, buf, chVars, runVars>>
      BY <1>25, <2>1 DEF Restart
    <2>2. CASE run < MaxRuns /\ \E req \in RequiredSets, enabled \in EnabledValues :
                 /\ StartEffects(req, enabled)
                 /\ transition' = IF req = {} THEN "none" ELSE "startFe"
      <3>1. PICK req \in RequiredSets, enabled \in EnabledValues :
              StartEffects(req, enabled) /\ transition' = IF req = {} THEN "none" ELSE "startFe"
        BY <2>2
      <3>2. /\ preqfrag' \subseteq Channel /\ received' = {} /\ run' \in 0 .. MaxRuns
            /\ UNCHANGED waiting_for_stop /\ stop_requested' \in BOOLEAN
            /\ buf' \in [Channel -> Seq(Fragment)]
            /\ pfragment' \in [Channel -> Fragment \cup {Null, Unwritten}]
            /\ timeout' \in [Channel -> 0 .. TIMEOUT + 1]
            /\ time' \in [Channel -> 0 .. MaxClock] /\ run_state' \in {"running", run_state}
        BY <2>2, <3>1, <1>s, Zenon
      <3>3. /\ transition' \in {"none", "startFe"} /\ pc' = "loop"
            /\ UNCHANGED <<clock, odb, feRunning, feSerial, lost, fragn, status, histVars>>
        BY <1>25, <3>1, Zenon DEF Restart
      <3> QED
        BY <3>2, <3>3, SMTT(30)
    <2> QED
      BY <1>25, <2>1, <2>2, Zenon DEF Restart
  <1>26. CASE Relaunch
    <2>1. stop_requested' \in BOOLEAN /\ waiting_for_stop' \in BOOLEAN /\ staleStop' \in BOOLEAN
      BY <1>26, Zenon DEF Relaunch
    <2> QED
      BY <1>26, <2>1 DEF Relaunch
  <1>27. CASE UNCHANGED vars
    BY <1>27 DEF vars
  <1> QED
    BY <1>1, <1>2, <1>3, <1>4, <1>5, <1>6, <1>7, <1>8, <1>9, <1>10, <1>11, <1>12, <1>13, <1>14,
       <1>15, <1>16, <1>17, <1>18, <1>19, <1>20, <1>21, <1>22, <1>23, <1>24, <1>25, <1>26, <1>27
    DEF Next, Environment, Callback, EbStep

LEMMA NextTransitions == NoPause /\ SomeRequired /\ Running /\ [Next]_vars => Transitions'
  <1> SUFFICES ASSUME NoPause, SomeRequired, Running, [Next]_vars PROVE Transitions'
    OBVIOUS
  <1>s. ASSUME run < MaxRuns, NEW req \in RequiredSets, NEW enabled \in EnabledValues,
               StartEffects(req, enabled)
        PROVE  req # {} /\ run' > 0 /\ run_state' \in {"running", run_state}
    BY <1>s, StartIsTyped DEF Running
  <1>t. run \in Nat /\ MaxRuns \in Nat
    BY Numbers DEF Running, TypeOK
  <1> USE <1>t DEF Running, Transitions, NoPause
  <1>1. ASSUME UNCHANGED <<odb, transition, run, feRunning>>, run_state' \in {"stopped", "running", run_state}
        PROVE  Transitions'
    BY <1>1
  <1>2. CASE \/ Tick \/ Snooze \/ YieldReturns \/ Statistics \/ NoStatistics
             \/ ReceiveErrorForgotten \/ StartScan \/ SkipChannel \/ ReceiveFragment
             \/ ReceiveNothing \/ ReceiveError \/ SendEvent \/ Mismatch \/ SendError
             \/ ScanGotLast \/ ScanBadFragment \/ ScanNoEvent \/ NoTimeout \/ TimingYield
             \/ TimingYieldReturns \/ UNCHANGED vars
    BY <1>1, <1>2
    DEF Tick, Snooze, YieldReturns, Statistics, NoStatistics, ReceiveErrorForgotten, StartScan,
        SkipChannel, ReceiveFragment, ReceiveNothing, ReceiveError, SendEvent, Mismatch,
        SendError, ScanGotLast, ScanBadFragment, ScanNoEvent, NoTimeout, TimingYield,
        TimingYieldReturns, envVars, runVars, vars
  <1>3. CASE CloseRun \/ CloseOnError \/ Relaunch
    BY <1>1, <1>3 DEF CloseRun, CloseOnError, Relaunch, CloseBuffers, envVars
  <1>4. CASE \E i \in Channel : FrontendSend(i) \/ FrontendLoses(i)
    BY <1>1, <1>4 DEF FrontendSend, FrontendLoses, runVars
  <1>5. CASE RequestStart
    BY <1>5 DEF RequestStart, runVars
  <1>6. CASE FrontendsBegin
    BY <1>6 DEF FrontendsBegin, runVars
  <1>7. CASE RequestStop
    BY <1>7 DEF RequestStop, runVars
  <1>8. CASE RequestPause \/ RequestResume \/ tr_resume \/ tr_pause
    BY <1>8 DEF RequestPause, RequestResume, tr_resume, tr_pause
  <1>9. CASE TransitionWithoutEb
    BY <1>9 DEF TransitionWithoutEb, runVars
  <1>10. CASE tr_start
    <2>1. PICK req \in RequiredSets, enabled \in EnabledValues :
            StartEffects(req, enabled) /\ transition' = IF req = {} THEN "none" ELSE "startFe"
      BY <1>10 DEF tr_start
    <2>2. transition' = "startFe" /\ run' > 0 /\ run_state' \in {"running", run_state}
      BY <1>10, <1>s, <2>1 DEF tr_start
    <2>3. UNCHANGED odb /\ UNCHANGED feRunning /\ odb = "stopped" /\ ~ feRunning
      BY <1>10 DEF tr_start
    <2> QED
      BY <2>2, <2>3
  <1>11. CASE tr_stop
    BY <1>11 DEF tr_stop
  <1>12. CASE StopOnError
    BY <1>12 DEF StopOnError
  <1>13. CASE Restart
    <2>1. CASE UNCHANGED <<transition, run, buf, chVars, runVars>>
      BY <1>1, <1>13, <2>1 DEF Restart, runVars
    <2>2. CASE /\ run < MaxRuns /\ odb = "stopped" /\ transition = "none"
               /\ \E req \in RequiredSets, enabled \in EnabledValues :
                    /\ StartEffects(req, enabled)
                    /\ transition' = IF req = {} THEN "none" ELSE "startFe"
      <3>1. PICK req \in RequiredSets, enabled \in EnabledValues :
              StartEffects(req, enabled) /\ transition' = IF req = {} THEN "none" ELSE "startFe"
        BY <2>2
      <3>2. transition' = "startFe" /\ run' > 0 /\ run_state' \in {"running", run_state}
        BY <1>s, <2>2, <3>1
      <3>3. UNCHANGED odb /\ UNCHANGED feRunning /\ ~ feRunning
        BY <1>13, <2>2 DEF Restart
      <3> QED
        BY <2>2, <3>2, <3>3
    <2> QED
      BY <1>13, <2>1, <2>2, Zenon DEF Restart
  <1> HIDE DEF Transitions
  <1> QED
    BY <1>2, <1>3, <1>4, <1>5, <1>6, <1>7, <1>8, <1>9, <1>10, <1>11, <1>12, <1>13
    DEF Next, Environment, Callback, EbStep

(* A start opens the buffers of the channels it requires.                   *)
LEMMA StartBooks ==
  ASSUME TypeOK, SomeRequired, run < MaxRuns,
         NEW req \in RequiredSets, NEW enabled \in EnabledValues, StartEffects(req, enabled)
  PROVE  /\ Booked' = Booked \cup req /\ \A i \in Channel : buf'[i] = <<>>
         /\ preqfrag' = req /\ req # {} /\ received' = {}
         /\ run_state' \in {"running", run_state}
  <1>1. /\ req # {} /\ req \subseteq Channel /\ preqfrag' = req /\ received' = {}
        /\ buf' = [i \in Channel |-> <<>>] /\ run_state' \in {"running", run_state}
        /\ pfragment' = [i \in Channel |-> IF i \in req THEN Unwritten ELSE pfragment[i]]
    BY StartIsTyped
  <1>2. Booked' = Booked \cup req
    BY <1>1, Allocated DEF Booked
  <1> QED
    BY <1>1, <1>2

LEMMA ClosedIsUnbooked == ASSUME CloseBuffers PROVE Booked' = {} /\ \A i \in Channel : buf'[i] = <<>>
  BY DEF CloseBuffers, Booked

LEMMA NextScanning == NoPause /\ SomeRequired /\ Running /\ [Next]_vars => Scanning'
  <1> SUFFICES ASSUME NoPause, SomeRequired, Running, [Next]_vars PROVE Scanning'
    OBVIOUS
  <1>s. ASSUME run < MaxRuns, NEW req \in RequiredSets, NEW enabled \in EnabledValues,
               StartEffects(req, enabled)
        PROVE  run_state' \in {"running", run_state}
    BY <1>s, StartIsTyped DEF Running
  <1>t. fragn \in Nat /\ nfragment \in Nat
    BY Numbers DEF Running, TypeOK
  <1> USE <1>t DEF Running, Scanning
  <1>1. ASSUME UNCHANGED <<pc, fragn, run_state, pfragment>> PROVE Scanning'
    BY <1>1 DEF Booked
  <1>2. CASE \/ Tick \/ RequestStart \/ FrontendsBegin \/ RequestStop \/ RequestPause
             \/ RequestResume \/ TransitionWithoutEb \/ tr_stop \/ UNCHANGED vars
             \/ \E i \in Channel : FrontendSend(i) \/ FrontendLoses(i)
    BY <1>1, <1>2
    DEF Tick, RequestStart, FrontendsBegin, RequestStop, RequestPause, RequestResume,
        TransitionWithoutEb, tr_stop, FrontendSend, FrontendLoses, chVars, runVars, vars
  <1>3. CASE tr_resume \/ tr_pause
    BY <1>3 DEF tr_resume, tr_pause, Transitions
  <1>4. CASE tr_start
    <2>1. PICK req \in RequiredSets, enabled \in EnabledValues : StartEffects(req, enabled)
      BY <1>4 DEF tr_start
    <2>2. run_state' \in {"running", run_state}
      BY <1>4, <1>s, <2>1 DEF tr_start, Transitions
    <2>3. UNCHANGED pc /\ UNCHANGED fragn /\ pc \in {"yield", "timingYield", "statsYield"}
      BY <1>4 DEF tr_start, InYield
    <2> QED
      BY <2>2, <2>3
  <1>5. CASE \/ Snooze \/ YieldReturns \/ Statistics \/ NoStatistics \/ ReceiveErrorForgotten
             \/ SendEvent \/ ScanGotLast \/ ScanBadFragment \/ TimingYieldReturns
    BY <1>5 DEF Snooze, YieldReturns, Statistics, NoStatistics, ReceiveErrorForgotten,
                SendEvent, ScanGotLast, ScanBadFragment, TimingYieldReturns, runVars
  <1>6. CASE \/ StartScan \/ SkipChannel \/ ReceiveFragment \/ ReceiveNothing \/ Mismatch
             \/ SendError \/ ScanNoEvent
    BY <1>6 DEF StartScan, SkipChannel, ReceiveFragment, ReceiveNothing, Mismatch, SendError,
                ScanNoEvent, ScanDone, runVars
  <1>7. CASE NoTimeout \/ TimingYield
    BY <1>7 DEF NoTimeout, TimingYield, TimedOut, runVars
  <1>8. CASE ReceiveError
    BY <1>8 DEF ReceiveError, runVars, Booked
  <1>9. CASE CloseRun \/ CloseOnError
    BY <1>9, ClosedIsUnbooked DEF CloseRun, CloseOnError, CloseBuffers
  <1>10. CASE StopOnError
    BY <1>10 DEF StopOnError, chVars, Booked
  <1>11. CASE Restart \/ Relaunch
    BY <1>11 DEF Restart, Relaunch
  <1> HIDE DEF Scanning
  <1> QED
    BY <1>2, <1>3, <1>4, <1>5, <1>6, <1>7, <1>8, <1>9, <1>10, <1>11
    DEF Next, Environment, Callback, EbStep

LEMMA NextOfThisRun == NoPause /\ SomeRequired /\ Running /\ [Next]_vars => OfThisRun'
  <1> SUFFICES ASSUME NoPause, SomeRequired, Running, [Next]_vars PROVE OfThisRun'
    OBVIOUS
  <1>s. ASSUME run < MaxRuns, NEW req \in RequiredSets, NEW enabled \in EnabledValues,
               StartEffects(req, enabled)
        PROVE  OfThisRun'
    <2>1. /\ Booked' = Booked \cup req /\ \A i \in Channel : buf'[i] = <<>>
          /\ preqfrag' = req /\ req # {} /\ received' = {}
      BY <1>s, StartBooks DEF Running
    <2> QED
      BY <2>1 DEF OfThisRun
  <1>t. buf \in [Channel -> Seq(Fragment)] /\ received \subseteq Channel
    BY DEF Running, TypeOK
  <1> USE <1>t DEF Running
  <1>1. ASSUME UNCHANGED <<buf, run, received, preqfrag, pfragment>>,
               run_state' = "running" /\ pc' # "exit" => run_state = "running" /\ pc # "exit"
        PROVE  OfThisRun'
    BY <1>1 DEF OfThisRun, Booked
  <1>2. CASE \/ Tick \/ RequestStart \/ FrontendsBegin \/ RequestStop \/ RequestPause
             \/ RequestResume \/ tr_stop \/ UNCHANGED vars
             \/ \E i \in Channel : FrontendLoses(i)
    BY <1>1, <1>2
    DEF Tick, RequestStart, FrontendsBegin, RequestStop, RequestPause, RequestResume,
        tr_stop, FrontendLoses, envVars, chVars, runVars, vars
  <1>3. CASE \/ Snooze \/ YieldReturns \/ Statistics \/ NoStatistics \/ ReceiveErrorForgotten
             \/ StartScan \/ SkipChannel \/ ReceiveNothing
    BY <1>1, <1>3
    DEF Snooze, YieldReturns, Statistics, NoStatistics, ReceiveErrorForgotten,
        ReceiveFails, StartScan, SkipChannel, ReceiveNothing, envVars, chVars, runVars
  <1>15. CASE \/ Mismatch \/ SendError \/ ScanGotLast \/ ScanBadFragment \/ ScanNoEvent
              \/ NoTimeout \/ TimingYield \/ TimingYieldReturns
    BY <1>1, <1>15
    DEF Mismatch, SendError, ScanGotLast, ScanBadFragment, ScanNoEvent, NoTimeout,
        TimingYield, TimingYieldReturns, ScanDone, TimedOut, envVars, chVars, runVars
  <1>4. CASE tr_resume \/ tr_pause
    BY <1>4 DEF tr_resume, tr_pause, Transitions
  <1>5. CASE StopOnError
    BY <1>1, <1>5 DEF StopOnError, chVars
  <1>6. CASE TransitionWithoutEb
    <2>1. Booked = {} /\ pc = "exit" /\ pc' = "exit" /\ UNCHANGED <<buf, pfragment, received, preqfrag>>
      BY <1>6 DEF TransitionWithoutEb, chVars, Scanning
    <2> QED
      BY <2>1 DEF OfThisRun, Booked
  <1>7. CASE tr_start
    BY <1>7, <1>s DEF tr_start, Transitions
  <1>8. CASE Restart
    <2>1. CASE UNCHANGED <<transition, run, buf, chVars, runVars>>
      BY <1>1, <1>8, <2>1 DEF Restart, chVars, runVars
    <2> QED
      BY <1>s, <1>8, <2>1 DEF Restart
  <1>9. ASSUME NEW i \in Channel, FrontendSend(i) PROVE OfThisRun'
    <2>1. CASE i \notin Booked
      BY <1>1, <1>9, <2>1 DEF FrontendSend, chVars, runVars
    <2>2. CASE i \in Booked
      <3>1. /\ UNCHANGED <<run, received, preqfrag, pfragment, run_state, pc>>
            /\ buf' = [buf EXCEPT ![i] = Append(@, [run |-> run, serial |-> feSerial[i] + 1])]
        BY <1>9, <2>2 DEF FrontendSend, chVars, runVars
      <3>2. Booked' = Booked
        BY <3>1 DEF Booked
      <3>3. \A k \in 1 .. Len(buf'[i]) : buf'[i][k].run = run
        BY <3>1 DEF OfThisRun
      <3>4. \A j \in Channel \ {i} : buf'[j] = buf[j]
        BY <3>1
      <3> QED
        BY <2>2, <3>1, <3>2, <3>3, <3>4 DEF OfThisRun
    <2> QED
      BY <2>1, <2>2
  <1>10. CASE ReceiveFragment
    <2>1. /\ fragn \in preqfrag /\ fragn \in Channel /\ fragn \in Booked /\ buf[fragn] # <<>>
          /\ UNCHANGED <<run, preqfrag, run_state, pc>> /\ received' = received \cup {fragn}
          /\ pfragment' = [pfragment EXCEPT ![fragn] = Head(buf[fragn])]
          /\ buf' = [buf EXCEPT ![fragn] = Tail(@)]
      BY <1>10 DEF ReceiveFragment, Polls, envVars, runVars, TypeOK
    <2>2. Head(buf[fragn]) \in Fragment /\ Head(buf[fragn]).run = run
      BY <2>1 DEF OfThisRun
    <2>3. \A j \in Channel : pfragment'[j] = IF j = fragn THEN Head(buf[fragn]) ELSE pfragment[j]
      BY <2>1 DEF TypeOK
    <2>4. Booked' = Booked
      BY <2>1, <2>2, <2>3, Allocated DEF Booked
    <2>5. \A k \in 1 .. Len(buf'[fragn]) : buf'[fragn][k].run = run
      BY <2>1 DEF OfThisRun
    <2>6. \A j \in Channel \ {fragn} : buf'[j] = buf[j]
      BY <2>1
    <2> QED
      BY <2>1, <2>2, <2>3, <2>4, <2>5, <2>6 DEF OfThisRun
  <1>11. CASE ReceiveError
    <2>1. Booked' = {} /\ \A i \in Channel : buf'[i] = <<>>
      BY <1>11 DEF ReceiveError, Booked
    <2> QED
      BY <1>11, <2>1 DEF ReceiveError, OfThisRun
  <1>12. CASE SendEvent
    BY <1>12 DEF SendEvent, OfThisRun, Booked, envVars, runVars, ScanDone
  <1>13. CASE CloseRun \/ CloseOnError
    <2>1. Booked' = {} /\ run_state' = "stopped" /\ \A i \in Channel : buf'[i] = <<>>
      BY <1>13, ClosedIsUnbooked DEF CloseRun, CloseOnError, CloseBuffers
    <2>2. UNCHANGED <<received, preqfrag>>
      BY <1>13 DEF CloseRun, CloseOnError
    <2> QED
      BY <2>1, <2>2 DEF OfThisRun
  <1>14. CASE Relaunch
    <2>1. /\ run_state' = "stopped" /\ received' = {} /\ UNCHANGED <<buf, run>>
          /\ Booked = {} /\ Booked' = {}
      BY <1>14 DEF Relaunch, Booked, envVars, Scanning
    <2> QED
      BY <2>1 DEF OfThisRun
  <1> QED
    BY <1>2, <1>3, <1>4, <1>5, <1>6, <1>7, <1>8, <1>9, <1>10, <1>11, <1>12, <1>13, <1>14,
       <1>15
    DEF Next, Environment, Callback, EbStep

(* Without pauses every variable keeps its type.  Only with Running: an     *)
(* event takes its fragments out of pfragment, which is null in a run that  *)
(* is resumed after close_buffers.                                          *)
LEMMA AlwaysRunning == ASSUME NoPause, SomeRequired PROVE Spec => []Running
  <1>1. Running /\ [Next]_vars => Running'
    BY NextTypeOK, NextTransitions, NextScanning, NextOfThisRun DEF Running
  <1> QED
    BY <1>1, InitRunning, PTL DEF Spec

(* Every variable keeps its type in every execution with no pause of the    *)
(* run and at least one required fragment.                                  *)
THEOREM TypeCorrect == ASSUME NoPause, SomeRequired PROVE Spec => []TypeOK
  <1>1. Running => TypeOK
    BY DEF Running
  <1> QED
    BY <1>1, AlwaysRunning, PTL

(* source_scan calls bm_receive_event for buffers that are open, whatever   *)
(* close_buffers and source_booking did since the last scan.                *)
THEOREM PollsOpenBuffers == ASSUME NoPause, SomeRequired PROVE Spec => []PollsBooked
  <1>1. Running => PollsBooked
    BY DEF Running, Scanning, OfThisRun, PollsBooked
  <1> QED
    BY <1>1, AlwaysRunning, PTL

(* The fragments that mevb holds in a run were received in that run: the    *)
(* buffers are emptied and what was received is dropped between two runs.   *)
THEOREM HeldIsOfThisRun == ASSUME NoPause, SomeRequired PROVE Spec => []HeldOfThisRun
  <1>1. Running => HeldOfThisRun
    BY DEF Running, OfThisRun, HeldOfThisRun
  <1> QED
    BY <1>1, AlwaysRunning, PTL

Latched == spawned = 0 \/ (spawned = 1 /\ waiting_for_stop)

LEMMA NextLatched == Latched /\ [Next]_vars => Latched'
  <1> SUFFICES ASSUME Latched, [Next]_vars PROVE Latched'
    OBVIOUS
  <1> USE DEF Latched, histVars, runVars
  <1>1. CASE UNCHANGED <<waiting_for_stop, spawned>>
    BY <1>1
  <1>2. CASE Environment
    BY <1>2
    DEF Environment, Tick, RequestStart, FrontendsBegin, RequestStop, RequestPause,
        RequestResume, TransitionWithoutEb, FrontendSend, FrontendLoses
  <1>3. CASE Callback
    BY <1>3 DEF Callback, tr_start, tr_resume, tr_pause, tr_stop, StartEffects
  <1>4. CASE ScanBadFragment
    BY <1>4 DEF ScanBadFragment
  <1>5. CASE StopOnError
    BY <1>5 DEF StopOnError
  <1>6. CASE Restart
    BY <1>6 DEF Restart, StartEffects
  <1>7. CASE Relaunch
    BY <1>7 DEF Relaunch
  <1>8. CASE EbStep /\ ~ (ScanBadFragment \/ StopOnError \/ Restart)
    BY <1>8
    DEF EbStep, Snooze, YieldReturns, Statistics, NoStatistics, ReceiveErrorForgotten,
        StartScan, SkipChannel, ReceiveFragment, ReceiveNothing, ReceiveError, SendEvent,
        Mismatch, SendError, ScanGotLast, ScanNoEvent, NoTimeout, TimingYield,
        TimingYieldReturns, CloseRun, CloseOnError
  <1> QED
    BY <1>1, <1>2, <1>3, <1>4, <1>5, <1>6, <1>7, <1>8 DEF Next, vars, EbStep

(* However often scan_fragment sees the timeout of a fragment, it spawns    *)
(* one mtransition until the run is stopped: waiting_for_stop latches it.   *)
THEOREM SpawnedOnce == Spec => []SpawnsOnce
  <1>1. Init => Latched
    BY DEF Init, Latched
  <1>2. Latched /\ [Next]_vars => Latched'
    BY NextLatched
  <1>3. Latched => SpawnsOnce
    BY DEF SpawnsOnce, Latched
  <1> QED
    BY <1>1, <1>2, <1>3, PTL DEF Spec
-----------------------------------------------------------------------------
(* With the equipment enabled, only a run that is stopped has the flag set. *)
AlwaysOn == EnabledValues \subseteq {TRUE}

(* A scan that began after the stop has seen an empty channel.              *)
StoppedQuiet ==
  /\ stop_requested /\ pc # "exit" => ~ feRunning /\ transition # "startFe"
  /\ pc = "poll" /\ stop_requested =>
       \A i \in preqfrag \ received : i < fragn => buf[i] = <<>>
  /\ pc \in {"timeouts", "timingYield"} /\ stop_requested /\ ~ staleStop =>
       \E i \in preqfrag \ received : buf[i] = <<>>

LEMMA StartClearsStop ==
  ASSUME AlwaysOn, SomeRequired, NEW req \in RequiredSets, NEW enabled \in EnabledValues,
         StartEffects(req, enabled)
  PROVE  ~ stop_requested'
  <1>1. req # {} /\ enabled
    BY DEF AlwaysOn, SomeRequired
  <1> QED
    BY <1>1, Zenon DEF StartEffects

LEMMA NextStoppedQuiet ==
  NoPause /\ SomeRequired /\ AlwaysOn /\ Running /\ StoppedQuiet /\ [Next]_vars => StoppedQuiet'
  <1> SUFFICES ASSUME NoPause, SomeRequired, AlwaysOn, Running, StoppedQuiet, [Next]_vars
               PROVE  StoppedQuiet'
    OBVIOUS
  <1>t. /\ fragn \in Nat /\ nfragment \in Nat /\ preqfrag \subseteq Channel
        /\ \A i \in Channel : i \in Nat /\ 1 <= i /\ i <= nfragment
    BY Numbers, SMTT(30) DEF Running, TypeOK, Channel
  <1>s. ASSUME NEW req \in RequiredSets, NEW enabled \in EnabledValues,
               StartEffects(req, enabled)
        PROVE  StoppedQuiet'
    BY <1>s, StartClearsStop DEF StoppedQuiet
  <1> USE <1>t DEF StoppedQuiet, envVars, chVars, runVars, histVars
  <1>1. ASSUME UNCHANGED <<buf, preqfrag, received, fragn, pc, stop_requested, staleStop>>,
               stop_requested /\ pc # "exit" => ~ feRunning' /\ transition' # "startFe"
        PROVE  StoppedQuiet'
    BY <1>1
  <1>2. CASE Tick \/ RequestStart \/ RequestStop \/ RequestPause \/ RequestResume \/ UNCHANGED vars
    BY <1>1, <1>2 DEF Tick, RequestStart, RequestStop, RequestPause, RequestResume, vars
  <1>3. CASE FrontendsBegin
    BY <1>3 DEF FrontendsBegin, Running, Transitions
  <1>4. CASE TransitionWithoutEb
    BY <1>4 DEF TransitionWithoutEb
  <1>5. CASE \E i \in Channel : FrontendSend(i) \/ FrontendLoses(i)
    <2>1. PICK i \in Channel : FrontendSend(i) \/ FrontendLoses(i)
      BY <1>5
    <2>2. feRunning /\ feRunning' /\ UNCHANGED <<pc, stop_requested, transition>>
      BY <2>1 DEF FrontendSend, FrontendLoses
    <2> QED
      BY <2>2
  <1>6. CASE tr_start
    BY <1>6, <1>s DEF tr_start
  <1>7. CASE tr_resume \/ tr_pause
    BY <1>7 DEF tr_resume, tr_pause, Running, Transitions
  <1>8. CASE tr_stop
    <2>1. /\ ~ feRunning /\ feRunning' = feRunning /\ transition' = "none" /\ pc' = pc
          /\ InYield /\ (pc = "timingYield" => staleStop')
      BY <1>8 DEF tr_stop, Running, Transitions
    <2> QED
      BY <2>1 DEF InYield
  <1>9. CASE Snooze \/ YieldReturns \/ Statistics \/ NoStatistics \/ ReceiveErrorForgotten
    BY <1>9
    DEF Snooze, YieldReturns, Statistics, NoStatistics, ReceiveErrorForgotten, ReceiveFails
  <1>20. CASE SendEvent \/ Mismatch \/ SendError
    BY <1>20 DEF SendEvent, Mismatch, SendError, ScanDone
  <1>21. CASE ScanGotLast \/ ScanBadFragment \/ CloseRun \/ CloseOnError
    BY <1>21 DEF ScanGotLast, ScanBadFragment, CloseRun, CloseOnError, ScanDone, TimedOut
  <1>10. CASE StartScan
    BY <1>10 DEF StartScan
  <1>11. CASE SkipChannel
    BY <1>11 DEF SkipChannel, Polls
  <1>12. CASE ReceiveFragment
    <2>1. /\ pc = "poll" /\ pc' = "poll" /\ fragn' = fragn + 1 /\ received' = received \cup {fragn}
          /\ buf' = [buf EXCEPT ![fragn] = Tail(@)] /\ UNCHANGED stop_requested
          /\ UNCHANGED <<preqfrag, feRunning, transition>>
      BY <1>12 DEF ReceiveFragment
    <2>2. \A i \in preqfrag \ received' : buf'[i] = buf[i] /\ (i < fragn' => i < fragn)
      BY <2>1, SMTT(30) DEF Running, TypeOK
    <2> QED
      BY <2>1, <2>2
  <1>13. CASE ReceiveNothing
    BY <1>13 DEF ReceiveNothing
  <1>14. CASE ReceiveError
    BY <1>14 DEF ReceiveError
  <1>15. CASE ScanNoEvent
    <2>1. PICK i \in preqfrag \ received : i < fragn
      BY <1>15 DEF ScanNoEvent, ScanDone, Complete
    <2> QED
      BY <1>15, <2>1 DEF ScanNoEvent, ScanDone
  <1>16. CASE NoTimeout \/ TimingYield \/ TimingYieldReturns
    BY <1>16 DEF NoTimeout, TimingYield, TimingYieldReturns, TimedOut
  <1>17. CASE StopOnError
    BY <1>17 DEF StopOnError
  <1>18. CASE Restart
    <2>1. CASE UNCHANGED <<transition, run, buf, chVars, runVars>>
      BY <1>18, <2>1 DEF Restart
    <2> QED
      BY <1>18, <1>s, <2>1 DEF Restart
  <1>19. CASE Relaunch
    BY <1>19 DEF Relaunch, Running, Transitions
  <1> HIDE DEF StoppedQuiet
  <1> QED
    BY <1>2, <1>3, <1>4, <1>5, <1>6, <1>7, <1>8, <1>9, <1>10, <1>11, <1>12, <1>13, <1>14, <1>15,
       <1>16, <1>17, <1>18, <1>19, <1>20, <1>21
    DEF Next, Environment, Callback, EbStep

(* handFlush discards no event of which every fragment has arrived, unless  *)
(* the stop came while scan_fragment was looking at its timeouts: any scan  *)
(* after the stop would have taken the last fragment out of the buffers.    *)
THEOREM ClosingLosesNothing ==
  ASSUME NoPause, SomeRequired, AlwaysOn PROVE Spec => CloseAfterScanLosesNothing
  <1>1. Init => StoppedQuiet
    BY DEF Init, StoppedQuiet
  <1>2. StoppedQuiet /\ CloseRun /\ ~ staleStop => ~ CompleteWaiting
    <2> SUFFICES ASSUME StoppedQuiet, CloseRun, ~ staleStop PROVE ~ CompleteWaiting
      OBVIOUS
    <2>1. PICK i \in preqfrag \ received : buf[i] = <<>>
      BY DEF StoppedQuiet, CloseRun, TimedOut
    <2>2. Waiting(i) = {}
      BY <2>1 DEF Waiting
    <2> QED
      BY <2>1, <2>2 DEF CompleteWaiting
  <1>3. Running /\ StoppedQuiet /\ [Next]_vars => StoppedQuiet'
    BY NextStoppedQuiet
  <1> QED
    BY <1>1, <1>2, <1>3, AlwaysRunning, PTL DEF Spec, CloseAfterScanLosesNothing
=============================================================================
