---------------------------- MODULE EventBuilder ----------------------------
(***************************************************************************)
(* The event builder, eventbuilderNew/mevb.c with ebuser.c.  Each frontend *)
(* sends one fragment per trigger to a MIDAS buffer of its own; mevb polls *)
(* the buffers in turn, and when it holds one fragment of each required    *)
(* channel it compares their serial numbers and writes the merged event.   *)
(*                                                                         *)
(* mevb is one process.  Run transitions reach it as callbacks out of      *)
(* cm_yield, which it calls at three places of its loop; in between, the   *)
(* frontends, the operator and the clock go on.                            *)
(*                                                                         *)
(* MIDAS (external) serves a transition in a fixed order: a start or a     *)
(* resume calls mevb (sequence 400) before the frontends (500), a stop or  *)
(* a pause the frontends before mevb (600).                                *)
(***************************************************************************)
EXTENDS Naturals, Sequences

CONSTANTS
  nfragment,         \* number of fragments found by load_fragment
  TIMEOUT,           \* empty polls of a fragment before mevb yields or closes
  TIMEOUT_ABORT,     \* clock ticks without a fragment before the run is aborted
  MaxClock,          \* bound: clock ticks
  MaxRuns,           \* bound: runs
  MaxTriggers,       \* bound: triggers per run
  MaxLost,           \* bound: fragments a frontend counts but fails to send
  RequiredSets,      \* values of "Fragment Required" in the ODB
  EnabledValues,     \* values of "Enabled" of the EB equipment in the ODB
  PauseAllowed,      \* TRUE: the operator may pause runs
  QuickStart,        \* TRUE: a start may come before mevb has closed the run
  AutoRestart,       \* "/Logger/Auto restart" in the ODB
  BmFails            \* TRUE: MIDAS buffer calls may fail

Channel == 1 .. nfragment

ASSUME EventBuilderAssumption ==
  /\ nfragment \in Nat \ {0}
  /\ TIMEOUT \in Nat /\ TIMEOUT_ABORT \in Nat
  /\ MaxClock \in Nat \ {0} /\ MaxRuns \in Nat
  /\ MaxTriggers \in Nat /\ MaxLost \in Nat
  /\ RequiredSets \subseteq SUBSET Channel
  /\ EnabledValues \subseteq BOOLEAN
  /\ {PauseAllowed, QuickStart, AutoRestart, BmFails} \subseteq BOOLEAN

VARIABLES
  clock,             \* time()
  odb,               \* /Runinfo/State
  transition,        \* transition in progress, by who has to serve it next
  run,               \* run number
  feRunning,         \* the frontends are taking data
  feSerial,          \* [channel -> serial number of the frontend's last fragment]
  lost,              \* fragments lost so far
  buf,               \* [channel -> fragments in its MIDAS buffer]
  pc,                \* where mevb is
  fragn,             \* the channel it has come to
  status,            \* status of the last poll of a scan
  run_state,         \* mevb's copy of the run state
  preqfrag,          \* ebset.preqfrag: the required channels
  received,          \* ebset.received: the channels whose fragment is held
  pfragment,         \* [channel -> ebch.pfragment]
  timeout,           \* [channel -> ebch.timeout, saturating at TIMEOUT + 1]
  time,              \* [channel -> ebch.time]
  stop_requested, waiting_for_stop,
  events,            \* history: merged events, in order
  staleStop,         \* history: stop_requested was set since the scan began
  spawned            \* history: mtransition commands spawned since tr_stop

envVars == <<clock, odb, transition, run, feRunning, feSerial, lost>>
chVars == <<preqfrag, received, pfragment, timeout, time>>
runVars == <<run_state, stop_requested, waiting_for_stop>>
histVars == <<events, staleStop, spawned>>
vars == <<envVars, buf, pc, fragn, status, chVars, runVars, histVars>>

(* A fragment is its run and its MIDAS serial number.                       *)
Fragment == [run : 1 .. MaxRuns, serial : 1 .. MaxTriggers]
Null == [run |-> 0, serial |-> 0]         \* pfragment not allocated
Unwritten == [run |-> 0, serial |-> 1]    \* allocated, nothing received yet

(* source_booking opens a channel's buffer and allocates its pfragment,     *)
(* source_unbooking undoes both.                                            *)
Booked == {i \in Channel : pfragment[i] # Null}

Init ==
  /\ clock = 1 /\ odb = "stopped" /\ transition = "none" /\ run = 0
  /\ feRunning = FALSE /\ feSerial = [i \in Channel |-> 0] /\ lost = 0
  /\ buf = [i \in Channel |-> <<>>]
  /\ pc = "loop" /\ fragn = 1 /\ status = "none"
  /\ run_state = "stopped" /\ preqfrag = {} /\ received = {}
  /\ pfragment = [i \in Channel |-> Null]
  /\ timeout = [i \in Channel |-> 0] /\ time = [i \in Channel |-> 0]
  /\ stop_requested = TRUE /\ waiting_for_stop = FALSE
  /\ events = <<>> /\ staleStop = FALSE /\ spawned = 0

-----------------------------------------------------------------------------
(* The frontends and the operator (external).                               *)
Tick ==
  /\ clock < MaxClock /\ clock' = clock + 1
  /\ UNCHANGED <<odb, transition, run, feRunning, feSerial, lost, buf, pc, fragn,
                 status, chVars, runVars, histVars>>

(* A fragment goes to the buffer; without a reader MIDAS drops it.          *)
FrontendSend(i) ==
  /\ feRunning /\ feSerial[i] < MaxTriggers
  /\ feSerial' = [feSerial EXCEPT ![i] = @ + 1]
  /\ buf' = IF i \in Booked
            THEN [buf EXCEPT ![i] = Append(@, [run |-> run, serial |-> feSerial[i] + 1])]
            ELSE buf
  /\ UNCHANGED <<clock, odb, transition, run, feRunning, lost, pc, fragn, status,
                 chVars, runVars, histVars>>

FrontendLoses(i) ==
  /\ feRunning /\ feSerial[i] < MaxTriggers /\ lost < MaxLost
  /\ feSerial' = [feSerial EXCEPT ![i] = @ + 1]
  /\ lost' = lost + 1
  /\ UNCHANGED <<clock, odb, transition, run, feRunning, buf, pc, fragn, status,
                 chVars, runVars, histVars>>

RequestStart ==
  /\ transition = "none" /\ odb = "stopped" /\ run < MaxRuns
  /\ QuickStart \/ run_state = "stopped"
  /\ transition' = "startEb"
  /\ UNCHANGED <<clock, odb, run, feRunning, feSerial, lost, buf, pc, fragn, status,
                 chVars, runVars, histVars>>

FrontendsBegin ==
  /\ transition \in {"startFe", "resumeFe"}
  /\ transition' = "none" /\ odb' = "running" /\ feRunning' = TRUE
  /\ feSerial' = IF transition = "startFe" THEN [i \in Channel |-> 0] ELSE feSerial
  /\ UNCHANGED <<clock, run, lost, buf, pc, fragn, status, chVars, runVars, histVars>>

(* The frontends stop and have flushed their caches when mevb is called.    *)
RequestStop ==
  /\ transition = "none" /\ odb # "stopped"
  /\ transition' = "stopEb" /\ feRunning' = FALSE
  /\ UNCHANGED <<clock, odb, run, feSerial, lost, buf, pc, fragn, status, chVars,
                 runVars, histVars>>

RequestPause ==
  /\ PauseAllowed /\ transition = "none" /\ odb = "running"
  /\ transition' = "pauseEb" /\ feRunning' = FALSE
  /\ UNCHANGED <<clock, odb, run, feSerial, lost, buf, pc, fragn, status, chVars,
                 runVars, histVars>>

RequestResume ==
  /\ transition = "none" /\ odb = "paused"
  /\ transition' = "resumeEb"
  /\ UNCHANGED <<clock, odb, run, feRunning, feSerial, lost, buf, pc, fragn, status,
                 chVars, runVars, histVars>>

(* When mevb has exited, MIDAS skips it.                                    *)
TransitionWithoutEb ==
  /\ pc = "exit"
  /\ \/ /\ transition = "startEb"
        /\ transition' = "startFe" /\ run' = run + 1 /\ UNCHANGED odb
     \/ /\ transition = "stopEb"
        /\ transition' = "none" /\ odb' = "stopped" /\ UNCHANGED run
     \/ /\ transition = "pauseEb"
        /\ transition' = "none" /\ odb' = "paused" /\ UNCHANGED run
     \/ /\ transition = "resumeEb"
        /\ transition' = "resumeFe" /\ UNCHANGED <<odb, run>>
  /\ UNCHANGED <<clock, feRunning, feSerial, lost, buf, pc, fragn, status, chVars,
                 runVars, histVars>>

Environment ==
  \/ Tick \/ RequestStart \/ FrontendsBegin \/ RequestStop \/ RequestPause
  \/ RequestResume \/ TransitionWithoutEb
  \/ \E i \in Channel : FrontendSend(i) \/ FrontendLoses(i)

-----------------------------------------------------------------------------
(* Transition callbacks, served while mevb is in cm_yield.                  *)
InYield == pc \in {"yield", "timingYield", "statsYield"}

(* Mutant: tr_start keeps the flags of the fragments received so far.       *)
StartEffectsKeepsReceived(req, enabled) ==
  /\ preqfrag' = req
  /\ IF req = {}
     THEN UNCHANGED <<pfragment, buf, run, timeout, time, run_state, stop_requested>>
     ELSE /\ pfragment' = [i \in Channel |-> IF i \in req THEN Unwritten ELSE pfragment[i]]
          /\ buf' = [i \in Channel |-> <<>>]
          /\ run' = run + 1
          /\ run_state' = "running" /\ stop_requested' = FALSE
          /\ timeout' = [i \in Channel |-> 0]
          /\ time' = [i \in Channel |-> clock]
  /\ UNCHANGED <<received, waiting_for_stop>>

(* tr_start takes the required channels from the ODB and drops what was     *)
(* received; with no channel required it gives up there.  Otherwise         *)
(* source_booking opens the buffers and empties them, and mevb starts       *)
(* scanning unless its equipment is disabled.                               *)
StartEffects(req, enabled) ==
  /\ preqfrag' = req /\ received' = {}
  /\ IF req = {}
     THEN UNCHANGED <<pfragment, buf, run, timeout, time, run_state, stop_requested>>
     ELSE /\ pfragment' = [i \in Channel |-> IF i \in req THEN Unwritten ELSE pfragment[i]]
          /\ buf' = [i \in Channel |-> <<>>]
          /\ run' = run + 1
          /\ IF enabled
             THEN /\ run_state' = "running" /\ stop_requested' = FALSE
                  /\ timeout' = [i \in Channel |-> 0]
                  /\ time' = [i \in Channel |-> clock]
             ELSE UNCHANGED <<run_state, stop_requested, timeout, time>>
  /\ UNCHANGED waiting_for_stop

tr_start ==
  /\ InYield /\ transition = "startEb"
  /\ \E req \in RequiredSets, enabled \in EnabledValues :
       /\ StartEffects(req, enabled)
       /\ transition' = IF req = {} THEN "none" ELSE "startFe"
  /\ UNCHANGED <<clock, odb, feRunning, feSerial, lost, pc, fragn, status, histVars>>

tr_resume ==
  /\ InYield /\ transition = "resumeEb"
  /\ transition' = "resumeFe"
  /\ timeout' = [i \in Channel |-> 0]
  /\ time' = [i \in Channel |-> clock]
  /\ run_state' = "running"
  /\ UNCHANGED <<clock, odb, run, feRunning, feSerial, lost, buf, pc, fragn, status,
                 preqfrag, received, pfragment, stop_requested, waiting_for_stop, histVars>>

tr_pause ==
  /\ InYield /\ transition = "pauseEb"
  /\ transition' = "none" /\ odb' = "paused"
  /\ run_state' = "paused"
  /\ UNCHANGED <<clock, run, feRunning, feSerial, lost, buf, pc, fragn, status, chVars,
                 stop_requested, waiting_for_stop, histVars>>

tr_stop ==
  /\ InYield /\ transition = "stopEb"
  /\ transition' = "none" /\ odb' = "stopped"
  /\ stop_requested' = TRUE /\ waiting_for_stop' = FALSE
  /\ staleStop' = (pc = "timingYield") /\ spawned' = 0
  /\ UNCHANGED <<clock, run, feRunning, feSerial, lost, buf, pc, fragn, status, chVars,
                 run_state, events>>

Callback == tr_start \/ tr_resume \/ tr_pause \/ tr_stop

-----------------------------------------------------------------------------
(* scan_fragment: the main loop.                                            *)
Snooze ==
  /\ pc = "loop" /\ run_state # "running"
  /\ pc' = "yield"
  /\ UNCHANGED <<envVars, buf, fragn, status, chVars, runVars, histVars>>

YieldReturns ==
  /\ pc \in {"yield", "statsYield"}
  /\ pc' = IF pc = "yield" THEN "stats" ELSE "loop"
  /\ UNCHANGED <<envVars, buf, fragn, status, chVars, runVars, histVars>>

(* Mutant: the statistics job does not yield.                               *)
StatisticsNoYield ==
  /\ pc = "stats" /\ pc' = "loop"
  /\ UNCHANGED <<envVars, buf, fragn, status, chVars, runVars, histVars>>

(* Once per second the statistics job, with a cm_yield.                     *)
Statistics ==
  /\ pc = "stats" /\ pc' = "statsYield"
  /\ UNCHANGED <<envVars, buf, fragn, status, chVars, runVars, histVars>>

NoStatistics ==
  /\ pc = "stats" /\ pc' = "loop"
  /\ UNCHANGED <<envVars, buf, fragn, status, chVars, runVars, histVars>>

(* source_scan polls the required channels whose fragment is not yet held.  *)
StartScan ==
  /\ pc = "loop" /\ run_state = "running"
  /\ pc' = "poll" /\ fragn' = 1 /\ status' = "none"
  /\ staleStop' = FALSE
  /\ UNCHANGED <<envVars, buf, chVars, runVars, events, spawned>>

Polls(i) == i \in preqfrag /\ i \notin received

(* Mutant: a channel that has timed out need not be polled again.           *)
SkipChannelTimedOut ==
  /\ pc = "poll" /\ fragn <= nfragment /\ (~ Polls(fragn) \/ timeout[fragn] > TIMEOUT)
  /\ status' = IF Polls(fragn) THEN "async" ELSE status
  /\ fragn' = fragn + 1
  /\ UNCHANGED <<envVars, buf, pc, chVars, runVars, histVars>>

(* Mutant: the scan runs past the last channel.                             *)
SkipChannelPastEnd ==
  /\ pc = "poll" /\ fragn <= nfragment + 1 /\ ~ Polls(fragn)
  /\ fragn' = fragn + 1
  /\ UNCHANGED <<envVars, buf, pc, status, chVars, runVars, histVars>>

SkipChannel ==
  /\ pc = "poll" /\ fragn <= nfragment /\ ~ Polls(fragn)
  /\ fragn' = fragn + 1
  /\ UNCHANGED <<envVars, buf, pc, status, chVars, runVars, histVars>>

ReceiveFragment ==
  /\ pc = "poll" /\ fragn <= nfragment /\ Polls(fragn)
  /\ fragn \in Booked /\ buf[fragn] # <<>>
  /\ pfragment' = [pfragment EXCEPT ![fragn] = Head(buf[fragn])]
  /\ buf' = [buf EXCEPT ![fragn] = Tail(@)]
  /\ received' = received \cup {fragn}
  /\ timeout' = [timeout EXCEPT ![fragn] = 0]
  /\ time' = [time EXCEPT ![fragn] = clock]
  /\ status' = "success" /\ fragn' = fragn + 1
  /\ UNCHANGED <<envVars, pc, preqfrag, runVars, histVars>>

(* Mutant: an empty poll is not counted.                                    *)
ReceiveNothingNoCount ==
  /\ pc = "poll" /\ fragn <= nfragment /\ Polls(fragn)
  /\ fragn \in Booked /\ buf[fragn] = <<>>
  /\ status' = "async" /\ fragn' = fragn + 1
  /\ UNCHANGED <<envVars, buf, pc, chVars, runVars, histVars>>

ReceiveNothing ==
  /\ pc = "poll" /\ fragn <= nfragment /\ Polls(fragn)
  /\ fragn \in Booked /\ buf[fragn] = <<>>
  /\ timeout' = [timeout EXCEPT ![fragn] = IF @ > TIMEOUT THEN @ ELSE @ + 1]
  /\ status' = "async" /\ fragn' = fragn + 1
  /\ UNCHANGED <<envVars, buf, pc, preqfrag, received, pfragment, time, runVars, histVars>>

(* Another status of bm_receive_event, that of a buffer that is not open     *)
(* among them, ends the loop and the program ...                             *)
ReceiveFails ==
  /\ BmFails \/ fragn \notin Booked
  /\ pc = "poll" /\ fragn <= nfragment /\ Polls(fragn)

ReceiveError ==
  /\ ReceiveFails
  /\ pc' = "exit"
  /\ pfragment' = [i \in Channel |-> Null] /\ buf' = [i \in Channel |-> <<>>]
  /\ UNCHANGED <<envVars, fragn, status, preqfrag, received, timeout, time, runVars, histVars>>

(* ... unless the statistics job is due: the result of its cm_yield takes    *)
(* the place of SS_ABORT, and the loop goes on.                              *)
ReceiveErrorForgotten ==
  /\ ReceiveFails
  /\ pc' = "statsYield"
  /\ UNCHANGED <<envVars, buf, fragn, status, chVars, runVars, histVars>>

Complete == preqfrag \subseteq received
(* Mutant: a serial number that is ahead is not noticed.                    *)
SerialsMatchOneWay ==
  \A i, j \in preqfrag : i < j => pfragment[i].serial <= pfragment[j].serial

SerialsMatch == \A i, j \in preqfrag : pfragment[i].serial = pfragment[j].serial
ScanDone == pc = "poll" /\ fragn > nfragment

(* Mutant: the fragments sent are not released.                             *)
SendEventKeepsReceived ==
  /\ ScanDone /\ Complete /\ SerialsMatch
  /\ events' = Append(events, [run |-> run, frags |-> [i \in preqfrag |-> pfragment[i]]])
  /\ timeout' = [i \in Channel |-> 0]
  /\ pc' = "stats"
  /\ UNCHANGED <<envVars, buf, fragn, status, preqfrag, received, pfragment, time, runVars,
                 staleStop, spawned>>

(* eb_user accepts the fragments, and the merged event is sent.             *)
SendEvent ==
  /\ ScanDone /\ Complete /\ SerialsMatch
  /\ events' = Append(events, [run |-> run, frags |-> [i \in preqfrag |-> pfragment[i]]])
  /\ received' = {} /\ timeout' = [i \in Channel |-> 0]
  /\ pc' = "stats"
  /\ UNCHANGED <<envVars, buf, fragn, status, preqfrag, pfragment, time, runVars,
                 staleStop, spawned>>

(* eb_user answers a mismatch with EB_USER_ERROR.                           *)
Mismatch ==
  /\ ScanDone /\ Complete /\ ~ SerialsMatch
  /\ pc' = "userError"
  /\ UNCHANGED <<envVars, buf, fragn, status, chVars, runVars, histVars>>

SendError ==
  /\ BmFails /\ ScanDone /\ Complete /\ SerialsMatch
  /\ pc' = "error"
  /\ UNCHANGED <<envVars, buf, fragn, status, chVars, runVars, histVars>>

(* An incomplete scan has the status of its last poll.                      *)
ScanGotLast ==
  /\ ScanDone /\ ~ Complete /\ status = "success"
  /\ pc' = "stats"
  /\ UNCHANGED <<envVars, buf, fragn, status, chVars, runVars, histVars>>

(* A channel that has been silent for too long while another one's fragment *)
(* is held: an mtransition command is spawned to stop the run, once.        *)
BadFragment ==
  /\ received # {}
  /\ \E i \in Channel : time[i] # 0 /\ timeout[i] # 0 /\ clock - time[i] > TIMEOUT_ABORT

(* Mutant: an mtransition is spawned each time the timeout is seen.         *)
ScanBadFragmentAgain ==
  /\ ScanDone /\ ~ Complete /\ status = "async" /\ BadFragment
  /\ waiting_for_stop' = TRUE /\ spawned' = spawned + 1
  /\ pc' = "stats"
  /\ UNCHANGED <<envVars, buf, fragn, status, chVars, run_state, stop_requested,
                 events, staleStop>>

ScanBadFragment ==
  /\ ScanDone /\ ~ Complete /\ status = "async" /\ BadFragment
  /\ IF ~ waiting_for_stop /\ ~ stop_requested
     THEN waiting_for_stop' = TRUE /\ spawned' = spawned + 1
     ELSE UNCHANGED <<waiting_for_stop, spawned>>
  /\ pc' = "stats"
  /\ UNCHANGED <<envVars, buf, fragn, status, chVars, run_state, stop_requested,
                 events, staleStop>>

ScanNoEvent ==
  /\ ScanDone /\ ~ Complete /\ status = "async" /\ ~ BadFragment
  /\ pc' = "timeouts" /\ fragn' = 1
  /\ UNCHANGED <<envVars, buf, status, chVars, runVars, histVars>>

(* Then the channels' timeouts are looked at in turn.                       *)
NoTimeout ==
  /\ pc = "timeouts"
  /\ IF fragn > nfragment THEN pc' = "stats" /\ UNCHANGED fragn
     ELSE timeout[fragn] <= TIMEOUT /\ fragn' = fragn + 1 /\ UNCHANGED pc
  /\ UNCHANGED <<envVars, buf, status, chVars, runVars, histVars>>

TimedOut == pc = "timeouts" /\ fragn <= nfragment /\ timeout[fragn] > TIMEOUT

TimingYield ==
  /\ TimedOut /\ ~ stop_requested
  /\ pc' = "timingYield"
  /\ UNCHANGED <<envVars, buf, fragn, status, chVars, runVars, histVars>>

TimingYieldReturns ==
  /\ pc = "timingYield"
  /\ pc' = "timeouts" /\ fragn' = fragn + 1
  /\ UNCHANGED <<envVars, buf, status, chVars, runVars, histVars>>

(* Mutants: the local run state, or the buffers, are left as they are.      *)
CloseBuffersStillRunning ==
  /\ pfragment' = [i \in Channel |-> Null] /\ buf' = [i \in Channel |-> <<>>]
  /\ UNCHANGED run_state

CloseBuffersNoFlush ==
  /\ run_state' = "stopped"
  /\ pfragment' = [i \in Channel |-> Null] /\ UNCHANGED buf

(* close_buffers: eb_end_of_run, then handFlush discards what is left in    *)
(* the buffers and source_unbooking closes them.                            *)
CloseBuffers ==
  /\ run_state' = "stopped"
  /\ pfragment' = [i \in Channel |-> Null] /\ buf' = [i \in Channel |-> <<>>]

CloseRun ==
  /\ TimedOut /\ stop_requested
  /\ CloseBuffers
  /\ pc' = "stats"
  /\ UNCHANGED <<envVars, fragn, status, preqfrag, received, timeout, time,
                 stop_requested, waiting_for_stop, histVars>>

CloseOnError ==
  /\ pc \in {"error", "userError"}
  /\ CloseBuffers
  /\ pc' = IF pc = "error" THEN "stopError" ELSE "stopUserError"
  /\ UNCHANGED <<envVars, fragn, status, preqfrag, received, timeout, time,
                 stop_requested, waiting_for_stop, histVars>>

(* cm_transition(TR_STOP) stops the frontends and calls mevb's own tr_stop; *)
(* it fails, five times, while another transition is in progress.  main     *)
(* restarts after a user error and leaves after any other.                  *)
StopOnError ==
  /\ pc \in {"stopError", "stopUserError"}
  /\ IF transition = "none"
     THEN /\ feRunning' = FALSE /\ odb' = "stopped"
          /\ stop_requested' = TRUE /\ waiting_for_stop' = FALSE /\ spawned' = 0
     ELSE UNCHANGED <<feRunning, odb, stop_requested, waiting_for_stop, spawned>>
  /\ pc' = IF pc = "stopError" THEN "exit" ELSE "restart"
  /\ UNCHANGED <<clock, transition, run, feSerial, lost, buf, fragn, status, chVars,
                 run_state, events, staleStop>>

(* main starts the next run itself if the logger restarts runs.             *)
Restart ==
  /\ pc = "restart" /\ pc' = "loop"
  /\ IF AutoRestart /\ transition = "none" /\ odb = "stopped" /\ run < MaxRuns
     THEN \E req \in RequiredSets, enabled \in EnabledValues :
            /\ StartEffects(req, enabled)
            /\ transition' = IF req = {} THEN "none" ELSE "startFe"
     ELSE UNCHANGED <<transition, run, buf, chVars, runVars>>
  /\ UNCHANGED <<clock, odb, feRunning, feSerial, lost, fragn, status, histVars>>

(* An operator starts mevb again; main refuses while a run is in progress.  *)
Relaunch ==
  /\ pc = "exit" /\ odb = "stopped" /\ transition = "none"
  /\ pc' = "loop" /\ fragn' = 1 /\ status' = "none"
  /\ run_state' = "stopped" /\ preqfrag' = {} /\ received' = {}
  /\ pfragment' = [i \in Channel |-> Null]
  /\ timeout' = [i \in Channel |-> 0] /\ time' = [i \in Channel |-> 0]
  /\ stop_requested' = TRUE /\ waiting_for_stop' = FALSE
  /\ staleStop' = FALSE /\ spawned' = 0
  /\ UNCHANGED <<envVars, buf, events>>

EbStep ==
  \/ Snooze \/ YieldReturns \/ Statistics \/ NoStatistics
  \/ StartScan \/ SkipChannel \/ ReceiveFragment \/ ReceiveNothing
  \/ ReceiveError \/ ReceiveErrorForgotten \/ SendEvent \/ Mismatch \/ SendError
  \/ ScanGotLast \/ ScanBadFragment \/ ScanNoEvent
  \/ NoTimeout \/ TimingYield \/ TimingYieldReturns \/ CloseRun
  \/ CloseOnError \/ StopOnError \/ Restart

Next == Environment \/ Callback \/ EbStep \/ Relaunch

Spec == Init /\ [][Next]_vars

(* mevb's loop runs on; the statistics job comes round every second, and a  *)
(* transition that waits for mevb is served when mevb yields often enough.  *)
(* The job is not due in every scan, so not in each that meets an error.    *)
Fairness ==
  /\ WF_vars(EbStep) /\ SF_vars(Statistics) /\ SF_vars(ReceiveError)
  /\ SF_vars(Callback) /\ WF_vars(FrontendsBegin) /\ WF_vars(TransitionWithoutEb)

FairSpec == Spec /\ Fairness

-----------------------------------------------------------------------------
(* Type invariant of the event builder and its environment.                 *)
TypeOK ==
  /\ clock \in 1 .. MaxClock /\ odb \in {"stopped", "running", "paused"}
  /\ transition \in {"none", "startEb", "startFe", "stopEb", "pauseEb", "resumeEb", "resumeFe"}
  /\ run \in 0 .. MaxRuns /\ feRunning \in BOOLEAN
  /\ feSerial \in [Channel -> 0 .. MaxTriggers] /\ lost \in 0 .. MaxLost
  /\ buf \in [Channel -> Seq(Fragment)]
  /\ pc \in {"loop", "yield", "stats", "statsYield", "poll", "timeouts", "timingYield",
            "error", "userError", "stopError", "stopUserError", "restart", "exit"}
  /\ fragn \in 1 .. nfragment + 1 /\ status \in {"none", "success", "async"}
  /\ run_state \in {"stopped", "running", "paused"}
  /\ preqfrag \subseteq Channel /\ received \subseteq Channel
  /\ pfragment \in [Channel -> Fragment \cup {Null, Unwritten}]
  /\ timeout \in [Channel -> 0 .. TIMEOUT + 1] /\ time \in [Channel -> 0 .. MaxClock]
  /\ stop_requested \in BOOLEAN /\ waiting_for_stop \in BOOLEAN
  /\ events \in Seq([run : 0 .. MaxRuns, frags : UNION {[c -> Fragment] : c \in SUBSET Channel}])
  /\ staleStop \in BOOLEAN /\ spawned \in Nat

(* A merged event has the fragments of one trigger of the current run, one  *)
(* of every required channel: neither a restart after an error nor a start  *)
(* in the middle of the previous run's draining mixes triggers or runs.     *)
MergedWhole ==
  \A k \in 1 .. Len(events) :
    LET e == events[k]
    IN /\ DOMAIN e.frags # {}
       /\ \A i, j \in DOMAIN e.frags : e.frags[i] = e.frags[j]
       /\ \A i \in DOMAIN e.frags : e.frags[i].run = e.run

(* No trigger is merged twice, and the merged events keep the order of the  *)
(* runs and of the triggers in each run.                                    *)
MergedInOrder ==
  \A j, k \in 1 .. Len(events) :
    j < k => \A i \in DOMAIN events[j].frags, l \in DOMAIN events[k].frags :
               \/ events[j].run < events[k].run
               \/ /\ events[j].run = events[k].run
                  /\ events[j].frags[i].serial < events[k].frags[l].serial

(* mevb polls only buffers it has open, whatever closed or booked them since*)
(* the scan began.                                                          *)
PollsBooked ==
  pc = "poll" => preqfrag \subseteq Booked

(* A held fragment was received in the current run.                         *)
HeldOfThisRun ==
  run_state = "running" /\ pc # "exit"
    => \A i \in received : pfragment[i].run = run

(* A run that must be stopped for a missing fragment spawns one mtransition,*)
(* however often the timeout is seen before the stop comes.                 *)
SpawnsOnce == spawned <= 1

(* The fragments of a channel that mevb holds or that wait in its buffer.   *)
Waiting(i) ==
  {buf[i][k] : k \in 1 .. Len(buf[i])} \cup {pfragment[j] : j \in received \cap {i}}
CompleteWaiting ==
  preqfrag # {} /\ \E f \in Fragment : \A i \in preqfrag : f \in Waiting(i)

(* eb_end_of_run is the hook "at completion of event collection after       *)
(* receiving the Stop transition": closing a run discards no event all of   *)
(* whose fragments have arrived.                                            *)
CloseLosesNothing == [][CloseRun => ~ CompleteWaiting]_vars

(* It does not if mevb has polled all channels since it was told to stop.   *)
CloseAfterScanLosesNothing == [][CloseRun /\ ~ staleStop => ~ CompleteWaiting]_vars

(* A stop transition leads to eb_end_of_run, or to the start of a new run,  *)
(* for a run that is not paused, unless a fragment stays missing past the   *)
(* abort timeout.                                                           *)
StopClosesUnlessBad ==
  (run_state = "running" /\ stop_requested)
    ~> (run_state # "running" \/ ~ stop_requested \/ BadFragment \/ pc = "exit")

(* mevb serves every run transition that waits for it.                      *)
TransitionsServed ==
  transition \in {"startEb", "stopEb", "pauseEb", "resumeEb"}
    ~> transition \in {"none", "startFe", "resumeFe"}

(* As long as mevb scans, an event whose fragments have all arrived is merged*)
(* in the end.                                                              *)
CompleteIsBuilt ==
  \A f \in Fragment :
    LET ready == preqfrag # {} /\ \A i \in preqfrag : f \in Waiting(i)
    IN (run_state = "running" /\ ready) ~> (run_state # "running" \/ ~ ready)
=============================================================================
