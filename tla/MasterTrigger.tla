---------------------------- MODULE MasterTrigger ---------------------------
(***************************************************************************)
(* The trigger master, frontends/MasterGM2, with its slave frontends.      *)
(*                                                                         *)
(* The master's trigger thread waits for the trigger of a fill and sends   *)
(* an end-of-fill message (EOF) to all slaves, one after the other.  A     *)
(* synchronous slave, CaloSimulatorAMC13, makes the AMC13 send its data,   *)
(* makes an event when it is polled, and answers READY; an asynchronous    *)
(* one, CaloReadoutAMC13, answers at once.  The master's main thread       *)
(* handles READY messages; the trigger thread drops a trigger unless all   *)
(* synchronous slaves were ready.  Triggers come from the parallel port,   *)
(* from the trigger server trigger_server.py through a socket, or from the *)
(* trigger thread itself.                                                  *)
(*                                                                         *)
(* RPCs over fast TCP return when they are sent: messages are delivered in *)
(* the order sent on each connection, some time later.                     *)
(***************************************************************************)
EXTENDS Naturals, Sequences, FiniteSetsExt

CONSTANTS
  MAX_NUM_SLAVE_FE,   \* number of enabled slaves
  Sync,               \* the slaves with slave_info[i].sync set
  SimStartSeq,        \* transition sequence of TR_START of the simulators
  Sources,            \* values of "Trigger source" in the ODB
  MaxRuns,            \* bound: runs
  MaxTriggers,        \* bound: triggers, over all runs
  QuietStop           \* TRUE: messages are served before the next frontend stops

Slave == 1 .. MAX_NUM_SLAVE_FE

ASSUME MasterAssumption ==
  /\ MAX_NUM_SLAVE_FE \in Nat /\ Sync \subseteq Slave
  /\ SimStartSeq \in Nat /\ Sources \subseteq {"PP", "SOCKET", "FAKE"}
  /\ MaxRuns \in Nat /\ MaxTriggers \in Nat
  /\ QuietStop \in BOOLEAN

VARIABLES
  transition,          \* "none", or the transition in progress
  inRun,               \* the frontends whose run_state is STATE_RUNNING
  run,                 \* run number
  triggers,            \* triggers that have come so far
  pcMain,              \* the master's main thread
  pcTrig,              \* the master's trigger thread
  slave,               \* the slave send_eof has come to
  mutex,               \* trigger_thread_info.mutex, TRUE while locked
  trigger_source, trigger_counter, trigger_nr,
  all_frontends_ready,
  ready,               \* [slave -> slave_info[i].ready]
  overlapped,          \* history: rpc_g2_ready and send_eof have overlapped in the run
  masterEvents,        \* history: trigger numbers of the master's events of the run
  sock,                \* bytes of the trigger server's EOF messages in the socket
  running,             \* the trigger server's ControlThread.running
  commands,            \* what the server has not yet received: "BOR" with a connection
                       \* before it, "EOR" with the end of the connection after it
  fills,               \* the server's send_fill calls that sleep until their EOF
  interrupt_ready, interrupt_count,   \* the parallel port driver
  enabled,             \* DAQenable is on: 0x00 was the last value written
  eofs,                \* [slave -> EOFs on their way to it]
  readys,              \* [slave -> number of READYs on their way from it]
  data_avail,          \* [slave -> the simulator's data_avail]
  slave_nr,            \* [slave -> its trigger_info.trigger_nr]
  slaveEvents          \* history: [slave -> trigger numbers of its events of the run]

driverVars == <<interrupt_ready, interrupt_count, enabled>>
readyVars == <<all_frontends_ready, ready, overlapped>>
serverVars == <<running, commands, fills>>
socketVars == <<sock, serverVars>>
slaveVars == <<data_avail, slave_nr, slaveEvents>>
countVars == <<trigger_counter, trigger_nr, masterEvents>>
midasVars == <<transition, inRun, run>>
vars == <<midasVars, triggers, pcMain, pcTrig, slave, mutex, trigger_source, countVars,
          readyVars, socketVars, driverVars, eofs, readys, slaveVars>>

Master == 0
Frontend == Slave \cup {Master}
Readouts == Slave \ Sync
have_sync_frontends == Sync # {}
EofSize == 5       \* send_msg of the server sends "EOF" and two NUL characters
PointerSize == 8   \* sizeof(input_buffer) in recv_msg, where it is a char*

Init ==
  /\ transition = "none" /\ inRun = {} /\ run = 0 /\ triggers = 0
  /\ pcMain = "loop" /\ pcTrig = "lock" /\ slave = 1 /\ mutex = TRUE
  /\ trigger_source = "UNKNOWN" /\ trigger_counter = 0 /\ trigger_nr = 0
  /\ all_frontends_ready = FALSE /\ ready = [s \in Slave |-> FALSE] /\ overlapped = FALSE
  /\ masterEvents = <<>> /\ sock = 0
  /\ running = FALSE /\ commands = <<>> /\ fills = 0
  /\ interrupt_ready = FALSE /\ interrupt_count = 0 /\ enabled = FALSE
  /\ eofs = [s \in Slave |-> <<>>] /\ readys = [s \in Slave |-> 0]
  /\ data_avail = [s \in Slave |-> FALSE] /\ slave_nr = [s \in Slave |-> 0]
  /\ slaveEvents = [s \in Slave |-> <<>>]

-----------------------------------------------------------------------------
(* Run transitions (MIDAS, external): the frontends are called in the order *)
(* of their sequence numbers.                                               *)
StartSeq(f) == IF f = Master THEN 499 ELSE IF f \in Sync THEN SimStartSeq ELSE 500
StopSeq(f) == IF f = Master THEN 500 ELSE IF f \in Sync THEN 499 ELSE 501

CanStart(f) ==
  /\ transition = "start" /\ f \in Frontend \ inRun
  /\ \A g \in Frontend : StartSeq(g) < StartSeq(f) => g \in inRun
CanStop(f) ==
  /\ transition = "stop" /\ f \in inRun
  /\ \A g \in Frontend : StopSeq(g) < StopSeq(f) => g \notin inRun

Started(f) ==
  /\ inRun' = inRun \cup {f}
  /\ transition' = IF inRun' = Frontend THEN "none" ELSE transition
Stopped(f) ==
  /\ inRun' = inRun \ {f}
  /\ transition' = IF inRun' = {} THEN "none" ELSE transition

RequestTransition ==
  /\ transition = "none"
  /\ \/ inRun = {} /\ run < MaxRuns /\ transition' = "start" /\ run' = run + 1
     \/ inRun # {} /\ transition' = "stop" /\ UNCHANGED run
  /\ UNCHANGED <<inRun, triggers, pcMain, pcTrig, slave, mutex, trigger_source, countVars,
                 readyVars, socketVars, driverVars, eofs, readys, slaveVars>>

-----------------------------------------------------------------------------
(* The trigger thread has finished with a trigger: it unlocks its mutex.    *)
Unlock == pcTrig' = "lock" /\ mutex' = FALSE
InService == Master \in inRun /\ pcMain # "asleep"
PortOpen == trigger_source = "PP" /\ InService

(* Triggers: an interrupt of the parallel port, of which the driver keeps   *)
(* the first until it is read ...                                           *)
Interrupt ==
  /\ PortOpen /\ triggers < MaxTriggers
  /\ triggers' = triggers + 1
  /\ interrupt_count' = interrupt_count + 1 /\ interrupt_ready' = TRUE
  /\ UNCHANGED <<midasVars, pcMain, pcTrig, slave, mutex, trigger_source, countVars,
                 readyVars, socketVars, enabled, eofs, readys, slaveVars>>

(* ... or a fake one, generated in the trigger thread when it is due.  An   *)
(* iteration of the thread that finds no trigger changes nothing.           *)
FakeTrigger ==
  /\ pcTrig = "lock" /\ ~ mutex /\ trigger_source = "FAKE" /\ triggers < MaxTriggers
  /\ triggers' = triggers + 1
  /\ trigger_counter' = trigger_counter + 1 /\ trigger_nr' = trigger_counter'
  /\ mutex' = TRUE /\ pcTrig' = "check"
  /\ UNCHANGED <<midasVars, pcMain, slave, trigger_source, masterEvents, readyVars,
                 socketVars, driverVars, eofs, readys, slaveVars>>

(* recv_msg reads as many bytes as a pointer has.  strstr looks for "EOF" up*)
(* to the first NUL, so it finds it only if the bytes begin with a message: *)
(* it is then a trigger, whatever is behind it ...                          *)
Received == Min({PointerSize, sock})
HasEof == sock > 0 /\ sock % EofSize = 0

SocketTrigger ==
  /\ pcTrig = "lock" /\ ~ mutex /\ trigger_source = "SOCKET"
  /\ HasEof /\ sock' = sock - Received
  /\ trigger_counter' = trigger_counter + 1 /\ trigger_nr' = trigger_counter'
  /\ mutex' = TRUE /\ pcTrig' = "check"
  /\ UNCHANGED <<midasVars, triggers, pcMain, slave, trigger_source, masterEvents,
                 readyVars, serverVars, driverVars, eofs, readys, slaveVars>>

(* ... and otherwise an unexpected command, which is reported.              *)
SocketUnexpected ==
  /\ pcTrig = "lock" /\ ~ mutex /\ trigger_source = "SOCKET"
  /\ sock > 0 /\ ~ HasEof /\ sock' = sock - Received
  /\ UNCHANGED <<midasVars, triggers, pcMain, pcTrig, slave, mutex, trigger_source,
                 countVars, readyVars, serverVars, driverVars, eofs, readys, slaveVars>>

(* poll() reports an interrupt; DAQenable is switched off ...               *)
PollParport ==
  /\ pcTrig = "lock" /\ ~ mutex /\ trigger_source = "PP" /\ interrupt_ready
  /\ mutex' = TRUE /\ enabled' = FALSE /\ pcTrig' = "ppRead"
  /\ UNCHANGED <<midasVars, triggers, pcMain, slave, trigger_source, countVars, readyVars,
                 socketVars, interrupt_ready, interrupt_count, eofs, readys, slaveVars>>

(* ... and the trigger is read, which waits for the next if it is gone.     *)
ReadParport ==
  /\ pcTrig = "ppRead" /\ interrupt_ready
  /\ interrupt_ready' = FALSE
  /\ trigger_counter' = trigger_counter + 1 /\ trigger_nr' = interrupt_count
  /\ pcTrig' = "check"
  /\ UNCHANGED <<midasVars, triggers, pcMain, slave, mutex, trigger_source, masterEvents,
                 readyVars, socketVars, interrupt_count, enabled, eofs, readys,
                 slaveVars>>

(* send_eof drops the trigger if not all frontends are ready ...            *)
DropTrigger ==
  /\ pcTrig = "check" /\ have_sync_frontends /\ ~ all_frontends_ready
  /\ Unlock
  /\ UNCHANGED <<midasVars, triggers, pcMain, slave, trigger_source, trigger_counter,
                 trigger_nr, masterEvents, readyVars, socketVars, driverVars, eofs,
                 readys, slaveVars>>

(* The threads share the flags without a lock.  They overlap to effect when *)
(* the main thread has found all slaves ready, but not said so yet, while   *)
(* the trigger thread takes the flag back, or has not yet taken back all of *)
(* the slaves' own flags.                                                   *)
GoingRound == pcTrig = "eof" /\ \E s \in Sync : slave <= s

(* Mutant: the flag stays set while the slaves are busy.                    *)
AcceptTriggerKeepsFlag ==
  /\ pcTrig = "check" /\ (have_sync_frontends => all_frontends_ready)
  /\ overlapped' = (overlapped \/ pcMain = "allReady")
  /\ pcTrig' = "eof" /\ slave' = 1
  /\ UNCHANGED <<midasVars, triggers, pcMain, mutex, trigger_source, countVars, all_frontends_ready,
                 ready,
                 socketVars, driverVars, eofs, readys, slaveVars>>

AcceptTrigger ==
  /\ pcTrig = "check" /\ (have_sync_frontends => all_frontends_ready)
  /\ overlapped' = (overlapped \/ pcMain = "allReady")
  /\ all_frontends_ready' = FALSE
  /\ pcTrig' = "eof" /\ slave' = 1
  /\ UNCHANGED <<midasVars, triggers, pcMain, mutex, trigger_source, countVars, ready,
                 socketVars, driverVars, eofs, readys, slaveVars>>

(* Mutant: the loop over the slaves goes one too far.                       *)
SendEofTooFar ==
  /\ pcTrig = "eof" /\ slave <= MAX_NUM_SLAVE_FE + 1
  /\ ready' = IF slave \in Sync THEN [ready EXCEPT ![slave] = FALSE] ELSE ready
  /\ eofs' = [eofs EXCEPT ![slave] = Append(@, trigger_nr)]
  /\ slave' = slave + 1
  /\ UNCHANGED <<midasVars, triggers, pcMain, pcTrig, mutex, trigger_source, countVars,
                 all_frontends_ready, overlapped, socketVars, driverVars, readys, slaveVars>>

(* ... and goes round the slaves otherwise.  Clearing a slave's flag and    *)
(* sending its EOF is one step: nothing that reads the flag tells them apart*)
(* until the EOF has arrived.                                               *)
SendEof ==
  /\ pcTrig = "eof" /\ slave \in Slave
  /\ ready' = IF slave \in Sync THEN [ready EXCEPT ![slave] = FALSE] ELSE ready
  /\ eofs' = [eofs EXCEPT ![slave] = Append(@, trigger_nr)]
  /\ slave' = slave + 1
  /\ UNCHANGED <<midasVars, triggers, pcMain, pcTrig, mutex, trigger_source, countVars,
                 all_frontends_ready, overlapped, socketVars, driverVars, readys, slaveVars>>

SendEvent ==
  /\ pcTrig = "eof" /\ slave \notin Slave
  /\ masterEvents' = Append(masterEvents, trigger_nr)
  /\ Unlock
  /\ UNCHANGED <<midasVars, triggers, pcMain, slave, trigger_source, trigger_counter,
                 trigger_nr, readyVars, socketVars, driverVars, eofs, readys, slaveVars>>

TriggerThread ==
  \/ FakeTrigger \/ SocketTrigger \/ SocketUnexpected \/ PollParport \/ ReadParport
  \/ DropTrigger \/ AcceptTrigger \/ SendEof \/ SendEvent

-----------------------------------------------------------------------------
(* The trigger server, trigger_server.py.  Its control thread serves one    *)
(* connection of the master after the other.  When it receives BOR it starts*)
(* a run: fake triggers begin with a first fill at once, however soon the   *)
(* run is stopped again, real ones with the next interrupt.                 *)
AtServer(command) == commands # <<>> /\ Head(commands) = command

ServerBegins ==
  /\ AtServer("BOR") /\ commands' = Tail(commands) /\ running' = TRUE
  /\ \E first \in 0 .. Min({1, MaxTriggers - triggers}) :
       triggers' = triggers + first /\ fills' = fills + first
  /\ UNCHANGED <<midasVars, pcMain, pcTrig, slave, mutex, trigger_source, countVars,
                 readyVars, sock, driverVars, eofs, readys, slaveVars>>

(* EOR, or the end of the connection, stops the run; a send_fill that sleeps*)
(* is not told.                                                             *)
ServerEnds ==
  /\ AtServer("EOR") /\ commands' = Tail(commands) /\ running' = FALSE
  /\ UNCHANGED <<midasVars, triggers, pcMain, pcTrig, slave, mutex, trigger_source,
                 countVars, readyVars, sock, fills, driverVars, eofs, readys, slaveVars>>

(* A trigger of the server's run starts send_fill, which sleeps for the     *)
(* length of a fill.  It has ended when the next trigger comes: interrupts  *)
(* wait for it, and the period of fake ones is not shorter ...              *)
ServerTrigger ==
  /\ running /\ fills = 0 /\ triggers < MaxTriggers
  /\ triggers' = triggers + 1 /\ fills' = fills + 1
  /\ UNCHANGED <<midasVars, pcMain, pcTrig, slave, mutex, trigger_source, countVars,
                 readyVars, sock, running, commands, driverVars, eofs, readys, slaveVars>>

(* ... and sends EOF on the connection the server has by then.  It is lost  *)
(* if there is none or the master has closed it.                            *)
send_fill ==
  /\ fills > 0 /\ fills' = fills - 1
  /\ sock' = IF running /\ commands = <<>> THEN sock + EofSize ELSE sock
  /\ UNCHANGED <<midasVars, triggers, pcMain, pcTrig, slave, mutex, trigger_source,
                 countVars, readyVars, running, commands, driverVars, eofs, readys,
                 slaveVars>>

TriggerServer == ServerBegins \/ ServerEnds \/ ServerTrigger \/ send_fill

-----------------------------------------------------------------------------
(* The master's main thread.                                                *)
(* Mutant: one ready slave is enough.                                       *)
CheckRpcReadyAny(flags) == \E s \in Sync : flags[s]

check_rpc_ready(flags) == \A s \in Sync : flags[s]

(* rpc_g2_ready notes the slave, and checks if all slaves are ready ...     *)
HandleReady(s) ==
  /\ pcMain = "loop" /\ readys[s] > 0
  /\ readys' = [readys EXCEPT ![s] = @ - 1]
  /\ ready' = [ready EXCEPT ![s] = TRUE]
  /\ pcMain' = IF have_sync_frontends /\ check_rpc_ready(ready') THEN "allReady" ELSE "loop"
  /\ overlapped' = (overlapped \/ (pcMain' = "allReady" /\ GoingRound))
  /\ UNCHANGED <<midasVars, triggers, pcTrig, slave, mutex, trigger_source, countVars,
                 all_frontends_ready, socketVars, driverVars, eofs, slaveVars>>

(* ... if they are it reads a trigger, from an open parallel port, before it*)
(* says so.  The slaves do nothing when they are then told to arm.          *)
AllReady ==
  /\ pcMain = "allReady"
  /\ PortOpen => interrupt_ready
  /\ interrupt_ready' = (interrupt_ready /\ ~ PortOpen)
  /\ all_frontends_ready' = TRUE /\ pcMain' = "loop"
  /\ UNCHANGED <<midasVars, triggers, pcTrig, slave, mutex, trigger_source, countVars,
                 ready, overlapped, socketVars, interrupt_count, enabled, eofs, readys, slaveVars>>

(* frontend_loop switches DAQenable on when all frontends are ready.        *)
FrontendLoop ==
  /\ pcMain = "loop" /\ trigger_source = "PP" /\ Master \in inRun
  /\ have_sync_frontends => all_frontends_ready
  /\ all_frontends_ready' = FALSE
  /\ enabled' = TRUE
  /\ UNCHANGED <<midasVars, triggers, pcMain, pcTrig, slave, mutex, trigger_source,
                 countVars, ready, overlapped, socketVars, interrupt_ready, interrupt_count, eofs,
                 readys, slaveVars>>

(* Mutant: begin_of_run does not resume the trigger thread.                 *)
BeginOfRunNoUnlock ==
  /\ pcMain = "loop" /\ CanStart(Master)
  /\ Started(Master)
  /\ trigger_source' \in Sources
  /\ all_frontends_ready' = FALSE /\ mutex' = mutex
  /\ interrupt_ready' = FALSE /\ interrupt_count' = 0 /\ enabled' = FALSE
  /\ sock' = 0 /\ masterEvents' = <<>> /\ overlapped' = FALSE
  /\ commands' = IF trigger_source' = "SOCKET" THEN Append(commands, "BOR") ELSE commands
  /\ UNCHANGED <<run, triggers, pcMain, pcTrig, slave, trigger_counter, trigger_nr, ready,
                 running, fills, eofs, readys, slaveVars>>

(* begin_of_run forgets the readiness of the run before, opens and connects *)
(* the trigger source, and resumes the trigger thread.                      *)
BeginOfRun ==
  /\ pcMain = "loop" /\ CanStart(Master)
  /\ Started(Master)
  /\ trigger_source' \in Sources
  /\ all_frontends_ready' = FALSE /\ mutex' = FALSE
  /\ interrupt_ready' = FALSE /\ interrupt_count' = 0 /\ enabled' = FALSE
  /\ sock' = 0 /\ masterEvents' = <<>> /\ overlapped' = FALSE
  /\ commands' = IF trigger_source' = "SOCKET" THEN Append(commands, "BOR") ELSE commands
  /\ UNCHANGED <<run, triggers, pcMain, pcTrig, slave, trigger_counter, trigger_nr, ready,
                 running, fills, eofs, readys, slaveVars>>

(* Mutant: end_of_run does not suspend the trigger thread.                  *)
EndOfRunNoLock ==
  /\ pcMain = "loop" /\ CanStop(Master)
  /\ QuietStop => \A s \in Sync : readys[s] = 0
  /\ ready' = [s \in Slave |-> FALSE] /\ sock' = 0
  /\ commands' = IF trigger_source = "SOCKET" THEN Append(commands, "EOR") ELSE commands
  /\ pcMain' = "asleep"
  /\ UNCHANGED <<midasVars, triggers, pcTrig, slave, mutex, trigger_source, countVars,
                 all_frontends_ready, overlapped, running, fills, driverVars, eofs, readys,
                 slaveVars>>

(* end_of_run suspends the trigger thread, resets the slaves' flags, and    *)
(* sleeps while data is processed.                                          *)
EndOfRun ==
  /\ pcMain = "loop" /\ CanStop(Master) /\ ~ mutex
  /\ QuietStop => \A s \in Sync : readys[s] = 0
  /\ mutex' = TRUE
  /\ ready' = [s \in Slave |-> FALSE] /\ sock' = 0
  /\ commands' = IF trigger_source = "SOCKET" THEN Append(commands, "EOR") ELSE commands
  /\ pcMain' = "asleep"
  /\ UNCHANGED <<midasVars, triggers, pcTrig, slave, trigger_source, countVars,
                 all_frontends_ready, overlapped, running, fills, driverVars, eofs, readys,
                 slaveVars>>

SleepEnds ==
  /\ pcMain = "asleep"
  /\ QuietStop => commands = <<>> /\ fills = 0 /\ \A s \in Slave : eofs[s] = <<>>
  /\ pcMain' = "loop" /\ Stopped(Master)
  /\ UNCHANGED <<run, triggers, pcTrig, slave, mutex, trigger_source, countVars,
                 readyVars, socketVars, driverVars, eofs, readys, slaveVars>>

MainThread ==
  \/ \E s \in Slave : HandleReady(s)
  \/ AllReady \/ FrontendLoop \/ BeginOfRun \/ EndOfRun \/ SleepEnds

-----------------------------------------------------------------------------
(* The slaves.  frontend_rpc_bor tells the master that the slave is ready.  *)
SlaveBegin(s) ==
  /\ CanStart(s) /\ Started(s)
  /\ data_avail' = [data_avail EXCEPT ![s] = FALSE]
  /\ slaveEvents' = [slaveEvents EXCEPT ![s] = <<>>]
  /\ readys' = [readys EXCEPT ![s] = @ + 1]
  /\ UNCHANGED <<run, triggers, pcMain, pcTrig, slave, mutex, trigger_source, countVars,
                 readyVars, socketVars, driverVars, eofs, slave_nr>>

SlaveEnd(s) ==
  /\ CanStop(s) /\ Stopped(s)
  /\ QuietStop /\ s \in Sync => eofs[s] = <<>> /\ readys[s] = 0 /\ ~ data_avail[s]
  /\ UNCHANGED <<run, triggers, pcMain, pcTrig, slave, mutex, trigger_source, countVars,
                 readyVars, socketVars, driverVars, eofs, readys, slaveVars>>

(* rpc_g2_end_of_fill of a simulator makes the AMC13 send the fill; that of *)
(* a readout frontend answers READY.                                        *)
SimulatorEof(s) ==
  /\ s \in Sync /\ eofs[s] # <<>>
  /\ eofs' = [eofs EXCEPT ![s] = Tail(@)]
  /\ slave_nr' = [slave_nr EXCEPT ![s] = Head(eofs[s])]
  /\ data_avail' = [data_avail EXCEPT ![s] = TRUE]
  /\ UNCHANGED <<midasVars, triggers, pcMain, pcTrig, slave, mutex, trigger_source,
                 countVars, readyVars, socketVars, driverVars, readys, slaveEvents>>

ReadoutEof(s) ==
  /\ s \in Readouts /\ eofs[s] # <<>>
  /\ eofs' = [eofs EXCEPT ![s] = Tail(@)]
  /\ slave_nr' = [slave_nr EXCEPT ![s] = Head(eofs[s])]
  /\ readys' = [readys EXCEPT ![s] = @ + 1]
  /\ UNCHANGED <<midasVars, triggers, pcMain, pcTrig, slave, mutex, trigger_source,
                 countVars, readyVars, socketVars, driverVars, data_avail, slaveEvents>>

(* Mutant: the simulator's event is made without a READY.                   *)
SimulatorEventNoReady(s) ==
  /\ s \in inRun /\ data_avail[s]
  /\ data_avail' = [data_avail EXCEPT ![s] = FALSE]
  /\ slaveEvents' = [slaveEvents EXCEPT ![s] = Append(@, slave_nr[s])]
  /\ UNCHANGED <<midasVars, triggers, pcMain, pcTrig, slave, mutex, trigger_source,
                 countVars, readyVars, socketVars, driverVars, eofs, readys, slave_nr>>

(* poll_event and read_trigger_event of a simulator.                        *)
SimulatorEvent(s) ==
  /\ s \in inRun /\ data_avail[s]
  /\ data_avail' = [data_avail EXCEPT ![s] = FALSE]
  /\ slaveEvents' = [slaveEvents EXCEPT ![s] = Append(@, slave_nr[s])]
  /\ readys' = [readys EXCEPT ![s] = @ + 1]
  /\ UNCHANGED <<midasVars, triggers, pcMain, pcTrig, slave, mutex, trigger_source,
                 countVars, readyVars, socketVars, driverVars, eofs, slave_nr>>

SlaveStep(s) ==
  \/ SlaveBegin(s) \/ SlaveEnd(s) \/ SimulatorEof(s) \/ ReadoutEof(s) \/ SimulatorEvent(s)

Next ==
  \/ RequestTransition \/ Interrupt \/ TriggerServer
  \/ TriggerThread \/ MainThread
  \/ \E s \in Slave : SlaveStep(s)

Spec == Init /\ [][Next]_vars

(* All threads, the server and the frontends run on; the trigger thread     *)
(* unlocks its mutex in every iteration, and a fill that sleeps wakes up.   *)
(* Triggers and transitions need not come.                                  *)
Fairness ==
  /\ WF_vars(TriggerThread) /\ WF_vars(MainThread)
  /\ WF_vars(ServerBegins \/ ServerEnds) /\ WF_vars(send_fill)
  /\ \A s \in Slave : WF_vars(SlaveStep(s))

FairSpec == Spec /\ Fairness

-----------------------------------------------------------------------------
(* Type invariant of the master and its slaves.                             *)
TypeOK ==
  /\ transition \in {"none", "start", "stop"} /\ inRun \subseteq Frontend
  /\ run \in 0 .. MaxRuns /\ triggers \in 0 .. MaxTriggers
  /\ pcMain \in {"loop", "allReady", "asleep"}
  /\ pcTrig \in {"lock", "ppRead", "check", "eof"}
  /\ slave \in 1 .. MAX_NUM_SLAVE_FE + 1 /\ mutex \in BOOLEAN
  /\ trigger_source \in Sources \cup {"UNKNOWN"}
  /\ trigger_counter \in Nat /\ trigger_nr \in Nat
  /\ all_frontends_ready \in BOOLEAN /\ ready \in [Slave -> BOOLEAN] /\ overlapped \in BOOLEAN
  /\ masterEvents \in Seq(Nat) /\ sock \in Nat
  /\ running \in BOOLEAN /\ commands \in Seq({"BOR", "EOR"}) /\ fills \in 0 .. MaxTriggers
  /\ interrupt_ready \in BOOLEAN /\ interrupt_count \in Nat
  /\ enabled \in BOOLEAN
  /\ eofs \in [Slave -> Seq(Nat)] /\ readys \in [Slave -> Nat]
  /\ data_avail \in [Slave -> BOOLEAN] /\ slave_nr \in [Slave -> Nat]
  /\ slaveEvents \in [Slave -> Seq(Nat)]

(* "check if all are ready for a trigger": when the trigger thread accepts  *)
(* a trigger, every synchronous slave is in the run and has made the event  *)
(* of the fill before.                                                      *)
Idle(s) == s \in inRun /\ eofs[s] = <<>> /\ ~ data_avail[s]
AcceptsWhenIdle ==
  AcceptTrigger /\ trigger_source # "PP" => \A s \in Sync : Idle(s) \/ transition = "stop"
OnlyIdleGetEof == [][AcceptsWhenIdle]_vars

(* Nothing but the overlap of the two threads makes it fail: whatever the   *)
(* order of messages, a busy slave gets an EOF only in a run in which a     *)
(* READY was handled while a trigger was being sent round.                  *)
BusyOnlyByOverlap == [][~ overlapped => AcceptsWhenIdle]_vars

(* The n-th event of the master in a run and the n-th event of each         *)
(* synchronous slave are of the same trigger, up to an overlap of the two   *)
(* threads: the event builder compares their serial numbers.                *)
SerialsAgree ==
  trigger_source # "PP" /\ ~ overlapped =>
    \A s \in Sync \cap inRun : \A n \in 1 .. Min({Len(masterEvents), Len(slaveEvents[s])}) :
      slaveEvents[s][n] = masterEvents[n]

(* "have simulator start last after master / readout to make sure readout   *)
(* gets all data/triggers", and stop first: a simulator makes the AMC13     *)
(* send a fill only while all readout frontends are in the run.             *)
FillsInRun == [][\A s \in Sync : SimulatorEof(s) => Readouts \subseteq inRun]_vars

(* After a fill all frontends become ready for the next one.                *)
ReadyAgain ==
  (pcTrig = "eof" /\ trigger_source # "PP")
    ~> (all_frontends_ready \/ transition = "stop")

(* A stop is served to the end, unless the main thread waits for a trigger. *)
StopServed ==
  (transition = "stop" /\ trigger_source # "PP") ~> (transition = "none")
=============================================================================
