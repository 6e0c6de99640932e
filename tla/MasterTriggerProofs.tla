------------------------ MODULE MasterTriggerProofs ------------------------
(***************************************************************************)
(* Theorems about MasterTrigger, for any number of slaves, runs and        *)
(* triggers, any set of synchronous slaves and any trigger sources; at the *)
(* end, that it implements FillBarrier.                                    *)
(***************************************************************************)
EXTENDS MasterTriggerRefinement, TLAPS

(* Min is a CHOOSE; of two numbers it is one of them, and not above either. *)
LEMMA MinOfTwo ==
  ASSUME NEW a \in Nat, NEW b \in Nat
  PROVE  Min({a, b}) \in Nat /\ Min({a, b}) \in {a, b} /\ Min({a, b}) <= a /\ Min({a, b}) <= b
  <1>1. \E x \in {a, b} : \A y \in {a, b} : x <= y
    <2>1. CASE a <= b
      BY <2>1
    <2>2. CASE b <= a
      BY <2>2
    <2> QED
      BY <2>1, <2>2
  <1>2. Min({a, b}) \in {a, b} /\ \A y \in {a, b} : Min({a, b}) <= y
    BY <1>1, Zenon DEF Min
  <1> QED
    BY <1>2

LEMMA ReceivedIsRead == ASSUME sock \in Nat PROVE Received \in Nat /\ Received <= sock
  BY MinOfTwo DEF Received, PointerSize

-----------------------------------------------------------------------------
(* Types.  A fill the server has begun is a trigger that has come.          *)
TypeInv == TypeOK /\ fills <= triggers

LEMMA InitTypeInv == Init => TypeInv
  <1> SUFFICES ASSUME Init PROVE TypeInv
    OBVIOUS
  <1>1. /\ ready \in [Slave -> BOOLEAN] /\ data_avail \in [Slave -> BOOLEAN]
        /\ eofs \in [Slave -> Seq(Nat)] /\ slaveEvents \in [Slave -> Seq(Nat)]
        /\ readys \in [Slave -> Nat] /\ slave_nr \in [Slave -> Nat]
    BY DEF Init
  <1>2. masterEvents \in Seq(Nat) /\ commands \in Seq({"BOR", "EOR"})
    BY DEF Init
  <1>3. /\ mutex \in BOOLEAN /\ all_frontends_ready \in BOOLEAN /\ running \in BOOLEAN
        /\ interrupt_ready \in BOOLEAN /\ enabled \in BOOLEAN /\ overlapped \in BOOLEAN
    BY Zenon DEF Init
  <1> QED
    BY <1>1, <1>2, <1>3, MasterAssumption DEF Init, TypeInv, TypeOK

LEMMA StartedType ==
  ASSUME TypeOK, NEW f \in Frontend, Started(f) \/ Stopped(f)
  PROVE  inRun' \subseteq Frontend /\ transition' \in {"none", "start", "stop"}
  BY DEF TypeOK, Started, Stopped

LEMMA NextTypeInv == TypeInv /\ [Next]_vars => TypeInv'
  <1> SUFFICES ASSUME TypeInv, [Next]_vars PROVE TypeInv'
    OBVIOUS
  <1> USE MasterAssumption DEF TypeInv, TypeOK, midasVars
  <1>1. CASE RequestTransition
    BY <1>1 DEF RequestTransition, countVars, readyVars, socketVars, serverVars, driverVars, slaveVars
  <1>2. CASE Interrupt
    BY <1>2 DEF Interrupt, countVars, readyVars, socketVars, serverVars, slaveVars
  <1>3. CASE ServerBegins
    <2>1. MaxTriggers - triggers \in Nat
      OBVIOUS
    <2>2. PICK first \in 0 .. Min({1, MaxTriggers - triggers}) :
            triggers' = triggers + first /\ fills' = fills + first
      BY <1>3 DEF ServerBegins
    <2>3. triggers' \in 0 .. MaxTriggers /\ fills' \in 0 .. MaxTriggers /\ fills' <= triggers'
      <3>1. Min({1, MaxTriggers - triggers}) \in Nat
        BY <2>1, MinOfTwo
      <3>2. Min({1, MaxTriggers - triggers}) <= MaxTriggers - triggers
        BY <2>1, MinOfTwo
      <3>3. first \in Nat /\ first <= MaxTriggers - triggers
        BY <2>1, <3>1, <3>2
      <3> QED
        BY <2>2, <3>3
    <2>4. commands' \in Seq({"BOR", "EOR"})
      BY <1>3 DEF ServerBegins, AtServer
    <2> QED
      BY <1>3, <2>3, <2>4 DEF ServerBegins, countVars, readyVars, driverVars, slaveVars
  <1>4. CASE ServerEnds
    <2>1. commands' \in Seq({"BOR", "EOR"})
      BY <1>4 DEF ServerEnds, AtServer
    <2>2. running' \in BOOLEAN
      BY <1>4 DEF ServerEnds
    <2> QED
      BY <1>4, <2>1, <2>2 DEF ServerEnds, AtServer, countVars, readyVars, driverVars, slaveVars
  <1>5. CASE ServerTrigger
    BY <1>5 DEF ServerTrigger, countVars, readyVars, driverVars, slaveVars
  <1>6. CASE send_fill
    BY <1>6 DEF send_fill, EofSize, countVars, readyVars, driverVars, slaveVars
  <1>7. CASE FakeTrigger
    BY <1>7 DEF FakeTrigger, readyVars, socketVars, serverVars, driverVars, slaveVars
  <1>8. CASE SocketTrigger
    BY <1>8, ReceivedIsRead DEF SocketTrigger, readyVars, serverVars, driverVars, slaveVars
  <1>9. CASE SocketUnexpected
    BY <1>9, ReceivedIsRead
    DEF SocketUnexpected, countVars, readyVars, serverVars, driverVars, slaveVars
  <1>10. CASE PollParport
    BY <1>10 DEF PollParport, countVars, readyVars, socketVars, serverVars, slaveVars
  <1>11. CASE ReadParport
    <2>1. interrupt_ready' \in BOOLEAN
      BY <1>11 DEF ReadParport
    <2> QED
      BY <1>11, <2>1 DEF ReadParport, readyVars, socketVars, serverVars, slaveVars
  <1>12. CASE DropTrigger
    BY <1>12 DEF DropTrigger, Unlock, readyVars, socketVars, serverVars, driverVars, slaveVars
  <1>13. CASE AcceptTrigger
    <2>1. all_frontends_ready' \in BOOLEAN
      BY <1>13 DEF AcceptTrigger
    <2>2. slave' \in 1 .. MAX_NUM_SLAVE_FE + 1
      BY <1>13 DEF AcceptTrigger
    <2> QED
      BY <1>13, <2>1, <2>2 DEF AcceptTrigger, countVars, socketVars, serverVars, driverVars, slaveVars
  <1>14. CASE SendEof
    <2>1. slave' \in 1 .. MAX_NUM_SLAVE_FE + 1
      BY <1>14 DEF SendEof, Slave
    <2>2. eofs' \in [Slave -> Seq(Nat)] /\ ready' \in [Slave -> BOOLEAN]
      BY <1>14, SMTT(30) DEF SendEof
    <2>3. UNCHANGED <<midasVars, triggers, pcMain, pcTrig, mutex, trigger_source, countVars,
                      all_frontends_ready, overlapped, socketVars, driverVars, readys, slaveVars>>
      BY <1>14, Zenon DEF SendEof
    <2> QED
      BY <2>1, <2>2, <2>3, SMTT(30) DEF countVars, socketVars, serverVars, driverVars, slaveVars
  <1>15. CASE SendEvent
    <2>1. masterEvents' \in Seq(Nat)
      BY <1>15 DEF SendEvent
    <2>2. mutex' \in BOOLEAN
      BY <1>15 DEF SendEvent, Unlock
    <2> QED
      BY <1>15, <2>1, <2>2 DEF SendEvent, Unlock, readyVars, socketVars, serverVars, driverVars, slaveVars
  <1>16. ASSUME NEW s \in Slave, HandleReady(s) PROVE TypeInv'
    BY <1>16 DEF HandleReady, countVars, socketVars, serverVars, driverVars, slaveVars
  <1>17. CASE AllReady
    BY <1>17 DEF AllReady, countVars, socketVars, serverVars, slaveVars
  <1>18. CASE FrontendLoop
    BY <1>18 DEF FrontendLoop, countVars, socketVars, serverVars, slaveVars
  <1>19. CASE BeginOfRun
    <2>1. commands' \in Seq({"BOR", "EOR"})
      BY <1>19 DEF BeginOfRun
    <2>2. inRun' \subseteq Frontend /\ transition' \in {"none", "start", "stop"}
      BY <1>19, StartedType DEF BeginOfRun, Frontend
    <2>3. all_frontends_ready' \in BOOLEAN /\ mutex' \in BOOLEAN
          /\ interrupt_ready' \in BOOLEAN /\ enabled' \in BOOLEAN /\ overlapped' \in BOOLEAN
      BY <1>19, Zenon DEF BeginOfRun
    <2> QED
      BY <1>19, <2>1, <2>2, <2>3 DEF BeginOfRun, slaveVars
  <1>20. CASE EndOfRun
    <2>1. commands' \in Seq({"BOR", "EOR"})
      BY <1>20 DEF EndOfRun
    <2> QED
      BY <1>20, <2>1 DEF EndOfRun, countVars, driverVars, slaveVars
  <1>21. CASE SleepEnds
    <2>1. inRun' \subseteq Frontend /\ transition' \in {"none", "start", "stop"}
      BY <1>21, StartedType DEF SleepEnds, Frontend
    <2> QED
      BY <1>21, <2>1
      DEF SleepEnds, countVars, readyVars, socketVars, serverVars, driverVars, slaveVars
  <1>22. ASSUME NEW s \in Slave, SlaveBegin(s) PROVE TypeInv'
    <2>1. inRun' \subseteq Frontend /\ transition' \in {"none", "start", "stop"}
      BY <1>22, StartedType DEF SlaveBegin, Frontend
    <2> QED
      BY <1>22, <2>1 DEF SlaveBegin, countVars, readyVars, socketVars, serverVars, driverVars
  <1>23. ASSUME NEW s \in Slave, SlaveEnd(s) PROVE TypeInv'
    <2>1. inRun' \subseteq Frontend /\ transition' \in {"none", "start", "stop"}
      BY <1>23, StartedType DEF SlaveEnd, Frontend
    <2> QED
      BY <1>23, <2>1
      DEF SlaveEnd, countVars, readyVars, socketVars, serverVars, driverVars, slaveVars
  <1>24. ASSUME NEW s \in Slave, SimulatorEof(s) PROVE TypeInv'
    <2>1. Head(eofs[s]) \in Nat /\ Tail(eofs[s]) \in Seq(Nat)
      BY <1>24, SMTT(30) DEF SimulatorEof
    <2> QED
      BY <1>24, <2>1, SMTT(30) DEF SimulatorEof, countVars, readyVars, socketVars, serverVars, driverVars
  <1>25. ASSUME NEW s \in Slave, ReadoutEof(s) PROVE TypeInv'
    <2>1. Head(eofs[s]) \in Nat /\ Tail(eofs[s]) \in Seq(Nat)
      BY <1>25, SMTT(30) DEF ReadoutEof
    <2> QED
      BY <1>25, <2>1, SMTT(30) DEF ReadoutEof, countVars, readyVars, socketVars, serverVars, driverVars
  <1>26. ASSUME NEW s \in Slave, SimulatorEvent(s) PROVE TypeInv'
    BY <1>26 DEF SimulatorEvent, countVars, readyVars, socketVars, serverVars, driverVars
  <1>27. CASE UNCHANGED vars
    BY <1>27 DEF vars, countVars, readyVars, socketVars, serverVars, driverVars, slaveVars
  <1> QED
    BY <1>1, <1>2, <1>3, <1>4, <1>5, <1>6, <1>7, <1>8, <1>9, <1>10, <1>11, <1>12,
       <1>13, <1>14, <1>15, <1>16, <1>17, <1>18, <1>19, <1>20, <1>21, <1>22, <1>23,
       <1>24, <1>25, <1>26, <1>27
    DEF Next, TriggerServer, TriggerThread, MainThread, SlaveStep

(* Every variable keeps its type in every execution.                        *)
THEOREM TypeCorrect == Spec => []TypeOK
  <1>1. TypeInv => TypeOK
    BY DEF TypeInv
  <1>2. QED
    BY InitTypeInv, NextTypeInv, <1>1, PTL DEF Spec
-----------------------------------------------------------------------------
(* Transitions go through the frontends in their order.                     *)
Phases ==
  /\ transition = "none" => inRun = {} \/ inRun = Frontend
  /\ transition = "start" =>
       \A f \in inRun, g \in Frontend : StartSeq(g) < StartSeq(f) => g \in inRun
  /\ transition = "stop" =>
       \A f \in Frontend \ inRun, g \in Frontend : StopSeq(g) < StopSeq(f) => g \notin inRun

(* The mutex holds the trigger thread outside of the run and in end_of_run. *)
Suspended ==
  /\ pcTrig # "lock" => mutex
  /\ Master \notin inRun \/ pcMain = "asleep" => mutex /\ pcTrig = "lock"
  /\ pcMain = "asleep" => transition = "stop" /\ Master \in inRun /\ Sync \cap inRun = {}

(* The places of the frontends in the transitions.                          *)
LEMMA Sequences ==
  /\ Master \notin Slave /\ Sync \subseteq Slave /\ Slave \subseteq Frontend
  /\ Frontend = {Master} \cup Sync \cup Readouts /\ StartSeq(Master) = 499 /\ StopSeq(Master) = 500
  /\ \A s \in Sync : StartSeq(s) = SimStartSeq /\ StopSeq(s) = 499
  /\ \A s \in Readouts : StartSeq(s) = 500 /\ StopSeq(s) = 501
  <1>1. Master \notin Slave /\ Sync \subseteq Slave
    BY MasterAssumption DEF Master, Slave
  <1>2. Frontend = {Master} \cup Sync \cup Readouts /\ Slave \subseteq Frontend
    BY <1>1 DEF Frontend, Readouts
  <1> QED
    BY <1>1, <1>2 DEF Readouts, StartSeq, StopSeq

LEMMA InSlaveDomain ==
  TypeOK => /\ DOMAIN eofs = Slave /\ DOMAIN readys = Slave /\ DOMAIN ready = Slave
            /\ DOMAIN data_avail = Slave /\ DOMAIN slave_nr = Slave
            /\ DOMAIN slaveEvents = Slave
  BY DEF TypeOK

LEMMA MessagesTyped == TypeOK => \A s \in Slave : readys[s] \in Nat /\ eofs[s] \in Seq(Nat)
  BY DEF TypeOK

Control == Phases /\ Suspended

LEMMA InitControl == Init => Control
  BY DEF Init, Control, Phases, Suspended, Master

LEMMA NextControl == TypeOK /\ Control /\ [Next]_vars => Control'
  <1> SUFFICES ASSUME TypeOK, Control, [Next]_vars PROVE Control'
    OBVIOUS
  <1> USE DEF Control, Phases, Suspended, midasVars
  <1>1. ASSUME UNCHANGED <<transition, inRun, pcMain, pcTrig, mutex>> PROVE Control'
    BY <1>1
  <1>2. CASE RequestTransition
    BY <1>2 DEF RequestTransition, StartSeq, StopSeq, Frontend
  <1>3. CASE Interrupt \/ ServerBegins \/ ServerEnds \/ ServerTrigger \/ send_fill
    BY <1>1, <1>3 DEF Interrupt, ServerBegins, ServerEnds, ServerTrigger, send_fill
  <1>4. CASE FakeTrigger \/ SocketTrigger \/ PollParport
    <2>1. ~ mutex /\ mutex' /\ UNCHANGED <<transition, inRun, pcMain>>
      BY <1>4 DEF FakeTrigger, SocketTrigger, PollParport
    <2> QED
      BY <2>1
  <1>5. CASE ReadParport \/ AcceptTrigger
    <2>1. pcTrig # "lock" /\ UNCHANGED <<transition, inRun, pcMain, mutex>>
      BY <1>5 DEF ReadParport, AcceptTrigger
    <2> QED
      BY <2>1
  <1>6. CASE DropTrigger \/ SendEvent
    <2>1. pcTrig # "lock" /\ pcTrig' = "lock" /\ UNCHANGED <<transition, inRun, pcMain>>
      BY <1>6 DEF DropTrigger, SendEvent, Unlock
    <2> QED
      BY <2>1
  <1>7. CASE SocketUnexpected \/ SendEof \/ FrontendLoop
    BY <1>1, <1>7 DEF SocketUnexpected, SendEof, FrontendLoop
  <1>8. CASE AllReady \/ \E s \in Slave : HandleReady(s)
    <2>1. pcMain # "asleep" /\ pcMain' # "asleep"
          /\ UNCHANGED <<transition, inRun, pcTrig, mutex>>
      BY <1>8 DEF HandleReady, AllReady
    <2> QED
      BY <2>1
  <1>9. CASE BeginOfRun
    <2>1. /\ transition = "start" /\ Master \notin inRun /\ pcMain = "loop"
          /\ inRun' = inRun \cup {Master} /\ UNCHANGED <<pcMain, pcTrig>>
          /\ transition' = IF inRun' = Frontend THEN "none" ELSE "start"
          /\ \A g \in Frontend : StartSeq(g) < StartSeq(Master) => g \in inRun
      BY <1>9 DEF BeginOfRun, CanStart, Started
    <2> QED
      BY <2>1, Sequences
  <1>10. CASE EndOfRun
    <2>1. /\ transition = "stop" /\ Master \in inRun /\ ~ mutex /\ mutex'
          /\ UNCHANGED <<transition, inRun, pcTrig>>
          /\ \A g \in Frontend : StopSeq(g) < StopSeq(Master) => g \notin inRun
      BY <1>10 DEF EndOfRun, CanStop
    <2>2. Sync \cap inRun = {}
      BY <2>1, Sequences
    <2> QED
      BY <2>1, <2>2
  <1>11. CASE SleepEnds
    <2>1. /\ transition = "stop" /\ Master \in inRun /\ Sync \cap inRun = {}
          /\ mutex /\ pcTrig = "lock" /\ pcMain' = "loop" /\ UNCHANGED <<mutex, pcTrig>>
          /\ inRun' = inRun \ {Master}
          /\ transition' = IF inRun' = {} THEN "none" ELSE "stop"
      BY <1>11 DEF SleepEnds, Stopped
    <2> QED
      BY <2>1, Sequences DEF TypeOK
  <1>12. ASSUME NEW s \in Slave, SlaveBegin(s) PROVE Control'
    <2>1. /\ transition = "start" /\ inRun' = inRun \cup {s}
          /\ transition' = IF inRun' = Frontend THEN "none" ELSE "start"
          /\ \A g \in Frontend : StartSeq(g) < StartSeq(s) => g \in inRun
          /\ UNCHANGED <<pcMain, pcTrig, mutex>>
      BY <1>12 DEF SlaveBegin, CanStart, Started
    <2> QED
      BY <2>1, Sequences
  <1>13. ASSUME NEW s \in Slave, SlaveEnd(s) PROVE Control'
    <2>1. /\ transition = "stop" /\ s \in inRun /\ inRun' = inRun \ {s}
          /\ transition' = IF inRun' = {} THEN "none" ELSE "stop"
          /\ \A g \in Frontend : StopSeq(g) < StopSeq(s) => g \notin inRun
          /\ UNCHANGED <<pcMain, pcTrig, mutex>>
      BY <1>13 DEF SlaveEnd, CanStop, Stopped
    <2>2. s # Master
      BY Sequences
    <2>3. pcMain # "asleep"
      BY <2>1, Sequences DEF Readouts
    <2> QED
      BY <2>1, <2>2, <2>3 DEF TypeOK
  <1>14. ASSUME NEW s \in Slave, SimulatorEof(s) \/ ReadoutEof(s) \/ SimulatorEvent(s)
         PROVE  Control'
    BY <1>1, <1>14 DEF SimulatorEof, ReadoutEof, SimulatorEvent
  <1>15. CASE UNCHANGED vars
    BY <1>1, <1>15 DEF vars
  <1> HIDE DEF Control, Phases, Suspended
  <1> QED
    BY <1>2, <1>3, <1>4, <1>5, <1>6, <1>7, <1>8, <1>9, <1>10, <1>11, <1>12, <1>13, <1>14,
       <1>15
    DEF Next, TriggerServer, TriggerThread, MainThread, SlaveStep

(* "suspending trigger_thread" in end_of_run, until begin_of_run: outside  *)
(* of the run and while end_of_run sleeps no trigger is being handled, and  *)
(* none can be taken up, whatever the timing.                               *)
THEOREM TriggerThreadSuspended ==
  Spec => [](Master \notin inRun \/ pcMain = "asleep" => pcTrig = "lock" /\ mutex)
  <1>1. Control => (Master \notin inRun \/ pcMain = "asleep" => pcTrig = "lock" /\ mutex)
    BY DEF Control, Suspended
  <1> QED
    BY <1>1, TypeCorrect, InitControl, NextControl, PTL DEF Spec

-----------------------------------------------------------------------------
(* Nothing of the run before is left of a simulator that has not yet begun, *)
(* and no fill begins without it.                                           *)
Fresh(s) ==
  /\ ~ ready[s] /\ eofs[s] = <<>> /\ readys[s] = 0
  /\ pcTrig # "eof" /\ pcMain # "allReady"
  /\ Master \in inRun => ~ all_frontends_ready /\ masterEvents = <<>>
NothingLeft ==
  /\ \A s \in Sync \ inRun : transition = "start" \/ Master \notin inRun => Fresh(s)
  /\ pcMain = "asleep" => \A s \in Sync : ~ ready[s] /\ readys[s] = 0

LEMMA InitNothingLeft == Init => NothingLeft
  BY Sequences DEF Init, NothingLeft, Fresh

LEMMA NextNothingLeft ==
  QuietStop /\ TypeOK /\ Control /\ NothingLeft /\ [Next]_vars => NothingLeft'
  <1> SUFFICES ASSUME QuietStop, TypeOK, Control, NothingLeft, [Next]_vars
               PROVE  NothingLeft'
    OBVIOUS
  <1> USE Sequences DEF NothingLeft, Fresh, midasVars, readyVars, countVars
  <1>1. ASSUME UNCHANGED <<transition, inRun, pcMain, ready, eofs, readys, masterEvents>>,
               UNCHANGED all_frontends_ready \/ ~ all_frontends_ready',
               pcTrig' = "eof" => pcTrig = "eof"
        PROVE  NothingLeft'
    BY <1>1
  <1>2. CASE RequestTransition
    BY <1>2 DEF RequestTransition
  <1>3. CASE Interrupt \/ ServerBegins \/ ServerEnds \/ ServerTrigger \/ send_fill
    BY <1>1, <1>3 DEF Interrupt, ServerBegins, ServerEnds, ServerTrigger, send_fill
  <1>4. CASE FakeTrigger \/ SocketTrigger \/ SocketUnexpected \/ PollParport
             \/ ReadParport \/ DropTrigger
    BY <1>1, <1>4 DEF FakeTrigger, SocketTrigger, SocketUnexpected, PollParport, ReadParport,
                      DropTrigger, Unlock
  <1>5. CASE AcceptTrigger
    <2>1. Master \in inRun /\ pcMain # "asleep"
      BY <1>5 DEF AcceptTrigger, Control, Suspended
    <2>2. ~ \E s \in Sync \ inRun : transition = "start"
      BY <1>5, <2>1 DEF AcceptTrigger, have_sync_frontends
    <2> QED
      BY <1>5, <2>1, <2>2 DEF AcceptTrigger
  <1>6. CASE SendEof \/ SendEvent
    <2>1. pcTrig = "eof" /\ UNCHANGED <<transition, inRun, pcMain>>
      BY <1>6 DEF SendEof, SendEvent
    <2>2. Master \in inRun /\ pcMain # "asleep"
      BY <2>1 DEF Control, Suspended
    <2> QED
      BY <2>1, <2>2
  <1>7. ASSUME NEW t \in Slave, HandleReady(t) PROVE NothingLeft'
    <2>1. /\ UNCHANGED <<transition, inRun, pcTrig, eofs, all_frontends_ready, masterEvents>>
          /\ readys[t] > 0 /\ pcMain = "loop" /\ pcMain' \in {"loop", "allReady"}
          /\ \A s \in Slave \ {t} : ready'[s] = ready[s] /\ readys'[s] = readys[s]
          /\ pcMain' = "allReady" => \A s \in Sync : ready'[s]
      BY <1>7 DEF HandleReady, check_rpc_ready, TypeOK
    <2>2. \A s \in Sync : readys[s] = 0 => s # t
      BY <2>1
    <2> QED
      BY <2>1, <2>2
  <1>8. CASE AllReady
    BY <1>8 DEF AllReady
  <1>9. CASE FrontendLoop
    BY <1>1, <1>9 DEF FrontendLoop
  <1>10. CASE BeginOfRun
    BY <1>10 DEF BeginOfRun, CanStart, Started
  <1>11. CASE EndOfRun
    BY <1>11 DEF EndOfRun, CanStop
  <1>12. CASE SleepEnds
    <2>1. /\ \A s \in Sync : ~ ready[s] /\ readys[s] = 0 /\ eofs[s] = <<>>
          /\ pcTrig = "lock" /\ inRun' = inRun \ {Master} /\ pcMain' = "loop"
          /\ UNCHANGED <<ready, readys, eofs, pcTrig>>
      BY <1>12 DEF SleepEnds, Stopped, Control, Suspended
    <2> QED
      BY <2>1
  <1>13. ASSUME NEW t \in Slave, SlaveBegin(t) PROVE NothingLeft'
    <2>1. /\ transition = "start" /\ inRun' = inRun \cup {t}
          /\ UNCHANGED <<pcMain, pcTrig, ready, all_frontends_ready, eofs, masterEvents>>
          /\ \A s \in Slave \ {t} : readys'[s] = readys[s]
      BY <1>13 DEF SlaveBegin, CanStart, Started, TypeOK
    <2>2. pcMain # "asleep"
      BY <2>1 DEF Control, Suspended
    <2> QED
      BY <2>1, <2>2
  <1>14. ASSUME NEW t \in Slave, SlaveEnd(t) PROVE NothingLeft'
    <2>1. /\ transition = "stop" /\ t \in inRun /\ inRun' = inRun \ {t}
          /\ transition' \in {"none", "stop"}
          /\ UNCHANGED <<pcMain, pcTrig, ready, readys, all_frontends_ready, eofs, masterEvents>>
      BY <1>14 DEF SlaveEnd, CanStop, Stopped
    <2>2. t \in Sync => Master \in inRun
      BY <2>1 DEF Control, Phases
    <2> QED
      BY <2>1, <2>2
  <1>15. ASSUME NEW t \in Slave, SimulatorEof(t) \/ ReadoutEof(t) \/ SimulatorEvent(t)
         PROVE  NothingLeft'
    <2>1. /\ UNCHANGED <<transition, inRun, pcMain, pcTrig, ready, all_frontends_ready,
                         masterEvents>>
          /\ eofs[t] # <<>> \/ UNCHANGED eofs
          /\ t \in inRun \/ t \in Readouts \/ UNCHANGED readys
          /\ \A s \in Slave \ {t} : eofs'[s] = eofs[s] /\ readys'[s] = readys[s]
      <3>1. CASE SimulatorEof(t)
        BY <3>1, InSlaveDomain DEF SimulatorEof
      <3>2. CASE ReadoutEof(t)
        BY <3>2, InSlaveDomain DEF ReadoutEof
      <3>3. CASE SimulatorEvent(t)
        BY <3>3, InSlaveDomain DEF SimulatorEvent
      <3> QED
        BY <1>15, <3>1, <3>2, <3>3
    <2>2. pcMain = "asleep" => t \notin Sync \/ UNCHANGED readys
      BY <2>1 DEF Control, Suspended, Readouts
    <2> QED
      BY <2>1, <2>2 DEF Readouts
  <1>16. CASE UNCHANGED vars
    BY <1>1, <1>16 DEF vars
  <1> HIDE DEF NothingLeft, Fresh
  <1> QED
    BY <1>2, <1>3, <1>4, <1>5, <1>6, <1>7, <1>8, <1>9, <1>10, <1>11, <1>12, <1>13, <1>14,
       <1>15, <1>16
    DEF Next, TriggerServer, TriggerThread, MainThread, SlaveStep

(* "have simulator start last after master / readout to make sure readout   *)
(* gets all data/triggers": with a start sequence after 500 every EOF that  *)
(* makes a simulator send a fill finds all readout frontends in the run, if *)
(* what is on its way is served before the next frontend stops.             *)
THEOREM FillsOnlyInRun ==
  ASSUME QuietStop, SimStartSeq > 500
  PROVE  Spec => FillsInRun
  <1> DEFINE A == \A s \in Sync : SimulatorEof(s) => Readouts \subseteq inRun
  <1>1. TypeOK /\ Control /\ NothingLeft => A
    <2> SUFFICES ASSUME TypeOK, Control, NothingLeft, NEW s \in Sync, eofs[s] # <<>>,
                        NEW r \in Readouts
                 PROVE  r \in inRun
      BY DEF SimulatorEof
    <2> USE Sequences DEF Control, Phases
    <2>1. s \in inRun \/ (transition # "start" /\ Master \in inRun)
      BY DEF NothingLeft, Fresh
    <2>2. CASE transition = "none"
      BY <2>1, <2>2
    <2>3. CASE transition = "start"
      BY <2>1, <2>3, MasterAssumption
    <2>4. CASE transition = "stop"
      BY <2>1, <2>4
    <2> QED
      BY <2>2, <2>3, <2>4 DEF TypeOK
  <1>2. [](TypeOK /\ Control /\ NothingLeft) => [][A]_vars
    BY <1>1, PTL
  <1>3. Spec => [](TypeOK /\ Control /\ NothingLeft)
    BY TypeCorrect, InitControl, NextControl, InitNothingLeft, NextNothingLeft, PTL DEF Spec
  <1> QED
    BY <1>2, <1>3, PTL DEF FillsInRun

-----------------------------------------------------------------------------
(* A READY is said once: of the master's flag, a READY on its way, an EOF   *)
(* on its way and data of the AMC13, a simulator has at most one.  Nothing  *)
(* is promised of a run with the parallel port, or in which the two threads *)
(* have overlapped, until it is over.                                       *)
Barriered == HasBarrier \/ Master \notin inRun
HasData(s) == s \in inRun /\ data_avail[s]
Token(s) ==
  /\ Len(eofs[s]) <= 1 /\ readys[s] <= 1
  /\ ready[s] => readys[s] = 0
  /\ ready[s] \/ readys[s] = 1 => eofs[s] = <<>> /\ ~ HasData(s)
  /\ eofs[s] # <<>> => ~ HasData(s)
OneToken == Barriered => \A s \in Sync : Token(s)

(* all_frontends_ready says what it says until the trigger is accepted, and *)
(* then each slave is ready until its EOF is sent.                          *)
Announced ==
  pcMain = "allReady" \/ (all_frontends_ready /\ Master \in inRun /\ pcMain # "asleep")
Armed ==
  HasBarrier =>
    /\ Announced => (\A s \in Sync : ready[s]) /\ ~ GoingRound
    /\ pcTrig = "eof" => \A s \in Sync : slave <= s => ready[s]

LEMMA InitOneToken == Init => OneToken /\ Armed
  BY Sequences DEF Init, OneToken, Token, HasData, Armed, Announced

(* What has overlapped stays so until the next run begins.                  *)
LEMMA OverlapStays == [Next]_vars => BeginOfRun \/ (overlapped => overlapped')
  BY DEF Next, RequestTransition, Interrupt, TriggerServer, ServerBegins, ServerEnds, ServerTrigger,
         send_fill, TriggerThread, FakeTrigger, SocketTrigger, SocketUnexpected, PollParport,
         ReadParport, DropTrigger, AcceptTrigger, SendEof, SendEvent, MainThread, HandleReady,
         AllReady, FrontendLoop, EndOfRun, SleepEnds, SlaveStep, SlaveBegin, SlaveEnd,
         SimulatorEof, ReadoutEof, SimulatorEvent, vars, readyVars

LEMMA BarrierLasts ==
  ASSUME [Next]_vars, UNCHANGED trigger_source, Barriered', ~ BeginOfRun,
         Master \in inRun' <=> Master \in inRun
  PROVE  Barriered
  BY OverlapStays DEF Barriered, HasBarrier

LEMMA NextArmed ==
  TypeOK /\ Control /\ Armed /\ [Next]_vars => Armed'
  <1> SUFFICES ASSUME TypeOK, Control, Armed, [Next]_vars PROVE Armed'
    OBVIOUS
  <1> USE Sequences DEF Armed, Announced, GoingRound, HasBarrier, midasVars, readyVars
  <1>1. ASSUME UNCHANGED <<trigger_source, pcMain, pcTrig, slave, readyVars>>,
               Master \in inRun' => Master \in inRun
        PROVE  Armed'
    BY <1>1
  <1>2. CASE RequestTransition \/ Interrupt
    BY <1>1, <1>2 DEF RequestTransition, Interrupt
  <1>3. CASE ServerBegins \/ ServerEnds \/ ServerTrigger \/ send_fill \/ SocketUnexpected
    BY <1>1, <1>3 DEF ServerBegins, ServerEnds, ServerTrigger, send_fill, SocketUnexpected
  <1>4. CASE FakeTrigger \/ SocketTrigger \/ PollParport \/ ReadParport \/ DropTrigger \/ SendEvent
    <2>1. pcTrig' # "eof" /\ UNCHANGED <<trigger_source, pcMain, inRun, readyVars>>
      BY <1>4 DEF FakeTrigger, SocketTrigger, PollParport, ReadParport, DropTrigger, SendEvent,
                  Unlock
    <2> QED
      BY <2>1
  <1>5. CASE AcceptTrigger
    <2>1. Master \in inRun /\ pcMain # "asleep"
      BY <1>5 DEF AcceptTrigger, Control, Suspended
    <2>2. /\ slave' = 1 /\ (Sync # {} => all_frontends_ready) /\ ~ all_frontends_ready'
          /\ UNCHANGED <<trigger_source, pcMain, inRun, ready>>
          /\ overlapped' = (overlapped \/ pcMain = "allReady")
      BY <1>5 DEF AcceptTrigger, have_sync_frontends
    <2>3. HasBarrier' => HasBarrier /\ ~ Announced'
      BY <2>2
    <2>4. HasBarrier /\ Sync # {} => \A s \in Sync : ready'[s]
      BY <2>1, <2>2
    <2> QED
      BY <2>3, <2>4
  <1>6. CASE SendEof
    <2>1. /\ pcTrig = "eof" /\ slave' = slave + 1
          /\ UNCHANGED <<trigger_source, pcMain, inRun, pcTrig, all_frontends_ready, overlapped>>
          /\ \A s \in Slave : s # slave => ready'[s] = ready[s]
          /\ slave \notin Sync => ready' = ready
      BY <1>6 DEF SendEof, TypeOK
    <2>2. slave \in Nat /\ \A s \in Sync : s \in Nat
      BY DEF TypeOK, Slave
    <2>3. HasBarrier /\ Announced => slave \notin Sync
      BY <2>1, <2>2
    <2> QED
      BY <2>1, <2>2, <2>3
  <1>7. ASSUME NEW t \in Slave, HandleReady(t) PROVE Armed'
    <2>1. /\ UNCHANGED <<trigger_source, inRun, pcTrig, slave, all_frontends_ready>>
          /\ pcMain = "loop" /\ pcMain' \in {"loop", "allReady"}
      BY <1>7 DEF HandleReady, check_rpc_ready
    <2>3. pcMain' = "allReady" => \A s \in Sync : ready'[s]
      BY <1>7 DEF HandleReady, check_rpc_ready
    <2>4. /\ pcMain' = "allReady" /\ ~ overlapped' => ~ GoingRound
          /\ overlapped => overlapped'
      <3> HIDE DEF GoingRound
      <3>1. overlapped' = (overlapped \/ (pcMain' = "allReady" /\ GoingRound))
        BY <1>7 DEF HandleReady
      <3> QED
        BY <3>1, Zenon
    <2>2. \A s \in Sync : ready[s] => ready'[s]
      BY <1>7 DEF HandleReady, TypeOK
    <2> QED
      BY <2>1, <2>2, <2>3, <2>4
  <1>8. CASE AllReady
    BY <1>8 DEF AllReady
  <1>9. CASE FrontendLoop
    BY <1>9 DEF FrontendLoop
  <1>10. CASE BeginOfRun
    BY <1>10 DEF BeginOfRun, CanStart, Control, Suspended
  <1>11. CASE EndOfRun
    BY <1>11 DEF EndOfRun, Control, Suspended
  <1>12. CASE SleepEnds
    BY <1>12 DEF SleepEnds, Stopped, Control, Suspended
  <1>13. ASSUME NEW t \in Slave, SlaveBegin(t) \/ SlaveEnd(t) PROVE Armed'
    BY <1>1, <1>13 DEF SlaveBegin, SlaveEnd, Started, Stopped
  <1>14. ASSUME NEW t \in Slave, SimulatorEof(t) \/ ReadoutEof(t) \/ SimulatorEvent(t)
         PROVE  Armed'
    BY <1>1, <1>14 DEF SimulatorEof, ReadoutEof, SimulatorEvent
  <1>15. CASE UNCHANGED vars
    BY <1>1, <1>15 DEF vars
  <1> HIDE DEF Armed, Announced, GoingRound, HasBarrier
  <1> QED
    BY <1>2, <1>3, <1>4, <1>5, <1>6, <1>7, <1>8, <1>9, <1>10, <1>11, <1>12, <1>13, <1>14,
       <1>15
    DEF Next, TriggerServer, TriggerThread, MainThread, SlaveStep

LEMMA EventTakesData ==
  ASSUME TypeOK, NEW t \in Slave, SimulatorEvent(t), NEW s \in Sync
  PROVE  (s = t => ~ data_avail'[s]) /\ (s # t => data_avail'[s] = data_avail[s])
  <1>1. DOMAIN data_avail = Slave /\ s \in Slave
    BY InSlaveDomain, Sequences
  <1>2. data_avail' = [data_avail EXCEPT ![t] = FALSE]
    BY Zenon DEF SimulatorEvent
  <1> QED
    BY <1>1, <1>2, Zenon

LEMMA EofClearsFlag ==
  ASSUME TypeOK, SendEof, NEW s \in Sync
  PROVE  (s = slave => ~ ready'[s]) /\ (s # slave => ready'[s] = ready[s])
  <1>1. DOMAIN ready = Slave /\ s \in Slave
    BY InSlaveDomain, Sequences
  <1>2. CASE slave \in Sync
    <2>1. ready' = [ready EXCEPT ![slave] = FALSE]
      BY <1>2, Zenon DEF SendEof
    <2> QED
      BY <1>1, <2>1, Zenon
  <1>3. CASE slave \notin Sync
    <2>1. ready' = ready /\ s # slave
      BY <1>3, Zenon DEF SendEof
    <2> QED
      BY <2>1, Zenon
  <1> QED
    BY <1>2, <1>3, Zenon

LEMMA NextOneToken ==
  QuietStop /\ TypeOK /\ Control /\ NothingLeft /\ Armed /\ OneToken /\ [Next]_vars
    => OneToken'
  <1> SUFFICES ASSUME QuietStop, TypeOK, Control, NothingLeft, Armed, OneToken, [Next]_vars,
                      Barriered', NEW s \in Sync
               PROVE  Token(s)'
    BY DEF OneToken
  <1> USE Sequences DEF midasVars
  <1>1. CASE SleepEnds
    <2>1. /\ ~ ready[s] /\ readys[s] = 0 /\ eofs[s] = <<>> /\ s \notin inRun'
          /\ UNCHANGED <<ready, readys, eofs>>
      BY <1>1 DEF SleepEnds, Stopped, readyVars, Control, Suspended, NothingLeft
    <2> QED
      BY <2>1 DEF Token, HasData
  <1> SUFFICES ASSUME ~ SleepEnds PROVE Token(s)'
    BY <1>1
  <1>2. ASSUME UNCHANGED <<trigger_source, inRun>> PROVE Token(s)
    <2>1. ~ BeginOfRun
      BY <1>2 DEF BeginOfRun, CanStart, Started
    <2> QED
      BY <1>2, <2>1, BarrierLasts DEF OneToken
  <1>3. ASSUME UNCHANGED <<trigger_source, inRun, ready, eofs, readys, data_avail>>
        PROVE  Token(s)'
    BY <1>2, <1>3 DEF Token, HasData
  <1>4. CASE RequestTransition \/ Interrupt
    BY <1>3, <1>4 DEF RequestTransition, Interrupt, readyVars, slaveVars
  <1>5. CASE ServerBegins \/ ServerEnds \/ ServerTrigger \/ send_fill \/ SocketUnexpected
    BY <1>3, <1>5 DEF ServerBegins, ServerEnds, ServerTrigger, send_fill, SocketUnexpected,
                      readyVars, slaveVars
  <1>6. CASE FakeTrigger \/ SocketTrigger \/ PollParport \/ ReadParport \/ DropTrigger \/ SendEvent
    BY <1>3, <1>6 DEF FakeTrigger, SocketTrigger, PollParport, ReadParport, DropTrigger,
                      SendEvent, readyVars, slaveVars
  <1>7. CASE AcceptTrigger \/ AllReady \/ FrontendLoop
    BY <1>3, <1>7 DEF AcceptTrigger, AllReady, FrontendLoop, slaveVars
  <1>8. CASE SendEof
    <2>1. UNCHANGED <<trigger_source, inRun, overlapped, readys, data_avail>>
      BY <1>8 DEF SendEof, slaveVars
    <2>2. eofs'[s] = IF s = slave THEN Append(eofs[s], trigger_nr) ELSE eofs[s]
      BY <1>8, InSlaveDomain DEF SendEof
    <2>3. (s = slave => ~ ready'[s]) /\ (s # slave => ready'[s] = ready[s])
      BY <1>8, EofClearsFlag
    <2>4. Master \in inRun /\ pcTrig = "eof" /\ slave \in Nat
      BY <1>8 DEF SendEof, Control, Suspended, TypeOK
    <2>5. s = slave => ready[s]
      BY <2>1, <2>4 DEF Armed, Barriered, HasBarrier
    <2>6. eofs[s] = <<>> => Len(Append(eofs[s], trigger_nr)) = 1
      <3>1. eofs[s] \in Seq(Nat)
        BY MessagesTyped
      <3> QED
        BY <3>1
    <2> QED
      BY <1>2, <2>1, <2>2, <2>3, <2>5, <2>6 DEF Token, HasData
  <1>9. ASSUME NEW t \in Slave, HandleReady(t) PROVE Token(s)'
    <2>1. /\ UNCHANGED <<trigger_source, inRun, eofs, data_avail>>
          /\ readys[t] > 0
      BY <1>9 DEF HandleReady, slaveVars
    <2>2. readys[s] \in Nat /\ readys'[s] = IF s = t THEN readys[s] - 1 ELSE readys[s]
      BY <1>9, InSlaveDomain, MessagesTyped DEF HandleReady
    <2>3. s # t => ready'[s] = ready[s]
      BY <1>9, InSlaveDomain DEF HandleReady
    <2> QED
      BY <1>2, <2>1, <2>2, <2>3 DEF Token, HasData
  <1>10. CASE BeginOfRun
    <2>1. Token(s)
      BY <1>10 DEF BeginOfRun, CanStart, OneToken, Barriered
    <2>2. UNCHANGED <<ready, readys, eofs, data_avail>> /\ (s \in inRun' <=> s \in inRun)
      BY <1>10 DEF BeginOfRun, Started, slaveVars
    <2> QED
      BY <2>1, <2>2 DEF Token, HasData
  <1>11. CASE EndOfRun
    <2>1. UNCHANGED <<trigger_source, inRun, readys, eofs, data_avail>> /\ ~ ready'[s]
      BY <1>11 DEF EndOfRun, slaveVars
    <2> QED
      BY <1>2, <2>1 DEF Token, HasData
  <1>12. ASSUME NEW t \in Slave, SlaveBegin(t) \/ SlaveEnd(t) PROVE Token(s)'
    <2>1. /\ UNCHANGED <<trigger_source, ready, eofs>> /\ (Master \in inRun' <=> Master \in inRun)
          /\ ~ BeginOfRun
      BY <1>12 DEF SlaveBegin, SlaveEnd, Started, Stopped, readyVars, BeginOfRun, CanStart, countVars
    <2>2. Token(s)
      BY <2>1, BarrierLasts DEF OneToken
    <2>3. CASE SlaveBegin(t) /\ s = t
      <3>1. Fresh(s) /\ readys'[s] = readys[s] + 1 /\ ~ data_avail'[s]
        BY <2>3 DEF SlaveBegin, CanStart, NothingLeft, TypeOK
      <3> QED
        BY <2>1, <3>1 DEF Fresh, Token, HasData
    <2>4. CASE SlaveBegin(t) /\ s # t
      <3>1. readys'[s] = readys[s] /\ data_avail'[s] = data_avail[s] /\ (s \in inRun' <=> s \in inRun)
        BY <2>4 DEF SlaveBegin, Started, TypeOK
      <3> QED
        BY <2>1, <2>2, <3>1 DEF Token, HasData
    <2>5. CASE SlaveEnd(t)
      <3>1. UNCHANGED <<readys, data_avail>> /\ (s \in inRun' => s \in inRun)
        BY <2>5 DEF SlaveEnd, Stopped, slaveVars
      <3> QED
        BY <2>1, <2>2, <3>1 DEF Token, HasData
    <2> QED
      BY <1>12, <2>3, <2>4, <2>5
  <1>13. ASSUME NEW t \in Slave, SimulatorEof(t) PROVE Token(s)'
    <2>1. /\ UNCHANGED <<trigger_source, inRun, ready, readys>>
          /\ eofs[t] # <<>>
      BY <1>13 DEF SimulatorEof, readyVars
    <2>2. eofs'[s] = IF s = t THEN Tail(eofs[s]) ELSE eofs[s]
      BY <1>13, InSlaveDomain DEF SimulatorEof
    <2>3. s # t => data_avail'[s] = data_avail[s]
      BY <1>13, InSlaveDomain DEF SimulatorEof
    <2>4. Len(eofs[s]) <= 1 /\ eofs[s] # <<>> => Tail(eofs[s]) = <<>>
      <3>1. eofs[s] \in Seq(Nat)
        BY MessagesTyped
      <3> QED
        BY <3>1
    <2>5. Len(<<>>) <= 1
      OBVIOUS
    <2>6. readys[s] \in Nat
      BY MessagesTyped
    <2>7. CASE s = t
      <3>1. ~ ready[s] /\ readys[s] = 0 /\ eofs'[s] = <<>>
        BY <1>2, <2>1, <2>2, <2>4, <2>6, <2>7 DEF Token
      <3> QED
        BY <2>1, <2>5, <3>1 DEF Token
    <2>8. CASE s # t
      BY <1>2, <2>1, <2>2, <2>3, <2>8 DEF Token, HasData
    <2> QED
      BY <2>7, <2>8
  <1>14. ASSUME NEW t \in Slave, ReadoutEof(t) PROVE Token(s)'
    <2>1. /\ UNCHANGED <<trigger_source, inRun, ready, data_avail>> /\ s # t
          /\ eofs'[s] = eofs[s] /\ readys'[s] = readys[s]
      BY <1>14, InSlaveDomain DEF ReadoutEof, Readouts, readyVars
    <2> QED
      BY <1>2, <2>1 DEF Token, HasData
  <1>15. ASSUME NEW t \in Slave, SimulatorEvent(t) PROVE Token(s)'
    <2>1. /\ UNCHANGED <<trigger_source, inRun, ready, eofs>>
          /\ HasData(t)
      BY <1>15 DEF SimulatorEvent, HasData, readyVars
    <2>2. readys[s] \in Nat /\ readys'[s] = IF s = t THEN readys[s] + 1 ELSE readys[s]
      BY <1>15, InSlaveDomain, MessagesTyped DEF SimulatorEvent
    <2>3. (s = t => ~ data_avail'[s]) /\ (s # t => data_avail'[s] = data_avail[s])
      BY <1>15, EventTakesData
    <2> QED
      BY <1>2, <2>1, <2>2, <2>3 DEF Token, HasData
  <1>16. CASE UNCHANGED vars
    BY <1>3, <1>16 DEF vars, readyVars, slaveVars
  <1> QED
    BY <1>4, <1>5, <1>6, <1>7, <1>8, <1>9, <1>10, <1>11, <1>12, <1>13, <1>14, <1>15, <1>16
    DEF Next, TriggerServer, TriggerThread, MainThread, SlaveStep

-----------------------------------------------------------------------------
(* The events of a simulator are the triggers whose EOF was sent to it,     *)
(* without one that is on its way or being processed.                       *)
Sent(s) ==
  IF Master \notin inRun THEN <<>>
  ELSE IF pcTrig = "eof" /\ s < slave THEN Append(masterEvents, trigger_nr)
  ELSE masterEvents
Made(s) ==
  IF eofs[s] # <<>> THEN Append(slaveEvents[s], Head(eofs[s]))
  ELSE IF data_avail[s] THEN Append(slaveEvents[s], slave_nr[s])
  ELSE slaveEvents[s]
Histories == Barriered => \A s \in Sync \cap inRun : Sent(s) = Made(s)

Safe == TypeOK /\ Control /\ NothingLeft /\ OneToken /\ Armed

LEMMA InitHistories == Init => Histories
  BY DEF Init, Histories

LEMMA NextHistories == QuietStop /\ Safe /\ Histories /\ [Next]_vars => Histories'
  <1> SUFFICES ASSUME QuietStop, Safe, Histories, [Next]_vars, Barriered', NEW s \in Sync,
                      s \in inRun'
               PROVE  (Sent(s) = Made(s))'
    BY DEF Histories
  <1> USE Sequences DEF midasVars, Safe
  <1>1. CASE SleepEnds
    BY <1>1 DEF SleepEnds, Stopped, Control, Suspended
  <1> SUFFICES ASSUME ~ SleepEnds PROVE (Sent(s) = Made(s))'
    BY <1>1
  <1>2. ASSUME UNCHANGED <<trigger_source, inRun>> PROVE Sent(s) = Made(s) /\ Token(s)
    <2>1. ~ BeginOfRun
      BY <1>2 DEF BeginOfRun, CanStart, Started
    <2> QED
      BY <1>2, <2>1, BarrierLasts DEF Histories, OneToken
  <1>3. ASSUME UNCHANGED <<trigger_source, inRun, masterEvents>>,
               UNCHANGED <<pcTrig, slave, trigger_nr>> \/ (pcTrig # "eof" /\ pcTrig' # "eof"),
               UNCHANGED <<eofs, slaveVars>>
        PROVE  (Sent(s) = Made(s))'
    BY <1>2, <1>3 DEF Sent, Made, slaveVars
  <1>4. CASE RequestTransition \/ Interrupt
    BY <1>3, <1>4 DEF RequestTransition, Interrupt, countVars
  <1>5. CASE ServerBegins \/ ServerEnds \/ ServerTrigger \/ send_fill \/ SocketUnexpected
    BY <1>3, <1>5 DEF ServerBegins, ServerEnds, ServerTrigger, send_fill, SocketUnexpected,
                      countVars
  <1>6. CASE FakeTrigger \/ SocketTrigger \/ PollParport \/ ReadParport \/ DropTrigger
    BY <1>3, <1>6 DEF FakeTrigger, SocketTrigger, PollParport, ReadParport, DropTrigger,
                      Unlock, countVars
  <1>7. CASE AcceptTrigger
    <2>1. /\ UNCHANGED <<trigger_source, inRun, masterEvents, eofs, slaveVars>>
          /\ pcTrig # "eof" /\ slave' = 1 /\ ~ s < 1
      BY <1>7 DEF AcceptTrigger, countVars, Slave
    <2> QED
      BY <1>2, <2>1 DEF Sent, Made, slaveVars
  <1>8. CASE SendEof
    <2>1. /\ UNCHANGED <<trigger_source, inRun, overlapped, masterEvents, trigger_nr, pcTrig,
                       slaveVars>>
          /\ pcTrig = "eof" /\ slave' = slave + 1
      BY <1>8 DEF SendEof, countVars
    <2>2. eofs'[s] = IF s = slave THEN Append(eofs[s], trigger_nr) ELSE eofs[s]
      BY <1>8, InSlaveDomain DEF SendEof
    <2>3. Master \in inRun /\ s \in Nat /\ slave \in Nat /\ trigger_nr \in Nat
      BY <2>1 DEF Control, Suspended, TypeOK, Slave
    <2>4. CASE s = slave
      <3>1. ready[s]
        BY <2>1, <2>3, <2>4 DEF Armed, Barriered, HasBarrier
      <3>2. eofs[s] = <<>> /\ ~ data_avail[s]
        BY <1>2, <2>1, <3>1 DEF Token, HasData
      <3>3. eofs'[s] = <<trigger_nr>> /\ Head(<<trigger_nr>>) = trigger_nr /\ <<trigger_nr>> # <<>>
        BY <2>2, <2>4, <3>2
      <3>4. Sent(s) = masterEvents /\ Made(s) = slaveEvents[s]
        BY <2>1, <2>3, <2>4, <3>2 DEF Sent, Made
      <3>5. Sent(s)' = Append(masterEvents, trigger_nr)
        BY <2>1, <2>3, <2>4 DEF Sent
      <3>6. Made(s)' = Append(slaveEvents[s], trigger_nr)
        BY <2>1, <3>3 DEF Made, slaveVars
      <3> QED
        BY <1>2, <2>1, <3>4, <3>5, <3>6
    <2>5. CASE s # slave
      <3>1. s < slave' <=> s < slave
        BY <2>1, <2>3, <2>5
      <3> QED
        BY <1>2, <2>1, <2>2, <2>5, <3>1 DEF Sent, Made, slaveVars
    <2> QED
      BY <2>4, <2>5
  <1>9. CASE SendEvent
    <2>1. /\ UNCHANGED <<trigger_source, inRun, eofs, slaveVars>>
          /\ pcTrig = "eof" /\ slave \notin Slave /\ pcTrig' = "lock"
          /\ masterEvents' = Append(masterEvents, trigger_nr)
      BY <1>9 DEF SendEvent, Unlock
    <2>2. Master \in inRun /\ s < slave
      BY <2>1, MasterAssumption DEF Control, Suspended, TypeOK, Slave
    <2> QED
      BY <1>2, <2>1, <2>2 DEF Sent, Made, slaveVars
  <1>10. CASE AllReady \/ FrontendLoop \/ EndOfRun \/ \E t \in Slave : HandleReady(t)
    BY <1>3, <1>10 DEF AllReady, FrontendLoop, EndOfRun, HandleReady, countVars
  <1>11. CASE BeginOfRun
    <2>1. /\ Master \notin inRun /\ inRun' = inRun \cup {Master} /\ masterEvents' = <<>>
          /\ UNCHANGED <<pcTrig, eofs, slaveVars>>
      BY <1>11 DEF BeginOfRun, CanStart, Started
    <2>2. pcTrig = "lock" /\ s \in inRun /\ s # Master
      BY <2>1 DEF Control, Suspended
    <2>3. Sent(s) = Made(s)
      BY <2>1, <2>2 DEF Histories, Barriered
    <2> QED
      BY <2>1, <2>2, <2>3 DEF Sent, Made, slaveVars
  <1>12. ASSUME NEW t \in Slave, SlaveBegin(t) PROVE (Sent(s) = Made(s))'
    <2>1. /\ t \notin inRun /\ inRun' = inRun \cup {t} /\ transition = "start"
          /\ UNCHANGED <<trigger_source, overlapped, masterEvents, trigger_nr, pcTrig, slave,
                       eofs, slave_nr>>
          /\ data_avail' = [data_avail EXCEPT ![t] = FALSE]
          /\ slaveEvents' = [slaveEvents EXCEPT ![t] = <<>>]
      BY <1>12 DEF SlaveBegin, CanStart, Started, countVars, readyVars
    <2>2. Master \in inRun' <=> Master \in inRun
      BY <2>1
    <2>3. CASE s = t
      <3>1. Fresh(s) /\ ~ data_avail'[s] /\ slaveEvents'[s] = <<>>
        BY <2>1, <2>3, InSlaveDomain DEF NothingLeft
      <3> QED
        BY <2>1, <2>2, <3>1 DEF Fresh, Sent, Made
    <2>4. CASE s # t
      <3>1. data_avail'[s] = data_avail[s] /\ slaveEvents'[s] = slaveEvents[s] /\ s \in inRun
        BY <2>1, <2>4, InSlaveDomain
      <3>2. Sent(s) = Made(s)
        BY <2>1, <2>2, <3>1 DEF Histories, Barriered, HasBarrier
      <3> QED
        BY <2>1, <2>2, <3>1, <3>2 DEF Sent, Made
    <2> QED
      BY <2>3, <2>4
  <1>13. ASSUME NEW t \in Slave, SlaveEnd(t) PROVE (Sent(s) = Made(s))'
    <2>1. /\ inRun' = inRun \ {t}
          /\ UNCHANGED <<trigger_source, overlapped, masterEvents, trigger_nr, pcTrig, slave, eofs,
                       slaveVars>>
      BY <1>13 DEF SlaveEnd, Stopped, countVars, readyVars
    <2>2. (Master \in inRun' <=> Master \in inRun) /\ s \in inRun
      BY <2>1
    <2>3. Sent(s) = Made(s)
      BY <2>1, <2>2 DEF Histories, Barriered, HasBarrier
    <2> QED
      BY <2>1, <2>2, <2>3 DEF Sent, Made, slaveVars
  <1>14. ASSUME NEW t \in Slave, SimulatorEof(t) PROVE (Sent(s) = Made(s))'
    <2>1. /\ UNCHANGED <<trigger_source, inRun, masterEvents, trigger_nr, pcTrig, slave, slaveEvents>>
          /\ eofs[t] # <<>>
      BY <1>14 DEF SimulatorEof, countVars
    <2>2. /\ eofs'[s] = IF s = t THEN Tail(eofs[s]) ELSE eofs[s]
          /\ slave_nr'[s] = IF s = t THEN Head(eofs[s]) ELSE slave_nr[s]
      BY <1>14, InSlaveDomain DEF SimulatorEof
    <2>3. IF s = t THEN data_avail'[s] ELSE data_avail'[s] = data_avail[s]
      BY <1>14, InSlaveDomain DEF SimulatorEof
    <2>4. CASE s = t
      <3>1. Tail(eofs[s]) = <<>>
        BY <1>2, <2>1, <2>4, SMTT(30) DEF Token, TypeOK
      <3>2. Made(s) = Append(slaveEvents[s], Head(eofs[s]))
        BY <2>1, <2>4 DEF Made
      <3>3. Made(s)' = Append(slaveEvents'[s], slave_nr'[s])
        BY <2>2, <2>3, <2>4, <3>1, SMTT(30) DEF Made
      <3>4. Sent(s)' = Sent(s)
        BY <2>1 DEF Sent
      <3> QED
        BY <1>2, <2>1, <2>2, <2>4, <3>2, <3>3, <3>4
    <2>5. CASE s # t
      BY <1>2, <2>1, <2>2, <2>3, <2>5 DEF Sent, Made
    <2> QED
      BY <2>4, <2>5
  <1>15. ASSUME NEW t \in Slave, ReadoutEof(t) PROVE (Sent(s) = Made(s))'
    <2>1. /\ UNCHANGED <<trigger_source, inRun, masterEvents, trigger_nr, pcTrig, slave, slaveEvents>>
          /\ UNCHANGED data_avail /\ s # t
      BY <1>15 DEF ReadoutEof, Readouts, countVars
    <2>2. eofs'[s] = eofs[s] /\ slave_nr'[s] = slave_nr[s]
      BY <1>15, <2>1, InSlaveDomain DEF ReadoutEof
    <2> QED
      BY <1>2, <2>1, <2>2 DEF Sent, Made
  <1>16. ASSUME NEW t \in Slave, SimulatorEvent(t) PROVE (Sent(s) = Made(s))'
    <2>1. /\ UNCHANGED <<trigger_source, inRun, masterEvents, trigger_nr, pcTrig, slave, eofs>>
          /\ UNCHANGED slave_nr /\ t \in inRun /\ data_avail[t]
      BY <1>16 DEF SimulatorEvent, countVars
    <2>2. slaveEvents'[s] = IF s = t THEN Append(slaveEvents[s], slave_nr[s]) ELSE slaveEvents[s]
      BY <1>16, InSlaveDomain DEF SimulatorEvent
    <2>3. IF s = t THEN ~ data_avail'[s] ELSE data_avail'[s] = data_avail[s]
      BY <1>16, InSlaveDomain DEF SimulatorEvent
    <2>4. s = t => eofs[s] = <<>>
      BY <1>2, <2>1 DEF Token, HasData
    <2> QED
      BY <1>2, <2>1, <2>2, <2>3, <2>4 DEF Sent, Made
  <1>17. CASE UNCHANGED vars
    BY <1>3, <1>17 DEF vars, countVars
  <1> QED
    BY <1>4, <1>5, <1>6, <1>7, <1>8, <1>9, <1>10, <1>11, <1>12, <1>13, <1>14, <1>15, <1>16,
       <1>17
    DEF Next, TriggerServer, TriggerThread, MainThread, SlaveStep

(* The invariant of all runs: types, transitions, tokens and histories.     *)
LEMMA AlwaysSafe == ASSUME QuietStop PROVE Spec => [](Safe /\ Histories)
  <1>1. Init => Safe /\ Histories
    BY InitTypeInv, InitControl, InitNothingLeft, InitOneToken, InitHistories
    DEF Safe, TypeInv
  <1>2. TypeInv /\ Safe /\ Histories /\ [Next]_vars => (Safe /\ Histories)'
    BY NextTypeInv, NextControl, NextNothingLeft, NextOneToken, NextArmed, NextHistories
    DEF Safe, TypeInv
  <1> QED
    BY <1>1, <1>2, InitTypeInv, NextTypeInv, PTL DEF Spec

(* "check if all are ready for a trigger" fails by the overlap of the two   *)
(* threads only: in all other interleavings of them, and for every number   *)
(* and order of messages, a trigger is accepted only when no synchronous    *)
(* slave has anything of the fill before.                                   *)
THEOREM AcceptedWhenIdle ==
  ASSUME QuietStop
  PROVE  Spec => BusyOnlyByOverlap
  <1> DEFINE A == ~ overlapped => AcceptsWhenIdle
  <1>1. Safe => A
    <2> SUFFICES ASSUME Safe, AcceptTrigger, HasBarrier, NEW s \in Sync
                 PROVE  Idle(s) \/ transition = "stop"
      BY DEF HasBarrier, AcceptsWhenIdle
    <2> USE DEF Safe
    <2>1. Master \in inRun /\ pcMain # "asleep" /\ all_frontends_ready
      BY DEF AcceptTrigger, Control, Suspended, have_sync_frontends
    <2>2. ready[s] /\ eofs[s] = <<>> /\ ~ HasData(s)
      BY <2>1 DEF Armed, Announced, OneToken, Barriered, Token
    <2>3. s \in inRun \/ transition = "stop"
      BY <2>1, <2>2, Sequences DEF TypeOK, Control, Phases, NothingLeft, Fresh
    <2> QED
      BY <2>2, <2>3 DEF Idle, HasData
  <1>2. [](Safe /\ Histories) => [][A]_vars
    BY <1>1, PTL
  <1> QED
    BY <1>2, AlwaysSafe, PTL DEF BusyOnlyByOverlap

LEMMA AppendKeeps ==
  ASSUME NEW q \in Seq(Nat), NEW x \in Nat
  PROVE  Append(q, x) # <<>> /\ \A n \in 1 .. Len(q) : Append(q, x)[n] = q[n]
  <1>1. Len(Append(q, x)) = Len(q) + 1 /\ Len(q) \in Nat /\ Len(<<>>) = 0
    OBVIOUS
  <1>2. Append(q, x) # <<>>
    BY <1>1
  <1> QED
    BY <1>2

(* The n-th events of the master and of each synchronous slave in the run   *)
(* are of the same trigger, so that the serial numbers the event builder    *)
(* compares agree, however READY and EOF messages are delayed, as long as   *)
(* the master's two threads have not overlapped in the run.                 *)
THEOREM SerialNumbersAgree == ASSUME QuietStop PROVE Spec => []SerialsAgree
  <1>1. Safe /\ Histories => SerialsAgree
    <2> SUFFICES ASSUME Safe, Histories, HasBarrier, NEW s \in Sync \cap inRun,
                        NEW n \in 1 .. Min({Len(masterEvents), Len(slaveEvents[s])})
                 PROVE  slaveEvents[s][n] = masterEvents[n]
      BY DEF SerialsAgree, HasBarrier
    <2>1. /\ masterEvents \in Seq(Nat) /\ slaveEvents[s] \in Seq(Nat) /\ trigger_nr \in Nat
          /\ slave_nr[s] \in Nat /\ eofs[s] \in Seq(Nat)
      BY Sequences DEF Safe, TypeOK
    <2>2. n \in 1 .. Len(masterEvents) /\ n \in 1 .. Len(slaveEvents[s])
      <3>1. Len(masterEvents) \in Nat /\ Len(slaveEvents[s]) \in Nat
        BY <2>1
      <3> HIDE DEF Min
      <3> QED
        BY <3>1, MinOfTwo
    <2>3. Sent(s) = Made(s)
      BY DEF Histories, Barriered
    <2>4. Made(s)[n] = slaveEvents[s][n]
      <3>1. eofs[s] # <<>> => Head(eofs[s]) \in Nat
        BY <2>1
      <3> QED
        BY <2>1, <2>2, <3>1, AppendKeeps DEF Made
    <2>5. CASE Master \in inRun
      <3>1. Sent(s) \in {masterEvents, Append(masterEvents, trigger_nr)}
        BY <2>5, Zenon DEF Sent
      <3>2. Append(masterEvents, trigger_nr)[n] = masterEvents[n]
        BY <2>1, <2>2, AppendKeeps, Zenon
      <3>3. Sent(s)[n] = masterEvents[n]
        BY <3>1, <3>2, Zenon
      <3> QED
        BY <2>3, <2>4, <3>3, Zenon
    <2>6. CASE Master \notin inRun
      <3>1. Made(s) = <<>>
        BY <2>3, <2>6 DEF Sent
      <3>2. slaveEvents[s] = <<>>
        <4>1. \A x \in Nat : Append(slaveEvents[s], x) # <<>>
          BY <2>1, AppendKeeps
        <4>2. eofs[s] # <<>> => Head(eofs[s]) \in Nat
          BY <2>1
        <4> QED
          BY <2>1, <3>1, <4>1, <4>2 DEF Made
      <3> QED
        BY <2>2, <3>2
    <2> QED
      BY <2>5, <2>6
  <1> QED
    BY <1>1, AlwaysSafe, PTL

-----------------------------------------------------------------------------
(* The master implements FillBarrier, step by step.                         *)

(* A trigger is counted once, whatever it has become on its way: a sleeping *)
(* send_fill, bytes in the socket, an interrupt of the driver.              *)
Count ==
  EofSize * trigger_counter + sock + EofSize * fills + (IF interrupt_ready THEN EofSize ELSE 0)
TriggersCounted ==
  /\ Count <= EofSize * triggers
  /\ pcTrig = "ppRead" => trigger_source = "PP"
  /\ pcTrig \in {"check", "eof"} /\ trigger_source # "PP" => trigger_nr \in 1 .. trigger_counter

LEMMA InitTriggersCounted == Init => TriggersCounted
  BY DEF Init, TriggersCounted, Count, EofSize

(* recv_msg takes no less than a message from the socket if it finds one.   *)
LEMMA MessageIsRead == ASSUME sock \in Nat, HasEof PROVE Received \in Nat /\ EofSize <= Received
  <1>1. sock >= 5
    BY DEF HasEof, EofSize
  <1> QED
    BY <1>1, MinOfTwo DEF Received, PointerSize, EofSize

LEMMA NextTriggersCounted ==
  TypeInv /\ Control /\ TriggersCounted /\ [Next]_vars => TriggersCounted'
  <1> SUFFICES ASSUME TypeInv, Control, TriggersCounted, [Next]_vars PROVE TriggersCounted'
    OBVIOUS
  <1>t. /\ trigger_counter \in Nat /\ sock \in Nat /\ fills \in Nat /\ triggers \in Nat
        /\ trigger_nr \in Nat /\ interrupt_ready \in BOOLEAN
    BY DEF TypeInv, TypeOK
  <1> USE <1>t DEF TriggersCounted, Count, EofSize, countVars, serverVars, socketVars,
                   driverVars
  <1>1. ASSUME UNCHANGED <<trigger_source, trigger_counter, trigger_nr, sock, fills, triggers>>,
               interrupt_ready' => interrupt_ready,
               pcTrig' \in {"check", "eof"} => pcTrig \in {"check", "eof"},
               pcTrig' # "ppRead"  \/ pcTrig = "ppRead"
        PROVE  TriggersCounted'
    BY <1>1
  <1>2. CASE RequestTransition
    BY <1>1, <1>2 DEF RequestTransition
  <1>3. CASE Interrupt
    BY <1>3 DEF Interrupt
  <1>4. CASE ServerBegins
    <2>1. PICK first \in 0 .. Min({1, MaxTriggers - triggers}) :
            triggers' = triggers + first /\ fills' = fills + first
      BY <1>4 DEF ServerBegins
    <2>2. first \in Nat
      BY <2>1
    <2> QED
      BY <1>4, <2>1, <2>2 DEF ServerBegins
  <1>5. CASE ServerEnds
    BY <1>1, <1>5 DEF ServerEnds
  <1>6. CASE ServerTrigger
    BY <1>6 DEF ServerTrigger
  <1>7. CASE send_fill
    BY <1>7 DEF send_fill
  <1>8. CASE FakeTrigger
    BY <1>8 DEF FakeTrigger
  <1>9. CASE SocketTrigger
    BY <1>9, MessageIsRead, ReceivedIsRead DEF SocketTrigger
  <1>10. CASE SocketUnexpected
    BY <1>10, ReceivedIsRead DEF SocketUnexpected
  <1>11. CASE PollParport
    BY <1>11 DEF PollParport
  <1>12. CASE ReadParport
    BY <1>12 DEF ReadParport
  <1>13. CASE DropTrigger \/ AcceptTrigger \/ SendEof \/ SendEvent
    BY <1>1, <1>13 DEF DropTrigger, AcceptTrigger, SendEof, SendEvent, Unlock
  <1>14. CASE AllReady \/ FrontendLoop \/ SleepEnds \/ \E s \in Slave : HandleReady(s)
    BY <1>1, <1>14 DEF AllReady, FrontendLoop, SleepEnds, HandleReady
  <1>15. CASE BeginOfRun
    <2>1. pcTrig = "lock"
      BY <1>15 DEF BeginOfRun, CanStart, Control, Suspended
    <2> QED
      BY <1>15, <2>1 DEF BeginOfRun
  <1>16. CASE EndOfRun
    BY <1>16 DEF EndOfRun
  <1>17. ASSUME NEW s \in Slave, SlaveStep(s) PROVE TriggersCounted'
    BY <1>1, <1>17
    DEF SlaveStep, SlaveBegin, SlaveEnd, SimulatorEof, ReadoutEof, SimulatorEvent
  <1>18. CASE UNCHANGED vars
    BY <1>1, <1>18 DEF vars
  <1> HIDE DEF TriggersCounted
  <1> QED
    BY <1>2, <1>3, <1>4, <1>5, <1>6, <1>7, <1>8, <1>9, <1>10, <1>11, <1>12, <1>13, <1>14,
       <1>15, <1>16, <1>17, <1>18
    DEF Next, TriggerServer, TriggerThread, MainThread
-----------------------------------------------------------------------------
LEMMA InitBarrier == Init => Barrier!Init
  BY Sequences DEF Init, Barrier!Init, Members, Closing, Fills, Events, Master

Inv == TypeInv /\ Safe /\ Histories /\ TriggersCounted
Stutter == UNCHANGED <<Members, Closing, Fills, Events>>

(* What leaves the run, the source and the events alone leaves the barrier. *)
LEMMA StepStutters ==
  ASSUME UNCHANGED <<trigger_source, overlapped, masterEvents, slaveEvents>>,
         UNCHANGED <<pcTrig, trigger_nr>> \/ (pcTrig # "eof" /\ pcTrig' # "eof"),
         UNCHANGED inRun, UNCHANGED transition \/ (transition # "stop" /\ transition' # "stop")
  PROVE  Stutter
  <1>1. UNCHANGED Begun
    BY DEF Begun
  <1>2. UNCHANGED Fills
    BY <1>1 DEF Fills, HasBarrier
  <1> QED
    BY <1>2 DEF Stutter, Members, Closing, Events, HasBarrier

LEMMA TransitionStep ==
  ASSUME Inv, RequestTransition PROVE Stutter \/ Barrier!Close
  <1>1. CASE transition' = "start"
    BY <1>1, StepStutters DEF RequestTransition, midasVars, countVars, readyVars, slaveVars
  <1>2. CASE transition' # "start"
    <2>1. /\ transition = "none" /\ transition' = "stop" /\ inRun # {}
          /\ UNCHANGED <<inRun, trigger_source, overlapped, masterEvents, trigger_nr, pcTrig, slaveEvents>>
      BY <1>2 DEF RequestTransition, countVars, readyVars, slaveVars
    <2>2. Members = Sync /\ ~ Closing /\ Closing'
      BY <2>1, Sequences DEF Inv, Safe, Control, Phases, Members, Closing
    <2>3. UNCHANGED <<Members, Fills, Events>>
      BY <2>1 DEF Members, Fills, Events, HasBarrier, Begun
    <2> QED
      BY <2>2, <2>3 DEF Barrier!Close
  <1> QED
    BY <1>1, <1>2

(* A trigger that is accepted finds the events of all fills made.           *)
LEMMA AcceptStep == ASSUME Inv, AcceptTrigger, ~ overlapped' PROVE Stutter \/ Barrier!NewFill
  <1> USE DEF Inv, Safe
  <1>1. /\ UNCHANGED <<transition, inRun, trigger_source, masterEvents, trigger_nr, slaveEvents>>
        /\ pcTrig = "check" /\ pcTrig' = "eof" /\ UNCHANGED overlapped
    BY DEF AcceptTrigger, midasVars, countVars, slaveVars, TypeOK
  <1>2. Master \in inRun /\ pcMain # "asleep" /\ transition \in {"none", "start", "stop"}
    BY <1>1 DEF Control, Suspended, TypeOK
  <1>3. UNCHANGED <<Members, Closing, Events>>
    BY <1>1 DEF Members, Closing, Events, HasBarrier
  <1>4. CASE ~ HasBarrier
    BY <1>1, <1>3, <1>4 DEF Stutter, Fills, HasBarrier
  <1>5. CASE HasBarrier
    <2>1. Fills = masterEvents /\ Fills' = Append(masterEvents, trigger_nr)
      BY <1>1, <1>2, <1>5 DEF Fills, Begun, HasBarrier
    <2>2. trigger_nr \in 1 .. MaxTriggers
      <3>1. /\ trigger_nr \in Nat /\ trigger_counter \in Nat /\ sock \in Nat /\ fills \in Nat
            /\ triggers \in 0 .. MaxTriggers /\ MaxTriggers \in Nat
        BY MasterAssumption DEF TypeOK
      <3>2. trigger_nr \in 1 .. trigger_counter /\ Count <= EofSize * triggers
        BY <1>1, <1>5 DEF TriggersCounted, HasBarrier
      <3> QED
        BY <3>1, <3>2 DEF Count, EofSize
    <2>3. \A s \in Sync : ready[s]
      BY <1>2, <1>5 DEF AcceptTrigger, have_sync_frontends, Armed, Announced
    <2>4. \A s \in Members : Events[s] = Fills
      <3> SUFFICES ASSUME NEW s \in Members PROVE Events[s] = Fills
        OBVIOUS
      <3>1. s \in Sync /\ s \in inRun
        BY DEF Members
      <3>2. eofs[s] = <<>> /\ ~ data_avail[s] /\ Sent(s) = Made(s)
        BY <1>5, <2>3, <3>1 DEF OneToken, Barriered, Token, HasData, Histories
      <3>3. slaveEvents[s] = masterEvents
        BY <1>1, <1>2, <3>2 DEF Sent, Made
      <3> QED
        BY <1>5, <2>1, <3>1, <3>3 DEF Events
    <2>5. Members = Sync \/ Closing
      <3>1. \A s \in Sync : s \in inRun \/ transition = "stop"
        BY <1>2, <2>3, Sequences DEF Control, Phases, NothingLeft, Fresh
      <3> QED
        BY <3>1 DEF Members, Closing
    <2> QED
      BY <1>3, <2>1, <2>2, <2>4, <2>5 DEF Barrier!NewFill
  <1> QED
    BY <1>4, <1>5

(* The master's own event is of a fill that has begun.                      *)
LEMMA EventStep == ASSUME Inv, SendEvent PROVE Stutter
  <1>1. /\ UNCHANGED <<transition, inRun, trigger_source, overlapped, trigger_nr, slaveEvents>>
        /\ masterEvents' = Append(masterEvents, trigger_nr) /\ pcTrig = "eof" /\ pcTrig' = "lock"
    BY DEF SendEvent, Unlock, midasVars, readyVars, slaveVars
  <1>2. UNCHANGED Begun
    BY <1>1 DEF Begun
  <1> QED
    BY <1>1, <1>2 DEF Stutter, Members, Closing, Fills, Events, HasBarrier

(* The barrier of a new run is empty, whatever the source of its triggers.  *)
LEMMA BeginStep == ASSUME Inv, BeginOfRun PROVE Stutter
  <1> USE DEF Inv, Safe
  <1>1. /\ transition = "start" /\ transition' # "stop" /\ Master \notin inRun
        /\ inRun' = inRun \cup {Master} /\ masterEvents' = <<>>
        /\ UNCHANGED <<pcTrig, slaveEvents>>
    BY DEF BeginOfRun, CanStart, Started, slaveVars
  <1>2. pcTrig = "lock"
    BY <1>1 DEF Control, Suspended
  <1>3. UNCHANGED <<Members, Closing>>
    BY <1>1, Sequences DEF Members, Closing
  <1>4. UNCHANGED Fills
    BY <1>1, <1>2 DEF Fills, Begun
  <1>5. \A s \in Sync : s \in inRun => slaveEvents[s] = <<>>
    <2> SUFFICES ASSUME NEW s \in Sync, s \in inRun PROVE slaveEvents[s] = <<>>
      OBVIOUS
    <2>1. Made(s) = <<>>
      BY <1>1 DEF Histories, Barriered, Sent
    <2>2. slaveEvents[s] \in Seq(Nat) /\ slave_nr[s] \in Nat /\ eofs[s] \in Seq(Nat)
      BY Sequences DEF TypeOK
    <2>3. eofs[s] # <<>> => Head(eofs[s]) \in Nat
      BY <2>2
    <2> QED
      BY <2>1, <2>2, <2>3, AppendKeeps DEF Made
  <1>6. \A s \in Sync : s \in inRun' <=> s \in inRun
    BY <1>1, Sequences
  <1>7. UNCHANGED Events
    BY <1>1, <1>5, <1>6 DEF Events
  <1> QED
    BY <1>3, <1>4, <1>7 DEF Stutter

(* When the master leaves, the slaves have left.                            *)
LEMMA SleepStep == ASSUME Inv, SleepEnds PROVE Barrier!End
  <1> USE DEF Inv, Safe
  <1>1. /\ inRun' = inRun \ {Master} /\ transition = "stop" /\ Sync \cap inRun = {}
        /\ UNCHANGED <<trigger_source, overlapped, slaveEvents>>
    BY DEF SleepEnds, Stopped, Control, Suspended, readyVars, slaveVars
  <1>2. Members = {} /\ Members' = {} /\ Closing /\ Closing' \in BOOLEAN /\ Fills' = <<>>
    BY <1>1 DEF Members, Closing, Fills
  <1>3. UNCHANGED Events
    BY <1>1 DEF Events, HasBarrier
  <1> QED
    BY <1>2, <1>3 DEF Barrier!End

LEMMA JoinStep ==
  ASSUME Inv, NEW t \in Slave, SlaveBegin(t) PROVE Stutter \/ (t \in Sync /\ Barrier!Join(t))
  <1> USE DEF Inv, Safe
  <1>1. /\ transition = "start" /\ transition' # "stop" /\ t \notin inRun
        /\ inRun' = inRun \cup {t} /\ slaveEvents' = [slaveEvents EXCEPT ![t] = <<>>]
        /\ UNCHANGED <<trigger_source, overlapped, pcTrig, masterEvents, trigger_nr>>
    BY DEF SlaveBegin, CanStart, Started, countVars, readyVars
  <1>2. Master \in inRun' <=> Master \in inRun
    BY <1>1, Sequences
  <1>3. UNCHANGED <<Closing, Fills>>
    BY <1>1, <1>2 DEF Closing, Fills, Begun, HasBarrier
  <1>4. \A s \in Sync : (s = t \/ s \notin inRun) \/ (s \in inRun' /\ slaveEvents'[s] = slaveEvents[s])
    BY <1>1, InSlaveDomain, Sequences
  <1>5. t \in Sync => slaveEvents'[t] = <<>>
    BY <1>1, InSlaveDomain
  <1>6. \A s \in Sync : s # t => (s \in inRun' <=> s \in inRun)
    BY <1>1
  <1>7. UNCHANGED Events
    BY <1>1, <1>4, <1>5, <1>6 DEF Events, HasBarrier
  <1>8. CASE t \in Sync
    <2>1. Fills = <<>>
      BY <1>1, <1>8 DEF Fills, Begun, NothingLeft, Fresh
    <2>2. t \notin Members /\ Members' = Members \cup {t} /\ ~ Closing
      BY <1>1, <1>8 DEF Members, Closing
    <2> QED
      BY <1>3, <1>7, <1>8, <2>1, <2>2 DEF Barrier!Join
  <1>9. CASE t \notin Sync
    BY <1>1, <1>3, <1>7, <1>9 DEF Members, Stutter
  <1> QED
    BY <1>8, <1>9

LEMMA LeaveStep ==
  ASSUME Inv, NEW t \in Slave, SlaveEnd(t)
  PROVE  Stutter \/ Barrier!End \/ (t \in Sync /\ Barrier!Leave(t))
  <1> USE DEF Inv, Safe
  <1>1. /\ transition = "stop" /\ t \in inRun /\ inRun' = inRun \ {t}
        /\ transition' = IF inRun' = {} THEN "none" ELSE "stop"
        /\ \A g \in Frontend : StopSeq(g) < StopSeq(t) => g \notin inRun
        /\ UNCHANGED <<trigger_source, overlapped, pcTrig, masterEvents, trigger_nr, slaveEvents>>
    BY DEF SlaveEnd, CanStop, Stopped, countVars, readyVars, slaveVars
  <1>2. Master \in inRun' <=> Master \in inRun
    BY <1>1, Sequences
  <1>3. UNCHANGED Fills
    BY <1>1, <1>2 DEF Fills, Begun, HasBarrier
  <1>4. CASE t \in Sync
    <2>1. Master \in inRun
      BY <1>1, <1>4, Sequences DEF Control, Phases
    <2>2. Closing /\ Closing'
      BY <1>1, <1>2, <2>1 DEF Closing
    <2>3. t \in Members /\ Members' = Members \ {t}
      BY <1>1, <1>4 DEF Members
    <2>4. Events' = [Events EXCEPT ![t] = <<>>]
      BY <1>1 DEF Events, HasBarrier
    <2> QED
      BY <1>3, <1>4, <2>2, <2>3, <2>4 DEF Barrier!Leave
  <1>5. CASE t \notin Sync
    <2>1. UNCHANGED <<Members, Events>>
      BY <1>1, <1>5 DEF Members, Events, HasBarrier
    <2>2. Master \notin inRun /\ Members = {}
      BY <1>1, <1>5, Sequences DEF Members, Readouts
    <2>3. Closing /\ Closing' \in BOOLEAN /\ Fills = <<>>
      BY <1>1, <2>2 DEF Closing, Fills
    <2> QED
      BY <1>3, <2>1, <2>2, <2>3 DEF Barrier!End
  <1> QED
    BY <1>4, <1>5

(* A simulator makes the event of the fill that has begun, and of no other. *)
LEMMA SimulatorStep ==
  ASSUME Inv, NEW t \in Slave, SimulatorEvent(t)
  PROVE  Stutter \/ (t \in Sync /\ Barrier!MakeEvent(t))
  <1> USE DEF Inv, Safe
  <1>1. /\ t \in inRun /\ data_avail[t]
        /\ UNCHANGED <<transition, inRun, trigger_source, overlapped, pcTrig, masterEvents, trigger_nr>>
        /\ slaveEvents' = [slaveEvents EXCEPT ![t] = Append(slaveEvents[t], slave_nr[t])]
    BY DEF SimulatorEvent, midasVars, countVars, readyVars
  <1>2. UNCHANGED <<Members, Closing, Fills>>
    BY <1>1 DEF Members, Closing, Fills, Begun, HasBarrier
  <1>3. \A s \in Sync : slaveEvents'[s] = IF s = t THEN Append(slaveEvents[t], slave_nr[t])
                                           ELSE slaveEvents[s]
    BY <1>1, InSlaveDomain, Sequences
  <1>4. CASE t \notin Sync \/ ~ HasBarrier
    <2>1. UNCHANGED Events
      BY <1>1, <1>3, <1>4 DEF Events, HasBarrier
    <2> QED
      BY <1>2, <2>1 DEF Stutter
  <1>5. CASE t \in Sync /\ HasBarrier
    <2>1. Token(t) /\ HasData(t) /\ Sent(t) = Made(t)
      BY <1>1, <1>5 DEF OneToken, Barriered, HasData, Histories
    <2>2. Sent(t) = Append(slaveEvents[t], slave_nr[t])
      BY <1>1, <2>1 DEF Token, Made
    <2>3. /\ slaveEvents[t] \in Seq(Nat) /\ slave_nr[t] \in Nat
          /\ Sent(t) # <<>> /\ Sent(t) # slaveEvents[t]
      <3>1. slaveEvents[t] \in Seq(Nat) /\ slave_nr[t] \in Nat
        BY DEF TypeOK
      <3>2. Len(Sent(t)) = Len(slaveEvents[t]) + 1 /\ Len(slaveEvents[t]) \in Nat
        BY <2>2, <3>1
      <3> QED
        BY <2>2, <3>1, <3>2, AppendKeeps
    <2>4. Master \in inRun
      BY <2>3 DEF Sent
    <2>5. pcTrig = "eof" => t < slave
      <3>1. t \in Nat /\ slave \in Nat
        BY DEF Slave, TypeOK
      <3>2. ~ ready[t]
        BY <2>1 DEF Token
      <3> QED
        BY <1>5, <3>1, <3>2 DEF Armed
    <2>6. Fills = Sent(t)
      BY <1>5, <2>4, <2>5 DEF Fills, Begun, Sent
    <2>7. t \in Members /\ Events[t] # Fills
      BY <1>1, <1>5, <2>3, <2>6 DEF Members, Events
    <2>8. Events' = [Events EXCEPT ![t] = Fills]
      BY <1>1, <1>3, <1>5, <2>2, <2>6 DEF Events, HasBarrier
    <2> QED
      BY <1>2, <1>5, <2>7, <2>8 DEF Barrier!MakeEvent
  <1> QED
    BY <1>4, <1>5

LEMMA StepRefines == Inv /\ [Next]_vars /\ ~ overlapped' => [Barrier!Next]_(Barrier!vars)
  <1> SUFFICES ASSUME Inv, [Next]_vars, ~ overlapped' PROVE Barrier!Next \/ Stutter
    BY DEF Stutter, Barrier!vars
  <1>1. CASE RequestTransition
    BY <1>1, TransitionStep DEF Barrier!Next
  <1>2. CASE Interrupt \/ TriggerServer
    BY <1>2, StepStutters
    DEF Interrupt, TriggerServer, ServerBegins, ServerEnds, ServerTrigger, send_fill, midasVars,
        countVars, readyVars, slaveVars
  <1>3. CASE FakeTrigger \/ SocketTrigger \/ SocketUnexpected \/ PollParport \/ ReadParport
             \/ DropTrigger \/ SendEof
    BY <1>3, StepStutters
    DEF FakeTrigger, SocketTrigger, SocketUnexpected, PollParport, ReadParport, DropTrigger,
        SendEof, Unlock, midasVars, countVars, readyVars, slaveVars
  <1>4. CASE AcceptTrigger
    BY <1>4, AcceptStep DEF Barrier!Next
  <1>5. CASE SendEvent
    BY <1>5, EventStep
  <1>6. CASE AllReady \/ FrontendLoop \/ EndOfRun \/ \E s \in Slave : HandleReady(s)
    <2>1. overlapped \in BOOLEAN
      BY DEF Inv, Safe, TypeOK
    <2>2. UNCHANGED overlapped
      BY <1>6, <2>1 DEF AllReady, FrontendLoop, EndOfRun, HandleReady
    <2> QED
      BY <1>6, <2>2, StepStutters
      DEF AllReady, FrontendLoop, EndOfRun, HandleReady, midasVars, countVars, readyVars, slaveVars
  <1>7. CASE BeginOfRun
    BY <1>7, BeginStep
  <1>8. CASE SleepEnds
    BY <1>8, SleepStep DEF Barrier!Next
  <1>9. ASSUME NEW t \in Slave, SlaveBegin(t) PROVE Barrier!Next \/ Stutter
    BY <1>9, JoinStep DEF Barrier!Next
  <1>10. ASSUME NEW t \in Slave, SlaveEnd(t) PROVE Barrier!Next \/ Stutter
    BY <1>10, LeaveStep DEF Barrier!Next
  <1>11. ASSUME NEW t \in Slave, SimulatorEof(t) \/ ReadoutEof(t) PROVE Barrier!Next \/ Stutter
    BY <1>11, StepStutters DEF SimulatorEof, ReadoutEof, midasVars, countVars, readyVars
  <1>12. ASSUME NEW t \in Slave, SimulatorEvent(t) PROVE Barrier!Next \/ Stutter
    BY <1>12, SimulatorStep DEF Barrier!Next
  <1>13. CASE UNCHANGED vars
    BY <1>13, StepStutters DEF vars, midasVars, countVars, readyVars, slaveVars
  <1> QED
    BY <1>1, <1>2, <1>3, <1>4, <1>5, <1>6, <1>7, <1>8, <1>9, <1>10, <1>11, <1>12, <1>13
    DEF Next, TriggerThread, MainThread, SlaveStep

(* Fills are a barrier: for any number of slaves, runs and triggers, each   *)
(* behaviour of the master, its slaves, the driver and the trigger server   *)
(* is one of FillBarrier in every run, up to an overlap of the two threads  *)
(* in it, if messages are served before the next frontend stops.            *)
THEOREM MasterIsBarrier == ASSUME QuietStop PROVE Spec => ImplementsBarrier
  <1>1. Spec => []Inv
    <2>1. Init => Inv
      BY InitTypeInv, InitControl, InitNothingLeft, InitOneToken, InitHistories,
         InitTriggersCounted DEF Inv, Safe, TypeInv
    <2>2. Inv /\ [Next]_vars => Inv'
      BY NextTypeInv, NextControl, NextNothingLeft, NextOneToken, NextArmed, NextHistories,
         NextTriggersCounted DEF Inv, Safe, TypeInv
    <2> QED
      BY <2>1, <2>2, PTL DEF Spec
  <1>2. Inv /\ [Next]_vars => [~ overlapped' => [Barrier!Next]_(Barrier!vars)]_vars
    BY StepRefines
  <1> QED
    BY <1>1, <1>2, InitBarrier, PTL DEF Spec, ImplementsBarrier
=============================================================================
