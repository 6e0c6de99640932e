--------------------------- MODULE CaloOrderProofs ---------------------------
(***************************************************************************)
(* Only a begin of run makes the main thread forget a published fill.      *)
(* Then theorems about CaloReadout in the timing that the experiment       *)
(* relies on, triggers during runs and transitions of a drained pipeline:  *)
(* the fills are delivered in order and in their run, and the three        *)
(* threads implement the queue of FillPipeline.                            *)
(***************************************************************************)
EXTENDS CaloDeliveryProofs, CaloReadoutRefinement, SequenceTheorems

(* The header of an event carries a fill number.                            *)
LEMMA HeadHasNumber == \A e \in Event : e.head.nr \in Nat
  BY ReadoutAssumption DEF Event, Fill

-----------------------------------------------------------------------------
(* Only begin_of_run makes a published fill be forgotten: in every other    *)
(* step of the threads the flag and the lock of the output buffer go        *)
(* together, also when a run ends, or fails to start, at any moment.        *)
THEOREM StartForgets == Spec => ForgottenByStartOnly
  <1>1. TypeOK /\ OutputExclusion /\ DataAvailable /\ [Next]_vars => DataAvailable' \/ BeginOfRun
    <2> SUFFICES ASSUME TypeOK, OutputExclusion, DataAvailable, [Next]_vars, ~ BeginOfRun
                 PROVE  DataAvailable'
      OBVIOUS
    <2> USE DEF DataAvailable, OutputWritten, OutputRead
    <2>1. CASE AMC13Event \/ TcpThread \/ UNCHANGED vars
      <3>1. UNCHANGED <<pcGpu, pcMfe>> /\ UNCHANGED gpuMutex /\ UNCHANGED data_avail
        BY <2>1 DEF AMC13Event, TcpThread, TcpSetIndex, TcpLockAvail, TcpReadAndUnpack, TcpStore,
                    TcpUnlockReady, TcpLoadFillnumber, TcpStoreFillnumber, vars, gpuVars, mfeVars
      <3> QED
        BY <3>1
    <2>2. CASE GpuThread
      BY <2>2 DEF GpuThread, GpuSetIndex, GpuLockReady, GpuLockOutput, GpuCopy, GpuUnlockAvail,
                  GpuProcess, GpuPublish, GpuLoadFillnumber, GpuStoreFillnumber, mfeVars
    <2>3. CASE MfeStep \/ EndOfRun
      BY <2>3 DEF MfeStep, MfeCycle, PollEvent, FrontendLoop, ReadBanks, ReadHeader, TcpClientBor,
                  GpuBor, EndOfRun, gpuVars
    <2> QED
      BY <2>1, <2>2, <2>3 DEF Next
  <1>2. TypeOK /\ OutputExclusion /\ [Next]_vars
          => [DataAvailable /\ ~ DataAvailable' => BeginOfRun]_vars
    BY <1>1
  <1> QED
    BY <1>2, TypeCorrect, OutputIsExclusive, PTL DEF Spec, ForgottenByStartOnly

-----------------------------------------------------------------------------
(* The pipeline holds fills of the current run only, and none between runs. *)
Transition == pcMfe \in {"borTcp", "borGpu"}

CurrentRun ==
  /\ run_state = "stopped" => InFlight = {}
  /\ Transition => run_state = "stopped"
  /\ \A f \in InFlight : f.run = runs
  /\ \A k \in 1 .. Len(delivered) : delivered[k].inRun <= runs

LEMMA RunChanges ==
  [Next]_vars => \/ UNCHANGED <<run_state, runs>> /\ (Transition' => Transition)
                 \/ BeginOfRun \/ GpuBor \/ EndOfRun
  BY DEF Next, AMC13Event, TcpThread, TcpSetIndex, TcpLockAvail, TcpReadAndUnpack, TcpStore,
         TcpUnlockReady, TcpLoadFillnumber, TcpStoreFillnumber, GpuThread, GpuSetIndex,
         GpuLockReady, GpuLockOutput, GpuCopy, GpuUnlockAvail, GpuProcess, GpuPublish,
         GpuLoadFillnumber, GpuStoreFillnumber, MfeStep, MfeCycle, PollEvent, FrontendLoop,
         ReadBanks, ReadHeader, TcpClientBor, vars, mfeVars, Transition

(* Without a trigger the pipeline only gets emptier.                        *)
LEMMA OnlyTriggersFill ==
  ASSUME TypeOK, RingExclusion, OutputExclusion, StagesAgree, Placed, [Next]_vars, ~ AMC13Event
  PROVE  InFlight' \subseteq InFlight
  <1>1. CASE FillsStay
    BY <1>1, StaysKeepsPlaces
  <1>2. CASE Passes
    <2>1. PICK s \in Stage, t \in Stage, f \in Fill : PassesFrom(f, s, t) /\ s # t /\ s # "delivered"
      BY <1>2, WhoPasses
    <2>2. f \in InFlight
      BY <2>1, AtStage DEF PassesFrom, Stage, InFlight
    <2>3. \A u \in Stage : At'[u] \subseteq At[u] \cup {f}
      BY <2>1 DEF PassesFrom
    <2>4. OnWire' \subseteq OnWire \cup {f} /\ InTcpThread' \subseteq InTcpThread \cup {f}
          /\ InRing' \subseteq InRing \cup {f} /\ InGpuThread' \subseteq InGpuThread \cup {f}
          /\ InOutput' \subseteq InOutput \cup {f}
      BY <2>3 DEF At, Stage
    <2> QED
      BY <2>2, <2>4 DEF InFlight
  <1> QED
    BY <1>1, <1>2, StaysOrPasses

LEMMA NextCurrentRun ==
  ASSUME TriggersInRun, DrainedStop
  PROVE  TypeOK /\ RingExclusion /\ OutputExclusion /\ StagesAgree /\ Placed /\ CurrentRun
           /\ [Next]_vars => CurrentRun'
  <1> SUFFICES ASSUME TypeOK, RingExclusion, OutputExclusion, StagesAgree, Placed, CurrentRun,
                      [Next]_vars
               PROVE  CurrentRun'
    OBVIOUS
  <1>1. CASE AMC13Event
    <2>1. PICK f \in Fill : f.run = runs /\ OnWire' = OnWire \cup {f}
      BY <1>1, EventIsNew
    <2>2. /\ UNCHANGED InTcpThread /\ UNCHANGED InGpuThread
          /\ UNCHANGED InRing /\ UNCHANGED InOutput
      BY <1>1 DEF AMC13Event, InTcpThread, InGpuThread, InRing, InOutput,
                  ringVars, tcpVars, gpuVars, outVars, mfeVars
    <2>3. InFlight' = InFlight \cup {f}
      BY <2>1, <2>2 DEF InFlight
    <2>4. UNCHANGED <<run_state, runs, delivered, pcMfe>> /\ run_state = "running"
      BY <1>1 DEF AMC13Event, mfeVars
    <2> QED
      BY <2>1, <2>3, <2>4 DEF CurrentRun, Transition
  <1>2. CASE ~ AMC13Event
    <2>1. InFlight' \subseteq InFlight
      BY <1>2, OnlyTriggersFill
    <2>2. \A k \in 1 .. Len(delivered') : delivered'[k].inRun <= runs
      <3>1. CASE UNCHANGED delivered
        BY <3>1 DEF CurrentRun
      <3>2. CASE ~ UNCHANGED delivered
        <4>1. /\ ReadHeader /\ Len(delivered') = Len(delivered) + 1
              /\ \A k \in 1 .. Len(delivered) : delivered'[k] = delivered[k]
              /\ delivered'[Len(delivered')] = [pevent EXCEPT !.head = gpu_data_header, !.inRun = runs]
          BY <3>2, DeliveredGrows
        <4>2. delivered'[Len(delivered')].inRun = runs /\ runs \in Nat /\ Len(delivered) \in Nat
          BY <4>1 DEF TypeOK, Event
        <4>3. ASSUME NEW k \in 1 .. Len(delivered') PROVE delivered'[k].inRun <= runs
          <5>1. CASE k = Len(delivered')
            BY <4>2, <5>1
          <5>2. CASE k # Len(delivered')
            <6>1. k \in 1 .. Len(delivered) /\ delivered'[k] = delivered[k]
              BY <4>1, <4>2, <5>2
            <6> QED
              BY <6>1 DEF CurrentRun
          <5> QED
            BY <5>1, <5>2
        <4> QED
          BY <4>3
      <3> QED
        BY <3>1, <3>2
    <2>3. CASE BeginOfRun
      <3>1. InFlight = {} /\ runs' = runs + 1 /\ run_state' = "stopped"
            /\ UNCHANGED delivered
        BY <2>3 DEF BeginOfRun, Drained
      <3>2. runs \in Nat /\ \A k \in 1 .. Len(delivered) : delivered[k].inRun \in Nat
        <4>1. \A e \in Event : e.inRun \in Nat
          BY ReadoutAssumption DEF Event
        <4> QED
          BY <4>1, ReadoutAssumption DEF TypeOK
      <3>3. \A k \in 1 .. Len(delivered') : delivered'[k].inRun <= runs'
        BY <3>1, <3>2 DEF CurrentRun
      <3> QED
        BY <2>1, <3>1, <3>3 DEF CurrentRun
    <2>4. CASE GpuBor
      <3>1. run_state = "stopped" /\ runs' = runs /\ ~ Transition'
        BY <2>4 DEF GpuBor, CurrentRun, Transition
      <3> QED
        BY <2>1, <2>2, <3>1 DEF CurrentRun
    <2>5. CASE EndOfRun
      <3>1. InFlight = {} /\ runs' = runs /\ run_state' = "stopped"
        BY <2>5 DEF EndOfRun, Drained
      <3> QED
        BY <2>1, <2>2, <3>1 DEF CurrentRun
    <2>6. CASE UNCHANGED <<run_state, runs>> /\ (Transition' => Transition)
      BY <2>1, <2>2, <2>6 DEF CurrentRun
    <2> QED
      BY <2>3, <2>4, <2>5, <2>6, RunChanges
  <1> QED
    BY <1>1, <1>2

LEMMA PipelineIsOfRun == ASSUME TriggersInRun, DrainedStop PROVE Spec => []CurrentRun
  <1>1. Init => CurrentRun
    BY DEF Init, InitWith, CurrentRun, Transition, InFlight, OnWire, InTcpThread, InRing, InGpuThread, InOutput
  <1>2. TypeOK /\ RingExclusion /\ OutputExclusion /\ StagesAgree /\ Placed /\ CurrentRun
           /\ [Next]_vars => CurrentRun'
    BY NextCurrentRun
  <1> QED
    BY <1>1, <1>2, TypeCorrect, RingIsExclusive, OutputIsExclusive, StagesStayTogether,
       FillsArePlaced, PTL DEF Spec

-----------------------------------------------------------------------------
(* Counts of the fills of the current run, along the pipeline: read from    *)
(* the socket, put into the ring, taken from it by gpu_thread_1, copied to  *)
(* the output buffer, delivered.                                            *)
Taken == amc13Nr - Len(wire)
Filled == IF pcTcp \in {"store", "unlock"} THEN Taken - 1 ELSE Taken
Copied == IF pcGpu \in {"avail", "process", "publish", "load", "incr"}
          THEN GPUfillnumber + 1 ELSE GPUfillnumber
Got == IF pcGpu \in {"out", "copy"} THEN Copied + 1 ELSE Copied
LastNr == IF delivered # <<>> /\ delivered[Len(delivered)].inRun = runs
          THEN delivered[Len(delivered)].head.nr ELSE 0

(* The ring buffer of fill n of a run: the first goes where the threads     *)
(* stood when the run began, since their indices outlive the reset.         *)
Slot(n) == IF n = 1 THEN TCPbufferindex ELSE (n - 1) % RingSize

TcpCounts ==
  /\ Taken \in Nat
  /\ \A k \in 1 .. Len(wire) : wire[k].nr = Taken + k
  /\ pcTcp \in {"index", "avail", "read"} => TCPfillnumber = Taken
  /\ pcTcp \in {"store", "unlock", "load", "incr"} => TCPfillnumber + 1 = Taken
  /\ pcTcp = "incr" => tcpReg = TCPfillnumber
  /\ pcTcp = "index" => Taken # 0
  /\ pcTcp \in {"avail", "read"} => bufIndex = Slot(Taken + 1)
  /\ pcTcp \in {"store", "unlock"} => bufIndex = Slot(Taken) /\ tcp_buf_gl[bufIndex].nr = Taken

RingCounts ==
  /\ Got <= Filled
  /\ \A i \in Ring : ~ mutex_TCP_buf_ready[i]
       => /\ tcp_buf_header_gl[i].nr \in Got + 1 .. Filled
          /\ i = Slot(tcp_buf_header_gl[i].nr)
  /\ \A n \in Got + 1 .. Filled :
       ~ mutex_TCP_buf_ready[Slot(n)] /\ tcp_buf_header_gl[Slot(n)].nr = n

GpuCounts ==
  /\ pcGpu = "index" => Got # 0
  /\ pcGpu = "ready" => TCPbufferindex = Slot(Got + 1)
  /\ pcGpu \in {"out", "copy"} => tcp_buf_header_gl[TCPbufferindex].nr = Got
  /\ pcGpu = "incr" => gpuReg = GPUfillnumber
  /\ IF gpuMutex /\ pcGpu # "copy"
     THEN gpu_data_header.nr = Copied /\ LastNr + 1 = Copied
     ELSE LastNr = Copied

Counts == TcpCounts /\ RingCounts /\ GpuCounts

(* Between runs the threads wait at one ring buffer, and in the transition  *)
(* the counters are reset.                                                  *)
AtRest ==
  /\ pcTcp \in {"index", "avail", "read"} /\ pcGpu \in {"index", "ready"}
  /\ bufIndex = TCPbufferindex
  /\ pcTcp = "index" => TCPfillnumber = 0 /\ bufIndex = 0
  /\ pcGpu = "index" => GPUfillnumber = 0 /\ TCPbufferindex = 0

Starting ==
  Transition =>
    /\ amc13Nr = 0 /\ LastNr = 0
    /\ pcTcp = "read" /\ pcGpu = "ready"
    /\ pcMfe = "borGpu" => TCPfillnumber = 0

Timed ==
  /\ IF run_state = "running" THEN Counts ELSE AtRest
  /\ Starting

LEMMA CountsAreNumbers ==
  ASSUME TypeOK
  PROVE  /\ amc13Nr \in Nat /\ Len(wire) \in Nat /\ Taken \in Int /\ Filled \in Int
         /\ TCPfillnumber \in Nat /\ GPUfillnumber \in Nat /\ Copied \in Nat /\ Got \in Nat
         /\ Got >= Copied /\ bufIndex \in Ring /\ TCPbufferindex \in Ring
         /\ \A n \in Nat \ {0} : Slot(n) \in Ring
  <1>1. amc13Nr \in Nat /\ Len(wire) \in Nat
    BY ReadoutAssumption DEF TypeOK
  <1>2. TCPfillnumber \in Nat /\ GPUfillnumber \in Nat /\ bufIndex \in Ring /\ TCPbufferindex \in Ring
    BY DEF TypeOK
  <1>3. ASSUME NEW n \in Nat \ {0} PROVE Slot(n) \in Ring
    <2>1. n - 1 \in Nat
      OBVIOUS
    <2> QED
      BY <1>2, <2>1, ModInRing DEF Slot
  <1> QED
    BY <1>1, <1>2, <1>3 DEF Taken, Filled, Copied, Got

(* A step of the AMC13 or of tcp_thread disturbs the counts of the socket   *)
(* and of the ring only.                                                    *)
LEMMA TcpKeepsGpuCounts ==
  ASSUME TypeOK, RingExclusion, GpuCounts, AMC13Event \/ TcpThread
  PROVE  /\ GpuCounts' /\ Got' = Got /\ Copied' = Copied
         /\ UNCHANGED <<TCPbufferindex, runs, run_state, pcMfe, delivered>>
  <1>1. /\ UNCHANGED <<pcGpu, TCPbufferindex, GPUfillnumber, gpuReg, gpu_data_header, delivered>>
        /\ UNCHANGED <<runs, run_state, pcMfe>> /\ UNCHANGED gpuMutex
    BY DEF AMC13Event, TcpThread, TcpSetIndex, TcpLockAvail, TcpReadAndUnpack, TcpStore,
           TcpUnlockReady, TcpLoadFillnumber, TcpStoreFillnumber, gpuVars, outVars, mfeVars
  <1>2. pcGpu \in {"out", "copy"}
          => tcp_buf_header_gl'[TCPbufferindex] = tcp_buf_header_gl[TCPbufferindex]
    <2>1. CASE TcpStore
      <3>1. pcGpu \in {"out", "copy"} => TCPbufferindex # bufIndex
        BY <2>1 DEF TcpStore, RingExclusion, TcpOwns, GpuOwns, TypeOK
      <3> QED
        BY <2>1, <3>1 DEF TcpStore, TypeOK
    <2>2. CASE ~ TcpStore
      BY <2>2 DEF AMC13Event, TcpThread, TcpSetIndex, TcpLockAvail, TcpReadAndUnpack,
             TcpUnlockReady, TcpLoadFillnumber, TcpStoreFillnumber, ringVars
    <2> QED
      BY <2>1, <2>2
  <1>3. Got' = Got /\ Copied' = Copied
    BY <1>1 DEF Got, Copied
  <1>4. LastNr' = LastNr
    BY <1>1 DEF LastNr
  <1>5. Slot(Got + 1)' = Slot(Got + 1)
    BY <1>1, <1>3 DEF Slot
  <1> QED
    BY <1>1, <1>2, <1>3, <1>4, <1>5 DEF GpuCounts

(* The counts of the ring in a step that does not change the ring.          *)
LEMMA SameRingCounts ==
  ASSUME TypeOK, RingCounts, Got' = Got, Filled' = Filled,
         UNCHANGED TCPbufferindex \/ Got # 0,
         UNCHANGED mutex_TCP_buf_ready,
         \A i \in Ring : ~ mutex_TCP_buf_ready[i] => tcp_buf_header_gl'[i] = tcp_buf_header_gl[i]
  PROVE  RingCounts'
  <1>1. Got \in Nat /\ Filled \in Int /\ \A n \in Nat \ {0} : Slot(n) \in Ring
    BY CountsAreNumbers
  <1>2. ASSUME NEW n \in Got + 1 .. Filled PROVE Slot(n)' = Slot(n)
    BY <1>1 DEF Slot
  <1>3. ASSUME NEW i \in Ring, ~ mutex_TCP_buf_ready'[i]
        PROVE  /\ tcp_buf_header_gl'[i].nr \in Got + 1 .. Filled
               /\ i = Slot(tcp_buf_header_gl[i].nr)'
    <2>1. /\ tcp_buf_header_gl[i].nr \in Got + 1 .. Filled /\ i = Slot(tcp_buf_header_gl[i].nr)
          /\ tcp_buf_header_gl'[i] = tcp_buf_header_gl[i]
      BY <1>3 DEF RingCounts
    <2> DEFINE n == tcp_buf_header_gl[i].nr
    <2> HIDE DEF n
    <2> QED
      BY <1>2, <2>1 DEF n, Slot
  <1>4. ASSUME NEW n \in Got + 1 .. Filled
        PROVE  ~ mutex_TCP_buf_ready'[Slot(n)'] /\ tcp_buf_header_gl'[Slot(n)'].nr = n
    <2>1. n \in Nat \ {0}
      BY <1>1
    <2> QED
      BY <1>1, <1>2, <2>1 DEF RingCounts
  <1> QED
    BY <1>3, <1>4 DEF RingCounts

(* The steps of tcp_thread and of the AMC13 during a run.                   *)
LEMMA TcpKeepsCounts ==
  ASSUME TypeOK, RingExclusion, StagesAgree, Placed, Counts, AMC13Event \/ TcpThread
  PROVE  Counts'
  <1>1. /\ GpuCounts' /\ Got' = Got
        /\ UNCHANGED <<TCPbufferindex, runs, run_state, pcMfe, delivered>>
    BY TcpKeepsGpuCounts DEF Counts
  <1>2. /\ amc13Nr \in Nat /\ Len(wire) \in Nat /\ Taken \in Nat /\ Filled \in Int
        /\ TCPfillnumber \in Nat /\ Got \in Nat /\ bufIndex \in Ring
        /\ Got <= Filled
    BY CountsAreNumbers DEF Counts, TcpCounts, RingCounts
  <1>3. \A n \in Nat : UNCHANGED Slot(n)
    BY <1>1 DEF Slot
  <1>4. CASE AMC13Event
    <2>1. PICK f \in Fill : f.nr = amc13Nr' /\ wire' = Append(wire, f)
      BY <1>4, EventIsNew
    <2>2. /\ amc13Nr' = amc13Nr + 1
          /\ UNCHANGED <<pcTcp, bufIndex, TCPfillnumber, tcpReg, tcp_buf_gl, tcp_buf_header_gl>>
          /\ UNCHANGED mutex_TCP_buf_ready
      BY <1>4 DEF AMC13Event, tcpVars, ringVars
    <2>3. Len(wire') = Len(wire) + 1 /\ wire'[Len(wire) + 1] = f
          /\ \A k \in 1 .. Len(wire) : wire'[k] = wire[k]
      BY <2>1 DEF TypeOK
    <2>4. Taken' = Taken /\ Filled' = Filled
      BY <1>2, <2>2, <2>3 DEF Taken, Filled
    <2>5. ASSUME NEW k \in 1 .. Len(wire') PROVE wire'[k].nr = Taken + k
      <3>1. CASE k = Len(wire) + 1
        BY <1>2, <2>1, <2>2, <2>3, <3>1 DEF Taken
      <3>2. CASE k # Len(wire) + 1
        <4>1. k \in 1 .. Len(wire)
          BY <1>2, <2>3, <3>2
        <4> QED
          BY <2>3, <4>1 DEF Counts, TcpCounts
      <3> QED
        BY <3>1, <3>2
    <2>6. TcpCounts'
      BY <1>2, <1>3, <2>2, <2>4, <2>5 DEF Counts, TcpCounts, Slot
    <2>7. RingCounts'
      BY <1>1, <2>2, <2>4, SameRingCounts DEF Counts
    <2> QED
      BY <1>1, <2>6, <2>7 DEF Counts
  <1>5. CASE TcpSetIndex
    <2>1. /\ UNCHANGED <<wire, amc13Nr, tcp_buf_header_gl, tcp_buf_gl, TCPfillnumber>>
          /\ UNCHANGED mutex_TCP_buf_ready
          /\ pcTcp = "index" /\ pcTcp' = "avail" /\ bufIndex' = TCPfillnumber % RingSize
      BY <1>5 DEF TcpSetIndex, wireVars, ringVars
    <2>2. Taken' = Taken /\ Filled' = Filled
      BY <2>1 DEF Taken, Filled
    <2>3. Taken # 0 /\ TCPfillnumber = Taken
      BY <2>1 DEF Counts, TcpCounts
    <2>4. bufIndex' = Slot(Taken + 1)
      BY <1>2, <2>1, <2>3 DEF Slot
    <2>5. TcpCounts'
      BY <1>1, <1>2, <1>3, <2>1, <2>2, <2>3, <2>4 DEF Counts, TcpCounts, Slot
    <2> QED
      BY <1>1, <2>1, <2>2, <2>5, SameRingCounts DEF Counts
  <1>6. CASE TcpLockAvail \/ TcpLoadFillnumber
    <2>1. /\ UNCHANGED <<wire, amc13Nr, tcp_buf_header_gl, tcp_buf_gl, TCPfillnumber, bufIndex>>
          /\ UNCHANGED mutex_TCP_buf_ready
          /\ \/ pcTcp = "avail" /\ pcTcp' = "read"
             \/ pcTcp = "load" /\ pcTcp' = "incr" /\ tcpReg' = TCPfillnumber
      BY <1>6 DEF TcpLockAvail, TcpLoadFillnumber, wireVars, ringVars
    <2>2. Taken' = Taken /\ Filled' = Filled
      BY <2>1 DEF Taken, Filled
    <2>3. TcpCounts'
      BY <1>1, <1>2, <1>3, <2>1, <2>2 DEF Counts, TcpCounts, Slot
    <2> QED
      BY <1>1, <2>1, <2>2, <2>3, SameRingCounts DEF Counts
  <1>7. CASE TcpReadAndUnpack
    <2>1. /\ UNCHANGED <<amc13Nr, tcp_buf_header_gl, TCPfillnumber, bufIndex>>
          /\ UNCHANGED mutex_TCP_buf_ready
          /\ pcTcp = "read" /\ pcTcp' = "store" /\ wire # <<>> /\ wire' = Tail(wire)
          /\ tcp_buf_gl' = [tcp_buf_gl EXCEPT ![bufIndex] = Head(wire)]
      BY <1>7 DEF TcpReadAndUnpack, ringVars
    <2>2. /\ Head(wire) = wire[1] /\ Len(wire') = Len(wire) - 1 /\ 1 \in 1 .. Len(wire)
          /\ \A k \in 1 .. Len(wire') : wire'[k] = wire[k + 1] /\ k + 1 \in 1 .. Len(wire)
      BY <2>1 DEF TypeOK
    <2>3. Taken' = Taken + 1 /\ Filled' = Filled
      BY <1>2, <2>1, <2>2 DEF Taken, Filled
    <2>4. tcp_buf_gl'[bufIndex].nr = Taken + 1
      BY <1>2, <2>1, <2>2 DEF Counts, TcpCounts, TypeOK
    <2>5. ASSUME NEW k \in 1 .. Len(wire') PROVE wire'[k].nr = Taken' + k
      <3>1. wire[k + 1].nr = Taken + (k + 1)
        BY <2>2 DEF Counts, TcpCounts
      <3> QED
        BY <1>2, <2>2, <2>3, <3>1
    <2>6. bufIndex = Slot(Taken + 1) /\ TCPfillnumber = Taken
      BY <2>1 DEF Counts, TcpCounts
    <2>7. TcpCounts'
      BY <1>1, <1>2, <2>1, <2>3, <2>4, <2>5, <2>6 DEF TcpCounts, Slot
    <2> QED
      BY <1>1, <2>1, <2>3, <2>7, SameRingCounts DEF Counts
  <1>8. CASE TcpStore
    <2>1. /\ UNCHANGED <<wire, amc13Nr, tcp_buf_gl, TCPfillnumber, bufIndex>>
          /\ UNCHANGED mutex_TCP_buf_ready
          /\ pcTcp = "store" /\ pcTcp' = "unlock"
          /\ tcp_buf_header_gl' = [tcp_buf_header_gl EXCEPT ![bufIndex] = header]
      BY <1>8 DEF TcpStore, wireVars
    <2>2. Taken' = Taken /\ Filled' = Filled
      BY <2>1 DEF Taken, Filled
    <2>3. mutex_TCP_buf_ready[bufIndex]
      BY <1>2, <2>1 DEF RingExclusion, TcpOwns
    <2>4. \A i \in Ring : ~ mutex_TCP_buf_ready[i] => tcp_buf_header_gl'[i] = tcp_buf_header_gl[i]
      BY <2>1, <2>3 DEF TypeOK
    <2>5. TcpCounts'
      BY <1>1, <1>2, <1>3, <2>1, <2>2 DEF Counts, TcpCounts, Slot
    <2> QED
      BY <1>1, <2>1, <2>2, <2>4, <2>5, SameRingCounts DEF Counts
  <1>9. CASE TcpUnlockReady
    <2>1. /\ UNCHANGED <<wire, amc13Nr, tcp_buf_gl, tcp_buf_header_gl, TCPfillnumber, bufIndex>>
          /\ pcTcp = "unlock" /\ pcTcp' = "load"
          /\ mutex_TCP_buf_ready' = [mutex_TCP_buf_ready EXCEPT ![bufIndex] = FALSE]
      BY <1>9 DEF TcpUnlockReady, wireVars
    <2>2. Taken' = Taken /\ Filled = Taken - 1 /\ Filled' = Taken
      BY <2>1 DEF Taken, Filled
    <2>3. bufIndex = Slot(Taken) /\ tcp_buf_header_gl[bufIndex].nr = Taken
      BY <2>1 DEF Counts, TcpCounts, StagesAgree
    <2>4. \A i \in Ring : ~ mutex_TCP_buf_ready'[i] <=> ~ mutex_TCP_buf_ready[i] \/ i = bufIndex
      BY <1>2, <2>1 DEF TypeOK
    <2>5. TcpCounts'
      BY <1>1, <1>2, <1>3, <2>1, <2>2 DEF Counts, TcpCounts, Slot
    <2>6. ASSUME NEW i \in Ring, ~ mutex_TCP_buf_ready'[i]
          PROVE  /\ tcp_buf_header_gl[i].nr \in Got + 1 .. Filled'
                 /\ i = Slot(tcp_buf_header_gl[i].nr)
      <3>1. CASE i = bufIndex
        BY <1>2, <2>2, <2>3, <3>1
      <3>2. CASE i # bufIndex
        <4>1. tcp_buf_header_gl[i].nr \in Got + 1 .. Filled /\ i = Slot(tcp_buf_header_gl[i].nr)
          BY <2>4, <2>6, <3>2 DEF Counts, RingCounts
        <4> QED
          BY <1>2, <2>2, <4>1
      <3> QED
        BY <3>1, <3>2
    <2>7. ASSUME NEW n \in Got + 1 .. Filled'
          PROVE  ~ mutex_TCP_buf_ready'[Slot(n)] /\ tcp_buf_header_gl[Slot(n)].nr = n
      <3>1. CASE n = Taken
        BY <1>2, <2>3, <2>4, <3>1
      <3>2. CASE n # Taken
        <4>1. n \in Got + 1 .. Filled /\ n \in Nat \ {0}
          BY <1>2, <2>2, <3>2
        <4>2. Slot(n) \in Ring
          BY <4>1, CountsAreNumbers
        <4> QED
          BY <2>4, <4>1, <4>2 DEF Counts, RingCounts
      <3> QED
        BY <3>1, <3>2
    <2>8. \A n : Slot(n)' = Slot(n)
      BY <1>1 DEF Slot
    <2>9. Got <= Filled'
      BY <1>2, <2>2
    <2>10. RingCounts'
      BY <1>1, <2>1, <2>6, <2>7, <2>8, <2>9 DEF RingCounts
    <2> QED
      BY <1>1, <2>5, <2>10 DEF Counts
  <1>10. CASE TcpStoreFillnumber
    <2>1. /\ UNCHANGED <<wire, amc13Nr, tcp_buf_header_gl, tcp_buf_gl, bufIndex>>
          /\ UNCHANGED mutex_TCP_buf_ready
          /\ pcTcp = "incr" /\ pcTcp' = "index" /\ TCPfillnumber' = tcpReg + 1
      BY <1>10 DEF TcpStoreFillnumber, wireVars, ringVars
    <2>2. Taken' = Taken /\ Filled' = Filled
      BY <2>1 DEF Taken, Filled
    <2>3. TCPfillnumber' = Taken /\ Taken # 0
      BY <1>2, <2>1 DEF Counts, TcpCounts
    <2>4. TcpCounts'
      BY <1>1, <1>2, <1>3, <2>1, <2>2, <2>3 DEF Counts, TcpCounts, Slot
    <2> QED
      BY <1>1, <2>1, <2>2, <2>4, SameRingCounts DEF Counts
  <1> QED
    BY <1>4, <1>5, <1>6, <1>7, <1>8, <1>9, <1>10 DEF TcpThread

(* The counts of the socket in a step that does not change them.            *)
LEMMA SameTcpCounts ==
  ASSUME TypeOK, TcpCounts, RingCounts,
         UNCHANGED <<wire, amc13Nr, pcTcp, bufIndex, TCPfillnumber, tcpReg, tcp_buf_gl>>,
         UNCHANGED TCPbufferindex \/ Got # 0
  PROVE  TcpCounts' /\ Taken' = Taken /\ Filled' = Filled
  <1>1. Taken' = Taken /\ Filled' = Filled
    BY DEF Taken, Filled
  <1>2. Taken \in Nat /\ Got \in Nat /\ Got <= Filled
    BY CountsAreNumbers DEF TcpCounts, RingCounts
  <1>3. pcTcp \in {"avail", "read"} => Slot(Taken + 1)' = Slot(Taken + 1)
    BY <1>1, <1>2 DEF Slot, Filled
  <1>4. pcTcp \in {"store", "unlock"} => Slot(Taken)' = Slot(Taken)
    BY <1>1, <1>2 DEF Slot, Filled
  <1> QED
    BY <1>1, <1>3, <1>4 DEF TcpCounts

(* The steps of gpu_thread_1 during a run.                                  *)
LEMMA GpuKeepsCounts ==
  ASSUME TypeOK, OutputExclusion, Counts, GpuThread
  PROVE  Counts'
  <1>1. /\ UNCHANGED <<wire, amc13Nr, pcTcp, bufIndex, TCPfillnumber, tcpReg, tcp_buf_gl>>
        /\ UNCHANGED <<tcp_buf_header_gl, runs, delivered>>
    BY DEF GpuThread, GpuSetIndex, GpuLockReady, GpuLockOutput, GpuCopy, GpuUnlockAvail, GpuProcess,
           GpuPublish, GpuLoadFillnumber, GpuStoreFillnumber, wireVars, tcpVars, ringVars, mfeVars
  <1>2. /\ Taken \in Nat /\ Filled \in Int /\ GPUfillnumber \in Nat /\ Got \in Nat /\ Copied \in Nat
        /\ Got <= Filled /\ TCPbufferindex \in Ring /\ \A n \in Nat \ {0} : Slot(n) \in Ring
    BY CountsAreNumbers DEF Counts, TcpCounts, RingCounts
  <1>3. LastNr' = LastNr
    BY <1>1 DEF LastNr
  <1>4. CASE GpuSetIndex
    <2>1. /\ UNCHANGED <<GPUfillnumber, gpuReg, gpu_data_header>>
          /\ UNCHANGED mutex_TCP_buf_ready /\ UNCHANGED gpuMutex
          /\ pcGpu = "index" /\ pcGpu' = "ready" /\ TCPbufferindex' = GPUfillnumber % RingSize
      BY <1>4 DEF GpuSetIndex, ringVars, outVars
    <2>2. Got = GPUfillnumber /\ Got' = Got /\ Copied = Got /\ Copied' = Got
      BY <2>1 DEF Got, Copied
    <2>3. Got # 0
      BY <2>1 DEF Counts, GpuCounts
    <2>4. TcpCounts' /\ Taken' = Taken /\ Filled' = Filled
      BY <1>1, <2>3, SameTcpCounts DEF Counts
    <2>5. RingCounts'
      BY <1>1, <2>1, <2>2, <2>3, <2>4, SameRingCounts DEF Counts
    <2>6. TCPbufferindex' = Slot(Got + 1)'
      BY <1>2, <2>1, <2>2, <2>3 DEF Slot
    <2>7. GpuCounts'
      BY <1>3, <2>1, <2>2, <2>3, <2>6 DEF Counts, GpuCounts
    <2> QED
      BY <2>4, <2>5, <2>7 DEF Counts
  <1>5. CASE GpuLockReady
    <2>1. /\ UNCHANGED <<GPUfillnumber, gpuReg, TCPbufferindex, gpu_data_header>>
          /\ UNCHANGED gpuMutex /\ pcGpu = "ready" /\ pcGpu' = "out"
          /\ ~ mutex_TCP_buf_ready[TCPbufferindex]
          /\ mutex_TCP_buf_ready' = [mutex_TCP_buf_ready EXCEPT ![TCPbufferindex] = TRUE]
      BY <1>5 DEF GpuLockReady, outVars
    <2>2. Got = GPUfillnumber /\ Got' = Got + 1 /\ Copied = Got /\ Copied' = Got
      BY <2>1 DEF Got, Copied
    <2>3. TcpCounts' /\ Taken' = Taken /\ Filled' = Filled
      BY <1>1, <2>1, SameTcpCounts DEF Counts
    <2>4. TCPbufferindex = Slot(Got + 1)
      BY <2>1 DEF Counts, GpuCounts
    <2>5. tcp_buf_header_gl[TCPbufferindex].nr \in Got + 1 .. Filled
      BY <1>2, <2>1 DEF Counts, RingCounts
    <2>6. Got + 1 \in Got + 1 .. Filled
      BY <1>2, <2>5
    <2>7. tcp_buf_header_gl[TCPbufferindex].nr = Got + 1
      BY <2>4, <2>6 DEF Counts, RingCounts
    <2>8. \A n : Slot(n)' = Slot(n)
      BY <2>1 DEF Slot
    <2>9. \A i \in Ring : ~ mutex_TCP_buf_ready'[i] <=> ~ mutex_TCP_buf_ready[i] /\ i # TCPbufferindex
      BY <1>2, <2>1 DEF TypeOK
    <2>10. ASSUME NEW i \in Ring, ~ mutex_TCP_buf_ready'[i]
           PROVE  /\ tcp_buf_header_gl[i].nr \in Got' + 1 .. Filled
                  /\ i = Slot(tcp_buf_header_gl[i].nr)
      <3>1. tcp_buf_header_gl[i].nr \in Got + 1 .. Filled /\ i = Slot(tcp_buf_header_gl[i].nr)
            /\ i # TCPbufferindex
        BY <2>9, <2>10 DEF Counts, RingCounts
      <3>2. tcp_buf_header_gl[i].nr # Got + 1
        BY <2>4, <3>1
      <3> QED
        BY <1>2, <2>2, <3>1, <3>2
    <2>11. ASSUME NEW n \in Got' + 1 .. Filled
           PROVE  ~ mutex_TCP_buf_ready'[Slot(n)] /\ tcp_buf_header_gl[Slot(n)].nr = n
      <3>1. n \in Got + 1 .. Filled /\ n \in Nat \ {0} /\ n # Got + 1
        BY <1>2, <2>2
      <3>2. Slot(n) \in Ring /\ ~ mutex_TCP_buf_ready[Slot(n)] /\ tcp_buf_header_gl[Slot(n)].nr = n
        BY <1>2, <3>1 DEF Counts, RingCounts
      <3> QED
        BY <2>7, <2>9, <3>1, <3>2
    <2>12. Got' <= Filled
      BY <1>2, <2>2, <2>6
    <2>13. RingCounts'
      BY <1>1, <2>3, <2>8, <2>10, <2>11, <2>12 DEF RingCounts
    <2>14. GpuCounts'
      BY <1>1, <1>2, <1>3, <2>1, <2>2, <2>7 DEF Counts, GpuCounts
    <2> QED
      BY <2>3, <2>13, <2>14 DEF Counts
  <1>6. CASE ~ GpuSetIndex /\ ~ GpuLockReady
    <2>1. UNCHANGED TCPbufferindex /\ UNCHANGED mutex_TCP_buf_ready
      BY <1>6 DEF GpuThread, GpuLockOutput, GpuCopy, GpuUnlockAvail, GpuProcess,
                  GpuPublish, GpuLoadFillnumber, GpuStoreFillnumber, ringVars
    <2>2. /\ Got' = Got /\ (pcGpu' = "index" => Got # 0)
          /\ pcGpu' # "ready"
          /\ pcGpu' \in {"out", "copy"} => pcGpu \in {"out", "copy"}
          /\ pcGpu' = "incr" => gpuReg' = GPUfillnumber'
      BY <1>2, <1>6 DEF GpuThread, GpuLockOutput, GpuCopy, GpuUnlockAvail, GpuProcess,
                  GpuPublish, GpuLoadFillnumber, GpuStoreFillnumber, Got, Copied, Counts, GpuCounts
    <2>3. TcpCounts' /\ Taken' = Taken /\ Filled' = Filled
      BY <1>1, <2>1, SameTcpCounts DEF Counts
    <2>4. RingCounts'
      BY <1>1, <2>1, <2>2, <2>3, SameRingCounts DEF Counts
    <2>5. (IF gpuMutex /\ pcGpu # "copy"
           THEN gpu_data_header.nr = Copied /\ LastNr + 1 = Copied
           ELSE LastNr = Copied)'
      <3>1. CASE GpuLockOutput
        <4>1. pcGpu = "out" /\ ~ gpuMutex /\ pcGpu' = "copy" /\ UNCHANGED GPUfillnumber
          BY <3>1 DEF GpuLockOutput
        <4> QED
          BY <1>3, <4>1 DEF Copied, Counts, GpuCounts
      <3>2. CASE GpuCopy
        <4>1. pcGpu = "copy" /\ gpuMutex /\ gpuMutex' = gpuMutex /\ pcGpu' = "avail"
              /\ UNCHANGED GPUfillnumber /\ gpu_data_header' = tcp_buf_header_gl[TCPbufferindex]
          BY <3>2 DEF GpuCopy, OutputExclusion, OutputWritten
        <4>2. LastNr = Copied /\ tcp_buf_header_gl[TCPbufferindex].nr = Copied + 1
              /\ Copied' = Copied + 1
          BY <4>1 DEF Counts, GpuCounts, Got, Copied
        <4> QED
          BY <1>2, <1>3, <4>1, <4>2
      <3>3. CASE GpuUnlockAvail \/ GpuProcess \/ GpuPublish \/ GpuLoadFillnumber
        <4>1. pcGpu # "copy" /\ pcGpu' # "copy" /\ UNCHANGED gpu_data_header /\ gpuMutex' = gpuMutex
              /\ Copied' = Copied
          BY <3>3 DEF GpuUnlockAvail, GpuProcess, GpuPublish, GpuLoadFillnumber, outVars, Copied
        <4> QED
          BY <1>3, <4>1 DEF Counts, GpuCounts
      <3>4. CASE GpuStoreFillnumber
        <4>1. pcGpu = "incr" /\ pcGpu' = "index" /\ UNCHANGED gpu_data_header /\ gpuMutex' = gpuMutex
              /\ GPUfillnumber' = gpuReg + 1
          BY <3>4 DEF GpuStoreFillnumber, outVars
        <4>2. Copied' = Copied
          BY <4>1 DEF Copied, Counts, GpuCounts
        <4> QED
          BY <1>3, <4>1, <4>2 DEF Counts, GpuCounts
      <3> QED
        BY <1>6, <3>1, <3>2, <3>3, <3>4 DEF GpuThread
    <2>6. GpuCounts'
      BY <1>1, <2>1, <2>2, <2>5 DEF Counts, GpuCounts
    <2> QED
      BY <2>3, <2>4, <2>6 DEF Counts
  <1> QED
    BY <1>4, <1>5, <1>6

(* The steps of the main thread during a run: a delivery counts one fill.   *)
LEMMA MfeKeepsCounts ==
  ASSUME TypeOK, OutputExclusion, Counts,
         MfeCycle \/ PollEvent \/ FrontendLoop \/ ReadBanks \/ ReadHeader \/ UNCHANGED vars
  PROVE  Counts'
  <1>1. /\ UNCHANGED <<wire, amc13Nr, pcTcp, bufIndex, TCPfillnumber, tcpReg, tcp_buf_gl>>
        /\ UNCHANGED <<tcp_buf_header_gl, runs, pcGpu, TCPbufferindex, GPUfillnumber, gpuReg>>
        /\ UNCHANGED gpu_data_header /\ UNCHANGED mutex_TCP_buf_ready
    BY DEF MfeCycle, PollEvent, FrontendLoop, ReadBanks, ReadHeader, vars,
           wireVars, tcpVars, ringVars, gpuVars, outVars, mfeVars
  <1>2. Got' = Got /\ Copied' = Copied
    BY <1>1 DEF Got, Copied
  <1>3. TcpCounts' /\ Taken' = Taken /\ Filled' = Filled
    BY <1>1, SameTcpCounts DEF Counts
  <1>4. RingCounts'
    BY <1>1, <1>2, <1>3, SameRingCounts DEF Counts
  <1>5. CASE ~ ReadHeader
    <2>1. UNCHANGED delivered /\ UNCHANGED gpuMutex
      BY <1>5 DEF MfeCycle, PollEvent, FrontendLoop, ReadBanks, vars, mfeVars
    <2>2. LastNr' = LastNr
      BY <1>1, <2>1 DEF LastNr
    <2>3. Slot(Got + 1)' = Slot(Got + 1)
      BY <1>1, <1>2 DEF Slot
    <2>4. GpuCounts'
      BY <1>1, <1>2, <2>1, <2>2, <2>3 DEF Counts, GpuCounts
    <2> QED
      BY <1>3, <1>4, <2>4 DEF Counts
  <1>6. CASE ReadHeader
    <2>1. pcMfe = "header" /\ gpuMutex /\ pcGpu # "copy" /\ ~ gpuMutex'
      BY <1>6 DEF ReadHeader, OutputExclusion, OutputWritten, OutputRead
    <2>2. gpu_data_header.nr = Copied
      BY <2>1 DEF Counts, GpuCounts
    <2> DEFINE e == [pevent EXCEPT !.head = gpu_data_header, !.inRun = runs]
    <2>3. e.head = gpu_data_header /\ e.inRun = runs /\ e \in Event
      BY DEF TypeOK, Event
    <2>4. delivered' = Append(delivered, e) /\ delivered \in Seq(Event)
      BY <1>6 DEF ReadHeader, TypeOK
    <2> HIDE DEF e
    <2>5. delivered' # <<>> /\ delivered'[Len(delivered')] = e
      BY <2>3, <2>4
    <2>6. LastNr' = Copied
      BY <1>1, <2>2, <2>3, <2>5 DEF LastNr
    <2>7. Slot(Got + 1)' = Slot(Got + 1)
      BY <1>1, <1>2 DEF Slot
    <2>8. GpuCounts'
      BY <1>1, <1>2, <2>1, <2>6, <2>7 DEF Counts, GpuCounts
    <2> QED
      BY <1>3, <1>4, <2>8 DEF Counts
  <1> QED
    BY <1>5, <1>6

(* With no fill in flight no thread has anything to pass on.                *)
LEMMA EmptyPipeline ==
  ASSUME TypeOK, OutputExclusion, InFlight = {}
  PROVE  /\ wire = <<>> /\ Len(wire) = 0 /\ \A i \in Ring : mutex_TCP_buf_ready[i]
         /\ ~ OutputRead /\ (gpuMutex => pcGpu = "copy")
  <1>1. wire = <<>> /\ Len(wire) = 0
    <2>1. Len(wire) \in Nat /\ (Len(wire) = 0 => wire = <<>>)
      BY DEF TypeOK
    <2>2. 1 \notin 1 .. Len(wire)
      BY DEF InFlight, OnWire
    <2> QED
      BY <2>1, <2>2
  <1>2. \A i \in Ring : mutex_TCP_buf_ready[i]
    BY DEF InFlight, InRing
  <1>3. gpuMutex => pcGpu = "copy"
    BY DEF InFlight, InOutput
  <1>4. ~ OutputRead
    BY <1>3 DEF OutputExclusion, OutputWritten
  <1> QED
    BY <1>1, <1>2, <1>3, <1>4

(* A start, from a reset with the threads at one ring buffer.               *)
LEMMA StartCounts ==
  ASSUME TypeOK, OutputExclusion, CurrentRun, AtRest, Starting, GpuBor
  PROVE  Counts' /\ AtRest'
  <1>1. /\ UNCHANGED <<wire, amc13Nr, pcTcp, bufIndex, TCPfillnumber, tcp_buf_gl>>
        /\ UNCHANGED <<tcp_buf_header_gl, runs, delivered, pcGpu, TCPbufferindex>>
        /\ UNCHANGED mutex_TCP_buf_ready /\ UNCHANGED gpuMutex
        /\ GPUfillnumber' = 0 /\ pcMfe = "borGpu" /\ Transition
    BY DEF GpuBor, wireVars, tcpVars, ringVars, Transition
  <1>2. InFlight = {}
    BY <1>1 DEF CurrentRun
  <1>3. /\ Len(wire) = 0 /\ \A i \in Ring : mutex_TCP_buf_ready[i]
        /\ (gpuMutex => pcGpu = "copy")
    BY <1>2, EmptyPipeline
  <1>4. /\ amc13Nr = 0 /\ LastNr = 0 /\ pcTcp = "read" /\ pcGpu = "ready" /\ TCPfillnumber = 0
        /\ bufIndex = TCPbufferindex
    BY <1>1 DEF Starting, AtRest
  <1>5. Taken' = 0 /\ Filled' = 0 /\ Got' = 0 /\ Copied' = 0 /\ LastNr' = 0
    <2>1. LastNr' = LastNr
      BY <1>1 DEF LastNr
    <2> QED
      BY <1>1, <1>3, <1>4, <2>1 DEF Taken, Filled, Got, Copied
  <1>6. Slot(1)' = TCPbufferindex
    BY <1>1 DEF Slot
  <1>7. TcpCounts'
    BY <1>1, <1>3, <1>4, <1>5, <1>6 DEF TcpCounts
  <1>8. RingCounts'
    BY <1>1, <1>3, <1>5 DEF RingCounts
  <1>9. GpuCounts'
    BY <1>1, <1>3, <1>4, <1>5, <1>6 DEF GpuCounts
  <1>10. AtRest'
    BY <1>1, <1>4 DEF AtRest
  <1> QED
    BY <1>7, <1>8, <1>9, <1>10 DEF Counts

(* A stop, when the pipeline is drained, leaves the threads at one buffer.  *)
LEMMA StopAtRest ==
  ASSUME DrainedStop, TypeOK, Counts, EndOfRun
  PROVE  AtRest'
  <1>1. /\ Drained
        /\ UNCHANGED <<pcTcp, bufIndex, pcGpu, TCPbufferindex>>
    BY DEF EndOfRun, tcpVars, gpuVars
  <1>2. pcTcp = "read" /\ pcGpu = "ready" /\ \A i \in Ring : mutex_TCP_buf_ready[i]
    BY <1>1 DEF Drained, ThreadsAtRest, InFlight, InGpuThread, InRing
  <1>3. /\ Taken \in Nat /\ Got \in Nat /\ Filled = Taken /\ Got <= Filled
        /\ \A n \in Nat \ {0} : Slot(n) \in Ring
    BY <1>2, CountsAreNumbers DEF Counts, TcpCounts, RingCounts, Filled
  <1>4. Got = Filled
    <2> SUFFICES ASSUME Got # Filled PROVE FALSE
      OBVIOUS
    <2>1. Filled \in Got + 1 .. Filled /\ Filled \in Nat \ {0}
      BY <1>3
    <2> QED
      BY <1>2, <1>3, <2>1 DEF Counts, RingCounts
  <1>5. bufIndex = TCPbufferindex
    BY <1>2, <1>3, <1>4 DEF Counts, TcpCounts, GpuCounts
  <1> QED
    BY <1>1, <1>2, <1>5 DEF AtRest

(* Timed is inductive: during a run the counts, between runs the rest.      *)
LEMMA NextTimed ==
  ASSUME TriggersInRun, DrainedStop
  PROVE  TypeOK /\ RingExclusion /\ OutputExclusion /\ StagesAgree /\ Placed /\ CurrentRun /\ Timed
           /\ [Next]_vars => Timed'
  <1> SUFFICES ASSUME TypeOK, RingExclusion, OutputExclusion, StagesAgree, Placed, CurrentRun, Timed,
                      [Next]_vars
               PROVE  Timed'
    OBVIOUS
  <1>1. CASE run_state = "running"
    <2>1. Counts /\ ~ Transition
      BY <1>1 DEF Timed, CurrentRun
    <2>2. CASE EndOfRun
      <3>1. AtRest' /\ run_state' = "stopped" /\ ~ Transition'
        BY <2>1, <2>2, StopAtRest DEF EndOfRun, Transition
      <3> QED
        BY <3>1 DEF Timed, Starting
    <2>3. CASE ~ EndOfRun
      <3>1. ~ BeginOfRun /\ ~ GpuBor /\ ~ TcpClientBor
        BY <1>1, <2>1 DEF BeginOfRun, GpuBor, TcpClientBor, Transition
      <3>2. run_state' = "running" /\ ~ Transition'
        BY <1>1, <2>1, <2>3, <3>1, RunChanges
      <3>3. Counts'
        <4>1. CASE AMC13Event \/ TcpThread
          BY <2>1, <4>1, TcpKeepsCounts
        <4>2. CASE GpuThread
          BY <2>1, <4>2, GpuKeepsCounts
        <4>3. CASE MfeCycle \/ PollEvent \/ FrontendLoop \/ ReadBanks \/ ReadHeader \/ UNCHANGED vars
          BY <2>1, <4>3, MfeKeepsCounts
        <4> QED
          BY <2>3, <3>1, <4>1, <4>2, <4>3 DEF Next, MfeStep
      <3> QED
        BY <3>2, <3>3 DEF Timed, Starting
    <2> QED
      BY <2>2, <2>3
  <1>2. CASE run_state # "running"
    <2>1. AtRest /\ Starting /\ run_state = "stopped" /\ InFlight = {}
      BY <1>2 DEF Timed, TypeOK, CurrentRun
    <2>2. /\ wire = <<>> /\ Len(wire) = 0 /\ \A i \in Ring : mutex_TCP_buf_ready[i]
          /\ pcMfe \notin {"banks", "header"} /\ TCPbufferindex \in Ring /\ bufIndex \in Ring
      BY <2>1, EmptyPipeline DEF OutputRead, TypeOK
    <2>3. ASSUME UNCHANGED <<delivered, runs>> PROVE LastNr' = LastNr
      BY <2>3 DEF LastNr
    <2>4. ASSUME UNCHANGED <<pcTcp, pcGpu, bufIndex, TCPbufferindex, TCPfillnumber, GPUfillnumber>>,
                 UNCHANGED run_state,
                 UNCHANGED <<amc13Nr, runs, delivered, pcMfe>> \/ ~ Transition'
          PROVE  Timed'
      BY <1>2, <2>1, <2>3, <2>4 DEF AtRest, Starting, Timed, Transition
    <2>5. CASE AMC13Event
      BY <1>2, <2>5 DEF AMC13Event
    <2>6. CASE TcpThread
      <3>1. UNCHANGED <<pcGpu, TCPbufferindex, GPUfillnumber, run_state, pcMfe>>
        BY <2>6 DEF TcpThread, TcpSetIndex, TcpLockAvail, TcpReadAndUnpack, TcpStore,
               TcpUnlockReady, TcpLoadFillnumber, TcpStoreFillnumber, gpuVars, mfeVars
      <3>2. TcpSetIndex \/ TcpLockAvail
        BY <2>1, <2>2, <2>6 DEF AtRest, TcpThread, TcpReadAndUnpack, TcpStore, TcpUnlockReady,
                                TcpLoadFillnumber, TcpStoreFillnumber
      <3>3. ~ Transition
        BY <2>1, <3>2 DEF Starting, TcpSetIndex, TcpLockAvail
      <3>4. AtRest'
        <4>1. CASE TcpSetIndex
          <5>1. TCPfillnumber = 0 /\ bufIndex = 0 /\ bufIndex' = TCPfillnumber % RingSize /\ pcTcp' = "avail"
            BY <2>1, <4>1 DEF AtRest, TcpSetIndex
          <5>2. bufIndex' = 0
            BY <5>1, ReadoutAssumption
          <5> QED
            BY <2>1, <3>1, <5>1, <5>2 DEF AtRest
        <4>2. CASE TcpLockAvail
          BY <2>1, <3>1, <4>2 DEF AtRest, TcpLockAvail
        <4> QED
          BY <3>2, <4>1, <4>2
      <3> QED
        BY <1>2, <3>1, <3>3, <3>4 DEF Timed, Starting, Transition
    <2>7. CASE GpuThread
      <3>1. UNCHANGED <<pcTcp, bufIndex, TCPfillnumber, run_state, pcMfe>>
        BY <2>7 DEF GpuThread, GpuSetIndex, GpuLockReady, GpuLockOutput, GpuCopy, GpuUnlockAvail,
               GpuProcess, GpuPublish, GpuLoadFillnumber, GpuStoreFillnumber, tcpVars, mfeVars
      <3>2. GpuSetIndex
        BY <2>1, <2>2, <2>7 DEF AtRest, GpuThread, GpuLockReady, GpuLockOutput, GpuCopy, GpuUnlockAvail,
               GpuProcess, GpuPublish, GpuLoadFillnumber, GpuStoreFillnumber
      <3>3. ~ Transition
        BY <2>1, <3>2 DEF Starting, GpuSetIndex
      <3>4. GPUfillnumber = 0 /\ TCPbufferindex = 0 /\ TCPbufferindex' = GPUfillnumber % RingSize
            /\ pcGpu' = "ready"
        BY <2>1, <3>2 DEF AtRest, GpuSetIndex
      <3>5. TCPbufferindex' = 0
        BY <3>4, ReadoutAssumption
      <3>6. AtRest'
        BY <2>1, <3>1, <3>4, <3>5 DEF AtRest
      <3> QED
        BY <1>2, <3>1, <3>3, <3>6 DEF Timed, Starting, Transition
    <2>8. CASE MfeCycle \/ PollEvent \/ FrontendLoop
      <3>1. pcMfe' \in {"pollWindow", "loopWindow", "banks", "yield"} /\ UNCHANGED run_state
            /\ UNCHANGED <<pcTcp, pcGpu, bufIndex, TCPbufferindex, TCPfillnumber, GPUfillnumber>>
        BY <2>8 DEF MfeCycle, PollEvent, FrontendLoop, tcpVars, gpuVars
      <3> QED
        BY <2>4, <3>1 DEF Transition
    <2>9. CASE ReadBanks \/ ReadHeader
      BY <2>2, <2>9 DEF ReadBanks, ReadHeader
    <2>10. CASE UNCHANGED vars
      BY <2>4, <2>10 DEF vars, wireVars, tcpVars, gpuVars, mfeVars
    <2>11. CASE BeginOfRun
      <3>1. /\ UNCHANGED <<pcTcp, pcGpu, bufIndex, TCPbufferindex, TCPfillnumber, GPUfillnumber>>
            /\ UNCHANGED <<run_state, delivered>> /\ amc13Nr' = 0 /\ runs' = runs + 1 /\ Drained
            /\ pcMfe' \in {"borTcp", "yield"}
        BY <2>11 DEF BeginOfRun, tcpVars, gpuVars
      <3>2. pcTcp = "read" /\ pcGpu = "ready"
        BY <2>1, <3>1 DEF AtRest, Drained, ThreadsAtRest
      <3>3. LastNr' = 0
        <4>1. ASSUME delivered # <<>> PROVE delivered[Len(delivered)].inRun # runs + 1
          <5>1. Len(delivered) \in 1 .. Len(delivered) /\ delivered[Len(delivered)] \in Event
            BY <4>1 DEF TypeOK
          <5>2. delivered[Len(delivered)].inRun <= runs /\ runs \in Nat
            BY <5>1, ReadoutAssumption DEF CurrentRun, TypeOK
          <5>3. delivered[Len(delivered)].inRun \in Nat
            BY <5>1, ReadoutAssumption DEF Event
          <5> QED
            BY <5>2, <5>3
        <4> QED
          BY <3>1, <4>1 DEF LastNr
      <3>4. AtRest'
        BY <2>1, <3>1 DEF AtRest
      <3>5. Starting'
        BY <3>1, <3>2, <3>3 DEF Starting
      <3> QED
        BY <1>2, <3>1, <3>4, <3>5 DEF Timed
    <2>12. CASE TcpClientBor
      <3>1. /\ UNCHANGED <<pcTcp, pcGpu, bufIndex, TCPbufferindex, GPUfillnumber>>
            /\ UNCHANGED <<run_state, delivered, runs, amc13Nr>> /\ TCPfillnumber' = 0
            /\ Transition
        BY <2>12 DEF TcpClientBor, wireVars, gpuVars, Transition
      <3>2. LastNr' = LastNr
        BY <3>1 DEF LastNr
      <3>3. AtRest' /\ Starting'
        BY <2>1, <3>1, <3>2 DEF AtRest, Starting
      <3> QED
        BY <1>2, <3>1, <3>3 DEF Timed
    <2>13. CASE GpuBor
      <3>1. Counts' /\ AtRest'
        BY <2>1, <2>13, StartCounts
      <3>2. ~ Transition'
        BY <2>13 DEF GpuBor, Transition
      <3> QED
        BY <3>1, <3>2 DEF Timed, Starting
    <2>14. CASE EndOfRun
      BY <1>2, <2>14 DEF EndOfRun
    <2> QED
      BY <2>5, <2>6, <2>7, <2>8, <2>9, <2>10, <2>11, <2>12, <2>13, <2>14 DEF Next, MfeStep
  <1> QED
    BY <1>1, <1>2

(* The counters of the threads agree with where the fills are: what         *)
(* tcp_thread, the ring and gpu_thread_1 have in hand are the next fill     *)
(* numbers of the run, each in the ring buffer of its number.               *)
THEOREM FillsAreCounted == ASSUME TriggersInRun, DrainedStop PROVE Spec => []Timed
  <1>1. Init => Timed
    BY DEF Init, InitWith, Timed, AtRest, Starting, Transition
  <1>2. TypeOK /\ RingExclusion /\ OutputExclusion /\ StagesAgree /\ Placed /\ CurrentRun /\ Timed
           /\ [Next]_vars => Timed'
    BY NextTimed
  <1> QED
    BY <1>1, <1>2, TypeCorrect, RingIsExclusive, OutputIsExclusive, StagesStayTogether,
       FillsArePlaced, PipelineIsOfRun, PTL DEF Spec

LEMMA NextDeliveredInOrder ==
  TypeOK /\ OutputExclusion /\ CurrentRun /\ Timed /\ DeliveredInOrder /\ [Next]_vars
    => DeliveredInOrder'
  <1> SUFFICES ASSUME TypeOK, OutputExclusion, CurrentRun, Timed, DeliveredInOrder, [Next]_vars,
                      ~ UNCHANGED delivered
               PROVE  DeliveredInOrder'
    BY DEF DeliveredInOrder
  <1>1. /\ ReadHeader /\ Len(delivered') = Len(delivered) + 1
        /\ \A k \in 1 .. Len(delivered) : delivered'[k] = delivered[k]
        /\ delivered'[Len(delivered')] = [pevent EXCEPT !.head = gpu_data_header, !.inRun = runs]
    BY DeliveredGrows
  <1>2. /\ delivered'[Len(delivered')].head = gpu_data_header
        /\ delivered'[Len(delivered')].inRun = runs /\ Len(delivered) \in Nat
    BY <1>1 DEF TypeOK, Event
  <1>3. gpuMutex /\ pcGpu # "copy"
    BY <1>1 DEF ReadHeader, OutputExclusion, OutputWritten, OutputRead
  <1>4. gpu_data_header \in InFlight
    BY <1>3 DEF InFlight, InOutput
  <1>5. gpu_data_header.run = runs /\ run_state = "running"
    BY <1>4 DEF CurrentRun, TypeOK
  <1>6. gpu_data_header.nr = LastNr + 1
    BY <1>3, <1>5 DEF Timed, Counts, GpuCounts
  <1>7. ASSUME NEW k \in 1 .. Len(delivered')
        PROVE  /\ delivered'[k].inRun = delivered'[k].head.run
               /\ \/ delivered'[k].head.nr = 1
                  \/ /\ k > 1 /\ delivered'[k - 1].head.nr = delivered'[k].head.nr - 1
                     /\ delivered'[k - 1].inRun = delivered'[k].inRun
    <2>1. CASE k = Len(delivered')
      <3>1. CASE delivered # <<>> /\ delivered[Len(delivered)].inRun = runs
        <4>1. k > 1 /\ k - 1 \in 1 .. Len(delivered) /\ k - 1 = Len(delivered)
          BY <1>1, <1>2, <2>1, <3>1 DEF TypeOK
        <4>2. delivered[Len(delivered)].head.nr = LastNr /\ LastNr \in Nat
          <5>1. delivered[Len(delivered)] \in Event
            BY <4>1 DEF TypeOK
          <5>2. delivered[Len(delivered)].head.nr \in Nat
            BY <5>1, HeadHasNumber
          <5> QED
            BY <3>1, <5>2 DEF LastNr
        <4> QED
          <5>1. delivered'[k - 1] = delivered[Len(delivered)]
            BY <1>1, <4>1
          <5>2. delivered'[k].head = gpu_data_header /\ delivered'[k].inRun = runs
            BY <1>2, <2>1
          <5>3. delivered'[k - 1].head.nr = delivered'[k].head.nr - 1
            <6>1. delivered'[k - 1].head.nr = LastNr /\ delivered'[k].head.nr = LastNr + 1
              BY <1>6, <4>2, <5>1, <5>2
            <6> QED
              BY <4>2, <6>1
          <5> QED
            BY <1>5, <3>1, <4>1, <5>1, <5>2, <5>3
      <3>2. CASE ~ (delivered # <<>> /\ delivered[Len(delivered)].inRun = runs)
        <4>1. LastNr = 0
          BY <3>2 DEF LastNr
        <4> QED
          BY <1>2, <1>5, <1>6, <2>1, <4>1
      <3> QED
        BY <3>1, <3>2
    <2>2. CASE k # Len(delivered')
      <3>1. k \in 1 .. Len(delivered) /\ (k > 1 => k - 1 \in 1 .. Len(delivered))
        BY <1>1, <1>2, <2>2
      <3> QED
        BY <1>1, <3>1 DEF DeliveredInOrder
    <2> QED
      BY <2>1, <2>2
  <1> QED
    BY <1>7 DEF DeliveredInOrder

(* The fills of a run are delivered in it, in the order the AMC13 sent      *)
(* them and with no gap.                                                    *)
THEOREM FillsInOrder == ASSUME TriggersInRun, DrainedStop PROVE Spec => []DeliveredInOrder
  <1>1. Init => DeliveredInOrder
    BY DEF Init, InitWith, DeliveredInOrder
  <1> QED
    BY <1>1, NextDeliveredInOrder, TypeCorrect, OutputIsExclusive, PipelineIsOfRun, FillsAreCounted,
       PTL DEF Spec

-----------------------------------------------------------------------------
(* Fills in the order of sending, as the sequence InOrder makes of a set.   *)
LEMMA StrictOrder ==
  \A f, g \in Fill : ~ (SentBefore(f, g) /\ SentBefore(g, f))
  <1>1. \A f \in Fill : f.run \in Nat /\ f.nr \in Nat
    BY ReadoutAssumption DEF Fill
  <1> QED
    BY <1>1 DEF SentBefore

LEMMA InOrderIsSeq ==
  ASSUME NEW S, NEW V, IsFiniteSet(S), \A k \in 1 .. Cardinality(S) : InOrder(S)[k] \in V
  PROVE  /\ Cardinality(S) \in Nat
         /\ InOrder(S) \in Seq(V) /\ Len(InOrder(S)) = Cardinality(S)
  <1> DEFINE n == Cardinality(S)
             e(k) == Only({f \in S : Rank(f, S) = k - 1})
  <1>1. n \in Nat
    BY FS_CardinalityType
  <1>2. InOrder(S) = [k \in 1 .. n |-> e(k)]
    BY DEF InOrder
  <1> HIDE DEF n, e
  <1>3. InOrder(S) \in [1 .. n -> V]
    BY <1>2 DEF n
  <1>4. InOrder(S) \in Seq(V) /\ Len(InOrder(S)) = n
    BY <1>1, <1>3
  <1> QED
    BY <1>1, <1>4 DEF n

LEMMA InOrderAt ==
  ASSUME NEW S, NEW k \in 1 .. Cardinality(S)
  PROVE  InOrder(S)[k] = Only({f \in S : Rank(f, S) = k - 1})
  BY DEF InOrder

LEMMA OnlyOne ==
  ASSUME NEW f PROVE Only({f}) = f
  BY DEF Only

LEMMA EmptyInOrder == InOrder({}) = <<>>
  <1>1. \A k \in 1 .. Cardinality({}) : InOrder({})[k] \in {}
    BY FS_EmptySet
  <1>2. Len(InOrder({})) = 0 /\ InOrder({}) \in Seq({})
    BY <1>1, InOrderIsSeq, FS_EmptySet
  <1> QED
    BY <1>2, EmptySeq

(* A fill sent after all others goes to the end.                            *)
LEMMA LastGoesBehind ==
  ASSUME NEW S \in SUBSET Fill, IsFiniteSet(S), NEW f \in Fill \ S,
         \A g \in S : SentBefore(g, f)
  PROVE  InOrder(S \cup {f}) = Append(InOrder(S), f)
  <1> DEFINE n == Cardinality(S)
             T == S \cup {f}
  <1>1. n \in Nat /\ IsFiniteSet(T) /\ Cardinality(T) = n + 1
    BY FS_CardinalityType, FS_AddElement
  <1>2. ~ SentBefore(f, f) /\ \A g \in S : ~ SentBefore(f, g)
    BY StrictOrder
  <1>3. Rank(f, T) = n
    <2>1. {g \in T : SentBefore(g, f)} = S
      BY <1>2
    <2> QED
      BY <2>1 DEF Rank
  <1>4. ASSUME NEW g \in S PROVE Rank(g, T) = Rank(g, S) /\ Rank(g, S) \in 0 .. n - 1
    <2> DEFINE U == {h \in S : SentBefore(h, g)}
    <2>1. {h \in T : SentBefore(h, g)} = U
      BY <1>2
    <2>2. U \in SUBSET (S \ {g})
      BY StrictOrder
    <2>3. IsFiniteSet(S \ {g}) /\ Cardinality(S \ {g}) = n - 1
      BY FS_RemoveElement
    <2>4. IsFiniteSet(U) /\ Cardinality(U) <= n - 1
      BY <2>2, <2>3, FS_Subset
    <2>5. Cardinality(U) \in Nat
      BY <2>4, FS_CardinalityType
    <2>6. Rank(g, T) = Cardinality(U) /\ Rank(g, S) = Cardinality(U)
      BY <2>1 DEF Rank
    <2> QED
      BY <1>1, <2>4, <2>5, <2>6
  <1> HIDE DEF n, T
  <1>5. ASSUME NEW k \in 1 .. n PROVE InOrder(T)[k] = InOrder(S)[k]
    <2>1. k \in 1 .. Cardinality(T) /\ k \in 1 .. Cardinality(S) /\ n # k - 1
      BY <1>1 DEF n
    <2>2. ASSUME NEW h \in T PROVE Rank(h, T) = k - 1 <=> h \in S /\ Rank(h, S) = k - 1
      BY <1>3, <1>4, <2>1 DEF T
    <2>3. {h \in T : Rank(h, T) = k - 1} = {h \in S : Rank(h, S) = k - 1}
      BY <2>2 DEF T
    <2>4. InOrder(T)[k] = Only({h \in T : Rank(h, T) = k - 1})
      BY <2>1, InOrderAt
    <2>5. InOrder(S)[k] = Only({h \in S : Rank(h, S) = k - 1})
      BY <2>1, InOrderAt
    <2> QED
      BY <2>3, <2>4, <2>5
  <1>6. InOrder(T)[n + 1] = f
    <2>1. {h \in T : Rank(h, T) = (n + 1) - 1} = {f}
      BY <1>1, <1>3, <1>4 DEF T
    <2>2. n + 1 \in 1 .. Cardinality(T)
      BY <1>1
    <2>3. InOrder(T)[n + 1] = Only({h \in T : Rank(h, T) = (n + 1) - 1})
      BY <2>2, InOrderAt
    <2> QED
      BY <2>1, <2>3, OnlyOne
  <1> DEFINE V == {InOrder(S)[k] : k \in 1 .. n} \cup {InOrder(T)[k] : k \in 1 .. n + 1}
  <1>v. /\ \A k \in 1 .. Cardinality(S) : InOrder(S)[k] \in V
        /\ \A k \in 1 .. Cardinality(T) : InOrder(T)[k] \in V
        /\ f \in V
    <2>1. n + 1 \in 1 .. n + 1
      BY <1>1
    <2>2. InOrder(T)[n + 1] \in V
      BY <2>1
    <2> QED
      BY <1>1, <1>6, <2>2 DEF n
  <1> HIDE DEF V
  <1>7. InOrder(S) \in Seq(V) /\ Len(InOrder(S)) = n
    BY <1>v, InOrderIsSeq DEF n
  <1>8. InOrder(T) \in Seq(V) /\ Len(InOrder(T)) = n + 1 /\ f \in V
    BY <1>1, <1>v, InOrderIsSeq
  <1>9. /\ Append(InOrder(S), f) \in Seq(V) /\ Len(Append(InOrder(S), f)) = n + 1
        /\ \A k \in 1 .. n : Append(InOrder(S), f)[k] = InOrder(S)[k]
        /\ Append(InOrder(S), f)[n + 1] = f
    BY <1>1, <1>7, <1>8
  <1>10. \A k \in 1 .. n + 1 : InOrder(T)[k] = Append(InOrder(S), f)[k]
    BY <1>1, <1>5, <1>6, <1>9
  <1>11. InOrder(T) = Append(InOrder(S), f)
    BY <1>8, <1>9, <1>10, SeqEqual
  <1> QED
    BY <1>11 DEF T

(* A fill sent before all others is the first, and leaves the others.       *)
LEMMA FirstLeaves ==
  ASSUME NEW S \in SUBSET Fill, IsFiniteSet(S), NEW m \in S,
         \A g \in S \ {m} : SentBefore(m, g)
  PROVE  InOrder(S) # <<>> /\ Head(InOrder(S)) = m /\ Tail(InOrder(S)) = InOrder(S \ {m})
  <1> DEFINE n == Cardinality(S)
             R == S \ {m}
  <1>1. n \in Nat /\ IsFiniteSet(R) /\ Cardinality(R) = n - 1 /\ Cardinality(R) \in Nat
    BY FS_CardinalityType, FS_RemoveElement
  <1>2. ~ SentBefore(m, m) /\ \A g \in R : ~ SentBefore(g, m)
    BY StrictOrder
  <1>3. Rank(m, S) = 0
    <2>1. {g \in S : SentBefore(g, m)} = {}
      BY <1>2
    <2> QED
      BY <2>1, FS_EmptySet DEF Rank
  <1>4. ASSUME NEW g \in R PROVE Rank(g, S) = Rank(g, R) + 1 /\ Rank(g, R) \in Nat
    <2> DEFINE U == {h \in R : SentBefore(h, g)}
    <2>1. {h \in S : SentBefore(h, g)} = U \cup {m} /\ m \notin U
      OBVIOUS
    <2>2. IsFiniteSet(U)
      BY <1>1, FS_Subset
    <2>3. Cardinality(U) \in Nat /\ Cardinality(U \cup {m}) = Cardinality(U) + 1
      BY <2>1, <2>2, FS_CardinalityType, FS_AddElement
    <2> QED
      BY <2>1, <2>3 DEF Rank
  <1> HIDE DEF n, R
  <1>5. InOrder(S)[1] = m
    <2>1. {h \in S : Rank(h, S) = 1 - 1} = {m}
      BY <1>3, <1>4 DEF R
    <2>2. 1 \in 1 .. Cardinality(S)
      BY <1>1 DEF n
    <2>3. InOrder(S)[1] = Only({h \in S : Rank(h, S) = 1 - 1})
      BY <2>2, InOrderAt
    <2> QED
      BY <2>1, <2>3, OnlyOne
  <1>6. ASSUME NEW k \in 1 .. n - 1 PROVE InOrder(S)[k + 1] = InOrder(R)[k]
    <2>1. {h \in S : Rank(h, S) = (k + 1) - 1} = {h \in R : Rank(h, R) = k - 1}
      BY <1>1, <1>3, <1>4 DEF R
    <2>2. k + 1 \in 1 .. Cardinality(S) /\ k \in 1 .. Cardinality(R)
      BY <1>1 DEF n
    <2> QED
      BY <2>1, <2>2, InOrderAt
  <1> DEFINE V == {InOrder(S)[k] : k \in 1 .. n} \cup {InOrder(R)[k] : k \in 1 .. n - 1}
  <1>v. /\ \A k \in 1 .. Cardinality(S) : InOrder(S)[k] \in V
        /\ \A k \in 1 .. Cardinality(R) : InOrder(R)[k] \in V
    BY <1>1 DEF n
  <1> HIDE DEF V
  <1>7. InOrder(S) \in Seq(V) /\ Len(InOrder(S)) = n
    BY <1>v, InOrderIsSeq DEF n
  <1>8. InOrder(R) \in Seq(V) /\ Len(InOrder(R)) = n - 1
    BY <1>1, <1>v, InOrderIsSeq
  <1>9. InOrder(S) # <<>> /\ Head(InOrder(S)) = m
    BY <1>1, <1>5, <1>7
  <1>10. /\ Tail(InOrder(S)) \in Seq(V) /\ Len(Tail(InOrder(S))) = n - 1
         /\ \A k \in 1 .. n - 1 : Tail(InOrder(S))[k] = InOrder(S)[k + 1]
    BY <1>1, <1>7, <1>9, HeadTailProperties
  <1>11. Tail(InOrder(S)) = InOrder(R)
    BY <1>6, <1>8, <1>10, SeqEqual
  <1> QED
    BY <1>9, <1>11 DEF R
-----------------------------------------------------------------------------
(* Finitely many fills are sent in a behaviour, so the queue is finite.     *)
FinitelySent == IsFiniteSet(sent)

LEMMA SentIsFinite == Spec => []FinitelySent
  <1>1. Init => FinitelySent
    BY FS_EmptySet DEF Init, InitWith, FinitelySent
  <1>2. FinitelySent /\ [Next]_vars => FinitelySent'
    <2> SUFFICES ASSUME FinitelySent, [Next]_vars PROVE FinitelySent'
      OBVIOUS
    <2> USE DEF FinitelySent
    <2>1. CASE AMC13Event
      BY <2>1, FS_AddElement DEF AMC13Event
    <2>2. CASE ~ AMC13Event
      <3>1. UNCHANGED sent
        BY <2>2 DEF Next, TcpThread, TcpSetIndex, TcpLockAvail, TcpReadAndUnpack, TcpStore,
           TcpUnlockReady, TcpLoadFillnumber, TcpStoreFillnumber, GpuThread, GpuSetIndex,
           GpuLockReady, GpuLockOutput, GpuCopy, GpuUnlockAvail, GpuProcess, GpuPublish,
           GpuLoadFillnumber, GpuStoreFillnumber, MfeStep, MfeCycle, PollEvent, FrontendLoop,
           ReadBanks, ReadHeader, BeginOfRun, TcpClientBor, GpuBor, EndOfRun, vars, wireVars
      <3> QED
        BY <3>1
    <2> QED
      BY <2>1, <2>2
  <1> QED
    BY <1>1, <1>2, PTL DEF Spec

LEMMA InFlightIsFinite ==
  ASSUME TypeOK, Placed, FinitelySent
  PROVE  InFlight \in SUBSET Fill /\ IsFiniteSet(InFlight) /\ InFlight \subseteq sent
  <1>1. InFlight \in SUBSET sent
    BY StagesByName DEF Placed
  <1>2. IsFiniteSet(InFlight)
    BY <1>1, FS_Subset DEF FinitelySent
  <1> QED
    BY <1>1, <1>2 DEF TypeOK

(* What the invariants say together.                                        *)
Pipelined ==
  /\ TypeOK /\ RingExclusion /\ OutputExclusion /\ StagesAgree
  /\ Placed /\ CurrentRun /\ Timed /\ FinitelySent

(* The fill in the output buffer was sent before all others in flight.      *)
LEMMA OutputIsFirst ==
  ASSUME Pipelined, gpuMutex, pcGpu # "copy"
  PROVE  /\ gpu_data_header \in InFlight
         /\ \A g \in InFlight \ {gpu_data_header} : SentBefore(gpu_data_header, g)
  <1>1. gpu_data_header \in InFlight
    BY DEF InFlight, InOutput
  <1>2. Counts /\ \A g \in InFlight : g.run = runs
    BY <1>1 DEF Pipelined, CurrentRun, Timed, TypeOK
  <1>3. /\ Taken \in Nat /\ Filled \in Int /\ Got \in Nat /\ Copied \in Nat
        /\ Got >= Copied /\ Got <= Filled /\ Filled <= Taken
        /\ (pcTcp \in {"store", "unlock"} => Taken = Filled + 1)
        /\ (pcGpu \in {"out", "copy"} => Got = Copied + 1)
        /\ gpu_data_header.nr = Copied
    BY <1>2, CountsAreNumbers DEF Pipelined, Counts, TcpCounts, RingCounts, GpuCounts, Filled, Got
  <1>4. ASSUME NEW g \in OnWire PROVE g.nr > Copied
    <2>1. PICK k \in 1 .. Len(wire) : g = wire[k]
      BY DEF OnWire
    <2>2. g.nr = Taken + k /\ Len(wire) \in Nat
      BY <1>2, <2>1, CountsAreNumbers DEF Pipelined, Counts, TcpCounts
    <2> QED
      BY <1>3, <2>2
  <1>5. ASSUME NEW g \in InTcpThread PROVE g.nr > Copied
    BY <1>2, <1>3 DEF InTcpThread, Counts, TcpCounts
  <1>6. ASSUME NEW g \in InRing PROVE g.nr > Copied
    <2>1. PICK i \in Ring : ~ mutex_TCP_buf_ready[i] /\ g = tcp_buf_header_gl[i]
      BY DEF InRing
    <2>2. g.nr \in Got + 1 .. Filled
      BY <1>2, <2>1 DEF Counts, RingCounts
    <2> QED
      BY <1>3, <2>2
  <1>7. ASSUME NEW g \in InGpuThread PROVE g.nr > Copied
    BY <1>2, <1>3 DEF InGpuThread, Counts, GpuCounts
  <1>8. \A g \in InFlight \ {gpu_data_header} : g.nr > Copied
    BY <1>4, <1>5, <1>6, <1>7 DEF InFlight, InOutput
  <1> QED
    BY <1>1, <1>2, <1>3, <1>8 DEF SentBefore

-----------------------------------------------------------------------------
(* A trigger is a Send: the new fill goes behind all others.                *)
LEMMA EventSends ==
  ASSUME TriggersInRun, Pipelined, AMC13Event
  PROVE  Pipeline!Send
  <1> USE DEF Pipelined
  <1>1. run_state = "running" /\ UNCHANGED <<run_state, delivered, runs>> /\ amc13Nr' = amc13Nr + 1
    BY DEF AMC13Event, mfeVars
  <1>2. PICK f \in Fill : f.run = runs /\ f.nr = amc13Nr' /\ OnWire' = OnWire \cup {f}
    BY EventIsNew
  <1>3. /\ UNCHANGED InTcpThread /\ UNCHANGED InGpuThread
        /\ UNCHANGED InRing /\ UNCHANGED InOutput
    BY DEF AMC13Event, InTcpThread, InGpuThread, InRing, InOutput,
           ringVars, tcpVars, gpuVars, outVars, mfeVars
  <1>4. InFlight' = InFlight \cup {f}
    BY <1>2, <1>3 DEF InFlight
  <1>5. ASSUME NEW g \in InFlight PROVE SentBefore(g, f)
    <2>1. g.run = runs /\ g \in sent
      BY InFlightIsFinite DEF CurrentRun
    <2>2. g.nr <= amc13Nr /\ g.nr \in Nat /\ amc13Nr \in Nat
      BY <2>1, FillNumbers DEF Placed, Numbered
    <2> QED
      BY <1>1, <1>2, <2>1, <2>2 DEF SentBefore
  <1>6. f \notin InFlight
    BY <1>5, StrictOrder
  <1>7. Queue' = Append(Queue, f)
    <2>1. InOrder(InFlight \cup {f}) = Append(InOrder(InFlight), f)
      BY <1>5, <1>6, InFlightIsFinite, LastGoesBehind
    <2> QED
      BY <1>4, <2>1 DEF Queue
  <1>8. Out' = Out
    BY <1>1 DEF Out
  <1> QED
    BY <1>1, <1>7, <1>8 DEF Pipeline!Send

(* The end of a readout cycle is a Deliver: the output buffer held the      *)
(* first fill of the queue.                                                 *)
LEMMA HeaderDelivers ==
  ASSUME Pipelined, ReadHeader
  PROVE  Pipeline!Deliver
  <1> USE DEF Pipelined
  <1>1. pcMfe = "header" /\ gpuMutex /\ pcGpu # "copy" /\ UNCHANGED run_state
    BY DEF ReadHeader, OutputExclusion, OutputWritten, OutputRead
  <1>2. /\ gpu_data_header \in InFlight /\ run_state = "running"
        /\ \A g \in InFlight \ {gpu_data_header} : SentBefore(gpu_data_header, g)
    BY <1>1, OutputIsFirst DEF CurrentRun, TypeOK
  <1>3. InFlight' = InFlight \ {gpu_data_header}
    <2>1. PassesFrom(gpu_data_header, "output", "delivered")
      BY HeaderPasses DEF Placed
    <2>2. /\ OnWire' = OnWire /\ InTcpThread' = InTcpThread /\ InRing' = InRing
          /\ InGpuThread' = InGpuThread /\ InOutput' = InOutput \ {gpu_data_header}
      BY <2>1 DEF PassesFrom, At, Stage
    <2>3. gpu_data_header \in At["output"]
      BY <2>1 DEF PassesFrom
    <2>4. \A s \in Stage : s # "output" => gpu_data_header \notin At[s]
      BY <2>3 DEF Placed, OneStage, Stage
    <2>5. gpu_data_header \notin OnWire \cup InTcpThread \cup InRing \cup InGpuThread
      BY <2>4, AtStage DEF Stage
    <2> QED
      BY <2>2, <2>5 DEF InFlight
  <1>4. Queue # <<>> /\ Head(Queue) = gpu_data_header /\ Queue' = Tail(Queue)
    <2>1. /\ InOrder(InFlight) # <<>> /\ Head(InOrder(InFlight)) = gpu_data_header
          /\ Tail(InOrder(InFlight)) = InOrder(InFlight \ {gpu_data_header})
      BY <1>2, InFlightIsFinite, FirstLeaves
    <2> QED
      BY <1>3, <2>1 DEF Queue
  <1>5. Out' = Append(Out, gpu_data_header)
    <2> DEFINE e == [pevent EXCEPT !.head = gpu_data_header, !.inRun = runs]
    <2>1. delivered' = Append(delivered, e) /\ e.head = gpu_data_header /\ e \in Event
          /\ delivered \in Seq(Event)
      BY DEF ReadHeader, Event, TypeOK
    <2> HIDE DEF e
    <2>2. /\ Len(delivered) \in Nat /\ Len(delivered') = Len(delivered) + 1
          /\ \A k \in 1 .. Len(delivered) : delivered'[k] = delivered[k]
          /\ delivered'[Len(delivered) + 1].head = gpu_data_header
      BY <2>1
    <2>3. \A k \in 1 .. Len(delivered) : delivered[k].head \in Fill
      <3>1. \A d \in Event : d.head \in Fill
        BY DEF Event
      <3> QED
        BY <2>1, <3>1
    <2>4. gpu_data_header \in Fill
      BY DEF TypeOK
    <2>5. Out \in Seq(Fill) /\ Len(Out) = Len(delivered)
          /\ \A k \in 1 .. Len(delivered) : Out[k] = delivered[k].head
      BY <2>2, <2>3 DEF Out
    <2>6. Out' = [k \in 1 .. Len(delivered) + 1 |-> delivered'[k].head]
      BY <2>2 DEF Out
    <2>7. Out' \in Seq(Fill) /\ Len(Out') = Len(delivered) + 1
          /\ \A k \in 1 .. Len(delivered) + 1 : Out'[k] = delivered'[k].head
      <3>1. \A k \in 1 .. Len(delivered) + 1 : delivered'[k].head \in Fill
        BY <2>2, <2>3, <2>4
      <3> QED
        BY <2>2, <2>6, <3>1
    <2>8. /\ Append(Out, gpu_data_header) \in Seq(Fill)
          /\ Len(Append(Out, gpu_data_header)) = Len(delivered) + 1
          /\ \A k \in 1 .. Len(delivered) + 1 :
               Append(Out, gpu_data_header)[k]
                 = IF k <= Len(delivered) THEN Out[k] ELSE gpu_data_header
      BY <2>2, <2>4, <2>5
    <2>9. \A k \in 1 .. Len(delivered) + 1 : Out'[k] = Append(Out, gpu_data_header)[k]
      BY <2>2, <2>5, <2>7, <2>8
    <2> QED
      BY <2>7, <2>8, <2>9, SeqEqual
  <1> QED
    BY <1>1, <1>2, <1>4, <1>5 DEF Pipeline!Deliver

(* Every other step leaves the queue alone: a fill goes from one stage of   *)
(* the pipeline to the next.                                                *)
LEMMA OthersKeepQueue ==
  ASSUME Pipelined, [Next]_vars, ~ AMC13Event, ~ ReadHeader
  PROVE  UNCHANGED InFlight /\ UNCHANGED delivered
  <1> USE DEF Pipelined
  <1>1. UNCHANGED delivered
    BY DeliveredGrows
  <1>2. CASE FillsStay
    BY <1>1, <1>2, StaysKeepsPlaces
  <1>3. CASE Passes
    <2>1. PICK s \in Stage, t \in Stage, f \in Fill : PassesFrom(f, s, t) /\ s # t /\ s # "delivered"
      BY <1>3, WhoPasses
    <2>2. f \in At[s] /\ At'[s] = At[s] \ {f} /\ At'[t] = At[t] \cup {f}
          /\ \A u \in Stage \ {s, t} : At'[u] = At[u]
      BY <2>1 DEF PassesFrom
    <2>3. t # "delivered"
      <3>1. DeliveredFills' = DeliveredFills
        BY <1>1 DEF DeliveredFills
      <3>2. f \notin At[t]
        BY <2>1, <2>2 DEF Placed, OneStage
      <3>3. At'["delivered"] = At["delivered"]
        BY <3>1 DEF At
      <3> QED
        BY <2>2, <3>2, <3>3
    <2>4. ASSUME NEW g
          PROVE  (\E u \in Stage \ {"delivered"} : g \in At'[u])
                   <=> \E u \in Stage \ {"delivered"} : g \in At[u]
      <3>1. CASE g = f
        BY <2>1, <2>2, <2>3, <3>1
      <3>2. CASE g # f
        BY <2>2, <3>2
      <3> QED
        BY <3>1, <3>2
    <2>5. ASSUME NEW g PROVE g \in InFlight <=> \E u \in Stage \ {"delivered"} : g \in At[u]
      BY AtStage DEF Stage, InFlight
    <2>6. ASSUME NEW g PROVE g \in InFlight' <=> \E u \in Stage \ {"delivered"} : g \in At'[u]
      BY DEF Stage, InFlight, At
    <2>7. InFlight' = InFlight
      BY <2>4, <2>5, <2>6
    <2> QED
      BY <1>1, <2>7
  <1> QED
    BY <1>2, <1>3, StaysOrPasses

LEMMA QueueStep ==
  ASSUME TriggersInRun, DrainedStop, Pipelined, [Next]_vars
  PROVE  [Pipeline!Next]_(Pipeline!vars)
  <1>1. CASE AMC13Event
    BY <1>1, EventSends DEF Pipeline!Next
  <1>2. CASE ReadHeader
    BY <1>2, HeaderDelivers DEF Pipeline!Next
  <1>3. CASE ~ AMC13Event /\ ~ ReadHeader
    <2>1. UNCHANGED InFlight /\ UNCHANGED delivered
      BY <1>3, OthersKeepQueue
    <2>2. Queue' = Queue
      BY <2>1 DEF Queue
    <2>3. Out' = Out
      BY <2>1 DEF Out
    <2>4. CASE (run_state = "running")' = (run_state = "running")
      BY <2>2, <2>3, <2>4 DEF Pipeline!vars
    <2>5. CASE (run_state = "running")' # (run_state = "running")
      <3>1. InFlight = {}
        BY <2>5, RunChanges DEF BeginOfRun, GpuBor, EndOfRun, Drained, CurrentRun, Transition, Pipelined
      <3>2. Queue = <<>>
        BY <3>1, EmptyInOrder DEF Queue
      <3> QED
        BY <2>2, <2>3, <2>5, <3>2 DEF Pipeline!Next, Pipeline!StartStop
    <2> QED
      BY <2>4, <2>5
  <1> QED
    BY <1>1, <1>2, <1>3

(* The readout frontend is a queue of fills: a trigger appends its fill,    *)
(* the main thread takes the first, and runs start and stop with the queue  *)
(* empty.                                                                   *)
THEOREM FillsQueueUp == ASSUME TriggersInRun, DrainedStop PROVE Spec => Pipeline!Spec
  <1>1. Init => Pipeline!Init
    <2> SUFFICES ASSUME Init PROVE Pipeline!Init
      OBVIOUS
    <2>1. InFlight = {}
      BY DEF Init, InitWith, InFlight, OnWire, InTcpThread, InRing, InGpuThread, InOutput
    <2>2. Queue = <<>>
      BY <2>1, EmptyInOrder DEF Queue
    <2>3. Out = <<>>
      BY DEF Init, InitWith, Out
    <2>4. (run_state = "running") = FALSE
      BY DEF Init, InitWith
    <2> QED
      BY <2>2, <2>3, <2>4 DEF Pipeline!Init
  <1>2. Pipelined /\ [Next]_vars => [Pipeline!Next]_(Pipeline!vars)
    BY QueueStep
  <1>3. Spec => []Pipelined
    BY TypeCorrect, RingIsExclusive, OutputIsExclusive, StagesStayTogether, FillsArePlaced,
       PipelineIsOfRun, FillsAreCounted, SentIsFinite, PTL DEF Pipelined
  <1> QED
    BY <1>1, <1>2, <1>3, PTL DEF Spec, Pipeline!Spec
=============================================================================
