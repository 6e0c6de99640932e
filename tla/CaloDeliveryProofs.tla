------------------------- MODULE CaloDeliveryProofs -------------------------
(***************************************************************************)
(* Theorems about what CaloReadout delivers, whatever the timing of        *)
(* triggers and run transitions: no fill is lost or delivered twice, each  *)
(* comes with its own raw data and, if payloads fit the GPU, its own       *)
(* samples, and each is in one bank of each histogram bin.                 *)
(***************************************************************************)
EXTENDS CaloReadoutProofs, FiniteSetTheorems, FunctionTheorems

-----------------------------------------------------------------------------
(* The stages of the pipeline.  At maps a stage to the fills it holds.      *)
Stage == {"wire", "tcp", "ring", "gpu", "output", "delivered"}
At == [wire |-> OnWire, tcp |-> InTcpThread, ring |-> InRing, gpu |-> InGpuThread,
       output |-> InOutput, delivered |-> DeliveredFills]

(* Every fill that was sent is at one stage, and in one place of it.        *)
OneStage == \A s, t \in Stage : s # t => At[s] \cap At[t] = {}
AllPlaced == UNION {At[s] : s \in Stage} = sent
OnePlace ==
  /\ \A j, k \in 1 .. Len(wire) : j # k => wire[j] # wire[k]
  /\ \A i, j \in Ring : ~ mutex_TCP_buf_ready[i] /\ ~ mutex_TCP_buf_ready[j] /\ i # j
                          => tcp_buf_header_gl[i] # tcp_buf_header_gl[j]
  /\ \A j, k \in 1 .. Len(delivered) : j # k => delivered[j].head # delivered[k].head
Numbered == \A f \in sent : f.run < runs \/ (f.run = runs /\ f.nr <= amc13Nr)

Placed == OneStage /\ AllPlaced /\ OnePlace /\ Numbered

(* A fill that goes from one stage to another is still at one stage.        *)
LEMMA MoveKeepsPlaces ==
  ASSUME NEW s \in Stage, NEW t \in Stage, NEW f, s # t, f \in At[s],
         At'[s] = At[s] \ {f}, At'[t] = At[t] \cup {f},
         \A u \in Stage \ {s, t} : At'[u] = At[u], UNCHANGED sent,
         OneStage, AllPlaced
  PROVE  OneStage' /\ AllPlaced'
  <1>1. \A u \in Stage : f \in At[u] => u = s
    BY DEF OneStage
  <1>2. OneStage'
    <2> SUFFICES ASSUME NEW u \in Stage, NEW v \in Stage, u # v, NEW g, g \in At'[u], g \in At'[v]
                 PROVE  FALSE
      BY DEF OneStage
    <2>1. CASE g = f
      BY <1>1, <2>1
    <2>2. CASE g # f
      <3>1. g \in At[u] /\ g \in At[v]
        BY <2>2
      <3> QED
        BY <3>1 DEF OneStage
    <2> QED
      BY <2>1, <2>2
  <1>3. ASSUME NEW g PROVE (\E u \in Stage : g \in At'[u]) <=> \E u \in Stage : g \in At[u]
    <2>1. CASE g = f
      BY <2>1
    <2>2. CASE g # f
      BY <2>2
    <2> QED
      BY <2>1, <2>2
  <1>4. UNION {At'[u] : u \in Stage} = UNION {At[u] : u \in Stage}
    BY <1>3
  <1> QED
    BY <1>2, <1>4 DEF AllPlaced

LEMMA AtStage ==
  /\ At["wire"] = OnWire /\ At["tcp"] = InTcpThread /\ At["ring"] = InRing
  /\ At["gpu"] = InGpuThread /\ At["output"] = InOutput /\ At["delivered"] = DeliveredFills
  BY DEF At, Stage

(* What OneStage and AllPlaced say of the stages by name.                   *)
LEMMA StagesByName ==
  ASSUME OneStage, AllPlaced
  PROVE  /\ OnWire \cap InTcpThread = {} /\ InTcpThread \cap InRing = {}
         /\ InRing \cap InGpuThread = {} /\ InOutput \cap DeliveredFills = {}
         /\ DeliveredFills \cap InFlight = {} /\ DeliveredFills \cup InFlight = sent
  <1>1. "wire" \in Stage /\ "tcp" \in Stage /\ "ring" \in Stage /\ "gpu" \in Stage
        /\ "output" \in Stage /\ "delivered" \in Stage
    BY DEF Stage
  <1>2. UNION {At[s] : s \in Stage}
          = At["wire"] \cup At["tcp"] \cup At["ring"] \cup At["gpu"] \cup At["output"]
            \cup At["delivered"]
    BY DEF Stage
  <1>3. /\ At["wire"] \cap At["tcp"] = {} /\ At["tcp"] \cap At["ring"] = {}
        /\ At["ring"] \cap At["gpu"] = {} /\ At["output"] \cap At["delivered"] = {}
        /\ At["wire"] \cap At["delivered"] = {} /\ At["tcp"] \cap At["delivered"] = {}
        /\ At["ring"] \cap At["delivered"] = {} /\ At["gpu"] \cap At["delivered"] = {}
    BY <1>1 DEF OneStage
  <1> QED
    BY <1>2, <1>3, AtStage DEF AllPlaced, InFlight

-----------------------------------------------------------------------------
(* The six steps at which a fill enters the pipeline or changes stage; in   *)
(* every other step all fills stay where they are.                          *)
Passes ==
  \/ AMC13Event \/ TcpReadAndUnpack \/ TcpUnlockReady \/ GpuLockReady \/ GpuCopy \/ ReadHeader

FillsStay ==
  /\ UNCHANGED wire /\ UNCHANGED sent /\ UNCHANGED delivered
  /\ UNCHANGED InTcpThread /\ UNCHANGED InGpuThread /\ UNCHANGED InOutput
  /\ UNCHANGED mutex_TCP_buf_ready
  /\ \A i \in Ring : ~ mutex_TCP_buf_ready[i] => tcp_buf_header_gl'[i] = tcp_buf_header_gl[i]
  /\ (runs' = runs /\ amc13Nr' = amc13Nr) \/ runs' = runs + 1

LEMMA StaysOrPasses ==
  TypeOK /\ RingExclusion /\ OutputExclusion /\ [Next]_vars => FillsStay \/ Passes
  <1> SUFFICES ASSUME TypeOK, RingExclusion, OutputExclusion, [Next]_vars, ~ Passes PROVE FillsStay
    OBVIOUS
  <1> USE DEF TypeOK, FillsStay
  <1>1. ASSUME UNCHANGED <<wireVars, tcp_buf_header_gl, tcp_buf_gl, gpu_data_header>>,
               UNCHANGED mutex_TCP_buf_ready, UNCHANGED gpuMutex, UNCHANGED runs,
               UNCHANGED delivered,
               UNCHANGED <<pcTcp, bufIndex>> \/ {pcTcp, pcTcp'} \cap {"store", "unlock"} = {},
               UNCHANGED <<pcGpu, TCPbufferindex>>
               \/ {pcGpu, pcGpu'} \cap {"out", "copy"} = {}
        PROVE  FillsStay
    <2>1. UNCHANGED InTcpThread
      BY <1>1 DEF InTcpThread
    <2>2. UNCHANGED InGpuThread
      BY <1>1 DEF InGpuThread
    <2>3. UNCHANGED InOutput
      BY <1>1 DEF InOutput
    <2> QED
      BY <1>1, <2>1, <2>2, <2>3 DEF wireVars
  <1>2. CASE TcpSetIndex \/ TcpLockAvail \/ TcpLoadFillnumber \/ TcpStoreFillnumber
    BY <1>1, <1>2 DEF TcpSetIndex, TcpLockAvail, TcpLoadFillnumber, TcpStoreFillnumber,
                      ringVars, gpuVars, outVars, mfeVars
  <1>3. CASE TcpStore
    <2>1. bufIndex \in Ring /\ pcTcp = "store" /\ pcTcp' = "unlock"
          /\ tcp_buf_header_gl' = [tcp_buf_header_gl EXCEPT ![bufIndex] = header]
          /\ UNCHANGED <<tcp_buf_gl, bufIndex, pcGpu, TCPbufferindex, gpu_data_header>>
          /\ UNCHANGED mutex_TCP_buf_ready /\ UNCHANGED gpuMutex
      BY <1>3 DEF TcpStore, gpuVars, outVars
    <2>2. mutex_TCP_buf_ready[bufIndex] /\ (pcGpu \in {"out", "copy"} => TCPbufferindex # bufIndex)
      BY <2>1 DEF RingExclusion, TcpOwns, GpuOwns
    <2>3. UNCHANGED InTcpThread
      BY <2>1 DEF InTcpThread
    <2>4. UNCHANGED InGpuThread
      BY <2>1, <2>2 DEF InGpuThread
    <2>5. UNCHANGED InOutput
      BY <2>1 DEF InOutput
    <2>6. \A i \in Ring : ~ mutex_TCP_buf_ready[i] => tcp_buf_header_gl'[i] = tcp_buf_header_gl[i]
      BY <2>1, <2>2
    <2> QED
      BY <1>3, <2>1, <2>3, <2>4, <2>5, <2>6 DEF TcpStore, wireVars, mfeVars
  <1>4. CASE GpuSetIndex \/ GpuUnlockAvail \/ GpuProcess \/ GpuPublish
             \/ GpuLoadFillnumber \/ GpuStoreFillnumber
    BY <1>1, <1>4 DEF GpuSetIndex, GpuUnlockAvail, GpuProcess, GpuPublish, GpuLoadFillnumber,
                      GpuStoreFillnumber, ringVars, tcpVars, outVars, mfeVars
  <1>5. CASE GpuLockOutput
    <2>1. UNCHANGED InOutput
      BY <1>5 DEF GpuLockOutput, InOutput
    <2>2. UNCHANGED InGpuThread
      BY <1>5 DEF GpuLockOutput, InGpuThread, ringVars
    <2>3. UNCHANGED InTcpThread
      BY <1>5 DEF GpuLockOutput, InTcpThread, ringVars, tcpVars
    <2> QED
      BY <1>5, <2>1, <2>2, <2>3 DEF GpuLockOutput, wireVars, ringVars, mfeVars
  <1>6. CASE MfeCycle \/ PollEvent \/ FrontendLoop \/ ReadBanks \/ EndOfRun
    BY <1>1, <1>6 DEF MfeCycle, PollEvent, FrontendLoop, ReadBanks, EndOfRun,
                      ringVars, tcpVars, gpuVars, outVars
  <1>7. CASE TcpClientBor \/ GpuBor
    BY <1>1, <1>7 DEF TcpClientBor, GpuBor, ringVars, tcpVars, gpuVars, outVars
  <1>8. CASE BeginOfRun
    <2>1. UNCHANGED InOutput /\ UNCHANGED InGpuThread /\ UNCHANGED InTcpThread
      BY <1>8 DEF BeginOfRun, InOutput, InGpuThread, InTcpThread, ringVars, tcpVars, gpuVars, outVars
    <2>2. runs' = runs + 1
      BY <1>8 DEF BeginOfRun
    <2> QED
      BY <1>8, <2>1, <2>2 DEF BeginOfRun, ringVars
  <1>9. CASE UNCHANGED vars
    BY <1>1, <1>9 DEF vars, ringVars, tcpVars, gpuVars, outVars, mfeVars
  <1> QED
    BY <1>2, <1>3, <1>4, <1>5, <1>6, <1>7, <1>8, <1>9
    DEF Next, TcpThread, GpuThread, MfeStep, Passes

(* A step in which all fills stay keeps the contents of every stage.        *)
LEMMA StaysKeepsPlaces ==
  ASSUME TypeOK, FillsStay
  PROVE  /\ UNCHANGED OnWire /\ UNCHANGED InRing /\ UNCHANGED DeliveredFills
         /\ UNCHANGED InFlight
  <1>1. UNCHANGED OnWire /\ UNCHANGED DeliveredFills
    BY DEF FillsStay, OnWire, DeliveredFills
  <1>2. UNCHANGED InRing
    BY DEF FillsStay, InRing
  <1>3. UNCHANGED InTcpThread /\ UNCHANGED InGpuThread /\ UNCHANGED InOutput
    BY DEF FillsStay
  <1> QED
    BY <1>1, <1>2, <1>3 DEF InFlight

(* A step at which one fill f passes from stage s to stage t.               *)
PassesFrom(f, s, t) ==
  /\ f \in At[s]
  /\ At'[s] = At[s] \ {f} /\ At'[t] = At[t] \cup {f}
  /\ \A u \in Stage \ {s, t} : At'[u] = At[u]
  /\ UNCHANGED <<sent, runs, amc13Nr>>

(* tcp_thread reads the first fill of the wire, which is there once.        *)
LEMMA ReadPasses ==
  ASSUME TypeOK, OnePlace, RingExclusion, TcpReadAndUnpack
  PROVE  PassesFrom(Head(wire), "wire", "tcp") /\ OnePlace'
  <1> USE DEF TypeOK
  <1>1. /\ pcTcp = "read" /\ pcTcp' = "store" /\ wire # <<>> /\ wire' = Tail(wire)
        /\ tcp_buf_gl' = [tcp_buf_gl EXCEPT ![bufIndex] = Head(wire)]
        /\ UNCHANGED <<bufIndex, tcp_buf_header_gl, pcGpu, TCPbufferindex, gpu_data_header,
                       sent, runs, amc13Nr, delivered>>
        /\ UNCHANGED gpuMutex /\ UNCHANGED mutex_TCP_buf_ready
    BY DEF TcpReadAndUnpack, gpuVars, outVars, mfeVars
  <1>2. Head(wire) = wire[1] /\ Len(wire) \in Nat \ {0} /\ Len(wire') = Len(wire) - 1
        /\ \A k \in 1 .. Len(wire') : wire'[k] = wire[k + 1]
    BY <1>1
  <1>3. OnWire' = OnWire \ {Head(wire)} /\ Head(wire) \in OnWire
    <2>1. ASSUME NEW g PROVE g \in OnWire' <=> g \in OnWire /\ g # wire[1]
      <3>1. ASSUME g \in OnWire' PROVE g \in OnWire /\ g # wire[1]
        <4>1. PICK k \in 1 .. Len(wire') : g = wire'[k]
          BY <3>1 DEF OnWire
        <4>2. g = wire[k + 1] /\ k + 1 \in 1 .. Len(wire) /\ k + 1 # 1 /\ 1 \in 1 .. Len(wire)
          BY <1>2, <4>1
        <4> QED
          BY <4>2 DEF OnWire, OnePlace
      <3>2. ASSUME g \in OnWire, g # wire[1] PROVE g \in OnWire'
        <4>1. PICK k \in 1 .. Len(wire) : g = wire[k]
          BY <3>2 DEF OnWire
        <4>2. k - 1 \in 1 .. Len(wire') /\ g = wire'[k - 1]
          BY <1>2, <3>2, <4>1
        <4> QED
          BY <4>2 DEF OnWire
      <3> QED
        BY <3>1, <3>2
    <2>2. wire[1] \in OnWire
      BY <1>2 DEF OnWire
    <2> QED
      BY <1>2, <2>1, <2>2
  <1>4. InTcpThread = {} /\ InTcpThread' = {Head(wire)}
    BY <1>1 DEF InTcpThread
  <1>5. UNCHANGED InRing /\ UNCHANGED InGpuThread
    BY <1>1 DEF InRing, InGpuThread
  <1>6. UNCHANGED InOutput /\ UNCHANGED DeliveredFills
    BY <1>1 DEF InOutput, DeliveredFills
  <1>7. OnePlace'
    <2>1. ASSUME NEW j \in 1 .. Len(wire'), NEW k \in 1 .. Len(wire'), j # k
          PROVE  wire'[j] # wire'[k]
      <3>1. j + 1 \in 1 .. Len(wire) /\ k + 1 \in 1 .. Len(wire) /\ j + 1 # k + 1
        BY <1>2, <2>1
      <3> QED
        BY <1>2, <3>1, SMTT(30) DEF OnePlace
    <2> QED
      BY <1>1, <2>1 DEF OnePlace
  <1> QED
    BY <1>1, <1>3, <1>4, <1>5, <1>6, <1>7 DEF PassesFrom, At, Stage

(* tcp_thread hands a buffer to gpu_thread_1: the fill enters the ring.     *)
LEMMA UnlockReadyPasses ==
  ASSUME TypeOK, OneStage, AllPlaced, OnePlace, RingExclusion, StagesAgree, TcpUnlockReady
  PROVE  PassesFrom(tcp_buf_gl[bufIndex], "tcp", "ring") /\ OnePlace'
  <1>s. InTcpThread \cap InRing = {}
    BY StagesByName
  <1> USE DEF TypeOK
  <1>1. /\ pcTcp = "unlock" /\ pcTcp' = "load" /\ bufIndex \in Ring
        /\ mutex_TCP_buf_ready' = [mutex_TCP_buf_ready EXCEPT ![bufIndex] = FALSE]
        /\ UNCHANGED <<wire, bufIndex, tcp_buf_gl, tcp_buf_header_gl, pcGpu, TCPbufferindex,
                       gpu_data_header, sent, runs, amc13Nr, delivered>>
        /\ UNCHANGED gpuMutex
    BY DEF TcpUnlockReady, wireVars, gpuVars, outVars, mfeVars
  <1>2. InTcpThread = {tcp_buf_gl[bufIndex]} /\ InTcpThread' = {}
    BY <1>1 DEF InTcpThread
  <1>3. tcp_buf_header_gl[bufIndex] = tcp_buf_gl[bufIndex] /\ mutex_TCP_buf_ready[bufIndex]
    BY <1>1 DEF StagesAgree, RingExclusion, TcpOwns
  <1>4. \A i \in Ring : ~ mutex_TCP_buf_ready'[i] <=> ~ mutex_TCP_buf_ready[i] \/ i = bufIndex
    BY <1>1
  <1>5. InRing' = InRing \cup {tcp_buf_gl[bufIndex]}
    BY <1>1, <1>3, <1>4 DEF InRing
  <1>6. UNCHANGED OnWire /\ UNCHANGED InGpuThread
    BY <1>1 DEF OnWire, InGpuThread
  <1>7. UNCHANGED InOutput /\ UNCHANGED DeliveredFills
    BY <1>1 DEF InOutput, DeliveredFills
  <1>8. tcp_buf_gl[bufIndex] \notin InRing
    BY <1>s, <1>2
  <1>9. OnePlace'
    <2>1. ASSUME NEW i \in Ring, NEW j \in Ring, i # j,
                 ~ mutex_TCP_buf_ready'[i], ~ mutex_TCP_buf_ready'[j]
          PROVE  tcp_buf_header_gl[i] # tcp_buf_header_gl[j]
      BY <1>3, <1>4, <1>8, <2>1 DEF OnePlace, InRing
    <2> QED
      BY <1>1, <2>1 DEF OnePlace
  <1> QED
    BY <1>1, <1>2, <1>5, <1>6, <1>7, <1>9 DEF PassesFrom, At, Stage

(* gpu_thread_1 takes a buffer from the ring.                               *)
LEMMA LockReadyPasses ==
  ASSUME TypeOK, OnePlace, GpuLockReady
  PROVE  PassesFrom(tcp_buf_header_gl[TCPbufferindex], "ring", "gpu") /\ OnePlace'
  <1> USE DEF TypeOK
  <1>1. /\ pcGpu = "ready" /\ pcGpu' = "out" /\ TCPbufferindex \in Ring
        /\ ~ mutex_TCP_buf_ready[TCPbufferindex]
        /\ mutex_TCP_buf_ready' = [mutex_TCP_buf_ready EXCEPT ![TCPbufferindex] = TRUE]
        /\ UNCHANGED <<wire, pcTcp, bufIndex, tcp_buf_gl, tcp_buf_header_gl, TCPbufferindex,
                       gpu_data_header, sent, runs, amc13Nr, delivered>>
        /\ UNCHANGED gpuMutex
    BY DEF GpuLockReady, wireVars, tcpVars, outVars, mfeVars
  <1> DEFINE f == tcp_buf_header_gl[TCPbufferindex]
  <1>2. \A i \in Ring : ~ mutex_TCP_buf_ready'[i] <=> ~ mutex_TCP_buf_ready[i] /\ i # TCPbufferindex
    BY <1>1
  <1>3. InRing' = InRing \ {f} /\ f \in InRing
    BY <1>1, <1>2 DEF InRing, OnePlace
  <1>4. InGpuThread = {} /\ InGpuThread' = {f}
    BY <1>1 DEF InGpuThread
  <1>5. UNCHANGED OnWire /\ UNCHANGED InTcpThread
    BY <1>1 DEF OnWire, InTcpThread
  <1>6. UNCHANGED InOutput /\ UNCHANGED DeliveredFills
    BY <1>1 DEF InOutput, DeliveredFills
  <1>7. OnePlace'
    BY <1>1, <1>2 DEF OnePlace
  <1> QED
    BY <1>1, <1>3, <1>4, <1>5, <1>6, <1>7 DEF PassesFrom, At, Stage

(* gpu_thread_1 copies the fill to the output buffer it has locked.         *)
LEMMA CopyPasses ==
  ASSUME TypeOK, OnePlace, OutputExclusion, GpuCopy
  PROVE  PassesFrom(tcp_buf_header_gl[TCPbufferindex], "gpu", "output") /\ OnePlace'
  <1> USE DEF TypeOK
  <1>1. /\ pcGpu = "copy" /\ pcGpu' = "avail"
        /\ gpu_data_header' = tcp_buf_header_gl[TCPbufferindex]
        /\ UNCHANGED <<wire, pcTcp, bufIndex, tcp_buf_gl, tcp_buf_header_gl, TCPbufferindex,
                       sent, runs, amc13Nr, delivered>>
        /\ UNCHANGED gpuMutex /\ UNCHANGED mutex_TCP_buf_ready
    BY DEF GpuCopy, wireVars, tcpVars, ringVars, mfeVars
  <1> DEFINE f == tcp_buf_header_gl[TCPbufferindex]
  <1>2. InGpuThread = {f} /\ InGpuThread' = {}
    BY <1>1 DEF InGpuThread
  <1>3. gpuMutex
    BY <1>1 DEF OutputExclusion, OutputWritten
  <1>4. InOutput = {} /\ InOutput' = {f}
    BY <1>1, <1>3 DEF InOutput
  <1>5. UNCHANGED OnWire /\ UNCHANGED InTcpThread
    BY <1>1 DEF OnWire, InTcpThread
  <1>6. UNCHANGED InRing /\ UNCHANGED DeliveredFills
    BY <1>1 DEF InRing, DeliveredFills
  <1>7. OnePlace'
    BY <1>1 DEF OnePlace
  <1> QED
    BY <1>1, <1>2, <1>4, <1>5, <1>6, <1>7 DEF PassesFrom, At, Stage

(* The main thread sends the event and frees the output buffer.             *)
LEMMA HeaderPasses ==
  ASSUME TypeOK, OneStage, AllPlaced, OnePlace, OutputExclusion, ReadHeader
  PROVE  PassesFrom(gpu_data_header, "output", "delivered") /\ OnePlace'
  <1>s. InOutput \cap DeliveredFills = {}
    BY StagesByName
  <1> USE DEF TypeOK
  <1>1. /\ pcMfe = "header" /\ gpuMutex' = FALSE
        /\ UNCHANGED <<wire, pcTcp, bufIndex, tcp_buf_gl, tcp_buf_header_gl, TCPbufferindex,
                       pcGpu, gpu_data_header, sent, runs, amc13Nr>>
        /\ UNCHANGED mutex_TCP_buf_ready
    BY DEF ReadHeader, wireVars, tcpVars, ringVars, gpuVars, outVars
  <1> DEFINE e == [pevent EXCEPT !.head = gpu_data_header, !.inRun = runs]
  <1>2. delivered' = Append(delivered, e) /\ e.head = gpu_data_header /\ e \in Event
    BY DEF ReadHeader, Event
  <1> HIDE DEF e
  <1>3. /\ Len(delivered) \in Nat /\ Len(delivered') = Len(delivered) + 1
        /\ \A k \in 1 .. Len(delivered) : delivered'[k] = delivered[k]
        /\ delivered'[Len(delivered) + 1].head = gpu_data_header
    BY <1>2
  <1>4. InOutput = {gpu_data_header} /\ InOutput' = {}
    BY <1>1 DEF InOutput, OutputExclusion, OutputRead, OutputWritten
  <1>5. DeliveredFills' = DeliveredFills \cup {gpu_data_header}
    <2>1. ASSUME NEW k \in 1 .. Len(delivered')
          PROVE  delivered'[k].head \in DeliveredFills \cup {gpu_data_header}
      <3>1. k \in 1 .. Len(delivered) \/ k = Len(delivered) + 1
        BY <1>3
      <3> QED
        BY <1>3, <3>1 DEF DeliveredFills
    <2>2. DeliveredFills' \subseteq DeliveredFills \cup {gpu_data_header}
      BY <2>1 DEF DeliveredFills
    <2>3. ASSUME NEW k \in 1 .. Len(delivered) PROVE delivered[k].head \in DeliveredFills'
      <3>1. k \in 1 .. Len(delivered') /\ delivered'[k] = delivered[k]
        BY <1>3
      <3>2. delivered'[k].head \in DeliveredFills'
        BY <3>1 DEF DeliveredFills
      <3> QED
        BY <3>1, <3>2
    <2>4. gpu_data_header \in DeliveredFills'
      <3>1. Len(delivered) + 1 \in 1 .. Len(delivered')
        BY <1>3
      <3> QED
        BY <1>3, <3>1 DEF DeliveredFills
    <2>5. DeliveredFills \subseteq DeliveredFills'
      BY <2>3 DEF DeliveredFills
    <2> QED
      BY <2>2, <2>4, <2>5
  <1>6. UNCHANGED OnWire /\ UNCHANGED InTcpThread
    BY <1>1 DEF OnWire, InTcpThread
  <1>7. UNCHANGED InRing /\ UNCHANGED InGpuThread
    BY <1>1 DEF InRing, InGpuThread
  <1>8. \A k \in 1 .. Len(delivered) : delivered[k].head # gpu_data_header
    BY <1>s, <1>4 DEF DeliveredFills
  <1>9. OnePlace'
    <2>1. ASSUME NEW j \in 1 .. Len(delivered'), NEW k \in 1 .. Len(delivered'), j # k
          PROVE  delivered'[j].head # delivered'[k].head
      <3>1. j \in 1 .. Len(delivered) \/ j = Len(delivered) + 1
        BY <1>3
      <3>2. k \in 1 .. Len(delivered) \/ k = Len(delivered) + 1
        BY <1>3
      <3> QED
        BY <1>3, <1>8, <2>1, <3>1, <3>2 DEF OnePlace
    <2> QED
      BY <1>1, <2>1 DEF OnePlace
  <1> QED
    BY <1>1, <1>4, <1>5, <1>6, <1>7, <1>9 DEF PassesFrom, At, Stage

LEMMA FillNumbers ==
  ASSUME TypeOK
  PROVE  /\ \A f \in sent : f.run \in Nat /\ f.nr \in Nat
         /\ runs \in Nat /\ amc13Nr \in Nat
  <1>1. sent \subseteq Fill /\ runs \in Nat /\ amc13Nr \in Nat
    BY ReadoutAssumption DEF TypeOK
  <1> QED
    BY <1>1, ReadoutAssumption DEF Fill

(* The AMC13 sends a fill that was not sent before: its number is new.      *)
LEMMA EventIsNew ==
  ASSUME TypeOK, Placed, AMC13Event
  PROVE  Placed' /\ \E f \in Fill : f.run = runs /\ f.nr = amc13Nr'
                                    /\ wire' = Append(wire, f) /\ OnWire' = OnWire \cup {f}
  <1>s. DeliveredFills \cup InFlight = sent
    BY StagesByName DEF Placed
  <1> USE DEF TypeOK
  <1>z. SizesOf[amc13Nr + 1] \subseteq Sizes
    BY ReadoutAssumption DEF AMC13Event
  <1>1. PICK s \in Sizes :
          LET f == [run |-> runs, nr |-> amc13Nr + 1, size |-> s]
          IN wire' = Append(wire, f) /\ sent' = sent \cup {f}
    BY <1>z DEF AMC13Event
  <1> DEFINE f == [run |-> runs, nr |-> amc13Nr + 1, size |-> s]
  <1>2. f \in Fill /\ f.run = runs /\ f.nr = amc13Nr + 1
    BY ReadoutAssumption DEF AMC13Event, Fill
  <1>3. wire' = Append(wire, f) /\ sent' = sent \cup {f} /\ amc13Nr' = amc13Nr + 1
    BY <1>1 DEF AMC13Event
  <1> HIDE DEF f
  <1>4. f \notin sent
    BY <1>2, ReadoutAssumption, SMTT(30) DEF Placed, Numbered
  <1>5. /\ Len(wire) \in Nat /\ Len(wire') = Len(wire) + 1 /\ wire'[Len(wire) + 1] = f
        /\ \A k \in 1 .. Len(wire) : wire'[k] = wire[k]
    BY <1>2, <1>3
  <1>6. OnWire' = OnWire \cup {f}
    <2>1. ASSUME NEW k \in 1 .. Len(wire') PROVE wire'[k] \in OnWire \cup {f}
      <3>1. k \in 1 .. Len(wire) \/ k = Len(wire) + 1
        BY <1>5
      <3> QED
        BY <1>5, <3>1 DEF OnWire
    <2>2. ASSUME NEW k \in 1 .. Len(wire) PROVE wire[k] \in OnWire'
      <3>1. k \in 1 .. Len(wire') /\ wire'[k] = wire[k]
        BY <1>5
      <3> QED
        BY <3>1 DEF OnWire
    <2>3. f \in OnWire'
      <3>1. Len(wire) + 1 \in 1 .. Len(wire')
        BY <1>5
      <3> QED
        BY <1>5, <3>1 DEF OnWire
    <2> QED
      BY <2>1, <2>2, <2>3 DEF OnWire
  <1>7. /\ UNCHANGED InTcpThread /\ UNCHANGED InGpuThread
        /\ UNCHANGED InRing /\ UNCHANGED InOutput /\ UNCHANGED DeliveredFills
    BY DEF AMC13Event, InTcpThread, InGpuThread, InRing, InOutput, DeliveredFills,
           ringVars, tcpVars, gpuVars, outVars, mfeVars
  <1>8. At'["wire"] = At["wire"] \cup {f} /\ \A u \in Stage \ {"wire"} : At'[u] = At[u]
    BY <1>6, <1>7 DEF At, Stage
  <1>9. \A u \in Stage : f \notin At[u]
    BY <1>s, <1>4, AtStage DEF Stage, InFlight
  <1>10. OneStage'
    <2> SUFFICES ASSUME NEW u \in Stage, NEW v \in Stage, u # v, NEW g, g \in At'[u], g \in At'[v]
                 PROVE  FALSE
      BY DEF OneStage
    <2>1. CASE g = f
      BY <1>8, <1>9, <2>1
    <2>2. CASE g # f
      <3>1. g \in At[u] /\ g \in At[v]
        BY <1>8, <2>2
      <3> QED
        BY <3>1 DEF OneStage, Placed
    <2> QED
      BY <2>1, <2>2
  <1>11. AllPlaced'
    <2>1. sent' = (DeliveredFills \cup InFlight)'
      BY <1>s, <1>3, <1>6, <1>7 DEF InFlight
    <2>2. UNION {At'[u] : u \in Stage}
            = At'["wire"] \cup At'["tcp"] \cup At'["ring"] \cup At'["gpu"] \cup At'["output"]
              \cup At'["delivered"]
      BY DEF Stage
    <2> QED
      BY <2>1, <2>2 DEF AllPlaced, At, InFlight
  <1>12. OnePlace'
    <2>1. \A k \in 1 .. Len(wire) : wire[k] # f
      BY <1>s, <1>4 DEF InFlight, OnWire
    <2>2. ASSUME NEW j \in 1 .. Len(wire'), NEW k \in 1 .. Len(wire'), j # k
          PROVE  wire'[j] # wire'[k]
      <3>1. j \in 1 .. Len(wire) \/ j = Len(wire) + 1
        BY <1>5
      <3>2. k \in 1 .. Len(wire) \/ k = Len(wire) + 1
        BY <1>5
      <3> QED
        BY <1>5, <2>1, <2>2, <3>1, <3>2 DEF OnePlace, Placed
    <2>3. UNCHANGED <<tcp_buf_header_gl, delivered>> /\ UNCHANGED mutex_TCP_buf_ready
      BY DEF AMC13Event, ringVars, mfeVars
    <2> QED
      BY <2>2, <2>3 DEF OnePlace, Placed
  <1>13. Numbered'
    <2>1. runs' = runs
      BY DEF AMC13Event, mfeVars
    <2> QED
      BY <1>2, <1>3, <2>1, FillNumbers DEF Numbered, Placed
  <1> QED
    BY <1>2, <1>3, <1>6, <1>10, <1>11, <1>12, <1>13 DEF Placed

(* Which fill passes where in a step that is not the AMC13's.               *)
LEMMA WhoPasses ==
  ASSUME TypeOK, Placed, RingExclusion, OutputExclusion, StagesAgree, Passes, ~ AMC13Event
  PROVE  /\ OnePlace'
         /\ \E s, t \in Stage, f \in Fill :
              /\ PassesFrom(f, s, t) /\ s # t /\ s # "delivered"
              /\ t = "delivered" => ReadHeader
  <1> USE DEF Stage
  <1>t. /\ Head(wire) \in Fill \/ wire = <<>>
        /\ tcp_buf_gl[bufIndex] \in Fill /\ tcp_buf_header_gl[TCPbufferindex] \in Fill
        /\ gpu_data_header \in Fill
    BY DEF TypeOK
  <1>1. CASE TcpReadAndUnpack
    BY <1>1, <1>t, ReadPasses DEF Placed, TcpReadAndUnpack
  <1>2. CASE TcpUnlockReady
    BY <1>2, <1>t, UnlockReadyPasses DEF Placed
  <1>3. CASE GpuLockReady
    BY <1>3, <1>t, LockReadyPasses DEF Placed
  <1>4. CASE GpuCopy
    BY <1>4, <1>t, CopyPasses DEF Placed
  <1>5. CASE ReadHeader
    BY <1>5, <1>t, HeaderPasses DEF Placed
  <1> QED
    BY <1>1, <1>2, <1>3, <1>4, <1>5 DEF Passes

(* Placed is inductive, given the locks and the agreement of the copies.    *)
LEMMA NextPlaced ==
  TypeOK /\ RingExclusion /\ OutputExclusion /\ StagesAgree /\ Placed /\ [Next]_vars => Placed'
  <1> SUFFICES ASSUME TypeOK, RingExclusion, OutputExclusion, StagesAgree, Placed, [Next]_vars
               PROVE  Placed'
    OBVIOUS
  <1>1. CASE FillsStay
    <2>1. /\ UNCHANGED OnWire /\ UNCHANGED InRing /\ UNCHANGED DeliveredFills
          /\ UNCHANGED InTcpThread /\ UNCHANGED InGpuThread /\ UNCHANGED InOutput
          /\ UNCHANGED sent
      BY <1>1, StaysKeepsPlaces DEF FillsStay
    <2>2. \A u \in Stage : At'[u] = At[u]
      BY <2>1 DEF At, Stage
    <2>3. OneStage' /\ AllPlaced'
      BY <2>1, <2>2 DEF OneStage, AllPlaced, Placed
    <2>4. OnePlace'
      BY <1>1 DEF FillsStay, OnePlace, Placed
    <2>5. Numbered'
      BY <1>1, FillNumbers DEF FillsStay, Numbered, Placed
    <2> QED
      BY <2>3, <2>4, <2>5 DEF Placed
  <1>2. CASE AMC13Event
    BY <1>2, EventIsNew
  <1>3. CASE Passes /\ ~ AMC13Event
    <2>1. OnePlace' /\ \E s, t \in Stage, f \in Fill : PassesFrom(f, s, t) /\ s # t
      BY <1>3, WhoPasses
    <2>2. PICK s \in Stage, t \in Stage, f \in Fill : PassesFrom(f, s, t) /\ s # t
      BY <2>1
    <2>3. OneStage' /\ AllPlaced'
      BY <2>2, MoveKeepsPlaces DEF PassesFrom, Placed
    <2>4. Numbered'
      BY <2>2 DEF PassesFrom, Numbered, Placed
    <2> QED
      BY <2>1, <2>3, <2>4 DEF Placed
  <1> QED
    BY <1>1, <1>2, <1>3, StaysOrPasses

(* No fill is lost or taken twice between the AMC13 and the system buffer:  *)
(* at any time each fill sent is on the wire, in one buffer of one thread,  *)
(* or delivered.                                                            *)
THEOREM FillsArePlaced == Spec => []Placed
  <1>1. Init => Placed
    <2> SUFFICES ASSUME Init PROVE Placed
      OBVIOUS
    <2>1. OnWire = {} /\ DeliveredFills = {}
      BY DEF Init, InitWith, OnWire, DeliveredFills
    <2>2. InTcpThread = {} /\ InRing = {} /\ InGpuThread = {} /\ InOutput = {}
      BY DEF Init, InitWith, InTcpThread, InRing, InGpuThread, InOutput
    <2>3. \A u \in Stage : At[u] = {}
      BY <2>1, <2>2 DEF At, Stage
    <2> QED
      BY <2>3 DEF Init, InitWith, Placed, OneStage, AllPlaced, OnePlace, Numbered
  <1> QED
    BY <1>1, NextPlaced, TypeCorrect, RingIsExclusive, OutputIsExclusive, StagesStayTogether,
       PTL DEF Spec

(* What was sent is in flight or delivered, and nothing twice: neither      *)
(* tcp_thread nor gpu_thread_1 writes over a buffer whose fill has not been *)
(* taken, whatever the timing of triggers and run transitions.              *)
THEOREM NothingIsOverwritten == Spec => []NothingOverwritten
  <1>1. TypeOK /\ Placed => NothingOverwritten
    <2> SUFFICES ASSUME TypeOK, Placed PROVE NothingOverwritten
      OBVIOUS
    <2>1. DeliveredFills \cap InFlight = {} /\ DeliveredFills \cup InFlight = sent
      BY StagesByName DEF Placed
    <2> DEFINE F == [k \in 1 .. Len(delivered) |-> delivered[k].head]
    <2>2. Len(delivered) \in Nat
      BY DEF TypeOK
    <2>3. F \in Bijection(1 .. Len(delivered), DeliveredFills)
      <3>1. \A j, k \in 1 .. Len(delivered) : F[j] = F[k] => j = k
        BY DEF Placed, OnePlace
      <3>2. \A g \in DeliveredFills : \E k \in 1 .. Len(delivered) : F[k] = g
        BY DEF DeliveredFills
      <3>3. F \in [1 .. Len(delivered) -> DeliveredFills]
        BY DEF DeliveredFills
      <3> HIDE DEF F
      <3> QED
        BY <3>1, <3>2, <3>3, Fun_IsBij
    <2>4. Cardinality(DeliveredFills) = Len(delivered)
      BY <2>2, <2>3, FS_CountingElements DEF ExistsBijection
    <2> QED
      BY <2>1, <2>4 DEF NothingOverwritten
  <1> QED
    BY <1>1, FillsArePlaced, TypeCorrect, PTL

-----------------------------------------------------------------------------
(* The prescales of gpu_thread_1 and of the main thread select one fill.    *)
PrescalesAgree ==
  \A n \in 0 .. MaxFills :
    /\ (n % ShortMod) % PrescaleRaw = 0 <=> (n + PrescaleOffsetRaw) % PrescaleRaw = 0
    /\ (n % ShortMod) % FlushHist = 0 <=> (n + FlushOffsetHist) % FlushHist = 0

(* The raw bank on its way: from the copy by gpu_thread_1 to the event.     *)
Complete == pcGpu \in {"avail", "process", "publish"} \/ data_avail \/ OutputRead
RawKept ==
  /\ Complete /\ MfeMakesRaw => gpu_data_raw = gpu_data_header
  /\ pcMfe = "header" /\ MfeMakesRaw => pevent.raw = gpu_data_header

LEMMA NextRawKept ==
  ASSUME PrescalesAgree
  PROVE  TypeOK /\ OutputExclusion /\ StagesAgree /\ RawKept /\ [Next]_vars => RawKept'
  <1> SUFFICES ASSUME TypeOK, OutputExclusion, StagesAgree, RawKept, [Next]_vars PROVE RawKept'
    OBVIOUS
  <1> USE DEF TypeOK
  <1>1. ASSUME UNCHANGED <<gpu_data_header, gpu_data_raw, pevent>>, Complete' => Complete,
               pcMfe' = "header" => pcMfe = "header"
        PROVE  RawKept'
    BY <1>1 DEF RawKept, MfeMakesRaw
  <1>2. CASE AMC13Event \/ TcpThread \/ UNCHANGED vars
    <2>1. UNCHANGED <<gpu_data_header, gpu_data_raw, pevent, pcGpu, pcMfe>> /\ UNCHANGED data_avail
      BY <1>2 DEF AMC13Event, TcpThread, TcpSetIndex, TcpLockAvail, TcpReadAndUnpack, TcpStore,
                  TcpUnlockReady, TcpLoadFillnumber, TcpStoreFillnumber, vars,
                  gpuVars, outVars, mfeVars
    <2> QED
      BY <1>1, <2>1 DEF Complete, OutputRead
  <1>3. CASE GpuSetIndex \/ GpuLockReady \/ GpuLockOutput \/ GpuUnlockAvail \/ GpuProcess
             \/ GpuPublish \/ GpuLoadFillnumber \/ GpuStoreFillnumber
    <2>1. UNCHANGED <<gpu_data_header, gpu_data_raw, pevent, pcMfe>> /\ (Complete' => Complete)
      BY <1>3 DEF GpuSetIndex, GpuLockReady, GpuLockOutput, GpuUnlockAvail, GpuProcess, GpuPublish,
                  GpuLoadFillnumber, GpuStoreFillnumber, outVars, mfeVars, Complete, OutputRead
    <2> QED
      BY <1>1, <2>1
  <1>4. CASE GpuCopy
    <2>1. /\ gpu_data_header' = tcp_buf_header_gl[TCPbufferindex]
          /\ gpu_data_raw' = IF GpuCopiesRaw THEN tcp_buf_gl[TCPbufferindex] ELSE gpu_data_raw
          /\ pcMfe' = pcMfe /\ pcMfe # "header"
      BY <1>4 DEF GpuCopy, mfeVars, OutputExclusion, OutputWritten, OutputRead
    <2>2. tcp_buf_gl[TCPbufferindex] = tcp_buf_header_gl[TCPbufferindex]
      BY <1>4 DEF GpuCopy, StagesAgree, GpuOwns
    <2>3. tcp_buf_header_gl[TCPbufferindex].nr \in 0 .. MaxFills
      BY DEF Fill
    <2>4. MfeMakesRaw' => GpuCopiesRaw
      BY <2>1, <2>3 DEF PrescalesAgree, MfeMakesRaw, GpuCopiesRaw, GpuFillcounter
    <2> QED
      BY <2>1, <2>2, <2>4 DEF RawKept
  <1>5. CASE MfeCycle \/ PollEvent \/ FrontendLoop \/ TcpClientBor \/ GpuBor \/ BeginOfRun \/ EndOfRun
    <2>1. /\ UNCHANGED <<gpu_data_header, gpu_data_raw, pevent>> /\ (Complete' => Complete)
          /\ pcMfe' # "header"
      BY <1>5 DEF MfeCycle, PollEvent, FrontendLoop, TcpClientBor, GpuBor, BeginOfRun, EndOfRun,
                  gpuVars, outVars, Complete, OutputRead
    <2> QED
      BY <1>1, <2>1
  <1>6. CASE ReadBanks
    <2>1. UNCHANGED <<gpu_data_header, gpu_data_raw>> /\ Complete
      BY <1>6 DEF ReadBanks, outVars, Complete, OutputRead
    <2>2. pevent'.raw = IF MfeMakesRaw THEN gpu_data_raw ELSE NoFill
      BY <1>6, NoEventIsEvent DEF ReadBanks, Event
    <2> QED
      BY <2>1, <2>2 DEF RawKept, MfeMakesRaw
  <1>7. CASE ReadHeader
    <2>1. ~ Complete'
      BY <1>7 DEF ReadHeader, gpuVars, Complete, OutputExclusion, OutputWritten, OutputRead
    <2> QED
      BY <1>7, <2>1 DEF ReadHeader, RawKept
  <1> QED
    BY <1>2, <1>3, <1>4, <1>5, <1>6, <1>7 DEF Next, GpuThread, MfeStep

(* Only read_trigger_event adds a delivered event: it is pevent.            *)
LEMMA DeliveredGrows ==
  TypeOK /\ [Next]_vars =>
    \/ UNCHANGED delivered
    \/ /\ ReadHeader /\ Len(delivered') = Len(delivered) + 1
       /\ \A k \in 1 .. Len(delivered) : delivered'[k] = delivered[k]
       /\ delivered'[Len(delivered')] = [pevent EXCEPT !.head = gpu_data_header, !.inRun = runs]
  <1> SUFFICES ASSUME TypeOK, [Next]_vars, ~ UNCHANGED delivered
               PROVE  /\ ReadHeader /\ Len(delivered') = Len(delivered) + 1
                      /\ \A k \in 1 .. Len(delivered) : delivered'[k] = delivered[k]
                      /\ delivered'[Len(delivered')]
                           = [pevent EXCEPT !.head = gpu_data_header, !.inRun = runs]
    OBVIOUS
  <1>1. ReadHeader
    BY DEF Next, AMC13Event, TcpThread, TcpSetIndex, TcpLockAvail, TcpReadAndUnpack, TcpStore,
           TcpUnlockReady, TcpLoadFillnumber, TcpStoreFillnumber, GpuThread, GpuSetIndex,
           GpuLockReady, GpuLockOutput, GpuCopy, GpuUnlockAvail, GpuProcess, GpuPublish,
           GpuLoadFillnumber, GpuStoreFillnumber, MfeStep, MfeCycle, PollEvent, FrontendLoop,
           ReadBanks, TcpClientBor, GpuBor, BeginOfRun, EndOfRun, vars, mfeVars
  <1> DEFINE e == [pevent EXCEPT !.head = gpu_data_header, !.inRun = runs]
  <1>2. delivered' = Append(delivered, e) /\ e \in Event /\ delivered \in Seq(Event)
    BY <1>1 DEF ReadHeader, TypeOK, Event
  <1> HIDE DEF e
  <1>3. /\ Len(delivered') = Len(delivered) + 1 /\ delivered'[Len(delivered')] = e
        /\ \A k \in 1 .. Len(delivered) : delivered'[k] = delivered[k]
    BY <1>2
  <1> QED
    BY <1>1, <1>3 DEF e

(* An event whose fill number the raw prescale selects comes with the raw   *)
(* data of its own fill: what gpu_thread_1 decided when it copied the       *)
(* payload is what read_trigger_event decides when it makes the banks.      *)
THEOREM RawBankIsOfFill == ASSUME PrescalesAgree PROVE Spec => []RawOfFill
  <1>1. Init => RawKept /\ RawOfFill
    BY DEF Init, InitWith, RawKept, RawOfFill, Complete, OutputRead
  <1>2. TypeOK /\ RawKept /\ RawOfFill /\ [Next]_vars => RawOfFill'
    <2> SUFFICES ASSUME TypeOK, RawKept, RawOfFill, [Next]_vars PROVE RawOfFill'
      OBVIOUS
    <2>1. CASE UNCHANGED delivered
      BY <2>1 DEF RawOfFill
    <2>2. CASE ~ UNCHANGED delivered
      <3>1. /\ ReadHeader /\ Len(delivered') = Len(delivered) + 1
            /\ \A k \in 1 .. Len(delivered) : delivered'[k] = delivered[k]
            /\ delivered'[Len(delivered')] = [pevent EXCEPT !.head = gpu_data_header, !.inRun = runs]
        BY <2>2, DeliveredGrows
      <3>2. delivered'[Len(delivered')].head = gpu_data_header
            /\ delivered'[Len(delivered')].raw = pevent.raw
        BY <3>1 DEF TypeOK, Event
      <3>3. MfeMakesRaw => pevent.raw = gpu_data_header
        BY <3>1 DEF ReadHeader, RawKept
      <3>4. ASSUME NEW k \in 1 .. Len(delivered'),
                   (delivered'[k].head.nr + PrescaleOffsetRaw) % PrescaleRaw = 0
            PROVE  delivered'[k].raw = delivered'[k].head
        <4>1. Len(delivered) \in Nat
          BY DEF TypeOK
        <4>2. CASE k = Len(delivered')
          BY <3>2, <3>3, <3>4, <4>2 DEF MfeMakesRaw
        <4>3. CASE k # Len(delivered')
          <5>1. k \in 1 .. Len(delivered)
            BY <3>1, <4>1, <4>3
          <5> QED
            BY <3>1, <3>4, <5>1 DEF RawOfFill
        <4> QED
          BY <4>2, <4>3
      <3> QED
        BY <3>4 DEF RawOfFill
    <2> QED
      BY <2>1, <2>2
  <1>3. TypeOK /\ OutputExclusion /\ StagesAgree /\ RawKept /\ [Next]_vars => RawKept'
    BY NextRawKept
  <1> QED
    BY <1>1, <1>2, <1>3, TypeCorrect, OutputIsExclusive, StagesStayTogether, PTL DEF Spec

-----------------------------------------------------------------------------
(* What the size of the payload is along the pipeline: each fill has a size *)
(* the AMC13 sends, and so has the global that gpu_thread_1 takes for it.   *)
SizeOk(f) == f.size \in Sizes
Sized ==
  /\ \A k \in 1 .. Len(wire) : SizeOk(wire[k])
  /\ pcTcp = "store" => SizeOk(header)
  /\ pcTcp = "unlock" => SizeOk(tcp_buf_header_gl[bufIndex]) /\ TCPtotaldatasize \in Sizes
  /\ \A i \in Ring : ~ mutex_TCP_buf_ready[i] \/ GpuOwns(i)
                       => SizeOk(tcp_buf_header_gl[i]) /\ TCPtotaldatasize \in Sizes
  /\ Complete => SizeOk(gpu_data_header) /\ gpu_data_raw_size \in Sizes
  /\ pcMfe = "header" => pevent.size \in Sizes
  /\ \A k \in 1 .. Len(delivered) : SizeOk(delivered[k].head) /\ delivered[k].size \in Sizes

LEMMA NextSized ==
  ASSUME PayloadsFit
  PROVE  TypeOK /\ RingExclusion /\ OutputExclusion /\ Sized /\ [Next]_vars => Sized'
  <1> SUFFICES ASSUME TypeOK, RingExclusion, OutputExclusion, Sized, [Next]_vars PROVE Sized'
    OBVIOUS
  <1> DEFINE Upstream ==
               /\ \A k \in 1 .. Len(wire) : SizeOk(wire[k])
               /\ pcTcp = "store" => SizeOk(header)
               /\ pcTcp = "unlock" => SizeOk(tcp_buf_header_gl[bufIndex]) /\ TCPtotaldatasize \in Sizes
             InTheRing ==
               \A i \in Ring : ~ mutex_TCP_buf_ready[i] \/ GpuOwns(i)
                                 => SizeOk(tcp_buf_header_gl[i]) /\ TCPtotaldatasize \in Sizes
             Downstream ==
               /\ Complete => SizeOk(gpu_data_header) /\ gpu_data_raw_size \in Sizes
               /\ pcMfe = "header" => pevent.size \in Sizes
               /\ \A k \in 1 .. Len(delivered) : SizeOk(delivered[k].head) /\ delivered[k].size \in Sizes
  <1>s. Sized <=> Upstream /\ InTheRing /\ Downstream
    BY DEF Sized
  <1>p. Upstream' /\ InTheRing' /\ Downstream' => Sized'
    BY DEF Sized
  <1>1. ASSUME UNCHANGED <<wire, pcTcp, header, bufIndex, tcp_buf_header_gl, TCPtotaldatasize>>
        PROVE  Upstream'
    BY <1>1, <1>s
  <1>2. ASSUME UNCHANGED <<tcp_buf_header_gl, TCPtotaldatasize>>,
               \A i \in Ring : (~ mutex_TCP_buf_ready[i] \/ GpuOwns(i))'
                                 => ~ mutex_TCP_buf_ready[i] \/ GpuOwns(i)
        PROVE  InTheRing'
    BY <1>2, <1>s
  <1>3. ASSUME UNCHANGED <<gpu_data_header, gpu_data_raw_size, pevent, delivered>>,
               Complete' => Complete, pcMfe' = "header" => pcMfe = "header"
        PROVE  Downstream'
    BY <1>3, <1>s
  <1>4. CASE AMC13Event
    <2>z. SizesOf[amc13Nr + 1] \subseteq Sizes
      BY <1>4, ReadoutAssumption DEF AMC13Event, TypeOK
    <2>1. PICK z \in Sizes :
            wire' = Append(wire, [run |-> runs, nr |-> amc13Nr + 1, size |-> z])
      BY <1>4, <2>z DEF AMC13Event
    <2> DEFINE f == [run |-> runs, nr |-> amc13Nr + 1, size |-> z]
    <2>2. SizeOk(f)
      BY DEF SizeOk
    <2>3. wire' = Append(wire, f) /\ wire \in Seq(Fill)
      BY <2>1 DEF TypeOK
    <2> HIDE DEF f
    <2>4. ASSUME NEW k \in 1 .. Len(wire') PROVE SizeOk(wire'[k])
      <3>1. (k \in 1 .. Len(wire) /\ wire'[k] = wire[k]) \/ wire'[k] = f
        BY <2>3
      <3> QED
        BY <2>2, <3>1, <1>s
    <2>5. UNCHANGED <<pcTcp, header, bufIndex, tcp_buf_header_gl, TCPtotaldatasize, pcGpu, TCPbufferindex,
                      gpu_data_header, gpu_data_raw_size, pevent, delivered, pcMfe>>
          /\ UNCHANGED mutex_TCP_buf_ready /\ UNCHANGED data_avail
      BY <1>4 DEF AMC13Event, ringVars, tcpVars, gpuVars, outVars, mfeVars
    <2>6. Upstream'
      BY <2>4, <2>5, <1>s
    <2> QED
      BY <2>5, <2>6, <1>2, <1>3, <1>p DEF GpuOwns, Complete, OutputRead
  <1>5. CASE TcpThread
    <2>1. UNCHANGED <<pcGpu, TCPbufferindex, gpu_data_header, gpu_data_raw_size, pevent, delivered, pcMfe>>
          /\ UNCHANGED data_avail
      BY <1>5 DEF TcpThread, TcpSetIndex, TcpLockAvail, TcpReadAndUnpack, TcpStore, TcpUnlockReady,
                  TcpLoadFillnumber, TcpStoreFillnumber, gpuVars, outVars, mfeVars
    <2>2. Downstream'
      BY <2>1, <1>3 DEF Complete, OutputRead
    <2>3. CASE TcpSetIndex \/ TcpLockAvail \/ TcpLoadFillnumber \/ TcpStoreFillnumber
      <3>1. UNCHANGED <<wire, tcp_buf_header_gl, TCPtotaldatasize>> /\ UNCHANGED mutex_TCP_buf_ready
            /\ pcTcp' \notin {"store", "unlock"}
        BY <2>3 DEF TcpSetIndex, TcpLockAvail, TcpLoadFillnumber, TcpStoreFillnumber, ringVars, wireVars
      <3>2. Upstream'
        BY <3>1, <1>s
      <3>3. InTheRing'
        BY <3>1, <2>1, <1>2 DEF GpuOwns
      <3> QED
        BY <3>2, <3>3, <2>2, <1>p
    <2>4. CASE TcpReadAndUnpack
      <3>1. /\ wire # <<>> /\ wire' = Tail(wire) /\ header' = Head(wire) /\ pcTcp' = "store"
            /\ UNCHANGED <<tcp_buf_header_gl, TCPtotaldatasize>> /\ UNCHANGED mutex_TCP_buf_ready
            /\ wire \in Seq(Fill)
        BY <2>4 DEF TcpReadAndUnpack, TypeOK
      <3>2. /\ Head(wire) = wire[1] /\ Len(wire) \in Nat \ {0}
            /\ \A k \in 1 .. Len(wire') : k + 1 \in 1 .. Len(wire) /\ wire'[k] = wire[k + 1]
        BY <3>1
      <3>3. Upstream'
        <4>1. \A k \in 1 .. Len(wire') : SizeOk(wire'[k])
          BY <3>2, <1>s, Zenon
        <4>2. SizeOk(header')
          BY <3>1, <3>2, <1>s
        <4> QED
          BY <3>1, <4>1, <4>2
      <3>4. InTheRing'
        BY <3>1, <2>1, <1>2 DEF GpuOwns
      <3> QED
        BY <3>3, <3>4, <2>2, <1>p
    <2>5. CASE TcpStore
      <3>1. /\ pcTcp = "store" /\ pcTcp' = "unlock" /\ bufIndex \in Ring
            /\ TCPtotaldatasize' = header.size
            /\ tcp_buf_header_gl' = [tcp_buf_header_gl EXCEPT ![bufIndex] = header]
            /\ UNCHANGED <<wire, bufIndex>> /\ UNCHANGED mutex_TCP_buf_ready
            /\ tcp_buf_header_gl \in [Ring -> Fill]
        BY <2>5 DEF TcpStore, TypeOK, wireVars
      <3>2. SizeOk(header) /\ TCPtotaldatasize' \in Sizes
        BY <3>1, <1>s DEF SizeOk
      <3>3. Upstream'
        BY <3>1, <3>2, <1>s
      <3>4. InTheRing'
        BY <3>1, <3>2, <2>1, <1>s DEF GpuOwns
      <3> QED
        BY <3>3, <3>4, <2>2, <1>p
    <2>6. CASE TcpUnlockReady
      <3>1. /\ pcTcp = "unlock" /\ pcTcp' = "load" /\ bufIndex \in Ring
            /\ mutex_TCP_buf_ready' = [mutex_TCP_buf_ready EXCEPT ![bufIndex] = FALSE]
            /\ UNCHANGED <<wire, bufIndex, tcp_buf_header_gl, TCPtotaldatasize>>
            /\ mutex_TCP_buf_ready \in [Ring -> BOOLEAN]
        BY <2>6 DEF TcpUnlockReady, TypeOK, wireVars
      <3>2. Upstream'
        BY <3>1, <1>s
      <3>3. InTheRing'
        BY <3>1, <2>1, <1>s DEF GpuOwns
      <3> QED
        BY <3>2, <3>3, <2>2, <1>p
    <2> QED
      BY <1>5, <2>3, <2>4, <2>5, <2>6 DEF TcpThread
  <1>6. CASE GpuThread
    <2>1. UNCHANGED <<wire, pcTcp, header, bufIndex, tcp_buf_header_gl, TCPtotaldatasize,
                      pevent, delivered, pcMfe>>
      BY <1>6 DEF GpuThread, GpuSetIndex, GpuLockReady, GpuLockOutput, GpuCopy, GpuUnlockAvail,
                  GpuProcess, GpuPublish, GpuLoadFillnumber, GpuStoreFillnumber,
                  ringVars, wireVars, tcpVars, mfeVars
    <2>2. \A i \in Ring : (~ mutex_TCP_buf_ready[i] \/ GpuOwns(i))'
                            => ~ mutex_TCP_buf_ready[i] \/ GpuOwns(i)
      BY <1>6 DEF GpuThread, GpuSetIndex, GpuLockReady, GpuLockOutput, GpuCopy, GpuUnlockAvail,
                  GpuProcess, GpuPublish, GpuLoadFillnumber, GpuStoreFillnumber, ringVars, GpuOwns,
                  TypeOK
    <2>3. Upstream' /\ InTheRing'
      BY <2>1, <2>2, <1>1, <1>2
    <2>4. CASE GpuCopy
      <3>1. /\ gpu_data_header' = tcp_buf_header_gl[TCPbufferindex]
            /\ gpu_data_raw_size' = CopySize /\ GpuOwns(TCPbufferindex) /\ TCPbufferindex \in Ring
            /\ pcGpu = "copy"
        BY <2>4 DEF GpuCopy, GpuOwns, TypeOK
      <3>2. SizeOk(gpu_data_header') /\ TCPtotaldatasize \in Sizes
        BY <3>1, <1>s
      <3>3. CopySize = TCPtotaldatasize
        BY <3>2, ReadoutAssumption DEF CopySize, PayloadsFit
      <3>4. pcMfe # "header"
        BY <3>1 DEF OutputExclusion, OutputWritten, OutputRead
      <3>5. Downstream'
        BY <2>1, <3>1, <3>2, <3>3, <3>4, <1>s
      <3> QED
        BY <2>3, <3>5, <1>p
    <2>5. CASE ~ GpuCopy
      <3>1. UNCHANGED <<gpu_data_header, gpu_data_raw_size>> /\ (Complete' => Complete)
        BY <1>6, <2>5 DEF GpuThread, GpuSetIndex, GpuLockReady, GpuLockOutput, GpuUnlockAvail,
             GpuProcess, GpuPublish, GpuLoadFillnumber, GpuStoreFillnumber, outVars, mfeVars,
             Complete, OutputRead
      <3> QED
        BY <2>1, <2>3, <3>1, <1>3, <1>p
    <2> QED
      BY <2>4, <2>5
  <1>7. CASE MfeStep \/ BeginOfRun \/ EndOfRun
    <2>1. UNCHANGED <<wire, pcTcp, header, bufIndex, tcp_buf_header_gl, TCPtotaldatasize,
                      pcGpu, TCPbufferindex, gpu_data_header, gpu_data_raw_size>>
          /\ UNCHANGED mutex_TCP_buf_ready
      BY <1>7 DEF MfeStep, MfeCycle, PollEvent, FrontendLoop, ReadBanks, ReadHeader, TcpClientBor, GpuBor,
                  BeginOfRun, EndOfRun, ringVars, wireVars, tcpVars, gpuVars, outVars
    <2>2. Upstream' /\ InTheRing'
      BY <2>1, <1>1, <1>2 DEF GpuOwns
    <2>3. CASE ReadBanks
      <3>1. pevent'.size = gpu_data_raw_size /\ Complete /\ UNCHANGED delivered
        BY <2>3, NoEventIsEvent DEF ReadBanks, Event, Complete, OutputRead
      <3>2. Downstream'
        BY <2>1, <3>1, <1>s
      <3> QED
        BY <2>2, <3>2, <1>p
    <2>4. CASE ReadHeader
      <3> DEFINE e == [pevent EXCEPT !.head = gpu_data_header, !.inRun = runs]
      <3>1. /\ delivered' = Append(delivered, e) /\ pcMfe = "header" /\ pcMfe' = "loopWindow"
            /\ e \in Event /\ e.head = gpu_data_header /\ e.size = pevent.size
            /\ delivered \in Seq(Event)
        BY <2>4 DEF ReadHeader, TypeOK, Event
      <3>2. Complete
        BY <3>1 DEF Complete, OutputRead
      <3> HIDE DEF e
      <3>3. SizeOk(e.head) /\ e.size \in Sizes
        BY <3>1, <3>2, <1>s
      <3>4. ASSUME NEW k \in 1 .. Len(delivered')
            PROVE  SizeOk(delivered'[k].head) /\ delivered'[k].size \in Sizes
        <4>1. (k \in 1 .. Len(delivered) /\ delivered'[k] = delivered[k]) \/ delivered'[k] = e
          BY <3>1
        <4> QED
          BY <4>1, <3>3, <1>s
      <3>5. Downstream'
        BY <2>1, <3>1, <3>2, <3>4, <1>s
      <3> QED
        BY <2>2, <3>5, <1>p
    <2>5. CASE ~ ReadBanks /\ ~ ReadHeader
      <3>1. UNCHANGED <<pevent, delivered>> /\ (Complete' => Complete)
            /\ (pcMfe' = "header" => pcMfe = "header")
        BY <1>7, <2>5 DEF MfeStep, MfeCycle, PollEvent, FrontendLoop, TcpClientBor, GpuBor,
                  BeginOfRun, EndOfRun, gpuVars, Complete, OutputRead
      <3> QED
        BY <2>1, <2>2, <3>1, <1>3, <1>p
    <2> QED
      BY <2>3, <2>4, <2>5
  <1>8. CASE UNCHANGED vars
    BY <1>8, <1>1, <1>2, <1>3, <1>s, <1>p
    DEF vars, ringVars, wireVars, tcpVars, gpuVars, outVars, mfeVars, GpuOwns, Complete, OutputRead
  <1> QED
    BY <1>4, <1>5, <1>6, <1>7, <1>8 DEF Next

LEMMA AlwaysSized == ASSUME PayloadsFit PROVE Spec => []Sized
  <1>1. Init => Sized
    BY DEF Init, InitWith, Sized, GpuOwns, Complete, OutputRead
  <1>2. TypeOK /\ RingExclusion /\ OutputExclusion /\ Sized /\ [Next]_vars => Sized'
    BY NextSized
  <1> QED
    BY <1>1, <1>2, TypeCorrect, RingIsExclusive, OutputIsExclusive, PTL DEF Spec

(* A copy of at least the waveforms leaves nothing of an earlier fill.      *)
LEMMA WholeCopy ==
  ASSUME PayloadsFit, NEW f, NEW n \in Sizes, NEW g, SizeOk(f), CopiedFrom(g, f, n)
  PROVE  \A b \in Input : g[b] = f
  <1>1. WaveformSize \in Nat /\ n \in Nat /\ f.size \in Nat
    BY ReadoutAssumption DEF SizeOk
  <1>2. WaveformSize <= n /\ WaveformSize <= f.size
    BY DEF PayloadsFit, SizeOk
  <1>3. \A b \in Input : b <= n /\ b <= f.size
    BY <1>1, <1>2 DEF Input
  <1> QED
    BY <1>3 DEF CopiedFrom

(* If the payloads fit the GPU, the T/Q results of every delivered event    *)
(* are made of its own fill only: no sample is of an earlier fill, although *)
(* the sizes are globals that tcp_thread sets for fills yet to come.        *)
THEOREM SamplesAreOfFill ==
  ASSUME PayloadsFit
  PROVE  Spec => [](\A k \in 1 .. Len(delivered), b \in Input :
                      delivered[k].proc[b] = delivered[k].head)
  <1> DEFINE Own == \A k \in 1 .. Len(delivered), b \in Input : delivered[k].proc[b] = delivered[k].head
  <1>1. Sized /\ DeliveredWhole => Own
    <2> SUFFICES ASSUME Sized, DeliveredWhole, NEW k \in 1 .. Len(delivered)
                 PROVE  \A b \in Input : delivered[k].proc[b] = delivered[k].head
      OBVIOUS
    <2>1. SizeOk(delivered[k].head) /\ delivered[k].size \in Sizes
      BY DEF Sized
    <2>2. CopiedFrom(delivered[k].proc, delivered[k].head, delivered[k].size)
      BY DEF DeliveredWhole
    <2> QED
      BY <2>1, <2>2, WholeCopy
  <1> QED
    BY <1>1, AlwaysSized, DeliveredIsWhole, PTL

-----------------------------------------------------------------------------
(* The fills a bin's next bank is to hold: those delivered since its last.  *)
Bys(bin) == {p.by : p \in bin}
NoneSince(b, i) == \A m \in i .. Len(delivered) : delivered[m].hist[b] = {}
SinceLast(b) == {delivered[i].head : i \in {j \in 1 .. Len(delivered) : NoneSince(b, j)}}

(* A delivered event with the bin ends it, one without it adds its fill.    *)
LEMMA SinceGrows ==
  ASSUME TypeOK, NEW b, NEW e, Len(delivered') = Len(delivered) + 1,
         \A k \in 1 .. Len(delivered) : delivered'[k] = delivered[k],
         delivered'[Len(delivered')] = e
  PROVE  /\ \A k \in 1 .. Len(delivered) : SinceHistogram(k, b)' = SinceHistogram(k, b)
         /\ \A k \in {Len(delivered')} : SinceHistogram(k, b)' = SinceLast(b) \cup {e.head}
         /\ SinceLast(b)' = IF e.hist[b] # {} THEN {} ELSE SinceLast(b) \cup {e.head}
  <1> DEFINE n == Len(delivered)
             Clear(i, k) == \A m \in i .. k : delivered[m].hist[b] = {}
             J == {j \in 1 .. n : NoneSince(b, j)}
  <1>1. n \in Nat /\ Len(delivered') = n + 1 /\ delivered'[n + 1] = e
    BY DEF TypeOK
  <1>2. ASSUME NEW i \in 1 .. n + 1, NEW k \in 0 .. n
        PROVE  (\A m \in i .. k : delivered'[m].hist[b] = {}) <=> Clear(i, k)
    <2>1. \A m \in i .. k : m \in 1 .. n
      BY <1>1
    <2>2. \A m \in i .. k : delivered'[m] = delivered[m]
      BY <2>1
    <2> QED
      BY <2>2
  <1>3. ASSUME NEW k \in 1 .. n PROVE SinceHistogram(k, b)' = SinceHistogram(k, b)
    <2> DEFINE K == {j \in 1 .. k : Clear(j, k - 1)}
               L == {j \in 1 .. k : \A m \in j .. k - 1 : delivered'[m].hist[b] = {}}
    <2>1. K = L
      <3>1. k - 1 \in 0 .. n /\ \A j \in 1 .. k : j \in 1 .. n + 1
        BY <1>1
      <3> QED
        BY <3>1, <1>2
    <2>2. \A i \in L : delivered'[i].head = delivered[i].head
      BY <1>1
    <2>3. {delivered'[i].head : i \in L} = {delivered[i].head : i \in K}
      BY <2>1, <2>2
    <2> QED
      BY <2>3 DEF SinceHistogram
  <1>4. ASSUME NEW k \in {n + 1} PROVE SinceHistogram(k, b)' = SinceLast(b) \cup {e.head}
    <2> DEFINE L == {j \in 1 .. k : \A m \in j .. k - 1 : delivered'[m].hist[b] = {}}
    <2>1. \A j \in 1 .. n + 1 : j \in L <=> Clear(j, n)
      <3>1. k = n + 1 /\ k - 1 = n /\ n \in 0 .. n
        BY <1>1
      <3> QED
        BY <3>1, <1>2
    <2>2. \A j \in 1 .. n : j \in L <=> j \in J
      BY <2>1, <1>1 DEF NoneSince
    <2>3. n + 1 \in L
      BY <2>1, <1>1
    <2>4. L = J \cup {n + 1}
      <3>1. \A j \in L : j \in 1 .. n \/ j = n + 1
        BY <1>1
      <3>2. L \subseteq 1 .. n + 1 /\ J \subseteq 1 .. n
        BY <1>1
      <3>3. \A j \in 1 .. n : j \in 1 .. n + 1
        BY <1>1
      <3> HIDE DEF L, J
      <3> QED
        BY <2>2, <2>3, <3>1, <3>2, <3>3
    <2>5. \A i \in J : delivered'[i].head = delivered[i].head
      OBVIOUS
    <2>6. {delivered'[i].head : i \in L} = {delivered[i].head : i \in J} \cup {e.head}
      <3> HIDE DEF L, J, n
      <3> QED
        BY <2>4, <2>5, <1>1
    <2> QED
      BY <2>6, <1>1 DEF SinceHistogram, SinceLast
  <1>5. SinceLast(b)' = IF e.hist[b] # {} THEN {} ELSE SinceLast(b) \cup {e.head}
    <2> DEFINE L == {j \in 1 .. n + 1 : \A m \in j .. n + 1 : delivered'[m].hist[b] = {}}
    <2>1. SinceLast(b)' = {delivered'[i].head : i \in L}
      BY <1>1 DEF SinceLast, NoneSince
    <2>2. CASE e.hist[b] # {}
      <3>1. L = {}
        BY <2>2, <1>1
      <3> QED
        BY <2>1, <2>2, <3>1
    <2>3. CASE e.hist[b] = {}
      <3>1. \A j \in 1 .. n + 1 : j \in L <=> Clear(j, n)
        <4> SUFFICES ASSUME NEW j \in 1 .. n + 1 PROVE j \in L <=> Clear(j, n)
          OBVIOUS
        <4>1. n \in 0 .. n
          BY <1>1
        <4>2. (\A m \in j .. n : delivered'[m].hist[b] = {}) <=> Clear(j, n)
          BY <1>2, <4>1
        <4>3. \A m \in j .. n + 1 : m \in j .. n \/ m = n + 1
          BY <1>1
        <4>4. \A m \in j .. n : m \in j .. n + 1
          BY <1>1
        <4> HIDE DEF Clear, n
        <4> QED
          BY <4>2, <4>3, <4>4, <2>3, <1>1
      <3>2. \A j \in 1 .. n : j \in L <=> j \in J
        BY <3>1, <1>1 DEF NoneSince
      <3>3. n + 1 \in L
        BY <3>1, <1>1
      <3>4. L = J \cup {n + 1}
        BY <3>2, <3>3, <1>1
      <3>5. \A i \in J : delivered'[i].head = delivered[i].head
        OBVIOUS
      <3>6. {delivered'[i].head : i \in L} = {delivered[i].head : i \in J} \cup {e.head}
        <4> HIDE DEF L, J, n
        <4> QED
          BY <3>4, <3>5, <1>1
      <3> QED
        BY <2>1, <2>3, <3>6 DEF SinceLast
    <2> QED
      BY <2>2, <2>3
  <1> QED
    BY <1>1, <1>3, <1>4, <1>5

-----------------------------------------------------------------------------
(* The histogram on its way.  While no fill that has been added waits for   *)
(* delivery a bin of the GPU's histogram has the fills that its next bank   *)
(* is to hold; from the kernels to the event, that fill is one more of      *)
(* them, and they are in the copied histogram if the event has the bin.     *)
HasBin(b) == MfeMakesHist /\ b <= gpu_data_his_size
Held == gpuMutex /\ pcGpu \notin {"copy", "avail", "process"}
UpToHeader(b) == SinceLast(b) \cup {gpu_data_header}

BinKept(b) ==
  /\ ~ Held => Bys(gpu_odata[b]) = SinceLast(b)
  /\ Held /\ pcMfe # "header"
       => IF HasBin(b) THEN gpu_odata[b] = {} /\ Bys(gpu_data_his[b]) = UpToHeader(b)
          ELSE Bys(gpu_odata[b]) = UpToHeader(b)
  /\ pcMfe = "header"
       => IF pevent.hist[b] # {} THEN gpu_odata[b] = {} /\ Bys(pevent.hist[b]) = UpToHeader(b)
          ELSE Bys(gpu_odata[b]) = UpToHeader(b)
HistogramsKept == \A b \in Input : BinKept(b)
BanksKept ==
  \A k \in 1 .. Len(delivered), b \in Input :
    delivered[k].hist[b] # {} => Bys(delivered[k].hist[b]) = SinceHistogram(k, b)

LEMMA BysUnion == \A bin, f, g : Bys(bin \cup {[by |-> f, of |-> g]}) = Bys(bin) \cup {f}
  <1> TAKE bin, f, g
  <1> DEFINE p == [by |-> f, of |-> g]
  <1>1. p.by = f
    OBVIOUS
  <1> HIDE DEF p
  <1>2. Bys(bin \cup {p}) = Bys(bin) \cup {p.by}
    BY DEF Bys
  <1> QED
    BY <1>1, <1>2 DEF p

LEMMA NoBys == Bys({}) = {} /\ \A bin : Bys(bin) = {} => bin = {}
  BY DEF Bys

LEMMA NextHistogramsKept ==
  ASSUME PrescalesAgree
  PROVE  TypeOK /\ OutputExclusion /\ HistogramsKept /\ BanksKept /\ [Next]_vars
           => HistogramsKept' /\ BanksKept'
  <1> SUFFICES ASSUME TypeOK, OutputExclusion, HistogramsKept, BanksKept, [Next]_vars
               PROVE  HistogramsKept' /\ BanksKept'
    OBVIOUS
  <1>1. ASSUME UNCHANGED delivered
        PROVE  BanksKept' /\ \A b : SinceLast(b)' = SinceLast(b)
    <2>1. \A k, b : SinceHistogram(k, b)' = SinceHistogram(k, b)
      BY <1>1 DEF SinceHistogram
    <2>2. \A b : SinceLast(b)' = SinceLast(b)
      BY <1>1 DEF SinceLast, NoneSince
    <2>3. BanksKept'
      BY <1>1, <2>1 DEF BanksKept
    <2> QED
      BY <2>2, <2>3
  <1>2. ASSUME UNCHANGED <<delivered, gpu_odata, gpu_data_his, gpu_data_his_size, gpu_data_header,
                           pevent>>,
               Held' <=> Held, pcMfe' = "header" <=> pcMfe = "header"
        PROVE  HistogramsKept' /\ BanksKept'
    <2>1. \A b : UpToHeader(b)' = UpToHeader(b) /\ (HasBin(b)' <=> HasBin(b))
      BY <1>1, <1>2 DEF UpToHeader, HasBin, MfeMakesHist
    <2>2. \A b \in Input : BinKept(b)'
      BY <1>1, <1>2, <2>1 DEF HistogramsKept, BinKept
    <2> QED
      BY <1>1, <1>2, <2>2 DEF HistogramsKept
  <1>3. CASE AMC13Event \/ TcpThread \/ UNCHANGED vars
    <2>1. UNCHANGED <<gpuVars, outVars, gpuMutex, mfeVars>>
      BY <1>3 DEF AMC13Event, TcpThread, TcpSetIndex, TcpLockAvail, TcpReadAndUnpack, TcpStore,
                  TcpUnlockReady, TcpLoadFillnumber, TcpStoreFillnumber, vars
    <2> QED
      BY <1>2, <2>1 DEF gpuVars, outVars, mfeVars, Held
  <1>4. CASE GpuSetIndex \/ GpuLockReady \/ GpuUnlockAvail \/ GpuPublish
             \/ GpuLoadFillnumber \/ GpuStoreFillnumber
    <2>1. UNCHANGED <<outVars, gpuMutex, mfeVars>>
          /\ (pcGpu' \in {"copy", "avail", "process"} <=> pcGpu \in {"copy", "avail", "process"})
      BY <1>4 DEF GpuSetIndex, GpuLockReady, GpuUnlockAvail, GpuPublish, GpuLoadFillnumber,
                  GpuStoreFillnumber
    <2> QED
      BY <1>2, <2>1 DEF outVars, mfeVars, Held
  <1>5. CASE GpuLockOutput
    <2>1. UNCHANGED <<outVars, mfeVars>> /\ ~ Held' /\ ~ Held /\ pcMfe # "header"
      BY <1>5 DEF GpuLockOutput, Held, OutputExclusion, OutputRead
    <2> QED
      BY <1>2, <2>1 DEF outVars, mfeVars
  <1>6. CASE GpuCopy
    <2>1. /\ UNCHANGED <<gpu_odata, delivered, pcMfe, pevent>>
          /\ ~ Held' /\ ~ Held /\ pcMfe # "header"
      BY <1>6 DEF GpuCopy, mfeVars, Held, OutputExclusion, OutputWritten, OutputRead
    <2>2. \A b \in Input : BinKept(b)'
      BY <2>1, <1>1 DEF HistogramsKept, BinKept
    <2> QED
      BY <2>1, <2>2, <1>1 DEF HistogramsKept
  <1>7. CASE GpuProcess
    <2>1. /\ UNCHANGED <<delivered, pcMfe, pevent, gpu_data_header, gpu_data_his_size>>
          /\ Held' /\ ~ Held /\ pcMfe # "header"
          /\ gpu_data_header \in Fill /\ gpu_data_header.nr \in 0 .. MaxFills
      BY <1>7 DEF GpuProcess, mfeVars, TypeOK, Fill, Held, OutputExclusion, OutputWritten, OutputRead
    <2>2. GpuFlushes <=> MfeMakesHist
      BY <2>1 DEF PrescalesAgree, GpuFlushes, MfeMakesHist
    <2>3. \A b : (HasBin(b)' <=> Flushed(b)) /\ UpToHeader(b)' = UpToHeader(b)
      BY <2>1, <2>2, <1>1 DEF HasBin, Flushed, MfeMakesHist, UpToHeader
    <2>4. ASSUME NEW b \in Input PROVE BinKept(b)'
      <3>1. Bys(Added[b]) = Bys(gpu_odata[b]) \cup {gpu_data_header}
        <4>1. Added[b] = gpu_odata[b] \cup {[by |-> gpu_data_header, of |-> gpu_idata[b]]}
          BY DEF Added
        <4>2. Bys(gpu_odata[b] \cup {[by |-> gpu_data_header, of |-> gpu_idata[b]]})
                = Bys(gpu_odata[b]) \cup {gpu_data_header}
          BY BysUnion, Zenon
        <4> QED
          BY <4>1, <4>2
      <3>2. Bys(Added[b]) = UpToHeader(b)
        BY <3>1, <2>1 DEF HistogramsKept, BinKept, UpToHeader
      <3>3. IF Flushed(b) THEN gpu_odata'[b] = {} /\ gpu_data_his'[b] = Added[b]
            ELSE gpu_odata'[b] = Added[b]
        BY <1>7 DEF GpuProcess
      <3> QED
        BY <3>2, <3>3, <2>1, <2>3 DEF BinKept
    <2> QED
      BY <2>1, <2>4, <1>1 DEF HistogramsKept
  <1>8. CASE MfeCycle \/ PollEvent \/ FrontendLoop \/ TcpClientBor \/ GpuBor \/ BeginOfRun \/ EndOfRun
    <2>1. /\ UNCHANGED <<outVars, gpuMutex, pevent, delivered, pcGpu>>
          /\ pcMfe' # "header" /\ pcMfe # "header"
      BY <1>8 DEF MfeCycle, PollEvent, FrontendLoop, TcpClientBor, GpuBor, BeginOfRun, EndOfRun,
                  gpuVars
    <2> QED
      BY <1>2, <2>1 DEF outVars, Held
  <1>9. CASE ReadBanks
    <2>1. /\ UNCHANGED <<outVars, gpuMutex, delivered, pcGpu>> /\ Held /\ pcMfe # "header"
          /\ Held' /\ pcMfe' = "header" /\ pevent'.hist = HistogramBank
      BY <1>9, NoEventIsEvent DEF ReadBanks, gpuVars, Held, OutputExclusion, OutputWritten, OutputRead,
                                  Event
    <2>2. ASSUME NEW b \in Input PROVE BinKept(b)'
      <3>1. pevent'.hist[b] = IF HasBin(b) THEN gpu_data_his[b] ELSE {}
        BY <2>1 DEF HistogramBank, HasBin
      <3>2. UpToHeader(b)' = UpToHeader(b) /\ UpToHeader(b) # {}
        BY <2>1, <1>1 DEF UpToHeader, outVars
      <3>3. HasBin(b) => gpu_data_his[b] # {}
        BY <2>1, <3>2, NoBys DEF HistogramsKept, BinKept
      <3> QED
        BY <2>1, <3>1, <3>2, <3>3 DEF HistogramsKept, BinKept, outVars
    <2> QED
      BY <2>1, <2>2, <1>1 DEF HistogramsKept
  <1>10. CASE ReadHeader
    <2> DEFINE e == delivered'[Len(delivered')]
    <2>1. /\ pcMfe = "header" /\ pcMfe' # "header" /\ ~ gpuMutex' /\ UNCHANGED outVars
      BY <1>10 DEF ReadHeader
    <2>2. /\ Len(delivered') = Len(delivered) + 1
          /\ \A k \in 1 .. Len(delivered) : delivered'[k] = delivered[k]
          /\ e = [pevent EXCEPT !.head = gpu_data_header, !.inRun = runs]
      BY <1>10, DeliveredGrows DEF ReadHeader, mfeVars
    <2>3. e.head = gpu_data_header /\ e.hist = pevent.hist
      BY <2>2 DEF TypeOK, Event
    <2> HIDE DEF e
    <2>4. ASSUME NEW b
          PROVE  /\ \A k \in 1 .. Len(delivered) : SinceHistogram(k, b)' = SinceHistogram(k, b)
                 /\ \A k \in {Len(delivered')} : SinceHistogram(k, b)' = UpToHeader(b)
                 /\ SinceLast(b)' = IF e.hist[b] # {} THEN {} ELSE UpToHeader(b)
      <3>1. delivered'[Len(delivered')] = e
        BY DEF e
      <3>2. /\ \A k \in 1 .. Len(delivered) : SinceHistogram(k, b)' = SinceHistogram(k, b)
            /\ \A k \in {Len(delivered')} : SinceHistogram(k, b)' = SinceLast(b) \cup {e.head}
            /\ SinceLast(b)' = IF e.hist[b] # {} THEN {} ELSE SinceLast(b) \cup {e.head}
        BY <2>2, <3>1, SinceGrows
      <3> QED
        BY <3>2, <2>3 DEF UpToHeader
    <2>5. ASSUME NEW b \in Input PROVE BinKept(b)'
      <3>1. Bys(gpu_odata[b]) = IF e.hist[b] # {} THEN {} ELSE UpToHeader(b)
        BY <2>1, <2>3, NoBys DEF HistogramsKept, BinKept
      <3> QED
        BY <2>1, <2>4, <3>1 DEF BinKept, Held, outVars
    <2>6. ASSUME NEW k \in 1 .. Len(delivered'), NEW b \in Input, delivered'[k].hist[b] # {}
          PROVE  Bys(delivered'[k].hist[b]) = SinceHistogram(k, b)'
      <3>1. CASE k \in 1 .. Len(delivered)
        BY <3>1, <2>2, <2>4, <2>6 DEF BanksKept
      <3>2. CASE k = Len(delivered')
        BY <3>2, <2>1, <2>3, <2>4, <2>6 DEF HistogramsKept, BinKept, e
      <3>3. k \in 1 .. Len(delivered) \/ k = Len(delivered')
        BY <2>2 DEF TypeOK
      <3> QED
        BY <3>1, <3>2, <3>3
    <2> QED
      BY <2>5, <2>6 DEF HistogramsKept, BanksKept
  <1> QED
    BY <1>3, <1>4, <1>5, <1>6, <1>7, <1>8, <1>9, <1>10 DEF Next, GpuThread, MfeStep

(* What has been added to a histogram is of the fill that was processed.    *)
OwnBin(bin) == \A p \in bin : p.of = p.by
OwnBins ==
  /\ \A b \in Input : OwnBin(gpu_odata[b]) /\ OwnBin(gpu_data_his[b]) /\ OwnBin(pevent.hist[b])
  /\ \A k \in 1 .. Len(delivered), b \in Input : OwnBin(delivered[k].hist[b])

LEMMA NextOwnBins ==
  ASSUME PayloadsFit
  PROVE  TypeOK /\ StagesAgree /\ Sized /\ OwnBins /\ [Next]_vars => OwnBins'
  <1> SUFFICES ASSUME TypeOK, StagesAgree, Sized, OwnBins, [Next]_vars PROVE OwnBins'
    OBVIOUS
  <1>1. CASE GpuProcess
    <2>1. SizeOk(gpu_data_header) /\ gpu_data_raw_size \in Sizes
          /\ CopiedFrom(gpu_idata, gpu_data_header, gpu_data_raw_size)
      BY <1>1 DEF GpuProcess, Sized, Complete, StagesAgree
    <2>2. \A b \in Input : gpu_idata[b] = gpu_data_header
      BY <2>1, WholeCopy
    <2>3. \A b \in Input : OwnBin(Added[b])
      BY <2>2 DEF OwnBins, OwnBin, Added
    <2>4. /\ UNCHANGED <<pevent, delivered>>
          /\ \A b \in Input : gpu_odata'[b] \in {{}, Added[b]}
                              /\ gpu_data_his'[b] \in {gpu_data_his[b], Added[b]}
      BY <1>1 DEF GpuProcess, mfeVars
    <2> QED
      BY <2>3, <2>4 DEF OwnBins, OwnBin
  <1>2. CASE ReadBanks
    <2>1. UNCHANGED <<outVars, delivered>> /\ pevent'.hist = HistogramBank
      BY <1>2, NoEventIsEvent DEF ReadBanks, Event
    <2>2. \A b \in Input : pevent'.hist[b] \in {{}, gpu_data_his[b]}
      BY <2>1 DEF HistogramBank
    <2> QED
      BY <2>1, <2>2 DEF OwnBins, OwnBin, outVars
  <1>3. CASE ReadHeader
    <2>1. /\ Len(delivered') = Len(delivered) + 1
          /\ \A k \in 1 .. Len(delivered) : delivered'[k] = delivered[k]
          /\ delivered'[Len(delivered')] = [pevent EXCEPT !.head = gpu_data_header, !.inRun = runs]
      BY <1>3, DeliveredGrows DEF ReadHeader, mfeVars
    <2>2. delivered'[Len(delivered')].hist = pevent.hist
      BY <2>1 DEF TypeOK, Event
    <2>3. UNCHANGED outVars /\ pevent'.hist = EmptyHistogram
      BY <1>3 DEF ReadHeader, NoEvent
    <2>4. \A k \in 1 .. Len(delivered') : k \in 1 .. Len(delivered) \/ k = Len(delivered')
      BY <2>1 DEF TypeOK
    <2>5. \A k \in 1 .. Len(delivered'), b \in Input : OwnBin(delivered'[k].hist[b])
      BY <2>1, <2>2, <2>4 DEF OwnBins
    <2>6. \A b \in Input : OwnBin(pevent'.hist[b])
      BY <2>3 DEF EmptyHistogram, OwnBin
    <2> QED
      BY <2>3, <2>5, <2>6 DEF OwnBins, outVars
  <1>4. CASE ~ GpuProcess /\ ~ ReadBanks /\ ~ ReadHeader
    <2>1. UNCHANGED <<gpu_odata, gpu_data_his, pevent, delivered>>
      BY <1>4 DEF Next, AMC13Event, TcpThread, TcpSetIndex, TcpLockAvail, TcpReadAndUnpack, TcpStore,
           TcpUnlockReady, TcpLoadFillnumber, TcpStoreFillnumber, GpuThread, GpuSetIndex,
           GpuLockReady, GpuLockOutput, GpuCopy, GpuUnlockAvail, GpuPublish,
           GpuLoadFillnumber, GpuStoreFillnumber, MfeStep, MfeCycle, PollEvent, FrontendLoop,
           TcpClientBor, GpuBor, BeginOfRun, EndOfRun, vars, mfeVars, outVars
    <2> QED
      BY <2>1 DEF OwnBins
  <1> QED
    BY <1>1, <1>2, <1>3, <1>4

(* Each bin of each histogram bank adds up exactly the fills delivered       *)
(* since that bin's last bank, each once, and the samples added are each    *)
(* fill's own if the payloads fit the GPU: two threads that decide about a  *)
(* flush by different arithmetic, globals that tcp_thread sets for fills to *)
(* come, and runs that begin and end at any time neither add a fill twice   *)
(* nor leave one out.                                                       *)
THEOREM HistogramsHoldFillsOnce ==
  ASSUME PrescalesAgree
  PROVE  Spec => []HistogramOfFills
  <1>1. Init => HistogramsKept /\ BanksKept
    <2> SUFFICES ASSUME Init PROVE HistogramsKept /\ BanksKept
      OBVIOUS
    <2>1. /\ delivered = <<>> /\ gpuMutex = FALSE /\ pcMfe = "yield"
          /\ gpu_odata = EmptyHistogram
      BY DEF Init, InitWith
    <2>2. \A b : SinceLast(b) = {}
      BY <2>1 DEF SinceLast
    <2>3. \A b \in Input : BinKept(b)
      BY <2>1, <2>2, NoBys DEF BinKept, Held, EmptyHistogram
    <2> QED
      BY <2>1, <2>3 DEF HistogramsKept, BanksKept
  <1>2. TypeOK /\ OutputExclusion /\ HistogramsKept /\ BanksKept /\ [Next]_vars
          => HistogramsKept' /\ BanksKept'
    BY NextHistogramsKept
  <1>3. Spec => []BanksKept
    BY <1>1, <1>2, TypeCorrect, OutputIsExclusive, PTL DEF Spec
  <1>4. CASE PayloadsFit
    <2>1. Init => OwnBins
      BY DEF Init, InitWith, OwnBins, OwnBin, EmptyHistogram, NoEvent
    <2>2. TypeOK /\ StagesAgree /\ Sized /\ OwnBins /\ [Next]_vars => OwnBins'
      BY <1>4, NextOwnBins
    <2>3. BanksKept /\ OwnBins => HistogramOfFills
      BY DEF BanksKept, OwnBins, OwnBin, HistogramOfFills, Bys
    <2>4. Spec => []Sized
      BY <1>4, AlwaysSized
    <2> QED
      BY <1>3, <2>1, <2>2, <2>3, <2>4, TypeCorrect, StagesStayTogether, PTL DEF Spec
  <1>5. CASE ~ PayloadsFit
    <2>1. BanksKept => HistogramOfFills
      BY <1>5 DEF BanksKept, HistogramOfFills, Bys
    <2> QED
      BY <1>3, <2>1, PTL
  <1> QED
    BY <1>4, <1>5

=============================================================================
