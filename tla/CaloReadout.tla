---------------------------- MODULE CaloReadout ----------------------------
(***************************************************************************)
(* The asynchronous calorimeter readout frontend, frontends/               *)
(* CaloReadoutAMC13.  Three threads pass one AMC13 event (a "fill") along: *)
(*                                                                         *)
(*   AMC13 --wire--> tcp_thread --ring of buffers--> gpu_thread_1          *)
(*                              --output buffer--> mfe (MIDAS main thread) *)
(*                                                                         *)
(* The ring is guarded by two arrays of mutexes used as binary semaphores  *)
(* (locked by one thread, unlocked by the other), the output buffer by     *)
(* gpu_thread_1_info.mutex (locked by gpu_thread_1, unlocked by mfe), and  *)
(* data_avail by mutex_midas, which the main thread holds except in the    *)
(* short windows of poll_event and frontend_loop.                          *)
(*                                                                         *)
(* A mutex is a Boolean, TRUE while locked.  A fill is abstracted to its   *)
(* run, its AMC13 event number and its payload size; a buffer of the host  *)
(* holds the fill whose bytes were last copied to it.  The GPU's memory is *)
(* modelled place by place, because the copy to it can be shorter than a   *)
(* fill and then leaves the samples of earlier fills behind.               *)
(***************************************************************************)
EXTENDS Naturals, Sequences, FiniteSets

CONSTANTS
  RingSize,          \* TCP_BUF_MAX_FILLS, 13 in tcp_thread.h
  MaxFills,          \* bound: AMC13 events per run
  MaxRuns,           \* bound: begin-of-run transitions
  Sizes,             \* payload sizes an AMC13 event can have
  SizesOf,           \* [n -> those that the n-th event of a run can have]
  GpuIbufSize,       \* GPU_IBUF_SIZE, the capacity of the GPU input buffer
  WaveformSize,      \* what the kernels read of it: N_DETECTORS waveforms
  ShortMod,          \* 2^16, the range of the unsigned short AMC13fillcounter
  PrescaleRaw, PrescaleOffsetRaw,   \* "raw data prescale", "... offset"
  FlushHist, FlushOffsetHist,       \* "histogram data flush", "... offset"
  TriggersInRun,     \* TRUE: the experiment triggers only while the run is on
  DrainedStop        \* TRUE: transitions come when the pipeline is Drained

ASSUME ReadoutAssumption ==
  /\ RingSize \in Nat \ {0}
  /\ MaxFills \in Nat
  /\ MaxRuns \in Nat
  /\ Sizes \subseteq Nat /\ SizesOf \in [1 .. MaxFills -> SUBSET Sizes]
  /\ GpuIbufSize \in Nat /\ WaveformSize \in Nat \ {0}
  /\ ShortMod \in Nat \ {0}
  /\ PrescaleRaw \in Nat \ {0} /\ PrescaleOffsetRaw \in Nat
  /\ FlushHist \in Nat \ {0} /\ FlushOffsetHist \in Nat
  /\ TriggersInRun \in BOOLEAN /\ DrainedStop \in BOOLEAN

VARIABLES
  wire,                \* fills sent by the AMC13 and not yet read from the socket
  amc13Nr,             \* event counter of the AMC13
  sent,                \* history: the fills the AMC13 has sent
  mutex_TCP_buf_avail, \* [ring index -> locked?]
  mutex_TCP_buf_ready, \* [ring index -> locked?]
  tcp_buf_header_gl,   \* [ring index -> fill whose header and trailer it holds]
  tcp_buf_gl,          \* [ring index -> fill whose payload it holds]
  pcTcp,               \* next step of tcp_thread
  bufIndex,            \* its local ring index
  header,              \* its local header/tail buffer
  TCPfillnumber,       \* its fill counter, also written by begin_of_run
  tcpReg,              \* the register in which the counter is incremented
  TCPtotaldatasize,    \* payload size of the fill read last, one global
  pcGpu,               \* next step of gpu_thread_1
  TCPbufferindex,      \* its local ring index
  GPUfillnumber, gpuReg,
  gpuMutex,            \* gpu_thread_1_info.mutex
  gpu_data_header,     \* output buffer: header and trailer
  gpu_data_raw, gpu_data_raw_size,      \* output buffer: raw payload
  gpu_idata,           \* [place of the GPU's input -> fill whose sample is there]
  gpu_odata,           \* [bin of the GPU's histogram -> samples added to it]
  gpu_data_proc,       \* output buffer: T/Q results, [place -> fill they are made of]
  gpu_data_his, gpu_data_his_size,      \* output buffer: the copied histogram
  data_avail,          \* "true if data available from gpu_thread"
  pcMfe,               \* next step of the MIDAS main thread
  run_state,
  runs,                \* begin-of-run transitions so far: the current run
  pevent,              \* the MIDAS event under construction
  delivered            \* history: the MIDAS events handed to the system buffer

wireVars == <<wire, amc13Nr, sent>>
ringVars == <<mutex_TCP_buf_avail, mutex_TCP_buf_ready, tcp_buf_header_gl, tcp_buf_gl>>
tcpVars  == <<pcTcp, bufIndex, header, TCPfillnumber, tcpReg, TCPtotaldatasize>>
outVars  == <<gpu_data_header, gpu_data_raw, gpu_data_raw_size, gpu_idata,
              gpu_odata, gpu_data_proc, gpu_data_his, gpu_data_his_size>>
gpuVars  == <<pcGpu, TCPbufferindex, GPUfillnumber, gpuReg>>
mfeVars  == <<pcMfe, run_state, runs, pevent, delivered>>
vars == <<wireVars, ringVars, tcpVars, gpuVars, outVars, gpuMutex, data_avail, mfeVars>>

Ring == 0 .. RingSize - 1
Fill == [run : 0 .. MaxRuns, nr : 0 .. MaxFills, size : Sizes \cup {0}]
NoFill == [run |-> 0, nr |-> 0, size |-> 0]     \* nothing, or unwritten memory

(* A histogram bin adds up samples: one per fill that was processed ("by"),  *)
(* and it should be a sample of that fill ("of").                           *)
Input == 1 .. WaveformSize
Pass == [by : Fill, of : Fill]
EmptyHistogram == [b \in Input |-> {}]

(* A MIDAS event: header/trailer banks, raw bank (NoFill if there is none), *)
(* the bytes of payload copied, processed bank, histogram bank (no bins if  *)
(* there is none), and the run it was sent in.                              *)
Event == [head : Fill, tail : Fill, raw : Fill, size : Nat, proc : [Input -> Fill],
          hist : [Input -> SUBSET Pass], inRun : 0 .. MaxRuns]
NoEvent == [head |-> NoFill, tail |-> NoFill, raw |-> NoFill, size |-> 0,
            proc |-> [b \in Input |-> NoFill], hist |-> EmptyHistogram, inRun |-> 0]

(* The frontend after its initialisation, tcp_thread being at step pc.      *)
InitWith(pc) ==
  /\ wire = <<>> /\ amc13Nr = 0 /\ sent = {}
  /\ mutex_TCP_buf_avail = [i \in Ring |-> FALSE]
  /\ mutex_TCP_buf_ready = [i \in Ring |-> TRUE]
  /\ tcp_buf_header_gl = [i \in Ring |-> NoFill]
  /\ tcp_buf_gl = [i \in Ring |-> NoFill]
  /\ pcTcp = pc /\ bufIndex = 0 /\ header = NoFill
  /\ TCPfillnumber = 0 /\ tcpReg = 0 /\ TCPtotaldatasize = 0
  /\ pcGpu = "index" /\ TCPbufferindex = 0 /\ GPUfillnumber = 0 /\ gpuReg = 0
  /\ gpuMutex = FALSE
  /\ gpu_data_header = NoFill /\ gpu_data_raw = NoFill /\ gpu_data_raw_size = 0
  /\ gpu_idata = [b \in Input |-> NoFill] /\ gpu_data_proc = [b \in Input |-> NoFill]
  /\ gpu_odata = EmptyHistogram /\ gpu_data_his = EmptyHistogram /\ gpu_data_his_size = 0
  /\ data_avail = FALSE
  /\ pcMfe = "yield" /\ run_state = "stopped" /\ runs = 0
  /\ pevent = NoEvent /\ delivered = <<>>

Init == InitWith("index")

(* tcp_client_init creates tcp_thread before it initialises the mutexes of  *)
(* the ring.  If the thread has locked its first buffer by then and waits   *)
(* in read(), pthread_mutex_init makes that mutex an unlocked one.          *)
EarlyThreadInit == InitWith("read")

(***************************************************************************)
(* Where the fills are.                                                    *)
(***************************************************************************)
OnWire == {wire[k] : k \in 1 .. Len(wire)}
InTcpThread == IF pcTcp \in {"store", "unlock"} THEN {tcp_buf_gl[bufIndex]} ELSE {}
InRing == {tcp_buf_header_gl[i] : i \in {j \in Ring : ~ mutex_TCP_buf_ready[j]}}
InGpuThread == IF pcGpu \in {"out", "copy"} THEN {tcp_buf_header_gl[TCPbufferindex]} ELSE {}
InOutput == IF gpuMutex /\ pcGpu # "copy" THEN {gpu_data_header} ELSE {}
InFlight == OnWire \cup InTcpThread \cup InRing \cup InGpuThread \cup InOutput

(* The state the experiment counts on at a run transition: tcp_thread waits*)
(* in read(), gpu_thread_1 for a buffer, and no fill is in the pipeline.   *)
(* The code does not check it: the master sleeps 500 ms before its slaves  *)
(* are stopped (MasterGM2/frontend.c, end_of_run).                         *)
ThreadsAtRest ==
  /\ wire = <<>> /\ pcTcp = "read"
  /\ \/ pcGpu = "ready" /\ mutex_TCP_buf_ready[TCPbufferindex]
     \/ pcGpu = "out" /\ gpuMutex
Drained == ThreadsAtRest /\ InFlight = {}

-----------------------------------------------------------------------------
(* The AMC13 (external) sends an event for each trigger it gets.  It is     *)
(* free running: only the experiment's timing confines triggers to runs.    *)
AMC13Event ==
  /\ amc13Nr < MaxFills
  /\ TriggersInRun => run_state = "running"
  /\ \E s \in SizesOf[amc13Nr + 1] :
       LET f == [run |-> runs, nr |-> amc13Nr + 1, size |-> s]
       IN wire' = Append(wire, f) /\ sent' = sent \cup {f}
  /\ amc13Nr' = amc13Nr + 1
  /\ UNCHANGED <<ringVars, tcpVars, gpuVars, outVars, gpuMutex, data_avail, mfeVars>>

-----------------------------------------------------------------------------
(* Mutant: the ring index does not wrap.                                    *)
TcpSetIndexNoWrap ==
  /\ pcTcp = "index" /\ pcTcp' = "avail"
  /\ bufIndex' = TCPfillnumber
  /\ UNCHANGED <<header, TCPfillnumber, tcpReg, TCPtotaldatasize, ringVars,
                 wireVars, gpuVars, outVars, gpuMutex, data_avail, mfeVars>>

(* tcp_thread: the body of its while(1) loop, step by step.                 *)
TcpSetIndex ==
  /\ pcTcp = "index" /\ pcTcp' = "avail"
  /\ bufIndex' = TCPfillnumber % RingSize
  /\ UNCHANGED <<header, TCPfillnumber, tcpReg, TCPtotaldatasize, ringVars,
                 wireVars, gpuVars, outVars, gpuMutex, data_avail, mfeVars>>

(* Mutant: tcp_thread does not wait for the buffer to be available.         *)
TcpLockAvailNoWait ==
  /\ pcTcp = "avail" /\ pcTcp' = "read"
  /\ mutex_TCP_buf_avail' = [mutex_TCP_buf_avail EXCEPT ![bufIndex] = TRUE]
  /\ UNCHANGED <<bufIndex, header, TCPfillnumber, tcpReg, TCPtotaldatasize,
                 mutex_TCP_buf_ready, tcp_buf_header_gl, tcp_buf_gl,
                 wireVars, gpuVars, outVars, gpuMutex, data_avail, mfeVars>>

TcpLockAvail ==
  /\ pcTcp = "avail" /\ pcTcp' = "read"
  /\ ~ mutex_TCP_buf_avail[bufIndex]
  /\ mutex_TCP_buf_avail' = [mutex_TCP_buf_avail EXCEPT ![bufIndex] = TRUE]
  /\ UNCHANGED <<bufIndex, header, TCPfillnumber, tcpReg, TCPtotaldatasize,
                 mutex_TCP_buf_ready, tcp_buf_header_gl, tcp_buf_gl,
                 wireVars, gpuVars, outVars, gpuMutex, data_avail, mfeVars>>

(* readAndUnpack(bufIndex): blocks in read() until the event has arrived.   *)
TcpReadAndUnpack ==
  /\ pcTcp = "read" /\ pcTcp' = "store"
  /\ wire # <<>>
  /\ wire' = Tail(wire)
  /\ header' = Head(wire)
  /\ tcp_buf_gl' = [tcp_buf_gl EXCEPT ![bufIndex] = Head(wire)]
  /\ UNCHANGED <<bufIndex, TCPfillnumber, tcpReg, TCPtotaldatasize, amc13Nr, sent,
                 mutex_TCP_buf_avail, mutex_TCP_buf_ready, tcp_buf_header_gl,
                 gpuVars, outVars, gpuMutex, data_avail, mfeVars>>

(* The sizes go to globals, header and trailer to the ring buffer.          *)
TcpStore ==
  /\ pcTcp = "store" /\ pcTcp' = "unlock"
  /\ TCPtotaldatasize' = header.size
  /\ tcp_buf_header_gl' = [tcp_buf_header_gl EXCEPT ![bufIndex] = header]
  /\ UNCHANGED <<bufIndex, header, TCPfillnumber, tcpReg,
                 mutex_TCP_buf_avail, mutex_TCP_buf_ready, tcp_buf_gl,
                 wireVars, gpuVars, outVars, gpuMutex, data_avail, mfeVars>>

TcpUnlockReady ==
  /\ pcTcp = "unlock" /\ pcTcp' = "load"
  /\ mutex_TCP_buf_ready' = [mutex_TCP_buf_ready EXCEPT ![bufIndex] = FALSE]
  /\ UNCHANGED <<bufIndex, header, TCPfillnumber, tcpReg, TCPtotaldatasize,
                 mutex_TCP_buf_avail, tcp_buf_header_gl, tcp_buf_gl,
                 wireVars, gpuVars, outVars, gpuMutex, data_avail, mfeVars>>

(* TCPfillnumber++ races with tcp_client_bor: a load and a store.           *)
TcpLoadFillnumber ==
  /\ pcTcp = "load" /\ pcTcp' = "incr"
  /\ tcpReg' = TCPfillnumber
  /\ UNCHANGED <<bufIndex, header, TCPfillnumber, TCPtotaldatasize, ringVars,
                 wireVars, gpuVars, outVars, gpuMutex, data_avail, mfeVars>>

TcpStoreFillnumber ==
  /\ pcTcp = "incr" /\ pcTcp' = "index"
  /\ TCPfillnumber' = tcpReg + 1
  /\ tcpReg' = 0
  /\ UNCHANGED <<bufIndex, header, TCPtotaldatasize, ringVars,
                 wireVars, gpuVars, outVars, gpuMutex, data_avail, mfeVars>>

TcpThread ==
  \/ TcpSetIndex \/ TcpLockAvail \/ TcpReadAndUnpack \/ TcpStore
  \/ TcpUnlockReady \/ TcpLoadFillnumber \/ TcpStoreFillnumber

-----------------------------------------------------------------------------
(* gpu_thread_1: the body of its while(1) loop, step by step.               *)
GpuSetIndex ==
  /\ pcGpu = "index" /\ pcGpu' = "ready"
  /\ TCPbufferindex' = GPUfillnumber % RingSize
  /\ UNCHANGED <<GPUfillnumber, gpuReg, ringVars, tcpVars, wireVars, outVars,
                 gpuMutex, data_avail, mfeVars>>

(* Mutant: the ready mutex is tested, not taken.                            *)
GpuLockReadyNoTake ==
  /\ pcGpu = "ready" /\ pcGpu' = "out"
  /\ ~ mutex_TCP_buf_ready[TCPbufferindex]
  /\ UNCHANGED <<TCPbufferindex, GPUfillnumber, gpuReg, ringVars, tcpVars,
                 wireVars, outVars, gpuMutex, data_avail, mfeVars>>

GpuLockReady ==
  /\ pcGpu = "ready" /\ pcGpu' = "out"
  /\ ~ mutex_TCP_buf_ready[TCPbufferindex]
  /\ mutex_TCP_buf_ready' = [mutex_TCP_buf_ready EXCEPT ![TCPbufferindex] = TRUE]
  /\ UNCHANGED <<TCPbufferindex, GPUfillnumber, gpuReg, mutex_TCP_buf_avail,
                 tcp_buf_header_gl, tcp_buf_gl, tcpVars, wireVars, outVars,
                 gpuMutex, data_avail, mfeVars>>

(* Mutant: gpu_thread_1 does not wait for the main thread.                  *)
GpuLockOutputNoWait ==
  /\ pcGpu = "out" /\ pcGpu' = "copy"
  /\ gpuMutex' = TRUE
  /\ UNCHANGED <<TCPbufferindex, GPUfillnumber, gpuReg, ringVars, tcpVars,
                 wireVars, outVars, data_avail, mfeVars>>

GpuLockOutput ==
  /\ pcGpu = "out" /\ pcGpu' = "copy"
  /\ ~ gpuMutex
  /\ gpuMutex' = TRUE
  /\ UNCHANGED <<TCPbufferindex, GPUfillnumber, gpuReg, ringVars, tcpVars,
                 wireVars, outVars, data_avail, mfeVars>>

(* AMC13fillcounter of the GPU thread is an unsigned short.                 *)
GpuFillcounter == tcp_buf_header_gl[TCPbufferindex].nr % ShortMod
(* Mutant: raw data is copied for the fill before the prescaled one.        *)
GpuCopiesRawOffByOne == (GpuFillcounter + 1) % PrescaleRaw = 0

GpuCopiesRaw == GpuFillcounter % PrescaleRaw = 0

(* The bytes of payload that go to the GPU: the size of the fill that was   *)
(* read last, one global for all; only 1 byte of what is too large for it.  *)
CopySize == IF TCPtotaldatasize > GpuIbufSize THEN 1 ELSE TCPtotaldatasize

(* Mutant: the payload is copied from tcp_thread's current buffer.          *)
GpuCopyWrongBuffer ==
  /\ pcGpu = "copy" /\ pcGpu' = "avail"
  /\ gpu_data_header' = tcp_buf_header_gl[TCPbufferindex]
  /\ gpu_data_raw' = IF GpuCopiesRaw THEN tcp_buf_gl[bufIndex] ELSE gpu_data_raw
  /\ gpu_data_raw_size' = CopySize
  /\ gpu_data_his_size' = TCPtotaldatasize
  /\ gpu_idata' = [b \in Input |-> IF b <= CopySize THEN tcp_buf_gl[bufIndex] ELSE gpu_idata[b]]
  /\ UNCHANGED <<TCPbufferindex, GPUfillnumber, gpuReg, gpu_odata, gpu_data_proc,
                 gpu_data_his, ringVars, tcpVars, wireVars, gpuMutex, data_avail, mfeVars>>

(* Sizes, header, trailer, the raw payload of a prescaled fill, and the     *)
(* payload to the GPU.  Beyond the bytes copied, earlier samples remain.    *)
GpuCopy ==
  /\ pcGpu = "copy" /\ pcGpu' = "avail"
  /\ gpu_data_header' = tcp_buf_header_gl[TCPbufferindex]
  /\ gpu_data_raw' = IF GpuCopiesRaw THEN tcp_buf_gl[TCPbufferindex] ELSE gpu_data_raw
  /\ gpu_data_raw_size' = CopySize
  /\ gpu_data_his_size' = TCPtotaldatasize
  /\ gpu_idata' = [b \in Input |-> IF b <= CopySize THEN tcp_buf_gl[TCPbufferindex]
                                                  ELSE gpu_idata[b]]
  /\ UNCHANGED <<TCPbufferindex, GPUfillnumber, gpuReg, gpu_odata, gpu_data_proc,
                 gpu_data_his, ringVars, tcpVars, wireVars, gpuMutex, data_avail, mfeVars>>

GpuUnlockAvail ==
  /\ pcGpu = "avail" /\ pcGpu' = "process"
  /\ mutex_TCP_buf_avail' = [mutex_TCP_buf_avail EXCEPT ![TCPbufferindex] = FALSE]
  /\ UNCHANGED <<TCPbufferindex, GPUfillnumber, gpuReg, mutex_TCP_buf_ready,
                 tcp_buf_header_gl, tcp_buf_gl, tcpVars, wireVars, outVars,
                 gpuMutex, data_avail, mfeVars>>

(* cuda_g2_run_kernel processes what lies in the GPU's input, whoseever it  *)
(* is, and adds it to the histogram; on a flush fill as much of the         *)
(* histogram as gpu_data_his_size says is copied out and zeroed.            *)
GpuFlushes == (gpu_data_header.nr % ShortMod) % FlushHist = 0
Added == [b \in Input |-> gpu_odata[b] \cup {[by |-> gpu_data_header, of |-> gpu_idata[b]]}]
Flushed(b) == GpuFlushes /\ b <= gpu_data_his_size

(* Mutant: the histogram is not zeroed after a flush.                       *)
GpuProcessNoZero ==
  /\ pcGpu = "process" /\ pcGpu' = "publish"
  /\ gpu_data_proc' = gpu_idata
  /\ gpu_data_his' = [b \in Input |-> IF Flushed(b) THEN Added[b] ELSE gpu_data_his[b]]
  /\ gpu_odata' = Added
  /\ UNCHANGED <<TCPbufferindex, GPUfillnumber, gpuReg, gpu_data_header, gpu_data_raw,
                 gpu_data_raw_size, gpu_data_his_size, gpu_idata, ringVars, tcpVars, wireVars,
                 gpuMutex, data_avail, mfeVars>>

(* Mutant: a flush zeroes the whole histogram, not what it has copied.      *)
GpuProcessZeroesAll ==
  /\ pcGpu = "process" /\ pcGpu' = "publish"
  /\ gpu_data_proc' = gpu_idata
  /\ gpu_data_his' = [b \in Input |-> IF Flushed(b) THEN Added[b] ELSE gpu_data_his[b]]
  /\ gpu_odata' = IF GpuFlushes THEN EmptyHistogram ELSE Added
  /\ UNCHANGED <<TCPbufferindex, GPUfillnumber, gpuReg, gpu_data_header, gpu_data_raw,
                 gpu_data_raw_size, gpu_data_his_size, gpu_idata, ringVars, tcpVars, wireVars,
                 gpuMutex, data_avail, mfeVars>>

GpuProcess ==
  /\ pcGpu = "process" /\ pcGpu' = "publish"
  /\ gpu_data_proc' = gpu_idata
  /\ gpu_data_his' = [b \in Input |-> IF Flushed(b) THEN Added[b] ELSE gpu_data_his[b]]
  /\ gpu_odata' = [b \in Input |-> IF Flushed(b) THEN {} ELSE Added[b]]
  /\ UNCHANGED <<TCPbufferindex, GPUfillnumber, gpuReg, gpu_data_header, gpu_data_raw,
                 gpu_data_raw_size, gpu_data_his_size, gpu_idata, ringVars, tcpVars, wireVars,
                 gpuMutex, data_avail, mfeVars>>

(* mutex_midas is held by the main thread outside its two windows.          *)
MidasUnlocked == pcMfe \in {"pollWindow", "loopWindow"}

GpuPublish ==
  /\ pcGpu = "publish" /\ pcGpu' = "load"
  /\ MidasUnlocked
  /\ data_avail' = TRUE
  /\ UNCHANGED <<TCPbufferindex, GPUfillnumber, gpuReg, ringVars, tcpVars, wireVars,
                 outVars, gpuMutex, mfeVars>>

GpuLoadFillnumber ==
  /\ pcGpu = "load" /\ pcGpu' = "incr"
  /\ gpuReg' = GPUfillnumber
  /\ UNCHANGED <<TCPbufferindex, GPUfillnumber, ringVars, tcpVars, wireVars, outVars,
                 gpuMutex, data_avail, mfeVars>>

(* Mutant: gpu_thread_1 does not count the fill.                            *)
GpuStoreFillnumberNoIncrement ==
  /\ pcGpu = "incr" /\ pcGpu' = "index"
  /\ GPUfillnumber' = gpuReg
  /\ gpuReg' = 0
  /\ UNCHANGED <<TCPbufferindex, ringVars, tcpVars, wireVars, outVars, gpuMutex,
                 data_avail, mfeVars>>

GpuStoreFillnumber ==
  /\ pcGpu = "incr" /\ pcGpu' = "index"
  /\ GPUfillnumber' = gpuReg + 1
  /\ gpuReg' = 0
  /\ UNCHANGED <<TCPbufferindex, ringVars, tcpVars, wireVars, outVars, gpuMutex,
                 data_avail, mfeVars>>

GpuThread ==
  \/ GpuSetIndex \/ GpuLockReady \/ GpuLockOutput \/ GpuCopy \/ GpuUnlockAvail
  \/ GpuProcess \/ GpuPublish \/ GpuLoadFillnumber \/ GpuStoreFillnumber

-----------------------------------------------------------------------------
(* The MIDAS main thread.  The framework (external) polls while the run is  *)
(* on, calls frontend_loop once per cycle and serves transitions in         *)
(* cm_yield, which is the step "yield".                                     *)
MfeCycle ==
  /\ pcMfe = "yield"
  /\ pcMfe' = IF run_state = "running" THEN "pollWindow" ELSE "loopWindow"
  /\ UNCHANGED <<run_state, runs, pevent, delivered, data_avail, gpuMutex,
                 ringVars, tcpVars, wireVars, gpuVars, outVars>>

(* Mutant: the flag is left set when the event is taken.                    *)
PollEventKeepsFlag ==
  /\ pcMfe = "pollWindow"
  /\ pcMfe' = IF data_avail THEN "banks" ELSE "loopWindow"
  /\ UNCHANGED <<run_state, runs, pevent, delivered, data_avail, gpuMutex,
                 ringVars, tcpVars, wireVars, gpuVars, outVars>>

(* poll_event after the window in which it has released mutex_midas.        *)
PollEvent ==
  /\ pcMfe = "pollWindow"
  /\ pcMfe' = IF data_avail THEN "banks" ELSE "loopWindow"
  /\ data_avail' = FALSE
  /\ UNCHANGED <<run_state, runs, pevent, delivered, gpuMutex,
                 ringVars, tcpVars, wireVars, gpuVars, outVars>>

FrontendLoop ==
  /\ pcMfe = "loopWindow" /\ pcMfe' = "yield"
  /\ UNCHANGED <<run_state, runs, pevent, delivered, data_avail, gpuMutex,
                 ringVars, tcpVars, wireVars, gpuVars, outVars>>

MfeMakesRaw == (gpu_data_header.nr + PrescaleOffsetRaw) % PrescaleRaw = 0
MfeMakesHist == (gpu_data_header.nr + FlushOffsetHist) % FlushHist = 0

(* The histogram bank has gpu_data_his_size bytes.                          *)
HistogramBank ==
  [b \in Input |-> IF MfeMakesHist /\ b <= gpu_data_his_size THEN gpu_data_his[b] ELSE {}]

(* read_trigger_event: trailer, raw, processed and histogram banks ...      *)
ReadBanks ==
  /\ pcMfe = "banks" /\ pcMfe' = "header"
  /\ pevent' = [NoEvent EXCEPT
                  !.tail = gpu_data_header,
                  !.raw = IF MfeMakesRaw THEN gpu_data_raw ELSE NoFill,
                  !.size = gpu_data_raw_size,
                  !.proc = gpu_data_proc,
                  !.hist = HistogramBank]
  /\ UNCHANGED <<run_state, runs, delivered, data_avail, gpuMutex,
                 ringVars, tcpVars, wireVars, gpuVars, outVars>>

(* Mutant: the output buffer is not released.                               *)
ReadHeaderNoUnlock ==
  /\ pcMfe = "header" /\ pcMfe' = "loopWindow"
  /\ delivered' = Append(delivered, [pevent EXCEPT !.head = gpu_data_header, !.inRun = runs])
  /\ pevent' = NoEvent
  /\ UNCHANGED <<run_state, runs, data_avail, gpuMutex, ringVars, tcpVars, wireVars,
                 gpuVars, outVars>>

(* ... then the header bank, the unlock, and the event is sent.             *)
ReadHeader ==
  /\ pcMfe = "header" /\ pcMfe' = "loopWindow"
  /\ delivered' = Append(delivered, [pevent EXCEPT !.head = gpu_data_header, !.inRun = runs])
  /\ pevent' = NoEvent
  /\ gpuMutex' = FALSE
  /\ UNCHANGED <<run_state, runs, data_avail, ringVars, tcpVars, wireVars, gpuVars, outVars>>

(* begin_of_run: data_avail is cleared, AMC13_bor resets the AMC13's event  *)
(* counter; a failing begin_of_run_wfd returns before the counters.         *)
BeginOfRun ==
  /\ pcMfe = "yield" /\ run_state = "stopped" /\ runs < MaxRuns
  /\ DrainedStop => Drained
  /\ data_avail' = FALSE
  /\ amc13Nr' = 0
  /\ runs' = runs + 1
  /\ pcMfe' \in {"borTcp", "yield"}
  /\ UNCHANGED <<run_state, pevent, delivered, wire, sent, gpuMutex, ringVars, tcpVars,
                 gpuVars, outVars>>

(* Mutant: only gpu_bor resets its counter.                                 *)
TcpClientBorNoReset ==
  /\ pcMfe = "borTcp" /\ pcMfe' = "borGpu"
  /\ UNCHANGED <<tcpVars, run_state, runs, pevent, delivered, data_avail, gpuMutex,
                 ringVars, wireVars, gpuVars, outVars>>

TcpClientBor ==
  /\ pcMfe = "borTcp" /\ pcMfe' = "borGpu"
  /\ TCPfillnumber' = 0
  /\ UNCHANGED <<pcTcp, bufIndex, header, tcpReg, TCPtotaldatasize, run_state, runs,
                 pevent, delivered, data_avail, gpuMutex, ringVars, wireVars, gpuVars, outVars>>

(* gpu_bor, then frontend_rpc_bor, whose failure makes the start fail.      *)
GpuBor ==
  /\ pcMfe = "borGpu" /\ pcMfe' = "yield"
  /\ GPUfillnumber' = 0
  /\ run_state' \in {"running", "stopped"}
  /\ UNCHANGED <<pcGpu, TCPbufferindex, gpuReg, runs, pevent, delivered, data_avail,
                 gpuMutex, ringVars, tcpVars, wireVars, outVars>>

(* end_of_run: tcp_client_eor and gpu_eor change nothing.                   *)
EndOfRun ==
  /\ pcMfe = "yield" /\ run_state = "running"
  /\ DrainedStop => Drained
  /\ run_state' = "stopped"
  /\ UNCHANGED <<pcMfe, runs, pevent, delivered, data_avail, gpuMutex, ringVars,
                 tcpVars, wireVars, gpuVars, outVars>>

MfeStep ==
  \/ MfeCycle \/ PollEvent \/ FrontendLoop \/ ReadBanks \/ ReadHeader
  \/ TcpClientBor \/ GpuBor

Next == AMC13Event \/ TcpThread \/ GpuThread \/ MfeStep \/ BeginOfRun \/ EndOfRun

Spec == Init /\ [][Next]_vars

(* Every thread keeps running; a thread that waits for mutex_midas, which   *)
(* is released again and again, gets it in the end.  Triggers and run       *)
(* transitions need never happen.                                           *)
Fairness ==
  /\ WF_vars(TcpThread) /\ WF_vars(GpuThread) /\ WF_vars(MfeStep)
  /\ SF_vars(GpuPublish)

FairSpec == Spec /\ Fairness

(* The same threads after a start-up that tcp_thread was too quick for.     *)
EarlyThreadSpec == EarlyThreadInit /\ [][Next]_vars

-----------------------------------------------------------------------------
(* Type invariant of the readout frontend.                                  *)
TypeOK ==
  /\ wire \in Seq(Fill) /\ amc13Nr \in 0 .. MaxFills /\ sent \in SUBSET Fill
  /\ mutex_TCP_buf_avail \in [Ring -> BOOLEAN]
  /\ mutex_TCP_buf_ready \in [Ring -> BOOLEAN]
  /\ tcp_buf_header_gl \in [Ring -> Fill] /\ tcp_buf_gl \in [Ring -> Fill]
  /\ pcTcp \in {"index", "avail", "read", "store", "unlock", "load", "incr"}
  /\ bufIndex \in Ring /\ header \in Fill
  /\ TCPfillnumber \in Nat /\ tcpReg \in Nat
  /\ TCPtotaldatasize \in Sizes \cup {0}
  /\ pcGpu \in {"index", "ready", "out", "copy", "avail", "process", "publish", "load", "incr"}
  /\ TCPbufferindex \in Ring /\ GPUfillnumber \in Nat /\ gpuReg \in Nat
  /\ gpuMutex \in BOOLEAN
  /\ gpu_data_header \in Fill /\ gpu_data_raw \in Fill /\ gpu_data_raw_size \in Nat
  /\ gpu_idata \in [Input -> Fill] /\ gpu_odata \in [Input -> SUBSET Pass]
  /\ gpu_data_proc \in [Input -> Fill] /\ gpu_data_his \in [Input -> SUBSET Pass]
  /\ gpu_data_his_size \in Nat
  /\ data_avail \in BOOLEAN
  /\ pcMfe \in {"yield", "pollWindow", "loopWindow", "banks", "header", "borTcp", "borGpu"}
  /\ run_state \in {"running", "stopped"} /\ runs \in 0 .. MaxRuns
  /\ pevent \in Event /\ delivered \in Seq(Event)

(* Between its two mutexes a thread owns a ring buffer.                     *)
TcpOwns(i) == pcTcp \in {"read", "store", "unlock"} /\ bufIndex = i
GpuOwns(i) == pcGpu \in {"out", "copy", "avail"} /\ TCPbufferindex = i

(* tcp_thread never fills a ring buffer that gpu_thread_1 is reading, and   *)
(* nobody may lock a buffer that is owned or full, however transitions      *)
(* reset the fill counters under the threads.                               *)
RingExclusion ==
  \A i \in Ring :
    /\ ~ (TcpOwns(i) /\ GpuOwns(i))
    /\ TcpOwns(i) \/ GpuOwns(i) => mutex_TCP_buf_avail[i] /\ mutex_TCP_buf_ready[i]
    /\ ~ mutex_TCP_buf_ready[i] => mutex_TCP_buf_avail[i]

(* "prevents the overwriting of data not transferred to mfe_thread": the    *)
(* output buffer is written, waits to be polled, or is read by the main     *)
(* thread, one at a time, and is locked in all three.                       *)
OutputWritten == pcGpu \in {"copy", "avail", "process", "publish"}
OutputRead == pcMfe \in {"banks", "header"}

OutputExclusion ==
  /\ OutputWritten \/ data_avail \/ OutputRead => gpuMutex
  /\ ~ (OutputWritten /\ data_avail)
  /\ ~ (OutputWritten /\ OutputRead)
  /\ ~ (data_avail /\ OutputRead)

(* Of n bytes that were copied of fill f to the GPU, and in which f has its  *)
(* payload, each comes from f: g says whose sample is at each place.        *)
CopiedFrom(g, f, n) == \A b \in Input : b <= n /\ b <= f.size => g[b] = f

(* The header and trailer banks of a delivered event are of one fill, and   *)
(* its processed bank is made of that fill's samples as far as the payload   *)
(* was copied to the GPU: whatever transitions do to the threads, they never *)
(* mix two fills.  Beyond the copy the samples can be an earlier fill's.    *)
DeliveredWhole ==
  \A k \in 1 .. Len(delivered) :
    LET e == delivered[k]
    IN e.tail = e.head /\ CopiedFrom(e.proc, e.head, e.size)

(* Why it holds: at each stage of the pipeline the copies of a fill agree,   *)
(* header and payload in the ring, GPU input and output header, output      *)
(* header and banks, from the moment they are complete until they move on.  *)
StagesAgree ==
  /\ pcTcp = "store" => header = tcp_buf_gl[bufIndex]
  /\ pcTcp = "unlock" => tcp_buf_header_gl[bufIndex] = tcp_buf_gl[bufIndex]
  /\ \A i \in Ring : ~ mutex_TCP_buf_ready[i] \/ GpuOwns(i)
                       => tcp_buf_header_gl[i] = tcp_buf_gl[i]
  /\ pcGpu \in {"avail", "process"} => CopiedFrom(gpu_idata, gpu_data_header, gpu_data_raw_size)
  /\ pcGpu = "publish" \/ data_avail \/ OutputRead
       => CopiedFrom(gpu_data_proc, gpu_data_header, gpu_data_raw_size)
  /\ pcMfe = "header" => /\ pevent.tail = gpu_data_header
                         /\ CopiedFrom(pevent.proc, gpu_data_header, pevent.size)

(* The settings describe the payload: every fill has all the samples that   *)
(* the kernels read, and no more than the GPU's input buffer has room for.  *)
PayloadsFit == \A s \in Sizes : WaveformSize <= s /\ s <= GpuIbufSize

(* No fill is delivered twice, and none is overwritten before it has been   *)
(* delivered: what the AMC13 sent is in the pipeline or delivered.          *)
DeliveredFills == {delivered[k].head : k \in 1 .. Len(delivered)}

NothingOverwritten ==
  /\ Cardinality(DeliveredFills) = Len(delivered)
  /\ DeliveredFills \cap InFlight = {}
  /\ DeliveredFills \cup InFlight = sent

(* The fills delivered since the last histogram bank with bin b, up to the  *)
(* k-th event: a run's fills after its last flush are in the next run's.    *)
SinceHistogram(k, b) ==
  {delivered[i].head : i \in {j \in 1 .. k : \A m \in j .. k - 1 : delivered[m].hist[b] = {}}}

(* Each bin of a histogram bank adds up exactly the fills since the last    *)
(* bank, each once and none from before, whatever the lengths of the banks; *)
(* and the samples added are the fill's own if all payloads fit the GPU.    *)
HistogramOfFills ==
  \A k \in 1 .. Len(delivered), b \in Input :
    LET bin == delivered[k].hist[b]
    IN bin # {} => /\ {p.by : p \in bin} = SinceHistogram(k, b)
                   /\ PayloadsFit => \A p \in bin : p.of = p.by

(* The fills of a run are delivered in that run, in the order the AMC13     *)
(* numbered them, without a gap.                                            *)
DeliveredInOrder ==
  \A k \in 1 .. Len(delivered) :
    LET e == delivered[k]
    IN /\ e.inRun = e.head.run
       /\ e.head.nr = 1 \/ (k > 1 /\ delivered[k - 1].head.nr = e.head.nr - 1
                                  /\ delivered[k - 1].inRun = e.inRun)

(* The raw bank of an event holds raw data of that event's fill.            *)
RawOfFill ==
  \A k \in 1 .. Len(delivered) :
    (delivered[k].head.nr + PrescaleOffsetRaw) % PrescaleRaw = 0
       => delivered[k].raw = delivered[k].head

(* data_avail is "true if data available from gpu_thread": while a fill the *)
(* GPU thread has published is in the output buffer and nobody has picked   *)
(* it up, data_avail says so.  Otherwise nobody will ever release gpuMutex. *)
DataAvailable ==
  gpuMutex /\ ~ OutputWritten /\ ~ OutputRead => data_avail

(* Only begin_of_run can make a published fill be forgotten: no hand-over   *)
(* between the threads, and no end of run, leaves the output buffer locked  *)
(* with nobody told.                                                        *)
ForgottenByStartOnly == [][DataAvailable /\ ~ DataAvailable' => BeginOfRun]_vars

(* Every fill that is sent during a run is delivered in the end.            *)
EventuallyDelivered ==
  \A r \in 1 .. MaxRuns, n \in 1 .. MaxFills :
    (run_state = "running" /\ runs = r /\ amc13Nr >= n)
      ~> (\E f \in DeliveredFills : f.run = r /\ f.nr = n)
=============================================================================
