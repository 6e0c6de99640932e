------------------------- MODULE CaloReadoutProofs -------------------------
(***************************************************************************)
(* Theorems about CaloReadout for every ring size, bound, payload size,    *)
(* prescale and timing: type correctness, the exclusion of the threads     *)
(* from the ring buffers and from the output buffer, and the integrity of  *)
(* the delivered events.                                                   *)
(***************************************************************************)
EXTENDS CaloReadout, TLAPS

(* A ring index computed from a fill counter is in the ring.                *)
LEMMA ModInRing == ASSUME NEW n \in Nat PROVE n % RingSize \in Ring
  BY ReadoutAssumption, SMT DEF Ring

LEMMA NoFillIsFill == NoFill \in Fill
  BY ReadoutAssumption DEF Fill, NoFill

LEMMA NoEventIsEvent == NoEvent \in Event
  BY ReadoutAssumption, NoFillIsFill DEF Event, NoEvent, EmptyHistogram

-----------------------------------------------------------------------------
(* Type correctness: Spec => []TypeOK.                                      *)
LEMMA InitTypeOK == Init => TypeOK
  <1> SUFFICES ASSUME Init PROVE TypeOK
    OBVIOUS
  <1>1. 0 \in Ring
    BY ReadoutAssumption DEF Ring
  <1>2. wire \in Seq(Fill) /\ delivered \in Seq(Event)
    BY SMTT(30) DEF Init, InitWith
  <1>3. /\ gpu_idata \in [Input -> Fill] /\ gpu_data_proc \in [Input -> Fill]
        /\ gpu_odata \in [Input -> SUBSET Pass] /\ gpu_data_his \in [Input -> SUBSET Pass]
    BY NoFillIsFill DEF Init, InitWith, EmptyHistogram
  <1> QED
    BY <1>1, <1>2, <1>3, NoFillIsFill, NoEventIsEvent, ReadoutAssumption DEF Init, InitWith, TypeOK

LEMMA NextTypeOK == TypeOK /\ [Next]_vars => TypeOK'
  <1> SUFFICES ASSUME TypeOK, [Next]_vars PROVE TypeOK'
    OBVIOUS
  <1> USE DEF TypeOK
  <1>1. CASE AMC13Event
    <2>s. SizesOf[amc13Nr + 1] \subseteq Sizes
      BY <1>1, ReadoutAssumption DEF AMC13Event
    <2>1. PICK s \in Sizes :
            LET f == [run |-> runs, nr |-> amc13Nr + 1, size |-> s]
            IN wire' = Append(wire, f) /\ sent' = sent \cup {f}
      BY <1>1, <2>s DEF AMC13Event
    <2>2. [run |-> runs, nr |-> amc13Nr + 1, size |-> s] \in Fill
      BY <1>1, ReadoutAssumption DEF AMC13Event, Fill
    <2>3. wire' \in Seq(Fill) /\ sent' \in SUBSET Fill /\ amc13Nr' \in 0 .. MaxFills
      BY <1>1, <2>1, <2>2, ReadoutAssumption DEF AMC13Event
    <2> QED
      BY <1>1, <2>3 DEF AMC13Event, ringVars, tcpVars, gpuVars, outVars, mfeVars
  <1>2. CASE TcpSetIndex
    BY <1>2, ModInRing DEF TcpSetIndex, ringVars, wireVars, gpuVars, outVars, mfeVars
  <1>3. CASE TcpLockAvail
    BY <1>3 DEF TcpLockAvail, wireVars, gpuVars, outVars, mfeVars
  <1>4. CASE TcpReadAndUnpack
    <2>1. Head(wire) \in Fill /\ Tail(wire) \in Seq(Fill)
      BY <1>4 DEF TcpReadAndUnpack
    <2> QED
      BY <1>4, <2>1 DEF TcpReadAndUnpack, gpuVars, outVars, mfeVars
  <1>5. CASE TcpStore
    <2>1. header.size \in Sizes \cup {0}
      BY DEF Fill
    <2> QED
      BY <1>5, <2>1 DEF TcpStore, wireVars, gpuVars, outVars, mfeVars
  <1>6. CASE TcpUnlockReady
    BY <1>6 DEF TcpUnlockReady, wireVars, gpuVars, outVars, mfeVars
  <1>7. CASE TcpLoadFillnumber
    BY <1>7 DEF TcpLoadFillnumber, ringVars, wireVars, gpuVars, outVars, mfeVars
  <1>8. CASE TcpStoreFillnumber
    BY <1>8 DEF TcpStoreFillnumber, ringVars, wireVars, gpuVars, outVars, mfeVars
  <1>9. CASE GpuSetIndex
    BY <1>9, ModInRing DEF GpuSetIndex, ringVars, wireVars, tcpVars, outVars, mfeVars
  <1>10. CASE GpuLockReady
    BY <1>10 DEF GpuLockReady, wireVars, tcpVars, outVars, mfeVars
  <1>11. CASE GpuLockOutput
    BY <1>11 DEF GpuLockOutput, ringVars, wireVars, tcpVars, outVars, mfeVars
  <1>12. CASE GpuCopy
    <2>1. gpu_data_raw_size' \in Nat /\ gpu_data_his_size' \in Nat
      BY <1>12, ReadoutAssumption DEF GpuCopy, CopySize
    <2>2. gpu_idata' \in [Input -> Fill]
      BY <1>12, Zenon DEF GpuCopy
    <2>3. gpu_data_header' \in Fill /\ gpu_data_raw' \in Fill /\ pcGpu' = "avail"
      BY <1>12 DEF GpuCopy
    <2>4. UNCHANGED <<TCPbufferindex, GPUfillnumber, gpuReg, gpu_odata, gpu_data_proc, gpu_data_his,
                      ringVars, tcpVars, wireVars, gpuMutex, data_avail, mfeVars>>
      BY <1>12, Zenon DEF GpuCopy
    <2> QED
      BY <2>1, <2>2, <2>3, <2>4 DEF ringVars, wireVars, tcpVars, mfeVars
  <1>13. CASE GpuUnlockAvail
    BY <1>13 DEF GpuUnlockAvail, wireVars, tcpVars, outVars, mfeVars
  <1>14. CASE GpuProcess
    <2>1. Added \in [Input -> SUBSET Pass]
      BY DEF Added, Pass
    <2>2. gpu_odata' \in [Input -> SUBSET Pass] /\ gpu_data_his' \in [Input -> SUBSET Pass]
      BY <1>14, <2>1, Zenon DEF GpuProcess
    <2>3. gpu_data_proc' \in [Input -> Fill] /\ pcGpu' = "publish"
      BY <1>14 DEF GpuProcess
    <2>4. UNCHANGED <<TCPbufferindex, GPUfillnumber, gpuReg, gpu_data_header, gpu_data_raw,
                      gpu_data_raw_size, gpu_data_his_size, gpu_idata, ringVars, tcpVars, wireVars,
                      gpuMutex, data_avail, mfeVars>>
      BY <1>14, Zenon DEF GpuProcess
    <2> QED
      BY <2>2, <2>3, <2>4 DEF ringVars, wireVars, tcpVars, mfeVars
  <1>15. CASE GpuPublish
    BY <1>15 DEF GpuPublish, ringVars, wireVars, tcpVars, outVars, mfeVars
  <1>16. CASE GpuLoadFillnumber
    BY <1>16 DEF GpuLoadFillnumber, ringVars, wireVars, tcpVars, outVars, mfeVars
  <1>17. CASE GpuStoreFillnumber
    BY <1>17 DEF GpuStoreFillnumber, ringVars, wireVars, tcpVars, outVars, mfeVars
  <1>18. CASE MfeCycle
    BY <1>18 DEF MfeCycle, ringVars, wireVars, tcpVars, gpuVars, outVars
  <1>19. CASE PollEvent
    <2>1. pcMfe' \in {"banks", "loopWindow"} /\ data_avail' \in BOOLEAN
      BY <1>19, Zenon DEF PollEvent
    <2>2. UNCHANGED <<run_state, runs, pevent, delivered, gpuMutex, ringVars, tcpVars, wireVars,
                      gpuVars, outVars>>
      BY <1>19, Zenon DEF PollEvent
    <2> QED
      BY <2>1, <2>2 DEF ringVars, wireVars, tcpVars, gpuVars, outVars
  <1>20. CASE FrontendLoop
    BY <1>20 DEF FrontendLoop, ringVars, wireVars, tcpVars, gpuVars, outVars
  <1>21. CASE ReadBanks
    <2> DEFINE raw == IF MfeMakesRaw THEN gpu_data_raw ELSE NoFill
               hist == HistogramBank
    <2>1. raw \in Fill
      BY NoFillIsFill
    <2>h. hist \in [Input -> SUBSET Pass]
      BY Zenon DEF HistogramBank
    <2> HIDE DEF raw, hist
    <2>2. pevent' = [NoEvent EXCEPT !.tail = gpu_data_header, !.raw = raw, !.size = gpu_data_raw_size,
                                    !.proc = gpu_data_proc, !.hist = hist]
      BY <1>21, Zenon DEF ReadBanks, raw, hist
    <2>3. pevent' \in Event
      BY <2>1, <2>h, <2>2, NoEventIsEvent DEF Event
    <2> QED
      BY <1>21, <2>3 DEF ReadBanks, ringVars, wireVars, tcpVars, gpuVars, outVars
  <1>22. CASE ReadHeader
    <2>1. [pevent EXCEPT !.head = gpu_data_header, !.inRun = runs] \in Event
      BY DEF Event
    <2>2. delivered' \in Seq(Event)
      BY <1>22, <2>1 DEF ReadHeader
    <2>3. /\ pcMfe' = "loopWindow" /\ pevent' = NoEvent /\ gpuMutex' \in BOOLEAN
          /\ UNCHANGED <<run_state, runs, data_avail, ringVars, tcpVars, wireVars, gpuVars, outVars>>
      BY <1>22, Zenon DEF ReadHeader
    <2> QED
      BY <2>2, <2>3, NoEventIsEvent DEF ringVars, wireVars, tcpVars, gpuVars, outVars
  <1>23. CASE BeginOfRun
    <2>1. runs' \in 0 .. MaxRuns /\ amc13Nr' \in 0 .. MaxFills
      BY <1>23, ReadoutAssumption DEF BeginOfRun
    <2>2. /\ pcMfe' \in {"borTcp", "yield"} /\ data_avail' \in BOOLEAN
          /\ UNCHANGED <<run_state, pevent, delivered, wire, sent, gpuMutex, ringVars, tcpVars, gpuVars,
                         outVars>>
      BY <1>23, Zenon DEF BeginOfRun
    <2> QED
      BY <2>1, <2>2 DEF ringVars, tcpVars, gpuVars, outVars
  <1>24. CASE TcpClientBor
    BY <1>24 DEF TcpClientBor, ringVars, wireVars, gpuVars, outVars
  <1>25. CASE GpuBor
    BY <1>25 DEF GpuBor, ringVars, wireVars, tcpVars, outVars
  <1>26. CASE EndOfRun
    BY <1>26 DEF EndOfRun, ringVars, wireVars, tcpVars, gpuVars, outVars
  <1>27. CASE UNCHANGED vars
    BY <1>27 DEF vars, ringVars, wireVars, tcpVars, gpuVars, outVars, mfeVars
  <1> QED
    BY <1>1, <1>2, <1>3, <1>4, <1>5, <1>6, <1>7, <1>8, <1>9, <1>10, <1>11, <1>12,
       <1>13, <1>14, <1>15, <1>16, <1>17, <1>18, <1>19, <1>20, <1>21, <1>22, <1>23,
       <1>24, <1>25, <1>26, <1>27
    DEF Next, TcpThread, GpuThread, MfeStep

(* Every variable keeps its type in every execution, whatever the timing.   *)
THEOREM TypeCorrect == Spec => []TypeOK
  <1>1. QED
    BY InitTypeOK, NextTypeOK, PTL DEF Spec

-----------------------------------------------------------------------------
(* The locks of the ring: RingExclusion is inductive given the types.  Each  *)
(* unlock is done by the owner of the buffer, whose index is a local of the *)
(* thread, so that resetting the fill counters cannot break it.             *)
LEMMA NextRingExclusion == TypeOK /\ RingExclusion /\ [Next]_vars => RingExclusion'
  <1> SUFFICES ASSUME TypeOK, RingExclusion, [Next]_vars PROVE RingExclusion'
    OBVIOUS
  <1> USE DEF TypeOK, RingExclusion, TcpOwns, GpuOwns
  <1>1. CASE AMC13Event
    BY <1>1 DEF AMC13Event, ringVars, tcpVars, gpuVars, outVars, mfeVars
  <1>2. CASE TcpSetIndex
    BY <1>2 DEF TcpSetIndex, ringVars, wireVars, gpuVars, outVars, mfeVars
  <1>3. CASE TcpLockAvail
    BY <1>3 DEF TcpLockAvail, wireVars, gpuVars, outVars, mfeVars
  <1>4. CASE TcpReadAndUnpack
    BY <1>4 DEF TcpReadAndUnpack, gpuVars, outVars, mfeVars
  <1>5. CASE TcpStore
    BY <1>5 DEF TcpStore, wireVars, gpuVars, outVars, mfeVars
  <1>6. CASE TcpUnlockReady
    BY <1>6 DEF TcpUnlockReady, wireVars, gpuVars, outVars, mfeVars
  <1>7. CASE TcpLoadFillnumber
    BY <1>7 DEF TcpLoadFillnumber, ringVars, wireVars, gpuVars, outVars, mfeVars
  <1>8. CASE TcpStoreFillnumber
    BY <1>8 DEF TcpStoreFillnumber, ringVars, wireVars, gpuVars, outVars, mfeVars
  <1>9. CASE GpuSetIndex
    BY <1>9 DEF GpuSetIndex, ringVars, wireVars, tcpVars, outVars, mfeVars
  <1>10. CASE GpuLockReady
    BY <1>10 DEF GpuLockReady, wireVars, tcpVars, outVars, mfeVars
  <1>11. CASE GpuLockOutput
    BY <1>11 DEF GpuLockOutput, ringVars, wireVars, tcpVars, outVars, mfeVars
  <1>12. CASE GpuCopy
    BY <1>12 DEF GpuCopy, ringVars, wireVars, tcpVars, mfeVars
  <1>13. CASE GpuUnlockAvail
    BY <1>13 DEF GpuUnlockAvail, wireVars, tcpVars, outVars, mfeVars
  <1>14. CASE GpuProcess
    BY <1>14 DEF GpuProcess, ringVars, wireVars, tcpVars, mfeVars
  <1>15. CASE GpuPublish
    BY <1>15 DEF GpuPublish, ringVars, wireVars, tcpVars, outVars, mfeVars
  <1>16. CASE GpuLoadFillnumber
    BY <1>16 DEF GpuLoadFillnumber, ringVars, wireVars, tcpVars, outVars, mfeVars
  <1>17. CASE GpuStoreFillnumber
    BY <1>17 DEF GpuStoreFillnumber, ringVars, wireVars, tcpVars, outVars, mfeVars
  <1>18. CASE MfeCycle
    BY <1>18 DEF MfeCycle, ringVars, wireVars, tcpVars, gpuVars, outVars
  <1>19. CASE PollEvent
    BY <1>19 DEF PollEvent, ringVars, wireVars, tcpVars, gpuVars, outVars
  <1>20. CASE FrontendLoop
    BY <1>20 DEF FrontendLoop, ringVars, wireVars, tcpVars, gpuVars, outVars
  <1>21. CASE ReadBanks
    BY <1>21 DEF ReadBanks, ringVars, wireVars, tcpVars, gpuVars, outVars
  <1>22. CASE ReadHeader
    BY <1>22 DEF ReadHeader, ringVars, wireVars, tcpVars, gpuVars, outVars
  <1>23. CASE TcpClientBor
    BY <1>23 DEF TcpClientBor, ringVars, wireVars, gpuVars, outVars
  <1>24. CASE GpuBor
    BY <1>24 DEF GpuBor, ringVars, wireVars, tcpVars, outVars
  <1>25. CASE BeginOfRun
    BY <1>25 DEF BeginOfRun, ringVars, tcpVars, gpuVars, outVars
  <1>26. CASE EndOfRun
    BY <1>26 DEF EndOfRun, ringVars, wireVars, tcpVars, gpuVars, outVars
  <1>27. CASE UNCHANGED vars
    BY <1>27 DEF vars, ringVars, wireVars, tcpVars, gpuVars, outVars, mfeVars
  <1> QED
    BY <1>1, <1>2, <1>3, <1>4, <1>5, <1>6, <1>7, <1>8, <1>9, <1>10, <1>11,
       <1>12, <1>13, <1>14, <1>15, <1>16, <1>17, <1>18, <1>19, <1>20, <1>21,
       <1>22, <1>23, <1>24, <1>25, <1>26, <1>27
    DEF Next, TcpThread, GpuThread, MfeStep

(* tcp_thread and gpu_thread_1 are never in the same ring buffer.           *)
THEOREM RingIsExclusive == Spec => []RingExclusion
  <1>1. Init => RingExclusion
    BY DEF Init, InitWith, RingExclusion, TcpOwns, GpuOwns
  <1>2. QED
    BY <1>1, NextRingExclusion, TypeCorrect, PTL DEF Spec

-----------------------------------------------------------------------------
(* The lock of the output buffer passes from gpu_thread_1 through data_avail *)
(* to the main thread: OutputExclusion is inductive given the types.        *)
LEMMA NextOutputExclusion == TypeOK /\ OutputExclusion /\ [Next]_vars => OutputExclusion'
  <1> SUFFICES ASSUME TypeOK, OutputExclusion, [Next]_vars PROVE OutputExclusion'
    OBVIOUS
  <1> USE DEF TypeOK, OutputExclusion, OutputWritten, OutputRead
  <1>1. CASE AMC13Event
    BY <1>1 DEF AMC13Event, ringVars, tcpVars, gpuVars, outVars, mfeVars
  <1>2. CASE TcpSetIndex
    BY <1>2 DEF TcpSetIndex, ringVars, wireVars, gpuVars, outVars, mfeVars
  <1>3. CASE TcpLockAvail
    BY <1>3 DEF TcpLockAvail, wireVars, gpuVars, outVars, mfeVars
  <1>4. CASE TcpReadAndUnpack
    BY <1>4 DEF TcpReadAndUnpack, gpuVars, outVars, mfeVars
  <1>5. CASE TcpStore
    BY <1>5 DEF TcpStore, wireVars, gpuVars, outVars, mfeVars
  <1>6. CASE TcpUnlockReady
    BY <1>6 DEF TcpUnlockReady, wireVars, gpuVars, outVars, mfeVars
  <1>7. CASE TcpLoadFillnumber
    BY <1>7 DEF TcpLoadFillnumber, ringVars, wireVars, gpuVars, outVars, mfeVars
  <1>8. CASE TcpStoreFillnumber
    BY <1>8 DEF TcpStoreFillnumber, ringVars, wireVars, gpuVars, outVars, mfeVars
  <1>9. CASE GpuSetIndex
    BY <1>9 DEF GpuSetIndex, ringVars, wireVars, tcpVars, outVars, mfeVars
  <1>10. CASE GpuLockReady
    BY <1>10 DEF GpuLockReady, wireVars, tcpVars, outVars, mfeVars
  <1>11. CASE GpuLockOutput
    BY <1>11 DEF GpuLockOutput, ringVars, wireVars, tcpVars, outVars, mfeVars
  <1>12. CASE GpuCopy
    BY <1>12 DEF GpuCopy, ringVars, wireVars, tcpVars, mfeVars
  <1>13. CASE GpuUnlockAvail
    BY <1>13 DEF GpuUnlockAvail, wireVars, tcpVars, outVars, mfeVars
  <1>14. CASE GpuProcess
    BY <1>14 DEF GpuProcess, ringVars, wireVars, tcpVars, mfeVars
  <1>15. CASE GpuPublish
    BY <1>15 DEF GpuPublish, ringVars, wireVars, tcpVars, outVars, mfeVars
  <1>16. CASE GpuLoadFillnumber
    BY <1>16 DEF GpuLoadFillnumber, ringVars, wireVars, tcpVars, outVars, mfeVars
  <1>17. CASE GpuStoreFillnumber
    BY <1>17 DEF GpuStoreFillnumber, ringVars, wireVars, tcpVars, outVars, mfeVars
  <1>18. CASE MfeCycle
    BY <1>18 DEF MfeCycle, ringVars, wireVars, tcpVars, gpuVars, outVars
  <1>19. CASE PollEvent
    BY <1>19 DEF PollEvent, ringVars, wireVars, tcpVars, gpuVars, outVars
  <1>20. CASE FrontendLoop
    BY <1>20 DEF FrontendLoop, ringVars, wireVars, tcpVars, gpuVars, outVars
  <1>21. CASE ReadBanks
    BY <1>21 DEF ReadBanks, ringVars, wireVars, tcpVars, gpuVars, outVars
  <1>22. CASE ReadHeader
    BY <1>22 DEF ReadHeader, ringVars, wireVars, tcpVars, gpuVars, outVars
  <1>23. CASE TcpClientBor
    BY <1>23 DEF TcpClientBor, ringVars, wireVars, gpuVars, outVars
  <1>24. CASE GpuBor
    BY <1>24 DEF GpuBor, ringVars, wireVars, tcpVars, outVars
  <1>25. CASE BeginOfRun
    BY <1>25 DEF BeginOfRun, ringVars, tcpVars, gpuVars, outVars
  <1>26. CASE EndOfRun
    BY <1>26 DEF EndOfRun, ringVars, wireVars, tcpVars, gpuVars, outVars
  <1>27. CASE UNCHANGED vars
    BY <1>27 DEF vars, ringVars, wireVars, tcpVars, gpuVars, outVars, mfeVars
  <1> QED
    BY <1>1, <1>2, <1>3, <1>4, <1>5, <1>6, <1>7, <1>8, <1>9, <1>10, <1>11,
       <1>12, <1>13, <1>14, <1>15, <1>16, <1>17, <1>18, <1>19, <1>20, <1>21,
       <1>22, <1>23, <1>24, <1>25, <1>26, <1>27
    DEF Next, TcpThread, GpuThread, MfeStep

(* The output buffer is never written while it is read or waits to be read: *)
(* gpu_thread.cpp, "prevents the overwriting of data not transferred".      *)
THEOREM OutputIsExclusive == Spec => []OutputExclusion
  <1>1. Init => OutputExclusion
    BY DEF Init, InitWith, OutputExclusion, OutputWritten, OutputRead
  <1>2. QED
    BY <1>1, NextOutputExclusion, TypeCorrect, PTL DEF Spec

-----------------------------------------------------------------------------
(* The copies of a fill agree at every stage: a stage's buffer changes only  *)
(* in the hands of its owner, which is what the two exclusions say.         *)
LEMMA NextStagesAgree == TypeOK /\ RingExclusion /\ OutputExclusion /\ StagesAgree /\ [Next]_vars => StagesAgree'
  <1> SUFFICES ASSUME TypeOK, RingExclusion, OutputExclusion, StagesAgree, [Next]_vars PROVE StagesAgree'
    OBVIOUS
  <1> USE DEF TypeOK, RingExclusion, OutputExclusion, StagesAgree, TcpOwns, GpuOwns, OutputWritten, OutputRead
  <1>1. CASE AMC13Event
    BY <1>1 DEF AMC13Event, ringVars, tcpVars, gpuVars, outVars, mfeVars
  <1>2. CASE TcpSetIndex
    BY <1>2 DEF TcpSetIndex, ringVars, wireVars, gpuVars, outVars, mfeVars
  <1>3. CASE TcpLockAvail
    BY <1>3 DEF TcpLockAvail, wireVars, gpuVars, outVars, mfeVars
  <1>4. CASE TcpReadAndUnpack
    BY <1>4 DEF TcpReadAndUnpack, gpuVars, outVars, mfeVars
  <1>5. CASE TcpStore
    BY <1>5 DEF TcpStore, wireVars, gpuVars, outVars, mfeVars
  <1>6. CASE TcpUnlockReady
    BY <1>6 DEF TcpUnlockReady, wireVars, gpuVars, outVars, mfeVars
  <1>7. CASE TcpLoadFillnumber
    BY <1>7 DEF TcpLoadFillnumber, ringVars, wireVars, gpuVars, outVars, mfeVars
  <1>8. CASE TcpStoreFillnumber
    BY <1>8 DEF TcpStoreFillnumber, ringVars, wireVars, gpuVars, outVars, mfeVars
  <1>9. CASE GpuSetIndex
    BY <1>9 DEF GpuSetIndex, ringVars, wireVars, tcpVars, outVars, mfeVars
  <1>10. CASE GpuLockReady
    BY <1>10 DEF GpuLockReady, wireVars, tcpVars, outVars, mfeVars
  <1>11. CASE GpuLockOutput
    BY <1>11 DEF GpuLockOutput, ringVars, wireVars, tcpVars, outVars, mfeVars
  <1>12. CASE GpuCopy
    <2>1. tcp_buf_gl[TCPbufferindex] = tcp_buf_header_gl[TCPbufferindex]
      BY <1>12 DEF GpuCopy
    <2>2. gpu_data_header' = tcp_buf_gl[TCPbufferindex] /\ gpu_data_raw_size' = CopySize
      BY <1>12, <2>1 DEF GpuCopy
    <2>3. \A b \in Input : b <= CopySize => gpu_idata'[b] = tcp_buf_gl[TCPbufferindex]
      BY <1>12, Zenon DEF GpuCopy
    <2>4. CopiedFrom(gpu_idata, gpu_data_header, gpu_data_raw_size)'
      BY <2>2, <2>3 DEF CopiedFrom
    <2>5. pcGpu' = "avail" /\ pcGpu = "copy"
          /\ UNCHANGED <<TCPbufferindex, ringVars, tcpVars, data_avail, pcMfe, pevent>>
      BY <1>12 DEF GpuCopy, mfeVars
    <2>6. \A i \in Ring : (~ mutex_TCP_buf_ready[i] \/ GpuOwns(i))' => ~ mutex_TCP_buf_ready[i] \/ GpuOwns(i)
      BY <2>5 DEF ringVars
    <2> QED
      BY <2>4, <2>5, <2>6 DEF ringVars, tcpVars
  <1>13. CASE GpuUnlockAvail
    BY <1>13 DEF GpuUnlockAvail, wireVars, tcpVars, outVars, mfeVars
  <1>14. CASE GpuProcess
    <2>1. gpu_data_proc' = gpu_idata /\ UNCHANGED <<gpu_idata, gpu_data_header, gpu_data_raw_size>>
          /\ pcGpu = "process" /\ pcGpu' = "publish"
          /\ UNCHANGED <<TCPbufferindex, ringVars, tcpVars, data_avail, pcMfe, pevent>>
      BY <1>14 DEF GpuProcess, mfeVars
    <2> QED
      BY <2>1 DEF CopiedFrom, ringVars, tcpVars
  <1>15. CASE GpuPublish
    BY <1>15 DEF GpuPublish, ringVars, wireVars, tcpVars, outVars, mfeVars
  <1>16. CASE GpuLoadFillnumber
    BY <1>16 DEF GpuLoadFillnumber, ringVars, wireVars, tcpVars, outVars, mfeVars
  <1>17. CASE GpuStoreFillnumber
    BY <1>17 DEF GpuStoreFillnumber, ringVars, wireVars, tcpVars, outVars, mfeVars
  <1>18. CASE MfeCycle
    BY <1>18 DEF MfeCycle, ringVars, wireVars, tcpVars, gpuVars, outVars
  <1>19. CASE PollEvent
    BY <1>19 DEF PollEvent, ringVars, wireVars, tcpVars, gpuVars, outVars
  <1>20. CASE FrontendLoop
    BY <1>20 DEF FrontendLoop, ringVars, wireVars, tcpVars, gpuVars, outVars
  <1>21. CASE ReadBanks
    <2>1. pevent'.tail = gpu_data_header /\ pevent'.proc = gpu_data_proc
          /\ pevent'.size = gpu_data_raw_size
      BY <1>21, NoEventIsEvent DEF ReadBanks, Event
    <2> QED
      BY <1>21, <2>1 DEF ReadBanks, CopiedFrom, ringVars, wireVars, tcpVars, gpuVars, outVars
  <1>22. CASE ReadHeader
    BY <1>22 DEF ReadHeader, ringVars, wireVars, tcpVars, gpuVars, outVars
  <1>23. CASE TcpClientBor
    BY <1>23 DEF TcpClientBor, ringVars, wireVars, gpuVars, outVars
  <1>24. CASE GpuBor
    BY <1>24 DEF GpuBor, ringVars, wireVars, tcpVars, outVars
  <1>25. CASE BeginOfRun
    BY <1>25 DEF BeginOfRun, ringVars, tcpVars, gpuVars, outVars
  <1>26. CASE EndOfRun
    BY <1>26 DEF EndOfRun, ringVars, wireVars, tcpVars, gpuVars, outVars
  <1>27. CASE UNCHANGED vars
    BY <1>27 DEF vars, ringVars, wireVars, tcpVars, gpuVars, outVars, mfeVars
  <1> QED
    BY <1>1, <1>2, <1>3, <1>4, <1>5, <1>6, <1>7, <1>8, <1>9, <1>10, <1>11,
       <1>12, <1>13, <1>14, <1>15, <1>16, <1>17, <1>18, <1>19, <1>20, <1>21,
       <1>22, <1>23, <1>24, <1>25, <1>26, <1>27
    DEF Next, TcpThread, GpuThread, MfeStep

(* Only read_trigger_event extends the delivered events, with an event whose *)
(* banks were all copied from the output buffer of one fill.                *)
LEMMA NextDeliveredWhole == TypeOK /\ StagesAgree /\ DeliveredWhole /\ [Next]_vars => DeliveredWhole'
  <1> SUFFICES ASSUME TypeOK, StagesAgree, DeliveredWhole, [Next]_vars PROVE DeliveredWhole'
    OBVIOUS
  <1> USE DEF TypeOK, DeliveredWhole
  <1>1. CASE AMC13Event
    BY <1>1 DEF AMC13Event, ringVars, tcpVars, gpuVars, outVars, mfeVars
  <1>2. CASE TcpSetIndex
    BY <1>2 DEF TcpSetIndex, ringVars, wireVars, gpuVars, outVars, mfeVars
  <1>3. CASE TcpLockAvail
    BY <1>3 DEF TcpLockAvail, wireVars, gpuVars, outVars, mfeVars
  <1>4. CASE TcpReadAndUnpack
    BY <1>4 DEF TcpReadAndUnpack, gpuVars, outVars, mfeVars
  <1>5. CASE TcpStore
    BY <1>5 DEF TcpStore, wireVars, gpuVars, outVars, mfeVars
  <1>6. CASE TcpUnlockReady
    BY <1>6 DEF TcpUnlockReady, wireVars, gpuVars, outVars, mfeVars
  <1>7. CASE TcpLoadFillnumber
    BY <1>7 DEF TcpLoadFillnumber, ringVars, wireVars, gpuVars, outVars, mfeVars
  <1>8. CASE TcpStoreFillnumber
    BY <1>8 DEF TcpStoreFillnumber, ringVars, wireVars, gpuVars, outVars, mfeVars
  <1>9. CASE GpuSetIndex
    BY <1>9 DEF GpuSetIndex, ringVars, wireVars, tcpVars, outVars, mfeVars
  <1>10. CASE GpuLockReady
    BY <1>10 DEF GpuLockReady, wireVars, tcpVars, outVars, mfeVars
  <1>11. CASE GpuLockOutput
    BY <1>11 DEF GpuLockOutput, ringVars, wireVars, tcpVars, outVars, mfeVars
  <1>12. CASE GpuCopy
    BY <1>12 DEF GpuCopy, ringVars, wireVars, tcpVars, mfeVars
  <1>13. CASE GpuUnlockAvail
    BY <1>13 DEF GpuUnlockAvail, wireVars, tcpVars, outVars, mfeVars
  <1>14. CASE GpuProcess
    BY <1>14 DEF GpuProcess, ringVars, wireVars, tcpVars, mfeVars
  <1>15. CASE GpuPublish
    BY <1>15 DEF GpuPublish, ringVars, wireVars, tcpVars, outVars, mfeVars
  <1>16. CASE GpuLoadFillnumber
    BY <1>16 DEF GpuLoadFillnumber, ringVars, wireVars, tcpVars, outVars, mfeVars
  <1>17. CASE GpuStoreFillnumber
    BY <1>17 DEF GpuStoreFillnumber, ringVars, wireVars, tcpVars, outVars, mfeVars
  <1>18. CASE MfeCycle
    BY <1>18 DEF MfeCycle, ringVars, wireVars, tcpVars, gpuVars, outVars
  <1>19. CASE PollEvent
    BY <1>19 DEF PollEvent, ringVars, wireVars, tcpVars, gpuVars, outVars
  <1>20. CASE FrontendLoop
    BY <1>20 DEF FrontendLoop, ringVars, wireVars, tcpVars, gpuVars, outVars
  <1>21. CASE ReadBanks
    BY <1>21 DEF ReadBanks, ringVars, wireVars, tcpVars, gpuVars, outVars
  <1>22. CASE ReadHeader
    <2> DEFINE e == [pevent EXCEPT !.head = gpu_data_header, !.inRun = runs]
    <2>1. e.head = gpu_data_header /\ e.tail = e.head /\ CopiedFrom(e.proc, e.head, e.size)
      BY <1>22 DEF ReadHeader, StagesAgree, Event
    <2>2. delivered' = Append(delivered, e) /\ e \in Event
      BY <1>22 DEF ReadHeader, Event
    <2> HIDE DEF e
    <2> QED
      BY <2>1, <2>2
  <1>23. CASE TcpClientBor
    BY <1>23 DEF TcpClientBor, ringVars, wireVars, gpuVars, outVars
  <1>24. CASE GpuBor
    BY <1>24 DEF GpuBor, ringVars, wireVars, tcpVars, outVars
  <1>25. CASE BeginOfRun
    BY <1>25 DEF BeginOfRun, ringVars, tcpVars, gpuVars, outVars
  <1>26. CASE EndOfRun
    BY <1>26 DEF EndOfRun, ringVars, wireVars, tcpVars, gpuVars, outVars
  <1>27. CASE UNCHANGED vars
    BY <1>27 DEF vars, ringVars, wireVars, tcpVars, gpuVars, outVars, mfeVars
  <1> QED
    BY <1>1, <1>2, <1>3, <1>4, <1>5, <1>6, <1>7, <1>8, <1>9, <1>10, <1>11,
       <1>12, <1>13, <1>14, <1>15, <1>16, <1>17, <1>18, <1>19, <1>20, <1>21,
       <1>22, <1>23, <1>24, <1>25, <1>26, <1>27
    DEF Next, TcpThread, GpuThread, MfeStep

(* At every stage of the pipeline the copies of a fill agree, for every ring *)
(* size and however run transitions reset the counters under the threads.   *)
THEOREM StagesStayTogether == Spec => []StagesAgree
  <1>1. Init => StagesAgree
    BY DEF Init, InitWith, StagesAgree, GpuOwns, OutputRead
  <1>2. QED
    BY <1>1, NextStagesAgree, TypeCorrect, RingIsExclusive, OutputIsExclusive, PTL DEF Spec

(* Every delivered event is made of the banks of one fill, for every ring    *)
(* size and whatever the timing of triggers and run transitions.            *)
THEOREM DeliveredIsWhole == Spec => []DeliveredWhole
  <1>1. Init => DeliveredWhole
    BY DEF Init, InitWith, DeliveredWhole
  <1>2. QED
    BY <1>1, NextDeliveredWhole, TypeCorrect, StagesStayTogether, PTL DEF Spec
=============================================================================
