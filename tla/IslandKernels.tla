---------------------------- MODULE IslandKernels ---------------------------
(***************************************************************************)
(* The GPU kernels of frontends/CaloReadoutAMC13/kernel.cu that cut a fill *)
(* into islands (the T method).  cuda_g2_run_kernel clears the device      *)
(* buffers and launches the kernels one after the other: samples over      *)
(* threshold are marked in island_pattern, each island is extended by      *)
(* DEV_N_presamples and DEV_N_postsamples, islands are numbered and given  *)
(* room in the output, their samples are copied there, and the decimated   *)
(* sum is appended.                                                        *)
(*                                                                         *)
(* A kernel starts when the one before it has ended.  Within a kernel the  *)
(* warps run in any order; the lanes of a warp run in lockstep (the code   *)
(* is compiled for compute_20), and with one lane per warp every thread is *)
(* on its own.  Kernels in which each thread writes places of its own and  *)
(* reads what no thread of that kernel writes are one step.                *)
(***************************************************************************)
EXTENDS Integers, Sequences, FiniteSetsExt

CONSTANTS
  DEV_N_samples,
  N_DETECTORS,
  DEV_N_presamples,
  DEV_N_postsamples,
  DEV_decimation,
  n_threads_per_block,   \* 1024 in the code
  LANES,                 \* lanes of a warp, 32 in the code
  WORD,                  \* what a 16-bit word can hold: 2^16 in the code
  nsamples,              \* samples the pedestal is averaged over: 500 in the code
  trigger_period,        \* 50000 in the code
  gpu_data_proc_size_max,
  Options,               \* values of "island_option"
  PedestalOptions,       \* values of "pedestal_option"
  DEV_global_pedestal, DEV_threshold, DEV_threshold_sign,
  Fills                  \* the fills that may come: [Detector -> [Sample -> ADC value]]

Sample == 0 .. DEV_N_samples - 1
Detector == 0 .. N_DETECTORS - 1

ASSUME KernelAssumption ==
  /\ {DEV_N_samples, N_DETECTORS, DEV_decimation, n_threads_per_block, LANES, WORD,
      nsamples, trigger_period} \subseteq Nat \ {0}
  /\ {DEV_N_presamples, DEV_N_postsamples, gpu_data_proc_size_max} \subseteq Nat
  /\ n_threads_per_block % LANES = 0
  /\ Options \subseteq 0 .. 3 /\ PedestalOptions \subseteq {0, 1}
  /\ {DEV_global_pedestal, DEV_threshold} \subseteq Int /\ DEV_threshold_sign \in BOOLEAN
  /\ Fills \subseteq [Detector -> [Sample -> Int]]

VARIABLES
  gpu_idata,        \* the fill on the device
  option,           \* [island |-> DEV_island_option, pedestal |-> DEV_pedestal_option]
  kernel,           \* the kernel that runs, "copied" when the output is with the CPU
  warp,             \* [warp -> its program counter, loop pass and lanes]
  island_pattern,   \* per sample; of the counts made by atomicAdd only > 0 is kept
  n_islands, island_offset,
  island_info,      \* [island number -> time, length, offset]
  islands,          \* [index -> 16-bit word], the output buffer where it was written
  cpu_odata         \* what the CPU has got: size in bytes, and the data

vars == <<gpu_idata, option, kernel, warp, island_pattern, n_islands, island_offset,
          island_info, islands, cpu_odata>>

-----------------------------------------------------------------------------
(* The launch: blocks, warps, and the samples a warp's lanes have in a pass *)
(* of the loop "sample_nr += blockDim.x * gridDim.x".                       *)
n_blocks == Max({1, DEV_N_samples \div n_threads_per_block})
GridThreads == n_blocks * n_threads_per_block
Warp == 0 .. GridThreads \div LANES - 1
SamplesOf(w, pass) == (w * LANES + pass * GridThreads .. (w + 1) * LANES + pass * GridThreads - 1)
                        \cap Sample

AtStart == [w \in Warp |-> [pc |-> "self", pass |-> 0, boi |-> {}, eoi |-> {}, k |-> 0]]

-----------------------------------------------------------------------------
(* Pedestals and thresholds of a fill under the options o, all times        *)
(* nsamples so that the mean is exact.                                      *)
Pedestal(fill, o, d) ==
  IF o.pedestal = 0
  THEN nsamples * DEV_global_pedestal
  ELSE MapThenSumSet(LAMBDA i : fill[d][DEV_N_samples - i - 1], 0 .. nsamples - 1)

Signal(fill, o, d, s) == nsamples * fill[d][s] - Pedestal(fill, o, d)
wf_sum(fill, o, s) == MapThenSumSet(LAMBDA d : Signal(fill, o, d, s), Detector)
Passes(x, scale) == IF DEV_threshold_sign THEN x > scale * nsamples * DEV_threshold
                                          ELSE x < scale * nsamples * DEV_threshold

(* Pulse shape: weights 1 2 3 4 3 2 1, in sixteenths, over seven samples.   *)
Weighted(fill, o, d, s) ==
  MapThenSumSet(LAMBDA i : (4 - (IF i < 0 THEN -i ELSE i)) * Signal(fill, o, d, s - i), -3 .. 3)

(* Whether kernel_wf_sum or kernel_wf_trigger marks sample s.               *)
Triggered(fill, o, s) ==
  \/ o.island = 0 /\ s % trigger_period = 0
  \/ o.island = 1 /\ Passes(wf_sum(fill, o, s), 1)
  \/ o.island = 2 /\ \E d \in Detector : Passes(Signal(fill, o, d, s), 1)
  \/ /\ o.island = 3 /\ 3 < s /\ s < DEV_N_samples - 3
     /\ \E d \in Detector : Passes(Weighted(fill, o, d, s), 16)

-----------------------------------------------------------------------------
Init ==
  /\ gpu_idata \in Fills
  /\ option \in [island : Options, pedestal : PedestalOptions]
  /\ kernel = "trigger" /\ warp = AtStart
  /\ island_pattern = [s \in Sample |-> 0] /\ n_islands = 0 /\ island_offset = 0
  /\ island_info = <<>> /\ islands = <<>> /\ cpu_odata = [size |-> 0, data |-> <<>>]

(* Mutant: cudaMemset clears from the output data on, as if the sizes had   *)
(* been swapped: island_pattern and the table keep the last fill's islands. *)
NextFillNotCleared ==
  /\ kernel = "copied" /\ kernel' = "trigger"
  /\ gpu_idata' \in Fills /\ warp' = AtStart
  /\ n_islands' = 0 /\ island_offset' = 0
  /\ islands' = <<>> /\ cpu_odata' = [size |-> 0, data |-> <<>>]
  /\ UNCHANGED <<option, island_pattern, island_info>>

(* The next fill comes to the device, and cudaMemset clears all but the     *)
(* histogram.  The options stay for the run.                                *)
NextFill ==
  /\ kernel = "copied" /\ kernel' = "trigger"
  /\ gpu_idata' \in Fills /\ warp' = AtStart
  /\ island_pattern' = [s \in Sample |-> 0] /\ n_islands' = 0 /\ island_offset' = 0
  /\ island_info' = <<>> /\ islands' = <<>> /\ cpu_odata' = [size |-> 0, data |-> <<>>]
  /\ UNCHANGED option

kernel_wf_trigger ==
  /\ kernel = "trigger" /\ kernel' = "extend"
  /\ island_pattern' = [s \in Sample |-> IF Triggered(gpu_idata, option, s) THEN 1 ELSE island_pattern[s]]
  /\ UNCHANGED <<gpu_idata, option, warp, n_islands, island_offset, island_info, islands,
                 cpu_odata>>

-----------------------------------------------------------------------------
(* Steps of a warp in kernel_extend_islands and kernel_find_islands: the    *)
(* lanes read their own sample, the one to the left, the one to the right.  *)
(* A lane is named by its sample.                                           *)
Marked(s) == island_pattern[s] > 0

Goto(w, pc, boi, eoi, k) ==
  warp' = [warp EXCEPT ![w] = [@ EXCEPT !.pc = pc, !.boi = boi, !.eoi = eoi, !.k = k]]

ReadSelf(w) ==
  /\ kernel \in {"extend", "find"} /\ warp[w].pc = "self"
  /\ LET lanes == SamplesOf(w, warp[w].pass)
         found == {s \in lanes : Marked(s)}
     IN IF lanes = {} THEN Goto(w, "end", {}, {}, 0) ELSE Goto(w, "left", found, found, 0)
  /\ UNCHANGED <<gpu_idata, option, kernel, island_pattern, n_islands, island_offset,
                 island_info, islands, cpu_odata>>

BOI(s) == s = 0 \/ ~Marked(s - 1)
EOI(s) == s = DEV_N_samples - 1 \/ ~Marked(s + 1)

ReadLeft(w) ==
  /\ kernel \in {"extend", "find"} /\ warp[w].pc = "left"
  /\ Goto(w, IF kernel = "extend" THEN "right" ELSE "number",
          {s \in warp[w].boi : BOI(s)}, warp[w].eoi, 0)
  /\ UNCHANGED <<gpu_idata, option, kernel, island_pattern, n_islands, island_offset,
                 island_info, islands, cpu_odata>>

ReadRight(w) ==
  /\ kernel = "extend" /\ warp[w].pc = "right"
  /\ Goto(w, "before", warp[w].boi, {s \in warp[w].eoi : EOI(s)}, 0)
  /\ UNCHANGED <<gpu_idata, option, kernel, island_pattern, n_islands, island_offset,
                 island_info, islands, cpu_odata>>

NextPass(w) ==
  warp' = [warp EXCEPT ![w] = [pc |-> "self", pass |-> @.pass + 1, boi |-> {}, eoi |-> {},
                               k |-> 0]]

(* Mutant: the second loop runs while samples are left after the hit.       *)
AfterHit(s, k) == {i \in {s + 1 + k} : i < DEV_N_samples}

(* Mutant: the loop over presamples starts one sample late.                 *)
BeforeShort(s, k) == {i \in {Max({0, s - DEV_N_presamples}) + k + 1} : i < s}

(* One turn of the two loops of a warp: turn k of the first adds to sample  *)
(* i1 + k, of the second to sample i2 - k.                                  *)
Before(s, k) == {i \in {Max({0, s - DEV_N_presamples}) + k} : i < s}
After(s, k) == {i \in {Min({DEV_N_samples - 1, s + DEV_N_postsamples}) - k} : i > s}

atomicAdd(touched) ==
  island_pattern' = [i \in Sample |-> IF i \in touched THEN 1 ELSE island_pattern[i]]

Extend(w) ==
  /\ kernel = "extend"
  /\ \/ /\ warp[w].pc = "before"
        /\ LET touched == UNION {Before(s, warp[w].k) : s \in warp[w].boi}
           IN /\ atomicAdd(touched)
              /\ IF touched = {} THEN Goto(w, "after", {}, warp[w].eoi, 0)
                                 ELSE Goto(w, "before", warp[w].boi, warp[w].eoi, warp[w].k + 1)
     \/ /\ warp[w].pc = "after"
        /\ LET touched == UNION {After(s, warp[w].k) : s \in warp[w].eoi}
           IN /\ atomicAdd(touched)
              /\ IF touched = {} THEN NextPass(w)
                                 ELSE Goto(w, "after", {}, warp[w].eoi, warp[w].k + 1)
  /\ UNCHANGED <<gpu_idata, option, kernel, n_islands, island_offset, island_info, islands,
                 cpu_odata>>

-----------------------------------------------------------------------------
(* kernel_find_islands: the lanes at the beginning of an island take a      *)
(* number each, then room in the output each; atomicAdd serves the lanes of *)
(* a warp in any order.  Only the lane that begins an island writes into    *)
(* its run of samples, numbers above 0 over numbers above 0, and the others *)
(* test for 0: marking the run is done in the step that takes the number.   *)
RunEnd(s) == Min({i \in s .. DEV_N_samples : i = DEV_N_samples \/ ~Marked(i)})
Orders(S) == {f \in [S -> 0 .. Cardinality(S) - 1] : \A s, t \in S : s # t => f[s] # f[t]}

TakeNumber(w) ==
  /\ kernel = "find" /\ warp[w].pc = "number"
  /\ \E order \in Orders(warp[w].boi) :
       LET new == {n_islands + order[s] : s \in warp[w].boi}
           at(n) == CHOOSE s \in warp[w].boi : n_islands + order[s] = n
       IN /\ island_info' = [n \in new \cup DOMAIN island_info |->
                               IF n \notin new THEN island_info[n]
                               ELSE [time |-> at(n), length |-> RunEnd(at(n)) - at(n),
                                     offset |-> 0]]
          /\ island_pattern' = [i \in Sample |->
                IF \E n \in new : i \in at(n) .. RunEnd(at(n)) - 1
                THEN 1 + CHOOSE n \in new : i \in at(n) .. RunEnd(at(n)) - 1
                ELSE island_pattern[i]]
  /\ n_islands' = n_islands + Cardinality(warp[w].boi)
  /\ Goto(w, "offset", warp[w].boi, {}, 0)
  /\ UNCHANGED <<gpu_idata, option, kernel, island_offset, islands, cpu_odata>>

Room(len) == 4 + N_DETECTORS * len
HeaderWords(time, len) == <<time % WORD, (time \div WORD) % WORD, len % WORD, (len \div WORD) % WORD>>

(* The number of the island that begins at sample s in the table info, and  *)
(* the room of all islands that begin at samples of S.                      *)
NumberOf(info, s) == CHOOSE n \in DOMAIN info : info[n].time = s
RoomOf(info, S) == MapThenSumSet(LAMBDA s : Room(info[NumberOf(info, s)].length), S)

(* Mutant: the room taken by the other lanes of the warp is not counted.    *)
TakeRoomOnce(w) ==
  /\ kernel = "find" /\ warp[w].pc = "offset"
  /\ LET heads == {island_offset + j : j \in 0 .. 3}
         first == Min(warp[w].boi)
     IN /\ island_info' = [n \in DOMAIN island_info |->
              IF island_info[n].time \in warp[w].boi
              THEN [island_info[n] EXCEPT !.offset = island_offset] ELSE island_info[n]]
        /\ islands' = IF warp[w].boi = {} THEN islands
                      ELSE [i \in heads \cup DOMAIN islands |->
                              IF i \notin heads THEN islands[i]
                              ELSE HeaderWords(first, island_info[NumberOf(island_info, first)].length)
                                     [i - island_offset + 1]]
        /\ island_offset' = island_offset + RoomOf(island_info, warp[w].boi)
  /\ NextPass(w)
  /\ UNCHANGED <<gpu_idata, option, kernel, island_pattern, n_islands, cpu_odata>>

(* The output out with the header of each island that begins at a sample s  *)
(* at start[s].                                                             *)
WithHeaders(out, info, start) ==
  LET words == (DOMAIN start) \X (0 .. 3)
      heads == {start[p[1]] + p[2] : p \in words}
  IN [i \in heads \cup DOMAIN out |->
        IF i \notin heads THEN out[i]
        ELSE LET p == CHOOSE q \in words : start[q[1]] + q[2] = i
             IN HeaderWords(p[1], info[NumberOf(info, p[1])].length)[p[2] + 1]]

TakeRoom(w) ==
  /\ kernel = "find" /\ warp[w].pc = "offset"
  /\ \E order \in Orders(warp[w].boi) :
       LET start == [s \in warp[w].boi |->
                       island_offset + RoomOf(island_info, {t \in warp[w].boi : order[t] < order[s]})]
       IN /\ island_info' = [n \in DOMAIN island_info |->
                IF island_info[n].time \in warp[w].boi
                THEN [island_info[n] EXCEPT !.offset = start[island_info[n].time]]
                ELSE island_info[n]]
          /\ islands' = WithHeaders(islands, island_info, start)
  /\ island_offset' = island_offset + RoomOf(island_info, warp[w].boi)
  /\ NextPass(w)
  /\ UNCHANGED <<gpu_idata, option, kernel, island_pattern, n_islands, cpu_odata>>

(* A kernel ends when all its warps have.                                   *)
KernelEnds ==
  /\ kernel \in {"extend", "find"} /\ \A w \in Warp : warp[w].pc = "end"
  /\ kernel' = IF kernel = "extend" THEN "find" ELSE "make"
  /\ warp' = AtStart
  /\ UNCHANGED <<gpu_idata, option, island_pattern, n_islands, island_offset, island_info,
                 islands, cpu_odata>>

-----------------------------------------------------------------------------
(* Each marked sample has its places in the output, one per detector.       *)
Place(d, s) ==
  LET info == island_info[island_pattern[s] - 1]
  IN info.offset + 4 + d * info.length + (s - info.time)

kernel_make_islands ==
  /\ kernel = "make" /\ kernel' = "tail"
  /\ LET sources == {<<d, s>> : d \in Detector, s \in {i \in Sample : Marked(i)}}
         places == {Place(p[1], p[2]) : p \in sources}
     IN islands' = [i \in places \cup DOMAIN islands |->
           IF i \notin places THEN islands[i]
           ELSE LET p == CHOOSE q \in sources : Place(q[1], q[2]) = i
                IN gpu_idata[p[1]][p[2]]]
  /\ UNCHANGED <<gpu_idata, option, warp, island_pattern, n_islands, island_offset,
                 island_info, cpu_odata>>

(* kernel_decimate_sum: means of DEV_decimation sums, rounded to zero.  Its *)
(* grid covers whole blocks only.  Sums are taken to fit in 16 bits.        *)
Rounded(x, y) == IF x >= 0 THEN x \div y ELSE -((-x) \div y)
DecimatedSum(j) ==
  Rounded(MapThenSumSet(LAMBDA s : wf_sum(gpu_idata, option, s),
                        j * DEV_decimation .. (j + 1) * DEV_decimation - 1),
          nsamples * DEV_decimation)
DecimateThreads == ((DEV_N_samples \div n_threads_per_block) \div DEV_decimation) * n_threads_per_block

kernel_decimate_sum ==
  /\ kernel = "tail" /\ kernel' = "copy"
  /\ LET places == {island_offset + j : j \in 0 .. DecimateThreads - 1}
     IN islands' = [i \in places \cup DOMAIN islands |->
                      IF i \in places THEN DecimatedSum(i - island_offset) ELSE islands[i]]
  /\ UNCHANGED <<gpu_idata, option, warp, island_pattern, n_islands, island_offset,
                 island_info, cpu_odata>>

(* The end of cuda_g2_run_kernel: the size in bytes and the copy to the CPU. *)
(* Words nobody wrote are 0.  CTAG, the third header word, is left out.     *)
OutputSize == 2 * island_offset + 12 + 2 * (DEV_N_samples \div DEV_decimation)

CopyOutput ==
  /\ kernel = "copy" /\ kernel' = "copied"
  /\ cpu_odata' =
       IF OutputSize > gpu_data_proc_size_max
       THEN [size |-> 8, data |-> <<island_offset, n_islands>>]
       ELSE [size |-> OutputSize,
             data |-> <<island_offset, n_islands>> \o
                      [i \in 1 .. (OutputSize - 12) \div 2 |->
                         IF i - 1 \in DOMAIN islands THEN islands[i - 1] ELSE 0]]
  /\ UNCHANGED <<gpu_idata, option, warp, island_pattern, n_islands, island_offset,
                 island_info, islands>>

-----------------------------------------------------------------------------
Next ==
  \/ NextFill \/ kernel_wf_trigger \/ KernelEnds
  \/ \E w \in Warp : ReadSelf(w) \/ ReadLeft(w) \/ ReadRight(w) \/ Extend(w) \/ TakeNumber(w) \/ TakeRoom(w)
  \/ kernel_make_islands \/ kernel_decimate_sum \/ CopyOutput

Spec == Init /\ [][Next]_vars

-----------------------------------------------------------------------------
(* Types; no island is numbered twice, none begins outside the fill.        *)
TypeOK ==
  /\ kernel \in {"trigger", "extend", "find", "make", "tail", "copy", "copied"}
  /\ island_pattern \in [Sample -> Nat]
  /\ DOMAIN island_info = 0 .. n_islands - 1
  /\ \A n \in DOMAIN island_info : island_info[n].time \in Sample
  /\ \A w \in Warp : warp[w].boi \cup warp[w].eoi \subseteq SamplesOf(w, warp[w].pass)

Extended == kernel \notin {"trigger", "extend"}
Hits == {s \in Sample : Triggered(gpu_idata, option, s)}
Window(s) == Max({0, s - DEV_N_presamples}) .. Min({DEV_N_samples - 1, s + DEV_N_postsamples})

(* However the warps run, a sample over threshold is in an island, and is   *)
(* neither its first nor its last sample when there are samples to take.    *)
HitsHaveNeighbours ==
  Extended => \A s \in Hits :
    /\ Marked(s)
    /\ DEV_N_presamples > 0 /\ BOI(s) => s = 0
    /\ DEV_N_postsamples > 0 /\ EOI(s) => s = DEV_N_samples - 1

(* When no window crosses from one warp's samples to another's, the samples *)
(* kept are exactly the windows of presamples and postsamples of the hits.  *)
WindowsExact ==
  Extended /\ (\A s \in Hits : \E w \in Warp, p \in 0 .. DEV_N_samples \div GridThreads :
                 Window(s) \subseteq SamplesOf(w, p))
    => {s \in Sample : Marked(s)} = UNION {Window(s) : s \in Hits}

(* What the comments in kernel_extend_islands say: an island is extended by *)
(* N_presamples and by N_postsamples, so each hit has its whole window.     *)
WindowsWhole ==
  Extended => \A s \in Hits : \A i \in Window(s) : Marked(i)

(* A reader that takes the islands of the FC bank one after the other finds *)
(* each maximal run of kept samples once, with the samples of every         *)
(* detector, and the decimated sum behind the last: no two islands share    *)
(* room whatever order their numbers and their room were taken in.          *)
Runs == {r \in Sample \X (1 .. DEV_N_samples) :
           /\ r[1] + r[2] <= DEV_N_samples /\ BOI(r[1]) /\ EOI(r[1] + r[2] - 1)
           /\ \A i \in r[1] .. r[1] + r[2] - 1 : Marked(i)}

OutputReads ==
  kernel = "copied" /\ cpu_odata.size # 8 =>
    LET word(i) == cpu_odata.data[i + 3]
        time(h) == word(h) + WORD * word(h + 1)
        length(h) == word(h + 2) + WORD * word(h + 3)
        n == cpu_odata.data[2]
        head[k \in 0 .. n] == IF k = 0 THEN 0 ELSE head[k - 1] + Room(length(head[k - 1]))
    IN /\ head[n] = cpu_odata.data[1]
       /\ {<<time(head[k]), length(head[k])>> : k \in 0 .. n - 1} = Runs
       /\ Cardinality(Runs) = n
       /\ \A k \in 0 .. n - 1, d \in Detector : \A j \in 0 .. length(head[k]) - 1 :
            word(head[k] + 4 + d * length(head[k]) + j) = gpu_idata[d][time(head[k]) + j]
       /\ \A j \in 0 .. DecimateThreads - 1 : word(head[n] + j) = DecimatedSum(j)
=============================================================================
