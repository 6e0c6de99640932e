# Verification of the g-2 DAQ: models, checks and proofs

This directory holds TLA+ models of the parts of gm2daq whose correctness depends
on the order in which threads, processes and messages act: the calorimeter
readout frontend with its GPU kernels, the link from the AMC13 simulator to it, the
event builder, and the trigger master with its trigger server and slaves.  TLC checks
them on small instances, and TLAPS proves most of the safety properties of the readout, the event
builder, the master, the kernels and the link, and three refinements, for every size of buffers, fills
and sets of slaves and channels.  The models are translated from the source; comments and docs are
only used as statements of intent to compare the code with.

## 1. The system

gm2daq is a set of MIDAS programs.  A *fill* is one bunch of muons: the trigger
master learns of it, slave frontends digitise and read it out, each sends one
*fragment* per fill to a MIDAS buffer, and the event builder merges the fragments
of one fill to one event.  MIDAS itself (run transitions, buffers, the loop
`mfe.c` around a frontend) is not in the repository and is modelled as far as the
code depends on it.

| component | state | operations | interacts with |
|---|---|---|---|
| Calorimeter readout, `frontends/CaloReadoutAMC13` (`frontend.cpp`, `tcp_thread.c`, `gpu_thread.cpp`) | ring of `TCP_BUF_MAX_FILLS` buffers with two mutexes each, fill counters, one output buffer with one mutex, `data_avail`, `mutex_midas` | `tcp_thread` reads an AMC13 event to the ring, `gpu_thread_1` copies and processes it, the MIDAS main thread polls it and makes the banks; begin and end of run | AMC13 by TCP, master by RPC, MIDAS |
| Event builder, `eventbuilderNew` (`mevb.c`, `ebuser.c`) | one held fragment, a timeout count and a time per channel, local run state, stop flags | scan, merge, time out, close; start/stop/pause/resume callbacks; abort and restart after errors | frontends by MIDAS buffers, MIDAS transitions, `mtransition` |
| Byte-level reader, `readAndUnpack`/`ReadXBytes` in `tcp_thread.c` | socket, block headers | parse AMC13 blocks to a payload | the readout's ring |
| GPU kernels, `CaloReadoutAMC13/kernel.cu` | device buffers: samples, `island_pattern`, table and data of the islands | per fill: clear, mark samples over threshold, extend, number and place islands, copy them and the decimated sum | called by `gpu_thread_1`, output to the CPU |
| AMC13 simulator, `frontends/AMC13Simulator` (`simulator.cpp`, `pack_amc13_data.c`, `tcp_server.cpp`, `frontend.cpp`) | the event in the making, the packed fill, two mutexes | a thread makes events; on EOF the main thread packs one to AMC13 blocks and writes it to the socket, then says READY | master by RPC, the readout by TCP |
| Trigger master, `frontends/MasterGM2/frontend.c` | list of slaves with their ready flags, `all_frontends_ready`, one mutex | trigger thread: wait for a trigger, send end-of-fill (EOF) to the slaves, make an event; main thread: handle READY, switch DAQenable, begin and end of run | slaves by RPC, trigger hardware by the parallel port, the trigger server by a socket |
| Trigger server, `MasterGM2/trigger_server.py` | whether it is in a run, fills under way | BOR and EOR of the master; a thread, or an interrupt, starts a fill, whose EOF is sent at its end | the master |
| Slave RPC, `frontends/common/frontend_rpc.c` | connection to the master | connect and say READY at begin of run, READY after a fill, disconnect | the master |
| Parallel-port trigger driver, `drivers/parport_trigger/trigger.c` | a flag and a count of interrupts | interrupt, read, write, poll | the master |
| Synchronous slave, `frontends/CaloSimulatorAMC13/frontend.cpp` | `data_avail`, number of the fill | on EOF make the AMC13 send a fill, then make an event and say READY | master by RPC, AMC13 |
| `CaloRiderSimulator` | as the AMC13 simulator | produces test data | stands behind the model's sources of data |
| ODB settings, AMC13 register library, `SimpleClient`, analyzer and online display | numerical or presentational | - | - |

**What is hard here.**  In the readout: two threads share a ring through mutexes
that one locks and the other unlocks; both fill counters are reset by the main
thread while the two are in the middle of an iteration; one global carries the
payload size of the latest fill, not of the fill being copied; `data_avail` is
protected only by windows in which the main thread lets `mutex_midas` go; stopping
a run waits for nothing.  In the event builder: transitions are served at three
different points inside the loop, one of them in the middle of a decision; a start
may come before the previous run has been closed; a fragment may be lost; errors
close the buffers from inside the loop and request a stop that may be refused.
In the master: two
threads share the ready flags without a lock, messages of a fill race with those of the next,
both threads read one device, the trigger server's fills sleep across the end of a run, and
end of run relies on a sleep.  In the kernels: threads of different warps test and change one
array in the same launch, and two `atomicAdd`s order the islands independently.  On the link:
one of two mutexes is unlocked by the thread that did not lock it, formats, sizes and offsets are
worked out by hand on both sides, and errors of the socket are not passed on.  `PROJECT.json` lists each hazard at its line.

**What makes each part correct.**

- Readout: one owner per ring buffer and of the output buffer; the copies of a fill
  belong together as far as they go; nothing is delivered twice, overwritten or (in a run)
  reordered; raw data belong to the event they are sent with, and a histogram counts each fill once.
- Event builder: events hold one fragment of every required channel, all of one
  trigger and one run, in order and once; buffers that are closed are not polled;
  a stop closes the run, and closing loses no complete event; transitions are served.
- Master: no fill while a synchronous slave is not ready; the events of master and slaves
  stay in step until its threads overlap, since the event builder only compares serial numbers; fills come only while
  the readout is in the run; the slaves get ready again; a stop is served.
- Kernels: the samples kept are those around the hits, whatever the order of the warps; the
  output can be read back: every island once, with the samples of all detectors.
- Link: what the GPU takes for the waveform of a segment is that of the fill; a fill that was not
  received is not passed on as one; an EOF leads to data and to READY.

## 2. Modules

| module | what it is |
|---|---|
| `CaloReadout` | the three threads of the readout frontend, one action per step between two synchronisation points, and its properties |
| `FillPipeline` | what the frontend promises: a queue of bounded size from the AMC13 to MIDAS |
| `CaloReadoutRefinement` | the mapping from `CaloReadout` to `FillPipeline` |
| `CaloReadoutProofs` | theorems: types, exclusion, copies that stay together |
| `CaloDeliveryProofs` | theorems: nothing lost or delivered twice, raw data and histograms, whatever the timing |
| `CaloOrderProofs` | theorems for the timing the experiment relies on: order, counters, and the queue `FillPipeline` |
| `MCCaloReadout` | sizes of payloads for TLC: one for all events, or each event smaller than the one before |
| `IslandKernels` | the kernels that cut a fill into islands, with the warps interleaved, and their properties |
| `MCIslandKernels` | fills for TLC |
| `IslandKernelsProofs` | theorems: types, kept neighbours, exact windows |
| `AMC13Link` | a fill from the AMC13 simulator's two threads through packer, socket and `readAndUnpack` to the buffer of the readout, and its properties |
| `MCAMC13Link` | ODB settings for TLC, which also checks there that the sizes of the runs are such as the theorems suppose |
| `AMC13LinkProofs` | theorems: who holds the event in the making, fills of one complete event, and a reader that stays in step with the stream: headers and waveforms are where they should be |
| `EventBuilder` | mevb with the MIDAS buffers, transitions and frontends around it, and its properties |
| `EventMerger` | what mevb promises: events of equal triggers, in order |
| `EventBuilderRefinement` | the mapping from `EventBuilder` to `EventMerger` |
| `MCEventBuilder` | values of the ODB settings for TLC |
| `EventBuilderProofs` | theorems: types, polled buffers, fragments of the run, stops, closing |
| `EventMergerProofs` | theorems: whole events, their order, and the refinement of `EventMerger` |
| `MasterTrigger` | the two threads of the master, the parallel port driver, the trigger server, synchronous and asynchronous slaves, the messages between them, and its properties |
| `FillBarrier` | what the master promises about its synchronous slaves: fills are a barrier |
| `MasterTriggerRefinement` | the mapping from `MasterTrigger` to `FillBarrier` |
| `MCMasterTrigger` | sets of slaves and trigger sources for TLC |
| `MasterTriggerProofs` | theorems: types, the trigger thread outside runs, idle slaves, serial numbers, and the refinement of `FillBarrier` |

An operator introduced by "Mutant:" is a wrong variant of the definition that follows
it.  It is used by no specification: it stays beside the original to record that the
property named in `PROJECT.json` fails with it, so that the property depends on that
line of the code.

### CaloReadout

A fill is a record of the run it was triggered in, its AMC13 event number and its
payload size; a buffer of the host holds "the fill whose bytes were last copied here".  That is all
the properties need to tell a right copy from a wrong one there.

The GPU's memory is modelled place by place.  `gpu_idata[b]` is the fill whose sample is at place `b` of
the input, for the `WaveformSize` places that the kernels read (`N_DETECTORS` waveforms of
`gpu_waveform_length`), whatever the fill's payload has.  `GpuCopy` writes the first `CopySize`
of them: `TCPtotaldatasize`, which is one global that `tcp_thread` sets for every fill it reads,
perhaps a later one, and 1 byte if that is more than `GPU_IBUF_SIZE`.  Behind the copy the samples of earlier
fills stay.  The kernels take what lies there, so the results (`gpu_data_proc`) are again a fill per
place, and a bin of the histogram `gpu_odata` is the set of the samples added to it, each with the
fill that was processed (`by`) and the fill the sample is of (`of`).  A flush copies and zeroes the
first `gpu_data_his_size` bins, which is again the global; only `Flushed` bins are in the bank.  Begin of run
zeroes none, as in the code.  `SizesOf` says which payload sizes the n-th event of a run can have.

`tcp_client_init` creates `tcp_thread` (`tcp_thread.c:238`) before it initialises and locks the mutexes of the
ring (lines 242-246).  `Init` is the state with the mutexes ready.  `EarlyThreadInit` is the other outcome:
the thread had locked its first buffer and waits in `read()` when `pthread_mutex_init` makes that
mutex an unlocked one.  `EarlyThreadSpec` is the same frontend started so.

A mutex is a Boolean.
`pcTcp`, `pcGpu` and `pcMfe` say which step of its loop a thread is about to take:

| thread | steps and code |
|---|---|
| `tcp_thread` (`tcp_thread.c`) | `index`, `avail` (lock `mutex_TCP_buf_avail`), `read` (`readAndUnpack`), `store` (sizes to globals, header and trailer to the ring), `unlock` (`mutex_TCP_buf_ready`), `load`/`incr` (`TCPfillnumber++`) |
| `gpu_thread_1` (`gpu_thread.cpp`) | `index`, `ready` (lock), `out` (lock the output mutex), `copy`, `avail` (unlock), `process` (kernels and histogram flush), `publish` (`data_avail` under `mutex_midas`), `load`/`incr` |
| main (`frontend.cpp`) | `yield` (MIDAS outside the frontend's code; transitions are served here), `pollWindow` (`poll_event` has released `mutex_midas`), `banks` and `header` (`read_trigger_event`), `loopWindow` (`frontend_loop`), `borTcp` and `borGpu` (the rest of `begin_of_run`) |

The two counters are incremented without a lock while `begin_of_run` resets them, which
is a data race: the increment is a load and a store, and the reset may come in between.
The main thread holds `mutex_midas` except in the two windows, so only there can
`gpu_thread_1` publish.  `read_trigger_event` is two steps because the trailer, raw,
processed and histogram banks are copied before the header bank.  A failing
`begin_of_run` leaves the counters untouched.

Two constants say what is assumed of the surroundings.  `TriggersInRun`: triggers
are sent only while the run is on.  `DrainedStop`: begin and end of run come when the
pipeline is empty.  The code enforces neither; `MasterGM2`'s `end_of_run` sleeps 500 ms
for it.  The runs below say which properties need them.

### EventBuilder

`mevb` is one process, so its steps interleave only with its surroundings: `pc` says where
it is.  `cm_yield` is the only place where a transition can be served, and the model
has its three call sites: `yield` (not running), `timingYield` (a channel's timeout) and
`statsYield` (once per second).  `poll` and `timeouts` are the two loops over the channels,
one channel per step, because fragments arrive in between.  `CloseBuffers` is
`close_buffers` (`eb_end_of_run`, `handFlush`, `source_unbooking`), `StartEffects` is
`tr_start` with `source_booking`.  A fragment is its run and serial number.  `events` is
the history of merged events.  A `bm_receive_event` that fails makes `mevb` leave (`ReceiveError`),
unless the statistics job is due in the same pass: the result of its `cm_yield` then takes the place
of `SS_ABORT` (`mevb.c:491-505`), and the loop goes on (`ReceiveErrorForgotten`).

MIDAS is external.  A buffer is a FIFO that exists while mevb has it open.  A transition
goes to mevb and the frontends in the order of their sequence numbers: mevb before the
frontends at start and resume, after them at stop and pause.  A stop or a start asked for
while another transition is going on is refused.

### MasterTrigger

`pcTrig` is the trigger thread: at `lock` it waits for its mutex and for a trigger, `ppRead`
reads the parallel port, `check` and `eof` are `send_eof`, with `slave` its loop variable.
`pcMain` is the main thread, which MIDAS runs: `loop` serves transitions, RPCs and
`frontend_loop`; `allReady` is `rpc_g2_ready` between the check of all flags and setting
`all_frontends_ready`, which with the parallel port is a wait for a trigger; `asleep` is the
500 ms in `end_of_run`.  An iteration of a thread that finds nothing to do changes nothing
and is no step.

Slaves are numbered from 1; `Sync` are the synchronous ones.  A synchronous slave is
`CaloSimulatorAMC13`, an asynchronous one `CaloReadoutAMC13`.  RPCs over `RPC_FTCP` return
when they have been sent (`CaloSimulatorAMC13/frontend.cpp:897`), so each connection is a
FIFO: `eofs[s]` towards slave `s`, `readys[s]` back (READYs of one slave are equal, so a count).
`masterEvents` and `slaveEvents` are histories: the trigger numbers of the events made in the
run.  The n-th entries are the events with serial number n, which `EventBuilder` merges.

The trigger server is Python and has a control thread, which serves one connection of the master
after the other (`commands` is what it has not received yet), and a thread per fill, `send_fill`,
which sleeps for the length of the fill and then sends `EOF` on whatever connection there is
(`fills` counts those asleep).  `EOR` does not tell them, so a fill of one run may send its EOF
in the next.  A message is `EOF` and two NUL characters, five bytes (`EofSize`); `recv_msg` asks for
`sizeof(input_buffer)` bytes, which is the size of a pointer, and finds `EOF` only if the bytes
begin with a message (`HasEof`): two waiting messages are one trigger, and the two bytes that
remain are an unexpected command.

`FillBarrier` has the fills begun in a run and the events of each slave.  A fill may begin only if
all slaves take part and have made the events of all fills before.  When the run is being stopped
the simulators leave one by one, before the master: fills may then begin without those
that have left, and a simulator may leave without its last event, but only the last.  The mapping
takes a fill to begin when its trigger is accepted.  With the parallel port it has no fills, and in the other
runs it has them until the master's two threads overlap (`HasBarrier`).

`overlapped` is a history, FALSE again at each begin of run.  It is set by the step in which the two threads come
to overlap: `rpc_g2_ready` finds all flags set while `send_eof` goes round the slaves, or `send_eof` accepts
a trigger between the check and the set in `rpc_g2_ready`.  No lock in the code excludes either, and
the model has all these interleavings, before and after.

One constant is an assumption on timing.  `QuietStop`: EOFs and READYs
have been served when the next frontend stops, and the server has received `EOR` and sent its last
fill, which the 500 ms in `end_of_run` are for.
Without `QuietStop` a READY that was on its way when `end_of_run` reset the flags is handled in
the next run: a simulator that is not yet in the run counts as ready and `BusyOnlyByOverlap` fails.
With `SimStartSeq = 500`, the default that `AMC13Simulator` leaves in place, a simulator may get
a fill before the readout frontend is in the run, and `FillsInRun` fails.

### IslandKernels

`kernel` is the kernel that runs; `cuda_g2_run_kernel` launches them in one stream, so each starts
when the one before it has ended.  Kernels in which a thread writes only places of its own and
reads nothing another thread of the launch writes are one step each: threshold (four
options), `kernel_make_islands`, `kernel_decimate_sum`.  In `kernel_extend_islands` and
`kernel_find_islands` threads read what others write, so `warp` holds, per warp, a program
counter, the pass of the grid-stride loop, and the lanes still active: `self`, `left` and
`right` read a sample's own mark and its neighbours', `before` and `after` are the two extending
loops, a turn per step, `number` and `offset` the two `atomicAdd`s of a new island.  The lanes of
a warp run in lockstep (the Makefile compiles for `compute_20`); their `atomicAdd`s are
served in any order.  With `LANES = 1` every thread is on its own.

`island_pattern` counts in the extending kernel, and only "> 0" is ever asked, so the model
keeps 0 and 1 there.  Pedestals are multiplied by the number of samples they are averaged over, so
that arithmetic stays in the integers.  `WORD` is what a 16-bit header word holds.

### AMC13Link

Data are sequences of 64-bit words; a word has its kind, the fill, event or size it carries, its
position, and the bits M (more blocks follow) and S (not the first block).  `pcSim` is
`calo_simulator_thread`, `pcFe` the simulator frontend's main thread in `tcp_write`, `pcTcp` the
`ReadXBytes` that `readAndUnpack` is in: `CDF` header, `AMC13` header, `AMCs` (module headers),
`data` of module `iAMC`, `blocktail`, `tail`, then `publish`.  A read of the socket may return fewer
words than asked for (`Stops`).  `link` is up, closed (reads return 0 when all is read) or reset
(a read returns -1, then 0).  A `ReadXBytes` whose first read fails leaves its destination as it
was (`Stale`), since `bytesRead` becomes `UINT_MAX` and the loop ends; after any other error, and
after the end of the stream, the loop in `ReadXBytes` never ends and the thread spins.

`sent` is a history: the event sent in each fill of the run.  `WaveformsFound` compares the buffer
handed on with it at the indices `cuda_g2_bor_kernel` works out.  It takes for granted that
`USE_RIDER_FORMAT`, a compile-time choice of the readout, agrees with the simulator's ODB value
`rider_header`; the default of that value, 0 (`amc13simulator_odb.c:119`), does not agree with
the readout as it is compiled.

`tcp_buf_header` and `tcp_buf_tail` are what the GPU thread finds in the ring.  Of the header only
`header_size` bytes are copied there (`tcp_thread.c:398-403`), however many the blocks have filled; in them
the blocks' headers begin at word 0x40 (`BlockHeaders`), after the CDF header and the words kept for times.
`HeaderPlace` is the place of a header word and `InBank` says whether it is among those copied.  The constant
`header_size` is in 64-bit words: the ODB default of 4096 bytes (`amc13_odb.h:141`) is 512.  With 589824 samples
per segment and the block size of the code a fill has some 181 blocks and the bank the headers of
about the first 34.  `PackedFill` is the table of all packed fills, a function so that TLC works out each fill only once.

## 3. Runs

`calo_run` and `calo_reset` use a ring of two buffers: with two, `tcp_thread` can be one
buffer ahead and has to wait for the second, and indices wrap.  The wire, the ring and the
output buffer together hold three fills with the threads at every relative position.
Two runs are needed for anything that begin of run can get wrong.  In `calo_run` the kernels read two
places and the GPU has room for two, and the n-th event of a run has size 4 - n: 3 is too large, so one place
is copied, 2 fits, 1 leaves a place of an earlier fill; and since the size is a global, each
fill can also be copied with the length of the next.  In `calo_reset` all payloads fit, which is
what its half of `HistogramOfFills` asks for.

| run | result | question |
|---|---|---|
| `calo_run` | holds | Triggers in runs, transitions at rest, fair threads, 2 runs of up to 3 fills (odd and even counters at the reset), of which the first is too large for the GPU, the second fits and the third is shorter than the waveforms: the copies of a fill agree as far as its payload was copied (`StagesAgree`), fills are delivered in their run, in order, without a gap (`DeliveredInOrder`), raw banks are the fill's (`RawOfFill`), each bin of a histogram bank counts each fill since its last bank once, also over a begin of run (`HistogramOfFills`; prescale and flush 2, so banks with and without both; `ShortMod = 2`, so the 16-bit fill counter wraps within a run), every triggered fill is delivered (`EventuallyDelivered`), and the frontend implements `FillPipeline`. |
| `calo_reset` | holds | Nothing assumed: triggers and transitions at any moment, two runs of two fills.  Ring and output buffer still have one owner (`RingExclusion`, `OutputExclusion`), an event is of one fill (`DeliveredWhole`), nothing is lost or delivered twice from the pipeline (`NothingOverwritten`), histograms count each fill once and with its own samples (`HistogramOfFills`, payloads fit here), and no step but `begin_of_run` leaves a published fill with nobody told (`ForgottenByStartOnly`). |
| `calo_wedge` | violated | two runs with a stop at any moment: `DataAvailable` |
| `eb_run` | holds | Two channels, two runs of two triggers, one lost fragment, MIDAS calls that fail, abort timeouts, automatic restarts, relaunches, and starts before the previous run is closed: all safety properties, and mevb implements `EventMerger`. |
| `eb_live` | holds | One run with pauses, resumes, a lost fragment, a disabled builder and starts refused for lack of a required channel, with fairness: transitions are served, complete events are merged, a stop closes the run. |
| `eb_flush` | violated | one run, no loss: `CloseLosesNothing` |
| `mt_run` | holds | One readout frontend and two simulators, two runs, each with any of the trigger sources, two triggers at any time, all interleavings of the master's threads, under `QuietStop`: a trigger goes to a busy simulator only in a run in which the two threads have overlapped (`BusyOnlyByOverlap`), events stay in step until then (`SerialsAgree`), fills come while the readout is in the run (`FillsInRun`), the frontends get ready again (`ReadyAgain`), a stop is served (`StopServed`), and master and simulators implement `FillBarrier`. |
| `mt_race` | violated | one simulator, self-generated triggers, one run: `OnlyIdleGetEof`, without exception for the overlap |
| `isl_run` | holds | Two detectors, nine samples, any hits in seven of them, all four options and both pedestals, two warps of four lanes (one comes round a second time), fill after fill: hits keep their neighbours (`HitsHaveNeighbours`), windows within one warp's samples are exact (`WindowsExact`), the output can be read back (`OutputReads`). |
| `isl_race` | violated | eight samples in warps of two lanes, three presamples, one or two hits: `WindowsWhole` |
| `link_run` | holds | Two modules of two channels, three blocks per fill, two runs, with and without Rider format and repeated events, short reads, and a connection that breaks at any moment of the last run: the GPU finds the fill's waveforms (`WaveformsFound`), the header bank has the fill's headers as far as it goes, and the tail is the fill's (`HeadersOfFill`), no event is sent half made (`SentWhole`), an EOF brings READY and the data (`EofBringsFill`). |
| `link_truth` | violated | three fills of one run: `TruthOfFill` |

Bounds of the event builder's runs.  Two channels suffice for a mismatch, for a
loop that decides on one channel with another's stale count, and for the order of the
channels.  `TIMEOUT` is 1 empty poll and the count saturates at `TIMEOUT + 1`, since the
code only compares it with `TIMEOUT` and with 0.  One tick of `clock` stands for more than
`TIMEOUT_ABORT` seconds, so `TIMEOUT_ABORT` is 0 ticks and one tick is enough for a
channel to be late.  Two triggers give a first, a next and a lost one.

Bounds of the master's runs.  Two synchronous slaves are needed for one that is ready and one
that is not, and an asynchronous one for READYs at odd times; its index is lower, as in
`experiment.h`.  Two runs show what is carried over.  Two triggers are one that is
accepted and one that meets busy slaves, ready ones, or the overlap; two waiting `EOF`s are enough for one
to be merged and its rest to be unexpected.  `BusyOnlyByOverlap`, `SerialsAgree`, `ReadyAgain` and `StopServed` leave the
parallel port aside: there the main thread itself waits for triggers inside `rpc_g2_ready`, so
the threads overlap in every fill, and with neither thread sure to get the next trigger nothing
makes a stop come through.  In `mt_run` the parallel port takes part in `TypeOK` and `FillsInRun`.

Bounds of the kernels' runs.  Nine samples and two warps of four lanes give a warp with the
samples in the middle and one with both ends, neighbours in the same and in the other warp, and
a second turn of the loop in which the warp is only partly used.  The two samples
without hits only bound the number of fills.  One presample and one postsample are enough for
windows to meet, to overlap and to be cut off at the ends; for the race three presamples reach
beyond a neighbour.  `WORD = 4` makes times and lengths need their second word.  `gpu_data_proc_size_max = 70`
bytes is exceeded by some of the fills.

Bounds of the link's runs.  Blocks of six words instead of 4096 give three blocks with
the Rider format (a first, a middle and a last, shorter one) and one without it.
Three of the four channels are simulated, so that one is filled with zeros.  `header_size = 8` and
`BlockHeaders = 2` cut the headers of a Rider fill in its second block, and not those of the other format.  Reads may stop after one
word, after four, or at the end.  Two runs of two fills and one show what is carried over.

Deadlock is checked in the runs of `CaloReadout` and `EventBuilder`; none is reported because
the main threads always have a step (MIDAS calls the frontend again and again, mevb's loop goes
on, or mevb has exited and can be started again).  `MasterTrigger` has no step for idle loops,
so it stops when triggers and runs are used up, or when both threads wait for the parallel port.
`AMC13Link` stops when all fills are sent or the connection has broken: `ReadXBytes` then spins
without changing anything.  `IslandKernels` never stops, and deadlock is checked there.

### Fairness

`CaloReadout`: weak fairness of each thread, which is what an operating system gives a
runnable thread, and strong fairness of `GpuPublish`: `gpu_thread_1` waits for `mutex_midas`,
which the main thread lets go again and again; a mutex that is released for
20 microseconds in each cycle is assumed to be had in the end.  Triggers and transitions
get no fairness.

`EventBuilder`: weak fairness of mevb's steps.  Strong fairness of `Statistics` (the
once-per-second job comes round although the other branch is always possible) and of
`Callback` (a transition that waits is served if mevb yields again and again: MIDAS calls it
within that `cm_yield`), and of `ReceiveError`: the job is due at most once a second, so not in every
scan that meets an error.  Weak fairness of the frontends' part of a transition
and of a transition that no mevb has to serve.  Fragments, losses, ticks and the
operator get none.

`MasterTrigger`: weak fairness of the trigger thread, the main thread and each slave.  The trigger
thread unlocks its mutex in every iteration and sleeps before it locks it again
(`frontend.c:1043-1045`, "Otherwise cannot lock the thread elsewhere"), so that `end_of_run` gets
it between two triggers is assumed.  The server has weak fairness for receiving commands and for
waking a fill.  Triggers and transitions get none.

`AMC13Link`: weak fairness of the simulator thread, `tcp_write`, the making of the event and `tcp_thread`.
EOFs, runs and faults get none.

## 4. What the violated runs show

1. **Forgotten output** (`calo_wedge`).  `begin_of_run` clears `data_avail` (`frontend.cpp:676`).
   If a fill of the previous run had been published and not picked up, it holds
   the output mutex, nobody will poll it, and `gpu_thread_1` waits for ever.
2. **Complete events discarded at a stop** (`eb_flush`).  A stop served inside the timeout loop
   (`mevb.c:446`) makes the next channel of the same loop close the run on a count made before
   the stop; events whose fragments have meanwhile arrived are flushed.
   `CloseAfterScanLosesNothing` shows that this is the only way.
3. **A busy slave counts as ready** (`mt_race`).  `send_eof` clears `all_frontends_ready`, then the
   slaves' flags one by one.  The readout frontend, with a lower index, answers its EOF at once.
   If the main thread handles that READY before the flag of a simulator has been cleared, all
   flags of the last fill are still set, and `all_frontends_ready` is set while
   the simulators work.  `BusyOnlyByOverlap` shows that, with a quiet stop, such overlaps of the two threads are
   the only way.  The next trigger is sent to them; a simulator has one `data_avail`, so it may
   make one event for two triggers, and its serial numbers are off by one from then on.
4. **Presamples depend on the order of warps** (`isl_race`).  A thread finds out whether its hit begins
   an island by looking at the sample before it (`kernel.cu:547`), to which the warp of a later hit may
   already have added.  If so, the earlier hit's presamples are not kept.
5. **The truth of the first event** (`link_truth`).  `simulator_event` grows with every event and is
   never cleared, and `tcp_write` copies from its beginning (`tcp_server.cpp:309`).

More behaviours were met and are kept out of the passing runs by their constants:

- Raw data of another fill: `gpu_thread_1` copies raw data when `fill % prescale = 0`
  (`gpu_thread.cpp:210`), the main thread makes the raw bank when `(fill + offset) % prescale = 0`
  (`frontend.cpp:989`), and the default offset is 1.  With `PrescaleOffsetRaw = 1` `RawOfFill` fails.  It
  also fails when the 16-bit counter of `gpu_thread_1` wraps and the prescale does not divide 65536, since the
  main thread counts in 24 bits.
- Samples of another fill: the length of the copy to the GPU is that of the fill read last
  (`tcp_thread.c:400`, `gpu_thread.cpp:199`), and 1 byte if that is too large (`gpu_thread.cpp:221`).
  The kernels run over all waveforms in any case, so behind the copy results and histograms are made of
  samples of earlier fills, and are added to the histogram a second time.  `StagesAgree`, `DeliveredWhole` and
  `HistogramOfFills` say what holds of such fills: each result is the fill's own as far as its payload was copied, and
  each bin counts each fill once; that a bin's samples are the fill's own too is claimed under
  `PayloadsFit` (every payload has all the waveforms and goes into the GPU's buffer), and fails in `calo_run` without it.
- Histograms are not zeroed between runs: the fills after a run's last flush are in the first bank of the
  next run.  `HistogramOfFills` counts them there.
- Start-up: with `SPECIFICATION EarlyThreadSpec`, ring 2 and 3 fills, `NothingOverwritten` fails.  `tcp_thread` has
  locked its first buffer before the mutexes are initialised; one lap later it does not wait for
  `gpu_thread_1`, which may still have that buffer, and overwrites the fill in it.
- Most headers are not in the header bank: see `AMC13Link` above.  What is there is the fill's, in order
  (`HeadersOfFill`).
- A stopped run that is not closed: with a fragment missing beyond the abort timeout the scan leaves before
  the loop that closes the run (`mevb.c:434`), so after the stop it asked for itself mevb neither calls
  `eb_end_of_run` nor closes its buffers.  `StopClosesUnlessBad` excepts this.
- DAQenable drops its own trigger: `frontend_loop` clears `all_frontends_ready` when it writes DAQenable
  (`MasterGM2/frontend.c:553`), and `send_eof` asks for that flag when the trigger arrives (`1531`), and drops it.
- An EOF that comes before the simulator thread has locked its mutex again finds the event of the fill
  before, and sends it under the new fill's number; `tcp_server.cpp:71` says the mutex is there so that
  events are different.  Likewise an EOF before the first event sends an empty one.
- Data left out: the packer's protection against reading beyond the simulated data adds an offset in 16-bit
  samples to a length in 64-bit words (`pack_amc13_data.c:203`, `225`).  Without the Rider format a
  block of which a quarter or less is simulated is left out, simulated part and all.  With the default sizes a
  block is simulated as a whole or not at all.
- A `tcp_write` that fails returns an error and the frontend makes no event and sends no READY, so the
  master sends no further EOF; a short write (`tcp_server.cpp:360`) is not noticed.
- After the end of the stream or a second read error `ReadXBytes` never returns, so `tcp_thread` spins and
  the readout delivers nothing more until it is restarted (`tcp_thread.c:526`).
- A run stopped while fills are on the wire, in the ring or in the output buffer leaves them there:
  `frontend.cpp:495` says "have readout stop last to ensure it get data from simulator", but nothing
  in the readout's `end_of_run` waits, and `tcp_client_eor` and `gpu_eor` do nothing.  Such a fill is not
  lost or doubled inside the pipeline (`NothingOverwritten`, `calo_reset`); it is delivered in the next
  run, so `DeliveredInOrder` fails without `DrainedStop`, or forgotten by the next begin of run (`calo_wedge`).
- With the parallel port both threads of the master read the driver, and the read waits.  The thread
  whose trigger the other one took waits for the next, the trigger thread with its mutex
  locked, so that `end_of_run` waits as well.
- A stale READY in the next run, and the start order of `AMC13Simulator`: see `MasterTrigger` above.

- A run that is stopped while paused is not closed until the next start: the loop only
  scans, and so only closes, while `run_state` is running (`mevb.c:388`).
- A start that finds no required channel is refused after it has replaced the required
  channels (`mevb.c:740-748`).  While the previous run is being drained, the empty
  set of channels is then "complete" and empty events are written.  So `eb_run` requires all
  channels, and refused starts are in `eb_live`, where a start waits for the close.
- After an error mevb closes its buffers and asks MIDAS to stop the run; if that is refused
  and the run is paused and resumed, `tr_resume` makes mevb scan buffers that are closed:
  `PollsBooked` fails with errors and pauses together, and mevb then exits, unless its statistics job is due.
- `mevb.c:1042-1044` says of a mismatch that it "will abort the event builder but not stop the
  run for now"; `scan_fragment` calls `cm_transition(TR_STOP)` (`mevb.c:480`).

## 5. What is proved

Every theorem holds for all values of the constants that the `ASSUME`s of its module admit and that its
own hypotheses, named in its statement, single out.  A hypothesis is there because what is meant fails
without it, and the text below says how.

`CaloReadoutProofs` proves, from `ReadoutAssumption` (the constants are numbers, the ring has at
least one buffer, moduli are not zero) and for every ring size, number of fills and runs,
set of sizes and settings, with triggers and transitions at any moment:

| theorem | statement | rests on |
|---|---|---|
| `TypeCorrect` | `Spec => []TypeOK` | - |
| `RingIsExclusive` | `Spec => []RingExclusion` | `TypeOK` |
| `OutputIsExclusive` | `Spec => []OutputExclusion` | `TypeOK` |
| `StagesStayTogether` | `Spec => []StagesAgree` | `TypeOK`, `RingExclusion`, `OutputExclusion` |
| `DeliveredIsWhole` | `Spec => []DeliveredWhole` | `StagesAgree` |

`RingExclusion` is inductive as it stands because it states, beside exclusion, who may hold the
two mutexes: a full buffer (ready unlocked) is always locked on the other side.  `tcp_thread`
gets a buffer only with `avail` unlocked, hence neither owned nor full, and
`gpu_thread_1` only a full one.  No counter appears in it, so the races on the counters
cannot break it: this is why the reset under running threads is harmless for the data.
`OutputExclusion` is the same argument for the output buffer with three owners in a circle.
`DeliveredWhole` is not inductive: a delivered event agrees because the copies in the output
buffer agreed, and they because the copies in the ring did.  `StagesAgree` is that chain, and
needs both exclusions for "nobody writes here meanwhile".  Both speak of the GPU's memory as far as the
payload was copied (`CopiedFrom`), so they need no hypothesis on sizes: an oversized payload, or one copied
with the length of another fill, is a case of the proof.

`CaloDeliveryProofs` adds what needs the places of all fills at once:

| theorem | statement | hypothesis |
|---|---|---|
| `FillsArePlaced` | `Spec => []Placed` | - |
| `NothingIsOverwritten` | `Spec => []NothingOverwritten` | - |
| `RawBankIsOfFill` | `Spec => []RawOfFill` | `PrescalesAgree` |
| `SamplesAreOfFill` | at every place the processed bank of a delivered event is made of its own fill | `PayloadsFit` |
| `HistogramsHoldFillsOnce` | `Spec => []HistogramOfFills` | `PrescalesAgree` |

`NothingOverwritten` compares sets, so it can lose a fill unseen when two stages hold the same one.
`Placed` strengthens it: a fill is at one stage (`OneStage`), no fill is missing (`AllPlaced`), a stage
holds it once (`OnePlace`), and a new fill gets a new number (`Numbered`).  A step then either stays or
moves one fill from a stage to the next, and `MoveKeepsPlaces` does the rest.
`PrescalesAgree` says that the two threads select the same fill numbers: `gpu_thread_1` with its 16-bit
counter, the main thread with the trigger number and the ODB offset.  The default offset of 1 breaks it, and so
does `RawOfFill` (section 4).  `RawKept` says which fill's raw data are in the output buffer from the copy to
the bank.  `HistogramsKept` says for each bin, of each place it passes through, that it counts the fills
delivered since its last bank and the one in the output buffer: bins are flushed each at its own time when lengths
differ.  `BanksKept` is the same of the delivered banks, and is the first half of `HistogramOfFills`.
The second half, whose samples they are, is `OwnBins` and has the hypothesis `PayloadsFit` in the property:
`Sized` then gives every length on the way at least the waveforms, so that `GpuCopy` leaves nothing
of an earlier fill (`WholeCopy`).  Without `PayloadsFit` the short copy is real and the samples are the
earlier fill's (section 4).

`CaloOrderProofs` first shows what a lost output can come from, whatever the timing, and then assumes
the timing of the experiment, `TriggersInRun` and `DrainedStop`:

| theorem | statement | hypotheses |
|---|---|---|
| `StartForgets` | `Spec => ForgottenByStartOnly` | - |
| `FillsAreCounted` | `Spec => []Timed` | `TriggersInRun`, `DrainedStop` |
| `FillsInOrder` | `Spec => []DeliveredInOrder` | the same |
| `FillsQueueUp` | `Spec => Pipeline!Spec`, the refinement of `FillPipeline` without its fairness | the same |

`Timed` is the invariant about the counters: during a run (`Counts`) `TCPfillnumber`, `GPUfillnumber`, both
ring indices and the number of the last delivered fill are those that the places of the fills give, with
the cases of a thread between the load and the store of an increment; between runs (`AtRest`) both threads
wait for a fill; and while `begin_of_run` resets the counters (`Starting`) no thread has loaded one.
`CurrentRun`, that all fills in flight are of the current run, is a lemma on the way and follows
almost from the hypotheses; what is proved from it, that counters and ring indices stay together through resets and
increments, does not.  Without `DrainedStop` a fill left behind comes out in the next run, and without
`TriggersInRun` the fills after a stop are counted in it.
`FillsQueueUp` is the safety part of `ImplementsPipeline`; its fairness is left to `calo_run`.

`EventBuilderProofs` and `EventMergerProofs`, for any number of channels and any settings, with lost
fragments, errors, aborts, restarts and relaunches:

| theorem | statement | hypotheses |
|---|---|---|
| `TypeCorrect` | `Spec => []TypeOK` | `NoPause`, `SomeRequired` |
| `PollsOpenBuffers` | `Spec => []PollsBooked` | the same |
| `HeldIsOfThisRun` | `Spec => []HeldOfThisRun` | the same |
| `SpawnedOnce` | `Spec => []SpawnsOnce` | - |
| `ClosingLosesNothing` | `Spec => CloseAfterScanLosesNothing` | the same and `AlwaysOn` |
| `EventsAreWhole` | `Spec => []MergedWhole` | `NoPause`, `SomeRequired` |
| `EventsInOrder` | `Spec => []MergedInOrder` | the same |
| `BuilderIsMerger` | `Spec => ImplementsMerger` | the same |

The inductive invariant is `Running`: where mevb may be while a transition is under way (`Transitions`), which
buffers it has open there (`Scanning`), and that whatever waits in an open buffer or is held for a
required channel is of the current run (`OfThisRun`).  Types need all of it: `pfragment` is null
between runs, and only `OfThisRun` says that a channel that counts as received has one.  `NoPause`: after an
error `close_buffers` has let the fragments go, and a run that is then paused and resumed is scanned all
the same, with closed buffers (section 4), so `PollsBooked` and `TypeOK` fail with errors and pauses together.
`SomeRequired`: with no required channel an empty event is complete.  `AlwaysOn` (the builder
enabled): a disabled builder reads and merges nothing, and closing a run then loses what has come.
`Ordered` looks at a channel's queue as a whole, the fragment held and those in its buffer: it is ordered
(`QueuesOrdered`) and behind what was merged of it (`EventsBefore`).  Every step leaves the queues alone,
adds at an end, takes all heads at a merge, or leaves none; these four are the steps of
`EventMerger`, so the refinement follows from the same lemmas.

`MasterTriggerProofs`, for any number of slaves of both kinds, runs and triggers and all sources of triggers:

| theorem | statement | hypotheses |
|---|---|---|
| `TypeCorrect` | `Spec => []TypeOK` | - |
| `TriggerThreadSuspended` | outside runs and while `end_of_run` sleeps the trigger thread is at its mutex, which is locked | - |
| `FillsOnlyInRun` | `Spec => FillsInRun` | `QuietStop`, `SimStartSeq > 500` |
| `AcceptedWhenIdle` | `Spec => BusyOnlyByOverlap` | `QuietStop` |
| `SerialNumbersAgree` | `Spec => []SerialsAgree` | the same |
| `MasterIsBarrier` | `Spec => ImplementsBarrier` | the same |

`Control` relates the two program counters and the mutex and needs no hypothesis.  `NothingLeft` says that
a slave outside the run has no message left, which is what `QuietStop` gives.  `OneToken` is the
heart: for each simulator exactly one of its ready flag, an EOF on its way, its data and a READY on its way
is there, so that all flags set means no simulator has anything to do.  `Armed` connects the flags to
`all_frontends_ready`.  Neither assumes that the master's threads keep apart: all interleavings are steps of the
proof, and both invariants are claimed of a run until the first overlap in it (`~ overlapped`) and again when it
has ended (`Barriered`).  That is also as far as the code goes: with the overlap the flags of the last fill
are counted again (`mt_race`).  So `AcceptedWhenIdle` says that the overlap is the only cause of a busy slave's EOF.
Without `QuietStop` a READY of the last run is a second token.  `Histories` gives the n-th
event of a slave the trigger that the n-th EOF carried; `TriggersCounted` numbers triggers in the order they come.
`SimStartSeq > 500`: at 500, the default `AMC13Simulator` keeps, a simulator may be in the run
before the readout is.  The barrier's state is the members of the run, whether it is being stopped, the
fills and each slave's events (`Members`, `Closing`, `Fills`, `Events`).

`IslandKernelsProofs`, for fills, grids, warps, windows and thresholds of any size and any order of the warps;
no hypothesis:

| theorem | statement |
|---|---|
| `TypeCorrect` | `Spec => []TypeOK`, which includes that islands get different numbers |
| `HitsKeepNeighbours` | `Spec => []HitsHaveNeighbours` |
| `WindowsAreExact` | `Spec => []WindowsExact` |

`HitsExtended` says of each warp what its program counter and pass stand for (`WarpExtends`): hits of finished
passes have their neighbours, and of the pass under way those lanes have them that have left the step which
looks.  Marks are only added, so no other warp can undo it.  `HitsExact` is about fills in which every
window lies in one warp's samples (`Local`): then no warp marks a sample another one looks at, so a lane
finds the neighbours as the threshold kernel left them (`Untouched`), and hits that begin or end a group
extend it by the whole window (`LeadBetween`, `TrailBetween`).  Without `Local` this is the race of `isl_race`.

`AMC13LinkProofs`, for any number of modules, channels and segments, any lengths of waveforms and blocks, and
fills and broken connections at any moment:

| theorem | statement | hypotheses |
|---|---|---|
| `EventIsLocked` | `mutex_data` is locked while the simulator makes an event or `tcp_write` packs one, never both | - |
| `FillsAreWhole` | `Spec => []SentWhole` | `FirstBlockHasData` |
| `FillIsOneEvent` | all waveform words of the fill sent last are of the one event that was sent | the same |
| `VariablesAreTyped` | `Spec => []TypeOK` | `FirstBlockHasData`, `ReaderKnowsBlocks` |
| `HeadersAreOfFill` | `Spec => HeadersOfFill`: of the header bank as far as `header_size` goes | the same |
| `WaveformsAreFound` | `Spec => []WaveformsFound` | the same and `PartsCopied` |

`Locked` is the invariant of the two mutexes; `mutex`, which `tcp_write` unlocks for the simulator
thread, is not needed in it.  `Kept` says of the packed fill that its waveforms are of the event sent
last (`FillOf`), which a repeated first event keeps.  `Counted` bounds events and fills, so that
`PackedFill` is only asked for fills in its table.  The packer's output is a concatenation of
concatenations, and `FlattenSeq` is a recursive function: `FlattenIsFlat` and `FlattenTyped` do the
induction over it by a least counterexample, from the well-foundedness of the numbers.
`FirstBlockHasData`: blocks have more than four words, so that the first sample comes after the Rider's
headers in the first block, and more than a quarter of a module is simulated (4096 words, and 54
segments with five channels per module).  The packer leaves out what it takes to be beyond the
simulated data, with an offset in samples and a length in words; without the hypothesis a fill can be
sent without any waveform.

The other half of the module is about the reader.  `Shape` gives for every place of a packed fill what
the word there can be (`Fits`): the header words, the tails, and in the data the sample that a segment
has at that place, if it has one (`Wanted`).  `PackedShape` proves it of `pack_amc13_data`, with the
places written as sums over the blocks before (`Before`, `DataAt`, `TailAt`), and `NextShaped` keeps it
when the first event is repeated under a new number.  `Carries` says that the words on the way are
those of the fills not yet read, but for `cut` words of the first, and how many they are while the
connection is whole. `Stage(b)` says what the reader has of a fill when it is in block `b`: the header
words up to `nextHeader`, the places of the modules, how much of each module's data is in the buffer
and that it is what is wanted there (`Has`). `Place(b)` is the number of words the reader has taken,
computed from its program counter. The invariant is `Reader`: for some block the stage holds and the
stream carries the fills from `Place(b)` on (`InStep`), or the connection is lost and nothing more will
come (`Lost`).  It is inductive with `Locked`, `Counted` and `Shaped`.  The steps of a read that
returns part of what was asked for only move words from the wire to `buf`; when all is there, there is
one lemma per `ReadXBytes` of `readAndUnpack` (`FedCDF` to `FedTail`).  `StaleRead` is the read that
fails and leaves its destination as it was: the reader goes on, once, and then waits for ever.  Only if
it was the tail that was missing is the fill handed on, complete but for it, which is why the tail is
claimed only while the connection is up.

`ReaderKnowsBlocks`: the reader takes the size of a first block from the ODB (32768 bytes,
`amc13_odb.h:142`) and the packer has 4096 words in its code; with another value the reader is out of
step from the first fill of two blocks on, and TLC finds `EofBringsFill` violated.  `PartsCopied`: a
part of a module's data that begins before the end of what is simulated also ends enough before it, by
the packer's mixed measure, to be copied; with waveforms of whole blocks, as in the code (589824
samples are 36 blocks), that is so.  Without it the last waveform can be left out (five channels per
module, six segments and waveforms of one word are enough).  `MCAMC13Link` assumes all three, so TLC
checks that the runs are instances of the theorems.

Only model-checked:

- Everything temporal under fairness: `EventuallyDelivered` and the fair part of `ImplementsPipeline`,
  `TransitionsServed`, `CompleteIsBuilt`, `StopClosesUnlessBad`, `ReadyAgain`, `StopServed`, `EofBringsFill`.
  TLAPS does not reason about `ENABLED`.
- `OutputReads`: its reader follows the table recursively and the rooms are a sum over the islands;
  what these compute for a table of any length needs an induction over the table.

## 6. What is not modelled

- Contents of banks, byte order, formatting, statistics, logging: no property is about them.
- In `CaloReadout` a `read` step always gets a whole event; `AMC13Link` has its parts and errors.
- In the kernels: the CTAG counter (third header word), the histogram kernel (its 16-bit sums over fills are
  sets of samples in `CaloReadout.HistogramOfFills`), byte swapping and other code that is switched off, and
  sums beyond 16 bits.
- In the AMC13 simulator: the physics of an event, set-up of the sockets, its end of run, and the
  truth bank's memory: `truthdata` is sized from `simulator_event.size()` without a lock, and the
  thread is created before its random numbers are set up (`simulator.cpp:168-174`).
- In the trigger server: BOF messages (`eof_only` is the default), the GPIO library, keyboard interrupts.
- The SR and timing banks, which need the master's messages.
- In the master: RPCs that fail, a `begin_of_run` that fails half-way (the mutex is then left locked, or
  the trigger thread runs outside a run), pause and resume (refused), the TRIG bank's time stamps.
- In the driver: module load, signals, asynchronous notification, port set-up.
- Word 18 of the header bank, the GPU fill number, read while `gpu_thread_1` may increment it.
- Wrap of the 32-bit counters: a ring index is the counter modulo the ring size, and the counters
  start anew in each run; the 16-bit fill counter of `gpu_thread_1` is modelled with its modulus
  (`ShortMod`), and wraps in `calo_run`.
- In mevb: `eb_mfragment_add`'s copying, `eb_yfragment_add` (unused), user build and `EB_SKIP`
  (never used by `ebuser.c`), failures of opening or closing a buffer.
- `CaloRiderSimulator`, ODB access, AMC13 registers, analyzer, displays.

## 7. Plan

In this order; the first two are done.

1. Done: `CaloReadout` with its abstract queue, refinement and first proofs; `EventBuilder` with
   its abstract merger and refinement; `MasterTrigger` with synchronous and asynchronous slaves, the
   trigger server, and its abstract barrier `FillBarrier`; `AMC13Link` for the byte-level reader, and
   `IslandKernels`.
   Proofs about all of them, with the refinements of `FillPipeline` (its safety), `EventMerger` and
   `FillBarrier`.
2. Done: the reader of `AMC13Link` in step with the stream, and the places of the waveforms
   (`HeadersAreOfFill`, `WaveformsAreFound`).
3. Proofs about `IslandKernels`: that the rooms of the islands are disjoint, then `OutputReads` by induction
   over the table.
4. Failing transitions and RPCs in `MasterTrigger`: a `begin_of_run` that fails in a slave, an EOF or READY
   that is lost.  What MIDAS then tells the frontends that have started is not in the repository.
5. `DaqRun`: the composition of `FillBarrier`, `FillPipeline` and `EventMerger`, for the end-to-end promise
   that the fragments of an event are of one fill, and for the SR bank, whose trigger number comes from
   the RPC and not with the data.
6. Header word 18 (the GPU fill number in the header, read while `gpu_thread_1` increments it).
