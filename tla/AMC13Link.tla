------------------------------ MODULE AMC13Link -----------------------------
(***************************************************************************)
(* A fill on its way from the calorimeter simulator to the readout:        *)
(* frontends/AMC13Simulator makes the waveforms of an event in a thread of *)
(* its own, packs them into Rider modules and AMC13 blocks when the master *)
(* says end of fill, and writes them to a TCP socket; readAndUnpack of     *)
(* frontends/CaloReadoutAMC13 takes the blocks apart and puts the payload  *)
(* of each AMC module together in tcp_buf_gl, where the GPU looks for the  *)
(* waveform of each calorimeter segment.                                   *)
(*                                                                         *)
(* Data are counted in 64-bit words.  A read of the socket returns as many *)
(* words as it likes of those asked for.  The connection may break: closed *)
(* (read returns 0 when all is read) or reset (read returns -1, then 0).   *)
(* The ring of buffers behind tcp_buf_gl is in CaloReadout; here a fill    *)
(* finds in the buffer what the fill before left there.                    *)
(***************************************************************************)
EXTENDS Integers, SequencesExt

CONSTANTS
  nAMC, nCHAN,         \* 11 modules of 5 channels in the code
  calo_segments,       \* segments simulated
  waveform_length,     \* words of a waveform
  BlockWords,          \* words of an AMC13 block: 4096 in the code
  amc_block_size,      \* the reader's ODB value for it, in words
  header_size,         \* the reader's ODB value for the words of the header bank: 512
  BlockHeaders,        \* place of the first block's header in the header: 0x40 in the code
  n_muons_mean,        \* hits of an event
  RiderHeaders,        \* values of "rider_header" in the ODB
  Repeats,             \* values of "repeat_first_event"
  Stops,               \* bound: words at which a ReadXBytes may need another read
  MaxFills,            \* bound: fills in the first run; one less in each run after it
  MaxRuns,             \* bound: runs
  MayBreak             \* the connection may break

AMC == 0 .. nAMC - 1
Chan == 0 .. nCHAN - 1

ASSUME LinkAssumption ==
  /\ {nAMC, nCHAN, calo_segments, waveform_length, BlockWords, amc_block_size} \subseteq Nat \ {0}
  /\ calo_segments <= nAMC * nCHAN
  /\ header_size \in Nat /\ BlockHeaders \in Nat \ {0}
  /\ n_muons_mean \in Nat /\ Stops \subseteq Nat /\ MaxFills \in Nat /\ MaxRuns \in Nat \ {0}
  /\ RiderHeaders \subseteq BOOLEAN /\ Repeats \subseteq BOOLEAN /\ MayBreak \in BOOLEAN

VARIABLES
  settings,            \* ODB: rider_header and repeat_first_event
  run,
  \* simulator thread
  pcSim, mutex, mutex_data, generated,
  data,                \* the waveforms: event number, and whether all is written
  simulator_event,     \* the truth, one entry per hit: the number of its event
  \* main thread of the simulator frontend
  pcFe, truthdata, packed, repeating, EMULATORfillnumber,
  sent,                \* history: the events sent in this run, one per fill
  \* connection
  link, wire,
  \* tcp_thread of the readout
  pcTcp,
  buf,                 \* what the ReadXBytes in progress has read
  header, nextHeader,  \* temporary buffer for the header, and offsetheader
  nWords, amc_header_info, iAMC, dataAMCoffset, datablockoffset, databytes,
  tcp_buf, tail, TCPfillnumber,
  tcp_buf_header, tcp_buf_tail   \* header and tail bank as the GPU thread finds them

simVars == <<pcSim, mutex, mutex_data, generated, data, simulator_event>>
feVars == <<pcFe, truthdata, packed, repeating, EMULATORfillnumber, sent>>
unpackVars == <<header, nextHeader, nWords, amc_header_info, iAMC, dataAMCoffset,
                datablockoffset, databytes, tcp_buf, tail>>
bankVars == <<tcp_buf_header, tcp_buf_tail>>
tcpVars == <<pcTcp, buf, unpackVars, TCPfillnumber, bankVars>>
vars == <<settings, run, simVars, feVars, link, wire, tcpVars>>

-----------------------------------------------------------------------------
(* Words.  num is the fill, event, number of AMCs or size the word carries. *)
Word(kind, num, pos) == [kind |-> kind, num |-> num, pos |-> pos, M |-> FALSE, S |-> FALSE]
None == Word("none", 0, 0)

(* Words of one module: payload, and 3 + 4 per channel of the Rider format. *)
nt_words_store(rider_header) ==
  nCHAN * waveform_length + (IF rider_header THEN 3 + 4 * nCHAN ELSE 0)

(* calo_simulator_thread_info.data for event ev.                            *)
SimWord(ev, i) == Word("wave", ev, i)
SimData(ev) == [i \in 1 .. calo_segments * waveform_length |-> SimWord(ev, i)]

Channel(ev, a, c) ==
  LET iseg == a * nCHAN + c IN
    << Word("chanhead", 0, c), Word("chanhead", 0, c) >>
      \o [i \in 1 .. waveform_length |-> IF iseg < calo_segments THEN SimWord(ev, iseg * waveform_length + i)
                                                                  ELSE Word("zero", 0, 0)]
      \o << Word("chantrail", 0, 0), Word("chantrail", 0, 0) >>

pack_rider_data(ev) ==
  FlattenSeq([m \in 1 .. nAMC |->
    << Word("modhead", 0, 0), Word("modhead", 0, m) >>
      \o FlattenSeq([c \in 1 .. nCHAN |-> Channel(ev, m - 1, c - 1)]) \o << Word("modtrail", 0, 0) >>])

(* Words from + 1 .. from + nb_words of the source: not copied if the       *)
(* protection says so, and past the end of the data whatever is there.      *)
Payload(source, from, nb_words) ==
  [k \in 1 .. nb_words |-> IF 4 * from + nb_words < 4 * Len(source) /\ from + k <= Len(source)
                           THEN source[from + k] ELSE None]

(* Words of each module, of nt_store in all, in block b.                    *)
InBlock(nt_store, b) ==
  IF nt_store - b * BlockWords <= BlockWords THEN nt_store - b * BlockWords ELSE BlockWords

Block(source, nt_store, b, n) ==
  LET nt_words == nt_store - b * BlockWords
      nb_words == InBlock(nt_store, b)
      amc(i) == [Word("AMC", IF b = 0 THEN nt_words ELSE nb_words, i)
                   EXCEPT !.M = nb_words < nt_words, !.S = b > 0]
  IN << Word("AMC13", nAMC, 0) >> \o [i \in 1 .. nAMC |-> amc(i - 1)]
       \o FlattenSeq([i \in 1 .. nAMC |-> Payload(source, b * BlockWords + (i - 1) * nt_store, nb_words)])
       \o << Word("blocktail", n, b) >>

nBlocks(rider_header) == (nt_words_store(rider_header) + BlockWords - 1) \div BlockWords

pack_amc13_data(rider_header, ev, n) ==
  LET source == IF rider_header THEN pack_rider_data(ev) ELSE SimData(ev)
      blocks == FlattenSeq([b \in 1 .. nBlocks(rider_header) |-> Block(source, nt_words_store(rider_header), b - 1, n)])
  IN << Word("CDF", n, 0) >> \o blocks \o << Word("CDFtrailer", 1 + Len(blocks), 0) >>

(* All fills there can be; event -1 is one that is still being made.        *)
PackedFill ==
  [rider_header \in BOOLEAN |->
     [ev \in -1 .. MaxFills * MaxRuns + 1 |->
        [n \in 0 .. MaxFills - 1 |-> pack_amc13_data(rider_header, ev, n)]]]

-----------------------------------------------------------------------------
Init ==
  /\ settings \in [rider_header : RiderHeaders, repeat_first_event : Repeats]
  /\ run = 1
  /\ pcSim = "lock" /\ mutex = FALSE /\ mutex_data = FALSE /\ generated = 0
  /\ data = [event |-> 0, whole |-> TRUE] /\ simulator_event = <<>>
  /\ pcFe = "ready" /\ truthdata = <<>> /\ packed = <<>> /\ repeating = FALSE
  /\ EMULATORfillnumber = 0 /\ sent = <<>>
  /\ link = "up" /\ wire = <<>>
  /\ pcTcp = "CDF" /\ buf = <<>>
  /\ header = [w \in 0 .. nBlocks(settings.rider_header) * (nAMC + 2) |-> None] /\ nextHeader = 1
  /\ nWords = 0 /\ iAMC = 0 /\ databytes = 0
  /\ amc_header_info = [i \in AMC |-> None]
  /\ dataAMCoffset = [i \in AMC |-> 0] /\ datablockoffset = [i \in AMC |-> 0]
  /\ tcp_buf = [w \in 0 .. nAMC * nt_words_store(settings.rider_header) - 1 |-> None] /\ tail = None
  /\ TCPfillnumber = 0
  /\ tcp_buf_header = header /\ tcp_buf_tail = tail

-----------------------------------------------------------------------------
(* calo_simulator_thread: one event per release of mutex, which tcp_write   *)
(* gives and the first time is free.  mutex_data protects the event.        *)
SimLock ==
  /\ pcSim = "lock" /\ ~mutex
  /\ mutex' = TRUE /\ pcSim' = "lockdata"
  /\ UNCHANGED <<settings, run, mutex_data, generated, data, simulator_event, feVars, link, wire, tcpVars>>

SimKeepsEvent ==
  /\ pcSim = "lockdata" /\ ~mutex_data
  /\ generated > 0 /\ settings.repeat_first_event
  /\ pcSim' = "lock"
  /\ UNCHANGED <<settings, run, mutex, mutex_data, generated, data, simulator_event, feVars, link, wire, tcpVars>>

SimStartsEvent ==
  /\ pcSim = "lockdata" /\ ~mutex_data
  /\ generated = 0 \/ ~settings.repeat_first_event
  /\ mutex_data' = TRUE /\ data' = [event |-> generated + 1, whole |-> FALSE]
  /\ pcSim' = "generate"
  /\ UNCHANGED <<settings, run, mutex, generated, simulator_event, feVars, link, wire, tcpVars>>

(* Mutant: the thread leaves with mutex_data locked.                        *)
SimEndsEventLocked ==
  /\ pcSim = "generate"
  /\ generated' = generated + 1 /\ data' = [data EXCEPT !.whole = TRUE]
  /\ simulator_event' = simulator_event \o [h \in 1 .. n_muons_mean |-> generated']
  /\ pcSim' = "lock"
  /\ UNCHANGED <<settings, run, mutex, mutex_data, feVars, link, wire, tcpVars>>

(* The hits of each event are added to simulator_event, which nobody clears. *)
SimEndsEvent ==
  /\ pcSim = "generate"
  /\ generated' = generated + 1 /\ data' = [data EXCEPT !.whole = TRUE]
  /\ simulator_event' = simulator_event \o [h \in 1 .. n_muons_mean |-> generated']
  /\ mutex_data' = FALSE /\ pcSim' = "lock"
  /\ UNCHANGED <<settings, run, mutex, feVars, link, wire, tcpVars>>

-----------------------------------------------------------------------------
(* The simulator frontend: rpc_g2_end_of_fill calls tcp_write.              *)
rpc_g2_end_of_fill ==
  /\ pcFe = "ready" /\ Len(sent) + run <= MaxFills
  /\ pcFe' = "lock"
  /\ UNCHANGED <<settings, run, simVars, truthdata, packed, repeating, EMULATORfillnumber, sent,
                 link, wire, tcpVars>>

calo_simulator_hits == IF generated > 0 THEN n_muons_mean ELSE 0

(* Mutant: the first fill is repeated with its number.                      *)
RepackKeepsNumber ==
  IF settings.repeat_first_event /\ repeating
  THEN packed
  ELSE PackedFill[settings.rider_header][IF data.whole THEN data.event ELSE -1][EMULATORfillnumber]

Repack ==
  IF settings.repeat_first_event /\ repeating
  THEN [packed EXCEPT ![1] = Word("CDF", EMULATORfillnumber, 0)]
  ELSE PackedFill[settings.rider_header][IF data.whole THEN data.event ELSE -1][EMULATORfillnumber]

EventIn(words) == words[CHOOSE i \in DOMAIN words : words[i].kind = "wave"].num

Pack ==
  /\ truthdata' = SubSeq(simulator_event, 1, calo_simulator_hits)
  /\ packed' = Repack /\ repeating' = settings.repeat_first_event
  /\ sent' = Append(sent, EventIn(packed'))

(* Mutant: the data are packed without waiting for mutex_data.              *)
PackFillUnlocked ==
  /\ pcFe = "lock" /\ pcFe' = "packed"
  /\ mutex_data' = TRUE /\ Pack
  /\ UNCHANGED <<settings, run, pcSim, mutex, generated, data, simulator_event, EMULATORfillnumber,
                 link, wire, tcpVars>>

PackFill ==
  /\ pcFe = "lock" /\ pcFe' = "packed"
  /\ ~mutex_data /\ mutex_data' = TRUE /\ Pack
  /\ UNCHANGED <<settings, run, pcSim, mutex, generated, data, simulator_event, EMULATORfillnumber,
                 link, wire, tcpVars>>

ReleaseData ==
  /\ pcFe = "packed" /\ pcFe' = "release"
  /\ mutex_data' = FALSE
  /\ UNCHANGED <<settings, run, pcSim, mutex, generated, data, simulator_event, truthdata, packed,
                 repeating, EMULATORfillnumber, sent, link, wire, tcpVars>>

ReleaseSimulator ==
  /\ pcFe = "release" /\ pcFe' = "write"
  /\ mutex' = FALSE
  /\ UNCHANGED <<settings, run, pcSim, mutex_data, generated, data, simulator_event, truthdata, packed,
                 repeating, EMULATORfillnumber, sent, link, wire, tcpVars>>

(* A failed write returns FE_ERR_HW: no event is made and READY not sent.   *)
WriteFill ==
  /\ pcFe = "write"
  /\ IF link = "up"
     THEN /\ wire' = wire \o packed /\ EMULATORfillnumber' = EMULATORfillnumber + 1
          /\ pcFe' = "data_avail"
     ELSE pcFe' = "failed" /\ UNCHANGED <<wire, EMULATORfillnumber>>
  /\ UNCHANGED <<settings, run, simVars, truthdata, packed, repeating, sent, link, tcpVars>>

(* poll_event, then read_trigger_event makes the truth bank of truthdata    *)
(* and sends READY.                                                         *)
read_trigger_event ==
  /\ pcFe = "data_avail" /\ pcFe' = "ready"
  /\ UNCHANGED <<settings, run, simVars, truthdata, packed, repeating, EMULATORfillnumber, sent,
                 link, wire, tcpVars>>

(* In the last run, to bound the states: what was sent is read before the   *)
(* end of the stream, and may be lost to a reset.                           *)
LinkBreaks ==
  /\ MayBreak /\ link = "up" /\ run = MaxRuns
  /\ \/ link' = "closed" /\ UNCHANGED wire
     \/ link' = "reset" /\ wire' \in {wire, <<>>}
  /\ UNCHANGED <<settings, run, simVars, feVars, tcpVars>>

-----------------------------------------------------------------------------
(* tcp_thread and readAndUnpack.                                            *)
Info == amc_header_info[0]   \* the bits of module 0 stand for all
blockdatabytes == IF Info.M /\ ~Info.S THEN amc_block_size ELSE amc_header_info[iAMC].num
dataoffset == dataAMCoffset[iAMC] + datablockoffset[iAMC]

Asked == CASE pcTcp = "AMCs" -> nWords
           [] pcTcp = "data" -> blockdatabytes
           [] pcTcp = "publish" -> 0
           [] OTHER -> 1

(* What a ReadXBytes that reads nothing leaves at its destination.          *)
Stale == CASE pcTcp = "CDF" -> << header[0] >>
           [] pcTcp = "data" -> [k \in 1 .. Asked |-> tcp_buf[dataoffset + k - 1]]
           [] pcTcp = "tail" -> << tail >>
           [] OTHER -> [k \in 1 .. Asked |-> header[nextHeader + k - 1]]

ToHeader(words) == header' = [w \in DOMAIN header |-> IF w - nextHeader + 1 \in DOMAIN words
                                                     THEN words[w - nextHeader + 1] ELSE header[w]]

GotCDF(words) ==
  /\ pcTcp = "CDF" /\ pcTcp' = "AMC13"
  /\ header' = [header EXCEPT ![0] = words[1]] /\ nextHeader' = 1
  /\ databytes' = 0
  /\ dataAMCoffset' = [i \in AMC |-> 0] /\ datablockoffset' = [i \in AMC |-> 0]
  /\ amc_header_info' = [amc_header_info EXCEPT ![0].M = TRUE]
  /\ UNCHANGED <<nWords, iAMC, tcp_buf, tail>>

GotAMC13(words) ==
  /\ pcTcp = "AMC13" /\ pcTcp' = "AMCs"
  /\ ToHeader(words) /\ nextHeader' = nextHeader + 1
  /\ nWords' = words[1].num
  /\ UNCHANGED <<amc_header_info, iAMC, dataAMCoffset, datablockoffset, databytes, tcp_buf, tail>>

(* A module's data come after those of the modules before it.               *)
AMCoffset(info) ==
  LET offset[i \in AMC] == IF i = 0 THEN 0 ELSE offset[i - 1] + info[i - 1].num
  IN offset

(* Mutant: the places of the modules are worked out from every block.       *)
GotAMCsEveryBlock(words) ==
  /\ pcTcp = "AMCs" /\ pcTcp' = "data"
  /\ ToHeader(words) /\ nextHeader' = nextHeader + nWords
  /\ amc_header_info' = [i \in AMC |-> IF i < nWords THEN words[i + 1] ELSE amc_header_info[i]]
  /\ dataAMCoffset' = [i \in AMC |-> IF i < nWords THEN AMCoffset(amc_header_info')[i] ELSE dataAMCoffset[i]]
  /\ iAMC' = 0
  /\ UNCHANGED <<nWords, datablockoffset, databytes, tcp_buf, tail>>

(* The header words are decoded; the first block of a fill has the sizes of *)
(* the modules, and so their places in the buffer.                          *)
GotAMCs(words) ==
  /\ pcTcp = "AMCs" /\ pcTcp' = "data"
  /\ ToHeader(words) /\ nextHeader' = nextHeader + nWords
  /\ amc_header_info' = [i \in AMC |-> IF i < nWords THEN words[i + 1] ELSE amc_header_info[i]]
  /\ IF amc_header_info'[0].S
     THEN UNCHANGED dataAMCoffset
     ELSE dataAMCoffset' = [i \in AMC |-> IF i < nWords THEN AMCoffset(amc_header_info')[i] ELSE dataAMCoffset[i]]
  /\ iAMC' = 0
  /\ UNCHANGED <<nWords, datablockoffset, databytes, tcp_buf, tail>>

GotData(words) ==
  /\ pcTcp = "data"
  /\ tcp_buf' = [w \in DOMAIN tcp_buf |-> IF w - dataoffset + 1 \in DOMAIN words
                                          THEN words[w - dataoffset + 1] ELSE tcp_buf[w]]
  /\ datablockoffset' = [datablockoffset EXCEPT ![iAMC] = @ + blockdatabytes]
  /\ databytes' = databytes + blockdatabytes
  /\ IF iAMC + 1 < nWords THEN iAMC' = iAMC + 1 /\ pcTcp' = "data"
                          ELSE iAMC' = iAMC /\ pcTcp' = "blocktail"
  /\ UNCHANGED <<header, nextHeader, nWords, amc_header_info, dataAMCoffset, tail>>

GotBlockTail(words) ==
  /\ pcTcp = "blocktail" /\ pcTcp' = IF Info.M THEN "AMC13" ELSE "tail"
  /\ ToHeader(words) /\ nextHeader' = nextHeader + 1
  /\ UNCHANGED <<nWords, amc_header_info, iAMC, dataAMCoffset, datablockoffset, databytes, tcp_buf, tail>>

GotTail(words) ==
  /\ pcTcp = "tail" /\ pcTcp' = "publish"
  /\ tail' = words[1]
  /\ UNCHANGED <<header, nextHeader, nWords, amc_header_info, iAMC, dataAMCoffset, datablockoffset,
                 databytes, tcp_buf>>

readAndUnpack(words) ==
  /\ \/ GotCDF(words) \/ GotAMC13(words) \/ GotAMCs(words)
     \/ GotData(words) \/ GotBlockTail(words) \/ GotTail(words)
  /\ buf' = <<>>

(* One read of the socket; with the last of a ReadXBytes, readAndUnpack     *)
(* goes on to the next.                                                     *)
Read ==
  /\ \E k \in {got - Len(buf) : got \in Stops \cup {Asked}} \cap 1 .. Min({Asked - Len(buf), Len(wire)}) :
       LET words == buf \o SubSeq(wire, 1, k) IN
         /\ wire' = SubSeq(wire, k + 1, Len(wire))
         /\ IF Len(words) = Asked
            THEN readAndUnpack(words)
            ELSE buf' = words /\ UNCHANGED <<pcTcp, unpackVars>>
  /\ UNCHANGED <<settings, run, simVars, feVars, link, TCPfillnumber, bankVars>>

(* read returns -1: as the first of a ReadXBytes it makes bytesRead         *)
(* UINT_MAX, and ReadXBytes returns as if it had read all.  From then on    *)
(* read returns 0, and ReadXBytes does not return.                          *)
ReadFails ==
  /\ link = "reset" /\ wire = <<>> /\ Asked > 0
  /\ link' = "closed"
  /\ \/ buf = <<>> /\ readAndUnpack(Stale)
     \/ UNCHANGED <<buf, pcTcp, unpackVars>>       \* some bytes had been read
  /\ UNCHANGED <<settings, run, simVars, feVars, wire, TCPfillnumber, bankVars>>

(* Word 0 of the header is the CDF word.  Words 1, 2, ... stand for those of*)
(* the blocks, which come after the words kept for times: they are in the   *)
(* header bank if they are among its first header_size words.               *)
HeaderPlace(w) == IF w = 0 THEN 0 ELSE BlockHeaders + w - 1
InBank(w) == HeaderPlace(w) < header_size

(* Mutant: the last word of the header bank is not copied.                  *)
PublishOneShort ==
  /\ pcTcp = "publish" /\ pcTcp' = "CDF"
  /\ tcp_buf_header' = [w \in DOMAIN header |-> IF HeaderPlace(w) < header_size - 1 THEN header[w]
                                                                                ELSE tcp_buf_header[w]]
  /\ tcp_buf_tail' = tail
  /\ TCPfillnumber' = TCPfillnumber + 1
  /\ UNCHANGED <<settings, run, simVars, feVars, link, wire, buf, unpackVars>>

(* The buffers go to the GPU thread, whatever was read; of the header,      *)
(* header_size bytes, however many were filled.                             *)
Publish ==
  /\ pcTcp = "publish" /\ pcTcp' = "CDF"
  /\ tcp_buf_header' = [w \in DOMAIN header |-> IF InBank(w) THEN header[w] ELSE tcp_buf_header[w]]
  /\ tcp_buf_tail' = tail
  /\ TCPfillnumber' = TCPfillnumber + 1
  /\ UNCHANGED <<settings, run, simVars, feVars, link, wire, buf, unpackVars>>

-----------------------------------------------------------------------------
(* tcp_server_bor and tcp_client_bor at the start of the next run, with     *)
(* nothing left on the way.                                                 *)
BeginRun ==
  /\ run < MaxRuns /\ pcFe = "ready" /\ link = "up"
  /\ wire = <<>> /\ pcTcp = "CDF" /\ buf = <<>>
  /\ run' = run + 1
  /\ EMULATORfillnumber' = 0 /\ TCPfillnumber' = 0 /\ sent' = <<>>
  /\ UNCHANGED <<settings, simVars, pcFe, truthdata, packed, repeating, link, wire, pcTcp, buf,
                 unpackVars, bankVars>>

Simulator == SimLock \/ SimKeepsEvent \/ SimStartsEvent \/ SimEndsEvent
tcp_write == PackFill \/ ReleaseData \/ ReleaseSimulator \/ WriteFill
tcp_thread == Read \/ ReadFails \/ Publish

Next ==
  \/ Simulator \/ rpc_g2_end_of_fill \/ tcp_write \/ read_trigger_event
  \/ tcp_thread \/ BeginRun \/ LinkBreaks

Spec == Init /\ [][Next]_vars

(* Every thread is scheduled; the master's EOFs and faults need not come.   *)
FairSpec ==
  Spec /\ WF_vars(Simulator) /\ WF_vars(tcp_write) /\ WF_vars(read_trigger_event)
       /\ WF_vars(tcp_thread)

-----------------------------------------------------------------------------
IsWord(w) == DOMAIN w = {"kind", "num", "pos", "M", "S"}

(* Variables have their types; mutex_data is held by the simulator while it *)
(* makes an event or by tcp_write while it packs one, never by both, and by *)
(* nobody else (simulator.cpp:197, tcp_server.cpp:299).                     *)
TypeOK ==
  /\ pcSim \in {"lock", "lockdata", "generate"}
  /\ pcFe \in {"ready", "lock", "packed", "release", "write", "data_avail", "failed"}
  /\ pcTcp \in {"CDF", "AMC13", "AMCs", "data", "blocktail", "tail", "publish"}
  /\ mutex \in BOOLEAN /\ mutex_data = (pcSim = "generate" \/ pcFe = "packed")
  /\ ~(pcSim = "generate" /\ pcFe = "packed")
  /\ \A i \in DOMAIN wire : IsWord(wire[i])
  /\ buf = <<>> \/ Len(buf) < Asked
  /\ link \in {"up", "closed", "reset"}

(* Where cuda_g2_bor_kernel expects the first word of a channel's waveform, *)
(* all Riders and channels being enabled and USE_RIDER_FORMAT set if the    *)
(* simulator writes that format.                                            *)
first_sample_index(a, c) ==
  IF settings.rider_header
  THEN LET channel == 2 + waveform_length + 2
           module == 2 + nCHAN * channel + 1
       IN a * module + 2 + c * channel + 2
  ELSE (a * nCHAN + c) * waveform_length

(* When a fill is handed to the GPU thread, the GPU finds the waveform of   *)
(* each segment at its first_sample_index (kernel.cu:897), and it is that   *)
(* of the event sent for this fill: the packer's format, its blocks of 4096 *)
(* words, what the socket's reads return and the offsets the reader works   *)
(* out (tcp_thread.c:731) fit together, also when the connection breaks.    *)
WaveformsFound ==
  pcTcp = "publish" =>
    \A a \in AMC, c \in Chan, i \in 1 .. waveform_length :
      LET iseg == a * nCHAN + c IN
        iseg < calo_segments =>
          tcp_buf[first_sample_index(a, c) + i - 1]
            = Word("wave", sent[TCPfillnumber + 1], iseg * waveform_length + i)

(* The header words of block b, of n blocks, as far as they are in a bank.  *)
BlockHeads(bank, n, b) ==
  LET at(x) == b * (nAMC + 2) + x IN
    /\ InBank(at(1)) => bank[at(1)] = Word("AMC13", nAMC, 0)
    /\ \A i \in AMC : InBank(at(2 + i)) =>
         LET w == bank[at(2 + i)] IN
           w.kind = "AMC" /\ w.pos = i /\ w.M = (b < n - 1) /\ w.S = (b > 0)
    /\ InBank(at(nAMC + 2)) => bank[at(nAMC + 2)].kind = "blocktail"

(* The header bank that is handed to the GPU thread has the number of the   *)
(* fill and in order, as far as header_size goes (tcp_thread.c:403), the    *)
(* headers of its blocks; the size handed on is that of the data sent, and  *)
(* unless the connection broke the tail is that of the fill: the reader is  *)
(* always in step with the fills in the stream.                             *)
HandsOnHeaders ==
  Publish =>
    /\ InBank(0) => tcp_buf_header'[0] = Word("CDF", TCPfillnumber, 0)
    /\ LET n == nBlocks(settings.rider_header) IN
         \A b \in 0 .. n - 1 : BlockHeads(tcp_buf_header', n, b)
    /\ databytes = nAMC * nt_words_store(settings.rider_header)
    /\ link = "up" => tcp_buf_tail'.kind = "CDFtrailer"
HeadersOfFill == [][HandsOnHeaders]_vars

(* A fill is sent with the waveforms of one event, never with those of an   *)
(* event that calo_simulator_thread is still making (mutex_data,            *)
(* tcp_server.cpp:299).                                                     *)
SentWhole == \A n \in DOMAIN sent : sent[n] # -1

(* An end of fill is followed by READY, and its data arrive: tcp_write and  *)
(* the simulator do not lock each other out, and the reader asks for no     *)
(* word too many; unless the connection breaks.                             *)
EofBringsFill ==
  /\ pcFe = "lock" ~> (pcFe = "ready" \/ link # "up")
  /\ \A n \in 1 .. MaxFills : Len(sent) = n ~> (TCPfillnumber >= n \/ link # "up")

(* The truth bank made for a fill lists the hits of the event whose         *)
(* waveforms were sent: "copy truth data from simulator thread"             *)
(* (tcp_server.cpp:305).                                                    *)
TruthOfFill ==
  pcFe = "data_avail" =>
    \A h \in DOMAIN truthdata : truthdata[h] = sent[Len(sent)]

-----------------------------------------------------------------------------
(* What the theorems suppose of the sizes (AMC13LinkProofs), and the runs   *)
(* too.                                                                     *)

(* The first block of a fill has the beginning of the first waveform in it. *)
(* In the code a block has 4096 words, and 54 segments are simulated, with  *)
(* five channels in a module (amc13simulator_odb.c:120,                     *)
(* pack_amc13_data.h:18).                                                   *)
FirstBlockHasData == BlockWords > 4 /\ nCHAN < 4 * calo_segments

(* The reader's block size is that of the packer: 32768 bytes               *)
(* (amc13_odb.h:142, pack_amc13_data.c:151).                                *)
ReaderKnowsBlocks == amc_block_size = BlockWords

(* The protection at the end of the source, which leaves a part out that    *)
(* ends near it (pack_amc13_data.c:225), leaves out no part that begins     *)
(* with simulated data.  In the code a waveform of 589824 samples is 36     *)
(* blocks (amc13simulator_odb.c:116), so a part that begins before the end  *)
(* also ends before it.                                                     *)
PartsCopied ==
  \A i \in AMC, b \in 0 .. nBlocks(FALSE) - 1 :
    LET nt == nt_words_store(FALSE)
        from == b * BlockWords + i * nt
    IN from < calo_segments * waveform_length
         => 4 * from + InBlock(nt, b) < 4 * (calo_segments * waveform_length)
=============================================================================
