------------------------------ MODULE Directory ------------------------------
(***************************************************************************)
(* The directory controller of the GPU_VIPER protocol                      *)
(* (MOESI_AMD_Base-dir.sm) for ONE cache line, with its L3 victim cache,   *)
(* its DMA port and the stall/wake-up registry of its message buffers.     *)
(* The controller treats lines independently, apart from the replacement   *)
(* choice of the L3, which is the action L3Evict below.                    *)
(*                                                                         *)
(* The caches that talk to the directory are not modelled here: this       *)
(* module has the directory's state, the message buffers, and one action   *)
(* per transition group of the controller.  CoherenceProtocol adds         *)
(* abstract caches, Compound the detailed CorePair and TCC controllers.    *)
(***************************************************************************)
EXTENDS Naturals, Sequences, FiniteSets

CONSTANTS CorePairs,    \* the CorePair controllers (two CPU cores and their L2)
          TCCs,         \* the GPU L2 slice this line maps to: {} or a singleton
          TCPs,         \* the GPU L1 caches, whose writes the TCC passes on
          DMAs,         \* the DMA controllers
          Word,         \* the bytes of the line that the properties tell apart
          Value, Zero,  \* what a word may hold; its initial content
          Functor,      \* Functor[v][x]: what an atomic with operand v makes of x
          NoLine,       \* the L3 does not hold the line
          NoTBE,        \* no transaction buffer entry is allocated
          NoWTR,        \* a message without WTRequestor
          UseL3OnWT,    \* the machine parameter useL3OnWT
          L3First       \* an L3 hit is seen before the last probe response: true
                        \* when l3_hit_latency is below a probe's round trip

Agents == CorePairs \cup TCCs
WTRs   == TCPs \cup TCCs
Line   == [Word -> Value]

ZeroLine == [w \in Word |-> Zero]

(* DataBlock::copyPartial: base with the masked bytes of data.             *)
copyPartial(base, data, mask) ==
  [w \in Word |-> IF w \in mask THEN data[w] ELSE base[w]]

(* DataBlock::atomicPartial: base, with the read-modify-write whose        *)
(* operands are in data performed on its masked bytes.                     *)
atomicPartial(base, data, mask) ==
  [w \in Word |-> IF w \in mask THEN Functor[data[w]][base[w]] ELSE base[w]]

ReadTypes == {"RdBlk", "RdBlkS", "RdBlkM"}
GPUWrites == {"WriteThrough", "Atomic"}
VicTypes  == {"VicDirty", "VicClean"}
DmaTypes  == {"DmaRead", "DmaWrite"}

(* A request.  A GPU write stores data in the words of mask, an atomic has *)
(* its operands there; the response to it carries back who asked for it,   *)
(* wt (WTRequestor).                                                       *)
ReadReq  == [from : Agents, type : ReadTypes, mask : {{}}, data : Line, wt : {NoWTR}]
VicReq   == [from : CorePairs, type : VicTypes, mask : {{}}, data : Line, wt : {NoWTR}]
WriteReq == [from : TCCs, type : GPUWrites, mask : SUBSET Word, data : Line, wt : WTRs]
Request  == ReadReq \cup VicReq \cup WriteReq
DmaReq   == [from : DMAs, type : DmaTypes, data : Line]
Probe    == [to : Agents, type : {"PrbInv", "PrbDowngrade"}]
CPUResp  == [from : Agents, type : {"CPUPrbResp", "CPUData", "StaleNotif"},
             dirty : BOOLEAN, hit : BOOLEAN, data : Line]
NBResp   == [to : Agents, type : {"NBSysResp", "NBSysWBAck"},
             state : {"NA", "Shared", "Exclusive", "Modified"},
             dirty : BOOLEAN, data : Line, wt : WTRs \cup {NoWTR}]
DmaResp  == [to : DMAs, type : {"DATA", "ACK"}, data : Line]

DirState == {"U", "BL", "BDR_M", "BS_M", "BM_M", "B_M", "BDR_PM", "BS_PM",
             "BM_PM", "B_PM", "BDW_P", "BDR_Pm", "BS_Pm", "BM_Pm", "B_Pm", "B"}
BusyDma  == {"BDR_M", "BDR_PM", "BDR_Pm", "BDW_P"}

TBE == [req : Agents \cup DMAs, kind : ReadTypes \cup GPUWrites \cup VicTypes
        \cup DmaTypes, data : Line, dirty : BOOLEAN, acks : Nat,
        cached : BOOLEAN, mask : SUBSET Word, wdata : Line,
        wt : WTRs \cup {NoWTR}]

ASSUME DirectoryAssumption ==
  /\ IsFiniteSet(CorePairs) /\ IsFiniteSet(TCCs)
  /\ CorePairs \cap TCCs = {} /\ DMAs \cap Agents = {}
  /\ NoWTR \notin WTRs
  /\ \A t1, t2 \in TCCs : t1 = t2
  /\ Zero \in Value /\ Functor \in [Value -> [Value -> Value]]
  /\ NoLine \notin Line
  /\ NoTBE \notin TBE
  /\ UseL3OnWT \in BOOLEAN /\ L3First \in BOOLEAN

VARIABLES
  dstate,      \* Entry.DirectoryState
  dirData,     \* Entry.DataBlk, the line as memory holds it
  l3,          \* the line's L3 entry, or NoLine
  tbe,         \* the TBE of the line, or NoTBE
  fetch,       \* the pending read of the line: "mem", "L3" or "none"
  trig,        \* triggerQueue
  reqs,        \* requestFromCores
  stalled,     \* its stalled messages
  dmaReqs, dmaStalled,  \* the same of requestFromDMA
  waiting,     \* m_waiting_buffers of the line: the ports with stalled messages
  probes,      \* probeToCore
  resps,       \* responseFromCores
  unblocks,    \* unblockFromCores, by sender
  rsps,        \* responseToCore
  dmaRsps      \* responseToDMA

queueVars == <<reqs, stalled, dmaReqs, dmaStalled, waiting>>
dirVars   == <<dstate, dirData, l3, tbe, fetch, trig, queueVars, probes, resps,
               unblocks, rsps, dmaRsps>>

(* What the controller alone changes.                                      *)
dirOwn == <<dstate, dirData, l3, tbe, fetch, trig, stalled, dmaStalled, waiting>>

(* A request without data or mask, as caches other than the TCC make them. *)
Plain(n, t) == [from |-> n, type |-> t, mask |-> {}, data |-> ZeroLine, wt |-> NoWTR]

DirTypeOK ==
  /\ dstate \in DirState
  /\ dirData \in Line
  /\ l3 \in Line \cup {NoLine}
  /\ tbe \in TBE \cup {NoTBE}
  /\ fetch \in {"none", "mem", "L3"}
  /\ trig \subseteq {"AcksComplete", "UnblockWriteThrough"}
  /\ reqs \in Seq(Request) /\ stalled \in Seq(Request)
  /\ dmaReqs \in Seq(DmaReq) /\ dmaStalled \in Seq(DmaReq)
  /\ waiting \subseteq {"request", "dma"}
  /\ probes \subseteq Probe /\ resps \subseteq CPUResp /\ rsps \subseteq NBResp
  /\ unblocks \subseteq Agents
  /\ dmaRsps \subseteq DmaResp

DirInit ==
  /\ dstate = "U" /\ dirData = ZeroLine /\ l3 = NoLine /\ tbe = NoTBE
  /\ fetch = "none" /\ trig = {}
  /\ reqs = <<>> /\ stalled = <<>> /\ dmaReqs = <<>> /\ dmaStalled = <<>>
  /\ waiting = {} /\ probes = {} /\ resps = {} /\ unblocks = {} /\ rsps = {}
  /\ dmaRsps = {}

-----------------------------------------------------------------------------
(* Stalling and waking.  A stalled message leaves the buffer's heap for    *)
(* its stall map and its port is entered in m_waiting_buffers.             *)

(* The message at the head of the buffer has type in types.               *)
HeadIs(q, types) == q # <<>> /\ Head(q).type \in types

(* st_stallAndWaitRequest.  Reads are stalled in every busy state; GPU     *)
(* writes only in those of line 1136, which are not the DMA states.        *)
StallRequest ==
  /\ \/ dstate # "U" /\ HeadIs(reqs, ReadTypes)
     \/ dstate \notin BusyDma \cup {"U"} /\ HeadIs(reqs, GPUWrites)
  /\ reqs' = Tail(reqs) /\ stalled' = Append(stalled, Head(reqs))
  /\ waiting' = waiting \cup {"request"}
  /\ UNCHANGED <<dstate, dirData, l3, tbe, fetch, trig, dmaReqs, dmaStalled,
                 probes, resps, unblocks, rsps, dmaRsps>>

(* sd_stallAndWaitRequest                                                  *)
StallDma ==
  /\ dstate # "U" /\ dmaReqs # <<>>
  /\ dmaReqs' = Tail(dmaReqs) /\ dmaStalled' = Append(dmaStalled, Head(dmaReqs))
  /\ waiting' = waiting \cup {"dma"}
  /\ UNCHANGED <<dstate, dirData, l3, tbe, fetch, trig, reqs, stalled,
                 probes, resps, unblocks, rsps, dmaRsps>>

(* reanalyzeMessages of the registered ports in ports: what was stalled    *)
(* keeps its arrival time, so it goes before what has arrived since.  The  *)
(* registry entry of the line is deleted as a whole, whatever it names.    *)
WakeUp(ports) ==
  /\ waiting' = {}
  /\ IF "request" \in waiting \cap ports
       THEN reqs' = stalled \o reqs /\ stalled' = <<>>
       ELSE UNCHANGED <<reqs, stalled>>
  /\ IF "dma" \in waiting \cap ports
       THEN dmaReqs' = dmaStalled \o dmaReqs /\ dmaStalled' = <<>>
       ELSE UNCHANGED <<dmaReqs, dmaStalled>>

(* Mutants of wakeUpAllBuffers: one of the two ports is forgotten.         *)
wakeUpRequestsOnly == WakeUp({"request"})
wakeUpDmaOnly      == WakeUp({"dma"})

(* wakeUpAllBuffers                                                        *)
wakeUpAllBuffers == WakeUp({"request", "dma"})

(* wakeUpBuffers called while a response is handled: only the ports of     *)
(* lower rank than the response port (2) are woken.  The request port has  *)
(* rank 0, the DMA port rank 6.                                            *)
wakeUpBuffers == WakeUp({"request"})

-----------------------------------------------------------------------------
(* The SLICC actions of the controller.                                    *)

(* t_allocateTBE, with the number of acknowledgements its probe expects.   *)
t_allocateTBE(r, acks) ==
  [req |-> r.from, kind |-> r.type,
   data |-> IF r.type = "WriteThrough"
              THEN copyPartial(dirData, r.data, r.mask) ELSE dirData,
   dirty |-> r.type = "WriteThrough", acks |-> acks, cached |-> FALSE,
   mask |-> r.mask, wdata |-> r.data, wt |-> r.wt]

(* l_queueMemRdReq: an L3 hit moves the line to the TBE, unless the TBE is *)
(* dirty, and frees the L3 entry; otherwise memory is read.                *)
l_queueMemRdReq(t) ==
  /\ fetch' = IF l3 = NoLine THEN "mem" ELSE "L3"
  /\ tbe' = IF l3 = NoLine \/ t.dirty THEN t ELSE [t EXCEPT !.data = l3]
  /\ l3' = NoLine

(* Mutants of ProbeDest: GPU writes do not probe the CPUs, or CPU requests *)
(* do not probe the TCC.                                                   *)
ProbeDestNoWT(n, kind) ==
  IF kind \in GPUWrites THEN {} ELSE (CorePairs \cup TCCs) \ {n}
ProbeDestNoTCC(n, kind) == CorePairs \ {n}

(* The destinations of dc_probeInvCoreData and sc_probeShrCoreData: all    *)
(* CorePairs and, unless the request is a GPU write (whose NoWriteConflict *)
(* is true), the TCC; never the requestor.                                 *)
ProbeDest(n, kind) ==
  (CorePairs \cup (IF kind \in GPUWrites THEN {} ELSE TCCs)) \ {n}

ProbeType(kind) ==
  IF kind \in {"RdBlk", "RdBlkS", "DmaRead"} THEN "PrbDowngrade" ELSE "PrbInv"

(* Sending the probes; without destinations the transaction is complete.   *)
SendProbes(dest, kind) ==
  /\ probes' = probes \cup [to : dest, type : {ProbeType(kind)}]
  /\ trig' = IF dest = {} THEN trig \cup {"AcksComplete"} ELSE trig

(* w_sendResponseWBAck                                                     *)
w_sendResponseWBAck(r) ==
  rsps' = rsps \cup {[to |-> r.from, type |-> "NBSysWBAck", state |-> "NA",
                      dirty |-> FALSE, data |-> ZeroLine, wt |-> r.wt]}

(* s_sendResponseS, es_sendResponseES and m_sendResponseM, by the request  *)
(* of the TBE.  A write-through gets no response here: it was acknowledged *)
(* when its transaction began.  GPU writes unblock the line themselves.    *)
Grant(t) ==
  CASE t.kind = "RdBlkS" -> "Shared"
    [] t.kind = "RdBlk"  -> IF t.cached THEN "Shared" ELSE "Exclusive"
    [] OTHER             -> "Modified"

SendResponse(t) ==
  /\ rsps' = IF t.kind = "WriteThrough" THEN rsps
             ELSE rsps \cup {[to |-> t.req, type |-> "NBSysResp",
                              state |-> Grant(t),
                              dirty |-> t.dirty /\ t.kind # "RdBlkS",
                              data |-> t.data, wt |-> t.wt]}
  /\ trig' = (trig \ {"AcksComplete"}) \cup
              (IF t.kind \in GPUWrites THEN {"UnblockWriteThrough"} ELSE {})

(* Mutant of wd_writeBackData: an atomic stores its operand.               *)
wdStoresOperand(t) ==
  CASE t.kind \in GPUWrites -> copyPartial(dirData, t.wdata, t.mask)
    [] OTHER                -> IF t.dirty THEN dirData ELSE t.data

(* wd_writeBackData: what the directory entry holds when the transaction   *)
(* of t completes.  An atomic is performed on the directory's copy, not on *)
(* the dirty data a probe may have brought: that data is dropped.          *)
wd_writeBackData(t) ==
  CASE t.kind = "WriteThrough" -> copyPartial(dirData, t.data, t.mask)
    [] t.kind = "Atomic"       -> atomicPartial(dirData, t.wdata, t.mask)
    [] OTHER                   -> IF t.dirty THEN dirData ELSE t.data

(* alwt_allocateL3BlockOnWT                                                *)
alwt_allocateL3BlockOnWT(t) ==
  l3' = IF UseL3OnWT /\ t.kind \in GPUWrites
          THEN IF t.kind = "Atomic" THEN wd_writeBackData(t) ELSE t.data
          ELSE l3

(* Mutant of mt_writeMemDataToTBE: memory overwrites a probe's dirty data. *)
mtOverwrites == IF fetch = "mem" THEN [tbe EXCEPT !.data = dirData] ELSE tbe

(* mt_writeMemDataToTBE, when the read was served by memory.               *)
mt_writeMemDataToTBE ==
  IF fetch = "mem" /\ ~tbe.dirty THEN [tbe EXCEPT !.data = dirData] ELSE tbe

(* Mutants of y_writeProbeDataToTBE: CacheHit is not recorded, dirty data  *)
(* is not merged with a GPU write's bytes.                                 *)
yForgetsHit(m) ==
  [tbe EXCEPT !.data = IF m.dirty /\ ~tbe.dirty THEN m.data ELSE @,
              !.dirty = @ \/ m.dirty, !.acks = @ - 1]
yDoesNotMerge(m) ==
  [tbe EXCEPT !.data = IF m.dirty /\ ~tbe.dirty THEN m.data ELSE @,
              !.dirty = @ \/ m.dirty, !.cached = @ \/ m.hit, !.acks = @ - 1]

(* y_writeProbeDataToTBE and x_decrementAcks.                              *)
y_writeProbeDataToTBE(m) ==
  [tbe EXCEPT
    !.data   = CASE ~m.dirty -> @
                 [] m.dirty /\ tbe.kind \in {"WriteThrough", "DmaWrite"} ->
                      copyPartial(m.data, tbe.data, tbe.mask)
                 [] OTHER -> IF tbe.dirty THEN @ ELSE m.data,
    !.mask   = IF m.dirty /\ tbe.kind \in {"WriteThrough", "DmaWrite"}
                 THEN Word ELSE @,
    !.dirty  = @ \/ m.dirty,
    !.cached = @ \/ m.hit,
    !.acks   = @ - 1]

-----------------------------------------------------------------------------
(* Requests that start a transaction in U.                                 *)

BusyState(kind) ==
  CASE kind = "RdBlkS" -> "BS_PM" [] kind = "RdBlk" -> "B_PM" [] OTHER -> "BM_PM"

(* RdBlk, RdBlkS, RdBlkM, WriteThrough and Atomic.  A write-through is     *)
(* acknowledged here, before its probes have been answered.                *)
StartRequest ==
  /\ dstate = "U" /\ HeadIs(reqs, ReadTypes \cup GPUWrites)
  /\ LET r    == Head(reqs)
         dest == ProbeDest(r.from, r.type)
     IN  /\ dstate' = BusyState(r.type)
         /\ l_queueMemRdReq(t_allocateTBE(r, Cardinality(dest)))
         /\ SendProbes(dest, r.type)
         /\ IF r.type = "WriteThrough" THEN w_sendResponseWBAck(r)
                                       ELSE UNCHANGED rsps
  /\ reqs' = Tail(reqs)
  /\ UNCHANGED <<dirData, stalled, dmaReqs, dmaStalled, waiting, resps,
                 unblocks, dmaRsps>>

(* VicDirty and VicClean                                                   *)
StartVictim ==
  /\ dstate = "U" /\ HeadIs(reqs, VicTypes)
  /\ dstate' = "BL"
  /\ tbe' = t_allocateTBE(Head(reqs), 0)
  /\ w_sendResponseWBAck(Head(reqs))
  /\ reqs' = Tail(reqs)
  /\ UNCHANGED <<dirData, l3, fetch, trig, stalled, dmaReqs, dmaStalled,
                 waiting, probes, resps, unblocks, dmaRsps>>

(* A victim that meets BL is recycled to the end of the buffer, behind     *)
(* what its sender sent after it.  In the other busy states it blocks the  *)
(* buffer (z_stall).                                                       *)
RecycleVictim ==
  /\ dstate = "BL" /\ HeadIs(reqs, VicTypes) /\ Len(reqs) > 1
  /\ reqs' = Append(Tail(reqs), Head(reqs))
  /\ UNCHANGED <<dstate, dirData, l3, tbe, fetch, trig, stalled, dmaReqs,
                 dmaStalled, waiting, probes, resps, unblocks, rsps, dmaRsps>>

(* atd_allocateTBEforDMA: a new data block, or the data of a DMA write.    *)
atd_allocateTBEforDMA(r) ==
  LET write == r.type = "DmaWrite"
  IN  [req |-> r.from, kind |-> r.type,
       data |-> IF write THEN r.data ELSE ZeroLine, dirty |-> write,
       acks |-> Cardinality(Agents), cached |-> FALSE,
       mask |-> IF write THEN Word ELSE {}, wdata |-> r.data, wt |-> NoWTR]

DmaRead ==
  /\ dstate = "U" /\ HeadIs(dmaReqs, {"DmaRead"})
  /\ dstate' = "BDR_PM"
  /\ l_queueMemRdReq(atd_allocateTBEforDMA(Head(dmaReqs)))
  /\ SendProbes(Agents, "DmaRead")
  /\ dmaReqs' = Tail(dmaReqs)
  /\ UNCHANGED <<dirData, reqs, stalled, dmaStalled, waiting, resps, unblocks,
                 rsps, dmaRsps>>

(* A DMA write is acknowledged before its probes are even sent.            *)
DmaWrite ==
  /\ dstate = "U" /\ HeadIs(dmaReqs, {"DmaWrite"})
  /\ dstate' = "BDW_P"
  /\ tbe' = atd_allocateTBEforDMA(Head(dmaReqs))
  /\ SendProbes(Agents, "DmaWrite")
  /\ dmaRsps' = dmaRsps \cup {[to |-> Head(dmaReqs).from, type |-> "ACK",
                              data |-> ZeroLine]}
  /\ dmaReqs' = Tail(dmaReqs)
  /\ UNCHANGED <<dirData, l3, fetch, reqs, stalled, dmaStalled, waiting, resps,
                 unblocks, rsps>>

-----------------------------------------------------------------------------
(* The end of a victim's transaction.                                      *)

(* d_writeDataToMemory, al_allocateL3Block, wad_wakeUpDependents           *)
CPUData(m) ==
  /\ dstate = "BL" /\ m \in resps /\ m.type = "CPUData"
  /\ dstate' = "U" /\ dirData' = m.data /\ l3' = m.data /\ tbe' = NoTBE
  /\ resps' = resps \ {m}
  /\ wakeUpBuffers
  /\ UNCHANGED <<fetch, trig, probes, unblocks, rsps, dmaRsps>>

StaleWB(m) ==
  /\ dstate = "BL" /\ m \in resps /\ m.type = "StaleNotif"
  /\ dstate' = "U" /\ dirData' = tbe.data /\ tbe' = NoTBE
  /\ resps' = resps \ {m}
  /\ wakeUpAllBuffers
  /\ UNCHANGED <<l3, fetch, trig, probes, unblocks, rsps, dmaRsps>>

(* al_allocateL3Block and alwt_allocateL3BlockOnWT of another line evict   *)
(* this line from the L3; memory has the same data.                        *)
L3Evict ==
  /\ l3 # NoLine /\ l3' = NoLine
  /\ UNCHANGED <<dstate, dirData, tbe, fetch, trig, queueVars, probes, resps,
                 unblocks, rsps, dmaRsps>>

-----------------------------------------------------------------------------
(* The steps of a transaction, in whatever order memory and probes answer. *)

Probing  == {"BDR_PM", "BS_PM", "BM_PM", "B_PM", "BDW_P", "BDR_Pm", "BS_Pm",
             "BM_Pm", "B_Pm"}

CPUPrbResp(m) ==
  /\ dstate \in Probing /\ m \in resps /\ m.type = "CPUPrbResp"
  /\ tbe' = y_writeProbeDataToTBE(m)
  /\ trig' = IF tbe.acks = 1 THEN trig \cup {"AcksComplete"} ELSE trig
  /\ resps' = resps \ {m}
  /\ UNCHANGED <<dstate, dirData, l3, fetch, queueVars, probes, unblocks, rsps,
                 dmaRsps>>

(* MemData or L3Hit while probes are outstanding                           *)
AfterData == [BDR_PM |-> "BDR_Pm", BS_PM |-> "BS_Pm", BM_PM |-> "BM_Pm",
              B_PM |-> "B_Pm"]

MemData ==
  /\ fetch # "none" /\ dstate \in DOMAIN AfterData
  /\ dstate' = AfterData[dstate]
  /\ tbe' = mt_writeMemDataToTBE
  /\ fetch' = "none"
  /\ UNCHANGED <<dirData, l3, trig, queueVars, probes, resps, unblocks, rsps,
                 dmaRsps>>

(* ProbeAcksComplete while the data is outstanding                         *)
AfterAcks == [BDR_PM |-> "BDR_M", BS_PM |-> "BS_M", BM_PM |-> "BM_M",
              B_PM |-> "B_M"]

(* Mutant: the trigger message is not dequeued.                            *)
ProbeAcksCompleteNoPop ==
  /\ "AcksComplete" \in trig /\ dstate \in DOMAIN AfterAcks
  /\ L3First => fetch # "L3"
  /\ dstate' = AfterAcks[dstate]
  /\ UNCHANGED <<dirData, l3, tbe, fetch, trig, queueVars, probes, resps,
                 unblocks, rsps, dmaRsps>>

ProbeAcksComplete ==
  /\ "AcksComplete" \in trig /\ dstate \in DOMAIN AfterAcks
  /\ L3First => fetch # "L3"
  /\ dstate' = AfterAcks[dstate]
  /\ trig' = trig \ {"AcksComplete"}
  /\ UNCHANGED <<dirData, l3, tbe, fetch, queueVars, probes, resps, unblocks,
                 rsps, dmaRsps>>

(* The last of the two arrives: respond, write back, free the TBE, block   *)
(* until the requestor unblocks.                                           *)
LastIsData == fetch # "none" /\ dstate \in {"BS_M", "BM_M", "B_M"}
LastIsAcks == "AcksComplete" \in trig /\ dstate \in {"BS_Pm", "BM_Pm", "B_Pm"}

Complete ==
  /\ LastIsData \/ LastIsAcks
  /\ LET t == mt_writeMemDataToTBE
     IN  /\ SendResponse(t) /\ dirData' = wd_writeBackData(t)
         /\ alwt_allocateL3BlockOnWT(t)
  /\ tbe' = NoTBE /\ dstate' = "B"
  /\ fetch' = "none"
  /\ UNCHANGED <<queueVars, probes, resps, unblocks, dmaRsps>>

(* The end of a DMA read (BDR_M or BDR_Pm) and of a DMA write (BDW_P).     *)
(* There is no transition for an L3 hit in BDR_M.                          *)
CompleteDmaRead ==
  /\ \/ dstate = "BDR_M" /\ fetch = "mem"
     \/ dstate = "BDR_Pm" /\ "AcksComplete" \in trig
  /\ LET t == mt_writeMemDataToTBE
     IN  /\ dmaRsps' = dmaRsps \cup {[to |-> t.req, type |-> "DATA", data |-> t.data]}
         /\ dirData' = IF t.dirty THEN dirData ELSE t.data
  /\ dstate' = "U" /\ tbe' = NoTBE
  /\ fetch' = "none" /\ trig' = trig \ {"AcksComplete"}
  /\ wakeUpAllBuffers
  /\ UNCHANGED <<l3, probes, resps, unblocks, rsps>>

(* The TBE of a DMA write is dirty: its data is freed with it.             *)
CompleteDmaWrite ==
  /\ dstate = "BDW_P" /\ "AcksComplete" \in trig
  /\ dstate' = "U" /\ tbe' = NoTBE /\ trig' = trig \ {"AcksComplete"}
  /\ wakeUpAllBuffers
  /\ UNCHANGED <<dirData, l3, fetch, probes, resps, unblocks, rsps, dmaRsps>>

CoreUnblock(n) ==
  /\ dstate = "B" /\ n \in unblocks
  /\ dstate' = "U" /\ unblocks' = unblocks \ {n}
  /\ wakeUpAllBuffers
  /\ UNCHANGED <<dirData, l3, tbe, fetch, trig, probes, resps, rsps, dmaRsps>>

UnblockWriteThrough ==
  /\ dstate = "B" /\ "UnblockWriteThrough" \in trig
  /\ dstate' = "U" /\ trig' = trig \ {"UnblockWriteThrough"}
  /\ wakeUpAllBuffers
  /\ UNCHANGED <<dirData, l3, tbe, fetch, probes, resps, unblocks, rsps, dmaRsps>>

-----------------------------------------------------------------------------
(* Every step of the controller; Complete, which writes the directory's    *)
(* copy for the GPU, is left to the modules that compose the controller.   *)
DirStep ==
  \/ StallRequest \/ StallDma \/ StartRequest \/ StartVictim \/ RecycleVictim
  \/ DmaRead \/ DmaWrite \/ (\E m \in resps : CPUData(m) \/ StaleWB(m) \/ CPUPrbResp(m))
  \/ L3Evict \/ MemData \/ ProbeAcksComplete \/ CompleteDmaRead
  \/ CompleteDmaWrite \/ (\E n \in unblocks : CoreUnblock(n)) \/ UnblockWriteThrough

(* The (state, event) pairs that can be pending and for which the          *)
(* controller declares no transition: the generated controller stops with  *)
(* "Invalid transition" when one of them is handled.                       *)
DirUndeclared ==
  \/ dstate \in BusyDma /\ HeadIs(reqs, GPUWrites)
  \/ dstate = "BDR_M" /\ fetch = "L3"
  \/ \E m \in resps : m.type = "CPUPrbResp" /\ dstate \notin Probing
  \/ \E m \in resps : m.type \in {"CPUData", "StaleNotif"} /\ dstate # "BL"
  \/ unblocks # {} /\ dstate # "B"
  \/ fetch # "none" /\ dstate \notin DOMAIN AfterData \cup {"BS_M", "BM_M", "B_M", "BDR_M"}
  \/ "AcksComplete" \in trig /\ dstate \notin Probing
  \/ "UnblockWriteThrough" \in trig /\ dstate # "B"
=============================================================================
