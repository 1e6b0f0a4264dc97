--------------------------- MODULE CoherenceTypes ---------------------------
(***************************************************************************)
(* Every step of the directory keeps the types of the variables.           *)
(***************************************************************************)
EXTENDS CoherenceProtocol, FiniteSetTheorems, TLAPS

-----------------------------------------------------------------------------
(* Types of what the operators build                                       *)

(* Lines are closed under copyPartial and atomicPartial of DataBlock.      *)
LEMMA LineType ==
  /\ ZeroLine \in Line
  /\ \A a, b \in Line, s \in SUBSET Word : copyPartial(a, b, s) \in Line
  /\ \A a, b \in Line, s \in SUBSET Word : atomicPartial(a, b, s) \in Line
BY DirectoryAssumption DEF ZeroLine, Line, copyPartial, atomicPartial

(* The set of caches is finite, and so is every set of probed caches.      *)
LEMMA AgentsFinite ==
  /\ IsFiniteSet(Agents)
  /\ \A S \in SUBSET Agents : IsFiniteSet(S) /\ Cardinality(S) \in Nat
<1>1. IsFiniteSet(Agents)
  BY DirectoryAssumption, FS_Union, Zenon DEF Agents
<1>2. \A S \in SUBSET Agents : IsFiniteSet(S) /\ Cardinality(S) \in Nat
  BY <1>1, FS_Subset, FS_CardinalityType
<1> QED BY <1>1, <1>2

(* A request is one of a cache, and what it carries fits a TBE.            *)
LEMMA RequestType ==
  ASSUME NEW r \in Request
  PROVE  /\ r.from \in Agents
         /\ r.type \in ReadTypes \cup VicTypes \cup GPUWrites
         /\ r.mask \in SUBSET Word /\ r.data \in Line
         /\ r.wt \in WTRs \cup {NoWTR}
         /\ r.type \in GPUWrites => r.from \in TCCs
BY DEF Request, ReadReq, VicReq, WriteReq, Agents, ReadTypes, VicTypes, GPUWrites

(* t_allocateTBE and atd_allocateTBEforDMA allocate TBEs.                  *)
LEMMA TBEType ==
  ASSUME dirData \in Line
  PROVE  /\ \A r \in Request, k \in Nat : t_allocateTBE(r, k) \in TBE
         /\ \A r \in DmaReq : atd_allocateTBEforDMA(r) \in TBE
<1>1. ASSUME NEW r \in Request, NEW k \in Nat PROVE t_allocateTBE(r, k) \in TBE
  <2>1. (IF r.type = "WriteThrough" THEN copyPartial(dirData, r.data, r.mask) ELSE dirData)
          \in Line
    BY LineType, RequestType
  <2>2. (r.type = "WriteThrough") \in BOOLEAN
    OBVIOUS
  <2> QED BY <2>1, <2>2, RequestType DEF t_allocateTBE, TBE
<1>2. ASSUME NEW r \in DmaReq PROVE atd_allocateTBEforDMA(r) \in TBE
  <2>1. Cardinality(Agents) \in Nat
    BY AgentsFinite
  <2>2. r.from \in DMAs /\ r.type \in DmaTypes /\ r.data \in Line
    BY DEF DmaReq
  <2> QED BY <2>1, <2>2, LineType DEF atd_allocateTBEforDMA, TBE
<1> QED BY <1>1, <1>2

(* The head of a non-empty buffer is one of its messages, and the rest of  *)
(* the buffer is one again.                                                *)
LEMMA HeadType ==
  ASSUME NEW T, NEW q \in Seq(T), NEW types, HeadIs(q, types)
  PROVE  Head(q) \in T /\ Tail(q) \in Seq(T) /\ Head(q).type \in types
BY DEF HeadIs

(* Waking keeps the buffers' types.                                        *)
LEMMA WakeType ==
  ASSUME TypeOK, NEW ports, WakeUp(ports)
  PROVE  /\ reqs' \in Seq(Request) /\ stalled' \in Seq(Request)
         /\ dmaReqs' \in Seq(DmaReq) /\ dmaStalled' \in Seq(DmaReq)
         /\ waiting' \subseteq {"request", "dma"}
<1>1. /\ reqs \in Seq(Request) /\ stalled \in Seq(Request)
      /\ dmaReqs \in Seq(DmaReq) /\ dmaStalled \in Seq(DmaReq)
  BY DEF TypeOK, DirTypeOK
<1>2. stalled \o reqs \in Seq(Request) /\ dmaStalled \o dmaReqs \in Seq(DmaReq)
  BY <1>1
<1>3. <<>> \in Seq(Request) /\ <<>> \in Seq(DmaReq)
  OBVIOUS
<1> QED BY <1>1, <1>2, <1>3, Zenon DEF WakeUp

(* A pending probe response is counted: taking it leaves NumPendingAcks a  *)
(* natural number, that of the caches still pending.                       *)
LEMMA AckCounted ==
  ASSUME TypeOK, AcksAccounted, dstate \in Probing, NEW m \in PrbResps
  PROVE  /\ tbe.acks \in Nat /\ tbe.acks # 0
         /\ tbe.acks - 1 = Cardinality(Pending \ {m.from})
<1>1. Pending \in SUBSET Agents
  BY DEF Pending, Probed, Responded, PrbResps, TypeOK, DirTypeOK, Probe, CPUResp
<1>2. m.from \in Pending
  BY DEF Pending, Responded
<1>3. IsFiniteSet(Pending) /\ Cardinality(Pending) \in Nat
  BY <1>1, AgentsFinite
<1>4. Cardinality(Pending \ {m.from}) = Cardinality(Pending) - 1
  BY <1>2, <1>3, FS_RemoveElement, Zenon
<1>5. Cardinality(Pending \ {m.from}) \in Nat
  BY <1>1, AgentsFinite
<1>6. tbe.acks = Cardinality(Pending)
  BY DEF AcksAccounted
<1> QED BY <1>3, <1>4, <1>5, <1>6

-----------------------------------------------------------------------------
(* Types are preserved, action by action                                   *)

(* Queueing a read of memory keeps a TBE a TBE.                            *)
LEMMA QueueType ==
  ASSUME NEW t \in TBE, l3 \in Line \cup {NoLine}, l_queueMemRdReq(t)
  PROVE  fetch' \in {"none", "mem", "L3"} /\ tbe' \in TBE /\ l3' \in Line \cup {NoLine}
BY DEF l_queueMemRdReq, TBE

(* Probes are sent to caches and leave the triggers well typed.            *)
LEMMA ProbesType ==
  ASSUME TypeOK, NEW dest \in SUBSET Agents, NEW kind, SendProbes(dest, kind)
  PROVE  probes' \subseteq Probe /\ trig' \subseteq {"AcksComplete", "UnblockWriteThrough"}
BY DEF SendProbes, TypeOK, DirTypeOK, Probe, ProbeType

(* The acknowledgement of a victim or a write-through is a response.       *)
LEMMA WBAckType ==
  ASSUME rsps \subseteq NBResp, NEW r \in Request, w_sendResponseWBAck(r)
  PROVE  rsps' \subseteq NBResp
<1> DEFINE m == [to |-> r.from, type |-> "NBSysWBAck", state |-> "NA",
                 dirty |-> FALSE, data |-> ZeroLine, wt |-> r.wt]
<1>1. r.from \in Agents /\ r.wt \in WTRs \cup {NoWTR} /\ ZeroLine \in Line
  BY RequestType, LineType
<1>2. m \in NBResp
  BY <1>1 DEF NBResp
<1> QED BY <1>2, Zenon DEF w_sendResponseWBAck

(* A transaction's start keeps the types.                                  *)
LEMMA StartType ==
  ASSUME TypeOK, StartRequest, UNCHANGED agentVars
  PROVE  TypeOK'
<1> DEFINE r    == Head(reqs)
           dest == ProbeDest(r.from, r.type)
<1>1. r \in Request /\ Tail(reqs) \in Seq(Request) /\ r.type \in ReadTypes \cup GPUWrites
  BY HeadType DEF StartRequest, TypeOK, DirTypeOK
<1>2. dest \in SUBSET Agents
  BY DEF ProbeDest, Agents
<1>3. t_allocateTBE(r, Cardinality(dest)) \in TBE
  BY <1>1, <1>2, AgentsFinite, TBEType DEF TypeOK, DirTypeOK
<1>4. fetch' \in {"none", "mem", "L3"} /\ tbe' \in TBE /\ l3' \in Line \cup {NoLine}
  BY <1>3, QueueType DEF StartRequest, TypeOK, DirTypeOK
<1>5. probes' \subseteq Probe /\ trig' \subseteq {"AcksComplete", "UnblockWriteThrough"}
  BY <1>2, ProbesType DEF StartRequest
<1>6. rsps' \subseteq NBResp
  <2>1. CASE r.type = "WriteThrough"
    BY <2>1, <1>1, WBAckType DEF StartRequest, TypeOK, DirTypeOK
  <2>2. CASE r.type # "WriteThrough"
    BY <2>2 DEF StartRequest, TypeOK, DirTypeOK
  <2> QED BY <2>1, <2>2, Zenon
<1>7. dstate' \in DirState /\ reqs' \in Seq(Request)
  BY <1>1 DEF StartRequest, BusyState, DirState
<1> QED
  BY <1>4, <1>5, <1>6, <1>7, Zenon DEF StartRequest, TypeOK, DirTypeOK, agentVars

(* The other starts: victims and DMA requests.                             *)
LEMMA OtherStartType ==
  ASSUME TypeOK, StartVictim \/ DmaRead \/ DmaWrite, UNCHANGED agentVars
  PROVE  TypeOK'
<1>1. CASE StartVictim
  <2>1. /\ Head(reqs) \in Request /\ Tail(reqs) \in Seq(Request)
    BY <1>1, HeadType DEF StartVictim, TypeOK, DirTypeOK
  <2>2. tbe' \in TBE
    BY <1>1, <2>1, TBEType DEF StartVictim, TypeOK, DirTypeOK
  <2>3. rsps' \subseteq NBResp
    BY <1>1, <2>1, WBAckType DEF StartVictim, TypeOK, DirTypeOK
  <2> QED
    BY <1>1, <2>1, <2>2, <2>3 DEF StartVictim, TypeOK, DirTypeOK, agentVars, DirState
<1>2. CASE DmaRead
  <2>1. /\ Head(dmaReqs) \in DmaReq /\ Tail(dmaReqs) \in Seq(DmaReq)
    BY <1>2, HeadType DEF DmaRead, TypeOK, DirTypeOK
  <2>2. atd_allocateTBEforDMA(Head(dmaReqs)) \in TBE
    BY <2>1, TBEType DEF TypeOK, DirTypeOK
  <2>3. fetch' \in {"none", "mem", "L3"} /\ tbe' \in TBE /\ l3' \in Line \cup {NoLine}
    BY <1>2, <2>2, QueueType DEF DmaRead, TypeOK, DirTypeOK
  <2>4. probes' \subseteq Probe /\ trig' \subseteq {"AcksComplete", "UnblockWriteThrough"}
    BY <1>2, ProbesType, Zenon DEF DmaRead
  <2> QED
    BY <1>2, <2>1, <2>3, <2>4 DEF DmaRead, TypeOK, DirTypeOK, agentVars, DirState
<1>3. CASE DmaWrite
  <2>1. /\ Head(dmaReqs) \in DmaReq /\ Tail(dmaReqs) \in Seq(DmaReq)
    BY <1>3, HeadType DEF DmaWrite, TypeOK, DirTypeOK
  <2>2. tbe' \in TBE
    BY <1>3, <2>1, TBEType DEF DmaWrite, TypeOK, DirTypeOK
  <2>3. probes' \subseteq Probe /\ trig' \subseteq {"AcksComplete", "UnblockWriteThrough"}
    BY <1>3, ProbesType, Zenon DEF DmaWrite
  <2>4. dmaRsps' \subseteq DmaResp
    BY <1>3, <2>1, LineType, SMTT(30) DEF DmaWrite, DmaResp, DmaReq, TypeOK, DirTypeOK
  <2> QED
    BY <1>3, <2>1, <2>2, <2>3, <2>4, Zenon DEF DmaWrite, TypeOK, DirTypeOK, agentVars, DirState
<1> QED BY <1>1, <1>2, <1>3

(* Stalling, recycling and L3 eviction keep the types.                     *)
LEMMA QueueStepType ==
  ASSUME TypeOK, StallRequest \/ StallDma \/ RecycleVictim \/ L3Evict,
         UNCHANGED agentVars
  PROVE  TypeOK'
<1>0. /\ reqs \in Seq(Request) /\ stalled \in Seq(Request)
      /\ dmaReqs \in Seq(DmaReq) /\ dmaStalled \in Seq(DmaReq)
      /\ waiting \subseteq {"request", "dma"}
  BY DEF TypeOK, DirTypeOK
<1>1. CASE StallRequest
  <2>1. Head(reqs) \in Request /\ Tail(reqs) \in Seq(Request)
    BY <1>0, <1>1 DEF StallRequest, HeadIs
  <2>2. reqs' \in Seq(Request) /\ stalled' \in Seq(Request) /\ waiting' \subseteq {"request", "dma"}
    BY <1>0, <1>1, <2>1 DEF StallRequest
  <2> QED BY <1>1, <2>2, Zenon DEF StallRequest, TypeOK, DirTypeOK, agentVars
<1>2. CASE StallDma
  <2>1. Head(dmaReqs) \in DmaReq /\ Tail(dmaReqs) \in Seq(DmaReq)
    BY <1>0, <1>2 DEF StallDma
  <2>2. /\ dmaReqs' \in Seq(DmaReq) /\ dmaStalled' \in Seq(DmaReq)
        /\ waiting' \subseteq {"request", "dma"}
    BY <1>0, <1>2, <2>1 DEF StallDma
  <2> QED BY <1>2, <2>2 DEF StallDma, TypeOK, DirTypeOK, agentVars
<1>3. CASE RecycleVictim
  <2>1. Head(reqs) \in Request /\ Tail(reqs) \in Seq(Request)
    BY <1>0, <1>3 DEF RecycleVictim, HeadIs
  <2>2. reqs' \in Seq(Request)
    BY <1>3, <2>1 DEF RecycleVictim
  <2> QED BY <1>3, <2>2, SMTT(30) DEF RecycleVictim, TypeOK, DirTypeOK, agentVars
<1>4. CASE L3Evict
  BY <1>4 DEF L3Evict, TypeOK, DirTypeOK, agentVars, queueVars
<1> QED BY <1>1, <1>2, <1>3, <1>4

(* In the busy states before B there is a TBE.                             *)
LEMMA BusyTBE ==
  ASSUME TypeOK, TBEInv, dstate \notin {"U", "B"}
  PROVE  /\ tbe \in TBE
         /\ tbe.data \in Line /\ tbe.wdata \in Line /\ tbe.mask \in SUBSET Word
         /\ tbe.dirty \in BOOLEAN /\ tbe.cached \in BOOLEAN /\ tbe.acks \in Nat
         /\ mt_writeMemDataToTBE \in TBE
<1>1. tbe \in TBE
  BY DEF TypeOK, DirTypeOK, TBEInv
<1>2. dirData \in Line
  BY DEF TypeOK, DirTypeOK
<1> QED BY <1>1, <1>2 DEF TBE, mt_writeMemDataToTBE

(* The end of a victim's transaction keeps the types.                      *)
LEMMA VictimType ==
  ASSUME TypeOK, TBEInv, NEW m \in resps, CPUData(m) \/ StaleWB(m), UNCHANGED agentVars
  PROVE  TypeOK'
<1>1. m.data \in Line
  BY DEF TypeOK, DirTypeOK, CPUResp
<1>2. tbe.data \in Line
  BY BusyTBE DEF CPUData, StaleWB
<1>3. CASE CPUData(m)
  <2>1. /\ reqs' \in Seq(Request) /\ stalled' \in Seq(Request)
        /\ dmaReqs' \in Seq(DmaReq) /\ dmaStalled' \in Seq(DmaReq)
        /\ waiting' \subseteq {"request", "dma"}
    BY <1>3, WakeType DEF CPUData, wakeUpBuffers
  <2> QED BY <1>1, <1>3, <2>1 DEF CPUData, TypeOK, DirTypeOK, DirState, agentVars
<1>4. CASE StaleWB(m)
  <2>1. /\ reqs' \in Seq(Request) /\ stalled' \in Seq(Request)
        /\ dmaReqs' \in Seq(DmaReq) /\ dmaStalled' \in Seq(DmaReq)
        /\ waiting' \subseteq {"request", "dma"}
    BY <1>4, WakeType DEF StaleWB, wakeUpAllBuffers
  <2> QED BY <1>2, <1>4, <2>1 DEF StaleWB, TypeOK, DirTypeOK, DirState, agentVars
<1> QED BY <1>3, <1>4

(* Merging a probe response keeps the TBE a TBE: the counter does not fall *)
(* below zero because the response is one of those it counts.              *)
LEMMA MergeType ==
  ASSUME TypeOK, TBEInv, AcksAccounted, NEW m \in PrbResps, dstate \in Probing
  PROVE  y_writeProbeDataToTBE(m) \in TBE
<1>1. m.data \in Line /\ m.dirty \in BOOLEAN /\ m.hit \in BOOLEAN
  BY DEF PrbResps, TypeOK, DirTypeOK, CPUResp
<1>2. /\ tbe \in TBE /\ tbe.data \in Line /\ tbe.mask \in SUBSET Word
      /\ tbe.dirty \in BOOLEAN /\ tbe.cached \in BOOLEAN
  BY BusyTBE DEF Probing
<1>3. tbe.acks - 1 \in Nat
  <2>1. tbe.acks \in Nat /\ tbe.acks # 0
    BY AckCounted, Zenon
  <2> QED BY <2>1
<1>4. copyPartial(m.data, tbe.data, tbe.mask) \in Line
  BY <1>1, <1>2, LineType
<1> DEFINE d == CASE ~m.dirty -> tbe.data
                  [] m.dirty /\ tbe.kind \in {"WriteThrough", "DmaWrite"} ->
                       copyPartial(m.data, tbe.data, tbe.mask)
                  [] OTHER -> IF tbe.dirty THEN tbe.data ELSE m.data
           k == IF m.dirty /\ tbe.kind \in {"WriteThrough", "DmaWrite"}
                  THEN Word ELSE tbe.mask
<1>5. d \in Line
  BY <1>1, <1>2, <1>4
<1>6. k \in SUBSET Word
  BY <1>2
<1>7. (tbe.dirty \/ m.dirty) \in BOOLEAN /\ (tbe.cached \/ m.hit) \in BOOLEAN
  BY <1>1, <1>2
<1>8. y_writeProbeDataToTBE(m) =
        [tbe EXCEPT !.data = d, !.mask = k, !.dirty = tbe.dirty \/ m.dirty,
                    !.cached = tbe.cached \/ m.hit, !.acks = tbe.acks - 1]
  BY <1>2 DEF y_writeProbeDataToTBE, TBE
<1> HIDE DEF d, k
<1> QED BY <1>2, <1>3, <1>5, <1>6, <1>7, <1>8, Zenon DEF TBE

(* The steps of a transaction keep the types.                              *)
LEMMA TransactionType ==
  ASSUME TypeOK, TBEInv, AcksAccounted, UNCHANGED agentVars,
         (\E m \in resps : CPUPrbResp(m)) \/ MemData \/ ProbeAcksComplete
  PROVE  TypeOK'
<1>1. ASSUME NEW m \in resps, CPUPrbResp(m) PROVE TypeOK'
  <2>1. tbe' \in TBE
    BY <1>1, MergeType DEF CPUPrbResp, PrbResps
  <2>2. resps' \subseteq CPUResp /\ trig' \subseteq {"AcksComplete", "UnblockWriteThrough"}
    BY <1>1 DEF CPUPrbResp, TypeOK, DirTypeOK
  <2> QED BY <1>1, <2>1, <2>2 DEF CPUPrbResp, TypeOK, DirTypeOK, agentVars, queueVars
<1>2. CASE MemData
  <2>1. tbe' \in TBE
    BY <1>2, BusyTBE DEF MemData, AfterData
  <2>2. dstate' \in DirState
    BY <1>2 DEF MemData, AfterData, DirState
  <2> QED BY <1>2, <2>1, <2>2 DEF MemData, TypeOK, DirTypeOK, agentVars, queueVars
<1>3. CASE ProbeAcksComplete
  <2>1. dstate' \in DirState
    BY <1>3 DEF ProbeAcksComplete, AfterAcks, DirState
  <2> QED BY <1>3, <2>1 DEF ProbeAcksComplete, TypeOK, DirTypeOK, agentVars, queueVars
<1> QED BY <1>1, <1>2, <1>3

(* The response that ends a transaction is a response to a cache.          *)
LEMMA CompleteType ==
  ASSUME TypeOK, TBEInv, Complete, UNCHANGED agentVars
  PROVE  TypeOK'
<1> DEFINE t == mt_writeMemDataToTBE
           m == [to |-> t.req, type |-> "NBSysResp", state |-> Grant(t),
                 dirty |-> t.dirty /\ t.kind # "RdBlkS", data |-> t.data, wt |-> t.wt]
<1>1. dstate \in {"BS_M", "BM_M", "B_M", "BS_Pm", "BM_Pm", "B_Pm"}
  BY DEF Complete, LastIsData, LastIsAcks
<1>2. t \in TBE /\ tbe \in TBE /\ t.req = tbe.req /\ t.kind = tbe.kind
  BY <1>1, BusyTBE DEF mt_writeMemDataToTBE, TBE
<1>3. tbe.kind \in ReadTypes \cup GPUWrites
  BY <1>1 DEF TBEInv, KindsOf, BusyDma, ReadTypes, GPUWrites
<1>4. /\ t.data \in Line /\ t.wdata \in Line /\ t.mask \in SUBSET Word
      /\ t.dirty \in BOOLEAN /\ t.wt \in WTRs \cup {NoWTR}
  BY <1>2 DEF TBE
<1>5. t.req \in Agents
  BY <1>1, <1>2, <1>3 DEF TBEInv, ReadTypes, GPUWrites, DmaTypes
<1>6. dirData \in Line /\ l3 \in Line \cup {NoLine}
  BY DEF TypeOK, DirTypeOK
<1> HIDE DEF t
<1>7. Grant(t) \in {"NA", "Shared", "Exclusive", "Modified"}
  BY DEF Grant
<1>8. m \in NBResp
  <2>1. (t.dirty /\ t.kind # "RdBlkS") \in BOOLEAN
    BY Zenon
  <2> QED BY <1>4, <1>5, <1>7, <2>1 DEF NBResp
<1>9. rsps' \subseteq NBResp /\ trig' \subseteq {"AcksComplete", "UnblockWriteThrough"}
  BY <1>8 DEF Complete, SendResponse, TypeOK, DirTypeOK, t
<1>10. wd_writeBackData(t) \in Line
  BY <1>4, <1>6, LineType DEF wd_writeBackData
<1>11. dirData' \in Line /\ l3' \in Line \cup {NoLine}
  BY <1>4, <1>6, <1>10 DEF Complete, alwt_allocateL3BlockOnWT, t
<1> QED
  BY <1>9, <1>11 DEF Complete, TypeOK, DirTypeOK, DirState, agentVars, queueVars

(* The ends of DMA transactions and the unblocks keep the types.           *)
LEMMA EndType ==
  ASSUME TypeOK, TBEInv, UNCHANGED agentVars,
         \/ CompleteDmaRead \/ CompleteDmaWrite \/ UnblockWriteThrough
         \/ \E n \in unblocks : CoreUnblock(n)
  PROVE  TypeOK'
<1>1. /\ reqs' \in Seq(Request) /\ stalled' \in Seq(Request)
      /\ dmaReqs' \in Seq(DmaReq) /\ dmaStalled' \in Seq(DmaReq)
      /\ waiting' \subseteq {"request", "dma"}
  BY WakeType, Zenon DEF CompleteDmaRead, CompleteDmaWrite, UnblockWriteThrough, CoreUnblock,
                  wakeUpAllBuffers
<1>2. CASE CompleteDmaRead
  <2> DEFINE t == mt_writeMemDataToTBE
  <2>1. dstate \in {"BDR_M", "BDR_Pm"}
    BY <1>2 DEF CompleteDmaRead
  <2>2. t \in TBE /\ tbe \in TBE /\ t.req = tbe.req
    BY <2>1, BusyTBE DEF mt_writeMemDataToTBE, TBE
  <2>3. tbe.req \in DMAs
    BY <2>1 DEF TBEInv, KindsOf, BusyDma, DmaTypes
  <2>4. t.data \in Line /\ dirData \in Line
    BY <2>2 DEF TBE, TypeOK, DirTypeOK
  <2> HIDE DEF t
  <2>5. [to |-> t.req, type |-> "DATA", data |-> t.data] \in DmaResp
    BY <2>2, <2>3, <2>4 DEF DmaResp
  <2>6. dmaRsps' \subseteq DmaResp /\ dirData' \in Line
    BY <1>2, <2>4, <2>5 DEF CompleteDmaRead, TypeOK, DirTypeOK, t
  <2> QED BY <1>1, <1>2, <2>6 DEF CompleteDmaRead, TypeOK, DirTypeOK, DirState, agentVars
<1>3. CASE CompleteDmaWrite
  BY <1>1, <1>3 DEF CompleteDmaWrite, TypeOK, DirTypeOK, DirState, agentVars
<1>4. CASE UnblockWriteThrough
  BY <1>1, <1>4 DEF UnblockWriteThrough, TypeOK, DirTypeOK, DirState, agentVars
<1>5. CASE \E n \in unblocks : CoreUnblock(n)
  BY <1>1, <1>5 DEF CoreUnblock, TypeOK, DirTypeOK, DirState, agentVars
<1> QED BY <1>2, <1>3, <1>4, <1>5
=============================================================================
