------------------------ MODULE CoherenceTransactions -----------------------
(***************************************************************************)
(* The steps that start a transaction, and those of a transaction under    *)
(* way, preserve the inductive invariant of CoherenceProtocol.             *)
(***************************************************************************)
EXTENDS CoherenceTypes

-----------------------------------------------------------------------------
(* The rest of IInv is preserved, action by action                         *)

Core == TBEInv /\ AcksAccounted /\ TrigInv /\ PermInv /\ GrantInv /\ SWMR

(* The variables Core is about, but for the permissions.                   *)
core == <<dstate, tbe, trig, probes, resps, unblocks, rsps>>

(* Lowering gives no cache a permission it did not have.                   *)
LEMMA LoweredFact ==
  ASSUME TypeOK, NEW n \in Agents, NEW q, Lowered(n, q)
  PROVE  /\ perm'[n] = q
         /\ \A x \in Agents : /\ perm[x] = "none" => perm'[x] = "none"
                              /\ perm[x] # "write" => perm'[x] # "write"
                              /\ x # n => perm'[x] = perm[x]
<1>1. perm \in [Agents -> Perms] /\ perm[n] \in Perms
  BY DEF TypeOK
<1>2. perm' = [perm EXCEPT ![n] = q]
  BY DEF Lowered
<1>3. /\ perm[n] = "none" => q = "none"
      /\ perm[n] # "write" => q # "write"
  BY <1>1 DEF Lowered, UpTo, Perms
<1> QED BY <1>1, <1>2, <1>3

(* Hence SWMR survives every lowering.                                     *)
LEMMA LoweredSWMR ==
  ASSUME TypeOK, SWMR, NEW n \in Agents, NEW q, Lowered(n, q)
  PROVE  SWMR'
BY LoweredFact DEF SWMR

(* A step that touches neither permissions nor the transaction.            *)
LEMMA QuietStep ==
  ASSUME Core, UNCHANGED core, UNCHANGED perm
  PROVE  Core'
<1>1. TBEInv' /\ TrigInv'
  BY DEF Core, core, TBEInv, TrigInv
<1>2. AcksAccounted'
  BY Zenon DEF Core, core, AcksAccounted, Pending, Probed, Responded, PrbResps
<1>3. PermInv'
  BY DEF Core, core, PermInv, Probed, PrbResps
<1>4. GrantInv'
  BY DEF Core, core, GrantInv, Grants, Granted, AtomicResp
<1>5. SWMR'
  BY DEF Core, SWMR
<1> QED BY <1>1, <1>2, <1>3, <1>4, <1>5 DEF Core

(* A step that only lowers a permission: caches drop copies when they like.*)
LEMMA LowerStep ==
  ASSUME TypeOK, Core, UNCHANGED core, NEW n \in Agents, NEW q, Lowered(n, q)
  PROVE  Core'
<1>1. TBEInv' /\ TrigInv'
  BY DEF Core, core, TBEInv, TrigInv
<1>2. AcksAccounted'
  BY Zenon DEF Core, core, AcksAccounted, Pending, Probed, Responded, PrbResps
<1>3. PermInv'
  <2> SUFFICES ASSUME dstate' \notin {"U", "B", "BL"} PROVE PermInv'
    BY DEF PermInv
  <2>1. /\ \A p \in probes' : p.type = ProbeType(tbe'.kind)
        /\ Probed' = Probed /\ PrbResps' = PrbResps
    BY DEF Core, core, PermInv, Probed, PrbResps
  <2>2. ProbeDest(tbe.req, tbe.kind) \subseteq Agents
    BY DEF ProbeDest, Agents
  <2> QED BY <2>1, <2>2, LoweredFact DEF Core, core, PermInv
<1>4. GrantInv'
  <2>1. Grants' = Grants
    BY DEF core, Grants, AtomicResp
  <2> QED BY <2>1, LoweredFact DEF Core, core, GrantInv, Granted
<1>5. SWMR'
  BY LoweredSWMR DEF Core
<1> QED BY <1>1, <1>2, <1>3, <1>4, <1>5 DEF Core

(* No probe and no probe response is in flight when nothing is pending,    *)
(* which is so outside the probing states and when the counter is zero.    *)
LEMMA NonePending ==
  ASSUME TypeOK, AcksAccounted, dstate \notin Probing \/ tbe.acks = 0
  PROVE  Pending = {} /\ probes = {} /\ PrbResps = {} /\ Probed = {} /\ Responded = {}
<1>1. Pending = {}
  <2>1. CASE dstate \notin Probing
    BY <2>1 DEF AcksAccounted
  <2>2. CASE dstate \in Probing
    <3>1. Cardinality(Pending) = 0
      BY <2>2 DEF AcksAccounted
    <3>2. Pending \in SUBSET Agents
      BY DEF Pending, Probed, Responded, PrbResps, TypeOK, DirTypeOK, Probe, CPUResp
    <3> QED BY <3>1, <3>2, AgentsFinite, FS_EmptySet
  <2> QED BY <2>1, <2>2
<1> QED BY <1>1, Zenon DEF Pending, Probed, Responded

(* What holds between transactions.                                        *)
LEMMA IdleFact ==
  ASSUME TypeOK, Core, dstate = "U"
  PROVE  /\ tbe = NoTBE /\ "AcksComplete" \notin trig /\ "UnblockWriteThrough" \notin trig
         /\ Grants = {} /\ unblocks = {} /\ probes = {} /\ PrbResps = {}
<1>1. dstate \notin Probing
  BY DEF Probing
<1>2. probes = {} /\ PrbResps = {}
  BY <1>1, NonePending DEF Core
<1> QED BY <1>1, <1>2 DEF Core, TBEInv, TrigInv, GrantInv

(* The states a transaction with probes starts in.                         *)
Starts == {"BS_PM", "BM_PM", "B_PM", "BDR_PM", "BDW_P"}

(* The start of a transaction with probes: exactly the probed caches are   *)
(* pending, and there is no cache yet that has answered.                   *)
LEMMA ProbeStart ==
  ASSUME TypeOK, Core, dstate = "U", dstate' \in Starts,
         NEW dest \in SUBSET Agents, NEW kind, SendProbes(dest, kind),
         tbe'.kind = kind, tbe'.acks = Cardinality(dest),
         dest = ProbeDest(tbe'.req, kind), TBEInv',
         Grants' = Grants, UNCHANGED <<resps, unblocks, perm>>
  PROVE  Core'
<1>1. /\ tbe = NoTBE /\ "AcksComplete" \notin trig /\ "UnblockWriteThrough" \notin trig
      /\ Grants = {} /\ unblocks = {} /\ probes = {} /\ PrbResps = {}
  BY IdleFact
<1>2. probes' = [to : dest, type : {ProbeType(kind)}]
  BY <1>1 DEF SendProbes
<1>3. Probed' = dest
  <2>1. \A p \in probes' : p.to \in dest
    BY <1>2
  <2>2. \A n \in dest : [to |-> n, type |-> ProbeType(kind)] \in probes'
    BY <1>2
  <2>3. \A n \in dest : \E p \in probes' : p.to = n
    BY <2>2, Zenon
  <2> QED BY <2>1, <2>3 DEF Probed
<1>4. PrbResps' = {} /\ Responded' = {}
  BY <1>1 DEF PrbResps, Responded
<1>5. AcksAccounted'
  <2>1. Pending' = dest
    BY <1>3, <1>4 DEF Pending
  <2>2. \A p1, p2 \in probes' : p1.to = p2.to => p1 = p2
    BY <1>2
  <2>3. dstate' \in Probing
    BY DEF Starts, Probing
  <2> QED BY <1>3, <1>4, <2>1, <2>2, <2>3 DEF AcksAccounted
<1>6. TrigInv'
  <2>1. "AcksComplete" \in trig' => dest = {}
    BY <1>1 DEF SendProbes
  <2>2. dest = {} => tbe'.acks = 0
    BY FS_EmptySet
  <2> QED BY <2>1, <2>2 DEF TrigInv, Starts, Probing
<1>7. PermInv'
  <2>1. \A p \in probes' : p.type = ProbeType(kind)
    BY <1>2
  <2> QED BY <2>1, <1>3 DEF PermInv
<1>8. GrantInv'
  BY <1>1 DEF GrantInv, SendProbes
<1>9. SWMR'
  BY DEF Core, SWMR
<1> QED BY <1>5, <1>6, <1>7, <1>8, <1>9 DEF Core

(* RdBlk, RdBlkS, RdBlkM, WriteThrough and Atomic in U.                    *)
LEMMA StartStep ==
  ASSUME TypeOK, Core, StartRequest, UNCHANGED agentVars
  PROVE  Core'
<1> DEFINE r    == Head(reqs)
           dest == ProbeDest(r.from, r.type)
           t    == t_allocateTBE(r, Cardinality(dest))
<1>1. r \in Request /\ r.type \in ReadTypes \cup GPUWrites
  BY HeadType DEF StartRequest, TypeOK, DirTypeOK
<1>2. dest \in SUBSET Agents
  BY Zenon DEF ProbeDest, Agents
<1>3. t \in TBE /\ t.req = r.from /\ t.kind = r.type /\ t.acks = Cardinality(dest)
  BY <1>1, <1>2, AgentsFinite, TBEType, Zenon DEF t_allocateTBE, TypeOK, DirTypeOK
<1>4. tbe' \in TBE /\ tbe'.req = r.from /\ tbe'.kind = r.type /\ tbe'.acks = Cardinality(dest)
  <2> HIDE DEF t
  <2>1. tbe' = t \/ tbe' = [t EXCEPT !.data = l3]
    BY Zenon DEF StartRequest, l_queueMemRdReq, t
  <2>2. tbe' \in TBE
    BY <1>3, QueueType, SMTT(30) DEF StartRequest, TypeOK, DirTypeOK, t
  <2> QED BY <1>3, <2>1, <2>2 DEF TBE
<1>5. dstate = "U" /\ dstate' = BusyState(r.type) /\ SendProbes(dest, r.type)
  BY DEF StartRequest
<1>6. Grants' = Grants
  BY DEF StartRequest, Grants, AtomicResp, w_sendResponseWBAck
<1>7. dstate' \in Starts
  BY <1>1, <1>5, Zenon DEF BusyState, Starts
<1>8. TBEInv'
  <2>1. tbe' # NoTBE
    BY <1>4, DirectoryAssumption
  <2>2. r.from \in Agents /\ (r.type \in GPUWrites => r.from \in TCCs)
    BY <1>1, RequestType
  <2>3. r.type \in KindsOf(BusyState(r.type)) /\ r.type \notin DmaTypes
    BY <1>1 DEF KindsOf, BusyState, ReadTypes, GPUWrites, DmaTypes, BusyDma
  <2> QED BY <1>4, <1>5, <1>7, <2>1, <2>2, <2>3 DEF TBEInv, Starts
<1>9. UNCHANGED <<resps, unblocks, perm>>
  BY DEF StartRequest, agentVars
<1> HIDE DEF r, dest
<1>10. dest = ProbeDest(tbe'.req, r.type)
  BY <1>4 DEF dest
<1> QED BY <1>2, <1>4, <1>5, <1>6, <1>7, <1>8, <1>9, <1>10, ProbeStart, Zenon

(* DMA requests in U: every cache is probed.                               *)
LEMMA DmaStartStep ==
  ASSUME TypeOK, Core, DmaRead \/ DmaWrite, UNCHANGED agentVars
  PROVE  Core'
<1> DEFINE r == Head(dmaReqs)
           t == atd_allocateTBEforDMA(r)
<1>1. r \in DmaReq /\ r.type = (IF DmaRead THEN "DmaRead" ELSE "DmaWrite")
  BY HeadType DEF DmaRead, DmaWrite, TypeOK, DirTypeOK
<1>2. r.from \in DMAs /\ r.type \in DmaTypes
  BY <1>1, Zenon DEF DmaReq
<1>3. t \in TBE /\ t.req = r.from /\ t.kind = r.type /\ t.acks = Cardinality(Agents)
  BY <1>1, TBEType, Zenon DEF atd_allocateTBEforDMA, TypeOK, DirTypeOK
<1>4. tbe' = t \/ (tbe' = [t EXCEPT !.data = l3] /\ l3 \in Line)
  BY DEF DmaRead, DmaWrite, l_queueMemRdReq, TypeOK, DirTypeOK
<1>5. tbe' \in TBE /\ tbe'.req = r.from /\ tbe'.kind = r.type /\ tbe'.acks = Cardinality(Agents)
  <2> HIDE DEF t
  <2> QED BY <1>3, <1>4 DEF TBE
<1>6. /\ dstate = "U" /\ dstate' \in {"BDR_PM", "BDW_P"} /\ SendProbes(Agents, r.type)
      /\ UNCHANGED <<resps, unblocks, perm, rsps>>
  BY <1>1, Zenon DEF DmaRead, DmaWrite, agentVars
<1>7. Agents = ProbeDest(tbe'.req, r.type)
  BY <1>2, <1>5, DirectoryAssumption DEF ProbeDest, Agents, DmaTypes, GPUWrites
<1>8. TBEInv'
  <2>1. tbe' # NoTBE
    BY <1>5, DirectoryAssumption
  <2>2. r.type \notin GPUWrites
    BY <1>2 DEF DmaTypes, GPUWrites
  <2>3. KindsOf(dstate') = DmaTypes
    BY <1>6 DEF KindsOf, BusyDma
  <2> QED BY <1>2, <1>5, <1>6, <2>1, <2>2, <2>3 DEF TBEInv
<1>9. Grants' = Grants
  BY <1>6 DEF Grants, AtomicResp
<1>10. dstate' \in Starts
  BY <1>6 DEF Starts
<1> HIDE DEF r
<1> QED BY <1>5, <1>6, <1>7, <1>8, <1>9, <1>10, ProbeStart, Zenon

(* Every way back to U: no TBE, no trigger, no grant, no unblock is left.  *)
LEMMA BackToU ==
  ASSUME TypeOK, Core, dstate' = "U", tbe' = NoTBE,
         dstate \notin Probing \/ tbe.acks = 0,
         UNCHANGED <<probes, perm>>, PrbResps' = PrbResps, Grants' = {}, unblocks' = {},
         trig' = {}
  PROVE  Core'
<1>1. Probed = {} /\ PrbResps = {} /\ probes = {}
  BY NonePending DEF Core
<1>2. AcksAccounted'
  BY <1>1 DEF AcksAccounted, Pending, Probed, Responded, Probing
<1>3. TBEInv' /\ TrigInv' /\ PermInv' /\ GrantInv'
  BY DEF TBEInv, TrigInv, PermInv, GrantInv
<1>4. SWMR'
  BY DEF Core, SWMR
<1> QED BY <1>2, <1>3, <1>4 DEF Core

(* The victim's transaction: no probes, no grant.                          *)
LEMMA VictimStep ==
  ASSUME TypeOK, Core, UNCHANGED agentVars,
         StartVictim \/ (\E m \in resps : CPUData(m) \/ StaleWB(m))
  PROVE  Core'
<1>1. CASE StartVictim
  <2> DEFINE r == Head(reqs)
  <2>1. r \in Request /\ r.type \in VicTypes
    BY <1>1, HeadType DEF StartVictim, TypeOK, DirTypeOK
  <2>2. r.from \in Agents
    BY <2>1, RequestType, Zenon
  <2>3. tbe' \in TBE /\ tbe'.req = r.from /\ tbe'.kind = r.type
    BY <1>1, <2>1, TBEType, Zenon DEF StartVictim, t_allocateTBE, TypeOK, DirTypeOK
  <2>4. tbe' # NoTBE
    BY <2>3, DirectoryAssumption
  <2>5. /\ tbe = NoTBE /\ "AcksComplete" \notin trig /\ "UnblockWriteThrough" \notin trig
        /\ Grants = {} /\ unblocks = {} /\ probes = {} /\ PrbResps = {}
    BY <1>1, IdleFact DEF StartVictim
  <2>6. TBEInv'
    <3>1. KindsOf("BL") = VicTypes
      BY DEF KindsOf, BusyDma
    <3>2. r.type \notin GPUWrites /\ r.type \notin DmaTypes
      BY <2>1 DEF VicTypes, GPUWrites, DmaTypes
    <3> QED BY <1>1, <2>1, <2>2, <2>3, <2>4, <3>1, <3>2 DEF TBEInv, StartVictim
  <2>7. AcksAccounted'
    BY <1>1, <2>5 DEF StartVictim, AcksAccounted, Pending, Probed, Responded, PrbResps, Probing
  <2>8. TrigInv' /\ PermInv'
    BY <1>1, <2>5 DEF StartVictim, TrigInv, PermInv
  <2>9. Grants' = Grants
    BY <1>1 DEF StartVictim, Grants, AtomicResp, w_sendResponseWBAck
  <2>10. GrantInv'
    BY <1>1, <2>5, <2>9 DEF StartVictim, GrantInv
  <2>11. SWMR'
    BY DEF Core, SWMR, agentVars
  <2> QED BY <2>6, <2>7, <2>8, <2>10, <2>11 DEF Core
<1>2. ASSUME NEW m \in resps, CPUData(m) \/ StaleWB(m) PROVE Core'
  <2>1. /\ dstate = "BL" /\ dstate' = "U" /\ tbe' = NoTBE
        /\ UNCHANGED <<probes, perm, trig, unblocks, rsps>>
    BY <1>2 DEF CPUData, StaleWB, agentVars
  <2>2. PrbResps' = PrbResps
    BY <1>2 DEF CPUData, StaleWB, PrbResps
  <2>3. dstate \notin Probing
    BY <2>1 DEF Probing
  <2>4. Grants = {} /\ unblocks = {} /\ trig = {}
    BY <2>1, <2>3 DEF Core, GrantInv, TrigInv, TypeOK, DirTypeOK
  <2>5. Grants' = {}
    BY <2>1, <2>4 DEF Grants, AtomicResp
  <2> QED BY <2>1, <2>2, <2>3, <2>4, <2>5, BackToU
<1> QED BY <1>1, <1>2

(* Taking a probe response: the counter falls by one and so does the       *)
(* number of pending caches; the last one raises the trigger.              *)
LEMMA PrbRespStep ==
  ASSUME TypeOK, Core, NEW m \in resps, CPUPrbResp(m), UNCHANGED agentVars
  PROVE  Core'
<1>1. m \in PrbResps /\ dstate \in Probing /\ dstate' = dstate
  BY DEF CPUPrbResp, PrbResps
<1>2. tbe.acks \in Nat /\ tbe.acks # 0 /\ tbe.acks - 1 = Cardinality(Pending \ {m.from})
  BY <1>1, AckCounted DEF Core
<1>3. tbe \in TBE /\ tbe' \in TBE
  BY <1>1, BusyTBE, MergeType DEF Core, CPUPrbResp, Probing
<1>4. /\ tbe'.acks = tbe.acks - 1 /\ tbe'.kind = tbe.kind /\ tbe'.req = tbe.req
      /\ tbe'.cached = (tbe.cached \/ m.hit)
  BY <1>3 DEF CPUPrbResp, y_writeProbeDataToTBE, TBE
<1>5. PrbResps' = PrbResps \ {m} /\ Probed' = Probed /\ probes' = probes
  BY DEF CPUPrbResp, PrbResps, Probed
<1>6. Responded' = Responded \ {m.from}
  BY <1>1, <1>5 DEF Responded, Core, AcksAccounted
<1>7. m.from \in Responded /\ m.from \notin Probed
  BY <1>1 DEF Responded, Core, AcksAccounted
<1>8. Pending' = Pending \ {m.from}
  BY <1>5, <1>6, <1>7 DEF Pending
<1>9. TBEInv'
  BY <1>1, <1>3, <1>4, DirectoryAssumption, SMTT(30) DEF TBEInv, Core
<1>10. AcksAccounted'
  <2>1. tbe'.acks = Cardinality(Pending')
    BY <1>2, <1>4, <1>8
  <2> QED BY <1>1, <1>5, <1>6, <2>1 DEF Core, AcksAccounted
<1>11. TrigInv'
  <2>1. "AcksComplete" \notin trig
    BY <1>1, <1>2 DEF Core, TrigInv
  <2> QED BY <1>1, <1>2, <1>4, <2>1 DEF TrigInv, CPUPrbResp
<1>12. PermInv'
  <2> SUFFICES ASSUME dstate \notin {"U", "B", "BL"} PROVE PermInv'
    BY <1>1 DEF PermInv
  <2>1. perm' = perm
    BY DEF agentVars
  <2>2. \A x \in PrbResps : x.hit => x \in PrbResps' \/ tbe'.cached
    BY <1>4, <1>5, Zenon
  <2>3. tbe.cached => tbe'.cached
    BY <1>4, Zenon
  <2> QED BY <1>1, <1>4, <1>5, <2>1, <2>2, <2>3, Zenon DEF Core, PermInv
<1>13. GrantInv'
  <2>1. Grants = {} /\ unblocks = {} /\ "UnblockWriteThrough" \notin trig
    BY <1>1 DEF Core, GrantInv, Probing
  <2>2. Grants' = {} /\ unblocks' = {} /\ "UnblockWriteThrough" \notin trig'
    BY <2>1 DEF CPUPrbResp, Grants, AtomicResp
  <2> QED BY <2>2 DEF GrantInv
<1>14. SWMR'
  BY DEF Core, SWMR, agentVars
<1> QED BY <1>9, <1>10, <1>11, <1>12, <1>13, <1>14 DEF Core

(* The arrival of the data, or of the last acknowledgement before it.      *)
LEMMA HalfStep ==
  ASSUME TypeOK, Core, MemData \/ ProbeAcksComplete, UNCHANGED agentVars
  PROVE  Core'
<1>1. /\ dstate \in {"BDR_PM", "BS_PM", "BM_PM", "B_PM"}
      /\ dstate' \notin {"U", "B", "BL"} /\ KindsOf(dstate') = KindsOf(dstate)
      /\ MemData => dstate' \in Probing
      /\ ~MemData => dstate' \notin Probing
  <2>1. CASE MemData
    BY <2>1 DEF MemData, AfterData, KindsOf, BusyDma, Probing
  <2>2. CASE ~MemData
    <3>1. ProbeAcksComplete
      BY <2>2
    <3> QED BY <2>2, <3>1 DEF ProbeAcksComplete, AfterAcks, KindsOf, BusyDma, Probing
  <2> QED BY <2>1, <2>2
<1>2. tbe \in TBE /\ tbe' \in TBE
  BY <1>1, BusyTBE DEF Core, MemData, ProbeAcksComplete
<1>3. /\ tbe'.acks = tbe.acks /\ tbe'.kind = tbe.kind /\ tbe'.req = tbe.req
      /\ tbe'.cached = tbe.cached
  BY <1>2 DEF MemData, ProbeAcksComplete, mt_writeMemDataToTBE, TBE
<1>4. /\ UNCHANGED <<probes, resps, unblocks, rsps, perm>>
      /\ Probed' = Probed /\ PrbResps' = PrbResps /\ Responded' = Responded
      /\ Pending' = Pending /\ Grants' = Grants
  BY DEF MemData, ProbeAcksComplete, agentVars, Probed, PrbResps, Responded, Pending,
         Grants, AtomicResp
<1>5. TBEInv'
  BY <1>1, <1>2, <1>3, DirectoryAssumption DEF Core, TBEInv
<1>6. AcksAccounted'
  <2>1. CASE MemData
    BY <1>1, <1>3, <1>4, <2>1, Zenon DEF Core, AcksAccounted, Probing
  <2>2. CASE ~MemData
    <3>1. tbe.acks = 0
      BY <2>2 DEF Core, TrigInv, ProbeAcksComplete
    <3>2. Pending = {}
      BY <3>1, NonePending DEF Core
    <3> QED BY <1>1, <1>4, <2>2, <3>2 DEF Core, AcksAccounted
  <2> QED BY <2>1, <2>2
<1>7. TrigInv'
  BY <1>1, <1>3 DEF Core, TrigInv, MemData, ProbeAcksComplete
<1>8. PermInv'
  BY <1>1, <1>3, <1>4 DEF Core, PermInv
<1>9. GrantInv'
  <2>1. Grants = {} /\ unblocks = {} /\ "UnblockWriteThrough" \notin trig
    BY <1>1 DEF Core, GrantInv
  <2>2. "UnblockWriteThrough" \notin trig'
    BY <2>1 DEF MemData, ProbeAcksComplete
  <2> QED BY <1>4, <2>1, <2>2 DEF GrantInv
<1>10. SWMR'
  BY <1>4 DEF Core, SWMR
<1> QED BY <1>5, <1>6, <1>7, <1>8, <1>9, <1>10 DEF Core
=============================================================================
