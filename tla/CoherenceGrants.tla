--------------------------- MODULE CoherenceGrants --------------------------
(***************************************************************************)
(* The steps that end a transaction, and those of the caches that answer   *)
(* probes and take grants and acknowledgements, preserve the inductive     *)
(* invariant of CoherenceProtocol.                                         *)
(***************************************************************************)
EXTENDS CoherenceTransactions

(* When a transaction completes, every cache but the requestor has         *)
(* answered its probe, and its copy is compatible with what is granted.    *)
LEMMA CompleteFact ==
  ASSUME TypeOK, Core, LastIsData \/ LastIsAcks
  PROVE  /\ tbe \in TBE /\ tbe.kind \in ReadTypes \cup GPUWrites /\ tbe.req \in Agents
         /\ Probed = {} /\ PrbResps = {} /\ probes = {} /\ Grants = {} /\ unblocks = {}
         /\ "UnblockWriteThrough" \notin trig
         /\ tbe.kind \in GPUWrites => \A n \in CorePairs : perm[n] = "none"
         /\ tbe.kind \notin GPUWrites =>
              \A n \in Agents \ {tbe.req} :
                 /\ perm[n] # "write"
                 /\ tbe.kind = "RdBlkM" => perm[n] = "none"
                 /\ tbe.kind = "RdBlk" /\ ~tbe.cached => perm[n] = "none"
<1>1. dstate \in {"BS_M", "BM_M", "B_M", "BS_Pm", "BM_Pm", "B_Pm"}
  BY DEF LastIsData, LastIsAcks
<1>2. /\ tbe \in TBE /\ tbe.kind \in ReadTypes \cup GPUWrites
      /\ tbe.kind \in GPUWrites => tbe.req \in TCCs
  BY <1>1, BusyTBE DEF Core, TBEInv, KindsOf, BusyDma, ReadTypes, GPUWrites
<1>3. tbe.req \in Agents
  BY <1>1, <1>2 DEF Core, TBEInv, ReadTypes, GPUWrites, DmaTypes
<1>4. dstate \notin Probing \/ tbe.acks = 0
  BY DEF LastIsData, LastIsAcks, Probing, Core, TrigInv
<1>5. Probed = {} /\ PrbResps = {} /\ probes = {}
  BY <1>4, NonePending DEF Core
<1>6. Grants = {} /\ unblocks = {} /\ "UnblockWriteThrough" \notin trig
  BY <1>1 DEF Core, GrantInv
<1>7. \A n \in ProbeDest(tbe.req, tbe.kind) :
        IF ProbeType(tbe.kind) = "PrbInv" THEN perm[n] = "none"
        ELSE perm[n] # "write" /\ (perm[n] = "none" \/ tbe.cached)
  BY <1>1, <1>5 DEF Core, PermInv
<1>8. tbe.kind \in GPUWrites => \A n \in CorePairs : perm[n] = "none"
  <2> SUFFICES ASSUME tbe.kind \in GPUWrites, NEW n \in CorePairs PROVE perm[n] = "none"
    OBVIOUS
  <2>1. n \in ProbeDest(tbe.req, tbe.kind)
    BY <1>2, DirectoryAssumption DEF ProbeDest
  <2>2. ProbeType(tbe.kind) = "PrbInv"
    BY DEF ProbeType, GPUWrites
  <2> QED BY <1>7, <2>1, <2>2
<1>9. ASSUME tbe.kind \notin GPUWrites, NEW n \in Agents \ {tbe.req}
      PROVE  /\ perm[n] # "write"
             /\ tbe.kind = "RdBlkM" => perm[n] = "none"
             /\ tbe.kind = "RdBlk" /\ ~tbe.cached => perm[n] = "none"
  <2>1. n \in ProbeDest(tbe.req, tbe.kind)
    BY <1>9 DEF ProbeDest, Agents
  <2>2. ProbeType(tbe.kind) = "PrbInv" \/ tbe.kind \in {"RdBlk", "RdBlkS"}
    BY <1>2, <1>9 DEF ProbeType, ReadTypes
  <2>3. tbe.kind = "RdBlkM" => ProbeType(tbe.kind) = "PrbInv"
    BY DEF ProbeType
  <2> QED BY <1>7, <2>1, <2>2, <2>3
<1> QED BY <1>2, <1>3, <1>5, <1>6, <1>8, <1>9

(* The completion of a transaction: the one grant it sends is compatible   *)
(* with the copies that are left.                                          *)
LEMMA CompleteStep ==
  ASSUME TypeOK, Core, Complete, UNCHANGED agentVars
  PROVE  Core'
<1> DEFINE t == mt_writeMemDataToTBE
           g == [to |-> t.req, type |-> "NBSysResp", state |-> Grant(t),
                 dirty |-> t.dirty /\ t.kind # "RdBlkS", data |-> t.data, wt |-> t.wt]
<1>0. LastIsData \/ LastIsAcks
  BY DEF Complete
<1>1. /\ tbe \in TBE /\ tbe.kind \in ReadTypes \cup GPUWrites /\ tbe.req \in Agents
      /\ Probed = {} /\ PrbResps = {} /\ probes = {} /\ Grants = {} /\ unblocks = {}
      /\ "UnblockWriteThrough" \notin trig
  BY <1>0, CompleteFact
<1>2. t.req = tbe.req /\ t.kind = tbe.kind /\ t.cached = tbe.cached
  BY <1>1 DEF mt_writeMemDataToTBE, TBE
<1>3. /\ dstate' = "B" /\ tbe' = NoTBE /\ SendResponse(t)
      /\ UNCHANGED <<probes, resps, unblocks, perm>>
  BY DEF Complete, agentVars
<1> HIDE DEF t
<1>4. TBEInv' /\ PermInv'
  BY <1>3 DEF TBEInv, PermInv
<1>5. AcksAccounted'
  BY <1>1, <1>3 DEF AcksAccounted, Pending, Probed, Responded, PrbResps, Probing
<1>6. TrigInv'
  BY <1>3 DEF TrigInv, SendResponse
<1>7. GrantInv'
  <2>1. CASE t.kind \in GPUWrites
    <3>1. t.req \in TCCs
      BY <1>0, <1>2, <2>1 DEF LastIsData, LastIsAcks, Core, TBEInv
    <3>2. t.kind # "WriteThrough" => g.to \in TCCs /\ g.state = "Modified"
      BY <2>1, <3>1 DEF Grant, GPUWrites
    <3>3. rsps' = rsps \/ (t.kind # "WriteThrough" /\ rsps' = rsps \cup {g})
      BY <1>3 DEF SendResponse
    <3>4. Grants' = {}
      BY <1>1, <3>2, <3>3 DEF Grants, AtomicResp
    <3> QED BY <1>1, <1>3, <3>4 DEF GrantInv
  <2>2. CASE t.kind \notin GPUWrites
    <3>1. rsps' = rsps \cup {g} /\ "UnblockWriteThrough" \notin trig'
      BY <1>1, <1>3, <2>2 DEF SendResponse, GPUWrites
    <3>2. Grants' \subseteq {g}
      BY <1>1, <3>1 DEF Grants, AtomicResp
    <3>3. \A n \in Agents \ {g.to} :
            IF Granted(g) = "write" THEN perm[n] = "none" ELSE perm[n] # "write"
      <4> SUFFICES ASSUME NEW n \in Agents \ {t.req}
                   PROVE  IF Granted(g) = "write" THEN perm[n] = "none" ELSE perm[n] # "write"
        OBVIOUS
      <4>1. /\ perm[n] # "write"
            /\ t.kind = "RdBlkM" => perm[n] = "none"
            /\ t.kind = "RdBlk" /\ ~t.cached => perm[n] = "none"
        BY <1>0, <1>2, <2>2, CompleteFact
      <4>2. t.kind \in {"RdBlk", "RdBlkS", "RdBlkM"}
        BY <1>1, <1>2, <2>2 DEF ReadTypes
      <4>3. Granted(g) = "write" => Grant(t) # "Shared"
        BY DEF Granted
      <4>4. Grant(t) # "Shared" => t.kind = "RdBlkM" \/ (t.kind = "RdBlk" /\ ~t.cached)
        BY <4>2 DEF Grant
      <4> QED BY <4>1, <4>3, <4>4
    <3>4. \A m1, m2 \in Grants' : m1 = m2
      BY <3>2
    <3>5. \A m \in Grants' : \A n \in Agents \ {m.to} :
            IF Granted(m) = "write" THEN perm'[n] = "none" ELSE perm'[n] # "write"
      BY <1>3, <3>2, <3>3
    <3> QED BY <1>1, <1>3, <3>1, <3>4, <3>5 DEF GrantInv
  <2> QED BY <2>1, <2>2
<1>8. SWMR'
  BY <1>3 DEF Core, SWMR
<1> QED BY <1>4, <1>5, <1>6, <1>7, <1>8 DEF Core

(* The ends of DMA transactions and the unblocks go back to U.             *)
LEMMA EndStep ==
  ASSUME TypeOK, Core, UNCHANGED agentVars,
         \/ CompleteDmaRead \/ CompleteDmaWrite \/ UnblockWriteThrough
         \/ \E n \in unblocks : CoreUnblock(n)
  PROVE  Core'
<1>1. CASE CompleteDmaRead \/ CompleteDmaWrite
  <2>1. /\ dstate \in {"BDR_M", "BDR_Pm", "BDW_P"} /\ dstate' = "U" /\ tbe' = NoTBE
        /\ UNCHANGED <<probes, resps, unblocks, rsps, perm>>
        /\ trig' = trig \ {"AcksComplete"}
    BY <1>1 DEF CompleteDmaRead, CompleteDmaWrite, agentVars
  <2>2. dstate \notin Probing \/ tbe.acks = 0
    BY <1>1 DEF CompleteDmaRead, CompleteDmaWrite, Probing, Core, TrigInv
  <2>3. Grants = {} /\ unblocks = {} /\ "UnblockWriteThrough" \notin trig
    BY <2>1 DEF Core, GrantInv
  <2>4. trig' = {} /\ Grants' = {} /\ PrbResps' = PrbResps /\ unblocks' = {}
    BY <2>1, <2>3 DEF TypeOK, DirTypeOK, Grants, AtomicResp, PrbResps
  <2> QED BY <2>1, <2>2, <2>4, BackToU, SMTT(30)
<1>2. CASE UnblockWriteThrough \/ \E n \in unblocks : CoreUnblock(n)
  <2>1. /\ dstate = "B" /\ dstate' = "U"
        /\ UNCHANGED <<probes, resps, rsps, perm, tbe>>
    BY <1>2 DEF UnblockWriteThrough, CoreUnblock, agentVars
  <2>2. dstate \notin Probing /\ tbe = NoTBE
    BY <2>1 DEF Probing, Core, TBEInv
  <2>3. Grants = {} /\ trig' = {} /\ unblocks' = {}
    <3>1. "AcksComplete" \notin trig
      BY <2>2 DEF Core, TrigInv
    <3>2. CASE UnblockWriteThrough
      BY <3>1, <3>2, SMTT(30) DEF UnblockWriteThrough, Core, GrantInv, TypeOK, DirTypeOK
    <3>3. ASSUME NEW n \in unblocks, CoreUnblock(n)
          PROVE  Grants = {} /\ trig' = {} /\ unblocks' = {}
      BY <3>1, <3>3 DEF CoreUnblock, Core, GrantInv, TypeOK, DirTypeOK
    <3> QED BY <1>2, <3>2, <3>3
  <2>4. Grants' = {} /\ PrbResps' = PrbResps
    BY <2>1, <2>3 DEF Grants, AtomicResp, PrbResps
  <2> QED BY <2>1, <2>2, <2>3, <2>4, BackToU
<1> QED BY <1>1, <1>2

(* A cache answers its probe: it stays pending, now with its response, and *)
(* what it keeps is what the probe allows and the response says.           *)
LEMMA AnswerProbeStep ==
  ASSUME TypeOK, Core, NEW p \in probes, AnswerProbe(p)
  PROVE  Core'
<1>1. PICK q \in {"none", "read"}, hit, dirty \in BOOLEAN, data \in Line :
        /\ q = "read" => p.type = "PrbDowngrade" /\ hit
        /\ Lowered(p.to, q)
        /\ resps' = resps \cup {[from |-> p.to, type |-> "CPUPrbResp",
                                 dirty |-> dirty, hit |-> hit, data |-> data]}
  BY DEF AnswerProbe
<1> DEFINE m == [from |-> p.to, type |-> "CPUPrbResp", dirty |-> dirty, hit |-> hit,
                 data |-> data]
<1>2. /\ probes' = probes \ {p} /\ UNCHANGED <<dstate, tbe, trig, unblocks, rsps>>
      /\ p.to \in Agents
  BY DEF AnswerProbe, dirOwn, TypeOK, DirTypeOK, Probe
<1>3. PrbResps' = PrbResps \cup {m}
  BY <1>1 DEF PrbResps
<1>4. p.to \in Probed /\ p.to \in Pending
  BY DEF Probed, Pending
<1>5. dstate \in Probing
  BY <1>4 DEF Core, AcksAccounted
<1>6. p.to \notin Responded
  BY <1>4 DEF Core, AcksAccounted
<1>7. Probed' = Probed \ {p.to}
  BY <1>2 DEF Probed, Core, AcksAccounted
<1>8. Responded' = Responded \cup {p.to}
  <2>1. m.from = p.to
    OBVIOUS
  <2> HIDE DEF m
  <2> QED BY <1>3, <2>1 DEF Responded
<1>9. Pending' = Pending
  BY <1>4, <1>7, <1>8 DEF Pending
<1>10. TBEInv' /\ TrigInv'
  BY <1>2 DEF Core, TBEInv, TrigInv
<1>11. AcksAccounted'
  <2>1. \A m1, m2 \in PrbResps' : m1.from = m2.from => m1 = m2
    <3>1. \A m1 \in PrbResps : m1.from # m.from
      BY <1>6 DEF Responded
    <3> QED BY <1>3, <3>1 DEF Core, AcksAccounted
  <2>2. \A p1, p2 \in probes' : p1.to = p2.to => p1 = p2
    BY <1>2 DEF Core, AcksAccounted
  <2>3. Probed' \cap Responded' = {}
    BY <1>7, <1>8 DEF Core, AcksAccounted
  <2> QED BY <1>2, <1>5, <1>9, <2>1, <2>2, <2>3, SMTT(30) DEF Core, AcksAccounted
<1>12. PermInv'
  <2> SUFFICES ASSUME dstate \notin {"U", "B", "BL"} PROVE PermInv'
    BY <1>2 DEF PermInv
  <2>1. \A x \in probes' : x.type = ProbeType(tbe.kind)
    BY <1>2 DEF Core, PermInv
  <2>2. p.type = ProbeType(tbe.kind)
    BY DEF Core, PermInv
  <2>3. \A n \in ProbeDest(tbe.req, tbe.kind) \ Probed' :
          IF ProbeType(tbe.kind) = "PrbInv" THEN perm'[n] = "none"
          ELSE /\ perm'[n] # "write"
               /\ perm'[n] = "none" \/ tbe.cached \/ \E x \in PrbResps' : x.from = n /\ x.hit
    <3> SUFFICES ASSUME NEW n \in ProbeDest(tbe.req, tbe.kind) \ Probed'
                 PROVE  IF ProbeType(tbe.kind) = "PrbInv" THEN perm'[n] = "none"
                        ELSE /\ perm'[n] # "write"
                             /\ \/ perm'[n] = "none" \/ tbe.cached
                                \/ \E x \in PrbResps' : x.from = n /\ x.hit
      OBVIOUS
    <3>0. n \in Agents
      BY DEF ProbeDest, Agents
    <3>1. CASE n = p.to
      <4>1. perm'[n] = q
        BY <1>1, <1>2, <3>1, LoweredFact, SMTT(30)
      <4>2. q = "read" => \E x \in PrbResps' : x.from = n /\ x.hit
        <5>1. m.from = p.to /\ m.hit = hit
          OBVIOUS
        <5> HIDE DEF m
        <5> QED BY <1>1, <1>3, <3>1, <5>1, Zenon
      <4> QED BY <1>1, <2>2, <4>1, <4>2, SMTT(30)
    <3>2. CASE n # p.to
      <4>1. perm'[n] = perm[n]
        BY <1>1, <1>2, <3>0, <3>2, LoweredFact
      <4>2. n \in ProbeDest(tbe.req, tbe.kind) \ Probed
        BY <1>7, <3>2
      <4>3. PrbResps \subseteq PrbResps'
        BY <1>3
      <4> QED BY <4>1, <4>2, <4>3, SMTT(30) DEF Core, PermInv
    <3> QED BY <3>1, <3>2
  <2> QED BY <1>2, <2>1, <2>3 DEF PermInv
<1>13. GrantInv'
  <2>1. Grants = {} /\ unblocks = {} /\ "UnblockWriteThrough" \notin trig
    BY <1>5 DEF Core, GrantInv, Probing
  <2>2. Grants' = {}
    BY <1>2, <2>1 DEF Grants, AtomicResp
  <2> QED BY <1>2, <2>1, <2>2, SMTT(30) DEF GrantInv
<1>14. SWMR'
  BY <1>1, <1>2, LoweredSWMR DEF Core
<1> QED BY <1>10, <1>11, <1>12, <1>13, <1>14, SMTT(30) DEF Core

(* A cache receives the grant: the line is blocked in B until it unblocks, *)
(* so nothing has changed since the grant was sent.                        *)
LEMMA GrantStep ==
  ASSUME TypeOK, Core, NEW m \in rsps, ReceiveGrant(m)
  PROVE  Core'
<1>1. /\ m \in Grants /\ perm' = [perm EXCEPT ![m.to] = Granted(m)]
      /\ unblocks' = unblocks \cup {m.to} /\ rsps' = rsps \ {m}
      /\ UNCHANGED <<dstate, tbe, trig, probes, resps>>
  BY DEF ReceiveGrant, dirOwn
<1>2. dstate = "B" /\ unblocks = {} /\ "UnblockWriteThrough" \notin trig
  BY <1>1 DEF Core, GrantInv
<1>3. Grants' = {}
  BY <1>1 DEF Grants, AtomicResp, Core, GrantInv
<1>4. TBEInv' /\ TrigInv' /\ PermInv'
  BY <1>1, <1>2 DEF Core, TBEInv, TrigInv, PermInv
<1>5. AcksAccounted'
  BY <1>1, Zenon DEF Core, AcksAccounted, Pending, Probed, Responded, PrbResps
<1>6. GrantInv'
  BY <1>1, <1>2, <1>3 DEF GrantInv
<1>7. SWMR'
  <2>1. perm \in [Agents -> Perms] /\ m.to \in Agents
    BY DEF TypeOK, DirTypeOK, NBResp
  <2>2. \A n \in Agents \ {m.to} :
          /\ IF Granted(m) = "write" THEN perm[n] = "none" ELSE perm[n] # "write"
          /\ perm'[n] = perm[n]
    BY <1>1, <2>1 DEF Core, GrantInv
  <2>3. perm'[m.to] = Granted(m)
    BY <1>1, <2>1
  <2> QED BY <2>1, <2>2, <2>3 DEF Core, SWMR
<1> QED BY <1>4, <1>5, <1>6, <1>7 DEF Core

(* The acknowledgements of victims and GPU writes grant nothing.           *)
LEMMA AckStep ==
  ASSUME TypeOK, Core, NEW m \in rsps, AnswerWBAck(m) \/ ReceiveGPUAck(m)
  PROVE  Core'
<1>1. /\ m \notin Grants /\ rsps' = rsps \ {m}
      /\ UNCHANGED <<dstate, tbe, trig, probes, unblocks>>
  BY DEF AnswerWBAck, ReceiveGPUAck, dirOwn, Grants
<1>2. Grants' = Grants
  BY <1>1 DEF Grants, AtomicResp
<1>3. PrbResps' = PrbResps /\ Probed' = Probed
  BY <1>1, SMTT(30) DEF AnswerWBAck, ReceiveGPUAck, PrbResps, Probed
<1>4. m.to \in Agents
  BY DEF TypeOK, DirTypeOK, NBResp
<1>5. /\ SWMR'
      /\ \A x \in Agents : /\ perm[x] = "none" => perm'[x] = "none"
                           /\ perm[x] # "write" => perm'[x] # "write"
  <2>1. CASE AnswerWBAck(m)
    <3>1. PICK q \in {"none", "read"} : Lowered(m.to, q)
      BY <2>1 DEF AnswerWBAck
    <3> QED BY <1>4, <3>1, LoweredFact, LoweredSWMR DEF Core
  <2>2. CASE ReceiveGPUAck(m)
    BY <2>2 DEF ReceiveGPUAck, Core, SWMR
  <2> QED BY <2>1, <2>2
<1>6. TBEInv' /\ TrigInv'
  BY <1>1 DEF Core, TBEInv, TrigInv
<1>7. AcksAccounted'
  BY <1>1, <1>3 DEF Core, AcksAccounted, Pending, Responded
<1>8. PermInv'
  <2>1. ProbeDest(tbe.req, tbe.kind) \subseteq Agents
    BY DEF ProbeDest, Agents
  <2> QED BY <1>1, <1>3, <1>5, <2>1 DEF Core, PermInv
<1>9. GrantInv'
  BY <1>1, <1>2, <1>5 DEF Core, GrantInv, Granted
<1> QED BY <1>5, <1>6, <1>7, <1>8, <1>9 DEF Core
=============================================================================
