--------------------------- MODULE CoherenceProofs --------------------------
(***************************************************************************)
(* Theorems about CoherenceProtocol, for any number of caches, words,      *)
(* values and DMA controllers.  IInv is inductive; SWMR, the accounting of *)
(* probe acknowledgements and GPUWriteAlone follow from it.                *)
(***************************************************************************)
EXTENDS CoherenceGrants

-----------------------------------------------------------------------------
(* Types under the steps of the caches                                     *)

(* Lowering a permission (dropping or downgrading a copy) keeps its type.  *)
LEMMA LowerType ==
  ASSUME TypeOK, NEW n \in Agents, NEW q, Lowered(n, q)
  PROVE  perm' \in [Agents -> Perms] /\ q \in Perms
<1>1. perm[n] \in Perms
  BY DEF TypeOK
<1>2. q \in Perms
  BY <1>1 DEF Lowered, UpTo, Perms
<1> QED BY <1>2 DEF Lowered, TypeOK

(* So does the read request that may go with an answer (MaybeRead).        *)
LEMMA NewReadType ==
  ASSUME TypeOK, NEW n \in Agents, MaybeRead(n)
  PROVE  reading' \subseteq Agents /\ reqs' \in Seq(Request)
<1>1. ASSUME NEW t \in ReadTypes, NewRead(n, t)
      PROVE  reading' \subseteq Agents /\ reqs' \in Seq(Request)
  <2>1. Plain(n, t) \in Request
    BY LineType DEF Plain, Request, ReadReq
  <2>2. reqs \in Seq(Request) /\ reading \subseteq Agents
    BY DEF TypeOK, DirTypeOK
  <2> QED BY <1>1, <2>1, <2>2, SMTT(30) DEF NewRead
<1>2. CASE UNCHANGED <<reading, reqs>>
  BY <1>2 DEF TypeOK, DirTypeOK
<1> QED BY <1>1, <1>2 DEF MaybeRead

(* So do all steps that caches take on their own.                          *)
LEMMA CacheType ==
  ASSUME TypeOK, CacheStep
  PROVE  TypeOK'
<1>1. ASSUME NEW n \in Agents, Lower(n) PROVE TypeOK'
  <2>1. perm' \in [Agents -> Perms]
    BY <1>1, LowerType DEF Lower
  <2> QED BY <1>1, <2>1 DEF Lower, TypeOK, DirTypeOK, dirVars, queueVars
<1>2. ASSUME NEW n \in Agents, NEW t \in ReadTypes, SendRead(n, t) PROVE TypeOK'
  <2>1. perm' \in [Agents -> Perms]
    BY <1>2, LowerType DEF SendRead
  <2>2. reading' \subseteq Agents /\ reqs' \in Seq(Request)
    BY <1>2, NewReadType DEF SendRead, MaybeRead
  <2> QED BY <1>2, <2>1, <2>2 DEF SendRead, TypeOK, DirTypeOK, dirOwn
<1>3. ASSUME NEW n \in CorePairs, NEW t \in VicTypes, SendVictim(n, t) PROVE TypeOK'
  <2>1. perm' \in [Agents -> Perms]
    BY <1>3, LowerType, Zenon DEF SendVictim, Agents
  <2>2. Plain(n, t) \in Request
    BY LineType DEF Plain, Request, VicReq
  <2>3. reqs \in Seq(Request)
    BY DEF TypeOK, DirTypeOK
  <2>4. reqs' \in Seq(Request) /\ evicting' \subseteq CorePairs
    BY <1>3, <2>2, <2>3, SMTT(30) DEF SendVictim, TypeOK
  <2> QED BY <1>3, <2>1, <2>4 DEF SendVictim, TypeOK, DirTypeOK, dirOwn
<1>4. ASSUME NEW n \in TCCs, NEW t \in GPUWrites, NEW mask \in SUBSET Word,
             NEW d \in Line, NEW w \in WTRs, SendGPUWrite(n, t, mask, d, w)
      PROVE  TypeOK'
  <2>1. perm' \in [Agents -> Perms]
    BY <1>4, LowerType, Zenon DEF SendGPUWrite, Agents
  <2>2. [from |-> n, type |-> t, mask |-> mask, data |-> d, wt |-> w] \in Request
    BY DEF Request, WriteReq
  <2>3. reqs \in Seq(Request)
    BY DEF TypeOK, DirTypeOK
  <2>4. reqs' \in Seq(Request) /\ writes' \subseteq WTRs \X GPUWrites
    BY <1>4, <2>2, <2>3 DEF SendGPUWrite, TypeOK
  <2> QED BY <1>4, <2>1, <2>4, SMTT(30) DEF SendGPUWrite, TypeOK, DirTypeOK, dirOwn
<1>5. ASSUME NEW d \in DMAs, NEW t \in DmaTypes, NEW line \in Line, SendDma(d, t, line)
      PROVE  TypeOK'
  <2>1. [from |-> d, type |-> t, data |-> line] \in DmaReq /\ dmaReqs \in Seq(DmaReq)
    BY DEF DmaReq, TypeOK, DirTypeOK
  <2>2. dmaReqs' \in Seq(DmaReq) /\ dmaBusy' \subseteq DMAs
    BY <1>5, <2>1 DEF SendDma, TypeOK
  <2> QED BY <1>5, <2>2 DEF SendDma, TypeOK, DirTypeOK, dirOwn
<1> QED BY <1>1, <1>2, <1>3, <1>4, <1>5 DEF CacheStep

(* Answers of the caches keep the types.                                   *)
LEMMA AnswerType ==
  ASSUME TypeOK, AnswerStep
  PROVE  TypeOK'
<1>1. ASSUME NEW p \in probes, AnswerProbe(p) PROVE TypeOK'
  <2>1. p.to \in Agents
    BY DEF TypeOK, DirTypeOK, Probe
  <2>2. perm' \in [Agents -> Perms] /\ resps' \subseteq CPUResp
    <3>1. PICK q \in {"none", "read"}, hit, dirty \in BOOLEAN, data \in Line :
            /\ Lowered(p.to, q)
            /\ resps' = resps \cup {[from |-> p.to, type |-> "CPUPrbResp",
                                     dirty |-> dirty, hit |-> hit, data |-> data]}
      BY <1>1 DEF AnswerProbe
    <3>2. [from |-> p.to, type |-> "CPUPrbResp", dirty |-> dirty, hit |-> hit,
           data |-> data] \in CPUResp
      BY <2>1 DEF CPUResp
    <3> QED BY <2>1, <3>1, <3>2, LowerType DEF TypeOK, DirTypeOK
  <2>3. reading' \subseteq Agents /\ reqs' \in Seq(Request)
    BY <1>1, <2>1, NewReadType DEF AnswerProbe
  <2> QED BY <1>1, <2>2, <2>3 DEF AnswerProbe, TypeOK, DirTypeOK, dirOwn
<1>2. ASSUME NEW m \in rsps, ReceiveGrant(m) PROVE TypeOK'
  <2>1. m.to \in Agents
    BY DEF TypeOK, DirTypeOK, NBResp
  <2>2. perm' \in [Agents -> Perms]
    BY <1>2, <2>1 DEF ReceiveGrant, Granted, TypeOK, Perms
  <2> QED BY <1>2, <2>1, <2>2 DEF ReceiveGrant, TypeOK, DirTypeOK, dirOwn
<1>3. ASSUME NEW m \in rsps, AnswerWBAck(m) PROVE TypeOK'
  <2>1. m.to \in Agents
    BY DEF TypeOK, DirTypeOK, NBResp
  <2>2. perm' \in [Agents -> Perms] /\ resps' \subseteq CPUResp
    <3>1. PICK q \in {"none", "read"}, t \in {"CPUData", "StaleNotif"}, data \in Line :
            /\ Lowered(m.to, q)
            /\ resps' = resps \cup {[from |-> m.to, type |-> t, dirty |-> FALSE,
                                     hit |-> FALSE, data |-> data]}
      BY <1>3 DEF AnswerWBAck
    <3>2. [from |-> m.to, type |-> t, dirty |-> FALSE, hit |-> FALSE, data |-> data]
            \in CPUResp
      BY <2>1 DEF CPUResp
    <3> QED BY <2>1, <3>1, <3>2, LowerType, Zenon DEF TypeOK, DirTypeOK
  <2>3. reading' \subseteq Agents /\ reqs' \in Seq(Request)
    BY <1>3, <2>1, NewReadType DEF AnswerWBAck
  <2> QED BY <1>3, <2>2, <2>3, SMTT(30) DEF AnswerWBAck, TypeOK, DirTypeOK, dirOwn
<1>4. ASSUME NEW m \in rsps, ReceiveGPUAck(m) PROVE TypeOK'
  BY <1>4 DEF ReceiveGPUAck, TypeOK, DirTypeOK, dirOwn
<1>5. ASSUME NEW m \in dmaRsps, ReceiveDma(m) PROVE TypeOK'
  BY <1>5 DEF ReceiveDma, TypeOK, DirTypeOK, dirOwn
<1> QED BY <1>1, <1>2, <1>3, <1>4, <1>5 DEF AnswerStep, Answer

(* A step keeps the types of all variables.                                *)
LEMMA TypeStep ==
  ASSUME TypeOK, TBEInv, AcksAccounted, [Next]_vars
  PROVE  TypeOK'
<1>1. CASE DirectoryStep
  BY <1>1, StartType, OtherStartType, QueueStepType, VictimType, TransactionType,
     CompleteType, EndType, SMTT(30) DEF DirectoryStep, DirStep
<1>2. CASE UNCHANGED vars
  BY <1>2 DEF vars, dirVars, queueVars, agentVars, TypeOK, DirTypeOK
<1> QED BY <1>1, <1>2, CacheType, AnswerType DEF Next

-----------------------------------------------------------------------------
(* The theorems                                                            *)

(* Every step, of the directory or of a cache, preserves Core.             *)
LEMMA CoreStep ==
  ASSUME TypeOK, Core, [Next]_vars
  PROVE  Core'
<1>1. CASE DirectoryStep
  <2>1. UNCHANGED agentVars
    BY <1>1 DEF DirectoryStep
  <2>2. CASE StallRequest \/ StallDma \/ RecycleVictim \/ L3Evict
    BY <2>1, <2>2, QuietStep
       DEF StallRequest, StallDma, RecycleVictim, L3Evict, core, agentVars
  <2> QED
    BY <1>1, <2>1, <2>2, StartStep, DmaStartStep, VictimStep, PrbRespStep, HalfStep,
       CompleteStep, EndStep DEF DirectoryStep, DirStep
<1>2. CASE AnswerStep
  <2>1. ASSUME NEW m \in dmaRsps, ReceiveDma(m) PROVE Core'
    BY <2>1, QuietStep DEF ReceiveDma, core, dirOwn
  <2> QED
    BY <1>2, <2>1, AnswerProbeStep, GrantStep, AckStep DEF AnswerStep, Answer
<1>3. CASE CacheStep
  <2>1. ASSUME NEW n \in Agents, Lower(n) PROVE Core'
    BY <2>1, LowerStep DEF Lower, core, dirVars
  <2>2. ASSUME NEW n \in Agents, NEW t \in ReadTypes, SendRead(n, t) PROVE Core'
    BY <2>2, LowerStep DEF SendRead, core, dirOwn
  <2>3. ASSUME NEW n \in CorePairs, NEW t \in VicTypes, SendVictim(n, t) PROVE Core'
    BY <2>3, LowerStep DEF SendVictim, core, dirOwn, Agents
  <2>4. ASSUME NEW n \in TCCs, NEW t \in GPUWrites, NEW mask \in SUBSET Word,
               NEW d \in Line, NEW w \in WTRs, SendGPUWrite(n, t, mask, d, w)
        PROVE  Core'
    BY <2>4, LowerStep DEF SendGPUWrite, core, dirOwn, Agents
  <2>5. ASSUME NEW d \in DMAs, NEW t \in DmaTypes, NEW line \in Line, SendDma(d, t, line)
        PROVE  Core'
    BY <2>5, QuietStep DEF SendDma, core, dirOwn
  <2> QED BY <1>3, <2>1, <2>2, <2>3, <2>4, <2>5 DEF CacheStep
<1>4. CASE UNCHANGED vars
  BY <1>4, QuietStep DEF vars, dirVars, agentVars, core
<1> QED BY <1>1, <1>2, <1>3, <1>4 DEF Next

(* IInv holds initially.                                                   *)
LEMMA InitInv == Init => IInv
<1> SUFFICES ASSUME Init PROVE IInv
  OBVIOUS
<1>1. TypeOK
  <2>1. /\ <<>> \in Seq(Request) /\ <<>> \in Seq(DmaReq) /\ ZeroLine \in Line
    BY LineType
  <2> QED BY <2>1 DEF Init, DirInit, TypeOK, DirTypeOK, DirState, Perms
<1>2. TBEInv /\ TrigInv /\ PermInv
  BY DEF Init, DirInit, TBEInv, TrigInv, PermInv
<1>3. AcksAccounted
  BY DEF Init, DirInit, AcksAccounted, Pending, Probed, Responded, PrbResps, Probing
<1>4. GrantInv /\ SWMR
  BY DEF Init, DirInit, GrantInv, Grants, SWMR
<1> QED BY <1>1, <1>2, <1>3, <1>4 DEF IInv

(* IInv is an invariant of the directory with any caches that respect the  *)
(* permissions it grants.                                                  *)
THEOREM Invariance == Spec => []IInv
<1>1. IInv /\ [Next]_vars => IInv'
  <2> SUFFICES ASSUME IInv, [Next]_vars PROVE IInv'
    OBVIOUS
  <2>1. TypeOK /\ Core
    BY DEF IInv, Core
  <2>2. TypeOK'
    BY <2>1, TypeStep DEF Core
  <2>3. Core'
    BY <2>1, CoreStep
  <2> QED BY <2>2, <2>3 DEF IInv, Core
<1> QED BY <1>1, InitInv, PTL DEF Spec

(* The state stays within its types: in particular NumPendingAcks never    *)
(* goes below zero.                                                        *)
THEOREM TypeCorrect == Spec => []TypeOK
BY Invariance, PTL DEF IInv

(* Single writer or multiple readers, for any number of CorePairs and a    *)
(* TCC: m_sendResponseM and es_sendResponseES are sent only when no other  *)
(* copy is left, whatever the order of probes, responses and victims.      *)
THEOREM SingleWriter == Spec => []SWMR
BY Invariance, PTL DEF IInv

(* NumPendingAcks counts the caches whose probe or response is in flight,  *)
(* each exactly once.                                                      *)
THEOREM AcksCounted == Spec => []AcksAccounted
BY Invariance, PTL DEF IInv

(* A GPU write reaches the directory's copy only when no CPU cache holds   *)
(* the line and no grant of it is under way.                               *)
THEOREM GPUWritesAlone == Spec => GPUWriteAlone
<1> DEFINE Alone == (tbe # NoTBE /\ tbe' = NoTBE /\ tbe.kind \in GPUWrites) =>
                      /\ \A n \in CorePairs : perm[n] = "none"
                      /\ Grants = {}
<1>1. IInv /\ [Next]_vars => [Alone]_vars
  <2> SUFFICES ASSUME IInv, Next, tbe # NoTBE, tbe' = NoTBE, tbe.kind \in GPUWrites
               PROVE  (\A n \in CorePairs : perm[n] = "none") /\ Grants = {}
    OBVIOUS
  <2>0. TypeOK /\ Core
    BY DEF IInv, Core
  <2>1. CASE Complete
    BY <2>0, <2>1, CompleteFact DEF Complete
  <2>2. CASE ~Complete
    <3>1. dstate \notin {"U", "B", "BL", "BDR_M", "BDR_Pm", "BDW_P"}
      BY <2>0 DEF Core, TBEInv, KindsOf, BusyDma, GPUWrites, VicTypes, DmaTypes
    <3>2. tbe \in TBE
      BY <2>0, <3>1, BusyTBE DEF Core
    <3>3. ~DirectoryStep
      <4>1. \A m \in resps : ~CPUData(m) /\ ~StaleWB(m)
        BY <3>1 DEF CPUData, StaleWB
      <4>2. \A m \in resps : ~CPUPrbResp(m)
        BY <2>0, MergeType, DirectoryAssumption DEF CPUPrbResp, PrbResps, Core
      <4>3. ~MemData
        BY <2>0, <3>1, BusyTBE, DirectoryAssumption DEF MemData, Core
      <4>4. ~StallRequest /\ ~StallDma /\ ~RecycleVictim /\ ~L3Evict /\ ~ProbeAcksComplete
        BY DEF StallRequest, StallDma, RecycleVictim, L3Evict, ProbeAcksComplete
      <4>5. ~StartRequest /\ ~StartVictim /\ ~DmaRead /\ ~DmaWrite
        BY <3>1 DEF StartRequest, StartVictim, DmaRead, DmaWrite
      <4>6. ~CompleteDmaRead /\ ~CompleteDmaWrite /\ ~UnblockWriteThrough
        BY <3>1 DEF CompleteDmaRead, CompleteDmaWrite, UnblockWriteThrough
      <4>7. \A n \in unblocks : ~CoreUnblock(n)
        BY <3>1, SMTT(30) DEF CoreUnblock
      <4> QED BY <2>2, <4>1, <4>2, <4>3, <4>4, <4>5, <4>6, <4>7, SMTT(30) DEF DirectoryStep, DirStep
    <3>4. ~AnswerStep
      <4>1. \A p \in probes : ~AnswerProbe(p)
        BY DEF AnswerProbe, dirOwn
      <4>2. \A m \in rsps : ~ReceiveGrant(m) /\ ~ReceiveGPUAck(m)
        BY DEF ReceiveGrant, ReceiveGPUAck, dirOwn
      <4>3. \A m \in rsps : ~AnswerWBAck(m)
        BY DEF AnswerWBAck, dirOwn
      <4>4. \A m \in dmaRsps : ~ReceiveDma(m)
        BY DEF ReceiveDma, dirOwn
      <4> QED BY <4>1, <4>2, <4>3, <4>4, Zenon DEF AnswerStep, Answer
    <3>5. ~CacheStep
      BY Zenon DEF CacheStep, Lower, SendRead, SendVictim, SendGPUWrite, SendDma, dirOwn, dirVars
    <3> QED BY <3>3, <3>4, <3>5 DEF Next
  <2> QED BY <2>1, <2>2
<1> QED BY <1>1, Invariance, PTL DEF Spec, GPUWriteAlone
=============================================================================
