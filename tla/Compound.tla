------------------------------ MODULE Compound ------------------------------
(***************************************************************************)
(* The compound memory system for one line: CorePair controllers, the GPU  *)
(* TCC with its TCPs, DMA controllers and the directory they share.        *)
(*                                                                         *)
(* Two history variables say what the line ought to hold: golden, written  *)
(* by a CPU store when its core is told it is done and by a GPU or DMA     *)
(* write when the directory completes it, and wmask, the bytes the GPU     *)
(* write in progress at the directory stores or updates.                   *)
(***************************************************************************)
EXTENDS CorePair, TCC, SequencesExt

CONSTANT DMAOps    \* what DMA controllers do: subset of DmaTypes

VARIABLES dmaBusy, \* the DMA controllers in BUSY_RD or BUSY_WR
          wmask

vars == <<dirVars, cp, golden, tccVars, dmaBusy, wmask>>

ASSUME CompoundAssumption ==
  /\ Ops \subseteq {"LD", "ST", "IF"} /\ Repls \subseteq {"L1", "L2"}
  /\ TCPOps \subseteq TCPOp /\ DMAOps \subseteq DmaTypes
  /\ WB \subseteq BOOLEAN /\ TCCRepl \in BOOLEAN /\ GPUMasks \subseteq SUBSET Word
  /\ CPUWord \subseteq Word /\ CPUValue \cup GPUValue \subseteq Value

(* Every controller is in a state of its enumeration and every message is  *)
(* one its receiver knows (part of AllDeclared).                           *)
TypeOK ==
  /\ DirTypeOK /\ TCCTypeOK
  /\ cp \in [CorePairs -> CPRecord] /\ golden \in Line
  /\ dmaBusy \subseteq DMAs /\ wmask \subseteq Word

Init ==
  /\ DirInit /\ CPInit /\ TCCInit
  /\ golden = ZeroLine /\ dmaBusy = {} /\ wmask = {}

-----------------------------------------------------------------------------
(* The line as the directory's step leaves it: GPU and DMA writes take     *)
(* effect when their TBE is freed.  An atomic is a read-modify-write of    *)
(* the line, unless a probe has brought it a CPU's dirty data: the code    *)
(* then performs it on memory's copy and drops that data, stores included, *)
(* so from there on the line is what memory was left with.                 *)
AtomicBase == IF tbe.dirty THEN dirData ELSE golden

LineAfter ==
  CASE tbe = NoTBE \/ tbe' # NoTBE -> golden
    [] tbe.kind = "WriteThrough"   -> copyPartial(golden, tbe.wdata, wmask)
    [] tbe.kind = "Atomic"         -> atomicPartial(AtomicBase, tbe.wdata, wmask)
    [] tbe.kind = "DmaWrite"       -> tbe.wdata
    [] OTHER                       -> golden

(* What a step of one controller does to the variables of the others.      *)
DirFrame ==
  /\ golden' = LineAfter
  /\ wmask' = CASE tbe' = NoTBE -> {} [] tbe = NoTBE -> tbe'.mask [] OTHER -> wmask
  /\ UNCHANGED <<cp, tccVars, dmaBusy>>
CPFrame  == UNCHANGED <<dirOwn, tccVars, dmaBusy, wmask>>
TCCFrame == UNCHANGED <<dirOwn, dmaReqs, dmaRsps, cp, golden, dmaBusy, wmask>>
TCPFrame == UNCHANGED <<dirVars, cp, golden, dmaBusy, wmask>>

DirectoryStep == (DirStep \/ Complete) /\ DirFrame

CorePairStep(n) == (CPOwn(n) \/ CPAnswer(n)) /\ CPFrame

GPUStep ==
  \/ (TCPStep \/ \E m \in toTCP : TCPReceive(m)) /\ TCPFrame
  \/ (\E g \in TCCs : TCCStep(g) \/ TCCL2Repl(g)) /\ TCCFrame

(* The DMA controller has one request outstanding.                         *)
SendDma(d, t, line) ==
  /\ d \notin dmaBusy /\ t \in DMAOps
  /\ dmaBusy' = dmaBusy \cup {d}
  /\ dmaReqs' = Append(dmaReqs, [from |-> d, type |-> t, data |-> line])
  /\ UNCHANGED <<dirOwn, reqs, probes, resps, unblocks, rsps, dmaRsps>>

ReceiveDma(m) ==
  /\ m \in dmaRsps
  /\ dmaBusy' = dmaBusy \ {m.to} /\ dmaRsps' = dmaRsps \ {m}
  /\ UNCHANGED <<dirOwn, reqs, dmaReqs, probes, resps, unblocks, rsps>>

DmaStep ==
  /\ \/ \E d \in DMAs : SendDma(d, "DmaRead", ZeroLine)
     \/ \E d \in DMAs, line \in Line : SendDma(d, "DmaWrite", line)
     \/ \E m \in dmaRsps : ReceiveDma(m)
  /\ UNCHANGED <<cp, golden, tccVars, wmask>>

Next == DirectoryStep \/ (\E n \in CorePairs : CorePairStep(n)) \/ GPUStep \/ DmaStep

Spec == Init /\ [][Next]_vars

(* The directory's transaction takes a step towards its end.               *)
TransactionStep ==
  \/ \E m \in resps : CPUData(m) \/ StaleWB(m) \/ CPUPrbResp(m)
  \/ MemData \/ ProbeAcksComplete \/ Complete
  \/ CompleteDmaRead \/ CompleteDmaWrite \/ UnblockWriteThrough
  \/ \E n \in unblocks : CoreUnblock(n)

(* The controllers are clocked and serve every input port; no core, TCP or *)
(* DMA controller is obliged to make a request, no cache to replace a line.*)
Fairness ==
  /\ SF_vars((StartRequest \/ StartVictim) /\ DirFrame)
  /\ SF_vars((DmaRead \/ DmaWrite) /\ DirFrame)
  /\ WF_vars((StallRequest \/ RecycleVictim) /\ DirFrame)
  /\ WF_vars(StallDma /\ DirFrame)
  /\ WF_vars(TransactionStep /\ DirFrame)
  /\ \A n \in CorePairs :
       /\ WF_vars((\E x \in {"D0", "D1", "I"} : Filled(n, x)) /\ CPFrame)
       /\ WF_vars((\E p \in probes : PrbInvData(n, p) \/ PrbShrData(n, p)) /\ CPFrame)
       /\ WF_vars((\E m \in rsps : NB_AckWB(n, m)) /\ CPFrame)
       /\ WF_vars((\/ \E m \in rsps : NB_AckS(n, m) \/ NB_AckE(n, m)
                   \/ \E m \in rsps, w \in CPUWord, v, u \in CPUValue :
                        NB_AckM(n, m, w, v, u)) /\ CPFrame)
  /\ \A g \in TCCs :
       /\ WF_vars(TCCRequest(g) /\ TCCFrame)
       /\ WF_vars(TCCAtomicDone(g) /\ TCCFrame)
       /\ WF_vars((\E p \in probes : TCCPrbInv(g, p)) /\ TCCFrame)
       /\ WF_vars((\E m \in rsps : TCCFill(g, m) \/ TCCAtomicResp(g, m)) /\ TCCFrame)
       /\ \A w \in WTRs : WF_vars((\E m \in rsps : m.wt = w /\ TCCWBAck(g, m)) /\ TCCFrame)
  /\ \A t \in TCPs, type \in {"TDSysResp", "TDSysWBAck"} :
       WF_vars((\E m \in toTCP : m.to = t /\ m.type = type /\ TCPReceive(m)) /\ TCPFrame)
  /\ WF_vars((\E m \in dmaRsps : ReceiveDma(m)) /\ UNCHANGED <<cp, golden, tccVars, wmask>>)

FairSpec == Spec /\ Fairness

-----------------------------------------------------------------------------
(* Properties                                                              *)

(* Every copy a CPU core may read, and every victim on its way to memory,  *)
(* holds what the last store or GPU write to each byte wrote, whichever    *)
(* controller made it and whatever probes, fills and write backs raced.    *)
CPUCopiesFresh ==
  \A n \in CorePairs : PermOf(cp[n].s) # "none" => cp[n].data = golden

(* The GPU writes of the line that the directory has not completed, oldest *)
(* first.                                                                  *)
InFlight ==
  (IF tbe # NoTBE /\ tbe.kind = "WriteThrough"
     THEN <<[mask |-> wmask, data |-> tbe.wdata]>> ELSE <<>>)
  \o [i \in 1 .. Len(stalled \o reqs) |->
       [mask |-> (stalled \o reqs)[i].mask, data |-> (stalled \o reqs)[i].data]]

(* The TCC's valid copy is the line with the GPU's own writes that are     *)
(* still on their way laid over it: a write-through that updates the copy  *)
(* (wdb_writeDirtyBytes) before the directory has ordered it never makes   *)
(* it differ otherwise, and no CPU store leaves it behind.  (While an      *)
(* atomic is on its way the TCC is in A and has no copy.)                  *)
GPUCopyFresh ==
  \A g \in TCCs :
    tcc[g].s = "V" => tcc[g].data =
      FoldLeft(LAMBDA d, w : copyPartial(d, w.data, w.mask), golden, InFlight)

(* When the line is idle and no CorePair owns it dirty, memory has it:     *)
(* every store written back once, every write-through merged, every atomic *)
(* performed once and on the content the line then had (but for the stores *)
(* an atomic drops, see LineAfter).  The L3 never disagrees with memory.   *)
MemoryFresh ==
  /\ dstate = "U" /\ (\A n \in CorePairs : ~HasDirty(cp[n].s)) => dirData = golden
  /\ l3 # NoLine => l3 = dirData

(* At most one dirty copy answers the probes of a transaction: the assert  *)
(* of y_writeProbeDataToTBE (tbe.Dirty is false when dirty data arrives).  *)
OneOwner ==
  /\ \A m, n \in CorePairs : HasDirty(cp[m].s) /\ HasDirty(cp[n].s) => m = n
  /\ \A m \in resps : m.dirty => \A n \in CorePairs : HasDirty(cp[n].s) => n = m.from
  /\ \A m \in resps : m.dirty /\ tbe.dirty => tbe.kind \in {"WriteThrough", "DmaWrite"}

(* Every event a controller can be given has a transition in the state it  *)
(* is in, states and events being those of its enumerations: no            *)
(* interleaving ends in the generated "Invalid transition".                *)
AllDeclared ==
  /\ TypeOK
  /\ ~DirUndeclared
  /\ \A n \in CorePairs : ~CPUndeclared(n)
  /\ \A g \in TCCs : ~TCCUndeclared(g)

(* The request of cluster k that a CorePair state promises to complete.    *)
Awaits(s, k) ==
  CASE s \in Each({"I_MM"}) \cup One({"I_M", "I_MMs", "S_M", "O_M"}, k) -> "ST"
    [] s \in Both({"I_ES", "IF_ES", "S_F", "O_F", "Es_F", "Ms_F"}) \cup Each({"IFx_ES"})
             \cup One({"I_MMs", "E_Es", "M_Ms"}, 1 - k)
             \cup One({"I_ES", "IF_ES", "S_F", "O_F", "Es_F", "Ms_F", "E_F", "M_F"}, k) -> "LD"
    [] s \in One({"Sk", "Si_F", "F_S", "MO_S", "Sk_C"}, k) -> "IF"
    [] OTHER -> "none"

(* A core waits for exactly the request the controller's state remembers:  *)
(* no transition (a probe that sends a filling line back to a miss, the    *)
(* merge of two clusters' misses) forgets a core or answers one twice.     *)
CoresAwaited ==
  \A n \in CorePairs, k \in Cluster : cp[n].out[k] = Awaits(cp[n].s, k)

(* A DMA read returns the line as it is when the directory completes it.   *)
DmaReadFresh ==
  [][\A m \in dmaRsps' \ dmaRsps : m.type = "DATA" => m.data = golden]_vars

(* Every load, store and instruction fetch a CorePair has accepted is      *)
(* completed, whatever probes, replacements and the other cluster do.      *)
CoresServed ==
  \A n \in CorePairs, k \in Cluster : cp[n].out[k] # "none" ~> cp[n].out[k] = "none"

(* Every load, write-through and atomic of a TCP is answered; a TCP has at *)
(* most one load or atomic and one write-through outstanding.  Stalled     *)
(* requests "will instead only try again once woken up" (GPU_VIPER-TCC.sm  *)
(* 621-622), so every state that stalls them must end with a wake-up.  In  *)
(* write-back mode WI does not, so this is about the default mode.         *)
TCPsServed ==
  \A t \in TCPs, ops \in {{"RdBlk", "Atomic"}, {"WriteThrough"}} :
    tcp[t] \cap ops # {} /\ (\A g \in TCCs : ~tcc[g].wb) ~> tcp[t] \cap ops = {}

-----------------------------------------------------------------------------
(* What the controllers promise the directory: CoherenceProtocol with the  *)
(* permission a controller's state gives, and what it has outstanding.     *)
absPerm ==
  [n \in Agents |-> IF n \in CorePairs THEN PermOf(cp[n].s)
                    ELSE IF tcc[n].s \in {"V", "M"} THEN "read" ELSE "none"]
absReading ==
  {n \in CorePairs : cp[n].s[1] \in {"I_M", "I_MM", "I_MMs", "I_ES", "IF_ES", "IFx_ES",
                                     "F_S", "S_M", "O_M", "Sk", "Sk_C"}}
  \cup {g \in TCCs : tcc[g].s = "IV"}
absEvicting ==
  {n \in CorePairs : cp[n].s[1] \in {"ES_I", "MO_I", "MO_S", "I_C", "Sk_C", "S_C"}}
absWrites ==
  {<<r.wt, r.type>> : r \in {x \in Range(stalled \o reqs) : x.type \in GPUWrites}}
  \cup (IF tbe # NoTBE /\ tbe.kind = "Atomic" THEN {<<tbe.wt, "Atomic">>} ELSE {})
  \cup {<<m.wt, IF m.type = "NBSysResp" THEN "Atomic" ELSE "WriteThrough">> :
          m \in {x \in rsps : x.wt # NoWTR}}

Abstract == INSTANCE CoherenceProtocol
  WITH perm <- absPerm, reading <- absReading, evicting <- absEvicting,
       writes <- absWrites, CPUOps <- ReadTypes \cup VicTypes,
       GPUOps <- {"RdBlk"} \cup GPUWrites

(* The detailed controllers implement the protocol: each of their steps is *)
(* one a cache of CoherenceProtocol may take, or changes nothing there.    *)
(* The single-writer theorem about that module therefore holds of them.    *)
Implements == Abstract!Spec
=============================================================================
