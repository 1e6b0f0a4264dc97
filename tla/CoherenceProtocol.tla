-------------------------- MODULE CoherenceProtocol --------------------------
(***************************************************************************)
(* The directory with abstract caches: what the CorePair, TCC and DMA      *)
(* controllers promise the directory, and no more.  A cache has a          *)
(* permission on the line, which it gains only by a response of the        *)
(* directory, lowers when it likes, and must lower when it is probed.      *)
(* Compound shows that the detailed controllers implement this module;     *)
(* CoherenceProofs proves its properties for any number of caches.         *)
(***************************************************************************)
EXTENDS Directory

CONSTANTS CPUOps,       \* the requests CorePairs make
          GPUOps,       \* the requests the TCC makes
          DMAOps        \* the requests DMA controllers make

ASSUME CoherenceAssumption ==
  /\ CPUOps \subseteq ReadTypes \cup VicTypes
  /\ GPUOps \subseteq {"RdBlk"} \cup GPUWrites
  /\ DMAOps \subseteq DmaTypes

VARIABLES
  perm,       \* what each cache may do with its copy
  reading,    \* the caches with a read request outstanding
  evicting,   \* the CorePairs with a victim outstanding
  writes,     \* the GPU writes outstanding, <<WTRequestor, type>>; bound: one
              \* of each type for each TCP
  dmaBusy     \* the DMA controllers with a request outstanding

agentVars == <<perm, reading, evicting, writes, dmaBusy>>
vars      == <<dirVars, agentVars>>

Perms == {"none", "read", "write"}

(* One type invariant: the state of the directory, its message buffers and *)
(* of the caches stays within its declared sets.                           *)
TypeOK ==
  /\ DirTypeOK
  /\ perm \in [Agents -> Perms]
  /\ reading \subseteq Agents /\ evicting \subseteq CorePairs
  /\ writes \subseteq WTRs \X GPUWrites /\ dmaBusy \subseteq DMAs

Init ==
  /\ DirInit
  /\ perm = [n \in Agents |-> "none"]
  /\ reading = {} /\ evicting = {} /\ writes = {} /\ dmaBusy = {}

-----------------------------------------------------------------------------
(* Requests.  With any of them a cache may give up its copy.               *)

(* The permissions a cache with permission p may have after lowering it.   *)
UpTo(p) == CASE p = "none" -> {"none"} [] p = "read" -> {"none", "read"}
             [] p = "write" -> Perms

Lowered(n, q) == q \in UpTo(perm[n]) /\ perm' = [perm EXCEPT ![n] = q]

(* A read request; a cache has one outstanding, since it is in a transient *)
(* state until the answer.                                                 *)
NewRead(n, t) ==
  /\ n \notin reading
  /\ t \in ReadTypes \cap (IF n \in CorePairs THEN CPUOps ELSE GPUOps)
  /\ reading' = reading \cup {n}
  /\ reqs' = Append(reqs, Plain(n, t))

(* An answer to the directory may need the line again at once.             *)
MaybeRead(n) ==
  (\E t \in ReadTypes : NewRead(n, t)) \/ UNCHANGED <<reading, reqs>>

SendRead(n, t) ==
  /\ NewRead(n, t)
  /\ \E q \in Perms : Lowered(n, q)
  /\ UNCHANGED <<dirOwn, dmaReqs, probes, resps, unblocks, rsps, dmaRsps,
                 evicting, writes, dmaBusy>>

(* A CorePair evicts its copy; it may not write it any more, and offers    *)
(* the data when the directory acknowledges.                               *)
SendVictim(n, t) ==
  /\ n \notin evicting /\ n \notin reading /\ perm[n] # "none"
  /\ t \in CPUOps \cap VicTypes
  /\ evicting' = evicting \cup {n}
  /\ \E q \in {"none", "read"} : Lowered(n, q)
  /\ reqs' = Append(reqs, Plain(n, t))
  /\ UNCHANGED <<dirOwn, dmaReqs, probes, resps, unblocks, rsps, dmaRsps,
                 reading, writes, dmaBusy>>

(* The TCC forwards a write-through or an atomic of the GPU.               *)
SendGPUWrite(n, t, mask, d, w) ==
  /\ t \in GPUOps \cap GPUWrites
  /\ <<w, t>> \notin writes
  /\ writes' = writes \cup {<<w, t>>}
  /\ \E q \in Perms : Lowered(n, q)
  /\ reqs' = Append(reqs, [from |-> n, type |-> t, mask |-> mask, data |-> d, wt |-> w])
  /\ UNCHANGED <<dirOwn, dmaReqs, probes, resps, unblocks, rsps, dmaRsps,
                 reading, evicting, dmaBusy>>

SendDma(d, t, line) ==
  /\ d \notin dmaBusy /\ t \in DMAOps
  /\ dmaBusy' = dmaBusy \cup {d}
  /\ dmaReqs' = Append(dmaReqs, [from |-> d, type |-> t, data |-> line])
  /\ UNCHANGED <<dirOwn, reqs, probes, resps, unblocks, rsps, dmaRsps, perm,
                 reading, evicting, writes>>

-----------------------------------------------------------------------------
(* Answers                                                                 *)

(* A probed cache gives up its copy, or on a downgrade keeps at most a     *)
(* readable one, and then says so (Hit).  It has dirty data only if it had *)
(* a copy.                                                                 *)
AnswerProbe(p) ==
  /\ p \in probes
  /\ \E q \in {"none", "read"}, hit, dirty \in BOOLEAN, data \in Line :
       /\ q = "read" => p.type = "PrbDowngrade" /\ hit
       /\ dirty => perm[p.to] # "none"
       /\ Lowered(p.to, q)
       /\ resps' = resps \cup {[from |-> p.to, type |-> "CPUPrbResp",
                                dirty |-> dirty, hit |-> hit, data |-> data]}
  /\ MaybeRead(p.to)
  /\ probes' = probes \ {p}
  /\ UNCHANGED <<dirOwn, dmaReqs, unblocks, rsps, dmaRsps, evicting, writes,
                 dmaBusy>>

(* The response to an atomic; the TCC does not keep the line, and the      *)
(* directory does not wait for an unblock.                                 *)
AtomicResp(m) == m.type = "NBSysResp" /\ m.to \in TCCs /\ m.state = "Modified"

(* A response that grants the line to a cache, which unblocks the          *)
(* directory.  A TCC never writes a line in place.                         *)
Grants == {m \in rsps : m.type = "NBSysResp" /\ ~AtomicResp(m)}

Granted(m) ==
  IF m.to \in TCCs \/ m.state = "Shared" THEN "read" ELSE "write"

ReceiveGrant(m) ==
  /\ m \in Grants
  /\ perm' = [perm EXCEPT ![m.to] = Granted(m)]
  /\ reading' = reading \ {m.to}
  /\ unblocks' = unblocks \cup {m.to}
  /\ rsps' = rsps \ {m}
  /\ UNCHANGED <<dirOwn, reqs, dmaReqs, probes, resps, dmaRsps, evicting,
                 writes, dmaBusy>>

(* A CorePair answers the acknowledgement of its victim with the data, or  *)
(* says that it has lost it to a probe since.                              *)
AnswerWBAck(m) ==
  /\ m \in rsps /\ m.type = "NBSysWBAck" /\ m.to \in CorePairs
  /\ evicting' = evicting \ {m.to}
  /\ \E q \in {"none", "read"}, t \in {"CPUData", "StaleNotif"}, data \in Line :
       /\ Lowered(m.to, q)
       /\ resps' = resps \cup {[from |-> m.to, type |-> t, dirty |-> FALSE,
                                hit |-> FALSE, data |-> data]}
  /\ MaybeRead(m.to)
  /\ rsps' = rsps \ {m}
  /\ UNCHANGED <<dirOwn, dmaReqs, probes, unblocks, dmaRsps, writes, dmaBusy>>

(* The TCC receives the acknowledgement of a write-through or the result   *)
(* of an atomic.                                                           *)
ReceiveGPUAck(m) ==
  /\ m \in rsps /\ m.to \in TCCs /\ (m.type = "NBSysWBAck" \/ AtomicResp(m))
  /\ writes' = writes \ {<<m.wt, IF AtomicResp(m) THEN "Atomic" ELSE "WriteThrough">>}
  /\ rsps' = rsps \ {m}
  /\ UNCHANGED <<dirOwn, reqs, dmaReqs, probes, resps, unblocks, dmaRsps, perm,
                 reading, evicting, dmaBusy>>

ReceiveDma(m) ==
  /\ m \in dmaRsps
  /\ dmaBusy' = dmaBusy \ {m.to}
  /\ dmaRsps' = dmaRsps \ {m}
  /\ UNCHANGED <<dirOwn, reqs, dmaReqs, probes, resps, unblocks, rsps, perm,
                 reading, evicting, writes>>

(* A cache drops or downgrades its copy on its own.                        *)
Lower(n) ==
  /\ \E q \in {"none", "read"} : q # perm[n] /\ Lowered(n, q)
  /\ UNCHANGED <<dirVars, reading, evicting, writes, dmaBusy>>

-----------------------------------------------------------------------------
CacheStep ==
  \/ \E n \in Agents : Lower(n) \/ (\E t \in ReadTypes : SendRead(n, t))
  \/ \E n \in CorePairs, t \in VicTypes : SendVictim(n, t)
  \/ \E n \in TCCs, t \in GPUWrites, mask \in SUBSET Word, d \in Line, w \in WTRs :
       SendGPUWrite(n, t, mask, d, w)
  \/ \E d \in DMAs, t \in DmaTypes, line \in Line : SendDma(d, t, line)

(* What controller n does with a message of the directory.                 *)
Answer(n) ==
  \/ \E p \in probes : p.to = n /\ AnswerProbe(p)
  \/ \E m \in rsps : m.to = n /\ (ReceiveGrant(m) \/ AnswerWBAck(m) \/ ReceiveGPUAck(m))

AnswerStep == (\E n \in Agents : Answer(n)) \/ (\E m \in dmaRsps : ReceiveDma(m))

DirectoryStep == (DirStep \/ Complete) /\ UNCHANGED agentVars

Next == DirectoryStep \/ AnswerStep \/ CacheStep

Spec == Init /\ [][Next]_vars

(* The controllers are clocked: an enabled transition of an input port is  *)
(* taken.  Nothing obliges a cache to make a request or to drop a copy.    *)
(* Starting is strongly fair: a DMA request outranks the caches' requests  *)
(* in the cycle in which the line returns to U, and one DMA controller     *)
(* makes its next request too late to win the following cycle as well.     *)
Fairness ==
  /\ SF_vars((StartRequest \/ StartVictim) /\ UNCHANGED agentVars)
  /\ SF_vars((DmaRead \/ DmaWrite) /\ UNCHANGED agentVars)
  /\ WF_vars((StallRequest \/ RecycleVictim) /\ UNCHANGED agentVars)
  /\ WF_vars(StallDma /\ UNCHANGED agentVars)
  /\ WF_vars((\E m \in resps : CPUData(m) \/ StaleWB(m) \/ CPUPrbResp(m))
             /\ UNCHANGED agentVars)
  /\ WF_vars((MemData \/ ProbeAcksComplete \/ Complete) /\ UNCHANGED agentVars)
  /\ WF_vars((CompleteDmaRead \/ CompleteDmaWrite \/ UnblockWriteThrough
              \/ \E n \in unblocks : CoreUnblock(n)) /\ UNCHANGED agentVars)
  /\ \A n \in Agents : /\ WF_vars(\E p \in probes : p.to = n /\ AnswerProbe(p))
                       /\ WF_vars(\E m \in rsps : m.to = n /\ ReceiveGrant(m))
  /\ \A n \in CorePairs : WF_vars(\E m \in rsps : m.to = n /\ AnswerWBAck(m))
  /\ \A w \in WTRs, a \in BOOLEAN :
       WF_vars(\E m \in rsps : m.wt = w /\ AtomicResp(m) = a /\ ReceiveGPUAck(m))
  /\ WF_vars(\E m \in dmaRsps : ReceiveDma(m))

FairSpec == Spec /\ Fairness

-----------------------------------------------------------------------------
(* Properties                                                              *)

(* Single writer or multiple readers: while a cache may write the line (it *)
(* was answered Exclusive or Modified), no other cache holds a copy, CPU   *)
(* or GPU; the directory must have collected every probe response of the   *)
(* transaction before m_sendResponseM or es_sendResponseES, and must have  *)
(* seen the unblock of one before it starts the next.                      *)
SWMR ==
  \A m, n \in Agents : m # n /\ perm[m] = "write" => perm[n] = "none"

(* The caches of which the transaction still expects a probe response: the *)
(* probe or the response is in flight.                                     *)
Probed    == {p.to : p \in probes}
PrbResps  == {m \in resps : m.type = "CPUPrbResp"}
Responded == {m.from : m \in PrbResps}
Pending   == Probed \cup Responded

(* NumPendingAcks is exactly the number of caches whose probe or response  *)
(* is still in flight, and no cache has two of them: the counter neither   *)
(* runs out early (the requestor would be answered while a copy is alive)  *)
(* nor late (the line would stay busy for ever).                           *)
AcksAccounted ==
  /\ dstate \in Probing => tbe.acks = Cardinality(Pending)
  /\ dstate \notin Probing => Pending = {}
  /\ Probed \cap Responded = {}
  /\ \A p1, p2 \in probes : p1.to = p2.to => p1 = p2
  /\ \A m1, m2 \in PrbResps : m1.from = m2.from => m1 = m2

(* A write-through or an atomic of the GPU changes the directory's copy    *)
(* (wd_writeBackData) only when no CPU cache holds the line, although the  *)
(* write-through was acknowledged long before; nor is a grant of the line  *)
(* to a CPU in flight.                                                     *)
GPUWriteAlone ==
  [][(tbe # NoTBE /\ tbe' = NoTBE /\ tbe.kind \in GPUWrites) =>
       /\ \A n \in CorePairs : perm[n] = "none"
       /\ Grants = {}]_vars

(* No message is left in the stall map once the line is back in U: "The    *)
(* exit state is always going to be U, so wakeUpDependents logic should be *)
(* covered in all the transitions which are flowing into U."               *)
NothingStalledInU == dstate = "U" => stalled = <<>> /\ dmaStalled = <<>>

(* Every event that can be at the head of one of the directory's input     *)
(* ports has a transition in the state the line is in, whatever the order  *)
(* of requests, probe responses, memory data and unblocks.                 *)
DirDeclared == ~DirUndeclared

(* A read or write-permission request is answered, whatever the others do; *)
(* a victim is written back or dropped; a GPU write is acknowledged.       *)
RequestsServed ==
  /\ \A n \in Agents : n \in reading ~> n \notin reading
  /\ \A n \in CorePairs : n \in evicting ~> n \notin evicting
  /\ \A w \in WTRs \X GPUWrites : w \in writes ~> w \notin writes

(* A DMA request is answered.                                              *)
DmaServed == \A d \in DMAs : d \in dmaBusy ~> d \notin dmaBusy

-----------------------------------------------------------------------------
(* The inductive invariant of CoherenceProofs.                             *)

KindsOf(s) ==
  CASE s \in {"BS_PM", "BS_M", "BS_Pm"} -> {"RdBlkS"}
    [] s \in {"B_PM", "B_M", "B_Pm"}    -> {"RdBlk"}
    [] s \in {"BM_PM", "BM_M", "BM_Pm"} -> {"RdBlkM"} \cup GPUWrites
    [] s \in BusyDma                    -> DmaTypes
    [] s = "BL"                         -> VicTypes
    [] OTHER                            -> {}

(* A TBE is allocated exactly in the busy states before B, for a request   *)
(* of the kind the state stands for.                                       *)
TBEInv ==
  IF dstate \in {"U", "B"} THEN tbe = NoTBE
  ELSE /\ tbe # NoTBE
       /\ tbe.kind \in KindsOf(dstate)
       /\ tbe.kind \in GPUWrites => tbe.req \in TCCs
       /\ tbe.req \in (IF tbe.kind \in DmaTypes THEN DMAs ELSE Agents)

(* The trigger that ends the probing is sent only when no probe response   *)
(* is expected any more.                                                   *)
TrigInv == "AcksComplete" \in trig => dstate \in Probing /\ tbe.acks = 0

(* During a transaction, a cache that has answered its probe has no copy,  *)
(* or after a downgrade no writable one; if it kept one, the response or   *)
(* the TBE says so.                                                        *)
PermInv ==
  dstate \notin {"U", "B", "BL"} =>
    /\ \A p \in probes : p.type = ProbeType(tbe.kind)
    /\ \A n \in ProbeDest(tbe.req, tbe.kind) \ Probed :
         IF ProbeType(tbe.kind) = "PrbInv" THEN perm[n] = "none"
         ELSE /\ perm[n] # "write"
              /\ perm[n] = "none" \/ tbe.cached \/ \E m \in PrbResps : m.from = n /\ m.hit

(* One grant, one unblock or one UnblockWriteThrough stands between B and  *)
(* the next transaction, and a grant in flight is compatible with the      *)
(* copies there are.                                                       *)
GrantInv ==
  /\ Grants # {} => dstate = "B" /\ unblocks = {} /\ "UnblockWriteThrough" \notin trig
  /\ \A m1, m2 \in Grants : m1 = m2
  /\ unblocks # {} => dstate = "B" /\ "UnblockWriteThrough" \notin trig
  /\ \A n1, n2 \in unblocks : n1 = n2
  /\ "UnblockWriteThrough" \in trig => dstate = "B"
  /\ \A m \in Grants : \A n \in Agents \ {m.to} :
       IF Granted(m) = "write" THEN perm[n] = "none" ELSE perm[n] # "write"

(* SWMR made inductive.                                                    *)
IInv == TypeOK /\ TBEInv /\ AcksAccounted /\ TrigInv /\ PermInv /\ GrantInv /\ SWMR
=============================================================================
