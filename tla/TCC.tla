-------------------------------- MODULE TCC --------------------------------
(***************************************************************************)
(* The GPU L2 cache (GPU_VIPER-TCC.sm) for one line, between the GPU L1    *)
(* caches (TCPs) and the directory.  In the default configuration (WB      *)
(* false) it passes every GPU write on to the directory; with WB true it   *)
(* keeps written bytes in the states W and M.                              *)
(*                                                                         *)
(* Of a TCP only the requests it has outstanding for the line are kept:    *)
(* its coalescer issues one request per line at a time, a store-through    *)
(* counts as done when it is issued and is acknowledged later.             *)
(***************************************************************************)
EXTENDS Directory

CONSTANTS WB,       \* the values the machine parameter WB may have
          TCPOps,   \* what TCPs do: subset of {"RdBlk", "WriteThrough", "Atomic"}
          GPUMasks, GPUValue,  \* the masks of GPU writes, the values they store
          TCCRepl   \* whether the TCC replaces the line

VARIABLES
  tcc,        \* the controller of the slice: state, data, writeMask (kept in WB
              \* mode only, where it is used), TBE.Destination, AtomicDone trigger,
              \* and its parameter WB
  tcp,        \* the requests each TCP has outstanding
  tq,         \* requestFromTCP
  tqStalled,  \* its stalled messages
  toTCP       \* responseToCore of the TCC

tccVars == <<tcc, tcp, tq, tqStalled, toTCP>>

TCCState == {"M", "W", "V", "I", "IV", "WI", "A"}
TCPOp    == {"RdBlk", "WriteThrough", "Atomic"}

TCCRecord == [s : TCCState, data : Line, mask : SUBSET Word,
              dests : SUBSET TCPs, done : BOOLEAN, wb : WB]
TCPReq    == [from : TCPs, type : TCPOp, mask : SUBSET Word, data : Line]
TCPResp   == [to : TCPs, type : {"TDSysResp", "TDSysWBAck"}, data : Line]

TCCTypeOK ==
  /\ tcc \in [TCCs -> TCCRecord] /\ tcp \in [TCPs -> SUBSET TCPOp]
  /\ tq \in Seq(TCPReq) /\ tqStalled \in Seq(TCPReq) /\ toTCP \subseteq TCPResp

TCCInit ==
  /\ \E b \in WB : tcc = [g \in TCCs |-> [s |-> "I", data |-> ZeroLine, mask |-> {},
                                           dests |-> {}, done |-> FALSE, wb |-> b]]
  /\ tcp = [t \in TCPs |-> {}]
  /\ tq = <<>> /\ tqStalled = <<>> /\ toTCP = {}

-----------------------------------------------------------------------------
(* TCPs                                                                    *)

(* n_issueRdBlk, at_atomicThrough, wt_writeThrough.  Bound: one write      *)
(* through of a TCP unacknowledged at a time.                              *)
TCPIssue(t, op, mask, v) ==
  /\ op \in TCPOps /\ op \notin tcp[t] /\ tcp[t] \subseteq {"WriteThrough"}
  /\ tcp' = [tcp EXCEPT ![t] = @ \cup {op}]
  /\ tq' = Append(tq, [from |-> t, type |-> op, mask |-> mask,
                         data |-> [w \in Word |-> IF w \in mask THEN v ELSE Zero]])
  /\ UNCHANGED <<tcc, tqStalled, toTCP>>

(* TCC_Ack and TCC_AckWB                                                   *)
TCPReceive(m) ==
  /\ m \in toTCP /\ toTCP' = toTCP \ {m}
  /\ tcp' = [tcp EXCEPT ![m.to] =
              IF m.type = "TDSysWBAck" THEN @ \ {"WriteThrough"} ELSE @ \ {"RdBlk", "Atomic"}]
  /\ UNCHANGED <<tcc, tq, tqStalled>>

-----------------------------------------------------------------------------
(* Requests of the TCPs at the TCC g.                                      *)

(* The bytes of the entry that a later write back would use.               *)
Dirty(c) == [c EXCEPT !.data = copyPartial(ZeroLine, @, c.mask)]

wdb_writeDirtyBytes(c, r) ==
  [c EXCEPT !.data = copyPartial(@, r.data, r.mask),
            !.mask = IF c.wb THEN @ \cup r.mask ELSE @]

WBAckTo(t) == [to |-> t, type |-> "TDSysWBAck", data |-> ZeroLine]
DataTo(t, d) == [to |-> t, type |-> "TDSysResp", data |-> d]

ToDir(g, type, mask, d, w) ==
  reqs' = Append(reqs, [from |-> g, type |-> type, mask |-> mask, data |-> d, wt |-> w])

TCCQuiet == UNCHANGED <<probes, resps, unblocks, rsps>>

(* st_stallAndWaitRequest                                                  *)
TCCStall(g) ==
  /\ tq # <<>>
  /\ tcc[g].s \in {"WI", "A"} \/ (tcc[g].s = "IV" /\ Head(tq).type # "RdBlk")
  /\ tq' = Tail(tq) /\ tqStalled' = Append(tqStalled, Head(tq))
  /\ TCCQuiet /\ UNCHANGED <<tcc, tcp, toTCP, reqs>>

(* RdBlk: a hit, or a miss that the TBE collects; the first asks the       *)
(* directory (rd_requestData).                                             *)
(* Mutant: every miss asks the directory (no Destination.count() == 1).    *)
TCCRdBlkEach(g) ==
  LET c == tcc[g]  r == Head(tq)
  IN  /\ HeadIs(tq, {"RdBlk"})
      /\ \/ /\ c.s \in {"M", "V"}
            /\ toTCP' = toTCP \cup {DataTo(r.from, c.data)}
            /\ UNCHANGED <<tcc, reqs>>
         \/ /\ c.s \in {"I", "IV"}
            /\ tcc' = [tcc EXCEPT ![g].s = "IV", ![g].dests = @ \cup {r.from}]
            /\ reqs' = Append(reqs, Plain(g, "RdBlk")) /\ UNCHANGED toTCP
      /\ tq' = Tail(tq)
      /\ TCCQuiet /\ UNCHANGED <<tcp, tqStalled>>

TCCRdBlk(g) ==
  LET c == tcc[g]  r == Head(tq)
  IN  /\ HeadIs(tq, {"RdBlk"})
      /\ \/ /\ c.s \in {"M", "V"}
            /\ toTCP' = toTCP \cup {DataTo(r.from, c.data)}
            /\ UNCHANGED <<tcc, reqs>>
         \/ /\ c.s \in {"I", "IV"}
            /\ tcc' = [tcc EXCEPT ![g].s = "IV", ![g].dests = @ \cup {r.from}]
            /\ IF Cardinality(c.dests \cup {r.from}) = 1
                 THEN reqs' = Append(reqs, Plain(g, "RdBlk")) ELSE UNCHANGED reqs
            /\ UNCHANGED toTCP
      /\ tq' = Tail(tq)
      /\ TCCQuiet /\ UNCHANGED <<tcp, tqStalled>>

(* Written bytes leave before the line is read or operated on; the request *)
(* stays in the buffer.                                                    *)
TCCWriteBack(g) ==
  LET c == tcc[g]
  IN  /\ \/ c.s = "W" /\ HeadIs(tq, {"RdBlk"})
         \/ c.s \in {"M", "W"} /\ HeadIs(tq, {"Atomic"})
      /\ tcc' = [tcc EXCEPT ![g] = [Dirty(c) EXCEPT !.s = "WI"]]
      /\ ToDir(g, "WriteThrough", c.mask, Dirty(c).data, g)
      /\ TCCQuiet /\ UNCHANGED <<tcp, tq, tqStalled, toTCP>>

TCCAtomic(g) ==
  LET c == tcc[g]  r == Head(tq)
  IN  /\ HeadIs(tq, {"Atomic"}) /\ c.s \in {"I", "V"}
      /\ tcc' = [tcc EXCEPT ![g].s = "A", ![g].data = ZeroLine, ![g].mask = {}]
      /\ ToDir(g, "Atomic", r.mask, r.data, r.from)
      /\ tq' = Tail(tq)
      /\ TCCQuiet /\ UNCHANGED <<tcp, tqStalled, toTCP>>

(* WrVicBlk: the write goes through to the directory and, on a hit, into   *)
(* the copy.                                                               *)
TCCWrVicBlk(g) ==
  LET c == tcc[g]  r == Head(tq)
  IN  /\ ~c.wb /\ HeadIs(tq, {"WriteThrough"}) /\ c.s \in {"I", "V"}
      /\ tcc' = IF c.s = "V" THEN [tcc EXCEPT ![g] = wdb_writeDirtyBytes(c, r)] ELSE tcc
      /\ ToDir(g, "WriteThrough", r.mask, r.data, r.from)
      /\ tq' = Tail(tq)
      /\ TCCQuiet /\ UNCHANGED <<tcp, tqStalled, toTCP>>

(* WrVicBlkBack: the write stays here and is acknowledged at once.         *)
TCCWrVicBlkBack(g) ==
  LET c == tcc[g]  r == Head(tq)
  IN  /\ c.wb /\ HeadIs(tq, {"WriteThrough"}) /\ c.s \in {"V", "M", "W", "I"}
      /\ tcc' = [tcc EXCEPT ![g] = [wdb_writeDirtyBytes(c, r) EXCEPT
                                      !.s = IF c.s \in {"V", "M"} THEN "M" ELSE "W"]]
      /\ toTCP' = toTCP \cup {WBAckTo(r.from)}
      /\ tq' = Tail(tq)
      /\ TCCQuiet /\ UNCHANGED <<tcp, tqStalled, reqs>>

(* L2_Repl, caused by another line.                                        *)
TCCL2Repl(g) ==
  LET c == tcc[g]
  IN  /\ TCCRepl
      /\ \/ /\ c.s \in {"W", "M"}
            /\ ToDir(g, "WriteThrough", c.mask, Dirty(c).data, g)
         \/ /\ c.s = "V" \/ (c.mask # {} /\ c.s \in {"I", "A", "IV", "WI"})
            /\ UNCHANGED reqs
      /\ tcc' = [tcc EXCEPT ![g] =
                  [c EXCEPT !.s = CASE c.s \in {"W", "M"} -> "WI" [] c.s = "V" -> "I" [] OTHER -> c.s,
                            !.data = ZeroLine, !.mask = {}]]
      /\ TCCQuiet /\ UNCHANGED <<tcp, tq, tqStalled, toTCP>>

-----------------------------------------------------------------------------
(* Messages of the directory at the TCC g.                                 *)

(* Every probe invalidates; the TCC has no data for the directory.         *)
(* Mutant: the probe is answered and the copy kept.                        *)
TCCPrbInvKeeps(g, p) ==
  /\ p \in probes /\ p.to = g
  /\ resps' = resps \cup {[from |-> g, type |-> "CPUPrbResp", dirty |-> FALSE,
                           hit |-> FALSE, data |-> ZeroLine]}
  /\ probes' = probes \ {p}
  /\ UNCHANGED <<tcc, reqs, unblocks, rsps, tcp, tq, tqStalled, toTCP>>

TCCPrbInv(g, p) ==
  LET c == tcc[g]
  IN  /\ p \in probes /\ p.to = g
      /\ tcc' = [tcc EXCEPT ![g] = CASE c.s = "V" -> [Dirty(c) EXCEPT !.s = "I"]
                                     [] c.s = "M" -> [Dirty(c) EXCEPT !.s = "W"]
                                     [] OTHER     -> c]
      /\ resps' = resps \cup {[from |-> g, type |-> "CPUPrbResp", dirty |-> FALSE,
                               hit |-> FALSE, data |-> ZeroLine]}
      /\ probes' = probes \ {p}
      /\ UNCHANGED <<reqs, unblocks, rsps, tcp, tq, tqStalled, toTCP>>

(* Mutant of wada_wakeUpAllDependentsAddr: nothing is woken.               *)
wadaWakesNothing == UNCHANGED <<tq, tqStalled>>

wada_wakeUpAllDependentsAddr == tq' = tqStalled \o tq /\ tqStalled' = <<>>

(* Data in IV: the line goes to every TCP that waits for it.               *)
TCCFill(g, m) ==
  LET c == tcc[g]
  IN  /\ m \in rsps /\ m.to = g /\ m.type = "NBSysResp" /\ c.s = "IV"
      /\ tcc' = [tcc EXCEPT ![g] = [c EXCEPT !.s = "V", !.data = m.data, !.dests = {}]]
      /\ toTCP' = toTCP \cup {DataTo(t, m.data) : t \in c.dests}
      /\ unblocks' = unblocks \cup {g}
      /\ wada_wakeUpAllDependentsAddr
      /\ rsps' = rsps \ {m}
      /\ UNCHANGED <<reqs, probes, resps, tcp>>

(* Data in A: the result of the atomic.                                    *)
TCCAtomicResp(g, m) ==
  /\ m \in rsps /\ m.to = g /\ m.type = "NBSysResp" /\ tcc[g].s = "A"
  /\ tcc' = [tcc EXCEPT ![g].done = TRUE]
  /\ toTCP' = toTCP \cup {DataTo(m.wt, m.data)}
  /\ rsps' = rsps \ {m}
  /\ UNCHANGED <<reqs, probes, resps, unblocks, tcp, tq, tqStalled>>

(* The trigger AtomicDone; with one atomic at a time AtomicNotDone does    *)
(* not occur.                                                              *)
TCCAtomicDone(g) ==
  /\ tcc[g].done
  /\ tcc' = [tcc EXCEPT ![g].done = FALSE, ![g].s = "I"]
  /\ wada_wakeUpAllDependentsAddr
  /\ TCCQuiet /\ UNCHANGED <<reqs, tcp, toTCP>>

(* WBAck.  In WI the write back was the TCC's own; nothing is woken.       *)
TCCWBAck(g, m) ==
  LET c == tcc[g]
  IN  /\ m \in rsps /\ m.to = g /\ m.type = "NBSysWBAck"
      /\ \/ /\ c.s \in {"I", "V", "IV", "A"}
            /\ toTCP' = toTCP \cup {WBAckTo(m.wt)}
            /\ UNCHANGED tcc
         \/ /\ c.s = "WI"
            /\ tcc' = [tcc EXCEPT ![g].s = "I"]
            /\ UNCHANGED toTCP
      /\ rsps' = rsps \ {m}
      /\ UNCHANGED <<reqs, probes, resps, unblocks, tcp, tq, tqStalled>>

-----------------------------------------------------------------------------
TCPStep ==
  \/ \E t \in TCPs, op \in {"WriteThrough", "Atomic"}, mask \in GPUMasks, v \in GPUValue :
       TCPIssue(t, op, mask, v)
  \/ \E t \in TCPs : TCPIssue(t, "RdBlk", {}, Zero)

(* coreRequestNetwork_in                                                   *)
TCCRequest(g) ==
  \/ TCCStall(g) \/ TCCRdBlk(g) \/ TCCWriteBack(g) \/ TCCAtomic(g)
  \/ TCCWrVicBlk(g) \/ TCCWrVicBlkBack(g)

TCCStep(g) ==
  \/ TCCRequest(g) \/ TCCAtomicDone(g)
  \/ (\E p \in probes : TCCPrbInv(g, p))
  \/ (\E m \in rsps : TCCFill(g, m) \/ TCCAtomicResp(g, m) \/ TCCWBAck(g, m))

(* Responses of the directory for which the TCC has no transition in the   *)
(* state it is in.                                                         *)
TCCUndeclared(g) ==
  \E m \in rsps :
    /\ m.to = g
    /\ tcc[g].s \notin IF m.type = "NBSysResp" THEN {"IV", "A"} ELSE {"I", "V", "IV", "A", "WI"}
=============================================================================
