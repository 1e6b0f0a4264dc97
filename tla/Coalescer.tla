------------------------------ MODULE Coalescer ------------------------------
(***************************************************************************)
(* One compute unit's path to memory: the coalescer                        *)
(* (system/GPUCoalescer.cc and system/VIPERCoalescer.cc) and the L1 it     *)
(* drives, the TCP (protocol/GPU_VIPER-TCP.sm).  The vector instructions   *)
(* of several wavefronts arrive as packets, are merged by line, wait for   *)
(* older instructions on the line, and are answered by callbacks.  A store *)
(* is answered twice: when the TCP has passed it on, and when the write is *)
(* complete.  INV_L1 walks the TCP and invalidates what it holds.          *)
(*                                                                         *)
(* A packet stands for the lanes of an instruction that fall in one line:  *)
(* one page, so one translation, so one tick in which they all arrive.     *)
(* The TCC and all behind it is one coherent copy per line that serves the *)
(* TCP's requests in the order they were sent (Compound checks that); its  *)
(* answers come in any order.  A line's contents are abstracted to the     *)
(* number of writes they include: all of them, and this unit's own.        *)
(***************************************************************************)
EXTENDS Integers, Sequences, FiniteSets, FiniteSetsExt, SequencesExt

CONSTANTS
  Waves,            \* wavefronts of the compute unit
  Lines,            \* cache lines
  Kernel,           \* the instructions the wavefronts may execute
  Blocks,           \* blocks of the TCP
  Tokens,           \* slots of the uncoalesced table
  MaxOutstanding,   \* m_max_outstanding_requests
  MaxInsts,         \* bound: instructions executed
  MaxRemote,        \* bound: writes of other agents
  None              \* model value: no line, no entry, no invalidation

VARIABLES
  insts,        \* the instructions executed, the index being the seqNum
  arriving,     \* packets whose address is still being translated
  uncoalesced,  \* instMap: packets waiting to be coalesced
  remaining,    \* instPktsRemaining, 0 for instructions not in the table
  tokens,       \* slots the compute unit may still use
  issueEvent,   \* issueEvent.scheduled()
  coalesced,    \* coalescedTable: the requests of a line, oldest first
  count,        \* m_outstanding_count
  writeMap,     \* m_writeCompletePktMap
  inv,          \* m_cache_inv_pkt
  pendingInvs,  \* m_num_pending_invs
  retries,      \* refused invalidations, waiting for a retry
  mandatory,    \* the TCP's mandatory queue
  tbes,         \* lines with a TBE, that is in state A
  entry,        \* the TCP's cache entries: their contents, or None
  toTCC,        \* requests on their way to the TCC
  toTCP,        \* responses on their way back
  mem,          \* contents of the coherent copy
  done,         \* packets answered (a store's by its write completion)
  acquired,     \* by wavefront: the writes its last INV_L1 came after
  inFlight      \* by wavefront: lines being filled when that INV_L1 came

tableVars == <<uncoalesced, remaining, tokens>>
coalVars  == <<coalesced, count, writeMap, mandatory>>
invVars   == <<inv, pendingInvs, retries, acquired, inFlight>>
tcpVars   == <<tbes, entry>>
netVars   == <<toTCC, toTCP, mem>>
cuVars    == <<insts, arriving>>
vars == <<cuVars, tableVars, issueEvent, coalVars, invVars, tcpVars, netVars,
          done>>

ASSUME ConstantsOK ==
  /\ Kernel \subseteq [wave : Waves, type : {"LD", "ST", "ATOMIC", "INV_L1"},
                       lines : SUBSET Lines]
  /\ \A i \in Kernel : (i.type = "INV_L1") = (i.lines = {})
  /\ {Blocks, Tokens, MaxOutstanding, MaxInsts} \subseteq Nat \ {0}
  /\ MaxRemote \in Nat

Num == 1 .. MaxInsts
Packets == [inst : Num, line : Lines]
Zero == [all |-> 0, own |-> 0]

PacketsOf(n) == [inst : {n}, line : insts[n].lines]
Waiting(n) == {p \in uncoalesced : p.inst = n}
InTable == {n \in Num : remaining[n] > 0}
IsComplete(n) ==
  IF insts[n].type = "INV_L1" THEN n # inv /\ n \notin Range(retries)
                              ELSE PacketsOf(n) \subseteq done

Init ==
  /\ insts = <<>>
  /\ arriving = {}
  /\ uncoalesced = {}
  /\ remaining = [n \in Num |-> 0]
  /\ tokens = Tokens
  /\ issueEvent = FALSE
  /\ coalesced = [l \in Lines |-> <<>>]
  /\ count = 0
  /\ writeMap = {}
  /\ inv = None
  /\ pendingInvs = 0
  /\ retries = <<>>
  /\ mandatory = <<>>
  /\ tbes = {}
  /\ entry = [l \in Lines |-> None]
  /\ toTCC = <<>>
  /\ toTCP = {}
  /\ mem = [l \in Lines |-> Zero]
  /\ done = {}
  /\ acquired = [w \in Waves |-> [l \in Lines |-> 0]]
  /\ inFlight = [w \in Waves |-> {}]

-----------------------------------------------------------------------------
(* The compute unit (gpu-compute/, outside mem/ruby).                      *)

\* A wavefront that executes an INV_L1 has waited for its earlier accesses,
\* and executes nothing before the invalidation is complete.
MayExecute(i) ==
  /\ Len(insts) < MaxInsts
  /\ \A n \in DOMAIN insts :
       insts[n].wave = i.wave /\ "INV_L1" \in {i.type, insts[n].type}
         => IsComplete(n)

\* A vector access takes a token and sends its addresses to be translated.
Execute(i) ==
  /\ MayExecute(i)
  /\ i.type # "INV_L1"
  /\ tokens > 0
  /\ insts' = Append(insts, i)
  /\ arriving' = arriving \cup [inst : {Len(insts) + 1}, line : i.lines]
  /\ tokens' = tokens - 1
  /\ UNCHANGED <<uncoalesced, remaining, issueEvent, coalVars, invVars,
                 tcpVars, netVars, done>>

\* The translated packets of a line reach GPUCoalescer::makeRequest.
MakeRequest(p) ==
  /\ p \in arriving
  /\ arriving' = arriving \ {p}
  /\ uncoalesced' = uncoalesced \cup {p}
  /\ remaining' = IF remaining[p.inst] > 0 THEN remaining
                  ELSE [remaining EXCEPT ![p.inst] =
                          Cardinality(insts[p.inst].lines)]
  /\ issueEvent' = TRUE
  /\ UNCHANGED <<insts, tokens, coalVars, invVars, tcpVars, netVars, done>>

-----------------------------------------------------------------------------
(* Coalescing.                                                             *)

\* issueRequest: the message of a coalesced request for the mandatory queue.
IssueMsg(l, c) == [type |-> c.type, line |-> l, inst |-> c.inst]

\* Mutant of WriteCompletePkts: the map is keyed by the line alone.
WriteCompletePktsByLine(msgs) ==
  {[inst |-> m.inst, line |-> m.line] : m \in
     {x \in Range(msgs) : x.type = "ST" /\ \A p \in writeMap : p.line # x.line}}

\* makeWriteCompletePkts: what a store will be answered with.
WriteCompletePkts(msgs) ==
  {[inst |-> m.inst, line |-> m.line] : m \in {x \in Range(msgs) : x.type = "ST"}}

\* Mutants of Room, UpdateResources and Unused: one request too many, a slot
\* freed one packet early, a line issued although it is in use.
RoomOneMore == MaxOutstanding - count + 1
UpdateResourcesEarly(left) == IF left <= 1 THEN tokens + 1 ELSE tokens
UnusedOrNot(L) == L

\* The limit on outstanding requests, the slot freed when no packets are left,
\* and the lines of L nobody uses.
Room == MaxOutstanding - count
UpdateResources(left) == IF left = 0 THEN tokens + 1 ELSE tokens
Unused(L) == {l \in L : coalesced[l] = <<>>}

\* completeIssue with a coalescing window of one: the oldest instruction in
\* the table is coalesced as far as the outstanding requests allow.  A line
\* nobody uses is issued, any other queued.  updateResources frees the slot
\* of an instruction with no packets left.
CompleteIssue ==
  /\ issueEvent
  /\ issueEvent' = FALSE
  /\ IF InTable = {} \/ Waiting(Min(InTable)) = {}
     THEN UNCHANGED <<tableVars, coalVars>>
     ELSE LET n == Min(InTable)
          IN \E P \in SUBSET Waiting(n) :
               /\ Cardinality(P) = Min({Room, Cardinality(Waiting(n))})
               /\ LET c     == [inst |-> n, type |-> insts[n].type]
                      taken == {p.line : p \in P}
                      left  == remaining[n] - Cardinality(P)
                  IN /\ uncoalesced' = uncoalesced \ P
                     /\ remaining' = [remaining EXCEPT ![n] = left]
                     /\ tokens' = UpdateResources(left)
                     /\ coalesced' = [l \in Lines |->
                          IF l \in taken THEN Append(coalesced[l], c)
                                         ELSE coalesced[l]]
                     /\ count' = count + Cardinality(P)
                     /\ \E new \in SetToSeqs(Unused(taken)) :
                          LET msgs == [i \in DOMAIN new |-> IssueMsg(new[i], c)]
                          IN /\ mandatory' = mandatory \o msgs
                             /\ writeMap' = writeMap \cup WriteCompletePkts(msgs)
  /\ UNCHANGED <<cuVars, invVars, tcpVars, netVars, done>>

-----------------------------------------------------------------------------
(* The callbacks of the TCP.                                               *)

\* The requests at the head of l's list that one callback answers: all the
\* loads up to another type of request (readCallback), or a single request
\* (writeCallback, atomicCallback).
Answered(l) ==
  LET q == coalesced[l]
  IN IF Head(q).type # "LD" THEN 1
     ELSE CHOOSE k \in 1 .. Len(q) :
            /\ \A i \in 1 .. k : q[i].type = "LD"
            /\ k < Len(q) => q[k + 1].type # "LD"

\* The last lines of completeHitCallback: instructions still in the table are
\* looked at again.
Reschedule == issueEvent \/ InTable # {}

\* hitCallback for the answered requests, then issueRequest of the line's
\* next one, behind q, what the callback's caller leaves in the mandatory
\* queue.
\* A store's packets are answered here too, but count as done only with the
\* write completion.
HitCallback(l, q) ==
  LET k    == Answered(l)
      next == SubSeq(coalesced[l], k + 1, Len(coalesced[l]))
      msgs == IF next = <<>> THEN <<>> ELSE <<IssueMsg(l, Head(next))>>
  IN /\ coalesced' = [coalesced EXCEPT ![l] = next]
     /\ count' = count - k
     /\ mandatory' = q \o msgs
     /\ writeMap' = writeMap \cup WriteCompletePkts(msgs)
     /\ issueEvent' = Reschedule
     /\ done' = done \cup
          [inst : {coalesced[l][i].inst : i \in {j \in 1 .. k : coalesced[l][j].type # "ST"}},
           line : {l}]

-----------------------------------------------------------------------------
(* Invalidation (VIPERCoalescer).                                          *)

\* invTCP: one REPLACEMENT for each block of the TCP, with no line for an
\* empty one, behind q.  Ghosts: what the wavefront's later loads must see.
InvTCP(n, w, q) ==
  LET held == SetToSeq({l \in Lines : entry[l] # None})
  IN /\ inv' = n
     /\ mandatory' = q \o [i \in 1 .. Blocks |->
          [type |-> "REPLACEMENT", inst |-> n,
           line |-> IF i <= Len(held) THEN held[i] ELSE None]]
     /\ pendingInvs' = Blocks
     /\ acquired' = [acquired EXCEPT ![w] = [l \in Lines |-> mem[l].all]]
     /\ inFlight' = [inFlight EXCEPT ![w] =
          {l \in Lines : \E r \in toTCP : r.type = "TDSysResp" /\ r.line = l}]

\* An INV_L1 reaches VIPERCoalescer::makeRequest: refused, for a later retry,
\* while another one is being served.
Invalidate(i) ==
  /\ MayExecute(i)
  /\ i.type = "INV_L1"
  /\ insts' = Append(insts, i)
  /\ \/ /\ inv # None
        /\ retries' = Append(retries, Len(insts) + 1)
        /\ UNCHANGED <<inv, pendingInvs, acquired, inFlight, mandatory>>
     \/ /\ inv = None
        /\ InvTCP(Len(insts) + 1, i.wave, mandatory)
        /\ UNCHANGED retries
  /\ UNCHANGED <<arriving, tableVars, issueEvent, coalesced, count, writeMap,
                 tcpVars, netVars, done>>

\* The INV_L1 is answered and trySendRetries makes the compute unit send the
\* oldest refused one again.
InvDone(q) ==
  /\ issueEvent' = Reschedule
  /\ \/ /\ retries = <<>>
        /\ inv' = None
        /\ pendingInvs' = 0
        /\ mandatory' = q
        /\ UNCHANGED <<retries, acquired, inFlight>>
     \/ /\ retries # <<>>
        /\ retries' = Tail(retries)
        /\ InvTCP(Head(retries), insts[Head(retries)].wave, q)

\* Mutant of InvTCPCallback: the first block's answers the INV_L1.
InvTCPCallbackFirst(q) == InvDone(q)

\* invTCPCallback: the last block's answers the INV_L1.
InvTCPCallback(q) ==
  \/ /\ pendingInvs > 1
     /\ pendingInvs' = pendingInvs - 1
     /\ mandatory' = q
     /\ UNCHANGED <<inv, retries, acquired, inFlight, issueEvent>>
  \/ /\ pendingInvs = 1
     /\ InvDone(q)

-----------------------------------------------------------------------------
(* The TCP: the transitions of GPU_VIPER-TCP.sm.  A line is in A when it   *)
(* has a TBE, else in V when it has an entry, else in I.                   *)

TCPState(l) ==
  IF l \in tbes THEN "A" ELSE IF l # None /\ entry[l] # None THEN "V" ELSE "I"

HeadIs(type) == mandatory # <<>> /\ Head(mandatory).type = type
HasRoom(l) == entry[l] # None \/ Cardinality({m \in Lines : entry[m] # None}) < Blocks
ToTCC(type, l, n) == Append(toTCC, [type |-> type, line |-> l, inst |-> n])

\* I, Load: a miss.
LoadMiss ==
  LET m == Head(mandatory)
  IN /\ HeadIs("LD")
     /\ TCPState(m.line) = "I"
     /\ toTCC' = ToTCC("RdBlk", m.line, m.inst)
     /\ mandatory' = Tail(mandatory)
     /\ UNCHANGED <<cuVars, tableVars, issueEvent, coalesced, count, writeMap,
                    invVars, tcpVars, toTCP, mem, done>>

\* V, Load: a hit.
LoadHit ==
  /\ HeadIs("LD")
  /\ TCPState(Head(mandatory).line) = "V"
  /\ HitCallback(Head(mandatory).line, Tail(mandatory))
  /\ UNCHANGED <<cuVars, tableVars, invVars, tcpVars, netVars>>

\* {V, I}, Atomic: passed on to the TCC; an entry stays, unusable.
Atomic ==
  LET m == Head(mandatory)
  IN /\ HeadIs("ATOMIC")
     /\ TCPState(m.line) # "A"
     /\ tbes' = tbes \cup {m.line}
     /\ toTCC' = ToTCC("Atomic", m.line, m.inst)
     /\ mandatory' = Tail(mandatory)
     /\ UNCHANGED <<cuVars, tableVars, issueEvent, coalesced, count, writeMap,
                    invVars, entry, toTCP, mem, done>>

\* Mutant of StoreThrough: the old copy stays.
StoreThroughKeeps ==
  LET m == Head(mandatory)
  IN /\ HeadIs("ST")
     /\ TCPState(m.line) # "A"
     /\ HasRoom(m.line)
     /\ HitCallback(m.line, Tail(mandatory))
     /\ toTCC' = ToTCC("WriteThrough", m.line, m.inst)
     /\ UNCHANGED <<cuVars, tableVars, invVars, tbes, entry, toTCP, mem>>

\* {V, I}, StoreThrough: the callback, then the write-through, and no copy
\* is kept.
StoreThrough ==
  LET m == Head(mandatory)
  IN /\ HeadIs("ST")
     /\ TCPState(m.line) # "A"
     /\ HasRoom(m.line)
     /\ HitCallback(m.line, Tail(mandatory))
     /\ toTCC' = ToTCC("WriteThrough", m.line, m.inst)
     /\ entry' = [entry EXCEPT ![m.line] = None]
     /\ UNCHANGED <<cuVars, tableVars, invVars, tbes, toTCP, mem>>

\* Mutant of EvictEntry: the block stays valid.
EvictEntryKeeps(l) == entry

\* ic_invCache in V; a line in A keeps its entry.
EvictEntry(l) == IF TCPState(l) = "V" THEN [entry EXCEPT ![l] = None] ELSE entry

\* {I, V, A}, Evict: a block of the walk.
Evict ==
  LET m == Head(mandatory)
  IN /\ HeadIs("REPLACEMENT")
     /\ InvTCPCallback(Tail(mandatory))
     /\ entry' = EvictEntry(m.line)
     /\ UNCHANGED <<cuVars, tableVars, coalesced, count, writeMap, tbes,
                    netVars, done>>

\* I, TCC_Ack: a fill, which answers the waiting loads.
Fill(r) ==
  /\ r.type = "TDSysResp"
  /\ TCPState(r.line) # "A"
  /\ HasRoom(r.line)
  /\ toTCP' = toTCP \ {r}
  /\ entry' = [entry EXCEPT ![r.line] = r.data]
  /\ HitCallback(r.line, mandatory)
  /\ UNCHANGED <<cuVars, tableVars, invVars, tbes, toTCC, mem>>

\* A, TCC_Ack: the atomic is done, and its result not kept.
AtomicDone(r) ==
  /\ r.type = "TDSysResp"
  /\ TCPState(r.line) = "A"
  /\ HasRoom(r.line)
  /\ toTCP' = toTCP \ {r}
  /\ tbes' = tbes \ {r.line}
  /\ entry' = [entry EXCEPT ![r.line] = None]
  /\ HitCallback(r.line, mandatory)
  /\ UNCHANGED <<cuVars, tableVars, invVars, toTCC, mem>>

\* {V, I, A}, TCC_AckWB: writeCompleteCallback answers the instruction's
\* packets of the line.
WtDone(r) ==
  LET P == {p \in writeMap : p.inst = r.inst /\ p.line = r.line}
  IN /\ r.type = "TDSysWBAck"
     /\ toTCP' = toTCP \ {r}
     /\ writeMap' = writeMap \ P
     /\ done' = done \cup P
     /\ UNCHANGED <<cuVars, tableVars, issueEvent, coalesced, count, mandatory,
                    invVars, tcpVars, toTCC, mem>>

\* Repl: a full TCP makes room for the store at the head of the mandatory
\* queue or for a response.
Repl(v) ==
  /\ entry[v] # None
  /\ \/ HeadIs("ST") /\ ~HasRoom(Head(mandatory).line)
     \/ \E r \in toTCP : r.type = "TDSysResp" /\ ~HasRoom(r.line)
  /\ entry' = [entry EXCEPT ![v] = None]
  /\ UNCHANGED <<cuVars, tableVars, issueEvent, coalVars, invVars, tbes,
                 netVars, done>>

-----------------------------------------------------------------------------
(* The TCC and the rest of the system.                                     *)

\* The TCC serves the oldest request of the TCP: reads give the coherent
\* copy, write-throughs and atomics change it.
TCC ==
  LET m   == Head(toTCC)
      new == IF m.type = "RdBlk" THEN mem[m.line]
             ELSE [all |-> mem[m.line].all + 1, own |-> mem[m.line].own + 1]
  IN /\ toTCC # <<>>
     /\ toTCC' = Tail(toTCC)
     /\ mem' = [mem EXCEPT ![m.line] = new]
     /\ toTCP' = toTCP \cup
          {IF m.type = "WriteThrough"
           THEN [type |-> "TDSysWBAck", line |-> m.line, inst |-> m.inst]
           ELSE [type |-> "TDSysResp", line |-> m.line, inst |-> m.inst,
                 data |-> new]}
     /\ UNCHANGED <<cuVars, tableVars, issueEvent, coalVars, invVars, tcpVars,
                    done>>

\* Another agent writes the line.
RemoteWrite(l) ==
  /\ MapThenSumSet(LAMBDA m : mem[m].all - mem[m].own, Lines) < MaxRemote
  /\ mem' = [mem EXCEPT ![l].all = @ + 1]
  /\ UNCHANGED <<cuVars, tableVars, issueEvent, coalVars, invVars, tcpVars,
                 toTCC, toTCP, done>>

\* The kernel is over.
KernelEnd ==
  /\ Len(insts) = MaxInsts
  /\ \A n \in DOMAIN insts : IsComplete(n)
  /\ UNCHANGED vars

-----------------------------------------------------------------------------
TCPStep == LoadMiss \/ LoadHit \/ Atomic \/ StoreThrough \/ Evict
Response == \E r \in toTCP : Fill(r) \/ AtomicDone(r) \/ WtDone(r)

Next ==
  \/ \E i \in Kernel : Execute(i)
  \/ \E i \in Kernel : Invalidate(i)
  \/ \E p \in arriving : MakeRequest(p)
  \/ CompleteIssue
  \/ LoadMiss
  \/ LoadHit
  \/ Atomic
  \/ StoreThrough
  \/ Evict
  \/ \E r \in toTCP : Fill(r)
  \/ \E r \in toTCP : AtomicDone(r)
  \/ \E r \in toTCP : WtDone(r)
  \/ \E v \in Lines : Repl(v)
  \/ TCC
  \/ \E l \in Lines : RemoteWrite(l)
  \/ KernelEnd

Spec == Init /\ [][Next]_vars

\* Translations return, scheduled events run, and the queues' consumers are
\* woken while there is something at their head; the compute unit, the other
\* agents and their programs owe nothing.
Fairness ==
  /\ WF_vars(\E p \in arriving : MakeRequest(p))
  /\ WF_vars(CompleteIssue)
  /\ WF_vars(TCPStep)
  /\ WF_vars(Response)
  /\ WF_vars(\E v \in Lines : Repl(v))
  /\ WF_vars(TCC)

FairSpec == Spec /\ Fairness

-----------------------------------------------------------------------------
\* A vector access goes through the coalescer in stages, and holds a token
\* exactly while packets of it are still outside the coalesced table
\* (updateResources returns the token, schedule_stage.cc takes it); the
\* outstanding count is that of the coalesced table and respects its limit.
TokensMatch ==
  LET uncounted == {n \in DOMAIN insts :
                      \E p \in arriving \cup uncoalesced : p.inst = n}
  IN /\ tokens + Cardinality(uncounted) = Tokens
     /\ \A n \in InTable :
          remaining[n] = Cardinality({p \in arriving \cup uncoalesced : p.inst = n})
     /\ count = MapThenSumSet(LAMBDA l : Len(coalesced[l]), Lines)
     /\ count <= MaxOutstanding

\* The messages that will end in a callback for line l.
Unanswered(l) ==
  LET In(q) == {<<i, q[i].inst, q[i].type>> : i \in
                  {j \in DOMAIN q : q[j].line = l /\ q[j].type \notin {"REPLACEMENT", "WriteThrough"}}}
  IN [queued  |-> In(mandatory), sent |-> In(toTCC),
      replied |-> {r \in toTCP : r.line = l /\ r.type = "TDSysResp"}]

\* issueRequest is called for a new line and by the callback before: a line
\* has exactly one request on its way, that of the oldest instruction in its
\* list.  So the callbacks' fatal_ifs on the request's type never fire, and
\* no request meets the atomic of another (the TCP's stall in state A, which
\* would block the whole mandatory queue).
OneIssued ==
  \A l \in Lines :
    LET u == Unanswered(l)
    IN /\ Cardinality(u.queued) + Cardinality(u.sent) + Cardinality(u.replied)
            = (IF coalesced[l] = <<>> THEN 0 ELSE 1)
       /\ \A x \in u.queued \cup u.sent : x[2] = Head(coalesced[l]).inst
       /\ \A r \in u.replied : r.inst = Head(coalesced[l]).inst
       /\ u.queued # {} => l \notin tbes
       /\ coalesced[l] # <<>> /\ Head(coalesced[l]).type = "ST" => u.queued # {}

\* makeWriteCompletePkts prepares the second answer of a store when the store
\* is issued: there is one for exactly the stores on their way to the TCC or
\* acknowledged by it, so that writeCompleteCallback finds it (its assertion)
\* and no store is completed twice, or before it is performed.
WritesPromised ==
  LET Of(m) == [inst |-> m.inst, line |-> m.line]
      stores == {<<"q", i, Of(mandatory[i])>> : i \in {j \in DOMAIN mandatory : mandatory[j].type = "ST"}}
           \cup {<<"t", i, Of(toTCC[i])>> : i \in {j \in DOMAIN toTCC : toTCC[j].type = "WriteThrough"}}
           \cup {<<"a", 0, Of(r)>> : r \in {x \in toTCP : x.type = "TDSysWBAck"}}
  IN /\ writeMap = {x[3] : x \in stores}
     /\ Cardinality(stores) = Cardinality(writeMap)
     /\ writeMap \cap done = {}

\* The copies of a line a load of this unit may be answered from.
Copies(l) ==
  (IF TCPState(l) = "V" THEN {entry[l]} ELSE {})
    \cup {r.data : r \in {x \in toTCP : x.line = l /\ x.type = "TDSysResp"}}

\* A load sees the compute unit's own earlier writes to the line although the
\* store was answered before it was performed: StoreThrough drops the TCP's
\* copy, and the line's next request follows it to the TCC.
ReadsOwnWrites ==
  \A l \in Lines : \A d \in Copies(l) :
    /\ d.own = mem[l].own
    /\ ~ \E i \in DOMAIN toTCC : toTCC[i].line = l /\ toTCC[i].type # "RdBlk"

\* The wavefronts whose last INV_L1 has been answered.
Acquired ==
  {w \in Waves : \A n \in DOMAIN insts :
     insts[n].wave = w /\ insts[n].type = "INV_L1" => IsComplete(n)}

\* After a wavefront's INV_L1 is answered, no load is answered with less than
\* the writes performed before it was sent (the acquire of the GPU memory
\* model), for lines that were not being filled at that time: the walk over
\* the blocks, during which loads, stores and replacements go on, ends with
\* the last of them (m_num_pending_invs).
AcquireQuiet ==
  \A w \in Acquired : \A l \in Lines \ inFlight[w] :
    \A d \in Copies(l) : d.all >= acquired[w][l]

\* Every instruction is answered and gives its token back: completeIssue
\* looks at one instruction per event and does not schedule itself again, so
\* the others rely on the events of later packets and of completeHitCallback;
\* refused invalidations rely on trySendRetries.
InstsComplete ==
  []<>(tokens = Tokens /\ \A n \in DOMAIN insts : IsComplete(n))
=============================================================================
