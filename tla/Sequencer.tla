------------------------------ MODULE Sequencer ------------------------------
(***************************************************************************)
(* The CPU side of Ruby: the sequencers of one L1 controller               *)
(* (system/Sequencer.cc), the ports in front of them with their retry list *)
(* (system/RubyPort.cc) and the lines the controller blocks for a locked   *)
(* read-modify-write (slicc_interface/AbstractController.cc).  A CorePair  *)
(* has two sequencers that share one mandatory queue and one block map;    *)
(* Seqs is the set of them.                                                *)
(*                                                                         *)
(* A callback of the controller answers a list of requests in a loop, and  *)
(* every answer retries the refused ports, whose requests may join the     *)
(* very list the loop walks.  The simulator is single threaded, so nothing *)
(* else happens meanwhile: while cb is not Idle only the loop's next step  *)
(* is enabled.                                                             *)
(*                                                                         *)
(* The controller is abstracted to the permission it has for a line, and   *)
(* the directory and the other caches to the fills and probes they send.   *)
(***************************************************************************)
EXTENDS Integers, Sequences, FiniteSets, FiniteSetsExt

CONSTANTS
  Seqs,            \* the sequencers of the controller, one per core
  Lines,           \* cache lines
  MaxOutstanding,  \* m_max_outstanding_requests
  DataOps,         \* the requests the cores' data ports make
  ReplaceLocked,   \* may the L2 choose a blocked line as its victim
  Idle, None       \* model values: no callback runs, no request or line

VARIABLES
  table,      \* m_RequestTable: the list of each line, oldest first
  count,      \* m_outstanding_count
  mandatory,  \* requests issued to the controller and not yet answered
  retry,      \* retryList
  pend,       \* the packet a refused port holds until it is retried
  blocked,    \* m_block_map: lines blocked for every queue but the mandatory
  perm,       \* what the controller may do with a line
  monitor,    \* the LL/SC lock bit of the line in the core's data cache
  cb,         \* the callback that is running
  lock,       \* the line a core's locked read-modify-write is working on
  broken,     \* cores whose read-modify-write another write got into
  stale,      \* lines written by someone else since the core's load-linked
  drain,      \* drainState()
  watch       \* deadlockCheckEvent.scheduled()

vars == <<table, count, mandatory, retry, pend, blocked, perm, monitor, cb,
          lock, broken, stale, drain, watch>>

ReadTypes  == {"LD", "IFETCH", "Load_Linked"}
WriteTypes == {"ST", "Store_Conditional", "RMW_Read", "Locked_RMW_Read",
               "Locked_RMW_Write"}
Types      == ReadTypes \cup WriteTypes
Kinds      == {"LD", "ST", "IFETCH"}

(* A core has a data port and an instruction port; port[1] is its sequencer. *)
Ports == Seqs \X {"d", "i"}

Requests  == [type : Types, line : Lines]
Entries   == [port : Ports, type : Types]
Callbacks == [seq : Seqs, line : Lines, hit : BOOLEAN,
              kind : {"read", "write"}, cur : Seq(Ports)]

ASSUME ConstantsOK ==
  /\ MaxOutstanding \in Nat \ {0}
  /\ DataOps \subseteq Types \ {"IFETCH", "Locked_RMW_Write"}
  /\ ReplaceLocked \in BOOLEAN
  /\ Idle \notin Callbacks /\ None \notin Requests

(* The type the controller sees: locked and read-for-write accesses ask for
   exclusive permission like stores. *)
SecondaryType(type) ==
  IF type \in {"ST", "Store_Conditional", "RMW_Read", "Locked_RMW_Read",
               "Locked_RMW_Write"}
  THEN "ST" ELSE IF type = "IFETCH" THEN "IFETCH" ELSE "LD"

(* The requests of a core's port that Ruby has accepted and not answered. *)
Outstanding(p) == {l \in Lines : \E i \in DOMAIN table[p[1]][l] :
                                   table[p[1]][l][i].port = p}

Init ==
  /\ table = [s \in Seqs |-> [l \in Lines |-> <<>>]]
  /\ count = [s \in Seqs |-> 0]
  /\ mandatory = [s \in Seqs |-> [l \in Lines |-> <<>>]]
  /\ retry = [s \in Seqs |-> <<>>]
  /\ pend = [p \in Ports |-> None]
  /\ blocked = {}
  /\ perm = [l \in Lines |-> "I"]
  /\ monitor = [s \in Seqs |-> {}]
  /\ cb = Idle
  /\ lock = [s \in Seqs |-> None]
  /\ broken = {}
  /\ stale = [s \in Seqs |-> {}]
  /\ drain = [s \in Seqs |-> "Running"]
  /\ watch = [s \in Seqs |-> FALSE]

-----------------------------------------------------------------------------
(* Accepting and refusing a request. *)

(* makeRequest's early returns: BufferFull, and Aliased for a line that a
   locked read-modify-write holds. *)
BufferFull(s) == count[s] >= MaxOutstanding
Aliased(r) == r.line \in blocked /\ r.type # "Locked_RMW_Write"
Refused(s, r) == BufferFull(s) \/ Aliased(r)

Issue(s, l, type) ==
  mandatory' = [mandatory EXCEPT ![s][l] = Append(@, SecondaryType(type))]

(* Mutants of InsertRequest: an aliased request is issued as well, or it is
   not counted. *)
InsertRequestAlways(p, r) ==
  LET s == p[1] IN
  /\ table' = [table EXCEPT ![s][r.line] =
                 Append(@, [port |-> p, type |-> r.type])]
  /\ count' = [count EXCEPT ![s] = @ + 1]
  /\ watch' = [watch EXCEPT ![s] = @ \/ drain[s] # "Draining"]
  /\ Issue(s, r.line, r.type)
InsertRequestUncounted(p, r) ==
  LET s == p[1] IN
  /\ table' = [table EXCEPT ![s][r.line] =
                 Append(@, [port |-> p, type |-> r.type])]
  /\ watch' = [watch EXCEPT ![s] = @ \/ drain[s] # "Draining"]
  /\ IF table[s][r.line] = <<>>
     THEN Issue(s, r.line, r.type) /\ count' = [count EXCEPT ![s] = @ + 1]
     ELSE UNCHANGED <<mandatory, count>>

(* insertRequest, and issueRequest unless the line's list was not empty. *)
InsertRequest(p, r) ==
  LET s == p[1] IN
  /\ table' = [table EXCEPT ![s][r.line] =
                 Append(@, [port |-> p, type |-> r.type])]
  /\ count' = [count EXCEPT ![s] = @ + 1]
  /\ watch' = [watch EXCEPT ![s] = @ \/ drain[s] # "Draining"]
  /\ IF table[s][r.line] = <<>> THEN Issue(s, r.line, r.type)
     ELSE UNCHANGED mandatory

(* Mutant of AddToRetryList: there is room for one port. *)
AddToRetryListOne(s, p) == retry' = [retry EXCEPT ![s] = IF @ = <<>> THEN <<p>> ELSE @]

(* addToRetryList: a port is on the list at most once. *)
AddToRetryList(s, p) ==
  retry' = [retry EXCEPT ![s] =
              IF \E i \in DOMAIN @ : @[i] = p THEN @ ELSE Append(@, p)]

(* MemResponsePort::recvTimingReq on the packet r of port p. *)
RecvTimingReq(p, r) ==
  IF Refused(p[1], r)
  THEN /\ AddToRetryList(p[1], p)
       /\ pend' = [pend EXCEPT ![p] = r]
       /\ UNCHANGED <<table, count, watch, mandatory>>
  ELSE /\ InsertRequest(p, r)
       /\ pend' = [pend EXCEPT ![p] = None]
       /\ UNCHANGED retry

(* What a core may send: a locked read-modify-write is fenced, so its read
   goes out alone and nothing but its write follows until that is done; a
   core that is draining only finishes the read-modify-write it began. *)
MaySend(p, r) ==
  LET s == p[1] IN
  CASE p[2] = "i" -> r.type = "IFETCH" /\ drain[s] = "Running"
    [] r.type = "Locked_RMW_Write" ->
         lock[s] = r.line /\ Outstanding(p) = {}
    [] r.type = "Locked_RMW_Read" ->
         /\ lock[s] = None /\ drain[s] = "Running" /\ Outstanding(p) = {}
    [] OTHER ->
         /\ r.type \in DataOps /\ lock[s] = None /\ drain[s] = "Running"
         /\ \A l \in Lines : \A i \in DOMAIN table[s][l] :
              table[s][l][i].type # "Locked_RMW_Read"

Send(p, r) ==
  /\ cb = Idle
  /\ pend[p] = None
  /\ r.type \in DataOps \cup {"IFETCH", "Locked_RMW_Write"}
  /\ MaySend(p, r)
  /\ RecvTimingReq(p, r)
  /\ UNCHANGED <<blocked, perm, monitor, cb, lock, broken, stale, drain>>

-----------------------------------------------------------------------------
(* The controller answers: readCallback or writeCallback starts. *)

Permits(l, kind) == perm[l] = "M" \/ (perm[l] = "S" /\ kind # "ST")

StartCallback(s, l) ==
  /\ mandatory' = [mandatory EXCEPT ![s][l] = Tail(@)]
  /\ cb' = [seq |-> s, line |-> l, hit |-> FALSE,
            kind |-> IF Head(mandatory[s][l]) = "ST" THEN "write" ELSE "read",
            cur |-> <<>>]

(* The mandatory queue is never blocked: a hit is served even while the line
   is held for a locked read-modify-write. *)
Hit(s, l) ==
  /\ cb = Idle
  /\ mandatory[s][l] # <<>>
  /\ Permits(l, Head(mandatory[s][l]))
  /\ StartCallback(s, l)
  /\ UNCHANGED <<table, count, retry, pend, blocked, perm, monitor, lock,
                 broken, stale, drain, watch>>

(* A miss is served when the directory's response comes, which waits in its
   queue while the line is blocked. *)
Fill(s, l) ==
  /\ cb = Idle
  /\ mandatory[s][l] # <<>>
  /\ ~Permits(l, Head(mandatory[s][l]))
  /\ l \notin blocked
  /\ perm' = [perm EXCEPT ![l] =
                IF Head(mandatory[s][l]) = "ST" THEN "M" ELSE "S"]
  /\ StartCallback(s, l)
  /\ UNCHANGED <<table, count, retry, pend, blocked, monitor, lock, broken,
                 stale, drain, watch>>

(* The oldest request of the list that the callback is walking. *)
Front == Head(table[cb.seq][cb.line])

(* llscLoadLinked, llscClearMonitor and llscStoreConditional: the monitor is
   a bit of the line in the core's own data cache, and a core that gains the
   line for writing has taken it from the other cores' caches. *)
Monitors(s, l, type) ==
  [t \in Seqs |->
     IF type \in WriteTypes THEN monitor[t] \ {l}
     ELSE IF type = "Load_Linked" /\ t = s THEN monitor[t] \cup {l}
     ELSE monitor[t]]

Succeeds(s, l, type) == type # "Store_Conditional" \/ l \in monitor[s]

Wrote(s, l, type) ==
  /\ type \in {"ST", "Store_Conditional", "Locked_RMW_Write"}
  /\ Succeeds(s, l, type)

(* What a write of core s to line l does to the others: it lands between
   their load-linked and store-conditional, or inside their read-modify-write. *)
Disturbed(s, l) == {t \in Seqs \ {s} : lock[t] = l}

(* blockOnQueue and unblock. *)
BlockMap(l, type) ==
  IF type = "Locked_RMW_Read" THEN blocked \cup {l}
  ELSE IF type = "Locked_RMW_Write" THEN blocked \ {l}
  ELSE blocked

(* One turn of the loop of readCallback or writeCallback: markRemoved, then
   hitCallback, whose ruby_hit_callback answers the port and starts
   trySendRetries on a copy of the retry list. *)
HitCallback ==
  LET s == cb.seq  l == cb.line  type == Front.type IN
  /\ cb # Idle /\ ~cb.hit
  /\ cb.kind = "write" \/ type \in ReadTypes
  /\ count' = [count EXCEPT ![s] = @ - 1]
  /\ monitor' = Monitors(s, l, type)
  /\ blocked' = BlockMap(l, type)
  /\ lock' = [lock EXCEPT ![s] = IF type = "Locked_RMW_Read" THEN l
                                 ELSE IF type = "Locked_RMW_Write" THEN None
                                 ELSE @]
  /\ broken' = IF Wrote(s, l, type) THEN broken \cup Disturbed(s, l)
               ELSE broken
  /\ stale' = [t \in Seqs |->
                 IF t # s /\ Wrote(s, l, type) THEN stale[t] \cup {l}
                 ELSE IF t = s /\ type = "Load_Linked" THEN stale[t] \ {l}
                 ELSE stale[t]]
  /\ retry' = [retry EXCEPT ![s] = <<>>]
  /\ cb' = [cb EXCEPT !.hit = TRUE, !.cur = retry[s]]
  /\ UNCHANGED <<table, mandatory, pend, perm, drain, watch>>

(* trySendRetries: the port sends its packet again at once. *)
SendRetryReq ==
  /\ cb # Idle /\ cb.hit /\ cb.cur # <<>>
  /\ RecvTimingReq(Head(cb.cur), pend[Head(cb.cur)])
  /\ cb' = [cb EXCEPT !.cur = Tail(@)]
  /\ UNCHANGED <<blocked, perm, monitor, lock, broken, stale, drain>>

(* Mutant of TestDrainComplete: the drain is left without being signalled. *)
TestDrainCompleteSilent(s) ==
  drain' = [drain EXCEPT ![s] =
              IF @ = "Draining" /\ count[s] = 0 THEN "Running" ELSE @]

(* testDrainComplete, with signalDrainDone. *)
TestDrainComplete(s) ==
  drain' = [drain EXCEPT ![s] =
              IF @ = "Draining" /\ count[s] = 0 THEN "Drained" ELSE @]

(* The end of ruby_hit_callback, then pop_front; the emptied list leaves the
   table. *)
PopFront ==
  LET s == cb.seq  l == cb.line IN
  /\ cb # Idle /\ cb.hit /\ cb.cur = <<>>
  /\ TestDrainComplete(s)
  /\ table' = [table EXCEPT ![s][l] = Tail(@)]
  /\ cb' = IF Len(table[s][l]) = 1 THEN Idle ELSE [cb EXCEPT !.hit = FALSE]
  /\ UNCHANGED <<count, mandatory, retry, pend, blocked, perm, monitor, lock,
                 broken, stale, watch>>

(* Mutant of Reissue: the write is left in the list. *)
ReissueForgets ==
  /\ cb # Idle /\ ~cb.hit
  /\ cb.kind = "read" /\ Front.type \in WriteTypes
  /\ cb' = Idle
  /\ UNCHANGED <<table, count, mandatory, retry, pend, blocked, perm, monitor,
                 lock, broken, stale, drain, watch>>

(* readCallback has only read permission: it stops at the first write, which
   is issued to the controller. *)
Reissue ==
  /\ cb # Idle /\ ~cb.hit
  /\ cb.kind = "read" /\ Front.type \in WriteTypes
  /\ Issue(cb.seq, cb.line, Front.type)
  /\ cb' = Idle
  /\ UNCHANGED <<table, count, retry, pend, blocked, perm, monitor, lock,
                 broken, stale, drain, watch>>

-----------------------------------------------------------------------------
(* The rest of the system. *)

(* Mutant of EvictionCallback: the monitor outlives the line. *)
EvictionCallbackKeeps(l) == UNCHANGED monitor

(* Line l leaves every data cache of the controller: evictionCallback. *)
EvictionCallback(l) == monitor' = [s \in Seqs |-> monitor[s] \ {l}]

(* An invalidating probe, behind which another cache or the GPU writes the
   line.  The probe queue waits while the line is blocked. *)
RemoteWrite(l) ==
  /\ cb = Idle
  /\ l \notin blocked
  /\ perm[l] # "I"
  /\ perm' = [perm EXCEPT ![l] = "I"]
  /\ EvictionCallback(l)
  /\ broken' = broken \cup {s \in Seqs : lock[s] = l}
  /\ stale' = [s \in Seqs |-> stale[s] \cup {l}]
  /\ UNCHANGED <<table, count, mandatory, retry, pend, blocked, cb, lock,
                 drain, watch>>

(* A probe that leaves a shared copy. *)
RemoteRead(l) ==
  /\ cb = Idle
  /\ l \notin blocked
  /\ perm[l] = "M"
  /\ perm' = [perm EXCEPT ![l] = "S"]
  /\ UNCHANGED <<table, count, mandatory, retry, pend, blocked, monitor, cb,
                 lock, broken, stale, drain, watch>>

(* The core's L1 replaces the line, and the monitor goes with it; a locked
   line is not chosen (check_on_cache_probe). *)
L1Repl(s, l) ==
  /\ cb = Idle
  /\ l \in monitor[s] \ blocked
  /\ monitor' = [monitor EXCEPT ![s] = @ \ {l}]
  /\ UNCHANGED <<table, count, mandatory, retry, pend, blocked, perm, cb, lock,
                 broken, stale, drain, watch>>

(* The L2 replaces the line.  Unlike the replacements in the L1s this one
   does not ask whether the line is locked. *)
L2Repl(l) ==
  /\ cb = Idle
  /\ l \notin blocked \/ ReplaceLocked
  /\ perm[l] # "I"
  /\ perm' = [perm EXCEPT ![l] = "I"]
  /\ EvictionCallback(l)
  /\ UNCHANGED <<table, count, mandatory, retry, pend, blocked, cb, lock,
                 broken, stale, drain, watch>>

(* RubyPort::drain: the deadlock check is descheduled.  It is called again
   while other parts of the system are still draining. *)
Drain(s) ==
  /\ cb = Idle
  /\ drain[s] # "Draining"
  /\ drain' = [drain EXCEPT ![s] = IF count[s] > 0 THEN "Draining"
                                   ELSE "Drained"]
  /\ watch' = [watch EXCEPT ![s] = FALSE]
  /\ UNCHANGED <<table, count, mandatory, retry, pend, blocked, perm, monitor,
                 cb, lock, broken, stale>>

(* The system resumes once everything has drained. *)
Resume(s) ==
  /\ cb = Idle
  /\ drain[s] = "Drained" /\ count[s] = 0 /\ lock[s] = None
  /\ drain' = [drain EXCEPT ![s] = "Running"]
  /\ UNCHANGED <<table, count, mandatory, retry, pend, blocked, perm, monitor,
                 cb, lock, broken, stale, watch>>

(* wakeup, the deadlock check: it reschedules itself while requests are
   outstanding. *)
Wakeup(s) ==
  /\ cb = Idle
  /\ watch[s]
  /\ watch' = [watch EXCEPT ![s] = count[s] > 0]
  /\ UNCHANGED <<table, count, mandatory, retry, pend, blocked, perm, monitor,
                 cb, lock, broken, stale, drain>>

CallbackStep == HitCallback \/ SendRetryReq \/ PopFront \/ Reissue

Next ==
  \/ \E p \in Ports, l \in Lines, type \in Types :
       Send(p, [type |-> type, line |-> l])
  \/ \E s \in Seqs, l \in Lines : Hit(s, l) \/ Fill(s, l) \/ L1Repl(s, l)
  \/ CallbackStep
  \/ \E l \in Lines : RemoteWrite(l) \/ RemoteRead(l) \/ L2Repl(l)
  \/ \E s \in Seqs : Drain(s) \/ Resume(s) \/ Wakeup(s)

Spec == Init /\ [][Next]_vars

(* A callback runs to its end, the controller and the directory answer what
   is issued (CoresServed of Compound), and a core that has read under lock
   goes on to write, whatever callbacks of other lines come in between: the
   mandatory queue is served in order.  The cores are free to make no other
   request. *)
Fairness ==
  /\ WF_vars(CallbackStep)
  /\ \A s \in Seqs, l \in Lines :
       /\ SF_vars(Hit(s, l) \/ Fill(s, l))
       /\ SF_vars(Send(<<s, "d">>, [type |-> "Locked_RMW_Write", line |-> l]))

FairSpec == Spec /\ Fairness
-----------------------------------------------------------------------------
(* Properties. *)

TypeOK ==
  /\ table \in [Seqs -> [Lines -> Seq(Entries)]]
  /\ mandatory \in [Seqs -> [Lines -> Seq(Kinds)]]
  /\ count \in [Seqs -> Int] /\ \A s \in Seqs : count[s] <= MaxOutstanding
  /\ retry \in [Seqs -> Seq(Ports)]
  /\ pend \in [Ports -> Requests \cup {None}]
  /\ blocked \subseteq Lines
  /\ perm \in [Lines -> {"I", "S", "M"}]
  /\ monitor \in [Seqs -> SUBSET Lines]
  /\ cb \in Callbacks \cup {Idle}
  /\ lock \in [Seqs -> Lines \cup {None}]
  /\ broken \subseteq Seqs
  /\ stale \in [Seqs -> SUBSET Lines]
  /\ drain \in [Seqs -> {"Running", "Draining", "Drained"}]
  /\ watch \in [Seqs -> BOOLEAN]

Serving(s, l) == cb # Idle /\ cb.seq = s /\ cb.line = l

(* At most one request per line is in the hands of the controller, it is
   there exactly when the line's list is not empty and not being served, and
   its kind is that of the oldest request of the list.  This is what the
   assertions at the head of readCallback and writeCallback need: an aliased
   request is neither issued twice nor forgotten. *)
OneRubyRequest ==
  \A s \in Seqs, l \in Lines :
    IF Serving(s, l)
    THEN mandatory[s][l] = <<>> /\ table[s][l] # <<>>
    ELSE mandatory[s][l] = IF table[s][l] = <<>> THEN <<>>
                           ELSE <<SecondaryType(table[s][l][1].type)>>

(* m_outstanding_count is the number of requests in the table (wakeup asserts
   it), counting out the one whose answer is on its way but which is popped
   only after the retries. *)
CountMatches ==
  \A s \in Seqs :
    count[s] = MapThenSumSet(LAMBDA l : Len(table[s][l]), Lines)
               - (IF cb # Idle /\ cb.seq = s /\ cb.hit THEN 1 ELSE 0)

(* wakeup asserts that the sequencer is not draining, and a sequencer with
   requests outstanding and not draining has its deadlock check scheduled. *)
DeadlockCheckArmed ==
  \A s \in Seqs :
    /\ watch[s] => drain[s] # "Draining"
    /\ drain[s] # "Draining" /\ count[s] > 0 => watch[s]

(* No write to the line comes between the read and the write of a locked
   read-modify-write: blockOnQueue keeps everyone else away from the line. *)
RMWAtomic == broken = {}

(* A set monitor means that nobody else wrote the line since the core's
   load-linked, so the store-conditional it lets through is atomic. *)
MonitorSound ==
  \A s \in Seqs : monitor[s] \cap stale[s] = {}

(* Exactly the ports that hold a refused packet are on the retry list of
   their sequencer or about to be retried, and each of them once: the copy
   that trySendRetries walks, the ports it refuses again and those refused
   meanwhile never lose a port, nor retry one that has nothing to send. *)
RefusedListed ==
  /\ \A s \in Seqs :
       /\ \A i \in DOMAIN retry[s] : retry[s][i][1] = s /\ pend[retry[s][i]] # None
       /\ \A i, j \in DOMAIN retry[s] : retry[s][i] = retry[s][j] => i = j
  /\ cb # Idle =>
       /\ \A i \in DOMAIN cb.cur : cb.cur[i][1] = cb.seq /\ pend[cb.cur[i]] # None
       /\ \A i, j \in DOMAIN cb.cur : cb.cur[i] = cb.cur[j] => i = j
       /\ \A i \in DOMAIN cb.cur : \A j \in DOMAIN retry[cb.seq] :
            cb.cur[i] # retry[cb.seq][j]
       /\ ~cb.hit => cb.cur = <<>>
  /\ \A p \in Ports : pend[p] # None =>
       \/ \E i \in DOMAIN retry[p[1]] : retry[p[1]][i] = p
       \/ cb # Idle /\ \E i \in DOMAIN cb.cur : cb.cur[i] = p

(* Every refused port is eventually accepted ("we need to tell the port to
   retry at a later point", recvTimingReq), although only the answers of its
   own sequencer retry it and each retry may refuse it again. *)
RefusedServed == \A p \in Ports : pend[p] # None ~> pend[p] = None

(* Every list of requests is eventually answered to its end. *)
ListsServed ==
  \A s \in Seqs, l \in Lines : table[s][l] # <<>> ~> table[s][l] = <<>>

(* A drain completes: the last answer finds the count at zero. *)
DrainCompletes ==
  \A s \in Seqs : drain[s] = "Draining" ~> drain[s] = "Drained"

(* The inductive invariant of SequencerProofs. *)
IInv == /\ TypeOK /\ OneRubyRequest /\ DeadlockCheckArmed /\ MonitorSound
        /\ RefusedListed
=============================================================================
