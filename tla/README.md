# Verification of the compound CPU/GPU memory system

This directory models and verifies the coherence protocol on which the litmus
tests of this repository run: the `GPU_VIPER` Ruby protocol of the bundled gem5
(`build_opts/GCN3_X86`, `configs/example/apu_se.py`), in which CPU caches with a
MOESI protocol and GPU caches with a write-through protocol share one directory.

## The system

| part | source (under `src/gem5/src/mem/ruby/`) | module |
|---|---|---|
| directory, L3, DMA port | `protocol/MOESI_AMD_Base-dir.sm` | `Directory` |
| registry of stalled buffers, as the controllers use it | `slicc_interface/AbstractController.cc` | `Directory`, `TCC` |
| two CPU cores, L1D, L1D, L1I, L2 | `protocol/MOESI_AMD_Base-CorePair.sm` | `CorePair` |
| GPU L2 | `protocol/GPU_VIPER-TCC.sm` | `TCC` |
| DMA controller | `protocol/MOESI_AMD_Base-dma.sm` | `Compound` |
| masked bytes of a line | `common/DataBlock.cc` | `Directory` |
| CPU request tables and ports | `system/Sequencer.cc`, `system/RubyPort.cc` | `Sequencer` |
| GPU request tables, GPU L1 | `system/GPUCoalescer.cc`, `system/VIPERCoalescer.cc`, `protocol/GPU_VIPER-TCP.sm` | `Coalescer` |
| buffers between controllers, wakeups | `network/MessageBuffer.cc`, `common/Consumer.cc` | `MessageBuffer` |

A core's access enters Ruby through a port and its sequencer, a wavefront's
through the coalescer; both merge accesses to one line and hand one request per
line to their L1 controller. A cache that misses sends a request to the
directory. The directory blocks the line, probes the other caches, reads memory
or the L3, and answers when both the data and all probe responses have arrived;
the cache unblocks the line. Victims are offered (`VicDirty`, `VicClean`),
acknowledged, and then sent. The TCC passes GPU writes and atomics to the
directory, which acknowledges a write-through when its transaction *starts*.
What meets a busy line is stalled and woken when the line returns to `U`. All
controllers are driven by message buffers, and sleep unless one of them has
scheduled a wakeup.

The modules of the protocol (`Directory`, `CoherenceProtocol`, `CorePair`,
`TCC`, `Compound`) describe **one cache line**. The controllers treat lines
independently except for the choice of a replacement victim; replacements are
therefore actions that may happen at any time (`L2Repl`, `L1Repl`, `L3Evict`,
`TCCL2Repl`). `Sequencer`, `Coalescer` and `MessageBuffer` are about what lines
share (limits, queues, wakeups) and have several.

## Modules

- `Directory`: state, messages and one action per group of transitions of the
  directory. Variables carry the source's names where it has one (`tbe`,
  `waiting` for `m_waiting_buffers`, `reqs` for `requestFromCores`).
- `CoherenceProtocol`: the directory with *abstract* caches. A cache has a
  permission (`none`, `read`, `write`), raises it only by a grant, may lower it
  at any time, must lower it when probed. This is what the protocol promises
  and expects, and the module the coherence proofs are about.
- `CorePair`: the detailed CPU side. A state is `<<name, k>>`, where `k` is the
  cluster (0 or 1) in the source's state name, so `I_E0S` and `I_E1S` are
  `<<"I_ES", 0>>` and `<<"I_ES", 1>>`; the header lists all of them. The two
  mirror-image transitions of the source are one definition.
- `TCC`: the GPU L2 with the requests of its TCPs. Its machine parameter `WB`
  (write-back instead of write-through) is a field of its state, chosen
  initially from the constant `WB`, so that one run covers both modes.
- `Compound`: all detailed controllers and DMA composed with the directory.
  The history variable `golden` is the content the line should have: a CPU
  store changes it when the core is told the store is done, a GPU or DMA write
  when its transaction ends at the directory. An atomic applies its function to
  `golden`, except where the code has dropped a CPU store: when its probe
  brought dirty data, which `wd_writeBackData` discards, `golden` continues from
  the directory's copy (`AtomicBase`; see the disagreements below). `Compound` defines the refinement
  mapping to `CoherenceProtocol` (`absPerm`, `absReading`, ...).
- `Sequencer`: the sequencers of one CorePair with their ports. `Send` is a
  core's `sendTimingReq`; `Hit` and `Fill` start `readCallback` or
  `writeCallback`; `HitCallback`, `SendRetryReq`, `PopFront` and `Reissue` are
  the steps of the callback's loop, in which every answer retries the refused
  ports. Evictions and probes of the controller, `Drain`, `Resume` and the
  deadlock check `Wakeup` are the other actions.
- `Coalescer`: one compute unit's path to the TCC. `Execute` and `Invalidate`
  are its wavefronts, `MakeRequest` and `CompleteIssue` the two stages of the
  coalescer, `LoadMiss` ... `Repl` the transitions of the TCP with the callbacks
  they make, `TCC` and `RemoteWrite` the memory behind it.
- `MessageBuffer`: one buffer, its producers, and the controller that consumes
  it: enqueue, dequeue, stall, reanalyze, recycle, delay, the wakeup list, and
  the clock.
- `MCCoherence`, `MCCompound`, `MCMessageBuffer`, `MCSequencer`,
  `MCCoalescer`: the same for TLC, with symmetry sets and the coalescer's kernel.
- `CoherenceTypes`, `CoherenceTransactions`, `CoherenceGrants`,
  `CoherenceProofs`: the coherence proofs, in this order. The directory's steps
  preserve the types; the steps that start a transaction and those of one under
  way preserve the invariant; so do the steps that end one and those of the
  caches; the types under the caches' steps, and the theorems.
- `MessageBufferSteps` and `MessageBufferProofs`, `SequencerRequests` and
  `SequencerProofs`: the proofs about those two modules, lemmas about the first
  group of steps, then the others and the theorems.

Definitions introduced by "Mutant" are deliberately wrong variants of the
definition that follows them (a dropped guard, a forgotten pop). No
specification uses them. Putting one in the place of its original must make TLC
report the property it is paired with in `PROJECT.json`.

### Abstractions

- Data: a line is a function from the words a run tells apart to a few values.
  An atomic replaces a word by a function of its operand and of the word it
  finds (`Functor`, an arbitrary constant of the right type; the runs use one
  that changes every value). It is performed once, by `wd_writeBackData`, on
  the directory's copy.
- L1 data of the CPU is never used by the protocol (every load takes the L2's
  copy) and is reduced to the set of valid tags.
- Requests of different cores reach the directory through one FIFO, since all
  links to it have the same constant latency. Probes, responses and unblocks
  are sets: they are delivered in any order.
- A stalled message keeps its arrival time, so waking puts it before later
  arrivals (`stalled \o reqs`); a recycled message goes to the end.
- `wakeUpBuffers` wakes only ports ranked below the one being served and erases
  the registry entry; `wakeUpAllBuffers` wakes all.
- The L2-to-L1 fill trigger (18 cycles) precedes the answer to a request that
  is issued after it, so the recycling of `NB_AckS` in `IF_*` and `F_S*`
  (`CorePair.sm:1927`) is not reached. `L3First` says that an L3 hit is seen before the last
  probe response, which the default latencies give (`BDR_M` has no transition
  for a later one).
- Undeclared (state, event) pairs, for which the generated controller panics,
  are the predicates `DirUndeclared`, `CPUndeclared`, `TCCUndeclared`.
- `CtoD`, `PrbInv` without data, `StaleVicDirty` and directory `WBAck` are sent
  by no controller of this build.
- The configuration enables `access_backing_store`, so that simulated programs
  take their values from a functional memory. Ruby's data blocks are maintained
  all the same; the data properties here are about those blocks.
- `Sequencer`: the simulator is single threaded, so nothing else happens while a
  callback runs (`cb`). Below it the L1 controller is a permission per line; data
  is reduced to who wrote the line since whom (`stale`, `broken`).
  `ReplaceLocked` says whether the L2 may evict a line a core has locked.
- `Coalescer`: a packet stands for the lanes of an instruction that fall in one
  line; the coalescing window is one instruction, as configured; the TCC and
  all behind it is one coherent copy per line, which is what `GPUCopyFresh` and
  `MemoryFresh` say of it. Refused invalidations are retried oldest first, one for
  each that ends: the others would be refused again. Contents are numbers of
  writes.
- `MessageBuffer`: time counts the clock edges of the consumer; arrival order is
  by time and counter, as in the heap. Random delays are off, as configured.

## What is checked

`PROJECT.json` lists every run with its properties.

| run | instance | distinct states | shows |
|---|---|---|---|
| `coherence` | a CorePair with all CPU requests, a TCC with reads, writes, atomics | 905,493 | the inductive invariant, single writer, GPU writes alone, victims racing probes, nothing stays stalled |
| `coherence_dma` | 2 CorePairs, DMA reads and writes, fair | 40,576 | declared events, cores and DMA are served |
| `compound_cpu` | 4 cores, LD ST IF, L2 replacement, fair | 96,274 | freshness, ownership, refinement, cores are served |
| `compound_dma` | 4 cores, LD ST, L1 and L2 replacement, DMA reads | 497,054 (up to symmetry) | fills against probes and write backs, DMA reads are current |
| `compound_words` | 1 CorePair with L2 replacement, 2 TCPs, two words, `useL3OnWT` | 1,225,681 (up to symmetry) | false sharing: no byte is lost, no stale copy; two misses on one line |
| `compound_gpu` | CPU stores, a TCP with read-modify-write atomics, both TCC modes, `useL3OnWT`, fair | 135,031 | memory current, declared events, refinement, TCPs are served |
| `message_buffer` | 3 slots, 2 lines, batches of 2, 5 messages, 4 clock edges | 655,489 (up to symmetry) | never overfull, no lost message or wakeup, order |
| `sequencer` | a core with two ports, all request types, 3 outstanding, fair | 162,470 | one request per line, LL/SC, retries and drains complete |
| `coalescer` | 2 wavefronts, 3 lines, two-block TCP, 3 instructions, fair | 474,798 | tokens, one request per line, store completion, acquire, all complete |

Three more runs (`dma_lost_wakeup`, `locked_rmw`, `lost_retry`) check one
property each that the code does not have; see Findings.

The properties, by the question they answer:

- *Who may hold the line?* `SWMR`, `OneOwner`, `GPUWriteAlone`.
- *Is a copy current?* `CPUCopiesFresh`, `GPUCopyFresh`, `MemoryFresh`,
  `DmaReadFresh`; at the compute unit `ReadsOwnWrites` and `AcquireQuiet`; for
  a store-conditional `MonitorSound`.
- *Is the bookkeeping exact?* `IInv`, `CoresAwaited`, `NothingStalledInU`,
  `OneRubyRequest`, `CountMatches`, `TokensMatch`, `OneIssued`,
  `WritesPromised`, `WithinSize`, `StalledAwaited`, `NoLostWakeup`, `InOrder`.
- *Can a controller meet an event it does not know?* `DirDeclared`,
  `AllDeclared` (which includes the type invariant of `Compound`).
- *Is everybody served?* `RequestsServed`, `DmaServed`, `CoresServed`,
  `TCPsServed`, `RefusedServed`, `ListsServed`, `DrainCompletes`,
  `InstsComplete`.
- *Do the detailed controllers keep the protocol's rules?* `Implements`.

### Bounds

Nothing in the code bounds the number of caches; two CorePairs (four cores)
give every two-party race, and the theorems cover any number for the
permissions. One TCC is exact, since a line maps to one slice. A cluster has one
request outstanding per line (the sequencer), a CorePair one request and one
victim, a TCP one load or atomic and one unacknowledged write-through (the
bound in `TCPIssue`; `writes` in `CoherenceProtocol`). One or two values
suffice for freshness, because a stale copy differs after one store; runs whose
question is about control use one value. Two words are used where bytes of
different writers meet. Symmetry is used in safety runs only.

`MessageBuffer`: four clock edges let a message arrive, be put aside, be woken
and meet a later one, with a full buffer on the way; the theorems remove the
bounds. `Sequencer`: three outstanding requests on one line give a list that
grows while it is walked, a refusal for the limit and one for a lock; different
lines meet only in the limit and the retry list, which the proofs cover for any
number of lines. `Coalescer`: with three instructions over three lines and
two blocks one waits for a slot, a line or a block, and the walk of an `INV_L1`
meets two blocks with accesses of the other wavefront between its evictions.

Left out of instances, and why:

- victims together with DMA where service is checked (finding 1;
  `compound_dma` has both and checks data), GPU writes together with DMA,
  instruction fetches together with L1 replacement (the disagreements listed
  below);
- DMA writes where `MemoryFresh` is checked, and two words in write-back mode
  (see the known limitations below);
- the two cores of a CorePair where `RefusedServed` is checked (findings 2 and 3), and `ReplaceLocked`, with which the model deadlocks as the code would;
- victims with abstract caches under fairness: an abstract cache may keep
  recycling victims as no CorePair does. `compound_cpu` has them.

### Fairness

A controller is woken whenever a message is ready and handles the head of each
port, so each kind of step is weakly fair, separately for each kind of message
and each receiver because each has its own buffer; the steps of the transaction
under way at the directory, of which there are finitely many, share one
condition. Starting a transaction is
strongly fair: the DMA port outranks the request port in the cycle in which the
line returns to `U`, but a DMA controller, having one request outstanding,
cannot win every such cycle. That argument needs a single DMA controller, and
the liveness runs have one. Requests, replacements and dropping a copy are not
fair.

`Sequencer`: a callback runs to its end, so its steps are weakly fair. `Hit` and
`Fill` of a line are strongly fair, because callbacks of other requests come in
between and the mandatory queue is served in order; that the directory answers
is `CoresServed`. A core that has read under lock writes: the microcode of a
locked instruction contains both. No other request of a core is fair.

`Coalescer`: address translations return, scheduled events run, and the TCP and
TCC take what is at the head of their queues. Wavefronts and other agents are not
fair. `MessageBuffer` has safety properties only; `NoLostWakeup` is the safety
property that justifies the weak fairness of the controllers.

## Findings

Each is shown by a run that is expected to be violated.

1. `dma_lost_wakeup`: `BL -> U` on `CPUData` uses `wakeUpBuffers`, which drops
   the registry entry of a stalled DMA request without waking it.
2. `locked_rmw`: a locked read-modify-write blocks all queues of the controller
   except the mandatory queue, which the two cores of a CorePair share. A store
   of the other core that is already in it lands between the read and the write.
3. `lost_retry`: a request refused because the *other* core of the CorePair has
   locked the line waits on the retry list of its own sequencer, which only
   answers to that sequencer's own requests walk. With nothing else outstanding
   the port is never told to retry.

Other disagreements met on the way are recorded as hazards in `PROJECT.json`,
with the instance that shows them:

- write-throughs and atomics have no transition in the DMA busy states
  (`DirDeclared`, a TCC that writes together with DMA reads);
- `(S_F, L1I_Repl)` is not declared (`AllDeclared`, fetches together with
  `"L1"` in `Repls`);
- an atomic is performed on the directory's copy and overwrites the dirty data
  its probe brought back, so a CPU store that was still in a cache is lost, to
  the atomic's word as to any other (`MemoryFresh` with `AtomicBase == golden`,
  in the instance of `compound_gpu`). `MemoryFresh` as stated takes what such an
  atomic leaves as the content of the line and checks everything else: that the
  result is computed once, from that copy, and reaches every later reader;
- a fill that is on its way when an `INV_L1` starts can leave a copy from before
  the acquire in the TCP, to be read by a later load (`AcquireQuiet` leaves out
  the lines in flight).

The last two concern Ruby's data blocks, which the backing store hides from
programs in this configuration. Known limitations that the model has too: the
data of a DMA write does not reach the directory entry; in write-back mode (off
by default) `WI -> I` wakes nothing, so `TCPsServed` is stated for write-through
mode, and `writeMask` survives the write back.

## What is proved

### Coherence

`CoherenceProofs`, with the three modules it extends, proves about
`CoherenceProtocol`, for any finite set of CorePairs, at most one TCC, any
TCPs, DMA controllers, words and values, and any mix of requests:

- `TypeCorrect`: `Spec => []TypeOK`
- `SingleWriter`: `Spec => []SWMR`
- `AcksCounted`: `Spec => []AcksAccounted`
- `GPUWritesAlone`: `Spec => GPUWriteAlone`
- `Invariance`: `Spec => []IInv`, on which the others rest.

The assumptions are `DirectoryAssumption` and `CoherenceAssumption`: finite sets
of caches, disjoint kinds of controllers, a single TCC, a total function for the
atomics, markers outside the sets they extend.

`SWMR` alone is not inductive: when the directory grants write permission,
nothing in it says that the other copies are gone. `IInv` adds, in this order
of need:

- `GrantInv`: a grant in flight is compatible with the copies there are, and
  at most one grant, unblock or `UnblockWriteThrough` is pending, in `B` only;
- `PermInv`: during a transaction a probed cache that is no longer waiting for
  its probe has lowered its permission, and a kept copy is recorded in its
  response or in `tbe.cached`;
- `AcksAccounted`: so `acks = 0` means that no probe is waiting;
- `TrigInv`: the completion trigger implies `acks = 0`;
- `TBEInv`: state, TBE and request kind agree.

One lemma per action and conjunct shows that each step preserves `IInv`; lemmas
about finite sets give the counting steps (a response received takes exactly one
element from `Pending`).

By `Implements`, checked by TLC on the instances of `compound_cpu` and
`compound_gpu`, what is proved about permissions carries over to the detailed
controllers there.

### Message buffers

`MessageBufferProofs` proves, for any lines, size, latencies and bounds,
`NeverOverfull` (`[]WithinSize`), `StalledAreAwaited` (`[]StalledAwaited`),
`WakeupsKept` (`[]NoLostWakeup` and `[]EventIsFirstTick`) and `OrderKept`
(`InOrder`) from `BufferSafe` (`[]IInv`), assuming only `ConstantsOK`.
`WithinSize` needs `SlotsSound`: what producers see is never less than what the
buffer holds, in a cycle with pops as in one without. `InOrder` needs
`MessagesSound`: keys tell messages apart, and a message that was not moved
keeps the time and counter it arrived with. `NoLostWakeup` needs
`EventIsFirstTick`, since a time in the list is of use only if the event is not
behind it.

### Sequencers

`SequencerProofs` proves, for any number of cores, lines and outstanding
requests, `OneIssuedPerLine` (`[]OneRubyRequest`), `MonitorsSound`
(`[]MonitorSound`), `ChecksArmed` (`[]DeadlockCheckArmed`) and `RefusedKept`
(`[]RefusedListed`) from `SequencerSafe` (`[]IInv`), assuming `ConstantsOK`.
The conjuncts of `IInv` need each other. The callback's loop takes the head of a
list, so even the types rest on `OneRubyRequest`, which says that the list being
walked is not empty. A retried port has a packet to send because of
`RefusedListed`. What the retry does to the tables is the same as for a new
request, so `recvTimingReq` has one lemma per conjunct, used for both.

### Model-checked only

All liveness (out of the prover's reach), data freshness, declared transitions,
the refinement, everything about `Coalescer`, and `CountMatches`, whose sum over
the lines needs an induction the prover cannot do.

## Not modelled

- The litmus programs. Their values come from the backing store, which an access
  reads or writes in its hit callback (`RubyPort.cc:544`), so an outcome depends
  on the waits the compiler inserts, on the load queue of the out-of-order CPU
  and on the order of address translations. What the tests need of the memory
  system is modelled and checked: stores are complete when the wavefront is told
  so (`WritesPromised`), an acquire drops old copies (`AcquireQuiet`), loads see
  the unit's own stores, the CPU side is coherent. The source variants for CTA
  scope and for broken SWMR are archives outside the build.
- The SQC (read only, never probed), `DMASequencer` (splits transfers into the
  single-line requests modelled), the region protocol (another build), routing
  in the network, the SLICC compiler.
- Of modelled parts: the TCP's `Bypass` and `Flush` (nobody issues them), the
  coalescer's deadlock check, draining, and windows above one, the sequencer's
  flushes, warm-up, pio port and functional accesses, random delays and
  functional accesses of message buffers.
- Hazards without a property (the lost store under an atomic, data of DMA
  writes, a locked line as L2 victim, fills in flight at an acquire, the early
  effect of GPU stores on the backing store) are listed in `PROJECT.json` with
  the reason.
