--------------------------- MODULE MessageBuffer ---------------------------
(***************************************************************************)
(* A message buffer (network/MessageBuffer.cc), the wakeup list of the     *)
(* controller that consumes it (common/Consumer.cc), and what the          *)
(* controller may do with the message at the head: take it, put it aside   *)
(* until its line is free (stall_and_wait, with AbstractController's       *)
(* waiting buffers), recycle it, delay it (block_on), or leave it there.   *)
(* A line becomes free through a response, which another in_port of the    *)
(* controller, with a higher rank, receives.                               *)
(*                                                                         *)
(* Time counts the controller's clock edges.  A message is a record: the   *)
(* number it was enqueued with first and its arrival time then (ghosts),   *)
(* whether it was recycled or delayed since (ghost), its line, and the     *)
(* time and the counter that order the heap.                               *)
(***************************************************************************)
EXTENDS Integers, FiniteSets

CONSTANTS
  Lines,            \* the lines messages are about
  MaxSize,          \* m_max_size: buffer_size, 0 for no limit
  Latencies,        \* the latencies messages are enqueued with
  RecycleLatency,   \* recycle_latency
  MaxBatch,         \* bound: messages one producer's transition enqueues
  MaxMsgs,          \* bound: messages enqueued or delayed
  MaxTime,          \* bound: clock edges simulated
  None              \* model value: m_wakeup_event is not scheduled

VARIABLES
  now,              \* curTick(), at clock edges
  heap,             \* m_prio_heap
  stalled,          \* m_stall_msg_map
  stallSize,        \* m_stall_map_size
  lastEnqueue,      \* m_time_last_time_enqueue
  lastPop,          \* m_time_last_time_pop
  sizeAtStart,      \* m_size_at_cycle_start
  stalledAtStart,   \* m_stalled_at_cycle_start
  msgsThisCycle,    \* m_msgs_this_cycle
  counter,          \* m_msg_counter
  ticks,            \* m_wakeup_ticks
  event,            \* when m_wakeup_event is scheduled for
  awake,            \* the controller is in its wakeup loop
  busy,             \* lines the controller has a transaction for
  responses,        \* responses for them in the other buffer
  waiting           \* m_waiting_buffers: lines with messages put aside

sizes == <<stallSize, lastEnqueue, lastPop, sizeAtStart, stalledAtStart,
           msgsThisCycle, counter>>
consumer == <<ticks, event, awake>>
control == <<busy, responses, waiting>>
vars == <<now, heap, stalled, sizes, consumer, control>>

ASSUME ConstantsOK ==
  /\ MaxSize \in Nat
  /\ Latencies \subseteq Nat \ {0}
  /\ RecycleLatency \in Nat \ {0}
  /\ MaxBatch \in Nat
  /\ MaxMsgs \in Nat
  /\ MaxTime \in Nat \ {0}
  /\ None \notin Nat

Message == [id : Nat, arrival : Nat, moved : BOOLEAN, line : Lines,
            time : Nat, count : Nat]

Init ==
  /\ now = 1
  /\ heap = {}
  /\ stalled = {}
  /\ stallSize = 0
  /\ lastEnqueue = 0
  /\ lastPop = 0
  /\ sizeAtStart = 0
  /\ stalledAtStart = 0
  /\ msgsThisCycle = 0
  /\ counter = 0
  /\ ticks = {}
  /\ event = None
  /\ awake = FALSE
  /\ busy = {}
  /\ responses = {}
  /\ waiting = {}

-----------------------------------------------------------------------------
(* The consumer's wakeups.                                                 *)

Earliest(T, t) == t \in T /\ \A u \in T : t <= u

\* scheduleNextWakeup with the ticks T: the first tick not in the past.
ScheduleNextWakeup(T) ==
  LET future == {t \in T : t >= now}
  IN \/ /\ future = {}
        /\ event' = event
     \/ \E when \in future :
          /\ Earliest(future, when)
          /\ event' = IF event = None \/ when < event THEN when ELSE event

\* scheduleEvent and scheduleEventAbsolute, for the times in T.
Schedule(T) ==
  /\ ticks' = ticks \cup T
  /\ ScheduleNextWakeup(ticks \cup T)

-----------------------------------------------------------------------------
(* The message buffer.                                                     *)

\* Mutant of Before: of two messages with one time the later comes first.
BeforeLIFO(m, k) == m.time < k.time \/ (m.time = k.time /\ m.count > k.count)

\* operator> on messages: the order of the heap.
Before(m, k) == m.time < k.time \/ (m.time = k.time /\ m.count < k.count)

IsFront(m) == m \in heap /\ \A k \in heap : k = m \/ Before(m, k)
IsReady(m) == IsFront(m) /\ m.time <= now

\* Mutant of VisibleSize: messages put aside do not count.
VisibleSizeHeapOnly ==
  IF lastPop < now
  THEN Cardinality(heap)
  ELSE IF lastEnqueue < now THEN sizeAtStart ELSE sizeAtStart + msgsThisCycle

\* What the producers see: pops of this cycle do not count yet, enqueues do.
VisibleSize ==
  IF lastPop < now
  THEN Cardinality(heap) + stallSize
  ELSE (IF lastEnqueue < now THEN sizeAtStart ELSE sizeAtStart + msgsThisCycle)
         + stalledAtStart

AreNSlotsAvailable(n) == MaxSize = 0 \/ VisibleSize + n <= MaxSize

\* enqueue's bookkeeping for n messages.
CountEnqueues(n) ==
  /\ lastEnqueue' = now
  /\ msgsThisCycle' = (IF lastEnqueue < now THEN 0 ELSE msgsThisCycle) + n
  /\ counter' = counter + n

\* dequeue: the head leaves the heap.
Dequeue(m) ==
  /\ heap' = heap \ {m}
  /\ lastPop' = now
  /\ IF lastPop < now
     THEN sizeAtStart' = Cardinality(heap) /\ stalledAtStart' = stallSize
     ELSE UNCHANGED <<sizeAtStart, stalledAtStart>>

-----------------------------------------------------------------------------
(* Producers.                                                              *)

NewMessage(c, line, time) ==
  [id |-> c, arrival |-> time, moved |-> FALSE, line |-> line, time |-> time,
   count |-> c]

\* A transition of a producer: it runs when there are slots for all the
\* messages it enqueues, and enqueues them in the same cycle.
Produce(n, line, latency) ==
  /\ AreNSlotsAvailable(n)
  /\ counter + n <= MaxMsgs
  /\ heap' = heap \cup {NewMessage(counter + i, line, now + latency) : i \in 1 .. n}
  /\ CountEnqueues(n)
  /\ Schedule({now + latency})
  /\ UNCHANGED <<now, stalled, stallSize, lastPop, sizeAtStart, stalledAtStart,
                 awake, control>>

\* The transaction of a line is over: its response is enqueued elsewhere.
Respond(l) ==
  /\ l \in busy
  /\ ~ \E r \in responses : r.line = l
  /\ responses' = responses \cup {[line |-> l, time |-> now + 1]}
  /\ Schedule({now + 1})
  /\ UNCHANGED <<now, heap, stalled, sizes, awake, busy, waiting>>

-----------------------------------------------------------------------------
(* The controller's wakeup loop.                                           *)

\* processCurrentEvent: the first tick is taken off the list.
WakeUp ==
  /\ event = now
  /\ ~awake
  /\ \E t \in ticks : Earliest(ticks, t) /\ ticks' = ticks \ {t}
  /\ event' = None
  /\ awake' = TRUE
  /\ UNCHANGED <<now, heap, stalled, sizes, control>>

ResponseReady == \E r \in responses : r.time <= now

\* The response's transition frees the line and ends in wakeUpBuffers, whose
\* reanalyzeMessages puts the line's messages back and schedules a wakeup.
Free(r) ==
  LET back == {m \in stalled : m.line = r.line}
  IN /\ awake
     /\ r.time <= now
     /\ responses' = responses \ {r}
     /\ busy' = busy \ {r.line}
     /\ waiting' = waiting \ {r.line}
     /\ IF r.line \in waiting
        THEN /\ stallSize' = stallSize - Cardinality(back)
             /\ heap' = heap \cup back
             /\ stalled' = stalled \ back
             /\ Schedule({now})
        ELSE UNCHANGED <<stallSize, heap, stalled, ticks, event>>
     /\ UNCHANGED <<now, lastEnqueue, lastPop, sizeAtStart, stalledAtStart,
                    msgsThisCycle, counter, awake>>

\* What the loop looks at next: the head, when the other in_port has nothing.
Examine(m) == awake /\ ~ResponseReady /\ IsReady(m)

\* A message for a free line is taken, and may start a transaction.
Take(m) ==
  /\ Examine(m)
  /\ m.line \notin busy
  /\ Dequeue(m)
  /\ busy' \in {busy, busy \cup {m.line}}
  /\ UNCHANGED <<now, stalled, stallSize, lastEnqueue, msgsThisCycle, counter,
                 consumer, responses, waiting>>

\* Mutant of StallMessage: the size of the map is not maintained.
StallMessageUncounted(m) ==
  /\ Examine(m)
  /\ m.line \in busy
  /\ Dequeue(m)
  /\ stalled' = stalled \cup {m}
  /\ waiting' = waiting \cup {m.line}
  /\ UNCHANGED <<now, stallSize, lastEnqueue, msgsThisCycle, counter, consumer,
                 busy, responses>>

\* stall_and_wait: stallBuffer and stallMessage.
StallMessage(m) ==
  /\ Examine(m)
  /\ m.line \in busy
  /\ Dequeue(m)
  /\ stalled' = stalled \cup {m}
  /\ stallSize' = stallSize + 1
  /\ waiting' = waiting \cup {m.line}
  /\ UNCHANGED <<now, lastEnqueue, msgsThisCycle, counter, consumer, busy,
                 responses>>

\* recycle: the head moves to a later time, with the same counter.
Recycle(m) ==
  /\ Examine(m)
  /\ m.line \in busy
  /\ heap' = (heap \ {m}) \cup
       {[m EXCEPT !.time = now + RecycleLatency, !.moved = TRUE]}
  /\ Schedule({now + RecycleLatency})
  /\ UNCHANGED <<now, stalled, sizes, awake, control>>

\* delayHead, for a line that block_on holds back: popped without a trace and
\* enqueued again.
DelayHead(m) ==
  /\ Examine(m)
  /\ m.line \in busy
  /\ counter < MaxMsgs
  /\ heap' = (heap \ {m}) \cup
       {[m EXCEPT !.time = now + 1, !.count = counter + 1, !.moved = TRUE]}
  /\ CountEnqueues(1)
  /\ Schedule({now + 1})
  /\ UNCHANGED <<now, stalled, stallSize, lastPop, sizeAtStart, stalledAtStart,
                 awake, control>>

\* The loop ends: nothing is ready, or the head is left there for its line.
Sleep ==
  /\ awake
  /\ ~ResponseReady
  /\ \A m \in heap : IsReady(m) => m.line \in busy
  /\ awake' = FALSE
  /\ ScheduleNextWakeup(ticks)
  /\ UNCHANGED <<now, heap, stalled, sizes, ticks, control>>

\* Mutant of OutOfTransitions: no wakeup is scheduled for the rest.
OutOfTransitionsForgets ==
  /\ awake
  /\ awake' = FALSE
  /\ ScheduleNextWakeup(ticks)
  /\ UNCHANGED <<now, heap, stalled, sizes, ticks, control>>

\* The loop ends: transitions_per_cycle are done, the rest is for the next.
OutOfTransitions ==
  /\ awake
  /\ awake' = FALSE
  /\ Schedule({now + 1})
  /\ UNCHANGED <<now, heap, stalled, sizes, control>>

\* The next clock edge, once the events of this one have run.
ClockEdge ==
  /\ ~awake
  /\ event # now
  /\ now < MaxTime
  /\ now' = now + 1
  /\ UNCHANGED <<heap, stalled, sizes, consumer, control>>

\* The end of the simulation.
Exit == now = MaxTime /\ UNCHANGED vars

Next ==
  \/ \E n \in 1 .. MaxBatch, l \in Lines, d \in Latencies : Produce(n, l, d)
  \/ \E l \in Lines : Respond(l)
  \/ WakeUp
  \/ \E r \in responses : Free(r)
  \/ \E m \in heap : Take(m)
  \/ \E m \in heap : StallMessage(m)
  \/ \E m \in heap : Recycle(m)
  \/ \E m \in heap : DelayHead(m)
  \/ Sleep
  \/ OutOfTransitions
  \/ ClockEdge
  \/ Exit

Spec == Init /\ [][Next]_vars

-----------------------------------------------------------------------------
TypeOK ==
  /\ now \in Nat
  /\ heap \subseteq Message
  /\ stalled \subseteq Message
  /\ stallSize \in Nat /\ lastEnqueue \in Nat /\ lastPop \in Nat
  /\ sizeAtStart \in Nat /\ stalledAtStart \in Nat
  /\ msgsThisCycle \in Nat /\ counter \in Nat
  /\ ticks \subseteq Nat
  /\ event \in Nat \cup {None}
  /\ awake \in BOOLEAN
  /\ busy \subseteq Lines
  /\ responses \subseteq [line : Lines, time : Nat]
  /\ waiting \subseteq Lines

\* A producer that finds its slots may use them: enqueue's assertion that the
\* heap and the messages put aside stay within the buffer's size holds,
\* whatever was popped, put aside, put back or delayed in the same cycle.
WithinSize == MaxSize = 0 \/ Cardinality(heap) + stallSize <= MaxSize

\* A message put aside is the business of a transaction that will wake it,
\* and is known to wakeUpBuffers, whose reanalyzeMessages asserts that it is
\* there; the size that is maintained is that of the map.  It is put back for
\* the current cycle, which is not before its arrival (reanalyzeList).
StalledAwaited ==
  /\ waiting = {m.line : m \in stalled}
  /\ waiting \subseteq busy
  /\ stallSize = Cardinality(stalled)
  /\ heap \cap stalled = {}
  /\ \A m \in stalled : m.time <= now

\* processCurrentEvent's assertion: the event is scheduled for the first of
\* the ticks, none of which has passed.
EventIsFirstTick ==
  /\ \A t \in ticks : t >= now
  /\ event # None => Earliest(ticks, event)
  /\ ~awake /\ ticks # {} => event # None

\* No message is forgotten in the heap: while the controller sleeps there is a
\* wakeup for every message still to arrive and one, now or at the next edge,
\* for a head that is ready, unless the head waits for its line.
NoLostWakeup ==
  /\ \A m \in heap : m.time > now => m.time \in ticks
  /\ \A m \in heap : ~awake /\ IsReady(m) /\ m.line \notin busy
       => now \in ticks \/ now + 1 \in ticks

Precedes(k, m) ==
  k.arrival < m.arrival \/ (k.arrival = m.arrival /\ k.id < m.id)

TakenInOrder ==
  \A m \in heap :
    (~ \E k \in heap' \cup stalled' : k.id = m.id) =>
      \A k \in heap \cup stalled : k.line = m.line /\ Precedes(k, m) => k.moved

\* Messages about a line are taken in the order they arrived in, also when
\* they were put aside in between (reanalyzeMessages: "the previously stalled
\* messages will be observed before any younger messages"), unless an older
\* one was recycled or delayed.
InOrder == [][TakenInOrder]_vars

-----------------------------------------------------------------------------
(* The inductive invariant.                                                *)

\* What the producers see is never less than what the buffer holds.
SlotsSound ==
  /\ lastPop <= now /\ lastEnqueue <= now
  /\ Cardinality(heap) + stallSize <= VisibleSize

\* Counters tell messages apart, and moving a message only puts it off.
MessagesSound ==
  /\ \A m \in heap \cup stalled :
       /\ m.count <= counter /\ m.id <= m.count /\ m.arrival <= m.time
       /\ ~m.moved => m.time = m.arrival /\ m.count = m.id
  /\ \A m, k \in heap \cup stalled : m.count = k.count => m = k

\* The properties above, with the two facts that make them inductive: the
\* slot accounting of a cycle in which messages were popped, and the order
\* and uniqueness of the heap's keys.
IInv ==
  /\ TypeOK
  /\ IsFiniteSet(heap) /\ IsFiniteSet(stalled)
  /\ WithinSize
  /\ StalledAwaited
  /\ SlotsSound
  /\ MessagesSound
  /\ EventIsFirstTick
  /\ NoLostWakeup
=============================================================================
