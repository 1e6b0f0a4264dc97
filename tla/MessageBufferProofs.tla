------------------------ MODULE MessageBufferProofs ------------------------
(***************************************************************************)
(* The properties of MessageBuffer for every size, latency and bound: the  *)
(* other steps preserve the inductive invariant, and what follows from it. *)
(***************************************************************************)
EXTENDS MessageBufferSteps

(* A message that is moved within the heap to x, later than it was: the    *)
(* heap does not grow, and x is told from the others by its counter.       *)
LEMMA MovedFact ==
  ASSUME IInv, NEW m \in heap, NEW x \in Message, heap' = (heap \ {m}) \cup {x},
         stalled' = stalled, counter' \in Nat, counter <= counter',
         x.count <= counter', x.id <= x.count, x.arrival <= x.time, x.moved,
         x.count = m.count \/ x.count > counter
  PROVE  /\ IsFiniteSet(heap') /\ heap' \subseteq Message
         /\ Cardinality(heap') \in Nat /\ Cardinality(heap) \in Nat
         /\ Cardinality(heap') <= Cardinality(heap)
         /\ MessagesSound' /\ heap' \cap stalled' = {}
<1>1. /\ IsFiniteSet(heap \ {m}) /\ Cardinality(heap \ {m}) = Cardinality(heap) - 1
      /\ Cardinality(heap) \in Nat /\ Cardinality(heap \ {m}) \in Nat
  BY FS_RemoveElement, FS_CardinalityType DEF IInv
<1>2. /\ IsFiniteSet(heap')
      /\ Cardinality(heap') \in Nat /\ Cardinality(heap') <= Cardinality(heap)
  <2> DEFINE H == heap \ {m}
  <2>1. IsFiniteSet(H) /\ Cardinality(H) = Cardinality(heap) - 1
    BY <1>1
  <2> HIDE DEF H
  <2>2. /\ IsFiniteSet(H \cup {x})
        /\ Cardinality(H \cup {x}) = IF x \in H THEN Cardinality(H) ELSE Cardinality(H) + 1
    BY <2>1, FS_AddElement, Zenon
  <2>3. heap' = H \cup {x}
    BY DEF H
  <2>4. \/ Cardinality(heap') = Cardinality(heap) - 1
        \/ Cardinality(heap') = (Cardinality(heap) - 1) + 1
    BY <2>1, <2>2, <2>3, Zenon
  <2>5. IsFiniteSet(heap')
    BY <2>2, <2>3, Zenon
  <2> QED BY <1>1, <2>4, <2>5, NatSum, FS_CardinalityType, Zenon
<1>3. \A k \in heap \cup stalled : k.count <= counter /\ k.count \in Nat /\ (k.count = m.count => k = m)
  BY DEF IInv, MessagesSound, TypeOK, Message
<1>4. \A k \in (heap \ {m}) \cup stalled : k.count # x.count
  <2> TAKE k \in (heap \ {m}) \cup stalled
  <2>1. k # m
    BY DEF IInv, StalledAwaited
  <2> QED BY <1>3, <2>1 DEF IInv, TypeOK, Message
<1>5. heap' \cap stalled' = {}
  BY <1>4 DEF IInv, StalledAwaited
<1>6. \A k \in heap' \cup stalled' :
        /\ k.count <= counter' /\ k.id <= k.count /\ k.arrival <= k.time
        /\ ~k.moved => k.time = k.arrival /\ k.count = k.id
  BY <1>3 DEF IInv, MessagesSound, TypeOK
<1>7. \A j, k \in heap' \cup stalled' : j.count = k.count => j = k
  BY <1>4 DEF IInv, MessagesSound
<1>8. heap' \subseteq Message
  BY DEF IInv, TypeOK
<1> QED BY <1>1, <1>2, <1>5, <1>6, <1>7, <1>8 DEF MessagesSound

LEMMA RecycleStep ==
  ASSUME IInv, NEW m \in heap, Recycle(m)
  PROVE  IInv'
<1> DEFINE t == now + RecycleLatency
           x == [m EXCEPT !.time = t, !.moved = TRUE]
<1>0. /\ awake /\ awake' = awake /\ now' = now /\ stalled' = stalled
      /\ UNCHANGED <<stallSize, lastEnqueue, lastPop, sizeAtStart, stalledAtStart,
                     msgsThisCycle, counter, busy, responses, waiting>>
      /\ m.time <= now /\ t \in Nat /\ t >= now /\ t > now /\ Schedule({t})
      /\ heap' = (heap \ {m}) \cup {x} /\ now \in Nat /\ counter \in Nat
  BY ConstantsOK DEF Recycle, Examine, IsReady, sizes, control, IInv, TypeOK
<1>1. /\ m \in Message /\ m.count <= counter /\ m.id <= m.count /\ m.arrival <= m.time
  BY DEF IInv, TypeOK, MessagesSound
<1>2. /\ x \in Message /\ x.time = t /\ x.count = m.count /\ x.id = m.id
      /\ x.arrival = m.arrival /\ x.moved = TRUE
  BY <1>0, <1>1, Zenon DEF Message
<1> HIDE DEF x, t
<1>3. x.arrival <= x.time
  BY <1>0, <1>1, <1>2 DEF Message
<1>4. /\ IsFiniteSet(heap') /\ heap' \subseteq Message
      /\ Cardinality(heap') \in Nat /\ Cardinality(heap) \in Nat
      /\ Cardinality(heap') <= Cardinality(heap)
      /\ MessagesSound' /\ heap' \cap stalled' = {}
  BY <1>0, <1>1, <1>2, <1>3, MovedFact, SMTT(30)
<1>5. /\ ticks' = ticks \cup {t} /\ event' \in Nat \cup {None} /\ EventIsFirstTick'
  BY <1>0, ScheduleSoon DEF EventIsFirstTick
<1>6. TypeOK'
  BY <1>0, <1>4, <1>5 DEF IInv, TypeOK
<1>7. WithinSize' /\ SlotsSound'
  BY <1>0, <1>4, ConstantsOK DEF IInv, TypeOK, WithinSize, SlotsSound, VisibleSize
<1>8. StalledAwaited'
  BY <1>0, <1>4 DEF IInv, StalledAwaited
<1>9. NoLostWakeup'
  BY <1>0, <1>2, <1>5 DEF IInv, NoLostWakeup
<1> QED BY <1>0, <1>4, <1>5, <1>6, <1>7, <1>8, <1>9 DEF IInv

LEMMA DelayHeadStep ==
  ASSUME IInv, NEW m \in heap, DelayHead(m)
  PROVE  IInv'
<1> DEFINE t == now + 1
           c == counter + 1
           x == [m EXCEPT !.time = t, !.count = c, !.moved = TRUE]
<1>0. /\ awake /\ awake' = awake /\ now' = now /\ stalled' = stalled
      /\ UNCHANGED <<stallSize, lastPop, sizeAtStart, stalledAtStart, busy, responses, waiting>>
      /\ m.time <= now /\ t \in Nat /\ t >= now /\ t > now /\ Schedule({t})
      /\ heap' = (heap \ {m}) \cup {x} /\ now \in Nat /\ counter \in Nat
      /\ counter' = counter + 1 /\ lastEnqueue' = now
      /\ msgsThisCycle' = (IF lastEnqueue < now THEN 0 ELSE msgsThisCycle) + 1
  BY DEF DelayHead, CountEnqueues, Examine, IsReady, control, IInv, TypeOK
<1>1. /\ m \in Message /\ m.count <= counter /\ m.id <= m.count /\ m.arrival <= m.time
  BY DEF IInv, TypeOK, MessagesSound
<1>2. /\ x \in Message /\ x.time = t /\ x.count = c /\ x.id = m.id
      /\ x.arrival = m.arrival /\ x.moved = TRUE
  <2>1. c \in Nat
    BY <1>0
  <2> HIDE DEF t, c
  <2> QED BY <1>0, <1>1, <2>1, Zenon DEF Message
<1> HIDE DEF x, t
<1>3. x.arrival <= x.time /\ x.id <= x.count /\ x.count > counter /\ counter <= counter'
      /\ counter' \in Nat /\ x.count <= counter'
  BY <1>0, <1>1, <1>2 DEF Message
<1>4. /\ IsFiniteSet(heap') /\ heap' \subseteq Message
      /\ Cardinality(heap') \in Nat /\ Cardinality(heap) \in Nat
      /\ Cardinality(heap') <= Cardinality(heap)
      /\ MessagesSound' /\ heap' \cap stalled' = {}
  BY <1>0, <1>1, <1>2, <1>3, MovedFact
<1>5. /\ ticks' = ticks \cup {t} /\ event' \in Nat \cup {None} /\ EventIsFirstTick'
  BY <1>0, ScheduleSoon DEF EventIsFirstTick
<1>6. TypeOK'
  BY <1>0, <1>4, <1>5 DEF IInv, TypeOK
<1>7. WithinSize' /\ SlotsSound'
  BY <1>0, <1>4, ConstantsOK DEF IInv, TypeOK, WithinSize, SlotsSound, VisibleSize
<1>8. StalledAwaited'
  BY <1>0, <1>4 DEF IInv, StalledAwaited
<1>9. NoLostWakeup'
  BY <1>0, <1>2, <1>5 DEF IInv, NoLostWakeup
<1> QED BY <1>0, <1>4, <1>5, <1>6, <1>7, <1>8, <1>9 DEF IInv

(* When the loop ends the head is for a busy line, if it is ready at all.  *)
LEMMA SleepStep ==
  ASSUME IInv, Sleep
  PROVE  IInv'
<1>0. /\ UNCHANGED <<now, heap, stalled, stallSize, lastEnqueue, lastPop, sizeAtStart,
                     stalledAtStart, msgsThisCycle, counter, ticks, busy, responses, waiting>>
      /\ awake' = FALSE /\ ScheduleNextWakeup(ticks)
      /\ \A m \in heap : IsReady(m) => m.line \in busy
  BY DEF Sleep, sizes, control
<1>1. ticks \cup {} = ticks /\ {} \in SUBSET Nat /\ (\A t \in {} : t >= now)
  OBVIOUS
<1>2. ScheduleNextWakeup(ticks \cup {}) /\ TypeOK /\ EventIsFirstTick
  BY <1>0, <1>1 DEF IInv
<1>3. /\ event' \in Nat \cup {None}
      /\ \A t \in ticks \cup {} : t >= now
      /\ event' # None => Earliest(ticks \cup {}, event')
      /\ ticks \cup {} # {} => event' # None
  BY <1>1, <1>2, ScheduleFact, Zenon
<1>4. EventIsFirstTick'
  BY <1>0, <1>1, <1>3 DEF EventIsFirstTick, Earliest
<1>5. TypeOK'
  BY <1>0, <1>3, Zenon DEF IInv, TypeOK
<1>6. WithinSize' /\ SlotsSound' /\ MessagesSound' /\ StalledAwaited'
      /\ IsFiniteSet(heap') /\ IsFiniteSet(stalled')
  BY <1>0 DEF IInv, WithinSize, SlotsSound, VisibleSize, MessagesSound, StalledAwaited
<1>7. NoLostWakeup'
  BY <1>0 DEF IInv, NoLostWakeup, IsReady, IsFront
<1> QED BY <1>4, <1>5, <1>6, <1>7 DEF IInv

LEMMA OutOfTransitionsStep ==
  ASSUME IInv, OutOfTransitions
  PROVE  IInv'
<1>0. /\ UNCHANGED <<now, heap, stalled, stallSize, lastEnqueue, lastPop, sizeAtStart,
                     stalledAtStart, msgsThisCycle, counter, busy, responses, waiting>>
      /\ awake' = FALSE /\ Schedule({now + 1}) /\ now + 1 \in Nat /\ now + 1 >= now
  BY DEF OutOfTransitions, sizes, control, IInv, TypeOK
<1>1. /\ ticks' = ticks \cup {now + 1}
      /\ event' \in Nat \cup {None} /\ event' # None
      /\ \A u \in ticks' : u >= now
      /\ event' # None => Earliest(ticks', event')
  BY <1>0, ScheduleSoon
<1>2. EventIsFirstTick'
  BY <1>0, <1>1 DEF EventIsFirstTick
<1>3. TypeOK'
  BY <1>0, <1>1, Zenon DEF IInv, TypeOK
<1>4. WithinSize' /\ SlotsSound' /\ MessagesSound' /\ StalledAwaited'
      /\ IsFiniteSet(heap') /\ IsFiniteSet(stalled')
  BY <1>0 DEF IInv, WithinSize, SlotsSound, VisibleSize, MessagesSound, StalledAwaited
<1>5. NoLostWakeup'
  BY <1>0, <1>1 DEF IInv, NoLostWakeup
<1> QED BY <1>2, <1>3, <1>4, <1>5 DEF IInv

(* The clock moves on only past an edge with no wakeup left, so that a     *)
(* message ready at the old edge had its wakeup moved to the new one.      *)
LEMMA ClockEdgeStep ==
  ASSUME IInv, ClockEdge
  PROVE  IInv'
<1>0. /\ UNCHANGED <<heap, stalled, stallSize, lastEnqueue, lastPop, sizeAtStart, stalledAtStart,
                     msgsThisCycle, counter, ticks, event, awake, busy, responses, waiting>>
      /\ now' = now + 1 /\ ~awake /\ event # now /\ now \in Nat
  BY DEF ClockEdge, sizes, consumer, control, IInv, TypeOK
<1>1. now \notin ticks
  <2> SUFFICES ASSUME now \in ticks PROVE FALSE
    OBVIOUS
  <2>1. event \in ticks /\ event <= now /\ event >= now /\ event \in Nat
    BY <1>0 DEF IInv, TypeOK, EventIsFirstTick, Earliest
  <2> QED BY <1>0, <2>1
<1>2. \A t \in ticks : t >= now + 1
  BY <1>0, <1>1 DEF IInv, TypeOK, EventIsFirstTick
<1>3. EventIsFirstTick'
  BY <1>0, <1>2 DEF IInv, EventIsFirstTick
<1>4. TypeOK'
  BY <1>0 DEF IInv, TypeOK
<1>5. WithinSize' /\ MessagesSound' /\ IsFiniteSet(heap') /\ IsFiniteSet(stalled')
  BY <1>0 DEF IInv, WithinSize, MessagesSound
<1>6. SlotsSound'
  <2>1. /\ lastPop < now + 1 /\ lastPop <= now + 1 /\ lastEnqueue <= now + 1
        /\ Cardinality(heap) \in Nat /\ stallSize \in Nat
    BY <1>0, FS_CardinalityType DEF IInv, TypeOK, SlotsSound
  <2> QED BY <1>0, <2>1 DEF SlotsSound, VisibleSize
<1>7. StalledAwaited'
  <2>1. \A m \in stalled : m.time <= now + 1
    BY <1>0 DEF IInv, StalledAwaited, TypeOK, Message
  <2> QED BY <1>0, <2>1 DEF IInv, StalledAwaited
<1>8. NoLostWakeup'
  <2>1. \A m \in heap : m.time \in Nat
    BY DEF IInv, TypeOK, Message
  <2>2. \A m \in heap : m.time > now + 1 => m.time \in ticks
    BY <1>0, <2>1 DEF IInv, NoLostWakeup
  <2>3. ASSUME NEW m \in heap, m.time <= now + 1, IsFront(m), m.line \notin busy
        PROVE  now + 1 \in ticks
    <3>1. CASE m.time <= now
      BY <1>0, <1>1, <2>3, <3>1 DEF IInv, NoLostWakeup, IsReady
    <3>2. CASE ~(m.time <= now)
      BY <1>0, <2>1, <2>3, <3>2 DEF IInv, NoLostWakeup
    <3> QED BY <3>1, <3>2
  <2> QED BY <1>0, <2>2, <2>3 DEF NoLostWakeup, IsReady, IsFront
<1> QED BY <1>3, <1>4, <1>5, <1>6, <1>7, <1>8 DEF IInv

LEMMA InitStep ==
  ASSUME Init
  PROVE  IInv
<1>1. IsFiniteSet(heap) /\ Cardinality(heap) = 0 /\ IsFiniteSet(stalled) /\ Cardinality(stalled) = 0
  BY FS_EmptySet DEF Init
<1>2. TypeOK /\ WithinSize /\ SlotsSound
  <2>1. TypeOK
    BY ConstantsOK, Zenon DEF Init, TypeOK
  <2>2. heap = {} /\ stallSize = 0 /\ now = 1 /\ lastPop = 0 /\ lastEnqueue = 0
    BY DEF Init
  <2> QED BY <1>1, <2>1, <2>2, ConstantsOK DEF WithinSize, SlotsSound, VisibleSize
<1>3. StalledAwaited /\ MessagesSound /\ EventIsFirstTick /\ NoLostWakeup
  BY <1>1 DEF Init, StalledAwaited, MessagesSound, EventIsFirstTick, NoLostWakeup
<1> QED BY <1>1, <1>2, <1>3 DEF IInv

LEMMA StutterStep ==
  ASSUME IInv, UNCHANGED vars
  PROVE  IInv'
BY DEF vars, sizes, consumer, control, IInv, TypeOK, WithinSize, StalledAwaited, SlotsSound,
       VisibleSize, MessagesSound, EventIsFirstTick, NoLostWakeup, IsReady, IsFront

LEMMA NextStep ==
  ASSUME IInv, [Next]_vars
  PROVE  IInv'
<1>1. CASE \E n \in 1 .. MaxBatch, l \in Lines, d \in Latencies : Produce(n, l, d)
  BY <1>1, ProduceStep
<1>2. CASE \E l \in Lines : Respond(l)
  BY <1>2, RespondStep
<1>3. CASE WakeUp
  BY <1>3, WakeUpStep
<1>4. CASE \E r \in responses : Free(r)
  BY <1>4, FreeStep
<1>5. CASE \E m \in heap : Take(m)
  BY <1>5, TakeStep
<1>6. CASE \E m \in heap : StallMessage(m)
  BY <1>6, StallMessageStep
<1>7. CASE \E m \in heap : Recycle(m)
  BY <1>7, RecycleStep
<1>8. CASE \E m \in heap : DelayHead(m)
  BY <1>8, DelayHeadStep
<1>9. CASE Sleep \/ OutOfTransitions \/ ClockEdge
  BY <1>9, SleepStep, OutOfTransitionsStep, ClockEdgeStep
<1>10. CASE Exit \/ UNCHANGED vars
  BY <1>10, StutterStep DEF Exit
<1> QED BY <1>1, <1>2, <1>3, <1>4, <1>5, <1>6, <1>7, <1>8, <1>9, <1>10 DEF Next

(* Only Take removes a message, and it takes the head: an older message of *)
(* the line would come before it in the heap, or be put aside, and then    *)
(* the line would be busy.                                                 *)
LEMMA TakeInOrder ==
  ASSUME IInv, NEW m \in heap, Take(m)
  PROVE  TakenInOrder
<1>1. heap' = heap \ {m} /\ stalled' = stalled /\ IsFront(m) /\ m.line \notin busy
  BY DEF Take, Dequeue, Examine, IsReady
<1>2. SUFFICES ASSUME NEW k \in heap \cup stalled, k.line = m.line, Precedes(k, m)
               PROVE  k.moved
  BY <1>1 DEF TakenInOrder
<1>3. /\ m.time \in Nat /\ m.count \in Nat /\ m.id \in Nat /\ m.arrival \in Nat
      /\ k.time \in Nat /\ k.count \in Nat /\ k.id \in Nat /\ k.arrival \in Nat
  BY DEF IInv, TypeOK, Message
<1>4. /\ m.id <= m.count /\ m.arrival <= m.time
      /\ ~k.moved => k.time = k.arrival /\ k.count = k.id
  BY DEF IInv, MessagesSound
<1>5. CASE k \in stalled
  BY <1>1, <1>2, <1>5 DEF IInv, StalledAwaited
<1>6. CASE k \in heap
  <2>1. k # m
    BY <1>2, <1>3 DEF Precedes
  <2>2. Before(m, k)
    BY <1>1, <1>6, <2>1 DEF IsFront
  <2> QED BY <1>2, <1>3, <1>4, <2>2 DEF Precedes, Before
<1> QED BY <1>5, <1>6

LEMMA OrderStep ==
  ASSUME IInv, Next
  PROVE  TakenInOrder
<1>1. CASE \E m \in heap : Take(m)
  BY <1>1, TakeInOrder
<1>2. CASE \E m \in heap : Recycle(m) \/ DelayHead(m)
  <2>1. PICK m \in heap : Recycle(m) \/ DelayHead(m)
    BY <1>2
  <2>2. m \in Message
    BY DEF IInv, TypeOK
  <2>3. \E x \in heap' : x.id = m.id
    <3>1. CASE Recycle(m)
      <4> DEFINE t == now + RecycleLatency
                 x == [m EXCEPT !.time = t, !.moved = TRUE]
      <4>1. x \in heap'
        BY <3>1 DEF Recycle
      <4>2. x.id = m.id
        BY <2>2 DEF Message
      <4> QED BY <4>1, <4>2, Zenon
    <3>2. CASE DelayHead(m)
      <4> DEFINE t == now + 1
                 c == counter + 1
                 x == [m EXCEPT !.time = t, !.count = c, !.moved = TRUE]
      <4>1. x \in heap'
        BY <3>2 DEF DelayHead
      <4>2. x.id = m.id
        BY <2>2 DEF Message
      <4> QED BY <4>1, <4>2, Zenon
    <3> QED BY <2>1, <3>1, <3>2
  <2>4. heap \ {m} \subseteq heap'
    BY <2>1 DEF Recycle, DelayHead
  <2> QED BY <2>3, <2>4 DEF TakenInOrder
<1>3. CASE heap \subseteq heap' \cup stalled'
  BY <1>3 DEF TakenInOrder
<1>4. ASSUME ~ \E m \in heap : Take(m), ~ \E m \in heap : Recycle(m) \/ DelayHead(m)
      PROVE  heap \subseteq heap' \cup stalled'
  <2>1. CASE \E n \in 1 .. MaxBatch, l \in Lines, d \in Latencies : Produce(n, l, d)
    BY <2>1 DEF Produce
  <2>2. CASE \E l \in Lines : Respond(l)
    BY <2>2 DEF Respond
  <2>3. CASE \E r \in responses : Free(r)
    BY <2>3 DEF Free
  <2>4. CASE \E m \in heap : StallMessage(m)
    BY <2>4 DEF StallMessage, Dequeue
  <2>5. CASE WakeUp \/ Sleep \/ OutOfTransitions \/ ClockEdge \/ Exit
    BY <2>5 DEF WakeUp, Sleep, OutOfTransitions, ClockEdge, Exit, vars
  <2> QED BY <1>4, <2>1, <2>2, <2>3, <2>4, <2>5 DEF Next
<1> QED BY <1>1, <1>2, <1>3, <1>4

(* The inductive invariant holds for every number of lines, buffer size,   *)
(* set of latencies and recycle latency: it is what MessageBuffer.cc and   *)
(* Consumer.cc maintain between two events.                                *)
THEOREM BufferSafe == Spec => []IInv
<1>1. Init => IInv
  BY InitStep
<1>2. IInv /\ [Next]_vars => IInv'
  BY NextStep
<1> QED BY <1>1, <1>2, PTL DEF Spec

(* enqueue's assertion on m_max_size never fails for producers that ask    *)
(* areNSlotsAvailable first.                                               *)
THEOREM NeverOverfull == Spec => []WithinSize
<1>1. IInv => WithinSize
  BY DEF IInv
<1> QED BY <1>1, BufferSafe, PTL

(* reanalyzeMessages always finds the messages that wakeUpBuffers was told *)
(* of, and they are messages of lines with a transaction under way.        *)
THEOREM StalledAreAwaited == Spec => []StalledAwaited
<1>1. IInv => StalledAwaited
  BY DEF IInv
<1> QED BY <1>1, BufferSafe, PTL

(* The consumer sleeps only with a wakeup for every message it could still *)
(* take, and the assertion of processCurrentEvent holds.                   *)
THEOREM WakeupsKept == Spec => []NoLostWakeup /\ []EventIsFirstTick
<1>1. IInv => NoLostWakeup /\ EventIsFirstTick
  BY DEF IInv
<1> QED BY <1>1, BufferSafe, PTL

(* Messages that are neither recycled nor delayed are taken in the order   *)
(* of their arrival, put aside or not.                                     *)
THEOREM OrderKept == Spec => InOrder
<1>1. IInv /\ [Next]_vars => [TakenInOrder]_vars
  BY OrderStep
<1> QED BY <1>1, BufferSafe, PTL DEF Spec, InOrder

=============================================================================
