------------------------ MODULE MessageBufferSteps -------------------------
(***************************************************************************)
(* The first half of the proofs about MessageBuffer: producers, lines that *)
(* become free, and messages taken or put aside preserve IInv.             *)
(***************************************************************************)
EXTENDS MessageBuffer, FiniteSetTheorems, TLAPS

(* A heap to which n messages are added grows by at most n.                *)
LEMMA BatchSize ==
  ASSUME NEW H, IsFiniteSet(H), NEW n \in Nat, NEW f, DOMAIN f = 1 .. n
  PROVE  LET N == {f[i] : i \in 1 .. n}
         IN  /\ IsFiniteSet(H \cup N)
             /\ Cardinality(H \cup N) \in Nat
             /\ Cardinality(H \cup N) <= Cardinality(H) + n
<1> DEFINE N == {f[i] : i \in 1 .. n}
           g == [i \in 1 .. n |-> f[i]]
<1>1. IsFiniteSet(1 .. n) /\ Cardinality(1 .. n) = n
  BY FS_Interval
<1>2. g \in Surjection(1 .. n, N)
  BY DEF Surjection
<1>3. IsFiniteSet(N) /\ Cardinality(N) <= n
  BY <1>1, <1>2, FS_Surjection
<1>4. /\ IsFiniteSet(H \cup N) /\ IsFiniteSet(H \cap N)
      /\ Cardinality(H \cup N) = Cardinality(H) + Cardinality(N) - Cardinality(H \cap N)
  BY <1>3, FS_Union, FS_Intersection, Zenon
<1>5. /\ Cardinality(H) \in Nat /\ Cardinality(N) \in Nat
      /\ Cardinality(H \cap N) \in Nat /\ Cardinality(H \cup N) \in Nat
  BY <1>3, <1>4, FS_CardinalityType
<1> QED BY <1>3, <1>4, <1>5

(* A set and the part of another that moves into it: nothing is counted    *)
(* twice.                                                                  *)
LEMMA MoveSize ==
  ASSUME NEW H, NEW S, NEW B \in SUBSET S, IsFiniteSet(H), IsFiniteSet(S)
  PROVE  /\ IsFiniteSet(H \cup B) /\ IsFiniteSet(S \ B)
         /\ Cardinality(H) \in Nat /\ Cardinality(S) \in Nat /\ Cardinality(B) \in Nat
         /\ Cardinality(H \cup B) \in Nat
         /\ Cardinality(H \cup B) <= Cardinality(H) + Cardinality(B)
         /\ Cardinality(S \ B) = Cardinality(S) - Cardinality(B)
         /\ Cardinality(B) <= Cardinality(S)
<1>1. IsFiniteSet(B) /\ Cardinality(B) <= Cardinality(S)
  BY FS_Subset
<1>2. /\ IsFiniteSet(H \cup B) /\ IsFiniteSet(H \cap B)
      /\ Cardinality(H \cup B) = Cardinality(H) + Cardinality(B) - Cardinality(H \cap B)
  BY <1>1, FS_Union, FS_Intersection
<1>3. IsFiniteSet(S \ B) /\ Cardinality(S \ B) = Cardinality(S) - Cardinality(S \cap B)
  BY <1>1, FS_Difference, Zenon
<1>4. S \cap B = B
  OBVIOUS
<1>5. /\ Cardinality(H) \in Nat /\ Cardinality(S) \in Nat /\ Cardinality(B) \in Nat
      /\ Cardinality(H \cup B) \in Nat /\ Cardinality(H \cap B) \in Nat
  BY <1>1, <1>2, FS_CardinalityType
<1> QED BY <1>1, <1>2, <1>3, <1>4, <1>5, SMTT(30)

(* Scheduling wakeups that are not in the past keeps the event at the      *)
(* first tick.                                                             *)
LEMMA ScheduleFact ==
  ASSUME TypeOK, EventIsFirstTick, NEW T \in SUBSET Nat, \A t \in T : t >= now,
         ScheduleNextWakeup(ticks \cup T)
  PROVE  /\ event' \in Nat \cup {None}
         /\ \A t \in ticks \cup T : t >= now
         /\ event' # None => Earliest(ticks \cup T, event')
         /\ ticks \cup T # {} => event' # None
<1> DEFINE U == ticks \cup T
<1>1. U \subseteq Nat /\ \A t \in U : t >= now
  BY DEF TypeOK, EventIsFirstTick
<1>2. {t \in U : t >= now} = U
  BY <1>1
<1>3. CASE U = {}
  <2>1. event' = event
    BY <1>2, <1>3 DEF ScheduleNextWakeup
  <2>2. event = None
    BY <1>3 DEF EventIsFirstTick, Earliest
  <2> QED BY <1>1, <1>3, <2>1, <2>2
<1>4. CASE U # {}
  <2>1. PICK when \in U : /\ Earliest(U, when)
                          /\ event' = IF event = None \/ when < event THEN when ELSE event
    BY <1>2, <1>4 DEF ScheduleNextWakeup
  <2>2. when \in Nat /\ when # None
    BY <1>1, ConstantsOK
  <2>3. CASE event = None \/ when < event
    BY <1>1, <2>1, <2>2, <2>3
  <2>4. CASE event # None /\ ~(when < event)
    <3>1. event \in ticks /\ event \in Nat /\ event' = event
      BY <2>1, <2>4 DEF EventIsFirstTick, Earliest, TypeOK
    <3>2. Earliest(U, event)
      BY <1>1, <2>1, <2>2, <2>4, <3>1 DEF Earliest
    <3> QED BY <1>1, <2>4, <3>1, <3>2
  <2> QED BY <2>3, <2>4
<1> QED BY <1>3, <1>4

(* Producers: the slots they see are really there, and what they enqueue   *)
(* is new and has its wakeup.                                              *)
LEMMA ProduceStep ==
  ASSUME IInv, NEW n \in 1 .. MaxBatch, NEW l \in Lines, NEW d \in Latencies,
         Produce(n, l, d)
  PROVE  IInv'
<1> DEFINE f == [i \in 1 .. n |-> NewMessage(counter + i, l, now + d)]
           N == {f[i] : i \in 1 .. n}
<1>0. /\ n \in Nat /\ n > 0 /\ d \in Nat /\ d > 0 /\ now \in Nat /\ counter \in Nat
      /\ now' = now /\ stalled' = stalled /\ stallSize' = stallSize
      /\ counter' = counter + n /\ awake' = awake /\ busy' = busy /\ waiting' = waiting
      /\ ticks' = ticks \cup {now + d} /\ heap' = heap \cup N
  BY ConstantsOK DEF Produce, CountEnqueues, Schedule, control, IInv, TypeOK
<1>1. /\ IsFiniteSet(heap') /\ Cardinality(heap') \in Nat
      /\ Cardinality(heap') <= Cardinality(heap) + n /\ Cardinality(heap) \in Nat
  <2>1. DOMAIN f = 1 .. n /\ IsFiniteSet(heap)
    BY DEF IInv
  <2> HIDE DEF f
  <2> QED BY <1>0, <2>1, BatchSize, FS_CardinalityType
<1>2. \A m \in N : /\ m \in Message /\ m.time = now + d /\ m.arrival = now + d /\ ~m.moved
                   /\ m.count = m.id /\ m.count > counter /\ m.count <= counter + n
  <2> TAKE m \in N
  <2>1. PICK i \in 1 .. n : m = NewMessage(counter + i, l, now + d)
    OBVIOUS
  <2>2. i \in Nat /\ i > 0 /\ i <= n /\ now + d \in Nat /\ counter + i \in Nat
    BY <1>0
  <2> QED BY <1>0, <2>1, <2>2 DEF NewMessage, Message
<1>3. \A m, k \in N : m.count = k.count => m = k
  <2> TAKE m, k \in N
  <2>1. PICK i \in 1 .. n : m = NewMessage(counter + i, l, now + d)
    OBVIOUS
  <2>2. PICK j \in 1 .. n : k = NewMessage(counter + j, l, now + d)
    OBVIOUS
  <2>3. m.count = counter + i /\ k.count = counter + j
    BY <2>1, <2>2 DEF NewMessage
  <2> QED BY <2>1, <2>2, <2>3
<1>a. /\ event' \in Nat \cup {None}
      /\ EventIsFirstTick'
  <2>1. {now + d} \in SUBSET Nat /\ \A t \in {now + d} : t >= now
    BY <1>0
  <2>2. ScheduleNextWakeup(ticks \cup {now + d}) /\ TypeOK /\ EventIsFirstTick
    BY DEF Produce, Schedule, IInv
  <2> QED BY <1>0, <2>1, <2>2, ScheduleFact DEF EventIsFirstTick
<1> HIDE DEF N
<1>4. TypeOK'
  BY <1>0, <1>2, <1>a DEF IInv, TypeOK, Produce, CountEnqueues, control
<1>5. WithinSize' /\ SlotsSound'
  <2>1. MaxSize = 0 \/ VisibleSize + n <= MaxSize
    BY DEF Produce, AreNSlotsAvailable
  <2>2. VisibleSize \in Nat
    BY <1>1 DEF VisibleSize, IInv, TypeOK
  <2>3. WithinSize'
    BY <1>0, <1>1, <2>1, <2>2, ConstantsOK DEF WithinSize, IInv, SlotsSound, TypeOK
  <2>4. Cardinality(heap') + stallSize' <= VisibleSize'
    BY <1>0, <1>1 DEF VisibleSize, IInv, SlotsSound, TypeOK, Produce, CountEnqueues
  <2> QED BY <1>0, <2>3, <2>4 DEF SlotsSound, Produce, CountEnqueues, IInv, TypeOK
<1>6. MessagesSound' /\ heap' \cap stalled' = {}
  <2>1. \A m \in heap \cup stalled : m.count <= counter /\ m.count \in Nat
    BY DEF IInv, MessagesSound, TypeOK, Message
  <2>2. \A m \in heap \cup stalled, k \in N : m.count # k.count
    BY <1>0, <1>2, <2>1
  <2>3. heap' \cap stalled' = {}
    BY <1>0, <2>2 DEF IInv, StalledAwaited
  <2>4. \A m \in heap' \cup stalled' :
          /\ m.count <= counter' /\ m.id <= m.count /\ m.arrival <= m.time
          /\ ~m.moved => m.time = m.arrival /\ m.count = m.id
    BY <1>0, <1>2, <2>1 DEF IInv, MessagesSound, TypeOK, Message
  <2>5. \A m, k \in heap' \cup stalled' : m.count = k.count => m = k
    BY <1>0, <1>3, <2>2 DEF IInv, MessagesSound
  <2> QED BY <2>3, <2>4, <2>5 DEF MessagesSound
<1>7. StalledAwaited'
  BY <1>0, <1>6 DEF IInv, StalledAwaited
<1>8. NoLostWakeup'
  BY <1>0, <1>2 DEF IInv, NoLostWakeup, IsReady, IsFront
<1> QED BY <1>0, <1>1, <1>4, <1>5, <1>6, <1>7, <1>8, <1>a DEF IInv

(* A wakeup for the next clock edge, or for this one.                      *)
LEMMA ScheduleSoon ==
  ASSUME IInv, NEW t \in Nat, t >= now, Schedule({t})
  PROVE  /\ ticks' = ticks \cup {t}
         /\ event' \in Nat \cup {None}
         /\ \A u \in ticks' : u >= now
         /\ event' # None => Earliest(ticks', event')
         /\ event' # None
<1>1. {t} \in SUBSET Nat /\ (\A u \in {t} : u >= now) /\ ticks \cup {t} # {}
  OBVIOUS
<1>2. ScheduleNextWakeup(ticks \cup {t}) /\ TypeOK /\ EventIsFirstTick
  BY DEF Schedule, IInv
<1> QED BY <1>1, <1>2, ScheduleFact, Zenon DEF Schedule

LEMMA RespondStep ==
  ASSUME IInv, NEW l \in Lines, Respond(l)
  PROVE  IInv'
<1>1. now + 1 \in Nat /\ now + 1 >= now /\ Schedule({now + 1})
  BY DEF Respond, IInv, TypeOK
<1>2. TypeOK'
  <2>1. responses' \subseteq [line : Lines, time : Nat]
    BY <1>1 DEF Respond, IInv, TypeOK
  <2>2. ticks' \subseteq Nat /\ event' \in Nat \cup {None}
    BY <1>1, ScheduleSoon, Zenon DEF IInv, TypeOK
  <2> QED BY <2>1, <2>2 DEF Respond, IInv, TypeOK, sizes
<1>3. WithinSize' /\ SlotsSound' /\ MessagesSound' /\ StalledAwaited'
      /\ IsFiniteSet(heap') /\ IsFiniteSet(stalled')
  BY DEF Respond, sizes, IInv, WithinSize, SlotsSound, VisibleSize, MessagesSound,
         StalledAwaited
<1>4. EventIsFirstTick'
  BY <1>1, ScheduleSoon DEF Respond, EventIsFirstTick
<1>5. NoLostWakeup'
  BY <1>1, ScheduleSoon DEF Respond, IInv, NoLostWakeup, IsReady, IsFront
<1> QED BY <1>2, <1>3, <1>4, <1>5 DEF IInv

LEMMA WakeUpStep ==
  ASSUME IInv, WakeUp
  PROVE  IInv'
<1>1. PICK t \in ticks : Earliest(ticks, t) /\ ticks' = ticks \ {t}
  BY DEF WakeUp
<1>2. t = now /\ t \in Nat
  <2>1. event \in ticks /\ Earliest(ticks, event) /\ event = now
    BY ConstantsOK DEF WakeUp, IInv, EventIsFirstTick, Earliest, TypeOK
  <2> QED BY <1>1, <2>1 DEF Earliest, IInv, TypeOK
<1>3. TypeOK'
  BY <1>1 DEF WakeUp, IInv, TypeOK, sizes, control
<1>4. WithinSize' /\ SlotsSound' /\ MessagesSound' /\ StalledAwaited'
      /\ IsFiniteSet(heap') /\ IsFiniteSet(stalled')
  BY DEF WakeUp, sizes, control, IInv, WithinSize, SlotsSound, VisibleSize,
         MessagesSound, StalledAwaited
<1>5. EventIsFirstTick'
  BY <1>1 DEF WakeUp, IInv, EventIsFirstTick
<1>6. NoLostWakeup'
  <2>1. \A m \in heap : m.time \in Nat
    BY DEF IInv, TypeOK, Message
  <2> QED BY <1>1, <1>2, <2>1 DEF WakeUp, IInv, NoLostWakeup, TypeOK
<1> QED BY <1>3, <1>4, <1>5, <1>6 DEF IInv

(* The messages of a line that is free again come back: they have arrived, *)
(* and the buffer holds no more than before.                               *)
LEMMA FreeStep ==
  ASSUME IInv, NEW r \in responses, Free(r)
  PROVE  IInv'
<1> DEFINE back == {m \in stalled : m.line = r.line}
<1>0. /\ awake /\ awake' = awake /\ now' = now /\ now \in Nat /\ r \in [line : Lines, time : Nat]
      /\ lastEnqueue' = lastEnqueue /\ lastPop' = lastPop
      /\ sizeAtStart' = sizeAtStart /\ stalledAtStart' = stalledAtStart
      /\ msgsThisCycle' = msgsThisCycle /\ counter' = counter
      /\ busy' = busy \ {r.line} /\ waiting' = waiting \ {r.line}
      /\ responses' \subseteq responses
  BY DEF Free, IInv, TypeOK
<1>1. CASE r.line \in waiting
  <2>0. /\ stallSize' = stallSize - Cardinality(back)
        /\ heap' = heap \cup back /\ stalled' = stalled \ back /\ Schedule({now})
    BY <1>1 DEF Free
  <2>1. back \in SUBSET stalled /\ IsFiniteSet(heap) /\ IsFiniteSet(stalled)
    BY DEF IInv
  <2> HIDE DEF back
  <2>2. /\ IsFiniteSet(heap') /\ IsFiniteSet(stalled')
        /\ Cardinality(heap) \in Nat /\ Cardinality(stalled) \in Nat /\ Cardinality(back) \in Nat
        /\ Cardinality(heap') \in Nat /\ Cardinality(heap') <= Cardinality(heap) + Cardinality(back)
        /\ Cardinality(stalled') = Cardinality(stalled) - Cardinality(back)
        /\ Cardinality(back) <= Cardinality(stalled)
    <3>1. /\ IsFiniteSet(heap \cup back) /\ IsFiniteSet(stalled \ back)
          /\ Cardinality(heap) \in Nat /\ Cardinality(stalled) \in Nat /\ Cardinality(back) \in Nat
          /\ Cardinality(heap \cup back) \in Nat
          /\ Cardinality(heap \cup back) <= Cardinality(heap) + Cardinality(back)
          /\ Cardinality(stalled \ back) = Cardinality(stalled) - Cardinality(back)
          /\ Cardinality(back) <= Cardinality(stalled)
      BY <2>1, MoveSize, Zenon
    <3> QED BY <2>0, <3>1
  <2>3. stallSize = Cardinality(stalled) /\ stallSize' \in Nat
    BY <2>0, <2>2 DEF IInv, StalledAwaited
  <2>4. /\ ticks' = ticks \cup {now} /\ event' \in Nat \cup {None}
        /\ EventIsFirstTick'
    BY <1>0, <2>0, ScheduleSoon DEF EventIsFirstTick
  <2>5. TypeOK'
    BY <1>0, <2>0, <2>1, <2>3, <2>4 DEF IInv, TypeOK
  <2>6. WithinSize' /\ SlotsSound'
    BY <1>0, <2>0, <2>2, <2>3, ConstantsOK DEF IInv, TypeOK, WithinSize, SlotsSound, VisibleSize
  <2>7. MessagesSound'
    BY <1>0, <2>0, <2>1 DEF IInv, MessagesSound
  <2>8. StalledAwaited'
    <3>1. waiting' = {m.line : m \in stalled'}
      BY <1>0, <2>0 DEF IInv, StalledAwaited, back
    <3> QED BY <1>0, <2>0, <2>1, <2>2, <2>3, <3>1, Zenon DEF IInv, StalledAwaited
  <2>9. NoLostWakeup'
    <3>1. \A m \in heap' : m.time > now => m \in heap
      <4>1. \A m \in stalled : m.time <= now /\ m.time \in Nat
        BY DEF IInv, StalledAwaited, TypeOK, Message
      <4> QED BY <1>0, <2>0, <2>1, <4>1
    <3> QED BY <1>0, <2>4, <3>1 DEF IInv, NoLostWakeup
  <2> QED BY <2>2, <2>4, <2>5, <2>6, <2>7, <2>8, <2>9 DEF IInv
<1>2. CASE r.line \notin waiting
  <2>1. /\ stallSize' = stallSize /\ heap' = heap /\ stalled' = stalled
        /\ ticks' = ticks /\ event' = event /\ waiting' = waiting
    BY <1>0, <1>2 DEF Free
  <2>2. TypeOK'
    BY <1>0, <2>1 DEF IInv, TypeOK
  <2>3. WithinSize' /\ SlotsSound' /\ MessagesSound' /\ EventIsFirstTick' /\ NoLostWakeup'
    BY <1>0, <2>1 DEF IInv, WithinSize, SlotsSound, VisibleSize, MessagesSound,
                      EventIsFirstTick, NoLostWakeup
  <2>4. StalledAwaited'
    BY <1>0, <1>2, <2>1 DEF IInv, StalledAwaited
  <2> QED BY <2>1, <2>2, <2>3, <2>4 DEF IInv
<1> QED BY <1>1, <1>2

LEMMA NatSum ==
  \A i, j \in Nat : i + j \in Nat /\ i <= i /\ i - 1 <= i /\ (i - 1) + 1 = i
OBVIOUS

(* A pop is not seen by the producers in its cycle, so they see no less    *)
(* than before.                                                            *)
LEMMA DequeueFact ==
  ASSUME IInv, NEW m \in heap, Dequeue(m), now' = now,
         lastEnqueue' = lastEnqueue, msgsThisCycle' = msgsThisCycle
  PROVE  /\ heap' = heap \ {m} /\ IsFiniteSet(heap')
         /\ Cardinality(heap') \in Nat /\ Cardinality(heap) \in Nat
         /\ Cardinality(heap') = Cardinality(heap) - 1
         /\ sizeAtStart' \in Nat /\ stalledAtStart' \in Nat
         /\ lastPop' = now
         /\ Cardinality(heap) + stallSize <= VisibleSize' /\ VisibleSize' \in Nat
<1>1. /\ heap' = heap \ {m} /\ IsFiniteSet(heap')
      /\ Cardinality(heap') = Cardinality(heap) - 1
      /\ Cardinality(heap') \in Nat /\ Cardinality(heap) \in Nat
  BY FS_RemoveElement, FS_CardinalityType DEF Dequeue, IInv
<1>2. lastPop' = now /\ sizeAtStart' \in Nat /\ stalledAtStart' \in Nat
  BY <1>1 DEF Dequeue, IInv, TypeOK
<1>3. Cardinality(heap) + stallSize <= VisibleSize'
  BY <1>1 DEF Dequeue, IInv, TypeOK, SlotsSound, VisibleSize
<1>4. VisibleSize' = (IF lastEnqueue < now THEN sizeAtStart' ELSE sizeAtStart' + msgsThisCycle)
                       + stalledAtStart'
  BY <1>2 DEF IInv, TypeOK, VisibleSize
<1>5. VisibleSize' \in Nat
  <2>1. sizeAtStart' + stalledAtStart' \in Nat
    BY <1>2, NatSum, Zenon
  <2>2. (sizeAtStart' + msgsThisCycle) + stalledAtStart' \in Nat
    <3>1. msgsThisCycle \in Nat
      BY DEF IInv, TypeOK
    <3> QED BY <1>2, <3>1, NatSum, Zenon
  <2> QED BY <1>4, <2>1, <2>2, Zenon
<1> QED BY <1>1, <1>2, <1>3, <1>5

LEMMA TakeStep ==
  ASSUME IInv, NEW m \in heap, Take(m)
  PROVE  IInv'
<1>0. /\ awake /\ awake' = awake /\ now' = now /\ stalled' = stalled /\ stallSize' = stallSize
      /\ lastEnqueue' = lastEnqueue /\ msgsThisCycle' = msgsThisCycle /\ counter' = counter
      /\ ticks' = ticks /\ event' = event /\ responses' = responses /\ waiting' = waiting
      /\ busy \subseteq busy' /\ busy' \subseteq busy \cup {m.line} /\ m.line \in Lines
      /\ now \in Nat /\ stallSize \in Nat
  BY DEF Take, Examine, consumer, IInv, TypeOK, Message
<1>1. /\ heap' = heap \ {m} /\ IsFiniteSet(heap')
      /\ Cardinality(heap') \in Nat /\ Cardinality(heap) \in Nat
      /\ Cardinality(heap') = Cardinality(heap) - 1
      /\ sizeAtStart' \in Nat /\ stalledAtStart' \in Nat /\ lastPop' = now
      /\ Cardinality(heap) + stallSize <= VisibleSize' /\ VisibleSize' \in Nat
  BY <1>0, DequeueFact DEF Take
<1>2. TypeOK'
  BY <1>0, <1>1 DEF IInv, TypeOK
<1>3. WithinSize' /\ SlotsSound'
  BY <1>0, <1>1, ConstantsOK DEF IInv, TypeOK, WithinSize, SlotsSound
<1>4. MessagesSound'
  BY <1>0, <1>1 DEF IInv, MessagesSound
<1>5. StalledAwaited' /\ EventIsFirstTick'
  BY <1>0, <1>1 DEF IInv, StalledAwaited, EventIsFirstTick
<1>6. NoLostWakeup'
  BY <1>0, <1>1 DEF IInv, NoLostWakeup
<1> QED BY <1>0, <1>1, <1>2, <1>3, <1>4, <1>5, <1>6 DEF IInv

LEMMA StallMessageStep ==
  ASSUME IInv, NEW m \in heap, StallMessage(m)
  PROVE  IInv'
<1>0. /\ awake /\ awake' = awake /\ now' = now /\ stalled' = stalled \cup {m}
      /\ stallSize' = stallSize + 1 /\ m.line \in busy /\ m.time <= now
      /\ lastEnqueue' = lastEnqueue /\ msgsThisCycle' = msgsThisCycle /\ counter' = counter
      /\ ticks' = ticks /\ event' = event /\ responses' = responses /\ busy' = busy
      /\ waiting' = waiting \cup {m.line} /\ now \in Nat /\ stallSize \in Nat
  BY DEF StallMessage, Examine, IsReady, consumer, IInv, TypeOK
<1>1. /\ heap' = heap \ {m} /\ IsFiniteSet(heap')
      /\ Cardinality(heap') \in Nat /\ Cardinality(heap) \in Nat
      /\ Cardinality(heap') = Cardinality(heap) - 1
      /\ sizeAtStart' \in Nat /\ stalledAtStart' \in Nat /\ lastPop' = now
      /\ Cardinality(heap) + stallSize <= VisibleSize' /\ VisibleSize' \in Nat
  BY <1>0, DequeueFact DEF StallMessage
<1>2. TypeOK'
  BY <1>0, <1>1 DEF IInv, TypeOK
<1>3. WithinSize' /\ SlotsSound'
  BY <1>0, <1>1, ConstantsOK DEF IInv, TypeOK, WithinSize, SlotsSound
<1>4. MessagesSound'
  BY <1>0, <1>1 DEF IInv, MessagesSound
<1>5. StalledAwaited' /\ IsFiniteSet(stalled')
  <2>1. m \notin stalled
    BY DEF IInv, StalledAwaited
  <2>2. IsFiniteSet(stalled') /\ Cardinality(stalled') = Cardinality(stalled) + 1
    BY <1>0, <2>1, FS_AddElement DEF IInv
  <2>3. waiting' = {k.line : k \in stalled'}
    BY <1>0 DEF IInv, StalledAwaited
  <2> QED BY <1>0, <1>1, <2>2, <2>3 DEF IInv, StalledAwaited
<1>6. EventIsFirstTick' /\ NoLostWakeup'
  BY <1>0, <1>1 DEF IInv, EventIsFirstTick, NoLostWakeup
<1> QED BY <1>0, <1>1, <1>2, <1>3, <1>4, <1>5, <1>6 DEF IInv
=============================================================================
