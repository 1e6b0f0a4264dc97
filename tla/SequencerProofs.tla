-------------------------- MODULE SequencerProofs --------------------------
(***************************************************************************)
(* Safety of Sequencer for any number of cores, lines and outstanding      *)
(* requests: the deadlock check, the monitors and the retry lists are      *)
(* preserved, so with SequencerRequests IInv is inductive.                 *)
(***************************************************************************)
EXTENDS SequencerRequests

(* The deadlock check and the monitors.                                    *)

(* recvTimingReq schedules the check with every request it accepts. *)
LEMMA RecvArmed ==
  ASSUME TypeOK, DeadlockCheckArmed, NEW p \in Ports, NEW r \in Requests,
         RecvTimingReq(p, r), UNCHANGED drain
  PROVE  DeadlockCheckArmed'
<1>1. p[1] \in Seqs
  BY DEF Ports
<1>2. CASE Refused(p[1], r)
  BY <1>2 DEF RecvTimingReq, DeadlockCheckArmed
<1>3. CASE ~Refused(p[1], r)
  <2>1. count' = [count EXCEPT ![p[1]] = @ + 1]
        /\ watch' = [watch EXCEPT ![p[1]] = @ \/ drain[p[1]] # "Draining"]
    BY <1>3 DEF RecvTimingReq, InsertRequest
  <2>2. \A s \in Seqs : s # p[1] => count'[s] = count[s] /\ watch'[s] = watch[s]
    BY <2>1 DEF TypeOK
  <2>3. watch'[p[1]] <=> watch[p[1]] \/ drain[p[1]] # "Draining"
    BY <1>1, <2>1, Zenon DEF TypeOK
  <2> QED BY <2>2, <2>3 DEF DeadlockCheckArmed
<1> QED BY <1>2, <1>3

(* Every action keeps DeadlockCheckArmed. *)
LEMMA ArmedStep == IInv /\ [Next]_vars => DeadlockCheckArmed'
<1> SUFFICES ASSUME IInv, [Next]_vars PROVE DeadlockCheckArmed'
  OBVIOUS
<1>0. TypeOK /\ OneRubyRequest /\ RefusedListed /\ DeadlockCheckArmed
  BY DEF IInv
<1>1. ASSUME NEW p \in Ports, NEW l \in Lines, NEW type \in Types,
             Send(p, [type |-> type, line |-> l])
      PROVE  DeadlockCheckArmed'
  <2>1. [type |-> type, line |-> l] \in Requests BY DEF Requests
  <2> QED BY <1>0, <1>1, <2>1, RecvArmed DEF Send
<1>2. CASE HitCallback
  <2>1. cb.seq \in Seqs BY <1>0, <1>2, CallbackFacts DEF HitCallback
  <2>2. \A s \in Seqs : count[s] \in Int /\ count'[s] \in Int /\ count'[s] <= count[s]
    BY <1>0, <1>2, <2>1 DEF HitCallback, TypeOK
  <2>3. \A s \in Seqs : count'[s] > 0 => count[s] > 0 BY <2>2
  <2> QED BY <1>0, <1>2, <2>3 DEF HitCallback, DeadlockCheckArmed
<1>3. CASE SendRetryReq
  <2>1. cb # Idle /\ cb.cur # <<>> BY <1>3 DEF SendRetryReq
  <2>2. cb.cur \in Seq(Ports) BY <1>0, <2>1, CallbackFacts
  <2>3. Head(cb.cur) \in Ports BY <2>1, <2>2, SeqFacts
  <2>4. pend[Head(cb.cur)] \in Requests BY <1>0, <2>1, PendingHead
  <2> QED BY <1>0, <1>3, <2>3, <2>4, RecvArmed DEF SendRetryReq
<1>4. CASE PopFront
  <2>1. cb.seq \in Seqs BY <1>0, <1>4, CallbackFacts DEF PopFront
  <2>2. \A s \in Seqs :
          \/ drain'[s] = drain[s]
          \/ drain[s] = "Draining" /\ drain'[s] = "Drained" /\ count[s] = 0
    BY <1>0, <1>4, <2>1 DEF PopFront, TestDrainComplete, TypeOK
  <2>3. ~(0 > 0) OBVIOUS
  <2>4. watch' = watch /\ count' = count BY <1>4 DEF PopFront
  <2> QED BY <1>0, <2>2, <2>3, <2>4 DEF DeadlockCheckArmed
<1>5. ASSUME NEW s \in Seqs, Drain(s) PROVE DeadlockCheckArmed'
  <2>1. drain'[s] = (IF count[s] > 0 THEN "Draining" ELSE "Drained") /\ watch'[s] = FALSE
        /\ count' = count
        /\ \A t \in Seqs : t # s => drain'[t] = drain[t] /\ watch'[t] = watch[t]
    BY <1>0, <1>5 DEF Drain, TypeOK
  <2> QED BY <1>0, <2>1 DEF DeadlockCheckArmed
<1>6. ASSUME NEW s \in Seqs, Resume(s) PROVE DeadlockCheckArmed'
  <2>1. drain'[s] = "Running" /\ count[s] = 0 /\ count' = count /\ watch' = watch
        /\ \A t \in Seqs : t # s => drain'[t] = drain[t]
    BY <1>0, <1>6 DEF Resume, TypeOK
  <2>2. ~(0 > 0) OBVIOUS
  <2> QED BY <1>0, <2>1, <2>2 DEF DeadlockCheckArmed
<1>7. ASSUME NEW s \in Seqs, Wakeup(s) PROVE DeadlockCheckArmed'
  <2>1. (watch'[s] <=> count[s] > 0) /\ watch[s] /\ drain' = drain /\ count' = count
        /\ \A t \in Seqs : t # s => watch'[t] = watch[t]
    <3>1. watch \in [Seqs -> BOOLEAN] BY <1>0 DEF TypeOK
    <3>2. watch' = [watch EXCEPT ![s] = count[s] > 0] BY <1>7 DEF Wakeup
    <3>3. watch'[s] = (count[s] > 0) /\ \A t \in Seqs : t # s => watch'[t] = watch[t]
      BY <3>1, <3>2, Zenon
    <3> QED BY <1>7, <3>3, Zenon DEF Wakeup
  <2> QED BY <1>0, <2>1 DEF DeadlockCheckArmed
<1>8. ASSUME UNCHANGED <<count, drain, watch>> PROVE DeadlockCheckArmed'
  BY <1>0, <1>8 DEF DeadlockCheckArmed
<1>9. ASSUME NEW l \in Lines,
             \/ RemoteWrite(l) \/ RemoteRead(l) \/ L2Repl(l)
             \/ \E s \in Seqs : L1Repl(s, l) \/ Hit(s, l) \/ Fill(s, l)
      PROVE  DeadlockCheckArmed'
  BY <1>8, <1>9 DEF RemoteWrite, RemoteRead, L2Repl, L1Repl, Hit, Fill
<1>10. CASE Reissue \/ UNCHANGED vars
  BY <1>8, <1>10 DEF Reissue, vars
<1> QED BY <1>1, <1>2, <1>3, <1>4, <1>5, <1>6, <1>7, <1>9, <1>10, Zenon DEF Next, CallbackStep

(* Every action keeps MonitorSound: whoever writes a line, or takes it away,
   clears the monitors that the write makes stale. *)
LEMMA MonitorStep == IInv /\ [Next]_vars => MonitorSound'
<1> SUFFICES ASSUME IInv, [Next]_vars PROVE MonitorSound'
  OBVIOUS
<1>0. TypeOK /\ OneRubyRequest /\ MonitorSound
  BY DEF IInv
<1>1. CASE HitCallback
  <2>1. cb.seq \in Seqs BY <1>0, <1>1, CallbackFacts DEF HitCallback
  <2>2. SUFFICES ASSUME NEW t \in Seqs PROVE monitor'[t] \cap stale'[t] = {}
    BY DEF MonitorSound
  <2>3. monitor[t] \cap stale[t] = {} BY <1>0 DEF MonitorSound
  <2> QED BY <1>1, <2>1, <2>3 DEF HitCallback, Monitors, Wrote, WriteTypes
<1>2. ASSUME NEW l \in Lines, RemoteWrite(l) PROVE MonitorSound'
  BY <1>0, <1>2 DEF RemoteWrite, EvictionCallback, MonitorSound
<1>3. ASSUME NEW l \in Lines, L2Repl(l) PROVE MonitorSound'
  BY <1>0, <1>3 DEF L2Repl, EvictionCallback, MonitorSound
<1>4. ASSUME NEW s \in Seqs, NEW l \in Lines, L1Repl(s, l) PROVE MonitorSound'
  BY <1>0, <1>4 DEF L1Repl, MonitorSound, TypeOK
<1>5. ASSUME UNCHANGED <<monitor, stale>> PROVE MonitorSound'
  BY <1>0, <1>5 DEF MonitorSound
<1>6. ASSUME NEW p \in Ports, NEW l \in Lines, NEW type \in Types,
             Send(p, [type |-> type, line |-> l])
      PROVE  MonitorSound'
  BY <1>5, <1>6 DEF Send
<1>7. ASSUME NEW s \in Seqs, NEW l \in Lines, Hit(s, l) \/ Fill(s, l)
      PROVE  MonitorSound'
  BY <1>5, <1>7 DEF Hit, Fill
<1>8. CASE SendRetryReq \/ PopFront \/ Reissue \/ UNCHANGED vars
  BY <1>5, <1>8 DEF SendRetryReq, PopFront, Reissue, vars
<1>9. ASSUME NEW s \in Seqs, Drain(s) \/ Resume(s) \/ Wakeup(s) PROVE MonitorSound'
  BY <1>5, <1>9 DEF Drain, Resume, Wakeup
<1>10. ASSUME NEW l \in Lines, RemoteRead(l) PROVE MonitorSound'
  BY <1>5, <1>10 DEF RemoteRead
<1> QED BY <1>1, <1>2, <1>3, <1>4, <1>6, <1>7, <1>8, <1>9, <1>10, Zenon DEF Next, CallbackStep

-----------------------------------------------------------------------------
(* The retry lists.                                                        *)

(* RefusedListed for one retry list, for the list being walked and for one
   port. *)
ListOK(s) ==
  /\ \A i \in DOMAIN retry[s] : retry[s][i][1] = s /\ pend[retry[s][i]] # None
  /\ \A i, j \in DOMAIN retry[s] : retry[s][i] = retry[s][j] => i = j
CurOK ==
  /\ \A i \in DOMAIN cb.cur : cb.cur[i][1] = cb.seq /\ pend[cb.cur[i]] # None
  /\ \A i, j \in DOMAIN cb.cur : cb.cur[i] = cb.cur[j] => i = j
  /\ \A i \in DOMAIN cb.cur : \A j \in DOMAIN retry[cb.seq] :
       cb.cur[i] # retry[cb.seq][j]
  /\ ~cb.hit => cb.cur = <<>>
Listed(p) ==
  \/ \E i \in DOMAIN retry[p[1]] : retry[p[1]][i] = p
  \/ cb # Idle /\ \E i \in DOMAIN cb.cur : cb.cur[i] = p

LEMMA ListedParts ==
  /\ RefusedListed <=> /\ \A s \in Seqs : ListOK(s)
                       /\ cb # Idle => CurOK
                       /\ \A p \in Ports : pend[p] # None => Listed(p)
  /\ RefusedListed' <=> /\ \A s \in Seqs : ListOK(s)'
                        /\ cb' # Idle => CurOK'
                        /\ \A p \in Ports : pend'[p] # None => Listed(p)'
  BY DEF RefusedListed, ListOK, CurOK, Listed

(* What appending a port to a list without it does. *)
LEMMA AppendPort ==
  ASSUME NEW q \in Seq(Ports), NEW p \in Ports, \A i \in DOMAIN q : q[i] # p
  PROVE  LET a == Append(q, p)
         IN  /\ \A i \in DOMAIN q : i \in DOMAIN a /\ a[i] = q[i]
             /\ \E i \in DOMAIN a : a[i] = p
             /\ \A i \in DOMAIN a : a[i] = p \/ \E j \in DOMAIN q : a[i] = q[j]
             /\ (\A i, j \in DOMAIN q : q[i] = q[j] => i = j)
                  => \A i, j \in DOMAIN a : a[i] = a[j] => i = j
<1> DEFINE a == Append(q, p)
<1>1. DOMAIN q = 1 .. Len(q) /\ DOMAIN a = 1 .. Len(q) + 1 /\ Len(q) \in Nat
  BY AppendProperties, LenProperties
<1>2. (\A i \in 1 .. Len(q) : a[i] = q[i]) /\ a[Len(q) + 1] = p
  BY AppendProperties
<1>3. \A i \in DOMAIN a : i \in DOMAIN q \/ i = Len(q) + 1
  BY <1>1
<1>4. Len(q) + 1 \in DOMAIN a /\ \A i \in DOMAIN q : i \in DOMAIN a
  BY <1>1
<1> HIDE DEF a
<1>5. /\ \A i \in DOMAIN q : i \in DOMAIN a /\ a[i] = q[i]
      /\ \E i \in DOMAIN a : a[i] = p
      /\ \A i \in DOMAIN a : a[i] = p \/ \E j \in DOMAIN q : a[i] = q[j]
  BY <1>1, <1>2, <1>3, <1>4
<1>6. ASSUME \A i, j \in DOMAIN q : q[i] = q[j] => i = j
      PROVE  \A i, j \in DOMAIN a : a[i] = a[j] => i = j
  BY <1>1, <1>2, <1>3, <1>6
<1> QED BY <1>5, <1>6 DEF a

(* What taking the head off a list without repetitions does. *)
LEMMA TailPort ==
  ASSUME NEW q \in Seq(Ports), q # <<>>, \A i, j \in DOMAIN q : q[i] = q[j] => i = j
  PROVE  LET b == Tail(q)
         IN  /\ \A i \in DOMAIN b : b[i] # Head(q) /\ \E j \in DOMAIN q : b[i] = q[j]
             /\ \A j \in DOMAIN q : q[j] = Head(q) \/ \E i \in DOMAIN b : b[i] = q[j]
             /\ \A i, j \in DOMAIN b : b[i] = b[j] => i = j
<1> DEFINE b == Tail(q)
<1>1. DOMAIN q = 1 .. Len(q) /\ Len(q) \in Nat \ {0} /\ Head(q) = q[1]
  BY EmptySeq, LenProperties, TailFacts
<1>2. b \in Seq(Ports) /\ Len(b) = Len(q) - 1 /\ \A i \in 1 .. Len(b) : b[i] = q[i + 1]
  BY HeadTailProperties
<1>3. DOMAIN b = 1 .. Len(q) - 1
  BY <1>2, LenProperties
<1> HIDE DEF b
<1>4. \A i \in DOMAIN b : b[i] = q[i + 1] /\ i + 1 \in DOMAIN q /\ i + 1 # 1 /\ i \in Int
  BY <1>1, <1>2, <1>3
<1>5. \A j \in DOMAIN q : j = 1 \/ (j - 1 \in DOMAIN b /\ b[j - 1] = q[j])
  BY <1>1, <1>2, <1>3
<1>6. 1 \in DOMAIN q
  BY <1>1
<1>7. \A i, j \in DOMAIN b : b[i] = b[j] => i = j
  BY <1>4
<1>8. \A i \in DOMAIN b : b[i] # Head(q) /\ \E j \in DOMAIN q : b[i] = q[j]
  BY <1>1, <1>4, <1>6
<1>9. \A j \in DOMAIN q : q[j] = Head(q) \/ \E i \in DOMAIN b : b[i] = q[j]
  BY <1>1, <1>5
<1> QED BY <1>7, <1>8, <1>9 DEF b

OnList(q) == \E i \in DOMAIN retry[q[1]] : retry[q[1]][i] = q

(* recvTimingReq puts a port that is not on its list there exactly when it
   leaves it holding the packet. *)
LEMMA RecvLists ==
  ASSUME TypeOK, NEW p \in Ports, NEW r \in Requests, RecvTimingReq(p, r),
         \A s \in Seqs : ListOK(s), ~OnList(p)
  PROVE  /\ \A s \in Seqs : ListOK(s)'
         /\ \A q \in Ports : q # p => pend'[q] = pend[q]
         /\ \A q \in Ports : OnList(q) => OnList(q)'
         /\ pend'[p] # None => OnList(p)'
         /\ \A s \in Seqs : \A j \in DOMAIN retry'[s] :
              retry'[s][j] = p \/ \E i \in DOMAIN retry[s] : retry[s][i] = retry'[s][j]
<1>1. p[1] \in Seqs /\ r # None
  BY ConstantsOK DEF Ports
<1>2. \A q \in Ports : q[1] \in Seqs
  BY DEF Ports
<1>3. \A s \in Seqs : \A i \in DOMAIN retry[s] : retry[s][i] \in Ports /\ retry[s][i] # p
  <2> SUFFICES ASSUME NEW s \in Seqs, NEW i \in DOMAIN retry[s]
               PROVE  retry[s][i] \in Ports /\ retry[s][i] # p
    OBVIOUS
  <2>1. retry[s] \in Seq(Ports) BY DEF TypeOK
  <2>2. retry[s][i] \in Ports BY <2>1
  <2>3. retry[s][i][1] = s BY DEF ListOK
  <2> QED BY <2>2, <2>3 DEF OnList
<1>4. CASE Refused(p[1], r)
  <2> DEFINE a == Append(retry[p[1]], p)
  <2>1. pend' = [pend EXCEPT ![p] = r]
    BY <1>4 DEF RecvTimingReq
  <2>2. pend'[p] = r /\ \A q \in Ports : q # p => pend'[q] = pend[q]
    BY <2>1 DEF TypeOK
  <2>3. retry' = [retry EXCEPT ![p[1]] = a]
    <3>1. ~ \E i \in DOMAIN retry[p[1]] : retry[p[1]][i] = p BY DEF OnList
    <3> QED BY <1>4, <3>1 DEF RecvTimingReq, AddToRetryList
  <2>4. retry'[p[1]] = a /\ \A s \in Seqs : s # p[1] => retry'[s] = retry[s]
    BY <1>1, <2>3 DEF TypeOK
  <2>5. /\ \A i \in DOMAIN retry[p[1]] : i \in DOMAIN a /\ a[i] = retry[p[1]][i]
        /\ \E i \in DOMAIN a : a[i] = p
        /\ \A i \in DOMAIN a : a[i] = p \/ \E j \in DOMAIN retry[p[1]] : a[i] = retry[p[1]][j]
        /\ \A i, j \in DOMAIN a : a[i] = a[j] => i = j
    <3>1. retry[p[1]] \in Seq(Ports) BY <1>1 DEF TypeOK
    <3>2. \A i, j \in DOMAIN retry[p[1]] : retry[p[1]][i] = retry[p[1]][j] => i = j
      BY <1>1 DEF ListOK
    <3> QED BY <1>1, <1>3, <3>1, <3>2, AppendPort
  <2> HIDE DEF a
  <2>6. \A s \in Seqs : s # p[1] => ListOK(s)'
    BY <1>3, <2>2, <2>4 DEF ListOK
  <2>7. ListOK(p[1])'
    <3>1. \A i \in DOMAIN a : a[i][1] = p[1] /\ pend'[a[i]] # None
      BY <1>1, <1>3, <2>2, <2>5 DEF ListOK
    <3> QED BY <2>4, <2>5, <3>1 DEF ListOK
  <2>8. \A q \in Ports : OnList(q) => OnList(q)'
    BY <1>2, <2>4, <2>5 DEF OnList
  <2>9. OnList(p)'
    BY <2>4, <2>5 DEF OnList
  <2> QED BY <2>2, <2>4, <2>5, <2>6, <2>7, <2>8, <2>9
<1>5. CASE ~Refused(p[1], r)
  <2>1. pend' = [pend EXCEPT ![p] = None] /\ retry' = retry
    BY <1>5 DEF RecvTimingReq
  <2>2. pend'[p] = None /\ \A q \in Ports : q # p => pend'[q] = pend[q]
    BY <2>1 DEF TypeOK
  <2> QED BY <1>3, <2>1, <2>2 DEF ListOK, OnList
<1> QED BY <1>4, <1>5

(* Every action keeps RefusedListed. *)
LEMMA ListedStep == IInv /\ [Next]_vars => RefusedListed'
<1> SUFFICES ASSUME IInv, [Next]_vars PROVE RefusedListed'
  OBVIOUS
<1>0. TypeOK /\ OneRubyRequest /\ RefusedListed /\ TypeOK'
  BY TypeStep DEF IInv
<1>a. (\A s \in Seqs : ListOK(s)) /\ (cb # Idle => CurOK)
      /\ \A p \in Ports : pend[p] # None => Listed(p)
  BY <1>0, ListedParts
<1>b. \A q \in Ports : q[1] \in Seqs
  BY DEF Ports
<1>1. ASSUME NEW p \in Ports, NEW l \in Lines, NEW type \in Types,
             Send(p, [type |-> type, line |-> l])
      PROVE  RefusedListed'
  <2>1. [type |-> type, line |-> l] \in Requests BY DEF Requests
  <2>2. cb = Idle /\ cb' = cb /\ pend[p] = None
        /\ RecvTimingReq(p, [type |-> type, line |-> l])
    BY <1>1 DEF Send
  <2>3. ~OnList(p) BY <1>a, <1>b, <2>2 DEF OnList, ListOK
  <2>4. /\ \A s \in Seqs : ListOK(s)'
        /\ \A q \in Ports : q # p => pend'[q] = pend[q]
        /\ \A q \in Ports : OnList(q) => OnList(q)'
        /\ pend'[p] # None => OnList(p)'
    BY <1>0, <1>a, <2>1, <2>2, <2>3, RecvLists
  <2>5. \A q \in Ports : Listed(q) => OnList(q) BY <2>2 DEF Listed, OnList
  <2>6. \A q \in Ports : OnList(q)' => Listed(q)' BY DEF Listed, OnList
  <2>7. \A q \in Ports : pend'[q] # None => Listed(q)'
    BY <1>a, <2>4, <2>5, <2>6
  <2> QED BY <2>2, <2>4, <2>7, ListedParts
<1>2. ASSUME NEW s \in Seqs, NEW l \in Lines, Hit(s, l) \/ Fill(s, l) PROVE RefusedListed'
  <2>1. cb = Idle /\ cb'.cur = <<>> /\ retry' = retry /\ pend' = pend
    BY <1>0, <1>2, StartTypes, Zenon DEF Hit, Fill
  <2>2. CurOK' BY <2>1 DEF CurOK
  <2>3. \A t \in Seqs : ListOK(t)' BY <1>a, <2>1 DEF ListOK
  <2>4. \A q \in Ports : pend'[q] # None => Listed(q)' BY <1>a, <2>1 DEF Listed
  <2> QED BY <2>2, <2>3, <2>4, ListedParts
<1>3. CASE HitCallback
  <2>1. cb # Idle /\ ~cb.hit BY <1>3 DEF HitCallback
  <2>2. PICK s \in Seqs : s = cb.seq BY <1>0, <2>1, CallbackFacts
  <2>3. cb \in Callbacks /\ cb.cur = <<>> BY <1>0, <1>a, <2>1, CallbackFacts DEF CurOK
  <2>4. pend' = pend /\ retry' = [retry EXCEPT ![s] = <<>>]
        /\ cb' = [cb EXCEPT !.hit = TRUE, !.cur = retry[s]]
    BY <1>3, <2>2 DEF HitCallback
  <2>5. retry'[s] = <<>> /\ \A t \in Seqs : t # s => retry'[t] = retry[t]
    BY <1>0, <2>4 DEF TypeOK
  <2>6. cb'.seq = s /\ cb'.hit /\ cb'.cur = retry[s]
    BY <2>2, <2>3, <2>4 DEF Callbacks
  <2>7. cb' # Idle
    <3>1. retry[s] \in Seq(Ports) BY <1>0 DEF TypeOK
    <3>2. cb' \in Callbacks BY <2>3, <2>4, <3>1, Zenon DEF Callbacks
    <3> QED BY <3>2, ConstantsOK
  <2>8. DOMAIN retry'[s] = {} BY <2>5
  <2>9. CurOK' BY <1>a, <2>4, <2>6, <2>8 DEF CurOK, ListOK
  <2>10. \A t \in Seqs : ListOK(t)'
    <3>1. ListOK(s)' BY <2>8 DEF ListOK
    <3>2. \A t \in Seqs : t # s => ListOK(t)' BY <1>a, <2>4, <2>5 DEF ListOK
    <3> QED BY <3>1, <3>2
  <2>11. \A q \in Ports : pend'[q] # None => Listed(q)'
    <3> SUFFICES ASSUME NEW q \in Ports, pend'[q] # None PROVE Listed(q)'
      OBVIOUS
    <3>1. \E i \in DOMAIN retry[q[1]] : retry[q[1]][i] = q
      <4>1. Listed(q) BY <1>a, <2>4
      <4>2. DOMAIN cb.cur = {} BY <2>3
      <4> QED BY <4>1, <4>2 DEF Listed
    <3>2. CASE q[1] = s BY <2>6, <2>7, <3>1, <3>2 DEF Listed
    <3>3. CASE q[1] # s BY <1>b, <2>5, <3>1, <3>3 DEF Listed
    <3> QED BY <3>2, <3>3
  <2> QED BY <2>9, <2>10, <2>11, ListedParts
<1>4. CASE SendRetryReq
  <2>1. cb # Idle /\ cb.hit /\ cb.cur # <<>> BY <1>4 DEF SendRetryReq
  <2>2. cb \in Callbacks /\ cb.cur \in Seq(Ports) BY <1>0, <2>1, CallbackFacts
  <2>3. PICK p \in Ports : p = Head(cb.cur) BY <2>1, <2>2, SeqFacts
  <2>4. PICK r \in Requests : r = pend[p] BY <1>0, <2>1, <2>3, PendingHead
  <2>5. CurOK BY <1>a, <2>1
  <2>6. RecvTimingReq(p, r) /\ cb' = [cb EXCEPT !.cur = Tail(cb.cur)]
    BY <1>4, <2>3, <2>4 DEF SendRetryReq
  <2>7. 1 \in DOMAIN cb.cur /\ cb.cur[1] = p BY <2>1, <2>2, <2>3
  <2>8. p[1] = cb.seq /\ ~OnList(p) BY <2>5, <2>7 DEF CurOK, OnList
  <2>9. /\ \A s \in Seqs : ListOK(s)'
        /\ \A q \in Ports : q # p => pend'[q] = pend[q]
        /\ \A q \in Ports : OnList(q) => OnList(q)'
        /\ pend'[p] # None => OnList(p)'
        /\ \A s \in Seqs : \A j \in DOMAIN retry'[s] :
             retry'[s][j] = p \/ \E i \in DOMAIN retry[s] : retry[s][i] = retry'[s][j]
    BY <1>0, <1>a, <2>6, <2>8, RecvLists
  <2>10. cb'.seq = cb.seq /\ cb'.hit /\ cb'.cur = Tail(cb.cur) /\ cb' # Idle
    <3>1. Tail(cb.cur) \in Seq(Ports) BY <2>1, <2>2, SeqFacts
    <3>2. cb' \in Callbacks BY <2>2, <2>6, <3>1, Zenon DEF Callbacks
    <3> QED BY <2>1, <2>2, <2>6, <3>2, ConstantsOK, Zenon DEF Callbacks
  <2>11. /\ \A i \in DOMAIN cb'.cur : cb'.cur[i] # p /\ \E j \in DOMAIN cb.cur : cb'.cur[i] = cb.cur[j]
         /\ \A j \in DOMAIN cb.cur : cb.cur[j] = p \/ \E i \in DOMAIN cb'.cur : cb'.cur[i] = cb.cur[j]
         /\ \A i, j \in DOMAIN cb'.cur : cb'.cur[i] = cb'.cur[j] => i = j
    <3>1. \A i, j \in DOMAIN cb.cur : cb.cur[i] = cb.cur[j] => i = j BY <2>5 DEF CurOK
    <3> QED BY <2>1, <2>2, <2>3, <2>10, <3>1, TailPort
  <2>12. \A j \in DOMAIN cb.cur : cb.cur[j] \in Ports BY <2>2
  <2>13. CurOK'
    <3>1. \A i \in DOMAIN cb'.cur : cb'.cur[i][1] = cb'.seq /\ pend'[cb'.cur[i]] # None
      BY <2>5, <2>9, <2>10, <2>11, <2>12 DEF CurOK
    <3>2. cb.seq \in Seqs BY <1>0, <2>1, CallbackFacts
    <3>3. \A i \in DOMAIN cb'.cur : \A j \in DOMAIN retry'[cb'.seq] :
            cb'.cur[i] # retry'[cb'.seq][j]
      BY <2>5, <2>9, <2>10, <2>11, <3>2 DEF CurOK
    <3> QED BY <2>10, <2>11, <3>1, <3>3, Zenon DEF CurOK
  <2>14. \A q \in Ports : pend'[q] # None => Listed(q)'
    <3> SUFFICES ASSUME NEW q \in Ports, pend'[q] # None PROVE Listed(q)'
      OBVIOUS
    <3>1. OnList(q)' => Listed(q)' BY DEF OnList, Listed
    <3>2. CASE q = p BY <2>9, <3>1, <3>2
    <3>3. CASE q # p
      <4>1. Listed(q) BY <1>a, <2>9, <3>3
      <4>2. CASE OnList(q) BY <2>9, <3>1, <4>2
      <4>3. CASE \E i \in DOMAIN cb.cur : cb.cur[i] = q
        BY <2>10, <2>11, <3>3, <4>3, SMTT(30) DEF Listed
      <4> QED BY <4>1, <4>2, <4>3 DEF Listed, OnList
    <3> QED BY <3>2, <3>3
  <2> QED BY <2>9, <2>13, <2>14, ListedParts
<1>5. CASE PopFront \/ Reissue
  <2>1. cb # Idle /\ retry' = retry /\ pend' = pend /\ (PopFront => cb.cur = <<>>)
    BY <1>5 DEF PopFront, Reissue
  <2>2. cb.cur = <<>> BY <1>5, <1>a, <2>1 DEF Reissue, CurOK
  <2>3. cb \in Callbacks BY <1>0, <2>1, CallbackFacts
  <2>4. cb' # Idle => cb'.cur = <<>>
    BY <1>5, <2>2, <2>3 DEF PopFront, Reissue, Callbacks
  <2>5. DOMAIN cb.cur = {} BY <2>2
  <2>6. cb' # Idle => CurOK' BY <2>4 DEF CurOK
  <2>7. \A t \in Seqs : ListOK(t)' BY <1>a, <2>1 DEF ListOK
  <2>8. \A q \in Ports : pend'[q] # None => Listed(q)' BY <1>a, <2>1, <2>5 DEF Listed
  <2> QED BY <2>6, <2>7, <2>8, ListedParts
<1>6. ASSUME UNCHANGED <<retry, pend, cb>> PROVE RefusedListed'
  BY <1>0, <1>6 DEF RefusedListed
<1>7. ASSUME NEW l \in Lines,
             RemoteWrite(l) \/ RemoteRead(l) \/ L2Repl(l) \/ \E s \in Seqs : L1Repl(s, l)
      PROVE  RefusedListed'
  BY <1>6, <1>7, SMTT(30) DEF RemoteWrite, RemoteRead, L2Repl, L1Repl
<1>8. ASSUME NEW s \in Seqs, Drain(s) \/ Resume(s) \/ Wakeup(s) PROVE RefusedListed'
  BY <1>6, <1>8 DEF Drain, Resume, Wakeup
<1>9. CASE UNCHANGED vars
  BY <1>6, <1>9 DEF vars
<1> QED BY <1>1, <1>2, <1>3, <1>4, <1>5, <1>7, <1>8, <1>9, Zenon DEF Next, CallbackStep

LEMMA InitHolds == Init => IInv
<1> SUFFICES ASSUME Init PROVE IInv
  OBVIOUS
<1>0. cb = Idle /\ \A s \in Seqs : retry[s] = <<>> /\ count[s] = 0 /\ watch[s] = FALSE
  BY DEF Init
<1>1. TypeOK
  BY <1>0, ConstantsOK DEF Init, TypeOK
<1>2. OneRubyRequest
  BY <1>0 DEF Init, OneRubyRequest, Serving
<1>3. DeadlockCheckArmed
  BY <1>0 DEF DeadlockCheckArmed
<1>4. MonitorSound
  BY SMTT(30) DEF Init, MonitorSound
<1>5. RefusedListed
  <2>1. \A s \in Seqs : DOMAIN retry[s] = {} BY <1>0
  <2>2. \A p \in Ports : pend[p] = None BY DEF Init
  <2>3. \A s \in Seqs : ListOK(s) BY <2>1, Zenon DEF ListOK
  <2> QED BY <1>0, <2>2, <2>3, ListedParts, Zenon
<1> QED BY <1>1, <1>2, <1>3, <1>4, <1>5 DEF IInv

(* What Sequencer.cc and RubyPort.cc maintain between two callbacks, for     *)
(* every number of cores, ports, lines and outstanding requests.             *)
THEOREM SequencerSafe == Spec => []IInv
<1>1. IInv /\ [Next]_vars => IInv'
  BY TypeStep, OneRequestStep, ArmedStep, MonitorStep, ListedStep DEF IInv
<1> QED BY <1>1, InitHolds, PTL DEF Spec

(* The controller holds one request of a line's list, that of the oldest     *)
(* entry: no aliased request is issued twice or left behind, and             *)
(* readCallback and writeCallback find the list they were issued for.        *)
THEOREM OneIssuedPerLine == Spec => []OneRubyRequest
<1>1. IInv => OneRubyRequest
  BY DEF IInv
<1> QED BY <1>1, SequencerSafe, PTL

(* llscCheckMonitor lets a store-conditional through only when no other      *)
(* core wrote the line since the load-linked.                                *)
THEOREM MonitorsSound == Spec => []MonitorSound
<1>1. IInv => MonitorSound
  BY DEF IInv
<1> QED BY <1>1, SequencerSafe, PTL

(* The deadlock check of a sequencer is scheduled whenever it has requests   *)
(* outstanding, and never while it drains, which wakeup asserts.             *)
THEOREM ChecksArmed == Spec => []DeadlockCheckArmed
<1>1. IInv => DeadlockCheckArmed
  BY DEF IInv
<1> QED BY <1>1, SequencerSafe, PTL

(* trySendRetries and addToRetryList neither lose a refused port nor keep    *)
(* one that has nothing to send.                                             *)
THEOREM RefusedKept == Spec => []RefusedListed
<1>1. IInv => RefusedListed
  BY DEF IInv
<1> QED BY <1>1, SequencerSafe, PTL
=============================================================================
