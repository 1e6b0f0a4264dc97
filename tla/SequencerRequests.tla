------------------------- MODULE SequencerRequests -------------------------
(***************************************************************************)
(* The first half of the proofs about Sequencer: types are preserved, and  *)
(* so is OneRubyRequest.  RecvTimingReq, which the cores' sends and the    *)
(* retries share, has lemmas of its own.                                   *)
(***************************************************************************)
EXTENDS Sequencer, SequenceTheorems, TLAPS

(* The variables whose types a request changes. *)
QueuesOK ==
  /\ table \in [Seqs -> [Lines -> Seq(Entries)]]
  /\ mandatory \in [Seqs -> [Lines -> Seq(Kinds)]]
  /\ count \in [Seqs -> Int] /\ \A s \in Seqs : count[s] <= MaxOutstanding
  /\ retry \in [Seqs -> Seq(Ports)]
  /\ pend \in [Ports -> Requests \cup {None}]
  /\ watch \in [Seqs -> BOOLEAN]

(* Sequences and functions of functions of them. *)
LEMMA SeqFacts ==
  ASSUME NEW S, NEW q \in Seq(S)
  PROVE  /\ \A x \in S : Append(q, x) \in Seq(S)
         /\ q # <<>> => Head(q) \in S /\ Tail(q) \in Seq(S)
  OBVIOUS

LEMMA UpdateType ==
  ASSUME NEW A, NEW B, NEW C, NEW f \in [A -> [B -> C]],
         NEW a \in A, NEW b \in B, NEW c \in C
  PROVE  [f EXCEPT ![a][b] = c] \in [A -> [B -> C]]
  OBVIOUS

(* Issuing a request keeps the type of the mandatory queue. *)
LEMMA IssueTypes ==
  ASSUME mandatory \in [Seqs -> [Lines -> Seq(Kinds)]],
         NEW s \in Seqs, NEW l \in Lines, NEW type \in Types, Issue(s, l, type)
  PROVE  mandatory' \in [Seqs -> [Lines -> Seq(Kinds)]]
<1>1. SecondaryType(type) \in Kinds
  BY DEF SecondaryType, Kinds
<1>2. Append(mandatory[s][l], SecondaryType(type)) \in Seq(Kinds)
  BY <1>1, SeqFacts
<1> QED BY <1>2, UpdateType DEF Issue

(* recvTimingReq keeps the types, whether it accepts the packet or not. *)
LEMMA RecvTypes ==
  ASSUME TypeOK, NEW p \in Ports, NEW r \in Requests, RecvTimingReq(p, r)
  PROVE  QueuesOK'
<1>1. p[1] \in Seqs /\ r.line \in Lines /\ r.type \in Types
  BY DEF Ports, Requests
<1>2. CASE Refused(p[1], r)
  <2>1. retry' \in [Seqs -> Seq(Ports)]
    <3>1. retry[p[1]] \in Seq(Ports) /\ Append(retry[p[1]], p) \in Seq(Ports)
      BY <1>1 DEF TypeOK
    <3>2. \/ retry' = [retry EXCEPT ![p[1]] = retry[p[1]]]
          \/ retry' = [retry EXCEPT ![p[1]] = Append(retry[p[1]], p)]
      BY <1>1, <1>2, Zenon DEF TypeOK, RecvTimingReq, AddToRetryList
    <3> QED BY <1>1, <3>1, <3>2, Zenon DEF TypeOK
  <2> QED BY <1>2, <2>1, Zenon DEF TypeOK, QueuesOK, RecvTimingReq
<1>3. CASE ~Refused(p[1], r)
  <2> DEFINE e == [port |-> p, type |-> r.type]
             q == Append(table[p[1]][r.line], e)
  <2>1. q \in Seq(Entries)
    <3>1. e \in Entries BY <1>1 DEF Entries
    <3>2. table[p[1]][r.line] \in Seq(Entries) BY <1>1 DEF TypeOK
    <3> QED BY <3>1, <3>2, SeqFacts
  <2>2. table' \in [Seqs -> [Lines -> Seq(Entries)]]
    <3>1. table' = [table EXCEPT ![p[1]][r.line] = q]
      BY <1>3 DEF RecvTimingReq, InsertRequest
    <3>2. table \in [Seqs -> [Lines -> Seq(Entries)]] BY DEF TypeOK
    <3> HIDE DEF q
    <3> QED BY <1>1, <2>1, <3>1, <3>2, UpdateType
  <2>3. mandatory' \in [Seqs -> [Lines -> Seq(Kinds)]]
    BY <1>1, <1>3, IssueTypes DEF TypeOK, RecvTimingReq, InsertRequest
  <2>4. count' \in [Seqs -> Int] /\ \A s \in Seqs : count'[s] <= MaxOutstanding
    <3>1. count' = [count EXCEPT ![p[1]] = @ + 1] /\ ~(count[p[1]] >= MaxOutstanding)
      BY <1>3 DEF RecvTimingReq, InsertRequest, Refused, BufferFull
    <3>2. MaxOutstanding \in Int BY ConstantsOK
    <3> QED BY <1>1, <3>1, <3>2 DEF TypeOK
  <2>5. watch' \in [Seqs -> BOOLEAN] /\ pend' \in [Ports -> Requests \cup {None}]
    BY <1>1, <1>3, Zenon DEF TypeOK, RecvTimingReq, InsertRequest
  <2> QED BY <1>3, <2>2, <2>3, <2>4, <2>5 DEF TypeOK, QueuesOK, RecvTimingReq
<1> QED BY <1>2, <1>3

(* The callback that is running walks a list that is not empty. *)
LEMMA CallbackFacts ==
  ASSUME TypeOK, OneRubyRequest, cb # Idle
  PROVE  /\ cb \in Callbacks /\ cb.seq \in Seqs /\ cb.line \in Lines
         /\ cb.hit \in BOOLEAN /\ cb.cur \in Seq(Ports)
         /\ table[cb.seq][cb.line] \in Seq(Entries)
         /\ table[cb.seq][cb.line] # <<>>
         /\ mandatory[cb.seq][cb.line] = <<>>
         /\ Front \in Entries /\ Front.type \in Types
<1>1. cb \in Callbacks /\ cb.seq \in Seqs /\ cb.line \in Lines
      /\ cb.hit \in BOOLEAN /\ cb.cur \in Seq(Ports)
  BY DEF TypeOK, Callbacks
<1>2. table[cb.seq][cb.line] \in Seq(Entries)
  BY <1>1 DEF TypeOK
<1>3. Serving(cb.seq, cb.line)
  BY DEF Serving
<1>4. table[cb.seq][cb.line] # <<>> /\ mandatory[cb.seq][cb.line] = <<>>
  BY <1>1, <1>3, Zenon DEF OneRubyRequest
<1>5. Front \in Entries
  BY <1>2, <1>4, SeqFacts DEF Front
<1>6. Front.type \in Types
  BY <1>5 DEF Entries
<1> QED BY <1>1, <1>2, <1>4, <1>5, <1>6

(* The next port to be retried holds a packet. *)
LEMMA PendingHead ==
  ASSUME TypeOK, OneRubyRequest, RefusedListed, cb # Idle, cb.cur # <<>>
  PROVE  pend[Head(cb.cur)] \in Requests
<1>1. cb.cur \in Seq(Ports) BY CallbackFacts
<1>2. Head(cb.cur) \in Ports BY <1>1, SeqFacts
<1>3. 1 \in DOMAIN cb.cur /\ Head(cb.cur) = cb.cur[1] BY <1>1
<1>4. pend[Head(cb.cur)] # None BY <1>3 DEF RefusedListed
<1> QED BY <1>2, <1>4 DEF TypeOK

(* What starting a callback does to the queue and to cb. *)
LEMMA StartTypes ==
  ASSUME TypeOK, NEW s \in Seqs, NEW l \in Lines,
         mandatory[s][l] # <<>>, StartCallback(s, l)
  PROVE  /\ mandatory' \in [Seqs -> [Lines -> Seq(Kinds)]]
         /\ cb' \in Callbacks
         /\ cb'.seq = s /\ cb'.line = l /\ cb'.hit = FALSE /\ cb'.cur = <<>>
<1>1. mandatory[s][l] \in Seq(Kinds) /\ mandatory \in [Seqs -> [Lines -> Seq(Kinds)]]
  BY DEF TypeOK
<1>2. Tail(mandatory[s][l]) \in Seq(Kinds)
  BY <1>1, SeqFacts
<1>3. mandatory' = [mandatory EXCEPT ![s][l] = Tail(mandatory[s][l])]
  BY DEF StartCallback
<1>4. mandatory' \in [Seqs -> [Lines -> Seq(Kinds)]]
  BY <1>1, <1>2, <1>3, UpdateType
<1>5. <<>> \in Seq(Ports)
  OBVIOUS
<1>6. cb' \in Callbacks
  BY <1>5 DEF StartCallback, Callbacks
<1> QED BY <1>4, <1>6 DEF StartCallback

(* Every action keeps the types. *)
LEMMA TypeStep == IInv /\ [Next]_vars => TypeOK'
<1> SUFFICES ASSUME IInv, [Next]_vars PROVE TypeOK'
  OBVIOUS
<1>0. TypeOK /\ OneRubyRequest /\ RefusedListed
  BY DEF IInv
<1>1. ASSUME NEW p \in Ports, NEW l \in Lines, NEW type \in Types,
             Send(p, [type |-> type, line |-> l])
      PROVE  TypeOK'
  <2>1. [type |-> type, line |-> l] \in Requests BY DEF Requests
  <2>2. QueuesOK' BY <1>0, <1>1, <2>1, RecvTypes DEF Send
  <2> QED BY <1>0, <1>1, <2>2 DEF Send, TypeOK, QueuesOK
<1>2. ASSUME NEW s \in Seqs, NEW l \in Lines, Hit(s, l) PROVE TypeOK'
  <2>1. mandatory' \in [Seqs -> [Lines -> Seq(Kinds)]] /\ cb' \in Callbacks
    BY <1>0, <1>2, StartTypes, Zenon DEF Hit
  <2> QED BY <1>0, <1>2, <2>1 DEF Hit, TypeOK
<1>3. ASSUME NEW s \in Seqs, NEW l \in Lines, Fill(s, l) PROVE TypeOK'
  <2>1. mandatory' \in [Seqs -> [Lines -> Seq(Kinds)]] /\ cb' \in Callbacks
    BY <1>0, <1>3, StartTypes, Zenon DEF Fill
  <2> QED BY <1>0, <1>3, <2>1 DEF Fill, TypeOK
<1>4. ASSUME NEW s \in Seqs, NEW l \in Lines, L1Repl(s, l) PROVE TypeOK'
  BY <1>0, <1>4 DEF L1Repl, TypeOK
<1>5. CASE HitCallback
  <2>1. cb # Idle BY <1>5 DEF HitCallback
  <2> USE <1>0, <2>1, CallbackFacts
  <2>2. count' \in [Seqs -> Int] /\ \A s \in Seqs : count'[s] <= MaxOutstanding
    <3>1. MaxOutstanding \in Int BY ConstantsOK
    <3> QED BY <1>5, <3>1 DEF HitCallback, TypeOK
  <2>3. monitor' \in [Seqs -> SUBSET Lines]
    BY <1>5 DEF HitCallback, TypeOK, Monitors
  <2>4. blocked' \subseteq Lines
    BY <1>5 DEF HitCallback, TypeOK, BlockMap
  <2>5. lock' \in [Seqs -> Lines \cup {None}]
    BY <1>5 DEF HitCallback, TypeOK
  <2>6. broken' \subseteq Seqs
    BY <1>5 DEF HitCallback, TypeOK, Disturbed
  <2>7. stale' \in [Seqs -> SUBSET Lines]
    BY <1>5 DEF HitCallback, TypeOK
  <2>8. retry' \in [Seqs -> Seq(Ports)] /\ cb' \in Callbacks
    <3>1. retry[cb.seq] \in Seq(Ports) /\ <<>> \in Seq(Ports) BY DEF TypeOK
    <3>2. retry' \in [Seqs -> Seq(Ports)] BY <1>5, <3>1 DEF HitCallback, TypeOK
    <3>3. cb' = [cb EXCEPT !.hit = TRUE, !.cur = retry[cb.seq]]
      BY <1>5 DEF HitCallback
    <3>4. cb \in Callbacks OBVIOUS
    <3> QED BY <3>1, <3>2, <3>3, <3>4, Zenon DEF Callbacks
  <2> QED BY <1>5, <2>2, <2>3, <2>4, <2>5, <2>6, <2>7, <2>8, SMTT(30) DEF HitCallback, TypeOK
<1>6. CASE SendRetryReq
  <2>1. cb # Idle /\ cb.cur # <<>> BY <1>6 DEF SendRetryReq
  <2>2. cb \in Callbacks /\ cb.cur \in Seq(Ports) BY <1>0, <2>1, CallbackFacts
  <2>3. Head(cb.cur) \in Ports /\ Tail(cb.cur) \in Seq(Ports) BY <2>1, <2>2, SeqFacts
  <2>4. pend[Head(cb.cur)] \in Requests BY <1>0, <2>1, PendingHead
  <2>5. QueuesOK' BY <1>0, <1>6, <2>3, <2>4, RecvTypes DEF SendRetryReq
  <2>6. cb' \in Callbacks BY <1>6, <2>2, <2>3, Zenon DEF SendRetryReq, Callbacks
  <2> QED BY <1>0, <1>6, <2>5, <2>6 DEF SendRetryReq, TypeOK, QueuesOK
<1>7. CASE PopFront
  <2>1. cb # Idle BY <1>7 DEF PopFront
  <2>2. cb \in Callbacks /\ cb.seq \in Seqs /\ cb.line \in Lines
        /\ table[cb.seq][cb.line] \in Seq(Entries) /\ table[cb.seq][cb.line] # <<>>
    BY <1>0, <2>1, CallbackFacts
  <2>3. Tail(table[cb.seq][cb.line]) \in Seq(Entries) BY <2>2, SeqFacts
  <2>4. table' = [table EXCEPT ![cb.seq][cb.line] = Tail(table[cb.seq][cb.line])]
    BY <1>7 DEF PopFront
  <2>5. table' \in [Seqs -> [Lines -> Seq(Entries)]]
    BY <1>0, <2>2, <2>3, <2>4, UpdateType DEF TypeOK
  <2>6. cb' \in Callbacks \cup {Idle} BY <1>7, <2>2, Zenon DEF PopFront, Callbacks
  <2>7. drain' \in [Seqs -> {"Running", "Draining", "Drained"}]
    BY <1>0, <1>7, <2>2 DEF PopFront, TestDrainComplete, TypeOK
  <2> QED BY <1>0, <1>7, <2>5, <2>6, <2>7 DEF PopFront, TypeOK
<1>8. CASE Reissue
  <2>1. cb # Idle BY <1>8 DEF Reissue
  <2>2. mandatory' \in [Seqs -> [Lines -> Seq(Kinds)]]
    BY <1>0, <1>8, <2>1, CallbackFacts, IssueTypes DEF Reissue, TypeOK
  <2> QED BY <1>0, <1>8, <2>2 DEF Reissue, TypeOK
<1>9. ASSUME NEW l \in Lines, RemoteWrite(l) \/ RemoteRead(l) \/ L2Repl(l) PROVE TypeOK'
  <2>1. CASE RemoteWrite(l)
    <3>1. monitor' \in [Seqs -> SUBSET Lines] /\ stale' \in [Seqs -> SUBSET Lines]
          /\ perm' \in [Lines -> {"I", "S", "M"}] /\ broken' \subseteq Seqs
      BY <1>0, <2>1 DEF RemoteWrite, EvictionCallback, TypeOK
    <3> QED BY <1>0, <2>1, <3>1 DEF RemoteWrite, TypeOK
  <2>2. CASE RemoteRead(l)
    BY <1>0, <2>2 DEF RemoteRead, TypeOK
  <2>3. CASE L2Repl(l)
    <3>1. monitor' \in [Seqs -> SUBSET Lines] /\ perm' \in [Lines -> {"I", "S", "M"}]
      BY <1>0, <2>3 DEF L2Repl, EvictionCallback, TypeOK
    <3> QED BY <1>0, <2>3, <3>1 DEF L2Repl, TypeOK
  <2> QED BY <1>9, <2>1, <2>2, <2>3
<1>10. ASSUME NEW s \in Seqs, Drain(s) \/ Resume(s) \/ Wakeup(s) PROVE TypeOK'
  <2>1. drain' \in [Seqs -> {"Running", "Draining", "Drained"}]
    BY <1>0, <1>10, Zenon DEF Drain, Resume, Wakeup, TypeOK
  <2>2. watch' \in [Seqs -> BOOLEAN]
    <3>1. watch \in [Seqs -> BOOLEAN] BY <1>0 DEF TypeOK
    <3>2. \A b \in BOOLEAN : [watch EXCEPT ![s] = b] \in [Seqs -> BOOLEAN]
      BY <3>1, Zenon
    <3>3. (count[s] > 0) \in BOOLEAN OBVIOUS
    <3>4. \/ watch' = watch
          \/ watch' = [watch EXCEPT ![s] = FALSE]
          \/ watch' = [watch EXCEPT ![s] = count[s] > 0]
      BY <1>10, Zenon DEF Drain, Resume, Wakeup
    <3> QED BY <3>1, <3>2, <3>3, <3>4, Zenon
  <2> QED BY <1>0, <1>10, <2>1, <2>2 DEF Drain, Resume, Wakeup, TypeOK
<1>11. CASE UNCHANGED vars
  BY <1>0, <1>11 DEF vars, TypeOK
<1> QED BY <1>1, <1>2, <1>3, <1>4, <1>5, <1>6, <1>7, <1>8, <1>9, <1>10, <1>11, Zenon
        DEF Next, CallbackStep

-----------------------------------------------------------------------------
(* One request per line is with the controller.                            *)

LEMMA ListFacts ==
  ASSUME NEW S, NEW q \in Seq(S), NEW x \in S
  PROVE  /\ Append(q, x) # <<>>
         /\ q = <<>> => Append(q, x)[1] = x
         /\ q # <<>> => Append(q, x)[1] = q[1]
<1>1. CASE q = <<>>
  BY <1>1, AppendProperties, EmptySeq
<1>2. CASE q # <<>>
  <2>1. 1 \in 1 .. Len(q) BY <1>2, EmptySeq
  <2> QED BY <1>2, <2>1, AppendProperties
<1> QED BY <1>1, <1>2

LEMMA TailFacts ==
  ASSUME NEW S, NEW q \in Seq(S), q # <<>>
  PROVE  /\ Head(q) = q[1]
         /\ Len(q) = 1 <=> Tail(q) = <<>>
<1>1. Tail(q) \in Seq(S) /\ Len(Tail(q)) = Len(q) - 1 /\ Len(q) \in Nat
  BY HeadTailProperties, LenProperties
<1>2. Len(Tail(q)) = 0 <=> Tail(q) = <<>>
  BY <1>1, EmptySeq, Zenon
<1>3. Len(q) = 1 <=> Len(Tail(q)) = 0
  BY <1>1
<1>4. Head(q) = q[1]
  OBVIOUS
<1> QED BY <1>2, <1>3, <1>4

(* OneRubyRequest for one line. *)
OneOf(s, l) ==
  IF Serving(s, l)
  THEN mandatory[s][l] = <<>> /\ table[s][l] # <<>>
  ELSE mandatory[s][l] = IF table[s][l] = <<>> THEN <<>>
                         ELSE <<SecondaryType(table[s][l][1].type)>>

LEMMA OneOfAll ==
  /\ OneRubyRequest <=> \A s \in Seqs, l \in Lines : OneOf(s, l)
  /\ OneRubyRequest' <=> \A s \in Seqs, l \in Lines : OneOf(s, l)'
  BY DEF OneRubyRequest, OneOf

(* A line whose queues and service do not change stays as it should be. *)
LEMMA OneOfKept ==
  ASSUME NEW s, NEW l, OneOf(s, l), table'[s][l] = table[s][l],
         mandatory'[s][l] = mandatory[s][l], Serving(s, l)' <=> Serving(s, l)
  PROVE  OneOf(s, l)'
  BY DEF OneOf

(* The line that is being served is the one of the callback. *)
LEMMA ServingIs ==
  ASSUME TypeOK', cb # Idle, cb' \in Callbacks, cb'.seq = cb.seq, cb'.line = cb.line
  PROVE  \A s \in Seqs, l \in Lines : Serving(s, l)' <=> Serving(s, l)
  BY ConstantsOK DEF Serving

(* recvTimingReq issues the request of an empty list and no other. *)
LEMMA RecvOneRequest ==
  ASSUME TypeOK, OneRubyRequest, NEW p \in Ports, NEW r \in Requests,
         RecvTimingReq(p, r),
         \A s \in Seqs, l \in Lines : Serving(s, l)' <=> Serving(s, l)
  PROVE  OneRubyRequest'
<1>1. p[1] \in Seqs /\ r.line \in Lines /\ r.type \in Types
  BY DEF Ports, Requests
<1>2. CASE Refused(p[1], r)
  BY <1>2 DEF RecvTimingReq, OneRubyRequest
<1>3. CASE ~Refused(p[1], r)
  <2> DEFINE e == [port |-> p, type |-> r.type]
             q == table[p[1]][r.line]
             k == SecondaryType(r.type)
  <2>1. e \in Entries /\ q \in Seq(Entries) /\ k \in Kinds /\ e.type = r.type
    <3>1. e \in Entries BY <1>1 DEF Entries
    <3>2. q \in Seq(Entries) BY <1>1 DEF TypeOK
    <3>3. k \in Kinds BY <1>1 DEF SecondaryType, Kinds
    <3> QED BY <3>1, <3>2, <3>3
  <2>2. table' = [table EXCEPT ![p[1]][r.line] = Append(q, e)]
    BY <1>3, SMTT(30) DEF RecvTimingReq, InsertRequest
  <2>3. table'[p[1]][r.line] = Append(q, e)
        /\ \A s \in Seqs, l \in Lines :
             (s # p[1] \/ l # r.line) => table'[s][l] = table[s][l]
    <3>1. table \in [Seqs -> [Lines -> Seq(Entries)]]
      BY DEF TypeOK
    <3>2. table'[p[1]][r.line] = Append(q, e)
      BY <1>1, <2>2, <3>1
    <3>3. \A s \in Seqs, l \in Lines :
            (s # p[1] \/ l # r.line) => table'[s][l] = table[s][l]
      BY <1>1, <2>2, <3>1
    <3> QED BY <3>2, <3>3
  <2>4. \A s \in Seqs, l \in Lines :
          (s # p[1] \/ l # r.line) => mandatory'[s][l] = mandatory[s][l]
    <3>1. \/ mandatory' = mandatory
          \/ mandatory' = [mandatory EXCEPT ![p[1]][r.line] = Append(@, k)]
      BY <1>3 DEF RecvTimingReq, InsertRequest, Issue
    <3>2. CASE mandatory' = mandatory BY <3>2
    <3>3. CASE mandatory' = [mandatory EXCEPT ![p[1]][r.line] = Append(@, k)]
      BY <1>1, <3>3 DEF TypeOK
    <3> QED BY <3>1, <3>2, <3>3
  <2>5. CASE q = <<>>
    <3>1. ~Serving(p[1], r.line) /\ mandatory[p[1]][r.line] = <<>>
      BY <1>1, <2>5, Zenon DEF OneRubyRequest
    <3>2. mandatory' = [mandatory EXCEPT ![p[1]][r.line] = Append(<<>>, k)]
      BY <1>3, <2>5, <3>1 DEF RecvTimingReq, InsertRequest, Issue
    <3>3. mandatory'[p[1]][r.line] = <<k>>
      BY <1>1, <3>2 DEF TypeOK
    <3>4. table'[p[1]][r.line] # <<>> /\ table'[p[1]][r.line][1] = e
      BY <2>1, <2>3, <2>5, ListFacts
    <3> HIDE DEF e, q, k
    <3>5. k = SecondaryType(table'[p[1]][r.line][1].type)
      BY <2>1, <3>4 DEF k
    <3>6. ~Serving(p[1], r.line)' BY <1>1, <3>1
    <3>7. OneOf(p[1], r.line)' BY <3>3, <3>4, <3>5, <3>6, SMTT(30) DEF OneOf
    <3> QED BY <1>1, <2>3, <2>4, <3>7, OneOfAll, OneOfKept
  <2>6. CASE q # <<>>
    <3>1. mandatory' = mandatory
      BY <1>3, <2>6 DEF RecvTimingReq, InsertRequest
    <3>2. table'[p[1]][r.line] # <<>> /\ table'[p[1]][r.line][1] = q[1]
      <4> HIDE DEF e, q
      <4> QED BY <2>1, <2>3, <2>6, ListFacts
    <3>3. OneOf(p[1], r.line)
      BY <1>1, OneOfAll
    <3>4. Serving(p[1], r.line)' <=> Serving(p[1], r.line)
      BY <1>1
    <3>5. OneOf(p[1], r.line)'
      BY <2>6, <3>1, <3>2, <3>3, <3>4 DEF OneOf
    <3> QED BY <1>1, <2>3, <2>4, <3>5, OneOfAll, OneOfKept
  <2> QED BY <2>5, <2>6
<1> QED BY <1>2, <1>3

(* The callback takes the only request of the line. *)
LEMMA StartOneRequest ==
  ASSUME TypeOK, OneRubyRequest, NEW s \in Seqs, NEW l \in Lines, cb = Idle,
         mandatory[s][l] # <<>>, StartCallback(s, l), UNCHANGED table
  PROVE  OneRubyRequest'
<1>1. cb' # Idle /\ cb'.seq = s /\ cb'.line = l
  BY StartTypes, ConstantsOK, Zenon
<1>2. \A t \in Seqs, m \in Lines : ~Serving(t, m)
  BY DEF Serving
<1>3. \A t \in Seqs, m \in Lines : Serving(t, m)' <=> t = s /\ m = l
  BY <1>1 DEF Serving
<1>4. table[s][l] # <<>> /\ mandatory[s][l] = <<SecondaryType(table[s][l][1].type)>>
  BY <1>2, Zenon DEF OneRubyRequest
<1>5. Tail(mandatory[s][l]) = <<>>
  BY <1>4
<1>6. mandatory' = [mandatory EXCEPT ![s][l] = <<>>]
  BY <1>5, Zenon DEF StartCallback
<1>7. mandatory'[s][l] = <<>>
      /\ \A t \in Seqs, m \in Lines : (t # s \/ m # l) => mandatory'[t][m] = mandatory[t][m]
  BY <1>6 DEF TypeOK
<1> QED BY <1>2, <1>3, <1>4, <1>7 DEF OneRubyRequest

(* Every action keeps OneRubyRequest. *)
LEMMA OneRequestStep == IInv /\ [Next]_vars => OneRubyRequest'
<1> SUFFICES ASSUME IInv, [Next]_vars PROVE OneRubyRequest'
  OBVIOUS
<1>0. TypeOK /\ OneRubyRequest /\ RefusedListed /\ TypeOK'
  BY TypeStep DEF IInv
<1>1. ASSUME NEW p \in Ports, NEW l \in Lines, NEW type \in Types,
             Send(p, [type |-> type, line |-> l])
      PROVE  OneRubyRequest'
  <2>1. [type |-> type, line |-> l] \in Requests BY DEF Requests
  <2>2. \A s \in Seqs, m \in Lines : Serving(s, m)' <=> Serving(s, m)
    BY <1>1 DEF Send, Serving
  <2> QED BY <1>0, <1>1, <2>1, <2>2, RecvOneRequest DEF Send
<1>2. ASSUME NEW s \in Seqs, NEW l \in Lines, Hit(s, l) \/ Fill(s, l) PROVE OneRubyRequest'
  BY <1>0, <1>2, StartOneRequest DEF Hit, Fill
<1>3. CASE HitCallback
  <2>1. cb # Idle /\ cb \in Callbacks
    BY <1>0, <1>3, CallbackFacts DEF HitCallback
  <2>2. cb' = [cb EXCEPT !.hit = TRUE, !.cur = retry[cb.seq]]
    BY <1>3 DEF HitCallback
  <2>3. cb'.seq = cb.seq /\ cb'.line = cb.line /\ cb' # Idle
    <3>1. retry[cb.seq] \in Seq(Ports) BY <1>0, <2>1, CallbackFacts DEF TypeOK
    <3>2. cb' \in Callbacks BY <2>1, <2>2, <3>1, Zenon DEF Callbacks
    <3> QED BY <2>1, <2>2, <3>2, ConstantsOK, Zenon DEF Callbacks
  <2>4. \A s \in Seqs, l \in Lines : Serving(s, l)' <=> Serving(s, l)
    BY <2>1, <2>3 DEF Serving
  <2> QED BY <1>0, <1>3, <2>4 DEF HitCallback, OneRubyRequest
<1>4. CASE SendRetryReq
  <2>1. cb # Idle /\ cb.cur # <<>> BY <1>4 DEF SendRetryReq
  <2>2. cb \in Callbacks /\ cb.cur \in Seq(Ports) BY <1>0, <2>1, CallbackFacts
  <2>3. Head(cb.cur) \in Ports /\ Tail(cb.cur) \in Seq(Ports) BY <2>1, <2>2, SeqFacts
  <2>4. pend[Head(cb.cur)] \in Requests BY <1>0, <2>1, PendingHead
  <2>5. cb' \in Callbacks /\ cb'.seq = cb.seq /\ cb'.line = cb.line
    BY <1>4, <2>2, <2>3, Zenon DEF SendRetryReq, Callbacks
  <2>6. \A s \in Seqs, l \in Lines : Serving(s, l)' <=> Serving(s, l)
    BY <1>0, <2>1, <2>5, ServingIs
  <2> QED BY <1>0, <1>4, <2>3, <2>4, <2>6, RecvOneRequest DEF SendRetryReq
<1>5. CASE PopFront
  <2>1. cb # Idle BY <1>5 DEF PopFront
  <2>0. PICK s \in Seqs, l \in Lines : s = cb.seq /\ l = cb.line
    BY <1>0, <2>1, CallbackFacts
  <2>2. /\ cb \in Callbacks
        /\ table[s][l] \in Seq(Entries) /\ table[s][l] # <<>> /\ mandatory[s][l] = <<>>
    BY <1>0, <2>0, <2>1, CallbackFacts
  <2>3. table' = [table EXCEPT ![s][l] = Tail(table[s][l])] /\ mandatory' = mandatory
        /\ cb' = IF Len(table[s][l]) = 1 THEN Idle ELSE [cb EXCEPT !.hit = FALSE]
    BY <1>5, <2>0 DEF PopFront
  <2>4. table'[s][l] = Tail(table[s][l])
        /\ \A t \in Seqs, m \in Lines : (t # s \/ m # l) => table'[t][m] = table[t][m]
    BY <1>0, <2>2, <2>3 DEF TypeOK
  <2>5. \A t \in Seqs, m \in Lines : Serving(t, m) <=> t = s /\ m = l
    BY <2>0, <2>1 DEF Serving
  <2>6. Len(table[s][l]) = 1 <=> Tail(table[s][l]) = <<>>
    BY <2>2, TailFacts
  <2>7. CASE Len(table[s][l]) = 1
    <3>1. \A t \in Seqs, m \in Lines : ~Serving(t, m)'
      BY <2>3, <2>7 DEF Serving
    <3>2. OneOf(s, l)' BY <2>2, <2>3, <2>4, <2>6, <2>7, <3>1, Zenon DEF OneOf
    <3>3. \A t \in Seqs, m \in Lines : (t # s \/ m # l) => OneOf(t, m)'
      BY <1>0, <2>3, <2>4, <2>5, <3>1, OneOfAll, OneOfKept
    <3> QED BY <3>2, <3>3, OneOfAll
  <2>8. CASE Len(table[s][l]) # 1
    <3>1. cb' \in Callbacks /\ cb'.seq = s /\ cb'.line = l
      BY <2>0, <2>2, <2>3, <2>8, Zenon DEF Callbacks
    <3>2. \A t \in Seqs, m \in Lines : Serving(t, m)' <=> Serving(t, m)
      BY <1>0, <2>0, <2>1, <3>1, ServingIs
    <3>3. OneOf(s, l)' BY <2>2, <2>3, <2>4, <2>5, <2>6, <2>8, <3>2 DEF OneOf
    <3>4. \A t \in Seqs, m \in Lines : (t # s \/ m # l) => OneOf(t, m)'
      BY <1>0, <2>3, <2>4, <2>5, <3>2, OneOfAll, OneOfKept, SMTT(30)
    <3> QED BY <3>3, <3>4, OneOfAll
  <2> QED BY <2>7, <2>8
<1>6. CASE Reissue
  <2>1. cb # Idle BY <1>6 DEF Reissue
  <2> DEFINE s == cb.seq  l == cb.line  k == SecondaryType(Front.type)
  <2>2. /\ s \in Seqs /\ l \in Lines /\ table[s][l] \in Seq(Entries)
        /\ table[s][l] # <<>> /\ mandatory[s][l] = <<>>
    BY <1>0, <2>1, CallbackFacts
  <2>3. Front = table[s][l][1]
    BY <2>2 DEF Front
  <2>4. mandatory' = [mandatory EXCEPT ![s][l] = Append(<<>>, k)] /\ table' = table /\ cb' = Idle
    BY <1>6, <2>2 DEF Reissue, Issue
  <2>5. mandatory'[s][l] = <<k>>
        /\ \A t \in Seqs, m \in Lines : (t # s \/ m # l) => mandatory'[t][m] = mandatory[t][m]
    BY <1>0, <2>2, <2>4 DEF TypeOK
  <2>6. \A t \in Seqs, m \in Lines : ~Serving(t, m)' /\ (Serving(t, m) <=> t = s /\ m = l)
    BY <2>1, <2>4 DEF Serving
  <2>7. k = SecondaryType(table[s][l][1].type) BY <2>3
  <2> HIDE DEF s, l, k
  <2> QED BY <1>0, <2>2, <2>4, <2>5, <2>6, <2>7 DEF OneRubyRequest
<1>7. ASSUME UNCHANGED <<table, mandatory, cb>> PROVE OneRubyRequest'
  BY <1>0, <1>7 DEF OneRubyRequest, Serving
<1>8. ASSUME NEW l \in Lines,
             RemoteWrite(l) \/ RemoteRead(l) \/ L2Repl(l) \/ \E s \in Seqs : L1Repl(s, l)
      PROVE  OneRubyRequest'
  BY <1>7, <1>8, SMTT(30) DEF RemoteWrite, RemoteRead, L2Repl, L1Repl
<1>9. ASSUME NEW s \in Seqs, Drain(s) \/ Resume(s) \/ Wakeup(s) PROVE OneRubyRequest'
  BY <1>7, <1>9 DEF Drain, Resume, Wakeup
<1>10. CASE UNCHANGED vars
  BY <1>7, <1>10 DEF vars
<1> QED BY <1>1, <1>2, <1>3, <1>4, <1>5, <1>6, <1>8, <1>9, <1>10, Zenon DEF Next, CallbackStep
=============================================================================
