------------------------------ MODULE CorePair ------------------------------
(***************************************************************************)
(* The CorePair controllers (MOESI_AMD_Base-CorePair.sm) for one line: two *)
(* CPU cores (clusters 0 and 1) with an L1 data cache each, a shared L1    *)
(* instruction cache and a shared inclusive L2 that talks to the           *)
(* directory.                                                              *)
(*                                                                         *)
(* A controller state is a pair <<name, k>>: k is the cluster the source   *)
(* puts in the state's name, and 2 where it names none or both.            *)
(*                                                                         *)
(*   <<"E",k>> Ek            <<"M",k>> Mk          <<"I_M",k>> I_Mk        *)
(*   <<"I_MM",0>> I_M0M1     <<"I_MM",1>> I_M1M0   <<"I_MMs",k>> I_MkMs    *)
(*   <<"I_ES",k>> I_EkS      <<"I_ES",2>> I_ES     <<"IF_ES",k>> IF_EkS    *)
(*   <<"IF_ES",2>> IF_ES     <<"IFx_ES",k>> IFk_ES <<"F_S",k>> F_Sk        *)
(*   <<"S_F",k>> S_Fk        <<"S_F",2>> S_F       and so O_F, Es_F, Ms_F  *)
(*   <<"E_F",k>> Ek_F        <<"E_Es",k>> Ek_Es    <<"M_F",k>> Mk_F        *)
(*   <<"M_Ms",k>> Mk_Ms      <<"Si_F",k>> Si_Fk    <<"S_M",k>> S_Mk        *)
(*   <<"O_M",k>> O_Mk        <<"MO_S",k>> MO_Sk    <<"Sk",k>> Sk           *)
(*   <<"Sk_C",k>> Sk_C       and <<x,2>> for I, S, Es, O, Ms, ES_I, MO_I,  *)
(*   I_C and S_C.                                                          *)
(*                                                                         *)
(* The data an L1 holds is never used (the L2 supplies every load), so an  *)
(* L1 is the set of tags present.  The TBE has the only data in the states *)
(* that have one, so one data block and Dirty bit stand for both.          *)
(***************************************************************************)
EXTENDS Directory

CONSTANTS Ops,     \* what CPU cores do: subset of {"LD", "ST", "IF"}
          Repls,   \* the replacements that happen: subset of {"L1", "L2"}
          CPUWord, CPUValue  \* the words CPU cores store to, the values they store

VARIABLES
  cp,      \* the controllers: state s, L1 tags, L2 data and Dirty, pending
           \* L2_to_L1 triggers, outstanding request of each cluster
  golden   \* history: the line as the last store or GPU write left it

Cluster == {0, 1}
D(k)    == IF k = 0 THEN "D0" ELSE "D1"
Ds      == {"D0", "D1"}

(* The states of a group, for one cluster, for each of them or for none.   *)
One(names, k) == {<<x, k>> : x \in names}
Each(names)   == {<<x, k>> : x \in names, k \in Cluster}
Both(names)   == One(names, 2)

CPState ==
  Both({"I", "S", "Es", "O", "Ms", "ES_I", "MO_I", "I_C", "S_C"})
  \cup Each({"E", "M", "I_M", "I_MM", "I_MMs", "IFx_ES", "F_S", "E_F", "E_Es",
             "M_F", "M_Ms", "Si_F", "S_M", "O_M", "MO_S", "Sk", "Sk_C"})
  \cup Each({"I_ES", "IF_ES", "S_F", "O_F", "Es_F", "Ms_F"})
  \cup Both({"I_ES", "IF_ES", "S_F", "O_F", "Es_F", "Ms_F"})

CPRecord == [s : CPState, l1 : SUBSET {"D0", "D1", "I"}, data : Line,
             dirty : BOOLEAN, fills : SUBSET {"D0", "D1", "I"},
             out : [Cluster -> {"none", "LD", "ST", "IF"}]]

CPInit ==
  cp = [n \in CorePairs |->
         [s |-> <<"I", 2>>, l1 |-> {}, data |-> ZeroLine, dirty |-> FALSE,
          fills |-> {}, out |-> [k \in Cluster |-> "none"]]]

(* The permission a state gives on the copy; S_C has data that instruction *)
(* fetches hit.                                                            *)
Writable ==
  Both({"Es", "Ms"}) \cup Each({"E", "M", "E_F", "E_Es", "M_F", "M_Ms",
  "Es_F", "Ms_F"}) \cup Both({"Es_F", "Ms_F"})
Readable ==
  Both({"S", "O", "ES_I", "MO_I", "S_C", "S_F", "O_F"})
  \cup Each({"S_F", "O_F", "Si_F", "S_M", "O_M", "MO_S"})
PermOf(s) ==
  IF s \in Writable THEN "write" ELSE IF s \in Readable THEN "read" ELSE "none"

-----------------------------------------------------------------------------
(* Steps of a controller.  c is the controller's record; each operator     *)
(* gives the new one.                                                      *)

(* i2_invL2, a2_allocateL2: an entry without data.                         *)
NoData(c) == [c EXCEPT !.data = ZeroLine, !.dirty = FALSE]

Goto(c, s) == [c EXCEPT !.s = s]

(* Mutant of Done: a response to both clusters answers only the first.     *)
DoneFirst(c, ks) ==
  [c EXCEPT !.out = [k \in Cluster |->
     IF k \in ks /\ (k = 0 \/ 0 \notin ks) THEN "none" ELSE @[k]]]

(* The loadDone actions: the requests of clusters ks are answered.         *)
Done(c, ks) == [c EXCEPT !.out = [k \in Cluster |-> IF k \in ks THEN "none" ELSE @[k]]]

(* s0_storeDone and its kin: the store of cluster k makes word w be v.     *)
Stored(c, k, w, v) ==
  [Done(c, {k}) EXCEPT !.data = [@ EXCEPT ![w] = v], !.dirty = TRUE]

(* n, nM, nS, vd, vc: requests to the directory.                           *)
Send(n, types) == reqs' = reqs \o [i \in 1 .. Len(types) |-> Plain(n, types[i])]

(* What a step on behalf of a core leaves alone.                           *)
NoMessages == UNCHANGED <<probes, resps, unblocks, rsps, dmaReqs, dmaRsps>>

-----------------------------------------------------------------------------
(* Loads, stores and instruction fetches.  A core has at most one request  *)
(* outstanding for the line.                                               *)
Idle(n, k, op) == op \in Ops /\ cp[n].out[k] = "none"
Take(c, k, op) == [c EXCEPT !.out[k] = op]

(* A load that misses in L1 and L2, or joins the other cluster's miss.     *)
LoadMissI(n, k) ==
  LET c == cp[n]
  IN  /\ Idle(n, k, "LD") /\ D(k) \notin c.l1
      /\ \/ /\ c.s = <<"I", 2>>
            /\ cp' = [cp EXCEPT ![n] =
                       [Goto(NoData(Take(c, k, "LD")), <<"I_ES", k>>) EXCEPT !.l1 = {D(k)}]]
            /\ Send(n, <<"RdBlk">>)
         \/ /\ c.s \in One({"I_M", "I_ES"}, 1 - k)
            /\ cp' = [cp EXCEPT ![n] =
                       [Goto(Take(c, k, "LD"), IF c.s[1] = "I_M" THEN <<"I_MMs", 1 - k>>
                                               ELSE <<"I_ES", 2>>)
                        EXCEPT !.l1 = @ \cup {D(k)}]]
            /\ UNCHANGED reqs
      /\ NoMessages /\ UNCHANGED golden

(* A load that misses in L1 and hits in the L2 starts a fill of the L1;    *)
(* the state remembers whose.                                              *)
FillState(s, k) ==
  CASE s \in Both({"S", "Es", "O", "Ms"}) ->
         << [S |-> "S_F", Es |-> "Es_F", O |-> "O_F", Ms |-> "Ms_F"][s[1]], k>>
    [] s = <<"E", k>>     -> <<"E_F", k>>
    [] s = <<"M", k>>     -> <<"M_F", k>>
    [] s = <<"E", 1 - k>> -> <<"E_Es", 1 - k>>
    [] s = <<"M", 1 - k>> -> <<"M_Ms", 1 - k>>
    [] s = <<"S_F", 1 - k>> -> <<"S_F", 2>>
    [] s = <<"O_F", 1 - k>> -> <<"O_F", 2>>
    [] s \in {<<"E_Es", k>>, <<"E_F", 1 - k>>, <<"Es_F", 1 - k>>} -> <<"Es_F", 2>>
    [] s \in {<<"M_Ms", k>>, <<"M_F", 1 - k>>, <<"Ms_F", 1 - k>>} -> <<"Ms_F", 2>>

FillFrom(k) ==
  Both({"S", "Es", "O", "Ms"}) \cup Each({"E", "M"}) \cup One({"E_Es", "M_Ms"}, k)
  \cup One({"S_F", "O_F", "E_F", "M_F", "Es_F", "Ms_F"}, 1 - k)

LoadFill(n, k) ==
  LET c == cp[n]
  IN  /\ Idle(n, k, "LD") /\ D(k) \notin c.l1 /\ c.s \in FillFrom(k)
      /\ cp' = [cp EXCEPT ![n] =
                 [Goto(Take(c, k, "LD"), FillState(c.s, k)) EXCEPT
                    !.l1 = @ \cup {D(k)}, !.fills = @ \cup {D(k)}]]
      /\ NoMessages /\ UNCHANGED <<reqs, golden>>

(* A store to a line the L2 owns exclusively is done at once and takes the *)
(* line from the other cluster's L1.                                       *)
StoreNow(k) == Both({"Es", "Ms"}) \cup Each({"M"}) \cup {<<"E", k>>}

StoreHit(n, k, w, v) ==
  LET c == cp[n]
  IN  /\ Idle(n, k, "ST")
      /\ c.s \in StoreNow(k) \/ (c.s = <<"E", 1 - k>> /\ D(k) \notin c.l1)
      /\ cp' = [cp EXCEPT ![n] =
                 [Goto(Stored(c, k, w, v), <<"M", k>>) EXCEPT
                    !.l1 = (@ \cup {D(k)}) \ {D(1 - k)}]]
      /\ golden' = [golden EXCEPT ![w] = v]
      /\ NoMessages /\ UNCHANGED reqs

(* Other stores ask for the line, or join the other cluster's store miss.  *)
StoreMiss(n, k) ==
  LET c == cp[n]
  IN  /\ Idle(n, k, "ST")
      /\ \/ /\ c.s \in Both({"S", "O"}) \/ (c.s = <<"I", 2>> /\ D(k) \notin c.l1)
            /\ cp' = [cp EXCEPT ![n] =
                       [Goto(Take(c, k, "ST"), <<[I |-> "I_M", S |-> "S_M", O |-> "O_M"][c.s[1]], k>>)
                        EXCEPT !.l1 = {D(k)}]]
            /\ Send(n, <<"RdBlkM">>)
         \/ /\ c.s = <<"I_M", 1 - k>> /\ D(k) \notin c.l1
            /\ cp' = [cp EXCEPT ![n] =
                       [Goto(Take(c, k, "ST"), <<"I_MM", 1 - k>>) EXCEPT !.l1 = @ \cup {D(k)}]]
            /\ UNCHANGED reqs
      /\ NoMessages /\ UNCHANGED golden

(* Instruction fetches need the line Shared: an exclusive clean copy is    *)
(* dropped, a Shared one fills the L1I, a dirty one is written back first. *)
IfetchDrop(n, k) ==
  /\ cp[n].s \in Both({"I", "Es"}) \cup Each({"E"})
  /\ cp' = [cp EXCEPT ![n] = [Goto(NoData(Take(@, k, "IF")), <<"Sk", k>>) EXCEPT
                                !.l1 = {"I"}]]
  /\ Send(n, <<"RdBlkS">>)

IfetchFill(n, k) ==
  /\ cp[n].s = <<"S", 2>>
  /\ cp' = [cp EXCEPT ![n] = [Goto(Take(@, k, "IF"), <<"Si_F", k>>) EXCEPT
                                !.l1 = @ \cup {"I"}, !.fills = {"I"}]]
  /\ UNCHANGED reqs

IfetchVictim(n, k) ==
  /\ cp[n].s \in Both({"Ms", "O"}) \cup Each({"M"})
  /\ cp' = [cp EXCEPT ![n] = [Goto(Take(@, k, "IF"), <<"MO_S", k>>) EXCEPT
                                !.l1 = {"I"}]]
  /\ Send(n, <<"VicDirty">>)

IfetchMiss(n, k) ==
  /\ Idle(n, k, "IF") /\ "I" \notin cp[n].l1
  /\ IfetchDrop(n, k) \/ IfetchFill(n, k) \/ IfetchVictim(n, k)
  /\ NoMessages /\ UNCHANGED golden

-----------------------------------------------------------------------------
(* Replacements, caused by requests for other lines.                       *)

(* The states in which a load of cluster k hits its L1; in these the L1    *)
(* may also drop the line.                                                 *)
LoadHit(k) ==
  Both({"S", "Es", "O", "Ms"}) \cup One({"E", "M", "E_Es", "M_Ms"}, k)
  \cup Each({"Si_F"}) \cup One({"O_F", "S_F", "Es_F", "Ms_F"}, 1 - k)

(* The states in which the instruction cache may drop the line.            *)
L1IDrop == Both({"S", "S_C"}) \cup Each({"S_F"})

L1Repl(n, x) ==
  LET c == cp[n]
  IN  /\ "L1" \in Repls /\ x \in c.l1
      /\ c.s \in CASE x = "D0" -> LoadHit(0) [] x = "D1" -> LoadHit(1)
                   [] x = "I" -> L1IDrop
      /\ cp' = [cp EXCEPT ![n].l1 = @ \ {x}]
      /\ NoMessages /\ UNCHANGED <<reqs, golden>>

L2Repl(n) ==
  LET c == cp[n]
  IN  /\ "L2" \in Repls
      /\ \/ /\ c.s \in Both({"S", "Es"}) \cup Each({"E"})
            /\ cp' = [cp EXCEPT ![n] = [Goto(c, <<"ES_I", 2>>) EXCEPT !.l1 = {}]]
            /\ Send(n, <<"VicClean">>)
         \/ /\ c.s \in Both({"Ms", "O"}) \cup Each({"M"})
            /\ cp' = [cp EXCEPT ![n] = [Goto(c, <<"MO_I", 2>>) EXCEPT !.l1 = @ \ Ds]]
            /\ Send(n, <<"VicDirty">>)
      /\ NoMessages /\ UNCHANGED golden

-----------------------------------------------------------------------------
(* L2_to_L1 triggers: the fill of L1 x completes the load that caused it,  *)
(* unless a probe took the line meanwhile.                                 *)
(* Mutant of FillEnd: the first of two fills ends the filling state.       *)
FillEndEarly(s, x) ==
  IF x # "I" /\ s[1] \in {"S_F", "O_F", "Es_F", "Ms_F"}
    THEN << [S_F |-> "S", O_F |-> "O", Es_F |-> "Es", Ms_F |-> "Ms"][s[1]], 2>>
    ELSE s

FillEnd(s, x) ==
  LET k == IF x = "D0" THEN 0 ELSE 1
  IN  CASE x = "I" /\ s[1] = "Si_F" -> <<"S", 2>>
        [] x = "I" /\ s[1] = "F_S"  -> <<"Sk", s[2]>>
        [] x # "I" /\ s \in One({"S_F", "O_F", "Es_F", "Ms_F"}, k) ->
             << [S_F |-> "S", O_F |-> "O", Es_F |-> "Es", Ms_F |-> "Ms"][s[1]], 2>>
        [] x # "I" /\ s \in Both({"S_F", "O_F", "Es_F", "Ms_F"}) -> <<s[1], 1 - k>>
        [] x # "I" /\ s \in One({"E_F", "M_F"}, k) ->
             <<IF s[1] = "E_F" THEN "E" ELSE "M", k>>
        [] x # "I" /\ s \in One({"E_Es", "M_Ms"}, 1 - k) ->
             <<IF s[1] = "E_Es" THEN "Es" ELSE "Ms", 2>>
        [] x # "I" /\ s = <<"IF_ES", k>>  -> <<"I_ES", k>>
        [] x # "I" /\ s = <<"IF_ES", 2>>  -> <<"IFx_ES", 1 - k>>
        [] x # "I" /\ s = <<"IFx_ES", k>> -> <<"I_ES", 2>>
        [] OTHER -> s

Dropped == Each({"IF_ES", "IFx_ES", "F_S"}) \cup Both({"IF_ES"})

Filled(n, x) ==
  LET c  == cp[n]
      ks == IF c.s \in Dropped THEN {}
            ELSE IF x = "I" THEN {c.s[2]} ELSE {IF x = "D0" THEN 0 ELSE 1}
  IN  /\ x \in c.fills /\ FillEnd(c.s, x) # c.s
      /\ cp' = [cp EXCEPT ![n] =
                 [Goto(Done(c, ks), FillEnd(c.s, x)) EXCEPT !.fills = @ \ {x}]]
      /\ NoMessages /\ UNCHANGED <<reqs, golden>>

-----------------------------------------------------------------------------
(* Responses of the directory.                                             *)
Unblock(n, m) ==
  /\ unblocks' = unblocks \cup {n}
  /\ rsps' = rsps \ {m}
  /\ UNCHANGED <<reqs, probes, resps, dmaReqs, dmaRsps>>

(* w0_writeDcache, w1_writeDcache, wi_writeIcache                          *)
Written(c, m) == [c EXCEPT !.data = m.data, !.dirty = m.dirty]

ToCore(n, m, type, state) ==
  m \in rsps /\ m.to = n /\ m.type = type /\ m.state = state

NB_AckS(n, m) ==
  LET c == cp[n]
      k == c.s[2]
  IN  /\ ToCore(n, m, "NBSysResp", "Shared")
      /\ c.s \in Each({"Sk", "Sk_C", "I_ES"}) \cup Both({"I_ES"})
      /\ cp' = [cp EXCEPT ![n] =
                 Goto(Done(Written(c, m), IF k = 2 THEN Cluster ELSE {k}),
                      IF c.s[1] = "Sk_C" THEN <<"S_C", 2>> ELSE <<"S", 2>>)]
      /\ Unblock(n, m) /\ UNCHANGED golden

NB_AckE(n, m) ==
  LET c == cp[n]
      k == c.s[2]
  IN  /\ ToCore(n, m, "NBSysResp", "Exclusive")
      /\ c.s \in Each({"I_ES"}) \cup Both({"I_ES"})
      /\ cp' = [cp EXCEPT ![n] =
                 Goto(Done(Written(c, m), IF k = 2 THEN Cluster ELSE {k}),
                      IF k = 2 THEN <<"Es", 2>> ELSE <<"E", k>>)]
      /\ Unblock(n, m) /\ UNCHANGED golden

(* The store of cluster k is done with the data received, or in S_M and    *)
(* O_M with the data the L2 has.  In I_MM the other cluster's store (of    *)
(* u) follows at once, in I_MMs its load is filled next.                   *)
NB_AckM(n, m, w, v, u) ==
  LET c == cp[n]
      k == c.s[2]
  IN  /\ ToCore(n, m, "NBSysResp", "Modified")
      /\ \/ /\ c.s \in Each({"I_M", "S_M", "O_M"})
            /\ cp' = [cp EXCEPT ![n] =
                       Goto(Stored(IF c.s[1] = "I_M" THEN Written(c, m) ELSE c, k, w, v),
                            <<"M", k>>)]
            /\ golden' = [golden EXCEPT ![w] = v]
         \/ /\ c.s \in Each({"I_MM"})
            /\ cp' = [cp EXCEPT ![n] =
                       [Goto(Stored(Stored(Written(c, m), k, w, v), 1 - k, w, u),
                             <<"M", 1 - k>>) EXCEPT !.l1 = @ \ {D(k)}]]
            /\ golden' = [golden EXCEPT ![w] = u]
         \/ /\ c.s \in Each({"I_MMs"})
            /\ cp' = [cp EXCEPT ![n] =
                       [Goto(Stored(Written(c, m), k, w, v), <<"M_Ms", k>>) EXCEPT
                          !.fills = @ \cup {D(1 - k)}]]
            /\ golden' = [golden EXCEPT ![w] = v]
      /\ Unblock(n, m)

(* wb_data or ss_sendStaleNotification                                     *)
NB_AckWB(n, m) ==
  LET c == cp[n]
      k == c.s[2]
      Answer(type) ==
        resps' = resps \cup {[from |-> n, type |-> type, dirty |-> FALSE, hit |-> FALSE,
                              data |-> IF type = "CPUData" THEN c.data ELSE ZeroLine]}
  IN  /\ ToCore(n, m, "NBSysWBAck", "NA")
      /\ \/ /\ c.s \in Both({"MO_I", "ES_I"})
            /\ cp' = [cp EXCEPT ![n] = Goto(NoData(c), <<"I", 2>>)]
            /\ Answer("CPUData") /\ UNCHANGED reqs
         \/ /\ c.s \in Each({"MO_S"})
            /\ cp' = [cp EXCEPT ![n] = Goto(NoData(c), <<"Sk", k>>)]
            /\ Answer("CPUData") /\ Send(n, <<"RdBlkS">>)
         \/ /\ c.s \in Both({"I_C", "S_C"}) \cup Each({"Sk_C"})
            /\ cp' = [cp EXCEPT ![n] =
                       Goto(c, CASE c.s[1] = "I_C" -> <<"I", 2>>
                                 [] c.s[1] = "S_C" -> <<"S", 2>>
                                 [] c.s[1] = "Sk_C" -> <<"Sk", k>>)]
            /\ Answer("StaleNotif") /\ UNCHANGED reqs
      /\ rsps' = rsps \ {m}
      /\ UNCHANGED <<probes, unblocks, dmaReqs, dmaRsps, golden>>

-----------------------------------------------------------------------------
(* Probes of the directory.  It asks for the data with every probe, so an  *)
(* invalidation is always PrbInvData; PrbInv, which moves a controller in  *)
(* the same way and sends no data, does not occur.                         *)
Filling == {"S_F", "O_F", "Es_F", "Ms_F", "E_F", "M_F", "E_Es", "M_Ms"}

(* The cluster (or 2) whose L1 is being filled.                            *)
Filler(s) == IF s[1] \in {"E_Es", "M_Ms"} THEN 1 - s[2] ELSE s[2]

(* The states that answer with data.                                       *)
HasDirty(s) == s[1] \in {"Ms", "M", "O", "MO_I", "MO_S", "O_M", "Ms_F", "M_F",
                         "M_Ms", "O_F"}

(* Mutant of InvNext: an upgrade in progress survives an invalidation.     *)
InvNextUpgrade(s) ==
  CASE s[1] \in {"Ms", "M", "O", "Es", "E", "S", "I"} -> <<"I", 2>>
    [] s[1] \in {"S_C", "I_C", "ES_I", "MO_I"}        -> <<"I_C", 2>>
    [] s[1] = "MO_S"          -> <<"Sk_C", s[2]>>
    [] s[1] = "Si_F"          -> <<"F_S", s[2]>>
    [] s[1] \in Filling       -> <<"IF_ES", Filler(s)>>
    [] OTHER                  -> s

InvNext(s) ==
  CASE s[1] \in {"Ms", "M", "O", "Es", "E", "S", "I"} -> <<"I", 2>>
    [] s[1] \in {"S_C", "I_C", "ES_I", "MO_I"}        -> <<"I_C", 2>>
    [] s[1] = "MO_S"          -> <<"Sk_C", s[2]>>
    [] s[1] = "Si_F"          -> <<"F_S", s[2]>>
    [] s[1] \in {"S_M", "O_M"} -> <<"I_M", s[2]>>
    [] s[1] \in Filling       -> <<"IF_ES", Filler(s)>>
    [] OTHER                  -> s

(* The L1 tags kept or made room for in the state a probe leads to.        *)
Room(s) ==
  CASE s[1] \in {"I", "I_C"} -> {}
    [] s[1] \in {"Sk", "Sk_C", "F_S"} -> {"I"}
    [] s[1] \in {"I_M", "I_ES", "IF_ES"} /\ s[2] # 2 -> {D(s[2])}
    [] OTHER -> Ds

PrbResp(n, hit, dirty, data) ==
  [from |-> n, type |-> "CPUPrbResp", dirty |-> dirty, hit |-> hit, data |-> data]

PrbInvData(n, p) ==
  LET c == cp[n]
      d == HasDirty(c.s)
  IN  /\ p \in probes /\ p.to = n /\ p.type = "PrbInv" /\ c.s \notin Dropped
      /\ cp' = [cp EXCEPT ![n] =
                 [NoData(Goto(c, InvNext(c.s))) EXCEPT !.l1 = Room(InvNext(c.s))]]
      /\ resps' = resps \cup {PrbResp(n, d, d, IF d THEN c.data ELSE ZeroLine)}
      /\ Send(n, CASE c.s[1] \in Filling -> <<"RdBlk">>
                   [] c.s[1] \in {"MO_S", "Si_F"} -> <<"RdBlkS">>
                   [] OTHER -> <<>>)
      /\ probes' = probes \ {p}
      /\ UNCHANGED <<unblocks, rsps, dmaReqs, dmaRsps, golden>>

(* Mutants of ShrNext: a dirty owner becomes a mere sharer, or stays       *)
(* exclusive.                                                              *)
ShrNextClean(s) == IF s[1] \in {"Ms", "M", "O", "Es", "E"} THEN <<"S", 2>> ELSE s
ShrNextKeeps(s) == IF s[1] \in {"Es", "E"} THEN <<"S", 2>> ELSE s

ShrNext(s) ==
  CASE s[1] \in {"Ms", "M", "O"} -> <<"O", 2>>
    [] s[1] \in {"Es", "E", "S"} -> <<"S", 2>>
    [] s[1] \in {"Es_F", "E_F", "E_Es"} -> <<"S_F", Filler(s)>>
    [] s[1] \in {"Ms_F", "M_F", "M_Ms"} -> <<"O_F", Filler(s)>>
    [] OTHER -> s

(* The transition from Ms_F1, M1_F and M0_Ms has no actions: the probe     *)
(* stays in its buffer and is answered in the state it leads to.           *)
Unanswered(s) == s[1] \in {"Ms_F", "M_F", "M_Ms"} /\ Filler(s) = 1

PrbShrData(n, p) ==
  LET c == cp[n]
      d == HasDirty(c.s)
      h == c.s[1] \notin {"I", "I_C", "I_MM", "I_MMs"} /\ c.s # <<"I_ES", 2>>
  IN  /\ p \in probes /\ p.to = n /\ p.type = "PrbDowngrade" /\ c.s \notin Dropped
      /\ cp' = [cp EXCEPT ![n] = Goto(c, ShrNext(c.s))]
      /\ IF Unanswered(c.s)
           THEN UNCHANGED <<resps, probes>>
           ELSE /\ resps' = resps \cup {PrbResp(n, h, d, IF d THEN c.data ELSE ZeroLine)}
                /\ probes' = probes \ {p}
      /\ UNCHANGED <<reqs, unblocks, rsps, dmaReqs, dmaRsps, golden>>

-----------------------------------------------------------------------------
CPOwn(n) ==
  \/ \E k \in Cluster : LoadMissI(n, k) \/ LoadFill(n, k) \/ StoreMiss(n, k) \/ IfetchMiss(n, k)
  \/ \E k \in Cluster, w \in CPUWord, v \in CPUValue : StoreHit(n, k, w, v)
  \/ (\E x \in {"D0", "D1", "I"} : L1Repl(n, x)) \/ L2Repl(n)

CPAnswer(n) ==
  \/ \E x \in {"D0", "D1", "I"} : Filled(n, x)
  \/ \E m \in rsps : NB_AckS(n, m) \/ NB_AckE(n, m) \/ NB_AckWB(n, m)
  \/ \E m \in rsps, w \in CPUWord, v, u \in CPUValue : NB_AckM(n, m, w, v, u)
  \/ \E p \in probes : PrbInvData(n, p) \/ PrbShrData(n, p)

(* The states with a transition for a load (a store) of cluster k that     *)
(* hits or misses its L1 only to be recycled.                              *)
Blocked ==
  Both({"ES_I", "MO_I", "I_C", "S_C"}) \cup Each({"F_S", "MO_S", "Si_F", "Sk", "Sk_C"})
HitRecycle(k) ==
  Each({"I_MM", "I_MMs", "IFx_ES"}) \cup One({"E_Es", "M_Ms"}, 1 - k)
  \cup One({"I_M", "I_ES", "IF_ES", "S_F", "O_F", "S_M", "O_M", "Es_F", "E_F",
            "Ms_F", "M_F"}, k)
  \cup Both({"I_ES", "IF_ES", "S_F", "O_F", "Es_F", "Ms_F"})
LoadMissRecycle(k) == Blocked \cup One({"IF_ES", "S_M", "O_M"}, 1 - k)
StoreHitRecycle(k) ==
  HitRecycle(k) \cup Each({"S_F", "O_F", "Si_F", "Es_F", "E_Es", "Ms_F", "M_Ms"})
StoreMissRecycle(k) ==
  Blocked \cup One({"E_Es", "M_Ms"}, k)
  \cup One({"I_ES", "IF_ES", "S_F", "O_F", "S_M", "O_M", "Es_F", "E_F", "Ms_F", "M_F"}, 1 - k)
IfetchHit == Both({"S", "S_C", "S_F"}) \cup Each({"S_F"})
L1IRecycle == Each({"F_S", "MO_S", "Si_F", "Sk", "Sk_C"})

(* The events a controller may be given and has no transition for.         *)
CPUndeclared(n) ==
  LET c == cp[n]
      LoadOk(k)  == c.s \in IF D(k) \in c.l1 THEN LoadHit(k) \cup HitRecycle(k)
                            ELSE Both({"I"}) \cup FillFrom(k) \cup One({"I_M", "I_ES"}, 1 - k)
                                 \cup LoadMissRecycle(k)
      StoreOk(k) == c.s \in IF D(k) \in c.l1
                            THEN StoreNow(k) \cup Both({"S", "O"}) \cup StoreHitRecycle(k)
                            ELSE StoreNow(k) \cup Both({"S", "O", "I"}) \cup Each({"E"})
                                 \cup One({"I_M"}, 1 - k) \cup StoreMissRecycle(k)
      FetchOk    == c.s \in IF "I" \in c.l1 THEN IfetchHit \cup L1IRecycle
                            ELSE CPState \ L1IRecycle
      ReplOk(x)  == c.s \in CASE x = "D0" -> LoadHit(0) \cup HitRecycle(0)
                              [] x = "D1" -> LoadHit(1) \cup HitRecycle(1)
                              [] x = "I"  -> L1IDrop \cup L1IRecycle
      AckOk(m)   ==
        c.s[1] \in CASE m.type = "NBSysWBAck" -> {"MO_I", "ES_I", "MO_S", "I_C", "Sk_C", "S_C"}
                     [] m.state = "Shared"    -> {"Sk", "Sk_C", "I_ES", "IF_ES", "IFx_ES", "F_S"}
                     [] m.state = "Exclusive" -> {"I_ES", "IF_ES", "IFx_ES"}
                     [] OTHER                 -> {"I_M", "I_MM", "I_MMs", "S_M", "O_M"}
  IN  \/ \E k \in Cluster :
           /\ c.out[k] = "none"
           /\ \/ "LD" \in Ops /\ ~LoadOk(k)
              \/ "ST" \in Ops /\ ~StoreOk(k)
              \/ "IF" \in Ops /\ ~FetchOk
      \/ "L1" \in Repls /\ \E x \in c.l1 : ~ReplOk(x)
      \/ \E x \in c.fills : FillEnd(c.s, x) = c.s
      \/ \E m \in rsps : m.to = n /\ ~AckOk(m)
=============================================================================
