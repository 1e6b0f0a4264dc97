----------------------------- MODULE MCCoalescer -----------------------------
(* Coalescer for TLC: two wavefronts and three lines that share the two    *)
(* blocks of the TCP.  One loads two of the lines at a time, the other     *)
(* stores to one of them, updates the other and loads the third, and both  *)
(* invalidate.                                                             *)
EXTENDS Coalescer, TLC

CONSTANTS w1, w2, la, lb, lc

Inst(w, type, L) == [wave |-> w, type |-> type, lines |-> L]

MCKernel ==
  {Inst(w1, "LD", {la, lb}), Inst(w1, "INV_L1", {}), Inst(w2, "LD", {lc}),
   Inst(w2, "ST", {la}), Inst(w2, "ATOMIC", {lb}), Inst(w2, "INV_L1", {})}
=============================================================================
