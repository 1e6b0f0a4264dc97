----------------------------- MODULE MCCoherence -----------------------------
(* CoherenceProtocol for TLC. *)
EXTENDS CoherenceProtocol

(* An atomic changes the word whenever there is another value.             *)
MCFunctor ==
  [v \in Value |-> [x \in Value |-> CHOOSE y \in Value : y # x \/ Value = {x}]]
=============================================================================
