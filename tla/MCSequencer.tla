----------------------------- MODULE MCSequencer -----------------------------
(* Sequencer for TLC. *)
EXTENDS Sequencer
=============================================================================
