------------------------------ MODULE MCRatchet ------------------------------
(* Instances of Ratchet for TLC. *)
EXTENDS Ratchet

(* Five messages are two chains, and keys skipped on both pass MaxSkippedKeys. *)
Sends == [alice |-> 5, bob |-> 2]
=============================================================================
