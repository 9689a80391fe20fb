------------------------------ MODULE MCBitset ------------------------------
(* Instances of Bitset for TLC. *)
EXTENDS Bitset
=============================================================================
