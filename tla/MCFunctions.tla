---------------------------- MODULE MCFunctions -----------------------------
(***************************************************************************)
(* An instance for TLC of the functions without state and of the sequence  *)
(* number unwrappers, which use the same arithmetic.  They have nothing    *)
(* else in common, and no behaviour takes steps of both.                   *)
(***************************************************************************)
EXTENDS PureFunctions, SeqNumUnwrapper

\* A model value for None could not be compared with a number.
NoValue == -1

MCInit == InitFunctions /\ InitUnwrapper

FunctionsStep ==
  /\ last_value_ = None
  /\ DrawNumbers \/ DrawBlock
  /\ UNCHANGED unwrapperVars

UnwrapperStep ==
  /\ vars = <<0, 0, 0, 0>> /\ blocks = <<<<>>, <<>>>>
  /\ NextUnwrapper
  /\ UNCHANGED <<vars, blocks>>

MCSpec == MCInit /\ [][FunctionsStep \/ UnwrapperStep]_<<vars, blocks, unwrapperVars>>
=============================================================================
