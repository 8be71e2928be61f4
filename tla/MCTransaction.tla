---------------------------- MODULE MCTransaction ----------------------------
(***************************************************************************)
(* Instances of TransactionManager for TLC.                                *)
(***************************************************************************)
EXTENDS TransactionManager, TLC
==============================================================================
