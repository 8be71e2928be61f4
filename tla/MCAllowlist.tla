----------------------------- MODULE MCAllowlist -----------------------------
(***************************************************************************)
(* Instances of RepositoryAllowlist for TLC.                               *)
(***************************************************************************)
EXTENDS RepositoryAllowlist, TLC
==============================================================================
