------------------------------- MODULE MCJwks -------------------------------
(***************************************************************************)
(* Instances of JwksFetcher for TLC.                                       *)
(***************************************************************************)
EXTENDS JwksFetcher, TLC
=============================================================================
