---------------------------- MODULE MCOAuthLogin ----------------------------
(***************************************************************************)
(* Instances of OAuthLogin for TLC.                                        *)
(***************************************************************************)
EXTENDS OAuthLogin, TLC

CONSTANTS Writer, Private

(* One user may write, the other read; nobody sees the private repository. *)
MCAccess ==
  [u \in Users |-> [r \in Repos |->
     IF r = Private THEN "none" ELSE IF u = Writer THEN "write" ELSE "read"]]

SlotSymmetry == Permutations(Slots)

(* State parameters and session identifiers are only compared, too.        *)
LoginSymmetry ==
  SlotSymmetry \union Permutations(States) \union Permutations(SessionIDs)
=============================================================================
