-------------------------- MODULE MCAuthentication --------------------------
(***************************************************************************)
(* Instances of Authentication for TLC.                                    *)
(***************************************************************************)
EXTENDS Authentication, TLC

CONSTANTS Lower, Upper

(* Lower and Upper are one repository, written in two ways.                *)
MCFold == [k \in Paths |-> IF k = Upper THEN Lower ELSE k]

ReadOrWrite == {{}, {"pull"}, {"pull", "push"}}
=============================================================================
