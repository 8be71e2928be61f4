--------------------------- MODULE ObjectRegistry ---------------------------
(***************************************************************************)
(* What cargohold promises about an LFS object, whatever requests, caches, *)
(* failures and restarts are behind it: it is registered once with a fixed *)
(* size, only content of that size is stored for it, it becomes uploaded   *)
(* and stays so, and only a registered object belongs to a repository.     *)
(***************************************************************************)
EXTENDS Naturals

CONSTANTS Oids, Repos, None

VARIABLES
  objects,   \* oid -> its size and whether it is uploaded, or None
  policies,  \* oid -> the repository it belongs to, or None
  storage    \* oid -> the length of its stored content, or None

Registered(o) == objects[o] # None

Init ==
  /\ objects = [o \in Oids |-> None]
  /\ policies = [o \in Oids |-> None]
  /\ storage = [o \in Oids |-> None]

(* The object gets its size, for good.                                     *)
Register(o) ==
  /\ ~ Registered(o)
  /\ objects'[o] \in [size : Nat, uploaded : {FALSE}]
  /\ objects' = [objects EXCEPT ![o] = objects'[o]]
  /\ UNCHANGED <<policies, storage>>

(* Content of the registered size is stored, or stored again.              *)
Store(o) ==
  /\ Registered(o)
  /\ storage' = [storage EXCEPT ![o] = objects[o].size]
  /\ UNCHANGED <<objects, policies>>

(* The object is marked as uploaded.                                       *)
Complete(o) ==
  /\ Registered(o)
  /\ objects' = [objects EXCEPT ![o] = [size |-> objects[o].size,
                                        uploaded |-> TRUE]]
  /\ UNCHANGED <<policies, storage>>

(* The object is given to a repository.                                    *)
Assign(o) ==
  /\ Registered(o)
  /\ \E p \in Repos : policies' = [policies EXCEPT ![o] = p]
  /\ UNCHANGED <<objects, storage>>

Next == \E o \in Oids : Register(o) \/ Store(o) \/ Complete(o) \/ Assign(o)

Spec == Init /\ [][Next]_<<objects, policies, storage>>
=============================================================================
