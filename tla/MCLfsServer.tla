---------------------------- MODULE MCLfsServer ----------------------------
(***************************************************************************)
(* Instances of LfsServer for TLC: the requests clients send.              *)
(***************************************************************************)
EXTENDS LfsServer, TLC

CONSTANTS
  MaxSize,   \* sizes are 0..MaxSize
  MaxBatch,  \* the longest batch
  MCOps      \* the operations clients use

Items == [oid : Oids, size : 0..MaxSize]

(* A download does not look at the size, nor verify at the repository: one *)
(* value stands for all.                                                   *)
AnyRepo == CHOOSE p \in Repos : TRUE

Batches(n) == {b \in [1..n -> Items] : n > 1 => b[1].size = 0}

Job(op, p, items) == [op |-> op, repo |-> p, items |-> items]

ValidRequests ==
  {Job("batchUpload", p, b) : p \in Repos, b \in Batches(1)}
    \union {Job("batchUpload", AnyRepo, b) : b \in UNION {Batches(n) : n \in 2..MaxBatch}}
    \union {Job("batchDownload", p, <<[oid |-> o, size |-> 0]>>) :
              p \in Repos, o \in Oids}
    \union {Job("proxyUpload", p, <<i>>) : p \in Repos, i \in Items}
    \union {Job("proxyDownload", p, <<[oid |-> o, size |-> 0]>>) :
              p \in Repos, o \in Oids}
    \union {Job("verify", AnyRepo, <<i>>) : i \in Items}

(* An empty batch, a negative size and a malformed OID.                    *)
InvalidRequests ==
  {Job("batchUpload", AnyRepo, <<>>),
   Job("batchUpload", AnyRepo, <<[oid |-> CHOOSE o \in Oids : TRUE, size |-> -1]>>),
   Job("proxyUpload", AnyRepo, <<[oid |-> BadOid, size |-> 0]>>)}

MCRequests == {j \in ValidRequests \union InvalidRequests : j.op \in MCOps}

SlotSymmetry == Permutations(Slots)
=============================================================================
