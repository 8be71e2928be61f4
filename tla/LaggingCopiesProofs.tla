------------------------ MODULE LaggingCopiesProofs ------------------------
(***************************************************************************)
(* Proofs about LaggingCopies.  RepositoryAllowlist and JwksFetcher, which *)
(* implement it, inherit them.                                             *)
(***************************************************************************)
EXTENDS LaggingCopies, TLAPS

(* No copy of k holds a value of W, and nobody was answered with one.      *)
Clear(k, W) ==
  /\ held[k] \intersect W = {}
  /\ \A r \in Readers, w \in W :
       answer[r] # None => answer[r] # [key |-> k, value |-> w]

(* The copies hold sets of values, and the value of the source is one.     *)
LagInv ==
  /\ source \in [Keys -> Values]
  /\ held \in [Keys -> SUBSET Values]
  /\ \A k \in Keys : source[k] \in held[k]
  /\ answer \in [Readers -> Answers \union {None}]

(* The invariant is inductive.                                             *)
LEMMA LagInvariance == LagSpec => []LagInv
<1>1. LagInit => LagInv
  BY DEF LagInit, LagInv
<1>2. LagInv /\ [LagNext]_lagVars => LagInv'
  <2> SUFFICES ASSUME LagInv, [LagNext]_lagVars PROVE LagInv'
    OBVIOUS
  <2>1. ASSUME NEW k \in Keys, Change(k) PROVE LagInv'
    BY <2>1 DEF Change, LagInv
  <2>2. CASE Forget
    BY <2>2 DEF Forget, LagInv
  <2>3. ASSUME NEW r \in Readers, NEW k \in Keys, Answer(r, k) PROVE LagInv'
    BY <2>3 DEF Answer, Answers, LagInv
  <2>4. CASE UNCHANGED lagVars
    BY <2>4 DEF lagVars, LagInv
  <2> QED
    BY <2>1, <2>2, <2>3, <2>4 DEF LagNext
<1> QED
  BY <1>1, <1>2, PTL DEF LagSpec

(* A step brings a value to the copies only from the source.               *)
LEMMA ClearStep ==
  ASSUME LagInv, [LagNext]_lagVars, NEW k \in Keys, NEW W,
         Clear(k, W), source'[k] \notin W
  PROVE  Clear(k, W)'
<1>1. ASSUME NEW j \in Keys, Change(j) PROVE Clear(k, W)'
  BY <1>1 DEF Change, LagInv, Clear
<1>2. CASE Forget
  BY <1>2 DEF Forget, LagInv, Clear
<1>3. ASSUME NEW r \in Readers, NEW j \in Keys, Answer(r, j) PROVE Clear(k, W)'
  BY <1>3 DEF Answer, LagInv, Clear
<1>4. CASE UNCHANGED lagVars
  BY <1>4 DEF lagVars, Clear
<1> QED
  BY <1>1, <1>2, <1>3, <1>4 DEF LagNext

(* What is withdrawn stays withdrawn: once no copy holds a value of W, and *)
(* as long as the source takes none, no copy ever holds one again and no   *)
(* reader is answered with one.                                            *)
THEOREM WithdrawnStays ==
  ASSUME NEW k \in Keys, NEW W
  PROVE  LagSpec => [](Clear(k, W) /\ [](source[k] \notin W) => []Clear(k, W))
<1>1. /\ LagInv /\ [LagNext]_lagVars /\ Clear(k, W)
      /\ (source[k] \notin W)'
      => Clear(k, W)'
  BY ClearStep
<1> QED
  BY <1>1, LagInvariance, PTL DEF LagSpec
=============================================================================
