---------------------- MODULE TransactionManagerProofs ----------------------
(***************************************************************************)
(* Proofs about TransactionManager, for any finite set of callers, any     *)
(* rows and any size of the pool.                                          *)
(***************************************************************************)
EXTENDS TransactionManager, FiniteSetTheorems, TLAPS

-----------------------------------------------------------------------------
(* The inductive invariant, one call at a time *)

(* What the invariant says about a call when the rows of the database are  *)
(* rows.                                                                   *)
CallInv(q, rows) ==
  /\ q \in Call
  /\ CallSane(q)
  /\ q.result = "nil" => q.landed = q.asked /\ q.asked \subseteq rows
  /\ q.result \in {"beginFailed", "fnError", "rollbackFailed", "panic"} => q.landed = {}
  /\ q.result = "commitFailed" => q.landed \in {{}, q.asked}
  /\ q.result = "none" => q.landed = {}

LEMMA InvByCall ==
  IInv <=> /\ db \subseteq Rows
           /\ free \in 0..PoolSize
           /\ call \in [Callers -> Call]
           /\ \A c \in Callers : CallInv(call[c], db)
           /\ free + Cardinality(Holders) = PoolSize
<1>1. \A c \in Callers : CallInv(call[c], db) => CallSane(call[c])
  BY DEF CallInv
<1>2. (\A c \in Callers : CallSane(call[c])) =>
        \A c \in Holders : call[c].pc \notin {"idle", "begin", "done"}
  BY DEF CallSane, Holders
<1> QED
  BY <1>1, <1>2 DEF IInv, TypeOK, ResultIsTrue, PoolIsWhole, CallInv

LEMMA InvByCallNext ==
  IInv' <=> /\ db' \subseteq Rows
            /\ free' \in 0..PoolSize
            /\ call' \in [Callers -> Call]
            /\ \A c \in Callers : CallInv(call'[c], db')
            /\ free' + Cardinality(Holders') = PoolSize
<1>1. \A c \in Callers : CallInv(call'[c], db') => CallSane(call'[c])
  BY DEF CallInv
<1>2. (\A c \in Callers : CallSane(call'[c])) =>
        \A c \in Holders' : call'[c].pc \notin {"idle", "begin", "done"}
  BY DEF CallSane, Holders
<1> QED
  BY <1>1, <1>2 DEF IInv, TypeOK, ResultIsTrue, PoolIsWhole, CallInv, CallSane

LEMMA HoldersFinite == IsFiniteSet(Holders) /\ Cardinality(Holders) \in Nat
<1>1. Holders \in SUBSET Callers
  BY DEF Holders
<1>2. IsFiniteSet(Holders)
  BY <1>1, CallersAssumption, FS_Subset
<1> QED
  BY <1>2, FS_CardinalityType

(* A step of one call: the others keep what they have, and a connection    *)
(* changes hands exactly when the count of the free ones says so.          *)
LEMMA OneCall ==
  ASSUME IInv, NEW c \in Callers, NEW q, Become(c, q), CallInv(q, db'),
         db \subseteq db', db' \subseteq Rows,
         \/ free' = free /\ (q.tx = "none" <=> call[c].tx = "none")
         \/ free > 0 /\ free' = free - 1 /\ call[c].tx = "none" /\ q.tx # "none"
         \/ free' = free + 1 /\ call[c].tx # "none" /\ q.tx = "none"
  PROVE  IInv'
<1>0. /\ free \in 0..PoolSize
      /\ call \in [Callers -> Call]
      /\ \A d \in Callers : CallInv(call[d], db)
      /\ free + Cardinality(Holders) = PoolSize
  BY InvByCall
<1>1. /\ call' \in [Callers -> Call]
      /\ \A d \in Callers : call'[d] = IF d = c THEN q ELSE call[d]
  BY <1>0 DEF Become, CallInv
<1>2. \A d \in Callers : CallInv(call'[d], db')
  <2>1. \A d \in Callers : CallInv(call[d], db')
    BY <1>0 DEF CallInv
  <2> QED
    BY <1>1, <2>1
<1>3. free' \in 0..PoolSize /\ free' + Cardinality(Holders') = PoolSize
  <2>1. CASE free' = free /\ (q.tx = "none" <=> call[c].tx = "none")
    <3>1. Holders' = Holders
      BY <1>1, <2>1 DEF Holders
    <3> QED
      BY <1>0, <2>1, <3>1
  <2>2. CASE free > 0 /\ free' = free - 1 /\ call[c].tx = "none" /\ q.tx # "none"
    <3>1. c \notin Holders /\ Holders' = Holders \union {c}
      BY <1>1, <2>2 DEF Holders
    <3>2. Cardinality(Holders') = Cardinality(Holders) + 1
      BY <3>1, HoldersFinite, FS_AddElement
    <3> QED
      BY <1>0, <2>2, <3>2, HoldersFinite, PoolAssumption
  <2>3. CASE free' = free + 1 /\ call[c].tx # "none" /\ q.tx = "none"
    <3>1. c \in Holders /\ Holders' = Holders \ {c}
      BY <1>1, <2>3 DEF Holders
    <3>2. /\ Cardinality(Holders') = Cardinality(Holders) - 1
          /\ Cardinality(Holders) # 0
      BY <3>1, HoldersFinite, FS_RemoveElement, FS_EmptySet
    <3> QED
      BY <1>0, <2>3, <3>2, HoldersFinite, PoolAssumption
  <2> QED
    BY <2>1, <2>2, <2>3
<1> QED
  BY <1>1, <1>2, <1>3, InvByCallNext

(* The end of a transaction, with whatever result is true of the database. *)
LEMMA EndInv ==
  ASSUME IInv, NEW c \in Callers, NEW result, NEW landed,
         call[c].tx # "none", End(c, result, landed),
         db \subseteq db', db' \subseteq Rows,
         \/ result = "nil" /\ landed = call[c].asked /\ landed \subseteq db'
         \/ result \in {"fnError", "rollbackFailed", "panic"} /\ landed = {}
         \/ result = "commitFailed" /\ landed \in {{}, call[c].asked}
  PROVE  IInv'
<1> DEFINE q == [call[c] EXCEPT !.pc = "done", !.tx = "none",
                                !.result = result, !.landed = landed]
<1>1. call[c] \in Call
  BY InvByCall DEF CallInv
<1>2. /\ q.pc = "done" /\ q.tx = "none" /\ q.result = result
      /\ q.landed = landed /\ q.asked = call[c].asked
      /\ q \in Call
  BY <1>1 DEF Call
<1>3. Become(c, q) /\ free' = free + 1
  BY DEF End
<1> HIDE DEF q
<1>4. CallInv(q, db')
  BY <1>2 DEF CallInv, CallSane
<1> QED
  BY <1>2, <1>3, <1>4, OneCall

-----------------------------------------------------------------------------

LEMMA StepInv ==
  ASSUME IInv, NEW c \in Callers,
         \/ WithTransaction(c) \/ BeginTx(c) \/ Step(c) \/ Return(c) \/ Cancel(c)
         \/ \E row \in Rows : Exec(c, row)
  PROVE  IInv'
<1>0. /\ call[c] \in Call /\ CallInv(call[c], db)
      /\ db \subseteq Rows /\ call \in [Callers -> Call]
  BY InvByCall DEF CallInv
<1> USE <1>0
<1>i. Idle \in Call /\ CallInv(Idle, db)
  BY DEF Idle, Call, CallInv, CallSane
<1>1. CASE WithTransaction(c)
  <2> DEFINE q == [Idle EXCEPT !.pc = "begin"]
  <2>1. CallInv(q, db') /\ q.tx = "none" /\ call[c].tx = "none"
    BY <1>1 DEF WithTransaction, At, Idle, Call, CallInv, CallSane
  <2>2. Become(c, q) /\ UNCHANGED <<db, free>>
    BY <1>1 DEF WithTransaction
  <2> HIDE DEF q
  <2> QED
    BY <2>1, <2>2, OneCall
<1>2. CASE BeginTx(c)
  <2>1. call[c].tx = "none" /\ call[c].landed = {} /\ db' = db
    BY <1>2 DEF BeginTx, At, CallInv, CallSane
  <2>2. CASE /\ free > 0 /\ free' = free - 1
             /\ Become(c, [call[c] EXCEPT !.pc = "fn", !.tx = "open"])
    <3> DEFINE q == [call[c] EXCEPT !.pc = "fn", !.tx = "open"]
    <3>1. CallInv(q, db') /\ q.tx = "open"
      BY <1>2, <2>1 DEF BeginTx, At, Call, CallInv, CallSane
    <3>2. Become(c, q)
      BY <2>2
    <3> HIDE DEF q
    <3> QED
      BY <2>1, <2>2, <3>1, <3>2, OneCall
  <2>3. CASE /\ free' = free
             /\ Become(c, [call[c] EXCEPT !.pc = "done", !.result = "beginFailed"])
    <3> DEFINE q == [call[c] EXCEPT !.pc = "done", !.result = "beginFailed"]
    <3>1. CallInv(q, db') /\ q.tx = "none"
      BY <2>1 DEF Call, CallInv, CallSane
    <3>2. Become(c, q)
      BY <2>3
    <3> HIDE DEF q
    <3> QED
      BY <2>1, <2>3, <3>1, <3>2, OneCall
  <2> QED
    BY <1>2, <2>2, <2>3 DEF BeginTx
<1>3. CASE FnReturns(c)
  <2>1. PICK next \in {"commit", "rollback", "recover"} :
          Become(c, [call[c] EXCEPT !.pc = next])
    BY <1>3 DEF FnReturns
  <2> DEFINE q == [call[c] EXCEPT !.pc = next]
  <2>2. CallInv(q, db') /\ q.tx = call[c].tx
    BY <1>3 DEF FnReturns, At, Call, CallInv, CallSane
  <2>3. Become(c, q) /\ UNCHANGED <<db, free>>
    BY <1>3, <2>1 DEF FnReturns
  <2> HIDE DEF q
  <2> QED
    BY <2>2, <2>3, OneCall
<1>4. CASE Rollback(c)
  <2>1. call[c].tx # "none" /\ db' = db
    BY <1>4 DEF Rollback, At, CallInv, CallSane
  <2>2. End(c, "fnError", {}) \/ End(c, "rollbackFailed", {})
    BY <1>4 DEF Rollback
  <2> QED
    BY <2>1, <2>2, EndInv
<1>5. CASE Recover(c)
  <2>1. call[c].tx # "none" /\ db' = db /\ End(c, "panic", {})
    BY <1>5 DEF Recover, At, CallInv, CallSane
  <2> QED
    BY <2>1, EndInv
<1>6. CASE Commit(c)
  <2>1. call[c].tx # "none" /\ call[c].asked \subseteq Rows
    BY <1>6 DEF Commit, At, Call, CallInv, CallSane
  <2>2. CASE db' = db \union call[c].asked /\ End(c, "nil", call[c].asked)
    BY <2>1, <2>2, EndInv
  <2>3. CASE db' = db /\ End(c, "commitFailed", {})
    BY <2>1, <2>3, EndInv
  <2>4. CASE db' = db \union call[c].asked /\ End(c, "commitFailed", call[c].asked)
    BY <2>1, <2>4, EndInv
  <2> QED
    BY <1>6, <2>2, <2>3, <2>4 DEF Commit
<1>7. CASE Return(c)
  <2>1. Become(c, Idle) /\ UNCHANGED <<db, free>>
    BY <1>7 DEF Return
  <2>2. Idle.tx = "none" /\ call[c].tx = "none"
    BY <1>7 DEF Return, At, Idle, CallInv, CallSane
  <2> QED
    BY <1>i, <2>1, <2>2, OneCall
<1>8. CASE Cancel(c)
  <2> DEFINE q == [call[c] EXCEPT !.cancelled = TRUE]
  <2>1. CallInv(q, db') /\ q.tx = call[c].tx
    BY <1>8 DEF Cancel, Call, CallInv, CallSane
  <2>2. Become(c, q) /\ UNCHANGED <<db, free>>
    BY <1>8 DEF Cancel
  <2> HIDE DEF q
  <2> QED
    BY <2>1, <2>2, OneCall
<1>9. ASSUME NEW row \in Rows, Exec(c, row)
      PROVE  IInv'
  <2> DEFINE q == [call[c] EXCEPT !.asked = @ \union {row}]
  <2>1. /\ q \in Call /\ q.pc = "fn" /\ q.tx # "none" /\ q.tx = call[c].tx
        /\ q.result = "none" /\ q.landed = {}
    BY <1>9 DEF Exec, At, Call, CallInv, CallSane
  <2>2. UNCHANGED <<db, free>>
    BY <1>9 DEF Exec
  <2>3. \/ Become(c, q)
        \/ Become(c, [q EXCEPT !.tx = "aborted"])
        \/ Become(c, [q EXCEPT !.tx = "lost"])
    BY <1>9 DEF Exec
  <2> HIDE DEF q
  <2>4. CallInv(q, db')
    BY <2>1 DEF CallInv, CallSane
  <2>5. ASSUME NEW t \in {"aborted", "lost"}
        PROVE  /\ CallInv([q EXCEPT !.tx = t], db')
               /\ [q EXCEPT !.tx = t].tx = t
    BY <2>1 DEF Call, CallInv, CallSane
  <2>6. CASE Become(c, q)
    BY <2>1, <2>2, <2>4, <2>6, OneCall
  <2>7. ASSUME NEW t \in {"aborted", "lost"}, Become(c, [q EXCEPT !.tx = t])
        PROVE  IInv'
    <3> DEFINE p == [q EXCEPT !.tx = t]
    <3>1. CallInv(p, db') /\ p.tx = t /\ Become(c, p)
      BY <2>5, <2>7
    <3> HIDE DEF p
    <3> QED
      BY <2>1, <2>2, <3>1, OneCall
  <2> QED
    BY <2>3, <2>6, <2>7
<1> QED
  BY <1>1, <1>2, <1>3, <1>4, <1>5, <1>6, <1>7, <1>8, <1>9 DEF Step

LEMMA InitInv == Init => IInv
<1> SUFFICES ASSUME Init PROVE IInv
  OBVIOUS
<1>1. Idle \in Call /\ CallInv(Idle, db) /\ Idle.tx = "none"
  BY DEF Idle, Call, CallInv, CallSane
<1>2. Holders = {}
  BY <1>1 DEF Init, Holders
<1>3. Cardinality(Holders) = 0
  BY <1>2, FS_EmptySet
<1>4. \A c \in Callers : CallInv(call[c], db)
  BY <1>1 DEF Init
<1> QED
  BY <1>1, <1>3, <1>4, PoolAssumption, InvByCall DEF Init

LEMMA StutterInv == IInv /\ UNCHANGED vars => IInv'
BY InvByCall, InvByCallNext DEF vars, Holders

(* The inductive invariant holds of WithTransaction whatever fails, and in *)
(* whatever order the callers' steps come.                                 *)
THEOREM TransactionInvariance == Spec => []IInv
<1>1. IInv /\ [Next]_vars => IInv'
  BY StepInv, StutterInv DEF Next
<1> QED
  BY InitInv, <1>1, PTL DEF Spec

(* Type correctness of the calls, the pool and the database.               *)
THEOREM TransactionTypeCorrect == Spec => []TypeOK
<1>1. IInv => TypeOK
  BY DEF IInv
<1> QED
  BY TransactionInvariance, <1>1, PTL

(* What WithTransaction returns is the truth about the database.           *)
THEOREM ResultsAreTrue == Spec => []ResultIsTrue
<1>1. IInv => ResultIsTrue
  BY DEF IInv
<1> QED
  BY TransactionInvariance, <1>1, PTL

(* No path through WithTransaction keeps a connection.                     *)
THEOREM NoConnectionLeaks == Spec => []PoolIsWhole
<1>1. IInv => PoolIsWhole
  BY DEF IInv
<1> QED
  BY TransactionInvariance, <1>1, PTL

(* No step makes part of a transaction visible.                            *)
THEOREM TransactionsAreAtomic == Spec => CommitsAreWhole
<1> DEFINE Whole == db' # db => \E c \in Callers : At(c, "commit") /\ db' = db \union call[c].asked
<1>1. [Next]_vars => [Whole]_vars
  <2>1. ASSUME NEW c \in Callers, Commit(c)
        PROVE  Whole
    BY <2>1 DEF Commit
  <2>2. ASSUME NEW c \in Callers,
               \/ WithTransaction(c) \/ BeginTx(c) \/ FnReturns(c) \/ Rollback(c)
               \/ Recover(c) \/ Return(c) \/ Cancel(c)
               \/ \E row \in Rows : Exec(c, row)
        PROVE  db' = db
    BY <2>2 DEF WithTransaction, BeginTx, FnReturns, Rollback, Recover, Return,
                Cancel, Exec
  <2> QED
    BY <2>1, <2>2 DEF Next, Step
<1> QED
  BY <1>1, PTL DEF Spec, CommitsAreWhole

(* A call that waits for a connection does not wait for one that waits     *)
(* itself: while none is free, a call is past the wait and has only its    *)
(* function, the commit or the rollback before it, which need no other     *)
(* connection.                                                             *)
WaitingIsForRunning ==
  \A c \in Callers :
    At(c, "begin") /\ free = 0 =>
      \E d \in Callers : call[d].pc \in {"fn", "rollback", "recover", "commit"}

(* No deadlock on the pool, for any number of callers and connections.     *)
THEOREM WaitersDoNotDeadlock == Spec => []WaitingIsForRunning
<1>1. IInv => WaitingIsForRunning
  <2> SUFFICES ASSUME IInv, free = 0
               PROVE  \E d \in Callers : call[d].pc \in {"fn", "rollback", "recover", "commit"}
    BY DEF WaitingIsForRunning
  <2>1. Cardinality(Holders) = PoolSize
    BY HoldersFinite, PoolAssumption DEF IInv, PoolIsWhole
  <2>2. Holders # {}
    BY <2>1, PoolAssumption, FS_EmptySet
  <2>3. PICK d \in Callers : call[d].tx # "none"
    BY <2>2 DEF Holders
  <2> QED
    BY <2>3 DEF IInv, CallSane
<1> QED
  BY <1>1, TransactionInvariance, PTL
=============================================================================
