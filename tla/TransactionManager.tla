------------------------- MODULE TransactionManager -------------------------
(***************************************************************************)
(* WithTransaction of the PostgreSQL adapter: it begins a transaction,     *)
(* runs a function of the caller's in it, and commits, or rolls back when  *)
(* the function returns an error or panics.  All of it uses the context of *)
(* the caller, which may be cancelled at any time, before the rollback     *)
(* too.                                                                    *)
(*                                                                         *)
(* Several callers share the connections of a pool.  pgx and PostgreSQL    *)
(* are external: a failed statement aborts the transaction; a context that *)
(* is cancelled during a statement, and a connection that breaks, lose the *)
(* transaction; Commit and Rollback give the connection back even when     *)
(* they fail.                                                              *)
(***************************************************************************)
EXTENDS Naturals, FiniteSets

CONSTANTS
  Callers,   \* who may be in WithTransaction at the same time
  Rows,      \* what the statements of the function insert
  PoolSize,  \* MaxConns
  Faults     \* "postgres": the connection may break

ASSUME CallersAssumption == IsFiniteSet(Callers)

ASSUME PoolAssumption == PoolSize \in Nat \ {0}

ASSUME FaultsAssumption == Faults \subseteq {"postgres"}

VARIABLES
  db,     \* the committed rows
  free,   \* the connections of the pool nobody holds
  call    \* caller -> its call

vars == <<db, free, call>>

(* asked: the rows of the statements the function has run, successful or   *)
(* not.  landed is history: the rows the call has brought into db.         *)
Call == [pc : {"idle", "begin", "fn", "rollback", "recover", "commit", "done"},
         tx : {"none", "open", "aborted", "lost"},
         asked : SUBSET Rows, landed : SUBSET Rows, cancelled : BOOLEAN,
         result : {"none", "nil", "beginFailed", "fnError", "rollbackFailed",
                   "panic", "commitFailed"}]

Idle == [pc |-> "idle", tx |-> "none", asked |-> {}, landed |-> {},
         cancelled |-> FALSE, result |-> "none"]

Init ==
  /\ db = {}
  /\ free = PoolSize
  /\ call = [c \in Callers |-> Idle]

At(c, step) == call[c].pc = step

Become(c, q) == call' = [call EXCEPT ![c] = q]

(* A call to PostgreSQL may fail because of the context or the connection. *)
MayFail(q) == q.cancelled \/ q.tx = "lost" \/ "postgres" \in Faults

(* The transaction is over, and its connection back in the pool.           *)
End(c, result, landed) ==
  /\ free' = free + 1
  /\ Become(c, [call[c] EXCEPT !.pc = "done", !.tx = "none",
                               !.result = result, !.landed = landed])

-----------------------------------------------------------------------------

WithTransaction(c) ==
  /\ At(c, "idle")
  /\ Become(c, [Idle EXCEPT !.pc = "begin"])
  /\ UNCHANGED <<db, free>>

(* Mutant of BeginTx: a BeginTx that fails is rolled back like a           *)
(* transaction, which releases a connection the call never had.            *)
BeginTxReleasing(c) ==
  /\ At(c, "begin")
  /\ \/ /\ free > 0
        /\ ~ call[c].cancelled
        /\ free' = free - 1
        /\ Become(c, [call[c] EXCEPT !.pc = "fn", !.tx = "open"])
     \/ /\ MayFail(call[c])
        /\ End(c, "beginFailed", {})
  /\ UNCHANGED db

(* BeginTx waits for a connection as long as the context lasts.            *)
BeginTx(c) ==
  /\ At(c, "begin")
  /\ \/ /\ free > 0
        /\ ~ call[c].cancelled
        /\ free' = free - 1
        /\ Become(c, [call[c] EXCEPT !.pc = "fn", !.tx = "open"])
     \/ /\ MayFail(call[c])
        /\ Become(c, [call[c] EXCEPT !.pc = "done", !.result = "beginFailed"])
        /\ UNCHANGED free
  /\ UNCHANGED db

(* Mutant of Exec: the function gets the pool instead of the transaction.  *)
ExecOnPool(c, row) ==
  /\ At(c, "fn")
  /\ db' = db \union {row}
  /\ Become(c, [call[c] EXCEPT !.asked = @ \union {row}, !.landed = @ \union {row}])
  /\ UNCHANGED free

(* A statement of the function.  What it does when one fails is up to it.  *)
Exec(c, row) ==
  LET q == [call[c] EXCEPT !.asked = @ \union {row}]
  IN  /\ At(c, "fn")
      /\ \/ ~ q.cancelled /\ Become(c, q)
         \/ q.tx = "open" /\ Become(c, [q EXCEPT !.tx = "aborted"])
         \/ MayFail(q) /\ Become(c, [q EXCEPT !.tx = "lost"])
      /\ UNCHANGED <<db, free>>

(* Mutant of FnReturns: without the deferred recover a panic goes past the *)
(* rollback.                                                               *)
FnReturnsOrEscapes(c) ==
  /\ At(c, "fn")
  /\ \/ Become(c, [call[c] EXCEPT !.pc = "commit"])
     \/ Become(c, [call[c] EXCEPT !.pc = "rollback"])
     \/ Become(c, [call[c] EXCEPT !.pc = "done", !.result = "panic"])
  /\ UNCHANGED <<db, free>>

(* The function returns nil or an error, or panics.                        *)
FnReturns(c) ==
  /\ At(c, "fn")
  /\ \E next \in {"commit", "rollback", "recover"} :
       Become(c, [call[c] EXCEPT !.pc = next])
  /\ UNCHANGED <<db, free>>

(* After an error of the function; a failing rollback is reported.         *)
Rollback(c) ==
  /\ At(c, "rollback")
  /\ \/ /\ ~ call[c].cancelled
        /\ call[c].tx # "lost"
        /\ End(c, "fnError", {})
     \/ /\ MayFail(call[c])
        /\ End(c, "rollbackFailed", {})
  /\ UNCHANGED db

(* The deferred function: the rollback's error is ignored, the panic goes  *)
(* on.                                                                     *)
Recover(c) ==
  /\ At(c, "recover")
  /\ End(c, "panic", {})
  /\ UNCHANGED db

(* Mutant of Commit: an error of Commit is ignored.                        *)
CommitUnchecked(c) ==
  LET q == call[c]
  IN  /\ At(c, "commit")
      /\ \/ /\ ~ q.cancelled
            /\ q.tx = "open"
            /\ db' = db \union q.asked
            /\ End(c, "nil", q.asked)
         \/ /\ q.tx = "aborted" \/ MayFail(q)
            /\ End(c, "nil", {})
            /\ UNCHANGED db

(* An aborted transaction cannot be committed.  When the connection breaks *)
(* during Commit, it may have been.                                        *)
Commit(c) ==
  LET q == call[c]
  IN  /\ At(c, "commit")
      /\ \/ /\ ~ q.cancelled
            /\ q.tx = "open"
            /\ db' = db \union q.asked
            /\ End(c, "nil", q.asked)
         \/ /\ q.tx = "aborted" \/ MayFail(q)
            /\ End(c, "commitFailed", {})
            /\ UNCHANGED db
         \/ /\ q.tx = "open"
            /\ MayFail(q)
            /\ db' = db \union q.asked
            /\ End(c, "commitFailed", q.asked)

Return(c) ==
  /\ At(c, "done")
  /\ Become(c, Idle)
  /\ UNCHANGED <<db, free>>

(* The context of the call is cancelled.                                   *)
Cancel(c) ==
  /\ call[c].pc \notin {"idle", "done"}
  /\ ~ call[c].cancelled
  /\ Become(c, [call[c] EXCEPT !.cancelled = TRUE])
  /\ UNCHANGED <<db, free>>

Step(c) ==
  \/ FnReturns(c)
  \/ Rollback(c)
  \/ Recover(c)
  \/ Commit(c)

Next ==
  \E c \in Callers :
    \/ WithTransaction(c)
    \/ BeginTx(c)
    \/ Step(c)
    \/ Return(c)
    \/ Cancel(c)
    \/ \E row \in Rows : Exec(c, row)

Spec == Init /\ [][Next]_vars

(* The function comes to an end, PostgreSQL answers, if only with an       *)
(* error, the pool serves those who wait in turn, and who is cancelled     *)
(* stops waiting.  That BeginTx fails is not counted on.                   *)
Fairness ==
  /\ \A c \in Callers : WF_vars(Step(c))
  /\ \A c \in Callers : SF_vars(BeginTx(c) /\ call'[c].pc = "fn")
  /\ \A c \in Callers : WF_vars(BeginTx(c) /\ call[c].cancelled)

FairSpec == Spec /\ Fairness

-----------------------------------------------------------------------------
(* Properties *)

(* Type invariant.                                                         *)
TypeOK ==
  /\ db \subseteq Rows
  /\ free \in 0..PoolSize
  /\ call \in [Callers -> Call]

(* The result is the truth about the database: nil means that every        *)
(* statement the function ran is committed, also one whose failure the     *)
(* function ignored; an error of the function, a panic and a failed        *)
(* rollback mean that nothing is; a failed commit leaves all or nothing.   *)
ResultIsTrue ==
  \A c \in Callers :
    LET q == call[c]
    IN  /\ q.result = "nil" => q.landed = q.asked /\ q.asked \subseteq db
        /\ q.result \in {"beginFailed", "fnError", "rollbackFailed", "panic"} => q.landed = {}
        /\ q.result = "commitFailed" => q.landed \in {{}, q.asked}
        /\ q.result = "none" => q.landed = {}

Holders == {c \in Callers : call[c].tx # "none"}

(* No connection is lost: each is free or held by a call that is still     *)
(* running, whether the function returned an error or panicked, and        *)
(* whether or not the rollback or the commit failed.                       *)
PoolIsWhole ==
  /\ free + Cardinality(Holders) = PoolSize
  /\ \A c \in Holders : call[c].pc \notin {"idle", "begin", "done"}

(* Rows become visible only as whole transactions: a step that adds rows   *)
(* adds those of every statement of one call.                              *)
CommitsAreWhole ==
  [][db' # db => \E c \in Callers : At(c, "commit") /\ db' = db \union call[c].asked]_vars

(* Every call returns, though there may be more callers than connections   *)
(* and calls whose rollback and commit fail.                               *)
CallsReturn == \A c \in Callers : At(c, "begin") ~> At(c, "done")

-----------------------------------------------------------------------------
(* Inductive invariant *)

(* What the step of a call says about its transaction.                     *)
CallSane(q) ==
  /\ q.pc \in {"fn", "rollback", "recover", "commit"} <=> q.tx # "none"
  /\ q.pc # "done" => q.result = "none"

IInv ==
  /\ TypeOK
  /\ ResultIsTrue
  /\ PoolIsWhole
  /\ \A c \in Callers : CallSane(call[c])
=============================================================================
