---------------------- MODULE RepositoryAllowlistProofs ----------------------
(***************************************************************************)
(* Proofs about RepositoryAllowlist, for every set of slots and            *)
(* repositories and every combination of faults.                           *)
(***************************************************************************)
EXTENDS RepositoryAllowlist, TLAPS

-----------------------------------------------------------------------------
(* The inductive invariant *)

(* What RemovedIsGone says of one repository.                              *)
Gone(k) ==
  /\ ~ table[k]
  /\ cache[k] # "true"
  /\ \A r \in Slots : ~ WillAllow(r, k)

(* What CallSane says of one call.                                         *)
SaneCall(q) ==
  /\ q.pc = "idle" => q = Idle
  /\ q.pc \in {"checkCache", "exists"} => q.op = "isAllowed" /\ ~ q.allowed
  /\ q.pc \in {"insert", "delete", "delCache"} =>
       q.op \in {"add", "remove"} /\ ~ q.allowed
  /\ q.pc # "done" => q.status = "none"
  /\ q.pc = "done" => q.status # "none"

(* What IInv says of one call.                                             *)
GoodCall(q) ==
  /\ q \in Call
  /\ q.pc # "idle" => q.repo \in Repos
  /\ SaneCall(q)

(* The invariant, call by call.                                            *)
LEMMA IInvByCall ==
  IInv <=> /\ table \in [Repos -> BOOLEAN]
           /\ cache \in [Repos -> Cached]
           /\ req \in [Slots -> Call]
           /\ changes \in Nat
           /\ removed \subseteq Repos
           /\ \A r \in Slots : GoodCall(req[r])
           /\ \A k \in removed : Gone(k)
BY DEF IInv, TypeOK, CallSane, RemovedIsGone, GoodCall, SaneCall, Gone, At

(* A call that becomes q leaves the others alone.                          *)
LEMMA BecomeReq ==
  ASSUME req \in [Slots -> Call], NEW r \in Slots, NEW q \in Call, Become(r, q)
  PROVE  /\ req' \in [Slots -> Call]
         /\ req'[r] = q
         /\ \A s \in Slots : s # r => req'[s] = req[s]
BY DEF Become

LEMMA IdleGood == GoodCall(Idle)
BY DEF GoodCall, SaneCall, Call, Pcs, Idle

(* A step of one call keeps the invariant when the call stays good, the    *)
(* table, the cache and the counter keep their types and what is removed   *)
(* stays gone.                                                             *)
LEMMA CallStep ==
  ASSUME IInv, NEW r \in Slots, NEW q, GoodCall(q), Become(r, q),
         table' \in [Repos -> BOOLEAN], cache' \in [Repos -> Cached],
         changes' \in Nat, removed' \subseteq Repos,
         \A k \in removed' :
           /\ ~ table'[k]
           /\ cache'[k] # "true"
           /\ \A s \in Slots \ {r} : ~ WillAllow(s, k)
           /\ ~ (q.pc = "setCache" /\ q.repo = k /\ q.allowed)
  PROVE  IInv'
<1>1. q \in Call
  BY DEF GoodCall
<1>2. /\ req' \in [Slots -> Call]
      /\ req'[r] = q
      /\ \A s \in Slots : s # r => req'[s] = req[s]
  BY <1>1, BecomeReq, IInvByCall
<1>3. \A s \in Slots : GoodCall(req[s])'
  <2> SUFFICES ASSUME NEW s \in Slots PROVE GoodCall(req[s])'
    OBVIOUS
  <2>1. req'[s] = q \/ req'[s] = req[s]
    BY <1>2
  <2>2. GoodCall(req[s])
    BY IInvByCall
  <2> QED
    BY <2>1, <2>2 DEF GoodCall, SaneCall
<1>4. \A k \in removed' : Gone(k)'
  <2> SUFFICES ASSUME NEW k \in removed', NEW s \in Slots PROVE ~ WillAllow(s, k)'
    BY DEF Gone
  <2>1. CASE s = r
    BY <1>2, <2>1 DEF WillAllow, At
  <2>2. CASE s # r
    BY <1>2, <2>2 DEF WillAllow, At
  <2> QED
    BY <2>1, <2>2
<1> QED
  BY <1>2, <1>3, <1>4
  DEF IInv, TypeOK, CallSane, RemovedIsGone, GoodCall, SaneCall, Gone, At

(* What the invariant says of the call of one slot.                        *)
LEMMA CallFacts ==
  ASSUME IInv, NEW r \in Slots
  PROVE  /\ req[r] \in Call
         /\ req[r].pc # "idle" => req[r].repo \in Repos
         /\ SaneCall(req[r])
         /\ table \in [Repos -> BOOLEAN]
         /\ cache \in [Repos -> Cached]
         /\ changes \in Nat
         /\ removed \subseteq Repos
         /\ \A k \in removed : Gone(k)
BY IInvByCall DEF GoodCall

(* The steps that only move a call, to a place where it is not about to    *)
(* allow anything that is removed.                                         *)
LEMMA MoveInv ==
  ASSUME IInv, NEW r \in Slots, NEW q, GoodCall(q), Become(r, q),
         q.pc = "setCache" => q.repo \in Repos /\ (q.allowed => table[q.repo]),
         UNCHANGED <<table, cache, removed>>, changes' \in Nat
  PROVE  IInv'
<1>1. \A k \in removed' :
        /\ ~ table'[k]
        /\ cache'[k] # "true"
        /\ \A s \in Slots \ {r} : ~ WillAllow(s, k)
        /\ ~ (q.pc = "setCache" /\ q.repo = k /\ q.allowed)
  BY CallFacts DEF Gone
<1> QED
  BY <1>1, CallFacts, CallStep

LEMMA StartInv ==
  ASSUME IInv, NEW r \in Slots, IsAllowed(r) \/ Add(r) \/ Remove(r)
  PROVE  IInv'
<1>1. PICK k \in Repos, step \in {"checkCache", "insert", "delete"},
           op \in {"isAllowed", "add", "remove"} :
        /\ Become(r, [Idle EXCEPT !.pc = step, !.op = op, !.repo = k])
        /\ op = "isAllowed" <=> step = "checkCache"
  BY DEF IsAllowed, Add, Remove, Start
<1> DEFINE q == [Idle EXCEPT !.pc = step, !.op = op, !.repo = k]
<1>2. GoodCall(q) /\ q.pc # "setCache"
  BY <1>1 DEF GoodCall, SaneCall, Call, Pcs, Idle
<1>3. UNCHANGED <<table, cache, removed>> /\ changes' \in Nat
  BY CallFacts DEF IsAllowed, Add, Remove
<1> HIDE DEF q
<1>4. Become(r, q)
  BY <1>1 DEF q
<1> QED
  BY <1>2, <1>3, <1>4, MoveInv

LEMMA CheckCacheInv ==
  ASSUME IInv, NEW r \in Slots, CheckCache(r)
  PROVE  IInv'
<1> DEFINE q == req[r]
<1>1. /\ q \in Call
      /\ q.pc = "checkCache"
      /\ q.repo \in Repos
      /\ q.op = "isAllowed"
      /\ ~ q.allowed
      /\ q.status = "none"
  BY CallFacts DEF CheckCache, At, SaneCall
<1>2. PICK p : /\ Become(r, p)
               /\ \/ p = Finish([q EXCEPT !.allowed = Decode(cache[q.repo])], "ok")
                  \/ p = Goto(q, "exists")
  BY DEF CheckCache
<1>3. GoodCall(p) /\ p.pc # "setCache"
  BY <1>1, <1>2 DEF GoodCall, SaneCall, Call, Pcs, Finish, Goto, Decode
<1>4. UNCHANGED <<table, cache, removed>> /\ changes' \in Nat
  BY CallFacts DEF CheckCache
<1> QED
  BY <1>2, <1>3, <1>4, MoveInv

LEMMA ExistsInv ==
  ASSUME IInv, NEW r \in Slots, Exists(r)
  PROVE  IInv'
<1> DEFINE q == req[r]
<1>1. /\ q \in Call
      /\ q.pc = "exists"
      /\ q.repo \in Repos
      /\ q.op = "isAllowed"
      /\ q.status = "none"
      /\ table \in [Repos -> BOOLEAN]
  BY CallFacts DEF Exists, At, SaneCall
<1>2. PICK p : /\ Become(r, p)
               /\ \/ p = [q EXCEPT !.pc = "setCache", !.allowed = table[q.repo]]
                  \/ p = Finish(q, "error")
  BY DEF Exists
<1>3. GoodCall(p)
  BY <1>1, <1>2 DEF GoodCall, SaneCall, Call, Pcs, Finish
<1>4. p.pc = "setCache" => p.repo \in Repos /\ (p.allowed => table[p.repo])
  BY <1>1, <1>2 DEF Call, Finish
<1>5. UNCHANGED <<table, cache, removed>> /\ changes' \in Nat
  BY CallFacts DEF Exists
<1> QED
  BY <1>2, <1>3, <1>4, <1>5, MoveInv

(* A call may store "true" only for a repository that is not removed.      *)
LEMMA SetCacheInv ==
  ASSUME IInv, NEW r \in Slots, SetCache(r)
  PROVE  IInv'
<1> DEFINE q == req[r]
           p == Finish(q, "ok")
<1>1. /\ q \in Call
      /\ q.pc = "setCache"
      /\ q.repo \in Repos
      /\ cache \in [Repos -> Cached]
  BY CallFacts DEF SetCache, At, SaneCall
<1>2. GoodCall(p) /\ p.pc # "setCache"
  BY <1>1 DEF GoodCall, SaneCall, Call, Pcs, Finish
<1>3. Become(r, p) /\ UNCHANGED <<table, removed, changes>>
  BY DEF SetCache
<1>4. cache' \in [Repos -> Cached]
  BY <1>1 DEF SetCache, Encode, Cached
<1>5. ASSUME NEW k \in removed'
      PROVE  /\ ~ table'[k]
             /\ cache'[k] # "true"
             /\ \A s \in Slots \ {r} : ~ WillAllow(s, k)
  <2>1. k \in Repos /\ Gone(k)
    BY <1>3, CallFacts
  <2>2. cache'[k] # "true"
    <3>1. CASE k = q.repo
      <4>1. ~ q.allowed
        BY <1>1, <2>1, <3>1 DEF Gone, WillAllow, At
      <4> QED
        BY <1>1, <2>1, <4>1 DEF SetCache, Encode, Gone
    <3>2. CASE k # q.repo
      BY <1>1, <2>1, <3>2 DEF SetCache, Gone
    <3> QED
      BY <3>1, <3>2
  <2> QED
    BY <1>3, <2>1, <2>2 DEF Gone
<1> HIDE DEF p
<1> QED
  BY <1>2, <1>3, <1>4, <1>5, CallFacts, CallStep

(* A row that is inserted ends a removal.                                  *)
LEMMA InsertInv ==
  ASSUME IInv, NEW r \in Slots, Insert(r)
  PROVE  IInv'
<1> DEFINE q == req[r]
<1>1. /\ q \in Call
      /\ q.pc = "insert"
      /\ q.repo \in Repos
      /\ q.op \in {"add", "remove"}
      /\ q.status = "none"
      /\ table \in [Repos -> BOOLEAN]
      /\ removed \subseteq Repos
  BY CallFacts DEF Insert, At, SaneCall
<1>2. PICK p :
        /\ Become(r, p)
        /\ \/ /\ p = [q EXCEPT !.pc = "setCache", !.allowed = TRUE]
              /\ table' = [table EXCEPT ![q.repo] = TRUE]
              /\ removed' = removed \ {q.repo}
           \/ /\ p = Finish(q, "error")
              /\ \/ /\ table' = [table EXCEPT ![q.repo] = TRUE]
                    /\ removed' = removed \ {q.repo}
                 \/ UNCHANGED <<table, removed>>
  BY DEF Insert
<1>3. GoodCall(p)
  BY <1>1, <1>2 DEF GoodCall, SaneCall, Call, Pcs, Finish
<1>4. table' \in [Repos -> BOOLEAN] /\ removed' \subseteq Repos
  BY <1>1, <1>2
<1>5. UNCHANGED <<cache, changes>>
  BY DEF Insert
<1>6. ASSUME NEW k \in removed'
      PROVE  /\ ~ table'[k]
             /\ cache'[k] # "true"
             /\ \A s \in Slots \ {r} : ~ WillAllow(s, k)
             /\ ~ (p.pc = "setCache" /\ p.repo = k /\ p.allowed)
  <2>1. k \in removed /\ k \in Repos
    BY <1>1, <1>2
  <2>2. Gone(k)
    BY <2>1, CallFacts
  <2>3. ~ table'[k]
    BY <1>1, <1>2, <2>1, <2>2 DEF Gone
  <2>4. ~ (p.pc = "setCache" /\ p.repo = k /\ p.allowed)
    <3>1. CASE p = Finish(q, "error")
      BY <1>1, <3>1 DEF Finish, Call
    <3>2. CASE /\ p = [q EXCEPT !.pc = "setCache", !.allowed = TRUE]
               /\ removed' = removed \ {q.repo}
      <4>1. p.repo = q.repo
        BY <1>1, <3>2 DEF Call
      <4> QED
        BY <3>2, <4>1
    <3> QED
      BY <1>2, <3>1, <3>2
  <2> QED
    BY <1>5, <2>2, <2>3, <2>4 DEF Gone
<1> QED
  BY <1>2, <1>3, <1>4, <1>5, <1>6, CallFacts, CallStep

LEMMA DeleteInv ==
  ASSUME IInv, NEW r \in Slots, Delete(r)
  PROVE  IInv'
<1> DEFINE q == req[r]
<1>1. /\ q \in Call
      /\ q.pc = "delete"
      /\ q.repo \in Repos
      /\ q.op \in {"add", "remove"}
      /\ ~ q.allowed
      /\ q.status = "none"
      /\ table \in [Repos -> BOOLEAN]
      /\ removed \subseteq Repos
  BY CallFacts DEF Delete, At, SaneCall
<1>2. PICK p :
        /\ Become(r, p)
        /\ p \in {Goto(q, "delCache"), Finish(q, "notFound"), Finish(q, "error")}
        /\ UNCHANGED table \/ table' = [table EXCEPT ![q.repo] = FALSE]
  BY DEF Delete
<1>3. GoodCall(p) /\ p.pc # "setCache"
  BY <1>1, <1>2 DEF GoodCall, SaneCall, Call, Pcs, Finish, Goto
<1>4. table' \in [Repos -> BOOLEAN]
  BY <1>1, <1>2
<1>5. UNCHANGED <<cache, changes, removed>>
  BY DEF Delete
<1>6. ASSUME NEW k \in removed'
      PROVE  /\ ~ table'[k]
             /\ cache'[k] # "true"
             /\ \A s \in Slots \ {r} : ~ WillAllow(s, k)
  <2>1. k \in Repos /\ Gone(k)
    BY <1>1, <1>5, CallFacts
  <2> QED
    BY <1>1, <1>2, <1>5, <2>1 DEF Gone
<1> QED
  BY <1>2, <1>3, <1>4, <1>5, <1>6, CallFacts, CallStep

(* A removal that becomes complete has nothing left that allows.           *)
LEMMA DelCacheInv ==
  ASSUME IInv, NEW r \in Slots, DelCache(r)
  PROVE  IInv'
<1> DEFINE q == req[r]
           p == Finish(q, "ok")
<1>1. /\ q \in Call
      /\ q.pc = "delCache"
      /\ q.repo \in Repos
      /\ q.status = "none"
      /\ cache \in [Repos -> Cached]
      /\ removed \subseteq Repos
  BY CallFacts DEF DelCache, At, SaneCall
<1>2. GoodCall(p) /\ p.pc # "setCache"
  BY <1>1 DEF GoodCall, SaneCall, Call, Pcs, Finish
<1>3. Become(r, p) /\ UNCHANGED <<table, changes>>
  BY DEF DelCache
<1>4. cache' \in [Repos -> Cached] /\ removed' \subseteq Repos
  BY <1>1 DEF DelCache, Cached
<1>5. ASSUME NEW k \in removed'
      PROVE  /\ ~ table'[k]
             /\ cache'[k] # "true"
             /\ \A s \in Slots \ {r} : ~ WillAllow(s, k)
  <2>1. k \in Repos
    BY <1>4
  <2>2. CASE k \in removed
    <3>1. Gone(k)
      BY <2>2, CallFacts
    <3> QED
      BY <1>1, <1>3, <2>1, <3>1 DEF Gone, DelCache
  <2>3. CASE k \notin removed
    <3>1. k = q.repo /\ Complete(k) /\ cache' = [cache EXCEPT ![q.repo] = "absent"]
      BY <2>3 DEF DelCache
    <3> QED
      BY <1>1, <1>3, <3>1 DEF Complete
  <2> QED
    BY <2>2, <2>3
<1> HIDE DEF p
<1> QED
  BY <1>2, <1>3, <1>4, <1>5, CallFacts, CallStep

LEMMA ReturnInv ==
  ASSUME IInv, NEW r \in Slots, Return(r)
  PROVE  IInv'
<1>1. Become(r, Idle) /\ Idle.pc # "setCache"
  BY DEF Return, Idle
<1>2. UNCHANGED <<table, cache, removed>> /\ changes' \in Nat
  BY CallFacts DEF Return
<1> QED
  BY <1>1, <1>2, IdleGood, MoveInv

LEMMA EnvironmentInv ==
  ASSUME IInv, Restart \/ UNCHANGED vars \/ \E k \in Repos : ChangeBySQL(k) \/ Expire(k)
  PROVE  IInv'
<1> USE IInvByCall DEF IInv, TypeOK, CallSane, RemovedIsGone, At, WillAllow
<1>1. CASE Restart
  BY <1>1, IdleGood DEF Restart, GoodCall, SaneCall, Idle
<1>2. CASE UNCHANGED vars
  BY <1>2 DEF vars
<1>3. ASSUME NEW k \in Repos, ChangeBySQL(k)
      PROVE  IInv'
  BY <1>3 DEF ChangeBySQL
<1>4. ASSUME NEW k \in Repos, Expire(k)
      PROVE  IInv'
  BY <1>4 DEF Expire, Cached
<1> QED
  BY <1>1, <1>2, <1>3, <1>4

(* The invariant holds initially.                                          *)
LEMMA InitInv == Init => IInv
BY IdleGood DEF Init, IInv, TypeOK, CallSane, RemovedIsGone, GoodCall, SaneCall,
                Idle, At, Cached

(* Every step preserves it.                                                *)
LEMMA NextInv == IInv /\ [Next]_vars => IInv'
BY StartInv, CheckCacheInv, ExistsInv, SetCacheInv, InsertInv, DeleteInv,
   DelCacheInv, ReturnInv, EnvironmentInv DEF Next, Step

(* The invariant holds in every reachable state, however many calls of     *)
(* IsAllowed, Add and Remove run at the same time.                         *)
THEOREM AllowlistInvariance == Spec => []IInv
BY InitInv, NextInv, PTL DEF Spec

(* TypeOK: the table, the cache and the calls keep their types.            *)
THEOREM AllowlistTypeCorrect == Spec => []TypeOK
<1>1. IInv => TypeOK
  BY DEF IInv
<1> QED
  BY <1>1, AllowlistInvariance, PTL

-----------------------------------------------------------------------------
(* A complete removal *)

(* The answer of IsAllowed turns positive only when it is read from the    *)
(* cache or from the table, and neither allows a removed repository.       *)
LEMMA RemovalStep ==
  ASSUME IInv, [Next]_vars, NEW r \in Slots,
         req[r].op = "isAllowed", ~ req[r].allowed, req'[r].allowed
  PROVE  req[r].repo \notin removed
<1> DEFINE q == req[r]
<1>1. req \in [Slots -> Call]
  BY DEF IInv, TypeOK
<1>2. \A s \in Slots \ {r} : \A p : Become(s, p) => req'[r] = q
  BY <1>1 DEF Become
<1>3. \A p : Become(r, p) => req'[r] = p
  BY <1>1 DEF Become
<1>4. q.op \notin {"add", "remove"} /\ ~ Idle.allowed /\ Idle.op = "none"
  BY DEF Idle
<1>5. ASSUME NEW s \in Slots, IsAllowed(s) \/ Add(s) \/ Remove(s)
      PROVE  FALSE
  <2>1. CASE s = r
    <3>1. q = Idle
      BY <1>5, <2>1, CallFacts DEF IsAllowed, Add, Remove, Start, At, SaneCall
    <3> QED
      BY <1>4, <3>1
  <2>2. CASE s # r
    BY <1>2, <1>5, <2>2 DEF IsAllowed, Add, Remove, Start
  <2> QED
    BY <2>1, <2>2
<1>6. ASSUME NEW s \in Slots, Step(s)
      PROVE  s = r /\ (CheckCache(r) \/ Exists(r))
  <2>1. s = r
    BY <1>2, <1>6 DEF Step, CheckCache, Exists, SetCache, Insert, Delete,
                      DelCache, Return
  <2>2. ~ SetCache(r) /\ ~ Return(r)
    BY <1>1, <1>3, <1>4 DEF SetCache, Return, Finish, Call
  <2>3. ~ Insert(r) /\ ~ Delete(r) /\ ~ DelCache(r)
    BY <1>4, CallFacts DEF Insert, Delete, DelCache, At, SaneCall
  <2> QED
    BY <1>6, <2>1, <2>2, <2>3 DEF Step
<1>7. ~ Restart /\ ~ UNCHANGED vars /\ \A k \in Repos : ~ ChangeBySQL(k) /\ ~ Expire(k)
  BY <1>4 DEF Restart, vars, ChangeBySQL, Expire
<1>8. CheckCache(r) \/ Exists(r)
  BY <1>5, <1>6, <1>7 DEF Next
<1>9. CASE CheckCache(r)
  <2>1. Goto(q, "exists").allowed = q.allowed
    BY <1>1 DEF Goto, Call
  <2>2. req'[r] = Finish([q EXCEPT !.allowed = Decode(cache[q.repo])], "ok")
    BY <1>3, <1>9, <2>1 DEF CheckCache
  <2>3. req'[r].allowed = Decode(cache[q.repo])
    BY <1>1, <2>2 DEF Finish, Call
  <2>4. cache[q.repo] = "true"
    BY <2>3 DEF Decode
  <2> QED
    BY <2>4 DEF IInv, RemovedIsGone
<1>10. CASE Exists(r)
  <2>1. Finish(q, "error").allowed = q.allowed
    BY <1>1 DEF Finish, Call
  <2>2. req'[r] = [q EXCEPT !.pc = "setCache", !.allowed = table[q.repo]]
    BY <1>3, <1>10, <2>1 DEF Exists
  <2>3. req'[r].allowed = table[q.repo]
    BY <1>1, <2>2 DEF Call
  <2> QED
    BY <2>3 DEF IInv, RemovedIsGone
<1> QED
  BY <1>8, <1>9, <1>10

(* CompleteRemovalHolds: after a removal that is complete no IsAllowed     *)
(* decides for the repository until it is added again.                     *)
THEOREM RemovalHolds == Spec => CompleteRemovalHolds
<1>1. IInv /\ [Next]_vars =>
        [\A r \in Slots :
           /\ req[r].op = "isAllowed"
           /\ ~ req[r].allowed
           /\ req'[r].allowed
           => req[r].repo \notin removed]_vars
  BY RemovalStep
<1> QED
  BY <1>1, AllowlistInvariance, PTL DEF Spec, CompleteRemovalHolds

-----------------------------------------------------------------------------
(* Refinement of LaggingCopies *)

(* The answer a call stands for, None while it has none.                   *)
AnswerOf(q) ==
  IF /\ q.op = "isAllowed"
     /\ q.pc \in {"setCache", "done"}
     /\ q.status # "error"
  THEN [key |-> q.repo, value |-> q.allowed] ELSE None

(* What is held has the type of answers, the row's value among it, and an  *)
(* answer is one about a repository.                                       *)
LEMMA HeldType ==
  ASSUME IInv
  PROVE  /\ \A k \in Repos : Held(k) \in SUBSET BOOLEAN /\ table[k] \in Held(k)
         /\ \A r \in Slots :
              AnswerOf(req[r]) \in [key : Repos, value : BOOLEAN] \union {None}
<1>1. ASSUME NEW k \in Repos
      PROVE  Held(k) \in SUBSET BOOLEAN /\ table[k] \in Held(k)
  <2>1. table[k] \in BOOLEAN /\ \A s \in Slots : req[s].allowed \in BOOLEAN
    BY DEF IInv, TypeOK, Call
  <2>2. \A val : Decode(val) \in BOOLEAN
    BY DEF Decode
  <2> QED
    BY <2>1, <2>2 DEF Held
<1>2. ASSUME NEW r \in Slots
      PROVE  AnswerOf(req[r]) \in [key : Repos, value : BOOLEAN] \union {None}
  BY CallFacts DEF AnswerOf, Call
<1> QED
  BY <1>1, <1>2

(* The values of the refinement mapping.                                   *)
LEMMA Mapping ==
  /\ [r \in Slots |-> IF Decided(r)
                      THEN [key |-> req[r].repo, value |-> req[r].allowed]
                      ELSE None]
       = [r \in Slots |-> AnswerOf(req[r])]
  /\ [r \in Slots |-> IF Decided(r)
                      THEN [key |-> req[r].repo, value |-> req[r].allowed]
                      ELSE None]'
       = [r \in Slots |-> AnswerOf(req'[r])]
BY DEF Decided, AnswerOf

(* A step that leaves the table alone, holds nothing new and takes no      *)
(* answer implements Forget.                                               *)
LEMMA ForgetStep ==
  ASSUME IInv, IInv', UNCHANGED table,
         \A k \in Repos : Held(k)' \subseteq Held(k),
         \A r \in Slots : AnswerOf(req'[r]) \in {AnswerOf(req[r]), None}
  PROVE  Copies!LagNext
<1>1. \A k \in Repos : Held(k)' \in SUBSET BOOLEAN /\ table'[k] \in Held(k)'
  BY HeldType DEF IInv, TypeOK, Held, Call, Decode
<1>2. \A r \in Slots :
        AnswerOf(req'[r]) \in [key : Repos, value : BOOLEAN] \union {None}
  BY HeldType
<1> DEFINE h == [k \in Repos |-> Held(k)]
           a == [r \in Slots |-> IF Decided(r)
                                 THEN [key |-> req[r].repo, value |-> req[r].allowed]
                                 ELSE None]
<1>3. \A k \in Repos : h[k] = Held(k) /\ h'[k] = Held(k)'
  OBVIOUS
<1>4. h' \in [Repos -> SUBSET BOOLEAN]
  BY <1>1
<1>5. \A r \in Slots : a[r] = AnswerOf(req[r]) /\ a'[r] = AnswerOf(req'[r])
  BY Mapping
<1>6. a' \in [Slots -> [key : Repos, value : BOOLEAN] \union {None}]
  BY <1>2, Mapping
<1> HIDE DEF h, a
<1>7. /\ h' \in [Repos -> SUBSET BOOLEAN]
      /\ \A k \in Repos : table[k] \in h'[k] /\ h'[k] \subseteq h[k]
      /\ a' \in [Slots -> [key : Repos, value : BOOLEAN] \union {None}]
      /\ \A r \in Slots : a'[r] \in {a[r], None}
      /\ UNCHANGED table
  BY <1>1, <1>3, <1>4, <1>5, <1>6
<1>8. Copies!Forget
  BY <1>7, Zenon DEF Copies!Forget, Copies!Answers, h, a
<1> QED
  BY <1>8 DEF Copies!LagNext

(* A step that changes the row of k and holds nothing new but its value    *)
(* implements Change.                                                      *)
LEMMA ChangeStep ==
  ASSUME IInv, IInv', NEW k \in Repos,
         table' = [table EXCEPT ![k] = table'[k]],
         Held(k)' \subseteq Held(k) \union {table'[k]},
         \A j \in Repos \ {k} : Held(j)' = Held(j),
         \A r \in Slots : AnswerOf(req'[r]) = AnswerOf(req[r])
  PROVE  Copies!LagNext
<1> DEFINE h == [j \in Repos |-> Held(j)]
           a == [r \in Slots |-> IF Decided(r)
                                 THEN [key |-> req[r].repo, value |-> req[r].allowed]
                                 ELSE None]
           v == table'[k]
<1>1. v \in BOOLEAN /\ v \in Held(k)'
  BY DEF IInv, TypeOK, Held
<1>2. h' = [h EXCEPT ![k] = Held(k)']
  OBVIOUS
<1>3. h[k] = Held(k)
  OBVIOUS
<1>4. a' = a
  BY Mapping
<1> HIDE DEF h, a, v
<1>5. /\ table' = [table EXCEPT ![k] = v]
      /\ Held(k)' \in SUBSET (h[k] \union {v})
      /\ v \in Held(k)' /\ h' = [h EXCEPT ![k] = Held(k)']
      /\ UNCHANGED a
  BY <1>1, <1>2, <1>3, <1>4 DEF v
<1>6. Copies!Change(k)
  BY <1>1, <1>5, Zenon DEF Copies!Change, h, a
<1> QED
  BY <1>6 DEF Copies!LagNext

(* A step that only answers r with a value that is held implements Answer. *)
LEMMA AnswerStep ==
  ASSUME NEW r \in Slots, NEW k \in Repos, NEW v \in Held(k), UNCHANGED table,
         \A j \in Repos : Held(j)' = Held(j),
         AnswerOf(req'[r]) = [key |-> k, value |-> v],
         \A s \in Slots \ {r} : req'[s] = req[s]
  PROVE  Copies!LagNext
<1> DEFINE h == [j \in Repos |-> Held(j)]
           a == [s \in Slots |-> IF Decided(s)
                                 THEN [key |-> req[s].repo, value |-> req[s].allowed]
                                 ELSE None]
<1>1. h' = h /\ v \in h[k]
  OBVIOUS
<1>2. a' = [a EXCEPT ![r] = [key |-> k, value |-> v]]
  <2>1. a = [s \in Slots |-> AnswerOf(req[s])]
    BY Mapping
  <2>2. a' = [s \in Slots |-> AnswerOf(req'[s])]
    BY Mapping
  <2>3. \A s \in Slots : s # r => AnswerOf(req'[s]) = AnswerOf(req[s])
    OBVIOUS
  <2> HIDE DEF a
  <2> QED
    BY <2>1, <2>2, <2>3
<1> HIDE DEF h, a
<1>3. Copies!Answer(r, k)
  BY <1>1, <1>2, Zenon DEF Copies!Answer, h, a
<1> QED
  BY <1>3 DEF Copies!LagNext

(* What is held after the step of one call: nothing but what was held, the *)
(* row's value and what the step itself adds.                              *)
LEMMA HeldAfter ==
  ASSUME req \in [Slots -> Call], NEW r \in Slots, NEW p \in Call, Become(r, p),
         NEW k \in Repos,
         cache'[k] = cache[k] \/ cache'[k] = "absent"
           \/ Decode(cache'[k]) \in Held(k) \union {table'[k]},
         p.pc = "setCache" /\ p.repo = k => p.allowed \in Held(k) \union {table'[k]}
  PROVE  Held(k)' \subseteq Held(k) \union {table'[k]}
<1>1. req'[r] = p /\ \A s \in Slots : s # r => req'[s] = req[s]
  BY BecomeReq
<1> SUFFICES ASSUME NEW v \in Held(k)', v # table'[k] PROVE v \in Held(k) \union {table'[k]}
  OBVIOUS
<1>2. CASE cache'[k] # "absent" /\ v = Decode(cache'[k])
  BY <1>2 DEF Held
<1>3. CASE \E s \in Slots : req'[s].pc = "setCache" /\ req'[s].repo = k /\ v = req'[s].allowed
  <2>1. PICK s \in Slots : req'[s].pc = "setCache" /\ req'[s].repo = k /\ v = req'[s].allowed
    BY <1>3
  <2>2. CASE s = r
    BY <1>1, <2>1, <2>2
  <2>3. CASE s # r
    BY <1>1, <2>1, <2>3 DEF Held, At
  <2> QED
    BY <2>2, <2>3
<1> QED
  BY <1>2, <1>3 DEF Held, At

(* What is held stays held if the row and the cache entry stay, and the    *)
(* call was not about to store anything.                                   *)
LEMMA HeldBefore ==
  ASSUME req \in [Slots -> Call], NEW r \in Slots, NEW p \in Call, Become(r, p),
         NEW k \in Repos, table'[k] = table[k], cache'[k] = cache[k],
         req[r].pc # "setCache"
  PROVE  Held(k) \subseteq Held(k)'
<1>1. \A s \in Slots : s # r => req'[s] = req[s]
  BY BecomeReq
<1>2. \A s \in Slots : req[s].pc = "setCache" => req'[s] = req[s]
  BY <1>1
<1> QED
  BY <1>2 DEF Held, At

(* The step of one call that leaves the table and the cache alone, where   *)
(* the call has no answer yet and gets none and stores nothing.            *)
LEMMA QuietStep ==
  ASSUME IInv, IInv', NEW r \in Slots, NEW p \in Call, Become(r, p),
         UNCHANGED <<table, cache>>, p.pc # "setCache",
         AnswerOf(p) \in {AnswerOf(req[r]), None}
  PROVE  Copies!LagNext
<1>1. req \in [Slots -> Call]
  BY DEF IInv, TypeOK
<1>2. \A k \in Repos : Held(k)' \subseteq Held(k)
  BY <1>1, HeldAfter, HeldType
<1>3. \A s \in Slots : AnswerOf(req'[s]) \in {AnswerOf(req[s]), None}
  BY <1>1, BecomeReq
<1> QED
  BY <1>2, <1>3, ForgetStep

LEMMA StartLag ==
  ASSUME IInv, IInv', NEW r \in Slots, IsAllowed(r) \/ Add(r) \/ Remove(r)
  PROVE  Copies!LagNext
<1>1. PICK k \in Repos, step \in {"checkCache", "insert", "delete"},
           op \in {"isAllowed", "add", "remove"} :
        Become(r, [Idle EXCEPT !.pc = step, !.op = op, !.repo = k])
  BY DEF IsAllowed, Add, Remove, Start
<1> DEFINE p == [Idle EXCEPT !.pc = step, !.op = op, !.repo = k]
<1>2. p \in Call /\ p.pc # "setCache" /\ AnswerOf(p) = None
  BY DEF Call, Pcs, Idle, AnswerOf
<1>3. UNCHANGED <<table, cache>>
  BY DEF IsAllowed, Add, Remove
<1> HIDE DEF p
<1>4. Become(r, p)
  BY <1>1 DEF p
<1> QED
  BY <1>2, <1>3, <1>4, QuietStep

(* A cached answer is held.                                                *)
LEMMA CheckCacheLag ==
  ASSUME IInv, IInv', NEW r \in Slots, CheckCache(r)
  PROVE  Copies!LagNext
<1> DEFINE q == req[r]
<1>1. /\ q \in Call
      /\ q.pc = "checkCache"
      /\ q.repo \in Repos
      /\ q.op = "isAllowed"
      /\ req \in [Slots -> Call]
  BY CallFacts DEF CheckCache, At, SaneCall, IInv, TypeOK
<1>2. UNCHANGED <<table, cache>>
  BY DEF CheckCache
<1>3. CASE Become(r, Goto(q, "exists"))
  <2>1. Goto(q, "exists") \in Call /\ AnswerOf(Goto(q, "exists")) = None
        /\ Goto(q, "exists").pc # "setCache"
    BY <1>1 DEF Goto, Call, Pcs, AnswerOf
  <2> QED
    BY <1>2, <1>3, <2>1, QuietStep
<1>4. CASE /\ cache[q.repo] # "absent"
           /\ Become(r, Finish([q EXCEPT !.allowed = Decode(cache[q.repo])], "ok"))
  <2> DEFINE p == Finish([q EXCEPT !.allowed = Decode(cache[q.repo])], "ok")
             v == Decode(cache[q.repo])
  <2>1. v \in BOOLEAN /\ v \in Held(q.repo)
    BY <1>1, <1>4 DEF Decode, Held
  <2>2. p \in Call /\ p.pc = "done" /\ AnswerOf(p) = [key |-> q.repo, value |-> v]
    BY <1>1, <2>1 DEF Finish, Call, Pcs, AnswerOf
  <2>3. Become(r, p)
    BY <1>4
  <2> HIDE DEF p, v
  <2>4. \A j \in Repos : Held(j)' = Held(j)
    BY <1>1, <1>2, <2>2, <2>3, HeldAfter, HeldBefore, HeldType
  <2>5. req'[r] = p /\ \A s \in Slots \ {r} : req'[s] = req[s]
    BY <1>1, <2>2, <2>3, BecomeReq
  <2> QED
    BY <1>1, <1>2, <2>1, <2>2, <2>4, <2>5, AnswerStep
<1> QED
  BY <1>3, <1>4 DEF CheckCache

(* The row's value is held.                                                *)
LEMMA ExistsLag ==
  ASSUME IInv, IInv', NEW r \in Slots, Exists(r)
  PROVE  Copies!LagNext
<1> DEFINE q == req[r]
<1>1. /\ q \in Call
      /\ q.pc = "exists"
      /\ q.repo \in Repos
      /\ q.op = "isAllowed"
      /\ q.status = "none"
      /\ req \in [Slots -> Call]
      /\ table \in [Repos -> BOOLEAN]
  BY CallFacts DEF Exists, At, SaneCall, IInv, TypeOK
<1>2. UNCHANGED <<table, cache>>
  BY DEF Exists
<1>3. CASE Become(r, Finish(q, "error"))
  <2>1. Finish(q, "error") \in Call /\ AnswerOf(Finish(q, "error")) = None
        /\ Finish(q, "error").pc # "setCache"
    BY <1>1 DEF Finish, Call, Pcs, AnswerOf
  <2> QED
    BY <1>2, <1>3, <2>1, QuietStep
<1>4. CASE Become(r, [q EXCEPT !.pc = "setCache", !.allowed = table[q.repo]])
  <2> DEFINE v == table[q.repo]
             p == [q EXCEPT !.pc = "setCache", !.allowed = v]
  <2>1. v \in BOOLEAN /\ v \in Held(q.repo)
    BY <1>1, HeldType
  <2>2. /\ p \in Call
        /\ p.repo = q.repo
        /\ p.allowed = v
        /\ AnswerOf(p) = [key |-> q.repo, value |-> v]
    BY <1>1, <2>1 DEF Call, Pcs, AnswerOf
  <2>3. Become(r, p)
    BY <1>4
  <2> HIDE DEF p, v
  <2>4. ASSUME NEW j \in Repos PROVE Held(j)' = Held(j)
    <3>1. Held(j)' \subseteq Held(j) \union {table'[j]}
      BY <1>1, <1>2, <2>1, <2>2, <2>3, HeldAfter
    <3>2. Held(j) \subseteq Held(j)'
      BY <1>1, <1>2, <2>2, <2>3, HeldBefore
    <3> QED
      BY <1>2, <3>1, <3>2, HeldType
  <2>5. req'[r] = p /\ \A s \in Slots \ {r} : req'[s] = req[s]
    BY <1>1, <2>2, <2>3, BecomeReq
  <2> QED
    BY <1>1, <1>2, <2>1, <2>2, <2>4, <2>5, AnswerStep
<1> QED
  BY <1>3, <1>4 DEF Exists

(* What a call stores was held by the call.                                *)
LEMMA SetCacheLag ==
  ASSUME IInv, IInv', NEW r \in Slots, SetCache(r)
  PROVE  Copies!LagNext
<1> DEFINE q == req[r]
           p == Finish(q, "ok")
<1>1. /\ q \in Call
      /\ q.pc = "setCache"
      /\ q.repo \in Repos
      /\ q.status = "none"
      /\ req \in [Slots -> Call]
      /\ cache \in [Repos -> Cached]
  BY CallFacts DEF SetCache, At, SaneCall, IInv, TypeOK
<1>2. p \in Call /\ p.pc = "done" /\ AnswerOf(p) = AnswerOf(q)
  BY <1>1 DEF Finish, Call, Pcs, AnswerOf
<1>3. Become(r, p) /\ UNCHANGED table
  BY DEF SetCache
<1>4. q.allowed \in Held(q.repo) /\ Decode(Encode(q.allowed)) = q.allowed
  BY <1>1 DEF Held, At, Encode, Decode, Call
<1>5. \A k \in Repos : cache'[k] = cache[k] \/ Decode(cache'[k]) \in Held(k)
  BY <1>1, <1>4 DEF SetCache
<1> HIDE DEF p
<1>6. \A k \in Repos : Held(k)' \subseteq Held(k)
  BY <1>1, <1>2, <1>3, <1>5, HeldAfter, HeldType
<1>7. \A s \in Slots : AnswerOf(req'[s]) \in {AnswerOf(req[s]), None}
  BY <1>1, <1>2, <1>3, BecomeReq
<1> QED
  BY <1>3, <1>6, <1>7, ForgetStep

(* A step of one call that writes the row of its repository, where the     *)
(* call has no answer.                                                     *)
LEMMA WriteStep ==
  ASSUME IInv, IInv', NEW r \in Slots, NEW p \in Call, Become(r, p),
         NEW k \in Repos, NEW b \in BOOLEAN, table' = [table EXCEPT ![k] = b],
         UNCHANGED cache, req[r].pc # "setCache",
         p.pc = "setCache" => p.repo = k /\ p.allowed = b,
         AnswerOf(p) = AnswerOf(req[r])
  PROVE  Copies!LagNext
<1>1. req \in [Slots -> Call] /\ table \in [Repos -> BOOLEAN]
  BY DEF IInv, TypeOK
<1>2. table'[k] = b /\ \A j \in Repos \ {k} : table'[j] = table[j]
  BY <1>1
<1>3. Held(k)' \subseteq Held(k) \union {table'[k]}
  BY <1>1, <1>2, HeldAfter
<1>4. ASSUME NEW j \in Repos \ {k} PROVE Held(j)' = Held(j)
  <2>1. Held(j)' \subseteq Held(j) \union {table'[j]}
    BY <1>1, HeldAfter
  <2>2. Held(j) \subseteq Held(j)'
    BY <1>1, <1>2, HeldBefore
  <2> QED
    BY <1>2, <2>1, <2>2, HeldType
<1>5. \A s \in Slots : AnswerOf(req'[s]) = AnswerOf(req[s])
  BY <1>1, BecomeReq
<1>6. table' = [table EXCEPT ![k] = table'[k]]
  BY <1>2
<1> QED
  BY <1>3, <1>4, <1>5, <1>6, ChangeStep

LEMMA InsertLag ==
  ASSUME IInv, IInv', NEW r \in Slots, Insert(r)
  PROVE  Copies!LagNext
<1> DEFINE q == req[r]
           e == Finish(q, "error")
           p == [q EXCEPT !.pc = "setCache", !.allowed = TRUE]
<1>1. /\ q \in Call
      /\ q.pc = "insert"
      /\ q.repo \in Repos
      /\ q.op # "isAllowed"
  BY CallFacts DEF Insert, At, SaneCall
<1>2. /\ e \in Call
      /\ e.pc = "done"
      /\ AnswerOf(e) = None
  BY <1>1 DEF Finish, Call, Pcs, AnswerOf
<1>3. /\ p \in Call
      /\ p.repo = q.repo
      /\ p.allowed = TRUE
      /\ AnswerOf(p) = None
  BY <1>1 DEF Call, Pcs, AnswerOf
<1>4. AnswerOf(q) = None
  BY <1>1 DEF AnswerOf
<1>5. UNCHANGED cache
  BY DEF Insert
<1>6. \/ Become(r, p) /\ table' = [table EXCEPT ![q.repo] = TRUE]
      \/ Become(r, e) /\ table' = [table EXCEPT ![q.repo] = TRUE]
      \/ Become(r, e) /\ UNCHANGED table
  BY DEF Insert
<1> HIDE DEF p, e
<1>7. CASE Become(r, p) /\ table' = [table EXCEPT ![q.repo] = TRUE]
  BY <1>1, <1>3, <1>4, <1>5, <1>7, WriteStep
<1>8. CASE Become(r, e) /\ table' = [table EXCEPT ![q.repo] = TRUE]
  BY <1>1, <1>2, <1>4, <1>5, <1>8, WriteStep
<1>9. CASE Become(r, e) /\ UNCHANGED table
  BY <1>2, <1>5, <1>9, QuietStep
<1> QED
  BY <1>6, <1>7, <1>8, <1>9

LEMMA DeleteLag ==
  ASSUME IInv, IInv', NEW r \in Slots, Delete(r)
  PROVE  Copies!LagNext
<1> DEFINE q == req[r]
<1>1. /\ q \in Call
      /\ q.pc = "delete"
      /\ q.repo \in Repos
      /\ q.op # "isAllowed"
  BY CallFacts DEF Delete, At, SaneCall
<1>2. PICK p :
        /\ Become(r, p)
        /\ p \in {Goto(q, "delCache"), Finish(q, "notFound"), Finish(q, "error")}
        /\ UNCHANGED table \/ table' = [table EXCEPT ![q.repo] = FALSE]
  BY DEF Delete
<1>3. /\ p \in Call
      /\ p.pc # "setCache"
      /\ AnswerOf(p) = None
  BY <1>1, <1>2 DEF Goto, Finish, Call, Pcs, AnswerOf
<1>4. AnswerOf(q) = None
  BY <1>1 DEF AnswerOf
<1>5. UNCHANGED cache
  BY DEF Delete
<1>6. CASE UNCHANGED table
  BY <1>2, <1>3, <1>5, <1>6, QuietStep
<1>7. CASE table' = [table EXCEPT ![q.repo] = FALSE]
  BY <1>1, <1>2, <1>3, <1>4, <1>5, <1>7, WriteStep
<1> QED
  BY <1>2, <1>6, <1>7

LEMMA DelCacheLag ==
  ASSUME IInv, IInv', NEW r \in Slots, DelCache(r)
  PROVE  Copies!LagNext
<1> DEFINE q == req[r]
           p == Finish(q, "ok")
<1>1. /\ q \in Call
      /\ q.pc = "delCache"
      /\ q.op # "isAllowed"
      /\ req \in [Slots -> Call]
      /\ cache \in [Repos -> Cached]
  BY CallFacts DEF DelCache, At, SaneCall, IInv, TypeOK
<1>2. p \in Call /\ p.pc = "done" /\ AnswerOf(p) = None
  BY <1>1 DEF Finish, Call, Pcs, AnswerOf
<1>3. Become(r, p) /\ UNCHANGED table
  BY DEF DelCache
<1>4. \A k \in Repos : cache'[k] = cache[k] \/ cache'[k] = "absent"
  BY <1>1 DEF DelCache
<1> HIDE DEF p
<1>5. \A k \in Repos : Held(k)' \subseteq Held(k)
  BY <1>1, <1>2, <1>3, <1>4, HeldAfter, HeldType
<1>6. \A s \in Slots : AnswerOf(req'[s]) \in {AnswerOf(req[s]), None}
  BY <1>1, <1>2, <1>3, BecomeReq
<1> QED
  BY <1>3, <1>5, <1>6, ForgetStep

LEMMA ReturnLag ==
  ASSUME IInv, IInv', NEW r \in Slots, Return(r)
  PROVE  Copies!LagNext
<1>1. Idle \in Call /\ Idle.pc # "setCache" /\ AnswerOf(Idle) = None
  BY DEF Idle, Call, Pcs, AnswerOf
<1> QED
  BY <1>1, QuietStep DEF Return

LEMMA EnvironmentLag ==
  ASSUME IInv, IInv', Restart \/ \E k \in Repos : ChangeBySQL(k) \/ Expire(k)
  PROVE  Copies!LagNext
<1>1. CASE Restart
  <2>1. \A s \in Slots : req'[s].pc = "idle" /\ AnswerOf(req'[s]) = None
    BY <1>1 DEF Restart, Idle, AnswerOf
  <2>2. \A k \in Repos : Held(k)' \subseteq Held(k)
    BY <1>1, <2>1 DEF Restart, Held, At
  <2> QED
    BY <1>1, <2>1, <2>2, ForgetStep DEF Restart
<1>2. ASSUME NEW k \in Repos, ChangeBySQL(k)
      PROVE  Copies!LagNext
  <2>1. table \in [Repos -> BOOLEAN]
    BY DEF IInv, TypeOK
  <2>2. table' = [table EXCEPT ![k] = ~ table[k]] /\ UNCHANGED <<cache, req>>
    BY <1>2 DEF ChangeBySQL
  <2>3. table' = [table EXCEPT ![k] = table'[k]]
    BY <2>1, <2>2
  <2>4. \A j \in Repos : Held(j)' \subseteq Held(j) \union {table'[j]}
    BY <2>2 DEF Held, At
  <2>5. \A j \in Repos \ {k} : Held(j)' = Held(j)
    BY <2>1, <2>2 DEF Held, At
  <2> QED
    BY <2>2, <2>3, <2>4, <2>5, ChangeStep
<1>3. ASSUME NEW k \in Repos, Expire(k)
      PROVE  Copies!LagNext
  <2>1. \A j \in Repos : Held(j)' \subseteq Held(j)
    <3>1. cache \in [Repos -> Cached]
      BY DEF IInv, TypeOK
    <3>2. \A j \in Repos : cache'[j] \in {cache[j], "absent"}
      BY <1>3, <3>1 DEF Expire
    <3> QED
      BY <1>3, <3>2 DEF Expire, Held, At
  <2> QED
    BY <1>3, <2>1, ForgetStep DEF Expire
<1> QED
  BY <1>1, <1>2, <1>3

(* Initially only the rows are held.                                       *)
LEMMA InitLag == Init => Copies!LagInit
<1> SUFFICES ASSUME Init PROVE Copies!LagInit
  OBVIOUS
<1>1. \A k \in Repos : Held(k) = {table[k]}
  BY DEF Init, Held, At, Idle
<1>2. \A r \in Slots : ~ Decided(r)
  BY DEF Init, Decided, Idle
<1> QED
  BY <1>1, <1>2 DEF Init, Copies!LagInit

(* Every step implements a step of LaggingCopies or a stutter.             *)
LEMMA NextLag ==
  ASSUME IInv, IInv', [Next]_vars
  PROVE  [Copies!LagNext]_(Copies!lagVars)
<1>1. CASE UNCHANGED vars
  BY <1>1 DEF vars, Copies!lagVars, Held, Decided, At
<1>2. CASE Next
  BY <1>2, StartLag, CheckCacheLag, ExistsLag, SetCacheLag, InsertLag, DeleteLag,
     DelCacheLag, ReturnLag, EnvironmentLag DEF Next, Step
<1> QED
  BY <1>1, <1>2

(* NeverInvented: the allowlist implements LaggingCopies, that is, every   *)
(* answer of IsAllowed is the row's value of now or an earlier one that    *)
(* the cache or a call in flight still holds.                              *)
THEOREM AllowlistRefinement == Spec => NeverInvented
<1>1. IInv /\ IInv' /\ [Next]_vars => [Copies!LagNext]_(Copies!lagVars)
  BY NextLag
<1> QED
  BY <1>1, InitLag, AllowlistInvariance, PTL DEF Spec, NeverInvented, Copies!LagSpec

-----------------------------------------------------------------------------
(* A withdrawal is final *)

CopiesProofs == INSTANCE LaggingCopiesProofs WITH
  Readers <- Slots, Keys <- Repos, Values <- BOOLEAN,
  source <- table,
  held <- [k \in Repos |-> Held(k)],
  answer <- [r \in Slots |-> IF Decided(r)
                             THEN [key |-> req[r].repo, value |-> req[r].allowed]
                             ELSE None]

(* Nothing says of k that it is allowed, and no call was answered so.      *)
Refused(k) ==
  /\ TRUE \notin Held(k)
  /\ \A r \in Slots : Decided(r) /\ req[r].repo = k => ~ req[r].allowed

(* Refused is what LaggingCopies calls clear of TRUE.                      *)
LEMMA RefusedIsClear ==
  ASSUME IInv, NEW k \in Repos
  PROVE  Refused(k) <=> CopiesProofs!Clear(k, {TRUE})
<1>1. \A r \in Slots : req[r].allowed \in BOOLEAN /\ (Decided(r) => req[r].repo \in Repos)
  BY DEF IInv, TypeOK, Call, Decided, At
<1>2. ASSUME NEW r \in Slots
      PROVE  (Decided(r) /\ req[r].repo = k => ~ req[r].allowed)
               <=> LET a == IF Decided(r)
                            THEN [key |-> req[r].repo, value |-> req[r].allowed]
                            ELSE None
                   IN  a # None => a # [key |-> k, value |-> TRUE]
  <2>1. CASE ~ Decided(r)
    BY <2>1
  <2>2. CASE Decided(r)
    <3>1. [key |-> req[r].repo, value |-> req[r].allowed] # None
      BY <1>1, <2>2, NoneAssumption
    <3> QED
      BY <1>1, <2>2, <3>1
  <2> QED
    BY <2>1, <2>2
<1> QED
  BY <1>2 DEF Refused, CopiesProofs!Clear

(* A step of the allowlist is a step of LaggingCopies in either instance.  *)
LEMMA NextCopies ==
  ASSUME IInv, IInv', [Next]_vars
  PROVE  [CopiesProofs!LagNext]_(CopiesProofs!lagVars)
BY NextLag, Zenon
   DEF Copies!LagNext, Copies!Change, Copies!Forget, Copies!Answer, Copies!Answers,
       Copies!lagVars, CopiesProofs!LagNext, CopiesProofs!Change, CopiesProofs!Forget,
       CopiesProofs!Answer, CopiesProofs!Answers, CopiesProofs!lagVars

(* A refusal is final: once neither the table nor the cache nor a call in  *)
(* flight says of a repository that it is allowed, and as long as no row   *)
(* is inserted for it, no IsAllowed decides for it again, whatever fails,  *)
(* expires or is restarted in between.                                     *)
THEOREM RefusalStays ==
  ASSUME NEW k \in Repos
  PROVE  Spec => [](Refused(k) /\ [](~ table[k]) => []Refused(k))
<1>1. IInv /\ IInv' /\ [Next]_vars /\ Refused(k) /\ (~ table[k])' => Refused(k)'
  <2> SUFFICES ASSUME IInv, IInv', [Next]_vars, Refused(k), ~ table'[k]
               PROVE  Refused(k)'
    OBVIOUS
  <2>1. CopiesProofs!LagInv
    BY HeldType, Mapping DEF IInv, TypeOK, CopiesProofs!LagInv, CopiesProofs!Answers
  <2>2. CopiesProofs!Clear(k, {TRUE}) /\ table'[k] \notin {TRUE}
    BY RefusedIsClear
  <2>3. CopiesProofs!Clear(k, {TRUE})'
    BY <2>1, <2>2, NextCopies, CopiesProofs!ClearStep
  <2>4. (IInv => (Refused(k) <=> CopiesProofs!Clear(k, {TRUE})))'
    BY RefusedIsClear, PTL
  <2> QED
    BY <2>3, <2>4
<1> QED
  BY <1>1, AllowlistInvariance, PTL DEF Spec
=============================================================================
