-------------------------- MODULE JwksFetcherProofs --------------------------
(***************************************************************************)
(* Proofs about JwksFetcher, for every set of slots and keys and every     *)
(* combination of faults.                                                  *)
(***************************************************************************)
EXTENDS JwksFetcher, TLAPS

-----------------------------------------------------------------------------
(* The inductive invariant *)

(* What IInv says of one call while GitHub publishes pub.                  *)
GoodCall(q, pub) ==
  /\ q \in Call
  /\ q.pc # "idle" => q.kid \in Kids
  /\ q.pc = "idle" => q = Idle
  /\ q.pc # "done" => q.status = "none"
  /\ q.pc = "done" => q.status # "none"
  /\ q.status = "found" => q.kid \in q.jwkSet
  /\ q.steady => q.kid \in pub
  /\ q.pc = "setCache" \/ q.status = "notFound" => (q.steady => q.kid \in q.jwkSet)
  /\ q.status = "notFound" => q.kid \notin q.jwkSet

(* The invariant, call by call.                                            *)
LEMMA IInvByCall ==
  /\ IInv <=> /\ published \in SUBSET Kids
              /\ cache = None \/ cache \in SUBSET Kids
              /\ req \in [Slots -> Call]
              /\ rotations \in Nat
              /\ \A r \in Slots : GoodCall(req[r], published)
  /\ IInv' <=> /\ published' \in SUBSET Kids
               /\ cache' = None \/ cache' \in SUBSET Kids
               /\ req' \in [Slots -> Call]
               /\ rotations' \in Nat
               /\ \A r \in Slots : GoodCall(req'[r], published')
BY DEF IInv, TypeOK, CallSane, FetchedIsFresh, NotFoundIsMissing, GoodCall, At

(* A call that becomes q leaves the others alone.                          *)
LEMMA BecomeReq ==
  ASSUME req \in [Slots -> Call], NEW r \in Slots, NEW q \in Call, Become(r, q)
  PROVE  /\ req' \in [Slots -> Call]
         /\ req'[r] = q
         /\ \A s \in Slots : s # r => req'[s] = req[s]
BY DEF Become

LEMMA IdleGood == \A pub : GoodCall(Idle, pub)
BY DEF GoodCall, Call, Idle

(* A step of one call keeps the invariant when the call stays good.        *)
LEMMA CallStep ==
  ASSUME IInv, NEW r \in Slots, NEW q, GoodCall(q, published), Become(r, q),
         UNCHANGED <<published, rotations>>,
         cache' = None \/ cache' \in SUBSET Kids
  PROVE  IInv'
<1>1. req \in [Slots -> Call] /\ q \in Call
  BY IInvByCall DEF GoodCall
<1>2. /\ req' \in [Slots -> Call]
      /\ \A s \in Slots : GoodCall(req'[s], published')
  BY <1>1, BecomeReq, IInvByCall
<1> QED
  BY <1>2, IInvByCall

LEMMA GetPublicKeyInv ==
  ASSUME IInv, NEW r \in Slots, GetPublicKey(r)
  PROVE  IInv'
<1>1. PICK k \in Kids :
        Become(r, [Idle EXCEPT !.pc = "getCache", !.kid = k,
                               !.steady = k \in published])
  BY DEF GetPublicKey
<1> DEFINE b == k \in published
           q == [Idle EXCEPT !.pc = "getCache", !.kid = k, !.steady = b]
<1>2. GoodCall(q, published)
  <2>1. b \in BOOLEAN /\ (b => k \in published)
    OBVIOUS
  <2> HIDE DEF b
  <2> QED
    BY <2>1 DEF GoodCall, Call, Idle
<1>3. Become(r, q) /\ UNCHANGED <<published, cache, rotations>>
  BY <1>1 DEF GetPublicKey
<1> HIDE DEF q
<1> QED
  BY <1>2, <1>3, CallStep, IInvByCall

(* A lookup in a key set that holds the key if it is steady.               *)
LEMMA FinishWithGood ==
  ASSUME NEW q, GoodCall(q, published), NEW set \in SUBSET Kids,
         q.kid \in Kids, q.steady => q.kid \in set
  PROVE  /\ GoodCall(FinishWith(q, set), published)
         /\ FinishWith(q, set).pc = "done"
         /\ FinishWith(q, set).jwkSet = set
         /\ FinishWith(q, set).status \in {"found", "notFound"}
<1>1. q \in Call
  BY DEF GoodCall
<1>2. CASE q.kid \in set
  <2>1. FinishWith(q, set)
          = [q EXCEPT !.pc = "done", !.jwkSet = set, !.status = "found"]
    BY <1>2 DEF FinishWith, FindPublicKey
  <2>2. /\ FinishWith(q, set) \in Call
        /\ FinishWith(q, set).pc = "done"
        /\ FinishWith(q, set).jwkSet = set
        /\ FinishWith(q, set).status = "found"
        /\ FinishWith(q, set).kid = q.kid
        /\ FinishWith(q, set).steady = q.steady
    BY <1>1, <2>1 DEF Call
  <2> QED
    BY <1>2, <2>2 DEF GoodCall
<1>3. CASE q.kid \notin set
  <2>1. FinishWith(q, set)
          = [q EXCEPT !.pc = "done", !.jwkSet = set, !.status = "notFound"]
    BY <1>3 DEF FinishWith, FindPublicKey
  <2>2. /\ FinishWith(q, set) \in Call
        /\ FinishWith(q, set).pc = "done"
        /\ FinishWith(q, set).jwkSet = set
        /\ FinishWith(q, set).status = "notFound"
        /\ FinishWith(q, set).kid = q.kid
        /\ FinishWith(q, set).steady = q.steady
    BY <1>1, <2>1 DEF Call
  <2> QED
    BY <1>3, <2>2 DEF GoodCall
<1> QED
  BY <1>2, <1>3

LEMMA GetCacheInv ==
  ASSUME IInv, NEW r \in Slots, GetCache(r)
  PROVE  IInv'
<1> DEFINE q == req[r]
<1>1. GoodCall(q, published) /\ q.pc = "getCache" /\ q.kid \in Kids
  BY IInvByCall DEF GetCache, At, GoodCall
<1>2. UNCHANGED <<published, cache, rotations>>
  BY DEF GetCache
<1>3. CASE cache # None /\ FindPublicKey(cache, q.kid) /\ Become(r, FinishWith(q, cache))
  <2>1. cache \in SUBSET Kids /\ q.kid \in cache
    BY <1>3, IInvByCall DEF FindPublicKey
  <2>2. GoodCall(FinishWith(q, cache), published)
    BY <1>1, <2>1, FinishWithGood
  <2> QED
    BY <1>2, <1>3, <2>1, <2>2, CallStep
<1>4. CASE Become(r, [q EXCEPT !.pc = "fetch"])
  <2>1. GoodCall([q EXCEPT !.pc = "fetch"], published)
    BY <1>1 DEF GoodCall, Call
  <2> QED
    BY <1>2, <1>4, <2>1, CallStep, IInvByCall
<1> QED
  BY <1>3, <1>4 DEF GetCache

(* The fetched set is the published one, with every steady key in it.      *)
LEMMA FetchJWKSetInv ==
  ASSUME IInv, NEW r \in Slots, FetchJWKSet(r)
  PROVE  IInv'
<1> DEFINE q == req[r]
<1>1. GoodCall(q, published) /\ q.pc = "fetch" /\ q.kid \in Kids
  BY IInvByCall DEF FetchJWKSet, At, GoodCall
<1>2. UNCHANGED <<published, cache, rotations>>
  BY DEF FetchJWKSet
<1>3. PICK p : /\ Become(r, p)
               /\ \/ p = [q EXCEPT !.pc = "setCache", !.jwkSet = published]
                  \/ p = [q EXCEPT !.pc = "done", !.status = "fetchFailed"]
  BY DEF FetchJWKSet
<1>4. GoodCall(p, published)
  <2>1. published \in SUBSET Kids
    BY IInvByCall
  <2>2. CASE p = [q EXCEPT !.pc = "setCache", !.jwkSet = published]
    BY <1>1, <2>1, <2>2 DEF GoodCall, Call
  <2>3. CASE p = [q EXCEPT !.pc = "done", !.status = "fetchFailed"]
    BY <1>1, <2>3 DEF GoodCall, Call
  <2> QED
    BY <1>3, <2>2, <2>3
<1> QED
  BY <1>2, <1>3, <1>4, CallStep, IInvByCall

LEMMA SetCacheInv ==
  ASSUME IInv, NEW r \in Slots, SetCache(r)
  PROVE  IInv'
<1> DEFINE q == req[r]
<1>1. /\ GoodCall(q, published)
      /\ q.kid \in Kids
      /\ q.jwkSet \in SUBSET Kids
      /\ q.steady => q.kid \in q.jwkSet
  BY IInvByCall DEF SetCache, At, GoodCall, Call
<1>2. GoodCall(FinishWith(q, q.jwkSet), published)
  BY <1>1, FinishWithGood
<1>3. cache' = None \/ cache' \in SUBSET Kids
  BY <1>1, IInvByCall DEF SetCache
<1> QED
  BY <1>2, <1>3, CallStep DEF SetCache

LEMMA ReturnInv ==
  ASSUME IInv, NEW r \in Slots, Return(r)
  PROVE  IInv'
BY IdleGood, CallStep, IInvByCall DEF Return

(* A key that leaves the published set is no longer steady.                *)
LEMMA RotateInv ==
  ASSUME IInv, Rotate
  PROVE  IInv'
<1>1. PICK s \in SUBSET Kids :
        /\ published' = s
        /\ req' = [r \in Slots |-> [req[r] EXCEPT !.steady = @ /\ req[r].kid \in s]]
  BY DEF Rotate
<1>2. ASSUME NEW r \in Slots
      PROVE  GoodCall(req'[r], published')
  <2> DEFINE q == req[r]
             b == q.steady /\ q.kid \in s
  <2>1. req'[r] = [q EXCEPT !.steady = b] /\ b \in BOOLEAN
    BY <1>1
  <2>2. GoodCall(q, published)
    BY IInvByCall
  <2>3. q.pc = "idle" => b = FALSE
    BY <2>2 DEF GoodCall, Idle
  <2>4. b => q.steady /\ q.kid \in s
    OBVIOUS
  <2> HIDE DEF b
  <2> QED
    BY <1>1, <2>1, <2>2, <2>3, <2>4 DEF GoodCall, Call, Idle
<1>3. req' \in [Slots -> Call]
  BY <1>1, <1>2 DEF GoodCall
<1> QED
  BY <1>1, <1>2, <1>3, IInvByCall DEF Rotate

LEMMA OtherInv ==
  ASSUME IInv, Expire \/ Restart \/ UNCHANGED vars
  PROVE  IInv'
<1>1. CASE Restart
  <2>1. \A r \in Slots : GoodCall(req'[r], published')
    BY <1>1, IdleGood DEF Restart
  <2>2. req' \in [Slots -> Call]
    BY <1>1 DEF Restart, Idle, Call
  <2> QED
    BY <1>1, <2>1, <2>2, IInvByCall DEF Restart
<1>2. CASE Expire \/ UNCHANGED vars
  BY <1>2, IInvByCall DEF Expire, vars
<1> QED
  BY <1>1, <1>2

(* The invariant holds initially.                                          *)
LEMMA InitInv == Init => IInv
<1> SUFFICES ASSUME Init PROVE IInv
  OBVIOUS
<1>1. req \in [Slots -> Call] /\ \A r \in Slots : GoodCall(req[r], published)
  BY IdleGood DEF Init, GoodCall
<1> QED
  BY <1>1, IInvByCall DEF Init

(* Every step preserves it.                                                *)
LEMMA NextInv == IInv /\ [Next]_vars => IInv'
BY GetPublicKeyInv, GetCacheInv, FetchJWKSetInv, SetCacheInv, ReturnInv,
   RotateInv, OtherInv DEF Next, Step

(* The invariant holds in every reachable state, however many calls run at *)
(* the same time and whenever GitHub rotates its keys.                     *)
THEOREM JwksInvariance == Spec => []IInv
BY InitInv, NextInv, PTL DEF Spec

(* TypeOK: the published set, the cache and the calls keep their types.    *)
THEOREM JwksTypeCorrect == Spec => []TypeOK
<1>1. IInv => TypeOK
  BY DEF IInv
<1> QED
  BY <1>1, JwksInvariance, PTL

(* SteadyKeyIsFound: a key published throughout the call is not refused as *)
(* unknown.                                                                *)
THEOREM SteadyKeysAreFound == Spec => []SteadyKeyIsFound
<1>1. IInv => SteadyKeyIsFound
  BY DEF IInv, FetchedIsFresh, NotFoundIsMissing, SteadyKeyIsFound
<1> QED
  BY <1>1, JwksInvariance, PTL

-----------------------------------------------------------------------------
(* Refinement of LaggingCopies *)

(* The answer a call stands for: the key set it looks its key up in.       *)
AnswerOf(q) ==
  IF q.pc = "setCache" \/ q.status \in {"found", "notFound"}
  THEN [key |-> "github", value |-> q.jwkSet] ELSE None

(* What is held is key sets, the published one among them, and an answer   *)
(* is a key set.                                                           *)
LEMMA HeldType ==
  /\ IInv => HeldSets \in SUBSET SUBSET Kids /\ published \in HeldSets
  /\ IInv' => HeldSets' \in SUBSET SUBSET Kids /\ published' \in HeldSets'
BY DEF IInv, TypeOK, HeldSets, Call

LEMMA AnswerType ==
  ASSUME NEW q \in Call
  PROVE  AnswerOf(q) \in [key : Providers, value : SUBSET Kids] \union {None}
BY DEF AnswerOf, Providers, Call

(* The values of the refinement mapping.                                   *)
LEMMA Mapping ==
  /\ [r \in Slots |-> IF Chosen(r) THEN [key |-> "github", value |-> req[r].jwkSet]
                                    ELSE None]
       = [r \in Slots |-> AnswerOf(req[r])]
  /\ [r \in Slots |-> IF Chosen(r) THEN [key |-> "github", value |-> req[r].jwkSet]
                                    ELSE None]'
       = [r \in Slots |-> AnswerOf(req'[r])]
BY DEF Chosen, At, AnswerOf

(* A step that leaves the endpoint alone, holds nothing new and takes no   *)
(* answer implements Forget.                                               *)
LEMMA ForgetStep ==
  ASSUME IInv, IInv', UNCHANGED published, HeldSets' \subseteq HeldSets,
         \A r \in Slots : AnswerOf(req'[r]) \in {AnswerOf(req[r]), None}
  PROVE  Copies!LagNext
<1> DEFINE c == [p \in Providers |-> published]
           h == [p \in Providers |-> HeldSets]
           a == [r \in Slots |-> IF Chosen(r)
                                 THEN [key |-> "github", value |-> req[r].jwkSet]
                                 ELSE None]
<1>1. req' \in [Slots -> Call]
  BY DEF IInv, TypeOK
<1>2. /\ h' \in [Providers -> SUBSET SUBSET Kids]
      /\ \A p \in Providers : c[p] \in h'[p] /\ h'[p] \subseteq h[p]
      /\ c' = c
  BY HeldType
<1>3. a' \in [Slots -> [key : Providers, value : SUBSET Kids] \union {None}]
  BY <1>1, Mapping, AnswerType
<1>4. \A r \in Slots : a'[r] \in {a[r], None}
  BY Mapping
<1> HIDE DEF c, h, a
<1>5. Copies!Forget
  BY <1>2, <1>3, <1>4, Zenon DEF Copies!Forget, Copies!Answers, c, h, a
<1> QED
  BY <1>5 DEF Copies!LagNext

(* A step that only answers r with a key set that is held implements       *)
(* Answer.                                                                 *)
LEMMA AnswerStep ==
  ASSUME NEW r \in Slots, NEW v \in HeldSets, UNCHANGED published,
         HeldSets' = HeldSets,
         AnswerOf(req'[r]) = [key |-> "github", value |-> v],
         \A s \in Slots \ {r} : req'[s] = req[s]
  PROVE  Copies!LagNext
<1> DEFINE c == [p \in Providers |-> published]
           h == [p \in Providers |-> HeldSets]
           a == [s \in Slots |-> IF Chosen(s)
                                 THEN [key |-> "github", value |-> req[s].jwkSet]
                                 ELSE None]
<1>1. "github" \in Providers
  BY DEF Providers
<1>2. c' = c /\ h' = h /\ v \in h["github"]
  BY <1>1
<1>3. a' = [a EXCEPT ![r] = [key |-> "github", value |-> v]]
  <2>1. a = [s \in Slots |-> AnswerOf(req[s])]
    BY Mapping
  <2>2. a' = [s \in Slots |-> AnswerOf(req'[s])]
    BY Mapping
  <2>3. \A s \in Slots : s # r => AnswerOf(req'[s]) = AnswerOf(req[s])
    OBVIOUS
  <2> HIDE DEF a
  <2> QED
    BY <2>1, <2>2, <2>3
<1> HIDE DEF c, h, a
<1>4. Copies!Answer(r, "github")
  BY <1>2, <1>3, Zenon DEF Copies!Answer, c, h, a
<1> QED
  BY <1>1, <1>4 DEF Copies!LagNext

(* The step of one call: what is held afterwards was held before or is     *)
(* what the call is about to store; and what was held stays held if the    *)
(* call was not about to store anything and the cache stays.               *)
LEMMA HeldStep ==
  ASSUME IInv, NEW r \in Slots, NEW p \in Call, Become(r, p), UNCHANGED published,
         cache' \in {cache, None} \union HeldSets
  PROVE  /\ p.pc # "setCache" \/ p.jwkSet \in HeldSets => HeldSets' \subseteq HeldSets
         /\ req[r].pc # "setCache" /\ cache' = cache => HeldSets \subseteq HeldSets'
<1>1. /\ req'[r] = p
      /\ \A s \in Slots : s # r => req'[s] = req[s]
  BY BecomeReq, IInvByCall
<1>2. ASSUME p.pc # "setCache" \/ p.jwkSet \in HeldSets
      PROVE  HeldSets' \subseteq HeldSets
  <2>1. \A s \in Slots : req'[s].pc = "setCache" => req'[s].jwkSet \in HeldSets
    BY <1>1, <1>2 DEF HeldSets, At
  <2>2. cache' # None => cache' \in HeldSets
    BY DEF HeldSets
  <2>3. published' \in HeldSets
    BY DEF HeldSets
  <2> QED
    BY <2>1, <2>2, <2>3 DEF HeldSets, At
<1>3. ASSUME req[r].pc # "setCache", cache' = cache
      PROVE  HeldSets \subseteq HeldSets'
  <2>1. \A s \in Slots : req[s].pc = "setCache" => req'[s] = req[s]
    BY <1>1, <1>3
  <2> QED
    BY <1>3, <2>1 DEF HeldSets, At
<1> QED
  BY <1>2, <1>3

(* The step of a call that gets no answer and stores nothing.              *)
LEMMA QuietStep ==
  ASSUME IInv, IInv', NEW r \in Slots, NEW p \in Call, Become(r, p),
         UNCHANGED published, cache' \in {cache, None} \union HeldSets,
         p.pc # "setCache", AnswerOf(p) \in {AnswerOf(req[r]), None}
  PROVE  Copies!LagNext
<1>1. HeldSets' \subseteq HeldSets
  BY HeldStep
<1>2. \A s \in Slots : AnswerOf(req'[s]) \in {AnswerOf(req[s]), None}
  BY BecomeReq, IInvByCall
<1> QED
  BY <1>1, <1>2, ForgetStep

LEMMA GetPublicKeyLag ==
  ASSUME IInv, IInv', NEW r \in Slots, GetPublicKey(r)
  PROVE  Copies!LagNext
<1>1. PICK k \in Kids :
        Become(r, [Idle EXCEPT !.pc = "getCache", !.kid = k,
                               !.steady = k \in published])
  BY DEF GetPublicKey
<1> DEFINE b == k \in published
           q == [Idle EXCEPT !.pc = "getCache", !.kid = k, !.steady = b]
<1>2. q \in Call /\ q.pc = "getCache" /\ AnswerOf(q) = None
  <2>1. b \in BOOLEAN
    OBVIOUS
  <2> HIDE DEF b
  <2> QED
    BY <2>1 DEF Call, Idle, AnswerOf
<1>3. Become(r, q) /\ UNCHANGED <<published, cache, rotations>>
  BY <1>1 DEF GetPublicKey
<1> HIDE DEF q
<1> QED
  BY <1>2, <1>3, QuietStep

(* The cached key set is held.                                             *)
LEMMA GetCacheLag ==
  ASSUME IInv, IInv', NEW r \in Slots, GetCache(r)
  PROVE  Copies!LagNext
<1> DEFINE q == req[r]
<1>1. /\ GoodCall(q, published)
      /\ q \in Call
      /\ q.pc = "getCache"
      /\ q.kid \in Kids
      /\ q.status = "none"
  BY IInvByCall DEF GetCache, At, GoodCall
<1>2. UNCHANGED <<published, cache, rotations>>
  BY DEF GetCache
<1>3. CASE cache # None /\ FindPublicKey(cache, q.kid) /\ Become(r, FinishWith(q, cache))
  <2> DEFINE p == FinishWith(q, cache)
  <2>1. cache \in SUBSET Kids /\ q.kid \in cache /\ cache \in HeldSets
    BY <1>3, IInvByCall DEF FindPublicKey, HeldSets
  <2>2. /\ p \in Call
        /\ p.pc = "done"
        /\ AnswerOf(p) = [key |-> "github", value |-> cache]
    BY <1>1, <2>1, FinishWithGood DEF AnswerOf, GoodCall
  <2>3. Become(r, p)
    BY <1>3
  <2> HIDE DEF p
  <2>4. HeldSets' = HeldSets
    BY <1>1, <1>2, <2>2, <2>3, HeldStep
  <2>5. req'[r] = p /\ \A s \in Slots \ {r} : req'[s] = req[s]
    BY <2>2, <2>3, BecomeReq, IInvByCall
  <2> QED
    BY <1>2, <2>1, <2>2, <2>4, <2>5, AnswerStep
<1>4. CASE Become(r, [q EXCEPT !.pc = "fetch"])
  <2>1. /\ [q EXCEPT !.pc = "fetch"] \in Call
        /\ [q EXCEPT !.pc = "fetch"].pc # "setCache"
        /\ AnswerOf([q EXCEPT !.pc = "fetch"]) = None
    BY <1>1 DEF Call, AnswerOf
  <2> QED
    BY <1>2, <1>4, <2>1, QuietStep
<1> QED
  BY <1>3, <1>4 DEF GetCache

(* The published key set is held.                                          *)
LEMMA FetchJWKSetLag ==
  ASSUME IInv, IInv', NEW r \in Slots, FetchJWKSet(r)
  PROVE  Copies!LagNext
<1> DEFINE q == req[r]
<1>1. q \in Call /\ q.pc = "fetch" /\ q.status = "none"
  BY IInvByCall DEF FetchJWKSet, At, GoodCall
<1>2. UNCHANGED <<published, cache, rotations>>
  BY DEF FetchJWKSet
<1>3. CASE Become(r, [q EXCEPT !.pc = "setCache", !.jwkSet = published])
  <2> DEFINE p == [q EXCEPT !.pc = "setCache", !.jwkSet = published]
  <2>1. published \in SUBSET Kids /\ published \in HeldSets
    BY IInvByCall, HeldType
  <2>2. /\ p \in Call
        /\ p.jwkSet = published
        /\ AnswerOf(p) = [key |-> "github", value |-> published]
    BY <1>1, <2>1 DEF AnswerOf, Call
  <2>3. Become(r, p)
    BY <1>3
  <2> HIDE DEF p
  <2>4. HeldSets' = HeldSets
    BY <1>1, <1>2, <2>1, <2>2, <2>3, HeldStep
  <2>5. req'[r] = p /\ \A s \in Slots \ {r} : req'[s] = req[s]
    BY <2>2, <2>3, BecomeReq, IInvByCall
  <2> QED
    BY <1>2, <2>1, <2>2, <2>4, <2>5, AnswerStep
<1>4. CASE Become(r, [q EXCEPT !.pc = "done", !.status = "fetchFailed"])
  <2> DEFINE p == [q EXCEPT !.pc = "done", !.status = "fetchFailed"]
  <2>1. p \in Call /\ p.pc = "done" /\ AnswerOf(p) = None
    BY <1>1 DEF Call, AnswerOf
  <2>2. Become(r, p)
    BY <1>4
  <2> HIDE DEF p
  <2> QED
    BY <1>2, <2>1, <2>2, QuietStep
<1> QED
  BY <1>3, <1>4 DEF FetchJWKSet

(* What a call stores was held by the call.                                *)
LEMMA SetCacheLag ==
  ASSUME IInv, IInv', NEW r \in Slots, SetCache(r)
  PROVE  Copies!LagNext
<1> DEFINE q == req[r]
           p == FinishWith(q, q.jwkSet)
<1>1. /\ GoodCall(q, published)
      /\ q.pc = "setCache"
      /\ q.kid \in Kids
      /\ q.jwkSet \in SUBSET Kids
      /\ q.steady => q.kid \in q.jwkSet
      /\ q.jwkSet \in HeldSets
  BY IInvByCall DEF SetCache, At, GoodCall, Call, HeldSets
<1>2. p \in Call /\ p.pc = "done" /\ AnswerOf(p) = AnswerOf(q)
  BY <1>1, FinishWithGood DEF AnswerOf, GoodCall
<1>3. /\ Become(r, p)
      /\ UNCHANGED published
      /\ cache' \in {cache, None} \union HeldSets
  BY <1>1 DEF SetCache
<1> HIDE DEF p
<1> QED
  BY <1>2, <1>3, QuietStep

LEMMA ReturnLag ==
  ASSUME IInv, IInv', NEW r \in Slots, Return(r)
  PROVE  Copies!LagNext
<1>1. Idle \in Call /\ Idle.pc # "setCache" /\ AnswerOf(Idle) = None
  BY DEF Idle, Call, AnswerOf
<1> QED
  BY <1>1, QuietStep DEF Return

(* A rotation changes the value of the only key of the refinement.         *)
LEMMA RotateLag ==
  ASSUME IInv, IInv', Rotate
  PROVE  Copies!LagNext
<1> DEFINE c == [p \in Providers |-> published]
           h == [p \in Providers |-> HeldSets]
           a == [s \in Slots |-> IF Chosen(s)
                                 THEN [key |-> "github", value |-> req[s].jwkSet]
                                 ELSE None]
           v == published'
<1>1. \A p : p \in Providers <=> p = "github"
  BY DEF Providers
<1>2. v \in SUBSET Kids /\ v \in HeldSets'
  BY IInvByCall, HeldType
<1>3. \A s \in Slots : /\ req'[s].pc = req[s].pc
                       /\ req'[s].jwkSet = req[s].jwkSet
                       /\ req'[s].status = req[s].status
  BY IInvByCall DEF Rotate, Call
<1>4. HeldSets' \subseteq HeldSets \union {v}
  BY <1>3 DEF Rotate, HeldSets, At
<1>5. c' = [c EXCEPT !["github"] = v]
  BY <1>1
<1>6. h' = [h EXCEPT !["github"] = HeldSets']
  BY <1>1
<1>7. h["github"] = HeldSets
  BY <1>1
<1>8. a' = a
  BY <1>3, Mapping DEF AnswerOf
<1> HIDE DEF c, h, a, v
<1>9. HeldSets' \in SUBSET (h["github"] \union {v})
  BY <1>4, <1>7
<1>10. Copies!Change("github")
  BY <1>2, <1>5, <1>6, <1>8, <1>9, Zenon DEF Copies!Change, c, h, a
<1> QED
  BY <1>1, <1>10 DEF Copies!LagNext

LEMMA OtherLag ==
  ASSUME IInv, IInv', Expire \/ Restart
  PROVE  Copies!LagNext
<1>1. CASE Restart
  <2>1. \A s \in Slots : req'[s].pc = "idle" /\ AnswerOf(req'[s]) = None
    BY <1>1 DEF Restart, Idle, AnswerOf
  <2>2. HeldSets' \subseteq HeldSets
    BY <1>1, <2>1 DEF Restart, HeldSets, At
  <2> QED
    BY <1>1, <2>1, <2>2, ForgetStep DEF Restart
<1>2. CASE Expire
  <2>1. HeldSets' \subseteq HeldSets
    BY <1>2 DEF Expire, HeldSets, At
  <2> QED
    BY <1>2, <2>1, ForgetStep DEF Expire
<1> QED
  BY <1>1, <1>2

(* Initially only the published key set is held.                           *)
LEMMA InitLag == Init => Copies!LagInit
<1> SUFFICES ASSUME Init PROVE Copies!LagInit
  OBVIOUS
<1>1. HeldSets = {published}
  BY DEF Init, HeldSets, At, Idle
<1>2. \A r \in Slots : ~ Chosen(r)
  BY DEF Init, Chosen, At, Idle
<1> QED
  BY <1>1, <1>2 DEF Init, Copies!LagInit

(* Every step implements a step of LaggingCopies or a stutter.             *)
LEMMA NextLag ==
  ASSUME IInv, IInv', [Next]_vars
  PROVE  [Copies!LagNext]_(Copies!lagVars)
<1>1. CASE UNCHANGED vars
  BY <1>1 DEF vars, Copies!lagVars, HeldSets, Chosen, At
<1>2. CASE Next
  BY <1>2, GetPublicKeyLag, GetCacheLag, FetchJWKSetLag, SetCacheLag, ReturnLag,
     RotateLag, OtherLag DEF Next, Step
<1> QED
  BY <1>1, <1>2

(* KeySetsArePublished: the fetcher implements LaggingCopies, that is, a   *)
(* key is looked up in the key set of now or in an earlier one that the    *)
(* cache or a call in flight still holds, never in another.                *)
THEOREM JwksRefinement == Spec => KeySetsArePublished
<1>1. IInv /\ IInv' /\ [Next]_vars => [Copies!LagNext]_(Copies!lagVars)
  BY NextLag
<1> QED
  BY <1>1, InitLag, JwksInvariance, PTL DEF Spec, KeySetsArePublished, Copies!LagSpec

-----------------------------------------------------------------------------
(* A withdrawn key *)

CopiesProofs == INSTANCE LaggingCopiesProofs WITH
  Readers <- Slots, Keys <- Providers, Values <- SUBSET Kids,
  source <- [p \in Providers |-> published],
  held <- [p \in Providers |-> HeldSets],
  answer <- [r \in Slots |->
               IF Chosen(r) THEN [key |-> "github", value |-> req[r].jwkSet]
                            ELSE None]

(* No key set that a call may use or has chosen holds the key.             *)
Withdrawn(kid) ==
  /\ \A s \in HeldSets : kid \notin s
  /\ \A r \in Slots : Chosen(r) => kid \notin req[r].jwkSet

KeySetsWith(kid) == {s \in SUBSET Kids : kid \in s}

(* Withdrawn is what LaggingCopies calls clear of the sets with the key.   *)
LEMMA WithdrawnIsClear ==
  ASSUME IInv, NEW kid \in Kids
  PROVE  Withdrawn(kid) <=> CopiesProofs!Clear("github", KeySetsWith(kid))
<1>1. "github" \in Providers /\ HeldSets \in SUBSET SUBSET Kids
  BY HeldType DEF Providers
<1>2. (\A s \in HeldSets : kid \notin s) <=> HeldSets \intersect KeySetsWith(kid) = {}
  BY <1>1 DEF KeySetsWith
<1>3. ASSUME NEW r \in Slots
      PROVE  (Chosen(r) => kid \notin req[r].jwkSet)
               <=> LET a == IF Chosen(r) THEN [key |-> "github", value |-> req[r].jwkSet]
                                         ELSE None
                   IN  \A w \in KeySetsWith(kid) :
                         a # None => a # [key |-> "github", value |-> w]
  <2>1. CASE ~ Chosen(r)
    BY <2>1
  <2>2. CASE Chosen(r)
    <3>1. req[r].jwkSet \in SUBSET Kids
      BY DEF IInv, TypeOK, Call
    <3>2. [key |-> "github", value |-> req[r].jwkSet] # None
      BY <3>1, NoneAssumption
    <3> QED
      BY <2>2, <3>1, <3>2 DEF KeySetsWith
  <2> QED
    BY <2>1, <2>2
<1> QED
  BY <1>1, <1>2, <1>3 DEF Withdrawn, CopiesProofs!Clear

(* A step of the fetcher is a step of LaggingCopies in either instance.    *)
LEMMA NextCopies ==
  ASSUME IInv, IInv', [Next]_vars
  PROVE  [CopiesProofs!LagNext]_(CopiesProofs!lagVars)
BY NextLag, Zenon
   DEF Copies!LagNext, Copies!Change, Copies!Forget, Copies!Answer, Copies!Answers,
       Copies!lagVars, CopiesProofs!LagNext, CopiesProofs!Change, CopiesProofs!Forget,
       CopiesProofs!Answer, CopiesProofs!Answers, CopiesProofs!lagVars

(* A withdrawn key stays refused: once the key is in no set that the       *)
(* endpoint, the cache or a call holds, and as long as GitHub does not     *)
(* publish it again, no call finds it, although older key sets replace     *)
(* newer ones in the cache.                                                *)
THEOREM WithdrawnKeyStaysRefused ==
  ASSUME NEW kid \in Kids
  PROVE  Spec => []( /\ Withdrawn(kid)
                     /\ [](kid \notin published)
                     => [](/\ Withdrawn(kid)
                           /\ \A r \in Slots : req[r].status = "found" => req[r].kid # kid))
<1>1. /\ IInv /\ IInv' /\ [Next]_vars /\ Withdrawn(kid)
      /\ (kid \notin published)'
      => Withdrawn(kid)'
  <2> SUFFICES ASSUME IInv, IInv', [Next]_vars, Withdrawn(kid), kid \notin published'
               PROVE  Withdrawn(kid)'
    OBVIOUS
  <2>1. "github" \in Providers
    BY DEF Providers
  <2>2. CopiesProofs!LagInv
    BY HeldType, AnswerType, Mapping, IInvByCall
       DEF CopiesProofs!LagInv, CopiesProofs!Answers
  <2>3. CopiesProofs!Clear("github", KeySetsWith(kid))
    BY WithdrawnIsClear
  <2>4. [p \in Providers |-> published]'["github"] \notin KeySetsWith(kid)
    BY <2>1 DEF KeySetsWith
  <2>5. CopiesProofs!Clear("github", KeySetsWith(kid))'
    BY <2>1, <2>2, <2>3, <2>4, NextCopies, CopiesProofs!ClearStep
  <2>6. (IInv => (Withdrawn(kid) <=> CopiesProofs!Clear("github", KeySetsWith(kid))))'
    BY WithdrawnIsClear, PTL
  <2> QED
    BY <2>5, <2>6
<1>2. IInv /\ Withdrawn(kid) => \A r \in Slots : req[r].status = "found" => req[r].kid # kid
  BY DEF IInv, CallSane, Withdrawn, Chosen
<1> QED
  BY <1>1, <1>2, JwksInvariance, PTL DEF Spec
=============================================================================
