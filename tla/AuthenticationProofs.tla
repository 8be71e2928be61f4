------------------------ MODULE AuthenticationProofs ------------------------
(***************************************************************************)
(* Proofs about Authentication, for every set of requests, users,          *)
(* repositories, keys and sessions, every notion of case and every         *)
(* combination of faults.                                                  *)
(***************************************************************************)
EXTENDS Authentication, TLAPS

-----------------------------------------------------------------------------
(* The invariant of one request *)

(* TokenVerified and InfoIsEntitled, with what has been entitled given.    *)
Verified(q, e) ==
  /\ q.header = "Bearer"
  /\ q.token \in Tokens
  /\ q.token.sound
  /\ q.token.kid \in e.trusted

InfoEntitled(q, e) ==
  \/ /\ q.info.by = "token"
     /\ Verified(q, e)
     /\ q.info.repo = q.token.repo
     /\ q.token.repo \in e.listed
  \/ /\ q.info.by = "session"
     /\ q.header # "Bearer"
     /\ [user |-> q.info.user, repo |-> q.info.repo, perms |-> q.info.perms] \in e.grants

(* What IInv says of one request, with the sessions s and what has been    *)
(* entitled, e.                                                            *)
GoodRequest(q, s, e) ==
  /\ q \in Request
  /\ q.pc = "verify" => q.header = "Bearer" /\ q.token \in Tokens
  /\ q.pc = "isAllowed" => Verified(q, e)
  /\ q.pc \in {"basic", "cookie"} => q.header # "Bearer"
  /\ q.pc \in {"validate", "handle"} => InfoEntitled(q, e) /\ q.info.repo \in Repos
  /\ q.pc = "handle" => q.url \in Paths /\ EqualsFold(q.url, q.info.repo)
  /\ q.pc # "done" => q.status = 0
  /\ q.steady => q.cookie \in SessionIDs /\ s[q.cookie] # None
  /\ q.status = 200 => Justified(q, e.grants, e.listed, e.trusted)
  /\ q.status = 401 /\ q.header # "Bearer" /\ q.steady => q.failed

(* The types of everything but the requests.                               *)
EnvTypeOK ==
  /\ access \in [Users -> [Repos -> Perms]]
  /\ sessions \in [SessionIDs -> Session \union {None}]
  /\ issued \subseteq SessionIDs
  /\ published \in [{"github"} -> SUBSET Kids]
  /\ keySets \in [{"github"} -> SUBSET SUBSET Kids]
  /\ allowed \in [Repos -> BOOLEAN]
  /\ answers \in [Repos -> SUBSET BOOLEAN]
  /\ changes \in Nat
  /\ entitled \in [grants : SUBSET Grants, listed : SUBSET Repos,
                   trusted : SUBSET Kids]

(* The invariant, request by request.                                      *)
LEMMA IInvByRequest ==
  IInv <=> /\ EnvTypeOK
           /\ StateIsEntitled
           /\ req \in [Slots -> Request]
           /\ \A r \in Slots : GoodRequest(req[r], sessions, entitled)
BY DEF IInv, TypeOK, EnvTypeOK, GoodRequest, RequestSane, TokenVerified, Verified,
       InfoIsEntitled, InfoEntitled, PassedWasEntitled, CookieBacksUpBasic

LEMMA IInvByRequestNext ==
  IInv' <=> /\ EnvTypeOK'
            /\ StateIsEntitled'
            /\ req' \in [Slots -> Request]
            /\ \A r \in Slots : GoodRequest(req'[r], sessions', entitled')
BY DEF IInv, TypeOK, EnvTypeOK, GoodRequest, RequestSane, TokenVerified, Verified,
       InfoIsEntitled, InfoEntitled, PassedWasEntitled, CookieBacksUpBasic

(* A request that becomes q leaves the others alone.                       *)
LEMMA BecomeReq ==
  ASSUME req \in [Slots -> Request], NEW r \in Slots, NEW q \in Request, Become(r, q)
  PROVE  /\ req' \in [Slots -> Request]
         /\ req'[r] = q
         /\ \A s \in Slots : s # r => req'[s] = req[s]
BY DEF Become

(* A step of one request keeps the invariant when the request stays good.  *)
LEMMA RequestStep ==
  ASSUME IInv, NEW r \in Slots, NEW q, GoodRequest(q, sessions, entitled),
         Become(r, q), UNCHANGED env
  PROVE  IInv'
<1>1. q \in Request
  BY DEF GoodRequest
<1>2. /\ req' \in [Slots -> Request]
      /\ \A s \in Slots : GoodRequest(req'[s], sessions, entitled)
  BY <1>1, BecomeReq, IInvByRequest
<1>3. sessions' = sessions /\ entitled' = entitled
  BY DEF env
<1>4. EnvTypeOK' /\ StateIsEntitled'
  BY IInvByRequest DEF env, EnvTypeOK, StateIsEntitled
<1> QED
  BY <1>2, <1>3, <1>4, IInvByRequestNext

(* What a passed request rests on is not taken back from the history.      *)
LEMMA GoodStays ==
  ASSUME NEW q, NEW s, NEW e, GoodRequest(q, s, e), NEW t, NEW f,
         e.grants \subseteq f.grants, e.listed \subseteq f.listed,
         e.trusted \subseteq f.trusted,
         q.steady => t[q.cookie] # None
  PROVE  GoodRequest(q, t, f)
<1>1. Verified(q, e) => Verified(q, f)
  BY DEF Verified
<1>2. InfoEntitled(q, e) => InfoEntitled(q, f)
  BY <1>1 DEF InfoEntitled
<1>3. Justified(q, e.grants, e.listed, e.trusted)
        => Justified(q, f.grants, f.listed, f.trusted)
  BY DEF Justified
<1> QED
  BY <1>1, <1>2, <1>3 DEF GoodRequest

LEMMA IdleGood == \A s, e : GoodRequest(Idle, s, e)
BY DEF GoodRequest, Request, Idle

(* A request with one field changed.                                       *)
WithPc(q, x) == [q EXCEPT !.pc = x]

WithStatus(q, x) == [q EXCEPT !.status = x]

WithInfo(q, x) == [q EXCEPT !.info = x]

WithFailed(q, x) == [q EXCEPT !.failed = x]

WithSteady(q, x) == [q EXCEPT !.steady = x]

LEMMA WithPcFields ==
  ASSUME NEW q \in Request, NEW x \in {"verify", "isAllowed", "basic", "cookie", "validate", "handle", "done"}
  PROVE  /\ WithPc(q, x) \in Request
         /\ WithPc(q, x).pc = x
         /\ WithPc(q, x).url = q.url
         /\ WithPc(q, x).header = q.header
         /\ WithPc(q, x).token = q.token
         /\ WithPc(q, x).cookie = q.cookie
         /\ WithPc(q, x).op = q.op
         /\ WithPc(q, x).info = q.info
         /\ WithPc(q, x).status = q.status
         /\ WithPc(q, x).failed = q.failed
         /\ WithPc(q, x).steady = q.steady
BY DEF WithPc, Request

LEMMA WithStatusFields ==
  ASSUME NEW q \in Request, NEW x \in {0, 200, 400, 401, 403, 500}
  PROVE  /\ WithStatus(q, x) \in Request
         /\ WithStatus(q, x).status = x
         /\ WithStatus(q, x).pc = q.pc
         /\ WithStatus(q, x).url = q.url
         /\ WithStatus(q, x).header = q.header
         /\ WithStatus(q, x).token = q.token
         /\ WithStatus(q, x).cookie = q.cookie
         /\ WithStatus(q, x).op = q.op
         /\ WithStatus(q, x).info = q.info
         /\ WithStatus(q, x).failed = q.failed
         /\ WithStatus(q, x).steady = q.steady
BY DEF WithStatus, Request

LEMMA WithInfoFields ==
  ASSUME NEW q \in Request, NEW x \in UserInfo
  PROVE  /\ WithInfo(q, x) \in Request
         /\ WithInfo(q, x).info = x
         /\ WithInfo(q, x).pc = q.pc
         /\ WithInfo(q, x).url = q.url
         /\ WithInfo(q, x).header = q.header
         /\ WithInfo(q, x).token = q.token
         /\ WithInfo(q, x).cookie = q.cookie
         /\ WithInfo(q, x).op = q.op
         /\ WithInfo(q, x).status = q.status
         /\ WithInfo(q, x).failed = q.failed
         /\ WithInfo(q, x).steady = q.steady
BY DEF WithInfo, Request

LEMMA WithFailedFields ==
  ASSUME NEW q \in Request, NEW x \in BOOLEAN
  PROVE  /\ WithFailed(q, x) \in Request
         /\ WithFailed(q, x).failed = x
         /\ WithFailed(q, x).pc = q.pc
         /\ WithFailed(q, x).url = q.url
         /\ WithFailed(q, x).header = q.header
         /\ WithFailed(q, x).token = q.token
         /\ WithFailed(q, x).cookie = q.cookie
         /\ WithFailed(q, x).op = q.op
         /\ WithFailed(q, x).info = q.info
         /\ WithFailed(q, x).status = q.status
         /\ WithFailed(q, x).steady = q.steady
BY DEF WithFailed, Request

LEMMA WithSteadyFields ==
  ASSUME NEW q \in Request, NEW x \in BOOLEAN
  PROVE  /\ WithSteady(q, x) \in Request
         /\ WithSteady(q, x).steady = x
         /\ WithSteady(q, x).pc = q.pc
         /\ WithSteady(q, x).url = q.url
         /\ WithSteady(q, x).header = q.header
         /\ WithSteady(q, x).token = q.token
         /\ WithSteady(q, x).cookie = q.cookie
         /\ WithSteady(q, x).op = q.op
         /\ WithSteady(q, x).info = q.info
         /\ WithSteady(q, x).status = q.status
         /\ WithSteady(q, x).failed = q.failed
BY DEF WithSteady, Request

(* The compound updates of the specification.                              *)
LEMMA Updates ==
  /\ \A q, st : Finish(q, st) = WithStatus(WithPc(q, "done"), st)
  /\ \A q : Fail(q) = WithFailed(q, TRUE)
BY DEF Finish, Fail, WithStatus, WithPc, WithFailed

(* Refusing a request keeps it good, as long as a 401 without a Bearer     *)
(* token has a reason.                                                     *)
LEMMA RefuseGood ==
  ASSUME NEW q, NEW s, NEW e, GoodRequest(q, s, e), NEW st \in {400, 401, 403, 500},
         st = 401 /\ q.header # "Bearer" /\ q.steady => q.failed
  PROVE  GoodRequest(Finish(q, st), s, e)
<1>1. q \in Request
  BY DEF GoodRequest
<1> DEFINE p == Finish(q, st)
<1>2. /\ p \in Request
      /\ p.pc = "done"
      /\ p.status = st
      /\ p.header = q.header
      /\ p.cookie = q.cookie
      /\ p.failed = q.failed
      /\ p.steady = q.steady
  BY <1>1, Updates, WithPcFields, WithStatusFields
<1> HIDE DEF p
<1>3. GoodRequest(p, s, e)
  BY <1>2 DEF GoodRequest
<1> QED
  BY <1>3 DEF p

(* So does a failure.                                                      *)
LEMMA FailGood ==
  ASSUME NEW q, NEW s, NEW e, GoodRequest(q, s, e), q.pc # "done"
  PROVE  GoodRequest(Fail(q), s, e)
<1>1. q \in Request
  BY DEF GoodRequest
<1> DEFINE p == Fail(q)
<1>2. /\ p \in Request
      /\ p.failed
      /\ p.pc = q.pc
      /\ p.url = q.url
      /\ p.header = q.header
      /\ p.token = q.token
      /\ p.cookie = q.cookie
      /\ p.info = q.info
      /\ p.status = q.status
      /\ p.steady = q.steady
  BY <1>1, Updates, WithFailedFields
<1> HIDE DEF p
<1>3. GoodRequest(p, s, e)
  BY <1>2 DEF GoodRequest, Verified, InfoEntitled
<1> QED
  BY <1>3 DEF p

LEMMA FailKeeps ==
  ASSUME NEW q \in Request
  PROVE  Fail(q).header = q.header /\ Fail(q).failed
BY Updates, WithFailedFields

(* What the invariant says of the request of one slot.                     *)
LEMMA RequestFacts ==
  ASSUME IInv, NEW r \in Slots
  PROVE  /\ req[r] \in Request
         /\ GoodRequest(req[r], sessions, entitled)
         /\ EnvTypeOK
         /\ StateIsEntitled
BY IInvByRequest DEF GoodRequest

-----------------------------------------------------------------------------
(* The steps of a request *)

LEMMA NewRequestGood ==
  ASSUME IInv, NEW url \in Paths \union {None}, NEW op \in {"upload", "download"},
         NEW c \in issued \union {None}, NEW step \in {"verify", "basic", "cookie"},
         NEW h \in {"none", "Bearer", "Basic"}, NEW t \in Tokens \union {None},
         NEW i \in issued \union {None},
         step = "verify" => h = "Bearer" /\ t \in Tokens,
         step # "verify" => h # "Bearer"
  PROVE  GoodRequest(NewRequest(step, url, op, c, h, t, i), sessions, entitled)
<1> DEFINE b == c # None /\ sessions[c] # None
           p == NewRequest(step, url, op, c, h, t, i)
<1>1. c \in SessionIDs \union {None} /\ i \in SessionIDs \union {None}
  BY IInvByRequest DEF EnvTypeOK
<1>2. b \in BOOLEAN /\ (b => c \in SessionIDs /\ sessions[c] # None)
  BY <1>1
<1>3. p = [pc |-> step, url |-> url, header |-> h, token |-> t, basic |-> i,
           cookie |-> c, op |-> op, info |-> NoUser, status |-> 0,
           failed |-> FALSE, steady |-> b]
  BY DEF NewRequest
<1> HIDE DEF b, p
<1>4. /\ p \in Request
      /\ p.pc = step
      /\ p.header = h
      /\ p.token = t
      /\ p.status = 0
      /\ p.cookie = c
      /\ p.steady = b
  BY <1>1, <1>2, <1>3 DEF Request
<1>5. GoodRequest(p, sessions, entitled)
  BY <1>2, <1>4 DEF GoodRequest
<1> QED
  BY <1>5 DEF p

LEMMA AuthDispatcherInv ==
  ASSUME IInv, NEW r \in Slots, AuthDispatcher(r)
  PROVE  IInv'
<1>1. PICK url \in Paths \union {None}, op \in {"upload", "download"},
           c \in issued \union {None} :
        \/ \E t \in Tokens :
             Become(r, NewRequest("verify", url, op, c, "Bearer", t, None))
        \/ \E i \in issued \union {None} :
             Become(r, NewRequest("basic", url, op, c, "Basic", None, i))
        \/ Become(r, NewRequest("cookie", url, op, c, "none", None, None))
  BY DEF AuthDispatcher
<1>2. UNCHANGED env
  BY DEF AuthDispatcher
<1>3. ASSUME NEW t \in Tokens,
             Become(r, NewRequest("verify", url, op, c, "Bearer", t, None))
      PROVE  IInv'
  BY <1>2, <1>3, NewRequestGood, RequestStep
<1>4. ASSUME NEW i \in issued \union {None},
             Become(r, NewRequest("basic", url, op, c, "Basic", None, i))
      PROVE  IInv'
  BY <1>2, <1>4, NewRequestGood, RequestStep
<1>5. CASE Become(r, NewRequest("cookie", url, op, c, "none", None, None))
  BY <1>2, <1>5, NewRequestGood, RequestStep
<1> QED
  BY <1>1, <1>3, <1>4, <1>5

(* A token passes under a key set that was published once.                 *)
LEMMA VerifyIDTokenInv ==
  ASSUME IInv, NEW r \in Slots, VerifyIDToken(r)
  PROVE  IInv'
<1> DEFINE q == req[r]
<1>1. /\ q \in Request
      /\ GoodRequest(q, sessions, entitled)
      /\ q.pc = "verify"
      /\ q.header = "Bearer"
      /\ q.token \in Tokens
      /\ q.status = 0
  BY RequestFacts DEF VerifyIDToken, At, GoodRequest
<1>2. UNCHANGED env
  BY DEF VerifyIDToken
<1>3. CASE /\ q.token.sound
           /\ \E s \in keySets["github"] : q.token.kid \in s
           /\ Become(r, [q EXCEPT !.pc = "isAllowed"])
  <2> DEFINE p == [q EXCEPT !.pc = "isAllowed"]
  <2>1. q.token.kid \in entitled.trusted
    BY <1>3, RequestFacts DEF StateIsEntitled
  <2>2. /\ p \in Request
        /\ p.pc = "isAllowed"
        /\ p.header = q.header
        /\ p.token = q.token
        /\ p.status = q.status
        /\ p.steady = q.steady
        /\ p.cookie = q.cookie
    BY <1>1 DEF Request
  <2>3. Become(r, p)
    BY <1>3
  <2> HIDE DEF p
  <2>4. GoodRequest(p, sessions, entitled)
    BY <1>1, <1>3, <2>1, <2>2 DEF GoodRequest, Verified
  <2> QED
    BY <1>2, <2>3, <2>4, RequestStep
<1>4. CASE Become(r, Finish(q, 500)) \/ Become(r, Finish(q, 401))
  BY <1>1, <1>2, <1>4, RefuseGood, RequestStep
<1>5. CASE Become(r, Finish(Fail(q), 401))
  BY <1>1, <1>2, <1>5, FailGood, FailKeeps, RefuseGood, RequestStep
<1> QED
  BY <1>3, <1>4, <1>5 DEF VerifyIDToken

(* A repository passes under an answer that was true once.                 *)
LEMMA IsAllowedInv ==
  ASSUME IInv, NEW r \in Slots, IsAllowed(r)
  PROVE  IInv'
<1> DEFINE q == req[r]
           info == ToUserInfo(q.token)
<1>1. /\ q \in Request
      /\ GoodRequest(q, sessions, entitled)
      /\ q.pc = "isAllowed"
      /\ Verified(q, entitled)
      /\ q.status = 0
  BY RequestFacts DEF IsAllowed, At, GoodRequest
<1>2. UNCHANGED env
  BY DEF IsAllowed
<1>3. q.token.repo \in Repos /\ q.header = "Bearer"
  BY <1>1 DEF Verified, Tokens
<1>4. CASE TRUE \in answers[q.token.repo] /\ Become(r, [q EXCEPT !.pc = "validate", !.info = info])
  <2> DEFINE p == [q EXCEPT !.pc = "validate", !.info = info]
  <2>1. q.token.repo \in entitled.listed
    BY <1>3, <1>4, RequestFacts DEF StateIsEntitled
  <2>2. info \in UserInfo /\ info.by = "token" /\ info.repo = q.token.repo
    BY <1>3 DEF UserInfo, ToUserInfo
  <2> HIDE DEF info
  <2>3. /\ p \in Request
        /\ p.pc = "validate"
        /\ p.info = info
        /\ p.header = q.header
        /\ p.token = q.token
        /\ p.status = q.status
        /\ p.steady = q.steady
        /\ p.cookie = q.cookie
    <3>1. p = WithInfo(WithPc(q, "validate"), info)
      BY DEF WithInfo, WithPc
    <3> HIDE DEF p
    <3> QED
      BY <1>1, <2>2, <3>1, WithPcFields, WithInfoFields
  <2>4. Become(r, p)
    BY <1>4 DEF info
  <2> HIDE DEF p
  <2>5. GoodRequest(p, sessions, entitled)
    BY <1>1, <1>3, <2>1, <2>2, <2>3 DEF GoodRequest, Verified, InfoEntitled
  <2> QED
    BY <1>2, <2>4, <2>5, RequestStep
<1>5. CASE Become(r, Finish(q, 401))
  BY <1>1, <1>2, <1>3, <1>5, RefuseGood, RequestStep
<1>6. CASE Become(r, Finish(Fail(q), 401))
  BY <1>1, <1>2, <1>6, FailGood, FailKeeps, RefuseGood, RequestStep
<1> QED
  BY <1>4, <1>5, <1>6 DEF IsAllowed

(* A session gives what GitHub gave when it was made; without one the      *)
(* request goes on otherwise, or has failed.                               *)
LEMMA GetSessionInv ==
  ASSUME IInv, NEW r \in Slots, NEW i \in SessionIDs \union {None}, NEW otherwise,
         GetSession(r, i, otherwise), UNCHANGED env,
         req[r].pc \in {"basic", "cookie"},
         i = None \/ sessions[i] = None => GoodRequest(otherwise, sessions, entitled),
         GoodRequest(Fail(otherwise), sessions, entitled)
  PROVE  IInv'
<1> DEFINE q == req[r]
<1>1. /\ q \in Request
      /\ GoodRequest(q, sessions, entitled)
      /\ q.header # "Bearer"
      /\ q.status = 0
  BY RequestFacts DEF GoodRequest
<1>2. CASE Become(r, otherwise) /\ (i = None \/ sessions[i] = None)
  BY <1>2, RequestStep
<1>3. CASE Become(r, Fail(otherwise))
  BY <1>3, RequestStep
<1>4. CASE /\ i # None
           /\ sessions[i] # None
           /\ Become(r, [q EXCEPT !.pc = "validate",
                                  !.info = Deserialize(sessions[i])])
  <2> DEFINE x == sessions[i]
             info == [by |-> "session", repo |-> x.repo, perms |-> x.perms, user |-> x.user]
             p == [q EXCEPT !.pc = "validate", !.info = info]
  <2>1. x \in Session /\ x \in entitled.grants
    BY <1>4, RequestFacts DEF EnvTypeOK, StateIsEntitled
  <2>2. Become(r, p)
    BY <1>4 DEF Deserialize
  <2> HIDE DEF x
  <2>3. /\ info \in UserInfo
        /\ info.by = "session"
        /\ info.repo \in Repos
        /\ [user |-> info.user, repo |-> info.repo, perms |-> info.perms] = x
    BY <2>1 DEF UserInfo, Session
  <2> HIDE DEF info
  <2>4. /\ p \in Request
        /\ p.pc = "validate"
        /\ p.info = info
        /\ p.header = q.header
        /\ p.status = q.status
        /\ p.steady = q.steady
        /\ p.cookie = q.cookie
    <3>1. p = WithInfo(WithPc(q, "validate"), info)
      BY DEF WithInfo, WithPc
    <3> HIDE DEF p
    <3> QED
      BY <1>1, <2>3, <3>1, WithPcFields, WithInfoFields
  <2> HIDE DEF p
  <2>5. InfoEntitled(p, entitled)
    BY <1>1, <2>1, <2>3, <2>4 DEF InfoEntitled
  <2>6. GoodRequest(p, sessions, entitled)
    BY <1>1, <2>3, <2>4, <2>5 DEF GoodRequest
  <2> QED
    BY <2>2, <2>6, RequestStep
<1> QED
  BY <1>2, <1>3, <1>4 DEF GetSession

(* Without a session in the Basic credentials the cookie is next.          *)
LEMMA BasicSessionInv ==
  ASSUME IInv, NEW r \in Slots, BasicSession(r)
  PROVE  IInv'
<1> DEFINE q == req[r]
           p == WithPc(q, "cookie")
<1>1. /\ q \in Request
      /\ GoodRequest(q, sessions, entitled)
      /\ q.pc = "basic"
      /\ q.header # "Bearer"
      /\ q.status = 0
  BY RequestFacts DEF BasicSession, At, GoodRequest
<1>2. GetSession(r, q.basic, p) /\ UNCHANGED env
  BY DEF BasicSession, WithPc
<1>3. /\ p \in Request
      /\ p.pc = "cookie"
      /\ p.header = q.header
      /\ p.status = q.status
      /\ p.steady = q.steady
      /\ p.cookie = q.cookie
  BY <1>1, WithPcFields
<1> HIDE DEF p
<1>4. GoodRequest(p, sessions, entitled)
  BY <1>1, <1>3 DEF GoodRequest
<1>5. GoodRequest(Fail(p), sessions, entitled)
  BY <1>3, <1>4, FailGood
<1>6. q.basic \in SessionIDs \union {None}
  BY <1>1 DEF Request
<1> QED
  BY <1>1, <1>2, <1>4, <1>5, <1>6, GetSessionInv

(* The cookie is the last resort: without its session the request is       *)
(* refused, and then the session has not existed all the time.             *)
LEMMA CookieSessionInv ==
  ASSUME IInv, NEW r \in Slots, CookieSession(r)
  PROVE  IInv'
<1> DEFINE q == req[r]
           p == Finish(q, 401)
<1>1. /\ q \in Request
      /\ GoodRequest(q, sessions, entitled)
      /\ q.pc = "cookie"
      /\ q.steady => q.cookie \in SessionIDs /\ sessions[q.cookie] # None
  BY RequestFacts DEF CookieSession, At, GoodRequest
<1>2. GetSession(r, q.cookie, p) /\ UNCHANGED env
  BY DEF CookieSession
<1>3. q.cookie \in SessionIDs \union {None}
  BY <1>1 DEF Request
<1>4. ASSUME q.cookie = None \/ sessions[q.cookie] = None
      PROVE  GoodRequest(p, sessions, entitled)
  <2>1. ~ q.steady
    BY <1>1, <1>4, NoneAssumption
  <2> QED
    BY <1>1, <2>1, RefuseGood
<1>5. GoodRequest(Fail(p), sessions, entitled)
  <2> DEFINE x == Fail(p)
  <2>1. /\ p \in Request
        /\ p.pc = "done"
        /\ p.status = 401
        /\ p.cookie = q.cookie
        /\ p.steady = q.steady
    BY <1>1, Updates, WithPcFields, WithStatusFields
  <2> HIDE DEF p
  <2>2. /\ x \in Request
        /\ x.failed
        /\ x.pc = "done"
        /\ x.status = 401
        /\ x.cookie = q.cookie
        /\ x.steady = q.steady
    BY <2>1, Updates, WithFailedFields
  <2> HIDE DEF x
  <2>3. GoodRequest(x, sessions, entitled)
    BY <1>1, <2>2 DEF GoodRequest
  <2> QED
    BY <2>3 DEF x
<1> HIDE DEF p
<1> QED
  BY <1>1, <1>2, <1>3, <1>4, <1>5, GetSessionInv

LEMMA ValidateRepositoryInv ==
  ASSUME IInv, NEW r \in Slots, ValidateRepository(r)
  PROVE  IInv'
<1> DEFINE q == req[r]
           p == WithPc(q, "handle")
<1>1. /\ q \in Request
      /\ GoodRequest(q, sessions, entitled)
      /\ q.pc = "validate"
  BY RequestFacts DEF ValidateRepository, At
<1>2. UNCHANGED env
  BY DEF ValidateRepository
<1>3. CASE Become(r, Finish(q, 400)) \/ Become(r, Finish(q, 403))
  BY <1>1, <1>2, <1>3, RefuseGood, RequestStep
<1>4. CASE q.url # None /\ EqualsFold(q.url, q.info.repo) /\ Become(r, p)
  <2>1. /\ p \in Request
        /\ p.pc = "handle"
        /\ p.url = q.url
        /\ p.header = q.header
        /\ p.token = q.token
        /\ p.info = q.info
        /\ p.status = q.status
        /\ p.steady = q.steady
        /\ p.cookie = q.cookie
    BY <1>1, WithPcFields
  <2>2. q.url \in Paths
    BY <1>1, <1>4 DEF Request
  <2> HIDE DEF p
  <2>3. GoodRequest(p, sessions, entitled)
    BY <1>1, <1>4, <2>1, <2>2 DEF GoodRequest, InfoEntitled, Verified
  <2> QED
    BY <1>2, <1>4, <2>3, RequestStep
<1> QED
  BY <1>3, <1>4 DEF ValidateRepository, WithPc

(* A request passes with a UserInfo that rests on what was entitled.       *)
LEMMA CheckPermissionsInv ==
  ASSUME IInv, NEW r \in Slots, CheckPermissions(r)
  PROVE  IInv'
<1> DEFINE q == req[r]
           p == Finish(q, 200)
<1>1. /\ q \in Request
      /\ GoodRequest(q, sessions, entitled)
      /\ q.pc = "handle"
      /\ InfoEntitled(q, entitled)
      /\ EqualsFold(q.url, q.info.repo)
  BY RequestFacts DEF CheckPermissions, At, GoodRequest
<1>2. UNCHANGED env
  BY DEF CheckPermissions
<1>3. CASE Become(r, Finish(q, 403))
  BY <1>1, <1>2, <1>3, RefuseGood, RequestStep
<1>4. CASE Can(q.info.perms, q.op) /\ Become(r, p)
  <2>1. /\ p \in Request
        /\ p.pc = "done"
        /\ p.status = 200
        /\ p.url = q.url
        /\ p.header = q.header
        /\ p.token = q.token
        /\ p.op = q.op
        /\ p.info = q.info
        /\ p.steady = q.steady
        /\ p.cookie = q.cookie
    BY <1>1, Updates, WithPcFields, WithStatusFields
  <2> HIDE DEF p
  <2>2. Justified(p, entitled.grants, entitled.listed, entitled.trusted)
    <3>1. CASE q.info.by = "token"
      BY <1>1, <2>1, <3>1 DEF Justified, InfoEntitled, Verified
    <3>2. CASE q.info.by = "session"
      <4> DEFINE x == [user |-> q.info.user, repo |-> q.info.repo, perms |-> q.info.perms]
      <4>1. /\ x \in entitled.grants
            /\ x.user = p.info.user
            /\ x.repo = p.info.repo
            /\ Can(x.perms, p.op)
            /\ q.header # "Bearer"
        BY <1>1, <1>4, <2>1, <3>2 DEF InfoEntitled
      <4> HIDE DEF x
      <4> QED
        BY <1>1, <2>1, <3>2, <4>1 DEF Justified
    <3> QED
      BY <1>1, <3>1, <3>2 DEF InfoEntitled
  <2>3. GoodRequest(p, sessions, entitled)
    BY <1>1, <2>1, <2>2 DEF GoodRequest
  <2> QED
    BY <1>2, <1>4, <2>3, RequestStep
<1> QED
  BY <1>3, <1>4 DEF CheckPermissions

LEMMA ReplyInv ==
  ASSUME IInv, NEW r \in Slots, Reply(r)
  PROVE  IInv'
BY IdleGood, RequestStep DEF Reply

-----------------------------------------------------------------------------
(* The steps around the requests *)

(* A step that leaves the requests alone, takes nothing back from the      *)
(* history and ends no session.                                            *)
LEMMA AroundStep ==
  ASSUME IInv, EnvTypeOK', StateIsEntitled', UNCHANGED req,
         entitled.grants \subseteq entitled'.grants,
         entitled.listed \subseteq entitled'.listed,
         entitled.trusted \subseteq entitled'.trusted,
         \A i \in SessionIDs : sessions[i] # None => sessions'[i] # None
  PROVE  IInv'
<1>1. ASSUME NEW r \in Slots
      PROVE  GoodRequest(req'[r], sessions', entitled')
  <2>1. GoodRequest(req[r], sessions, entitled)
    BY IInvByRequest
  <2>2. req[r].steady => sessions'[req[r].cookie] # None
    BY <2>1 DEF GoodRequest
  <2> QED
    BY <2>1, <2>2, GoodStays
<1> QED
  BY <1>1, IInvByRequest, IInvByRequestNext

LEMMA ChangeAccessInv ==
  ASSUME IInv, NEW u \in Users, NEW k \in Repos, ChangeAccess(u, k)
  PROVE  IInv'
<1>1. EnvTypeOK /\ StateIsEntitled
  BY IInvByRequest
<1> DEFINE spellings == {l \in Repos : EqualsFold(l, k)}
<1>2. PICK p \in Perms :
        /\ access' = [access EXCEPT ![u] =
                        [l \in Repos |-> IF l \in spellings THEN p ELSE @[l]]]
        /\ entitled' = [entitled EXCEPT !.grants =
                          @ \union [user : {u}, repo : spellings, perms : {p}]]
  BY DEF ChangeAccess
<1>3. /\ UNCHANGED <<sessions, issued, req, published, keySets, allowed, answers>>
      /\ changes' \in Nat
  BY <1>1 DEF ChangeAccess, Counted, EnvTypeOK
<1> DEFINE new == [user : {u}, repo : spellings, perms : {p}]
<1>4. new \subseteq Grants
  BY PermsAssumption DEF Grants, Session
<1>5. /\ entitled' \in [grants : SUBSET Grants, listed : SUBSET Repos,
                        trusted : SUBSET Kids]
      /\ entitled'.grants = entitled.grants \union new
      /\ entitled'.listed = entitled.listed
      /\ entitled'.trusted = entitled.trusted
  BY <1>1, <1>2, <1>4 DEF EnvTypeOK
<1>6. /\ access' \in [Users -> [Repos -> Perms]]
      /\ \A v \in Users, j \in Repos :
           access'[v][j] = IF v = u /\ j \in spellings THEN p ELSE access[v][j]
  BY <1>1, <1>2 DEF EnvTypeOK
<1>7. EnvTypeOK'
  BY <1>1, <1>3, <1>5, <1>6 DEF EnvTypeOK
<1>8. StateIsEntitled'
  <2>1. \A v \in Users, j \in Repos :
          [user |-> v, repo |-> j, perms |-> access'[v][j]] \in entitled'.grants
    BY <1>1, <1>5, <1>6 DEF StateIsEntitled
  <2> QED
    BY <1>1, <1>3, <1>5, <2>1 DEF StateIsEntitled
<1> QED
  BY <1>3, <1>5, <1>7, <1>8, AroundStep

LEMMA RotateKeysInv ==
  ASSUME IInv, RotateKeys
  PROVE  IInv'
<1>1. EnvTypeOK /\ StateIsEntitled
  BY IInvByRequest
<1>2. PICK v \in SUBSET Kids, h \in SUBSET SUBSET Kids :
        /\ h \subseteq keySets["github"] \union {v}
        /\ published' = [published EXCEPT !["github"] = v]
        /\ keySets' = [keySets EXCEPT !["github"] = h]
  <2>1. PICK v \in SUBSET Kids :
          /\ published' = [published EXCEPT !["github"] = v]
          /\ \E h \in SUBSET (keySets["github"] \union {v}) :
               v \in h /\ keySets' = [keySets EXCEPT !["github"] = h]
    BY DEF RotateKeys, KeyCopies!Change
  <2>2. PICK h \in SUBSET (keySets["github"] \union {v}) :
          keySets' = [keySets EXCEPT !["github"] = h]
    BY <2>1
  <2>3. keySets["github"] \subseteq SUBSET Kids
    BY <1>1 DEF EnvTypeOK
  <2>4. h \in SUBSET SUBSET Kids
    BY <2>3
  <2> QED
    BY <2>1, <2>2, <2>4
<1>3. /\ UNCHANGED <<sessions, issued, req, access, allowed, answers>>
      /\ changes' \in Nat
  BY <1>1 DEF RotateKeys, Counted, EnvTypeOK
<1>4. /\ published' \in [{"github"} -> SUBSET Kids]
      /\ keySets' \in [{"github"} -> SUBSET SUBSET Kids]
      /\ published'["github"] = v
      /\ keySets'["github"] = h
  BY <1>1, <1>2 DEF EnvTypeOK
<1>5. /\ entitled' \in [grants : SUBSET Grants, listed : SUBSET Repos,
                        trusted : SUBSET Kids]
      /\ entitled'.grants = entitled.grants
      /\ entitled'.listed = entitled.listed
      /\ entitled'.trusted = entitled.trusted \union v
  BY <1>1, <1>4 DEF EnvTypeOK, RotateKeys
<1>6. EnvTypeOK'
  BY <1>1, <1>3, <1>4, <1>5 DEF EnvTypeOK
<1>7. StateIsEntitled'
  <2>1. \A s \in keySets'["github"] \union {published'["github"]} :
          s \subseteq entitled'.trusted
    BY <1>1, <1>2, <1>4, <1>5 DEF StateIsEntitled
  <2> QED
    BY <1>1, <1>3, <1>5, <2>1 DEF StateIsEntitled
<1> QED
  BY <1>3, <1>5, <1>6, <1>7, AroundStep

LEMMA ChangeAllowlistInv ==
  ASSUME IInv, NEW k \in Repos, ChangeAllowlist(k)
  PROVE  IInv'
<1>1. EnvTypeOK /\ StateIsEntitled
  BY IInvByRequest
<1>2. PICK v \in BOOLEAN, h \in SUBSET BOOLEAN :
        /\ h \subseteq answers[k] \union {v}
        /\ allowed' = [allowed EXCEPT ![k] = v]
        /\ answers' = [answers EXCEPT ![k] = h]
  <2>1. PICK v \in BOOLEAN :
          /\ allowed' = [allowed EXCEPT ![k] = v]
          /\ \E h \in SUBSET (answers[k] \union {v}) :
               v \in h /\ answers' = [answers EXCEPT ![k] = h]
    BY DEF ChangeAllowlist, ListCopies!Change
  <2>2. PICK h \in SUBSET (answers[k] \union {v}) :
          answers' = [answers EXCEPT ![k] = h]
    BY <2>1
  <2>3. answers[k] \subseteq BOOLEAN
    BY <1>1 DEF EnvTypeOK
  <2>4. h \in SUBSET BOOLEAN
    BY <2>3
  <2> QED
    BY <2>1, <2>2, <2>4
<1>3. /\ UNCHANGED <<sessions, issued, req, access, published, keySets>>
      /\ changes' \in Nat
  BY <1>1 DEF ChangeAllowlist, Counted, EnvTypeOK
<1>4. /\ allowed' \in [Repos -> BOOLEAN]
      /\ answers' \in [Repos -> SUBSET BOOLEAN]
      /\ \A j \in Repos : /\ allowed'[j] = IF j = k THEN v ELSE allowed[j]
                          /\ answers'[j] = IF j = k THEN h ELSE answers[j]
  BY <1>1, <1>2 DEF EnvTypeOK
<1>5. /\ entitled' \in [grants : SUBSET Grants, listed : SUBSET Repos,
                        trusted : SUBSET Kids]
      /\ entitled'.grants = entitled.grants
      /\ entitled'.listed = entitled.listed \union {x \in {k} : allowed'[x]}
      /\ entitled'.trusted = entitled.trusted
  BY <1>1 DEF EnvTypeOK, ChangeAllowlist
<1>6. EnvTypeOK'
  BY <1>1, <1>3, <1>4, <1>5 DEF EnvTypeOK
<1>7. StateIsEntitled'
  <2>1. \A j \in Repos : TRUE \in answers'[j] \union {allowed'[j]} => j \in entitled'.listed
    <3> SUFFICES ASSUME NEW j \in Repos, TRUE \in answers'[j] \union {allowed'[j]}
                 PROVE  j \in entitled'.listed
      OBVIOUS
    <3>1. CASE j # k
      BY <1>1, <1>4, <1>5, <3>1 DEF StateIsEntitled
    <3>2. CASE j = k
      BY <1>1, <1>2, <1>4, <1>5, <3>2 DEF StateIsEntitled
    <3> QED
      BY <3>1, <3>2
  <2> QED
    BY <1>1, <1>3, <1>5, <2>1 DEF StateIsEntitled
<1> QED
  BY <1>3, <1>5, <1>6, <1>7, AroundStep

(* What the caches still hold after dropping some was held before.         *)
LEMMA DropCopiesInv ==
  ASSUME IInv, DropCopies
  PROVE  IInv'
<1>1. EnvTypeOK /\ StateIsEntitled
  BY IInvByRequest
<1>2. UNCHANGED <<access, sessions, issued, req, changes, entitled, published, allowed>>
  BY DEF DropCopies, KeyCopies!Forget, ListCopies!Forget
<1>3. /\ keySets' \in [{"github"} -> SUBSET SUBSET Kids]
      /\ keySets'["github"] \subseteq keySets["github"]
  BY <1>1 DEF DropCopies, KeyCopies!Forget, EnvTypeOK
<1>4. /\ answers' \in [Repos -> SUBSET BOOLEAN]
      /\ \A k \in Repos : answers'[k] \subseteq answers[k]
  BY <1>1 DEF DropCopies, ListCopies!Forget, EnvTypeOK
<1>5. EnvTypeOK'
  BY <1>1, <1>2, <1>3, <1>4 DEF EnvTypeOK
<1>6. StateIsEntitled'
  BY <1>1, <1>2, <1>3, <1>4 DEF StateIsEntitled
<1> QED
  BY <1>2, <1>5, <1>6, AroundStep

(* While identifiers are left, a login gets one.                           *)
LEMMA NewIdentifier ==
  ASSUME issued \subseteq SessionIDs, SessionIDs # issued
  PROVE  (CHOOSE j \in SessionIDs \ issued : TRUE) \in SessionIDs
OBVIOUS

(* A session holds what GitHub gives at that time.                         *)
LEMMA LoginInv ==
  ASSUME IInv, NEW u \in Users, NEW k \in Repos, Login(u, k)
  PROVE  IInv'
<1>1. EnvTypeOK /\ StateIsEntitled
  BY IInvByRequest
<1> DEFINE g == [user |-> u, repo |-> k, perms |-> access[u][k]]
<1>0. Serialize(u, k, [f \in Flags |-> f \in access[u][k]]) = g
  <2>1. access[u][k] \subseteq Flags
    BY <1>1, PermsAssumption DEF EnvTypeOK
  <2>2. {f \in Flags : [h \in Flags |-> h \in access[u][k]][f]} = access[u][k]
    BY <2>1
  <2> QED
    BY <2>2 DEF Serialize
<1>2. PICK i \in SessionIDs :
        /\ issued' = issued \union {i}
        /\ sessions' = [sessions EXCEPT ![i] = g]
  BY <1>0, <1>1, NewIdentifier DEF Login, EnvTypeOK
<1>3. g \in entitled.grants /\ g \in Session
  BY <1>1 DEF StateIsEntitled, EnvTypeOK, Grants
<1>4. UNCHANGED <<access, published, keySets, allowed, answers, req, changes, entitled>>
  BY DEF Login
<1> HIDE DEF g
<1>5. /\ sessions' \in [SessionIDs -> Session \union {None}]
      /\ \A j \in SessionIDs : sessions'[j] \in {sessions[j], g}
  BY <1>1, <1>2, <1>3 DEF EnvTypeOK
<1>6. EnvTypeOK'
  BY <1>1, <1>2, <1>4, <1>5 DEF EnvTypeOK
<1>7. StateIsEntitled'
  BY <1>1, <1>3, <1>4, <1>5 DEF StateIsEntitled
<1>8. \A j \in SessionIDs : sessions[j] # None => sessions'[j] # None
  BY <1>3, <1>5, NoneAssumption
<1> QED
  BY <1>4, <1>6, <1>7, <1>8, AroundStep

(* A session that expires is no longer steady for any request.             *)
LEMMA ExpireSessionInv ==
  ASSUME IInv, NEW i \in SessionIDs, ExpireSession(i)
  PROVE  IInv'
<1>1. EnvTypeOK /\ StateIsEntitled
  BY IInvByRequest
<1>2. UNCHANGED <<access, issued, published, keySets, allowed, answers, changes, entitled>>
  BY DEF ExpireSession
<1>3. /\ sessions' \in [SessionIDs -> Session \union {None}]
      /\ \A j \in SessionIDs : sessions'[j] = IF j = i THEN None ELSE sessions[j]
  BY <1>1 DEF ExpireSession, EnvTypeOK
<1>4. EnvTypeOK'
  BY <1>1, <1>2, <1>3 DEF EnvTypeOK
<1>5. StateIsEntitled'
  BY <1>1, <1>2, <1>3 DEF StateIsEntitled
<1>6. ASSUME NEW r \in Slots
      PROVE  GoodRequest(req'[r], sessions', entitled')
  <2> DEFINE q == req[r]
             b == q.steady /\ q.cookie # i
             p == WithSteady(q, b)
  <2>1. GoodRequest(q, sessions, entitled) /\ q \in Request
    BY IInvByRequest DEF GoodRequest
  <2>2. req'[r] = p
    BY DEF ExpireSession, WithSteady
  <2>3. b \in BOOLEAN /\ (b => q.steady /\ q.cookie # i)
    OBVIOUS
  <2> HIDE DEF b
  <2>4. /\ p \in Request
        /\ p.pc = q.pc
        /\ p.url = q.url
        /\ p.header = q.header
        /\ p.token = q.token
        /\ p.cookie = q.cookie
        /\ p.op = q.op
        /\ p.info = q.info
        /\ p.status = q.status
        /\ p.failed = q.failed
        /\ p.steady = b
    BY <2>1, <2>3, WithSteadyFields
  <2> HIDE DEF p
  <2>5. p.steady => p.cookie \in SessionIDs /\ sessions'[p.cookie] # None
    BY <1>3, <2>1, <2>3, <2>4 DEF GoodRequest
  <2>6. GoodRequest(p, sessions', entitled)
    BY <2>1, <2>3, <2>4, <2>5
    DEF GoodRequest, Verified, InfoEntitled, Justified
  <2> QED
    BY <1>2, <2>2, <2>6
<1>7. req' \in [Slots -> Request]
  BY <1>6 DEF ExpireSession, GoodRequest
<1> QED
  BY <1>4, <1>5, <1>6, <1>7, IInvByRequestNext

(* The invariant holds initially.                                          *)
LEMMA InitInv == Init => IInv
<1> SUFFICES ASSUME Init PROVE IInv
  OBVIOUS
<1>1. /\ published \in [{"github"} -> SUBSET Kids]
      /\ keySets = [p \in {"github"} |-> {published[p]}]
      /\ allowed \in [Repos -> BOOLEAN]
      /\ answers = [k \in Repos |-> {allowed[k]}]
  BY DEF Init, KeyCopies!LagInit, ListCopies!LagInit
<1>2. \A r \in Slots : GoodRequest(req[r], sessions, entitled)
  BY IdleGood DEF Init
<1>3. req \in [Slots -> Request]
  BY <1>2 DEF Init, GoodRequest
<1>4. EnvTypeOK
  BY <1>1 DEF Init, EnvTypeOK, Grants
<1>5. StateIsEntitled
  <2>1. \A u \in Users, k \in Repos :
          [user |-> u, repo |-> k, perms |-> access[u][k]] \in entitled.grants
    <3> SUFFICES ASSUME NEW u \in Users, NEW k \in Repos
                 PROVE  [user |-> u, repo |-> k, perms |-> access[u][k]] \in entitled.grants
      OBVIOUS
    <3>1. access[u][k] \in SUBSET Flags
      BY PermsAssumption DEF Init
    <3>2. entitled.grants = {g \in Grants : access[g.user][g.repo] = g.perms}
      BY DEF Init
    <3> QED
      BY <3>1, <3>2 DEF Grants, Session
  <2> QED
    BY <1>1, <2>1 DEF Init, StateIsEntitled
<1> QED
  BY <1>2, <1>3, <1>4, <1>5, IInvByRequest

(* Every step preserves it.                                                *)
LEMMA NextInv == IInv /\ [Next]_vars => IInv'
<1> SUFFICES ASSUME IInv, [Next]_vars PROVE IInv'
  OBVIOUS
<1>1. CASE UNCHANGED vars
  <2>1. EnvTypeOK' /\ StateIsEntitled'
    BY <1>1, IInvByRequest DEF vars, EnvTypeOK, StateIsEntitled
  <2> QED
    BY <1>1, <2>1, AroundStep DEF vars
<1>2. ASSUME NEW r \in Slots, AuthDispatcher(r) \/ Step(r)
      PROVE  IInv'
  BY <1>2, AuthDispatcherInv, VerifyIDTokenInv, IsAllowedInv, BasicSessionInv,
     CookieSessionInv, ValidateRepositoryInv, CheckPermissionsInv, ReplyInv
  DEF Step
<1>3. ASSUME NEW u \in Users, NEW k \in Repos, ChangeAccess(u, k) \/ Login(u, k)
      PROVE  IInv'
  BY <1>3, ChangeAccessInv, LoginInv
<1> QED
  BY <1>1, <1>2, <1>3, RotateKeysInv, ChangeAllowlistInv, DropCopiesInv,
     ExpireSessionInv DEF Next

(* The invariant holds in every reachable state, for any number of         *)
(* requests, users, sessions, repositories and keys.                       *)
THEOREM AuthInvariance == Spec => []IInv
BY InitInv, NextInv, PTL DEF Spec

(* TypeOK: GitHub's data, the stores, the copies and the requests keep     *)
(* their types.                                                            *)
THEOREM AuthTypeCorrect == Spec => []TypeOK
<1>1. IInv => TypeOK
  BY DEF IInv
<1> QED
  BY <1>1, AuthInvariance, PTL

(* PassedWasEntitled: whatever the caches and the sessions still hold, a   *)
(* request passes only on what was granted, listed and published once.     *)
THEOREM OnlyEntitledPass == Spec => []PassedWasEntitled
<1>1. IInv => PassedWasEntitled
  BY DEF IInv
<1> QED
  BY <1>1, AuthInvariance, PTL

(* CookieBacksUpBasic: stale Basic credentials do not lock out a request   *)
(* whose cookie names a session that exists.                               *)
THEOREM CookieIsBackup == Spec => []CookieBacksUpBasic
<1>1. IInv => CookieBacksUpBasic
  BY DEF IInv
<1> QED
  BY <1>1, AuthInvariance, PTL

-----------------------------------------------------------------------------
(* What is withdrawn *)

(* What the next step of a request makes of its user and its answer, while *)
(* the request keeps its operation and its token.                          *)
KeepsUser(q, p) ==
  /\ p.info = q.info
  /\ p.pc # "isAllowed"
  /\ p.status = 200 => Can(p.info.perms, p.op)

TokenIsVerified(q, p) ==
  /\ p.info = q.info
  /\ p.status # 200
  /\ \E s \in keySets["github"] : p.token.kid \in s

TokenIsAllowed(q, p) ==
  /\ q.pc = "isAllowed"
  /\ p.info = ToUserInfo(p.token)
  /\ p.status # 200
  /\ TRUE \in answers[p.token.repo]

SessionIsFound(q, p) ==
  /\ \E i \in SessionIDs : sessions[i] # None /\ p.info = Deserialize(sessions[i])
  /\ p.pc # "isAllowed"
  /\ p.status # 200

Moves(q, p) ==
  \/ p.info = NoUser /\ p.pc # "isAllowed" /\ p.status # 200
  \/ /\ p.op = q.op
     /\ p.token = q.token
     /\ \/ KeepsUser(q, p)
        \/ TokenIsVerified(q, p)
        \/ TokenIsAllowed(q, p)
        \/ SessionIsFound(q, p)

(* A request that ends with an error keeps its user.                       *)
LEMMA RefuseMoves ==
  ASSUME NEW q \in Request, NEW x \in {400, 401, 403, 500}
  PROVE  Moves(q, Finish(q, x)) /\ Moves(q, Finish(Fail(q), x))
BY DEF Moves, KeepsUser, Finish, Fail, Request

LEMMA DispatcherMoves ==
  ASSUME IInv, NEW r \in Slots, AuthDispatcher(r) \/ Reply(r)
  PROVE  Moves(req[r], req'[r])
<1>1. req \in [Slots -> Request]
  BY IInvByRequest
<1>2. CASE AuthDispatcher(r)
  <2>1. PICK step, url, op, c, h, t, i :
          /\ step \in {"verify", "basic", "cookie"}
          /\ Become(r, NewRequest(step, url, op, c, h, t, i))
    BY <1>2 DEF AuthDispatcher
  <2>2. req'[r] = NewRequest(step, url, op, c, h, t, i)
    BY <1>1, <2>1 DEF Become
  <2>3. /\ req'[r].info = NoUser
        /\ req'[r].pc # "isAllowed"
        /\ req'[r].status # 200
    BY <2>1, <2>2 DEF NewRequest
  <2> QED
    BY <2>3 DEF Moves
<1>3. CASE Reply(r)
  <2>1. req'[r] = Idle
    BY <1>1, <1>3 DEF Reply, Become
  <2> QED
    BY <2>1 DEF Moves, Idle
<1> QED
  BY <1>2, <1>3

LEMMA TokenMoves ==
  ASSUME IInv, NEW r \in Slots, VerifyIDToken(r) \/ IsAllowed(r)
  PROVE  Moves(req[r], req'[r])
<1> DEFINE q == req[r]
<1>1. req \in [Slots -> Request] /\ q \in Request /\ q.pc # "done" /\ q.status = 0
  BY RequestFacts, IInvByRequest DEF GoodRequest, VerifyIDToken, IsAllowed, At
<1>2. \A p : Become(r, p) => req'[r] = p
  BY <1>1 DEF Become
<1>3. CASE VerifyIDToken(r)
  <2>1. CASE \E s \in keySets["github"] : q.token.kid \in s
             /\ Become(r, [q EXCEPT !.pc = "isAllowed"])
    <3> DEFINE p == WithPc(q, "isAllowed")
    <3>1. req'[r] = p
      BY <1>2, <2>1 DEF WithPc
    <3>2. p.op = q.op /\ p.token = q.token /\ p.info = q.info /\ p.status = 0
      BY <1>1, WithPcFields
    <3> HIDE DEF p
    <3> QED
      BY <2>1, <3>1, <3>2 DEF Moves, TokenIsVerified
  <2>2. CASE \/ Become(r, Finish(q, 500))
             \/ Become(r, Finish(q, 401))
             \/ Become(r, Finish(Fail(q), 401))
    BY <1>1, <1>2, <2>2, RefuseMoves
  <2> QED
    BY <1>3, <2>1, <2>2 DEF VerifyIDToken
<1>4. CASE IsAllowed(r)
  <2>1. CASE /\ TRUE \in answers[q.token.repo]
             /\ Become(r, [q EXCEPT !.pc = "validate", !.info = ToUserInfo(q.token)])
    <3> DEFINE p == [q EXCEPT !.pc = "validate", !.info = ToUserInfo(q.token)]
    <3>1. req'[r] = p
      BY <1>2, <2>1
    <3>2. /\ p.op = q.op
          /\ p.token = q.token
          /\ p.info = ToUserInfo(q.token)
          /\ p.status # 200
      BY <1>1 DEF Request
    <3>3. q.pc = "isAllowed" /\ TRUE \in answers[q.token.repo]
      BY <1>4, <2>1 DEF IsAllowed, At
    <3> HIDE DEF p
    <3>4. TokenIsAllowed(q, p)
      BY <3>2, <3>3, Zenon DEF TokenIsAllowed
    <3> QED
      BY <3>1, <3>2, <3>4 DEF Moves
  <2>2. CASE Become(r, Finish(q, 401)) \/ Become(r, Finish(Fail(q), 401))
    BY <1>1, <1>2, <2>2, RefuseMoves
  <2> QED
    BY <1>4, <2>1, <2>2 DEF IsAllowed
<1> QED
  BY <1>3, <1>4

LEMMA SessionMoves ==
  ASSUME IInv, NEW r \in Slots, BasicSession(r) \/ CookieSession(r)
  PROVE  Moves(req[r], req'[r])
<1> DEFINE q == req[r]
<1>1. /\ req \in [Slots -> Request]
      /\ q \in Request
      /\ q.status = 0
      /\ q.basic \in SessionIDs \union {None}
      /\ q.cookie \in SessionIDs \union {None}
  BY RequestFacts, IInvByRequest DEF GoodRequest, BasicSession, CookieSession, At, Request
<1>2. \A p : Become(r, p) => req'[r] = p
  BY <1>1 DEF Become
<1>3. PICK i \in SessionIDs \union {None},
           otherwise \in {Finish(q, 401), [q EXCEPT !.pc = "cookie"]} :
        GetSession(r, i, otherwise)
  BY <1>1 DEF BasicSession, CookieSession
<1>4. CASE Become(r, otherwise) \/ Become(r, Fail(otherwise))
  <2> DEFINE p == [q EXCEPT !.pc = "cookie"]
  <2>1. /\ p.op = q.op /\ p.token = q.token /\ p.info = q.info
        /\ p.pc = "cookie" /\ p.status = 0
    BY <1>1 DEF Request
  <2>2. /\ Fail(p).op = q.op /\ Fail(p).token = q.token /\ Fail(p).info = q.info
        /\ Fail(p).pc = "cookie" /\ Fail(p).status = 0
    BY <1>1 DEF Fail, Request
  <2> HIDE DEF p
  <2>3. Moves(q, p) /\ Moves(q, Fail(p))
    BY <2>1, <2>2 DEF Moves, KeepsUser
  <2>4. Moves(q, Fail(Finish(q, 401)))
    <3> DEFINE f == Fail(Finish(q, 401))
    <3>1. /\ f.op = q.op /\ f.token = q.token /\ f.info = q.info
          /\ f.pc = "done" /\ f.status = 401
      BY <1>1 DEF Fail, Finish, Request
    <3> HIDE DEF f
    <3> QED
      BY <3>1 DEF Moves, KeepsUser, f
  <2>5. CASE otherwise = Finish(q, 401)
    BY <1>1, <1>2, <1>4, <2>4, <2>5, RefuseMoves
  <2>6. CASE otherwise = p
    BY <1>2, <1>4, <2>3, <2>6
  <2> QED
    BY <2>5, <2>6 DEF p
<1>5. CASE /\ i # None
           /\ sessions[i] # None
           /\ Become(r, [q EXCEPT !.pc = "validate", !.info = Deserialize(sessions[i])])
  <2> DEFINE p == [q EXCEPT !.pc = "validate", !.info = Deserialize(sessions[i])]
  <2>1. req'[r] = p
    BY <1>2, <1>5
  <2>2. /\ p.op = q.op
        /\ p.token = q.token
        /\ p.pc = "validate"
        /\ p.info = Deserialize(sessions[i])
        /\ p.status = 0
    BY <1>1 DEF Request
  <2> HIDE DEF p
  <2> QED
    BY <1>5, <2>1, <2>2 DEF Moves, SessionIsFound
<1> QED
  BY <1>3, <1>4, <1>5 DEF GetSession

LEMMA HandlerMoves ==
  ASSUME IInv, NEW r \in Slots, ValidateRepository(r) \/ CheckPermissions(r)
  PROVE  Moves(req[r], req'[r])
<1> DEFINE q == req[r]
<1>1. req \in [Slots -> Request] /\ q \in Request /\ q.status = 0
  BY RequestFacts, IInvByRequest DEF GoodRequest, ValidateRepository, CheckPermissions, At
<1>2. \A p : Become(r, p) => req'[r] = p
  BY <1>1 DEF Become
<1>3. CASE Become(r, Finish(q, 400)) \/ Become(r, Finish(q, 403))
  BY <1>1, <1>2, <1>3, RefuseMoves
<1>4. CASE Become(r, [q EXCEPT !.pc = "handle"])
  <2> DEFINE p == WithPc(q, "handle")
  <2>1. /\ p.op = q.op /\ p.token = q.token /\ p.info = q.info
        /\ p.pc = "handle" /\ p.status = 0
    BY <1>1, WithPcFields
  <2>2. req'[r] = p
    BY <1>2, <1>4 DEF WithPc
  <2> HIDE DEF p
  <2> QED
    BY <2>1, <2>2 DEF Moves, KeepsUser
<1>5. CASE Become(r, Finish(q, 200)) /\ Can(q.info.perms, q.op)
  <2> DEFINE p == Finish(q, 200)
  <2>1. /\ p.op = q.op /\ p.token = q.token /\ p.info = q.info /\ p.pc = "done"
    BY <1>1 DEF Finish, Request
  <2>2. req'[r] = p
    BY <1>2, <1>5
  <2> HIDE DEF p
  <2> QED
    BY <1>5, <2>1, <2>2 DEF Moves, KeepsUser
<1>6. ASSUME ValidateRepository(r) PROVE Moves(q, req'[r])
  BY <1>3, <1>4, <1>6 DEF ValidateRepository
<1>7. ASSUME CheckPermissions(r) PROVE Moves(q, req'[r])
  BY <1>3, <1>5, <1>7 DEF CheckPermissions
<1> QED
  BY <1>6, <1>7

(* Every step of a request is such a move and leaves the rest alone.       *)
LEMMA RequestMoves ==
  ASSUME IInv, NEW r \in Slots, AuthDispatcher(r) \/ Step(r)
  PROVE  /\ UNCHANGED env
         /\ Moves(req[r], req'[r])
         /\ \A s \in Slots : s # r => req'[s] = req[s]
<1>1. UNCHANGED env
  BY DEF AuthDispatcher, Step, VerifyIDToken, IsAllowed, BasicSession, CookieSession,
         ValidateRepository, CheckPermissions, Reply
<1>2. \E p : Become(r, p)
  BY DEF AuthDispatcher, Step, VerifyIDToken, IsAllowed, BasicSession, CookieSession,
         GetSession, ValidateRepository, CheckPermissions, Reply
<1>3. \A s \in Slots : s # r => req'[s] = req[s]
  BY <1>2, IInvByRequest DEF Become
<1> QED
  BY <1>1, <1>3, DispatcherMoves, TokenMoves, SessionMoves, HandlerMoves DEF Step

(* A step of the environment leaves the requests alone, but for steady.    *)
LEMMA EnvironmentKeepsRequests ==
  ASSUME IInv, Next \/ UNCHANGED vars, ~ \E r \in Slots : AuthDispatcher(r) \/ Step(r)
  PROVE  \A r \in Slots : /\ req'[r].pc = req[r].pc
                          /\ req'[r].info = req[r].info
                          /\ req'[r].op = req[r].op
                          /\ req'[r].token = req[r].token
                          /\ req'[r].status = req[r].status
<1>1. CASE UNCHANGED req
  BY <1>1
<1>2. ASSUME NEW i \in SessionIDs, ExpireSession(i), NEW r \in Slots
      PROVE  /\ req'[r].pc = req[r].pc
             /\ req'[r].info = req[r].info
             /\ req'[r].op = req[r].op
             /\ req'[r].token = req[r].token
             /\ req'[r].status = req[r].status
  <2>1. req'[r] = [req[r] EXCEPT !.steady = @ /\ req[r].cookie # i]
    BY <1>2 DEF ExpireSession
  <2> QED
    BY <2>1, RequestFacts DEF Request
<1>3. \/ UNCHANGED req
      \/ \E i \in SessionIDs : ExpireSession(i)
  BY DEF Next, vars, ChangeAccess, Login, RotateKeys, ChangeAllowlist, DropCopies, Counted
<1> QED
  BY <1>1, <1>2, <1>3

(* No session of u for k holds the permission for op, and no request with  *)
(* one passes.                                                             *)
LockedOut(u, k, op) ==
  /\ \A i \in SessionIDs :
       sessions[i] # None /\ sessions[i].user = u /\ sessions[i].repo = k
         => ~ Can(sessions[i].perms, op)
  /\ \A r \in Slots :
       req[r].info.by = "session" /\ req[r].info.user = u /\ req[r].info.repo = k
         => /\ ~ Can(req[r].info.perms, op)
            /\ req[r].op = op => req[r].status # 200

(* What a step does to the sessions: they expire, or hold what GitHub      *)
(* gives the user now.                                                     *)
LEMMA SessionsStep ==
  ASSUME IInv, [Next]_vars, NEW i \in SessionIDs
  PROVE  \/ sessions'[i] \in {sessions[i], None}
         \/ \E u \in Users, k \in Repos :
              /\ sessions'[i] = [user |-> u, repo |-> k, perms |-> access[u][k]]
              /\ UNCHANGED access
<1>1. EnvTypeOK
  BY IInvByRequest
<1>2. ASSUME NEW u \in Users, NEW k \in Repos, Login(u, k)
      PROVE  sessions'[i] \in {sessions[i], [user |-> u, repo |-> k, perms |-> access[u][k]]}
  <2>0. access[u][k] \subseteq Flags
    BY <1>1, PermsAssumption DEF EnvTypeOK
  <2>1. {f \in Flags : [h \in Flags |-> h \in access[u][k]][f]} = access[u][k]
    BY <2>0
  <2>2. Serialize(u, k, [f \in Flags |-> f \in access[u][k]])
          = [user |-> u, repo |-> k, perms |-> access[u][k]]
    BY <2>1 DEF Serialize
  <2>3. PICK j \in SessionIDs :
          sessions' = [sessions EXCEPT ![j] =
                        [user |-> u, repo |-> k, perms |-> access[u][k]]]
    BY <1>1, <1>2, <2>2, NewIdentifier DEF Login, EnvTypeOK
  <2> QED
    BY <1>1, <2>3 DEF EnvTypeOK
<1>3. ASSUME NEW j \in SessionIDs, ExpireSession(j)
      PROVE  sessions'[i] \in {sessions[i], None}
  BY <1>1, <1>3 DEF ExpireSession, EnvTypeOK
<1>4. \/ UNCHANGED sessions
      \/ \E u \in Users, k \in Repos : Login(u, k)
      \/ \E j \in SessionIDs : ExpireSession(j)
  BY RequestMoves DEF Next, vars, env, ChangeAccess, RotateKeys, ChangeAllowlist,
                      DropCopies, Counted
<1>5. \A u \in Users, k \in Repos : Login(u, k) => UNCHANGED access
  BY DEF Login
<1> QED
  BY <1>2, <1>3, <1>4, <1>5

LEMMA LockedOutStep ==
  ASSUME IInv, [Next]_vars, NEW u \in Users, NEW k \in Repos,
         NEW op \in {"upload", "download"},
         LockedOut(u, k, op), ~ Can(access'[u][k], op)
  PROVE  LockedOut(u, k, op)'
<1>1. ASSUME NEW i \in SessionIDs, sessions'[i] # None,
             sessions'[i].user = u, sessions'[i].repo = k
      PROVE  ~ Can(sessions'[i].perms, op)
  <2>1. CASE sessions'[i] = sessions[i]
    BY <1>1, <2>1 DEF LockedOut
  <2>2. ASSUME NEW v \in Users, NEW j \in Repos, UNCHANGED access,
               sessions'[i] = [user |-> v, repo |-> j, perms |-> access[v][j]]
        PROVE  ~ Can(sessions'[i].perms, op)
    <3>1. v = u /\ j = k /\ sessions'[i].perms = access'[u][k]
      BY <1>1, <2>2
    <3> QED
      BY <3>1
  <2> QED
    BY <1>1, <2>1, <2>2, SessionsStep
<1>2. ASSUME NEW r \in Slots, req'[r].info.by = "session",
             req'[r].info.user = u, req'[r].info.repo = k
      PROVE  /\ ~ Can(req'[r].info.perms, op)
             /\ req'[r].op = op => req'[r].status # 200
  <2>1. CASE /\ req'[r].info = req[r].info
             /\ req'[r].op = req[r].op
             /\ req'[r].status = req[r].status
    BY <1>2, <2>1 DEF LockedOut
  <2>2. CASE Moves(req[r], req'[r])
    <3> DEFINE q == req[r]
               p == req'[r]
    <3>1. p.info # NoUser
      BY <1>2, NoneAssumption, PathsAssumption DEF NoUser
    <3>2. CASE KeepsUser(q, p) /\ p.op = q.op
      BY <1>2, <3>2 DEF KeepsUser, LockedOut
    <3>3. CASE TokenIsVerified(q, p)
      BY <1>2, <3>3 DEF TokenIsVerified, LockedOut
    <3>4. CASE TokenIsAllowed(q, p)
      BY <1>2, <3>4 DEF TokenIsAllowed, ToUserInfo
    <3>5. CASE SessionIsFound(q, p)
      BY <1>2, <3>5 DEF SessionIsFound, Deserialize, LockedOut
    <3> QED
      BY <2>2, <3>1, <3>2, <3>3, <3>4, <3>5 DEF Moves
  <2>3. CASE UNCHANGED req[r]
    BY <2>1, <2>3
  <2> QED
    BY <2>1, <2>2, <2>3, RequestMoves, EnvironmentKeepsRequests
<1> QED
  BY <1>1, <1>2 DEF LockedOut

(* Access that GitHub has withdrawn stays withdrawn: once no session of    *)
(* the user for the repository holds the permission, and as long as GitHub *)
(* does not give it again, no request of a session of his passes with it,  *)
(* whatever else he may still do and however he logs in again.             *)
THEOREM WithdrawnAccessStays ==
  ASSUME NEW u \in Users, NEW k \in Repos, NEW op \in {"upload", "download"}
  PROVE  Spec => [](LockedOut(u, k, op) /\ [](~ Can(access[u][k], op))
                      => []LockedOut(u, k, op))
<1>1. IInv /\ [Next]_vars /\ LockedOut(u, k, op) /\ (~ Can(access[u][k], op))'
      => LockedOut(u, k, op)'
  <2> SUFFICES ASSUME IInv, [Next]_vars, LockedOut(u, k, op), (~ Can(access[u][k], op))'
               PROVE  LockedOut(u, k, op)'
    OBVIOUS
  <2>1. ~ Can(access'[u][k], op)
    BY DEF Can, CanUpload, CanDownload
  <2> QED
    BY <2>1, LockedOutStep
<1> QED
  BY <1>1, AuthInvariance, PTL DEF Spec

(* Nothing says of k that it is on the allowlist, and no request with a    *)
(* token of it has been let in.                                            *)
Delisted(k) ==
  /\ TRUE \notin answers[k]
  /\ \A r \in Slots : req[r].info.by = "token" => req[r].info.repo # k

(* The answers take a value only from the allowlist, the key sets only     *)
(* what is published.                                                      *)
LEMMA CopiesStep ==
  ASSUME IInv, [Next]_vars
  PROVE  /\ \A k \in Repos : answers'[k] \subseteq answers[k] \union {allowed'[k]}
         /\ keySets'["github"] \subseteq keySets["github"] \union {published'["github"]}
<1>1. EnvTypeOK
  BY IInvByRequest
<1>2. CASE RotateKeys
  <2>1. UNCHANGED <<allowed, answers>>
    BY <1>2 DEF RotateKeys
  <2>2. PICK v, h :
          /\ h \subseteq keySets["github"] \union {v}
          /\ published' = [published EXCEPT !["github"] = v]
          /\ keySets' = [keySets EXCEPT !["github"] = h]
    BY <1>2 DEF RotateKeys, KeyCopies!Change
  <2>3. published'["github"] = v /\ keySets'["github"] = h
    BY <1>1, <2>2 DEF EnvTypeOK
  <2> QED
    BY <2>1, <2>2, <2>3
<1>3. ASSUME NEW j \in Repos, ChangeAllowlist(j)
      PROVE  /\ \A k \in Repos : answers'[k] \subseteq answers[k] \union {allowed'[k]}
             /\ UNCHANGED keySets
  <2>1. PICK v, h :
          /\ h \subseteq answers[j] \union {v}
          /\ allowed' = [allowed EXCEPT ![j] = v]
          /\ answers' = [answers EXCEPT ![j] = h]
    BY <1>3 DEF ChangeAllowlist, ListCopies!Change
  <2>2. /\ allowed'[j] = v
        /\ \A k \in Repos : answers'[k] = IF k = j THEN h ELSE answers[k]
    BY <1>1, <2>1 DEF EnvTypeOK
  <2> QED
    BY <1>3, <2>1, <2>2 DEF ChangeAllowlist
<1>4. CASE DropCopies
  BY <1>4 DEF DropCopies, KeyCopies!Forget, ListCopies!Forget
<1>5. \/ UNCHANGED <<answers, keySets>>
      \/ RotateKeys
      \/ \E j \in Repos : ChangeAllowlist(j)
      \/ DropCopies
  BY RequestMoves DEF Next, vars, env, ChangeAccess, Login, ExpireSession
<1> QED
  BY <1>2, <1>3, <1>4, <1>5

LEMMA DelistedStep ==
  ASSUME IInv, [Next]_vars, NEW k \in Repos, Delisted(k), ~ allowed'[k]
  PROVE  Delisted(k)'
<1>1. TRUE \notin answers'[k]
  BY CopiesStep DEF Delisted
<1>2. ASSUME NEW r \in Slots, req'[r].info.by = "token"
      PROVE  req'[r].info.repo # k
  <2>1. CASE req'[r].info = req[r].info
    BY <1>2, <2>1 DEF Delisted
  <2>2. CASE Moves(req[r], req'[r])
    <3> DEFINE q == req[r]
               p == req'[r]
    <3>1. p.info # NoUser
      BY <1>2 DEF NoUser
    <3>2. CASE TokenIsAllowed(q, p)
      <4>1. p.info.repo = p.token.repo
        BY <3>2 DEF TokenIsAllowed, ToUserInfo
      <4>2. TRUE \in answers[p.info.repo]
        BY <3>2, <4>1, Zenon DEF TokenIsAllowed
      <4> QED
        BY <4>2 DEF Delisted
    <3>3. CASE SessionIsFound(q, p)
      BY <1>2, <3>3 DEF SessionIsFound, Deserialize
    <3> QED
      BY <2>1, <2>2, <3>1, <3>2, <3>3 DEF Moves, KeepsUser, TokenIsVerified
  <2> QED
    BY <2>1, <2>2, RequestMoves, EnvironmentKeepsRequests
<1> QED
  BY <1>1, <1>2 DEF Delisted

(* A repository stays off the allowlist: once no answer of IsAllowed can   *)
(* say that it is on it, and as long as it is not added again, no workflow *)
(* of the repository is let in, whatever tokens it has.                    *)
THEOREM DelistedStaysOut ==
  ASSUME NEW k \in Repos
  PROVE  Spec => [](Delisted(k) /\ [](~ allowed[k]) => []Delisted(k))
<1>1. IInv /\ [Next]_vars /\ Delisted(k) /\ (~ allowed[k])' => Delisted(k)'
  BY DelistedStep
<1> QED
  BY <1>1, AuthInvariance, PTL DEF Spec

(* No key set a lookup may use holds the key, and no request with a token  *)
(* under it has been verified.                                             *)
Revoked(kid) ==
  /\ \A s \in keySets["github"] : kid \notin s
  /\ \A r \in Slots :
       req[r].pc = "isAllowed" \/ req[r].info.by = "token" => req[r].token.kid # kid

LEMMA RevokedStep ==
  ASSUME IInv, [Next]_vars, NEW kid \in Kids, Revoked(kid), kid \notin published'["github"]
  PROVE  Revoked(kid)'
<1>1. \A s \in keySets'["github"] : kid \notin s
  BY CopiesStep DEF Revoked
<1>2. ASSUME NEW r \in Slots, req'[r].pc = "isAllowed" \/ req'[r].info.by = "token"
      PROVE  req'[r].token.kid # kid
  <2>1. CASE /\ req'[r].info = req[r].info
             /\ req'[r].token = req[r].token
             /\ req'[r].pc = req[r].pc \/ req'[r].pc # "isAllowed"
    BY <1>2, <2>1 DEF Revoked
  <2>2. CASE Moves(req[r], req'[r])
    <3> DEFINE q == req[r]
               p == req'[r]
    <3>1. CASE p.info = NoUser /\ p.pc # "isAllowed"
      BY <1>2, <3>1 DEF NoUser
    <3>2. CASE KeepsUser(q, p) /\ p.token = q.token
      BY <2>1, <3>2 DEF KeepsUser
    <3>3. CASE TokenIsVerified(q, p)
      BY <3>3 DEF TokenIsVerified, Revoked
    <3>4. CASE TokenIsAllowed(q, p) /\ p.token = q.token
      BY <3>4 DEF TokenIsAllowed, Revoked
    <3>5. CASE SessionIsFound(q, p)
      BY <1>2, <3>5 DEF SessionIsFound, Deserialize
    <3> QED
      BY <2>2, <3>1, <3>2, <3>3, <3>4, <3>5 DEF Moves
  <2> QED
    BY <2>1, <2>2, RequestMoves, EnvironmentKeepsRequests
<1> QED
  BY <1>1, <1>2 DEF Revoked

(* A withdrawn key stays refused: once no key set in use holds it, and as  *)
(* long as GitHub does not publish it again, no token signed with it gets  *)
(* past the verification.                                                  *)
THEOREM RevokedKeysStayOut ==
  ASSUME NEW kid \in Kids
  PROVE  Spec => [](Revoked(kid) /\ [](kid \notin published["github"]) => []Revoked(kid))
<1>1. IInv /\ [Next]_vars /\ Revoked(kid) /\ (kid \notin published["github"])'
      => Revoked(kid)'
  BY RevokedStep
<1> QED
  BY <1>1, AuthInvariance, PTL DEF Spec
=============================================================================
