--------------------------- MODULE Authentication ---------------------------
(***************************************************************************)
(* How a request to /:owner/:repo/info/lfs is authenticated                *)
(* (AuthDispatcher): a Bearer token of a GitHub Actions workflow, or a     *)
(* session in the Basic credentials or in the cookie.  The module composes *)
(* what it takes: the key sets and the allowlist, each by the promise of   *)
(* LaggingCopies that JwksFetcher and RepositoryAllowlist implement, the   *)
(* session store, and GitHub, where a user's access to a repository        *)
(* changes after the login.                                                *)
(*                                                                         *)
(* A request only reads this state; what concurrent requests do to the     *)
(* caches is in the steps of LaggingCopies.                                *)
(***************************************************************************)
EXTENDS Naturals

CONSTANTS
  Slots,        \* the requests that can be in flight at the same time
  Users,        \* GitHub users
  Repos,        \* repositories as they are written (owner/name)
  Paths,        \* what URLs name: Repos, and repositories nobody has
  Fold,         \* path -> its name without regard to case
  Kids,         \* keys GitHub signs tokens with
  SessionIDs,   \* supply of session identifiers
  Perms,        \* the permission sets GitHub may answer with
  OidcSettings, \* the values of OIDC_GITHUB_ENABLED of the replicas
  Faults,       \* the dependencies that may fail
  MaxChanges,   \* bound: how often GitHub and the administrator change things
  None          \* nothing stored, no credential

(* RepositoryPermissions, as the set of its true fields.                   *)
Flags == {"admin", "push", "pull", "maintain", "triage"}

ASSUME PathsAssumption == Repos \subseteq Paths /\ Fold \in [Paths -> Paths]

EqualsFold(k, l) == Fold[k] = Fold[l]

ASSUME PermsAssumption == Perms \subseteq SUBSET Flags

ASSUME ConfigAssumption == OidcSettings \subseteq BOOLEAN /\ MaxChanges \in Nat

ASSUME FaultsAssumption == Faults \subseteq {"redis", "postgres", "github"}

VARIABLES
  access,      \* GitHub: user -> repository -> permissions
  sessions,    \* Redis: session identifier -> UserInfo of the login
  issued,      \* history: the session identifiers in use so far
  published,   \* GitHub: provider -> the key set of the JWKS endpoint
  keySets,     \* provider -> the key sets a lookup may still use
  allowed,     \* PostgreSQL: repository -> it is on the allowlist
  answers,     \* repository -> the answers IsAllowed may still give
  req,         \* slot -> the request it serves
  changes,     \* how often GitHub and the administrator have changed things
  entitled     \* history: what has ever been granted, listed and published

env == <<access, sessions, issued, published, keySets, allowed, answers,
         changes, entitled>>

vars == <<access, sessions, issued, published, keySets, allowed, answers,
          req, changes, entitled>>

(* sound: signed by its key, with RSA, a kid, GitHub as issuer, the        *)
(* server's audience, the claims sub, repository, ref and actor, and not   *)
(* past its exp claim when it is verified.                                 *)
Tokens == [kid : Kids, repo : Repos, sound : BOOLEAN]

Session == [user : Users, repo : Repos, perms : SUBSET Flags]

Grants == Session

ASSUME NoneAssumption ==
  None \notin Paths /\ None \notin SessionIDs /\ None \notin Tokens /\ None \notin Session

KeyCopies == INSTANCE LaggingCopies WITH
  Readers <- {}, Keys <- {"github"}, Values <- SUBSET Kids,
  source <- published, held <- keySets, answer <- <<>>

ListCopies == INSTANCE LaggingCopies WITH
  Readers <- {}, Keys <- Repos, Values <- BOOLEAN,
  source <- allowed, held <- answers, answer <- <<>>

(* UserInfo of an authenticated request: by whom, for which repository,    *)
(* with which permissions.                                                 *)
UserInfo == [by : {"session", "token"}, repo : Repos, perms : SUBSET Flags,
             user : Users \union {None}]

NoUser == [by |-> "session", repo |-> None, perms |-> {}, user |-> None]

(* failed and steady are history: a call made for the request has failed;  *)
(* the session of the cookie has existed since the request arrived.        *)
Request == [pc : {"idle", "verify", "isAllowed", "basic", "cookie", "validate",
                  "handle", "done"},
            url : Paths \union {None}, header : {"none", "Bearer", "Basic"},
            token : Tokens \union {None}, basic : SessionIDs \union {None},
            cookie : SessionIDs \union {None}, op : {"upload", "download"},
            info : UserInfo \union {NoUser},
            status : {0, 200, 400, 401, 403, 500},
            failed : BOOLEAN, steady : BOOLEAN]

Idle == [pc |-> "idle", url |-> None, header |-> "none", token |-> None,
         basic |-> None, cookie |-> None, op |-> "download", info |-> NoUser,
         status |-> 0, failed |-> FALSE, steady |-> FALSE]

(* To GitHub two spellings are one repository.                             *)
Init ==
  /\ access \in [Users -> [Repos -> Perms]]
  /\ \A u \in Users, k, l \in Repos : EqualsFold(k, l) => access[u][k] = access[u][l]
  /\ sessions = [i \in SessionIDs |-> None]
  /\ issued = {}
  /\ KeyCopies!LagInit
  /\ ListCopies!LagInit
  /\ req = [r \in Slots |-> Idle]
  /\ changes = 0
  /\ entitled = [grants |-> {g \in Grants : access[g.user][g.repo] = g.perms},
                 listed |-> {k \in Repos : allowed[k]},
                 trusted |-> published["github"]]

At(r, step) == req[r].pc = step

Become(r, q) == req' = [req EXCEPT ![r] = q]

Finish(q, status) == [q EXCEPT !.pc = "done", !.status = status]

Fail(q) == [q EXCEPT !.failed = TRUE]

CanUpload(p) == p \intersect {"push", "admin", "maintain"} # {}

CanDownload(p) == p # {}

Can(p, op) == IF op = "upload" THEN CanUpload(p) ELSE CanDownload(p)

(* A replica without GitHub OIDC: the provider is a nil pointer in an      *)
(* interface that is not nil, which passes the nil check of                *)
(* NewAuthUseCase.  The use case is made all the same, and its first call  *)
(* of the provider panics.                                                 *)
ProviderPanics == FALSE \in OidcSettings

(* The UserInfo of a workflow, with every permission.                      *)
ToUserInfo(token) ==
  [by |-> "token", repo |-> token.repo, perms |-> Flags, user |-> None]

-----------------------------------------------------------------------------
(* AuthDispatcher *)

NewRequest(step, url, op, cookie, header, token, basic) ==
  [pc |-> step, url |-> url, header |-> header, token |-> token,
   basic |-> basic, cookie |-> cookie, op |-> op, info |-> NoUser,
   status |-> 0, failed |-> FALSE,
   steady |-> cookie # None /\ sessions[cookie] # None]

(* A request arrives with any combination of credentials: a Bearer token,  *)
(* with which nothing else is looked at, or Basic credentials              *)
(* x-session:<id>, or neither, with or without a cookie.  Its path may be  *)
(* no repository.                                                          *)
AuthDispatcher(r) ==
  /\ At(r, "idle")
  /\ \E url \in Paths \union {None}, op \in {"upload", "download"} :
       \/ \E t \in Tokens :
            Become(r, NewRequest("verify", url, op, None, "Bearer", t, None))
       \/ \E i, c \in issued \union {None} :
            Become(r, NewRequest("basic", url, op, c, "Basic", None, i))
       \/ \E c \in issued \union {None} :
            Become(r, NewRequest("cookie", url, op, c, "none", None, None))
  /\ UNCHANGED env

(* AuthenticateGitHubOIDC calls VerifyIDToken.  The key is looked up in a  *)
(* cached key set or, if it is not there, in the published one.  After a   *)
(* panic the Recover middleware answers.                                   *)
VerifyIDToken(r) ==
  LET q == req[r]
  IN  /\ At(r, "verify")
      /\ \/ /\ ProviderPanics
            /\ Become(r, Finish(q, 500))
         \/ /\ TRUE \in OidcSettings
            /\ q.token.sound
            /\ \E s \in keySets["github"] : q.token.kid \in s
            /\ Become(r, [q EXCEPT !.pc = "isAllowed"])
         \/ /\ TRUE \in OidcSettings
            /\ ~ q.token.sound \/ q.token.kid \notin published["github"]
            /\ Become(r, Finish(q, 401))
         \/ /\ TRUE \in OidcSettings
            /\ "github" \in Faults
            /\ Become(r, Finish(Fail(q), 401))
      /\ UNCHANGED env

(* Mutant of IsAllowed: the allowlist is asked without regard to case.     *)
IsAllowedFolded(r) ==
  LET q == req[r]
  IN  /\ At(r, "isAllowed")
      /\ \/ /\ TRUE \in answers[Fold[q.token.repo]]
            /\ Become(r, [q EXCEPT !.pc = "validate", !.info = ToUserInfo(q.token)])
         \/ /\ FALSE \in answers[Fold[q.token.repo]]
            /\ Become(r, Finish(q, 401))
      /\ UNCHANGED env

(* The allowlist is asked for the repository of the token, as it is        *)
(* written there; a workflow of an allowed one has every permission.       *)
IsAllowed(r) ==
  LET q == req[r]
  IN  /\ At(r, "isAllowed")
      /\ \/ /\ TRUE \in answers[q.token.repo]
            /\ Become(r, [q EXCEPT !.pc = "validate", !.info = ToUserInfo(q.token)])
         \/ /\ FALSE \in answers[q.token.repo]
            /\ Become(r, Finish(q, 401))
         \/ /\ "postgres" \in Faults
            /\ Become(r, Finish(Fail(q), 401))
      /\ UNCHANGED env

(* A session is stored as JSON.  A permission that is false is left out of *)
(* it, so that no permissions and five false ones read the same: as none,  *)
(* which checkPermissions refuses.                                         *)
Serialize(u, k, flags) ==
  [user |-> u, repo |-> k, perms |-> {f \in Flags : flags[f]}]

Deserialize(dto) ==
  [by |-> "session", repo |-> dto.repo, perms |-> dto.perms, user |-> dto.user]

(* GetSession, for the session i: the UserInfo stored at the login;        *)
(* without one the request goes on otherwise.                              *)
GetSession(r, i, otherwise) ==
  LET q == req[r]
  IN  \/ /\ i # None
         /\ sessions[i] # None
         /\ Become(r, [q EXCEPT !.pc = "validate",
                                !.info = Deserialize(sessions[i])])
      \/ /\ i = None \/ (i # None /\ sessions[i] = None)
         /\ Become(r, otherwise)
      \/ /\ "redis" \in Faults
         /\ i # None
         /\ Become(r, Fail(otherwise))

(* Mutant of BasicSession: Basic credentials that name a session which is  *)
(* gone are the end of the request.                                        *)
BasicOnly(r) ==
  /\ At(r, "basic")
  /\ GetSession(r, req[r].basic,
                IF req[r].basic = None THEN [req[r] EXCEPT !.pc = "cookie"]
                ELSE Finish(req[r], 401))
  /\ UNCHANGED env

(* The session of the Basic credentials; without one the cookie is next.   *)
BasicSession(r) ==
  /\ At(r, "basic")
  /\ GetSession(r, req[r].basic, [req[r] EXCEPT !.pc = "cookie"])
  /\ UNCHANGED env

CookieSession(r) ==
  /\ At(r, "cookie")
  /\ GetSession(r, req[r].cookie, Finish(req[r], 401))
  /\ UNCHANGED env

(* validateRepository: the repository of the URL against the one of the    *)
(* UserInfo, without regard to case.                                       *)
ValidateRepository(r) ==
  LET q == req[r]
  IN  /\ At(r, "validate")
      /\ \/ /\ q.url = None
            /\ Become(r, Finish(q, 400))
         \/ /\ q.url # None
            /\ Become(r, IF EqualsFold(q.url, q.info.repo)
                         THEN [q EXCEPT !.pc = "handle"] ELSE Finish(q, 403))
      /\ UNCHANGED env

(* Mutant of CheckPermissions: a repository the user may not use does not  *)
(* exist for him.                                                          *)
CheckPermissionsHiding(r) ==
  LET q == req[r]
  IN  /\ At(r, "handle")
      /\ Become(r, Finish(q, IF Can(q.info.perms, q.op) THEN 200 ELSE 404))
      /\ UNCHANGED env

(* checkPermissions of the batch handler.                                  *)
CheckPermissions(r) ==
  LET q == req[r]
  IN  /\ At(r, "handle")
      /\ Become(r, Finish(q, IF Can(q.info.perms, q.op) THEN 200 ELSE 403))
      /\ UNCHANGED env

Reply(r) ==
  /\ At(r, "done")
  /\ Become(r, Idle)
  /\ UNCHANGED env

-----------------------------------------------------------------------------
(* GitHub, the administrator, the login and time *)

(* A change to what requests are entitled to, counted.                     *)
Counted ==
  /\ changes < MaxChanges
  /\ changes' = changes + 1
  /\ UNCHANGED <<sessions, issued, req>>

ChangeAccess(u, k) ==
  LET spellings == {l \in Repos : EqualsFold(l, k)}
  IN  /\ Counted
      /\ \E p \in Perms :
           /\ access' = [access EXCEPT ![u] =
                           [l \in Repos |-> IF l \in spellings THEN p ELSE @[l]]]
           /\ entitled' = [entitled EXCEPT !.grants =
                             @ \union [user : {u}, repo : spellings, perms : {p}]]
      /\ UNCHANGED <<published, keySets, allowed, answers>>

(* The JWKS endpoint serves another key set.                               *)
RotateKeys ==
  /\ Counted
  /\ KeyCopies!Change("github")
  /\ entitled' = [entitled EXCEPT !.trusted = @ \union published'["github"]]
  /\ UNCHANGED <<access, allowed, answers>>

ChangeAllowlist(k) ==
  /\ Counted
  /\ ListCopies!Change(k)
  /\ entitled' = [entitled EXCEPT !.listed = @ \union {x \in {k} : allowed'[x]}]
  /\ UNCHANGED <<access, published, keySets>>

(* The caches drop some of what is no longer current.                      *)
DropCopies ==
  /\ \/ KeyCopies!Forget /\ UNCHANGED <<allowed, answers>>
     \/ ListCopies!Forget /\ UNCHANGED <<published, keySets>>
  /\ UNCHANGED <<access, sessions, issued, req, changes, entitled>>

(* A login as OAuthLogin describes it: a session for a repository the user *)
(* may download from, with the permissions GitHub gives at that time.      *)
(* Which of the unused identifiers it gets makes no difference.            *)
Login(u, k) ==
  LET i == CHOOSE j \in SessionIDs \ issued : TRUE
  IN  /\ CanDownload(access[u][k])
      /\ SessionIDs # issued
      /\ issued' = issued \union {i}
      /\ sessions' = [sessions EXCEPT ![i] =
                        Serialize(u, k, [f \in Flags |-> f \in access[u][k]])]
      /\ UNCHANGED <<access, published, keySets, allowed, answers, req,
                     changes, entitled>>

(* Mutant of ExpireSession: sessions are set without a TTL.                *)
ExpireNever(i) == i \notin SessionIDs /\ UNCHANGED vars

(* A session reaches its TTL of 24 hours.                                  *)
ExpireSession(i) ==
  /\ sessions[i] # None
  /\ sessions' = [sessions EXCEPT ![i] = None]
  /\ req' = [r \in Slots |-> [req[r] EXCEPT !.steady = @ /\ req[r].cookie # i]]
  /\ UNCHANGED <<access, issued, published, keySets, allowed, answers,
                 changes, entitled>>

Step(r) ==
  \/ VerifyIDToken(r)
  \/ IsAllowed(r)
  \/ BasicSession(r)
  \/ CookieSession(r)
  \/ ValidateRepository(r)
  \/ CheckPermissions(r)
  \/ Reply(r)

Next ==
  \/ \E r \in Slots : AuthDispatcher(r) \/ Step(r)
  \/ \E u \in Users, k \in Repos : ChangeAccess(u, k) \/ Login(u, k)
  \/ RotateKeys
  \/ \E k \in Repos : ChangeAllowlist(k)
  \/ DropCopies
  \/ \E i \in SessionIDs : ExpireSession(i)

Spec == Init /\ [][Next]_vars

(* Requests go on, Redis enforces the TTL of sessions, and the caches drop *)
(* what is stale (StalenessEnds and RotationSettles of the components).    *)
SettleCopies ==
  /\ \/ KeyCopies!Settle("github") /\ UNCHANGED <<allowed, answers>>
     \/ /\ \E k \in Repos : ListCopies!Settle(k)
        /\ UNCHANGED <<published, keySets>>
  /\ UNCHANGED <<access, sessions, issued, req, changes, entitled>>

Fairness ==
  /\ \A r \in Slots : WF_vars(Step(r))
  /\ \A i \in SessionIDs : WF_vars(ExpireSession(i))
  /\ WF_vars(SettleCopies)

FairSpec == Spec /\ Fairness

-----------------------------------------------------------------------------
(* Properties *)

(* Type invariant.                                                         *)
TypeOK ==
  /\ access \in [Users -> [Repos -> Perms]]
  /\ sessions \in [SessionIDs -> Session \union {None}]
  /\ issued \subseteq SessionIDs
  /\ published \in [{"github"} -> SUBSET Kids]
  /\ keySets \in [{"github"} -> SUBSET SUBSET Kids]
  /\ allowed \in [Repos -> BOOLEAN]
  /\ answers \in [Repos -> SUBSET BOOLEAN]
  /\ req \in [Slots -> Request]
  /\ changes \in Nat
  /\ entitled \in [grants : SUBSET Grants, listed : SUBSET Repos,
                   trusted : SUBSET Kids]

(* The request r has passed, on the ground of what g, l and t contain.     *)
Justified(q, g, l, t) ==
  /\ EqualsFold(q.url, q.info.repo)
  /\ \/ /\ q.info.by = "token"
        /\ q.header = "Bearer"
        /\ q.token.sound
        /\ q.token.repo = q.info.repo
        /\ q.token.repo \in l
        /\ q.token.kid \in t
     \/ /\ q.info.by = "session"
        /\ q.header # "Bearer"
        /\ \E x \in g : /\ x.user = q.info.user
                        /\ x.repo = q.info.repo
                        /\ Can(x.perms, q.op)

(* A request that passes was entitled to: a workflow's by a sound token of *)
(* that repository, once on the allowlist, under a key once published; a   *)
(* user's by a permission GitHub gave for that repository.  However old    *)
(* the cached keys, answers and sessions, nothing passes that never was.   *)
PassedWasEntitled ==
  \A r \in Slots :
    req[r].status = 200 =>
      Justified(req[r], entitled.grants, entitled.listed, entitled.trusted)

(* A cookie backs up Basic credentials: a request without a Bearer token   *)
(* whose cookie names a session that exists all the time is not turned     *)
(* away as unauthenticated, however stale the Basic credentials are, if    *)
(* Redis answers.                                                          *)
CookieBacksUpBasic ==
  \A r \in Slots :
    /\ req[r].status = 401
    /\ req[r].header # "Bearer"
    /\ req[r].steady
    => req[r].failed

(* Withdrawing takes effect: once GitHub and the administrator no longer   *)
(* change anything, a request comes to pass only on what is granted,       *)
(* listed and published now, although sessions keep the permissions of the *)
(* login and the caches earlier answers: the TTLs end them.                *)
WithdrawalTakesEffect ==
  <>[](\A r \in Slots :
         req[r].status = 200 =>
           Justified(req[r],
                     {g \in Grants : access[g.user][g.repo] = g.perms},
                     {k \in Repos : allowed[k]}, published["github"]))

-----------------------------------------------------------------------------
(* Inductive invariant *)

(* What sessions and copies hold was granted, listed or published once.    *)
StateIsEntitled ==
  /\ \A u \in Users, k \in Repos :
       [user |-> u, repo |-> k, perms |-> access[u][k]] \in entitled.grants
  /\ \A i \in SessionIDs : sessions[i] # None => sessions[i] \in entitled.grants
  /\ \A s \in keySets["github"] \union {published["github"]} : s \subseteq entitled.trusted
  /\ \A k \in Repos : TRUE \in answers[k] \union {allowed[k]} => k \in entitled.listed

(* The token of the request has been verified.                             *)
TokenVerified(q) ==
  /\ q.header = "Bearer"
  /\ q.token \in Tokens
  /\ q.token.sound
  /\ q.token.kid \in entitled.trusted

(* The UserInfo of the request comes from an allowed token or a session.   *)
InfoIsEntitled(q) ==
  \/ /\ q.info.by = "token"
     /\ TokenVerified(q)
     /\ q.info.repo = q.token.repo
     /\ q.token.repo \in entitled.listed
  \/ /\ q.info.by = "session"
     /\ q.header # "Bearer"
     /\ [user |-> q.info.user, repo |-> q.info.repo, perms |-> q.info.perms]
          \in entitled.grants

(* What the step of a request says about it.                               *)
RequestSane(q) ==
  /\ q.pc = "verify" => q.header = "Bearer" /\ q.token \in Tokens
  /\ q.pc = "isAllowed" => TokenVerified(q)
  /\ q.pc \in {"basic", "cookie"} => q.header # "Bearer"
  /\ q.pc \in {"validate", "handle"} => InfoIsEntitled(q) /\ q.info.repo \in Repos
  /\ q.pc = "handle" => q.url \in Paths /\ EqualsFold(q.url, q.info.repo)
  /\ q.pc # "done" => q.status = 0
  /\ q.steady => q.cookie \in SessionIDs /\ sessions[q.cookie] # None

IInv ==
  /\ TypeOK
  /\ StateIsEntitled
  /\ \A r \in Slots : RequestSane(req[r])
  /\ PassedWasEntitled
  /\ CookieBacksUpBasic
=============================================================================
