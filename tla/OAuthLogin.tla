----------------------------- MODULE OAuthLogin -----------------------------
(***************************************************************************)
(* The GitHub OAuth login of cargohold: GET /auth/github/login starts a    *)
(* login under a fresh state parameter, GitHub sends the browser back to   *)
(* GET /auth/github/callback with a code and the state, and the callback   *)
(* turns them into a session for one repository.                           *)
(*                                                                         *)
(* The requests of one server process run concurrently.  They share the    *)
(* state and the session store (Redis) and, in memory, the redirect URI of *)
(* the token exchanger: every request sets it and reads it back in a later *)
(* step, without a lock.  A Go string is two words, written one after the  *)
(* other, so that a request may also read a mixture of two URIs.           *)
(*                                                                         *)
(* GitHub and the browsers are modelled by how the code uses them: a code  *)
(* is good for one exchange, with the redirect URI it was issued for.      *)
(***************************************************************************)
EXTENDS Integers

CONSTANTS
  Slots,        \* the requests that can be in flight at the same time
  Users,        \* GitHub users
  Repos,        \* repository identifiers (owner/name)
  URIs,         \* callback URIs of the hosts the server is reached at
  AllowedURIs,  \* AllowedRedirectURIs of the configuration
  States,       \* supply of state parameters (UUIDs)
  SessionIDs,   \* supply of session identifiers (UUIDs)
  Access,       \* what GitHub lets a user do with a repository
  Faults,       \* the dependencies that may fail
  None          \* nothing stored, the empty string

ASSUME URIsAssumption == AllowedURIs \subseteq URIs /\ None \notin URIs

(* What is left of RepositoryPermissions: CanDownload and CanUpload.       *)
Levels == {"none", "read", "write"}

ASSUME AccessAssumption == Access \in [Users -> [Repos -> Levels]]

(* "redis" and "github": a call may return an error, with or without       *)
(* having taken effect.  "process": the server may be killed.              *)
ASSUME FaultsAssumption == Faults \subseteq {"redis", "github", "process"}

VARIABLES
  states,     \* Redis, keys lfs:oidc:state:<state>: state -> OAuthState
  sessions,   \* Redis, keys lfs:session:<id>: id -> UserInfo
  shared,     \* the redirect URI of the token exchanger, as two words
  req,        \* slot -> the request it serves
  authURLs,   \* the authorization URLs handed to browsers
  codes,      \* the codes GitHub has issued
  spent,      \* the codes GitHub has exchanged, with the state they came with
  started,    \* history: state -> the OAuthState of the login it was made for
  issued      \* history: the session identifiers in use so far

vars == <<states, sessions, shared, req, authURLs, codes, spent, started, issued>>

OAuthState == [repo : Repos, uri : URIs]

ASSUME NoneAssumption ==
  None \notin OAuthState /\ None \notin States /\ None \notin SessionIDs

(* What a mixture of two URIs of different lengths reads as.               *)
Torn == <<"torn", None>>

ReadURIs == URIs \union {None, Torn}

(* A session belongs to a user and a repository.  The state of the login   *)
(* it came from is history, the server does not keep it.                   *)
Session == [user : Users, repo : Repos, level : Levels, login : States]

ASSUME NoSessionAssumption == None \notin Session

Code == [user : Users, state : States, uri : URIs]

Pcs == {"idle", "saveState", "setURI", "setURIRest", "authURL", "takeState",
        "exchange", "userInfo", "permissions", "createSession", "done"}

Statuses == {"none", "ok", "badRequest", "invalidURI", "stateSaveFailed",
             "invalidState", "exchangeFailed", "userInfoFailed", "checkFailed",
             "denied", "sessionFailed"}

ReqState == [pc : Pcs, op : {"none", "login", "callback"},
             state : States \union {None}, data : OAuthState \union {None},
             code : Code \union {None}, level : Levels, status : Statuses]

Idle == [pc |-> "idle", op |-> "none", state |-> None, data |-> None,
         code |-> None, level |-> "none", status |-> "none"]

Init ==
  /\ states = [s \in States |-> None]
  /\ sessions = [i \in SessionIDs |-> None]
  /\ shared = [ptr |-> None, len |-> None]
  /\ req = [r \in Slots |-> Idle]
  /\ authURLs = {}
  /\ codes = {}
  /\ spent = {}
  /\ started = [s \in States |-> None]
  /\ issued = {}

At(r, step) == req[r].pc = step

Become(r, q) == req' = [req EXCEPT ![r] = q]

Goto(q, step) == [q EXCEPT !.pc = step]

Finish(q, status) == [q EXCEPT !.pc = "done", !.status = status]

(* A handler refuses a request without having called the use case.         *)
BadRequest(r, op) ==
  /\ At(r, "idle")
  /\ Become(r, Finish([Idle EXCEPT !.op = op], "badRequest"))
  /\ UNCHANGED <<states, sessions, shared, authURLs, codes, spent, started,
                 issued>>

-----------------------------------------------------------------------------
(* GET /auth/github/login *)

(* GitHubLoginHandler refuses a host that is not allowed, and a repository *)
(* or shell it cannot parse; otherwise it calls StartAuthentication with   *)
(* the callback URI of the host.                                           *)
GitHubLoginHandler(r) == BadRequest(r, "login")

(* Mutant of StartAuthentication: the redirect URI is not compared with    *)
(* the allowed ones.                                                       *)
StartAuthenticationAnyURI(r) ==
  /\ At(r, "idle")
  /\ \E d \in OAuthState, s \in States :
       /\ started[s] = None
       /\ started' = [started EXCEPT ![s] = d]
       /\ Become(r, [Idle EXCEPT !.pc = "saveState", !.op = "login",
                                 !.state = s, !.data = d])
  /\ UNCHANGED <<states, sessions, shared, authURLs, codes, spent, issued>>

(* Mutant of StartAuthentication: a login without a redirect URI is let    *)
(* through.                                                                *)
StartAuthenticationNoURI(r) ==
  /\ At(r, "idle")
  /\ \E d \in [repo : Repos, uri : AllowedURIs \union {None}], s \in States :
       /\ started[s] = None
       /\ started' = [started EXCEPT ![s] = d]
       /\ Become(r, [Idle EXCEPT !.pc = "saveState", !.op = "login",
                                 !.state = s, !.data = d])
  /\ UNCHANGED <<states, sessions, shared, authURLs, codes, spent, issued>>

(* A redirect URI that is not allowed is refused; otherwise the login gets *)
(* a new state parameter.                                                  *)
StartAuthentication(r) ==
  /\ At(r, "idle")
  /\ \E d \in OAuthState :
       \/ /\ d.uri \notin AllowedURIs
          /\ Become(r, Finish([Idle EXCEPT !.op = "login"], "invalidURI"))
          /\ UNCHANGED started
       \/ /\ d.uri \in AllowedURIs
          /\ \E s \in States :
               /\ started[s] = None
               /\ started' = [started EXCEPT ![s] = d]
               /\ Become(r, [Idle EXCEPT !.pc = "saveState", !.op = "login",
                                         !.state = s, !.data = d])
  /\ UNCHANGED <<states, sessions, shared, authURLs, codes, spent, issued>>

SaveState(r) ==
  LET q == req[r]
      saved == [states EXCEPT ![q.state] = q.data]
  IN  /\ At(r, "saveState")
      /\ \/ /\ states' = saved
            /\ Become(r, Goto(q, "setURI"))
         \/ /\ "redis" \in Faults
            /\ UNCHANGED states \/ states' = saved
            /\ Become(r, Finish(q, "stateSaveFailed"))
      /\ UNCHANGED <<sessions, shared, authURLs, codes, spent, started, issued>>

(* SetRedirectURI, of a login and of a callback: the two words of the      *)
(* string are stored one after the other.                                  *)
SetRedirectURI(r) ==
  LET q == req[r]
  IN  /\ At(r, "setURI")
      /\ \/ shared' = [shared EXCEPT !.ptr = q.data.uri]
         \/ shared' = [shared EXCEPT !.len = q.data.uri]
      /\ Become(r, Goto(q, "setURIRest"))
      /\ UNCHANGED <<states, sessions, authURLs, codes, spent, started, issued>>

SetRedirectURIRest(r) ==
  LET q == req[r]
  IN  /\ At(r, "setURIRest")
      /\ shared' = [ptr |-> q.data.uri, len |-> q.data.uri]
      /\ Become(r, Goto(q, IF q.op = "login" THEN "authURL" ELSE "exchange"))
      /\ UNCHANGED <<states, sessions, authURLs, codes, spent, started, issued>>

(* What a read of the redirect URI returns.                                *)
Readable == IF shared.ptr = shared.len THEN {shared.ptr} ELSE {shared.ptr, Torn}

(* GetAuthorizationURL, and the redirect to it.                            *)
GetAuthorizationURL(r) ==
  LET q == req[r]
  IN  /\ At(r, "authURL")
      /\ \E u \in Readable :
           authURLs' = authURLs \union {[state |-> q.state, uri |-> u]}
      /\ Become(r, Finish(q, "ok"))
      /\ UNCHANGED <<states, sessions, shared, codes, spent, started, issued>>

-----------------------------------------------------------------------------
(* GitHub and the browser *)

(* A user follows an authorization URL and agrees; GitHub only redirects   *)
(* to a URI of the application.                                            *)
Authorize ==
  /\ \E a \in authURLs, u \in Users :
       /\ a.uri \in AllowedURIs
       /\ codes' = codes \union {[user |-> u, state |-> a.state, uri |-> a.uri]}
  /\ codes' # codes
  /\ UNCHANGED <<states, sessions, shared, req, authURLs, spent, started, issued>>

-----------------------------------------------------------------------------
(* GET /auth/github/callback *)

(* GitHubCallbackHandler refuses a callback without a code or a state, as  *)
(* when the user did not agree; otherwise it calls HandleCallback.         *)
GitHubCallbackHandler(r) == BadRequest(r, "callback")

(* The browser follows GitHub's redirect, any number of times.  Nothing    *)
(* makes it bring the code together with the state it was issued for, nor  *)
(* a state that was ever given out.                                        *)
HandleCallback(r) ==
  /\ At(r, "idle")
  /\ \E c \in codes, s \in States :
       Become(r, [Idle EXCEPT !.pc = "takeState", !.op = "callback",
                              !.state = s, !.code = c])
  /\ UNCHANGED <<states, sessions, shared, authURLs, codes, spent, started, issued>>

(* Mutant of GetAndDeleteState: GET instead of GETDEL.                     *)
GetState(r) ==
  LET q == req[r]
  IN  /\ At(r, "takeState")
      /\ Become(r, IF states[q.state] = None
                   THEN Finish(q, "invalidState")
                   ELSE [q EXCEPT !.pc = "setURI", !.data = states[q.state]])
      /\ UNCHANGED <<states, sessions, shared, authURLs, codes, spent, started,
                     issued>>

(* Mutant of GetAndDeleteState: the callback relies on the redirect URI    *)
(* the login has set.                                                      *)
GetAndDeleteStateOnly(r) ==
  LET q == req[r]
      data == states[q.state]
  IN  /\ At(r, "takeState")
      /\ states' = [states EXCEPT ![q.state] = None]
      /\ Become(r, IF data = None
                   THEN Finish(q, "invalidState")
                   ELSE [q EXCEPT !.pc = "exchange", !.data = data])
      /\ UNCHANGED <<sessions, shared, authURLs, codes, spent, started, issued>>

(* GETDEL of the state.                                                    *)
GetAndDeleteState(r) ==
  LET q == req[r]
      taken == [states EXCEPT ![q.state] = None]
  IN  /\ At(r, "takeState")
      /\ \/ /\ states[q.state] # None
            /\ states' = taken
            /\ Become(r, [q EXCEPT !.pc = "setURI", !.data = states[q.state]])
         \/ /\ states[q.state] = None
            /\ UNCHANGED states
            /\ Become(r, Finish(q, "invalidState"))
         \/ /\ "redis" \in Faults
            /\ UNCHANGED states \/ states' = taken
            /\ Become(r, Finish(q, "invalidState"))
      /\ UNCHANGED <<sessions, shared, authURLs, codes, spent, started, issued>>

UsedUp(code) == \E x \in spent : x.code = code

(* ExchangeCode: GitHub refuses a code that was used, or another URI than  *)
(* the one the code was issued for.  It is not told the state.             *)
ExchangeCode(r) ==
  LET q == req[r]
      used == spent \union {[code |-> q.code, state |-> q.state]}
  IN  /\ At(r, "exchange")
      /\ \/ /\ ~ UsedUp(q.code)
            /\ q.code.uri \in Readable
            /\ spent' = used
            /\ Become(r, Goto(q, "userInfo"))
         \/ /\ \/ UsedUp(q.code)
               \/ \E u \in Readable : u # q.code.uri
               \/ "github" \in Faults
            /\ \/ UNCHANGED spent
               \/ ~ UsedUp(q.code) /\ spent' = used
            /\ Become(r, Finish(q, "exchangeFailed"))
      /\ UNCHANGED <<states, sessions, shared, authURLs, codes, started, issued>>

GetUserInfo(r) ==
  LET q == req[r]
  IN  /\ At(r, "userInfo")
      /\ \/ Become(r, Goto(q, "permissions"))
         \/ "github" \in Faults /\ Become(r, Finish(q, "userInfoFailed"))
      /\ UNCHANGED <<states, sessions, shared, authURLs, codes, spent, started,
                     issued>>

CanDownload(level) == level \in {"read", "write"}

(* Mutant of GetRepositoryPermissions: the answer is taken without asking  *)
(* whether it lets the user download.                                      *)
GetRepositoryPermissionsOnly(r) ==
  LET q == req[r]
  IN  /\ At(r, "permissions")
      /\ Become(r, [q EXCEPT !.pc = "createSession",
                             !.level = Access[q.code.user][q.data.repo]])
      /\ UNCHANGED <<states, sessions, shared, authURLs, codes, spent, started,
                     issued>>

(* GetRepositoryPermissions, for the repository of the state: GitHub hides *)
(* a repository the user may not see, or shows it without permissions.     *)
GetRepositoryPermissions(r) ==
  LET q == req[r]
      level == Access[q.code.user][q.data.repo]
  IN  /\ At(r, "permissions")
      /\ \/ /\ CanDownload(level)
            /\ Become(r, [q EXCEPT !.pc = "createSession", !.level = level])
         \/ /\ ~ CanDownload(level)
            /\ Become(r, Finish(q, "denied"))
         \/ /\ ~ CanDownload(level) \/ "github" \in Faults
            /\ Become(r, Finish(q, "checkFailed"))
      /\ UNCHANGED <<states, sessions, shared, authURLs, codes, spent, started,
                     issued>>

(* CreateSession, under a new identifier.                                  *)
CreateSession(r) ==
  LET q == req[r]
      session == [user |-> q.code.user, repo |-> q.data.repo,
                  level |-> q.level, login |-> q.state]
  IN  /\ At(r, "createSession")
      /\ \E i \in SessionIDs \ issued :
           /\ issued' = issued \union {i}
           /\ \/ /\ sessions' = [sessions EXCEPT ![i] = session]
                 /\ Become(r, Finish(q, "ok"))
              \/ /\ "redis" \in Faults
                 /\ \/ UNCHANGED sessions
                    \/ sessions' = [sessions EXCEPT ![i] = session]
                 /\ Become(r, Finish(q, "sessionFailed"))
      /\ UNCHANGED <<states, shared, authURLs, codes, spent, started>>

-----------------------------------------------------------------------------

Reply(r) ==
  /\ At(r, "done")
  /\ Become(r, Idle)
  /\ UNCHANGED <<states, sessions, shared, authURLs, codes, spent, started,
                 issued>>

(* The server is killed and started again.                                 *)
Restart ==
  /\ "process" \in Faults
  /\ req' = [r \in Slots |-> Idle]
  /\ shared' = [ptr |-> None, len |-> None]
  /\ UNCHANGED <<states, sessions, authURLs, codes, spent, started, issued>>

(* A state reaches its TTL of 10 minutes, a session its TTL of 24 hours.   *)
ExpireState(s) ==
  /\ states[s] # None
  /\ states' = [states EXCEPT ![s] = None]
  /\ UNCHANGED <<sessions, shared, req, authURLs, codes, spent, started, issued>>

ExpireSession(i) ==
  /\ sessions[i] # None
  /\ sessions' = [sessions EXCEPT ![i] = None]
  /\ UNCHANGED <<states, shared, req, authURLs, codes, spent, started, issued>>

Step(r) ==
  \/ SaveState(r)
  \/ SetRedirectURI(r)
  \/ SetRedirectURIRest(r)
  \/ GetAuthorizationURL(r)
  \/ GetAndDeleteState(r)
  \/ ExchangeCode(r)
  \/ GetUserInfo(r)
  \/ GetRepositoryPermissions(r)
  \/ CreateSession(r)
  \/ Reply(r)

Next ==
  \/ \E r \in Slots :
       \/ GitHubLoginHandler(r)
       \/ GitHubCallbackHandler(r)
       \/ StartAuthentication(r)
       \/ HandleCallback(r)
       \/ Step(r)
  \/ Authorize
  \/ Restart
  \/ \E s \in States : ExpireState(s)
  \/ \E i \in SessionIDs : ExpireSession(i)

Spec == Init /\ [][Next]_vars

-----------------------------------------------------------------------------
(* Properties *)

(* Type invariant of the stores, the shared URI and the requests.          *)
TypeOK ==
  /\ states \in [States -> OAuthState \union {None}]
  /\ sessions \in [SessionIDs -> Session \union {None}]
  /\ shared \in [ptr : URIs \union {None}, len : URIs \union {None}]
  /\ req \in [Slots -> ReqState]
  /\ authURLs \subseteq [state : States, uri : ReadURIs]
  /\ codes \subseteq Code
  /\ spent \subseteq [code : codes, state : States]
  /\ started \in [States -> OAuthState \union {None}]
  /\ issued \subseteq SessionIDs

(* A login gives at most one session, although browsers repeat a callback  *)
(* and two of them may run at the same time: GetAndDeleteState takes the   *)
(* state out of Redis in one step.                                         *)
OneSessionPerLogin ==
  \A i, j \in SessionIDs :
    /\ sessions[i] # None
    /\ sessions[j] # None
    /\ sessions[i].login = sessions[j].login
    => i = j

(* A session is for the repository its login asked for, and gives the user *)
(* who agreed no more than GitHub gives him there, which is at least to    *)
(* download: also when the callback brought the code of another login,     *)
(* begun by another user for another repository.                           *)
SessionsAreEntitled ==
  \A i \in SessionIDs :
    LET x == sessions[i]
    IN  x # None =>
          /\ started[x.login] # None
          /\ x.repo = started[x.login].repo
          /\ x.level = Access[x.user][x.repo]
          /\ CanDownload(x.level)

(* An authorization URL sends the user back to the host the login was      *)
(* started at, and a code is exchanged with the URI it was issued for: a   *)
(* login only reads the redirect URI it has set itself.                    *)
OwnRedirectURI ==
  /\ \A a \in authURLs : a.uri = started[a.state].uri
  /\ \A r \in Slots : At(r, "exchange") => Readable = {req[r].data.uri}

(* GitHub has no reason to refuse the code of a callback that has taken    *)
(* the state the code was issued for, which cannot be repeated: until it   *)
(* is exchanged, the code is used up by no callback with this state, and   *)
(* whatever other logins and callbacks write, the URI that is read is the  *)
(* one the code was issued for.                                            *)
CodesAreAccepted ==
  \A r \in Slots :
    LET q == req[r]
    IN  At(r, "exchange") /\ q.code.state = q.state =>
          /\ [code |-> q.code, state |-> q.state] \notin spent
          /\ Readable = {q.code.uri}

(* The request q works on the login s: it is about to save the state, or   *)
(* it is the callback that has taken it.                                   *)
Holds(q, s) ==
  /\ q.state = s
  /\ \/ q.pc = "saveState"
     \/ q.op = "callback" /\ q.pc \notin {"idle", "takeState", "done"}

-----------------------------------------------------------------------------
(* The inductive invariant *)

(* A login is in one place at a time: about to be saved, in Redis, in the  *)
(* hands of one callback, or turned into a session.                        *)
OnePlace ==
  /\ \A s \in States, r1, r2 \in Slots :
       Holds(req[r1], s) /\ Holds(req[r2], s) => r1 = r2
  /\ \A s \in States, r \in Slots : Holds(req[r], s) => states[s] = None
  /\ \A i \in SessionIDs :
       sessions[i] # None =>
         /\ states[sessions[i].login] = None
         /\ \A r \in Slots : ~ Holds(req[r], sessions[i].login)
  /\ OneSessionPerLogin

(* No code has been exchanged with a state before the callback that has    *)
(* taken the state exchanges one.                                          *)
Late == {"userInfo", "permissions", "createSession"}

Unspent ==
  \A x \in spent :
    /\ states[x.state] = None
    /\ \A r \in Slots : Holds(req[r], x.state) => req[r].pc \in Late

(* What is known of a request: the data it works with are those its login  *)
(* was begun with.                                                         *)
Control(q, sent, begun) ==
  /\ q.pc = "idle" => q = Idle
  /\ q.pc # "idle" => q.op # "none"
  /\ q.pc \in {"saveState", "authURL"} => q.op = "login"
  /\ q.pc \in {"takeState", "exchange"} \union Late => q.op = "callback"
  /\ q.op = "callback" /\ q.pc # "done" => q.code \in sent /\ q.state \in States
  /\ q.pc \notin {"idle", "takeState", "done"} =>
       q.state \in States /\ q.data \in OAuthState /\ begun[q.state] = q.data
  /\ q.pc = "createSession" =>
       q.level = Access[q.code.user][q.data.repo] /\ CanDownload(q.level)

(* Whatever names a login names one that was started, with a URI that is   *)
(* allowed.                                                                *)
Traceable ==
  /\ \A s \in States :
       /\ started[s] # None => started[s].uri \in AllowedURIs
       /\ states[s] # None => states[s] = started[s]
  /\ \A a \in authURLs \union spent : started[a.state] # None
  /\ \A c \in codes : started[c.state] # None /\ c.uri \in AllowedURIs
  /\ \A w \in {shared.ptr, shared.len} : w \in AllowedURIs \union {None}

(* The inductive invariant.                                                *)
IInv ==
  /\ TypeOK
  /\ OnePlace
  /\ Unspent
  /\ \A r \in Slots : Control(req[r], codes, started)
  /\ Traceable
  /\ SessionsAreEntitled
=============================================================================
