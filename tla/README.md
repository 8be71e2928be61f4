# A TLA+ verification of cargohold

cargohold is a Git LFS server in Go. This directory models what it keeps across
concurrent requests (the LFS object path, the GitHub OAuth login, the repository
allowlist, the keys of GitHub Actions tokens), how requests are authenticated on
top of that, the life of the process from start to shutdown, and the transaction
helper; it checks the models with TLC and proves their main properties with
TLAPS.

    tlc -workers 2 -config MCLfsServer.cfg MCLfsServer
    tlapm LfsServerProofs.tla

## 1. Inventory of the system

| component | state it keeps | operations | what makes it correct |
|---|---|---|---|
| Batch API (`handler/batch_handler.go`, `usecase/batch_*`, `usecase/upload_usecase.go`, `usecase/download_usecase.go`) | none | upload, download of a list of objects | answers are true of the tables; an accepted upload has an owner; every request ends |
| Proxy (`handler/proxy_handler.go`, `usecase/proxy_*`) | none | PUT and GET of one object | content is stored before the row says so; a download is complete or seen to be cut off |
| Verify (`handler/verify_handler.go`, `usecase/verify_usecase.go`) | none | mark an object as uploaded | only uploaded objects are marked |
| Metadata cache (`infrastructure/caching_lfs_object_repository.go`) | Redis `lfs:meta:*`, TTL 30 min | FindByOID, Save, Update | never ahead of the database; lag heals |
| Repositories (`infrastructure/postgres/*`) | tables `lfs_objects`, `lfs_object_access_policies` | select, insert, update, upsert | rows are never lost, sizes never change; a policy has a row |
| Object storage (`infrastructure/s3/client.go`) | S3 objects | PutObject, GetObject | stored length is the row's size |
| Access authorization (`domain/access_authorization_service_impl.go`) | none | Authorize | owners decide, new objects are open to all |
| GitHub OAuth login (`handler/auth/*`, `usecase/github_oauth_usecase.go`, `infrastructure/oidc/github_token_exchanger.go`) | Redis `lfs:oidc:state:*`, TTL 10 min; the redirect URI in memory | login, callback | one session per login, for the login's repository; logins do not disturb each other |
| Sessions (`infrastructure/redis/session*.go`) | Redis `lfs:session:*`, TTL 24 h | create, get | as entitled at login |
| Request authentication (`handler/middleware/auth_dispatcher.go`, `usecase/auth_usecase.go`, `usecase/*_auth_usecase.go`, `usecase/github_oidc_usecase.go`) | none | Bearer, Basic, cookie | who passes was entitled to; withdrawing takes effect |
| Repository allowlist (`infrastructure/caching_repository_allowlist.go`) | table `repository_allowlist`; Redis `lfs:oidc:github:repo:*`, TTL 5 min | IsAllowed, Add, Remove, List | answers are the table's; a removed repository is refused some time later |
| OIDC verification (`infrastructure/oidc/jwks.go`, `jwt_verifier.go`, `github_provider.go`) | Redis `lfs:oidc:jwks:*`, TTL 24 h | VerifyIDToken, GetPublicKey | a new key works at once, a withdrawn one is refused some time later |
| Process (`cmd/cargohold/main.go`, `postgres/connection.go`, `redis/client.go`) | connections, the HTTP server | start, SIGTERM, shutdown | nothing is left open; requests in flight are answered; it ends |
| Readiness (`usecase/readiness_usecase.go`, `*/health_checker.go`) | none | GET /readyz | ready is true of the dependencies |
| Transactions (`infrastructure/postgres/transaction.go`) | a pool connection | WithTransaction | all or nothing; no connection is lost |
| Health, session display, presigned URLs, configuration, logging | none | | |

Handlers call use cases, use cases call repositories, the cache and storage; no
transaction spans two of these calls (`WithTransaction` has no caller in the
server), and there is no lock anywhere. Requests therefore interact only through
PostgreSQL, Redis, S3 and, in the login, one field in memory. The Helm chart
runs two replicas, so requests of several processes interleave as well.

What is hard: interleavings between the calls of two requests, values read early
and written back late (cache fills, the UPDATE of all columns), calls that fail
after having taken effect, processes that die between two calls, entries that
expire, callbacks that are repeated, dependencies that fail during the start, the
shutdown or a probe. `PROJECT.json` lists each hazard at the
line where it bites, with the properties aimed at it.

## 2. Modules

| module | content |
|---|---|
| `LfsServer` | batch, proxy and verify requests over the two tables, the metadata cache and storage; properties; inductive invariant; refinement mapping |
| `ObjectRegistry` | what the object path promises, without requests, cache or failures |
| `LfsServerProofs` | theorems about `LfsServer` |
| `MCLfsServer` | the requests of the TLC instances |
| `OAuthLogin` | login and callback, state store, session store, shared redirect URI, GitHub's side of the protocol |
| `OAuthLoginProofs` | theorems about `OAuthLogin` |
| `MCOAuthLogin` | the permissions of the TLC instances |
| `LaggingCopies`, `LaggingCopiesProofs` | what a read-through cache without ordered writes promises, and what follows for every such cache |
| `RepositoryAllowlist`, `RepositoryAllowlistProofs`, `MCAllowlist` | the allowlist and its cache; it implements `LaggingCopies` |
| `JwksFetcher`, `JwksFetcherProofs`, `MCJwks` | the key sets and their cache; it implements `LaggingCopies` |
| `Authentication`, `AuthenticationProofs`, `MCAuthentication` | requests over sessions, keys and allowlist, the last two by `LaggingCopies` |
| `ServerProcess`, `ServerProcessProofs`, `MCServerProcess` | start, readiness, shutdown |
| `TransactionManager`, `TransactionManagerProofs`, `MCTransaction` | WithTransaction on a pool |

### LfsServer

`objects`, `policies`, `cache` and `storage` are the two tables, the Redis
entries and the S3 bucket; `req` holds one record per request in flight, with
the step it is about to take. One action is one call to a dependency together
with the code up to the next call:

| action | code |
|---|---|
| `Receive` | handlers, `Validate`, `checkPermissions` |
| `Authorize` | `CheckAuthorization`, `Authorize`, policy SELECT |
| `FindCached`, `FindStored`, `FillCache` | `CachingLFSObjectRepository.FindByOID`: GET, SELECT, SET |
| `Insert`, `CacheSaved` | `Save`: INSERT, SET |
| `Update`, `CacheUpdated` | `Update`: UPDATE, SET |
| `Claim` | `createAccessPolicy`: upsert |
| `Put`, `Get` | `PutObject`, `GetObject` |
| `Stream` | the 200 and the Content-Length of a download, then the copy of its stream |
| `Reply` | the answer is sent |
| `Expire`, `Crash` | an entry reaches its TTL, the process dies |

`Found`, `NotFound` and `MetadataError` say what each use case does with the
outcome of a lookup, and `Answer` and `NextItem` are the loop of a batch. A
fault is an error return, with or without effect: `Faults` names the
dependencies that may fail. A process that dies takes a request with it; the
others may belong to another replica and go on.

Abstracted: an OID stands for its storage key (sha256 is the only algorithm), a
stored object is its length, timestamps and URLs are gone. Which caller may use
a batch operation is open here (`CheckPermissions` may refuse any batch); it is
the subject of `Authentication`. PutObject fails on a body of another length
than its Content-Length (`Fits`); of a longer body the announced prefix may be
stored nevertheless, and for a row of size 0 the SDK sends no body, whatever the
client has sent. A download has announced its length and answered 200 before it
reads the first byte: an S3 error, a timeout or the client may end the body
anywhere, with status `cutOff`. A failed Redis call is one the code ignores.

### ObjectRegistry

Per object: registered once with a fixed size, content of that size stored any
number of times, marked as uploaded, given to a repository. It does not order
`Store` before `Complete`, because verify does not (section 4), and allows the
owner to change, because the upsert does.

### OAuthLogin

`states` and `sessions` are the Redis stores. `shared` is the redirect URI of
the token exchanger, a Go string of two words that are written one after the
other without a lock, so a concurrent reader may see a mixture (`Torn`). `codes`
and `spent` are GitHub's: a code is good for one exchange with the URI it was
issued for. Nothing in the code ties a code to a state, so that a callback may
bring any code with any state (`GitHubCallbackHandler`); `spent` says which state
a code was exchanged with. GitHub and the browsers are external and modelled by how the code
uses them; users may follow any authorization URL that was handed out, and a
browser may follow a callback any number of times. `started` and `issued` are
history: they give each login and each session an identifier of its own, as
UUIDs do. `Restart` kills all requests and empties the URI; Redis survives.
The access a user has on GitHub is constant here; `Authentication` lets it change.

### LaggingCopies, RepositoryAllowlist, JwksFetcher

Both caches are filled by whoever misses, after a read of the source, and nothing
orders that SET after the writes of others. `LaggingCopies` says what is left:
an answer is the value of the source now or an earlier one that a copy still
holds, and a value that no copy holds does not return by itself.

`RepositoryAllowlist` has one action per Redis and PostgreSQL call of IsAllowed,
Add and Remove (`CheckCache`, `Exists`, `SetCache`, `Insert`, `Delete`,
`DelCache`). The server has no route that calls Add or
Remove, so that an administrator may also change the table with SQL, past the
cache (`ChangeBySQL`, as the end-to-end fixtures do); `Encode` and `Decode` are
the strings in Redis. In the refinement mapping the copies of a repository are
its row, its cache entry and what calls in flight are about to store.

`JwksFetcher` has the steps of GetPublicKey (`GetCache`, `FetchJWKSet`,
`SetCache`). A key set is the set of its usable keys. The code takes every 200
with a JSON object for a key set, one without any keys for the empty set, and
stores it: to the code such an answer is what GitHub publishes at the time, and
so it is in the model, where `{}` is one of the sets a rotation may publish. An
error status, a page that is not JSON or a body that is cut off is an error.
`steady` is history: the
key has been published since the call began.

### Authentication

`AuthDispatcher` takes a request with any combination of credentials; the
following actions are the steps of the middleware and the use cases behind it,
up to `CheckPermissions` of the batch handler. Keys and allowlist change by
`Change` and `Forget` of `LaggingCopies` (`RotateKeys`, `ChangeAllowlist`,
`DropCopies`), which stands for everything other requests and the caches do, as
the components implement it. A token is a key, a repository and whether
everything else about it is in order (`sound`): checking a signature is library
code. `Serialize` and `Deserialize` are the JSON of a session, in which a false
permission is absent. `Fold` is the comparison of repositories without regard to
case, which the middleware makes and the allowlist does not; to GitHub the
spellings are one repository, so that access is the same under all of them.
A Bearer token settles a request: the middleware looks at no other credentials
beside it. `Login` is `OAuthLogin` in one step, with the permissions GitHub gives at
that time and an identifier no session has had before; the permissions may
change afterwards. A replica may have GitHub OIDC disabled
(`OidcSettings`). `entitled` is history: what has ever been granted, listed
and published. Requests only read this state, so one slot shows every behaviour
of a request; the proofs hold for any number.

### ServerProcess

`phase` is the position in `run`, `server` the goroutine that serves, `open` the
connections, `req` the requests. `ReturnError` is every `return err`: the
deferred calls follow, Redis first. An LFS request is reduced to holding a
connection for a while and transferring an object. What the libraries do is
external: SIGTERM kills a process that has not called `signal.Notify`, the pool
is closed once its connections are given back, and `ShutdownStops` says whether
echo's Shutdown reaches the server given to `StartServer`. It does not (section
4); what does not depend on it is checked and proved for both.

### TransactionManager

BeginTx takes a connection or waits; the function runs statements, returns or
panics; Commit, Rollback and the deferred recover follow the code. The context
may be cancelled at any step. External, by how pgx behaves: a failed statement
aborts the transaction, and so its commit; a broken connection or a context
cancelled during a statement loses it; a commit that fails may have taken
effect; Commit and Rollback give the connection back in every case.

## 3. Runs

| run | instance | shows |
|---|---|---|
| `objects` | 2 requests, 2 repositories, 1 object, sizes 0 and 1, all operations, batches of up to 2, all faults | type invariant, six safety invariants (downloads included that are cut off after their 200), row monotonicity, refinement of `ObjectRegistry`; owners settle; a request makes a bounded number of calls |
| `uploads` | 2 requests, 1 repository, 1 object, batch and proxy, all faults | uploaded objects are stored; every request ends, stale entries heal |
| `owner`, `refresh` | small fault-free instances | section 4 |
| `login` | 2 requests, 2 users, 2 repositories, 2 URIs of which 1 is allowed, 2 logins, 2 sessions, any code with any state, all faults | sessions are unique and entitled; logins use their own URI and their codes are good |
| `two_uris` | 1 user, 2 allowed URIs, no faults | section 4 |
| `allowlist` | 2 calls, 2 repositories, 3 changes, all faults | refinement of `LaggingCopies`; complete removals hold; staleness ends |
| `jwks` | 2 calls, 2 keys, 3 rotations, all faults | a steady key is found; refinement of `LaggingCopies`; lookups come to use the current key set |
| `authentication` | 1 request, 1 user, 2 repositories that differ in case and a third path, 1 key, 2 session identifiers, 1 change, all faults, OIDC enabled or not | who passes was entitled to; a good cookie is enough; withdrawing takes effect |
| `process` | 2 requests, whether or not Shutdown reaches the server | readiness, open connections, the process ends |
| `graceful` | 2 requests, Shutdown does not reach the server | section 4 |
| `transaction` | 2 callers, 1 connection, 2 rows, failing connections | results, pool, atomicity, every call returns |

Bounds. Every interaction goes through one object's row, entry, policy or key,
or through one login's state, so two requests are enough for the races between
two actors; two repositories compete for one object; two sizes tell equal from
different and include zero; batches of two name the same object twice, with
equal and with different sizes, and may meet an error after a success. State parameters and session
identifiers are finite supplies (`States`, `SessionIDs`): two allow two
concurrent logins, and a login that is repeated. A stale cache needs a reader
that is overtaken by a writer; three changes (`MaxChanges`, `MaxRotations`) take
a value away, back and away again. In `authentication` every access, key set and
list is an initial state, so that one change is a withdrawal; two session
identifiers allow Basic credentials of a session that has expired beside the
cookie of one that has not. Two callers on one connection make
one of them wait. The proofs remove all of these
bounds for the safety properties. Slots, states and session identifiers are only
compared, so `objects`, `login` and the runs of section 4 use them as symmetry
sets; the runs with liveness properties use no symmetry.

Fairness. All runs with liveness properties make two assumptions. A call that has
begun goes on: Go schedules every runnable goroutine, the HTTP clients for GitHub
have a timeout of 10 seconds, and every call to Redis, PostgreSQL and S3
returns, if only with an error or a cancelled context; a download that the
client does not read ends with the server's write timeout. And Redis enforces its
TTLs. No run assumes that a request is ever sent or that a call succeeds.
`StaleEntriesHeal` and `StalenessEnds` hold because an update that has reached
the database is what later fills read, and a request that still holds the old
value ends. Beyond these

* `authentication` assumes that the caches drop what is stale (`SettleCopies`),
  which `allowlist` and `jwks` check of the components;
* `process` assumes that `run` goes on where it can, and that requests do, except
  during a transfer: how long that takes is up to the client, and nothing is
  assumed of it;
* `transaction` assumes that a caller who could get a connection again and again
  gets one (strong fairness), as the pool serves those who wait in turn, and
  that a cancelled caller stops waiting. It does not count on BeginTx failing,
  which would hide a caller who waits for ever.

Deadlock is checked in every run: a server can always receive a request or go on
with one. (In `OAuthLogin` a callback waits for a session identifier only when
the supply of the instance is used up.)

## 4. Where the code and its documents or tests disagree

* `owner` / `OwnersDoNotChange`: two repositories that batch the same new object
  at the same time both see no policy; the second upsert takes the object from
  the first, whose client was told to upload and is refused afterwards. This
  race of first uploads is the only way an owner changes: `OwnersSettle`, which
  `objects` checks, says that an object keeps its owner, and that no batch
  begins to compete for it, unless a batch of another repository was authorized
  before the object had one (`Contested`).
* `refresh` / `UpdateRefreshesCache`: Save is an INSERT and, in a call of its own, a
  SET of what was inserted. In the trace a batch inserts the row, a proxy upload
  runs to its end and is answered 200, and then the batch's SET puts the row as
  it was inserted over the entry the upload has set. The SET of FindByOID does
  the same with a row read before the upload, in a longer trace. Until the entry
  expires, batch downloads answer that the object is not uploaded.
  `CacheNeverAhead` and `StaleEntriesHeal` say what does hold, and
  `HealedEntriesStay` when the entry is right for good.
* `two_uris` / `CodesAreAccepted`: with two allowed redirect URIs, a login
  writes into the field between the two steps of a callback that works with the
  other URI. The callback then sends another URI than its code was issued for,
  or a mixture of the two, and GitHub refuses a valid code. With one
  allowed URI it cannot happen, which `login` checks and `OneURIIsAccepted`
  proves; with any number of them it cannot happen while requests do not overlap
  (`AloneIsAccepted`), restarts and failures included. The overlap is the cause.
* `graceful` / `StoppedGracefully`: `run` serves with an `http.Server` of its own,
  which echo's Shutdown does not know. It returns at once, the process ends
  without an error and logs that it stopped gracefully, and a request that is in
  flight when SIGTERM arrives is cut off.

Further observations, which no run needs:

* `VerifyUpload` marks an object as uploaded without asking storage, although the
  API description has it follow a completed upload. `UploadedIsStored` therefore
  holds only while clients do not verify (`uploads`, `UploadedAreStored`).
* With GitHub OIDC disabled, the nil provider is passed as an interface that is
  not nil, and a Bearer token ends in a panic, answered 500 by the Recover
  middleware, where a test of `NewAuthUseCase` expects a refusal
  (`ProviderPanics` in `Authentication`).
* A size-0 object can be uploaded but never verified, and a batch that declares
  another size than a registered, not yet uploaded row still gets an upload
  action, which can only fail.

## 5. Proofs

All theorems hold for every choice of the constants that satisfies the ASSUMEs
of the modules, as in: `Requests` are well-formed requests, `None` and `BadOid` are
not values of the other kinds, `Faults` are fault kinds, allowed URIs are URIs,
`Access` is a function, `Callers` is finite. TLC evaluates them in every run.

`LfsServerProofs`

* `Invariance`: `Spec => []IInv`. The properties of section 3 are not inductive:
  that the cache is never ahead depends on the object a request has in hand when
  it sets the cache, and that on the row it was read from. `IInv` therefore adds,
  per request, where it may be (`Control`), that its object is not ahead of the
  row except between MarkAsUploaded and the UPDATE (`InHand`), that an
  authorization still holds (`AuthorizedStill`), and how many objects of a batch
  are answered (`Answered`) and owned (`Owned`). The argument rests on one
  lemma: whatever another request does, rows only advance and policies are never
  removed, and everything `IInv` says of a request is stable under that.
* `TypeCorrect`, `CacheAgrees`, `StorageAgrees`, `DownloadsAreComplete`, `RowsAreThere`,
  `AnswersAreTrue`, `AcceptedAreOwned`: the invariants of the runs, from `IInv`. For
  downloads it says that an opened stream is as long as the object in hand, which
  is what the Content-Length is taken from: a client that receives the announced
  number of bytes has the whole object, and one that is cut off can tell.
* `RowsAdvance`: the action property `RowsOnlyAdvance`.
* `Refinement`: `Spec => ImplementsRegistry`, each action mapped to a step of
  `ObjectRegistry` or a stutter.
* `UploadedAreStored`: if `Requests` has no verify, uploaded objects are stored;
  the strengthening is that a request at its UPDATE has stored the content.
* `WorkIsBounded`: the action property `CallsAreBounded`. `CallsLeft` counts the
  steps a request has before it at most, 7 for each object it names; each of its
  steps lowers the count, on error paths, cache misses and turns of the batch
  loop as well.
* `OwnersAreSettled`: the action property `OwnersSettle`; `SettledOwnersStay` adds
  that the owner of an object for which nobody competes is its owner for good.
* `HealedEntriesStay`: once an object is uploaded and neither its cache entry nor
  a request about to fill it says otherwise (`Healed`), it stays so.

`OAuthLoginProofs`

* `LoginInvariance`: `Spec => []IInv`. A login is in one place at a time, about
  to be saved, in Redis, with one callback or in a session (`OnePlace`); a code
  is unspent with its own state until the callback that holds that state
  exchanges it (`Unspent`);
  whatever names a login names one that was started with an allowed URI
  (`Traceable`); a request works with the data of its login (`Control`).
* `LoginTypeCorrect`, `SessionsAreUnique`, `SessionsEntitled`: from it.
* `OneURIIsOwn`, `OneURIIsAccepted`: for `AllowedURIs = {u}`. A code that comes with
  its own state is meant: GitHub may refuse one that another callback has used up
  with a state it was not issued for.
* `AloneIsOwn`, `AloneIsAccepted`: for any allowed URIs, with one request at a time
  (`Slots = {alone}`). Here the invariant is that the shared URI is the one of the
  login or callback that is running (`OwnURIs`).

`LaggingCopiesProofs`

* `WithdrawnStays`: once no copy of a key holds a value of the set W and no reader
  was answered with one (`Clear`), it stays so for as long as the source does not
  take such a value. `RefusalStays` and `WithdrawnKeyStaysRefused` below are this
  theorem's step carried over to the two caches through their refinement
  mappings.

`RepositoryAllowlistProofs` and `JwksFetcherProofs`

* `AllowlistInvariance`, `JwksInvariance`: the invariants tie the step of a call to
  its fields (`CallSane`). For the allowlist, nothing says of a repository whose
  removal is complete that it is allowed: neither the row nor the cache nor a
  call about to store (`RemovedIsGone`). For the keys, a set fetched during the
  call has the key if it was published throughout (`FetchedIsFresh`).
* `AllowlistTypeCorrect`, `JwksTypeCorrect`, `SteadyKeysAreFound`: from them.
* `RemovalHolds`: the action property `CompleteRemovalHolds`.
* `AllowlistRefinement`, `JwksRefinement`: both implement `LaggingCopies`. Each
  action is shown to change the copies in one of four ways (it leaves them, drops
  some, changes the source, or gives an answer that a copy holds).
* `RefusalStays`: a repository that neither the row, the cache nor a call about to
  store allows, is refused until it is added again.
* `WithdrawnKeyStaysRefused`: a key that is in no set the endpoint, the cache or a
  call holds is not found until GitHub publishes it again.

`AuthenticationProofs`

* `AuthInvariance`: sessions and copies hold only what was granted, listed or
  published once (`StateIsEntitled`), and what a request has found so far rests
  on it (`RequestSane`). History only grows, so that other steps keep both.
* `AuthTypeCorrect`, `OnlyEntitledPass`, `CookieIsBackup`: from it.
* `WithdrawnAccessStays`, `DelistedStaysOut`, `RevokedKeysStayOut`: once no session has
  the permission, no answer allows the repository, or no key set has the key,
  and no request under way rests on one, nobody passes with it until it is
  given again. They rest on what a step can do to a request (`RequestMoves`), to
  the sessions and to the copies.

`ServerProcessProofs`

* `ProcessInvariance`: which connections, requests and exit statuses there are at
  which phase, and that what a probe could not use so far is among what it
  reports (`ProbeSane`). It holds whether or not Shutdown reaches the server.
* `ProcessTypeCorrect`, `ReadinessIsTrue`, `AllIsClosed`: from it.
* `ClosingPoolDrains`: while the process waits for the pool to close, the set of
  requests that hold a connection only shrinks, whatever a server that was not
  stopped still accepts, and the process goes on only when it is empty.

`TransactionManagerProofs`

* `TransactionInvariance`: a call holds a connection exactly between BeginTx and the
  end of its transaction; the rest is counting with finite cardinalities.
* `TransactionTypeCorrect`, `ResultsAreTrue`, `NoConnectionLeaks` from it, and
  the action property `TransactionsAreAtomic`.
* `WaitersDoNotDeadlock`: while a caller waits on an exhausted pool, some other call
  has a connection and is at a step that needs no second one: the connections
  that are not free are all held, by calls that are past BeginTx.

Only model-checked, since liveness under fairness is out of reach of the proof
system: `RequestsEnd`, `StaleEntriesHeal`, `StalenessEnds`, `RotationSettles`,
`WithdrawalTakesEffect`, `ComesToAnEnd`, `CallsReturn`. Each has two halves: a good
state is reached, which needs the fairness of section 3 and which TLC checks,
and nothing leads away from it, or back on the way to it, which does not and
which is proved for every instance:

| checked by TLC | what of it is proved |
|---|---|
| `RequestsEnd` | `WorkIsBounded`: no request can go on for ever |
| `StaleEntriesHeal` | `HealedEntriesStay` |
| `StalenessEnds` | `RefusalStays` |
| `RotationSettles` | `WithdrawnKeyStaysRefused` |
| `WithdrawalTakesEffect` | `WithdrawnAccessStays`, `DelistedStaysOut`, `RevokedKeysStayOut` |
| `ComesToAnEnd` | `ClosingPoolDrains`: the wait for the pool makes progress only one way |
| `CallsReturn` | `WaitersDoNotDeadlock`: who waits, waits for a call that runs |

Beyond that nothing is only model-checked: every invariant and action property
of the passing runs is stated by a theorem.

## 6. Not modelled

* Session display, the key generator, logging and error text, the values of the
  configuration: they keep no state and no property here is about their text.
* Presigned URLs, `ExistsByOID`, `HeadObject`, `CanAccess`, and the deletion of
  policies and sessions: the server does not call them. `List` of the allowlist
  only reads.
* Real time. A timeout is the failure of the call it cuts off, or the end of the
  download it cuts off after the 200, so that the models do not tell which of
  several timeouts comes first: the proxy timeout, or the server's timeouts of
  30 seconds.
* Signatures, TLS and JSON of the protocols, which are library code: a token is
  sound or not, a message parses or not.
* The composition of `Authentication` with `LfsServer` in one state space. They share
  no state but the answer of `CheckPermissions`, which `LfsServer` leaves open.
