------------------------------ MODULE LfsServer ------------------------------
(***************************************************************************)
(* The object path of cargohold, a Git LFS server: the batch, proxy and    *)
(* verify use cases over the lfs_objects and lfs_object_access_policies    *)
(* tables (PostgreSQL), the metadata cache (Redis) and the object storage  *)
(* (S3).  Several requests, of one server process or of several replicas,  *)
(* run concurrently; each call to PostgreSQL, Redis or S3 is one atomic    *)
(* step, and between two calls of a request any other request may move.    *)
(*                                                                         *)
(* A request is held in a slot.  Its record carries what the goroutine     *)
(* serving it carries: where it is (pc), the decoded request (job), the    *)
(* object of the batch it works on (i), the LFSObject it has in hand       *)
(* (obj), Authorize's IsNewObject (isNew), the answers given so far to the *)
(* objects of a batch (resps), the final status and, for a download, the   *)
(* length of the stream that was opened (stream) and of what was sent of   *)
(* it (sent).                                                              *)
(*                                                                         *)
(* Abstractions: an object's storage key is a function of its OID and hash *)
(* algorithm, and sha256 is the only algorithm, so OIDs stand for keys; a  *)
(* stored object is its length; timestamps, URLs and headers are left out. *)
(***************************************************************************)
EXTENDS Integers, Sequences

CONSTANTS
  Slots,     \* the requests that can be in flight at the same time
  Repos,     \* repository identifiers (owner/name)
  Oids,      \* well-formed object IDs
  BadOid,    \* stands for every string that NewOID refuses
  Requests,  \* the requests clients may send
  Faults,    \* the dependencies that may fail, see FaultKinds
  None       \* no row, no entry, no object, no request

BatchOps == {"batchUpload", "batchDownload"}

ProxyOps == {"proxyUpload", "proxyDownload"}

Ops == BatchOps \union ProxyOps \union {"verify"}

(* What the handlers decode: the operation, the repository of the URL and  *)
(* the named objects.  A batch names any number of objects, the other      *)
(* requests name one.  The size of an object is the declared one; for a    *)
(* proxy upload it is the length of the body the client sends.             *)
RequestType == [op : Ops, repo : Repos,
                items : Seq([oid : Oids \union {BadOid}, size : Int])]

(* "postgres", "redis" and "s3": a call to the dependency may return an    *)
(* error, with or without having taken effect.  "process": the server may  *)
(* be killed between two calls.                                            *)
FaultKinds == {"postgres", "redis", "s3", "process"}

(* A row of lfs_objects, which is also the value of a cache entry and the  *)
(* LFSObject a request has in hand.                                        *)
Row == [size : Nat, uploaded : BOOLEAN]

ASSUME RequestsAssumption ==
  /\ Requests \subseteq RequestType
  /\ \A j \in Requests : j.op \notin BatchOps => Len(j.items) = 1

ASSUME NoneAssumption ==
  /\ None \notin Row
  /\ None \notin Nat
  /\ None \notin Repos
  /\ None \notin Requests

ASSUME BadOidAssumption == BadOid \notin Oids

ASSUME FaultsAssumption == Faults \subseteq FaultKinds

VARIABLES
  objects,   \* table lfs_objects: oid -> row
  policies,  \* table lfs_object_access_policies: oid -> repository
  cache,     \* Redis, keys lfs:meta:<oid>: oid -> row
  storage,   \* S3: oid -> length of the stored object
  req        \* slot -> the request it serves

vars == <<objects, policies, cache, storage, req>>

-----------------------------------------------------------------------------
(* Steps of a request *)

(* Steps at which the request is about to make a call.                     *)
Pcs == {"idle", "authorize", "find", "findDb", "fill", "insert",
        "cacheSaved", "claim", "put", "update", "cacheUpdated", "get",
        "stream", "done"}

(* Answers to an object of a batch that are ObjectErrors (409, 404, 500).  *)
ObjectErrors == {"conflict", "missing", "error"}

Answers == {"upload", "present", "download"} \union ObjectErrors

(* "none" while the request runs, then what the handler answers; "cutOff"  *)
(* is a 200 whose body did not come to its end.                            *)
Statuses == {"none", "ok", "cutOff", "invalid", "denied", "notFound",
             "notUploaded", "mismatch", "failed", "storageError"}

ReqState == [pc : Pcs, job : Requests \union {None}, i : Nat,
             obj : Row \union {None}, isNew : BOOLEAN, resps : Seq(Answers),
             status : Statuses, stream : Nat \union {None},
             sent : Nat \union {None}]

Idle == [pc |-> "idle", job |-> None, i |-> 0, obj |-> None, isNew |-> FALSE,
         resps |-> <<>>, status |-> "none", stream |-> None, sent |-> None]

Init ==
  /\ objects = [o \in Oids |-> None]
  /\ policies = [o \in Oids |-> None]
  /\ cache = [o \in Oids |-> None]
  /\ storage = [o \in Oids |-> None]
  /\ req = [r \in Slots |-> Idle]

Item(q) == q.job.items[q.i]

Oid(q) == Item(q).oid

At(r, step) == req[r].pc = step

Become(r, q) == req' = [req EXCEPT ![r] = q]

Goto(q, step) == [q EXCEPT !.pc = step]

(* The request is answered as a whole.                                     *)
Finish(q, status) == [q EXCEPT !.pc = "done", !.status = status]

(* The next turn of a batch's loop, or its 200 answer after the last one.  *)
NextItem(q) ==
  IF q.i < Len(q.job.items)
  THEN [q EXCEPT !.pc = "authorize", !.i = q.i + 1, !.obj = None,
                 !.isNew = FALSE]
  ELSE Finish(q, "ok")

(* Mutant of Answer: a refused object is claimed, too.                     *)
AnswerClaimsAll(q, a) ==
  LET answered == [q EXCEPT !.resps = Append(q.resps, a)]
  IN  IF q.isNew THEN Goto(answered, "claim") ELSE NextItem(answered)

(* The answer to one object of a batch.  An upload that Authorize called   *)
(* new, and that was not refused, is then claimed for the repository.      *)
Answer(q, a) ==
  LET answered == [q EXCEPT !.resps = Append(q.resps, a)]
  IN  IF q.isNew /\ a \notin ObjectErrors
      THEN Goto(answered, "claim")
      ELSE NextItem(answered)

(* MarkAsUploaded, on the object in hand.                                  *)
MarkAsUploaded(q) == [q EXCEPT !.obj = [q.obj EXCEPT !.uploaded = TRUE]]

(* Mutant of UploadAnswer: sizes are not compared.                         *)
UploadAnswerAnySize(q) == IF q.obj.uploaded THEN "present" ELSE "upload"

(* HandleUploadObject, on an object that is registered already.            *)
UploadAnswer(q) ==
  IF ~ q.obj.uploaded THEN "upload"
  ELSE IF q.obj.size = Item(q).size THEN "present"
  ELSE "conflict"

(* HandleDownloadObject.                                                   *)
DownloadAnswer(q) == IF q.obj.uploaded THEN "download" ELSE "missing"

(* Execute of a proxy upload: the row's size goes with the body to S3.     *)
ProxyUpload(q) == Goto(q, "put")

(* Execute of a proxy download.                                            *)
ProxyDownload(q) ==
  IF q.obj.uploaded THEN Goto(q, "get") ELSE Finish(q, "notUploaded")

(* VerifyUpload: the size is compared with the row, not with the storage.  *)
VerifyUpload(q) ==
  IF q.obj.size = Item(q).size
  THEN Goto(MarkAsUploaded(q), "update")
  ELSE Finish(q, "mismatch")

(* What each use case does with the object FindByOID returned.             *)
Found(q) ==
  CASE q.job.op = "batchUpload" -> Answer(q, UploadAnswer(q))
    [] q.job.op = "batchDownload" -> Answer(q, DownloadAnswer(q))
    [] q.job.op = "proxyUpload" -> ProxyUpload(q)
    [] q.job.op = "proxyDownload" -> ProxyDownload(q)
    [] q.job.op = "verify" -> VerifyUpload(q)

(* Mutant of NewObject: a new object counts as uploaded.                   *)
NewObjectUploaded(item) == [size |-> item.size, uploaded |-> TRUE]

(* NewLFSObject.                                                           *)
NewObject(item) == [size |-> item.size, uploaded |-> FALSE]

(* FindByOID returned ErrNotFound: a batch upload registers a new object.  *)
NotFound(q) ==
  CASE q.job.op = "batchUpload" ->
         [q EXCEPT !.pc = "insert", !.obj = NewObject(Item(q))]
    [] q.job.op = "batchDownload" -> Answer(q, "missing")
    [] OTHER -> Finish(q, "notFound")

(* Mutant of MetadataError: a batch starts over with the object.           *)
MetadataErrorRetries(q) ==
  IF q.job.op \in BatchOps THEN Goto(q, "find") ELSE Finish(q, "failed")

(* FindByOID, Save or Update returned another error: a batch answers it    *)
(* for the object and goes on, the other requests fail.                    *)
MetadataError(q) ==
  IF q.job.op \in BatchOps THEN Answer(q, "error") ELSE Finish(q, "failed")

-----------------------------------------------------------------------------
(* Requests come and go *)

NewOID(o) == o \in Oids

(* Mutant of NewSize: any number is a size.                                *)
NewSizeUnchecked(n) == n \in Int

NewSize(n) == n >= 0

(* Validate of a batch request.                                            *)
ValidBatch(items) ==
  /\ items # <<>>
  /\ \A k \in 1..Len(items) : NewOID(items[k].oid) /\ NewSize(items[k].size)

(* Validate of a verify request, which does not take an empty object.      *)
ValidVerify(item) == NewOID(item.oid) /\ NewSize(item.size) /\ item.size > 0

(* The check of the proxy handler; the size is the length of a body.       *)
ValidProxy(item) == NewOID(item.oid) /\ NewSize(item.size)

(* The checks of the handlers and of Validate.                             *)
Admissible(j) ==
  CASE j.op \in BatchOps -> ValidBatch(j.items)
    [] j.op \in ProxyOps -> ValidProxy(j.items[1])
    [] j.op = "verify" -> ValidVerify(j.items[1])

(* Verify looks the object up at once, the others first authorize.         *)
Accepted(j) ==
  [Idle EXCEPT !.pc = IF j.op = "verify" THEN "find" ELSE "authorize",
               !.job = j, !.i = 1]

Rejected(j, status) == [Idle EXCEPT !.pc = "done", !.job = j, !.status = status]

(* checkPermissions of the batch handler refuses a caller who may not do   *)
(* the operation; which callers may is left open here.                     *)
CheckPermissions(j) == j.op \in BatchOps

Receive(r) ==
  /\ At(r, "idle")
  /\ \E j \in Requests :
       \/ Admissible(j) /\ Become(r, Accepted(j))
       \/ ~ Admissible(j) /\ Become(r, Rejected(j, "invalid"))
       \/ CheckPermissions(j) /\ Become(r, Rejected(j, "denied"))
  /\ UNCHANGED <<objects, policies, cache, storage>>

Reply(r) ==
  /\ At(r, "done")
  /\ Become(r, Idle)
  /\ UNCHANGED <<objects, policies, cache, storage>>

(* The process serving the request dies: whatever it had in hand is lost.  *)
Crash(r) ==
  /\ "process" \in Faults
  /\ ~ At(r, "idle")
  /\ Become(r, Idle)
  /\ UNCHANGED <<objects, policies, cache, storage>>

-----------------------------------------------------------------------------
(* Authorization *)

IsUpload(j) == j.op \in {"batchUpload", "proxyUpload"}

(* Mutant of AuthorizeResult: IsNewObject is not reported.                 *)
AuthorizeResultNotNew(q, policy) ==
  IF policy = None
  THEN IF IsUpload(q.job) THEN Goto(q, "find") ELSE Finish(q, "denied")
  ELSE IF policy = q.job.repo THEN Goto(q, "find") ELSE Finish(q, "denied")

(* Mutant of AuthorizeResult: the policy of another repository does not    *)
(* stop an upload.                                                         *)
AuthorizeResultAnyOwner(q, policy) ==
  IF policy = q.job.repo THEN Goto(q, "find")
  ELSE IF IsUpload(q.job) THEN [q EXCEPT !.pc = "find", !.isNew = TRUE]
  ELSE Finish(q, "denied")

(* Authorize: an object without a policy may be uploaded by anybody, and   *)
(* is then new; otherwise the repository must be the policy's.             *)
AuthorizeResult(q, policy) ==
  IF policy = None
  THEN IF IsUpload(q.job)
       THEN [q EXCEPT !.pc = "find", !.isNew = TRUE]
       ELSE Finish(q, "denied")
  ELSE IF policy = q.job.repo THEN Goto(q, "find") ELSE Finish(q, "denied")

(* An error of the policy lookup ends a batch, too.                        *)
Authorize(r) ==
  LET q == req[r]
  IN  /\ At(r, "authorize")
      /\ \/ Become(r, AuthorizeResult(q, policies[Oid(q)]))
         \/ /\ "postgres" \in Faults
            /\ Become(r, Finish(q, "failed"))
      /\ UNCHANGED <<objects, policies, cache, storage>>

-----------------------------------------------------------------------------
(* CachingLFSObjectRepository *)

(* GET of the metadata key.  A miss, a Redis error and an entry that       *)
(* cannot be decoded all go on to the database.                            *)
FindCached(r) ==
  LET q == req[r]
      entry == cache[Oid(q)]
  IN  /\ At(r, "find")
      /\ \/ /\ entry # None
            /\ Become(r, Found([q EXCEPT !.obj = entry]))
         \/ /\ entry = None \/ "redis" \in Faults
            /\ Become(r, Goto(q, "findDb"))
      /\ UNCHANGED <<objects, policies, cache, storage>>

(* SELECT of the row.                                                      *)
FindStored(r) ==
  LET q == req[r]
      row == objects[Oid(q)]
  IN  /\ At(r, "findDb")
      /\ \/ /\ row # None
            /\ Become(r, [q EXCEPT !.pc = "fill", !.obj = row])
         \/ /\ row = None
            /\ Become(r, NotFound(q))
         \/ /\ "postgres" \in Faults
            /\ Become(r, MetadataError(q))
      /\ UNCHANGED <<objects, policies, cache, storage>>

(* Mutant of CacheMetadata: every entry says uploaded.                     *)
CacheMetadataUploaded(q) ==
  \/ cache' = [cache EXCEPT ![Oid(q)] = MarkAsUploaded(q).obj]
  \/ "redis" \in Faults /\ UNCHANGED cache

(* cacheMetadata: SET of the object in hand; an error is ignored.          *)
CacheMetadata(q) ==
  \/ cache' = [cache EXCEPT ![Oid(q)] = q.obj]
  \/ "redis" \in Faults /\ UNCHANGED cache

(* The end of FindByOID after a miss.                                      *)
FillCache(r) ==
  /\ At(r, "fill")
  /\ CacheMetadata(req[r])
  /\ Become(r, Found(req[r]))
  /\ UNCHANGED <<objects, policies, storage>>

(* Mutant of Insert: ON CONFLICT DO UPDATE.                                *)
InsertUpserts(r) ==
  LET q == req[r]
  IN  /\ At(r, "insert")
      /\ \/ /\ objects' = [objects EXCEPT ![Oid(q)] = q.obj]
            /\ Become(r, Goto(q, "cacheSaved"))
         \/ /\ "postgres" \in Faults
            /\ UNCHANGED objects
            /\ Become(r, MetadataError(q))
      /\ UNCHANGED <<policies, cache, storage>>

(* Save: INSERT, which the primary key refuses when the row exists.        *)
Insert(r) ==
  LET q == req[r]
      inserted == [objects EXCEPT ![Oid(q)] = q.obj]
  IN  /\ At(r, "insert")
      /\ \/ /\ objects[Oid(q)] = None
            /\ objects' = inserted
            /\ Become(r, Goto(q, "cacheSaved"))
         \/ /\ objects[Oid(q)] # None
            /\ UNCHANGED objects
            /\ Become(r, MetadataError(q))
         \/ /\ "postgres" \in Faults
            /\ \/ UNCHANGED objects
               \/ objects[Oid(q)] = None /\ objects' = inserted
            /\ Become(r, MetadataError(q))
      /\ UNCHANGED <<policies, cache, storage>>

(* The end of Save: the client is told to upload.                          *)
CacheSaved(r) ==
  /\ At(r, "cacheSaved")
  /\ CacheMetadata(req[r])
  /\ Become(r, Answer(req[r], "upload"))
  /\ UNCHANGED <<objects, policies, storage>>

(* Update: UPDATE of every column with the object in hand; no row to       *)
(* update is an error.                                                     *)
Update(r) ==
  LET q == req[r]
      updated == [objects EXCEPT ![Oid(q)] = q.obj]
  IN  /\ At(r, "update")
      /\ \/ /\ objects[Oid(q)] # None
            /\ objects' = updated
            /\ Become(r, Goto(q, "cacheUpdated"))
         \/ /\ objects[Oid(q)] = None
            /\ UNCHANGED objects
            /\ Become(r, Finish(q, "failed"))
         \/ /\ "postgres" \in Faults
            /\ \/ UNCHANGED objects
               \/ objects[Oid(q)] # None /\ objects' = updated
            /\ Become(r, Finish(q, "failed"))
      /\ UNCHANGED <<policies, cache, storage>>

(* The end of Update and of the request.  Verify then deletes the batch    *)
(* key, which no code of the server ever sets.                             *)
CacheUpdated(r) ==
  /\ At(r, "cacheUpdated")
  /\ CacheMetadata(req[r])
  /\ Become(r, Finish(req[r], "ok"))
  /\ UNCHANGED <<objects, policies, storage>>

(* Mutant of Expire: entries are set without a TTL.                        *)
ExpireNever(o) == o \notin Oids /\ UNCHANGED vars

(* A metadata entry reaches its TTL (or Redis evicts it, or restarts).     *)
Expire(o) ==
  /\ cache[o] # None
  /\ cache' = [cache EXCEPT ![o] = None]
  /\ UNCHANGED <<objects, policies, storage, req>>

-----------------------------------------------------------------------------
(* Access policy and object storage *)

(* createAccessPolicy: an upsert that overwrites the repository of a       *)
(* policy that exists by now; the foreign key wants the object's row.  An  *)
(* error ends the batch, with what it has done so far left in place.       *)
Claim(r) ==
  LET q == req[r]
      claimed == [policies EXCEPT ![Oid(q)] = q.job.repo]
  IN  /\ At(r, "claim")
      /\ \/ /\ objects[Oid(q)] # None
            /\ policies' = claimed
            /\ Become(r, NextItem(q))
         \/ /\ objects[Oid(q)] = None
            /\ UNCHANGED policies
            /\ Become(r, Finish(q, "failed"))
         \/ /\ "postgres" \in Faults
            /\ \/ UNCHANGED policies
               \/ objects[Oid(q)] # None /\ policies' = claimed
            /\ Become(r, Finish(q, "failed"))
      /\ UNCHANGED <<objects, cache, storage>>

(* Mutant of Put: whatever the client sends is stored.                     *)
PutAnyLength(r) ==
  LET q == req[r]
  IN  /\ At(r, "put")
      /\ \/ /\ storage' = [storage EXCEPT ![Oid(q)] = Item(q).size]
            /\ Become(r, Goto(MarkAsUploaded(q), "update"))
         \/ /\ "s3" \in Faults
            /\ UNCHANGED storage
            /\ Become(r, Finish(q, "storageError"))
      /\ UNCHANGED <<objects, policies, cache>>

(* PutObject sends the body under the row's size as Content-Length.  A     *)
(* body of another length fails the call, but for an empty object, of      *)
(* which the SDK does not send the body at all.                            *)
Fits(body, size) == body = size \/ size = 0

(* Mutant of Put: the error of PutObject is dropped.                       *)
PutUnchecked(r) ==
  LET q == req[r]
      fits == Fits(Item(q).size, q.obj.size)
  IN  /\ At(r, "put")
      /\ \/ fits /\ storage' = [storage EXCEPT ![Oid(q)] = q.obj.size]
         \/ (~ fits \/ "s3" \in Faults) /\ UNCHANGED storage
      /\ Become(r, Goto(MarkAsUploaded(q), "update"))
      /\ UNCHANGED <<objects, policies, cache>>

(* PutObject.  A body that is too short never completes the call; of one   *)
(* that is too long the first bytes may be stored before the client        *)
(* notices.                                                                *)
Put(r) ==
  LET q == req[r]
      body == Item(q).size
      stored == [storage EXCEPT ![Oid(q)] = q.obj.size]
  IN  /\ At(r, "put")
      /\ \/ /\ Fits(body, q.obj.size)
            /\ storage' = stored
            /\ Become(r, Goto(MarkAsUploaded(q), "update"))
         \/ /\ ~ Fits(body, q.obj.size) \/ "s3" \in Faults
            /\ \/ UNCHANGED storage
               \/ body >= q.obj.size /\ storage' = stored
            /\ Become(r, Finish(q, "storageError"))
      /\ UNCHANGED <<objects, policies, cache>>

Opened(q, length) == [q EXCEPT !.pc = "stream", !.stream = length]

(* Mutant of Get: a missing object is opened as an empty stream.           *)
GetEmpty(r) ==
  LET q == req[r]
      length == IF storage[Oid(q)] = None THEN 0 ELSE storage[Oid(q)]
  IN  /\ At(r, "get")
      /\ \/ Become(r, Opened(q, length))
         \/ /\ "s3" \in Faults
            /\ Become(r, Finish(q, "storageError"))
      /\ UNCHANGED <<objects, policies, cache, storage>>

(* GetObject opens the object as it is stored now.                         *)
Get(r) ==
  LET q == req[r]
  IN  /\ At(r, "get")
      /\ \/ /\ storage[Oid(q)] # None
            /\ Become(r, Opened(q, storage[Oid(q)]))
         \/ /\ storage[Oid(q)] = None \/ "s3" \in Faults
            /\ Become(r, Finish(q, "storageError"))
      /\ UNCHANGED <<objects, policies, cache, storage>>

Sent(q, n, status) == [q EXCEPT !.pc = "done", !.status = status, !.sent = n]

(* The handler announces the size of the object in hand, answers 200 and   *)
(* only then copies the stream.  At any byte S3 may fail, a timeout (of    *)
(* the proxy or of the server's writes) expire or the client go away: the  *)
(* body ends there and the connection is closed.  Nor does the server send *)
(* more than was announced.                                                *)
Stream(r) ==
  LET q == req[r]
  IN  /\ At(r, "stream")
      /\ \/ /\ q.stream <= q.obj.size
            /\ Become(r, Sent(q, q.stream, "ok"))
         \/ \E n \in 0..q.stream :
              /\ n <= q.obj.size
              /\ Become(r, Sent(q, n, "cutOff"))
      /\ UNCHANGED <<objects, policies, cache, storage>>

-----------------------------------------------------------------------------

(* The steps a request takes by itself once it was received.               *)
Step(r) ==
  \/ Authorize(r)
  \/ FindCached(r)
  \/ FindStored(r)
  \/ FillCache(r)
  \/ Insert(r)
  \/ CacheSaved(r)
  \/ Claim(r)
  \/ Put(r)
  \/ Update(r)
  \/ CacheUpdated(r)
  \/ Get(r)
  \/ Stream(r)
  \/ Reply(r)

Next ==
  \/ \E r \in Slots : Receive(r) \/ Step(r) \/ Crash(r)
  \/ \E o \in Oids : Expire(o)

(* Every call returns, if only with a timeout, so a request keeps moving,  *)
(* and the server's write timeout ends a download that the client does not *)
(* read; Redis drops an entry 30 minutes after it was set.                 *)
Fairness ==
  /\ \A r \in Slots : WF_vars(Step(r))
  /\ \A o \in Oids : WF_vars(Expire(o))

Spec == Init /\ [][Next]_vars

FairSpec == Spec /\ Fairness

-----------------------------------------------------------------------------
(* Properties *)

(* Type invariant of the tables, the cache, the storage and the requests.  *)
TypeOK ==
  /\ objects \in [Oids -> Row \union {None}]
  /\ policies \in [Oids -> Repos \union {None}]
  /\ cache \in [Oids -> Row \union {None}]
  /\ storage \in [Oids -> Nat \union {None}]
  /\ req \in [Slots -> ReqState]

(* Of two versions of the objects table, the second keeps every row of the *)
(* first with its size, and its uploaded flag if set.                      *)
Advances(old, new) ==
  \A o \in Oids :
    old[o] # None =>
      /\ new[o] # None
      /\ new[o].size = old[o].size
      /\ old[o].uploaded => new[o].uploaded

(* A row of lfs_objects is never lost, its size never changes and its      *)
(* uploaded flag is never reset, although Update writes every column from  *)
(* an object that was read earlier, often from the cache, while other      *)
(* requests were updating the same row.                                    *)
RowsOnlyAdvance == [][Advances(objects, objects')]_objects

(* The cache may lag behind the database but never invents: an entry has a *)
(* row behind it, of the same size, and says uploaded only if the row      *)
(* does.  CachingLFSObjectRepository writes the database first and sets    *)
(* the cache in a later call that other requests may overtake.             *)
CacheNeverAhead ==
  \A o \in Oids :
    cache[o] # None =>
      /\ objects[o] # None
      /\ cache[o].size = objects[o].size
      /\ cache[o].uploaded => objects[o].uploaded

(* What is stored under an object's key is as long as its row says: the    *)
(* Content-Length given to PutObject comes from the row or from a cache    *)
(* entry, and uploads of different lengths compete for the same key.       *)
StoredAsRegistered ==
  \A o \in Oids :
    storage[o] # None =>
      objects[o] # None /\ storage[o] = objects[o].size

(* What a client makes of a 200: it has the object if it received as many  *)
(* bytes as were announced, and otherwise knows that it has not.           *)
Served(q) ==
  q.job # None /\ q.job.op = "proxyDownload" /\ q.status \in {"ok", "cutOff"} =>
    /\ q.sent = q.obj.size <=> q.sent = q.stream
    /\ q.status = "ok" => q.sent = q.obj.size

(* A download that was cut off after its 200 is never taken for a complete *)
(* one, nor a complete one for cut off: the client receives the announced  *)
(* number of bytes exactly if it receives the whole stored object, and     *)
(* does so unless the copy fails.  The Content-Length is the size of the   *)
(* row or cache entry looked up, the body whatever storage held when it    *)
(* was opened later, with verify and other uploads in between.             *)
DownloadsComplete == \A r \in Slots : Served(req[r])

(* The writes that need a row find it: the foreign key never refuses a     *)
(* policy and Update always hits a row, also when the row was only seen    *)
(* through the cache or was inserted by another request.                   *)
WritesFindTheirRow ==
  \A r \in Slots :
    req[r].pc \in {"claim", "put", "update"} => objects[Oid(req[r])] # None

(* The answer a to a batch operation on an object is true of its row and   *)
(* its owner.                                                              *)
AnswerHolds(a, item, row, owner) ==
  /\ a \notin {"missing", "error"} => row # None
  /\ a \in {"present", "download", "conflict"} => row.uploaded
  /\ a = "present" => row.size = item.size
  /\ a = "conflict" => row.size # item.size
  /\ a = "download" => owner # None

(* What a batch has told its client so far is true of the tables.          *)
AnswersHold(q, rows, owners) ==
  \A k \in 1..Len(q.resps) :
    LET item == q.job.items[k]
    IN  AnswerHolds(q.resps[k], item, rows[item.oid], owners[item.oid])

(* Every answer a batch has given still holds when the batch ends, however *)
(* long it took: "upload" names a registered object, "present" an uploaded *)
(* one of the size asked for, "download" an uploaded object that belongs   *)
(* to a repository.                                                        *)
BatchAnswersHold ==
  \A r \in Slots :
    LET q == req[r]
    IN  q.job # None /\ q.job.op \in BatchOps =>
          AnswersHold(q, objects, policies)

(* A batch upload that is answered 200 leaves each object it accepted with *)
(* a policy, whichever request created it; without one nobody could        *)
(* download the object.                                                    *)
AcceptedObjectsAreOwned ==
  \A r \in Slots :
    LET q == req[r]
    IN  q.job # None /\ q.job.op = "batchUpload" /\ q.status = "ok" =>
          \A k \in 1..Len(q.job.items) :
            q.resps[k] \notin ObjectErrors =>
              policies[q.job.items[k].oid] # None

(* An object marked as uploaded is in storage.                             *)
UploadedIsStored ==
  \A o \in Oids :
    objects[o] # None /\ objects[o].uploaded => storage[o] # None

(* Every request is answered, whatever fails on the way.                   *)
RequestsEnd == \A r \in Slots : ~ At(r, "idle") ~> At(r, "idle")

(* The calls a request makes at most before it is answered, the answer     *)
(* included.  An object takes up to 7: those of a proxy upload.            *)
CallsAt(pc) ==
  CASE pc = "authorize" -> 8
    [] pc = "find" -> 7
    [] pc = "findDb" -> 6
    [] pc = "fill" -> 5
    [] pc \in {"insert", "put"} -> 4
    [] pc \in {"cacheSaved", "update", "get"} -> 3
    [] pc \in {"cacheUpdated", "claim", "stream"} -> 2
    [] pc = "done" -> 1
    [] pc = "idle" -> 0

CallsLeft(q) ==
  CallsAt(q.pc) + (IF q.pc \in {"idle", "done"}
                   THEN 0 ELSE 7 * (Len(q.job.items) - q.i))

(* A request makes a bounded number of calls: 7 for each object it names,  *)
(* whatever fails, whatever the cache holds and whatever others do in the  *)
(* meantime.  Each step brings it closer to its answer; no error path and  *)
(* no miss of the cache leads back.                                        *)
CallsAreBounded ==
  [][\A r \in Slots :
       \/ req'[r] = req[r]
       \/ CallsLeft(req'[r]) \in 0..(CallsLeft(req[r]) - 1)
       \/ At(r, "idle") /\ CallsLeft(req'[r]) \in 0..(7 * Len(req'[r].job.items) + 1)]_vars

(* A stale cache entry does not survive: some time after an object was     *)
(* uploaded the cache stops denying it for good.  Until then a request     *)
(* that read the row before the upload may put the old row back.           *)
StaleEntriesHeal ==
  \A o \in Oids :
    (objects[o] # None /\ objects[o].uploaded)
      ~> [](cache[o] # None => cache[o].uploaded)

(* The object is uploaded and nothing denies it any more: neither its      *)
(* entry nor a request about to set the entry.                             *)
Healed(o) ==
  /\ objects[o] # None /\ objects[o].uploaded
  /\ cache[o] # None => cache[o].uploaded
  /\ \A r \in Slots :
       req[r].pc \in {"fill", "cacheSaved"} /\ Oid(req[r]) = o => req[r].obj.uploaded

(* The repository of a policy does not change: an upload for an object     *)
(* that belongs to another repository is refused.                          *)
OwnersDoNotChange ==
  [][\A o \in Oids :
       policies[o] # None => policies'[o] = policies[o]]_policies

(* A batch of another repository than the owner's was authorized before    *)
(* the object had a policy and may still claim it.                         *)
Claimant(q, o) ==
  /\ q.pc \notin {"idle", "authorize", "done"}
  /\ q.job.op = "batchUpload"
  /\ q.isNew
  /\ Oid(q) = o

Contested(o) ==
  \E r \in Slots : Claimant(req[r], o) /\ req[r].job.repo # policies[o]

(* The owner changes only in the race of first uploads: an object with a   *)
(* policy that no batch authorized before the policy still competes for    *)
(* keeps its repository, and no batch starts to compete for it, although   *)
(* createAccessPolicy overwrites whatever policy it finds.                 *)
OwnersSettle ==
  [][\A o \in Oids :
       policies[o] # None /\ ~ Contested(o) =>
         policies'[o] = policies[o] /\ ~ Contested(o)']_vars

(* After an Update has returned, the cache does not show the object as it  *)
(* was before.                                                             *)
UpdateRefreshesCache ==
  \A r \in Slots :
    LET q == req[r]
    IN  q.job # None /\ q.job.op \in {"proxyUpload", "verify"}
                     /\ q.status = "ok" =>
          (cache[Oid(q)] # None => cache[Oid(q)].uploaded)
-----------------------------------------------------------------------------
(* The inductive invariant *)

(* Where a request may be: the steps of each use case, and what it has in  *)
(* hand there.                                                             *)
Control(q) ==
  /\ q.pc = "idle" => q = Idle
  /\ q.pc # "idle" => q.job \in Requests /\ (q.isNew => IsUpload(q.job))
  /\ q.pc \notin {"idle", "done"} =>
       /\ Admissible(q.job)
       /\ q.i \in 1..Len(q.job.items)
       /\ q.status = "none"
  /\ q.pc = "authorize" => ~ q.isNew
  /\ q.pc \in {"fill", "insert", "cacheSaved", "claim", "put", "update",
               "cacheUpdated", "get", "stream"} => q.obj \in Row
  /\ q.pc \in {"insert", "cacheSaved", "claim"} => q.job.op = "batchUpload"
  /\ q.pc = "put" => q.job.op = "proxyUpload"
  /\ q.pc \in {"update", "cacheUpdated"} =>
       q.job.op \in {"proxyUpload", "verify"}
  /\ q.pc \in {"get", "stream"} => q.job.op = "proxyDownload"
  /\ q.pc = "insert" => ~ q.obj.uploaded
  /\ q.pc \in {"update", "cacheUpdated", "get"} => q.obj.uploaded
  /\ q.pc = "stream" => q.stream = q.obj.size

(* The object in hand against its row.  It is ahead of the row only        *)
(* between MarkAsUploaded and the UPDATE.                                  *)
InHand(q, rows) ==
  /\ q.pc \in {"fill", "cacheSaved", "claim", "put", "update",
               "cacheUpdated", "get"} =>
       rows[Oid(q)] # None /\ rows[Oid(q)].size = q.obj.size
  /\ q.pc \in {"fill", "cacheSaved", "put", "cacheUpdated", "get"} =>
       (q.obj.uploaded => rows[Oid(q)].uploaded)

(* What Authorize established about the object at hand still holds.        *)
AuthorizedStill(q, owners) ==
  q.pc \notin {"idle", "done", "authorize"} /\ q.job.op \in BatchOps
    /\ ~ q.isNew => owners[Oid(q)] # None

(* A batch has answered the objects handled so far.                        *)
Answered(q) ==
  q.job # None /\ q.job.op \in BatchOps =>
    /\ q.pc # "done" =>
         Len(q.resps) = IF q.pc = "claim" THEN q.i ELSE q.i - 1
    /\ Len(q.resps) <= Len(q.job.items)
    /\ q.resps # <<>> => Admissible(q.job)
    /\ q.status = "ok" => Len(q.resps) = Len(q.job.items)
    /\ q.pc = "claim" => q.isNew

(* Each upload a batch accepted is owned, but for the one about to be      *)
(* claimed and the one whose claim failed.                                 *)
Owned(q, owners) ==
  q.job # None /\ q.job.op = "batchUpload"
    /\ (q.pc # "done" \/ q.status = "ok") =>
    \A k \in 1..Len(q.resps) :
      q.resps[k] \notin ObjectErrors /\ ~ (q.pc = "claim" /\ k = q.i) =>
        owners[q.job.items[k].oid] # None

(* All that is known of a request.                                         *)
RequestInv(q, rows, owners) ==
  /\ Control(q)
  /\ InHand(q, rows)
  /\ AuthorizedStill(q, owners)
  /\ Answered(q)
  /\ q.job # None /\ q.job.op \in BatchOps => AnswersHold(q, rows, owners)
  /\ Owned(q, owners)
  /\ Served(q)

(* A policy belongs to a row: the foreign key of the policies table.       *)
PoliciesHaveRows ==
  \A o \in Oids : policies[o] # None => objects[o] # None

(* The inductive invariant: every step preserves it, and it implies the    *)
(* safety invariants above.                                                *)
IInv ==
  /\ TypeOK
  /\ CacheNeverAhead
  /\ StoredAsRegistered
  /\ PoliciesHaveRows
  /\ \A r \in Slots : RequestInv(req[r], objects, policies)

-----------------------------------------------------------------------------
(* Refinement *)

Registry == INSTANCE ObjectRegistry WITH
  objects <- objects, policies <- policies, storage <- storage

(* The server implements ObjectRegistry: hiding the cache and the requests *)
(* in flight, each step registers, stores, completes or assigns one object *)
(* or changes nothing.                                                     *)
ImplementsRegistry == Registry!Spec
=============================================================================
