------------------------ MODULE RepositoryAllowlist ------------------------
(***************************************************************************)
(* The repositories whose workflows may use cargohold: a table in          *)
(* PostgreSQL, and in Redis a cache of single answers in front of it       *)
(* (CachingRepositoryAllowlist).  IsAllowed is called for every request    *)
(* with a GitHub Actions token.  Add and Remove are the interface offered  *)
(* to an administrator; the table may also be changed by SQL.              *)
(*                                                                         *)
(* Every call to Redis and to PostgreSQL is a step of its own.  Nothing    *)
(* orders the SET of one call after the DELETE and DEL of another.         *)
(***************************************************************************)
EXTENDS Naturals

CONSTANTS
  Slots,       \* the calls that can be in flight at the same time
  Repos,       \* full names (owner/repo) of repositories
  Faults,      \* the dependencies that may fail
  MaxChanges,  \* bound: how often an administrator acts
  None         \* no repository, no answer

(* "redis" and "postgres": a call may return an error, with or without     *)
(* having taken effect.  "process": the server may be killed.              *)
ASSUME FaultsAssumption == Faults \subseteq {"redis", "postgres", "process"}

ASSUME MaxChangesAssumption == MaxChanges \in Nat

ASSUME NoneAssumption ==
  None \notin Repos /\ None \notin [key : Repos, value : BOOLEAN]

VARIABLES
  table,     \* repository_allowlist: repository -> it has a row
  cache,     \* Redis, keys lfs:oidc:github:repo:<repository>
  req,       \* slot -> the call it serves
  changes,   \* how often an administrator has acted
  removed    \* history: repositories whose removal is complete

vars == <<table, cache, req, changes, removed>>

(* The string stored for an answer.                                        *)
Encode(allowed) == IF allowed THEN "true" ELSE "false"

Decode(val) == val = "true"

Cached == {"true", "false", "absent"}

Pcs == {"idle", "checkCache", "exists", "setCache", "insert", "delete",
        "delCache", "done"}

Call == [pc : Pcs, op : {"none", "isAllowed", "add", "remove"},
         repo : Repos \union {None}, allowed : BOOLEAN,
         status : {"none", "ok", "error", "notFound"}]

Idle == [pc |-> "idle", op |-> "none", repo |-> None, allowed |-> FALSE,
         status |-> "none"]

Init ==
  /\ table \in [Repos -> BOOLEAN]
  /\ cache = [k \in Repos |-> "absent"]
  /\ req = [r \in Slots |-> Idle]
  /\ changes = 0
  /\ removed = {}

At(r, step) == req[r].pc = step

Become(r, q) == req' = [req EXCEPT ![r] = q]

Goto(q, step) == [q EXCEPT !.pc = step]

Finish(q, status) == [q EXCEPT !.pc = "done", !.status = status]

Start(r, op, step) ==
  /\ At(r, "idle")
  /\ \E k \in Repos :
       Become(r, [Idle EXCEPT !.pc = step, !.op = op, !.repo = k])

(* A call that will store "true" for k, whatever happens in the meantime.  *)
WillAllow(r, k) == At(r, "setCache") /\ req[r].repo = k /\ req[r].allowed

-----------------------------------------------------------------------------
(* IsAllowed *)

(* Mutant of IsAllowed: the cache key is made without the repository.      *)
IsAllowedNoRepo(r) ==
  /\ At(r, "idle")
  /\ Become(r, [Idle EXCEPT !.pc = "checkCache", !.op = "isAllowed"])
  /\ UNCHANGED <<table, cache, changes, removed>>

IsAllowed(r) ==
  /\ Start(r, "isAllowed", "checkCache")
  /\ UNCHANGED <<table, cache, changes, removed>>

(* checkCache: what is cached is the answer; a miss and an error of Redis  *)
(* lead to the table.                                                      *)
CheckCache(r) ==
  LET q == req[r]
  IN  /\ At(r, "checkCache")
      /\ \/ /\ cache[q.repo] # "absent"
            /\ Become(r, Finish([q EXCEPT !.allowed = Decode(cache[q.repo])], "ok"))
         \/ /\ cache[q.repo] = "absent" \/ "redis" \in Faults
            /\ Become(r, Goto(q, "exists"))
      /\ UNCHANGED <<table, cache, changes, removed>>

(* Mutant of Exists: a failed query is taken for a repository without row. *)
ExistsOrRefuse(r) ==
  LET q == req[r]
  IN  /\ At(r, "exists")
      /\ \E found \in {table[q.repo]} \union (IF "postgres" \in Faults THEN {FALSE} ELSE {}) :
           Become(r, [q EXCEPT !.pc = "setCache", !.allowed = found])
      /\ UNCHANGED <<table, cache, changes, removed>>

(* SELECT EXISTS.                                                          *)
Exists(r) ==
  LET q == req[r]
  IN  /\ At(r, "exists")
      /\ \/ Become(r, [q EXCEPT !.pc = "setCache", !.allowed = table[q.repo]])
         \/ "postgres" \in Faults /\ Become(r, Finish(q, "error"))
      /\ UNCHANGED <<table, cache, changes, removed>>

(* setCache, the last step of IsAllowed and of Add; an error is ignored.   *)
SetCache(r) ==
  LET q == req[r]
  IN  /\ At(r, "setCache")
      /\ \/ cache' = [cache EXCEPT ![q.repo] = Encode(q.allowed)]
         \/ "redis" \in Faults /\ UNCHANGED cache
      /\ Become(r, Finish(q, "ok"))
      /\ UNCHANGED <<table, changes, removed>>

-----------------------------------------------------------------------------
(* Add and Remove *)

Add(r) ==
  /\ changes < MaxChanges
  /\ Start(r, "add", "insert")
  /\ changes' = changes + 1
  /\ UNCHANGED <<table, cache, removed>>

(* INSERT ... ON CONFLICT DO NOTHING.                                      *)
Insert(r) ==
  LET q == req[r]
      Inserted == /\ table' = [table EXCEPT ![q.repo] = TRUE]
                  /\ removed' = removed \ {q.repo}
  IN  /\ At(r, "insert")
      /\ \/ /\ Inserted
            /\ Become(r, [q EXCEPT !.pc = "setCache", !.allowed = TRUE])
         \/ /\ "postgres" \in Faults
            /\ Inserted \/ UNCHANGED <<table, removed>>
            /\ Become(r, Finish(q, "error"))
      /\ UNCHANGED <<cache, changes>>

Remove(r) ==
  /\ changes < MaxChanges
  /\ Start(r, "remove", "delete")
  /\ changes' = changes + 1
  /\ UNCHANGED <<table, cache, removed>>

(* DELETE; without a row the call ends with an error and leaves the cache. *)
Delete(r) ==
  LET q == req[r]
      deleted == [table EXCEPT ![q.repo] = FALSE]
  IN  /\ At(r, "delete")
      /\ \/ /\ table[q.repo]
            /\ table' = deleted
            /\ Become(r, Goto(q, "delCache"))
         \/ /\ ~ table[q.repo]
            /\ UNCHANGED table
            /\ Become(r, Finish(q, "notFound"))
         \/ /\ "postgres" \in Faults
            /\ UNCHANGED table \/ table' = deleted
            /\ Become(r, Finish(q, "error"))
      /\ UNCHANGED <<cache, changes, removed>>

(* The removal of k is complete when its cache entry is deleted while k    *)
(* has no row and no other call is about to store "true" for it.           *)
Complete(k) == ~ table[k] /\ \A r \in Slots : ~ WillAllow(r, k)

(* Mutant of DelCache: Remove leaves the cache entry to its TTL.           *)
KeepCache(r) ==
  LET q == req[r]
  IN  /\ At(r, "delCache")
      /\ removed' = removed \union {k \in {q.repo} : Complete(k)}
      /\ Become(r, Finish(q, "ok"))
      /\ UNCHANGED <<table, cache, changes>>

(* DEL of the cache entry; an error is ignored.                            *)
DelCache(r) ==
  LET q == req[r]
  IN  /\ At(r, "delCache")
      /\ \/ /\ cache' = [cache EXCEPT ![q.repo] = "absent"]
            /\ removed' = removed \union {k \in {q.repo} : Complete(k)}
         \/ /\ "redis" \in Faults
            /\ UNCHANGED <<cache, removed>>
      /\ Become(r, Finish(q, "ok"))
      /\ UNCHANGED <<table, changes>>

Return(r) ==
  /\ At(r, "done")
  /\ Become(r, Idle)
  /\ UNCHANGED <<table, cache, changes, removed>>

-----------------------------------------------------------------------------
(* The environment *)

(* A row is inserted or deleted with SQL, past the cache.                  *)
ChangeBySQL(k) ==
  /\ changes < MaxChanges
  /\ table' = [table EXCEPT ![k] = ~ @]
  /\ changes' = changes + 1
  /\ removed' = removed \ {k}
  /\ UNCHANGED <<cache, req>>

(* Mutant of Expire: "true" is stored without a TTL.                       *)
ExpireRefusals(k) ==
  /\ cache[k] = "false"
  /\ cache' = [cache EXCEPT ![k] = "absent"]
  /\ UNCHANGED <<table, req, changes, removed>>

(* A cache entry reaches its TTL of 5 minutes.                             *)
Expire(k) ==
  /\ cache[k] # "absent"
  /\ cache' = [cache EXCEPT ![k] = "absent"]
  /\ UNCHANGED <<table, req, changes, removed>>

(* The server is killed and started again.                                 *)
Restart ==
  /\ "process" \in Faults
  /\ req' = [r \in Slots |-> Idle]
  /\ UNCHANGED <<table, cache, changes, removed>>

Step(r) ==
  \/ CheckCache(r)
  \/ Exists(r)
  \/ SetCache(r)
  \/ Insert(r)
  \/ Delete(r)
  \/ DelCache(r)
  \/ Return(r)

Next ==
  \/ \E r \in Slots :
       \/ IsAllowed(r)
       \/ Add(r)
       \/ Remove(r)
       \/ Step(r)
  \/ \E k \in Repos :
       \/ ChangeBySQL(k)
       \/ Expire(k)
  \/ Restart

Spec == Init /\ [][Next]_vars

(* A call that has started goes on: Redis and PostgreSQL answer, if only   *)
(* with an error.  Redis enforces the TTL.                                 *)
Fairness ==
  /\ \A r \in Slots : WF_vars(Step(r))
  /\ \A k \in Repos : WF_vars(Expire(k))

FairSpec == Spec /\ Fairness

-----------------------------------------------------------------------------
(* Properties *)

(* Type invariant of the table, the cache and the calls.                   *)
TypeOK ==
  /\ table \in [Repos -> BOOLEAN]
  /\ cache \in [Repos -> Cached]
  /\ req \in [Slots -> Call]
  /\ \A r \in Slots : ~ At(r, "idle") => req[r].repo \in Repos
  /\ changes \in Nat
  /\ removed \subseteq Repos

(* The values an answer about k may have: the row, the cache entry and     *)
(* what calls are about to store.                                          *)
Held(k) ==
  {table[k]}
    \union {Decode(val) : val \in {cache[k]} \ {"absent"}}
    \union {req[r].allowed : r \in {s \in Slots : At(s, "setCache") /\ req[s].repo = k}}

(* IsAllowed has found its answer; it may still have to store it.          *)
Decided(r) ==
  /\ req[r].op = "isAllowed"
  /\ req[r].pc \in {"setCache", "done"}
  /\ req[r].status # "error"

Copies == INSTANCE LaggingCopies WITH
  Readers <- Slots, Keys <- Repos, Values <- BOOLEAN,
  source <- table,
  held <- [k \in Repos |-> Held(k)],
  answer <- [r \in Slots |-> IF Decided(r)
                             THEN [key |-> req[r].repo, value |-> req[r].allowed]
                             ELSE None]

(* Refinement: IsAllowed only ever answers with what the table says or     *)
(* said of that very repository and a copy still holds, whatever fails and *)
(* however Add, Remove and other calls run in between: an error is never   *)
(* turned into an answer, and a value that has left the cache, the table   *)
(* and the calls in flight does not come back by itself.                   *)
NeverInvented == Copies!LagSpec

(* Once an administrator no longer changes the list, every answer comes to *)
(* agree with the table, although a call that read the table before a      *)
(* Remove writes the cache after it, and although Add and Remove ignore    *)
(* that Redis failed: the TTL ends what is stale.                          *)
StalenessEnds == Copies!Settles

(* A removal that is complete holds: when Remove has deleted the cache     *)
(* entry with no other call about to store an answer it read before, no    *)
(* IsAllowed decides for the repository until it is added again.           *)
CompleteRemovalHolds ==
  [][\A r \in Slots :
       /\ req[r].op = "isAllowed"
       /\ ~ req[r].allowed
       /\ req'[r].allowed
       => req[r].repo \notin removed]_vars

-----------------------------------------------------------------------------
(* Inductive invariant *)

(* What the step of a call says about the call.                            *)
CallSane ==
  \A r \in Slots :
    /\ At(r, "idle") => req[r] = Idle
    /\ req[r].pc \in {"checkCache", "exists"} =>
         req[r].op = "isAllowed" /\ ~ req[r].allowed
    /\ req[r].pc \in {"insert", "delete", "delCache"} =>
         req[r].op \in {"add", "remove"} /\ ~ req[r].allowed
    /\ ~ At(r, "done") => req[r].status = "none"
    /\ At(r, "done") => req[r].status # "none"

(* Nothing says of a repository whose removal is complete that it is       *)
(* allowed.                                                                *)
RemovedIsGone ==
  \A k \in removed :
    /\ ~ table[k]
    /\ cache[k] # "true"
    /\ \A r \in Slots : ~ WillAllow(r, k)

IInv == TypeOK /\ CallSane /\ RemovedIsGone
=============================================================================
