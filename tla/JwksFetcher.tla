----------------------------- MODULE JwksFetcher -----------------------------
(***************************************************************************)
(* How cargohold finds the public key a GitHub Actions token is signed     *)
(* with (JWKSFetcher.GetPublicKey): from the key set cached in Redis if    *)
(* the key is in it, otherwise from GitHub's JWKS endpoint, whose answer   *)
(* then replaces what is cached.                                           *)
(*                                                                         *)
(* GitHub rotates its keys at any time.  Calls run concurrently, so that   *)
(* an older key set can replace a newer one in the cache.                  *)
(***************************************************************************)
EXTENDS Naturals

CONSTANTS
  Slots,         \* the calls that can be in flight at the same time
  Kids,          \* key identifiers
  Faults,        \* the dependencies that may fail
  MaxRotations,  \* bound: how often GitHub changes its key set
  None           \* nothing cached, no key, no answer

(* "redis" and "github": a call may return an error.  "process": the       *)
(* server may be killed.                                                   *)
ASSUME FaultsAssumption == Faults \subseteq {"redis", "github", "process"}

ASSUME MaxRotationsAssumption == MaxRotations \in Nat

ASSUME NoneAssumption ==
  /\ None \notin Kids
  /\ \A s \in SUBSET Kids : None # s
  /\ None \notin [key : {"github"}, value : SUBSET Kids]

VARIABLES
  published,  \* what a 200 of the endpoint decodes to: the usable RSA keys
  cache,      \* Redis, key lfs:oidc:jwks:github: a key set or nothing
  req,        \* slot -> the call it serves
  rotations   \* how often GitHub has changed its key set

vars == <<published, cache, req, rotations>>

(* steady is history: the key has been published since the call began.     *)
Call == [pc : {"idle", "getCache", "fetch", "setCache", "done"},
         kid : Kids \union {None}, jwkSet : SUBSET Kids,
         status : {"none", "found", "notFound", "fetchFailed"},
         steady : BOOLEAN]

Idle == [pc |-> "idle", kid |-> None, jwkSet |-> {}, status |-> "none",
         steady |-> FALSE]

Init ==
  /\ published \in SUBSET Kids
  /\ cache = None
  /\ req = [r \in Slots |-> Idle]
  /\ rotations = 0

At(r, step) == req[r].pc = step

Become(r, q) == req' = [req EXCEPT ![r] = q]

(* findPublicKey: a key of that identifier, of type RSA, that parses.      *)
FindPublicKey(jwkSet, kid) == kid \in jwkSet

(* The call ends with what it finds in a key set.                          *)
FinishWith(q, jwkSet) ==
  [q EXCEPT !.pc = "done", !.jwkSet = jwkSet,
            !.status = IF FindPublicKey(jwkSet, q.kid) THEN "found" ELSE "notFound"]

(* Mutant of GetPublicKey: called for a token without a key identifier.    *)
GetPublicKeyNoKid(r) ==
  /\ At(r, "idle")
  /\ Become(r, [Idle EXCEPT !.pc = "getCache"])
  /\ UNCHANGED <<published, cache, rotations>>

GetPublicKey(r) ==
  /\ At(r, "idle")
  /\ \E k \in Kids :
       Become(r, [Idle EXCEPT !.pc = "getCache", !.kid = k,
                              !.steady = k \in published])
  /\ UNCHANGED <<published, cache, rotations>>

(* Mutant of GetCache: the cached key set is final.                        *)
GetCacheFinal(r) ==
  LET q == req[r]
  IN  /\ At(r, "getCache")
      /\ Become(r, IF cache = None THEN [q EXCEPT !.pc = "fetch"] ELSE FinishWith(q, cache))
      /\ UNCHANGED <<published, cache, rotations>>

(* GetJSON; without the key in the cached set, or when Redis fails, the    *)
(* endpoint is asked.                                                      *)
GetCache(r) ==
  LET q == req[r]
  IN  /\ At(r, "getCache")
      /\ \/ /\ cache # None
            /\ FindPublicKey(cache, q.kid)
            /\ Become(r, FinishWith(q, cache))
         \/ /\ \/ cache = None
               \/ cache # None /\ ~ FindPublicKey(cache, q.kid)
               \/ "redis" \in Faults
            /\ Become(r, [q EXCEPT !.pc = "fetch"])
      /\ UNCHANGED <<published, cache, rotations>>

(* Mutant of FetchJWKSet: the answer of a failing endpoint is parsed as an *)
(* empty key set.                                                          *)
FetchAnyStatus(r) ==
  LET q == req[r]
  IN  /\ At(r, "fetch")
      /\ \E s \in {published} \union (IF "github" \in Faults THEN {{}} ELSE {}) :
           Become(r, [q EXCEPT !.pc = "setCache", !.jwkSet = s])
      /\ UNCHANGED <<published, cache, rotations>>

(* fetchJWKSet: no connection, another status than 200 and a body that is  *)
(* cut off or does not parse are errors.  A 200 with any JSON object is a  *)
(* key set: the endpoint then publishes what it decodes to, {} where the   *)
(* object has no keys.                                                     *)
FetchJWKSet(r) ==
  LET q == req[r]
  IN  /\ At(r, "fetch")
      /\ \/ Become(r, [q EXCEPT !.pc = "setCache", !.jwkSet = published])
         \/ /\ "github" \in Faults
            /\ Become(r, [q EXCEPT !.pc = "done", !.status = "fetchFailed"])
      /\ UNCHANGED <<published, cache, rotations>>

(* SetJSON, whose error is ignored; the answer comes from the fetched set. *)
SetCache(r) ==
  LET q == req[r]
  IN  /\ At(r, "setCache")
      /\ \/ cache' = q.jwkSet
         \/ "redis" \in Faults /\ UNCHANGED cache
      /\ Become(r, FinishWith(q, q.jwkSet))
      /\ UNCHANGED <<published, rotations>>

Return(r) ==
  /\ At(r, "done")
  /\ Become(r, Idle)
  /\ UNCHANGED <<published, cache, rotations>>

-----------------------------------------------------------------------------
(* The environment *)

(* GitHub publishes another key set, or for a while something that decodes *)
(* to one without keys.                                                    *)
Rotate ==
  /\ rotations < MaxRotations
  /\ \E s \in SUBSET Kids :
       /\ s # published
       /\ published' = s
       /\ req' = [r \in Slots |->
                    [req[r] EXCEPT !.steady = @ /\ req[r].kid \in s]]
  /\ rotations' = rotations + 1
  /\ UNCHANGED cache

(* Mutant of Expire: the key set is stored without a TTL.                  *)
ExpireNever ==
  /\ cache = {}
  /\ cache' = None
  /\ UNCHANGED <<published, req, rotations>>

(* The cached key set reaches its TTL of 24 hours.                         *)
Expire ==
  /\ cache # None
  /\ cache' = None
  /\ UNCHANGED <<published, req, rotations>>

(* The server is killed and started again.                                 *)
Restart ==
  /\ "process" \in Faults
  /\ req' = [r \in Slots |-> Idle]
  /\ UNCHANGED <<published, cache, rotations>>

Step(r) == GetCache(r) \/ FetchJWKSet(r) \/ SetCache(r) \/ Return(r)

Next ==
  \/ \E r \in Slots : GetPublicKey(r) \/ Step(r)
  \/ Rotate
  \/ Expire
  \/ Restart

Spec == Init /\ [][Next]_vars

(* A call that has started goes on, the HTTP client having a timeout of 10 *)
(* seconds.  Redis enforces the TTL.                                       *)
Fairness == WF_vars(Expire) /\ \A r \in Slots : WF_vars(Step(r))

FairSpec == Spec /\ Fairness

-----------------------------------------------------------------------------
(* Properties *)

(* Type invariant of the endpoint, the cache and the calls.                *)
TypeOK ==
  /\ published \in SUBSET Kids
  /\ cache = None \/ cache \in SUBSET Kids
  /\ req \in [Slots -> Call]
  /\ \A r \in Slots : ~ At(r, "idle") => req[r].kid \in Kids
  /\ rotations \in Nat

(* A key that GitHub publishes from the beginning to the end of the call   *)
(* is not refused as unknown, however old the cached key set is and        *)
(* whichever call has just replaced it: a new key works at once.           *)
SteadyKeyIsFound ==
  \A r \in Slots : req[r].status = "notFound" => ~ req[r].steady

(* The cache key is made from the name of the provider.                    *)
Providers == {"github"}

(* The call has the key set it looks its key up in.                        *)
Chosen(r) == At(r, "setCache") \/ req[r].status \in {"found", "notFound"}

(* The key sets a lookup may use: the one of now, the cached one and those *)
(* that calls are about to store.                                          *)
HeldSets ==
  {published} \union ({cache} \ {None})
    \union {req[r].jwkSet : r \in {s \in Slots : At(s, "setCache")}}

Copies == INSTANCE LaggingCopies WITH
  Readers <- Slots, Keys <- Providers, Values <- SUBSET Kids,
  source <- [p \in Providers |-> published],
  held <- [p \in Providers |-> HeldSets],
  answer <- [r \in Slots |->
               IF Chosen(r) THEN [key |-> "github", value |-> req[r].jwkSet]
                            ELSE None]

(* Refinement: a call looks its key up in the key set of now or in an      *)
(* earlier one that the cache or another call still holds, as a whole:     *)
(* failures of Redis and of the endpoint never make a key set of their own.*)
KeySetsArePublished == Copies!LagSpec

(* Once GitHub no longer changes its keys, every call comes to work with   *)
(* the current key set, so that a withdrawn key is refused, although late  *)
(* calls put older sets back into the cache: the TTL ends what is stale.   *)
RotationSettles == Copies!Settles

-----------------------------------------------------------------------------
(* Inductive invariant *)

(* What the step and the status of a call say about it.                    *)
CallSane ==
  \A r \in Slots :
    /\ At(r, "idle") => req[r] = Idle
    /\ ~ At(r, "done") => req[r].status = "none"
    /\ At(r, "done") => req[r].status # "none"
    /\ req[r].status = "found" => req[r].kid \in req[r].jwkSet
    /\ req[r].steady => req[r].kid \in published

(* A set fetched during the call holds the key if it is published          *)
(* throughout; a call that has not found its key has such a set.           *)
FetchedIsFresh ==
  \A r \in Slots :
    At(r, "setCache") \/ req[r].status = "notFound" =>
      (req[r].steady => req[r].kid \in req[r].jwkSet)

(* A key is found or not in the set the call ended with.                   *)
NotFoundIsMissing ==
  \A r \in Slots : req[r].status = "notFound" => req[r].kid \notin req[r].jwkSet

IInv == TypeOK /\ CallSane /\ FetchedIsFresh /\ NotFoundIsMissing
==============================================================================
