-------------------------- MODULE OAuthLoginProofs --------------------------
(***************************************************************************)
(* Proofs about OAuthLogin, for every number of concurrent requests, users,*)
(* repositories and URIs and every combination of faults.                  *)
(***************************************************************************)
EXTENDS OAuthLogin, TLAPS

-----------------------------------------------------------------------------
(* The invariant, step by step *)

(* The record of an idle slot is well-formed.                              *)
LEMMA IdleControl ==
  ASSUME NEW sent, NEW begun
  PROVE  Idle \in ReqState /\ Control(Idle, sent, begun)
BY DEF Idle, ReqState, Pcs, Statuses, Levels, Control, Late

(* So is the record of a request that has been answered.                   *)
LEMMA FinishControl ==
  ASSUME NEW sent, NEW begun, NEW q \in ReqState, Control(q, sent, begun),
         q.pc # "idle", NEW x \in Statuses
  PROVE  /\ Finish(q, x) \in ReqState
         /\ Control(Finish(q, x), sent, begun)
         /\ Finish(q, x).pc = "done"
BY DEF Finish, ReqState, Pcs, Control, Late

(* A step of one request that takes over no login preserves the invariant. *)
(* It may drop states, set the redirect URI, hand out an authorization URL *)
(* and have a code exchanged that the request holds.                       *)
LEMMA RequestMoves ==
  ASSUME IInv, NEW r \in Slots, NEW Q \in ReqState, Become(r, Q),
         Control(Q, codes, started),
         \A s \in States :
           Holds(Q, s) => Holds(req[r], s) /\ (req[r].pc \in Late => Q.pc \in Late),
         states' \in [States -> OAuthState \union {None}],
         \A s \in States : states'[s] \in {states[s], None},
         shared' \in [ptr : AllowedURIs \union {None},
                      len : AllowedURIs \union {None}],
         authURLs' \subseteq [state : States, uri : ReadURIs],
         \A a \in authURLs' : started[a.state] # None,
         \/ spent' = spent
         \/ /\ spent' = spent \union {[code |-> req[r].code, state |-> req[r].state]}
            /\ req[r].code \in codes
            /\ req[r].state \in States
            /\ Holds(req[r], req[r].state)
            /\ Q.pc \in Late \union {"done"},
         UNCHANGED <<sessions, codes, started, issued>>
  PROVE  IInv'
<1>1. /\ req' \in [Slots -> ReqState]
      /\ req'[r] = Q
      /\ \A s \in Slots \ {r} : req'[s] = req[s]
  BY DEF IInv, TypeOK, Become
<1>2. TypeOK'
  <2>1. spent' \subseteq [code : codes, state : States]
    BY DEF IInv, TypeOK
  <2> QED
    BY <1>1, <2>1, URIsAssumption DEF IInv, TypeOK
<1>3. OnePlace'
  BY <1>1 DEF IInv, OnePlace, OneSessionPerLogin, TypeOK, Session
<1>4. Unspent'
  <2> SUFFICES ASSUME NEW x \in spent'
               PROVE  /\ states'[x.state] = None
                      /\ \A s \in Slots :
                           Holds(req'[s], x.state) => req'[s].pc \in Late
    BY DEF Unspent
  <2>1. CASE x \in spent
    <3>1. x.state \in States
      BY <2>1 DEF IInv, TypeOK
    <3> QED
      BY <1>1, <2>1, <3>1 DEF IInv, Unspent
  <2>2. CASE x \notin spent
    <3>1. /\ x.state = req[r].state /\ x.state \in States
          /\ Holds(req[r], x.state)
          /\ Q.pc \in Late \union {"done"}
      BY <2>2
    <3>2. states[x.state] = None
      BY <3>1 DEF IInv, OnePlace
    <3>3. \A s \in Slots \ {r} : ~ Holds(req[s], x.state)
      BY <3>1 DEF IInv, OnePlace
    <3>4. Holds(Q, x.state) => Q.pc \in Late
      BY <3>1 DEF Holds
    <3> QED
      BY <1>1, <3>1, <3>2, <3>3, <3>4
  <2> QED
    BY <2>1, <2>2
<1>5. ASSUME NEW s \in Slots
      PROVE  Control(req'[s], codes', started')
  BY <1>1 DEF IInv
<1>6. Traceable'
  <2>1. ASSUME NEW x \in spent', x \notin spent
        PROVE  started[x.state] # None
    <3>1. x.state = req[r].state /\ Holds(req[r], req[r].state)
      BY <2>1
    <3>2. Control(req[r], codes, started)
      BY DEF IInv
    <3> QED
      BY <3>1, <3>2, NoneAssumption DEF Control, Holds
  <2> QED
    BY <2>1 DEF IInv, Traceable, TypeOK
<1>7. SessionsAreEntitled'
  BY DEF IInv, SessionsAreEntitled
<1> QED
  BY <1>2, <1>3, <1>4, <1>5, <1>6, <1>7 DEF IInv

(* What the invariant says of one request and of the shared variables.     *)
LEMMA InFlight ==
  ASSUME IInv, NEW r \in Slots
  PROVE  /\ req[r] \in ReqState
         /\ Control(req[r], codes, started)
         /\ states \in [States -> OAuthState \union {None}]
         /\ shared \in [ptr : AllowedURIs \union {None},
                        len : AllowedURIs \union {None}]
         /\ authURLs \subseteq [state : States, uri : ReadURIs]
         /\ \A a \in authURLs : started[a.state] # None
         /\ started \in [States -> OAuthState \union {None}]
         /\ codes \subseteq Code
BY DEF IInv, TypeOK, Traceable

(* The case of a step that changes nothing but the request and the states. *)
LEMMA RequestMovesAlone ==
  ASSUME IInv, NEW r \in Slots, NEW Q \in ReqState, Become(r, Q),
         Control(Q, codes, started),
         \A s \in States :
           Holds(Q, s) => Holds(req[r], s) /\ (req[r].pc \in Late => Q.pc \in Late),
         states' \in [States -> OAuthState \union {None}],
         \A s \in States : states'[s] \in {states[s], None},
         UNCHANGED <<sessions, shared, authURLs, codes, spent, started, issued>>
  PROVE  IInv'
BY InFlight, RequestMoves

(* A code that was exchanged came with a state that had been given out.    *)
LEMMA UsedStates ==
  ASSUME IInv, NEW s \in States, started[s] = None
  PROVE  \A x \in spent : x.state # s
BY DEF IInv, Traceable

(* A request that is refused or fails lets go of its login.                *)
LEMMA FinishInv ==
  ASSUME IInv, NEW r \in Slots, NEW x \in Statuses, req[r].pc # "idle",
         Become(r, Finish(req[r], x)),
         states' \in [States -> OAuthState \union {None}],
         \A s \in States : states'[s] \in {states[s], None},
         UNCHANGED <<sessions, shared, authURLs, codes, spent, started, issued>>
  PROVE  IInv'
<1>1. /\ Finish(req[r], x) \in ReqState
      /\ Control(Finish(req[r], x), codes, started)
      /\ Finish(req[r], x).pc = "done"
  BY InFlight, FinishControl
<1>2. \A s : ~ Holds(Finish(req[r], x), s)
  BY <1>1 DEF Holds
<1> QED
  BY <1>1, <1>2, RequestMovesAlone

(* A state parameter that was not given out yet is unknown to everyone.    *)
LEMMA FreshState ==
  ASSUME IInv, NEW s \in States, started[s] = None
  PROVE  /\ states[s] = None
         /\ \A r \in Slots : ~ Holds(req[r], s)
         /\ \A i \in SessionIDs : sessions[i] # None => sessions[i].login # s
         /\ \A a \in authURLs : a.state # s
         /\ \A c \in codes : c.state # s
<1>1. \A c \in codes : c.state # s
  BY DEF IInv, Traceable
<1>2. ASSUME NEW r \in Slots, Holds(req[r], s)
      PROVE  FALSE
  <2>1. req[r].pc \notin {"idle", "takeState", "done"} /\ req[r].state = s
    BY <1>2 DEF Holds
  <2> QED
    BY <2>1, InFlight, NoneAssumption DEF Control
<1>3. \A i \in SessionIDs : sessions[i] # None => sessions[i].login # s
  BY DEF IInv, SessionsAreEntitled
<1> QED
  BY <1>1, <1>2, <1>3 DEF IInv, Traceable

(* A request that a handler refuses touches nothing.                       *)
LEMMA BadRequestInv ==
  ASSUME IInv, NEW r \in Slots, NEW op \in {"login", "callback"},
         BadRequest(r, op)
  PROVE  IInv'
<1> DEFINE Q == Finish([Idle EXCEPT !.op = op], "badRequest")
<1>1. Q \in ReqState /\ Q.pc = "done" /\ Q.op = op
  BY DEF Finish, Idle, ReqState, Pcs, Statuses, Levels
<1>2. Become(r, Q)
  BY DEF BadRequest
<1> HIDE DEF Q
<1>3. Control(Q, codes, started) /\ \A s : ~ Holds(Q, s)
  BY <1>1 DEF Control, Holds, Late
<1> QED
  BY <1>1, <1>2, <1>3, InFlight, RequestMovesAlone DEF BadRequest

(* A login is refused, or begins under a state parameter of its own.       *)
LEMMA StartAuthenticationInv ==
  ASSUME IInv, NEW r \in Slots, StartAuthentication(r)
  PROVE  IInv'
<1>1. PICK d \in OAuthState :
        \/ /\ d.uri \notin AllowedURIs
           /\ Become(r, Finish([Idle EXCEPT !.op = "login"], "invalidURI"))
           /\ UNCHANGED started
        \/ /\ d.uri \in AllowedURIs
           /\ \E s \in States :
                /\ started[s] = None
                /\ started' = [started EXCEPT ![s] = d]
                /\ Become(r, [Idle EXCEPT !.pc = "saveState", !.op = "login",
                                          !.state = s, !.data = d])
  BY DEF StartAuthentication
<1>2. UNCHANGED <<states, sessions, shared, authURLs, codes, spent, issued>>
  BY DEF StartAuthentication
<1>3. CASE /\ Become(r, Finish([Idle EXCEPT !.op = "login"], "invalidURI"))
           /\ UNCHANGED started
  <2> DEFINE Q == Finish([Idle EXCEPT !.op = "login"], "invalidURI")
  <2>1. Q \in ReqState /\ Q.pc = "done" /\ Q.op = "login"
    BY DEF Finish, Idle, ReqState, Pcs, Statuses, Levels
  <2> HIDE DEF Q
  <2>2. Control(Q, codes, started) /\ \A s : ~ Holds(Q, s)
    BY <2>1 DEF Control, Holds, Late
  <2>3. Become(r, Q)
    BY <1>3 DEF Q
  <2> QED
    BY <1>2, <1>3, <2>1, <2>2, <2>3, InFlight, RequestMovesAlone
<1>4. CASE \E s \in States :
             /\ d.uri \in AllowedURIs
             /\ started[s] = None
             /\ started' = [started EXCEPT ![s] = d]
             /\ Become(r, [Idle EXCEPT !.pc = "saveState", !.op = "login",
                                       !.state = s, !.data = d])
  <2>1. PICK s \in States :
             /\ d.uri \in AllowedURIs
             /\ started[s] = None
             /\ started' = [started EXCEPT ![s] = d]
             /\ Become(r, [Idle EXCEPT !.pc = "saveState", !.op = "login",
                                       !.state = s, !.data = d])
    BY <1>4
  <2> DEFINE Q == [Idle EXCEPT !.pc = "saveState", !.op = "login",
                               !.state = s, !.data = d]
  <2>2. /\ Q \in ReqState /\ Q.pc = "saveState" /\ Q.op = "login"
        /\ Q.state = s /\ Q.data = d
    BY DEF Idle, ReqState, Pcs, Statuses, Levels
  <2>3. Become(r, Q)
    BY <2>1
  <2> HIDE DEF Q
  <2>4. \A t \in States : Holds(Q, t) <=> t = s
    BY <2>2 DEF Holds
  <2>5. /\ started' \in [States -> OAuthState \union {None}]
        /\ started'[s] = d
        /\ \A t \in States \ {s} : started'[t] = started[t]
    BY <2>1, InFlight
  <2>6. /\ req' \in [Slots -> ReqState]
        /\ req'[r] = Q
        /\ \A x \in Slots \ {r} : req'[x] = req[x]
    BY <2>2, <2>3 DEF IInv, TypeOK, Become
  <2>7. TypeOK'
    BY <1>2, <2>5, <2>6 DEF IInv, TypeOK
  <2>8. OnePlace'
    BY <1>2, <2>1, <2>4, <2>6, FreshState
    DEF IInv, OnePlace, OneSessionPerLogin, TypeOK, Session
  <2>9. Unspent'
    <3>1. \A x \in spent : x.state \in States /\ x.state # s
      BY UsedStates, <2>1 DEF IInv, TypeOK
    <3> QED
      BY <1>2, <2>4, <2>6, <3>1 DEF IInv, Unspent
  <2>10. ASSUME NEW x \in Slots
         PROVE  Control(req'[x], codes', started')
    <3>1. CASE x = r
      BY <2>2, <2>5, <2>6, <3>1 DEF Control, Late
    <3>2. CASE x # r
      <4>1. Control(req[x], codes, started) /\ req'[x] = req[x] /\ codes' = codes
        BY <1>2, <2>6, <3>2, InFlight
      <4>2. req[x].pc \notin {"idle", "takeState", "done"} => req[x].state # s
        BY <2>1, <4>1, NoneAssumption DEF Control
      <4> QED
        BY <2>5, <4>1, <4>2 DEF Control
    <3> QED
      BY <3>1, <3>2
  <2>11. Traceable'
    BY <1>2, <2>1, <2>5, FreshState DEF IInv, Traceable, TypeOK, Code
  <2>12. SessionsAreEntitled'
    BY <1>2, <2>1, <2>5, FreshState DEF IInv, SessionsAreEntitled, TypeOK, Session
  <2> QED
    BY <2>7, <2>8, <2>9, <2>10, <2>11, <2>12 DEF IInv
<1> QED
  BY <1>1, <1>3, <1>4

(* The login moves from the request to Redis, whatever the call returns.   *)
LEMMA SaveStateInv ==
  ASSUME IInv, NEW r \in Slots, SaveState(r)
  PROVE  IInv'
<1> DEFINE q == req[r]
           saved == [states EXCEPT ![q.state] = q.data]
<1>1. /\ q \in ReqState /\ q.pc = "saveState" /\ q.op = "login"
      /\ q.state \in States /\ q.data \in OAuthState
      /\ started[q.state] = q.data /\ Holds(q, q.state)
      /\ UNCHANGED <<sessions, shared, authURLs, codes, spent, started, issued>>
  BY InFlight DEF SaveState, At, Control, Holds
<1>2. PICK Q \in {Goto(q, "setURI"), Finish(q, "stateSaveFailed")} :
        Become(r, Q) /\ (states' = states \/ states' = saved)
  BY DEF SaveState
<1>3. Q \in ReqState /\ Control(Q, codes, started) /\ \A s : ~ Holds(Q, s)
  <2>1. CASE Q = Finish(q, "stateSaveFailed")
    BY <1>1, <2>1, InFlight, FinishControl DEF Statuses, Holds
  <2>2. CASE Q = Goto(q, "setURI")
    <3>1. /\ Q \in ReqState /\ Q.pc = "setURI" /\ Q.op = "login"
          /\ Q.state = q.state /\ Q.data = q.data
      BY <1>1, <2>2 DEF Goto, ReqState, Pcs
    <3> QED
      BY <1>1, <3>1 DEF Control, Holds, Late
  <2> QED
    BY <2>1, <2>2
<1>4. CASE states' = states
  BY <1>1, <1>2, <1>3, <1>4, InFlight, RequestMovesAlone
<1>5. CASE states' = saved
  <2>1. /\ states' \in [States -> OAuthState \union {None}]
        /\ states'[q.state] = q.data
        /\ \A t \in States \ {q.state} : states'[t] = states[t]
    BY <1>1, <1>5, InFlight
  <2>2. /\ req' \in [Slots -> ReqState]
        /\ req'[r] = Q
        /\ \A x \in Slots \ {r} : req'[x] = req[x]
    BY <1>2, <1>3 DEF IInv, TypeOK, Become
  <2>3. TypeOK'
    BY <1>1, <2>1, <2>2 DEF IInv, TypeOK
  <2>4. /\ \A x \in Slots \ {r} : ~ Holds(req[x], q.state)
        /\ \A i \in SessionIDs :
             sessions[i] # None => sessions[i].login # q.state
        /\ \A c \in spent : c.state # q.state
    BY <1>1 DEF IInv, OnePlace, Unspent, Late
  <2>5. OnePlace'
    BY <1>1, <1>3, <2>1, <2>2, <2>4
    DEF IInv, OnePlace, OneSessionPerLogin, TypeOK, Session
  <2>6. Unspent'
    BY <1>1, <1>3, <2>1, <2>2, <2>4 DEF IInv, Unspent, TypeOK, Code
  <2>7. ASSUME NEW x \in Slots
        PROVE  Control(req'[x], codes', started')
    BY <1>1, <1>3, <2>2, InFlight
  <2>8. Traceable'
    BY <1>1, <2>1 DEF IInv, Traceable, TypeOK
  <2>9. SessionsAreEntitled'
    BY <1>1 DEF IInv, SessionsAreEntitled
  <2> QED
    BY <2>3, <2>5, <2>6, <2>7, <2>8, <2>9 DEF IInv
<1> QED
  BY <1>2, <1>4, <1>5

(* Setting the redirect URI, a word at a time.                             *)
LEMMA SetRedirectURIInv ==
  ASSUME IInv, NEW r \in Slots, SetRedirectURI(r) \/ SetRedirectURIRest(r)
  PROVE  IInv'
<1> DEFINE q == req[r]
<1>1. /\ q \in ReqState /\ q.pc \in {"setURI", "setURIRest"}
      /\ q.op \in {"login", "callback"} /\ Control(q, codes, started)
      /\ UNCHANGED <<states, sessions, authURLs, codes, spent, started, issued>>
  BY InFlight DEF SetRedirectURI, SetRedirectURIRest, At, ReqState, Control
<1>2. PICK step \in {"setURIRest", "authURL", "exchange"} :
        /\ Become(r, Goto(q, step))
        /\ step = "authURL" => q.op = "login"
        /\ step = "exchange" => q.op = "callback"
  BY <1>1 DEF SetRedirectURI, SetRedirectURIRest
<1> DEFINE Q == Goto(q, step)
<1>3. /\ Q \in ReqState /\ Q.pc = step /\ Q.op = q.op /\ Q.state = q.state
      /\ Q.data = q.data /\ Q.code = q.code
  BY <1>1 DEF Goto, ReqState, Pcs
<1>4. Become(r, Q)
  BY <1>2
<1> HIDE DEF Q
<1>5. Control(Q, codes, started)
  BY <1>1, <1>2, <1>3 DEF Control, Late
<1>6. \A s \in States : Holds(Q, s) => Holds(q, s)
  BY <1>1, <1>2, <1>3 DEF Holds
<1>7. q.pc \notin Late
  BY <1>1 DEF Late
<1>8. q.data.uri \in AllowedURIs
  BY <1>1, NoneAssumption DEF IInv, Traceable, Control
<1>9. shared' \in [ptr : AllowedURIs \union {None}, len : AllowedURIs \union {None}]
  BY <1>8, InFlight DEF SetRedirectURI, SetRedirectURIRest
<1> HIDE DEF q
<1> QED
  BY <1>1, <1>3, <1>4, <1>5, <1>6, <1>7, <1>9, InFlight, RequestMoves DEF q

(* The authorization URL names a login that was started.                   *)
LEMMA GetAuthorizationURLInv ==
  ASSUME IInv, NEW r \in Slots, GetAuthorizationURL(r)
  PROVE  IInv'
<1>1. PICK u \in Readable :
        authURLs' = authURLs \union {[state |-> req[r].state, uri |-> u]}
  BY DEF GetAuthorizationURL
<1>2. /\ req[r].pc = "authURL"
      /\ UNCHANGED <<states, sessions, shared, codes, spent, started, issued>>
      /\ Become(r, Finish(req[r], "ok"))
  BY DEF GetAuthorizationURL, At
<1>3. req[r].state \in States /\ started[req[r].state] # None
  BY <1>2, InFlight, NoneAssumption DEF Control
<1>4. u \in ReadURIs
  BY <1>1, InFlight, URIsAssumption DEF Readable, ReadURIs
<1>5. /\ Finish(req[r], "ok") \in ReqState
      /\ Control(Finish(req[r], "ok"), codes, started)
      /\ \A s : ~ Holds(Finish(req[r], "ok"), s)
  BY <1>2, InFlight, FinishControl DEF Statuses, Holds
<1>6. /\ authURLs' \subseteq [state : States, uri : ReadURIs]
      /\ \A a \in authURLs' : started[a.state] # None
  BY <1>1, <1>3, <1>4, InFlight
<1> QED
  BY <1>2, <1>5, <1>6, InFlight, RequestMoves

(* GitHub issues a code for a login that was started.                      *)
LEMMA AuthorizeInv ==
  ASSUME IInv, Authorize
  PROVE  IInv'
<1>1. PICK a \in authURLs, u \in Users :
        /\ a.uri \in AllowedURIs
        /\ codes' = codes \union {[user |-> u, state |-> a.state, uri |-> a.uri]}
  BY DEF Authorize
<1>2. UNCHANGED <<states, sessions, shared, req, authURLs, spent, started, issued>>
  BY DEF Authorize
<1>3. a.state \in States /\ a.uri \in URIs /\ started[a.state] # None
  BY <1>1, URIsAssumption DEF IInv, TypeOK, Traceable
<1>4. TypeOK'
  BY <1>1, <1>2, <1>3 DEF IInv, TypeOK, Code
<1>5. OnePlace' /\ Unspent' /\ SessionsAreEntitled'
  BY <1>2 DEF IInv, OnePlace, OneSessionPerLogin, Unspent, SessionsAreEntitled
<1>6. ASSUME NEW x \in Slots
      PROVE  Control(req'[x], codes', started')
  BY <1>1, <1>2, InFlight DEF Control
<1>7. Traceable'
  BY <1>1, <1>2, <1>3 DEF IInv, Traceable
<1> QED
  BY <1>4, <1>5, <1>6, <1>7 DEF IInv

(* A callback arrives with a code that was issued.                         *)
LEMMA HandleCallbackInv ==
  ASSUME IInv, NEW r \in Slots, HandleCallback(r)
  PROVE  IInv'
<1>1. PICK c \in codes, s \in States :
        Become(r, [Idle EXCEPT !.pc = "takeState", !.op = "callback",
                               !.state = s, !.code = c])
  BY DEF HandleCallback
<1> DEFINE Q == [Idle EXCEPT !.pc = "takeState", !.op = "callback",
                             !.state = s, !.code = c]
<1>2. c \in Code
  BY InFlight
<1>3. /\ Q \in ReqState /\ Q.pc = "takeState" /\ Q.op = "callback"
      /\ Q.state = s /\ Q.code = c
  BY <1>2 DEF Idle, ReqState, Pcs, Statuses, Levels
<1>4. Become(r, Q)
  BY <1>1
<1> HIDE DEF Q
<1>5. Control(Q, codes, started) /\ \A t : ~ Holds(Q, t)
  BY <1>3 DEF Control, Holds, Late
<1> QED
  BY <1>3, <1>4, <1>5, InFlight, RequestMovesAlone DEF HandleCallback

(* The login moves from Redis to the one callback that finds it there.     *)
LEMMA GetAndDeleteStateInv ==
  ASSUME IInv, NEW r \in Slots, GetAndDeleteState(r)
  PROVE  IInv'
<1> DEFINE q == req[r]
           s == q.state
           taken == [states EXCEPT ![s] = None]
           Q == [q EXCEPT !.pc = "setURI", !.data = states[s]]
<1>1. /\ q \in ReqState /\ q.pc = "takeState" /\ q.op = "callback"
      /\ q.code \in codes /\ s \in States
      /\ Control(q, codes, started)
      /\ UNCHANGED <<sessions, shared, authURLs, codes, spent, started, issued>>
  BY InFlight DEF GetAndDeleteState, At, Control, Late, Code
<1>2. /\ taken \in [States -> OAuthState \union {None}]
      /\ taken[s] = None
      /\ \A t \in States \ {s} : taken[t] = states[t]
  BY <1>1, InFlight
<1>3. \/ states[s] # None /\ states' = taken /\ Become(r, Q)
      \/ states' \in {states, taken} /\ Become(r, Finish(q, "invalidState"))
  BY DEF GetAndDeleteState
<1>4. CASE states' \in {states, taken} /\ Become(r, Finish(q, "invalidState"))
  BY <1>1, <1>2, <1>4, InFlight, FinishInv DEF Statuses
<1>5. CASE states[s] # None /\ states' = taken /\ Become(r, Q)
  <2>1. states[s] \in OAuthState /\ started[s] = states[s]
    BY <1>1, <1>5, InFlight DEF IInv, Traceable
  <2>2. /\ Q \in ReqState /\ Q.pc = "setURI" /\ Q.op = "callback"
        /\ Q.state = s /\ Q.data = states[s] /\ Q.code = q.code
    BY <1>1, <2>1 DEF ReqState, Pcs
  <2>3. Become(r, Q) /\ states' = taken
    BY <1>5
  <2> HIDE DEF Q, taken
  <2>4. \A t \in States : Holds(Q, t) <=> t = s
    BY <2>2 DEF Holds
  <2>5. Control(Q, codes, started)
    BY <1>1, <2>1, <2>2 DEF Control, Late
  <2>6. /\ req' \in [Slots -> ReqState]
        /\ req'[r] = Q
        /\ \A x \in Slots \ {r} : req'[x] = req[x]
    BY <2>2, <2>3 DEF IInv, TypeOK, Become
  <2>7. TypeOK'
    BY <1>1, <1>2, <2>3, <2>6 DEF IInv, TypeOK
  <2>8. /\ \A x \in Slots : ~ Holds(req[x], s)
        /\ \A i \in SessionIDs : sessions[i] # None => sessions[i].login # s
        /\ \A c \in spent : c.state # s
    BY <1>1, <1>5 DEF IInv, OnePlace, Unspent
  <2>9. OnePlace'
    BY <1>1, <1>2, <2>3, <2>4, <2>6, <2>8
    DEF IInv, OnePlace, OneSessionPerLogin, TypeOK, Session
  <2>10. Unspent'
    BY <1>1, <1>2, <2>3, <2>4, <2>6, <2>8 DEF IInv, Unspent, TypeOK, Code
  <2>11. ASSUME NEW x \in Slots
         PROVE  Control(req'[x], codes', started')
    BY <1>1, <2>5, <2>6, InFlight
  <2>12. Traceable'
    BY <1>1, <1>2, <2>3 DEF IInv, Traceable, TypeOK
  <2>13. SessionsAreEntitled'
    BY <1>1 DEF IInv, SessionsAreEntitled
  <2> QED
    BY <2>7, <2>9, <2>10, <2>11, <2>12, <2>13 DEF IInv
<1> QED
  BY <1>3, <1>4, <1>5

(* The code is exchanged by the callback that holds its login.             *)
LEMMA ExchangeCodeInv ==
  ASSUME IInv, NEW r \in Slots, ExchangeCode(r)
  PROVE  IInv'
<1> DEFINE q == req[r]
<1>1. /\ q \in ReqState /\ q.pc = "exchange" /\ q.op = "callback"
      /\ q.code \in codes /\ q.state \in States
      /\ Control(q, codes, started) /\ Holds(q, q.state)
      /\ UNCHANGED <<states, sessions, shared, authURLs, codes, started, issued>>
  BY InFlight DEF ExchangeCode, At, Control, Late, Holds
<1>2. PICK Q \in {Goto(q, "userInfo"), Finish(q, "exchangeFailed")} :
        /\ Become(r, Q)
        /\ spent' \in {spent, spent \union {[code |-> q.code, state |-> q.state]}}
  BY DEF ExchangeCode
<1>3. /\ Q \in ReqState /\ Control(Q, codes, started)
      /\ Q.pc \in Late \union {"done"}
      /\ \A s \in States : Holds(Q, s) => Holds(q, s) /\ Q.pc \in Late
  <2>1. CASE Q = Finish(q, "exchangeFailed")
    BY <1>1, <2>1, FinishControl DEF Statuses, Holds
  <2>2. CASE Q = Goto(q, "userInfo")
    <3>1. /\ Q \in ReqState /\ Q.pc = "userInfo" /\ Q.op = q.op
          /\ Q.state = q.state /\ Q.data = q.data /\ Q.code = q.code
      BY <1>1, <2>2 DEF Goto, ReqState, Pcs
    <3> QED
      BY <1>1, <3>1 DEF Control, Holds, Late
  <2> QED
    BY <2>1, <2>2
<1> HIDE DEF q
<1> QED
  BY <1>1, <1>2, <1>3, InFlight, RequestMoves DEF q

(* The two questions to GitHub; the second one asks for the repository the *)
(* login was started for.                                                  *)
LEMMA GitHubInv ==
  ASSUME IInv, NEW r \in Slots, GetUserInfo(r) \/ GetRepositoryPermissions(r)
  PROVE  IInv'
<1> DEFINE q == req[r]
           level == Access[q.code.user][q.data.repo]
           Q1 == Goto(q, "permissions")
           Q2 == [q EXCEPT !.pc = "createSession", !.level = level]
<1>1. /\ q \in ReqState /\ q.pc \in Late /\ q.op = "callback"
      /\ q.code \in Code /\ q.data \in OAuthState /\ Control(q, codes, started)
      /\ UNCHANGED <<states, sessions, shared, authURLs, codes, spent, started,
                     issued>>
  BY InFlight DEF GetUserInfo, GetRepositoryPermissions, At, Control, Late
<1>2. \/ Become(r, Q1)
      \/ CanDownload(level) /\ Become(r, Q2)
      \/ \E x \in {"userInfoFailed", "denied", "checkFailed"} :
           Become(r, Finish(q, x))
  BY DEF GetUserInfo, GetRepositoryPermissions
<1>3. CASE Become(r, Q1)
  <2>1. /\ Q1 \in ReqState /\ Q1.pc = "permissions" /\ Q1.op = q.op
        /\ Q1.state = q.state /\ Q1.data = q.data /\ Q1.code = q.code
    BY <1>1 DEF Goto, ReqState, Pcs
  <2> HIDE DEF Q1
  <2>2. Control(Q1, codes, started) /\ Q1.pc \in Late
    BY <1>1, <2>1 DEF Control, Late
  <2>3. \A s \in States : Holds(Q1, s) => Holds(q, s)
    BY <1>1, <2>1 DEF Holds, Late
  <2> QED
    BY <1>1, <1>3, <2>1, <2>2, <2>3, InFlight, RequestMovesAlone
<1>4. CASE CanDownload(level) /\ Become(r, Q2)
  <2>1. level \in Levels
    BY <1>1, AccessAssumption DEF Code, OAuthState
  <2>2. /\ Q2 \in ReqState /\ Q2.pc = "createSession" /\ Q2.op = q.op
        /\ Q2.state = q.state /\ Q2.data = q.data /\ Q2.code = q.code
        /\ Q2.level = level
    BY <1>1, <2>1 DEF ReqState, Pcs
  <2> HIDE DEF Q2
  <2>3. Control(Q2, codes, started) /\ Q2.pc \in Late
    BY <1>1, <1>4, <2>2 DEF Control, Late
  <2>4. \A s \in States : Holds(Q2, s) => Holds(q, s)
    BY <1>1, <2>2 DEF Holds, Late
  <2> QED
    BY <1>1, <1>4, <2>2, <2>3, <2>4, InFlight, RequestMovesAlone
<1>5. CASE \E x \in {"userInfoFailed", "denied", "checkFailed"} :
             Become(r, Finish(q, x))
  BY <1>1, <1>5, InFlight, FinishInv DEF Statuses, Late
<1> QED
  BY <1>2, <1>3, <1>4, <1>5

(* The login moves from the callback to a session.                         *)
LEMMA CreateSessionInv ==
  ASSUME IInv, NEW r \in Slots, CreateSession(r)
  PROVE  IInv'
<1> DEFINE q == req[r]
           session == [user |-> q.code.user, repo |-> q.data.repo,
                       level |-> q.level, login |-> q.state]
<1>1. /\ q \in ReqState /\ q.pc = "createSession" /\ q.op = "callback"
      /\ q.code \in Code /\ q.data \in OAuthState /\ q.state \in States
      /\ started[q.state] = q.data /\ q.level = Access[q.code.user][q.data.repo]
      /\ CanDownload(q.level) /\ Control(q, codes, started)
      /\ UNCHANGED <<states, shared, authURLs, codes, spent, started>>
  BY InFlight DEF CreateSession, At, Control, Late
<1>2. PICK i \in SessionIDs \ issued, x \in {"ok", "sessionFailed"} :
        /\ issued' = issued \union {i}
        /\ sessions' = sessions \/ sessions' = [sessions EXCEPT ![i] = session]
        /\ Become(r, Finish(q, x))
  BY DEF CreateSession
<1> DEFINE Q == Finish(q, x)
<1>3. Q \in ReqState /\ Control(Q, codes, started) /\ \A s : ~ Holds(Q, s)
  BY <1>1, FinishControl DEF Statuses, Holds
<1>4. Become(r, Q)
  BY <1>2
<1>5. session \in Session /\ session # None
  BY <1>1, NoSessionAssumption DEF Session, Code, OAuthState, ReqState
<1>6. /\ session.user = q.code.user /\ session.repo = q.data.repo
      /\ session.level = q.level /\ session.login = q.state
  OBVIOUS
<1>7. \A j \in SessionIDs :
        sessions'[j] = sessions[j] \/ (j = i /\ sessions'[j] = session)
  BY <1>2 DEF IInv, TypeOK
<1>8. /\ issued' = issued \union {i}
      /\ sessions' \in [SessionIDs -> Session \union {None}]
  BY <1>2, <1>5 DEF IInv, TypeOK
<1> HIDE DEF Q, session, q
<1>9. /\ req' \in [Slots -> ReqState]
      /\ req'[r] = Q
      /\ \A y \in Slots \ {r} : req'[y] = req[y]
  BY <1>3, <1>4 DEF IInv, TypeOK, Become
<1>10. TypeOK'
  BY <1>1, <1>8, <1>9 DEF IInv, TypeOK
<1>11. /\ states[q.state] = None
       /\ \A y \in Slots \ {r} : ~ Holds(req[y], q.state)
       /\ \A j \in SessionIDs : sessions[j] # None => sessions[j].login # q.state
  <2>1. Holds(q, q.state)
    BY <1>1 DEF Holds
  <2> QED
    BY <1>1, <2>1 DEF IInv, OnePlace, q
<1>12. OnePlace'
  <2>1. OneSessionPerLogin'
    BY <1>6, <1>7, <1>11 DEF IInv, OnePlace, OneSessionPerLogin
  <2>2. \A j \in SessionIDs :
          sessions'[j] # None =>
            /\ states[sessions'[j].login] = None
            /\ \A y \in Slots : ~ Holds(req'[y], sessions'[j].login)
    BY <1>3, <1>6, <1>7, <1>9, <1>11 DEF IInv, OnePlace
  <2>3. \A s \in States, y \in Slots : Holds(req'[y], s) => y # r /\ Holds(req[y], s)
    BY <1>3, <1>9
  <2> QED
    BY <1>1, <2>1, <2>2, <2>3 DEF IInv, OnePlace
<1>13. Unspent'
  BY <1>1, <1>3, <1>9 DEF IInv, Unspent
<1>14. ASSUME NEW y \in Slots
       PROVE  Control(req'[y], codes', started')
  BY <1>1, <1>3, <1>9, InFlight
<1>15. Traceable'
  BY <1>1 DEF IInv, Traceable
<1>16. SessionsAreEntitled'
  BY <1>1, <1>6, <1>7, NoneAssumption DEF IInv, SessionsAreEntitled
<1> QED
  BY <1>10, <1>12, <1>13, <1>14, <1>15, <1>16 DEF IInv

(* A request that is answered leaves an idle slot.                         *)
LEMMA ReplyInv ==
  ASSUME IInv, NEW r \in Slots, Reply(r)
  PROVE  IInv'
<1>1. Idle \in ReqState /\ Control(Idle, codes, started)
  BY IdleControl
<1>2. \A s : ~ Holds(Idle, s)
  BY DEF Holds, Idle
<1> QED
  BY <1>1, <1>2, InFlight, RequestMovesAlone DEF Reply

(* A killed server forgets its requests and the redirect URI.              *)
LEMMA RestartInv ==
  ASSUME IInv, Restart
  PROVE  IInv'
<1>1. /\ req' = [r \in Slots |-> Idle]
      /\ shared' = [ptr |-> None, len |-> None]
      /\ UNCHANGED <<states, sessions, authURLs, codes, spent, started, issued>>
  BY DEF Restart
<1>2. /\ Idle \in ReqState
      /\ Control(Idle, codes', started')
  BY IdleControl
<1>3. \A s : ~ Holds(Idle, s)
  BY DEF Holds, Idle
<1>4. TypeOK'
  BY <1>1, <1>2 DEF IInv, TypeOK
<1>5. OnePlace'
  BY <1>1, <1>3 DEF IInv, OnePlace, OneSessionPerLogin
<1>6. Unspent'
  BY <1>1, <1>3 DEF IInv, Unspent
<1>7. Traceable' /\ SessionsAreEntitled'
  BY <1>1 DEF IInv, Traceable, SessionsAreEntitled
<1>8. \A r \in Slots : Control(req'[r], codes', started')
  BY <1>1, <1>2
<1> QED
  BY <1>4, <1>5, <1>6, <1>7, <1>8 DEF IInv

(* A state or a session expires.                                           *)
LEMMA ExpireInv ==
  ASSUME IInv, \/ \E s \in States : ExpireState(s)
               \/ \E i \in SessionIDs : ExpireSession(i)
  PROVE  IInv'
<1>1. /\ UNCHANGED <<shared, req, authURLs, codes, spent, started, issued>>
      /\ states' \in [States -> OAuthState \union {None}]
      /\ \A s \in States : states'[s] \in {states[s], None}
      /\ sessions' \in [SessionIDs -> Session \union {None}]
      /\ \A i \in SessionIDs : sessions'[i] \in {sessions[i], None}
  <2>1. CASE \E s \in States : ExpireState(s)
    BY <2>1 DEF ExpireState, IInv, TypeOK
  <2>2. CASE \E i \in SessionIDs : ExpireSession(i)
    BY <2>2 DEF ExpireSession, IInv, TypeOK
  <2> QED
    BY <2>1, <2>2
<1>2. TypeOK'
  BY <1>1 DEF IInv, TypeOK
<1>3. OnePlace'
  BY <1>1 DEF IInv, OnePlace, OneSessionPerLogin, TypeOK, Session
<1>4. Unspent'
  BY <1>1 DEF IInv, Unspent, TypeOK, Code
<1>5. Traceable'
  BY <1>1 DEF IInv, Traceable
<1>6. SessionsAreEntitled'
  BY <1>1 DEF IInv, SessionsAreEntitled
<1>7. \A r \in Slots : Control(req'[r], codes', started')
  BY <1>1 DEF IInv
<1> QED
  BY <1>2, <1>3, <1>4, <1>5, <1>6, <1>7 DEF IInv

(* The invariant holds initially.                                          *)
LEMMA InitInv == Init => IInv
<1> SUFFICES ASSUME Init PROVE IInv
  OBVIOUS
<1>1. Idle \in ReqState /\ Control(Idle, codes, started) /\ \A s : ~ Holds(Idle, s)
  BY IdleControl DEF Idle, Holds
<1>2. TypeOK
  BY <1>1 DEF Init, TypeOK
<1>3. OnePlace /\ Unspent /\ SessionsAreEntitled /\ Traceable
  BY <1>1 DEF Init, OnePlace, OneSessionPerLogin, Unspent, SessionsAreEntitled,
              Traceable
<1>4. \A r \in Slots : Control(req[r], codes, started)
  BY <1>1 DEF Init
<1> QED
  BY <1>2, <1>3, <1>4 DEF IInv

(* Every step preserves it.                                                *)
LEMMA NextInv == IInv /\ [Next]_vars => IInv'
<1> SUFFICES ASSUME IInv, [Next]_vars PROVE IInv'
  OBVIOUS
<1>1. ASSUME NEW r \in Slots, Step(r)
      PROVE  IInv'
  BY <1>1, SaveStateInv, SetRedirectURIInv, GetAuthorizationURLInv,
     GetAndDeleteStateInv, ExchangeCodeInv, GitHubInv, CreateSessionInv, ReplyInv
     DEF Step
<1>2. CASE UNCHANGED vars
  BY <1>2 DEF vars, IInv, TypeOK, OnePlace, OneSessionPerLogin, Unspent,
              Traceable, SessionsAreEntitled
<1> QED
  BY <1>1, <1>2, BadRequestInv, StartAuthenticationInv, HandleCallbackInv,
     AuthorizeInv, RestartInv, ExpireInv
     DEF Next, GitHubLoginHandler, GitHubCallbackHandler

(* The invariant holds in every reachable state.                           *)
THEOREM LoginInvariance == Spec => []IInv
BY InitInv, NextInv, PTL DEF Spec

(* TypeOK: the stores, the shared URI and the requests keep their types.   *)
THEOREM LoginTypeCorrect == Spec => []TypeOK
<1>1. IInv => TypeOK
  BY DEF IInv
<1> QED
  BY <1>1, LoginInvariance, PTL

(* OneSessionPerLogin: however callbacks are repeated and interleaved, a   *)
(* state parameter is turned into at most one session, because GETDEL      *)
(* gives it to one of them only.                                           *)
THEOREM SessionsAreUnique == Spec => []OneSessionPerLogin
<1>1. IInv => OneSessionPerLogin
  BY DEF IInv, OnePlace
<1> QED
  BY <1>1, LoginInvariance, PTL

(* SessionsAreEntitled: a session is for the repository of its login, with *)
(* the permissions GitHub gives its user there.                            *)
THEOREM SessionsEntitled == Spec => []SessionsAreEntitled
<1>1. IInv => SessionsAreEntitled
  BY DEF IInv
<1> QED
  BY <1>1, LoginInvariance, PTL

-----------------------------------------------------------------------------
(* A server with one allowed redirect URI *)

(* The redirect URI is u wherever it is about to be read, and every        *)
(* authorization URL was made with it.                                     *)
Only(u) ==
  /\ \A a \in authURLs : a.uri = u
  /\ \A r \in Slots :
       req[r].pc \in {"authURL", "exchange"} =>
         shared.ptr = u /\ shared.len = u

(* Where the updates of a request leave it, and the status they set.       *)
LEMMA Updates ==
  ASSUME NEW q \in ReqState, NEW x, NEW d
  PROVE  /\ Finish(q, x).pc = "done" /\ Finish(q, x).status = x
         /\ Goto(q, x).pc = x /\ Goto(q, x).status = q.status
         /\ [q EXCEPT !.pc = x, !.data = d].pc = x
         /\ [q EXCEPT !.pc = x, !.data = d].status = q.status
         /\ [q EXCEPT !.pc = x, !.level = d].pc = x
         /\ [q EXCEPT !.pc = x, !.level = d].status = q.status
BY DEF Finish, Goto, ReqState

(* A request comes to where it reads the redirect URI only after it has    *)
(* written it.                                                             *)
LEMMA ReadersStep ==
  ASSUME IInv, [Next]_vars, NEW r \in Slots, req'[r].pc \in {"authURL", "exchange"}
  PROVE  req'[r] = req[r] \/ SetRedirectURIRest(r)
<1>1. req \in [Slots -> ReqState] /\ req[r] \in ReqState
  BY DEF IInv, TypeOK
<1>2. ASSUME NEW x \in Slots, NEW Q, Become(x, Q)
      PROVE  req'[r] = IF x = r THEN Q ELSE req[r]
  BY <1>1, <1>2 DEF Become
<1>3. ASSUME NEW x \in Slots,
             \/ StartAuthentication(x)
             \/ HandleCallback(x)
             \/ \E op : BadRequest(x, op)
      PROVE  req'[r] = req[r]
  <2>1. req'[x].pc \in {"done", "saveState", "takeState"}
    <3>1. CASE HandleCallback(x)
      BY <1>1, <3>1 DEF HandleCallback, Become, Idle
    <3>2. CASE StartAuthentication(x)
      BY <1>1, <3>2 DEF StartAuthentication, Become, Idle, Finish
    <3>3. CASE \E op : BadRequest(x, op)
      BY <1>1, <3>3 DEF BadRequest, Become, Idle, Finish
    <3> QED
      BY <1>3, <3>1, <3>2, <3>3
  <2>2. \E Q : Become(x, Q)
    BY <1>3 DEF StartAuthentication, HandleCallback, BadRequest
  <2> QED
    BY <1>2, <2>1, <2>2
<1>4. ASSUME NEW x \in Slots, Step(x), ~ SetRedirectURIRest(x)
      PROVE  req'[r] = req[r]
  <2> DEFINE q == req[x]
  <2>1. q \in ReqState
    BY <1>1
  <2>2. CASE \/ \E step \in {"setURI", "setURIRest", "userInfo", "permissions"} :
                  Become(x, Goto(q, step))
             \/ \E status \in Statuses : Become(x, Finish(q, status))
             \/ Become(x, Idle)
    <3>1. Idle.pc \notin {"authURL", "exchange"}
      BY DEF Idle
    <3> QED
      BY <1>2, <2>1, <2>2, <3>1, Updates
  <2>3. CASE Become(x, [q EXCEPT !.pc = "setURI", !.data = states[q.state]])
    <3> DEFINE Q == [q EXCEPT !.pc = "setURI", !.data = states[q.state]]
    <3>1. Q.pc = "setURI"
      BY <2>1, Updates
    <3>2. Become(x, Q)
      BY <2>3
    <3> HIDE DEF Q
    <3> QED
      BY <1>2, <3>1, <3>2
  <2>4. CASE Become(x, [q EXCEPT !.pc = "createSession",
                                 !.level = Access[q.code.user][q.data.repo]])
    <3> DEFINE Q == [q EXCEPT !.pc = "createSession",
                              !.level = Access[q.code.user][q.data.repo]]
    <3>1. Q.pc = "createSession"
      BY <2>1, Updates
    <3>2. Become(x, Q)
      BY <2>4
    <3> HIDE DEF Q
    <3> QED
      BY <1>2, <3>1, <3>2
  <2>5. CASE SaveState(x) \/ SetRedirectURI(x) \/ ExchangeCode(x) \/ GetUserInfo(x)
             \/ GetAuthorizationURL(x) \/ CreateSession(x) \/ Reply(x)
    BY <2>2, <2>5 DEF SaveState, SetRedirectURI, ExchangeCode, GetUserInfo,
                      GetAuthorizationURL, CreateSession, Reply, Statuses
  <2>6. CASE GetAndDeleteState(x)
    BY <2>2, <2>3, <2>6 DEF GetAndDeleteState, Statuses
  <2>7. CASE GetRepositoryPermissions(x)
    BY <2>2, <2>4, <2>7 DEF GetRepositoryPermissions, Statuses
  <2> QED
    BY <1>4, <2>5, <2>6, <2>7 DEF Step
<1>5. ASSUME NEW x \in Slots, SetRedirectURIRest(x)
      PROVE  req'[r] = req[r] \/ SetRedirectURIRest(r)
  BY <1>2, <1>5 DEF SetRedirectURIRest
<1>6. ~ Restart
  BY DEF Restart, Idle
<1>7. CASE \/ Authorize
           \/ \E s \in States : ExpireState(s)
           \/ \E i \in SessionIDs : ExpireSession(i)
           \/ UNCHANGED vars
  BY <1>7 DEF Authorize, ExpireState, ExpireSession, vars
<1> QED
  BY <1>3, <1>4, <1>5, <1>6, <1>7
  DEF Next, GitHubLoginHandler, GitHubCallbackHandler

(* The redirect URI is written by SetRedirectURI and by a restart.         *)
LEMMA SharedStep ==
  ASSUME [Next]_vars
  PROVE  \/ UNCHANGED shared
         \/ Restart
         \/ \E r \in Slots : SetRedirectURI(r) \/ SetRedirectURIRest(r)
BY DEF Next, Step, vars, GitHubLoginHandler, GitHubCallbackHandler, BadRequest,
       StartAuthentication, HandleCallback, SaveState, GetAuthorizationURL,
       GetAndDeleteState, ExchangeCode, GetUserInfo, GetRepositoryPermissions,
       CreateSession, Reply, Authorize, ExpireState, ExpireSession

(* An authorization URL is made by GetAuthorizationURL.                    *)
LEMMA AuthURLsStep ==
  ASSUME [Next]_vars
  PROVE  \/ UNCHANGED authURLs
         \/ \E r \in Slots : GetAuthorizationURL(r)
BY DEF Next, Step, vars, GitHubLoginHandler, GitHubCallbackHandler, BadRequest,
       StartAuthentication, HandleCallback, SaveState, SetRedirectURI,
       SetRedirectURIRest, GetAndDeleteState, ExchangeCode, GetUserInfo,
       GetRepositoryPermissions, CreateSession, Reply, Restart, Authorize,
       ExpireState, ExpireSession

(* When all requests write the same URI, their writes do not disturb each  *)
(* other; a restart forgets it together with the requests.                 *)
LEMMA OnlyStep ==
  ASSUME NEW u, AllowedURIs = {u}, IInv, Only(u), [Next]_vars
  PROVE  Only(u)'
<1>1. shared \in [ptr : URIs \union {None}, len : URIs \union {None}]
  BY DEF IInv, TypeOK
<1>2. ASSUME NEW r \in Slots, SetRedirectURI(r) \/ SetRedirectURIRest(r)
      PROVE  req[r].data.uri = u
  <2>1. req[r].pc \in {"setURI", "setURIRest"} /\ Control(req[r], codes, started)
    BY <1>2, InFlight DEF SetRedirectURI, SetRedirectURIRest, At
  <2> QED
    BY <2>1, NoneAssumption DEF Control, IInv, Traceable
<1>3. ASSUME NEW a \in authURLs'
      PROVE  a.uri = u
  <2>1. ASSUME NEW r \in Slots, GetAuthorizationURL(r)
        PROVE  a.uri = u
    <3>1. Readable = {u}
      BY <2>1 DEF GetAuthorizationURL, At, Only, Readable
    <3> QED
      BY <2>1, <3>1 DEF GetAuthorizationURL, Only
  <2> QED
    BY <2>1, AuthURLsStep DEF Only
<1>4. ASSUME NEW r \in Slots, req'[r].pc \in {"authURL", "exchange"}
      PROVE  shared'.ptr = u /\ shared'.len = u
  <2>1. CASE SetRedirectURIRest(r)
    BY <1>2, <2>1 DEF SetRedirectURIRest
  <2>2. CASE req'[r] = req[r]
    <3>1. shared.ptr = u /\ shared.len = u
      BY <1>4, <2>2 DEF Only
    <3>2. ~ Restart
      BY <1>4 DEF Restart, Idle
    <3> QED
      BY <1>1, <1>2, <3>1, <3>2, SharedStep DEF SetRedirectURI, SetRedirectURIRest
  <2> QED
    BY <1>4, <2>1, <2>2, ReadersStep
<1> QED
  BY <1>3, <1>4 DEF Only

(* OwnRedirectURI, for a server with one allowed redirect URI: logins that *)
(* run at the same time do not see each other's.                           *)
THEOREM OneURIIsOwn ==
  ASSUME NEW u, AllowedURIs = {u}
  PROVE  Spec => []OwnRedirectURI
<1>1. Init => Only(u)
  BY DEF Init, Only, Idle
<1>2. IInv /\ Only(u) => OwnRedirectURI
  <2> SUFFICES ASSUME IInv, Only(u) PROVE OwnRedirectURI
    OBVIOUS
  <2>1. \A a \in authURLs : a.uri = started[a.state].uri
    <3> TAKE a \in authURLs
    <3>1. a.state \in States /\ started[a.state] # None
      BY DEF IInv, TypeOK, Traceable
    <3> QED
      BY <3>1 DEF IInv, Traceable, Only
  <2>2. ASSUME NEW r \in Slots, At(r, "exchange")
        PROVE  Readable = {req[r].data.uri}
    <3>1. Readable = {u}
      BY <2>2 DEF At, Only, Readable
    <3>2. req[r].data.uri = u
      BY <2>2, InFlight, NoneAssumption DEF At, Control, IInv, Traceable
    <3> QED
      BY <3>1, <3>2
  <2> QED
    BY <2>1, <2>2 DEF OwnRedirectURI
<1>3. IInv /\ Only(u) /\ [Next]_vars => Only(u)'
  BY OnlyStep
<1> QED
  BY <1>1, <1>2, <1>3, LoginInvariance, PTL DEF Spec

(* No code was exchanged with the state that a callback has just taken.    *)
LEMMA ExchangedOnce ==
  ASSUME IInv, NEW r \in Slots, req[r].pc = "exchange", req[r].op = "callback"
  PROVE  [code |-> req[r].code, state |-> req[r].state] \notin spent
<1>1. Holds(req[r], req[r].state) /\ req[r].pc \notin Late
  BY DEF Holds, Late
<1> QED
  BY <1>1 DEF IInv, Unspent

(* CodesAreAccepted, for a server with one allowed redirect URI, whatever  *)
(* fails: a code is exchanged once, with its own URI.                      *)
THEOREM OneURIIsAccepted ==
  ASSUME NEW u, AllowedURIs = {u}
  PROVE  Spec => []CodesAreAccepted
<1>1. Init => Only(u)
  BY DEF Init, Only, Idle
<1>2. IInv /\ Only(u) /\ [Next]_vars => Only(u)'
  BY OnlyStep
<1>3. IInv /\ Only(u) => CodesAreAccepted
  <2> SUFFICES ASSUME IInv, Only(u), NEW r \in Slots, req[r].pc = "exchange"
               PROVE  /\ [code |-> req[r].code, state |-> req[r].state] \notin spent
                      /\ Readable = {req[r].code.uri}
    BY DEF CodesAreAccepted, At
  <2>1. req[r].op = "callback" /\ req[r].code \in codes
    BY InFlight DEF Control, Late
  <2>2. [code |-> req[r].code, state |-> req[r].state] \notin spent
    BY <2>1, ExchangedOnce
  <2>3. Readable = {u}
    BY DEF Only, Readable
  <2>4. req[r].code.uri = u
    BY <2>1 DEF IInv, Traceable
  <2> QED
    BY <2>2, <2>3, <2>4
<1> QED
  BY <1>1, <1>2, <1>3, LoginInvariance, PTL DEF Spec

-----------------------------------------------------------------------------
(* A server that serves one request at a time *)

(* Every authorization URL and every code has the redirect URI its login   *)
(* was started with, and so has the exchanger where a request reads it.    *)
OwnURIs ==
  /\ \A a \in authURLs : a.uri = started[a.state].uri
  /\ \A c \in codes : c.uri = started[c.state].uri
  /\ \A r \in Slots :
       req[r].pc \in {"authURL", "exchange"} =>
         shared.ptr = req[r].data.uri /\ shared.len = req[r].data.uri

(* What a login was started with does not change.                          *)
LEMMA StartedStays ==
  ASSUME IInv, [Next]_vars, NEW s \in States, started[s] # None
  PROVE  started'[s] = started[s]
<1>1. started \in [States -> OAuthState \union {None}]
  BY DEF IInv, TypeOK
<1>2. ASSUME NEW r \in Slots, StartAuthentication(r)
      PROVE  started'[s] = started[s]
  BY <1>1, <1>2 DEF StartAuthentication
<1>3. UNCHANGED started \/ \E r \in Slots : StartAuthentication(r)
  BY DEF Next, Step, vars, GitHubLoginHandler, GitHubCallbackHandler, BadRequest,
         HandleCallback, SaveState, SetRedirectURI, SetRedirectURIRest,
         GetAuthorizationURL, GetAndDeleteState, ExchangeCode, GetUserInfo,
         GetRepositoryPermissions, CreateSession, Reply, Restart, Authorize,
         ExpireState, ExpireSession
<1> QED
  BY <1>2, <1>3

(* GitHub takes the redirect URI of a code from an authorization URL.      *)
LEMMA CodesStep ==
  ASSUME [Next]_vars, NEW c \in codes'
  PROVE  c \in codes \/ \E a \in authURLs : c.state = a.state /\ c.uri = a.uri
<1>1. CASE Authorize
  <2>1. PICK a \in authURLs, v \in Users :
          codes' = codes \union {[user |-> v, state |-> a.state, uri |-> a.uri]}
    BY <1>1 DEF Authorize
  <2> QED
    BY <2>1
<1>2. UNCHANGED codes \/ Authorize
  BY DEF Next, Step, vars, GitHubLoginHandler, GitHubCallbackHandler, BadRequest,
         StartAuthentication, HandleCallback, SaveState, SetRedirectURI,
         SetRedirectURIRest, GetAuthorizationURL, GetAndDeleteState, ExchangeCode,
         GetUserInfo, GetRepositoryPermissions, CreateSession, Reply, Restart,
         ExpireState, ExpireSession
<1> QED
  BY <1>1, <1>2

(* When there is one request, nobody writes between its write and its read.*)
LEMMA OwnURIsStep ==
  ASSUME NEW alone, Slots = {alone}, IInv, OwnURIs, [Next]_vars
  PROVE  OwnURIs'
<1>1. /\ req \in [Slots -> ReqState]
      /\ authURLs \subseteq [state : States, uri : ReadURIs]
      /\ codes \subseteq Code
  BY DEF IInv, TypeOK
<1>2. ASSUME NEW a \in authURLs
      PROVE  a.uri = started'[a.state].uri
  <2>1. a.state \in States /\ started[a.state] # None
    BY <1>1 DEF IInv, Traceable
  <2> QED
    BY <2>1, StartedStays DEF OwnURIs
<1>3. ASSUME NEW a \in authURLs'
      PROVE  a.uri = started'[a.state].uri
  <2>1. ASSUME NEW r \in Slots, GetAuthorizationURL(r), a \notin authURLs
        PROVE  a.uri = started'[a.state].uri
    <3>1. req[r].pc = "authURL"
      BY <2>1 DEF GetAuthorizationURL, At
    <3>2. Readable = {req[r].data.uri}
      BY <3>1 DEF OwnURIs, Readable
    <3>3. a.state = req[r].state /\ a.uri = req[r].data.uri
      BY <2>1, <3>2 DEF GetAuthorizationURL
    <3>4. started[req[r].state] = req[r].data
      BY <3>1, InFlight DEF Control
    <3> QED
      BY <2>1, <3>3, <3>4 DEF GetAuthorizationURL
  <2> QED
    BY <1>2, <2>1, AuthURLsStep
<1>4. ASSUME NEW c \in codes'
      PROVE  c.uri = started'[c.state].uri
  <2>1. CASE c \in codes
    <3>1. c.state \in States /\ started[c.state] # None
      BY <1>1, <2>1 DEF Code, IInv, Traceable
    <3> QED
      BY <2>1, <3>1, StartedStays DEF OwnURIs
  <2> QED
    BY <1>2, <2>1, CodesStep
<1>5. ASSUME NEW r \in Slots, req'[r].pc \in {"authURL", "exchange"}
      PROVE  shared'.ptr = req'[r].data.uri /\ shared'.len = req'[r].data.uri
  <2>1. CASE SetRedirectURIRest(r)
    <3>1. req'[r].data = req[r].data
      BY <1>1, <2>1 DEF SetRedirectURIRest, Become, Goto, ReqState
    <3> QED
      BY <2>1, <3>1 DEF SetRedirectURIRest
  <2>2. CASE req'[r] = req[r]
    <3>1. ~ Restart
      BY <1>5 DEF Restart, Idle
    <3>2. ~ SetRedirectURI(r) /\ ~ SetRedirectURIRest(r)
      BY <1>5, <2>2 DEF SetRedirectURI, SetRedirectURIRest, At
    <3>3. shared' = shared
      BY <3>1, <3>2, SharedStep
    <3> QED
      BY <1>5, <2>2, <3>3 DEF OwnURIs
  <2> QED
    BY <1>5, <2>1, <2>2, ReadersStep
<1> QED
  BY <1>3, <1>4, <1>5 DEF OwnURIs

LEMMA InitOwnURIs == Init => OwnURIs
BY DEF Init, OwnURIs, Idle

(* OwnRedirectURI, with any number of allowed redirect URIs: where         *)
(* requests do not overlap, a login reads the redirect URI it has set      *)
(* itself, so that the overlap alone makes it read another.                *)
THEOREM AloneIsOwn ==
  ASSUME NEW alone, Slots = {alone}
  PROVE  Spec => []OwnRedirectURI
<1>1. OwnURIs => OwnRedirectURI
  BY DEF OwnURIs, OwnRedirectURI, At, Readable
<1>2. IInv /\ OwnURIs /\ [Next]_vars => OwnURIs'
  BY OwnURIsStep
<1> QED
  BY <1>1, <1>2, InitOwnURIs, LoginInvariance, PTL DEF Spec

(* CodesAreAccepted, with any number of allowed redirect URIs: where       *)
(* requests do not overlap, GitHub has no reason to refuse a code.         *)
THEOREM AloneIsAccepted ==
  ASSUME NEW alone, Slots = {alone}
  PROVE  Spec => []CodesAreAccepted
<1>1. IInv /\ OwnURIs => CodesAreAccepted
  <2> SUFFICES ASSUME IInv, OwnURIs, NEW r \in Slots, req[r].pc = "exchange",
                      req[r].code.state = req[r].state
               PROVE  /\ [code |-> req[r].code, state |-> req[r].state] \notin spent
                      /\ Readable = {req[r].code.uri}
    BY DEF CodesAreAccepted, At
  <2>1. /\ req[r].op = "callback"
        /\ req[r].code \in codes
        /\ started[req[r].state] = req[r].data
    BY InFlight DEF Control, Late
  <2>2. [code |-> req[r].code, state |-> req[r].state] \notin spent
    BY <2>1, ExchangedOnce
  <2>3. Readable = {req[r].data.uri}
    BY DEF OwnURIs, Readable
  <2>4. req[r].code.uri = req[r].data.uri
    BY <2>1 DEF OwnURIs
  <2> QED
    BY <2>2, <2>3, <2>4
<1>2. IInv /\ OwnURIs /\ [Next]_vars => OwnURIs'
  BY OwnURIsStep
<1> QED
  BY <1>1, <1>2, InitOwnURIs, LoginInvariance, PTL DEF Spec
=============================================================================
