------------------------- MODULE ServerProcessProofs -------------------------
(***************************************************************************)
(* Proofs about ServerProcess, for any number of requests and whichever    *)
(* server echo's Shutdown reaches.                                         *)
(***************************************************************************)
EXTENDS ServerProcess, TLAPS

-----------------------------------------------------------------------------
(* The inductive invariant *)

LEMMA IdleSane == Idle \in Request /\ ProbeSane(Idle) /\ ProbeSane(Idle)'
BY DEF Idle, Request, ProbeSane, Usable

(* What a probe has found stays sane when no dependency becomes usable.    *)
LEMMA ProbesStay ==
  ASSUME IInv, UNCHANGED req, up' \subseteq up,
         open' \subseteq open \/ \A r \in Slots : req[r] = Idle
  PROVE  \A r \in Slots : ProbeSane(req[r])'
<1>1. CASE open' \subseteq open
  <2>1. \A d : Usable(d)' => Usable(d)
    BY <1>1 DEF Usable
  <2> QED
    BY <2>1 DEF IInv, ProbeSane
<1>2. CASE \A r \in Slots : req[r] = Idle
  BY <1>2, IdleSane DEF ProbeSane
<1> QED
  BY <1>1, <1>2

(* The rest of the invariant.                                              *)
ProcessInv ==
  /\ TypeOK
  /\ OpenByPhase
  /\ ServedByPhase
  /\ ExitByPhase

(* Starting up: nothing is served yet.                                     *)
LEMMA StartUpInv ==
  ASSUME IInv, LoadConfig \/ NewPostgresConnection \/ NewRedisConnection \/ Wire
               \/ Notify
  PROVE  IInv'
<1>1. UNCHANGED <<req, up>>
  BY DEF LoadConfig, NewPostgresConnection, NewRedisConnection, Connect, Wire, Notify
<1>2. open' \subseteq open \/ \A r \in Slots : req[r] = Idle
  BY DEF IInv, ServedByPhase, Starting, LoadConfig, NewPostgresConnection,
         NewRedisConnection, Connect, Wire, Notify
<1>3. ProcessInv'
  <2> USE DEF IInv, ProcessInv, TypeOK, Phases, OpenByPhase, ServedByPhase,
              ExitByPhase, Starting, InFlight, ReturnError
  <2>1. CASE LoadConfig
    BY <2>1 DEF LoadConfig
  <2>2. CASE NewPostgresConnection
    BY <2>2 DEF NewPostgresConnection, Connect
  <2>3. CASE NewRedisConnection
    BY <2>3 DEF NewRedisConnection, Connect
  <2>4. CASE Wire
    BY <2>4 DEF Wire
  <2>5. CASE Notify
    BY <2>5 DEF Notify
  <2> QED
    BY <2>1, <2>2, <2>3, <2>4, <2>5
<1> QED
  BY <1>1, <1>2, <1>3, ProbesStay DEF IInv, ProcessInv

(* Waiting for the end, shutting down and closing.                         *)
LEMMA ShutDownInv ==
  ASSUME IInv, StartServer \/ Select \/ Shutdown \/ Drained \/ DrainTimeout
               \/ CloseRedis \/ ClosePool \/ Restart
  PROVE  IInv'
<1>1. UNCHANGED <<req, up>> /\ open' \subseteq open
  BY DEF StartServer, Select, Shutdown, Drained, DrainTimeout, CloseRedis,
         ClosePool, Restart
<1>2. ProcessInv'
  <2> USE DEF IInv, ProcessInv, TypeOK, Phases, OpenByPhase, ServedByPhase,
              ExitByPhase, Starting, InFlight, ReturnError
  <2>1. CASE StartServer
    BY <2>1 DEF StartServer
  <2>2. CASE Select
    BY <2>2 DEF Select
  <2>3. CASE Shutdown
    BY <2>3 DEF Shutdown
  <2>4. CASE Drained
    BY <2>4 DEF Drained
  <2>5. CASE DrainTimeout
    BY <2>5 DEF DrainTimeout
  <2>6. CASE CloseRedis
    BY <2>6 DEF CloseRedis
  <2>7. CASE ClosePool
    BY <2>7 DEF ClosePool
  <2>8. CASE Restart
    BY <2>8 DEF Restart
  <2> QED
    BY <2>1, <2>2, <2>3, <2>4, <2>5, <2>6, <2>7, <2>8
<1> QED
  BY <1>1, <1>2, ProbesStay DEF IInv, ProcessInv

(* The process ends, and what it served with it.                           *)
LEMMA EndInv ==
  ASSUME IInv, Exit \/ Signal
  PROVE  IInv'
<1>1. CASE req' = [r \in Slots |-> Idle] /\ phase' = "exited"
  <2>1. \A r \in Slots : req'[r] = Idle /\ ProbeSane(req[r])'
    BY <1>1, IdleSane DEF ProbeSane
  <2>2. req' \in [Slots -> Request]
    BY <1>1, IdleSane
  <2>3. ~ InFlight'
    BY <2>1 DEF InFlight, Idle
  <2>4. ProcessInv'
    <3> USE <1>1, <2>1, <2>2, <2>3
        DEF IInv, ProcessInv, TypeOK, Phases, OpenByPhase, ServedByPhase,
            ExitByPhase, Starting
    <3>1. InFlight \in BOOLEAN
      BY DEF InFlight
    <3>2. CASE Exit
      BY <3>1, <3>2 DEF Exit
    <3>3. CASE Signal
      BY <3>1, <3>3 DEF Signal
    <3> QED
      BY <3>2, <3>3
  <2> QED
    BY <2>1, <2>4 DEF IInv, ProcessInv
<1>2. CASE UNCHANGED <<phase, server, open, exit, req, up, cut>> /\ signalled' = TRUE
  <2>1. \A r \in Slots : ProbeSane(req[r])'
    BY <1>2, ProbesStay
  <2> QED
    BY <1>2, <2>1 DEF IInv, TypeOK, OpenByPhase, ServedByPhase,
                      ExitByPhase, InFlight
<1> QED
  BY <1>1, <1>2 DEF Exit, Signal

-----------------------------------------------------------------------------
(* Requests *)

(* A request that becomes q leaves the others alone.                       *)
LEMMA BecomeReq ==
  ASSUME req \in [Slots -> Request], NEW r \in Slots, NEW q \in Request, Become(r, q)
  PROVE  /\ req' \in [Slots -> Request]
         /\ req'[r] = q
         /\ \A s \in Slots : s # r => req'[s] = req[s]
BY DEF Become

(* A step of one request keeps the invariant when the request stays sane,  *)
(* and was in flight before or comes from a server that listens.           *)
LEMMA RequestStep ==
  ASSUME IInv, NEW r \in Slots, NEW q \in Request, Become(r, q), ProbeSane(q),
         UNCHANGED <<phase, server, open, exit, signalled, up, cut>>,
         req[r].pc # "idle" \/ server = "listening"
  PROVE  IInv'
<1>1. /\ req' \in [Slots -> Request]
      /\ req'[r] = q
      /\ \A s \in Slots : s # r => req'[s] = req[s]
  BY BecomeReq DEF IInv, TypeOK
<1>2. \A s \in Slots : ProbeSane(req[s])'
  <2> SUFFICES ASSUME NEW s \in Slots PROVE ProbeSane(req[s])'
    OBVIOUS
  <2>1. ProbeSane(req'[s])
    BY <1>1 DEF IInv
  <2> QED
    BY <2>1 DEF ProbeSane, Usable
<1>3. ServedByPhase'
  <2>1. phase \notin Starting \union {"exited"}
    BY DEF IInv, ServedByPhase, Idle
  <2> QED
    BY <2>1 DEF IInv, ServedByPhase
<1>4. TypeOK' /\ OpenByPhase' /\ ExitByPhase'
  BY <1>1 DEF IInv, TypeOK, OpenByPhase, ExitByPhase
<1> QED
  BY <1>2, <1>3, <1>4 DEF IInv

LEMMA AcceptInv ==
  ASSUME IInv, NEW r \in Slots, Accept(r)
  PROVE  IInv'
<1> DEFINE D == {d \in Dependencies : ~ Usable(d)}
<1>1. PICK op \in {"readyz", "lfs"} :
        Become(r, [Idle EXCEPT !.pc = "postgres", !.op = op, !.down = D])
  BY DEF Accept
<1> DEFINE q == [Idle EXCEPT !.pc = "postgres", !.op = op, !.down = D]
<1>2. D \subseteq Dependencies /\ \A d \in D : ~ Usable(d)
  OBVIOUS
<1> HIDE DEF D
<1>3. q \in Request /\ ProbeSane(q)
  BY <1>2 DEF Request, ProbeSane, Idle
<1> HIDE DEF q
<1>4. Become(r, q)
  BY <1>1 DEF q
<1> QED
  BY <1>3, <1>4, RequestStep DEF Accept

(* What a check does to the request.                                       *)
CheckedRequest(q, d, healthy, next) ==
  LET p == [q EXCEPT !.failed = IF healthy THEN @ ELSE @ \union {d}]
  IN  IF p.op = "lfs" /\ ~ healthy
      THEN [p EXCEPT !.pc = "done", !.status = "failed"]
      ELSE [p EXCEPT !.pc = next]

LEMMA CheckedFields ==
  ASSUME NEW q \in Request, NEW d \in Dependencies, NEW healthy \in BOOLEAN,
         NEW next \in {"redis", "s3", "transfer"}, q.status = "none"
  PROVE  LET p == CheckedRequest(q, d, healthy, next)
         IN  /\ p \in Request
             /\ p.op = q.op
             /\ p.down = q.down
             /\ p.failed = IF healthy THEN q.failed ELSE q.failed \union {d}
             /\ \/ p.pc = next /\ p.status = "none"
                \/ p.pc = "done" /\ p.status = "failed" /\ p.op = "lfs"
             /\ healthy \/ q.op # "lfs" => p.pc = next
<1> DEFINE F == IF healthy THEN q.failed ELSE q.failed \union {d}
           p == CheckedRequest(q, d, healthy, next)
<1>1. F \in SUBSET Dependencies
  BY DEF Request
<1>2. CheckedRequest(q, d, healthy, next)
        = IF q.op = "lfs" /\ ~ healthy
          THEN [q EXCEPT !.failed = F, !.pc = "done", !.status = "failed"]
          ELSE [q EXCEPT !.failed = F, !.pc = next]
  BY DEF CheckedRequest, Request
<1> HIDE DEF F
<1>3. CASE q.op = "lfs" /\ ~ healthy
  <2>1. p = [q EXCEPT !.failed = F, !.pc = "done", !.status = "failed"]
    BY <1>2, <1>3
  <2> HIDE DEF p
  <2>2. /\ p \in Request
        /\ p.op = q.op
        /\ p.down = q.down
        /\ p.failed = F
        /\ p.pc = "done"
        /\ p.status = "failed"
    BY <1>1, <2>1 DEF Request
  <2> QED
    BY <1>3, <2>2 DEF F, p
<1>4. CASE ~ (q.op = "lfs" /\ ~ healthy)
  <2>1. p = [q EXCEPT !.failed = F, !.pc = next]
    BY <1>2, <1>4
  <2> HIDE DEF p
  <2>2. /\ p \in Request
        /\ p.op = q.op
        /\ p.down = q.down
        /\ p.failed = F
        /\ p.pc = next
        /\ p.status = "none"
    BY <1>1, <2>1 DEF Request
  <2> QED
    BY <1>4, <2>2 DEF F, p
<1> QED
  BY <1>3, <1>4

(* A check of PostgreSQL or Redis keeps the request sane: what cannot be   *)
(* used is reported.                                                       *)
LEMMA CheckedInv ==
  ASSUME IInv, NEW r \in Slots, NEW d \in {"postgres", "redis"},
         NEW healthy \in BOOLEAN, NEW next \in {"redis", "s3", "transfer"},
         Checked(r, d, healthy, next), req[r].pc \notin {"idle", "done"},
         healthy => d \notin req[r].down,
         next \in {"redis", "s3"} /\ (req[r].op = "readyz" \/ healthy) =>
           req[r].op = "readyz",
         next = "redis" => d = "postgres",
         next = "s3" => d = "redis" /\ req[r].pc = "redis",
         UNCHANGED <<phase, server, open, exit, signalled, up, cut>>
  PROVE  IInv'
<1> DEFINE q == req[r]
           p == CheckedRequest(q, d, healthy, next)
<1>1. q \in Request /\ ProbeSane(q) /\ q.status = "none" /\ q.op \in {"readyz", "lfs"}
  BY DEF IInv, TypeOK, ProbeSane, Request
<1>2. d \in Dependencies
  BY DEF Dependencies
<1>3. Become(r, p)
  BY DEF Checked, CheckedRequest
<1>4. /\ p \in Request
      /\ p.op = q.op
      /\ p.down = q.down
      /\ p.failed = IF healthy THEN q.failed ELSE q.failed \union {d}
      /\ \/ p.pc = next /\ p.status = "none"
         \/ p.pc = "done" /\ p.status = "failed" /\ p.op = "lfs"
      /\ healthy \/ q.op # "lfs" => p.pc = next
  BY <1>1, <1>2, CheckedFields
<1>5. q.op = "lfs" /\ ~ healthy => p.pc = "done"
  <2>1. [q EXCEPT !.failed = q.failed \union {d}].op = q.op
    BY <1>1 DEF Request
  <2>2. \A x \in Request : [x EXCEPT !.pc = "done", !.status = "failed"].pc = "done"
    BY DEF Request
  <2>3. [q EXCEPT !.failed = q.failed \union {d}] \in Request
    BY <1>1, <1>2 DEF Request
  <2> QED
    BY <2>1, <2>2, <2>3 DEF CheckedRequest
<1> HIDE DEF p
<1>6. d \in p.down => d \in p.failed
  BY <1>4
<1>7. "postgres" \in q.failed => "postgres" \in p.failed
  BY <1>4
<1>8. ProbeSane(p)
  BY <1>1, <1>4, <1>5, <1>6, <1>7 DEF ProbeSane
<1> QED
  BY <1>3, <1>4, <1>8, RequestStep

LEMMA AcquireInv ==
  ASSUME IInv, NEW r \in Slots, Acquire(r)
  PROVE  IInv'
<1> DEFINE q == req[r]
           p == [q EXCEPT !.pc = "hold"]
<1>1. q \in Request /\ ProbeSane(q) /\ q.pc = "postgres"
  BY DEF IInv, TypeOK, Acquire
<1>2. CASE Usable("postgres") /\ Become(r, p)
  <2>1. /\ p \in Request
        /\ p.pc = "hold"
        /\ p.op = q.op
        /\ p.down = q.down
        /\ p.status = q.status
    BY <1>1 DEF Request
  <2> HIDE DEF p
  <2>2. ProbeSane(p)
    BY <1>1, <1>2, <2>1 DEF ProbeSane
  <2> QED
    BY <1>1, <1>2, <2>1, <2>2, RequestStep DEF Acquire
<1>3. CASE ~ Usable("postgres") /\ Checked(r, "postgres", FALSE, "redis")
  BY <1>1, <1>3, CheckedInv DEF Acquire
<1> QED
  BY <1>2, <1>3 DEF Acquire

LEMMA ReleaseInv ==
  ASSUME IInv, NEW r \in Slots, Release(r)
  PROVE  IInv'
<1> DEFINE next == IF req[r].op = "readyz" THEN "redis" ELSE "transfer"
           healthy == "postgres" \in up
<1>1. ProbeSane(req[r]) /\ req[r].pc = "hold"
  BY DEF IInv, Release
<1>2. /\ next \in {"redis", "s3", "transfer"}
      /\ healthy \in BOOLEAN
      /\ next \in {"redis", "s3"} => req[r].op = "readyz"
      /\ next # "s3"
      /\ "postgres" \notin req[r].down
  BY <1>1 DEF ProbeSane
<1>3. /\ Checked(r, "postgres", healthy, next)
      /\ UNCHANGED <<phase, server, open, exit, signalled, up, cut>>
  BY DEF Release
<1> HIDE DEF next, healthy
<1> QED
  BY <1>1, <1>2, <1>3, CheckedInv

LEMMA CheckRedisInv ==
  ASSUME IInv, NEW r \in Slots, CheckRedis(r)
  PROVE  IInv'
<1> DEFINE healthy == Usable("redis")
<1>1. ProbeSane(req[r]) /\ req[r].pc = "redis" /\ req[r].op = "readyz"
  BY DEF IInv, CheckRedis, ProbeSane
<1>2. healthy \in BOOLEAN /\ (healthy => "redis" \notin req[r].down)
  BY <1>1 DEF ProbeSane, Usable
<1>3. /\ Checked(r, "redis", healthy, "s3")
      /\ UNCHANGED <<phase, server, open, exit, signalled, up, cut>>
  BY DEF CheckRedis
<1> HIDE DEF healthy
<1> QED
  BY <1>1, <1>2, <1>3, CheckedInv

(* Ready means that no check has failed, and every dependency that could   *)
(* not be used has made its check fail.                                    *)
LEMMA CheckS3Inv ==
  ASSUME IInv, NEW r \in Slots, CheckS3(r)
  PROVE  IInv'
<1> DEFINE q == req[r]
           F == IF Usable("s3") THEN q.failed ELSE q.failed \union {"s3"}
           st == IF F = {} THEN "ready" ELSE "notReady"
           p == [q EXCEPT !.failed = F, !.pc = "done", !.status = st]
<1>1. q \in Request /\ ProbeSane(q) /\ q.pc = "s3"
  BY DEF IInv, TypeOK, CheckS3
<1>2. F \in SUBSET Dependencies /\ st \in {"ready", "notReady"}
  BY <1>1 DEF Request, Dependencies
<1>3. Become(r, p)
  <2>1. /\ [q EXCEPT !.failed = IF Usable("s3") THEN @ ELSE @ \union {"s3"}]
             = [q EXCEPT !.failed = F]
        /\ [q EXCEPT !.failed = F].failed = F
    BY <1>1 DEF Request
  <2>2. [[q EXCEPT !.failed = F] EXCEPT !.pc = "done", !.status = st] = p
    BY <1>1 DEF Request
  <2> QED
    BY <2>1, <2>2 DEF CheckS3
<1>4. st = "ready" => q.down = {}
  <2>1. q.down \subseteq Dependencies
    BY <1>1 DEF Request
  <2> QED
    BY <1>1, <2>1 DEF ProbeSane, Dependencies
<1> HIDE DEF F, st
<1>5. /\ p \in Request
      /\ p.pc = "done"
      /\ p.op = q.op
      /\ p.down = q.down
      /\ p.status = st
  BY <1>1, <1>2 DEF Request
<1> HIDE DEF p
<1>6. ProbeSane(p)
  BY <1>1, <1>4, <1>5 DEF ProbeSane
<1> QED
  BY <1>1, <1>3, <1>5, <1>6, RequestStep DEF CheckS3

LEMMA FinishInv ==
  ASSUME IInv, NEW r \in Slots, Transfer(r) \/ Reply(r)
  PROVE  IInv'
<1> DEFINE q == req[r]
<1>1. q \in Request /\ ProbeSane(q) /\ q.pc # "idle"
  BY DEF IInv, TypeOK, Transfer, Reply
<1>2. CASE Transfer(r)
  <2>1. PICK st \in {"served", "failed"} :
          Become(r, [q EXCEPT !.pc = "done", !.status = st])
    BY <1>2 DEF Transfer
  <2> DEFINE p == [q EXCEPT !.pc = "done", !.status = st]
  <2>2. /\ p \in Request
        /\ p.pc = "done"
        /\ p.op = q.op
        /\ p.down = q.down
        /\ p.status = st
    BY <1>1 DEF Request
  <2>3. Become(r, p)
    BY <2>1
  <2> HIDE DEF p
  <2>4. ProbeSane(p)
    BY <1>1, <2>2 DEF ProbeSane
  <2> QED
    BY <1>1, <1>2, <2>2, <2>3, <2>4, RequestStep DEF Transfer
<1>3. CASE Reply(r)
  BY <1>1, <1>3, IdleSane, RequestStep DEF Reply
<1> QED
  BY <1>2, <1>3

-----------------------------------------------------------------------------

LEMMA DependencyFailsInv ==
  ASSUME IInv, NEW d \in Dependencies, DependencyFails(d)
  PROVE  IInv'
<1>1. \A r \in Slots : ProbeSane(req[r])'
  BY ProbesStay DEF DependencyFails
<1> QED
  BY <1>1 DEF DependencyFails, IInv, TypeOK, OpenByPhase, ServedByPhase,
              ExitByPhase, InFlight

(* A dependency that becomes usable is no longer missed.                   *)
LEMMA DependencyRecoversInv ==
  ASSUME IInv, NEW d \in Dependencies, DependencyRecovers(d)
  PROVE  IInv'
<1>1. ASSUME NEW r \in Slots
      PROVE  /\ req'[r] \in Request
             /\ ProbeSane(req[r])'
             /\ req'[r].pc = req[r].pc
             /\ req[r] = Idle => req'[r] = Idle
  <2> DEFINE q == req[r]
             D == IF d = "s3" \/ d \in open THEN q.down \ {d} ELSE q.down
  <2>1. q \in Request /\ ProbeSane(q)
    BY DEF IInv, TypeOK
  <2>2. req'[r] = [q EXCEPT !.down = D]
    BY DEF DependencyRecovers
  <2>3. D \subseteq q.down /\ D \in SUBSET Dependencies
    BY <2>1 DEF Request
  <2>4. \A x \in D : ~ Usable(x)'
    BY <2>1 DEF DependencyRecovers, ProbeSane, Usable
  <2> HIDE DEF D
  <2>5. /\ req'[r] \in Request
        /\ req'[r].pc = q.pc
        /\ req'[r].op = q.op
        /\ req'[r].failed = q.failed
        /\ req'[r].down = D
        /\ req'[r].status = q.status
    BY <2>1, <2>2, <2>3 DEF Request
  <2>6. q = Idle => req'[r] = Idle
    BY <2>2, <2>3 DEF Idle
  <2>7. ProbeSane(req[r])'
    BY <2>1, <2>3, <2>4, <2>5, <2>6 DEF ProbeSane
  <2> QED
    BY <2>5, <2>6, <2>7
<1>2. req' \in [Slots -> Request]
  BY <1>1 DEF DependencyRecovers
<1>3. InFlight' <=> InFlight
  BY <1>1 DEF InFlight
<1>4. UNCHANGED <<phase, server, open, exit, signalled, cut>> /\ up' \subseteq Dependencies
  BY DEF DependencyRecovers, IInv, TypeOK
<1>5. TypeOK' /\ OpenByPhase' /\ ExitByPhase'
  BY <1>2, <1>4 DEF IInv, TypeOK, OpenByPhase, ExitByPhase
<1>6. ServedByPhase'
  BY <1>1, <1>3, <1>4 DEF IInv, ServedByPhase
<1> QED
  BY <1>1, <1>5, <1>6 DEF IInv

(* The invariant holds initially.                                          *)
LEMMA InitInv == Init => IInv
<1> SUFFICES ASSUME Init PROVE IInv
  OBVIOUS
<1>1. \A r \in Slots : req[r] = Idle /\ ProbeSane(req[r])
  BY IdleSane DEF Init
<1>2. req \in [Slots -> Request]
  BY IdleSane DEF Init
<1> QED
  BY <1>1, <1>2 DEF Init, IInv, TypeOK, Phases, OpenByPhase, ServedByPhase,
                    ExitByPhase, Starting

(* Every step preserves it.                                                *)
LEMMA NextInv == IInv /\ [Next]_vars => IInv'
<1> SUFFICES ASSUME IInv, [Next]_vars PROVE IInv'
  OBVIOUS
<1>1. CASE UNCHANGED vars
  <2>1. \A r \in Slots : ProbeSane(req[r])'
    BY <1>1, ProbesStay DEF vars
  <2> QED
    BY <1>1, <2>1 DEF vars, IInv, TypeOK, OpenByPhase, ServedByPhase,
                      ExitByPhase, InFlight
<1>2. CASE Main \/ StartServer \/ Signal \/ Restart
  BY <1>2, StartUpInv, ShutDownInv, EndInv DEF Main
<1>3. ASSUME NEW r \in Slots, Accept(r) \/ Step(r)
      PROVE  IInv'
  BY <1>3, AcceptInv, AcquireInv, ReleaseInv, CheckRedisInv, CheckS3Inv, FinishInv
  DEF Step
<1>4. ASSUME NEW d \in Dependencies, DependencyFails(d) \/ DependencyRecovers(d)
      PROVE  IInv'
  BY <1>4, DependencyFailsInv, DependencyRecoversInv
<1> QED
  BY <1>1, <1>2, <1>3, <1>4 DEF Next

(* The invariant holds in every reachable state, for any number of         *)
(* requests.                                                               *)
THEOREM ProcessInvariance == Spec => []IInv
BY InitInv, NextInv, PTL DEF Spec

(* TypeOK: the variables of the process keep their types.                  *)
THEOREM ProcessTypeCorrect == Spec => []TypeOK
<1>1. IInv => TypeOK
  BY DEF IInv
<1> QED
  BY <1>1, ProcessInvariance, PTL

(* ReadyIsTrue: /readyz says ready only if every dependency could be used  *)
(* at some time since the probe came.                                      *)
THEOREM ReadinessIsTrue == Spec => []ReadyIsTrue
<1>1. IInv => ReadyIsTrue
  BY DEF IInv, ProbeSane, ReadyIsTrue
<1> QED
  BY <1>1, ProcessInvariance, PTL

(* NothingLeftOpen: however the process ends it has closed what it opened. *)
THEOREM AllIsClosed == Spec => []NothingLeftOpen
<1>1. IInv => NothingLeftOpen
  BY DEF IInv, OpenByPhase, ServedByPhase, NothingLeftOpen, Idle
<1> QED
  BY <1>1, ProcessInvariance, PTL

(* The requests that hold a connection of the pool.                        *)
Holding == {r \in Slots : req[r].pc = "hold"}

(* A check leaves its request without a connection.                        *)
LEMMA CheckedLeaves ==
  ASSUME IInv, NEW r \in Slots, NEW d \in Dependencies, NEW healthy \in BOOLEAN,
         NEW next \in {"redis", "s3", "transfer"}, Checked(r, d, healthy, next),
         req[r].pc # "done"
  PROVE  \E p : Become(r, p) /\ p.pc # "hold"
<1> DEFINE q == req[r]
           p == CheckedRequest(q, d, healthy, next)
<1>1. q \in Request /\ q.status = "none"
  BY DEF IInv, TypeOK, ProbeSane
<1>2. Become(r, p)
  BY DEF Checked, CheckedRequest
<1>3. p.pc # "hold"
  <2> DEFINE f == IF healthy THEN q.failed ELSE q.failed \union {d}
             c == [q EXCEPT !.failed = f]
  <2>1. f \in SUBSET Dependencies
    BY <1>1 DEF Request
  <2> HIDE DEF f
  <2>2. c \in Request
    BY <1>1, <2>1 DEF Request
  <2> HIDE DEF c
  <2>3. /\ [c EXCEPT !.pc = "done", !.status = "failed"].pc = "done"
        /\ [c EXCEPT !.pc = next].pc = next
    BY <2>2 DEF Request
  <2>4. p \in {[c EXCEPT !.pc = "done", !.status = "failed"], [c EXCEPT !.pc = next]}
    BY DEF CheckedRequest, c, f
  <2> QED
    BY <2>3, <2>4
<1> HIDE DEF p
<1> QED
  BY <1>2, <1>3

(* A request takes a connection only from a pool that is open.             *)
LEMMA HoldingStep ==
  ASSUME IInv, [Next]_vars, phase = "waitPool"
  PROVE  Holding' \subseteq Holding
<1>1. "postgres" \notin open /\ req \in [Slots -> Request]
  BY DEF IInv, OpenByPhase, TypeOK
<1>2. ASSUME NEW r \in Slots, req'[r].pc = "hold"
      PROVE  req[r].pc = "hold"
  <2>1. ASSUME NEW x \in Slots, NEW q, Become(x, q), q.pc # "hold"
        PROVE  req[r].pc = "hold"
    BY <1>1, <1>2, <2>1 DEF Become
  <2>2. ASSUME NEW x \in Slots, NEW d \in Dependencies, NEW healthy \in BOOLEAN,
               NEW next \in {"redis", "s3", "transfer"}, Checked(x, d, healthy, next),
               req[x].pc # "done"
        PROVE  req[r].pc = "hold"
    BY <2>1, <2>2, CheckedLeaves
  <2>3. ASSUME NEW x \in Slots, Accept(x) \/ Step(x)
        PROVE  req[r].pc = "hold"
    <3>1. CASE Accept(x)
      BY <1>1, <1>2, <3>1 DEF Accept, Become, Idle
    <3>2. CASE Acquire(x)
      BY <1>1, <2>2, <3>2 DEF Acquire, Usable, Dependencies
    <3>3. CASE Release(x)
      <4> DEFINE next == IF req[x].op = "readyz" THEN "redis" ELSE "transfer"
                 healthy == "postgres" \in up
      <4>1. /\ next \in {"redis", "s3", "transfer"}
            /\ healthy \in BOOLEAN
            /\ Checked(x, "postgres", healthy, next)
            /\ req[x].pc # "done"
        BY <3>3 DEF Release
      <4> HIDE DEF next, healthy
      <4> QED
        BY <2>2, <4>1 DEF Dependencies
    <3>4. CASE CheckRedis(x)
      <4> DEFINE healthy == Usable("redis")
      <4>1. /\ healthy \in BOOLEAN
            /\ Checked(x, "redis", healthy, "s3")
            /\ req[x].pc # "done"
        BY <3>4 DEF CheckRedis, Usable
      <4> HIDE DEF healthy
      <4> QED
        BY <2>2, <4>1 DEF Dependencies
    <3>5. CASE CheckS3(x) \/ Transfer(x)
      BY <1>1, <1>2, <3>5 DEF CheckS3, Transfer, Become, Request
    <3>6. CASE Reply(x)
      BY <2>1, <3>6 DEF Reply, Idle
    <3> QED
      BY <2>3, <3>1, <3>2, <3>3, <3>4, <3>5, <3>6 DEF Step
  <2>4. ASSUME NEW d \in Dependencies, DependencyFails(d) \/ DependencyRecovers(d)
        PROVE  req[r].pc = "hold"
    BY <1>1, <1>2, <2>4 DEF DependencyFails, DependencyRecovers, Request
  <2>5. CASE Main \/ StartServer \/ Signal \/ Restart \/ UNCHANGED vars
    BY <1>2, <2>5 DEF Main, StartServer, Signal, Restart, vars, LoadConfig,
       NewPostgresConnection, NewRedisConnection, Connect, Wire, Notify, Select,
       Shutdown, Drained, DrainTimeout, CloseRedis, ClosePool, Exit, Idle
  <2> QED
    BY <2>3, <2>4, <2>5 DEF Next
<1> QED
  BY <1>2 DEF Holding

(* Closing the pool waits for fewer and fewer requests: once it has begun, *)
(* no request gets a connection any more, whatever the server still        *)
(* accepts, and the process ends when the last one is given back.          *)
PoolDrains ==
  [][phase = "waitPool" => \/ phase' = "waitPool" /\ Holding' \subseteq Holding
                           \/ phase' = "exited" /\ Holding = {} ]_vars

(* The part of ComesToAnEnd that needs no fairness.                        *)
THEOREM ClosingPoolDrains == Spec => PoolDrains
<1>1. IInv /\ [Next]_vars =>
        [phase = "waitPool" => \/ phase' = "waitPool" /\ Holding' \subseteq Holding
                               \/ phase' = "exited" /\ Holding = {} ]_vars
  <2> SUFFICES ASSUME IInv, Next, phase = "waitPool"
               PROVE  \/ phase' = "waitPool"
                      \/ phase' = "exited" /\ Holding = {}
    BY HoldingStep
  <2>1. CASE Exit
    BY <2>1 DEF Exit, Holding
  <2>2. CASE ~ Exit
    BY <2>2 DEF Next, Main, StartServer, Signal, Restart, LoadConfig,
       NewPostgresConnection, NewRedisConnection, Connect, Wire, Notify, Select,
       Shutdown, Drained, DrainTimeout, CloseRedis, ClosePool, Accept, Step, Acquire,
       Release, CheckRedis, CheckS3, Transfer, Reply, DependencyFails, DependencyRecovers
  <2> QED
    BY <2>1, <2>2
<1> QED
  BY <1>1, ProcessInvariance, PTL DEF Spec, PoolDrains
=============================================================================
