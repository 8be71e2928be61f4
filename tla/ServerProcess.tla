---------------------------- MODULE ServerProcess ----------------------------
(***************************************************************************)
(* The life of a cargohold process (run in main.go): it connects to        *)
(* PostgreSQL and Redis, starts the HTTP server in a goroutine, and waits  *)
(* for SIGTERM or for the server to fail; then it shuts the server down    *)
(* and the deferred calls close Redis and the connection pool.             *)
(*                                                                         *)
(* Meanwhile requests are served: GET /readyz, which asks every dependency *)
(* in turn, and the LFS requests, of which only matters here that they     *)
(* hold a connection of the pool for a while and then transfer an object.  *)
(* The dependencies fail and recover at any time.                          *)
(***************************************************************************)

CONSTANTS
  Slots,          \* the requests that can be in flight at the same time
  ShutdownStops   \* whether Shutdown stops the server given to StartServer

(* External: echo's Shutdown calls Shutdown of the two http.Server values  *)
(* echo was made with.  main serves with one of its own, so that the       *)
(* answer is {FALSE}; what does not depend on it is shown for both.        *)
ASSUME ShutdownAssumption == ShutdownStops \subseteq BOOLEAN

VARIABLES
  phase,     \* how far run has come
  server,    \* the goroutine that serves
  open,      \* the connections that are open
  exit,      \* how the process ends
  signalled, \* SIGTERM has been delivered to the channel
  up,        \* the dependencies that answer
  req,       \* slot -> the request it serves
  cut        \* history: the process ended with a request in flight

vars == <<phase, server, open, exit, signalled, up, req, cut>>

Dependencies == {"postgres", "redis", "s3"}

Phases == {"config", "postgres", "redis", "wire", "notify", "select", "shutdown",
           "drain", "closeRedis", "closePool", "waitPool", "exited"}

(* failed: failedCheckers of the readiness use case.  down is history: the *)
(* dependencies that could not be used at any time since the request came. *)
Request == [pc : {"idle", "postgres", "hold", "redis", "s3", "transfer", "done"},
            op : {"none", "readyz", "lfs"},
            failed : SUBSET Dependencies, down : SUBSET Dependencies,
            status : {"none", "ready", "notReady", "served", "failed"}]

Idle == [pc |-> "idle", op |-> "none", failed |-> {}, down |-> {},
         status |-> "none"]

Init ==
  /\ phase = "config"
  /\ server = "off"
  /\ open = {}
  /\ exit = "none"
  /\ signalled = FALSE
  /\ up \in SUBSET Dependencies
  /\ req = [r \in Slots |-> Idle]
  /\ cut = FALSE

(* A dependency that answers, through a connection that is open.  S3 is    *)
(* used without one.                                                       *)
Usable(d) == d \in up /\ (d = "s3" \/ d \in open)

InFlight == \E r \in Slots : req[r].pc # "idle"

-----------------------------------------------------------------------------
(* run *)

(* Mutant of ReturnError: os.Exit where run returns an error.              *)
ExitNow ==
  /\ exit' = "error"
  /\ phase' = "exited"

(* run returns an error: the deferred calls close what is open.            *)
ReturnError ==
  /\ exit' = "error"
  /\ phase' = "closeRedis"

LoadConfig ==
  /\ phase = "config"
  /\ \/ phase' = "postgres" /\ UNCHANGED exit
     \/ ReturnError
  /\ UNCHANGED <<server, open, signalled, up, req, cut>>

(* NewPostgresConnection and NewRedisConnection: a connection that does    *)
(* not answer a ping is closed again.                                      *)
Connect(d, next) ==
  /\ phase = d
  /\ \/ /\ d \in up
        /\ open' = open \union {d}
        /\ phase' = next
        /\ UNCHANGED exit
     \/ /\ UNCHANGED open
        /\ ReturnError
  /\ UNCHANGED <<server, signalled, up, req, cut>>

NewPostgresConnection == Connect("postgres", "redis")

NewRedisConnection == Connect("redis", "wire")

(* Mutant of Wire: the client for S3 is kept as a connection to close.     *)
WireS3 ==
  /\ phase = "wire"
  /\ open' = open \union {"s3"}
  /\ server' = "starting"
  /\ phase' = "notify"
  /\ UNCHANGED <<exit, signalled, up, req, cut>>

(* The components are made; a configuration they refuse ends the process.  *)
(* Then the goroutine is started.                                          *)
Wire ==
  /\ phase = "wire"
  /\ \/ /\ server' = "starting"
        /\ phase' = "notify"
        /\ UNCHANGED exit
     \/ /\ ReturnError
        /\ UNCHANGED server
  /\ UNCHANGED <<open, signalled, up, req, cut>>

(* StartServer: the port may be taken, and accepting may fail later.       *)
StartServer ==
  /\ phase # "exited"
  /\ \/ server = "starting" /\ server' \in {"listening", "failed"}
     \/ server = "listening" /\ server' = "failed"
  /\ UNCHANGED <<phase, open, exit, signalled, up, req, cut>>

Notify ==
  /\ phase = "notify"
  /\ phase' = "select"
  /\ UNCHANGED <<server, open, exit, signalled, up, req, cut>>

(* Without a handler for it SIGTERM ends the process at once.              *)
Signal ==
  /\ phase \notin {"exited"}
  /\ ~ signalled
  /\ \/ /\ phase \in {"config", "postgres", "redis", "wire", "notify"}
        /\ phase' = "exited"
        /\ exit' = "killed"
        /\ server' = "off"
        /\ open' = {}
        /\ cut' = InFlight
        /\ req' = [r \in Slots |-> Idle]
        /\ UNCHANGED signalled
     \/ /\ phase \notin {"config", "postgres", "redis", "wire", "notify"}
        /\ signalled' = TRUE
        /\ UNCHANGED <<phase, server, open, exit, req, cut>>
  /\ UNCHANGED up

(* Mutant of Select: an error of the server is not waited for.             *)
SelectSignal ==
  /\ phase = "select"
  /\ signalled
  /\ phase' = "shutdown"
  /\ UNCHANGED <<server, open, exit, signalled, up, req, cut>>

Select ==
  /\ phase = "select"
  /\ \/ signalled /\ phase' = "shutdown" /\ UNCHANGED exit
     \/ server = "failed" /\ ReturnError
  /\ UNCHANGED <<server, open, signalled, up, req, cut>>

(* e.Shutdown: where it reaches the server it waits for the requests in    *)
(* flight.                                                                 *)
Shutdown ==
  /\ phase = "shutdown"
  /\ \/ /\ TRUE \in ShutdownStops
        /\ server' = IF server = "failed" THEN "failed" ELSE "closed"
        /\ phase' = "drain"
        /\ UNCHANGED exit
     \/ /\ FALSE \in ShutdownStops
        /\ phase' = "closeRedis"
        /\ exit' = "clean"
        /\ UNCHANGED server
  /\ UNCHANGED <<open, signalled, up, req, cut>>

Drained ==
  /\ phase = "drain"
  /\ ~ InFlight
  /\ phase' = "closeRedis"
  /\ exit' = "clean"
  /\ UNCHANGED <<server, open, signalled, up, req, cut>>

(* shutdownTimeout, 10 seconds.                                            *)
DrainTimeout ==
  /\ phase = "drain"
  /\ InFlight
  /\ ReturnError
  /\ UNCHANGED <<server, open, signalled, up, req, cut>>

(* The deferred calls, last registered first.                              *)
CloseRedis ==
  /\ phase = "closeRedis"
  /\ open' = open \ {"redis"}
  /\ phase' = "closePool"
  /\ UNCHANGED <<server, exit, signalled, up, req, cut>>

ClosePool ==
  /\ phase = "closePool"
  /\ open' = open \ {"postgres"}
  /\ phase' = "waitPool"
  /\ UNCHANGED <<server, exit, signalled, up, req, cut>>

(* The pool is closed when every connection has been given back.           *)
Exit ==
  /\ phase = "waitPool"
  /\ \A r \in Slots : req[r].pc # "hold"
  /\ phase' = "exited"
  /\ server' = "off"
  /\ cut' = InFlight
  /\ req' = [r \in Slots |-> Idle]
  /\ UNCHANGED <<open, exit, signalled, up>>

(* The container is started again.                                         *)
Restart ==
  /\ phase = "exited"
  /\ phase' = "config"
  /\ exit' = "none"
  /\ signalled' = FALSE
  /\ cut' = FALSE
  /\ UNCHANGED <<server, open, up, req>>

-----------------------------------------------------------------------------
(* Requests *)

Become(r, q) == req' = [req EXCEPT ![r] = q]

Accept(r) ==
  /\ server = "listening"
  /\ req[r].pc = "idle"
  /\ \E op \in {"readyz", "lfs"} :
       Become(r, [Idle EXCEPT !.pc = "postgres", !.op = op,
                              !.down = {d \in Dependencies : ~ Usable(d)}])
  /\ UNCHANGED <<phase, server, open, exit, signalled, up, cut>>

(* What the use of d, step of r, leads to.                                 *)
Checked(r, d, healthy, next) ==
  LET q == [req[r] EXCEPT !.failed = IF healthy THEN @ ELSE @ \union {d}]
  IN  Become(r, IF q.op = "lfs" /\ ~ healthy
                THEN [q EXCEPT !.pc = "done", !.status = "failed"]
                ELSE [q EXCEPT !.pc = next])

(* A connection is taken from the pool, or cannot be had.                  *)
Acquire(r) ==
  /\ req[r].pc = "postgres"
  /\ IF Usable("postgres")
     THEN Become(r, [req[r] EXCEPT !.pc = "hold"])
     ELSE Checked(r, "postgres", FALSE, "redis")
  /\ UNCHANGED <<phase, server, open, exit, signalled, up, cut>>

(* The query ends, with an error if PostgreSQL has gone away, and the      *)
(* connection is given back.                                               *)
Release(r) ==
  /\ req[r].pc = "hold"
  /\ Checked(r, "postgres", "postgres" \in up,
             IF req[r].op = "readyz" THEN "redis" ELSE "transfer")
  /\ UNCHANGED <<phase, server, open, exit, signalled, up, cut>>

CheckRedis(r) ==
  /\ req[r].pc = "redis"
  /\ Checked(r, "redis", Usable("redis"), "s3")
  /\ UNCHANGED <<phase, server, open, exit, signalled, up, cut>>

(* Mutant of CheckS3: the last result decides.                             *)
CheckS3Last(r) ==
  LET q == [req[r] EXCEPT !.failed = IF Usable("s3") THEN {} ELSE {"s3"}]
  IN  /\ req[r].pc = "s3"
      /\ Become(r, [q EXCEPT !.pc = "done",
                             !.status = IF q.failed = {} THEN "ready" ELSE "notReady"])
      /\ UNCHANGED <<phase, server, open, exit, signalled, up, cut>>

(* HeadBucket, and the answer of ExecuteDetails: one failure is enough.    *)
CheckS3(r) ==
  LET q == [req[r] EXCEPT !.failed = IF Usable("s3") THEN @ ELSE @ \union {"s3"}]
  IN  /\ req[r].pc = "s3"
      /\ Become(r, [q EXCEPT !.pc = "done",
                             !.status = IF q.failed = {} THEN "ready" ELSE "notReady"])
      /\ UNCHANGED <<phase, server, open, exit, signalled, up, cut>>

(* The object is transferred between the client and S3.                    *)
Transfer(r) ==
  /\ req[r].pc = "transfer"
  /\ Become(r, [req[r] EXCEPT !.pc = "done",
                              !.status = IF Usable("s3") THEN "served" ELSE "failed"])
  /\ UNCHANGED <<phase, server, open, exit, signalled, up, cut>>

Reply(r) ==
  /\ req[r].pc = "done"
  /\ Become(r, Idle)
  /\ UNCHANGED <<phase, server, open, exit, signalled, up, cut>>

-----------------------------------------------------------------------------

(* A dependency goes away or comes back.                                   *)
DependencyFails(d) ==
  /\ d \in up
  /\ up' = up \ {d}
  /\ UNCHANGED <<phase, server, open, exit, signalled, req, cut>>

DependencyRecovers(d) ==
  /\ d \notin up
  /\ up' = up \union {d}
  /\ req' = [r \in Slots |->
               [req[r] EXCEPT !.down = IF d = "s3" \/ d \in open THEN @ \ {d} ELSE @]]
  /\ UNCHANGED <<phase, server, open, exit, signalled, cut>>

Main ==
  \/ LoadConfig
  \/ NewPostgresConnection
  \/ NewRedisConnection
  \/ Wire
  \/ Notify
  \/ Select
  \/ Shutdown
  \/ Drained
  \/ DrainTimeout
  \/ CloseRedis
  \/ ClosePool
  \/ Exit

Step(r) ==
  \/ Acquire(r)
  \/ Release(r)
  \/ CheckRedis(r)
  \/ CheckS3(r)
  \/ Transfer(r)
  \/ Reply(r)

Next ==
  \/ Main
  \/ StartServer
  \/ Signal
  \/ Restart
  \/ \E r \in Slots : Accept(r) \/ Step(r)
  \/ \E d \in Dependencies : DependencyFails(d) \/ DependencyRecovers(d)

Spec == Init /\ [][Next]_vars

(* run goes on, with timeouts on what it waits for; so do the requests.    *)
(* A transfer has no bound of its own and gets no fairness.                *)
Fairness ==
  /\ WF_vars(Main)
  /\ \A r \in Slots : WF_vars(Step(r) /\ req[r].pc # "transfer")

FairSpec == Spec /\ Fairness

-----------------------------------------------------------------------------
(* Properties *)

(* Type invariant.                                                         *)
TypeOK ==
  /\ phase \in Phases
  /\ server \in {"off", "starting", "listening", "failed", "closed"}
  /\ open \subseteq {"postgres", "redis"}
  /\ exit \in {"none", "clean", "error", "killed"}
  /\ signalled \in BOOLEAN
  /\ up \subseteq Dependencies
  /\ req \in [Slots -> Request]
  /\ cut \in BOOLEAN

(* Ready is never said while a dependency could not be used at any time    *)
(* since the probe came, be it down or closed by the shutdown, whatever    *)
(* the other checks of the probe found.                                    *)
ReadyIsTrue == \A r \in Slots : req[r].status = "ready" => req[r].down = {}

(* However the process ends, at whichever step of its start or its         *)
(* shutdown, no connection is left open, and none of the pool is in use.   *)
NothingLeftOpen ==
  phase = "exited" => open = {} /\ \A r \in Slots : req[r].pc # "hold"

(* The log line "server stopped gracefully": a process that ends without   *)
(* an error has answered every request it had accepted.                    *)
StoppedGracefully == phase = "exited" /\ exit = "clean" => ~ cut

(* A process that gets SIGTERM, or whose server fails, comes to an end,    *)
(* although closing the pool waits for the requests that hold connections. *)
ComesToAnEnd == signalled \/ server = "failed" ~> phase = "exited"

-----------------------------------------------------------------------------
(* Inductive invariant *)

Starting == {"config", "postgres", "redis", "wire"}

(* Which connections are open at which step of run.                        *)
OpenByPhase ==
  /\ phase \in {"config", "postgres", "waitPool", "exited"} => open = {}
  /\ phase \in {"redis", "closePool"} => open \subseteq {"postgres"}

(* There are requests only from a server that has been started.            *)
ServedByPhase ==
  /\ phase \in Starting \union {"exited"} =>
       server = "off" /\ \A r \in Slots : req[r] = Idle
  /\ phase = "drain" => server \in {"closed", "failed"}

(* There is an exit status once run returns, and not before.               *)
ExitByPhase ==
  /\ phase \in Starting \union {"notify", "select", "shutdown", "drain"} <=> exit = "none"
  /\ exit = "none" => ~ cut

(* What a probe has missed so far is among what it has reported.           *)
ProbeSane(q) ==
  /\ q.pc = "idle" => q = Idle
  /\ q.pc # "idle" => q.op # "none"
  /\ \A d \in q.down : ~ Usable(d)
  /\ q.pc = "hold" => "postgres" \notin q.down
  /\ q.pc \in {"redis", "s3"} => q.op = "readyz"
  /\ q.pc \in {"redis", "s3"} /\ "postgres" \in q.down => "postgres" \in q.failed
  /\ q.pc = "s3" /\ "redis" \in q.down => "redis" \in q.failed
  /\ q.status = "ready" => q.down = {}
  /\ q.pc # "done" => q.status = "none"

IInv ==
  /\ TypeOK
  /\ OpenByPhase
  /\ ServedByPhase
  /\ ExitByPhase
  /\ \A r \in Slots : ProbeSane(req[r])
==============================================================================
