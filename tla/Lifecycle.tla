----------------------------- MODULE Lifecycle ------------------------------
(***************************************************************************)
(* ApplicationRunner.Run and the deferred clean-up of main: the servers    *)
(* serve requests until a server fails or a signal arrives, then they are  *)
(* stopped and the infrastructure is closed.                               *)
(*                                                                         *)
(* mode      SERVER_MODE; module Startup has dealt with unknown ones       *)
(* run       where Run and main are                                        *)
(* srv[s]    the gRPC and the HTTP server; "lame" when Serve has returned  *)
(*           an error: no new connection, but the open ones go on          *)
(* req[r]    a request or stream: "active" while its handler works, with a *)
(*           connection of the pool in "query"; "broken" if it failed      *)
(*           because the pool was closed, "cut" if the process ended       *)
(* expired   the context of the shutdown (5 seconds) has ended             *)
(* pool      the connection pool: Close refuses new users at once and      *)
(*           waits for the connections in use                              *)
(* closed    the resources whose clean-up has returned, in order           *)
(***************************************************************************)
EXTENDS Naturals, Sequences

CONSTANTS Streams, HttpReqs

ASSUME RequestAssumption == Streams \cap HttpReqs = {}

VARIABLES mode, run, srv, req, expired, pool, closed

lvars == <<mode, run, srv, req, expired, pool, closed>>

Servers  == {"grpc", "http"}
Reqs     == Streams \cup HttpReqs
Busy     == {"active", "query"}
Ended    == {"exited", "exit1", "killed"}
Resources == {"db", "storage", "pipeline"}

ServerOf(r) == IF r \in Streams THEN "grpc" ELSE "http"
ServersOf(m) == CASE m = "GRPC" -> {"grpc"}
                  [] m = "HTTP" -> {"http"}
                  [] m = "BOTH" -> Servers

\* Types, and no resource is closed twice.
LTypeOK == /\ mode \in {"GRPC", "HTTP", "BOTH"}
           /\ run \in {"starting", "waiting", "grpcstop", "httpstop",
                       "cleanup"} \cup Ended
           /\ srv \in [Servers -> {"off", "starting", "serving", "lame", "failed", "closed"}]
           /\ req \in [Reqs -> {"idle", "done", "refused", "broken", "cut"} \cup Busy]
           /\ expired \in BOOLEAN
           /\ pool \in {"open", "closing", "closed"}
           /\ closed \in Seq(Resources)
           /\ \A i, j \in 1 .. Len(closed) : closed[i] = closed[j] => i = j

\* startServers has started a goroutine for each server of the mode.
LInit == /\ mode \in {"GRPC", "HTTP", "BOTH"}
         /\ run = "starting"
         /\ srv = [s \in Servers |-> IF s \in ServersOf(mode) THEN "starting" ELSE "off"]
         /\ req = [r \in Reqs |-> "idle"]
         /\ expired = FALSE
         /\ pool = "open"
         /\ closed = <<>>
-----------------------------------------------------------------------------
\* Start of a server: net.Listen succeeds, or fails (the port is taken) and
\* the error goes to serverErrors.  A server that was stopped before it had
\* started returns from Serve at once.
Listen(s) ==
    /\ run \notin Ended
    /\ srv[s] = "starting"
    /\ srv' \in {[srv EXCEPT ![s] = "serving"], [srv EXCEPT ![s] = "failed"]}
    /\ UNCHANGED <<mode, run, req, expired, pool, closed>>

\* Serve of a running server returns an error, which goes to serverErrors.
ServeFails(s) ==
    /\ run \notin Ended
    /\ srv[s] = "serving"
    /\ srv' = [srv EXCEPT ![s] = "lame"]
    /\ UNCHANGED <<mode, run, req, expired, pool, closed>>

\* A client calls, on a new connection or an open one: served, or refused by
\* a server that was stopped.
Accept(r) ==
    /\ run \notin Ended
    /\ req[r] = "idle"
    /\ srv[ServerOf(r)] \in {"serving", "lame", "closed"}
    /\ req' = [req EXCEPT ![r] = IF srv[ServerOf(r)] = "closed" THEN "refused"
                                                                ELSE "active"]
    /\ UNCHANGED <<mode, run, srv, expired, pool, closed>>

\* The handler needs the database.
Acquire(r) ==
    /\ run \notin Ended
    /\ req[r] = "active"
    /\ req' = [req EXCEPT ![r] = IF pool = "open" THEN "query" ELSE "broken"]
    /\ UNCHANGED <<mode, run, srv, expired, pool, closed>>

Release(r) ==
    /\ run \notin Ended
    /\ req[r] = "query"
    /\ req' = [req EXCEPT ![r] = "active"]
    /\ UNCHANGED <<mode, run, srv, expired, pool, closed>>

\* The handler has answered.
Answer(r) ==
    /\ run \notin Ended
    /\ req[r] = "active"
    /\ req' = [req EXCEPT ![r] = "done"]
    /\ UNCHANGED <<mode, run, srv, expired, pool, closed>>
-----------------------------------------------------------------------------
\* The process ends, and what it was working on with it.
End(how) ==
    /\ run' = how
    /\ req' = [r \in Reqs |-> IF req[r] \in Busy THEN "cut" ELSE req[r]]
    /\ UNCHANGED <<mode, srv, expired, pool, closed>>

\* signal.Notify; the servers are already running.
Notify == /\ run = "starting"
          /\ run' = "waiting"
          /\ UNCHANGED <<mode, srv, req, expired, pool, closed>>

\* A signal before signal.Notify has its default effect.
SignalEarly == run = "starting" /\ End("killed")

\* case err := <-serverErrors: os.Exit(1), no clean-up.
ServerError ==
    /\ run = "waiting"
    /\ \E s \in Servers : srv[s] \in {"lame", "failed"}
    /\ End("exit1")

\* Stopping a server: it takes no new work, requests in progress go on.
\* Stopping a server that is off or could not listen does nothing.
Stop(s) == srv' = [srv EXCEPT ![s] = IF @ \in {"starting", "serving", "lame"}
                                       THEN "closed" ELSE @]

\* case sig := <-shutdownSignals: the context with the deadline is made, and
\* grpcServer.GracefulStop called.  Later signals are not read.
Signal ==
    /\ run = "waiting"
    /\ run' = "grpcstop"
    /\ Stop("grpc")
    /\ UNCHANGED <<mode, req, expired, pool, closed>>

\* Five seconds after the signal.
Deadline ==
    /\ run \in {"grpcstop", "httpstop", "cleanup"}
    /\ ~expired
    /\ expired' = TRUE
    /\ UNCHANGED <<mode, run, srv, req, pool, closed>>

\* Mutant: Stop instead of GracefulStop.
GracefulStopReturns_Stop ==
    /\ run = "grpcstop"
    /\ run' = "httpstop"
    /\ Stop("http")
    /\ req' = [r \in Reqs |-> IF r \in Streams /\ req[r] \in Busy THEN "cut" ELSE req[r]]
    /\ UNCHANGED <<mode, expired, pool, closed>>

\* Mutant: the HTTP server is left running.
GracefulStopReturns_KeepsHttp ==
    /\ run = "grpcstop"
    /\ \A r \in Streams : req[r] \notin Busy
    /\ run' = "httpstop"
    /\ UNCHANGED <<mode, srv, req, expired, pool, closed>>

\* GracefulStop returns when the last stream has ended, however long that
\* takes, and httpServer.Shutdown(ctx) is called.
GracefulStopReturns ==
    /\ run = "grpcstop"
    /\ \A r \in Streams : req[r] \notin Busy
    /\ run' = "httpstop"
    /\ Stop("http")
    /\ UNCHANGED <<mode, req, expired, pool, closed>>

\* Mutant: Shutdown is called without waiting for its requests.
ShutdownReturns_AtOnce ==
    /\ run = "httpstop"
    /\ run' = "cleanup"
    /\ UNCHANGED <<mode, srv, req, expired, pool, closed>>

\* Mutant: Shutdown under a context without a deadline.
ShutdownReturns_Patient ==
    /\ run = "httpstop"
    /\ \A r \in HttpReqs : req[r] \notin Busy
    /\ run' = "cleanup"
    /\ UNCHANGED <<mode, srv, req, expired, pool, closed>>

\* Shutdown returns when the HTTP requests have ended, or with the error of
\* the context, which is only logged.  Run returns and main's defer follows.
ShutdownReturns ==
    /\ run = "httpstop"
    /\ expired \/ \A r \in HttpReqs : req[r] \notin Busy
    /\ run' = "cleanup"
    /\ UNCHANGED <<mode, srv, req, expired, pool, closed>>

\* combinedCleanup: the pool is closed, which waits for queries ...
ClosePool ==
    /\ run = "cleanup"
    /\ \/ /\ pool = "open"
          /\ pool' = "closing"
          /\ UNCHANGED closed
       \/ /\ pool = "closing"
          /\ \A r \in Reqs : req[r] # "query"
          /\ pool' = "closed"
          /\ closed' = <<"db">>
    /\ UNCHANGED <<mode, run, srv, req, expired>>

\* Mutant: the clean-up of the pool is deferred once more.
CloseRest_Twice ==
    /\ run = "cleanup"
    /\ \/ closed = <<"db">> /\ closed' = <<"db", "storage">>
       \/ closed = <<"db", "storage">> /\ closed' = <<"db", "storage", "db">>
    /\ UNCHANGED <<mode, run, srv, req, expired, pool>>

\* ... then the storage, which has nothing to close, then the pipeline: the
\* order in which they were built, where the comment in main says the reverse.
CloseRest ==
    /\ run = "cleanup"
    /\ \/ closed = <<"db">> /\ closed' = <<"db", "storage">>
       \/ closed = <<"db", "storage">> /\ closed' = <<"db", "storage", "pipeline">>
    /\ UNCHANGED <<mode, run, srv, req, expired, pool>>

\* main returns.
MainReturns == /\ run = "cleanup"
               /\ closed = <<"db", "storage", "pipeline">>
               /\ End("exited")

Terminated == run \in Ended /\ UNCHANGED lvars

\* What the main goroutine does by itself after a signal.
Runner == \/ GracefulStopReturns \/ ShutdownReturns
          \/ ClosePool \/ CloseRest \/ MainReturns

LNext == \/ \E s \in Servers : Listen(s) \/ ServeFails(s)
         \/ \E r \in Reqs : Accept(r) \/ Acquire(r) \/ Release(r) \/ Answer(r)
         \/ Notify \/ SignalEarly \/ Signal \/ ServerError \/ Deadline
         \/ Runner
         \/ Terminated

LSpec == LInit /\ [][LNext]_lvars

\* The main goroutine runs, time passes and the database answers.  Nothing is
\* assumed of signals and of handlers: how long one takes is up to its client.
LFairSpec == /\ LSpec
             /\ WF_lvars(Runner)
             /\ WF_lvars(Deadline)
             /\ \A r \in Reqs : WF_lvars(Release(r))
-----------------------------------------------------------------------------
\* A shutdown by signal never takes a gRPC stream away: streams are cut, or
\* meet a closed pool, only if the process dies at once (a server that could
\* not listen or serve, a signal before Notify).
StreamsDrained ==
    \A r \in Streams : /\ req[r] = "cut" => run \in {"exit1", "killed"}
                       /\ req[r] # "broken"

\* A shutdown by signal takes an HTTP request away, or the pool from under
\* it, only after the five seconds.
HttpGetsItsTime ==
    \A r \in HttpReqs : req[r] \in {"cut", "broken"} =>
        expired \/ run \in {"exit1", "killed"}

\* Once clean-up has begun no server takes a request, not even one whose
\* goroutine starts late or whose Serve has failed with connections open.
ServersBeforeResources ==
    [][run = "cleanup" => /\ \A s \in Servers : srv'[s] \notin {"serving", "lame"}
                          /\ \A r \in Reqs : req[r] = "idle" => req'[r] # "active"]_lvars

\* A process that is told to stop and has no gRPC stream open ends, whatever
\* its HTTP clients do.
StopsWithoutStreams ==
    run = "grpcstop" /\ (\A r \in Streams : req[r] \notin Busy) ~> run = "exited"
=============================================================================
