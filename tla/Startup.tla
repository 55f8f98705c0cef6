------------------------------- MODULE Startup ------------------------------
(***************************************************************************)
(* main up to the point where the servers run: config.Load and             *)
(* InitInfrastructure, for several instances of the API that start against *)
(* one database (docker-compose, Cloud Run).                               *)
(*                                                                         *)
(* cfg        the environment of the deployment, the same for all          *)
(* pc[p]      the call instance p executes next                            *)
(* cause[p]   why p left with exit code 1, None while it has not           *)
(* attempt[p] the loop variable of OpenWithRetry, 0 before the loop        *)
(* pools[p]   connection pools p has opened and not closed                 *)
(* piped[p]   p has a notification pipeline (InfraResources.DataPipeline)  *)
(*                                                                         *)
(* dbUp       Postgres accepts connections; it may start after the API and *)
(*            restart at any moment                                        *)
(* lock       the instance whose session holds golang-migrate's advisory   *)
(*            lock, which ends with the session                            *)
(* version, dirty   the row of schema_migrations                           *)
(* applied    the migrations whose statements have been committed          *)
(***************************************************************************)
EXTENDS Naturals

CONSTANTS Procs, None, Configs, Migrations, MaxRetries

ASSUME StartupAssumption ==
    /\ None \notin Procs
    /\ Migrations \in Nat
    /\ MaxRetries \in Nat \ {0}

VARIABLES cfg, pc, cause, attempt, pools, piped, dbUp, lock, version, dirty, applied

procVars == <<pc, cause, attempt, pools, piped>>
dbVars   == <<dbUp, lock, version, dirty, applied>>
ivars    == <<cfg, procVars, dbVars>>

Config == [DBType : {"SQL", "INMEMORY"}, StorageType : {"LOCAL", "S3", "GCS"},
           PipelineType : {"GCP", "REDIS", "GRPC", "HTTP"},
           ServerMode : {"GRPC", "HTTP", "BOTH", "OTHER"}, samePort : BOOLEAN]

ASSUME ConfigAssumption == Configs \subseteq Config

Migrating == {"up", "apply", "clean"}
Opening   == {"open", "ping", "sleep"}
\* Past NewMetadataRepository's migrations.
Migrated  == Opening \cup {"storage", "pipeline", "run", "serving"}
Gone      == {"exit", "dead"}
Causes    == {"config", "connect", "migration", "storage", "mode"}

ITypeOK == /\ cfg \in Config
           /\ pc \in [Procs -> {"load", "metadata", "migrate", "lock"}
                               \cup Migrating \cup Migrated \cup Gone]
           /\ cause \in [Procs -> Causes \cup {None}]
           /\ attempt \in [Procs -> 0 .. MaxRetries]
           /\ pools \in [Procs -> Nat]
           /\ piped \in [Procs -> BOOLEAN]
           /\ dbUp \in BOOLEAN
           /\ lock \in Procs \cup {None}
           /\ version \in 0 .. Migrations
           /\ dirty \in BOOLEAN
           /\ applied \subseteq 1 .. Migrations

IInit == /\ cfg \in Configs
         /\ pc = [p \in Procs |-> "load"]
         /\ cause = [p \in Procs |-> None]
         /\ attempt = [p \in Procs |-> 0]
         /\ pools = [p \in Procs |-> 0]
         /\ piped = [p \in Procs |-> FALSE]
         /\ dbUp \in BOOLEAN
         /\ lock = None
         /\ version = 0
         /\ dirty = FALSE
         /\ applied = {}
-----------------------------------------------------------------------------
Goto(p, next) == /\ pc' = [pc EXCEPT ![p] = next]
                 /\ UNCHANGED cause

\* An error reaches main, or the code calls os.Exit(1) itself.
Exit(p, why) == /\ pc' = [pc EXCEPT ![p] = "exit"]
                /\ cause' = [cause EXCEPT ![p] = why]

\* config.Load: both servers on one port is an error, everything else is
\* taken as it is.
Load(p) ==
    /\ pc[p] = "load"
    /\ IF cfg.ServerMode = "BOTH" /\ cfg.samePort THEN Exit(p, "config")
                                                   ELSE Goto(p, "metadata")
    /\ UNCHANGED <<cfg, attempt, pools, piped, dbVars>>

\* NewMetadataRepository: INMEMORY needs no database; otherwise migrations
\* first, then the pool.
NewMetadataRepository(p) ==
    /\ pc[p] = "metadata"
    /\ Goto(p, IF cfg.DBType = "INMEMORY" THEN "storage" ELSE "migrate")
    /\ UNCHANGED <<cfg, attempt, pools, piped, dbVars>>

\* Mutant: a failing migration is logged and start-up goes on.
MigrationFails_GoesOn(p, why) == Goto(p, "open")

\* RunMigrations returns an error: NewMetadataRepository and main give up.
MigrationFails(p, why) == Exit(p, why)

\* RunMigrations connects, once.
MigrateConnect(p) ==
    /\ pc[p] = "migrate"
    /\ IF dbUp THEN Goto(p, "lock") ELSE MigrationFails(p, "connect")
    /\ UNCHANGED <<cfg, attempt, pools, piped, dbVars>>

\* m.Up takes the advisory lock ...
MigrateLock(p) ==
    /\ pc[p] = "lock"
    /\ dbUp
    /\ lock = None
    /\ lock' = p
    /\ Goto(p, "up")
    /\ UNCHANGED <<cfg, attempt, pools, piped, dbUp, version, dirty, applied>>

\* ... or fails, when it is taken for longer than golang-migrate waits or
\* the connection is lost.
MigrateLockErr(p) ==
    /\ pc[p] = "lock"
    /\ ~dbUp \/ lock # None
    /\ MigrationFails(p, "migration")
    /\ UNCHANGED <<cfg, attempt, pools, piped, dbVars>>

\* m.Up reads the version.  A dirty one is an error; the last one is
\* ErrNoChange, which counts as success; any other is moved forward, marked
\* dirty until the statements have run.
MigrateUp(p) ==
    /\ pc[p] = "up"
    /\ lock = p
    /\ \/ /\ dirty
          /\ MigrationFails(p, "migration")
          /\ lock' = None
          /\ UNCHANGED <<version, dirty>>
       \/ /\ ~dirty
          /\ version = Migrations
          /\ Goto(p, "open")
          /\ lock' = None
          /\ UNCHANGED <<version, dirty>>
       \/ /\ ~dirty
          /\ version < Migrations
          /\ Goto(p, "apply")
          /\ version' = version + 1
          /\ dirty' = TRUE
          /\ UNCHANGED lock
    /\ UNCHANGED <<cfg, attempt, pools, piped, dbUp, applied>>

\* The statements of the migration are committed, or one is refused: Up
\* returns the error, gives the lock back and leaves the version dirty.
MigrateApply(p) ==
    /\ pc[p] = "apply"
    /\ lock = p
    /\ \/ /\ applied' = applied \cup {version}
          /\ Goto(p, "clean")
          /\ UNCHANGED lock
       \/ /\ MigrationFails(p, "migration")
          /\ lock' = None
          /\ UNCHANGED applied
    /\ UNCHANGED <<cfg, attempt, pools, piped, dbUp, version, dirty>>

MigrateClean(p) ==
    /\ pc[p] = "clean"
    /\ lock = p
    /\ dirty' = FALSE
    /\ Goto(p, "up")
    /\ UNCHANGED <<cfg, attempt, pools, piped, dbUp, lock, version, applied>>

\* The session of m is gone: the next statement of Up is an error.
MigrateErr(p) ==
    /\ pc[p] \in Migrating
    /\ lock # p
    /\ MigrationFails(p, "migration")
    /\ UNCHANGED <<cfg, attempt, pools, piped, dbVars>>

\* OpenWithRetry: pgxpool.New opens a pool without connecting ...
PoolNew(p) ==
    /\ pc[p] = "open"
    /\ attempt' = [attempt EXCEPT ![p] = @ + 1]
    /\ pools' = [pools EXCEPT ![p] = @ + 1]
    /\ Goto(p, "ping")
    /\ UNCHANGED <<cfg, piped, dbVars>>

\* ... or fails: there is no pool to close, and the attempt counts.
PoolNewErr(p) ==
    /\ pc[p] = "open"
    /\ attempt' = [attempt EXCEPT ![p] = @ + 1]
    /\ IF attempt[p] + 1 < MaxRetries THEN Goto(p, "sleep") ELSE Exit(p, "connect")
    /\ UNCHANGED <<cfg, pools, piped, dbVars>>

\* Ping connects.
PingOK(p) ==
    /\ pc[p] = "ping"
    /\ dbUp
    /\ Goto(p, "storage")
    /\ UNCHANGED <<cfg, attempt, pools, piped, dbVars>>

\* Mutant: the pool that did not answer is dropped, not closed.
PingErr_Leaks(p) ==
    /\ pc[p] = "ping"
    /\ ~dbUp
    /\ IF attempt[p] < MaxRetries THEN Goto(p, "sleep") ELSE Exit(p, "connect")
    /\ UNCHANGED <<cfg, attempt, pools, piped, dbVars>>

\* Mutant: tries again without limit.
PingErr_Forever(p) ==
    /\ pc[p] = "ping"
    /\ ~dbUp
    /\ pools' = [pools EXCEPT ![p] = @ - 1]
    /\ attempt' = [attempt EXCEPT ![p] = 0]
    /\ Goto(p, "sleep")
    /\ UNCHANGED <<cfg, piped, dbVars>>

\* Mutant: one attempt too many.
PingErr_OffByOne(p) ==
    /\ pc[p] = "ping"
    /\ ~dbUp
    /\ pools' = [pools EXCEPT ![p] = @ - 1]
    /\ IF attempt[p] <= MaxRetries THEN Goto(p, "sleep") ELSE Exit(p, "connect")
    /\ UNCHANGED <<cfg, attempt, piped, dbVars>>

\* The pool is closed; try again in two seconds, give up after the last
\* attempt.
PingErr(p) ==
    /\ pc[p] = "ping"
    /\ ~dbUp
    /\ pools' = [pools EXCEPT ![p] = @ - 1]
    /\ IF attempt[p] < MaxRetries THEN Goto(p, "sleep") ELSE Exit(p, "connect")
    /\ UNCHANGED <<cfg, attempt, piped, dbVars>>

\* time.Sleep(2 * time.Second)
Sleep(p) ==
    /\ pc[p] = "sleep"
    /\ Goto(p, "open")
    /\ UNCHANGED <<cfg, attempt, pools, piped, dbVars>>

\* dbCleanup: closes the pool, or does nothing for the in-memory repository.
DbCleanup(p) == pools' = [pools EXCEPT ![p] = 0]

\* NewStorageRepository; InitInfrastructure closes the pool when it fails.
\* The GCS client may be refused (credentials), S3 is not implemented.
NewStorageRepository(p) ==
    /\ pc[p] = "storage"
    /\ \/ /\ cfg.StorageType \in {"LOCAL", "GCS"}
          /\ Goto(p, "pipeline")
          /\ UNCHANGED pools
       \/ /\ cfg.StorageType \in {"S3", "GCS"}
          /\ DbCleanup(p)
          /\ Exit(p, "storage")
    /\ UNCHANGED <<cfg, attempt, piped, dbVars>>

\* Mutant: no server without a pipeline.
NewDataPipeline_Required(p) ==
    /\ pc[p] = "pipeline"
    /\ \/ /\ cfg.PipelineType # "REDIS"
          /\ piped' = [piped EXCEPT ![p] = TRUE]
          /\ Goto(p, "run")
       \/ /\ cfg.PipelineType # "HTTP"
          /\ UNCHANGED piped
          /\ Exit(p, "storage")
    /\ UNCHANGED <<cfg, attempt, pools, dbVars>>

\* NewDataPipeline: REDIS is not implemented, the clients of GCP and GRPC may
\* fail, HTTP cannot.  InitInfrastructure logs the error and goes on without
\* a pipeline.
NewDataPipeline(p) ==
    /\ pc[p] = "pipeline"
    /\ \/ /\ cfg.PipelineType # "REDIS"
          /\ piped' = [piped EXCEPT ![p] = TRUE]
       \/ /\ cfg.PipelineType # "HTTP"
          /\ UNCHANGED piped
    /\ Goto(p, "run")
    /\ UNCHANGED <<cfg, attempt, pools, dbVars>>

\* startServers: an unknown SERVER_MODE ends the process, without the
\* deferred clean-up; otherwise module Lifecycle takes over.
StartServers(p) ==
    /\ pc[p] = "run"
    /\ IF cfg.ServerMode = "OTHER" THEN Exit(p, "mode") ELSE Goto(p, "serving")
    /\ UNCHANGED <<cfg, attempt, pools, piped, dbVars>>
-----------------------------------------------------------------------------
\* The statements of a migration whose session ends are committed or not.
InDoubt == \/ UNCHANGED applied
           \/ /\ \E p \in Procs : lock = p /\ pc[p] = "apply"
              /\ applied' = applied \cup {version}

DatabaseStarts ==
    /\ ~dbUp
    /\ dbUp' = TRUE
    /\ UNCHANGED <<cfg, procVars, lock, version, dirty, applied>>

\* Postgres goes away, with every session.
DatabaseStops ==
    /\ dbUp
    /\ dbUp' = FALSE
    /\ lock' = None
    /\ InDoubt
    /\ UNCHANGED <<cfg, procVars, version, dirty>>

\* The instance is killed, or the host fails.
Kill(p) ==
    /\ pc[p] \notin Gone
    /\ pc' = [pc EXCEPT ![p] = "dead"]
    /\ pools' = [pools EXCEPT ![p] = 0]
    /\ IF lock = p THEN lock' = None /\ InDoubt ELSE UNCHANGED <<lock, applied>>
    /\ UNCHANGED <<cfg, cause, attempt, piped, dbUp, version, dirty>>

\* The platform, or somebody, starts the instance again.
Restart(p) ==
    /\ pc[p] \in Gone
    /\ pc' = [pc EXCEPT ![p] = "load"]
    /\ cause' = [cause EXCEPT ![p] = None]
    /\ attempt' = [attempt EXCEPT ![p] = 0]
    /\ pools' = [pools EXCEPT ![p] = 0]
    /\ piped' = [piped EXCEPT ![p] = FALSE]
    /\ UNCHANGED <<cfg, dbVars>>

RunMigrations(p) == \/ MigrateConnect(p) \/ MigrateLock(p)  \/ MigrateLockErr(p)
                    \/ MigrateUp(p)      \/ MigrateApply(p) \/ MigrateClean(p)
                    \/ MigrateErr(p)

OpenWithRetry(p) == PoolNew(p) \/ PoolNewErr(p) \/ PingOK(p) \/ PingErr(p) \/ Sleep(p)

InitInfrastructure(p) == \/ NewMetadataRepository(p)
                         \/ RunMigrations(p)
                         \/ OpenWithRetry(p)
                         \/ NewStorageRepository(p)
                         \/ NewDataPipeline(p)

Main(p) == Load(p) \/ InitInfrastructure(p) \/ StartServers(p)

INext == \/ \E p \in Procs : Main(p) \/ Kill(p) \/ Restart(p)
         \/ DatabaseStarts
         \/ DatabaseStops

ISpec == IInit /\ [][INext]_ivars

\* main goes on until it serves or exits: every call it makes returns.  The
\* advisory lock is waited for with a time limit.  Nothing is assumed of the
\* database, of kills and of restarts.
IFairSpec == ISpec /\ \A p \in Procs : WF_ivars(Main(p))
-----------------------------------------------------------------------------
\* An instance past RunMigrations works on the complete schema, also when
\* another instance was killed inside a migration, the database restarted in
\* the middle of one, or several instances migrate at once ("Database is
\* ready and migrated successfully").
ReadyMigrated ==
    \A p \in Procs : pc[p] \in Migrated /\ cfg.DBType = "SQL" =>
        applied = 1 .. Migrations /\ ~dirty

\* At most one pool is open whatever the number of attempts, and none is left
\* when InitInfrastructure fails (OpenWithRetry, the dbCleanup of a failing
\* NewStorageRepository).
NoPoolLeak ==
    \A p \in Procs : /\ pools[p] <= 1
                     /\ pc[p] = "exit" /\ cause[p] # "mode" => pools[p] = 0

\* main serves or ends, unless it is killed: neither a database that never
\* comes nor a lock that another instance holds keeps it for ever.
MainSettles ==
    \A p \in Procs : pc[p] = "load" ~> pc[p] \in {"serving"} \cup Gone

\* Without a database and a bucket there is nothing to wait for: the server
\* comes up whatever the pipeline's client says.
PipelineOptional ==
    \A p \in Procs :
        /\ pc[p] = "load"
        /\ cfg.DBType = "INMEMORY" /\ cfg.StorageType = "LOCAL"
        /\ cfg.ServerMode \in {"GRPC", "HTTP"}
        ~> pc[p] \in {"serving", "dead"}
-----------------------------------------------------------------------------
\* README.md: the retries tolerate a database container that starts late.
\* Here: an instance that ends because it could not connect has used them.
LateDatabaseTolerated ==
    \A p \in Procs : cause[p] = "connect" => attempt[p] = MaxRetries
=============================================================================
