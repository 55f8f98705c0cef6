--------------------------- MODULE StartupProofs ----------------------------
(***************************************************************************)
(* Proofs about Startup, for any number of instances, migrations and       *)
(* attempts.                                                               *)
(***************************************************************************)
EXTENDS Startup, TLAPS

\* The lock is held by an instance inside m.Up.
LockInv == \A p \in Procs : lock = p => pc[p] \in Migrating

\* schema_migrations: a clean version has all its migrations, a dirty one
\* lacks at most the last.
SchemaInv == /\ ~dirty => applied = 1 .. version
             /\ dirty => /\ version > 0
                         /\ applied = 1 .. version \/ applied = 1 .. (version - 1)

\* Between marking and cleaning a version the instance with the lock is the
\* one that made it dirty.
MigratorInv ==
    \A p \in Procs : lock = p =>
        /\ pc[p] \in {"apply", "clean"} => dirty
        /\ pc[p] = "clean" => applied = 1 .. version

\* Once an instance has come through, nothing is left to migrate.
DoneInv == \A p \in Procs : pc[p] \in Migrated /\ cfg.DBType = "SQL" =>
               version = Migrations /\ ~dirty

\* How many attempts and pools there are at each call.
PoolInv ==
    \A p \in Procs :
        /\ pc[p] \in {"load", "metadata", "migrate", "lock"} \cup Migrating =>
              attempt[p] = 0 /\ pools[p] = 0
        /\ pc[p] \in {"open", "sleep"} => attempt[p] < MaxRetries /\ pools[p] = 0
        /\ pc[p] = "ping" => pools[p] = 1
        /\ pc[p] = "dead" => pools[p] = 0

SInv == ITypeOK /\ LockInv /\ SchemaInv /\ MigratorInv /\ DoneInv /\ PoolInv /\ NoPoolLeak
-----------------------------------------------------------------------------
\* SInv holds before the first instance starts.
LEMMA SInvInit == IInit => SInv
<1> SUFFICES ASSUME IInit PROVE SInv
  OBVIOUS
<1> USE StartupAssumption, ConfigAssumption DEF IInit
<1>1. ITypeOK
  <2>1. cfg \in Config /\ dbUp \in BOOLEAN /\ lock \in Procs \cup {None} /\ applied \subseteq 1 .. Migrations
    OBVIOUS
  <2>2. attempt \in [Procs -> 0 .. MaxRetries] /\ pools \in [Procs -> Nat] /\ version \in 0 .. Migrations
    OBVIOUS
  <2>3. /\ pc \in [Procs -> {"load"}] /\ cause \in [Procs -> Causes \cup {None}]
        /\ piped \in [Procs -> BOOLEAN] /\ dirty \in BOOLEAN
    OBVIOUS
  <2> QED BY <2>1, <2>2, <2>3 DEF ITypeOK
<1>2. LockInv /\ SchemaInv /\ MigratorInv
  BY DEF LockInv, SchemaInv, MigratorInv
<1>3. DoneInv /\ PoolInv /\ NoPoolLeak
  BY DEF DoneInv, PoolInv, NoPoolLeak, Migrated, Opening, Migrating
<1> QED BY <1>1, <1>2, <1>3 DEF SInv

\* The calls that touch neither schema nor pools.
LEMMA PlainStep ==
    ASSUME SInv, NEW p \in Procs,
           \/ Load(p) \/ NewMetadataRepository(p) \/ MigrateConnect(p)
           \/ MigrateLockErr(p) \/ MigrateErr(p) \/ PingOK(p) \/ Sleep(p)
           \/ NewDataPipeline(p) \/ StartServers(p)
    PROVE  SInv'
<1> USE StartupAssumption DEF SInv, ITypeOK, dbVars, Goto, Exit, MigrationFails
<1>1. PICK next : /\ pc' = [pc EXCEPT ![p] = next]
                  /\ next \in {"metadata", "storage", "migrate", "lock", "open", "pipeline",
                               "run", "serving", "exit"}
  BY DEF Load, NewMetadataRepository, MigrateConnect, MigrateLockErr, MigrateErr, PingOK, Sleep,
         NewDataPipeline, StartServers
<1>2. UNCHANGED <<cfg, attempt, pools, dbUp, lock, version, dirty, applied>>
  BY DEF Load, NewMetadataRepository, MigrateConnect, MigrateLockErr, MigrateErr, PingOK, Sleep,
         NewDataPipeline, StartServers
<1>3. ITypeOK'
  BY <1>1, <1>2 DEF Load, NewMetadataRepository, MigrateConnect, MigrateLockErr, MigrateErr, PingOK,
         Sleep, NewDataPipeline, StartServers, Causes, Migrated, Opening, Migrating, Gone
<1>4. lock # p
  BY DEF Load, NewMetadataRepository, MigrateConnect, MigrateLockErr, MigrateErr, PingOK, Sleep,
         NewDataPipeline, StartServers, LockInv, Migrating
<1>5. LockInv' /\ SchemaInv' /\ MigratorInv'
  BY <1>1, <1>2, <1>4 DEF LockInv, SchemaInv, MigratorInv
<1>6. DoneInv'
  <2>1. next \in Migrated /\ cfg.DBType = "SQL" => pc[p] \in Migrated
    BY <1>1 DEF Load, NewMetadataRepository, MigrateConnect, MigrateLockErr, MigrateErr, PingOK,
         Sleep, NewDataPipeline, StartServers, Migrated, Opening
  <2> QED BY <1>1, <1>2, <2>1 DEF DoneInv
<1>7. PoolInv'
  BY <1>1, <1>2 DEF Load, NewMetadataRepository, MigrateConnect, MigrateLockErr, MigrateErr, PingOK,
         Sleep, NewDataPipeline, StartServers, PoolInv, Migrating
<1>8. NoPoolLeak'
  BY <1>1, <1>2 DEF Load, NewMetadataRepository, MigrateConnect, MigrateLockErr, MigrateErr, PingOK,
         Sleep, NewDataPipeline, StartServers, PoolInv, NoPoolLeak, Migrating
<1> QED BY <1>3, <1>5, <1>6, <1>7, <1>8

\* m.Up with the lock in its hands.
LEMMA MigrateStep ==
    ASSUME SInv, NEW p \in Procs,
           MigrateLock(p) \/ MigrateUp(p) \/ MigrateApply(p) \/ MigrateClean(p)
    PROVE  SInv'
<1> USE StartupAssumption DEF SInv, ITypeOK, Goto, Exit, MigrationFails
<1>1. CASE MigrateLock(p)
  BY <1>1 DEF MigrateLock, LockInv, SchemaInv, MigratorInv, DoneInv, PoolInv, NoPoolLeak,
              Migrated, Opening, Migrating
<1>2. CASE MigrateUp(p)
  <2>0. pc[p] = "up" /\ lock = p /\ UNCHANGED <<cfg, attempt, pools, piped, dbUp, applied>>
    BY <1>2 DEF MigrateUp
  <2>1. CASE dirty
    <3>1. /\ pc' = [pc EXCEPT ![p] = "exit"] /\ cause' = [cause EXCEPT ![p] = "migration"]
          /\ lock' = None /\ UNCHANGED <<version, dirty>>
      BY <1>2, <2>1 DEF MigrateUp
    <3>2. ITypeOK'
      BY <2>0, <3>1 DEF Causes, Gone
    <3>3. LockInv' /\ SchemaInv' /\ MigratorInv' /\ DoneInv' /\ PoolInv' /\ NoPoolLeak'
      BY <2>0, <3>1 DEF LockInv, SchemaInv, MigratorInv, DoneInv, PoolInv, NoPoolLeak, Migrated,
                        Opening, Migrating
    <3> QED BY <3>2, <3>3
  <2>2. CASE ~dirty /\ version = Migrations
    <3>1. /\ pc' = [pc EXCEPT ![p] = "open"] /\ lock' = None
          /\ UNCHANGED <<cause, version, dirty>>
      BY <1>2, <2>2 DEF MigrateUp
    <3>2. ITypeOK'
      BY <2>0, <3>1 DEF Migrated, Opening
    <3>3. LockInv' /\ SchemaInv' /\ MigratorInv' /\ DoneInv'
      BY <2>0, <2>2, <3>1 DEF LockInv, SchemaInv, MigratorInv, DoneInv
    <3>4. PoolInv' /\ NoPoolLeak'
      BY <2>0, <3>1 DEF PoolInv, NoPoolLeak, Migrating
    <3> QED BY <3>2, <3>3, <3>4
  <2>3. CASE ~dirty /\ version < Migrations
    <3>1. /\ pc' = [pc EXCEPT ![p] = "apply"] /\ dirty' = TRUE
          /\ version' = version + 1 /\ UNCHANGED <<cause, lock>>
      BY <1>2, <2>3 DEF MigrateUp
    <3>2. version' \in 0 .. Migrations /\ version' > 0 /\ applied' = 1 .. (version' - 1)
      BY <2>0, <2>3, <3>1 DEF SchemaInv
    <3>3. ITypeOK'
      BY <2>0, <3>1, <3>2 DEF Migrating
    <3>4. LockInv' /\ SchemaInv' /\ MigratorInv'
      BY <2>0, <3>1, <3>2 DEF LockInv, SchemaInv, MigratorInv, Migrating
    <3>5. DoneInv' /\ PoolInv' /\ NoPoolLeak'
      BY <2>0, <2>3, <3>1 DEF DoneInv, PoolInv, NoPoolLeak, Migrated, Opening, Migrating
    <3> QED BY <3>3, <3>4, <3>5
  <2> QED BY <1>2, <2>1, <2>2, <2>3 DEF MigrateUp
<1>3. CASE MigrateApply(p)
  <2>1. dirty
    BY <1>3 DEF MigrateApply, MigratorInv
  <2>2. applied \cup {version} = 1 .. version
    BY <2>1 DEF SchemaInv
  <2>3. ITypeOK'
    BY <1>3, <2>2 DEF MigrateApply, Causes, Migrated, Opening, Migrating, Gone
  <2>4. LockInv' /\ SchemaInv' /\ MigratorInv'
    BY <1>3, <2>1, <2>2 DEF MigrateApply, LockInv, SchemaInv, MigratorInv, Migrating
  <2>5. DoneInv' /\ PoolInv' /\ NoPoolLeak'
    BY <1>3, <2>1 DEF MigrateApply, DoneInv, PoolInv, NoPoolLeak, Migrated, Opening, Migrating
  <2> QED BY <2>3, <2>4, <2>5
<1>4. CASE MigrateClean(p)
  BY <1>4 DEF MigrateClean, LockInv, SchemaInv, MigratorInv, DoneInv, PoolInv, NoPoolLeak,
              Migrated, Opening, Migrating
<1> QED BY <1>1, <1>2, <1>3, <1>4

\* OpenWithRetry and the clean-up of a failing NewStorageRepository.
LEMMA PoolStep ==
    ASSUME SInv, NEW p \in Procs,
           PoolNew(p) \/ PoolNewErr(p) \/ PingErr(p) \/ NewStorageRepository(p)
    PROVE  SInv'
<1> USE StartupAssumption DEF SInv, ITypeOK, dbVars, Goto, Exit, DbCleanup
<1>1. lock # p
  BY DEF PoolNew, PoolNewErr, PingErr, NewStorageRepository, LockInv, Migrating
<1>2. LockInv' /\ SchemaInv' /\ MigratorInv' /\ DoneInv'
  BY <1>1 DEF PoolNew, PoolNewErr, PingErr, NewStorageRepository, LockInv, SchemaInv, MigratorInv,
              DoneInv, Migrated, Opening
<1>3. CASE PoolNew(p)
  <2>1. ITypeOK'
    BY <1>3 DEF PoolNew, PoolInv, Migrated, Opening
  <2>2. PoolInv' /\ NoPoolLeak'
    BY <1>3 DEF PoolNew, PoolInv, NoPoolLeak, Migrating
  <2> QED BY <1>2, <2>1, <2>2
<1>4. CASE PingErr(p)
  <2>1. ITypeOK'
    BY <1>4 DEF PingErr, PoolInv, Migrated, Opening, Gone, Causes
  <2>2. PoolInv' /\ NoPoolLeak'
    BY <1>4 DEF PingErr, PoolInv, NoPoolLeak, Migrating
  <2> QED BY <1>2, <2>1, <2>2
<1>5. CASE NewStorageRepository(p)
  <2>1. ITypeOK'
    BY <1>5 DEF NewStorageRepository, Migrated, Opening, Gone, Causes
  <2>2. PoolInv' /\ NoPoolLeak'
    BY <1>5 DEF NewStorageRepository, PoolInv, NoPoolLeak, Migrating
  <2> QED BY <1>2, <2>1, <2>2
<1>6. CASE PoolNewErr(p)
  <2>1. ITypeOK'
    BY <1>6 DEF PoolNewErr, PoolInv, Migrated, Opening, Gone, Causes
  <2>2. PoolInv' /\ NoPoolLeak'
    BY <1>6 DEF PoolNewErr, PoolInv, NoPoolLeak, Migrating
  <2> QED BY <1>2, <2>1, <2>2
<1> QED BY <1>3, <1>4, <1>5, <1>6

\* A migration whose session ends keeps the schema as good as it was.
LEMMA InDoubtStep ==
    ASSUME SInv, InDoubt, UNCHANGED <<version, dirty>>
    PROVE  applied' \subseteq 1 .. Migrations /\ SchemaInv'
<1>1. CASE UNCHANGED applied
  BY <1>1 DEF SInv, ITypeOK, SchemaInv
<1>2. CASE ~UNCHANGED applied
  <2>1. dirty /\ applied' = applied \cup {version}
    BY <1>2 DEF InDoubt, SInv, MigratorInv
  <2>2. applied' = 1 .. version
    BY <2>1, StartupAssumption DEF SInv, ITypeOK, SchemaInv
  <2> QED BY <2>1, <2>2, StartupAssumption DEF SInv, ITypeOK, SchemaInv
<1> QED BY <1>1, <1>2

\* The database, kills and restarts.
LEMMA FaultStep ==
    ASSUME SInv, \/ DatabaseStarts \/ DatabaseStops
                 \/ \E p \in Procs : Kill(p) \/ Restart(p)
    PROVE  SInv'
<1> USE StartupAssumption DEF procVars, dbVars
<1>1. CASE DatabaseStarts
  BY <1>1 DEF DatabaseStarts, SInv, ITypeOK, LockInv, SchemaInv, MigratorInv, DoneInv, PoolInv,
              NoPoolLeak
<1>2. CASE DatabaseStops
  <2>1. applied' \subseteq 1 .. Migrations /\ SchemaInv'
    BY <1>2, InDoubtStep DEF DatabaseStops
  <2> QED BY <1>2, <2>1 DEF DatabaseStops, SInv, ITypeOK, LockInv, MigratorInv, DoneInv, PoolInv,
                            NoPoolLeak
<1>3. ASSUME NEW p \in Procs, Kill(p) PROVE SInv'
  <2>1. applied' \subseteq 1 .. Migrations /\ SchemaInv'
    <3>1. CASE lock = p
      BY <1>3, <3>1, InDoubtStep DEF Kill
    <3>2. CASE lock # p
      BY <1>3, <3>2 DEF Kill, SInv, ITypeOK, SchemaInv
    <3> QED BY <3>1, <3>2
  <2>2. \A q \in Procs : lock' = q => lock = q /\ q # p /\ UNCHANGED applied
    BY <1>3 DEF Kill
  <2>3. ITypeOK'
    BY <1>3, <2>1 DEF Kill, SInv, ITypeOK, Gone
  <2>4. LockInv' /\ MigratorInv'
    BY <1>3, <2>2 DEF Kill, SInv, ITypeOK, LockInv, MigratorInv
  <2>5. DoneInv' /\ PoolInv' /\ NoPoolLeak'
    BY <1>3 DEF Kill, SInv, ITypeOK, DoneInv, PoolInv, NoPoolLeak, Migrated, Opening, Migrating
  <2> QED BY <2>1, <2>3, <2>4, <2>5 DEF SInv
<1>4. ASSUME NEW p \in Procs, Restart(p) PROVE SInv'
  <2>1. lock # p
    BY <1>4 DEF Restart, SInv, LockInv, Gone, Migrating
  <2> QED BY <1>4, <2>1 DEF Restart, SInv, ITypeOK, LockInv, SchemaInv, MigratorInv, DoneInv,
                            PoolInv, NoPoolLeak, Migrated, Opening, Migrating
<1> QED BY <1>1, <1>2, <1>3, <1>4

\* SInv is an invariant of the specification.
LEMMA SInvariant == ISpec => []SInv
<1>1. SInv /\ UNCHANGED ivars => SInv'
  BY DEF ivars, procVars, dbVars, SInv, ITypeOK, LockInv, SchemaInv, MigratorInv, DoneInv, PoolInv,
         NoPoolLeak
<1>2. SInv /\ [INext]_ivars => SInv'
  BY <1>1, PlainStep, MigrateStep, PoolStep, FaultStep
     DEF INext, Main, InitInfrastructure, RunMigrations, OpenWithRetry
<1> QED BY SInvInit, <1>2, PTL DEF ISpec
-----------------------------------------------------------------------------
\* Type correctness of start-up: OpenWithRetry makes no more than MaxRetries
\* attempts, the version never passes the last migration.
THEOREM StartupTypeCorrect == ISpec => []ITypeOK
<1>1. SInv => ITypeOK
  BY DEF SInv
<1> QED BY SInvariant, <1>1, PTL

\* However many instances migrate, die and come back: one that is past
\* RunMigrations works on the complete schema.
THEOREM SchemaIsReady == ISpec => []ReadyMigrated
<1>1. SInv => ReadyMigrated
  BY DEF SInv, DoneInv, SchemaInv, ReadyMigrated
<1> QED BY SInvariant, <1>1, PTL

\* No attempt leaves a pool behind, however many there are.
THEOREM PoolsAreClosed == ISpec => []NoPoolLeak
<1>1. SInv => NoPoolLeak
  BY DEF SInv
<1> QED BY SInvariant, <1>1, PTL
=============================================================================
