---------------------------- MODULE UploadProofs ----------------------------
(***************************************************************************)
(* Proofs about Upload for any files, names, calls and either storage      *)
(* backend.  Type correctness holds with either repository; the safety     *)
(* theorems assume the SQL repository, whose statements can be in doubt.   *)
(***************************************************************************)
EXTENDS Upload, TLAPS

Constant == /\ NameOf \in [Files -> Names]
            /\ CallOf \in [Files -> Calls]
            /\ DBType \in {"SQL", "INMEMORY"}
            /\ StorageType \in {"GCS", "LOCAL"}
            /\ Absent \notin Files
            /\ Torn \notin Files
            /\ Absent # Torn

LEMMA Constants == Constant
BY NameAssumption, CallAssumption, DBAssumption, StorageAssumption DEF Constant

\* The statements a goroutine waits for carry a status.
LEMMA IssuedType == ASSUME NEW f \in Files
                    PROVE  Issued(f) \in TransferStatus \cup {None}
BY DEF Issued, TransferStatus, StatusPending, StatusCompleted, StatusFailed, None

-----------------------------------------------------------------------------
(* Type correctness.                                                       *)

LEMMA TypeInit == Init => TypeOK
BY Constants
   DEF Constant, Init, TypeOK, MetadataInit, StorageInit, MetadataTypeOK,
       StorageTypeOK, PC

LEMMA TypeStep == ASSUME TypeOK, NEW f \in Files, Step(f) PROVE TypeOK'
<1> USE Constants DEF Constant, TypeOK, MetadataTypeOK, StorageTypeOK, PC,
        TransferStatus, StatusPending, StatusProcessing, StatusCompleted, StatusFailed, None,
        ToMetadataStatus, metaVars, storageVars, groupVars, Goto, ReturnError,
        Put
<1>1. CASE CreateOK(f)
  BY <1>1 DEF CreateOK, Create
<1>2. CASE CreateErr(f)
  BY <1>2 DEF CreateErr, StatementFails
<1>3. CASE SaveOpen(f)
  BY <1>3 DEF SaveOpen, Open
<1>4. CASE SaveOpenErr(f)
  BY <1>4 DEF SaveOpenErr, OpenFails
<1>5. CASE SaveWrite(f)
  BY <1>5 DEF SaveWrite, WriteOver
<1>6. CASE SaveOK(f)
  BY <1>6 DEF SaveOK, SaveReturns
<1>7. CASE SaveErr(f)
  BY <1>7 DEF SaveErr, SaveFails
<1>8. CASE RollbackOK(f)
  BY <1>8 DEF RollbackOK, UpdateStatus
<1>9. CASE RollbackErr(f)
  BY <1>9 DEF RollbackErr, StatementFails
<1>10. CASE CompleteOK(f)
  BY <1>10 DEF CompleteOK, UpdateStatus
<1>11. CASE CompleteErr(f)
  BY <1>11 DEF CompleteErr, StatementFails
<1>12. CASE Notify(f)
  BY <1>12 DEF Notify
<1> QED
  BY <1>1, <1>2, <1>3, <1>4, <1>5, <1>6, <1>7, <1>8, <1>9, <1>10, <1>11,
     <1>12 DEF Step

LEMMA TypeNext == TypeOK /\ [Next]_vars => TypeOK'
<1> SUFFICES ASSUME TypeOK, [Next]_vars PROVE TypeOK'
  OBVIOUS
<1> USE Constants DEF Constant, TypeOK, MetadataTypeOK, StorageTypeOK,
        metaVars, storageVars, groupVars
<1>1. ASSUME NEW c \in Calls, Start(c) PROVE TypeOK'
  BY <1>1 DEF Start, PC
<1>2. ASSUME NEW c \in Calls, CancelRequest(c) PROVE TypeOK'
  BY <1>2 DEF CancelRequest
<1>3. ASSUME NEW c \in Calls, WaitReturn(c) PROVE TypeOK'
  BY <1>3 DEF WaitReturn
<1>4. ASSUME NEW f \in Files, Step(f) PROVE TypeOK'
  BY <1>4, TypeStep
<1>5. ASSUME NEW f \in Files, SettleRow(f) PROVE TypeOK'
  BY <1>5 DEF SettleRow, Settle
<1>6. ASSUME NEW f \in Files, FinalizeObject(f) PROVE TypeOK'
  BY <1>6 DEF FinalizeObject, Finalize
<1>7. CASE Crash
  <2>1. MetadataTypeOK'
    BY <1>7, IssuedType DEF Crash, MetadataCrash
  <2>2. StorageTypeOK'
    BY <1>7 DEF Crash, StorageCrash
  <2>3. pc' \in [Files -> PC] /\ call' \in [Calls -> {"idle", "running", "ok", "failed", "lost"}]
    BY <1>7 DEF Crash, PC
  <2> QED
    BY <1>7, <2>1, <2>2, <2>3 DEF Crash
<1>8. CASE UNCHANGED vars
  BY <1>8 DEF vars
<1> QED
  BY <1>1, <1>2, <1>3, <1>4, <1>5, <1>6, <1>7, <1>8 DEF Next, Quiet

\* Every variable of the upload use case and of its repositories keeps its
\* type, whatever the backends.
THEOREM TypeCorrect == Spec => []TypeOK
BY TypeInit, TypeNext, PTL DEF Spec
-----------------------------------------------------------------------------
(* The inductive invariant.  The properties say nothing about a goroutine  *)
(* that is between two operations, nor about what a statement in doubt may *)
(* still do; these conjuncts do.                                           *)

\* Groups: a call's files start together, a goroutine works only for a call
\* that is running, and a call answered ok has only finished goroutines.
CallInv == \A f \in Files :
    /\ call[CallOf[f]] = "idle" <=> pc[f] = "idle"
    /\ pc[f] \in Active => call[CallOf[f]] = "running"
    /\ call[CallOf[f]] = "ok" => pc[f] = "done"
    /\ pc[f] = "error" => ctxDone[CallOf[f]]

\* Rows: the program counter determines the row until the goroutine has
\* failed or died; then a statement in doubt still fits the row it meets.
RowInv == \A f \in Files :
    /\ pc[f] \in {"idle", "create"} => row[f] = None
    /\ pc[f] \in {"open", "copy", "rollback", "complete"} => row[f] = StatusPending
    /\ pc[f] \in {"notify", "done"} => row[f] = StatusCompleted
    /\ pc[f] \notin {"error", "dead"} => inflight[f] = None
    /\ inflight[f] = StatusPending => row[f] = None
    /\ inflight[f] # StatusProcessing
    /\ inflight[f] \in {StatusCompleted, StatusFailed} => row[f] = StatusPending
    /\ f \in finalizing => pc[f] \in {"rollback", "error", "dead"} /\ row[f] # None
    /\ event[f] # None => pc[f] = "done"

\* Objects: whoever may come to call f completed has stored its name.
StoreInv == \A f \in Files :
    /\ \/ pc[f] \in {"complete", "notify", "done"}
       \/ inflight[f] = StatusCompleted
       \/ row[f] = StatusCompleted
       => Stored(NameOf[f])
    /\ pc[f] = "copy" /\ StorageType = "LOCAL" => object[NameOf[f]] # Absent

\* Objects belong to rows, and a bucket holds no partial object.
ObjectInv == \A n \in Names :
    /\ object[n] \in Files => NameOf[object[n]] = n /\ row[object[n]] # None
    /\ object[n] # Absent => \E f \in FilesNamed(n) : row[f] # None
    /\ StorageType = "GCS" => object[n] # Torn

IInv == TypeOK /\ CallInv /\ RowInv /\ StoreInv /\ ObjectInv

LEMMA InvInit == Init => IInv
<1> SUFFICES ASSUME Init PROVE IInv
  OBVIOUS
<1>1. TypeOK
  BY TypeInit
<1>2. CallInv /\ RowInv /\ StoreInv /\ ObjectInv
  BY Constants
     DEF Constant, Init, MetadataInit, StorageInit, CallInv, RowInv, StoreInv,
         ObjectInv, Active, PC, None, StatusPending, StatusProcessing, StatusCompleted, StatusFailed
<1> QED
  BY <1>1, <1>2 DEF IInv

\* One step of a goroutine preserves the invariant.
LEMMA InvStep == ASSUME DBType = "SQL", IInv, NEW g \in Files, Step(g)
                 PROVE  IInv'
<1>0. TypeOK /\ TypeOK'
  BY TypeStep DEF IInv
<1> USE <1>0, Constants
    DEF Constant, IInv, TypeOK, MetadataTypeOK, StorageTypeOK, PC, Active,
        TransferStatus, StatusPending, StatusProcessing, StatusCompleted, StatusFailed, None,
        ToMetadataStatus, metaVars, storageVars, groupVars, Goto, ReturnError,
        Put, Stored, FilesNamed
<1>1. CASE CreateOK(g)
  <2>1. CallInv'
    BY <1>1 DEF CreateOK, Create, CallInv
  <2>2. RowInv'
    BY <1>1 DEF CreateOK, Create, RowInv
  <2>3. StoreInv'
    BY <1>1 DEF CreateOK, Create, RowInv, StoreInv, ObjectInv
  <2>4. ObjectInv'
    BY <1>1 DEF CreateOK, Create, RowInv, ObjectInv
  <2> QED
    BY <2>1, <2>2, <2>3, <2>4
<1>2. CASE CreateErr(g)
  <2>1. CallInv'
    BY <1>2 DEF CreateErr, StatementFails, CallInv
  <2>2. RowInv'
    BY <1>2 DEF CreateErr, StatementFails, RowInv
  <2>3. StoreInv'
    BY <1>2 DEF CreateErr, StatementFails, RowInv, StoreInv, ObjectInv
  <2>4. ObjectInv'
    BY <1>2 DEF CreateErr, StatementFails, RowInv, ObjectInv
  <2> QED
    BY <2>1, <2>2, <2>3, <2>4
<1>3. CASE SaveOpen(g)
  <2>1. CallInv'
    BY <1>3 DEF SaveOpen, Open, CallInv
  <2>2. RowInv'
    BY <1>3 DEF SaveOpen, Open, RowInv
  <2>3. StoreInv'
    BY <1>3 DEF SaveOpen, Open, RowInv, StoreInv, ObjectInv
  <2>4. ObjectInv'
    BY <1>3 DEF SaveOpen, Open, RowInv, ObjectInv
  <2> QED
    BY <2>1, <2>2, <2>3, <2>4
<1>4. CASE SaveOpenErr(g)
  <2>1. CallInv'
    BY <1>4 DEF SaveOpenErr, OpenFails, CallInv
  <2>2. RowInv'
    BY <1>4 DEF SaveOpenErr, OpenFails, RowInv
  <2>3. StoreInv'
    BY <1>4 DEF SaveOpenErr, OpenFails, RowInv, StoreInv, ObjectInv
  <2>4. ObjectInv'
    BY <1>4 DEF SaveOpenErr, OpenFails, RowInv, ObjectInv
  <2> QED
    BY <2>1, <2>2, <2>3, <2>4
<1>5. CASE SaveWrite(g)
  <2>1. CallInv'
    BY <1>5 DEF SaveWrite, WriteOver, CallInv
  <2>2. RowInv'
    BY <1>5 DEF SaveWrite, WriteOver, RowInv
  <2>3. StoreInv'
    BY <1>5 DEF SaveWrite, WriteOver, RowInv, StoreInv, ObjectInv
  <2>4. ObjectInv'
    BY <1>5 DEF SaveWrite, WriteOver, RowInv, ObjectInv
  <2> QED
    BY <2>1, <2>2, <2>3, <2>4
<1>6. CASE SaveOK(g)
  <2>1. CallInv'
    BY <1>6 DEF SaveOK, SaveReturns, CallInv
  <2>2. RowInv'
    BY <1>6 DEF SaveOK, SaveReturns, RowInv
  <2>3. StoreInv'
    BY <1>6 DEF SaveOK, SaveReturns, RowInv, StoreInv, ObjectInv
  <2>4. ObjectInv'
    BY <1>6 DEF SaveOK, SaveReturns, RowInv, ObjectInv
  <2> QED
    BY <2>1, <2>2, <2>3, <2>4
<1>7. CASE SaveErr(g)
  <2>1. CallInv'
    BY <1>7 DEF SaveErr, SaveFails, CallInv
  <2>2. RowInv'
    BY <1>7 DEF SaveErr, SaveFails, RowInv
  <2>3. StoreInv'
    BY <1>7 DEF SaveErr, SaveFails, RowInv, StoreInv, ObjectInv
  <2>4. ObjectInv'
    BY <1>7 DEF SaveErr, SaveFails, RowInv, ObjectInv
  <2> QED
    BY <2>1, <2>2, <2>3, <2>4
<1>8. CASE RollbackOK(g)
  <2>1. CallInv'
    BY <1>8 DEF RollbackOK, UpdateStatus, CallInv
  <2>2. RowInv'
    BY <1>8 DEF RollbackOK, UpdateStatus, RowInv
  <2>3. StoreInv'
    BY <1>8 DEF RollbackOK, UpdateStatus, RowInv, StoreInv, ObjectInv
  <2>4. ObjectInv'
    BY <1>8 DEF RollbackOK, UpdateStatus, RowInv, ObjectInv
  <2> QED
    BY <2>1, <2>2, <2>3, <2>4
<1>9. CASE RollbackErr(g)
  <2>1. CallInv'
    BY <1>9 DEF RollbackErr, StatementFails, CallInv
  <2>2. RowInv'
    BY <1>9 DEF RollbackErr, StatementFails, RowInv
  <2>3. StoreInv'
    BY <1>9 DEF RollbackErr, StatementFails, RowInv, StoreInv, ObjectInv
  <2>4. ObjectInv'
    BY <1>9 DEF RollbackErr, StatementFails, RowInv, ObjectInv
  <2> QED
    BY <2>1, <2>2, <2>3, <2>4
<1>10. CASE CompleteOK(g)
  <2>1. CallInv'
    BY <1>10 DEF CompleteOK, UpdateStatus, CallInv
  <2>2. RowInv'
    BY <1>10 DEF CompleteOK, UpdateStatus, RowInv
  <2>3. StoreInv'
    BY <1>10 DEF CompleteOK, UpdateStatus, RowInv, StoreInv, ObjectInv
  <2>4. ObjectInv'
    BY <1>10 DEF CompleteOK, UpdateStatus, RowInv, ObjectInv
  <2> QED
    BY <2>1, <2>2, <2>3, <2>4
<1>11. CASE CompleteErr(g)
  <2>1. CallInv'
    BY <1>11 DEF CompleteErr, StatementFails, CallInv
  <2>2. RowInv'
    BY <1>11 DEF CompleteErr, StatementFails, RowInv
  <2>3. StoreInv'
    BY <1>11 DEF CompleteErr, StatementFails, RowInv, StoreInv, ObjectInv
  <2>4. ObjectInv'
    BY <1>11 DEF CompleteErr, StatementFails, RowInv, ObjectInv
  <2> QED
    BY <2>1, <2>2, <2>3, <2>4
<1>12. CASE Notify(g)
  <2>1. CallInv'
    BY <1>12 DEF Notify, CallInv
  <2>2. RowInv'
    BY <1>12 DEF Notify, RowInv
  <2>3. StoreInv'
    BY <1>12 DEF Notify, RowInv, StoreInv, ObjectInv
  <2>4. ObjectInv'
    BY <1>12 DEF Notify, RowInv, ObjectInv
  <2> QED
    BY <2>1, <2>2, <2>3, <2>4
<1> QED
  BY <1>1, <1>2, <1>3, <1>4, <1>5, <1>6, <1>7, <1>8, <1>9, <1>10, <1>11, <1>12 DEF Step

\* A crash leaves a row alone, and in doubt at most the statement its
\* goroutine was waiting for.
LEMMA CrashLeaves ==
    ASSUME DBType = "SQL", Crash
    PROVE  /\ row' = row
           /\ \A f \in Files : \/ inflight'[f] = inflight[f]
                               \/ Issued(f) # None /\ inflight'[f] = Issued(f)
BY DEF Crash, MetadataCrash

\* So does every other step: of a client, of a group, of a backend, a crash.
LEMMA InvNext == ASSUME DBType = "SQL" PROVE IInv /\ [Next]_vars => IInv'
<1> SUFFICES ASSUME IInv, [Next]_vars PROVE IInv'
  OBVIOUS
<1>0. TypeOK /\ TypeOK'
  BY TypeNext DEF IInv
<1> USE <1>0, Constants
    DEF Constant, IInv, TypeOK, MetadataTypeOK, StorageTypeOK, PC, Active,
        TransferStatus, StatusPending, StatusProcessing, StatusCompleted, StatusFailed, None,
        metaVars, storageVars, groupVars, Stored, FilesNamed
<1>1. ASSUME NEW c \in Calls, Start(c) PROVE IInv'
  BY <1>1 DEF Start, CallInv, RowInv, StoreInv, ObjectInv
<1>2. ASSUME NEW c \in Calls, CancelRequest(c) PROVE IInv'
  BY <1>2 DEF CancelRequest, CallInv, RowInv, StoreInv, ObjectInv
<1>3. ASSUME NEW c \in Calls, WaitReturn(c) PROVE IInv'
  BY <1>3 DEF WaitReturn, FilesOf, Returned, CallInv, RowInv, StoreInv, ObjectInv
<1>4. ASSUME NEW f \in Files, Step(f) PROVE IInv'
  BY <1>4, InvStep
<1>5. ASSUME NEW f \in Files, SettleRow(f) PROVE IInv'
  BY <1>5 DEF SettleRow, Settle, CallInv, RowInv, StoreInv, ObjectInv
<1>6. ASSUME NEW f \in Files, FinalizeObject(f) PROVE IInv'
  BY <1>6 DEF FinalizeObject, Finalize, CallInv, RowInv, StoreInv, ObjectInv
<1>7. CASE Crash
  <2>1. CallInv'
    BY <1>7 DEF Crash, CallInv
  <2>2. /\ row' = row
        /\ \A f \in Files : \/ inflight'[f] = inflight[f]
                            \/ Issued(f) # None /\ inflight'[f] = Issued(f)
    BY <1>7, CrashLeaves
  <2>3. PICK C \in SUBSET {f \in Files : pc[f] = "copy"} :
           /\ finalizing' \subseteq finalizing \cup C
           /\ object' = object
    BY <1>7 DEF Crash, StorageCrash
  <2>4. \A f \in Files : Issued(f) # None =>
           /\ Issued(f) = StatusPending   => pc[f] = "create"
           /\ Issued(f) = StatusCompleted => pc[f] = "complete"
           /\ Issued(f) = StatusFailed    => pc[f] = "rollback"
           /\ Issued(f) \in TransferStatus \ {StatusProcessing}
           /\ pc[f] \in Active
    BY DEF Issued
  <2>5. pc' = [f \in Files |-> IF pc[f] \in Active THEN "dead" ELSE pc[f]] /\ event' = event
    BY <1>7 DEF Crash
  <2>6. RowInv'
    BY <2>2, <2>3, <2>4, <2>5 DEF RowInv
  <2>7. StoreInv'
    BY <2>2, <2>3, <2>4, <2>5 DEF StoreInv
  <2>8. ObjectInv'
    BY <2>2, <2>3 DEF ObjectInv
  <2> QED
    BY <2>1, <2>6, <2>7, <2>8
<1>8. CASE UNCHANGED vars
  BY <1>8 DEF vars, CallInv, RowInv, StoreInv, ObjectInv
<1> QED
  BY <1>1, <1>2, <1>3, <1>4, <1>5, <1>6, <1>7, <1>8 DEF Next, Quiet

LEMMA Invariance == ASSUME DBType = "SQL" PROVE Spec => []IInv
BY InvInit, InvNext, PTL DEF Spec
-----------------------------------------------------------------------------
(* The safety properties.                                                  *)

\* An answer ok is never taken back: rows completed, names stored, nothing in
\* doubt, for any number of concurrent calls, failures and crashes.
THEOREM AnswersAreDurable == ASSUME DBType = "SQL" PROVE Spec => []AckedDurable
<1>1. IInv => AckedDurable
  BY DEF IInv, CallInv, RowInv, StoreInv, AckedDurable, None, StatusCompleted
<1> QED
  BY <1>1, Invariance, PTL

\* A completed row always has its content stored, whichever statement or
\* upload was left in doubt when its caller was cancelled or died.
THEOREM CompletionIsBacked == ASSUME DBType = "SQL" PROVE Spec => []CompletedStored
<1>1. IInv => CompletedStored
  BY DEF IInv, StoreInv, CompletedStored
<1> QED
  BY <1>1, Invariance, PTL

\* Nothing is stored that the catalogue does not know.
THEOREM ObjectsAreCatalogued == ASSUME DBType = "SQL" PROVE Spec => []Catalogued
<1>1. IInv => Catalogued
  BY DEF IInv, ObjectInv, Catalogued
<1> QED
  BY <1>1, Invariance, PTL

\* The pipeline hears only of completed and stored files.
THEOREM EventsFollowCompletion ==
    ASSUME DBType = "SQL" PROVE Spec => []EventAfterCompletion
<1>1. IInv => EventAfterCompletion
  BY DEF IInv, RowInv, StoreInv, EventAfterCompletion
<1> QED
  BY <1>1, Invariance, PTL

\* No goroutine reports its file completed after a sibling has failed.
THEOREM GroupsFailFast == ASSUME DBType = "SQL" PROVE Spec => FailFast
<1> DEFINE NoLateReport ==
      \A f, g \in Files :
         CallOf[f] = CallOf[g] /\ pc[g] = "error" /\ pc'[f] = "notify"
            => pc[f] = "notify"
<1>1. ASSUME IInv, [Next]_vars PROVE [NoLateReport]_vars
  <2> SUFFICES ASSUME NEW f \in Files, NEW g \in Files, CallOf[f] = CallOf[g],
                      pc[g] = "error", pc'[f] = "notify", pc[f] # "notify"
               PROVE  FALSE
    OBVIOUS
  <2> USE <1>1, Constants DEF Constant, IInv, TypeOK, groupVars, Goto, ReturnError
  <2>1. Done(f)
    BY DEF CallInv, Done
  <2>2. ASSUME NEW h \in Files, Step(h) PROVE FALSE
    <3>1. h = f /\ CompleteOK(f)
      BY <2>2 DEF Step, CreateOK, CreateErr, SaveOpen, SaveOpenErr, SaveWrite,
             SaveOK, SaveErr, RollbackOK, RollbackErr, CompleteOK, CompleteErr,
             Notify
    <3> QED
      BY <2>1, <3>1 DEF CompleteOK, UpdateStatus
  <2>3. ~ \E c \in Calls : Start(c) \/ CancelRequest(c) \/ WaitReturn(c)
    BY DEF Start, CancelRequest, WaitReturn
  <2>4. ~ \E h \in Files : SettleRow(h) \/ FinalizeObject(h)
    BY DEF SettleRow, FinalizeObject
  <2>5. ~ Crash
    BY DEF Crash, PC
  <2>6. ~ UNCHANGED vars
    BY DEF vars
  <2> QED
    BY <2>2, <2>3, <2>4, <2>5, <2>6 DEF Next, Quiet
<1> QED
  BY <1>1, Invariance, PTL DEF Spec, FailFast
-----------------------------------------------------------------------------
(* Refinement.                                                             *)

LEMMA AbstractInit == Init => T!TInit
BY Constants DEF Constant, Init, MetadataInit, StorageInit, T!TInit, T!None, None

\* A step of a goroutine is a step of Transfer or changes nothing there.
LEMMA AbstractStep == ASSUME DBType = "SQL", IInv, NEW g \in Files, Step(g)
                      PROVE  [T!TNext]_(T!tvars)
<1> DEFINE names == {n \in Names : object[n] # Absent}
<1> USE Constants
    DEF Constant, IInv, TypeOK, MetadataTypeOK, StorageTypeOK, PC, Active,
        None, T!None, StatusPending, StatusProcessing, StatusCompleted, StatusFailed,
        T!StatusPending, T!StatusCompleted, T!StatusFailed,
        ToMetadataStatus, metaVars, storageVars, groupVars, Goto, ReturnError,
        Put, Stored
<1>1. CASE CreateOK(g)
  <2>1. T!Register(g)
    BY <1>1 DEF CreateOK, Create, CallInv, RowInv, T!Register, T!Unsettled
  <2> QED
    BY <2>1 DEF T!TNext
<1>2. CASE CreateErr(g) \/ SaveOpenErr(g) \/ RollbackErr(g) \/ CompleteErr(g) \/ Notify(g)
  BY <1>2 DEF CreateErr, SaveOpenErr, RollbackErr, CompleteErr, Notify,
         StatementFails, OpenFails, T!tvars
<1>3. CASE SaveOpen(g) \/ SaveWrite(g) \/ SaveOK(g) \/ SaveErr(g)
  <2>1. names' = names \/ names' = names \cup {NameOf[g]}
    BY <1>3 DEF SaveOpen, SaveWrite, SaveOK, SaveErr, Open, WriteOver,
           SaveReturns, SaveFails
  <2>2. UNCHANGED <<row, call>> /\ row[g] # None
    BY <1>3 DEF SaveOpen, SaveWrite, SaveOK, SaveErr, RowInv
  <2>3. T!StoreFor(g) \/ UNCHANGED T!tvars
    BY <2>1, <2>2 DEF T!StoreFor, T!tvars
  <2> QED
    BY <2>3 DEF T!TNext
<1>4. CASE RollbackOK(g)
  <2>1. T!Finish(g)
    BY <1>4 DEF RollbackOK, UpdateStatus, CallInv, RowInv, T!Finish, T!Unsettled
  <2> QED
    BY <2>1 DEF T!TNext
<1>5. CASE CompleteOK(g)
  <2>1. T!Finish(g)
    BY <1>5 DEF CompleteOK, UpdateStatus, CallInv, RowInv, StoreInv, T!Finish, T!Unsettled
  <2> QED
    BY <2>1 DEF T!TNext
<1> QED
  BY <1>1, <1>2, <1>3, <1>4, <1>5 DEF Step

LEMMA AbstractNext == ASSUME DBType = "SQL"
                      PROVE  IInv /\ [Next]_vars => [T!TNext]_(T!tvars)
<1> SUFFICES ASSUME IInv, [Next]_vars PROVE [T!TNext]_(T!tvars)
  OBVIOUS
<1> USE Constants
    DEF Constant, IInv, TypeOK, MetadataTypeOK, StorageTypeOK, PC, Active,
        None, T!None, StatusPending, StatusProcessing, StatusCompleted, StatusFailed,
        TransferStatus, T!StatusPending, T!StatusCompleted, T!StatusFailed,
        metaVars, storageVars, groupVars, Stored
<1>1. ASSUME NEW c \in Calls, Start(c) PROVE [T!TNext]_(T!tvars)
  BY <1>1 DEF Start, T!TNext, T!Accept
<1>2. ASSUME NEW c \in Calls, CancelRequest(c) PROVE [T!TNext]_(T!tvars)
  BY <1>2 DEF CancelRequest, T!tvars
<1>3. ASSUME NEW c \in Calls, WaitReturn(c) PROVE [T!TNext]_(T!tvars)
  <2>1. T!Answer(c)
    BY <1>3 DEF WaitReturn, Returned, FilesOf, RowInv, T!Answer
  <2> QED
    BY <2>1 DEF T!TNext
<1>4. ASSUME NEW f \in Files, Step(f) PROVE [T!TNext]_(T!tvars)
  BY <1>4, AbstractStep
<1>5. ASSUME NEW f \in Files, SettleRow(f) PROVE [T!TNext]_(T!tvars)
  <2>1. call[CallOf[f]] \in {"running", "failed", "lost"}
    BY <1>5 DEF SettleRow, Settle, CallInv, RowInv
  <2>2. T!Register(f) \/ T!Finish(f) \/ UNCHANGED T!tvars
    BY <1>5, <2>1 DEF SettleRow, Settle, RowInv, StoreInv, T!Register, T!Finish,
           T!Unsettled, T!tvars
  <2> QED
    BY <2>2 DEF T!TNext
<1>6. ASSUME NEW f \in Files, FinalizeObject(f) PROVE [T!TNext]_(T!tvars)
  <2>1. T!StoreFor(f) \/ UNCHANGED T!tvars
    BY <1>6 DEF FinalizeObject, Finalize, RowInv, T!StoreFor, T!tvars
  <2> QED
    BY <2>1 DEF T!TNext
<1>7. CASE Crash
  <2>1. T!Lose
    BY <1>7 DEF Crash, MetadataCrash, StorageCrash, T!Lose
  <2> QED
    BY <2>1 DEF T!TNext
<1>8. CASE UNCHANGED vars
  BY <1>8 DEF vars, T!tvars
<1> QED
  BY <1>1, <1>2, <1>3, <1>4, <1>5, <1>6, <1>7, <1>8 DEF Next, Quiet

\* The use case, with statements in doubt, torn files and crashes, does
\* nothing that the abstract upload could not do.
THEOREM Refinement == ASSUME DBType = "SQL" PROVE Spec => ImplementsTransfer
BY AbstractInit, AbstractNext, Invariance, PTL
   DEF Spec, ImplementsTransfer, T!TSpec
=============================================================================
