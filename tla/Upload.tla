------------------------------- MODULE Upload -------------------------------
(***************************************************************************)
(* FileInteractor.UploadMultipleParallel: the use case behind the HTTP and *)
(* the gRPC upload, composed with the repositories it calls.               *)
(*                                                                         *)
(* One call is one invocation; it starts one goroutine per file of an      *)
(* errgroup and answers when all of them have returned.  The goroutine of  *)
(* file f creates a pending row, saves the content, marks the row          *)
(* completed and notifies the RAG pipeline; if Save fails it marks the row *)
(* failed under a context of its own.                                      *)
(*                                                                         *)
(* pc[f]       the operation the goroutine of f executes next or waits for *)
(* call[c]     what the caller of c has been told                          *)
(* ctxDone[c]  egCtx has ended: the client went away, or a goroutine of    *)
(*             the group has returned an error                             *)
(* event[f]    status carried by the notification that reached the         *)
(*             pipeline, None if none did                                  *)
(*                                                                         *)
(* The process may die at any moment (Crash) and is restarted: calls that  *)
(* have not started yet are served by the new process.                     *)
(*                                                                         *)
(* Definitions with an underscore (X_GoesOn) are mutants of X: they occur  *)
(* in no action and serve to show that the properties can fail.            *)
(***************************************************************************)
EXTENDS Metadata, Storage

CONSTANTS Calls, CallOf

ASSUME CallAssumption == CallOf \in [Files -> Calls]

VARIABLES pc, call, ctxDone, event

groupVars == <<pc, call, ctxDone, event>>
vars == <<pc, call, ctxDone, event, metaVars, storageVars>>

PC == {"idle", "create", "open", "copy", "rollback", "complete", "notify",
       "done", "error", "dead"}

Returned == {"done", "error"}
Active   == PC \ {"idle", "done", "error", "dead"}

FilesOf(c) == {f \in Files : CallOf[f] = c}

\* Mutant: the goroutines use a context that is not the group's.
Done_OwnContext(f) == FALSE

\* The context the goroutine of f passes on, egCtx, has ended.
Done(f) == ctxDone[CallOf[f]]

TypeOK == /\ MetadataTypeOK
          /\ StorageTypeOK
          /\ pc \in [Files -> PC]
          /\ call \in [Calls -> {"idle", "running", "ok", "failed", "lost"}]
          /\ ctxDone \in [Calls -> BOOLEAN]
          /\ event \in [Files -> TransferStatus \cup {None}]

Init == /\ MetadataInit
        /\ StorageInit
        /\ pc = [f \in Files |-> "idle"]
        /\ call = [c \in Calls |-> "idle"]
        /\ ctxDone = [c \in Calls |-> FALSE]
        /\ event = [f \in Files |-> None]
-----------------------------------------------------------------------------
\* The goroutine of f goes on to its next operation.
Goto(f, next) == /\ pc' = [pc EXCEPT ![f] = next]
                 /\ UNCHANGED <<call, ctxDone, event>>

\* The goroutine of f returns an error: errgroup cancels egCtx.
ReturnError(f) == /\ pc' = [pc EXCEPT ![f] = "error"]
                  /\ ctxDone' = [ctxDone EXCEPT ![CallOf[f]] = TRUE]
                  /\ UNCHANGED <<call, event>>

\* UploadMultipleParallel starts its goroutines.
Start(c) ==
    /\ call[c] = "idle"
    /\ call' = [call EXCEPT ![c] = "running"]
    /\ pc' = [f \in Files |-> IF CallOf[f] = c THEN "create" ELSE pc[f]]
    /\ UNCHANGED <<ctxDone, event, metaVars, storageVars>>

\* The context of the request ends: the client disconnects or cancels.
CancelRequest(c) ==
    /\ call[c] = "running"
    /\ ~ctxDone[c]
    /\ ctxDone' = [ctxDone EXCEPT ![c] = TRUE]
    /\ UNCHANGED <<pc, call, event, metaVars, storageVars>>

CreateOK(f) ==
    /\ pc[f] = "create"
    /\ Create(f, Done(f))
    /\ Goto(f, "open")
    /\ UNCHANGED storageVars

\* Mutant: the error of Create is logged and the upload goes on.
CreateErr_GoesOn(f) ==
    /\ pc[f] = "create"
    /\ StatementFails(f, StatusPending)
    /\ Goto(f, "open")
    /\ UNCHANGED storageVars

CreateErr(f) ==
    /\ pc[f] = "create"
    /\ StatementFails(f, StatusPending)
    /\ ReturnError(f)
    /\ UNCHANGED storageVars

SaveOpen(f) ==
    /\ pc[f] = "open"
    /\ Open(f)
    /\ Goto(f, "copy")
    /\ UNCHANGED metaVars

\* Mutant: the error of os.Create is dropped.
SaveOpenErr_GoesOn(f) ==
    /\ pc[f] = "open"
    /\ OpenFails(f)
    /\ Goto(f, "complete")
    /\ UNCHANGED metaVars

SaveOpenErr(f) ==
    /\ pc[f] = "open"
    /\ OpenFails(f)
    /\ Goto(f, "rollback")
    /\ UNCHANGED metaVars

SaveWrite(f) ==
    /\ pc[f] = "copy"
    /\ WriteOver(f)
    /\ UNCHANGED <<groupVars, metaVars>>

SaveOK(f) ==
    /\ pc[f] = "copy"
    /\ SaveReturns(f, Done(f))
    /\ Goto(f, "complete")
    /\ UNCHANGED metaVars

\* Mutant: the error of Save is dropped.
SaveErr_GoesOn(f) ==
    /\ pc[f] = "copy"
    /\ SaveFails(f)
    /\ Goto(f, "complete")
    /\ UNCHANGED metaVars

SaveErr(f) ==
    /\ pc[f] = "copy"
    /\ SaveFails(f)
    /\ Goto(f, "rollback")
    /\ UNCHANGED metaVars

\* Mutant: no return after the compensation.
RollbackOK_GoesOn(f) ==
    /\ pc[f] = "rollback"
    /\ UpdateStatus(f, StatusFailed, FALSE)
    /\ Goto(f, "complete")
    /\ UNCHANGED storageVars

\* The compensation: UpdateStatus(Failed) under context.Background(), which
\* never ends.  Its error is dropped, the error of Save is returned.
RollbackOK(f) ==
    /\ pc[f] = "rollback"
    /\ UpdateStatus(f, StatusFailed, FALSE)
    /\ ReturnError(f)
    /\ UNCHANGED storageVars

RollbackErr(f) ==
    /\ pc[f] = "rollback"
    /\ StatementFails(f, StatusFailed)
    /\ ReturnError(f)
    /\ UNCHANGED storageVars

CompleteOK(f) ==
    /\ pc[f] = "complete"
    /\ UpdateStatus(f, StatusCompleted, Done(f))
    /\ Goto(f, "notify")
    /\ UNCHANGED storageVars

\* Mutant: the error of the last UpdateStatus is logged like a failing
\* notification.
CompleteErr_GoesOn(f) ==
    /\ pc[f] = "complete"
    /\ StatementFails(f, StatusCompleted)
    /\ Goto(f, "notify")
    /\ UNCHANGED storageVars

\* No compensation here: the object stays, the row stays pending.
CompleteErr(f) ==
    /\ pc[f] = "complete"
    /\ StatementFails(f, StatusCompleted)
    /\ ReturnError(f)
    /\ UNCHANGED storageVars

\* NotifyNewFile sends the meta record of the goroutine, whose Status is
\* still the one it was created with: UpdateStatus takes the id, not the
\* record.  The notification arrives or not (no pipeline, context ended, an
\* error before or after it was received); the error is only logged.
Notify(f) ==
    /\ pc[f] = "notify"
    /\ event' \in {event, [event EXCEPT ![f] = ToMetadataStatus]}
    /\ pc' = [pc EXCEPT ![f] = "done"]
    /\ UNCHANGED <<call, ctxDone, metaVars, storageVars>>

\* Mutant: a goroutine that fails does not count as returned (a missing Done).
WaitReturn_SuccessOnly(c) ==
    /\ call[c] = "running"
    /\ \A f \in FilesOf(c) : pc[f] = "done"
    /\ call' = [call EXCEPT ![c] = "ok"]
    /\ ctxDone' = [ctxDone EXCEPT ![c] = TRUE]
    /\ UNCHANGED <<pc, event, metaVars, storageVars>>

\* eg.Wait(): all goroutines have returned, the first error is the answer.
WaitReturn(c) ==
    /\ call[c] = "running"
    /\ \A f \in FilesOf(c) : pc[f] \in Returned
    /\ call' = [call EXCEPT ![c] =
                  IF \E f \in FilesOf(c) : pc[f] = "error" THEN "failed" ELSE "ok"]
    /\ ctxDone' = [ctxDone EXCEPT ![c] = TRUE]
    /\ UNCHANGED <<pc, event, metaVars, storageVars>>
-----------------------------------------------------------------------------
\* The statement the goroutine of f waits for.
Issued(f) == CASE pc[f] = "create"   -> StatusPending
               [] pc[f] = "complete" -> StatusCompleted
               [] pc[f] = "rollback" -> StatusFailed
               [] OTHER              -> None

Crash ==
    /\ \E c \in Calls : call[c] = "running"
    /\ MetadataCrash([f \in Files |-> Issued(f)])
    /\ StorageCrash({f \in Files : pc[f] = "copy"})
    /\ pc' = [f \in Files |-> IF pc[f] \in Active THEN "dead" ELSE pc[f]]
    /\ call' = [c \in Calls |-> IF call[c] = "running" THEN "lost" ELSE call[c]]
    /\ UNCHANGED <<ctxDone, event>>

SettleRow(f)     == Settle(f) /\ UNCHANGED <<groupVars, storageVars>>
FinalizeObject(f) == Finalize(f) /\ UNCHANGED <<groupVars, metaVars>>

\* All calls are answered and nothing is in doubt: the server waits.
Quiet == /\ \A c \in Calls : call[c] \in {"ok", "failed", "lost"}
         /\ \A f \in Files : inflight[f] = None
         /\ finalizing = {}
         /\ UNCHANGED vars

\* What the goroutine of f does next.
Step(f) == \/ CreateOK(f)   \/ CreateErr(f)
           \/ SaveOpen(f)   \/ SaveOpenErr(f)
           \/ SaveWrite(f)  \/ SaveOK(f)      \/ SaveErr(f)
           \/ RollbackOK(f) \/ RollbackErr(f)
           \/ CompleteOK(f) \/ CompleteErr(f)
           \/ Notify(f)

Next == \/ \E c \in Calls : Start(c) \/ CancelRequest(c) \/ WaitReturn(c)
        \/ \E f \in Files : Step(f) \/ SettleRow(f) \/ FinalizeObject(f)
        \/ Crash
        \/ Quiet

Spec == Init /\ [][Next]_vars

\* Every operation a goroutine waits for returns, with a result or an error,
\* and a group whose goroutines have all returned answers.  The Go scheduler
\* gives the second; the first is what the code relies on, since it sets no
\* deadline on Create, Save and UpdateStatus.  Nothing is assumed of clients,
\* of crashes, or of statements in doubt.
FairSpec == /\ Spec
            /\ \A f \in Files : WF_vars(Step(f))
            /\ \A c \in Calls : WF_vars(WaitReturn(c))
-----------------------------------------------------------------------------
\* A call answered ok stays true: each of its rows is completed, each of its
\* names is stored, and no late statement is left that could undo it
\* (UploadMultipleParallel returning nil, whatever happened to other calls).
AckedDurable ==
    \A f \in Files : call[CallOf[f]] = "ok" =>
        /\ row[f] = StatusCompleted
        /\ inflight[f] = None
        /\ f \notin finalizing
        /\ Stored(NameOf[f])

\* No row says completed while nothing, or in a bucket only part of a file, is
\* stored under its name - also when the statement that wrote it commits after
\* its caller has been cancelled or has died (Save before UpdateStatus).
CompletedStored ==
    \A f \in Files : row[f] = StatusCompleted => Stored(NameOf[f])

\* Whatever is stored has a row, the upload it belongs to included, even if
\* the bucket finalizes it after the answer (Create before Save).
Catalogued ==
    \A n \in Names : object[n] # Absent =>
        /\ \E f \in FilesNamed(n) : row[f] # None
        /\ object[n] \in Files => row[object[n]] # None

\* The pipeline hears only of files that are completed and stored, although
\* the notification is sent by a goroutine whose siblings may have failed.
EventAfterCompletion ==
    \A f \in Files : event[f] # None =>
        row[f] = StatusCompleted /\ Stored(NameOf[f])

\* Fail-fast: once a goroutine of the group has returned an error, no other
\* goroutine of it gets as far as reporting its file completed (egCtx).
FailFast ==
    [][\A f, g \in Files :
          CallOf[f] = CallOf[g] /\ pc[g] = "error" /\ pc'[f] = "notify"
             => pc[f] = "notify"]_vars

\* UploadMultipleParallel, with its repositories, implements Transfer.
T == INSTANCE Transfer WITH status <- row,
                            stored <- {n \in Names : object[n] # Absent},
                            answer <- call
ImplementsTransfer == T!TSpec

\* Every call is answered, unless the process dies: no goroutine of a group
\* is left behind by a failing or cancelled sibling, so eg.Wait returns.
CallAnswered ==
    \A c \in Calls : call[c] = "running" ~> call[c] \in {"ok", "failed", "lost"}
-----------------------------------------------------------------------------
(* What documents and comments of the repository say, and the code does not *)
(* do.                                                                      *)

\* README.md: a failure to save to the database rolls the stored object back.
\* Here: when a call has failed and nothing is in doubt, what it stored for a
\* file without a completed row is gone.
NoOrphan ==
    \A f \in Files :
        /\ call[CallOf[f]] = "failed"
        /\ row[f] # StatusCompleted
        /\ inflight[f] = None
        => object[NameOf[f]] # f
=============================================================================
