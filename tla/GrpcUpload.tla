----------------------------- MODULE GrpcUpload -----------------------------
(***************************************************************************)
(* GRPCFileHandler.UploadFile: one client-streaming upload.  Three parties *)
(* run concurrently: the client; the pump, a goroutine that moves chunks   *)
(* from the stream into an io.Pipe; and the handler, which waits in        *)
(* UploadMultipleParallel while Save reads the other end of the pipe.      *)
(*                                                                         *)
(* client, halfClosed   the stream as the client left it: it may send, it  *)
(*                      has closed its side, or it is gone (cancelled,     *)
(*                      connection lost), before or after closing          *)
(* inbox, sent          messages not yet received, chunks sent so far      *)
(* pump, pipe           the goroutine; how it closed the pipe              *)
(* stage, copied        what the handler does; chunks Save has read        *)
(* row, stored          the metadata row; chunks in the stored object      *)
(* reply                what the handler has returned                      *)
(*                                                                         *)
(* io.Pipe has no buffer: Write waits until Read has taken all its bytes,  *)
(* so the chunk being handed over is the pump's state "write".  What is in *)
(* doubt after a failing statement is the subject of Upload; here a        *)
(* failing statement has or has not taken effect.                          *)
(***************************************************************************)
EXTENDS Naturals, Sequences, FiniteSets, Domain

CONSTANTS Window,      \* messages the transport holds before it stops a sender
          MaxChunks,   \* bound on the chunks of one upload
          NotStored    \* there is no object

ASSUME StreamAssumption == /\ Window \in Nat \ {0}
                           /\ MaxChunks \in Nat
                           /\ NotStored \notin Nat

VARIABLES client, halfClosed, inbox, sent, pump, pipe, stage, copied, row,
          stored, reply

clientVars == <<client, halfClosed, sent>>
pumpVars   == <<inbox, pump, pipe>>
dataVars   == <<copied, row, stored>>
svars == <<clientVars, pumpVars, dataVars, stage, reply>>

\* A message carries metadata that passes the validation, metadata that does
\* not, or a chunk.
Message == {"meta", "bad", "chunk"}

STypeOK ==
    /\ client \in {"open", "closed", "gone"}
    /\ halfClosed \in BOOLEAN
    /\ inbox \in Seq(Message) /\ Len(inbox) <= Window
    /\ sent \in 0..MaxChunks
    /\ pump \in {"none", "recv", "write", "exited"}
    /\ pipe \in {"open", "eof", "err"}
    /\ stage \in {"first", "create", "copy", "rollback", "complete", "notify",
                  "respond", "fail", "returned"}
    /\ copied \in 0..MaxChunks
    /\ row \in TransferStatus \cup {None}
    /\ stored \in 0..MaxChunks \cup {NotStored}
    /\ reply \in {None, "ok", "invalid", "internal", "aborted"}

SInit == /\ client = "open" /\ halfClosed = FALSE
         /\ inbox = <<>>    /\ sent = 0
         /\ pump = "none"   /\ pipe = "open"
         /\ stage = "first" /\ copied = 0
         /\ row = None      /\ stored = NotStored
         /\ reply = None
-----------------------------------------------------------------------------
(* The client.                                                             *)

Send(m) ==
    /\ client = "open"
    /\ Len(inbox) < Window
    /\ m = "chunk" => sent < MaxChunks
    /\ inbox' = Append(inbox, m)
    /\ sent' = IF m = "chunk" THEN sent + 1 ELSE sent
    /\ UNCHANGED <<client, halfClosed, pump, pipe, dataVars, stage, reply>>

CloseSend ==
    /\ client = "open"
    /\ client' = "closed"
    /\ halfClosed' = TRUE
    /\ UNCHANGED <<sent, pumpVars, dataVars, stage, reply>>

\* The client cancels or its connection breaks.  stream.Context() ends.
Leave ==
    /\ client # "gone"
    /\ client' = "gone"
    /\ UNCHANGED <<halfClosed, sent, pumpVars, dataVars, stage, reply>>

\* stream.Recv finds the end of the stream, all messages received.
EndOfStream == halfClosed /\ inbox = <<>>

\* stream.Recv reports an error: the client is gone or the handler returned.
\* It may do so although messages are waiting.
StreamBroken == client = "gone" \/ stage = "returned"
-----------------------------------------------------------------------------
(* The pump.                                                               *)

PumpChunk ==
    /\ pump = "recv" /\ inbox # <<>> /\ Head(inbox) = "chunk"
    /\ inbox' = Tail(inbox)
    /\ pump' = "write"
    /\ UNCHANGED <<pipe, clientVars, dataVars, stage, reply>>

\* Mutant: a chunk may be skipped too (the test on GetChunk is wrong).
PumpSkip_DropsChunk ==
    /\ pump = "recv" /\ inbox # <<>>
    /\ inbox' = Tail(inbox)
    /\ UNCHANGED <<pump, pipe, clientVars, dataVars, stage, reply>>

\* A message without a chunk is skipped.
PumpSkip ==
    /\ pump = "recv" /\ inbox # <<>> /\ Head(inbox) # "chunk"
    /\ inbox' = Tail(inbox)
    /\ UNCHANGED <<pump, pipe, clientVars, dataVars, stage, reply>>

\* Mutant: the pump ends and leaves the pipe open (no deferred Close).
PumpEOF_LeavesOpen ==
    /\ pump = "recv" /\ EndOfStream
    /\ pump' = "exited"
    /\ UNCHANGED <<inbox, pipe, clientVars, dataVars, stage, reply>>

\* The end of the stream: the deferred pw.Close() lets the reader see EOF.
PumpEOF ==
    /\ pump = "recv" /\ EndOfStream
    /\ pump' = "exited"
    /\ pipe' = "eof"
    /\ UNCHANGED <<inbox, clientVars, dataVars, stage, reply>>

\* Mutant: only the deferred Close runs, the reader sees EOF.
PumpErr_ClosesCleanly ==
    /\ pump = "recv" /\ StreamBroken
    /\ pump' = "exited"
    /\ pipe' = "eof"
    /\ UNCHANGED <<inbox, clientVars, dataVars, stage, reply>>

\* Recv failed: CloseWithError gives the reader the error.  The deferred
\* Close after it changes nothing: a pipe keeps its first error.  (Write
\* cannot fail, as nobody ever closes the reading end.)
PumpErr ==
    /\ pump = "recv" /\ StreamBroken
    /\ pump' = "exited"
    /\ pipe' = "err"
    /\ UNCHANGED <<inbox, clientVars, dataVars, stage, reply>>
-----------------------------------------------------------------------------
(* The handler.                                                            *)

Return(r) == stage' = "returned" /\ reply' = r

\* The first message must be valid metadata; then the pump is started.
RecvFirst ==
    /\ stage = "first" /\ inbox # <<>>
    /\ inbox' = Tail(inbox)
    /\ IF Head(inbox) = "meta"
         THEN pump' = "recv" /\ stage' = "create" /\ UNCHANGED reply
         ELSE Return("invalid") /\ UNCHANGED pump
    /\ UNCHANGED <<pipe, clientVars, dataVars>>

RecvFirstErr ==
    /\ stage = "first"
    /\ EndOfStream \/ StreamBroken
    /\ Return("aborted")
    /\ UNCHANGED <<clientVars, pumpVars, dataVars>>

CreateRow ==
    /\ stage = "create"
    /\ \/ /\ client # "gone"
          /\ row' = ToMetadataStatus
          /\ stage' = "copy"
       \/ /\ row' \in {row, ToMetadataStatus}
          /\ stage' = "fail"
    /\ UNCHANGED <<clientVars, pumpVars, copied, stored, reply>>

\* pr.Read takes the chunk the pump is writing; Write returns.
CopyChunk ==
    /\ stage = "copy" /\ pump = "write"
    /\ copied' = copied + 1
    /\ pump' = "recv"
    /\ UNCHANGED <<inbox, pipe, clientVars, row, stored, stage, reply>>

\* pr.Read returns io.EOF: the content is complete and Save returns nil.
CopyEOF ==
    /\ stage = "copy" /\ pipe = "eof"
    /\ stored' = copied
    /\ stage' = "complete"
    /\ UNCHANGED <<clientVars, pumpVars, copied, row, reply>>

\* Save returns an error: nothing is stored, or what has been copied (a local
\* file stays, an object may appear although Close has failed).
SaveFails ==
    /\ stored' \in {stored, copied}
    /\ stage' = "rollback"
    /\ UNCHANGED <<clientVars, pumpVars, copied, row, reply>>

\* Mutant: the error of io.Copy is dropped, nothing is stored.
CopyErr_GoesOn ==
    /\ stage = "copy" /\ pipe = "err"
    /\ stage' = "complete"
    /\ UNCHANGED <<clientVars, pumpVars, dataVars, reply>>

\* pr.Read returns the pump's error.
CopyErr == stage = "copy" /\ pipe = "err" /\ SaveFails

\* The backend fails, at any point of the copy; Save stops reading.
StorageErr == stage = "copy" /\ SaveFails

\* UpdateStatus(Failed) under a background context, its error dropped.
Rollback ==
    /\ stage = "rollback"
    /\ row' \in {row, StatusFailed}
    /\ stage' = "fail"
    /\ UNCHANGED <<clientVars, pumpVars, copied, stored, reply>>

Complete ==
    /\ stage = "complete"
    /\ \/ /\ client # "gone"
          /\ row' = StatusCompleted
          /\ stage' = "notify"
       \/ /\ row' \in {row, StatusCompleted}
          /\ stage' = "fail"
    /\ UNCHANGED <<clientVars, pumpVars, copied, stored, reply>>

\* The notification is awaited, its result is not used.
NotifyPipeline ==
    /\ stage = "notify"
    /\ stage' = "respond"
    /\ UNCHANGED <<clientVars, pumpVars, dataVars, reply>>

\* Mutant: the error is returned as it is, which gRPC sends as Unknown.
UploadFailed_Raw ==
    /\ stage = "fail"
    /\ Return("unknown")
    /\ UNCHANGED <<clientVars, pumpVars, dataVars>>

\* UploadMultipleParallel returns an error.
UploadFailed ==
    /\ stage = "fail"
    /\ Return("internal")
    /\ UNCHANGED <<clientVars, pumpVars, dataVars>>

\* SendAndClose, which fails when the client has left.
Respond ==
    /\ stage = "respond"
    /\ Return(IF client = "gone" THEN "aborted" ELSE "ok")
    /\ UNCHANGED <<clientVars, pumpVars, dataVars>>
-----------------------------------------------------------------------------
Client == (\E m \in Message : Send(m)) \/ CloseSend \/ Leave

Pump == PumpChunk \/ PumpSkip \/ PumpEOF \/ PumpErr

Handler == \/ RecvFirst \/ RecvFirstErr \/ CreateRow
           \/ CopyChunk \/ CopyEOF      \/ CopyErr
           \/ Rollback  \/ Complete     \/ NotifyPipeline
           \/ UploadFailed \/ Respond

\* The stream is over; a pump that is still writing waits for ever.
Over == stage = "returned" /\ client = "gone" /\ pump # "recv" /\ UNCHANGED svars

SNext == Client \/ Pump \/ Handler \/ StorageErr \/ Over

SSpec == SInit /\ [][SNext]_svars

\* The goroutines run whenever they can, and each call to the database and
\* to the pipeline returns.  The client owes nothing, and the storage owes no
\* failure.
SFairSpec == SSpec /\ WF_svars(Pump) /\ WF_svars(Handler)
-----------------------------------------------------------------------------
\* A row that says completed, and an answer ok, stand for the whole stream:
\* the client closed its side, and every chunk it sent is in the object - no
\* matter when it left, what was still queued, or which end failed.  And a
\* successful upload leaves no goroutine behind.
WholeStream ==
    /\ row = StatusCompleted =>
          halfClosed /\ stored = sent /\ inbox = <<>> /\ pump = "exited"
    /\ reply = "ok" => row = StatusCompleted

\* The number of chunks in a queue.
Chunks(q) == Cardinality({i \in 1..Len(q) : q[i] = "chunk"})

\* No chunk is lost between stream, pump and pipe: what the client has sent is
\* copied, in the pump's hand or queued, from the first message on and also
\* after either side has failed.
NothingLost ==
    stage = "first" \/ pump # "none" =>
        sent = copied + (IF pump = "write" THEN 1 ELSE 0) + Chunks(inbox)

\* One stream is a call with one file: it is accepted when the pump starts,
\* and promises its client and the catalogue what Transfer does, so that both
\* handlers keep the same contract.
T == INSTANCE Transfer WITH
         Files <- {"file"}, Names <- {"name"}, Calls <- {"call"},
         NameOf <- [f \in {"file"} |-> "name"],
         CallOf <- [f \in {"file"} |-> "call"],
         status <- [f \in {"file"} |-> row],
         stored <- IF stored = NotStored THEN {} ELSE {"name"},
         answer <- [c \in {"call"} |->
                      CASE pump = "none" -> "idle"
                        [] pump # "none" /\ reply = None -> "running"
                        [] pump # "none" /\ reply = "ok" -> "ok"
                        [] OTHER -> "failed"]
StreamImplementsTransfer == T!TSpec

\* Once the client has closed its side or left, the handler returns: the
\* reader is never left waiting on a pipe that nobody will write or close.
HandlerReturns == client # "open" ~> reply # None

\* README.md: cancellation reaches every concurrent task through the context.
\* Here: when the handler has returned, its pump ends.
PumpExits == reply # None ~> pump \in {"none", "exited"}
=============================================================================
