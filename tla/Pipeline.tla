------------------------------ MODULE Pipeline ------------------------------
(***************************************************************************)
(* NotifyNewFile over each transport, from the request that uploaded a     *)
(* file to the worker's endpoint (http_handler, grpc_handler), or to the   *)
(* Pub/Sub topic and the worker's reading of the message, where module     *)
(* PubSubWorker goes on.                                                   *)
(*                                                                         *)
(* transport  PIPELINE_TYPE: HTTP, GRPC or GCP                             *)
(* given[n]   what the client sent: a trace id and a tenant, both optional.*)
(*            Each request uploads one file, so n stands for the request   *)
(* meta[n]    trace id of the context, tenant and status of the record     *)
(* snd[n]     NotifyNewFile: "sent" while it waits, "nil" or "err" after   *)
(* msg[n]     the request: "travels", waits for the worker's event loop    *)
(*            ("queued"), "running" in run_pipeline, or decided            *)
(* reply[n]   the answer on its way back                                   *)
(* seen[n]    what the worker made of the request                          *)
(* runs[n]    pipelines run for n (HTTP, GRPC), copies in the topic (GCP)  *)
(*                                                                         *)
(* The worker's handlers run on one event loop, and run_pipeline awaits    *)
(* nothing: while it works on one document every other request waits.      *)
(***************************************************************************)
EXTENDS Domain, Naturals

CONSTANTS TraceIds,    \* ids that clients make up
          Strip,       \* such an id without surrounding white space
          Tenants,
          Blank,       \* the empty string
          MaxCopies    \* bound on the publish attempts of the Pub/Sub client

ASSUME PipelineAssumption == /\ MaxCopies \in Nat \ {0}
                             /\ Blank \notin TraceIds \cup Tenants \cup {"default-tenant"}
                             /\ Strip \in [TraceIds -> TraceIds \cup {Blank}]

VARIABLES transport, given, meta, snd, msg, reply, seen, runs

nvars == <<transport, given, meta, snd, msg, reply, seen, runs>>

Transports == {"HTTP", "GRPC", "GCP"}

\* uuid.New() for request n: not an id that somebody has made up, but one
\* that its client gets back and may send again.
NewId(n) == <<"uuid", n>>
Ids == TraceIds \cup {NewId(n) : n \in Files}

ASSUME FreshIds == \A n \in Files : NewId(n) \notin TraceIds \cup {Blank}

\* A record with the id of its context, and what the worker makes of one.
Events == [trace : Ids, tenant : Tenants \cup {"default-tenant"}, status : TransferStatus]
Seen == [trace : Ids \cup {Blank}, tenant : Tenants \cup {"default-tenant"}, status : TransferStatus]
NoEvent == [trace |-> Blank, tenant |-> Blank, status |-> None]

NTypeOK ==
    /\ transport \in Transports
    /\ given \in [Files -> [trace : Ids \cup {Blank}, tenant : Tenants \cup {Blank}]]
    /\ meta \in [Files -> Events \cup {NoEvent}]
    /\ seen \in [Files -> Seen \cup {NoEvent}]
    /\ snd \in [Files -> {"idle", "sent", "nil", "err"}]
    /\ msg \in [Files -> {"none", "travels", "queued", "running", "success",
                          "failure", "rejected", "lost", "stored"}]
    /\ reply \in [Files -> {"none", "ok", "err", "lost"}]
    /\ runs \in [Files -> 0 .. MaxCopies]

NInit == /\ transport \in Transports
         /\ given = [n \in Files |-> [trace |-> Blank, tenant |-> Blank]]
         /\ meta = [n \in Files |-> NoEvent]
         /\ snd = [n \in Files |-> "idle"]
         /\ msg = [n \in Files |-> "none"]
         /\ reply = [n \in Files |-> "none"]
         /\ seen = [n \in Files |-> NoEvent]
         /\ runs = [n \in Files |-> 0]
-----------------------------------------------------------------------------
\* Mutant: one id is generated when the process starts.
WithTraceID_Once(id, n) == IF id = Blank THEN NewId(CHOOSE k \in Files : TRUE) ELSE id

\* An id is generated when there is none.
WithTraceID(id, n) == IF id = Blank THEN NewId(n) ELSE id

\* TraceMiddleware puts the id of a request, also one it has generated, into
\* the header of the response.
Returned == {meta[k].trace : k \in {j \in Files : snd[j] \in {"nil", "err"}}}

\* What a client may send as x-trace-id: nothing, an id of its own, or one
\* that it got back from an earlier request.
Sendable == TraceIds \cup {Blank} \cup Returned

\* Mutant: no default for the tenant.
ToMetadataTenant_AsGiven(tenant) == tenant

\* ToMetadata: a record always has a tenant.
ToMetadataTenant(tenant) == IF tenant = Blank THEN "default-tenant" ELSE tenant

\* Mutant: a status without a case of its own.
ToProtoStatus_NoFailed(status) ==
    CASE status = "pending"    -> "TRANSFER_STATUS_PENDING"
      [] status = "processing" -> "TRANSFER_STATUS_PROCESSING"
      [] status = "completed"  -> "TRANSFER_STATUS_COMPLETED"
      [] OTHER                 -> "TRANSFER_STATUS_UNSPECIFIED"

ToProtoStatus(status) ==
    CASE status = "pending"    -> "TRANSFER_STATUS_PENDING"
      [] status = "processing" -> "TRANSFER_STATUS_PROCESSING"
      [] status = "completed"  -> "TRANSFER_STATUS_COMPLETED"
      [] status = "failed"     -> "TRANSFER_STATUS_FAILED"
      [] OTHER                 -> "TRANSFER_STATUS_UNSPECIFIED"

\* GRPC_STATUS_MAP.get(status, "unknown")
GrpcStatusMap(proto) ==
    CASE proto = "TRANSFER_STATUS_PENDING"    -> "pending"
      [] proto = "TRANSFER_STATUS_PROCESSING" -> "processing"
      [] proto = "TRANSFER_STATUS_COMPLETED"  -> "completed"
      [] proto = "TRANSFER_STATUS_FAILED"     -> "failed"
      [] OTHER                                -> "unknown"

\* extract_trace_id in the worker strips the id.  (The notifiers always send
\* one, so the worker never generates its own; a generated id has no blanks.)
ExtractTraceId(id) == IF id \in TraceIds THEN Strip[id] ELSE id

\* ToPythonRAGPayload keeps the status, ToProtoFileIngestEvent goes through
\* the enum.  The trace id travels as a header, metadata or an attribute.
Decoded(e) == [e EXCEPT !.status = IF transport = "GRPC"
                                     THEN GrpcStatusMap(ToProtoStatus(@)) ELSE @,
                        !.trace = ExtractTraceId(@)]

\* A client's request has passed the HTTP middleware or the gRPC interceptor,
\* and the goroutine that uploaded its file calls NotifyNewFile: it builds the
\* payload, starts its five seconds and sends.  The notifiers take a record in
\* any status.
NotifyNewFile(n) ==
    /\ snd[n] = "idle"
    /\ snd' = [snd EXCEPT ![n] = "sent"]
    /\ \E id \in Sendable, tenant \in Tenants \cup {Blank}, status \in TransferStatus :
          /\ given' = [given EXCEPT ![n] = [trace |-> id, tenant |-> tenant]]
          /\ meta' = [meta EXCEPT ![n] = [trace  |-> WithTraceID(id, n),
                                          tenant |-> ToMetadataTenant(tenant),
                                          status |-> status]]
    /\ msg' = [msg EXCEPT ![n] = "travels"]
    /\ UNCHANGED <<transport, reply, seen, runs>>

\* Mutant: a failing call is tried once more.
Expire_Retries(n) ==
    /\ snd[n] = "sent"
    /\ msg[n] \in {"success", "failure", "lost"}
    /\ runs[n] < MaxCopies
    /\ msg' = [msg EXCEPT ![n] = "travels"]
    /\ reply' = [reply EXCEPT ![n] = "none"]
    /\ UNCHANGED <<transport, given, meta, snd, seen, runs>>

\* The five seconds or the upload's context end, or the connection fails:
\* an error, whatever becomes of the request.  Nothing is sent again.
Expire(n) ==
    /\ snd[n] = "sent"
    /\ snd' = [snd EXCEPT ![n] = "err"]
    /\ UNCHANGED <<transport, given, meta, msg, reply, seen, runs>>

\* Mutant: any answer is success (no look at the status code).
Answered_AnyStatus(n) ==
    /\ snd[n] = "sent"
    /\ reply[n] \in {"ok", "err"}
    /\ snd' = [snd EXCEPT ![n] = "nil"]
    /\ UNCHANGED <<transport, given, meta, msg, reply, seen, runs>>

\* The answer arrives in time: nil for 200, OK or a message id, an error for
\* everything else.
Answered(n) ==
    /\ snd[n] = "sent"
    /\ reply[n] \in {"ok", "err"}
    /\ snd' = [snd EXCEPT ![n] = IF reply[n] = "ok" THEN "nil" ELSE "err"]
    /\ UNCHANGED <<transport, given, meta, msg, reply, seen, runs>>
-----------------------------------------------------------------------------
(* The network and the topic.                                              *)

\* The request or the answer is lost.
Lose(n) ==
    /\ \/ /\ msg[n] = "travels"
          /\ msg' = [msg EXCEPT ![n] = "lost"]
          /\ UNCHANGED reply
       \/ /\ reply[n] \in {"ok", "err"}
          /\ reply' = [reply EXCEPT ![n] = "lost"]
          /\ UNCHANGED msg
    /\ UNCHANGED <<transport, given, meta, snd, seen, runs>>

Arrive(n) ==
    /\ transport # "GCP"
    /\ msg[n] = "travels"
    /\ msg' = [msg EXCEPT ![n] = "queued"]
    /\ UNCHANGED <<transport, given, meta, snd, reply, seen, runs>>

\* The topic takes the message.  The client publishes from a buffer, also
\* after result.Get has given up, and publishes again while the answer to an
\* earlier attempt is missing.
Store(n) ==
    /\ transport = "GCP"
    /\ msg[n] = "travels" \/ (msg[n] = "stored" /\ reply[n] = "lost")
    /\ runs[n] < MaxCopies
    /\ msg' = [msg EXCEPT ![n] = "stored"]
    /\ reply' = [reply EXCEPT ![n] = "ok"]
    /\ runs' = [runs EXCEPT ![n] = @ + 1]
    /\ UNCHANGED <<transport, given, meta, snd, seen>>
-----------------------------------------------------------------------------
(* notify_ingest, NotifyIngest and process_message in the worker.          *)

Idle == \A n \in Files : msg[n] # "running"

\* The handler reads the request; a missing tenant is rejected (400,
\* INVALID_ARGUMENT), otherwise run_pipeline begins.  A missing file_name
\* would be too: NewFile has refused an upload without one.
Ingest(n) ==
    /\ msg[n] = "queued"
    /\ Idle
    /\ seen' = [seen EXCEPT ![n] = Decoded(meta[n])]
    /\ IF meta[n].tenant = Blank
         THEN /\ msg' = [msg EXCEPT ![n] = "rejected"]
              /\ reply' = [reply EXCEPT ![n] = "err"]
              /\ UNCHANGED runs
         ELSE /\ msg' = [msg EXCEPT ![n] = "running"]
              /\ runs' = [runs EXCEPT ![n] = @ + 1]
              /\ UNCHANGED reply
    /\ UNCHANGED <<transport, given, meta, snd>>

\* The Pub/Sub worker is given the message and reads it; what it does then,
\* and how often, is in PubSubWorker.
Deliver(n) ==
    /\ transport = "GCP"
    /\ msg[n] = "stored" /\ seen[n] = NoEvent
    /\ seen' = [seen EXCEPT ![n] = Decoded(meta[n])]
    /\ msg' = [msg EXCEPT ![n] = IF meta[n].tenant = Blank THEN "rejected" ELSE @]
    /\ UNCHANGED <<transport, given, meta, snd, reply, runs>>

\* run_pipeline returns "success", or "error": 500, INTERNAL.
Ingested(n) ==
    /\ msg[n] = "running"
    /\ \/ /\ msg' = [msg EXCEPT ![n] = "success"]
          /\ reply' = [reply EXCEPT ![n] = "ok"]
       \/ /\ msg' = [msg EXCEPT ![n] = "failure"]
          /\ reply' = [reply EXCEPT ![n] = "err"]
    /\ UNCHANGED <<transport, given, meta, snd, seen, runs>>

\* gRPC cancels the handler of a call whose client has given up, if it has
\* not begun; the HTTP server runs it.
Cancelled(n) ==
    /\ transport = "GRPC"
    /\ msg[n] = "queued" /\ snd[n] = "err"
    /\ msg' = [msg EXCEPT ![n] = "lost"]
    /\ UNCHANGED <<transport, given, meta, snd, reply, seen, runs>>

\* The worker dies with the requests it holds, and comes back.
WorkerDies ==
    /\ \E n \in Files : msg[n] \in {"queued", "running"}
    /\ msg' = [n \in Files |-> IF msg[n] \in {"queued", "running"} THEN "lost" ELSE msg[n]]
    /\ UNCHANGED <<transport, given, meta, snd, reply, seen, runs>>

Rest == /\ \A n \in Files : snd[n] \in {"nil", "err"}
        /\ UNCHANGED nvars

Sender(n) == Answered(n) \/ Expire(n)

NNext == \/ \E n \in Files :
              \/ NotifyNewFile(n) \/ Sender(n)
              \/ Lose(n) \/ Arrive(n) \/ Store(n)
              \/ Ingest(n) \/ Deliver(n) \/ Ingested(n) \/ Cancelled(n)
         \/ WorkerDies
         \/ Rest

NSpec == NInit /\ [][NNext]_nvars
-----------------------------------------------------------------------------
\* nil means the file was ingested (HTTP, gRPC), or that the topic has the
\* message (GCP), however late, lost or reordered the answers of other
\* notifications are.
NilMeansIngested ==
    \A n \in Files : snd[n] = "nil" =>
        /\ msg[n] = (IF transport = "GCP" THEN "stored" ELSE "success")
        /\ runs[n] >= 1

\* Over HTTP and gRPC a file is never ingested twice, also when its sender
\* gave up while the worker was still busy with another document.
DirectAtMostOnce ==
    \A n \in Files : transport # "GCP" => runs[n] <= 1

\* Go and Python agree on the event: on every transport the worker sees the
\* status and the tenant of the record, under the id the client has sent, up
\* to white space, or a generated one.  Two requests are given the same id
\* only if a client has sent it: the ids of two that came without one differ.
EventFaithful ==
    \A n \in Files : seen[n] # NoEvent =>
        /\ seen[n].status = meta[n].status /\ seen[n].tenant = meta[n].tenant
        /\ IF given[n].trace # Blank
             THEN seen[n].trace = ExtractTraceId(given[n].trace)
             ELSE \A k \in Files \ {n} :
                     given[k].trace = Blank => seen[k].trace # seen[n].trace

\* The worker never rejects what the API sends: ToMetadata's defaults satisfy
\* the validation of the endpoints.
NeverRejected == \A n \in Files : msg[n] # "rejected"
=============================================================================
