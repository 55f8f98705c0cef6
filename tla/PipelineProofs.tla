--------------------------- MODULE PipelineProofs ---------------------------
(***************************************************************************)
(* Proofs about Pipeline, for any notifications, trace ids, tenants and    *)
(* any number of publish attempts.                                         *)
(***************************************************************************)
EXTENDS Pipeline, TLAPS

\* Where a successful answer comes from.
Decided == IF transport = "GCP" THEN "stored" ELSE "success"

\* A request exists exactly when NotifyNewFile has been called, and then the
\* record is the one ToMetadata and the middleware have filled.
RecordInv ==
    \A n \in Files :
        /\ snd[n] = "idle" <=> msg[n] = "none"
        /\ msg[n] # "none" => /\ meta[n] \in Events
                              /\ meta[n].trace = WithTraceID(given[n].trace, n)
        /\ msg[n] = "none" => reply[n] = "none"

\* An answer "ok" was given by a run that has succeeded, or by the topic.
ReplyInv ==
    \A n \in Files : reply[n] = "ok" => msg[n] = Decided /\ runs[n] >= 1

\* A request that the worker has not begun has no run, one it works on has;
\* with Pub/Sub there is no worker in sight.
RunInv ==
    \A n \in Files :
        /\ transport # "GCP" => /\ runs[n] <= 1
                                /\ msg[n] # "stored"
        /\ transport = "GCP" => msg[n] \in {"none", "travels", "stored", "lost"}
        /\ msg[n] \in {"none", "travels", "queued"} => runs[n] = 0
        /\ msg[n] = "running" => runs[n] >= 1

\* What the worker has seen is the record, decoded.
SeenInv == \A n \in Files : seen[n] # NoEvent => seen[n] = Decoded(meta[n]) /\ msg[n] # "none"

NInv == /\ NTypeOK /\ RecordInv /\ ReplyInv /\ RunInv /\ SeenInv
        /\ NeverRejected /\ NilMeansIngested
-----------------------------------------------------------------------------
\* Through the enum and back: the worker reads the status that was sent.
LEMMA StatusSurvives ==
    ASSUME NEW s \in TransferStatus
    PROVE  GrpcStatusMap(ToProtoStatus(s)) = s
BY DEF TransferStatus, StatusPending, StatusProcessing, StatusCompleted, StatusFailed,
       GrpcStatusMap, ToProtoStatus

\* Decoding keeps status and tenant on any transport, and strips the id.
LEMMA DecodedIsEvent ==
    ASSUME NEW e \in Events
    PROVE  /\ Decoded(e) \in Seen
           /\ Decoded(e).status = e.status /\ Decoded(e).tenant = e.tenant
           /\ Decoded(e).trace = ExtractTraceId(e.trace)
<1>1. GrpcStatusMap(ToProtoStatus(e.status)) = e.status
  BY StatusSurvives DEF Events
<1>2. ExtractTraceId(e.trace) \in Ids \cup {Blank}
  BY PipelineAssumption DEF Events, Ids, ExtractTraceId
<1> QED BY <1>1, <1>2 DEF Decoded, Events, Seen

\* The record of a request, and its tenant, which is never empty.
LEMMA RecordIsEvent ==
    ASSUME NEW n \in Files, NEW id \in Ids \cup {Blank}, NEW tenant \in Tenants \cup {Blank},
           NEW status \in TransferStatus
    PROVE  [trace |-> WithTraceID(id, n), tenant |-> ToMetadataTenant(tenant),
            status |-> status] \in Events
BY DEF WithTraceID, ToMetadataTenant, Ids, Events

\* A client sends nothing but ids, its own or returned ones.
LEMMA SentIsId ==
    ASSUME NInv
    PROVE  Sendable \subseteq Ids \cup {Blank}
<1>1. ASSUME NEW k \in Files, snd[k] \in {"nil", "err"} PROVE meta[k].trace \in Ids
  BY <1>1 DEF NInv, RecordInv, Events
<1> QED BY <1>1 DEF Sendable, Returned, Ids

\* Every event has a tenant.
LEMMA TenantGiven ==
    ASSUME NEW e \in Events
    PROVE  e.tenant # Blank
BY PipelineAssumption DEF Events

\* NInv holds before the first notification.
LEMMA NInvInit == NInit => NInv
BY PipelineAssumption DEF NInit, NInv, NTypeOK, RecordInv, ReplyInv, RunInv, SeenInv, NeverRejected,
       NilMeansIngested, Decided
-----------------------------------------------------------------------------
\* The caller of NotifyNewFile.
LEMMA CallerStep ==
    ASSUME NInv, NEW n \in Files, NotifyNewFile(n) \/ Sender(n)
    PROVE  NInv'
<1> USE PipelineAssumption DEF NInv, NTypeOK
<1>1. CASE NotifyNewFile(n)
  <2>1. PICK id \in Ids \cup {Blank}, tenant \in Tenants \cup {Blank}, status \in TransferStatus :
          /\ given' = [given EXCEPT ![n] = [trace |-> id, tenant |-> tenant]]
          /\ meta' = [meta EXCEPT ![n] = [trace |-> WithTraceID(id, n),
                                          tenant |-> ToMetadataTenant(tenant),
                                          status |-> status]]
    BY <1>1, SentIsId DEF NotifyNewFile
  <2>2. meta'[n] \in Events /\ meta'[n].trace = WithTraceID(given'[n].trace, n)
    BY <2>1, RecordIsEvent
  <2>3. \A k \in Files : k # n => meta'[k] = meta[k] /\ given'[k] = given[k]
    BY <2>1
  <2>4. msg[n] = "none" /\ seen[n] = NoEvent
    BY <1>1 DEF NotifyNewFile, RecordInv, SeenInv
  <2>5. NTypeOK'
    BY <1>1, <2>1, <2>2 DEF NotifyNewFile
  <2>6. RecordInv'
    BY <1>1, <2>2, <2>3, <2>4 DEF NotifyNewFile, RecordInv
  <2>7. ReplyInv' /\ RunInv' /\ NeverRejected' /\ NilMeansIngested'
    BY <1>1, <2>4 DEF NotifyNewFile, RecordInv, ReplyInv, RunInv, NeverRejected, NilMeansIngested, Decided
  <2>8. SeenInv'
    BY <1>1, <2>3, <2>4 DEF NotifyNewFile, SeenInv, Decoded
  <2> QED BY <2>5, <2>6, <2>7, <2>8
<1>2. CASE Sender(n)
  <2>1. NTypeOK'
    BY <1>2 DEF Sender, Answered, Expire
  <2>2. RecordInv' /\ ReplyInv' /\ RunInv' /\ NeverRejected'
    BY <1>2 DEF Sender, Answered, Expire, RecordInv, ReplyInv, RunInv, NeverRejected, Decided
  <2>3. SeenInv'
    <3>1. \A k \in Files : Decoded(meta[k])' = Decoded(meta[k])
      BY <1>2 DEF Sender, Answered, Expire, Decoded
    <3> QED BY <1>2, <3>1 DEF Sender, Answered, Expire, SeenInv
  <2>4. NilMeansIngested'
    BY <1>2 DEF Sender, Answered, Expire, ReplyInv, NilMeansIngested, Decided
  <2> QED BY <2>1, <2>2, <2>3, <2>4
<1> QED BY <1>1, <1>2

\* The network and the topic.
LEMMA NetworkStep ==
    ASSUME NInv, NEW n \in Files, Lose(n) \/ Arrive(n) \/ Store(n)
    PROVE  NInv'
<1> USE PipelineAssumption DEF NInv, NTypeOK
<1>0. UNCHANGED <<transport, given, meta, snd>>
  BY DEF Lose, Arrive, Store
<1>1. \A k \in Files : WithTraceID(given[k].trace, k)' = WithTraceID(given[k].trace, k)
  BY <1>0
<1>2. \A k \in Files : Decoded(meta[k])' = Decoded(meta[k])
  BY <1>0 DEF Decoded
<1>3. CASE Lose(n) \/ Arrive(n)
  <2>1. NTypeOK' /\ SeenInv'
    BY <1>0, <1>3, <1>2 DEF Lose, Arrive, SeenInv
  <2>2. RecordInv' /\ ReplyInv' /\ RunInv' /\ NeverRejected' /\ NilMeansIngested'
    BY <1>0, <1>1, <1>3 DEF Lose, Arrive, RecordInv, ReplyInv, RunInv, NeverRejected,
                            NilMeansIngested, Decided
  <2> QED BY <2>1, <2>2
<1>4. CASE Store(n)
  <2>1. NTypeOK'
    BY <1>4 DEF Store
  <2>2. RecordInv' /\ ReplyInv' /\ RunInv' /\ NeverRejected' /\ NilMeansIngested'
    BY <1>0, <1>1, <1>4 DEF Store, RecordInv, ReplyInv, RunInv, NeverRejected, NilMeansIngested, Decided
  <2>3. SeenInv'
    BY <1>0, <1>4, <1>2 DEF Store, SeenInv
  <2> QED BY <2>1, <2>2, <2>3
<1> QED BY <1>3, <1>4

\* The worker's endpoints.
LEMMA WorkerStep ==
    ASSUME NInv, NEW n \in Files, Ingest(n) \/ Deliver(n) \/ Ingested(n) \/ Cancelled(n)
    PROVE  NInv'
<1> USE PipelineAssumption DEF NInv, NTypeOK
<1>0. UNCHANGED <<transport, given, meta, snd>>
  BY DEF Ingest, Deliver, Ingested, Cancelled
<1>1. \A k \in Files : WithTraceID(given[k].trace, k)' = WithTraceID(given[k].trace, k)
                       /\ Decoded(meta[k])' = Decoded(meta[k])
  BY <1>0 DEF Decoded
<1>2. CASE Ingest(n)
  <2>1. meta[n] \in Events /\ Decoded(meta[n]) \in Seen /\ meta[n].tenant # Blank
    BY <1>2, DecodedIsEvent, TenantGiven DEF Ingest, RecordInv
  <2>2. /\ transport # "GCP" /\ runs[n] = 0 /\ msg[n] = "queued"
        /\ msg' = [msg EXCEPT ![n] = "running"]
        /\ runs' = [runs EXCEPT ![n] = @ + 1]
        /\ seen' = [seen EXCEPT ![n] = Decoded(meta[n])]
        /\ UNCHANGED reply
    BY <1>2, <2>1 DEF Ingest, RunInv
  <2>3. NTypeOK'
    BY <1>0, <2>1, <2>2
  <2>4. RecordInv' /\ ReplyInv' /\ RunInv' /\ NeverRejected' /\ NilMeansIngested'
    BY <1>0, <1>1, <2>2 DEF RecordInv, ReplyInv, RunInv, NeverRejected, NilMeansIngested, Decided
  <2>5. SeenInv'
    BY <1>0, <1>1, <2>2 DEF SeenInv
  <2> QED BY <2>3, <2>4, <2>5
<1>3. CASE Ingested(n)
  <2>1. /\ transport # "GCP" /\ msg[n] = "running" /\ runs[n] >= 1
        /\ snd[n] # "nil" /\ UNCHANGED <<seen, runs>>
    BY <1>3 DEF Ingested, RunInv, NilMeansIngested
  <2>2. PICK m \in {"success", "failure"} :
          /\ msg' = [msg EXCEPT ![n] = m]
          /\ reply' = [reply EXCEPT ![n] = IF m = "success" THEN "ok" ELSE "err"]
    BY <1>3 DEF Ingested
  <2>3. NTypeOK'
    BY <1>0, <2>1, <2>2
  <2>4. RecordInv' /\ RunInv' /\ SeenInv' /\ NeverRejected'
    BY <1>0, <1>1, <2>1, <2>2 DEF RecordInv, RunInv, SeenInv, NeverRejected
  <2>5. ReplyInv' /\ NilMeansIngested'
    BY <1>0, <2>1, <2>2 DEF ReplyInv, NilMeansIngested, Decided
  <2> QED BY <2>3, <2>4, <2>5
<1>4. CASE Cancelled(n)
  <2>1. NTypeOK'
    BY <1>4 DEF Cancelled
  <2>2. RecordInv' /\ RunInv' /\ SeenInv' /\ NeverRejected'
    BY <1>0, <1>1, <1>4 DEF Cancelled, RecordInv, RunInv, SeenInv, NeverRejected
  <2>3. ReplyInv' /\ NilMeansIngested'
    BY <1>0, <1>4 DEF Cancelled, ReplyInv, NilMeansIngested, Decided
  <2> QED BY <2>1, <2>2, <2>3
<1>5. CASE Deliver(n)
  <2>1. meta[n] \in Events /\ Decoded(meta[n]) \in Seen /\ meta[n].tenant # Blank
    BY <1>5, DecodedIsEvent, TenantGiven DEF Deliver, RecordInv
  <2>2. /\ msg[n] = "stored" /\ UNCHANGED <<msg, reply, runs>>
        /\ seen' = [seen EXCEPT ![n] = Decoded(meta[n])]
    BY <1>5, <2>1 DEF Deliver
  <2>3. NTypeOK'
    BY <1>0, <2>1, <2>2
  <2>4. RecordInv' /\ ReplyInv' /\ RunInv' /\ NeverRejected' /\ NilMeansIngested'
    BY <1>0, <1>1, <2>2 DEF RecordInv, ReplyInv, RunInv, NeverRejected, NilMeansIngested, Decided
  <2>5. SeenInv'
    BY <1>0, <1>1, <2>2 DEF SeenInv
  <2> QED BY <2>3, <2>4, <2>5
<1> QED BY <1>2, <1>3, <1>4, <1>5

\* Every step keeps NInv.
LEMMA NInvStep ==
    ASSUME NInv, [NNext]_nvars
    PROVE  NInv'
<1>1. CASE WorkerDies
  BY <1>1, PipelineAssumption DEF WorkerDies, NInv, NTypeOK, RecordInv, ReplyInv, RunInv, SeenInv,
     NeverRejected, NilMeansIngested, Decided, Decoded
<1>2. CASE UNCHANGED nvars
  BY <1>2 DEF nvars, NInv, NTypeOK, RecordInv, ReplyInv, RunInv, SeenInv,
     NeverRejected, NilMeansIngested, Decided, Decoded
<1> QED BY <1>1, <1>2, CallerStep, NetworkStep, WorkerStep DEF NNext, Rest

\* NInv is an invariant of the specification.
LEMMA NInvariant == NSpec => []NInv
<1>1. NInv /\ [NNext]_nvars => NInv'
  BY NInvStep
<1> QED BY NInvInit, <1>1, PTL DEF NSpec
-----------------------------------------------------------------------------
\* Type correctness of the notifications.
THEOREM PipelineTypeCorrect == NSpec => []NTypeOK
<1>1. NInv => NTypeOK
  BY DEF NInv
<1> QED BY NInvariant, <1>1, PTL

\* NotifyNewFile returns nil only for a file that was ingested or is in the
\* topic, for any number of concurrent notifications.
THEOREM SuccessIsReal == NSpec => []NilMeansIngested
<1>1. NInv => NilMeansIngested
  BY DEF NInv
<1> QED BY NInvariant, <1>1, PTL

\* No file is ingested twice over HTTP or gRPC.
THEOREM IngestedAtMostOnce == NSpec => []DirectAtMostOnce
<1>1. NInv => DirectAtMostOnce
  BY DEF NInv, RunInv, DirectAtMostOnce
<1> QED BY NInvariant, <1>1, PTL

\* The defaults of ToMetadata pass the worker's validation.
THEOREM AlwaysAccepted == NSpec => []NeverRejected
<1>1. NInv => NeverRejected
  BY DEF NInv
<1> QED BY NInvariant, <1>1, PTL

\* Status and tenant survive every transport, a client's id does up to white
\* space, and requests that came without one are told apart.
THEOREM EventsArriveUnchanged == NSpec => []EventFaithful
<1>1. ASSUME NInv PROVE EventFaithful
  <2> SUFFICES ASSUME NEW n \in Files, seen[n] # NoEvent
               PROVE  /\ seen[n].status = meta[n].status /\ seen[n].tenant = meta[n].tenant
                      /\ IF given[n].trace # Blank
                           THEN seen[n].trace = ExtractTraceId(given[n].trace)
                           ELSE \A k \in Files \ {n} :
                                   given[k].trace = Blank => seen[k].trace # seen[n].trace
    BY DEF EventFaithful
  <2>1. ASSUME NEW k \in Files, seen[k] # NoEvent
        PROVE  /\ seen[k].status = meta[k].status /\ seen[k].tenant = meta[k].tenant
               /\ seen[k].trace = ExtractTraceId(WithTraceID(given[k].trace, k))
    <3>1. /\ seen[k] = Decoded(meta[k]) /\ meta[k] \in Events
          /\ meta[k].trace = WithTraceID(given[k].trace, k)
      BY <1>1, <2>1 DEF NInv, SeenInv, RecordInv
    <3> QED BY <3>1, DecodedIsEvent
  <2>2. CASE given[n].trace # Blank
    BY <2>1, <2>2 DEF WithTraceID
  <2>3. CASE given[n].trace = Blank
    <3>1. \A k \in Files : given[k].trace = Blank /\ seen[k] # NoEvent => seen[k].trace = NewId(k)
      BY <2>1, FreshIds DEF WithTraceID, ExtractTraceId
    <3>2. ASSUME NEW k \in Files \ {n}, given[k].trace = Blank
          PROVE  seen[k].trace # seen[n].trace
      <4>1. CASE seen[k] = NoEvent
        BY <2>3, <3>1, <4>1, FreshIds DEF NoEvent
      <4>2. CASE seen[k] # NoEvent
        <5>1. seen[k].trace = <<"uuid", k>> /\ seen[n].trace = <<"uuid", n>>
          BY <2>3, <3>1, <3>2, <4>2 DEF NewId
        <5> QED BY <5>1
      <4> QED BY <4>1, <4>2
    <3> QED BY <2>1, <2>3, <3>2
  <2> QED BY <2>1, <2>2, <2>3
<1> QED BY NInvariant, <1>1, PTL
=============================================================================
