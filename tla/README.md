# Verification of file-transfer-api

TLA+ models of the file-transfer API (Go) and its RAG worker (Python), checked
with TLC on small instances, and theorems about them checked with TLAPS for
every value of the constants. `PROJECT.json` lists components, runs, mutants,
the map from definitions to source lines, findings, hazards and theorems.

## 1. The system

| Component | State | Operations | Interacts with |
|---|---|---|---|
| HTTP handler (`handler/http`) | none | `UploadFile`, `ListFiles` | calls the use case with one file |
| gRPC handler (`handler/grpc`) | per stream: `io.Pipe`, pump goroutine | `UploadFile` (client stream) | use case reads the pipe the pump writes |
| Upload use case (`usecase/file_interactor.go`) | per call: errgroup, its context, one goroutine per file | `UploadMultipleParallel`, `UploadMultipleSerial`, `UploadSingle`, `FetchMetadataList` | repositories, pipeline |
| Metadata repository (`infra/sql`, `infra/inmemory`) | table `file_metadata`, or a map | `Create`, `UpdateStatus`, `FindAll` | Postgres |
| Storage (`infra/gcs`, `infra/local`) | bucket, or directory | `Save`, `Delete` (never called) | GCS, file system |
| Notifiers (`infra/pipeline`) | connection | `NotifyNewFile` over HTTP, gRPC, Pub/Sub | RAG worker |
| Start-up (`infra/factory.go`, `initializer.go`, `sql/client.go`, `migrations.go`, `cmd/api`) | resources and their clean-up | migrate, connect with retry, build | everything above |
| Lifecycle (`lifecycle.go`) | running servers | `Run`: signal, graceful stop | both servers |
| Pub/Sub worker (`api/pubsub_server.py`, `pubsub_handler.py`, `main_pubsub.py`) | two subscribe loops, shared client, stop event, a task per delivery | `start`, `_subscribe_loop`, `_safe_process`, `stop` | Pub/Sub, RAG service |
| Worker endpoints (`http_handler.py`, `grpc_handler.py`) | none | `notify_ingest`, `NotifyIngest` | RAG service |
| RAG service, extractors | none | `run_pipeline` | document libraries |
| Benchmark (`cmd/benchmark`) | shared readers | serial and parallel pass | use case |

What is hard here: an upload writes to two systems without a transaction, under
a context that a client or a sibling goroutine can end at any moment, and a
statement interrupted that way may still commit; uploads of the same name meet
in the storage; the gRPC handler joins three parties through an unbuffered pipe;
the worker shares one channel between two loops and all acknowledgements, and
Pub/Sub delivers again whatever is not acknowledged in time; several instances
migrate one database that may come late or go away; shutdown stops two servers
one after the other while requests go on; lists are read while rows change. The
hazards, each at its line, are in `PROJECT.json`.

What makes the components correct:

* upload: an answer "ok" is durable; a completed row has its content; nothing is
  stored that has no row; the pipeline hears only of completed files; a group
  fails fast; every call is answered;
* gRPC stream: only a whole stream is completed; no chunk is lost; the handler
  returns when the client has ended the stream; no goroutine is left behind;
* worker: no readable message is acknowledged untried, failed messages come back,
  `stop` ends dispatching and the process, available messages are worked on;
* start-up: nobody serves on half a schema, no pool is leaked, `main` always gets
  to serve or to exit, a late database is waited for;
* lifecycle: streams are drained, HTTP requests get their five seconds, resources
  are closed after the servers and once, shutdown is bounded;
* HTTP handler and catalogue: what is listed as completed is stored, an answered
  upload is found, a page is what limit, offset and tags say;
* notifiers: success means ingested, nothing is ingested twice, API and worker
  agree on the event.

## 2. Modules

| Module | Models | State and actions |
|---|---|---|
| `Domain` | `internal/domain` | files (one member per *upload*), names, statuses |
| `Metadata` | `MetadataRepository` | `row[f]`: status of the row of upload f; `inflight[f]`: status a statement nobody waits for may still write. `Create`, `UpdateStatus`, `StatementFails`, `Settle`, `MetadataCrash` |
| `Storage` | `FileRepository` | `object[n]`: absent, torn, or the whole content of one upload; `finalizing`: uploads GCS may still finalize. `Open`, `WriteOver`, `SaveReturns`, `SaveFails`, `Finalize`, `StorageCrash` |
| `Upload` | `UploadMultipleParallel`, composed of the two above | `pc[f]`: goroutine of f; `call[c]`: answer; `ctxDone[c]`: egCtx; `event[f]`: notification. One action per outcome of each operation, `CancelRequest`, `WaitReturn`, `Crash` |
| `Transfer` | what an upload promises (abstract) | `status`, `stored`, `answer` |
| `TransferProofs`, `UploadProofs` | theorems about `Transfer` and `Upload` | |
| `GrpcUpload` | `GRPCFileHandler.UploadFile` | client, inbox, pump, pipe, handler stage, row, object. A failing `Save` leaves nothing, or what was copied |
| `PubSubWorker` | the Pub/Sub worker and its subscription | worker phase, two loops, channel, stop event, a task per delivery; `malformed`: messages that `handle_message_core` rejects before `run_pipeline` |
| `GrpcUploadProofs`, `PubSubWorkerProofs` | theorems about the two modules above | |
| `HttpHandler` | `HTTPFileHandler` composed with `Upload`; `FetchMetadataList`, both `FindAll`, the `ListFiles` wrapper | `http[c]`: answer to POST /upload; `order`: rows by `created_at`; per GET /files: its stage, query, snapshot, page. `UploadRejected`, `UploadFile`, `UploadAnswers`, `StampRow`; `ListRejected`, `ListFiles`, `FindAll`, `ListFails`, `RowsBreak`, `ListAnswers`; the steps of `Upload`; `HCrash` |
| `Pipeline` | trace middleware, the three notifiers, the converters, the worker's HTTP and gRPC endpoints | `given`, `meta`, `seen`: what the client sent, the record, what the worker read; `snd`, `msg`, `reply`: caller, request, answer; `runs`. `NotifyNewFile`, `Answered`, `Expire`, `Store`, `Deliver`, `Ingest`, `Ingested`, and what network and worker may do |
| `Startup` | `config.Load`, `InitInfrastructure`, `RunMigrations`, `OpenWithRetry`, for several instances | per instance: next call, reason of its exit, attempts, open pools; the database: up, advisory lock, `schema_migrations`, applied migrations. One action per call and outcome, `DatabaseStarts`, `DatabaseStops`, `Kill`, `Restart` |
| `Lifecycle` | `ApplicationRunner.Run`, `combinedCleanup` | `run`, `srv[s]`, `req[r]`, `expired`, `pool`, `closed`. `Listen`, `ServeFails`, `Notify`, `Signal`, `ServerError`, `GracefulStopReturns`, `ShutdownReturns`, `ClosePool`, `CloseRest`, and requests that arrive, query and end |
| `HttpHandlerProofs`, `PipelineProofs`, `StartupProofs`, `LifecycleProofs` | theorems about the four modules above | |
| `MCUpload`, `MCGrpcUpload`, `MCPubSubWorker`, `MCHttpHandler`, `MCPipeline`, `MCStartup`, `MCLifecycle` | instances for TLC | |

Definitions whose name has an underscore (`CreateErr_GoesOn`) are mutants: they
occur in no action, and substituted for the definition they imitate they make a
property fail.

Modelling decisions that carry the results:

* **Statements and uploads in doubt.** A database call or GCS `Close` that
  returns an error, or whose process dies, may or may not have taken effect, and
  may take effect later (`inflight`, `finalizing`, `Settle`, `Finalize`). The
  in-memory repository never fails and dies with the process.
* **Contexts.** An operation on Postgres or GCS succeeds only while its context
  lives. The local `Save` and the in-memory map ignore contexts, as in the code.
  The compensation runs under `context.Background()`.
* **Save is two steps**, opening and copying. Locally, opening truncates; an
  upload may tear a file another upload has completed; `Save` may return nil for
  a torn file because the error of `Close` is lost.
* **Crash** kills all running calls; calls that have not begun are served by the
  restarted process, on the same table and storage.
* **Channel of the worker.** Leaving `async with self.subscriber` closes the
  transport of the shared client; calls on it fail from then on. This is the
  documented behaviour of the client library, which is not in the repository.
* **Event loop.** A step of the worker is what runs between two awaits;
  `handle_message_core` does not give up the loop, so it is one step. For the
  same reason `Pipeline` has at most one request in `run_pipeline`.
* **Lists.** A SELECT works on one snapshot (`FindAll`), its rows are read later
  and may break off (`RowsBreak`). `created_at` is the time at which Postgres
  begins the INSERT (`StampRow`), so rows may become visible in another order. A page of
  Postgres is described by ranks: place i has the row with i - 1 newer ones among those
  that match (`Rank`, `Window`). The in-memory map is iterated in any order
  (`Enumerations`). The limits 100, 10 and 20 of the code are the constants `MaxLimit`,
  `MinLimit`, `DefaultLimit`.
* **Notifications.** The caller's deadline and the fate of the request are
  independent: a request given up may still be taken. gRPC cancels a handler that
  has not begun, HTTP does not, and the Pub/Sub client publishes from a buffer and
  again when an answer is missing, up to `MaxCopies`.
* **Trace ids.** A client sends no id, one it makes up (perhaps with white space around
  it, or nothing but white space), or one it was given in the header of an earlier
  response (`Returned`): `TraceMiddleware` hands out the ids it generates and honours
  what it is sent, so two requests may well carry one id. `EventFaithful` says what
  remains true: ids of requests that came without one differ. The worker strips the id
  (`ExtractTraceId`). On Pub/Sub the worker reads the message when it is delivered
  (`Deliver`), not when the topic takes it.
* **Malformed messages.** The subscription may hold messages the handler cannot parse or
  that lack a field. They are never processed, and acknowledged all the same by the
  `finally` of `_safe_process`; `AckedTried` excepts them.
* **Failing servers.** `Serve` may fail before or long after it began to accept; the
  error waits in `serverErrors` until `Run` looks at it (`ServeFails`, state "lame").
* **Migrations.** golang-migrate takes an advisory lock that ends with the session,
  marks a version dirty, runs its statements, and cleans it; a session that ends in
  between leaves the commit in doubt. The library is not in the repository.
* **Shutdown.** `pgxpool.Close` refuses new users at once and waits for connections
  in use. The SIGKILL a platform sends after its own grace period is not modelled.

## 3. Runs

| Run | Instance | What it shows |
|---|---|---|
| `upload_gcs` | 3 uploads, 2 calls, 2 names (one shared), GCS, Postgres | `TypeOK`, `AckedDurable`, `CompletedStored`, `Catalogued`, `EventAfterCompletion`, `ImplementsTransfer`, `CallAnswered` |
| `upload_local` | the same on a local directory | `CompletedStored`, `FailFast` |
| `grpc_stream` | window 2, up to 3 chunks | `STypeOK`, `WholeStream`, `NothingLost`, `StreamImplementsTransfer` (refinement), `HandlerReturns` |
| `pubsub_worker` | 1 message, 3 deliveries, 3 attempts | `WTypeOK`, `AckedTried`, `NoDispatchAfterStop`, `StopTerminates`, `TriedWhileServing` |
| `http_files` | 2 uploads of one name, 1 reader, limits -1, 0 and 3 with a maximum of 2, GCS, Postgres | `HTypeOK`, `ListedStored`, `ContentOpen`, `ReadYourUploads`, `PageBounded`, `HttpImplementsUpload` (refinement) |
| `pipeline` | 2 notifications, 3 transports, with and without tenant; no id, a plain one, a padded one, only white space, or one handed out before | `NTypeOK`, `NilMeansIngested`, `DirectAtMostOnce`, `EventFaithful`, `NeverRejected` |
| `startup` | 2 instances, 2 migrations, 5 attempts, 6 configurations | `ITypeOK`, `ReadyMigrated`, `NoPoolLeak`, `MainSettles`, `PipelineOptional` |
| `lifecycle` | 2 streams, 2 HTTP requests, all modes | `LTypeOK`, `StreamsDrained`, `HttpGetsItsTime`, `ServersBeforeResources`, `StopsWithoutStreams` |
| `late_database` | 1 instance | **violated** `LateDatabaseTolerated`: migrations connect once, before the retries (README.md:118, 415) |
| `orphan_object` | 1 upload | **violated** `NoOrphan`: no rollback of the object when the last update fails (README.md:115) |
| `grpc_pump_leak` | as `grpc_stream` | **violated** `PumpExits`: a pump blocked in `pw.Write` is never released |
| `pubsub_ack` | as `pubsub_worker` | **violated** `AckedSucceeded`: failed messages are acknowledged |

Bounds. Two uploads in one call are needed for fail-fast, a second call with a
shared name for overwriting and for requests after a restart; a third party in
either role repeats what two do. Calls are finitely many, which bounds crashes.
The window of 2 lets a sender be stopped and lets skipped messages and chunks
queue up; three chunks put one in the pump, one in the queue and one in the
object. Messages of the worker share only channel and stop event, and
deliveries of one message already run concurrently; three of them give a task
whose lease has expired twice. A page of one row or of both rows is enough to see
a full page, a short one, and a limit above, below and inside the bounds; two
readers never meet. Two notifications let one be stuck behind the other on the
event loop, and the second one send the id that the first was given. Two instances are needed for the lock, two
migrations for a kill between them; the configurations cover each choice start-up
looks at, one at a time. Two requests per server let one end while the other is in
the way.

Fairness. `FairSpec`: every operation a goroutine waits for returns with a result
or an error, and a finished group answers. The scheduler gives the latter; the
former is what the code relies on, for it sets no deadline. `SFairSpec`: pump and
handler run when they can; clients owe nothing and the storage owes no failure,
so `HandlerReturns` does not rest on a lucky error. `WFairSpec`: ready tasks run,
RPCs return, an open stream delivers, the grace period passes; signals, stream
breaks and lease expiry are never forced. `IFairSpec`: the calls of
`main` return, the wait for the advisory lock being limited; databases, kills and
restarts are free. `LFairSpec`: the main goroutine runs, five seconds pass, a query
returns; signals and handlers are free, for a client decides how long a handler
takes. Deadlock is checked in every run: the
only steps of a finished system are the explicit `Quiet`, `HQuiet`, `Over`, `Gone`,
`Rest` and `Terminated`.

## 4. Proofs

`TransferProofs` (any files and calls): `OkIsKept` (an answer ok stands for completed and
stored files) and `SettledIsFinal` (no step undoes a final status, a stored name or an
answer). They say what the contract is worth that `Refinement`, `HttpRefinesTransfer` and
`StreamRefinesTransfer` show the use case and both handlers to keep.

`UploadProofs` (any files, names, calls; both storage backends):

* `TypeCorrect`: `Spec => []TypeOK`, with either repository;
* with `DBType = "SQL"`: `AnswersAreDurable`, `CompletionIsBacked`,
  `ObjectsAreCatalogued`, `EventsFollowCompletion`, `GroupsFailFast` and
  `Refinement` (`Spec => ImplementsTransfer`).

The assumptions are the named `ASSUME`s on the constants. The properties are not
inductive: `CompletedStored` is preserved by a late commit only because the
statement in doubt was issued after the name had been stored. `IInv` adds this:
`CallInv` (a goroutine works only for a running call, a failed one has ended its
group's context), `RowInv` (the program counter determines the row until the
goroutine fails or dies; a statement in doubt fits the row it will meet),
`StoreInv` (whoever may come to call f completed has stored its name) and
`ObjectInv` (objects belong to rows; a bucket holds no partial object). `InvStep`
has a case for each step of a goroutine and a step per conjunct; `InvNext` adds
the other actions. `Refinement` maps `row`, the set of names with an object, and
`call` to `Transfer`: saving is `StoreFor`, a late commit `Register` or `Finish`,
a crash `Lose`. With the in-memory repository these theorems are false: rows are
never completed and vanish in a crash.

`GrpcUploadProofs` (any window, any number of chunks): `StreamTypeCorrect`,
`NoChunkIsLost`, `CompletedIsWhole` and `StreamRefinesTransfer`. `WholeStream` is not
inductive: it speaks of completed rows only, and says nothing of the way a chunk takes.
`SInv` adds `StreamInv` (who has closed sends no more), `PumpInv` (the pump lives from the
first message on, and closes the pipe cleanly only at the end of an empty stream),
`StageInv` (row, object and answer at each stage) and `NothingLost` itself. Counting the
chunks of a queue needs no induction: `Chunks` is the cardinality of a set of positions,
and taking the head off a queue is a bijection between positions (`ChunksTail`).
`StreamRefinesTransfer` maps a stream to a call with one file: the first message is
`Accept`, the end of `Save` `StoreFor`, the rows `Register` and `Finish`, the return `Answer`; a
stream refused before the pump starts is a call never accepted.

`PubSubWorkerProofs` (any messages and bounds): `WorkerTypeCorrect`,
`AcknowledgedWasTried` (for messages the handler can read) and `StopEndsDispatch`, from
`WInv`: a task past `handle_message_core` has run the pipeline or has a malformed message, and after `stop` either the event is set or no loop is left that could
dispatch.

`HttpHandlerProofs` (any calls and readers): `HttpAddsNothing` shows that `HSpec`
implements `Upload`'s `Spec`, step by step, so that the theorems above hold for uploads
over HTTP; `HttpRefinesTransfer` is the first of them. `HttpTypeCorrect` holds with either
repository, from `BaseInv`: types, `StampInv` (every row has a `created_at`, no two the
same) and `QueryInv` (`Clamp` has seen every pending query). With Postgres, `HInv` gives
the rest. `ListingsAreTrue` and `FormFileStaysOpen` rest on `IInv` and on
two lemmas: `StoredStays` (no step removes or tears what is stored: a page may be old,
what it says stays true) and `OnlyStartActivates`, which with `WaitInv` ties every
working goroutine to a handler that waits. `PagesAreBounded` and `UploadsAreListed` rest
on what a page is: `Newer` is a strict total order on the rows with a `created_at`
(`NewerOrders`), so ranks are the numbers below the number of matching rows, each taken
once (`RankMonotone`, `Ranks`, by cardinalities), so the first page has each row once and
a row that is not on it is older than all of a full page (`FirstPage`). `FindAllShows`
applies this to the snapshot, where `KnownInv`, `WaitInv` and `IInv` lead from a 201 to a
completed row; afterwards `created_at`s are only added in front (`PushStamp`, `StampStep`),
so what was newer stays newer, and only its own steps change a list (`ListMoves`).

`PipelineProofs` (any notifications, ids, tenants; `PipelineAssumption` and `FreshIds`:
`uuid.New` gives no id that somebody has made up; sending back a generated one is allowed): `SuccessIsReal`, `IngestedAtMostOnce`,
`AlwaysAccepted`, `EventsArriveUnchanged`. The invariant `NInv` follows the answer back
to where it comes from: `ReplyInv` (an answer "ok" was given by a run that succeeded, or
by the topic), `RunInv` (a request the worker has not begun has no run), `RecordInv` and
`SeenInv` (what the worker has read is the record, decoded); `StatusSurvives` is the
round trip of a status through the protobuf enum.

`StartupProofs` (any instances, migrations, attempts; `StartupAssumption`,
`ConfigAssumption`): `SchemaIsReady` and `PoolsAreClosed`. `ReadyMigrated` is not
inductive, because a step of another instance could make the version dirty again. `SInv`
adds `SchemaInv` (a clean version has all its migrations, a dirty one lacks at most the
last), `MigratorInv` (between marking and cleaning, the session with the lock is the one
that made the version dirty), `DoneInv` (after the first instance came through nothing
is left to migrate) and `PoolInv` (attempts and pools at each call of `main`).

`LifecycleProofs` (any streams and requests): `StreamsAreDrained`, `HttpHasItsTime`,
`ResourcesComeLast`, from `LInv`: `StageInv` (a server is down before the next stage
begins, and the stage that waits for its requests leaves none behind) and `PoolInv`
(only the clean-up closes the pool). `LifecycleTypeCorrect` includes that no resource is
closed twice (`ClosedOnce`); it says nothing about their order.

Every invariant, action property and refinement of a passing run is proved. Only
model-checked: the liveness properties (`CallAnswered`, `HandlerReturns`,
`StopTerminates`, `TriedWhileServing`, `MainSettles`, `PipelineOptional`,
`StopsWithoutStreams`), which need fairness and `ENABLED`. The theorems
with the hypothesis `DBType = "SQL"` are not claimed for the in-memory repository: it
never records a completion, pages ignore the limit, and its rows end with the process.

## 5. Where code and documents differ

Checked, each by a run with a counterexample: `orphan_object`, `grpc_pump_leak`,
`pubsub_ack`, `late_database` (table above, quotations in `PROJECT.json`).

Seen while translating, and modelled as the code does it:

* `lifecycle.go:57` sets the limit for requests to 5 seconds, but `GracefulStop`
  (line 62) waits for streams without one: a client that keeps its stream open keeps the
  process. `StopsWithoutStreams` is therefore stated for processes without open streams.
  The wait may also use up the five seconds of `Shutdown`, which then cuts HTTP requests.
* `cmd/api/main.go:45` says that clean-up runs in reverse order (「一斉に逆順実行される」);
  `initializer.go:44` runs it in the order of construction: database, storage, pipeline.
  The model closes in the order of the code (`ClosePool`, `CloseRest`). No property is
  about the order among the resources; both servers have stopped before the first one.
* `pubsub_handler.py:65-79` returns False, and nacks, for a message without file name or
  tenant, and `_safe_process` acknowledges it: the same disagreement as in `pubsub_ack`.
* `http/file_handler.go:56` passes offset 0 although `openapi.yaml` has an offset
  (README.md:94); lines 111 and 143 drop the tags that `openapi.yaml:32` calls
  search tags.
* `metadata_ops.go:164` does not look at `rows.Err()`: a page that broke off is
  answered with 200 (`RowsBreak`).
* `memory_repository.go:49` iterates over the map without the lock; line 55 updates
  nothing, so rows stay pending.
* `file_interactor.go:101` sends the record as it was filled before completion, with
  the status pending.
* `local_repository.go:36` sets `err` in a deferred function of a `Save` without a
  named result: the error of `Close` is lost.
* `pubsub_server.py`: the loop started before the existence check closes the shared
  channel when the subscription is missing, and the check then raises.
* `cmd/benchmark/main.go:92` gives the parallel pass readers that the serial pass has
  read to the end.

## 6. Not modelled, and the plan

Left out: generated code except the parameter errors of the `ListFiles` wrapper, the
publisher without callers, document extraction and chunking (library calls on
contents), log formats, deployment files, the benchmark (sequential, prints two
times). `UploadSingle`, `SaveMetadata`, `Delete`, `ToDomainStatus` and
`grpc.StartServer` have no callers; `FindByID` is not implemented in the SQL
repository. The lists of `HttpHandler` are checked with Postgres: the in-memory
`FindAll` is translated (`Result`) and no property is claimed for it.

Hazards without a property, each with its reason in `PROJECT.json`: the code makes no
promise there (a stale status in the event, an announcement that is lost, contents mixed
by two local uploads, documents processed twice, a loop that is not restarted, a page cut
short), or the model only shows the wait a document denies (open streams at shutdown).

Next: what the worker does with a message whose task was cancelled between the pipeline
and the acknowledgement, over any number of redeliveries; the contract of `Transfer`
across a restart of the gRPC server, whose model has no crash.
