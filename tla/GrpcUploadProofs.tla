-------------------------- MODULE GrpcUploadProofs --------------------------
(***************************************************************************)
(* Proofs about GrpcUpload, for any flow-control window and any number of  *)
(* chunks.                                                                 *)
(***************************************************************************)
EXTENDS GrpcUpload, FiniteSetTheorems, SequenceTheorems, TLAPS

ChunkPositions(q) == {i \in 1..Len(q) : q[i] = "chunk"}

\* The stream: a client that has closed its side sends nothing more.
StreamInv == halfClosed => client # "open"

\* Pump and pipe: the pump lives from the first message on and closes the
\* pipe exactly when it ends; it closes it cleanly only at the end of a
\* stream that is empty.
PumpInv ==
    /\ stage = "first" => pump = "none" /\ copied = 0
    /\ stage \notin {"first", "returned"} => pump # "none"
    /\ pump = "exited" <=> pipe # "open"
    /\ pipe = "eof" => halfClosed /\ inbox = <<>>

\* Row, object and answer at each stage of the handler.  Whatever leads to a
\* completed row has seen the pipe's end of file.
StageInv ==
    /\ stage \in {"first", "create"} => row = None
    /\ stage \in {"copy", "rollback", "complete"} => row = StatusPending
    /\ stage \in {"notify", "respond"} => row = StatusCompleted
    /\ stage # "returned" => reply = None
    /\ stage = "complete" \/ row = StatusCompleted =>
          stage # "first" /\ pump # "none" /\ pipe = "eof" /\ stored = copied
    /\ reply = "ok" => row = StatusCompleted

SInv == STypeOK /\ StreamInv /\ PumpInv /\ StageInv /\ NothingLost
-----------------------------------------------------------------------------
(* Counting chunks in a queue.                                             *)

\* A queue holds a natural number of chunks.
LEMMA ChunksType ==
    ASSUME NEW q \in Seq(Message)
    PROVE  Chunks(q) \in Nat /\ IsFiniteSet(ChunkPositions(q))
<1>1. IsFiniteSet(1..Len(q))
  BY FS_Interval
<1>2. ChunkPositions(q) \in SUBSET (1..Len(q))
  BY DEF ChunkPositions
<1>3. IsFiniteSet(ChunkPositions(q))
  BY <1>1, <1>2, FS_Subset
<1> QED BY <1>3, FS_CardinalityType DEF Chunks, ChunkPositions

\* An empty queue holds none.
LEMMA ChunksEmpty == Chunks(<<>>) = 0
<1>1. ChunkPositions(<<>>) = {}
  BY DEF ChunkPositions
<1> QED BY <1>1, FS_EmptySet DEF Chunks, ChunkPositions

\* A message that is sent adds one if it is a chunk.
LEMMA ChunksAppend ==
    ASSUME NEW q \in Seq(Message), NEW m \in Message
    PROVE  Chunks(Append(q, m)) = Chunks(q) + (IF m = "chunk" THEN 1 ELSE 0)
<1> DEFINE P == ChunkPositions(q)
           R == ChunkPositions(Append(q, m))
<1>1. /\ Chunks(q) = Cardinality(P) /\ Chunks(q) \in Nat /\ IsFiniteSet(P)
      /\ Chunks(Append(q, m)) = Cardinality(R)
  BY ChunksType DEF Chunks, ChunkPositions
<1>2. CASE m = "chunk"
  <2>1. R = P \cup {Len(q) + 1} /\ Len(q) + 1 \notin P
    BY <1>2 DEF ChunkPositions
  <2>2. Cardinality(R) = Cardinality(P) + 1
    BY <1>1, <2>1, FS_AddElement
  <2> HIDE DEF P, R
  <2> QED BY <1>1, <1>2, <2>2
<1>3. CASE m # "chunk"
  <2>1. R = P
    BY <1>3 DEF ChunkPositions
  <2> HIDE DEF P, R
  <2> QED BY <1>1, <1>3, <2>1
<1> QED BY <1>2, <1>3

\* A message that is received takes one away if it is a chunk.
LEMMA ChunksTail ==
    ASSUME NEW q \in Seq(Message), q # <<>>
    PROVE  Chunks(q) = Chunks(Tail(q)) + (IF Head(q) = "chunk" THEN 1 ELSE 0)
<1> DEFINE P == ChunkPositions(q) \ {1}
           R == ChunkPositions(Tail(q))
           shift == [i \in P |-> i - 1]
<1>1. /\ Tail(q) \in Seq(Message) /\ Len(q) \in Nat \ {0} /\ Len(Tail(q)) = Len(q) - 1
      /\ \A i \in 1 .. Len(q) - 1 : Tail(q)[i] = q[i + 1]
      /\ Head(q) = q[1]
  OBVIOUS
<1>2. IsFiniteSet(ChunkPositions(q)) /\ IsFiniteSet(P) /\ IsFiniteSet(R)
  BY <1>1, ChunksType, FS_RemoveElement
<1>3. shift \in Bijection(P, R)
  <2>1. shift \in [P -> R]
    BY <1>1 DEF ChunkPositions
  <2>2. \A i, j \in P : shift[i] = shift[j] => i = j
    BY <1>1 DEF ChunkPositions
  <2>3. \A j \in R : \E i \in P : shift[i] = j
    <3> TAKE j \in R
    <3>1. j + 1 \in P /\ shift[j + 1] = j
      BY <1>1 DEF ChunkPositions
    <3> QED BY <3>1
  <2> QED BY <2>1, <2>2, <2>3 DEF Bijection, Injection, Surjection, IsInjective
<1>4. Cardinality(R) = Cardinality(P)
  BY <1>2, <1>3, FS_Bijection DEF ExistsBijection
<1>5. 1 \in ChunkPositions(q) <=> Head(q) = "chunk"
  BY <1>1 DEF ChunkPositions
<1>6. Cardinality(P) = IF Head(q) = "chunk" THEN Cardinality(ChunkPositions(q)) - 1
                                            ELSE Cardinality(ChunkPositions(q))
  BY <1>2, <1>5, FS_RemoveElement
<1>7. /\ Chunks(q) = Cardinality(ChunkPositions(q)) /\ Chunks(q) \in Nat
      /\ Chunks(Tail(q)) = Cardinality(R)
  BY ChunksType DEF Chunks, ChunkPositions
<1> HIDE DEF P, R
<1> QED BY <1>4, <1>6, <1>7
-----------------------------------------------------------------------------
\* SInv holds when the stream is opened.
LEMMA SInvInit == SInit => SInv
<1> SUFFICES ASSUME SInit PROVE SInv
  OBVIOUS
<1>1. STypeOK
  <2>1. inbox \in Seq(Message) /\ Len(inbox) <= Window
    BY StreamAssumption DEF SInit
  <2>2. sent \in 0..MaxChunks /\ copied \in 0..MaxChunks
    BY StreamAssumption DEF SInit
  <2> QED BY <2>1, <2>2 DEF SInit, STypeOK
<1>2. StreamInv /\ PumpInv /\ StageInv
  BY DEF SInit, StreamInv, PumpInv, StageInv, None, StatusCompleted
<1>3. NothingLost
  BY ChunksEmpty DEF SInit, NothingLost
<1> QED BY <1>1, <1>2, <1>3 DEF SInv

\* The client.
LEMMA ClientStep ==
    ASSUME SInv, Client
    PROVE  SInv'
<1> USE StreamAssumption DEF SInv, STypeOK
<1>1. ASSUME NEW m \in Message, Send(m) PROVE SInv'
  <2>1. /\ inbox' = Append(inbox, m) /\ inbox' \in Seq(Message) /\ Len(inbox') <= Window
        /\ sent' = IF m = "chunk" THEN sent + 1 ELSE sent
        /\ sent' \in 0..MaxChunks /\ pipe # "eof"
        /\ UNCHANGED <<client, halfClosed, pump, pipe, copied, row, stored, stage, reply>>
    BY <1>1 DEF Send, dataVars, StreamInv, PumpInv
  <2>2. Chunks(inbox') = Chunks(inbox) + (IF m = "chunk" THEN 1 ELSE 0) /\ Chunks(inbox) \in Nat
    BY <2>1, ChunksAppend, ChunksType
  <2>3. NothingLost'
    <3>1. sent \in Nat /\ copied \in Nat /\ NothingLost
      OBVIOUS
    <3> HIDE DEF SInv, STypeOK
    <3> QED BY <2>1, <2>2, <3>1 DEF NothingLost
  <2>4. STypeOK'
    BY <2>1
  <2> QED BY <2>1, <2>3, <2>4 DEF StreamInv, PumpInv, StageInv
<1>2. CASE CloseSend \/ Leave
  BY <1>2 DEF CloseSend, Leave, pumpVars, dataVars, StreamInv, PumpInv, StageInv, NothingLost
<1> QED BY <1>1, <1>2 DEF Client

\* The pump.
LEMMA PumpStep ==
    ASSUME SInv, Pump
    PROVE  SInv'
<1> USE StreamAssumption DEF SInv, STypeOK, clientVars, dataVars
<1>1. CASE PumpChunk \/ PumpSkip
  <2>1. /\ pump = "recv" /\ inbox # <<>> /\ inbox' = Tail(inbox)
        /\ pump' = IF Head(inbox) = "chunk" THEN "write" ELSE "recv"
        /\ UNCHANGED <<client, halfClosed, sent, pipe, copied, row, stored, stage, reply>>
    BY <1>1 DEF PumpChunk, PumpSkip
  <2>2. inbox' \in Seq(Message) /\ Len(inbox') <= Window
    BY <2>1
  <2>3. /\ Chunks(inbox) = Chunks(inbox') + (IF Head(inbox) = "chunk" THEN 1 ELSE 0)
        /\ Chunks(inbox') \in Nat
    BY <2>1, <2>2, ChunksTail, ChunksType
  <2>4. NothingLost'
    BY <2>1, <2>3 DEF NothingLost
  <2>5. STypeOK'
    BY <2>1, <2>2
  <2> QED BY <2>1, <2>4, <2>5 DEF StreamInv, PumpInv, StageInv
<1>2. CASE PumpEOF \/ PumpErr
  <2>1. STypeOK'
    BY <1>2 DEF PumpEOF, PumpErr
  <2>2. StreamInv' /\ PumpInv' /\ StageInv' /\ NothingLost'
    BY <1>2 DEF PumpEOF, PumpErr, EndOfStream, StreamInv, PumpInv, StageInv, NothingLost
  <2> QED BY <2>1, <2>2
<1> QED BY <1>1, <1>2 DEF Pump

\* The handler's first message, and the chunks Save reads from the pipe.
LEMMA ReadStep ==
    ASSUME SInv, RecvFirst \/ CopyChunk
    PROVE  SInv'
<1> USE StreamAssumption DEF SInv, STypeOK, clientVars, dataVars
<1>1. CASE RecvFirst
  <2>1. /\ stage = "first" /\ inbox # <<>> /\ inbox' = Tail(inbox) /\ pump = "none" /\ copied = 0
        /\ UNCHANGED <<client, halfClosed, sent, pipe, copied, row, stored>>
    BY <1>1 DEF RecvFirst, PumpInv
  <2>2. inbox' \in Seq(Message) /\ Len(inbox') <= Window
    BY <2>1
  <2>3. CASE Head(inbox) = "meta"
    <3>1. pump' = "recv" /\ stage' = "create" /\ UNCHANGED reply
      BY <1>1, <2>3 DEF RecvFirst
    <3>2. Chunks(inbox) = Chunks(inbox') /\ Chunks(inbox') \in Nat
      <4>1. Chunks(inbox) = Chunks(inbox') + (IF Head(inbox) = "chunk" THEN 1 ELSE 0)
        BY <2>1, ChunksTail
      <4>2. Chunks(inbox') \in Nat
        BY <2>2, ChunksType
      <4> QED BY <2>3, <4>1, <4>2
    <3>3. NothingLost'
      BY <2>1, <3>1, <3>2 DEF NothingLost
    <3> QED BY <2>1, <2>2, <3>1, <3>3
            DEF StreamInv, PumpInv, StageInv, None, StatusCompleted
  <2>4. CASE Head(inbox) # "meta"
    <3>1. stage' = "returned" /\ reply' = "invalid" /\ UNCHANGED pump
      BY <1>1, <2>4 DEF RecvFirst, Return
    <3>2. NothingLost'
      BY <2>1, <3>1 DEF NothingLost
    <3> QED BY <2>1, <2>2, <3>1, <3>2
            DEF StreamInv, PumpInv, StageInv, None, StatusCompleted
  <2> QED BY <2>3, <2>4
<1>2. CASE CopyChunk
  <2>1. Chunks(inbox) \in Nat
    BY ChunksType
  <2>2. copied + 1 \in 0..MaxChunks
    BY <1>2, <2>1 DEF CopyChunk, NothingLost
  <2>3. STypeOK' /\ StreamInv'
    BY <1>2, <2>2 DEF CopyChunk, StreamInv
  <2>4. PumpInv' /\ StageInv'
    BY <1>2 DEF CopyChunk, PumpInv, StageInv
  <2>5. NothingLost'
    BY <1>2, <2>1 DEF CopyChunk, NothingLost
  <2> QED BY <2>3, <2>4, <2>5
<1> QED BY <1>1, <1>2

\* The other steps of the handler.
LEMMA HandlerStep ==
    ASSUME SInv, \/ RecvFirstErr \/ CreateRow \/ CopyEOF \/ CopyErr \/ StorageErr
                 \/ Rollback \/ Complete \/ NotifyPipeline \/ UploadFailed
                 \/ Respond
    PROVE  SInv'
<1> USE StreamAssumption DEF SInv, STypeOK, clientVars, dataVars, pumpVars, Return,
        None, StatusPending, StatusProcessing, StatusCompleted, StatusFailed,
        TransferStatus, ToMetadataStatus
<1>1. CASE RecvFirstErr
  BY <1>1 DEF RecvFirstErr, StreamInv, PumpInv, StageInv, NothingLost
<1>2. CASE CreateRow
  BY <1>2 DEF CreateRow, StreamInv, PumpInv, StageInv, NothingLost
<1>3. CASE CopyEOF
  BY <1>3 DEF CopyEOF, StreamInv, PumpInv, StageInv, NothingLost
<1>4. CASE CopyErr \/ StorageErr
  BY <1>4 DEF CopyErr, StorageErr, SaveFails, StreamInv, PumpInv, StageInv, NothingLost
<1>5. CASE Rollback
  BY <1>5 DEF Rollback, StreamInv, PumpInv, StageInv, NothingLost
<1>6. CASE Complete
  BY <1>6 DEF Complete, StreamInv, PumpInv, StageInv, NothingLost
<1>7. CASE NotifyPipeline \/ UploadFailed \/ Respond
  BY <1>7 DEF NotifyPipeline, UploadFailed, Respond, StreamInv, PumpInv, StageInv, NothingLost
<1> QED BY <1>1, <1>2, <1>3, <1>4, <1>5, <1>6, <1>7

\* SInv is an invariant of the specification.
LEMMA SInvariant == SSpec => []SInv
<1>1. SInv /\ UNCHANGED svars => SInv'
  BY DEF svars, clientVars, pumpVars, dataVars, SInv, STypeOK, StreamInv, PumpInv, StageInv,
         NothingLost
<1>2. SInv /\ [SNext]_svars => SInv'
  BY <1>1, ClientStep, PumpStep, ReadStep, HandlerStep DEF SNext, Handler, Over
<1> QED BY SInvInit, <1>2, PTL DEF SSpec
-----------------------------------------------------------------------------
\* Type correctness of a stream: the transport never holds more than the
\* window, and Save never reads more chunks than a client can send.
THEOREM StreamTypeCorrect == SSpec => []STypeOK
<1>1. SInv => STypeOK
  BY DEF SInv
<1> QED BY SInvariant, <1>1, PTL

\* For any number of chunks: each is copied, in the pump's hand or queued.
THEOREM NoChunkIsLost == SSpec => []NothingLost
<1>1. SInv => NothingLost
  BY DEF SInv
<1> QED BY SInvariant, <1>1, PTL

\* For any number of chunks and any window: a completed row and an answer ok
\* stand for the whole stream, and leave no goroutine behind.
THEOREM CompletedIsWhole == SSpec => []WholeStream
<1>1. ASSUME SInv PROVE WholeStream
  <2>1. CASE row = StatusCompleted
    <3>1. /\ pump = "exited" /\ halfClosed /\ inbox = <<>> /\ stored = copied
          /\ sent = copied + 0 + Chunks(inbox)
      BY <1>1, <2>1 DEF SInv, StageInv, PumpInv, NothingLost
    <3>2. sent = copied
      BY <1>1, <3>1, ChunksEmpty DEF SInv, STypeOK
    <3> QED BY <1>1, <3>1, <3>2 DEF SInv, StageInv, WholeStream
  <2>2. CASE row # StatusCompleted
    BY <1>1, <2>2 DEF SInv, StageInv, WholeStream
  <2> QED BY <2>1, <2>2
<1> QED BY SInvariant, <1>1, PTL
-----------------------------------------------------------------------------
(* A stream keeps the contract of Transfer.                                *)

\* The first message is Accept, the rows are Register and Finish, the end of
\* Save is StoreFor, an answer is Answer; the rest is invisible.
LEMMA StreamStep == ASSUME SInv, [SNext]_svars PROVE [T!TNext]_(T!tvars)
<1> USE DEF SInv, STypeOK, clientVars, dataVars, pumpVars, Return, None, StatusPending,
            StatusCompleted, StatusFailed, TransferStatus, ToMetadataStatus, T!tvars,
            T!None, T!StatusPending, T!StatusCompleted, T!StatusFailed
<1>1. CASE Client \/ Over \/ UNCHANGED svars
  BY <1>1 DEF Client, Send, CloseSend, Leave, Over, svars
<1>2. CASE Pump
  BY <1>2 DEF Pump, PumpChunk, PumpSkip, PumpEOF, PumpErr
<1>3. CASE RecvFirst
  BY <1>3 DEF RecvFirst, PumpInv, StageInv, T!TNext, T!Accept
<1>4. CASE RecvFirstErr
  BY <1>4 DEF RecvFirstErr, PumpInv
<1>5. CASE CreateRow
  BY <1>5 DEF CreateRow, PumpInv, StageInv, T!TNext, T!Register, T!Unsettled
<1>6. CASE CopyChunk \/ NotifyPipeline
  BY <1>6 DEF CopyChunk, NotifyPipeline
<1>7. CASE CopyEOF \/ CopyErr \/ StorageErr
  BY <1>7, StreamAssumption DEF CopyEOF, CopyErr, StorageErr, SaveFails, StageInv,
                                T!TNext, T!StoreFor
<1>8. CASE Rollback
  BY <1>8 DEF Rollback, PumpInv, StageInv, T!TNext, T!Finish, T!Unsettled
<1>9. CASE Complete
  <2>1. /\ pump # "none" /\ reply = None /\ row = StatusPending /\ stored # NotStored
        /\ row' \in {row, StatusCompleted} /\ UNCHANGED <<pump, reply, stored>>
    BY <1>9, StreamAssumption DEF Complete, PumpInv, StageInv
  <2>2. CASE row' = row
    BY <2>1, <2>2
  <2>3. CASE row' = StatusCompleted
    <3>1. T!Finish("file")
      BY <2>1, <2>3 DEF T!Finish, T!Unsettled
    <3> QED BY <3>1 DEF T!TNext
  <2> QED BY <2>1, <2>2, <2>3
<1>10. CASE UploadFailed \/ Respond
  BY <1>10 DEF UploadFailed, Respond, PumpInv, StageInv, T!TNext, T!Answer
<1> QED BY <1>1, <1>2, <1>3, <1>4, <1>5, <1>6, <1>7, <1>8, <1>9, <1>10 DEF SNext, Handler

\* The gRPC handler, with its pump and its pipe, implements Transfer.
THEOREM StreamRefinesTransfer == SSpec => StreamImplementsTransfer
<1>1. SInit => T!TInit
  BY DEF SInit, T!TInit, None, T!None
<1>2. SInv /\ [SNext]_svars => [T!TNext]_(T!tvars)
  BY StreamStep
<1> QED BY <1>1, <1>2, SInvariant, PTL DEF SSpec, StreamImplementsTransfer, T!TSpec
=============================================================================
