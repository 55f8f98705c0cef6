---------------------------- MODULE HttpHandler -----------------------------
(***************************************************************************)
(* The HTTP handlers, composed with the upload they start: POST /upload    *)
(* and GET /files, which reads the rows that uploads are writing.          *)
(*                                                                         *)
(* http[c]    POST /upload of call c: "upload" while UploadFile waits for  *)
(*            UploadMultipleParallel with the form file open, then the     *)
(*            status it answered                                           *)
(* order      the uploads by created_at, newest first: CURRENT_TIMESTAMP,  *)
(*            the time at which Postgres begins the INSERT, which is not   *)
(*            the order in which rows become visible                       *)
(*                                                                         *)
(* get[l]     GET /files: "query" before and "rows" after the statement    *)
(*            has its snapshot, then the status                            *)
(* query[l]   the FileSearchQuery of l                                    *)
(* known[l]   uploads answered 201 before l arrived                        *)
(* snap[l]    the rows as the statement sees them                          *)
(* page[l]    the files of the result, in order                            *)
(* broken[l]  the connection was lost while rows were read                 *)
(***************************************************************************)
EXTENDS Upload, Integers, Sequences, FiniteSets

CONSTANTS Lists, Limits, Filters, UploadTags,
          MaxLimit, MinLimit, DefaultLimit    \* 100, 10 and 20 in the code

\* The tags ToMetadata gives a record when it is passed none.
RowTags == {"auto-generated"}

ASSUME HttpAssumption ==
    /\ \A c \in Calls : \E f \in Files : FilesOf(c) = {f}
    /\ Limits \subseteq Int
    /\ Filters \subseteq SUBSET (RowTags \cup UploadTags)
    /\ MaxLimit \in Nat /\ {MinLimit, DefaultLimit} \subseteq 1 .. MaxLimit

VARIABLES http, order, get, query, known, snap, page, broken

listVars == <<get, query, known, snap, page, broken>>
hvars    == <<vars, http, order, listVars>>

Queries == [tags : Filters \cup {{}}, limit : Int, offset : Nat]

HTypeOK ==
    /\ TypeOK
    /\ http \in [Calls -> {"idle", "upload", "201", "400", "500", "lost"}]
    /\ order \in Seq(Files)
    /\ get \in [Lists -> {"idle", "query", "rows", "200", "400", "500", "lost"}]
    /\ query \in [Lists -> Queries]
    /\ page \in [Lists -> Seq(Files)]
    /\ snap \in [Lists -> [Files -> TransferStatus \cup {None}]]
    /\ known \in [Lists -> SUBSET Files]
    /\ broken \in [Lists -> BOOLEAN]

HInit == /\ Init
         /\ http = [c \in Calls |-> "idle"]
         /\ order = <<>>
         /\ get = [l \in Lists |-> "idle"]
         /\ query = [l \in Lists |-> [tags |-> {}, limit |-> 0, offset |-> 0]]
         /\ known = [l \in Lists |-> {}]
         /\ snap = [l \in Lists |-> [f \in Files |-> None]]
         /\ page = [l \in Lists |-> <<>>]
         /\ broken = [l \in Lists |-> FALSE]
-----------------------------------------------------------------------------
(* POST /upload                                                            *)

\* No form file or an empty name (400), or the file cannot be opened (500).
UploadRejected(c) ==
    /\ http[c] = "idle"
    /\ http' \in {[http EXCEPT ![c] = "400"], [http EXCEPT ![c] = "500"]}
    /\ UNCHANGED <<vars, order, listVars>>

\* The form file is open: UploadMultipleParallel with one file.  The tags of
\* the form go to the log and no further.
UploadFile(c) ==
    /\ http[c] = "idle"
    /\ Start(c)
    /\ http' = [http EXCEPT ![c] = "upload"]
    /\ UNCHANGED <<order, listVars>>

\* Mutant: the upload is left to the background.
UploadAnswers_Early(c) ==
    /\ http[c] = "upload"
    /\ http' = [http EXCEPT ![c] = "201"]
    /\ UNCHANGED <<vars, order, listVars>>

\* Mutant: a failing upload is tried again, with the same file.
UploadAnswers_Retries(c) ==
    /\ http[c] = "upload"
    /\ call[c] \in {"ok", "failed"}
    /\ IF call[c] = "ok"
         THEN http' = [http EXCEPT ![c] = "201"] /\ UNCHANGED <<pc, call>>
         ELSE /\ call' = [call EXCEPT ![c] = "running"]
              /\ pc' = [f \in Files |-> IF CallOf[f] = c THEN "create" ELSE pc[f]]
              /\ UNCHANGED http
    /\ UNCHANGED <<ctxDone, event, metaVars, storageVars, order, listVars>>

\* UploadMultipleParallel has returned: answer, and close the form file.
UploadAnswers(c) ==
    /\ http[c] = "upload"
    /\ call[c] \in {"ok", "failed"}
    /\ http' = [http EXCEPT ![c] = IF call[c] = "ok" THEN "201" ELSE "500"]
    /\ UNCHANGED <<vars, order, listVars>>
-----------------------------------------------------------------------------
(* GET /files                                                              *)

\* Mutant: the limit of the client is taken as it is.
Clamp_None(limit) == limit

\* FetchMetadataList's validation.
Clamp(limit) == CASE limit > MaxLimit -> MaxLimit
                  [] limit <= 0       -> MinLimit
                  [] OTHER            -> limit

\* The generated wrapper cannot parse a parameter.
ListRejected(l) ==
    /\ get[l] = "idle"
    /\ get' = [get EXCEPT ![l] = "400"]
    /\ UNCHANGED <<vars, http, order, query, known, snap, page, broken>>

\* Mutant: the offset of the client is taken as it is.
ListFiles_Offset(l) ==
    /\ get[l] = "idle"
    /\ get' = [get EXCEPT ![l] = "query"]
    /\ \E tags \in Filters, limit \in Limits \cup {DefaultLimit}, offset \in Limits :
          query' = [query EXCEPT ![l] =
                      [tags |-> tags, limit |-> Clamp(limit), offset |-> offset]]
    /\ known' = [known EXCEPT ![l] = {f \in Files : http[CallOf[f]] = "201"}]
    /\ UNCHANGED <<vars, http, order, snap, page, broken>>

\* ListFiles: the default limit if there is none, and offset 0 whatever the
\* parameter says; FetchMetadataList validates and calls FindAll.
ListFiles(l) ==
    /\ get[l] = "idle"
    /\ get' = [get EXCEPT ![l] = "query"]
    /\ \E tags \in Filters, limit \in Limits \cup {DefaultLimit} :
          query' = [query EXCEPT ![l] =
                      [tags |-> tags, limit |-> Clamp(limit), offset |-> 0]]
    /\ known' = [known EXCEPT ![l] = {f \in Files : http[CallOf[f]] = "201"}]
    /\ UNCHANGED <<vars, http, order, snap, page, broken>>

\* f was created after g.
Newer(f, g) == \E i, j \in 1 .. Len(order) : i < j /\ order[i] = f /\ order[j] = g

\* WHERE: the rows with all the tags.
Matching(tags) == {f \in Files : row[f] # None /\ tags \subseteq RowTags}

\* Mutant: ORDER BY created_at.
Rank_Ascending(M, f) == Cardinality({g \in M : Newer(f, g)})

\* ORDER BY created_at DESC: how many of the rows M come before f.
Rank(M, f) == Cardinality({g \in M : Newer(g, f)})

\* LIMIT and OFFSET.
Window(M, limit, off) ==
    LET left == Cardinality(M) - off
    IN  [i \in 1 .. IF left < limit THEN left ELSE limit |->
           CHOOSE f \in M : Rank(M, f) = off + i - 1]

\* The map of the in-memory repository is iterated in any order.
Enumerations(M) == {p \in [1 .. Cardinality(M) -> M] : \A f \in M : \E i \in DOMAIN p : p[i] = f}

\* What FindAll may select: the in-memory one returns every record.
Result(q) == IF DBType = "SQL" THEN {Window(Matching(q.tags), q.limit, q.offset)}
                               ELSE Enumerations(Matching({}))

\* The statement runs on a snapshot.  In memory: the iteration over the map
\* begins, without the lock.
FindAll(l) ==
    /\ get[l] = "query"
    /\ get' = [get EXCEPT ![l] = "rows"]
    /\ snap' = [snap EXCEPT ![l] = row]
    /\ \E p \in Result(query[l]) : page' = [page EXCEPT ![l] = p]
    /\ UNCHANGED <<vars, http, order, query, known, broken>>

\* Pool.Query or rows.Scan returns an error.
ListFails(l) ==
    /\ get[l] \in {"query", "rows"}
    /\ DBType = "SQL"
    /\ get' = [get EXCEPT ![l] = "500"]
    /\ UNCHANGED <<vars, http, order, query, known, snap, page, broken>>

ListAnswers(l) ==
    /\ get[l] = "rows"
    /\ get' = [get EXCEPT ![l] = "200"]
    /\ UNCHANGED <<vars, http, order, query, known, snap, page, broken>>

\* rows.Next returns false because the connection is lost.  FindAll does not
\* look at rows.Err() and returns what it has.
RowsBreak(l) ==
    /\ get[l] = "rows"
    /\ DBType = "SQL"
    /\ get' = [get EXCEPT ![l] = "200"]
    /\ broken' = [broken EXCEPT ![l] = TRUE]
    /\ \E k \in 0 .. Len(page[l]) :
          page' = [page EXCEPT ![l] = SubSeq(page[l], 1, k)]
    /\ UNCHANGED <<vars, http, order, query, known, snap>>
-----------------------------------------------------------------------------
Stamped == {order[i] : i \in 1 .. Len(order)}

\* Postgres begins the INSERT of f some time before it commits.  The caller
\* waits for it, or has given up.
StampRow(f) ==
    /\ DBType = "SQL"
    /\ pc[f] = "create" \/ inflight[f] = StatusPending
    /\ f \notin Stamped
    /\ order' = <<f>> \o order
    /\ UNCHANGED <<vars, http, listVars>>

\* The steps of the use case, under the handler that waits for it.  A row
\* that appears and has no created_at was stamped just now.
Interactor ==
    /\ \/ \E c \in Calls : CancelRequest(c) \/ WaitReturn(c)
       \/ \E f \in Files : Step(f) \/ SettleRow(f) \/ FinalizeObject(f)
    /\ LET new == {f \in Files : row'[f] # None} \ Stamped
       IN  order' = IF new = {} THEN order ELSE <<CHOOSE f \in new : TRUE>> \o order
    /\ UNCHANGED <<http, listVars>>

\* The process dies, with every request it was serving.
HCrash ==
    /\ Crash
    /\ http' = [c \in Calls |-> IF http[c] = "upload" THEN "lost" ELSE http[c]]
    /\ get' = [l \in Lists |-> IF get[l] \in {"query", "rows"} THEN "lost" ELSE get[l]]
    /\ UNCHANGED <<order, query, known, snap, page, broken>>

HQuiet == /\ \A c \in Calls : http[c] \notin {"idle", "upload"}
          /\ \A l \in Lists : get[l] \notin {"idle", "query", "rows"}
          /\ \A f \in Files : inflight[f] = None
          /\ finalizing = {}
          /\ UNCHANGED hvars

ListStep(l) == FindAll(l) \/ ListFails(l) \/ ListAnswers(l) \/ RowsBreak(l)

HNext == \/ \E c \in Calls : UploadRejected(c) \/ UploadFile(c) \/ UploadAnswers(c)
         \/ \E l \in Lists : ListRejected(l) \/ ListFiles(l) \/ ListStep(l)
         \/ \E f \in Files : StampRow(f)
         \/ Interactor
         \/ HCrash
         \/ HQuiet

HSpec == HInit /\ [][HNext]_hvars

-----------------------------------------------------------------------------
\* The handlers only add to what the use case does: every theorem about
\* Upload holds for uploads over HTTP.
HttpImplementsUpload == Spec

\* A file that GET /files saw as completed is stored, then and ever after,
\* although the page is older than what it is compared with (FindAll reads
\* while uploads of the same name, failing ones too, go on).
ListedStored ==
    \A l \in Lists, f \in Files :
        snap[l][f] = StatusCompleted => Stored(NameOf[f])

\* While a goroutine reads the form file, UploadFile has not closed it.
ContentOpen ==
    \A f \in Files : pc[f] \in {"open", "copy"} => http[CallOf[f]] = "upload"

Listed(l) == {page[l][i] : i \in 1 .. Len(page[l])}

\* GET /files after a 201: the file is on the page, as completed, unless the
\* page is full of newer files.  Two exceptions: the connection broke, or the
\* query filters by tags of the client, which no row has (UploadFile drops
\* them, and every row has the default ones).
ReadYourUploads ==
    \A l \in Lists :
        get[l] = "200" /\ ~broken[l] /\ query[l].tags \subseteq RowTags =>
            \A f \in known[l] :
                \/ f \in Listed(l) /\ snap[l][f] = StatusCompleted
                \/ /\ Len(page[l]) = query[l].limit
                   /\ \A g \in Listed(l) : Newer(g, f)

\* Whatever limit the client sends, FindAll is asked for at least one row and
\* at most MaxLimit; a page has no more than that, and no row twice.
PageBounded ==
    \A l \in Lists : get[l] = "200" =>
        /\ query[l].limit \in 1 .. MaxLimit
        /\ Len(page[l]) <= query[l].limit
        /\ \A i, j \in 1 .. Len(page[l]) : page[l][i] = page[l][j] => i = j

=============================================================================
