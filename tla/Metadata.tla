------------------------------ MODULE Metadata ------------------------------
(***************************************************************************)
(* MetadataRepository: the file_metadata table (infra/sql) or the map that *)
(* stands for it in development (infra/inmemory).                          *)
(*                                                                         *)
(* row[f]       status of the row created for upload f, None if there is   *)
(*              none.  Rows are addressed by the id that Create returned,  *)
(*              so no two uploads ever touch the same row.                 *)
(* inflight[f]  the status that a statement issued for f, whose caller got *)
(*              an error or died, may still write.  A connection dropped   *)
(*              because the context ended does not tell whether Postgres   *)
(*              committed.                                                 *)
(*                                                                         *)
(* The argument done of an operation says that the caller's context has    *)
(* ended: pgx then answers an error; the in-memory map ignores contexts.   *)
(***************************************************************************)
EXTENDS Domain

CONSTANT DBType

ASSUME DBAssumption == DBType \in {"SQL", "INMEMORY"}

VARIABLES row, inflight

metaVars == <<row, inflight>>

MetadataTypeOK == /\ row \in [Files -> TransferStatus \cup {None}]
                  /\ inflight \in [Files -> TransferStatus \cup {None}]

MetadataInit == /\ row = [f \in Files |-> None]
                /\ inflight = [f \in Files |-> None]

\* INSERT ... RETURNING id succeeds.
Create(f, done) ==
    /\ DBType = "SQL" => ~done
    /\ row' = [row EXCEPT ![f] = ToMetadataStatus]
    /\ UNCHANGED inflight

\* UPDATE ... SET status succeeds.  The in-memory UpdateStatus returns nil
\* and changes nothing.
UpdateStatus(f, status, done) ==
    /\ DBType = "SQL" => ~done
    /\ row' = IF DBType = "SQL" THEN [row EXCEPT ![f] = status] ELSE row
    /\ UNCHANGED inflight

\* A statement that would give f's row this status returns an error.  It was
\* never executed, or its fate is open.  The in-memory repository returns no
\* errors.
StatementFails(f, status) ==
    /\ DBType = "SQL"
    /\ inflight' \in {inflight, [inflight EXCEPT ![f] = status]}
    /\ UNCHANGED row

\* Postgres decides about a statement nobody waits for any more.
Settle(f) ==
    /\ inflight[f] # None
    /\ row' \in {row, [row EXCEPT ![f] = inflight[f]]}
    /\ inflight' = [inflight EXCEPT ![f] = None]

\* The process dies while it waits for the statements issued[f] (None where
\* it waits for nothing): each of them is lost or left to Settle.  The
\* in-memory map dies with the process.
MetadataCrash(issued) ==
    /\ \E S \in SUBSET {f \in Files : issued[f] # None} :
          inflight' = [f \in Files |->
                         IF f \in S /\ DBType = "SQL" THEN issued[f]
                                                      ELSE inflight[f]]
    /\ row' = IF DBType = "SQL" THEN row ELSE [f \in Files |-> None]
=============================================================================
