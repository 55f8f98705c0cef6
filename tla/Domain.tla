------------------------------- MODULE Domain -------------------------------
(***************************************************************************)
(* The domain package: the files of the uploads, the object names they     *)
(* are stored under, and the transfer states of a metadata record.         *)
(*                                                                         *)
(* A member of Files is ONE upload of one file, i.e. one goroutine of      *)
(* UploadMultipleParallel.  Two uploads may carry the same name (a client  *)
(* that retries, or two clients): NameOf need not be injective.            *)
(***************************************************************************)
CONSTANTS Files, Names, NameOf

ASSUME NameAssumption == NameOf \in [Files -> Names]

\* The value of a field that has not been written yet (no row, no event,
\* no statement in doubt).
None == "none"

\* TransferStatus, as in the schema's ENUM.  No code writes StatusProcessing.
StatusPending    == "pending"
StatusProcessing == "processing"
StatusCompleted  == "completed"
StatusFailed     == "failed"
TransferStatus   == {StatusPending, StatusProcessing, StatusCompleted, StatusFailed}

\* Mutant: the field is forgotten and has Go's zero value.
ToMetadataStatus_Unset == ""

\* The status ToMetadata gives a new record.
ToMetadataStatus == StatusPending

\* The files stored under a name.
FilesNamed(n) == {f \in Files : NameOf[f] = n}
=============================================================================
