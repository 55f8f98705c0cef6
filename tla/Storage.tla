------------------------------- MODULE Storage ------------------------------
(***************************************************************************)
(* FileRepository: a GCS bucket (infra/gcs) or a local directory           *)
(* (infra/local).                                                          *)
(*                                                                         *)
(* object[n]    what is stored under name n: nothing (Absent), the whole   *)
(*              content of one upload, or Torn (a truncated, partial or    *)
(*              mixed file).                                               *)
(* finalizing   uploads whose GCS writer failed in Close, or whose process *)
(*              died in it: the object may still appear.                   *)
(*                                                                         *)
(* Save is two steps of the caller, opening and copying, because other     *)
(* uploads run between them.  A GCS object appears at once when the writer *)
(* is closed and Save gives up when its context has ended.  The local Save *)
(* never looks at its context, and truncates the file when it opens it.    *)
(***************************************************************************)
EXTENDS Domain

CONSTANTS StorageType, Absent, Torn

ASSUME StorageAssumption == /\ StorageType \in {"GCS", "LOCAL"}
                            /\ Absent \notin Files
                            /\ Torn \notin Files
                            /\ Absent # Torn

VARIABLES object, finalizing

storageVars == <<object, finalizing>>

StorageTypeOK == /\ object \in [Names -> Files \cup {Absent, Torn}]
                 /\ finalizing \subseteq Files

StorageInit == /\ object = [n \in Names |-> Absent]
               /\ finalizing = {}

\* What a completed upload of name n rests on: something is stored and, in a
\* bucket, it is the whole content of an upload.
Stored(n) == /\ object[n] # Absent
             /\ StorageType = "GCS" => object[n] # Torn

Put(n, c) == object' = [object EXCEPT ![n] = c]

\* os.Create truncates; NewWriter changes nothing in the bucket.
Open(f) ==
    /\ IF StorageType = "LOCAL" THEN Put(NameOf[f], Torn) ELSE UNCHANGED object
    /\ UNCHANGED finalizing

\* os.Create fails.  NewWriter cannot.
OpenFails(f) ==
    /\ StorageType = "LOCAL"
    /\ UNCHANGED storageVars

\* io.Copy writes some of f's bytes into a file that another upload of the
\* same name has completed since f opened it.
WriteOver(f) ==
    /\ StorageType = "LOCAL"
    /\ object[NameOf[f]] # Torn
    /\ Put(NameOf[f], Torn)
    /\ UNCHANGED finalizing

\* io.Copy reaches the end of the content and Save returns nil.  GCS: the
\* writer was closed without an error.  LOCAL: the error of the deferred
\* f.Close() is assigned to a variable that is not the result any more, so
\* nil is returned for a file that is not whole as well; and an upload that
\* wrote its bytes before another one truncated the file leaves what is there.
SaveReturns(f, done) ==
    /\ IF StorageType = "GCS"
         THEN /\ ~done
              /\ Put(NameOf[f], f)
         ELSE \E c \in {f, Torn, object[NameOf[f]]} : Put(NameOf[f], c)
    /\ UNCHANGED finalizing

\* io.Copy fails (the content's reader, the context, the disk), or the GCS
\* writer's Close does.  GCS: the bucket is unchanged, the object of a failed
\* Close may still appear.  LOCAL: the partial file stays.
SaveFails(f) ==
    IF StorageType = "GCS"
      THEN /\ finalizing' \in {finalizing, finalizing \cup {f}}
           /\ UNCHANGED object
      ELSE /\ \E c \in {Torn, object[NameOf[f]]} : Put(NameOf[f], c)
           /\ UNCHANGED finalizing

\* The bucket decides about an upload nobody waits for any more.
Finalize(f) ==
    /\ f \in finalizing
    /\ object' \in {object, [object EXCEPT ![NameOf[f]] = f]}
    /\ finalizing' = finalizing \ {f}

\* The process dies while the uploads in copying have an open writer.  Files
\* on disk stay as they are.
StorageCrash(copying) ==
    /\ \E S \in SUBSET copying :
          finalizing' = IF StorageType = "GCS" THEN finalizing \cup S
                                               ELSE finalizing
    /\ UNCHANGED object
=============================================================================
