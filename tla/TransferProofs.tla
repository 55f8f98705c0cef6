--------------------------- MODULE TransferProofs ---------------------------
(***************************************************************************)
(* What Transfer amounts to, for any files and calls: the contract that    *)
(* Upload, HttpHandler and GrpcUpload are shown to implement is worth      *)
(* implementing.                                                           *)
(***************************************************************************)
EXTENDS Transfer, TLAPS

Answers == {"idle", "running", "ok", "failed", "lost"}

\* Completed files are stored, and the files of a call answered ok completed.
TInv == /\ status \in [Files -> TransferStatus \cup {None}]
        /\ answer \in [Calls -> Answers]
        /\ \A f \in Files :
              /\ status[f] = StatusCompleted => NameOf[f] \in stored
              /\ answer[CallOf[f]] = "ok" => status[f] = StatusCompleted

\* TInv is an invariant.
LEMMA TInvariant == ASSUME CallOf \in [Files -> Calls] PROVE TSpec => []TInv
<1> USE DEF TransferStatus, StatusPending, StatusCompleted, StatusFailed, None, Answers
<1>1. TInit => TInv
  BY DEF TInit, TInv
<1>2. ASSUME TInv, [TNext]_tvars PROVE TInv'
  <2> USE <1>2 DEF TInv
  <2>1. ASSUME NEW c \in Calls, Accept(c) \/ Answer(c) PROVE TInv'
    BY <2>1 DEF Accept, Answer
  <2>2. ASSUME NEW f \in Files, Register(f) PROVE TInv'
    BY <2>2 DEF Register, Unsettled
  <2>3. ASSUME NEW f \in Files, StoreFor(f) PROVE TInv'
    BY <2>3 DEF StoreFor
  <2>4. ASSUME NEW f \in Files, Finish(f) PROVE TInv'
    BY <2>4 DEF Finish, Unsettled
  <2>5. CASE Lose \/ UNCHANGED tvars
    BY <2>5 DEF Lose, tvars
  <2> QED BY <2>1, <2>2, <2>3, <2>4, <2>5 DEF TNext
<1> QED BY <1>1, <1>2, PTL DEF TSpec

\* An answer ok stands for completed and stored files, whatever other calls do.
THEOREM OkIsKept == ASSUME CallOf \in [Files -> Calls] PROVE TSpec => []OkMeansStored
<1>1. TInv => OkMeansStored
  BY DEF TInv, OkMeansStored
<1> QED BY TInvariant, <1>1, PTL

\* Nothing settled is undone.
THEOREM SettledIsFinal == ASSUME CallOf \in [Files -> Calls] PROVE TSpec => SettledStays
<1> DEFINE Stays == /\ \A f \in Files : status[f] \in {StatusCompleted, StatusFailed}
                                         => status'[f] = status[f]
                    /\ stored \subseteq stored'
                    /\ \A c \in Calls : answer[c] \notin {"idle", "running"}
                                         => answer'[c] = answer[c]
<1>1. ASSUME TInv, [TNext]_tvars PROVE [Stays]_tvars
  <2> SUFFICES ASSUME TNext PROVE Stays
    BY <1>1
  <2> USE <1>1 DEF TInv, StatusPending, StatusCompleted, StatusFailed, None
  <2>1. ASSUME NEW c \in Calls, Accept(c) \/ Answer(c) PROVE Stays
    BY <2>1 DEF Accept, Answer
  <2>2. ASSUME NEW f \in Files, Register(f) \/ StoreFor(f) \/ Finish(f) PROVE Stays
    BY <2>2 DEF Register, StoreFor, Finish
  <2>3. CASE Lose
    BY <2>3 DEF Lose
  <2> QED BY <2>1, <2>2, <2>3 DEF TNext
<1> QED BY <1>1, TInvariant, PTL DEF TSpec, SettledStays
=============================================================================
