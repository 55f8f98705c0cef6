------------------------------ MODULE Transfer ------------------------------
(***************************************************************************)
(* What an upload promises to its client and to a reader of the catalogue, *)
(* without contexts, goroutines, statements in doubt or storage backends:  *)
(*                                                                         *)
(*  - a file is catalogued as pending before anything is stored for it;    *)
(*  - it becomes completed only when its name is stored, and completed and *)
(*    failed are final;                                                    *)
(*  - a name that has been stored stays stored;                            *)
(*  - a call is answered once, and answered ok only when every one of its  *)
(*    files is completed: nothing about them changes afterwards.           *)
(*                                                                         *)
(* Files of a call that failed, or whose process died, may still change    *)
(* after the answer.                                                       *)
(***************************************************************************)
EXTENDS Domain

CONSTANTS Calls, CallOf

VARIABLES status, stored, answer

tvars == <<status, stored, answer>>

TInit == /\ status = [f \in Files |-> None]
         /\ stored = {}
         /\ answer = [c \in Calls |-> "idle"]

Unsettled(f) == answer[CallOf[f]] \in {"running", "failed", "lost"}

Accept(c) == /\ answer[c] = "idle"
             /\ answer' = [answer EXCEPT ![c] = "running"]
             /\ UNCHANGED <<status, stored>>

Register(f) == /\ Unsettled(f)
               /\ status[f] = None
               /\ status' = [status EXCEPT ![f] = StatusPending]
               /\ UNCHANGED <<stored, answer>>

StoreFor(f) == /\ status[f] # None
               /\ stored' = stored \cup {NameOf[f]}
               /\ UNCHANGED <<status, answer>>

Finish(f) == /\ Unsettled(f)
             /\ status[f] = StatusPending
             /\ \/ /\ NameOf[f] \in stored
                   /\ status' = [status EXCEPT ![f] = StatusCompleted]
                \/ status' = [status EXCEPT ![f] = StatusFailed]
             /\ UNCHANGED <<stored, answer>>

Answer(c) == /\ answer[c] = "running"
             /\ \/ /\ \A f \in Files : CallOf[f] = c => status[f] = StatusCompleted
                   /\ answer' = [answer EXCEPT ![c] = "ok"]
                \/ answer' = [answer EXCEPT ![c] = "failed"]
             /\ UNCHANGED <<status, stored>>

Lose == /\ answer' = [c \in Calls |->
                        IF answer[c] = "running" THEN "lost" ELSE answer[c]]
        /\ UNCHANGED <<status, stored>>

TNext == \/ \E c \in Calls : Accept(c) \/ Answer(c)
         \/ \E f \in Files : Register(f) \/ StoreFor(f) \/ Finish(f)
         \/ Lose

TSpec == TInit /\ [][TNext]_tvars
-----------------------------------------------------------------------------
\* What the actions promise together: an answer ok stands for files that are
\* completed and stored.
OkMeansStored ==
    \A f \in Files : answer[CallOf[f]] = "ok" =>
        status[f] = StatusCompleted /\ NameOf[f] \in stored

\* What is settled stays: completed and failed, names stored, answers.
SettledStays ==
    [][/\ \A f \in Files : status[f] \in {StatusCompleted, StatusFailed}
                             => status'[f] = status[f]
       /\ stored \subseteq stored'
       /\ \A c \in Calls : answer[c] \notin {"idle", "running"}
                             => answer'[c] = answer[c]]_tvars
=============================================================================
