---------------------------- MODULE PubSubWorker ----------------------------
(***************************************************************************)
(* The Pub/Sub worker (main_pubsub, PubSubServerManager, PubSubHandler)    *)
(* and the subscription it pulls from.  Everything runs on one asyncio     *)
(* event loop: a step is what happens between two awaits.                  *)
(*                                                                         *)
(* worker     start() checking for the subscription, main() running,       *)
(*            stop() stopping, asyncio.run() in teardown, process stopped  *)
(* attempt    of the check; aborted: start() raised                        *)
(* exists     the subscription has been created                            *)
(* transport  the channel of self.subscriber is open.  The client is       *)
(*            shared by everything; leaving "async with self.subscriber"   *)
(*            closes the channel, and then every call on it fails          *)
(* stopEvent  self._stop_event                                             *)
(* loop[l]    the tasks running _subscribe_loop: start() creates one       *)
(*            before the check and a second one after it                   *)
(* broker[m]  message m in the subscription                                *)
(* task[m][k] the _safe_process task of the k-th delivery of m             *)
(* malformed  messages without JSON, file_name or tenant_id: the topic is  *)
(*            open to other publishers than the API                        *)
(* tried, succeeded   messages run_pipeline has been run on, with success  *)
(***************************************************************************)
EXTENDS Naturals

CONSTANTS Msgs,
          MaxDeliveries,   \* bound on the deliveries of one message
          MaxRetries       \* attempts of the check (10 in the code)

ASSUME WorkerAssumption == /\ MaxDeliveries \in Nat \ {0}
                           /\ MaxRetries \in Nat \ {0}

VARIABLES worker, attempt, aborted, exists, transport, stopEvent, loop,
          broker, task, malformed, tried, succeeded

procVars == <<worker, attempt, aborted, stopEvent>>
doneVars == <<malformed, tried, succeeded>>
wvars == <<procVars, exists, transport, loop, broker, task, doneVars>>

Loops      == {1, 2}
Deliveries == 1..MaxDeliveries

WTypeOK ==
    /\ worker \in {"checking", "running", "stopping", "teardown", "stopped"}
    /\ attempt \in 1..MaxRetries
    /\ aborted \in BOOLEAN /\ exists \in BOOLEAN
    /\ transport \in BOOLEAN /\ stopEvent \in BOOLEAN
    /\ loop \in [Loops -> {"none", "scheduled", "open", "closing", "ended"}]
    /\ broker \in [Msgs -> {"unsent", "available", "out", "acked"}]
    /\ task \in [Msgs -> [Deliveries -> {"none", "new", "ack", "nack", "final", "end"}]]
    /\ malformed \subseteq Msgs
    /\ tried \subseteq Msgs
    /\ succeeded \subseteq tried

\* start() has cleared the event and scheduled the first loop.
WInit == /\ worker = "checking" /\ attempt = 1
         /\ aborted = FALSE     /\ exists \in BOOLEAN
         /\ transport = TRUE    /\ stopEvent = FALSE
         /\ loop = [l \in Loops |-> IF l = 1 THEN "scheduled" ELSE "none"]
         /\ broker = [m \in Msgs |-> "unsent"]
         /\ task = [m \in Msgs |-> [k \in Deliveries |-> "none"]]
         /\ malformed \in SUBSET Msgs
         /\ tried = {} /\ succeeded = {}
-----------------------------------------------------------------------------
(* Pub/Sub.                                                                *)

CreateSubscription ==
    /\ ~exists
    /\ exists' = TRUE
    /\ UNCHANGED <<procVars, transport, loop, broker, task, doneVars>>

Publish(m) ==
    /\ exists /\ broker[m] = "unsent"
    /\ broker' = [broker EXCEPT ![m] = "available"]
    /\ UNCHANGED <<procVars, exists, transport, loop, task, doneVars>>

\* The acknowledgement deadline of 60 seconds passes: nothing extends it.
LeaseExpires(m) ==
    /\ broker[m] = "out"
    /\ broker' = [broker EXCEPT ![m] = "available"]
    /\ UNCHANGED <<procVars, exists, transport, loop, task, doneVars>>

\* What an acknowledge or a modify_ack_deadline(0) for m leaves behind,
\* whatever the caller is told.  A stale ack_id may be ignored.
AckEffect(m) == IF transport THEN {broker, [broker EXCEPT ![m] = "acked"]}
                             ELSE {broker}
NackEffect(m) == IF transport /\ broker[m] = "out"
                   THEN {broker, [broker EXCEPT ![m] = "available"]}
                   ELSE {broker}
-----------------------------------------------------------------------------
(* start(): get_subscription until it is found.                            *)

\* A task that is cancelled: a loop leaves its "async with"; a message task
\* runs its "finally"; what has not begun never begins.
CancelLoop(s) == CASE s = "scheduled" -> "ended"
                   [] s = "open"      -> "closing"
                   [] OTHER           -> s
\* Mutant: cancelling a message task acknowledges it even if it has not begun.
CancelTask_Acks(s) == CASE s \in {"new", "ack", "nack"} -> "final"
                        [] s = "final"                  -> "end"
                        [] OTHER                        -> s

CancelTask(s) == CASE s \in {"ack", "nack"}   -> "final"
                   [] s \in {"new", "final"}  -> "end"
                   [] OTHER                   -> s

\* main() returns or raises: asyncio.run cancels all tasks and waits for them.
Teardown == /\ worker' = "teardown"
            /\ loop' = [l \in Loops |-> CancelLoop(loop[l])]
            /\ task' = [m \in Msgs |-> [k \in Deliveries |-> CancelTask(task[m][k])]]

CheckFound ==
    /\ worker = "checking" /\ transport /\ exists
    /\ worker' = "running"
    /\ loop' = [loop EXCEPT ![2] = "scheduled"]
    /\ UNCHANGED <<attempt, aborted, stopEvent, exists, transport, broker, task, doneVars>>

\* Mutant: the number of attempts is not checked.
CheckNotFound_Forever ==
    /\ worker = "checking" /\ transport /\ ~exists
    /\ attempt <= MaxRetries
    /\ attempt' = attempt + 1
    /\ UNCHANGED <<worker, aborted, loop, task, stopEvent, exists, transport, broker, doneVars>>

\* NotFound: wait and try again, give up after the last attempt.
CheckNotFound ==
    /\ worker = "checking" /\ transport /\ ~exists
    /\ IF attempt = MaxRetries
         THEN aborted' = TRUE /\ Teardown /\ UNCHANGED attempt
         ELSE attempt' = attempt + 1 /\ UNCHANGED <<worker, aborted, loop, task>>
    /\ UNCHANGED <<stopEvent, exists, transport, broker, doneVars>>

\* Any other exception ends start() at once: the RPC fails, or the channel
\* has been closed by the first loop.
CheckRaises ==
    /\ worker = "checking"
    /\ aborted' = TRUE
    /\ Teardown
    /\ UNCHANGED <<attempt, stopEvent, exists, transport, broker, doneVars>>
-----------------------------------------------------------------------------
(* _subscribe_loop.                                                        *)

LoopOpen(l) ==
    /\ loop[l] = "scheduled"
    /\ loop' = [loop EXCEPT ![l] = IF exists /\ transport THEN "open" ELSE "closing"]
    /\ UNCHANGED <<procVars, exists, transport, broker, task, doneVars>>

\* The service ends the stream, or the channel was closed under it.
LoopBreaks(l) ==
    /\ loop[l] = "open"
    /\ loop' = [loop EXCEPT ![l] = "closing"]
    /\ UNCHANGED <<procVars, exists, transport, broker, task, doneVars>>

\* The end of "async with": the shared channel is closed.
LoopCloses(l) ==
    /\ loop[l] = "closing"
    /\ loop' = [loop EXCEPT ![l] = "ended"]
    /\ transport' = FALSE
    /\ UNCHANGED <<procVars, exists, broker, task, doneVars>>

\* Mutant: the loop does not look at the stop event.
Dispatch_AfterStop(l, m, k) ==
    /\ loop[l] = "open" /\ transport
    /\ broker[m] = "available"
    /\ task[m][k] = "none"
    /\ \A j \in 1..(k - 1) : task[m][j] # "none"
    /\ broker' = [broker EXCEPT ![m] = "out"]
    /\ task' = [task EXCEPT ![m][k] = "new"]
    /\ UNCHANGED <<procVars, exists, transport, loop, doneVars>>

\* A response arrives on the stream of l: a task is created for its message.
Dispatch(l, m, k) ==
    /\ loop[l] = "open" /\ transport /\ ~stopEvent
    /\ broker[m] = "available"
    /\ task[m][k] = "none"
    /\ \A j \in 1..(k - 1) : task[m][j] # "none"
    /\ broker' = [broker EXCEPT ![m] = "out"]
    /\ task' = [task EXCEPT ![m][k] = "new"]
    /\ UNCHANGED <<procVars, exists, transport, loop, doneVars>>

\* A response that arrives after the stop event ends the loop; its message
\* stays leased.
LoopSeesStop(l, m) ==
    /\ loop[l] = "open" /\ transport /\ stopEvent
    /\ broker[m] = "available"
    /\ broker' = [broker EXCEPT ![m] = "out"]
    /\ loop' = [loop EXCEPT ![l] = "closing"]
    /\ UNCHANGED <<procVars, exists, transport, task, doneVars>>
-----------------------------------------------------------------------------
(* _safe_process, process_message and handle_message_core.                 *)

\* Mutant: the message is answered before it is worked on.
HandleCore_AckFirst(m, k) ==
    /\ task[m][k] = "new"
    /\ task' = [task EXCEPT ![m][k] = "final"]
    /\ UNCHANGED <<procVars, exists, transport, loop, broker, doneVars>>

\* handle_message_core: no await in it gives up the event loop.  A message
\* that cannot be parsed or lacks a field is rejected, False without a run of
\* the pipeline; otherwise run_pipeline succeeds, or fails or raises.
HandleCore(m, k) ==
    /\ task[m][k] = "new"
    /\ \/ /\ m \in malformed
          /\ task' = [task EXCEPT ![m][k] = "nack"]
          /\ UNCHANGED <<tried, succeeded>>
       \/ /\ m \notin malformed
          /\ tried' = tried \cup {m}
          /\ \/ /\ task' = [task EXCEPT ![m][k] = "ack"]
                /\ succeeded' = succeeded \cup {m}
             \/ /\ task' = [task EXCEPT ![m][k] = "nack"]
                /\ UNCHANGED succeeded
    /\ UNCHANGED <<procVars, exists, transport, loop, broker, malformed>>

\* The handler's own answer.  Its errors are caught in _safe_process.
AnswerMessage(m, k) ==
    /\ task[m][k] \in {"ack", "nack"}
    /\ broker' \in IF task[m][k] = "ack" THEN AckEffect(m) ELSE NackEffect(m)
    /\ task' = [task EXCEPT ![m][k] = "final"]
    /\ UNCHANGED <<procVars, exists, transport, loop, doneVars>>

\* "finally": acknowledge, whatever the handler answered; errors are logged.
FinalAck(m, k) ==
    /\ task[m][k] = "final"
    /\ broker' \in AckEffect(m)
    /\ task' = [task EXCEPT ![m][k] = "end"]
    /\ UNCHANGED <<procVars, exists, transport, loop, doneVars>>
-----------------------------------------------------------------------------
(* stop() and the end of the process.                                      *)

\* A signal.  If the second loop has ended already, stop() only warns.
\* Otherwise it sets the event and cancels that loop, and only that one.
Stop ==
    /\ worker = "running"
    /\ IF loop[2] = "ended"
         THEN Teardown /\ UNCHANGED stopEvent
         ELSE /\ worker' = "stopping"
              /\ stopEvent' = TRUE
              /\ loop' = [loop EXCEPT ![2] = CancelLoop(@)]
              /\ UNCHANGED task
    /\ UNCHANGED <<attempt, aborted, exists, transport, broker, doneVars>>

\* Mutant: stop() waits for the other loop, which nobody has cancelled, and
\* without a time limit.
StopReturns_WaitsForAll ==
    /\ worker = "stopping"
    /\ \A l \in Loops : loop[l] = "ended"
    /\ Teardown
    /\ UNCHANGED <<attempt, aborted, stopEvent, exists, transport, broker, doneVars>>

\* The cancelled loop has ended, or the grace period of 5 seconds is over.
StopReturns ==
    /\ worker = "stopping"
    /\ Teardown
    /\ UNCHANGED <<attempt, aborted, stopEvent, exists, transport, broker, doneVars>>

Exit ==
    /\ worker = "teardown"
    /\ \A l \in Loops : loop[l] \in {"none", "ended"}
    /\ \A m \in Msgs, k \in Deliveries : task[m][k] \in {"none", "end"}
    /\ worker' = "stopped"
    /\ UNCHANGED <<attempt, aborted, stopEvent, exists, transport, loop, broker, task, doneVars>>

\* The process is gone; what it did not acknowledge waits in Pub/Sub.
Gone == worker = "stopped" /\ UNCHANGED wvars
-----------------------------------------------------------------------------
PubSub == \/ CreateSubscription
          \/ \E m \in Msgs : Publish(m) \/ LeaseExpires(m)

Check == CheckFound \/ CheckNotFound \/ CheckRaises

Pull(l, m) == LoopSeesStop(l, m) \/ \E k \in Deliveries : Dispatch(l, m, k)

Process(m, k) == HandleCore(m, k) \/ AnswerMessage(m, k) \/ FinalAck(m, k)

WNext == \/ PubSub \/ Check \/ Stop \/ StopReturns \/ Exit \/ Gone
         \/ \E l \in Loops : LoopOpen(l) \/ LoopBreaks(l) \/ LoopCloses(l)
         \/ \E l \in Loops, m \in Msgs : Pull(l, m)
         \/ \E m \in Msgs, k \in Deliveries : Process(m, k)

WSpec == WInit /\ [][WNext]_wvars

\* The event loop runs every task that is ready, RPCs return, an open stream
\* delivers what is available, and the grace period passes.  Signals, stream
\* breaks, publications and lease expiry are left to chance.
WFairSpec ==
    /\ WSpec
    /\ WF_wvars(Check) /\ WF_wvars(StopReturns) /\ WF_wvars(Exit)
    /\ \A l \in Loops : WF_wvars(LoopOpen(l)) /\ WF_wvars(LoopCloses(l))
    /\ \A m \in Msgs : WF_wvars(\E l \in Loops : Pull(l, m))
    /\ \A m \in Msgs, k \in Deliveries : WF_wvars(Process(m, k))
-----------------------------------------------------------------------------
\* No message that the handler can read leaves the subscription before the
\* pipeline has been run on it, even if its task is cancelled during shutdown:
\* "finally" acknowledges only tasks that have begun.  (It acknowledges what
\* the handler rejected, too: such a message is dropped without a run.)
AckedTried == \A m \in Msgs : broker[m] = "acked" => m \in tried \cup malformed

\* After stop() has been called no message is taken up, although stop()
\* cancels only one of the two loops, and does nothing when that one is done.
NoDispatchAfterStop ==
    [][\A m \in Msgs, k \in Deliveries :
          worker \in {"stopping", "teardown", "stopped"} /\ task'[m][k] = "new"
             => task[m][k] = "new"]_wvars

\* A worker that has been asked to stop does stop.
StopTerminates == worker = "stopping" ~> worker = "stopped"

\* The pipeline is run on a readable message that is available, as long as the
\* worker is not stopped and its channel is not closed.
TriedWhileServing ==
    \A m \in Msgs : broker[m] = "available" /\ m \notin malformed ~>
        m \in tried \/ ~transport \/ worker \in {"stopping", "teardown", "stopped"}

\* The handler's comment: Ack or Nack according to the result.  Here: a
\* message is acknowledged only if the pipeline has succeeded on it.
AckedSucceeded == \A m \in Msgs : broker[m] = "acked" => m \in succeeded
=============================================================================
