------------------------- MODULE PubSubWorkerProofs -------------------------
(***************************************************************************)
(* Proofs about PubSubWorker, for any messages and any bounds.             *)
(***************************************************************************)
EXTENDS PubSubWorker, TLAPS

\* An ack or a nack of m changes no other message, and acks only m.
LEMMA Effects ==
    ASSUME WTypeOK, NEW m \in Msgs, NEW b \in AckEffect(m) \cup NackEffect(m)
    PROVE  /\ b \in [Msgs -> {"unsent", "available", "out", "acked"}]
           /\ \A x \in Msgs : b[x] = "acked" => broker[x] = "acked" \/ x = m
BY DEF AckEffect, NackEffect, WTypeOK

\* Teardown cancels the loops and the tasks that have not begun.
LEMMA TeardownTypes ==
    ASSUME WTypeOK, Teardown
    PROVE  /\ loop' \in [Loops -> {"none", "scheduled", "open", "closing", "ended"}]
           /\ task' \in [Msgs -> [Deliveries -> {"none", "new", "ack", "nack", "final", "end"}]]
           /\ worker' = "teardown"
           /\ \A l \in Loops : loop'[l] \notin {"scheduled", "open"}
           /\ \A m \in Msgs, k \in Deliveries :
                 /\ task'[m][k] \in {"ack", "nack", "final"} =>
                       task[m][k] \in {"ack", "nack"}
                 /\ task'[m][k] # "new"
BY DEF WTypeOK, Teardown, CancelLoop, CancelTask

-----------------------------------------------------------------------------
(* The inductive invariant: a message task that has begun has run the       *)
(* pipeline or rejected its message, and loops that could dispatch are excluded once stop() ran.    *)

TaskInv == \A m \in Msgs : \A k \in Deliveries :
              task[m][k] \in {"ack", "nack", "final"} => m \in tried \cup malformed

StopInv == /\ worker = "stopping" => stopEvent
           /\ worker \in {"teardown", "stopped"} =>
                 \A l \in Loops : loop[l] \notin {"scheduled", "open"}

WInv == WTypeOK /\ AckedTried /\ TaskInv /\ StopInv

\* WInv holds when the worker comes up.
LEMMA WInvInit == WInit => WInv
<1> SUFFICES ASSUME WInit PROVE WInv
  OBVIOUS
<1>1. task \in [Msgs -> [Deliveries -> {"none", "new", "ack", "nack", "final", "end"}]]
  BY DEF WInit
<1>2. attempt \in 1..MaxRetries
  BY WorkerAssumption DEF WInit
<1>3. loop \in [Loops -> {"none", "scheduled", "open", "closing", "ended"}]
  BY DEF WInit
<1>4. WTypeOK
  BY <1>1, <1>2, <1>3 DEF WInit, WTypeOK
<1>5. AckedTried /\ TaskInv /\ StopInv
  BY DEF WInit, AckedTried, TaskInv, StopInv
<1> QED
  BY <1>4, <1>5 DEF WInv

\* A task of a delivery keeps WInv.
LEMMA WInvProcess ==
    ASSUME WInv, NEW m \in Msgs, NEW k \in Deliveries, Process(m, k)
    PROVE  WInv'
<1> USE DEF WInv, procVars, doneVars
<1>1. CASE HandleCore(m, k)
  <2>1. WTypeOK'
    BY <1>1 DEF HandleCore, WTypeOK
  <2>2. AckedTried' /\ StopInv'
    BY <1>1 DEF HandleCore, AckedTried, StopInv
  <2>3. TaskInv'
    BY <1>1 DEF HandleCore, WTypeOK, TaskInv
  <2> QED
    BY <2>1, <2>2, <2>3
<1>2. CASE AnswerMessage(m, k)
  <2>1. broker' \in AckEffect(m) \cup NackEffect(m) /\ m \in tried \cup malformed
    BY <1>2 DEF AnswerMessage, TaskInv
  <2> QED
    BY <1>2, <2>1, Effects DEF AnswerMessage, WTypeOK, AckedTried, TaskInv, StopInv
<1>3. CASE FinalAck(m, k)
  <2>1. broker' \in AckEffect(m) \cup NackEffect(m) /\ m \in tried \cup malformed
    BY <1>3 DEF FinalAck, TaskInv
  <2> QED
    BY <1>3, <2>1, Effects DEF FinalAck, WTypeOK, AckedTried, TaskInv, StopInv
<1> QED
  BY <1>1, <1>2, <1>3 DEF Process

\* Every step keeps WInv.
LEMMA WInvNext == WInv /\ [WNext]_wvars => WInv'
<1> SUFFICES ASSUME WInv, [WNext]_wvars PROVE WInv'
  OBVIOUS
<1> USE WorkerAssumption DEF WInv, procVars, doneVars
<1>1. CASE PubSub
  BY <1>1 DEF PubSub, CreateSubscription, Publish, LeaseExpires, WTypeOK,
         AckedTried, TaskInv, StopInv
<1>2. CASE CheckFound
  BY <1>2 DEF CheckFound, WTypeOK, AckedTried, TaskInv, StopInv, Loops
<1>3. CASE CheckNotFound
  <2>1. CASE attempt = MaxRetries
    BY <1>3, <2>1, TeardownTypes
       DEF CheckNotFound, WTypeOK, AckedTried, TaskInv, StopInv
  <2>2. CASE attempt # MaxRetries
    BY <1>3, <2>2 DEF CheckNotFound, WTypeOK, AckedTried, TaskInv, StopInv
  <2> QED
    BY <2>1, <2>2
<1>4. CASE CheckRaises
  BY <1>4, TeardownTypes DEF CheckRaises, WTypeOK, AckedTried, TaskInv, StopInv
<1>5. CASE Stop
  <2>1. CASE loop[2] = "ended"
    BY <1>5, <2>1, TeardownTypes DEF Stop, WTypeOK, AckedTried, TaskInv, StopInv
  <2>2. CASE loop[2] # "ended"
    BY <1>5, <2>2 DEF Stop, CancelLoop, WTypeOK, AckedTried, TaskInv, StopInv, Loops
  <2> QED
    BY <2>1, <2>2
<1>6. CASE StopReturns
  BY <1>6, TeardownTypes DEF StopReturns, WTypeOK, AckedTried, TaskInv, StopInv
<1>7. CASE Exit
  BY <1>7 DEF Exit, WTypeOK, AckedTried, TaskInv, StopInv
<1>8. ASSUME NEW l \in Loops, LoopOpen(l) \/ LoopBreaks(l) \/ LoopCloses(l)
      PROVE  WInv'
  BY <1>8 DEF LoopOpen, LoopBreaks, LoopCloses, WTypeOK, AckedTried, TaskInv, StopInv
<1>9. ASSUME NEW l \in Loops, NEW m \in Msgs, LoopSeesStop(l, m) PROVE WInv'
  BY <1>9 DEF LoopSeesStop, WTypeOK, AckedTried, TaskInv, StopInv
<1>10. ASSUME NEW l \in Loops, NEW m \in Msgs, NEW k \in Deliveries,
              Dispatch(l, m, k)
       PROVE  WInv'
  BY <1>10 DEF Dispatch, WTypeOK, AckedTried, TaskInv, StopInv
<1>11. ASSUME NEW m \in Msgs, NEW k \in Deliveries, Process(m, k)
       PROVE  WInv'
  BY <1>11, WInvProcess
<1>12. CASE UNCHANGED wvars
  BY <1>12 DEF wvars, WTypeOK, AckedTried, TaskInv, StopInv
<1> QED
  BY <1>1, <1>2, <1>3, <1>4, <1>5, <1>6, <1>7, <1>8, <1>9, <1>10, <1>11, <1>12
     DEF WNext, Check, Pull, Gone

\* WInv is an invariant of the specification.
LEMMA WInvariance == WSpec => []WInv
BY WInvInit, WInvNext, PTL DEF WSpec
-----------------------------------------------------------------------------
\* Types, which bound the retries of the existence check: the attempts stay
\* within MaxRetries.
THEOREM WorkerTypeCorrect == WSpec => []WTypeOK
<1>1. WInv => WTypeOK
  BY DEF WInv
<1> QED
  BY <1>1, WInvariance, PTL

\* A message is acknowledged only after the pipeline has been run on it, or
\* the handler cannot read it, for any number of messages, deliveries and
\* cancellations.
THEOREM AcknowledgedWasTried == WSpec => []AckedTried
<1>1. WInv => AckedTried
  BY DEF WInv
<1> QED
  BY <1>1, WInvariance, PTL

\* Once stop() has been called no delivery starts a task.
THEOREM StopEndsDispatch == WSpec => NoDispatchAfterStop
<1> DEFINE Quiet ==
      \A m \in Msgs, k \in Deliveries :
         worker \in {"stopping", "teardown", "stopped"} /\ task'[m][k] = "new"
            => task[m][k] = "new"
<1>1. ASSUME WInv, [WNext]_wvars PROVE [Quiet]_wvars
  <2> SUFFICES ASSUME NEW m \in Msgs, NEW k \in Deliveries,
                      worker \in {"stopping", "teardown", "stopped"},
                      task'[m][k] = "new", task[m][k] # "new"
               PROVE  FALSE
    OBVIOUS
  <2> USE <1>1 DEF WInv, procVars, doneVars
  <2>1. ~ (Teardown)
    BY TeardownTypes
  <2>2. ~ (UNCHANGED task)
    OBVIOUS
  <2>3. ~ \E x \in Msgs, j \in Deliveries : Process(x, j)
    BY DEF Process, HandleCore, AnswerMessage, FinalAck, WTypeOK
  <2>4. ~ \E l \in Loops, x \in Msgs, j \in Deliveries : Dispatch(l, x, j)
    BY DEF Dispatch, StopInv
  <2> QED
    BY <2>1, <2>2, <2>3, <2>4
       DEF WNext, PubSub, CreateSubscription, Publish, LeaseExpires, Check,
           CheckFound, CheckNotFound, CheckRaises, Stop, StopReturns, Exit, Gone,
           LoopOpen, LoopBreaks, LoopCloses, Pull, LoopSeesStop, wvars
<1> QED
  BY <1>1, WInvariance, PTL DEF WSpec, NoDispatchAfterStop
=============================================================================
