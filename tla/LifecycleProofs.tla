-------------------------- MODULE LifecycleProofs ---------------------------
(***************************************************************************)
(* Proofs about Lifecycle, for any streams and HTTP requests.              *)
(***************************************************************************)
EXTENDS Lifecycle, TLAPS

\* A server that takes requests, or will.
Up(s) == srv[s] \in {"starting", "serving", "lame"}

\* After the signal: each server is down before the next stage begins, and
\* the stage that waits for its requests leaves none behind.
StageInv ==
    /\ run \in {"grpcstop", "httpstop", "cleanup", "exited"} => ~Up("grpc")
    /\ run \in {"httpstop", "cleanup", "exited"} =>
          ~Up("http") /\ \A r \in Streams : req[r] \notin Busy
    /\ run \in {"cleanup", "exited"} /\ ~expired => \A r \in HttpReqs : req[r] \notin Busy

\* The pool is closed by the clean-up and by nothing else.
PoolInv == pool # "open" => run \in {"cleanup", "exited"}

LInv == LTypeOK /\ StageInv /\ PoolInv /\ StreamsDrained /\ HttpGetsItsTime
-----------------------------------------------------------------------------
Once(s) == s \in Seq(Resources) /\ \A i, j \in 1 .. Len(s) : s[i] = s[j] => i = j

\* The lists of closed resources that combinedCleanup produces name none twice.
LEMMA ClosedOnce ==
    Once(<<>>) /\ Once(<<"db">>) /\ Once(<<"db", "storage">>)
               /\ Once(<<"db", "storage", "pipeline">>)
<1> USE DEF Once, Resources
<1>1. Once(<<>>)
  OBVIOUS
<1>2. Once(<<"db">>)
  OBVIOUS
<1>3. Once(<<"db", "storage">>)
  OBVIOUS
<1>4. Once(<<"db", "storage", "pipeline">>)
  OBVIOUS
<1> QED BY <1>1, <1>2, <1>3, <1>4

\* LInv holds when startServers has started the goroutines.
LEMMA LInvInit == LInit => LInv
<1> SUFFICES ASSUME LInit PROVE LInv
  OBVIOUS
<1>1. Once(closed)
  BY ClosedOnce DEF LInit
<1> QED BY <1>1 DEF Once, LInit, LInv, LTypeOK, StageInv, PoolInv, StreamsDrained, HttpGetsItsTime, Servers, Busy, Ended, Reqs, Up

\* The types are kept by every step: the interesting part is the list of closed
\* resources, in which combinedCleanup puts none twice.
LEMMA LTypeStep ==
    ASSUME LTypeOK, [LNext]_lvars
    PROVE  LTypeOK'
<1> USE DEF LTypeOK, Servers, Busy, Ended
<1>0. Once(closed)
  BY DEF Once
<1>1. CASE \E s \in Servers : Listen(s) \/ ServeFails(s)
  BY <1>1 DEF Listen, ServeFails
<1>2. ASSUME NEW r \in Reqs, Accept(r) \/ Acquire(r) \/ Release(r) \/ Answer(r)
      PROVE  LTypeOK'
  BY <1>2 DEF Accept, Acquire, Release, Answer
<1>3. CASE Notify \/ Deadline
  BY <1>3 DEF Notify, Deadline
<1>4. CASE SignalEarly \/ ServerError \/ MainReturns
  BY <1>4 DEF SignalEarly, ServerError, MainReturns, End
<1>5. CASE Signal \/ GracefulStopReturns \/ ShutdownReturns
  BY <1>5 DEF Signal, GracefulStopReturns, ShutdownReturns, Stop
<1>6. CASE ClosePool
  <2>1. Once(closed')
    BY <1>6, ClosedOnce, <1>0 DEF ClosePool
  <2> QED BY <1>6, <2>1 DEF ClosePool, Once
<1>7. CASE CloseRest
  <2>1. Once(closed')
    BY <1>7, ClosedOnce DEF CloseRest
  <2> QED BY <1>7, <2>1 DEF CloseRest, Once
<1>8. CASE UNCHANGED lvars
  BY <1>8 DEF lvars
<1> QED BY <1>1, <1>2, <1>3, <1>4, <1>5, <1>6, <1>7, <1>8 DEF LNext, Runner, Terminated

\* Every step keeps LInv.
LEMMA LInvStep ==
    ASSUME LInv, [LNext]_lvars
    PROVE  LInv'
<1>0. LTypeOK'
  BY LTypeStep DEF LInv
<1> USE <1>0 DEF LInv, LTypeOK, StageInv, PoolInv, StreamsDrained, HttpGetsItsTime, Up,
                 Servers, Busy, Ended, Reqs
<1>1. CASE \E s \in Servers : Listen(s) \/ ServeFails(s)
  BY <1>1 DEF Listen, ServeFails
<1>2. ASSUME NEW r \in Reqs, Accept(r)  PROVE LInv'
  BY <1>2 DEF Accept, ServerOf
<1>3. ASSUME NEW r \in Reqs, Acquire(r) PROVE LInv'
  BY <1>3 DEF Acquire
<1>4. ASSUME NEW r \in Reqs, Release(r) \/ Answer(r) PROVE LInv'
  BY <1>4 DEF Release, Answer
<1>5. CASE Notify \/ Deadline
  BY <1>5 DEF Notify, Deadline
<1>6. CASE SignalEarly \/ ServerError
  BY <1>6 DEF SignalEarly, ServerError, End
<1>7. CASE Signal
  BY <1>7 DEF Signal, Stop
<1>8. CASE GracefulStopReturns
  BY <1>8 DEF GracefulStopReturns, Stop
<1>9. CASE ShutdownReturns
  BY <1>9 DEF ShutdownReturns
<1>10. CASE ClosePool \/ CloseRest
  BY <1>10 DEF ClosePool, CloseRest
<1>11. CASE MainReturns
  BY <1>11 DEF MainReturns, End
<1>12. CASE UNCHANGED lvars
  BY <1>12 DEF lvars
<1> QED BY <1>1, <1>2, <1>3, <1>4, <1>5, <1>6, <1>7, <1>8, <1>9, <1>10, <1>11, <1>12
        DEF LNext, Runner, Terminated

\* Once clean-up has begun nothing turns a request active.
LEMMA CleanupStep ==
    ASSUME LInv, [LNext]_lvars, run = "cleanup"
    PROVE  /\ \A s \in Servers : srv'[s] \notin {"serving", "lame"}
           /\ \A r \in Reqs : req[r] = "idle" => req'[r] # "active"
<1> USE DEF LInv, LTypeOK, StageInv, Up, Servers, Busy, Ended, Reqs
<1>1. \A s \in Servers : srv[s] \notin {"starting", "serving", "lame"}
  OBVIOUS
<1>2. CASE \E s \in Servers : Listen(s) \/ ServeFails(s)
  BY <1>1, <1>2 DEF Listen, ServeFails
<1>3. ASSUME NEW r \in Reqs, Accept(r) PROVE  /\ \A s \in Servers : srv'[s] \notin {"serving", "lame"}
             /\ \A q \in Reqs : req[q] = "idle" => req'[q] # "active"
  BY <1>1, <1>3 DEF Accept, ServerOf
<1>4. ASSUME NEW r \in Reqs, Acquire(r) \/ Release(r) \/ Answer(r)
      PROVE  /\ \A s \in Servers : srv'[s] \notin {"serving", "lame"}
             /\ \A q \in Reqs : req[q] = "idle" => req'[q] # "active"
  BY <1>1, <1>4 DEF Acquire, Release, Answer
<1>5. CASE Deadline \/ ClosePool \/ CloseRest \/ UNCHANGED lvars
  BY <1>1, <1>5 DEF Deadline, ClosePool, CloseRest, lvars
<1>6. CASE MainReturns
  BY <1>1, <1>6 DEF MainReturns, End
<1> QED BY <1>1, <1>2, <1>3, <1>4, <1>5, <1>6
        DEF LNext, Runner, Terminated, Notify, SignalEarly, Signal, ServerError,
            GracefulStopReturns, ShutdownReturns

\* The inductive invariant holds throughout.
LEMMA LInvariant == LSpec => []LInv
<1>1. LInv /\ [LNext]_lvars => LInv'
  BY LInvStep
<1> QED BY LInvInit, <1>1, PTL DEF LSpec
-----------------------------------------------------------------------------
\* Type correctness of Run and the clean-up.
THEOREM LifecycleTypeCorrect == LSpec => []LTypeOK
<1>1. LInv => LTypeOK
  BY DEF LInv
<1> QED BY LInvariant, <1>1, PTL

\* However many streams are open when the signal arrives: GracefulStop lets
\* every one of them end on an open pool.
THEOREM StreamsAreDrained == LSpec => []StreamsDrained
<1>1. LInv => StreamsDrained
  BY DEF LInv
<1> QED BY LInvariant, <1>1, PTL

\* However many HTTP requests there are: none is cut or loses the pool before
\* the deadline of Shutdown.
THEOREM HttpHasItsTime == LSpec => []HttpGetsItsTime
<1>1. LInv => HttpGetsItsTime
  BY DEF LInv
<1> QED BY LInvariant, <1>1, PTL

\* Resources are closed only under servers that take nothing any more.
THEOREM ResourcesComeLast == LSpec => ServersBeforeResources
<1>1. LInv /\ [LNext]_lvars =>
        [run = "cleanup" => /\ \A s \in Servers : srv'[s] \notin {"serving", "lame"}
                            /\ \A r \in Reqs : req[r] = "idle" => req'[r] # "active"]_lvars
  BY CleanupStep
<1> QED BY LInvariant, <1>1, PTL DEF LSpec, ServersBeforeResources
=============================================================================
