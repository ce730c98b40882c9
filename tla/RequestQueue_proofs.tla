------------------------ MODULE RequestQueue_proofs ------------------------
(***************************************************************************)
(* Proofs about RequestQueue: for every set of requests, every assignment  *)
(* of priorities and thresholds and every size of the heap.                *)
(***************************************************************************)
EXTENDS RequestQueue, FiniteSetTheorems, TLAPS

(* The worker, its current request and its counter agree. *)
ServingInv ==
    /\ (worker = "serving") <=> (current # NoRequest)
    /\ (task = "none") <=> (current = NoRequest)
    /\ mustCancel => task \in TaskDone /\ server = "stopping"
    /\ stats.in_progress = IF worker = "serving" THEN 1 ELSE 0
    /\ stats.size = Cardinality(pending)

(* Where a request that was put is, and when it was put. *)
HeapInv ==
    /\ current \notin pending
    /\ current # NoRequest => putTime[current] > 0
    /\ \A r \in Request :
        /\ putTime[r] <= clock
        /\ r \in pending => putTime[r] > 0
        /\ putTime[r] = 0 <=> route[r] \in {"new", "rejected"}

(* When a future is resolved: never before the request is taken, at the    *)
(* latest when the worker lets go of it.                                   *)
ResultInv ==
    /\ \A r \in Request :
        /\ putTime[r] = 0 \/ r \in pending => future[r] = "pending"
        /\ putTime[r] > 0 /\ r \notin pending /\ r # current => future[r] # "pending"
    /\ current # NoRequest => future[current] = IF task = "ok" THEN "result" ELSE "pending"

IInv ==
    /\ TypeOK
    /\ ServingInv
    /\ HeapInv
    /\ ResultInv
    /\ StreamProtocol
    /\ OnlyOwnerCancels
    /\ NoOvertaking
    /\ LoggedOnce

-----------------------------------------------------------------------------
(* Lemmas on the operators of the model *)

(* The heap is finite, so its size is a number, and zero only when empty. *)
LEMMA HeapSize ==
    ASSUME NEW S \in SUBSET Request
    PROVE  Cardinality(S) \in Nat /\ (Cardinality(S) = 0 <=> S = {})
  <1>1. IsFiniteSet(S)
    BY ConstantsAssumption, FS_Subset
  <1> QED
    BY <1>1, FS_CardinalityType, FS_EmptySet

(* A pass through the top of the loop ends in a wait or in taking a request. *)
LEMMA LoopTopCases ==
    ASSUME NEW last, NEW timeLeft, LoopTop(last, timeLeft)
    PROVE  \/ \E place \in {"waiting", "grace"} : Suspend(place)
           \/ \E r \in pending : Pop(r)
  BY DEF LoopTop

(* The three ways of taking up work without having finished any. *)
LEMMA WakeCases ==
    ASSUME WorkerWake \/ GraceWake \/ GraceTimeout
    PROVE  /\ worker \in {"waiting", "grace"}
           /\ \/ \E place \in {"waiting", "grace"} : Suspend(place)
              \/ \E r \in pending : Pop(r)
           /\ UNCHANGED <<putTime, clock, mustCancel, lastServed, inGrace, clientVars, server>>
  BY LoopTopCases DEF WorkerWake, GraceWake, GraceTimeout

-----------------------------------------------------------------------------
(* The inductive step, one lemma per conjunct of IInv *)

LEMMA TypeStep == ASSUME IInv, [Next]_vars PROVE TypeOK'
<1> USE DEF IInv, TypeOK
<1>1. CASE WorkerWake \/ GraceWake \/ GraceTimeout
  <2>1. UNCHANGED <<putTime, clock, mustCancel, lastServed, inGrace, clientVars, server>>
    BY <1>1, WakeCases
  <2>2. CASE \E place \in {"waiting", "grace"} : Suspend(place)
    BY <2>1, <2>2 DEF Suspend, clientVars, TaskState, Canceller
  <2>3. CASE \E r \in pending : Pop(r)
    BY <2>1, <2>3, HeapSize DEF Pop, clientVars, TaskState, Canceller
  <2> QED
    BY <1>1, <2>2, <2>3, WakeCases
<1>2. CASE WorkerFinish
  <2>1. current \in Request
    BY <1>2 DEF WorkerFinish, ServingInv, TaskDone
  <2>2. /\ lastServed' \in [priority : Nat, threshold : BOOLEAN]
        /\ inGrace' \in BOOLEAN
        /\ mustCancel' \in BOOLEAN
        /\ UNCHANGED <<putTime, clock, route, server>>
    <3>1. lastServed' \in [priority : Nat, threshold : BOOLEAN]
      BY <1>2, <2>1, ConstantsAssumption DEF WorkerFinish
    <3>2. inGrace' \in BOOLEAN
      BY <1>2 DEF WorkerFinish
    <3>3. mustCancel' \in BOOLEAN
      BY <1>2 DEF WorkerFinish
    <3> QED
      BY <1>2, <3>1, <3>2, <3>3 DEF WorkerFinish
  <2>3. /\ future' \in [Request -> FutureState]
        /\ streamQueue' \in [Request -> Seq(Item)]
        /\ logged' \in [Request -> Nat]
    <3>1. CASE UNCHANGED <<future, streamQueue, logged>>
      BY <3>1
    <3>2. CASE NotifyClient(current)
      <4>1. future' \in [Request -> FutureState]
        BY <3>2 DEF NotifyClient, FutureState
      <4>2. streamQueue' \in [Request -> Seq(Item)]
        BY <3>2, <2>1 DEF NotifyClient, Item
      <4>3. logged' \in [Request -> Nat]
        BY <3>2, <2>1 DEF NotifyClient
      <4> QED
        BY <4>1, <4>2, <4>3
    <3> QED
      BY <1>2, <3>1, <3>2 DEF WorkerFinish
  <2>4. CASE \E place \in {"waiting", "grace"} : Suspend(place)
    BY <2>2, <2>3, <2>4 DEF Suspend, TaskState, Canceller
  <2>5. CASE \E r \in pending : Pop(r)
    <3>1. PICK r \in pending : Pop(r)
      BY <2>5
    <3>2. stats' \in [size : Nat, in_progress : {0, 1}]
      BY <3>1, HeapSize DEF Pop
    <3> QED
      BY <2>2, <2>3, <3>1, <3>2 DEF Pop, TaskState, Canceller
  <2> QED
    BY <1>2, <2>4, <2>5, LoopTopCases DEF WorkerFinish
<1>3. CASE GraceExpires
  <2>1. inGrace' \in BOOLEAN
    BY <1>3 DEF GraceExpires
  <2> QED
    BY <1>3, <2>1 DEF GraceExpires, queueVars, clientVars
<1>4. CASE TaskChunk
  <2>1. current \in Request
    BY <1>4 DEF TaskChunk, ServingInv
  <2>2. streamQueue' \in [Request -> Seq(Item)]
    BY <1>4, <2>1 DEF TaskChunk, Item
  <2> QED
    BY <1>4, <2>2 DEF TaskChunk, queueVars, workerVars
<1>5. CASE TaskOk
  <2>1. current \in Request
    BY <1>5 DEF TaskOk, ServingInv
  <2>2. streamQueue' \in [Request -> Seq(Item)]
    BY <1>5, <2>1 DEF TaskOk, Item
  <2> QED
    BY <1>5, <2>1, <2>2 DEF TaskOk, queueVars, TaskState, FutureState
<1>6. CASE TaskError \/ TaskUnwind
  BY <1>6 DEF TaskError, TaskUnwind, queueVars, clientVars, TaskState
<1>7. CASE AdminCancel
  BY <1>7 DEF AdminCancel, CancelTask, queueVars, clientVars, TaskState, Canceller
<1>8. CASE Shutdown
  <2>1. mustCancel' \in BOOLEAN
    <3>1. CASE mustCancel' = mustCancel
      BY <3>1
    <3>2. CASE mustCancel' = (task \in TaskDone)
      BY <3>2
    <3> QED
      BY <1>8, <3>1, <3>2, Zenon DEF Shutdown
  <2>2. task' \in TaskState /\ canceller' \in Canceller
    BY <1>8 DEF Shutdown, CancelTask, TaskState, Canceller
  <2> QED
    BY <1>8, <2>1, <2>2 DEF Shutdown, queueVars, clientVars
<1>9. ASSUME NEW r \in Request, Enqueue(r) PROVE TypeOK'
  <2>1. pending' \subseteq Request
    BY <1>9 DEF Enqueue
  <2>2. stats' \in [size : Nat, in_progress : {0, 1}]
    BY <1>9, <2>1, HeapSize DEF Enqueue
  <2> QED
    BY <1>9, <2>1, <2>2 DEF Enqueue, workerVars, RouteState
<1>10. ASSUME NEW r \in Request, EnqueueFull(r) PROVE TypeOK'
  BY <1>10 DEF EnqueueFull, queueVars, workerVars, RouteState
<1>11. ASSUME NEW r \in Request, RouteChunk(r) PROVE TypeOK'
  <2>1. streamQueue' \in [Request -> Seq(Item)]
    BY <1>11 DEF RouteChunk
  <2> QED
    BY <1>11, <2>1 DEF RouteChunk, queueVars, workerVars
<1>12. ASSUME NEW r \in Request, RouteEnd(r) PROVE TypeOK'
  <2>1. streamQueue' \in [Request -> Seq(Item)]
    BY <1>12 DEF RouteEnd
  <2>2. /\ route' \in [Request -> RouteState]
        /\ task' \in TaskState
        /\ canceller' \in Canceller
    BY <1>12 DEF RouteEnd, CancelRequestIfCurrent, CancelTask, RouteState, TaskState, Canceller
  <2> QED
    BY <1>12, <2>1, <2>2 DEF RouteEnd, queueVars
<1>13. ASSUME NEW r \in Request, RouteReturn(r) PROVE TypeOK'
  BY <1>13 DEF RouteReturn, queueVars, workerVars, RouteState
<1>14. ASSUME NEW r \in Request, RouteLeave(r) PROVE TypeOK'
  BY <1>14 DEF RouteLeave, CancelRequestIfCurrent, CancelTask, queueVars, RouteState, TaskState, Canceller
<1>15. CASE UNCHANGED vars
  BY <1>15 DEF vars, queueVars, workerVars, clientVars
<1> QED
  BY <1>1, <1>2, <1>3, <1>4, <1>5, <1>6, <1>7, <1>8, <1>9, <1>10, <1>11, <1>12, <1>13, <1>14, <1>15
  DEF Next, WorkerStep, TaskEnd, RouteStep

LEMMA ServingStep == ASSUME IInv, [Next]_vars PROVE ServingInv'
<1> USE DEF IInv, TypeOK, ServingInv
<1>1. CASE WorkerWake \/ GraceWake \/ GraceTimeout
  <2>1. worker \in {"waiting", "grace"} /\ UNCHANGED <<mustCancel, server>>
    BY <1>1, WakeCases
  <2>2. CASE \E place \in {"waiting", "grace"} : Suspend(place)
    BY <2>1, <2>2 DEF Suspend, TaskDone
  <2>3. CASE \E r \in pending : Pop(r)
    BY <2>1, <2>3, ConstantsAssumption DEF Pop, TaskDone
  <2> QED
    BY <1>1, <2>2, <2>3, WakeCases
<1>2. CASE WorkerFinish
  <2>1. mustCancel' = FALSE
    BY <1>2 DEF WorkerFinish
  <2>2. CASE \E place \in {"waiting", "grace"} : Suspend(place)
    BY <2>1, <2>2 DEF Suspend
  <2>3. CASE \E r \in pending : Pop(r)
    BY <2>1, <2>3, ConstantsAssumption DEF Pop
  <2> QED
    BY <1>2, <2>2, <2>3, LoopTopCases DEF WorkerFinish
<1>3. CASE GraceExpires \/ TaskChunk
  BY <1>3 DEF GraceExpires, TaskChunk, queueVars, workerVars
<1>4. CASE TaskEnd
  BY <1>4 DEF TaskEnd, TaskOk, TaskError, TaskUnwind, queueVars, TaskDone
<1>5. CASE AdminCancel
  BY <1>5 DEF AdminCancel, CancelTask, queueVars, TaskDone
<1>6. CASE Shutdown
  <2>1. CASE worker = "serving"
    BY <1>6, <2>1 DEF Shutdown, CancelTask, queueVars, TaskDone
  <2>2. CASE worker # "serving"
    BY <1>6, <2>2 DEF Shutdown, queueVars
  <2> QED
    BY <2>1, <2>2
<1>7. ASSUME NEW r \in Request, Enqueue(r) PROVE ServingInv'
  BY <1>7 DEF Enqueue, workerVars
<1>8. ASSUME NEW r \in Request, EnqueueFull(r) \/ RouteChunk(r) \/ RouteReturn(r)
      PROVE  ServingInv'
  BY <1>8 DEF EnqueueFull, RouteChunk, RouteReturn, queueVars, workerVars
<1>9. ASSUME NEW r \in Request, RouteEnd(r) \/ RouteLeave(r) PROVE ServingInv'
  <2>1. UNCHANGED <<queueVars, worker, mustCancel, current, server>>
    BY <1>9 DEF RouteEnd, RouteLeave
  <2>2. task' = task \/ (task = "running" /\ task' = "cancelling")
    BY <1>9 DEF RouteEnd, RouteLeave, CancelRequestIfCurrent, CancelTask
  <2> QED
    BY <2>1, <2>2 DEF queueVars, TaskDone
<1>10. CASE UNCHANGED vars
  BY <1>10 DEF vars, queueVars, workerVars
<1> QED
  BY <1>1, <1>2, <1>3, <1>4, <1>5, <1>6, <1>7, <1>8, <1>9, <1>10
  DEF Next, WorkerStep, RouteStep

LEMMA HeapStep == ASSUME IInv, [Next]_vars PROVE HeapInv'
<1> USE DEF IInv, TypeOK, HeapInv
<1>1. CASE WorkerWake \/ GraceWake \/ GraceTimeout
  <2>1. UNCHANGED <<putTime, clock, route>>
    BY <1>1, WakeCases DEF clientVars
  <2>2. CASE \E place \in {"waiting", "grace"} : Suspend(place)
    BY <2>1, <2>2, ConstantsAssumption DEF Suspend
  <2>3. CASE \E r \in pending : Pop(r)
    BY <2>1, <2>3 DEF Pop
  <2> QED
    BY <1>1, <2>2, <2>3, WakeCases
<1>2. CASE WorkerFinish
  <2>1. UNCHANGED <<putTime, clock, route>>
    BY <1>2 DEF WorkerFinish
  <2>2. CASE \E place \in {"waiting", "grace"} : Suspend(place)
    BY <2>1, <2>2, ConstantsAssumption DEF Suspend
  <2>3. CASE \E r \in pending : Pop(r)
    BY <2>1, <2>3 DEF Pop
  <2> QED
    BY <1>2, <2>2, <2>3, LoopTopCases DEF WorkerFinish
<1>3. CASE GraceExpires \/ TaskChunk \/ TaskEnd \/ AdminCancel \/ Shutdown
  BY <1>3 DEF GraceExpires, TaskChunk, TaskEnd, TaskOk, TaskError, TaskUnwind, AdminCancel, Shutdown,
              queueVars, workerVars, clientVars
<1>4. ASSUME NEW r \in Request, Enqueue(r) PROVE HeapInv'
  <2>1. current # r
    BY <1>4, ConstantsAssumption DEF Enqueue
  <2> QED
    BY <1>4, <2>1 DEF Enqueue, workerVars
<1>5. ASSUME NEW r \in Request, EnqueueFull(r) PROVE HeapInv'
  BY <1>5 DEF EnqueueFull, queueVars, workerVars
<1>6. ASSUME NEW r \in Request, RouteChunk(r) PROVE HeapInv'
  BY <1>6 DEF RouteChunk, queueVars, workerVars
<1>7. ASSUME NEW r \in Request, RouteEnd(r) \/ RouteReturn(r) \/ RouteLeave(r)
      PROVE  HeapInv'
  <2>1. UNCHANGED <<queueVars, current>>
    BY <1>7 DEF RouteEnd, RouteReturn, RouteLeave, workerVars
  <2>2. /\ route'[r] \in {"answered", "errored", "left"}
        /\ \A q \in Request \ {r} : route'[q] = route[q]
    BY <1>7 DEF RouteEnd, RouteReturn, RouteLeave
  <2>3. route[r] \notin {"new", "rejected"}
    BY <1>7 DEF RouteEnd, RouteReturn, RouteLeave
  <2> QED
    BY <2>1, <2>2, <2>3 DEF queueVars
<1>8. CASE UNCHANGED vars
  BY <1>8 DEF vars, queueVars, workerVars, clientVars
<1> QED
  BY <1>1, <1>2, <1>3, <1>4, <1>5, <1>6, <1>7, <1>8 DEF Next, WorkerStep, RouteStep

LEMMA ResultStep == ASSUME IInv, [Next]_vars PROVE ResultInv'
<1> USE DEF IInv, TypeOK, ServingInv, HeapInv, ResultInv
<1>1. CASE WorkerWake \/ GraceWake \/ GraceTimeout
  <2>1. UNCHANGED <<putTime, future>> /\ current = NoRequest
    BY <1>1, WakeCases DEF clientVars
  <2>2. CASE \E place \in {"waiting", "grace"} : Suspend(place)
    BY <2>1, <2>2 DEF Suspend
  <2>3. CASE \E r \in pending : Pop(r)
    BY <2>1, <2>3, ConstantsAssumption DEF Pop
  <2> QED
    BY <1>1, <2>2, <2>3, WakeCases
<1>2. CASE WorkerFinish
  <2>1. /\ UNCHANGED putTime
        /\ current \in Request /\ current # NoRequest
        /\ current \notin pending /\ putTime[current] > 0
    BY <1>2 DEF WorkerFinish
  <2>2. /\ future'[current] # "pending"
        /\ \A r \in Request \ {current} : future'[r] = future[r]
    <3>1. CASE Outcome = "ok"
      BY <1>2, <2>1, <3>1 DEF WorkerFinish, Outcome
    <3>2. CASE NotifyClient(current)
      BY <2>1, <3>2 DEF NotifyClient
    <3> QED
      BY <1>2, <3>1, <3>2 DEF WorkerFinish
  <2>3. CASE \E place \in {"waiting", "grace"} : Suspend(place)
    BY <2>1, <2>2, <2>3 DEF Suspend
  <2>4. CASE \E r \in pending : Pop(r)
    <3>1. PICK h \in pending : Pop(h)
      BY <2>4
    <3>2. current' = h /\ pending' = pending \ {h} /\ task' = "running" /\ h # current
      BY <2>1, <3>1 DEF Pop
    <3>3. future'[h] = "pending"
      BY <2>2, <3>1, <3>2
    <3>4. \A r \in Request : putTime'[r] = 0 \/ r \in pending' => future'[r] = "pending"
      BY <2>1, <2>2, <3>2
    <3>5. \A r \in Request : putTime'[r] > 0 /\ r \notin pending' /\ r # current' => future'[r] # "pending"
      BY <2>1, <2>2, <3>2
    <3> QED
      BY <3>2, <3>3, <3>4, <3>5
  <2> QED
    BY <1>2, <2>3, <2>4, LoopTopCases DEF WorkerFinish
<1>3. CASE GraceExpires \/ TaskChunk
  BY <1>3 DEF GraceExpires, TaskChunk, queueVars, workerVars, clientVars
<1>4. CASE TaskOk
  BY <1>4 DEF TaskOk, queueVars
<1>5. CASE TaskError \/ TaskUnwind
  BY <1>5 DEF TaskError, TaskUnwind, queueVars, clientVars
<1>6. CASE AdminCancel
  BY <1>6 DEF AdminCancel, CancelTask, queueVars, clientVars
<1>7. CASE Shutdown
  <2>1. UNCHANGED <<pending, putTime, current, future>>
    BY <1>7 DEF Shutdown, queueVars, clientVars
  <2>2. task' = task \/ (task = "running" /\ task' = "cancelling")
    BY <1>7 DEF Shutdown, CancelTask
  <2> QED
    BY <2>1, <2>2
<1>8. ASSUME NEW r \in Request, Enqueue(r) PROVE ResultInv'
  <2>1. future[r] = "pending" /\ current # r /\ putTime'[r] > 0
    BY <1>8, ConstantsAssumption DEF Enqueue
  <2> QED
    BY <1>8, <2>1 DEF Enqueue, workerVars
<1>9. ASSUME NEW r \in Request, EnqueueFull(r) \/ RouteChunk(r) \/ RouteReturn(r)
      PROVE  ResultInv'
  BY <1>9 DEF EnqueueFull, RouteChunk, RouteReturn, queueVars, workerVars
<1>10. ASSUME NEW r \in Request, RouteEnd(r) \/ RouteLeave(r) PROVE ResultInv'
  <2>1. UNCHANGED <<pending, putTime, current, future>>
    BY <1>10 DEF RouteEnd, RouteLeave, queueVars
  <2>2. task' = task \/ (task = "running" /\ task' = "cancelling")
    BY <1>10 DEF RouteEnd, RouteLeave, CancelRequestIfCurrent, CancelTask
  <2> QED
    BY <2>1, <2>2
<1>11. CASE UNCHANGED vars
  BY <1>11 DEF vars, queueVars, workerVars, clientVars
<1> QED
  BY <1>1, <1>2, <1>3, <1>4, <1>5, <1>6, <1>7, <1>8, <1>9, <1>10, <1>11
  DEF Next, WorkerStep, TaskEnd, RouteStep

LEMMA OwnerStep == ASSUME IInv, [Next]_vars PROVE OnlyOwnerCancels'
<1> USE DEF IInv, TypeOK, OnlyOwnerCancels
<1>1. CASE WorkerStep
  <2>1. CASE \E place \in {"waiting", "grace"} : Suspend(place)
    BY <2>1 DEF Suspend
  <2>2. CASE \E r \in pending : Pop(r)
    BY <2>2 DEF Pop
  <2> QED
    BY <1>1, <2>1, <2>2, WakeCases, LoopTopCases DEF WorkerStep, WorkerFinish
<1>2. CASE GraceExpires \/ TaskChunk \/ TaskEnd
  BY <1>2 DEF GraceExpires, TaskChunk, TaskEnd, TaskOk, TaskError, TaskUnwind, workerVars
<1>3. CASE AdminCancel \/ Shutdown
  BY <1>3 DEF AdminCancel, Shutdown, CancelTask
<1>4. ASSUME NEW r \in Request, RouteEnd(r) \/ RouteLeave(r) PROVE OnlyOwnerCancels'
  BY <1>4 DEF RouteEnd, RouteLeave, CancelRequestIfCurrent, CancelTask
<1>5. ASSUME NEW r \in Request,
             Enqueue(r) \/ EnqueueFull(r) \/ RouteChunk(r) \/ RouteReturn(r)
      PROVE  OnlyOwnerCancels'
  BY <1>5 DEF Enqueue, EnqueueFull, RouteChunk, RouteReturn, workerVars
<1>6. CASE UNCHANGED vars
  BY <1>6 DEF vars, workerVars
<1> QED
  BY <1>1, <1>2, <1>3, <1>4, <1>5, <1>6 DEF Next, RouteStep

(* Who leaves the heap is its head, and who enters it is the latest. *)
LEMMA OrderStep == ASSUME IInv, [Next]_vars PROVE NoOvertaking'
<1> USE ConstantsAssumption DEF IInv, TypeOK, NoOvertaking
<1>1. CASE WorkerStep
  <2>1. UNCHANGED putTime
    BY <1>1, WakeCases DEF WorkerStep, WorkerFinish
  <2>2. CASE \E place \in {"waiting", "grace"} : Suspend(place)
    BY <2>1, <2>2 DEF Suspend
  <2>3. ASSUME NEW h \in pending, Pop(h) PROVE NoOvertaking'
    <3>1. \A q \in pending' : Before(h, q)
      BY <2>3 DEF Pop, IsHead
    <3>2. SUFFICES ASSUME NEW q \in Request, NEW r \in Request,
                          q \in pending', putTime[q] < putTime[r], Priority[q] <= Priority[r]
                   PROVE  r \in pending'
      BY <2>1
    <3>3. r \in pending
      BY <2>3, <3>2 DEF Pop
    <3>4. ~Before(r, q)
      BY <3>2 DEF Before
    <3> QED
      BY <2>3, <3>1, <3>2, <3>3, <3>4 DEF Pop
  <2> QED
    BY <1>1, <2>2, <2>3, WakeCases, LoopTopCases DEF WorkerStep, WorkerFinish
<1>2. ASSUME NEW r \in Request, Enqueue(r) PROVE NoOvertaking'
  <2>1. \A q \in Request \ {r} : putTime'[q] < putTime'[r] /\ putTime'[q] = putTime[q]
    BY <1>2 DEF Enqueue, HeapInv
  <2>2. pending' = pending \cup {r}
    BY <1>2 DEF Enqueue
  <2>3. SUFFICES ASSUME NEW q \in Request, NEW x \in Request, x # r,
                        q \in pending', putTime'[q] < putTime'[x], Priority[q] <= Priority[x]
                 PROVE  x \in pending'
    BY <2>2
  <2>4. q # r
    BY <1>2, <2>1, <2>3 DEF Enqueue
  <2> QED
    BY <2>1, <2>2, <2>3, <2>4
<1>3. CASE UNCHANGED queueVars
  BY <1>3 DEF queueVars
<1>4. CASE GraceExpires \/ TaskChunk \/ TaskEnd \/ AdminCancel \/ Shutdown
  BY <1>3, <1>4 DEF GraceExpires, TaskChunk, TaskEnd, TaskOk, TaskError, TaskUnwind, AdminCancel, Shutdown
<1>5. ASSUME NEW r \in Request, EnqueueFull(r) \/ RouteStep(r) \/ RouteLeave(r)
      PROVE  NoOvertaking'
  BY <1>3, <1>5 DEF EnqueueFull, RouteStep, RouteChunk, RouteEnd, RouteReturn, RouteLeave
<1> QED
  BY <1>1, <1>2, <1>3, <1>4, <1>5 DEF Next, vars

(* A chunk is put only while the future is pending, so after no sentinel;  *)
(* a sentinel is put only together with, or after, the result.             *)
LEMMA StreamStep == ASSUME IInv, [Next]_vars PROVE StreamProtocol'
<1> USE DEF IInv, TypeOK, StreamProtocol
<1>1. ASSUME NEW c \in Request, future'[c] # "pending",
             \A r \in Request \ {c} : future'[r] = future[r] /\ streamQueue'[r] = streamQueue[r],
             streamQueue'[c] = streamQueue[c] \/ streamQueue'[c] = Append(streamQueue[c], "end")
      PROVE  StreamProtocol'
  <2>1. ASSUME NEW i \in 1..Len(streamQueue'[c]), streamQueue'[c][i] = "end",
               NEW j \in i..Len(streamQueue'[c])
        PROVE  streamQueue'[c][j] = "end"
    <3>1. CASE streamQueue'[c] = streamQueue[c]
      BY <2>1, <3>1
    <3>2. CASE streamQueue'[c] = Append(streamQueue[c], "end")
      <4>1. /\ Len(streamQueue'[c]) = Len(streamQueue[c]) + 1
            /\ Len(streamQueue[c]) \in Nat
            /\ streamQueue'[c][Len(streamQueue[c]) + 1] = "end"
            /\ \A k \in 1..Len(streamQueue[c]) : streamQueue'[c][k] = streamQueue[c][k]
        BY <3>2
      <4>2. CASE j = Len(streamQueue[c]) + 1
        BY <4>1, <4>2
      <4>3. CASE j # Len(streamQueue[c]) + 1
        <5>1. i \in 1..Len(streamQueue[c]) /\ j \in i..Len(streamQueue[c])
          BY <2>1, <4>1, <4>3
        <5>2. j \in 1..Len(streamQueue[c])
          BY <5>1, <4>1
        <5>3. streamQueue[c][i] = "end"
          BY <2>1, <4>1, <5>1
        <5>4. streamQueue[c][j] = "end"
          BY <5>1, <5>3
        <5> QED
          BY <4>1, <5>2, <5>4
      <4> QED
        BY <4>2, <4>3
    <3> QED
      BY <1>1, <3>1, <3>2
  <2>2. SUFFICES ASSUME NEW r \in Request, NEW i \in 1..Len(streamQueue'[r]),
                        streamQueue'[r][i] = "end"
                 PROVE  /\ future'[r] # "pending"
                        /\ \A j \in i..Len(streamQueue'[r]) : streamQueue'[r][j] = "end"
    OBVIOUS
  <2>3. CASE r = c
    BY <1>1, <2>1, <2>2, <2>3
  <2>4. CASE r # c
    BY <1>1, <2>2, <2>4
  <2> QED
    BY <2>3, <2>4
<1>2. CASE UNCHANGED <<future, streamQueue>>
  BY <1>2
<1>3. CASE WorkerFinish
  <2>1. current \in Request
    BY <1>3 DEF WorkerFinish, ServingInv
  <2>2. CASE NotifyClient(current)
    BY <1>1, <2>1, <2>2 DEF NotifyClient
  <2> QED
    BY <1>2, <1>3, <2>2 DEF WorkerFinish
<1>4. CASE TaskOk
  <2>1. current \in Request
    BY <1>4 DEF TaskOk, ServingInv
  <2> QED
    BY <1>1, <1>4, <2>1 DEF TaskOk
<1>5. CASE TaskChunk
  <2>1. current \in Request /\ future[current] = "pending"
    BY <1>5 DEF TaskChunk, ServingInv, ResultInv
  <2>2. \A i \in 1..Len(streamQueue[current]) : streamQueue[current][i] # "end"
    BY <2>1
  <2>3. \A i \in 1..Len(streamQueue'[current]) : streamQueue'[current][i] # "end"
    BY <1>5, <2>1, <2>2 DEF TaskChunk
  <2>4. \A r \in Request \ {current} : streamQueue'[r] = streamQueue[r]
    BY <1>5, <2>1 DEF TaskChunk
  <2> QED
    BY <1>5, <2>1, <2>3, <2>4 DEF TaskChunk
<1>6. ASSUME NEW c \in Request, RouteChunk(c) \/ RouteEnd(c) PROVE StreamProtocol'
  <2>1. /\ streamQueue[c] \in Seq(Item) /\ streamQueue[c] # <<>>
        /\ streamQueue'[c] = Tail(streamQueue[c])
        /\ \A r \in Request \ {c} : streamQueue'[r] = streamQueue[r]
        /\ UNCHANGED future
    BY <1>6 DEF RouteChunk, RouteEnd
  <2>2. ASSUME NEW i \in 1..Len(streamQueue'[c])
        PROVE  i + 1 \in 1..Len(streamQueue[c]) /\ streamQueue'[c][i] = streamQueue[c][i + 1]
    BY <2>1
  <2>3. ASSUME NEW i \in 1..Len(streamQueue'[c]), streamQueue'[c][i] = "end",
               NEW j \in i..Len(streamQueue'[c])
        PROVE  future[c] # "pending" /\ streamQueue'[c][j] = "end"
    <3>1. j \in 1..Len(streamQueue'[c]) /\ j + 1 \in (i + 1)..Len(streamQueue[c])
      BY <2>1, <2>3
    <3> QED
      BY <2>2, <2>3, <3>1
  <2>4. SUFFICES ASSUME NEW r \in Request, NEW i \in 1..Len(streamQueue'[r]),
                        streamQueue'[r][i] = "end"
                 PROVE  /\ future'[r] # "pending"
                        /\ \A j \in i..Len(streamQueue'[r]) : streamQueue'[r][j] = "end"
    OBVIOUS
  <2>5. CASE r = c
    <3>1. i \in i..Len(streamQueue'[r])
      BY <2>1, <2>4, <2>5
    <3>2. future[r] # "pending"
      BY <2>3, <2>4, <2>5, <3>1
    <3> QED
      BY <2>1, <2>3, <2>4, <2>5, <3>2
  <2>6. CASE r # c
    BY <2>1, <2>4, <2>6
  <2> QED
    BY <2>5, <2>6
<1>7. CASE WorkerWake \/ GraceWake \/ GraceTimeout \/ GraceExpires
  BY <1>2, <1>7, WakeCases DEF GraceExpires, clientVars
<1>8. CASE TaskError \/ TaskUnwind \/ AdminCancel \/ Shutdown
  BY <1>2, <1>8 DEF TaskError, TaskUnwind, AdminCancel, Shutdown, clientVars
<1>9. ASSUME NEW r \in Request,
             Enqueue(r) \/ EnqueueFull(r) \/ RouteReturn(r) \/ RouteLeave(r)
      PROVE  StreamProtocol'
  BY <1>2, <1>9 DEF Enqueue, EnqueueFull, RouteReturn, RouteLeave
<1>10. CASE UNCHANGED vars
  BY <1>2, <1>10 DEF vars, clientVars
<1> QED
  BY <1>3, <1>4, <1>5, <1>6, <1>7, <1>8, <1>9, <1>10 DEF Next, WorkerStep, TaskEnd, RouteStep

LEMMA LogStep == ASSUME IInv, [Next]_vars PROVE LoggedOnce'
<1> USE DEF IInv, TypeOK, LoggedOnce
<1>1. CASE WorkerFinish
  <2>1. SUFFICES ASSUME server = "up" PROVE LoggedOnce'
    BY <1>1 DEF WorkerFinish
  <2>2. /\ current \in Request /\ route[current] # "rejected" /\ UNCHANGED route
        /\ ~mustCancel
    BY <1>1, <2>1 DEF WorkerFinish, ServingInv, HeapInv
  <2>3. CASE task = "ok"
    BY <1>1, <2>2, <2>3 DEF WorkerFinish, Outcome
  <2>4. CASE task # "ok"
    <3>1. Outcome # "ok" /\ future[current] = "pending" /\ logged[current] = 0
      BY <1>1, <2>1, <2>2, <2>4 DEF WorkerFinish, Outcome, ResultInv, ServingInv
    <3>2. NotifyClient(current)
      BY <1>1, <3>1 DEF WorkerFinish
    <3>3. future'[current] # "pending" /\ logged'[current] = 1
      BY <2>2, <3>1, <3>2 DEF NotifyClient
    <3>4. \A r \in Request \ {current} : future'[r] = future[r] /\ logged'[r] = logged[r]
      BY <2>2, <3>2 DEF NotifyClient
    <3> QED
      BY <2>1, <2>2, <3>3, <3>4
  <2> QED
    BY <2>3, <2>4
<1>2. CASE TaskOk
  <2>1. current \in Request /\ future[current] = "pending" /\ route[current] # "rejected"
    BY <1>2 DEF TaskOk, ServingInv, HeapInv, ResultInv
  <2> QED
    BY <1>2, <2>1 DEF TaskOk
<1>3. ASSUME NEW r \in Request, EnqueueFull(r) PROVE LoggedOnce'
  <2>1. future[r] = "pending" /\ logged[r] = 0
    BY <1>3 DEF EnqueueFull, HeapInv, ResultInv
  <2> QED
    BY <1>3, <2>1 DEF EnqueueFull
<1>4. ASSUME NEW r \in Request, Enqueue(r) PROVE LoggedOnce'
  BY <1>4 DEF Enqueue
<1>5. ASSUME NEW r \in Request, RouteChunk(r) \/ RouteEnd(r) \/ RouteReturn(r) \/ RouteLeave(r)
      PROVE  LoggedOnce'
  <2>1. UNCHANGED <<future, logged, server>>
    BY <1>5 DEF RouteChunk, RouteEnd, RouteReturn, RouteLeave
  <2>2. \A q \in Request : (route'[q] = "rejected") <=> (route[q] = "rejected")
    BY <1>5 DEF RouteChunk, RouteEnd, RouteReturn, RouteLeave
  <2> QED
    BY <2>1, <2>2
<1>6. CASE UNCHANGED <<future, route, logged>> /\ (server' = server \/ server' = "stopping")
  BY <1>6
<1>7. CASE WorkerWake \/ GraceWake \/ GraceTimeout \/ GraceExpires
  BY <1>6, <1>7, WakeCases DEF GraceExpires, clientVars
<1>8. CASE TaskChunk \/ TaskError \/ TaskUnwind \/ AdminCancel \/ Shutdown
  BY <1>6, <1>8 DEF TaskChunk, TaskError, TaskUnwind, AdminCancel, Shutdown, clientVars
<1>9. CASE UNCHANGED vars
  BY <1>6, <1>9 DEF vars, clientVars
<1> QED
  BY <1>1, <1>2, <1>3, <1>4, <1>5, <1>7, <1>8, <1>9 DEF Next, WorkerStep, TaskEnd, RouteStep

-----------------------------------------------------------------------------
(* Theorems *)

(* IInv holds in the initial state and every step of the specification,    *)
(* stuttering included, preserves it.                                      *)
THEOREM InductiveInvariant == Spec => []IInv
<1>1. Init => IInv
  <2> SUFFICES ASSUME Init PROVE IInv
    OBVIOUS
  <2>1. TypeOK
    <3>1. streamQueue \in [Request -> Seq(Item)]
      BY DEF Init
    <3>2. mustCancel \in BOOLEAN /\ inGrace \in BOOLEAN
      BY DEF Init
    <3>3. /\ stats \in [size : Nat, in_progress : {0, 1}]
          /\ lastServed \in [priority : Nat, threshold : BOOLEAN]
      BY DEF Init
    <3> QED
      BY <3>1, <3>2, <3>3 DEF Init, TypeOK, TaskState, Canceller, FutureState, RouteState
  <2>2. ServingInv
    BY FS_EmptySet DEF Init, ServingInv
  <2>3. HeapInv /\ ResultInv /\ OnlyOwnerCancels /\ NoOvertaking /\ LoggedOnce
    BY ConstantsAssumption DEF Init, HeapInv, ResultInv, OnlyOwnerCancels, NoOvertaking, LoggedOnce
  <2>4. StreamProtocol
    BY DEF Init, StreamProtocol
  <2> QED
    BY <2>1, <2>2, <2>3, <2>4 DEF IInv
<1>2. IInv /\ [Next]_vars => IInv'
  BY TypeStep, ServingStep, HeapStep, ResultStep, StreamStep, OwnerStep, OrderStep, LogStep DEF IInv
<1> QED
  BY <1>1, <1>2, PTL DEF Spec

(* Every variable of the queue keeps its type. *)
THEOREM TypeCorrect == Spec => []TypeOK
<1>1. IInv => TypeOK
  BY DEF IInv
<1> QED
  BY <1>1, InductiveInvariant, PTL

(* wait_for_idle is right to trust the two counters of _queue_stats: when  *)
(* both are zero no accepted request is without its result.                *)
THEOREM IdleIsDrained == Spec => []IdleMeansDrained
<1>1. IInv => IdleMeansDrained
  <2> SUFFICES ASSUME IInv, stats.size = 0, stats.in_progress = 0 PROVE IdleMeansDrained
    BY DEF IdleMeansDrained
  <2>1. pending = {}
    BY HeapSize DEF IInv, TypeOK, ServingInv
  <2>2. current = NoRequest
    BY DEF IInv, ServingInv
  <2> QED
    BY <2>1, <2>2, ConstantsAssumption DEF IInv, ResultInv, IdleMeansDrained
<1> QED
  BY <1>1, InductiveInvariant, PTL

(* stream_response never meets a sentinel before the result, nor a chunk   *)
(* after a sentinel.                                                       *)
THEOREM StreamIsOrderly == Spec => []StreamProtocol
<1>1. IInv => StreamProtocol
  BY DEF IInv
<1> QED
  BY <1>1, InductiveInvariant, PTL

(* No client's departure cancels the request of another client. *)
THEOREM CancelsAreTargeted == Spec => []OnlyOwnerCancels
<1>1. IInv => OnlyOwnerCancels
  BY DEF IInv
<1> QED
  BY <1>1, InductiveInvariant, PTL

(* The heap serves by priority, and first come first served within one. *)
THEOREM OrderIsKept == Spec => []NoOvertaking
<1>1. IInv => NoOvertaking
  BY DEF IInv
<1> QED
  BY <1>1, InductiveInvariant, PTL

(* The usage log has one entry per ended request. *)
THEOREM LogIsExact == Spec => []LoggedOnce
<1>1. IInv => LoggedOnce
  BY DEF IInv
<1> QED
  BY <1>1, InductiveInvariant, PTL

(* A resolved future is never resolved again. *)
THEOREM ResultsAreFinal == Spec => FutureIsFinal
<1>1. IInv /\ [Next]_vars => \A r \in Request : future[r] # "pending" => future'[r] = future[r]
  <2> SUFFICES ASSUME IInv, [Next]_vars,
                      NEW r \in Request, future[r] # "pending"
               PROVE  future'[r] = future[r]
    OBVIOUS
  <2>1. future \in [Request -> FutureState]
    BY DEF IInv, TypeOK
  <2>2. CASE WorkerFinish
    BY <2>1, <2>2 DEF WorkerFinish, NotifyClient
  <2>3. CASE TaskOk
    <3>1. current # r
      BY <2>3 DEF TaskOk, IInv, ServingInv, ResultInv
    <3> QED
      BY <2>1, <2>3, <3>1 DEF TaskOk
  <2>4. CASE WorkerWake \/ GraceWake \/ GraceTimeout \/ GraceExpires
    BY <2>4, WakeCases DEF GraceExpires, clientVars
  <2>5. CASE TaskChunk \/ TaskError \/ TaskUnwind \/ AdminCancel \/ Shutdown
    BY <2>5 DEF TaskChunk, TaskError, TaskUnwind, AdminCancel, Shutdown, clientVars
  <2>6. ASSUME NEW q \in Request,
               Enqueue(q) \/ EnqueueFull(q) \/ RouteStep(q) \/ RouteLeave(q)
        PROVE  UNCHANGED future
    BY <2>6 DEF Enqueue, EnqueueFull, RouteStep, RouteChunk, RouteEnd, RouteReturn, RouteLeave
  <2>7. CASE UNCHANGED vars
    BY <2>7 DEF vars, clientVars
  <2> QED
    BY <2>2, <2>3, <2>4, <2>5, <2>6, <2>7 DEF Next, WorkerStep, TaskEnd
<1> QED
  BY <1>1, InductiveInvariant, PTL DEF Spec, FutureIsFinal

(* The grace period is respected by every way of taking a request: a fresh *)
(* wake-up, the turn after a finished request, and the two ends of the     *)
(* grace wait.  Needs only that the head is what is taken.                 *)
THEOREM GraceIsRespected == Spec => GraceRespected
<1> DEFINE Taken == current' # current /\ current' # NoRequest
           Held  == /\ ThresholdEnabled /\ lastServed'.threshold
                    /\ Priority[current'] > lastServed'.priority
<1>1. IInv /\ [Next]_vars => (Taken /\ Held => ~inGrace')
  <2> SUFFICES ASSUME IInv, [Next]_vars, Taken, Held PROVE ~inGrace'
    OBVIOUS
  <2>1. ASSUME NEW r \in pending, Pop(r), ~GraceHolds(lastServed', inGrace') PROVE ~inGrace'
    BY <2>1 DEF Pop, GraceHolds
  <2>2. CASE WorkerWake
    <3>1. UNCHANGED <<lastServed, inGrace>>
      BY <2>2 DEF WorkerWake
    <3>2. ~\E place \in {"waiting", "grace"} : Suspend(place)
      BY DEF Suspend
    <3> QED
      BY <2>1, <2>2, <3>1, <3>2 DEF WorkerWake, LoopTop
  <2>3. CASE WorkerFinish
    <3>1. ~\E place \in {"waiting", "grace"} : Suspend(place)
      BY DEF Suspend
    <3> QED
      BY <2>1, <2>3, <3>1 DEF WorkerFinish, LoopTop
  <2>4. CASE GraceWake
    <3>1. PICK r \in pending : Priority[r] <= lastServed.priority /\ Pop(r)
      BY <2>4 DEF GraceWake
    <3>2. current' = r /\ lastServed' = lastServed /\ Priority[r] \in Nat /\ lastServed.priority \in Nat
      BY <2>4, <3>1, ConstantsAssumption DEF GraceWake, Pop, IInv, TypeOK
    <3> QED
      BY <3>1, <3>2
  <2>5. CASE GraceTimeout
    BY <2>5 DEF GraceTimeout
  <2>6. CASE UNCHANGED current
    BY <2>6
  <2>7. CASE GraceExpires \/ TaskChunk \/ TaskEnd \/ AdminCancel \/ Shutdown
    BY <2>6, <2>7 DEF GraceExpires, TaskChunk, TaskEnd, TaskOk, TaskError, TaskUnwind, AdminCancel,
                      Shutdown, workerVars
  <2>8. ASSUME NEW q \in Request,
               Enqueue(q) \/ EnqueueFull(q) \/ RouteStep(q) \/ RouteLeave(q)
        PROVE  UNCHANGED current
    BY <2>8 DEF Enqueue, EnqueueFull, RouteStep, RouteChunk, RouteEnd, RouteReturn, RouteLeave, workerVars
  <2> QED
    BY <2>2, <2>3, <2>4, <2>5, <2>6, <2>7, <2>8 DEF Next, WorkerStep, vars, workerVars
<1> QED
  BY <1>1, InductiveInvariant, PTL DEF Spec, GraceRespected

-----------------------------------------------------------------------------
(* The refinement of PriorityServer *)

Refused == {r \in Request : route[r] = "rejected"}
Ended == {r \in Request : future[r] # "pending"}

(* The size of the heap is the same in both modules. *)
LEMMA SameSize == \A S : Server!Cardinality(S) = Cardinality(S)
  BY DEF Server!Cardinality, Cardinality, Server!IsFiniteSet, IsFiniteSet

(* Taking a request from the heap, or none, is the server's choice. *)
LEMMA TakeStep ==
    ASSUME IInv,
           (\E place \in {"waiting", "grace"} : Suspend(place)) \/ (\E r \in pending : Pop(r))
    PROVE  Server!Take
  <1>1. ASSUME NEW place, Suspend(place) PROVE Server!Take
    BY <1>1 DEF Suspend, Server!Take
  <1>2. ASSUME NEW r \in pending, Pop(r) PROVE Server!Take
    BY <1>2 DEF Pop, IsHead, Before, Server!Take, Server!Precedes
  <1> QED
    BY <1>1, <1>2

(* Every step of the queue is a step of PriorityServer or none. *)
LEMMA RefinementStep == ASSUME IInv, [Next]_vars PROVE [Server!Next]_(Server!vars)
<1> USE DEF Server!vars
<1>1. CASE WorkerWake \/ GraceWake \/ GraceTimeout
  <2>1. current = NoRequest
    BY <1>1 DEF WorkerWake, GraceWake, GraceTimeout, IInv, ServingInv
  <2>2. UNCHANGED <<putTime, clock, route, future>>
    BY <1>1, WakeCases DEF clientVars
  <2>3. Server!Take
    BY <1>1, WakeCases, TakeStep
  <2> QED
    BY <2>1, <2>2, <2>3 DEF Server!Next, Server!Turn
<1>2. CASE WorkerFinish
  <2>1. current \in Request /\ current # NoRequest
    BY <1>2 DEF WorkerFinish, IInv, TypeOK, ServingInv, TaskDone
  <2>2. UNCHANGED <<putTime, clock, route>>
    BY <1>2 DEF WorkerFinish
  <2>3. Server!Take
    BY <1>2, LoopTopCases, TakeStep DEF WorkerFinish
  <2>4. Ended' = Ended \cup {current}
    <3>1. CASE Outcome = "ok" /\ UNCHANGED future
      BY <2>1, <3>1 DEF Outcome, IInv, ResultInv, Ended
    <3>2. CASE NotifyClient(current)
      BY <2>1, <3>2 DEF NotifyClient, IInv, TypeOK, Ended
    <3> QED
      BY <1>2, <3>1, <3>2 DEF WorkerFinish
  <2>5. Server!Finish
    BY <2>1, <2>4 DEF Server!Finish, Ended
  <2> QED
    BY <2>2, <2>3, <2>4, <2>5 DEF Server!Next, Server!Turn, Ended
<1>3. CASE TaskOk
  <2>1. current \in Request /\ current # NoRequest
    BY <1>3 DEF TaskOk, IInv, TypeOK, ServingInv
  <2>2. Ended' = Ended \cup {current}
    BY <1>3, <2>1 DEF TaskOk, IInv, TypeOK, Ended
  <2>3. UNCHANGED <<pending, putTime, clock, route, current>>
    BY <1>3 DEF TaskOk, queueVars
  <2> QED
    BY <2>1, <2>2, <2>3 DEF Server!Next, Server!Finish, Ended
<1>4. ASSUME NEW r \in Request, Enqueue(r) PROVE Server!Arrive(r)
  <2>1. Server!Unseen(r)
    BY <1>4 DEF Enqueue, Server!Unseen, IInv, HeapInv
  <2>2. Refused' = Refused
    BY <1>4 DEF Enqueue, Refused, IInv, TypeOK
  <2>3. UNCHANGED <<current, future>>
    BY <1>4 DEF Enqueue, workerVars
  <2> QED
    BY <1>4, <2>1, <2>2, <2>3, SameSize DEF Enqueue, Server!Arrive, Refused
<1>5. ASSUME NEW r \in Request, EnqueueFull(r) PROVE Server!Refuse(r)
  <2>1. Refused' = Refused \cup {r}
    BY <1>5 DEF EnqueueFull, Refused, IInv, TypeOK
  <2>2. Server!Unseen(r)
    <3>1. putTime[r] = 0
      BY <1>5 DEF EnqueueFull, IInv, HeapInv
    <3> QED
      BY <1>5, <3>1 DEF EnqueueFull, Server!Unseen
  <2> QED
    BY <1>5, <2>1, <2>2, SameSize DEF EnqueueFull, Server!Refuse, Refused, queueVars, workerVars
<1>6. ASSUME NEW r \in Request, RouteStep(r) \/ RouteLeave(r)
      PROVE  UNCHANGED <<pending, putTime, clock, current, future, Refused>>
  <2>1. UNCHANGED <<pending, putTime, clock, current, future>>
    BY <1>6 DEF RouteStep, RouteChunk, RouteEnd, RouteReturn, RouteLeave, queueVars, workerVars
  <2>2. \/ UNCHANGED route
        \/ /\ route[r] # "rejected"
           /\ \E x \in {"answered", "errored", "left"} : route' = [route EXCEPT ![r] = x]
    BY <1>6 DEF RouteStep, RouteChunk, RouteEnd, RouteReturn, RouteLeave
  <2> QED
    BY <2>1, <2>2 DEF Refused, IInv, TypeOK
<1>7. CASE GraceExpires \/ TaskChunk \/ TaskError \/ TaskUnwind \/ AdminCancel \/ Shutdown
           \/ UNCHANGED vars
  BY <1>7 DEF GraceExpires, TaskChunk, TaskError, TaskUnwind, AdminCancel, Shutdown,
              vars, queueVars, workerVars, clientVars
<1> QED
  BY <1>1, <1>2, <1>3, <1>4, <1>5, <1>6, <1>7
  DEF Next, WorkerStep, TaskEnd, Server!Next, Refused

(* The request queue implements the priority server it is built to be: one *)
(* request at a time, in priority order, each leaving with an outcome.     *)
THEOREM QueueImplementsServer == Spec => ImplementsPriorityServer
<1>1. Init => Server!Init
  BY DEF Init, Server!Init
<1>2. IInv /\ [Next]_vars => [Server!Next]_(Server!vars)
  BY RefinementStep
<1> QED
  BY <1>1, <1>2, InductiveInvariant, PTL DEF Spec, ImplementsPriorityServer, Server!Spec

=============================================================================
