---------------------------- MODULE RequestQueue ----------------------------
(***************************************************************************)
(* MERCURY's serial request queue (app_queue/request_queue.py), the chat   *)
(* route that feeds it (core/routes_chat_completions.py) and the shutdown  *)
(* of its worker (core/lifespan.py).                                       *)
(*                                                                         *)
(* Everything runs on one asyncio event loop, so a step of this            *)
(* specification is the code between two suspension points of a coroutine. *)
(* The coroutines are: one HTTP handler per request, the worker            *)
(* _run_worker, the sub-task _process_one it awaits, an administrator and  *)
(* the lifespan handler.                                                   *)
(***************************************************************************)
EXTENDS Naturals, Sequences, FiniteSets

CONSTANTS
    Request,            \* requests that may reach POST /v1/chat/completions
    Streaming,          \* those with "stream": true
    Priority,           \* users[].priority of the sender (lower is served first)
    Threshold,          \* requests of users with threshold = True
    ThresholdEnabled,   \* config["priority_threshold_enabled"]
    QueueMaxSize,       \* config["queue_max_size"]
    MaxBuffered,        \* bound of the model: chunks waiting in one stream_queue
    NoRequest           \* None, for _current_request

ASSUME ConstantsAssumption ==
    /\ IsFiniteSet(Request)
    /\ Streaming \subseteq Request
    /\ Threshold \subseteq Request
    /\ Priority \in [Request -> Nat]
    /\ ThresholdEnabled \in BOOLEAN
    /\ QueueMaxSize \in Nat
    /\ MaxBuffered \in Nat
    /\ NoRequest \notin Request

VARIABLES
    pending,     \* _pending: the requests in the heap
    putTime,     \* _HeapItem.put_time; 0 for a request never put
    clock,       \* time.monotonic(), as the number of enqueues so far
    stats,       \* _queue_stats
    worker,      \* where _run_worker is suspended
    mustCancel,  \* worker_task.cancel() hit an await that had already completed
    current,     \* _current_request
    task,        \* the state of _current_task
    canceller,   \* history: who cancelled _current_task
    lastServed,  \* _last_served_priority and _last_served_threshold
    inGrace,     \* monotonic() - _last_served_time < priority_threshold_seconds
    future,      \* response_future of every request
    streamQueue, \* stream_queue of every request
    route,       \* where the HTTP handler of every request is
    logged,      \* history: number of usage log entries of every request
    server       \* uvicorn: "up", or "stopping" once the lifespan ends

queueVars  == <<pending, putTime, clock, stats>>
workerVars == <<worker, mustCancel, current, task, canceller, lastServed, inGrace>>
clientVars == <<future, streamQueue, route, logged>>
vars == <<queueVars, workerVars, clientVars, server>>

Item == {"chunk", "end"}        \* "end" is the sentinel None
FutureState == {"pending", "result", "exception", "cancelled"}
RouteState == {"new", "streaming", "awaiting", "answered", "errored", "left", "rejected"}
OpenRoute == {"streaming", "awaiting"}
TaskState == {"none", "running", "cancelling", "ok", "error", "cancelled"}
TaskDone == {"ok", "error", "cancelled"}
Canceller == Request \cup {NoRequest, "admin", "shutdown"}

TypeOK ==
    /\ pending \subseteq Request
    /\ putTime \in [Request -> Nat]
    /\ clock \in Nat
    /\ stats \in [size : Nat, in_progress : {0, 1}]
    /\ worker \in {"waiting", "grace", "serving", "stopped"}
    /\ mustCancel \in BOOLEAN
    /\ current \in Request \cup {NoRequest}
    /\ task \in TaskState
    /\ canceller \in Canceller
    /\ lastServed \in [priority : Nat, threshold : BOOLEAN]
    /\ inGrace \in BOOLEAN
    /\ future \in [Request -> FutureState]
    /\ streamQueue \in [Request -> Seq(Item)]
    /\ route \in [Request -> RouteState]
    /\ logged \in [Request -> Nat]
    /\ server \in {"up", "stopping"}

Init ==
    /\ pending = {}
    /\ putTime = [r \in Request |-> 0]
    /\ clock = 0
    /\ stats = [size |-> 0, in_progress |-> 0]
    /\ worker = "waiting"
    /\ mustCancel = FALSE
    /\ current = NoRequest
    /\ task = "none"
    /\ canceller = NoRequest
    /\ lastServed = [priority |-> 0, threshold |-> FALSE]
    /\ inGrace = FALSE
    /\ future = [r \in Request |-> "pending"]
    /\ streamQueue = [r \in Request |-> <<>>]
    /\ route = [r \in Request |-> "new"]
    /\ logged = [r \in Request |-> 0]
    /\ server = "up"

-----------------------------------------------------------------------------
(* Faulty variants.  Definitions named ..._F, one before the definition     *)
(* each of them varies, are plausible bugs; no specification uses them.     *)
(* Exchanging a definition for its variant breaks the property named in     *)
(* the variant's comment.                                                   *)

(* Size is only refreshed when an item leaves the heap: IdleMeansDrained. *)
Enqueue_F(r) ==
    /\ server = "up" /\ route[r] = "new"
    /\ Cardinality(pending) < QueueMaxSize
    /\ pending' = pending \cup {r}
    /\ clock' = clock + 1
    /\ putTime' = [putTime EXCEPT ![r] = clock + 1]
    /\ route' = [route EXCEPT ![r] = IF r \in Streaming THEN "streaming" ELSE "awaiting"]
    /\ UNCHANGED <<stats, workerVars, future, streamQueue, logged, server>>

(* enqueue(), called by the chat route.  put_time is read and the item is  *)
(* pushed without a suspension point in between: the lock of _condition is *)
(* never held by a suspended coroutine.                                    *)

Enqueue(r) ==
    /\ server = "up" /\ route[r] = "new"
    /\ Cardinality(pending) < QueueMaxSize
    /\ pending' = pending \cup {r}
    /\ clock' = clock + 1
    /\ putTime' = [putTime EXCEPT ![r] = clock + 1]
    /\ stats' = [stats EXCEPT !.size = Cardinality(pending')]
    /\ route' = [route EXCEPT ![r] = IF r \in Streaming THEN "streaming" ELSE "awaiting"]
    /\ UNCHANGED <<workerVars, future, streamQueue, logged, server>>

(* The rejection is not logged: LoggedOnce. *)
EnqueueFull_F(r) ==
    /\ server = "up" /\ route[r] = "new"
    /\ Cardinality(pending) >= QueueMaxSize
    /\ route' = [route EXCEPT ![r] = "rejected"]
    /\ UNCHANGED <<queueVars, workerVars, future, streamQueue, logged, server>>

(* The heap is full: log_rejection and "Queue full", answered with a 503.  *)
EnqueueFull(r) ==
    /\ server = "up" /\ route[r] = "new"
    /\ Cardinality(pending) >= QueueMaxSize
    /\ route' = [route EXCEPT ![r] = "rejected"]
    /\ logged' = [logged EXCEPT ![r] = @ + 1]
    /\ UNCHANGED <<queueVars, workerVars, future, streamQueue, server>>

-----------------------------------------------------------------------------
(* _run_worker *)

(* Ties are broken the wrong way round: NoOvertaking. *)
Before_F(r, q) ==
    \/ Priority[r] < Priority[q]
    \/ Priority[r] = Priority[q] /\ putTime[r] > putTime[q]

(* The order of _HeapItem: by priority, then by put_time. *)
Before(r, q) ==
    \/ Priority[r] < Priority[q]
    \/ Priority[r] = Priority[q] /\ putTime[r] < putTime[q]

IsHead(r) == r \in pending /\ \A q \in pending \ {r} : Before(r, q)

(* in_progress is incremented instead of set: TypeOK. *)
Pop_F(r) ==
    /\ IsHead(r)
    /\ pending' = pending \ {r}
    /\ stats' = [size |-> Cardinality(pending'), in_progress |-> stats.in_progress + 1]
    /\ current' = r
    /\ task' = "running"
    /\ canceller' = NoRequest
    /\ worker' = "serving"

(* heappop, then the assignments up to create_task(_process_one).  There is *)
(* no suspension point before `await _current_task`.                        *)
Pop(r) ==
    /\ IsHead(r)
    /\ pending' = pending \ {r}
    /\ stats' = [size |-> Cardinality(pending'), in_progress |-> 1]
    /\ current' = r
    /\ task' = "running"
    /\ canceller' = NoRequest
    /\ worker' = "serving"

(* The worker suspends in a wait on _condition, serving nobody. *)
Suspend(place) ==
    /\ worker' = place
    /\ current' = NoRequest
    /\ task' = "none"
    /\ canceller' = NoRequest
    /\ stats' = [stats EXCEPT !.in_progress = 0]
    /\ UNCHANGED pending

(* The grace period holds the head of the heap back: the last request      *)
(* served had a threshold, the head has a worse priority, time remains.    *)
GraceHolds(last, timeLeft) ==
    /\ ThresholdEnabled /\ last.threshold /\ timeLeft
    /\ \E r \in pending : IsHead(r) /\ Priority[r] > last.priority

(* From the top of the loop to its next suspension point. *)
LoopTop(last, timeLeft) ==
    \/ pending = {} /\ Suspend("waiting")
    \/ GraceHolds(last, timeLeft) /\ Suspend("grace")
    \/ ~GraceHolds(last, timeLeft) /\ \E r \in pending : Pop(r)

(* _condition.wait_for(len(_pending) > 0) returns. *)
WorkerWake ==
    /\ worker = "waiting" /\ pending # {}
    /\ LoopTop(lastServed, inGrace)
    /\ UNCHANGED <<putTime, clock, mustCancel, lastServed, inGrace, clientVars, server>>

(* Any notification ends the grace period: GraceRespected. *)
GraceWake_F ==
    /\ worker = "grace"
    /\ \E r \in pending : Pop(r)
    /\ UNCHANGED <<putTime, clock, mustCancel, lastServed, inGrace, clientVars, server>>

(* The wait of the grace period ends because a request that is at least as *)
(* urgent reached the head, ...                                            *)
GraceWake ==
    /\ worker = "grace"
    /\ \E r \in pending : Priority[r] <= lastServed.priority /\ Pop(r)
    /\ UNCHANGED <<putTime, clock, mustCancel, lastServed, inGrace, clientVars, server>>

(* ... or because asyncio.wait_for timed out. *)
GraceTimeout ==
    /\ worker = "grace" /\ ~inGrace
    /\ \E r \in pending : Pop(r)
    /\ UNCHANGED <<putTime, clock, mustCancel, lastServed, inGrace, clientVars, server>>

GraceExpires ==
    /\ inGrace
    /\ inGrace' = FALSE
    /\ UNCHANGED <<queueVars, worker, mustCancel, current, task, canceller, lastServed,
                   clientVars, server>>

(* `await _current_task` returns or raises: the except branches, the       *)
(* finally block, and on to the next suspension point of the loop.  A      *)
(* cancellation of the worker that arrived after the task was done is      *)
(* raised here too, and takes the same branch.                             *)
Outcome == IF mustCancel THEN "cancelled" ELSE task

(* The future is overwritten without asking done(): FutureIsFinal. *)
NotifyClient_F(r) ==
    /\ future' = [future EXCEPT ![r] = IF Outcome = "cancelled" THEN "cancelled" ELSE "exception"]
    /\ streamQueue' = [streamQueue EXCEPT ![r] = IF r \in Streaming THEN Append(@, "end") ELSE @]
    /\ logged' = [logged EXCEPT ![r] = @ + 1]

(* No sentinel after a failure: HandlersReturn. *)
NotifyClient_F2(r) ==
    /\ future' = [future EXCEPT ![r] =
         IF @ # "pending" THEN @
         ELSE IF Outcome = "cancelled" THEN "cancelled" ELSE "exception"]
    /\ logged' = [logged EXCEPT ![r] = @ + 1]
    /\ UNCHANGED streamQueue

(* A cancelled request is logged and gets no outcome. *)
NotifyClient_F3(r) ==
    /\ future' = [future EXCEPT ![r] =
         IF @ # "pending" \/ Outcome = "cancelled" THEN @ ELSE "exception"]
    /\ streamQueue' = [streamQueue EXCEPT ![r] = IF r \in Streaming THEN Append(@, "end") ELSE @]
    /\ logged' = [logged EXCEPT ![r] = @ + 1]

NotifyClient(r) ==
    /\ future' = [future EXCEPT ![r] =
         IF @ # "pending" THEN @
         ELSE IF Outcome = "cancelled" THEN "cancelled" ELSE "exception"]
    /\ streamQueue' = [streamQueue EXCEPT ![r] = IF r \in Streaming THEN Append(@, "end") ELSE @]
    /\ logged' = [logged EXCEPT ![r] = @ + 1]

WorkerFinish ==
    /\ worker = "serving" /\ task \in TaskDone
    /\ \/ Outcome = "ok" /\ UNCHANGED <<future, streamQueue, logged>>
       \/ Outcome # "ok" /\ NotifyClient(current)
    /\ lastServed' = [priority |-> Priority[current], threshold |-> current \in Threshold]
    /\ inGrace' = (ThresholdEnabled /\ current \in Threshold)
    /\ mustCancel' = FALSE
    /\ LoopTop(lastServed', inGrace')
    /\ UNCHANGED <<putTime, clock, route, server>>

-----------------------------------------------------------------------------
(* _process_one, the sub-task *)

TaskChunk ==
    /\ task = "running" /\ current \in Streaming
    /\ Len(streamQueue[current]) < MaxBuffered
    /\ streamQueue' = [streamQueue EXCEPT ![current] = Append(@, "chunk")]
    /\ UNCHANGED <<queueVars, workerVars, future, route, logged, server>>

(* The sentinel is put (the queue is unbounded, put() does not suspend),   *)
(* the future resolved and the log written in one go.                      *)
TaskOk ==
    /\ task = "running"
    /\ task' = "ok"
    /\ future' = [future EXCEPT ![current] = "result"]
    /\ streamQueue' = [streamQueue EXCEPT ![current] =
         IF current \in Streaming THEN Append(@, "end") ELSE @]
    /\ logged' = [logged EXCEPT ![current] = @ + 1]
    /\ UNCHANGED <<queueVars, worker, mustCancel, current, canceller, lastServed, inGrace,
                   route, server>>

(* The sub-task puts the sentinel itself when it fails: StreamProtocol. *)
TaskError_F ==
    /\ task = "running"
    /\ task' = "error"
    /\ streamQueue' = [streamQueue EXCEPT ![current] =
         IF current \in Streaming THEN Append(@, "end") ELSE @]
    /\ UNCHANGED <<queueVars, worker, mustCancel, current, canceller, lastServed, inGrace,
                   future, route, logged, server>>

(* resolve_and_prepare, get_backend or backend.chat raised. *)
TaskError ==
    /\ task = "running"
    /\ task' = "error"
    /\ UNCHANGED <<queueVars, worker, mustCancel, current, canceller, lastServed, inGrace,
                   clientVars, server>>

(* The CancelledError reaches the coroutine and unwinds it. *)
TaskUnwind ==
    /\ task = "cancelling"
    /\ task' = "cancelled"
    /\ UNCHANGED <<queueVars, worker, mustCancel, current, canceller, lastServed, inGrace,
                   clientVars, server>>

(* Task.cancel(): without effect on a task that is done. *)
CancelTask(by) ==
    /\ task' = IF task = "running" THEN "cancelling" ELSE task
    /\ canceller' = IF task = "running" THEN by ELSE canceller

(* Cancels whatever is running: OnlyOwnerCancels. *)
CancelRequestIfCurrent_F(r) ==
    IF current # NoRequest /\ task \notin TaskDone
    THEN CancelTask(r)
    ELSE UNCHANGED <<task, canceller>>

(* cancel_request_if_current(request_id) *)
CancelRequestIfCurrent(r) ==
    IF current = r /\ task \notin TaskDone
    THEN CancelTask(r)
    ELSE UNCHANGED <<task, canceller>>

(* cancel_current_request(), the dashboard's cancel button. *)
AdminCancel ==
    /\ current # NoRequest /\ task = "running"
    /\ CancelTask("admin")
    /\ UNCHANGED <<queueVars, worker, mustCancel, current, lastServed, inGrace,
                   clientVars, server>>

-----------------------------------------------------------------------------
(* The HTTP handlers *)

RouteChunk(r) ==
    /\ route[r] = "streaming"
    /\ streamQueue[r] # <<>> /\ Head(streamQueue[r]) = "chunk"
    /\ streamQueue' = [streamQueue EXCEPT ![r] = Tail(@)]
    /\ UNCHANGED <<queueVars, workerVars, future, route, logged, server>>

(* The sentinel was read and the future is done: the error, if any, is     *)
(* forwarded.  A CancelledError in the future leaves the generator with    *)
(* completed = False, so the finally block asks for a cancellation.        *)
RouteEnd(r) ==
    /\ route[r] = "streaming"
    /\ streamQueue[r] # <<>> /\ Head(streamQueue[r]) = "end"
    /\ future[r] # "pending"
    /\ streamQueue' = [streamQueue EXCEPT ![r] = Tail(@)]
    /\ \/ /\ future[r] = "result"
          /\ route' = [route EXCEPT ![r] = "answered"]
          /\ UNCHANGED <<task, canceller>>
       \/ /\ future[r] = "exception"
          /\ route' = [route EXCEPT ![r] = "errored"]
          /\ UNCHANGED <<task, canceller>>
       \/ /\ future[r] = "cancelled"
          /\ route' = [route EXCEPT ![r] = "left"]
          /\ CancelRequestIfCurrent(r)
    /\ UNCHANGED <<queueVars, worker, mustCancel, current, lastServed, inGrace,
                   future, logged, server>>

(* The client of a stream is gone and the generator ends before the        *)
(* sentinel: return after is_disconnected(), GeneratorExit, CancelledError.*)
RouteLeave(r) ==
    /\ route[r] = "streaming"
    /\ route' = [route EXCEPT ![r] = "left"]
    /\ CancelRequestIfCurrent(r)
    /\ UNCHANGED <<queueVars, worker, mustCancel, current, lastServed, inGrace,
                   future, streamQueue, logged, server>>

(* `await item.response_future` of a request without streaming. *)
RouteReturn(r) ==
    /\ route[r] = "awaiting" /\ future[r] # "pending"
    /\ route' = [route EXCEPT ![r] = IF future[r] = "result" THEN "answered" ELSE "errored"]
    /\ UNCHANGED <<queueVars, workerVars, future, streamQueue, logged, server>>

-----------------------------------------------------------------------------
(* The lifespan ends: uvicorn (external) has stopped accepting requests and *)
(* waited for the open handlers, then worker_task.cancel() is called.  It   *)
(* cancels what the worker awaits: a wait on _condition raises and breaks   *)
(* the loop; an unfinished _current_task is cancelled in its place; if the  *)
(* task is done the worker is cancelled at its next resumption.             *)
Shutdown ==
    /\ server = "up" /\ \A r \in Request : route[r] \notin OpenRoute
    /\ server' = "stopping"
    /\ \/ /\ worker \in {"waiting", "grace"}
          /\ worker' = "stopped"
          /\ UNCHANGED <<task, canceller, mustCancel>>
       \/ /\ worker = "serving"
          /\ CancelTask("shutdown")
          /\ mustCancel' = (task \in TaskDone)
          /\ UNCHANGED worker
    /\ UNCHANGED <<queueVars, current, lastServed, inGrace, clientVars>>

WorkerStep == WorkerWake \/ GraceWake \/ GraceTimeout \/ WorkerFinish
TaskEnd == TaskOk \/ TaskError \/ TaskUnwind
RouteStep(r) == RouteChunk(r) \/ RouteEnd(r) \/ RouteReturn(r)

Next ==
    \/ WorkerStep
    \/ GraceExpires
    \/ TaskChunk
    \/ TaskEnd
    \/ AdminCancel
    \/ Shutdown
    \/ \E r \in Request : \/ Enqueue(r)
                          \/ EnqueueFull(r)
                          \/ RouteStep(r)
                          \/ RouteLeave(r)

Spec == Init /\ [][Next]_vars

(* The event loop runs every ready coroutine, time passes, and a backend   *)
(* call ends (httpx timeouts).  Clients and administrators promise nothing.*)
Fairness ==
    /\ WF_vars(WorkerStep)
    /\ WF_vars(GraceExpires)
    /\ WF_vars(TaskEnd)
    /\ \A r \in Request : WF_vars(RouteStep(r))

FairSpec == Spec /\ Fairness

-----------------------------------------------------------------------------
(* Properties *)

(* wait_for_idle (scheduler/executor.py) takes size = 0 and in_progress = 0 *)
(* for "no inference is in progress": whenever it reads these two counters, *)
(* every accepted request, even one whose client is gone, has its result.   *)
IdleMeansDrained ==
    stats.size = 0 /\ stats.in_progress = 0 =>
        \A r \in Request : putTime[r] > 0 => future[r] # "pending"

(* What stream_response relies on: when it reads the sentinel the future is *)
(* already resolved (so the 0.5 s wait never cancels it), and no chunk      *)
(* follows a sentinel, so no text is dropped from an answered stream.       *)
StreamProtocol ==
    \A r \in Request : \A i \in 1..Len(streamQueue[r]) :
        streamQueue[r][i] = "end" =>
            /\ future[r] # "pending"
            /\ \A j \in i..Len(streamQueue[r]) : streamQueue[r][j] = "end"

(* A client that leaves never cancels the request of somebody else, however *)
(* late its handler notices: the race named in the docstring of             *)
(* cancel_request_if_current.                                               *)
OnlyOwnerCancels == canceller \in {NoRequest, "admin", "shutdown", current}

(* Priority then FIFO, end to end: once r has been taken by the worker, no  *)
(* request that came earlier with a priority at least as good still waits.  *)
NoOvertaking ==
    \A q, r \in Request :
        /\ q \in pending
        /\ putTime[q] < putTime[r]
        /\ Priority[q] <= Priority[r]
        => r \in pending

(* The worker takes up a request of worse priority than the last one served *)
(* with a threshold only when priority_threshold_seconds have passed.       *)
GraceRespected ==
    [][ /\ current' # current /\ current' # NoRequest
        /\ ThresholdEnabled /\ lastServed'.threshold
        /\ Priority[current'] > lastServed'.priority
        => ~inGrace' ]_vars

(* set_result and set_exception are never called on a future that is done   *)
(* (InvalidStateError): a result, once there, stays what it is.             *)
FutureIsFinal ==
    [][ \A r \in Request : future[r] # "pending" => future'[r] = future[r] ]_vars

(* While the server is up every request that ended, and no other, has one   *)
(* entry in the usage log, whatever mix of cancellations and errors it met. *)
LoggedOnce ==
    server = "up" =>
        \A r \in Request :
            logged[r] = IF future[r] # "pending" \/ route[r] = "rejected" THEN 1 ELSE 0

(* Every handler that got its request into the queue comes back to its      *)
(* client, unless the client leaves first.                                  *)
HandlersReturn ==
    \A r \in Request : route[r] \in OpenRoute ~> route[r] \notin OpenRoute

(* The queue implements PriorityServer: whatever the cancellations, grace   *)
(* periods, departures and shutdowns, at each moment one request is served, *)
(* in priority order, and leaves the worker with an outcome, which no other *)
(* request can have given it.                                               *)
Server == INSTANCE PriorityServer WITH
    waiting <- pending,
    arrived <- putTime,
    tickets <- clock,
    refused <- {r \in Request : route[r] = "rejected"},
    serving <- current,
    ended <- {r \in Request : future[r] # "pending"},
    Capacity <- QueueMaxSize,
    Nobody <- NoRequest

ImplementsPriorityServer == Server!Spec

(* "c'est que le client est parti avant la fin -> on annule le worker pour  *)
(* ne pas gaspiller le GPU": no request is generated for a client that has  *)
(* left.                                                                    *)
NoWorkForGone ==
    current # NoRequest /\ route[current] = "left" => task # "running"

(* lifespan awaits worker_task after cancelling it, and then logs           *)
(* "Worker arrete": a shutdown, once begun, stops the worker.               *)
ShutdownCompletes == server = "stopping" ~> worker = "stopped"

=============================================================================
