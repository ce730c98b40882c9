----------------------------- MODULE AsyncJobs -----------------------------
(***************************************************************************)
(* MASTERMIND's asynchronous jobs (modules/async-jobs/index.ts): rows of   *)
(* the table async_jobs, the in-memory specs of the jobs not yet picked,   *)
(* the sequential worker, shell children, sub-agent runs with their report *)
(* (agent/subagent-job-delivery.ts), sandbox runs tracked by the run that  *)
(* hosts them (agent/run.ts), cancel() and the recovery after a restart.   *)
(*                                                                         *)
(* All of it runs on one event loop, against a database: an awaited query  *)
(* takes effect in the database in one step and the code behind the await  *)
(* runs in a later one.  Where that code only looks at the rows it got, it *)
(* belongs to the step of the query.                                       *)
(***************************************************************************)
EXTENDS Naturals, Sequences, FiniteSets

CONSTANTS
    Job,            \* job ids
    Kind,           \* "shell", "sub_agent" or "sandbox_run", of every job
    Agent,          \* the agent that does the work of every job
    MaxQueueSpecs,  \* MAX_QUEUE_SPECS
    NoJob,
    MaxCrashes,     \* bound of the model: crashes of the backend
    MaxFaults       \* bound of the model: queries and mkdirs that throw

ASSUME ConstantsAssumption ==
    /\ IsFiniteSet(Job)
    /\ Kind \in [Job -> {"shell", "sub_agent", "sandbox_run"}]
    /\ DOMAIN Agent = Job
    /\ MaxQueueSpecs \in Nat
    /\ NoJob \notin Job
    /\ MaxCrashes \in Nat /\ MaxFaults \in Nat

VARIABLES
    status,     \* column status of every row
    created,    \* the rows in the order of created_at
    specs,      \* keys of queueSpecs
    enq,        \* where the call of enqueue() for a job is
    cancelling, \* where a call of cancel() for a job is
    worker,     \* where workerTick() is
    cur,        \* the job it works on
    run,        \* the child process, sub-agent run or host run of a job
    signalled,  \* jobs whose child or run was sent a signal to stop
    sub,        \* where submit_subagent_report is
    completed,  \* subAgentDeliveryState.completed
    final,      \* the status a sandbox finalizer is about to write
    told,       \* history: what the user was told about a job; "nothing" when a
                \* message was due and failed
    dropped,    \* history: jobs the code let go of without an end or its alert
    ticking,    \* the worker's setInterval is armed
    up,         \* the backend runs
    crashes, faults

rowVars == <<status, created>>
workerVars == <<worker, cur>>
runVars == <<run, signalled>>
subVars == <<sub, completed>>
lifeVars == <<ticking, up, crashes>>
heard == <<told, dropped>>
vars == <<rowVars, specs, enq, cancelling, workerVars, runVars, subVars, final, heard,
          lifeVars, faults>>

Queueable == {j \in Job : Kind[j] # "sandbox_run"}
Sandbox == {j \in Job : Kind[j] = "sandbox_run"}
Terminal == {"done", "error", "cancelled"}
Status == {"absent", "queued", "running"} \cup Terminal
WorkerPlace == {"idle", "picked", "start", "spawn", "watch", "settle", "check", "deliver",
                "finish", "report", "report_threw", "recheck", "fail", "alert"}

TypeOK ==
    /\ status \in [Job -> Status]
    /\ created \in Seq(Job)
    /\ specs \subseteq Queueable
    /\ enq \in [Job -> {"none", "checked", "inserted", "returned"}]
    /\ cancelling \in [Job -> {"none", "read", "updated"}]
    /\ worker \in WorkerPlace
    /\ cur \in Job \cup {NoJob}
    /\ run \in [Job -> {"none", "alive", "ok", "failed"}]
    /\ signalled \subseteq Job /\ completed \subseteq Job
    /\ sub \in [Job -> {"none", "persist", "persisted"}]
    /\ final \in [Job -> Terminal \cup {"none"}]
    /\ told \in [Job -> SUBSET {"result", "rerun", "notice", "alert", "nothing"}]
    /\ dropped \subseteq Job
    /\ ticking \in BOOLEAN /\ up \in BOOLEAN
    /\ crashes \in 0..MaxCrashes /\ faults \in 0..MaxFaults

Init ==
    /\ status = [j \in Job |-> "absent"] /\ created = <<>>
    /\ specs = {}
    /\ enq = [j \in Job |-> "none"]
    /\ cancelling = [j \in Job |-> "none"]
    /\ worker = "idle" /\ cur = NoJob
    /\ run = [j \in Job |-> "none"] /\ signalled = {}
    /\ sub = [j \in Job |-> "none"] /\ completed = {}
    /\ final = [j \in Job |-> "none"]
    /\ told = [j \in Job |-> {}] /\ dropped = {}
    /\ ticking = TRUE /\ up = TRUE
    /\ crashes = 0 /\ faults = 0

-----------------------------------------------------------------------------
(* Definitions named ..._F are plausible bugs that no specification uses;  *)
(* each varies the definition that follows it.                             *)

SetStatus(j, s) == status' = [status EXCEPT ![j] = s]

Tell(j, what) == told' = [told EXCEPT ![j] = @ \cup {what}] /\ UNCHANGED dropped

(* agentMod.abort(agent): every run of the agent, whatever job it is for. *)
RunsOf(agent) ==
    {j \in Job : Kind[j] # "shell" /\ run[j] = "alive" /\ Agent[j] = agent}

(* SELECT id ... WHERE status = 'queued' ORDER BY created_at LIMIT 1 *)
QueuedAt(i) == status[created[i]] = "queued"
IsOldest(i) == QueuedAt(i) /\ \A k \in 1..(i - 1) : ~QueuedAt(k)

At(place) == up /\ worker = place
Goto(place) == worker' = place /\ UNCHANGED cur
Release == worker' = "idle" /\ cur' = NoJob

Fault == faults < MaxFaults /\ faults' = faults + 1

-----------------------------------------------------------------------------
(* enqueue() and enqueueSubAgent(): the size check, the INSERT, and only   *)
(* then the spec.                                                          *)

EnqueueCall(j) ==
    /\ up /\ enq[j] = "none" /\ Cardinality(specs) < MaxQueueSpecs
    /\ enq' = [enq EXCEPT ![j] = "checked"]
    /\ UNCHANGED <<rowVars, specs, cancelling, workerVars, runVars, subVars, final, heard,
                   lifeVars, faults>>

EnqueueInsert(j) ==
    /\ up /\ enq[j] = "checked"
    /\ SetStatus(j, "queued")
    /\ created' = Append(created, j)
    /\ enq' = [enq EXCEPT ![j] = "inserted"]
    /\ UNCHANGED <<specs, cancelling, workerVars, runVars, subVars, final, heard,
                   lifeVars, faults>>

EnqueueReturn(j) ==
    /\ up /\ enq[j] = "inserted"
    /\ specs' = specs \cup {j}
    /\ enq' = [enq EXCEPT ![j] = "returned"]
    /\ UNCHANGED <<rowVars, cancelling, workerVars, runVars, subVars, final, heard,
                   lifeVars, faults>>

-----------------------------------------------------------------------------
(* cancel(): the row is read, then overwritten, then the work is stopped.  *)

CancelRead(j) ==
    /\ up /\ cancelling[j] = "none" /\ status[j] \in {"queued", "running"}
    /\ cancelling' = [cancelling EXCEPT ![j] = "read"]
    /\ UNCHANGED <<rowVars, specs, enq, workerVars, runVars, subVars, final, heard,
                   lifeVars, faults>>

CancelUpdate(j) ==
    /\ up /\ cancelling[j] = "read"
    /\ SetStatus(j, "cancelled")
    /\ cancelling' = [cancelling EXCEPT ![j] = "updated"]
    /\ UNCHANGED <<created, specs, enq, workerVars, runVars, subVars, final, heard,
                   lifeVars, faults>>

(* A child is in the map running while the worker watches it. *)
CancelStop(j) ==
    /\ up /\ cancelling[j] = "updated"
    /\ specs' = specs \ {j}
    /\ signalled' = signalled \cup
           (IF Kind[j] # "shell" THEN RunsOf(Agent[j])
            ELSE IF cur = j /\ worker = "watch" THEN {j} ELSE {})
    /\ cancelling' = [cancelling EXCEPT ![j] = "none"]
    /\ UNCHANGED <<rowVars, enq, workerVars, run, subVars, final, heard, lifeVars,
                   faults>>

-----------------------------------------------------------------------------
(* workerTick() and runJob() *)

TickSelect ==
    /\ At("idle") /\ ticking
    /\ \E i \in 1..Len(created) : IsOldest(i) /\ cur' = created[i]
    /\ worker' = "picked"
    /\ UNCHANGED <<rowVars, specs, enq, cancelling, runVars, subVars, final, heard,
                   lifeVars, faults>>

(* Faulty: a row without a spec is passed over. *)
Picked_F ==
    /\ At("picked")
    /\ specs' = specs \ {cur}
    /\ IF cur \in specs THEN Goto("start") ELSE Release
    /\ UNCHANGED <<rowVars, enq, cancelling, runVars, subVars, final, heard, lifeVars, faults>>

(* The spec leaves the map before the job starts; a row without a spec is  *)
(* failed, so that it does not stay the oldest for ever.                   *)
Picked ==
    /\ At("picked")
    /\ specs' = specs \ {cur}
    /\ Goto(IF cur \in specs THEN "start" ELSE "fail")
    /\ UNCHANGED <<rowVars, enq, cancelling, runVars, subVars, final, heard, lifeVars,
                   faults>>

MarkRunning ==
    /\ At("start")
    /\ SetStatus(cur, "running")
    /\ Goto("spawn")
    /\ UNCHANGED <<created, specs, enq, cancelling, runVars, subVars, final, heard,
                   lifeVars, faults>>

(* spawn() of the shell, or agentMod.run(), which first aborts what the    *)
(* agent is doing.                                                         *)
Spawn ==
    /\ At("spawn")
    /\ run' = [run EXCEPT ![cur] = "alive"]
    /\ signalled' = signalled \cup (IF Kind[cur] = "shell" THEN {} ELSE RunsOf(Agent[cur]))
    /\ Goto("watch")
    /\ UNCHANGED <<rowVars, specs, enq, cancelling, subVars, final, heard, lifeVars,
                   faults>>

(* A sub-agent that is gone, disabled or not a sub-agent fails its job. *)
SpawnRefused ==
    /\ At("spawn") /\ Kind[cur] = "sub_agent"
    /\ Goto("fail")
    /\ UNCHANGED <<rowVars, specs, enq, cancelling, runVars, subVars, final, heard,
                   lifeVars, faults>>

(* A child or a run ends, by itself or because it was told to. *)
RunEnds(j) ==
    /\ up /\ run[j] = "alive" /\ sub[j] = "none" /\ j \in Queueable
    /\ \E result \in {"ok", "failed"} : run' = [run EXCEPT ![j] = result]
    /\ UNCHANGED <<rowVars, specs, enq, cancelling, workerVars, signalled, subVars, final,
                   heard, lifeVars, faults>>

(* The shell exits, or the deadline behind its timeout passes. *)
ShellOver ==
    /\ At("watch") /\ Kind[cur] = "shell"
    /\ \/ run[cur] # "alive" /\ UNCHANGED signalled
       \/ run[cur] = "alive" /\ signalled' = signalled \cup {cur}
    /\ Goto("check")
    /\ UNCHANGED <<rowVars, specs, enq, cancelling, run, subVars, final, heard,
                   lifeVars, faults>>

CheckCancelled ==
    /\ At("check")
    /\ \/ status[cur] = "cancelled" /\ Release
       \/ status[cur] # "cancelled" /\ Goto(IF run[cur] = "ok" THEN "deliver" ELSE "fail")
    /\ UNCHANGED <<rowVars, specs, enq, cancelling, runVars, subVars, final, heard,
                   lifeVars, faults>>

(* Faulty: a failed delivery is reported by failJob() as well. *)
Deliver_F ==
    /\ At("deliver")
    /\ Tell(cur, "result")
    /\ \E place \in {"finish", "fail"} : Goto(place)
    /\ UNCHANGED <<rowVars, specs, enq, cancelling, runVars, subVars, final, lifeVars,
                   faults>>

(* completeJob(): failJob() when the agent was removed, or the directory   *)
(* (its mkdir may throw, see WorkerThrows) and the chat message with the   *)
(* result, which may fail.                                                 *)
Deliver ==
    /\ At("deliver")
    /\ \/ Tell(cur, "result") /\ Goto("finish")
       \/ Tell(cur, "nothing") /\ Goto("finish")
       \/ UNCHANGED heard /\ Goto("fail")
    /\ UNCHANGED <<rowVars, specs, enq, cancelling, runVars, subVars, final, lifeVars,
                   faults>>

(* Faulty: delivery errors are not looked at. *)
FinishJob_F ==
    /\ At("finish")
    /\ SetStatus(cur, "done")
    /\ Release
    /\ UNCHANGED <<created, specs, enq, cancelling, runVars, subVars, final, heard,
                   lifeVars, faults>>

(* completeJob(): the row; Telegram may have failed where the chat did not. *)
FinishJob ==
    /\ At("finish")
    /\ \/ "result" \in told[cur] /\ SetStatus(cur, "done")
       \/ SetStatus(cur, "error")
    /\ Release
    /\ UNCHANGED <<created, specs, enq, cancelling, runVars, subVars, final, heard,
                   lifeVars, faults>>

(* failJob(): the row, then the alert, which may fail. *)
FailJob ==
    /\ At("fail")
    /\ SetStatus(cur, "error")
    /\ Goto("alert")
    /\ UNCHANGED <<created, specs, enq, cancelling, runVars, subVars, final, heard,
                   lifeVars, faults>>

Alert ==
    /\ At("alert")
    /\ Tell(cur, "alert") \/ Tell(cur, "nothing")
    /\ Release
    /\ UNCHANGED <<rowVars, specs, enq, cancelling, runVars, subVars, final, lifeVars,
                   faults>>

(* A query of the worker or the mkdir of a job's directory throws: the     *)
(* catch of workerTick() lets go of the job, whose row stays as it is.     *)
WorkerThrows ==
    /\ up /\ worker \in {"start", "check", "deliver", "finish", "report", "report_threw",
                        "recheck", "fail"}
    /\ cur \notin completed
    /\ Fault
    /\ dropped' = dropped \cup {j \in {cur} : status[j] = "running"}
    /\ Release
    /\ UNCHANGED <<rowVars, specs, enq, cancelling, runVars, subVars, final, told,
                   lifeVars>>

-----------------------------------------------------------------------------
(* runSubAgent(), and the sub-agent's tool submit_subagent_report.         *)

SubAgentReturns ==
    /\ At("watch") /\ Kind[cur] = "sub_agent" /\ run[cur] # "alive"
    /\ Goto(IF run[cur] = "failed" THEN "report_threw" ELSE "report")
    /\ UNCHANGED <<rowVars, specs, enq, cancelling, runVars, subVars, final, heard,
                   lifeVars, faults>>

SubAgentTimeout ==
    /\ At("watch") /\ Kind[cur] = "sub_agent" /\ run[cur] = "alive"
    /\ signalled' = signalled \cup RunsOf(Agent[cur])
    /\ Goto("settle")
    /\ UNCHANGED <<rowVars, specs, enq, cancelling, run, subVars, final, heard,
                   lifeVars, faults>>

(* The run ends after all, or two seconds pass. *)
Settle ==
    /\ At("settle")
    /\ Goto("report")
    /\ UNCHANGED <<rowVars, specs, enq, cancelling, runVars, subVars, final, heard,
                   lifeVars, faults>>

(* A submitted report starts a run of the parent, unless the parent is     *)
(* gone or disabled; without a report a cancelled job is left alone and a  *)
(* run that threw is failed.                                               *)
Report ==
    /\ At("report") \/ At("report_threw")
    /\ \/ cur \in completed /\ (Tell(cur, "rerun") \/ Tell(cur, "nothing")) /\ Release
       \/ cur \notin completed /\ status[cur] = "cancelled" /\ UNCHANGED heard /\ Release
       \/ cur \notin completed /\ status[cur] # "cancelled" /\ UNCHANGED heard
          /\ Goto(IF worker = "report_threw" THEN "fail" ELSE "recheck")
    /\ UNCHANGED <<rowVars, specs, enq, cancelling, runVars, subVars, final, lifeVars,
                   faults>>

(* The run of the parent goes on behind the worker's back.  When it fails, *)
(* after whatever it has said, a notice says so.                           *)
RerunFails(j) ==
    /\ up /\ j \in completed /\ "rerun" \in told[j]
    /\ Tell(j, "notice")
    /\ UNCHANGED <<rowVars, specs, enq, cancelling, workerVars, runVars, subVars, final, lifeVars,
                   faults>>

(* Faulty: a run that ends without a report is taken for a success. *)
Recheck_F ==
    /\ At("recheck")
    /\ \/ status[cur] # "error" /\ Release
       \/ status[cur] = "error" /\ Goto("alert")
    /\ UNCHANGED <<rowVars, specs, enq, cancelling, runVars, subVars, final, heard,
                   lifeVars, faults>>

(* The second look at the row before the missing report is declared. *)
Recheck ==
    /\ At("recheck")
    /\ \/ status[cur] = "done" /\ Release
       \/ status[cur] = "error" /\ Goto("alert")
       \/ status[cur] \notin {"done", "error"} /\ Goto("fail")
    /\ UNCHANGED <<rowVars, specs, enq, cancelling, runVars, subVars, final, heard,
                   lifeVars, faults>>

(* finalizeSubAgentJobDelivery(): read the row, write it, then tell the    *)
(* worker through the shared state.                                        *)
SubmitRead(j) ==
    /\ up /\ Kind[j] = "sub_agent" /\ run[j] = "alive" /\ sub[j] = "none" /\ j \notin completed
    /\ status[j] \notin Terminal
    /\ sub' = [sub EXCEPT ![j] = "persist"]
    /\ UNCHANGED <<rowVars, specs, enq, cancelling, workerVars, runVars, completed, final, heard,
                   lifeVars, faults>>

(* A failed UPDATE marks the row as an error, if that does not fail too,   *)
(* and the report is refused.                                              *)
SubmitPersist(j) ==
    /\ up /\ sub[j] = "persist"
    /\ \/ SetStatus(j, "done") /\ sub' = [sub EXCEPT ![j] = "persisted"] /\ UNCHANGED faults
       \/ /\ Fault
          /\ SetStatus(j, "error") \/ UNCHANGED status
          /\ sub' = [sub EXCEPT ![j] = "none"]
    /\ UNCHANGED <<created, specs, enq, cancelling, workerVars, runVars, completed, final,
                   heard, lifeVars>>

SubmitDone(j) ==
    /\ up /\ sub[j] = "persisted"
    /\ completed' = completed \cup {j}
    /\ sub' = [sub EXCEPT ![j] = "none"]
    /\ UNCHANGED <<rowVars, specs, enq, cancelling, workerVars, runVars, final, heard,
                   lifeVars, faults>>

-----------------------------------------------------------------------------
(* Sandbox runs: a row for a run that is already under way.                *)

SandboxStart(j) ==
    /\ up /\ status[j] = "absent"
    /\ SetStatus(j, "running")
    /\ created' = Append(created, j)
    /\ run' = [run EXCEPT ![j] = "alive"]
    /\ UNCHANGED <<specs, enq, cancelling, workerVars, signalled, subVars, final,
                   heard, lifeVars, faults>>

(* The user stops an agent, or sends it a message while it runs.  Only the *)
(* runs that host a sandbox tell an abort from another end.                *)
UserAborts(agent) ==
    /\ up /\ ~(RunsOf(agent) \subseteq signalled)
    /\ signalled' = signalled \cup RunsOf(agent)
    /\ UNCHANGED <<rowVars, specs, enq, cancelling, workerVars, run, subVars, final, heard,
                   lifeVars, faults>>

(* The host run ends and one of the markSandbox... methods reads the row;  *)
(* a query that fails is swallowed.  An aborted run that has no text       *)
(* returns before it gets there.                                           *)
SandboxEnds(j) ==
    /\ up /\ run[j] = "alive" /\ j \in Sandbox
    /\ run' = [run EXCEPT ![j] = "ok"]
    /\ \/ status[j] # "running" /\ UNCHANGED <<final, dropped, faults>>
       \/ /\ status[j] = "running"
          /\ \E s \in Terminal : final' = [final EXCEPT ![j] = s]
          /\ UNCHANGED <<dropped, faults>>
       \/ /\ (j \in signalled /\ UNCHANGED faults) \/ Fault
          /\ dropped' = dropped \cup {j} /\ UNCHANGED final
    /\ UNCHANGED <<rowVars, specs, enq, cancelling, workerVars, signalled, subVars,
                   told, lifeVars>>

SandboxWrite(j) ==
    /\ up /\ final[j] # "none"
    /\ \/ SetStatus(j, final[j]) /\ UNCHANGED <<dropped, faults>>
       \/ Fault /\ dropped' = dropped \cup {j} /\ UNCHANGED status
    /\ final' = [final EXCEPT ![j] = "none"]
    /\ UNCHANGED <<created, specs, enq, cancelling, workerVars, runVars, subVars, told,
                   lifeVars>>

-----------------------------------------------------------------------------
(* destroy(), the end of the process, and init() of the next one.          *)

Destroy ==
    /\ up /\ ticking /\ crashes < MaxCrashes
    /\ ticking' = FALSE
    /\ specs' = {}
    /\ signalled' = signalled \cup {j \in Job : Kind[j] = "shell" /\ cur = j /\ worker = "watch"}
    /\ UNCHANGED <<rowVars, enq, cancelling, workerVars, run, subVars, final, heard,
                   up, crashes, faults>>

Crash ==
    /\ up /\ crashes < MaxCrashes
    /\ crashes' = crashes + 1
    /\ up' = FALSE /\ ticking' = FALSE
    /\ specs' = {} /\ signalled' = {} /\ completed' = {}
    /\ enq' = [j \in Job |-> IF enq[j] = "none" THEN "none" ELSE "returned"]
    /\ cancelling' = [j \in Job |-> "none"]
    /\ run' = [j \in Job |-> "none"]
    /\ sub' = [j \in Job |-> "none"]
    /\ final' = [j \in Job |-> "none"]
    /\ Release
    /\ dropped' = dropped \cup (IF worker = "alert" THEN {cur} ELSE {})
    /\ UNCHANGED <<rowVars, told, faults>>

(* Faulty: only queued rows are looked for. *)
Recover_F ==
    /\ ~up
    /\ up' = TRUE /\ ticking' = TRUE
    /\ LET lost == {j \in Job : status[j] = "queued"} IN
       /\ status' = [j \in Job |-> IF j \in lost THEN "error" ELSE status[j]]
       /\ told' = [j \in Job |-> IF j \in lost THEN told[j] \cup {"alert"} ELSE told[j]]
    /\ UNCHANGED <<dropped, created, specs, enq, cancelling, workerVars, runVars,
                   subVars, final, crashes, faults>>

(* recoverFromRestart(), awaited before the worker and the routes start. *)
Recover ==
    /\ ~up
    /\ up' = TRUE /\ ticking' = TRUE
    /\ LET lost == {j \in Job : status[j] \in {"queued", "running"}} IN
       /\ status' = [j \in Job |-> IF j \in lost THEN "error" ELSE status[j]]
       /\ told' = [j \in Job |-> IF j \in lost THEN told[j] \cup {"alert"} ELSE told[j]]
    /\ UNCHANGED <<dropped, created, specs, enq, cancelling, workerVars, runVars,
                   subVars, final, crashes, faults>>

-----------------------------------------------------------------------------
WorkerStep ==
    \/ TickSelect \/ Picked \/ MarkRunning \/ Spawn \/ SpawnRefused \/ ShellOver
    \/ CheckCancelled \/ Deliver \/ FinishJob \/ FailJob \/ Alert
    \/ SubAgentReturns \/ SubAgentTimeout \/ Settle \/ Report \/ Recheck

CallStep(j) ==
    \/ EnqueueInsert(j) \/ EnqueueReturn(j) \/ CancelUpdate(j) \/ CancelStop(j)
    \/ SubmitPersist(j) \/ SubmitDone(j) \/ SandboxEnds(j) \/ SandboxWrite(j)

Next ==
    \/ WorkerStep
    \/ WorkerThrows
    \/ \E j \in Job : CallStep(j) \/ CancelRead(j) \/ SubmitRead(j) \/ RunEnds(j) \/ RerunFails(j)
    \/ \E j \in Sandbox : UserAborts(Agent[j])
    \/ \E j \in Queueable : EnqueueCall(j)
    \/ \E j \in Sandbox : SandboxStart(j)
    \/ Destroy \/ Crash \/ Recover

Spec == Init /\ [][Next]_vars

(* The interval timer and the event loop go on, queries and host runs      *)
(* return, a stopped backend is started again.                             *)
Fairness ==
    /\ WF_vars(WorkerStep)
    /\ \A j \in Job : WF_vars(CallStep(j))
    /\ WF_vars(~ticking /\ Crash) /\ WF_vars(Recover)

FairSpec == Spec /\ Fairness

-----------------------------------------------------------------------------
(* Properties *)

(* A row that says running has somebody at work on it who will write its    *)
(* end, unless one of the four accepted accidents let go of it: a query or  *)
(* a mkdir of the worker threw, a query of a sandbox finalizer was          *)
(* swallowed, or the host run was aborted before it had any text.  No       *)
(* interleaving of calls, and no crash followed by a recovery, adds one.    *)
RunningIsOwned ==
    up => \A j \in Job : status[j] = "running" =>
              \/ cur = j
              \/ j \in Sandbox /\ (run[j] = "alive" \/ final[j] # "none")
              \/ j \in dropped

(* The user hears one thing about a job: its result, the parent's synthesis *)
(* of its report, or an alert; only a parent's run that fails adds a notice *)
(* that it did.                                                             *)
OneVerdict == crashes = 0 => \A j \in Job : Cardinality(told[j] \ {"notice"}) <= 1

(* The end that a shell job's row shows is the one the user heard of: done  *)
(* means that the result and no alert was sent, and an error was announced, *)
(* by the worker or by the recovery after a crash, unless the backend died  *)
(* between the UPDATE of failJob() and its alert.                           *)
EndIsTold ==
    \A j \in Job : Kind[j] = "shell" =>
        /\ status[j] = "done" => told[j] = {"result"}
        /\ status[j] = "error" /\ cur # j => told[j] # {} \/ j \in dropped

(* No job hangs: a row without a spec, a child that ignores its signals, a  *)
(* sub-agent that never reports or a restart do not hold up the queue, and  *)
(* neither does the job whose query or mkdir threw hold up the next one.    *)
EveryJobEnds ==
    \A j \in Job : status[j] \in {"queued", "running"} ~> status[j] \in Terminal \/ j \in dropped

(* markSandboxCancelled is "Called when the host agent run is aborted".     *)
AbortedSandboxIsCancelled ==
    \A j \in Sandbox :
        j \in signalled /\ run[j] = "ok" /\ final[j] = "none" => status[j] \in Terminal

(* "cancellation is terminal" *)
CancellationIsTerminal ==
    [][ \A j \in Job : status[j] = "cancelled" => status'[j] = "cancelled" ]_vars

(* A report that was accepted starts a run of the parent: once the worker   *)
(* has left the job, the run was started or there was no parent to start.   *)
ReportReachesParent ==
    \A j \in completed : cur # j => told[j] # {}

(* What cancel() aborts is the run of the job that is cancelled. *)
AbortsOwnRun ==
    [][ \A j \in Job : CancelStop(j) => signalled' \subseteq signalled \cup {j} ]_vars

(* queueSpecs holds "enqueued-but-not-yet-running jobs (survives only until *)
(* pickup)": no spec outlives the queued row.                               *)
SpecsUntilPickup ==
    \A j \in specs : status[j] = "queued" \/ cancelling[j] = "updated"

=============================================================================
