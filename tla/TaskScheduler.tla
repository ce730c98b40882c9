----------------------------- MODULE TaskScheduler -----------------------------
(***************************************************************************)
(* The task scheduler of MASTERMIND (modules/scheduler) and the alerts of  *)
(* modules/proactive-source, which share its reservations.                 *)
(*                                                                         *)
(* A tick selects the due tasks and starts executeTask for each of them    *)
(* whose agent is free.  A run may call escalate_to_agent: the run of the  *)
(* handler is committed as a row at once and dispatched when the run that  *)
(* escalated is over, or at once when there is no such run.  A dispatch    *)
(* waits for its agent, up to two minutes, and then runs anyway.  The user *)
(* creates, edits, deletes, restores and starts tasks meanwhile; queries   *)
(* may fail and the process may restart.                                   *)
(*                                                                         *)
(* One run is one call of executeTask, of the dispatch of an escalation or *)
(* of the dispatch of an alert, with its row in task_runs.  The steps of a *)
(* call are its statements on the database, each with the code up to the   *)
(* next await.                                                             *)
(***************************************************************************)
EXTENDS Naturals, Sequences, FiniteSets, FiniteSetsExt, SequencesExt

CONSTANTS Task, Agent, None,
          AgentOf,       \* the agent of a task
          Handler,       \* escalationAgentId, None unless the task is proactive
          Once,          \* the tasks of schedule kind `once'
          DeleteAfter,   \* the tasks with deleteAfterRun
          AlertAgents,   \* the agents of the webhook sources
          MaxRuns, MaxEdits,
          MaxFaults      \* bounds; a fault is a failed query or a restart

ASSUME TasksAssumption ==
    /\ IsFiniteSet(Task) /\ None \notin Task \cup Agent
    /\ AgentOf \in [Task -> Agent]
    /\ Handler \in [Task -> Agent \cup {None}]
    /\ \A t \in Task : Handler[t] # AgentOf[t]
    /\ Once \subseteq Task /\ DeleteAfter \subseteq Task
    /\ AlertAgents \subseteq Agent
ASSUME BoundsAssumption == {MaxRuns, MaxEdits, MaxFaults} \subseteq Nat

Run == 1..MaxRuns

VARIABLES task,        \* scheduled_tasks
          row,         \* task_runs: the status of a run's row
          old,         \* the running rows that are older than 30 minutes
          lock,        \* the advisory lock of a task, and the run that holds it
          running, reserved, contexts, pending, live,
                       \* running, runningAgents, activeRunContexts,
                       \* pendingEscalations and liveRunIds
          tickInProgress, due,       \* a tick, and the rows it has selected
          sweeping, spared,          \* a sweep, and the runs it knows as live
          run,         \* the calls
          batches,     \* the dispatches that a flush runs one after the other
          edit,        \* a call of the user that has read its task
          edits, faults              \* counters of the bounds

dbVars == <<task, row, old, lock>>
memVars == <<running, reserved, contexts, pending, live>>
loopVars == <<tickInProgress, due, sweeping, spared>>
userVars == <<edit, edits>>
vars == <<dbVars, memVars, loopVars, run, batches, userVars, faults>>

-----------------------------------------------------------------------------
NoRun == [pc |-> "none", kind |-> "task", task |-> None, agent |-> None,
          enabled |-> FALSE, mine |-> FALSE, parent |-> 0]
NoEdit == [op |-> "none", task |-> None, enabled |-> FALSE]
NoTask == [status |-> "absent", enabled |-> FALSE, next |-> "none", past |-> FALSE]

Init ==
    /\ task = [t \in Task |-> NoTask]
    /\ row = [r \in Run |-> "none"] /\ old = {}
    /\ lock = [t \in Task |-> 0]
    /\ running = {} /\ reserved = {} /\ contexts = {} /\ live = {}
    /\ pending = [r \in Run |-> <<>>]
    /\ tickInProgress = FALSE /\ due = {} /\ sweeping = FALSE /\ spared = {}
    /\ run = [r \in Run |-> NoRun] /\ batches = {}
    /\ edit = NoEdit /\ edits = 0 /\ faults = 0

Pc(r) == run[r].pc
Unused == {r \in Run : Pc(r) = "none"}

(* A query fails, or the process does. *)
Fault == faults < MaxFaults /\ faults' = faults + 1
To(r, pc) == run' = [run EXCEPT ![r].pc = pc]
Over == [NoRun EXCEPT !.pc = "over"]

(* computeNextRun: the date of a `once' task, while it is to come, and the *)
(* next date of a cron expression.                                         *)
ComputeNextRun(t) == IF t \in Once /\ task[t].past THEN "none" ELSE "future"

-----------------------------------------------------------------------------
(* Starting executeTask: the task and its agent are reserved before the    *)
(* first await.                                                            *)
Execution(t, enabled) ==
    [NoRun EXCEPT !.pc = "connecting", !.task = t, !.agent = AgentOf[t],
                  !.enabled = enabled]

IsDue(t) ==
    /\ task[t].status = "live" /\ task[t].enabled /\ task[t].next = "due"

(* tick, up to its query; one that finds nothing is over at once.  Once an *)
(* hour a sweep starts with it, of interest when some row is old enough.   *)
TickRead(sweep) ==
    /\ ~tickInProgress
    /\ due' = {t \in Task : IsDue(t)}
    /\ tickInProgress' = (due' # {})
    /\ sweep => ~sweeping /\ old # {}
    /\ sweeping' = (sweeping \/ sweep)
    /\ spared' = IF sweep THEN live ELSE spared
    /\ UNCHANGED <<dbVars, memVars, run, batches, userVars, faults>>

(* The loop over the rows: a task that runs is skipped, one whose agent is *)
(* reserved, by an earlier row of the loop too, is left for a later tick.  *)
Startable == {t \in due \ running : AgentOf[t] \notin reserved}
TickDispatch ==
    /\ tickInProgress
    /\ tickInProgress' = FALSE /\ due' = {}
    /\ \E S \in SUBSET Startable :
        /\ \A t, u \in S : AgentOf[t] = AgentOf[u] => t = u
        /\ LET agents == {AgentOf[t] : t \in Startable}
           IN  Cardinality(S) = IF Cardinality(agents) < Cardinality(Unused)
                                  THEN Cardinality(agents) ELSE Cardinality(Unused)
        /\ LET q == SetToSeq(S)
               first == MaxRuns - Cardinality(Unused)
           IN  run' = [r \in Run |-> IF r - first \in DOMAIN q
                                       THEN Execution(q[r - first], TRUE) ELSE run[r]]
        /\ running' = running \cup S
        /\ reserved' = reserved \cup {AgentOf[t] : t \in S}
    /\ UNCHANGED <<dbVars, contexts, pending, live, sweeping, spared, batches,
                   userVars, faults>>

(* periodicZombieCleanup. *)
Sweep ==
    /\ sweeping
    /\ row' = [r \in Run |-> IF row[r] = "running" /\ r \in old \ spared
                               THEN "failed" ELSE row[r]]
    /\ old' = old \cap spared
    /\ sweeping' = FALSE /\ spared' = {}
    /\ UNCHANGED <<task, lock, memVars, tickInProgress, due, run, batches,
                   userVars, faults>>

-----------------------------------------------------------------------------
(* The synchronous part of executeTask's finally; what follows awaits the  *)
(* unlock.  A call without the lock has not run, and has nothing to flush. *)
Finally_F(r) ==
    /\ running' = IF Pc(r) = "failed" THEN running ELSE running \ {run[r].task}
    /\ reserved' = reserved \ {run[r].agent}
    /\ contexts' = contexts \ {r}
    /\ live' = live \ {r}
    /\ run' = [run EXCEPT ![r] = IF lock[run[r].task] = r
                                    THEN [@ EXCEPT !.pc = "unlocking"] ELSE Over]
    /\ UNCHANGED <<pending, batches>>

Finally(r) ==
    /\ running' = running \ {run[r].task}
    /\ reserved' = reserved \ {run[r].agent}
    /\ contexts' = contexts \ {r}
    /\ live' = live \ {r}
    /\ run' = [run EXCEPT ![r] = IF lock[run[r].task] = r
                                    THEN [@ EXCEPT !.pc = "unlocking"] ELSE Over]
    /\ UNCHANGED <<pending, batches>>

(* flushPendingEscalations: what r has queued is dispatched one after the  *)
(* other, whether r completed or not.                                      *)
Flush_F(r) ==
    LET ended == {b \in batches : Head(b) = r}
    IN  /\ batches' = (batches \ ended)
                        \cup ({Tail(b) : b \in ended} \ {<<>>})
                        \cup (IF row[r] = "completed" THEN {pending[r]} \ {<<>>} ELSE {})
        /\ pending' = [pending EXCEPT ![r] = <<>>]

Flush(r) ==
    LET ended == {b \in batches : Head(b) = r}
    IN  /\ batches' = (batches \ ended)
                        \cup (({pending[r]} \cup {Tail(b) : b \in ended}) \ {<<>>})
        /\ pending' = [pending EXCEPT ![r] = <<>>]

Connect(r) ==
    /\ Pc(r) = "connecting"
    /\ \/ /\ lock[run[r].task] = 0
          /\ lock' = [lock EXCEPT ![run[r].task] = r]
          /\ To(r, "starting")
          /\ UNCHANGED <<memVars, batches, faults>>
       \/ /\ lock[run[r].task] # 0
          /\ Finally(r)
          /\ UNCHANGED <<lock, faults>>
       \/ /\ Fault
          /\ To(r, "failing")
          /\ UNCHANGED <<lock, memVars, batches>>
    /\ UNCHANGED <<task, row, old, loopVars, userVars>>

(* The row is inserted; a proactive task gets its context and its queue. *)
Start_F(r) ==
    /\ Pc(r) = "starting"
    /\ \/ /\ row' = [row EXCEPT ![r] = "running"]
          /\ contexts' = IF Handler[run[r].task] # None THEN contexts \cup {r}
                                                        ELSE contexts
          /\ To(r, "running")
          /\ UNCHANGED <<live, faults>>
       \/ /\ Fault
          /\ To(r, "failing")
          /\ UNCHANGED <<row, live, contexts>>
    /\ UNCHANGED <<task, old, lock, running, reserved, pending, loopVars,
                   batches, userVars>>

Start(r) ==
    /\ Pc(r) = "starting"
    /\ \/ /\ row' = [row EXCEPT ![r] = "running"]
          /\ live' = live \cup {r}
          /\ contexts' = IF Handler[run[r].task] # None THEN contexts \cup {r}
                                                        ELSE contexts
          /\ To(r, "running")
          /\ UNCHANGED faults
       \/ /\ Fault
          /\ To(r, "failing")
          /\ UNCHANGED <<row, live, contexts>>
    /\ UNCHANGED <<task, old, lock, running, reserved, pending, loopVars,
                   batches, userVars>>

(* agentMod.run returns or throws. *)
RunEnds(r, ok) ==
    /\ Pc(r) = "running"
    /\ To(r, IF ok THEN "completing" ELSE "failing")
    /\ UNCHANGED <<dbVars, memVars, loopVars, batches, userVars, faults>>

IsTask(r) == run[r].kind = "task"

(* The tail of a dispatch: its finally has no await. *)
FinallyDispatch_F(r) ==
    /\ contexts' = contexts \ {r}
    /\ live' = live \ {r}
    /\ reserved' = reserved \ {run[r].agent}
    /\ Flush(r)
    /\ run' = [run EXCEPT ![r] = Over]
    /\ UNCHANGED running

FinallyDispatch_F2(r) ==
    /\ contexts' = contexts \ {r}
    /\ reserved' = IF run[r].mine THEN reserved \ {run[r].agent} ELSE reserved
    /\ Flush(r)
    /\ run' = [run EXCEPT ![r] = Over]
    /\ UNCHANGED <<running, live>>

FinallyDispatch(r) ==
    /\ contexts' = contexts \ {r}
    /\ live' = live \ {r}
    /\ reserved' = IF run[r].mine THEN reserved \ {run[r].agent} ELSE reserved
    /\ Flush(r)
    /\ run' = [run EXCEPT ![r] = Over]
    /\ UNCHANGED running

(* The UPDATE of a run's row; only the age of running rows is kept. *)
SetRow(r, status) ==
    /\ row' = [row EXCEPT ![r] = status]
    /\ old' = old \ {r}

(* The row of a run that has returned. *)
Complete(r) ==
    /\ Pc(r) = "completing"
    /\ \/ /\ SetRow(r, "completed")
          /\ IF IsTask(r) THEN To(r, "updating") /\ UNCHANGED <<memVars, batches>>
                          ELSE FinallyDispatch(r)
          /\ UNCHANGED faults
       \/ /\ Fault
          /\ To(r, "failing")
          /\ UNCHANGED <<row, old, memVars, batches>>
    /\ UNCHANGED <<task, lock, loopVars, userVars>>

(* The row of a task that was executed, from the copy the call has read.   *)
(* An UPDATE of a row that is purged does nothing.                         *)
Executed(r) ==
    LET t == run[r].task
    IN  IF task[t].status = "purged" THEN task
        ELSE [task EXCEPT ![t].next = ComputeNextRun(t),
                          ![t].enabled = t \notin Once /\ run[r].enabled]

Deleted(t) ==
    IF task[t].status # "live" THEN task
    ELSE [task EXCEPT ![t].status = "deleted", ![t].enabled = FALSE, ![t].next = "none"]

Update(r) ==
    /\ Pc(r) = "updating"
    /\ \/ /\ task' = Executed(r)
          /\ IF run[r].task \in DeleteAfter
               THEN To(r, "deleting") /\ UNCHANGED <<memVars, batches>>
               ELSE Finally(r)
          /\ UNCHANGED faults
       \/ /\ Fault
          /\ To(r, "failing")
          /\ UNCHANGED <<task, memVars, batches>>
    /\ UNCHANGED <<row, old, lock, loopVars, userVars>>

AutoDelete(r) ==
    /\ Pc(r) = "deleting"
    /\ \/ /\ task' = Deleted(run[r].task)
          /\ Finally(r)
          /\ UNCHANGED faults
       \/ /\ Fault
          /\ To(r, "failing")
          /\ UNCHANGED <<task, memVars, batches>>
    /\ UNCHANGED <<row, old, lock, loopVars, userVars>>

(* The catch branches: the row, when there is one, and the task.  A query  *)
(* that fails here ends the call; for an alert, whose callback nobody      *)
(* awaits, the rejection is unhandled and ends the process: Restart.       *)
Fail(r) ==
    /\ Pc(r) = "failing"
    /\ \/ /\ IF row[r] = "none" THEN UNCHANGED <<row, old>> ELSE SetRow(r, "failed")
          /\ IF IsTask(r) THEN To(r, "failed") /\ UNCHANGED <<memVars, batches>>
                          ELSE FinallyDispatch(r)
          /\ UNCHANGED faults
       \/ /\ Fault /\ run[r].kind # "alert"
          /\ IF IsTask(r) THEN Finally(r) ELSE FinallyDispatch(r)
          /\ UNCHANGED <<row, old>>
    /\ UNCHANGED <<task, lock, loopVars, userVars>>

FailTask(r) ==
    /\ Pc(r) = "failed"
    /\ \/ task' = Executed(r) /\ UNCHANGED faults
       \/ Fault /\ UNCHANGED task
    /\ Finally(r)
    /\ UNCHANGED <<row, old, lock, loopVars, userVars>>

(* The unlock, which succeeds or finds its session gone, and the flush. *)
Unlock(r) ==
    /\ Pc(r) = "unlocking"
    /\ lock' = [lock EXCEPT ![run[r].task] = 0]
    /\ Flush(r)
    /\ run' = [run EXCEPT ![r] = Over]
    /\ UNCHANGED <<task, row, old, running, reserved, contexts, live, loopVars,
                   userVars, faults>>

-----------------------------------------------------------------------------
(* triggerEscalation, called by the tool of run p, or by a chat (p = 0):   *)
(* the row of the handler's run is inserted.  A watcher has one handler,   *)
(* the others name the agent they want.                                    *)
Targets(p) ==
    IF p # 0 /\ p \in contexts /\ IsTask(p) THEN {Handler[run[p].task]} ELSE Agent

Escalate(p, h) ==
    /\ p # 0 => Pc(p) = "running"
    /\ Unused # {} /\ h \in Targets(p)
    /\ LET e == Min(Unused)
       IN  /\ run' = [r \in Run |->
                        IF r = e THEN [NoRun EXCEPT !.pc = "triggering", !.agent = h,
                                                    !.kind = "escalation", !.parent = p]
                        ELSE IF r = p THEN [run[r] EXCEPT !.pc = "tool"] ELSE run[r]]
           /\ row' = [row EXCEPT ![e] = "running"]
    /\ UNCHANGED <<task, old, lock, memVars, loopVars, batches, userVars, faults>>

(* The parent is marked, then the dispatch is queued under it, if it has a *)
(* context, and is free to go otherwise.                                   *)
EscalateEnds(e) ==
    /\ Pc(e) = "triggering"
    /\ LET p == run[e].parent
       IN  /\ \/ /\ contexts' = contexts \cup {e}
                 /\ IF p \in contexts
                      THEN /\ pending' = [pending EXCEPT ![p] = Append(@, e)]
                           /\ UNCHANGED batches
                      ELSE /\ batches' = batches \cup {<<e>>}
                           /\ UNCHANGED pending
                 /\ UNCHANGED faults
              \/ Fault /\ UNCHANGED <<contexts, pending, batches>>
           /\ run' = [r \in Run |->
                        IF r = e THEN IF faults' = faults THEN [run[r] EXCEPT !.pc = "queued"]
                                                          ELSE Over
                        ELSE IF r = p THEN [run[r] EXCEPT !.pc = "running"] ELSE run[r]]
    /\ UNCHANGED <<dbVars, running, reserved, live, loopVars, userVars>>

(* A webhook: the row of its run is inserted and its dispatch goes. *)
Alert(a) ==
    /\ Unused # {}
    /\ LET r == Min(Unused)
       IN  /\ run' = [run EXCEPT ![r] = [NoRun EXCEPT !.pc = "queued", !.kind = "alert",
                                                      !.agent = a]]
           /\ row' = [row EXCEPT ![r] = "running"]
           /\ batches' = batches \cup {<<r>>}
    /\ UNCHANGED <<task, old, lock, memVars, loopVars, userVars, faults>>

(* A dispatch begins when it is the first of its batch. *)
Dispatch(r) ==
    /\ Pc(r) = "queued" /\ \E b \in batches : Head(b) = r
    /\ live' = live \cup {r}
    /\ To(r, "waiting")
    /\ UNCHANGED <<dbVars, running, reserved, contexts, pending, loopVars, batches,
                   userVars, faults>>

(* The agent is free and is reserved, or two minutes have passed and the   *)
(* dispatch does without.                                                  *)
Acquire(r) ==
    /\ Pc(r) = "waiting"
    /\ IF run[r].agent \notin reserved
         THEN /\ reserved' = reserved \cup {run[r].agent}
              /\ run' = [run EXCEPT ![r].pc = "running", ![r].mine = TRUE]
         ELSE To(r, "running") /\ UNCHANGED reserved
    /\ UNCHANGED <<dbVars, running, contexts, pending, live, loopVars, batches,
                   userVars, faults>>

-----------------------------------------------------------------------------
(* The calls of the user.  Deleting and purging are decided by one         *)
(* statement; the others read the task first.  (A restore or a purge needs *)
(* no bound of its own: it follows a deletion.)                            *)
Counted == edits < MaxEdits /\ edits' = edits + 1

CreateTask(t) ==
    /\ task[t].status = "absent"
    /\ task' = [task EXCEPT ![t] = [status |-> "live", enabled |-> TRUE,
                                    next |-> "future", past |-> FALSE]]
    /\ UNCHANGED <<row, old, lock, memVars, loopVars, run, batches, userVars, faults>>

DeleteTask(t) ==
    /\ Counted /\ task[t].status = "live"
    /\ task' = Deleted(t)
    /\ UNCHANGED <<row, old, lock, memVars, loopVars, run, batches, edit, faults>>

(* restoreTask, up to its SELECT, and its UPDATE, which does not ask again *)
(* whether the task is deleted, and leaves `enabled' as it finds it.       *)
RestoreRead(t) ==
    /\ edit = NoEdit /\ task[t].status = "deleted"
    /\ edit' = [NoEdit EXCEPT !.op = "restore", !.task = t]
    /\ UNCHANGED <<dbVars, memVars, loopVars, run, batches, edits, faults>>

RestoreWrite ==
    /\ edit.op = "restore"
    /\ LET t == edit.task
       IN  task' = IF task[t].status = "purged" THEN task
                   ELSE [task EXCEPT ![t].status = "live", ![t].next = ComputeNextRun(t)]
    /\ edit' = NoEdit
    /\ UNCHANGED <<row, old, lock, memVars, loopVars, run, batches, edits, faults>>

PurgeTask(t) ==
    /\ task[t].status = "deleted"
    /\ task' = [task EXCEPT ![t].status = "purged"]
    /\ UNCHANGED <<row, old, lock, memVars, loopVars, run, batches, userVars, faults>>

(* toggleTask, updateTask and runNow, up to their getTask. *)
EditRead(t, op) ==
    /\ Counted /\ edit = NoEdit
    /\ task[t].status = "live"
    /\ edit' = [op |-> op, task |-> t, enabled |-> task[t].enabled]
    /\ UNCHANGED <<dbVars, memVars, loopVars, run, batches, faults>>

(* Their UPDATE does not ask whether the task was deleted since. *)
EditWrite ==
    /\ edit.op \in {"on", "off", "update"}
    /\ LET t == edit.task
           enabled == IF edit.op = "update" THEN edit.enabled ELSE edit.op = "on"
           next == IF edit.op = "off" THEN "none" ELSE ComputeNextRun(t)
       IN  task' = IF task[t].status = "purged" THEN task
                   ELSE [task EXCEPT ![t].enabled = enabled, ![t].next = next]
    /\ edit' = NoEdit
    /\ UNCHANGED <<row, old, lock, memVars, loopVars, run, batches, edits, faults>>

RunNow ==
    /\ edit.op = "run" /\ Unused # {}
    /\ LET t == edit.task
       IN  IF t \in running \/ AgentOf[t] \in reserved
             THEN UNCHANGED <<running, reserved, run>>
             ELSE /\ running' = running \cup {t}
                  /\ reserved' = reserved \cup {AgentOf[t]}
                  /\ run' = [run EXCEPT ![Min(Unused)] = Execution(t, edit.enabled)]
    /\ edit' = NoEdit
    /\ UNCHANGED <<dbVars, contexts, pending, live, loopVars, batches, edits, faults>>

-----------------------------------------------------------------------------
(* The date of a task comes. *)
DateComes(t) ==
    /\ task[t].next = "future"
    /\ task' = [task EXCEPT ![t].next = "due", ![t].past = t \in Once]
    /\ UNCHANGED <<row, old, lock, memVars, loopVars, run, batches, userVars, faults>>

(* Half an hour passes: only the runs of agents take that long. *)
HalfHour ==
    /\ ~tickInProgress /\ ~sweeping
    /\ \A r \in Run : \/ Pc(r) \in {"none", "over", "dead", "running"}
                      \/ Pc(r) = "queued" /\ \A b \in batches : Head(b) # r
    /\ old' = {r \in Run : row[r] = "running"}
    /\ old' # old
    /\ UNCHANGED <<task, row, lock, memVars, loopVars, run, batches, userVars,
                   faults>>

(* The process dies and is started: init fails the rows that still run. *)
Restart ==
    /\ Fault
    /\ row' = [r \in Run |-> IF row[r] = "running" THEN "failed" ELSE row[r]]
    /\ lock' = [t \in Task |-> 0]
    /\ running' = {} /\ reserved' = {} /\ contexts' = {} /\ live' = {}
    /\ pending' = [r \in Run |-> <<>>]
    /\ tickInProgress' = FALSE /\ due' = {} /\ sweeping' = FALSE /\ spared' = {}
    /\ run' = [r \in Run |-> IF Pc(r) \in {"none", "over"} THEN run[r]
                             ELSE [NoRun EXCEPT !.pc = "dead"]]
    /\ batches' = {} /\ edit' = NoEdit /\ old' = {}
    /\ UNCHANGED <<task, edits>>

(* What a call does by itself. *)
Step(r) ==
    \/ Connect(r) \/ Start(r) \/ Complete(r) \/ Update(r) \/ AutoDelete(r)
    \/ Fail(r) \/ FailTask(r) \/ Unlock(r) \/ EscalateEnds(r)
    \/ Dispatch(r) \/ Acquire(r)
    \/ \E ok \in BOOLEAN : RunEnds(r, ok)

User ==
    \/ EditWrite \/ RestoreWrite \/ RunNow
    \/ \E t \in Task : \/ CreateTask(t) \/ DeleteTask(t) \/ RestoreRead(t) \/ PurgeTask(t)
                       \/ \E op \in {"on", "off", "update", "run"} : EditRead(t, op)

Next ==
    \/ \E r \in Run : Step(r)
    \/ \E p \in Run \cup {0}, h \in Agent : Escalate(p, h)
    \/ \E a \in AlertAgents : Alert(a)
    \/ \E sweep \in BOOLEAN : TickRead(sweep)
    \/ TickDispatch \/ Sweep
    \/ User
    \/ \E t \in Task : DateComes(t)
    \/ HalfHour \/ Restart

Spec == Init /\ [][Next]_vars

(* The database answers, agents end their runs, timers fire and the hours  *)
(* pass.                                                                   *)
FairSpec ==
    /\ Spec
    /\ \A r \in Run : WF_vars(Step(r))
    /\ WF_vars(TickRead(FALSE)) /\ WF_vars(TickDispatch) /\ WF_vars(Sweep)
    /\ SF_vars(TickRead(TRUE)) /\ SF_vars(HalfHour)

-----------------------------------------------------------------------------
Pcs == {"none", "connecting", "starting", "running", "tool", "completing", "updating",
        "deleting", "failing", "failed", "unlocking", "triggering", "queued",
        "waiting", "over", "dead"}

TypeOK ==
    /\ task \in [Task -> [status : {"absent", "live", "deleted", "purged"},
                          enabled : BOOLEAN, next : {"none", "future", "due"},
                          past : BOOLEAN]]
    /\ row \in [Run -> {"none", "running", "completed", "failed"}]
    /\ old \subseteq Run /\ spared \subseteq Run
    /\ lock \in [Task -> Run \cup {0}]
    /\ running \subseteq Task /\ reserved \subseteq Agent /\ due \subseteq Task
    /\ contexts \subseteq Run /\ live \subseteq Run
    /\ DOMAIN pending = Run /\ \A r \in Run : Range(pending[r]) \subseteq Run
    /\ \A b \in batches : b # <<>> /\ Range(b) \subseteq Run
    /\ run \in [Run -> [pc : Pcs, kind : {"task", "escalation", "alert"},
                        task : Task \cup {None}, agent : Agent \cup {None},
                        enabled : BOOLEAN, mine : BOOLEAN, parent : Run \cup {0}]]
    /\ \A r \in Run : Pc(r) \notin {"none", "over", "dead"} => run[r].agent \in Agent
    /\ edit \in [op : {"none", "on", "off", "update", "restore", "run"}, task : Task \cup {None},
                 enabled : BOOLEAN]
    /\ {tickInProgress, sweeping} \subseteq BOOLEAN
    /\ edits \in 0..MaxEdits /\ faults \in 0..MaxFaults

(* Who has reserved an agent: a task from its start to its finally, and a  *)
(* dispatch that found the agent free.                                     *)
Active == {"connecting", "starting", "running", "tool", "completing", "updating",
           "deleting", "failing", "failed"}
Holders == {r \in Run : Pc(r) \in Active /\ (IsTask(r) \/ run[r].mine)}

(* Every reservation has exactly one owner, and every owner its            *)
(* reservation: none is released by a call that gave up waiting for it, by *)
(* a second call of the same task or by a failure, and none is left over.  *)
(* So two runs of this module meet on an agent only when one of them gave  *)
(* up waiting.                                                             *)
ReservationsOwned ==
    /\ reserved = {run[r].agent : r \in Holders}
    /\ running = {run[r].task : r \in {s \in Holders : IsTask(s)}}
    /\ \A r, s \in Holders : run[r].agent = run[s].agent => r = s

(* A committed escalation is never stranded: it waits under a run that     *)
(* still has its flush before it, or behind a dispatch that is under way.  *)
NothingStranded ==
    \A e \in Run : Pc(e) = "queued" =>
        \/ \E p \in Run : e \in Range(pending[p]) /\ Pc(p) \in Active \cup {"unlocking"}
        \/ \E b \in batches : e \in Range(b) /\ Pc(Head(b)) \notin {"over", "dead"}

(* A call that is over leaves nothing of itself in the maps of the module. *)
NoResidue ==
    \A r \in Run : Pc(r) \in {"none", "over", "dead"} =>
        /\ r \notin contexts \cup live
        /\ pending[r] = <<>>
        /\ \A t \in Task : lock[t] # r
        /\ \A b \in batches : r \notin Range(b)

(* The sweep spares a run that is alive, however long it takes: the row of *)
(* a task or of an alert is running while its agent runs.  The row of an   *)
(* escalation is excepted: it exists before its run is live, and the sweep *)
(* does fail it (RowsAreFinal).                                            *)
SweepSparesLive ==
    \A r \in Run : /\ run[r].kind # "escalation"
                   /\ Pc(r) \in {"running", "tool", "completing"}
                   => row[r] = "running"

(* Every call ends, and so does its row: an escalation the system has      *)
(* committed is handed over, a dispatch gets its turn behind the others,   *)
(* and the row of a call that failed or died is found.  (Runs are bounded, *)
(* and a run that is over does not begin again.)                           *)
CallsEnd ==
    <>[](\A r \in Run : Pc(r) \in {"none", "over", "dead"} /\ row[r] # "running")

(* A due task that found its agent busy is not forgotten: it is due until  *)
(* it is executed or edited (or the bound on runs is reached).             *)
DueRuns == \A t \in Task : IsDue(t) ~> ~IsDue(t) \/ Unused = {}

(* restoreTask leaves the task disabled. *)
RestoredIsDisabled ==
    [][\A t \in Task : task[t].status = "deleted" /\ task'[t].status = "live"
                         => ~task'[t].enabled]_vars

(* A tick starts a task only when it is due. *)
FiredWhenDue ==
    [][TickDispatch => \A t \in running' \ running : IsDue(t)]_vars

(* The status of a row that has ended is final. *)
RowsAreFinal ==
    [][\A r \in Run : row[r] \in {"completed", "failed"} => row'[r] = row[r]]_vars

=============================================================================
