-------------------------- MODULE AsyncJobs_proofs --------------------------
(***************************************************************************)
(* Proofs about AsyncJobs, for any jobs, agents and numbers of crashes and *)
(* faults: a running row has an owner unless the code let go of it, the    *)
(* end in a shell job's row is the one the user was told, and without a    *)
(* crash the user hears one verdict.                                       *)
(***************************************************************************)
EXTENDS AsyncJobs, FiniteSetTheorems, TLAPS

(* The worker has a job exactly when it is not idle, and only the kinds it *)
(* queues; rows, calls and finalizers belong to jobs of their kind.        *)
Kinds ==
    /\ cur # NoJob => cur \in Queueable
    /\ \A j \in Job : status[j] = "queued" \/ enq[j] # "none" => j \in Queueable
    /\ \A j \in Job : sub[j] # "none" \/ j \in completed => Kind[j] = "sub_agent"
    /\ \A j \in Job : final[j] # "none" => j \in Sandbox

Places ==
    /\ worker = "idle" <=> cur = NoJob
    /\ cur # NoJob => status[cur] # "absent"
    /\ worker \notin {"idle", "picked", "start", "fail"} => status[cur] # "queued"
    /\ worker = "alert" => status[cur] \in Terminal
    /\ \A j \in Queueable : enq[j] \in {"none", "checked"} => status[j] = "absent"
    /\ \A j \in Job : cancelling[j] # "none" => status[j] # "absent"
    /\ ~up => crashes > 0 /\ worker = "idle"

(* A job is spawned at most once: as long as its row is queued, or the     *)
(* worker has not spawned it, nothing of it runs or reports.               *)
Fresh ==
    \A j \in Job : \/ status[j] \in {"absent", "queued"}
                   \/ cur = j /\ worker \in {"picked", "start", "spawn"}
                   => run[j] = "none" /\ sub[j] = "none" /\ j \notin completed

(* The row of a report that was accepted stays terminal. *)
Reported == \A j \in Job : sub[j] = "persisted" \/ j \in completed => status[j] \in Terminal

(* Nobody is told about a job before the worker delivers it, which it does *)
(* once.                                                                   *)
Untold ==
    \A j \in Job : status[j] \in {"absent", "queued"} \/ (cur = j /\ worker # "finish")
                   => told[j] = {}
Single == crashes = 0 => \A j \in Job : \A x, y \in told[j] \ {"notice"} : x = y

(* The row of a shell job gets its end when the worker has spoken of it or *)
(* is about to.                                                            *)
Verdict ==
    /\ worker = "finish" => told[cur] \in {{"result"}, {"nothing"}}
    /\ \A j \in Job : Kind[j] = "shell" /\ cur = j =>
          status[j] # "done" /\ (worker # "alert" => status[j] # "error")

Told == Untold /\ Single /\ Verdict /\ EndIsTold

IInv == TypeOK /\ Kinds /\ Places /\ Fresh /\ Reported /\ RunningIsOwned /\ Told

-----------------------------------------------------------------------------
LEMMA EnqueueCallStep == ASSUME IInv, NEW j \in Queueable, EnqueueCall(j) PROVE IInv'
<1>1. TypeOK'
  BY ConstantsAssumption DEF IInv, heard, EnqueueCall, rowVars, workerVars, runVars, subVars,
    lifeVars, TypeOK
<1>2. Kinds'
  BY ConstantsAssumption DEF IInv, EnqueueCall, rowVars, workerVars, runVars, subVars, Kinds
<1>3. Places'
  BY ConstantsAssumption DEF IInv, EnqueueCall, rowVars, workerVars, runVars, subVars,
    lifeVars, Places
<1>4. Fresh'
  BY ConstantsAssumption DEF IInv, EnqueueCall, rowVars, workerVars, runVars, subVars, Fresh
<1>5. Reported'
  BY ConstantsAssumption DEF IInv, EnqueueCall, rowVars, workerVars, runVars, subVars,
    Reported
<1>6. RunningIsOwned'
  BY ConstantsAssumption DEF IInv, heard, EnqueueCall, rowVars, workerVars, runVars, subVars,
    RunningIsOwned
<1>7. Told'
  BY ConstantsAssumption DEF IInv, heard, EnqueueCall, rowVars, workerVars, runVars, subVars,
    lifeVars, Told, Untold, Single, Verdict, EndIsTold
<1>. QED BY <1>1, <1>2, <1>3, <1>4, <1>5, <1>6, <1>7 DEF IInv

LEMMA EnqueueInsertStep == ASSUME IInv, NEW j \in Job, EnqueueInsert(j) PROVE IInv'
<1>1. TypeOK'
  BY ConstantsAssumption DEF IInv, heard, EnqueueInsert, SetStatus, workerVars, runVars, subVars,
    lifeVars, TypeOK, Status
<1>2. Kinds'
  BY ConstantsAssumption DEF IInv, EnqueueInsert, SetStatus, workerVars, runVars, subVars,
    Kinds
<1>3. Places'
  BY ConstantsAssumption DEF IInv, EnqueueInsert, SetStatus, workerVars, runVars, subVars,
    lifeVars, TypeOK, Kinds, Places
<1>4. Fresh'
  BY ConstantsAssumption DEF IInv, EnqueueInsert, SetStatus, workerVars, runVars, subVars,
    Kinds, Places, Fresh
<1>5. Reported'
  BY ConstantsAssumption DEF IInv, EnqueueInsert, SetStatus, workerVars, runVars, subVars,
    Kinds, Places, Fresh, Reported
<1>6. RunningIsOwned'
  BY ConstantsAssumption DEF IInv, heard, EnqueueInsert, SetStatus, workerVars, runVars, subVars,
    RunningIsOwned
<1>7. Told'
  BY ConstantsAssumption DEF IInv, heard, EnqueueInsert, SetStatus, workerVars, runVars, subVars,
    lifeVars, Kinds, Places, Told, Untold, Single, Verdict, EndIsTold
<1>. QED BY <1>1, <1>2, <1>3, <1>4, <1>5, <1>6, <1>7 DEF IInv

LEMMA EnqueueReturnStep == ASSUME IInv, NEW j \in Job, EnqueueReturn(j) PROVE IInv'
<1>1. TypeOK'
  BY ConstantsAssumption DEF IInv, heard, EnqueueReturn, rowVars, workerVars, runVars, subVars,
    lifeVars, TypeOK, Kinds
<1>2. Kinds'
  BY ConstantsAssumption DEF IInv, EnqueueReturn, rowVars, workerVars, runVars, subVars,
    Kinds
<1>3. Places'
  BY ConstantsAssumption DEF IInv, EnqueueReturn, rowVars, workerVars, runVars, subVars,
    lifeVars, Places
<1>4. Fresh'
  BY ConstantsAssumption DEF IInv, EnqueueReturn, rowVars, workerVars, runVars, subVars,
    Fresh
<1>5. Reported'
  BY ConstantsAssumption DEF IInv, EnqueueReturn, rowVars, workerVars, runVars, subVars,
    Reported
<1>6. RunningIsOwned'
  BY ConstantsAssumption DEF IInv, heard, EnqueueReturn, rowVars, workerVars, runVars, subVars,
    RunningIsOwned
<1>7. Told'
  BY ConstantsAssumption DEF IInv, heard, EnqueueReturn, rowVars, workerVars, runVars, subVars,
    lifeVars, Told, Untold, Single, Verdict, EndIsTold
<1>. QED BY <1>1, <1>2, <1>3, <1>4, <1>5, <1>6, <1>7 DEF IInv

LEMMA CancelReadStep == ASSUME IInv, NEW j \in Job, CancelRead(j) PROVE IInv'
<1>1. TypeOK'
  BY ConstantsAssumption DEF IInv, heard, CancelRead, rowVars, workerVars, runVars, subVars,
    lifeVars, TypeOK
<1>2. Kinds'
  BY ConstantsAssumption DEF IInv, CancelRead, rowVars, workerVars, runVars, subVars, Kinds
<1>3. Places'
  BY ConstantsAssumption DEF IInv, CancelRead, rowVars, workerVars, runVars, subVars,
    lifeVars, Places
<1>4. Fresh'
  BY ConstantsAssumption DEF IInv, CancelRead, rowVars, workerVars, runVars, subVars, Fresh
<1>5. Reported'
  BY ConstantsAssumption DEF IInv, CancelRead, rowVars, workerVars, runVars, subVars,
    Reported
<1>6. RunningIsOwned'
  BY ConstantsAssumption DEF IInv, heard, CancelRead, rowVars, workerVars, runVars, subVars,
    RunningIsOwned
<1>7. Told'
  BY ConstantsAssumption DEF IInv, heard, CancelRead, rowVars, workerVars, runVars, subVars,
    lifeVars, Told, Untold, Single, Verdict, EndIsTold
<1>. QED BY <1>1, <1>2, <1>3, <1>4, <1>5, <1>6, <1>7 DEF IInv

LEMMA CancelUpdateStep == ASSUME IInv, NEW j \in Job, CancelUpdate(j) PROVE IInv'
<1>1. TypeOK'
  BY ConstantsAssumption DEF IInv, heard, CancelUpdate, SetStatus, workerVars, runVars, subVars,
    lifeVars, TypeOK, Status, Terminal
<1>2. Kinds'
  BY ConstantsAssumption DEF IInv, CancelUpdate, SetStatus, workerVars, runVars, subVars,
    Kinds
<1>3. Places'
  BY ConstantsAssumption DEF IInv, CancelUpdate, SetStatus, workerVars, runVars, subVars,
    lifeVars, Places, Terminal
<1>4. Fresh'
  BY ConstantsAssumption DEF IInv, CancelUpdate, SetStatus, workerVars, runVars, subVars,
    Fresh
<1>5. Reported'
  BY ConstantsAssumption DEF IInv, CancelUpdate, SetStatus, workerVars, runVars, subVars,
    Reported, Terminal
<1>6. RunningIsOwned'
  BY ConstantsAssumption DEF IInv, heard, CancelUpdate, SetStatus, workerVars, runVars, subVars,
    RunningIsOwned
<1>7. Told'
  BY ConstantsAssumption DEF IInv, heard, CancelUpdate, SetStatus, workerVars, runVars, subVars,
    lifeVars, Told, Untold, Single, Verdict, EndIsTold
<1>. QED BY <1>1, <1>2, <1>3, <1>4, <1>5, <1>6, <1>7 DEF IInv

LEMMA CancelStopStep == ASSUME IInv, NEW j \in Job, CancelStop(j) PROVE IInv'
<1>1. TypeOK'
  BY ConstantsAssumption DEF IInv, heard, CancelStop, rowVars, workerVars, subVars, lifeVars,
    RunsOf, TypeOK
<1>2. Kinds'
  BY ConstantsAssumption DEF IInv, CancelStop, rowVars, workerVars, subVars, lifeVars, Kinds
<1>3. Places'
  BY ConstantsAssumption DEF IInv, CancelStop, rowVars, workerVars, subVars, lifeVars,
    Places
<1>4. Fresh'
  BY ConstantsAssumption DEF IInv, CancelStop, rowVars, workerVars, subVars, lifeVars, Fresh
<1>5. Reported'
  BY ConstantsAssumption DEF IInv, CancelStop, rowVars, workerVars, subVars, lifeVars,
    Reported
<1>6. RunningIsOwned'
  BY ConstantsAssumption DEF IInv, heard, CancelStop, rowVars, workerVars, subVars, lifeVars,
    RunningIsOwned
<1>7. Told'
  BY ConstantsAssumption DEF IInv, heard, CancelStop, rowVars, workerVars, subVars, lifeVars,
    Told, Untold, Single, Verdict, EndIsTold
<1>. QED BY <1>1, <1>2, <1>3, <1>4, <1>5, <1>6, <1>7 DEF IInv

LEMMA TickSelectStep == ASSUME IInv, TickSelect PROVE IInv'
<1>1. TypeOK'
  BY ConstantsAssumption DEF IInv, heard, TickSelect, At, rowVars, runVars, subVars, lifeVars,
    TypeOK, WorkerPlace
<1>2. Kinds'
  BY ConstantsAssumption DEF IInv, TickSelect, At, rowVars, runVars, subVars, IsOldest,
    QueuedAt, TypeOK, Kinds
<1>3. Places'
  BY ConstantsAssumption DEF IInv, TickSelect, At, rowVars, runVars, subVars, lifeVars,
    IsOldest, QueuedAt, TypeOK, Places
<1>4. Fresh'
  BY ConstantsAssumption DEF IInv, TickSelect, At, rowVars, runVars, subVars, IsOldest,
    QueuedAt, Fresh
<1>5. Reported'
  BY ConstantsAssumption DEF IInv, TickSelect, At, rowVars, runVars, subVars, Reported
<1>6. RunningIsOwned'
  BY ConstantsAssumption DEF IInv, heard, TickSelect, At, rowVars, runVars, subVars, Places,
    RunningIsOwned
<1>7. Told'
  BY ConstantsAssumption DEF IInv, heard, TickSelect, At, rowVars, runVars, subVars, lifeVars,
    IsOldest, QueuedAt, Told, Untold, Single, Verdict, EndIsTold
<1>. QED BY <1>1, <1>2, <1>3, <1>4, <1>5, <1>6, <1>7 DEF IInv

LEMMA PickedStep == ASSUME IInv, Picked PROVE IInv'
<1>1. TypeOK'
  BY ConstantsAssumption DEF IInv, heard, Picked, At, Goto, rowVars, runVars, subVars, lifeVars,
    TypeOK, WorkerPlace
<1>2. Kinds'
  BY ConstantsAssumption DEF IInv, Picked, At, Goto, rowVars, runVars, subVars, Kinds
<1>3. Places'
  BY ConstantsAssumption DEF IInv, Picked, At, Goto, rowVars, runVars, lifeVars, Places
<1>4. Fresh'
  BY ConstantsAssumption DEF IInv, Picked, At, Goto, rowVars, runVars, subVars, Fresh
<1>5. Reported'
  BY ConstantsAssumption DEF IInv, Picked, At, Goto, rowVars, runVars, subVars, Reported
<1>6. RunningIsOwned'
  BY ConstantsAssumption DEF IInv, heard, Picked, At, Goto, rowVars, runVars, RunningIsOwned
<1>7. Told'
  BY ConstantsAssumption DEF IInv, heard, Picked, At, Goto, rowVars, runVars, lifeVars, Told,
    Untold, Single, Verdict, EndIsTold
<1>. QED BY <1>1, <1>2, <1>3, <1>4, <1>5, <1>6, <1>7 DEF IInv

LEMMA MarkRunningStep == ASSUME IInv, MarkRunning PROVE IInv'
<1>1. TypeOK'
  BY ConstantsAssumption DEF IInv, heard, MarkRunning, SetStatus, At, Goto, runVars, subVars,
    lifeVars, TypeOK, Status, WorkerPlace
<1>2. Kinds'
  BY ConstantsAssumption DEF IInv, MarkRunning, SetStatus, At, Goto, runVars, subVars, Kinds
<1>3. Places'
  BY ConstantsAssumption DEF IInv, MarkRunning, SetStatus, At, Goto, runVars, lifeVars,
    TypeOK, Places
<1>4. Fresh'
  BY ConstantsAssumption DEF IInv, MarkRunning, SetStatus, At, Goto, runVars, subVars, Fresh
<1>5. Reported'
  BY ConstantsAssumption DEF IInv, MarkRunning, SetStatus, At, Goto, runVars, subVars,
    Fresh, Reported
<1>6. RunningIsOwned'
  BY ConstantsAssumption DEF IInv, heard, MarkRunning, SetStatus, At, Goto, runVars, RunningIsOwned
<1>7. Told'
  BY ConstantsAssumption DEF IInv, heard, MarkRunning, SetStatus, At, Goto, runVars, lifeVars,
    Told, Untold, Single, Verdict, EndIsTold
<1>. QED BY <1>1, <1>2, <1>3, <1>4, <1>5, <1>6, <1>7 DEF IInv

LEMMA SpawnStep == ASSUME IInv, Spawn PROVE IInv'
<1>1. TypeOK'
  BY ConstantsAssumption DEF IInv, heard, Spawn, At, Goto, rowVars, subVars, lifeVars, RunsOf,
    TypeOK, WorkerPlace
<1>2. Kinds'
  BY ConstantsAssumption DEF IInv, Spawn, At, Goto, rowVars, subVars, Kinds
<1>3. Places'
  BY ConstantsAssumption DEF IInv, Spawn, At, Goto, rowVars, subVars, lifeVars, Places
<1>4. Fresh'
  BY ConstantsAssumption DEF IInv, Spawn, At, Goto, rowVars, subVars, Places, Fresh
<1>5. Reported'
  BY ConstantsAssumption DEF IInv, Spawn, At, Goto, rowVars, subVars, Reported
<1>6. RunningIsOwned'
  BY ConstantsAssumption DEF IInv, heard, Spawn, At, Goto, rowVars, subVars, RunningIsOwned
<1>7. Told'
  BY ConstantsAssumption DEF IInv, heard, Spawn, At, Goto, rowVars, subVars, lifeVars, Told,
    Untold, Single, Verdict, EndIsTold
<1>. QED BY <1>1, <1>2, <1>3, <1>4, <1>5, <1>6, <1>7 DEF IInv

LEMMA SpawnRefusedStep == ASSUME IInv, SpawnRefused PROVE IInv'
<1>1. TypeOK'
  BY ConstantsAssumption DEF IInv, heard, SpawnRefused, At, Goto, rowVars, runVars, subVars,
    lifeVars, TypeOK, WorkerPlace
<1>2. Kinds'
  BY ConstantsAssumption DEF IInv, SpawnRefused, At, Goto, rowVars, runVars, subVars, Kinds
<1>3. Places'
  BY ConstantsAssumption DEF IInv, SpawnRefused, At, Goto, rowVars, runVars, lifeVars,
    Places
<1>4. Fresh'
  BY ConstantsAssumption DEF IInv, SpawnRefused, At, Goto, rowVars, runVars, subVars, Fresh
<1>5. Reported'
  BY ConstantsAssumption DEF IInv, SpawnRefused, At, Goto, rowVars, runVars, subVars,
    Reported
<1>6. RunningIsOwned'
  BY ConstantsAssumption DEF IInv, heard, SpawnRefused, At, Goto, rowVars, runVars, RunningIsOwned
<1>7. Told'
  BY ConstantsAssumption DEF IInv, heard, SpawnRefused, At, Goto, rowVars, runVars, lifeVars,
    Told, Untold, Single, Verdict, EndIsTold
<1>. QED BY <1>1, <1>2, <1>3, <1>4, <1>5, <1>6, <1>7 DEF IInv

LEMMA RunEndsStep == ASSUME IInv, NEW j \in Job, RunEnds(j) PROVE IInv'
<1>1. TypeOK'
  BY ConstantsAssumption DEF IInv, heard, RunEnds, rowVars, workerVars, subVars, lifeVars, TypeOK
<1>2. Kinds'
  BY ConstantsAssumption DEF IInv, RunEnds, rowVars, workerVars, subVars, lifeVars, Kinds
<1>3. Places'
  BY ConstantsAssumption DEF IInv, RunEnds, rowVars, workerVars, subVars, lifeVars, Places
<1>4. Fresh'
  BY ConstantsAssumption DEF IInv, RunEnds, rowVars, workerVars, subVars, lifeVars, Fresh
<1>5. Reported'
  BY ConstantsAssumption DEF IInv, RunEnds, rowVars, workerVars, subVars, lifeVars, Reported
<1>6. RunningIsOwned'
  BY ConstantsAssumption DEF IInv, heard, RunEnds, rowVars, workerVars, subVars, lifeVars,
    RunningIsOwned, Queueable, Sandbox
<1>7. Told'
  BY ConstantsAssumption DEF IInv, heard, RunEnds, rowVars, workerVars, subVars, lifeVars, Told,
    Untold, Single, Verdict, EndIsTold
<1>. QED BY <1>1, <1>2, <1>3, <1>4, <1>5, <1>6, <1>7 DEF IInv

LEMMA ShellOverStep == ASSUME IInv, ShellOver PROVE IInv'
<1>1. TypeOK'
  BY ConstantsAssumption DEF IInv, heard, ShellOver, At, Goto, rowVars, subVars, lifeVars, TypeOK,
    Places, WorkerPlace
<1>2. Kinds'
  BY ConstantsAssumption DEF IInv, ShellOver, At, Goto, rowVars, subVars, Kinds
<1>3. Places'
  BY ConstantsAssumption DEF IInv, ShellOver, At, Goto, rowVars, subVars, lifeVars, Places
<1>4. Fresh'
  BY ConstantsAssumption DEF IInv, ShellOver, At, Goto, rowVars, subVars, Fresh
<1>5. Reported'
  BY ConstantsAssumption DEF IInv, ShellOver, At, Goto, rowVars, subVars, Reported
<1>6. RunningIsOwned'
  BY ConstantsAssumption DEF IInv, heard, ShellOver, At, Goto, rowVars, subVars, RunningIsOwned
<1>7. Told'
  BY ConstantsAssumption DEF IInv, heard, ShellOver, At, Goto, rowVars, subVars, lifeVars, Told,
    Untold, Single, Verdict, EndIsTold
<1>. QED BY <1>1, <1>2, <1>3, <1>4, <1>5, <1>6, <1>7 DEF IInv

LEMMA CheckCancelledStep == ASSUME IInv, CheckCancelled PROVE IInv'
<1>1. TypeOK'
  BY ConstantsAssumption DEF IInv, heard, CheckCancelled, At, Goto, Release, rowVars, runVars,
    subVars, lifeVars, TypeOK, WorkerPlace
<1>2. Kinds'
  BY ConstantsAssumption DEF IInv, CheckCancelled, At, Goto, Release, rowVars, subVars,
    Kinds
<1>3. Places'
  BY ConstantsAssumption DEF IInv, CheckCancelled, At, Goto, Release, rowVars, lifeVars,
    Places
<1>4. Fresh'
  BY ConstantsAssumption DEF IInv, CheckCancelled, At, Goto, Release, rowVars, runVars,
    subVars, Fresh
<1>5. Reported'
  BY ConstantsAssumption DEF IInv, CheckCancelled, At, Goto, Release, rowVars, subVars,
    Reported
<1>6. RunningIsOwned'
  BY ConstantsAssumption DEF IInv, heard, CheckCancelled, At, Goto, Release, rowVars, runVars,
    RunningIsOwned
<1>7. Told'
  BY ConstantsAssumption DEF IInv, heard, CheckCancelled, At, Goto, Release, rowVars, lifeVars,
    Told, Untold, Single, Verdict, EndIsTold
<1>. QED BY <1>1, <1>2, <1>3, <1>4, <1>5, <1>6, <1>7 DEF IInv

LEMMA DeliverStep == ASSUME IInv, Deliver PROVE IInv'
<1>1. TypeOK'
  BY ConstantsAssumption DEF IInv, heard, Deliver, Tell, At, Goto, rowVars, runVars, subVars,
    lifeVars, TypeOK, WorkerPlace
<1>2. Kinds'
  BY ConstantsAssumption DEF IInv, Deliver, Tell, At, Goto, rowVars, subVars, Kinds
<1>3. Places'
  BY ConstantsAssumption DEF IInv, Deliver, Tell, At, Goto, rowVars, lifeVars, Places
<1>4. Fresh'
  BY ConstantsAssumption DEF IInv, Deliver, Tell, At, Goto, rowVars, runVars, subVars, Fresh
<1>5. Reported'
  BY ConstantsAssumption DEF IInv, Deliver, Tell, At, Goto, rowVars, subVars, Reported
<1>6. RunningIsOwned'
  BY ConstantsAssumption DEF IInv, heard, Deliver, Tell, At, Goto, rowVars, runVars, RunningIsOwned
<1>7. Told'
  BY ConstantsAssumption DEF IInv, heard, Deliver, Tell, At, Goto, rowVars, lifeVars, TypeOK,
    Places, Reported, Told, Untold, Single, Verdict, EndIsTold, Queueable
<1>. QED BY <1>1, <1>2, <1>3, <1>4, <1>5, <1>6, <1>7 DEF IInv

LEMMA FinishJobStep == ASSUME IInv, FinishJob PROVE IInv'
<1>1. TypeOK'
  BY ConstantsAssumption DEF IInv, heard, FinishJob, SetStatus, At, Release, runVars, subVars,
    lifeVars, TypeOK, Status, Terminal, WorkerPlace
<1>2. Kinds'
  BY ConstantsAssumption DEF IInv, FinishJob, SetStatus, At, Release, runVars, subVars,
    TypeOK, Kinds
<1>3. Places'
  BY ConstantsAssumption DEF IInv, FinishJob, SetStatus, At, Release, runVars, lifeVars,
    TypeOK, Places, Queueable
<1>4. Fresh'
  BY ConstantsAssumption DEF IInv, FinishJob, SetStatus, At, Release, runVars, subVars,
    TypeOK, Fresh
<1>5. Reported'
  BY ConstantsAssumption DEF IInv, FinishJob, SetStatus, At, Release, runVars, subVars,
    TypeOK, Reported, Terminal
<1>6. RunningIsOwned'
  BY ConstantsAssumption DEF IInv, heard, FinishJob, SetStatus, At, Release, runVars, TypeOK,
    RunningIsOwned
<1>7. Told'
  <2>1. /\ cur \in Job /\ worker = "finish" /\ cur' = NoJob /\ worker' = "idle"
        /\ told' = told /\ dropped' = dropped /\ crashes' = crashes
    BY DEF IInv, Places, Kinds, Queueable, FinishJob, At, Release, lifeVars, heard
  <2>2. PICK s \in {"done", "error"} : /\ status' = [status EXCEPT ![cur] = s]
                                       /\ s = "done" => "result" \in told[cur]
    BY DEF FinishJob, SetStatus
  <2>3. NoJob \notin Job
    BY ConstantsAssumption
  <2>4. ASSUME NEW j \in Job PROVE status'[j] = IF j = cur THEN s ELSE status[j]
    BY <2>1, <2>2 DEF IInv, TypeOK
  <2>5. Untold'
    BY <2>1, <2>3, <2>4 DEF IInv, Told, Untold
  <2>6. Single'
    BY <2>1 DEF IInv, Told, Single
  <2>7. told[cur] # {} /\ (s = "done" => told[cur] = {"result"})
    BY <2>1, <2>2 DEF IInv, Told, Verdict
  <2>8. Verdict'
    BY <2>1, <2>3 DEF Verdict
  <2>9. EndIsTold'
    BY <2>1, <2>3, <2>4, <2>7 DEF IInv, Told, EndIsTold
  <2>. QED BY <2>5, <2>6, <2>8, <2>9 DEF Told
<1>. QED BY <1>1, <1>2, <1>3, <1>4, <1>5, <1>6, <1>7 DEF IInv

LEMMA FailJobStep == ASSUME IInv, FailJob PROVE IInv'
<1>1. TypeOK'
  BY ConstantsAssumption DEF IInv, heard, FailJob, SetStatus, At, Goto, runVars, subVars,
    lifeVars, TypeOK, Status, Terminal, WorkerPlace
<1>2. Kinds'
  BY ConstantsAssumption DEF IInv, FailJob, SetStatus, At, Goto, runVars, subVars, Kinds
<1>3. Places'
  BY ConstantsAssumption DEF IInv, FailJob, SetStatus, At, Goto, runVars, lifeVars, TypeOK,
    Places, Terminal
<1>4. Fresh'
  BY ConstantsAssumption DEF IInv, FailJob, SetStatus, At, Goto, runVars, subVars, Fresh
<1>5. Reported'
  BY ConstantsAssumption DEF IInv, FailJob, SetStatus, At, Goto, runVars, subVars,
    Reported, Terminal
<1>6. RunningIsOwned'
  BY ConstantsAssumption DEF IInv, heard, FailJob, SetStatus, At, Goto, runVars, RunningIsOwned
<1>7. Told'
  BY ConstantsAssumption DEF IInv, heard, FailJob, SetStatus, At, Goto, runVars, lifeVars, Told,
    Untold, Single, Verdict, EndIsTold
<1>. QED BY <1>1, <1>2, <1>3, <1>4, <1>5, <1>6, <1>7 DEF IInv

LEMMA AlertStep == ASSUME IInv, Alert PROVE IInv'
<1>1. TypeOK'
  BY ConstantsAssumption DEF IInv, heard, Alert, Tell, At, Release, rowVars, runVars, subVars,
    lifeVars, TypeOK, WorkerPlace
<1>2. Kinds'
  BY ConstantsAssumption DEF IInv, Alert, Tell, At, Release, rowVars, subVars, Kinds
<1>3. Places'
  BY ConstantsAssumption DEF IInv, Alert, Tell, At, Release, rowVars, lifeVars, Places
<1>4. Fresh'
  BY ConstantsAssumption DEF IInv, Alert, Tell, At, Release, rowVars, runVars, subVars,
    Fresh
<1>5. Reported'
  BY ConstantsAssumption DEF IInv, Alert, Tell, At, Release, rowVars, subVars, Reported
<1>6. RunningIsOwned'
  BY ConstantsAssumption DEF IInv, heard, Alert, Tell, At, Release, rowVars, runVars, Places,
    RunningIsOwned, Terminal
<1>7. Told'
  <2>1. PICK what \in {"alert", "nothing"} :
          /\ cur \in Job /\ worker = "alert" /\ worker' = "idle" /\ cur' = NoJob
          /\ UNCHANGED <<status, dropped, crashes>>
          /\ told' = [told EXCEPT ![cur] = @ \cup {what}]
    BY DEF IInv, Alert, Tell, At, Release, rowVars, lifeVars, TypeOK, Places
  <2>2. told[cur] = {}
    BY <2>1 DEF IInv, Told, Untold
  <2>3. NoJob \notin Job /\ status[cur] \notin {"absent", "queued"}
    BY <2>1, ConstantsAssumption DEF IInv, Places, Terminal
  <2>4. ASSUME NEW j \in Job PROVE told'[j] = IF j = cur THEN {what} ELSE told[j]
    BY <2>1, <2>2 DEF IInv, TypeOK
  <2>5. Untold'
    BY <2>1, <2>3, <2>4 DEF IInv, Told, Untold
  <2>6. Single'
    BY <2>1, <2>4 DEF IInv, Told, Single
  <2>7. Verdict'
    BY <2>1, <2>3 DEF Verdict
  <2>8. EndIsTold'
    BY <2>1, <2>4 DEF IInv, Told, Verdict, EndIsTold
  <2>. QED BY <2>5, <2>6, <2>7, <2>8 DEF Told
<1>. QED BY <1>1, <1>2, <1>3, <1>4, <1>5, <1>6, <1>7 DEF IInv

LEMMA WorkerThrowsStep == ASSUME IInv, WorkerThrows PROVE IInv'
<1>0. /\ cur \in Job /\ worker \notin {"idle", "alert"} /\ worker' = "idle" /\ cur' = NoJob
      /\ dropped' = dropped \cup {j \in {cur} : status[j] = "running"}
      /\ faults' \in 0..MaxFaults /\ NoJob \notin Job
      /\ UNCHANGED <<rowVars, specs, enq, cancelling, runVars, subVars, final, told, lifeVars>>
  BY ConstantsAssumption DEF IInv, TypeOK, Places, WorkerThrows, Fault, Release
<1>1. TypeOK'
  BY <1>0 DEF IInv, rowVars, runVars, subVars, lifeVars, TypeOK, WorkerPlace
<1>2. Kinds'
  BY <1>0 DEF IInv, rowVars, subVars, Kinds
<1>3. Places'
  BY <1>0 DEF IInv, rowVars, lifeVars, Places
<1>4. Fresh'
  BY <1>0 DEF IInv, rowVars, runVars, subVars, Fresh
<1>5. Reported'
  BY <1>0 DEF IInv, rowVars, subVars, Reported
<1>6. RunningIsOwned'
  BY <1>0 DEF IInv, rowVars, runVars, lifeVars, RunningIsOwned
<1>7. Told'
  <2>1. status' = status /\ told' = told /\ crashes' = crashes /\ dropped \subseteq dropped'
    BY <1>0 DEF rowVars, lifeVars
  <2>2. Untold' /\ Single' /\ Verdict'
    BY <1>0, <2>1 DEF IInv, Told, Untold, Single, Verdict
  <2>3. EndIsTold'
    BY <1>0, <2>1 DEF IInv, Told, Verdict, EndIsTold
  <2>. QED BY <2>2, <2>3 DEF Told
<1>. QED BY <1>1, <1>2, <1>3, <1>4, <1>5, <1>6, <1>7 DEF IInv

LEMMA SubAgentReturnsStep == ASSUME IInv, SubAgentReturns PROVE IInv'
<1>1. TypeOK'
  BY ConstantsAssumption DEF IInv, heard, SubAgentReturns, At, Goto, rowVars, runVars, subVars,
    lifeVars, TypeOK, WorkerPlace
<1>2. Kinds'
  BY ConstantsAssumption DEF IInv, SubAgentReturns, At, Goto, rowVars, runVars, subVars,
    Kinds
<1>3. Places'
  BY ConstantsAssumption DEF IInv, SubAgentReturns, At, Goto, rowVars, runVars, lifeVars,
    Places
<1>4. Fresh'
  BY ConstantsAssumption DEF IInv, SubAgentReturns, At, Goto, rowVars, runVars, subVars,
    Fresh
<1>5. Reported'
  BY ConstantsAssumption DEF IInv, SubAgentReturns, At, Goto, rowVars, runVars, subVars,
    Reported
<1>6. RunningIsOwned'
  BY ConstantsAssumption DEF IInv, heard, SubAgentReturns, At, Goto, rowVars, runVars,
    RunningIsOwned
<1>7. Told'
  BY ConstantsAssumption DEF IInv, heard, SubAgentReturns, At, Goto, rowVars, runVars, lifeVars,
    Told, Untold, Single, Verdict, EndIsTold
<1>. QED BY <1>1, <1>2, <1>3, <1>4, <1>5, <1>6, <1>7 DEF IInv

LEMMA SubAgentTimeoutStep == ASSUME IInv, SubAgentTimeout PROVE IInv'
<1>1. TypeOK'
  BY ConstantsAssumption DEF IInv, heard, SubAgentTimeout, At, Goto, rowVars, subVars, lifeVars,
    RunsOf, TypeOK, WorkerPlace
<1>2. Kinds'
  BY ConstantsAssumption DEF IInv, SubAgentTimeout, At, Goto, rowVars, subVars, Kinds
<1>3. Places'
  BY ConstantsAssumption DEF IInv, SubAgentTimeout, At, Goto, rowVars, subVars, lifeVars,
    Places
<1>4. Fresh'
  BY ConstantsAssumption DEF IInv, SubAgentTimeout, At, Goto, rowVars, subVars, Fresh
<1>5. Reported'
  BY ConstantsAssumption DEF IInv, SubAgentTimeout, At, Goto, rowVars, subVars, Reported
<1>6. RunningIsOwned'
  BY ConstantsAssumption DEF IInv, heard, SubAgentTimeout, At, Goto, rowVars, subVars,
    RunningIsOwned
<1>7. Told'
  BY ConstantsAssumption DEF IInv, heard, SubAgentTimeout, At, Goto, rowVars, subVars, lifeVars,
    Told, Untold, Single, Verdict, EndIsTold
<1>. QED BY <1>1, <1>2, <1>3, <1>4, <1>5, <1>6, <1>7 DEF IInv

LEMMA SettleStep == ASSUME IInv, Settle PROVE IInv'
<1>1. TypeOK'
  BY ConstantsAssumption DEF IInv, heard, Settle, At, Goto, rowVars, runVars, subVars, lifeVars,
    TypeOK, WorkerPlace
<1>2. Kinds'
  BY ConstantsAssumption DEF IInv, Settle, At, Goto, rowVars, runVars, subVars, Kinds
<1>3. Places'
  BY ConstantsAssumption DEF IInv, Settle, At, Goto, rowVars, runVars, lifeVars, Places
<1>4. Fresh'
  BY ConstantsAssumption DEF IInv, Settle, At, Goto, rowVars, runVars, subVars, Fresh
<1>5. Reported'
  BY ConstantsAssumption DEF IInv, Settle, At, Goto, rowVars, runVars, subVars, Reported
<1>6. RunningIsOwned'
  BY ConstantsAssumption DEF IInv, heard, Settle, At, Goto, rowVars, runVars, RunningIsOwned
<1>7. Told'
  BY ConstantsAssumption DEF IInv, heard, Settle, At, Goto, rowVars, runVars, lifeVars, Told,
    Untold, Single, Verdict, EndIsTold
<1>. QED BY <1>1, <1>2, <1>3, <1>4, <1>5, <1>6, <1>7 DEF IInv

LEMMA ReportStep == ASSUME IInv, Report PROVE IInv'
<1>1. TypeOK'
  BY ConstantsAssumption DEF IInv, heard, Report, At, Goto, Release, Tell, rowVars, runVars,
    subVars, lifeVars, TypeOK, Status, Terminal, WorkerPlace, Queueable, Sandbox
<1>2. Kinds'
  BY ConstantsAssumption DEF IInv, Report, Tell, At, Goto, Release, rowVars, subVars, Kinds
<1>3. Places'
  BY ConstantsAssumption DEF IInv, Report, Tell, At, Goto, Release, rowVars, lifeVars,
    Places
<1>4. Fresh'
  BY ConstantsAssumption DEF IInv, Report, Tell, At, Goto, Release, rowVars, runVars,
    subVars, Fresh
<1>5. Reported'
  BY ConstantsAssumption DEF IInv, Report, Tell, At, Goto, Release, rowVars, subVars,
    Reported
<1>6. RunningIsOwned'
  BY ConstantsAssumption DEF IInv, heard, Report, Tell, At, Goto, Release, rowVars, runVars,
    Reported, RunningIsOwned, Terminal
<1>7. Told'
  <2>1. /\ cur \in Job /\ worker # "finish" /\ status[cur] \notin {"absent", "queued"}
        /\ worker \notin {"finish", "alert"}
    BY DEF IInv, Places, Kinds, Queueable, Report, At
  <2>2. /\ status' = status /\ crashes' = crashes /\ dropped' = dropped
        /\ worker' \notin {"finish", "alert"} /\ cur' \in {cur, NoJob}
    BY DEF Report, Release, Goto, Tell, rowVars, lifeVars, heard
  <2>3. NoJob \notin Job
    BY ConstantsAssumption
  <2>4. Verdict'
    BY <2>1, <2>2, <2>3 DEF IInv, Told, Verdict
  <2>5. CASE told' = told
    <3>1. Untold'
      BY <2>1, <2>2, <2>3, <2>5 DEF IInv, Told, Untold
    <3>2. EndIsTold'
      BY <2>1, <2>2, <2>3, <2>5 DEF IInv, Told, Verdict, EndIsTold
    <3>. QED BY <2>2, <2>4, <2>5, <3>1, <3>2 DEF IInv, Told, Single
  <2>6. ASSUME NEW what, told' = [told EXCEPT ![cur] = @ \cup {what}], cur' = NoJob,
               cur \in completed
        PROVE  Told'
    <3>1. told[cur] = {}
      BY <2>1 DEF IInv, Told, Untold
    <3>2. ASSUME NEW j \in Job PROVE told'[j] = IF j = cur THEN {what} ELSE told[j]
      BY <2>1, <2>6, <3>1 DEF IInv, TypeOK
    <3>3. Untold'
      BY <2>1, <2>2, <2>3, <2>6, <3>2 DEF IInv, Told, Untold
    <3>4. Single'
      BY <2>2, <3>2 DEF IInv, Told, Single
    <3>5. Kind[cur] = "sub_agent"
      BY <2>1, <2>6 DEF IInv, Kinds
    <3>6. EndIsTold'
      BY <2>2, <2>6, <3>2, <3>5 DEF IInv, Told, EndIsTold
    <3>. QED BY <2>4, <3>3, <3>4, <3>6 DEF Told
  <2>. QED BY <2>5, <2>6 DEF Report, Tell, Release, heard
<1>. QED BY <1>1, <1>2, <1>3, <1>4, <1>5, <1>6, <1>7 DEF IInv

LEMMA RerunFailsStep == ASSUME IInv, NEW j \in Job, RerunFails(j) PROVE IInv'
<1>0. /\ j \in completed /\ "rerun" \in told[j] /\ told' = [told EXCEPT ![j] = @ \cup {"notice"}]
      /\ UNCHANGED <<rowVars, specs, enq, cancelling, workerVars, runVars, subVars, final, dropped,
                     lifeVars, faults>>
  BY DEF RerunFails, Tell
<1>1. TypeOK'
  BY <1>0 DEF IInv, rowVars, workerVars, runVars, subVars, lifeVars, TypeOK
<1>2. Kinds' /\ Places' /\ Fresh' /\ Reported'
  BY <1>0 DEF IInv, rowVars, workerVars, runVars, subVars, lifeVars, Kinds, Places, Fresh, Reported
<1>3. RunningIsOwned'
  BY <1>0 DEF IInv, rowVars, workerVars, runVars, lifeVars, RunningIsOwned
<1>4. Told'
  <2>1. /\ UNCHANGED <<status, cur, worker, crashes, dropped>>
        /\ Kind[j] = "sub_agent" /\ j \in Job
        /\ \A k \in Job : told'[k] = IF k = j THEN told[j] \cup {"notice"} ELSE told[k]
    BY <1>0 DEF IInv, TypeOK, Kinds, rowVars, workerVars, lifeVars
  <2>2. Untold'
    BY <1>0, <2>1 DEF IInv, Told, Untold
  <2>3. Single'
    BY <2>1 DEF IInv, Told, Single
  <2>4. ~(worker = "finish" /\ cur = j)
    BY <1>0 DEF IInv, Told, Verdict
  <2>5. worker = "finish" => cur \in Job
    BY DEF IInv, TypeOK, Places
  <2>6. Verdict'
    BY <2>1, <2>4, <2>5 DEF IInv, Told, Verdict
  <2>7. EndIsTold'
    BY <2>1 DEF IInv, Told, EndIsTold
  <2>. QED BY <2>2, <2>3, <2>6, <2>7 DEF Told
<1>. QED BY <1>1, <1>2, <1>3, <1>4 DEF IInv

LEMMA RecheckStep == ASSUME IInv, Recheck PROVE IInv'
<1>1. TypeOK'
  BY ConstantsAssumption DEF IInv, heard, Recheck, At, Goto, Release, rowVars, runVars, subVars,
    lifeVars, TypeOK, WorkerPlace
<1>2. Kinds'
  BY ConstantsAssumption DEF IInv, Recheck, At, Goto, Release, rowVars, subVars, Kinds
<1>3. Places'
  BY ConstantsAssumption DEF IInv, Recheck, At, Goto, Release, rowVars, lifeVars, Places,
    Terminal
<1>4. Fresh'
  BY ConstantsAssumption DEF IInv, Recheck, At, Goto, Release, rowVars, runVars, subVars,
    Fresh
<1>5. Reported'
  BY ConstantsAssumption DEF IInv, Recheck, At, Goto, Release, rowVars, subVars, Reported
<1>6. RunningIsOwned'
  BY ConstantsAssumption DEF IInv, heard, Recheck, At, Goto, Release, rowVars, runVars,
    RunningIsOwned
<1>7. Told'
  BY ConstantsAssumption DEF IInv, heard, Recheck, At, Goto, Release, rowVars, lifeVars, Told,
    Untold, Single, Verdict, EndIsTold
<1>. QED BY <1>1, <1>2, <1>3, <1>4, <1>5, <1>6, <1>7 DEF IInv

LEMMA SubmitReadStep == ASSUME IInv, NEW j \in Job, SubmitRead(j) PROVE IInv'
<1>1. TypeOK'
  BY ConstantsAssumption DEF IInv, heard, SubmitRead, rowVars, workerVars, runVars, lifeVars,
    TypeOK
<1>2. Kinds'
  BY ConstantsAssumption DEF IInv, SubmitRead, rowVars, workerVars, runVars, lifeVars, Kinds
<1>3. Places'
  BY ConstantsAssumption DEF IInv, SubmitRead, rowVars, workerVars, runVars, lifeVars,
    Places
<1>4. Fresh'
  BY ConstantsAssumption DEF IInv, SubmitRead, rowVars, workerVars, runVars, lifeVars, Fresh
<1>5. Reported'
  BY ConstantsAssumption DEF IInv, SubmitRead, rowVars, workerVars, runVars, lifeVars,
    Reported
<1>6. RunningIsOwned'
  BY ConstantsAssumption DEF IInv, heard, SubmitRead, rowVars, workerVars, runVars, lifeVars,
    RunningIsOwned
<1>7. Told'
  BY ConstantsAssumption DEF IInv, heard, SubmitRead, rowVars, workerVars, runVars, lifeVars,
    Told, Untold, Single, Verdict, EndIsTold
<1>. QED BY <1>1, <1>2, <1>3, <1>4, <1>5, <1>6, <1>7 DEF IInv

LEMMA SubmitPersistStep == ASSUME IInv, NEW j \in Job, SubmitPersist(j) PROVE IInv'
<1>0. /\ sub[j] = "persist" /\ Kind[j] = "sub_agent" /\ status[j] \notin {"absent", "queued"}
      /\ \E s \in {"done", "error", status[j]}, p \in {"persisted", "none"} :
           /\ status' = [status EXCEPT ![j] = s] /\ sub' = [sub EXCEPT ![j] = p]
           /\ p = "persisted" => s = "done"
      /\ faults' \in 0..MaxFaults
      /\ UNCHANGED <<created, specs, enq, cancelling, workerVars, runVars, completed, final,
                     told, dropped, lifeVars>>
  <2>1. sub[j] = "persist" /\ Kind[j] = "sub_agent" /\ status[j] \notin {"absent", "queued"}
    BY DEF IInv, SubmitPersist, Kinds, Fresh
  <2>2. /\ faults' \in 0..MaxFaults
        /\ UNCHANGED <<created, specs, enq, cancelling, workerVars, runVars, completed, final,
                       told, dropped, lifeVars>>
    BY ConstantsAssumption DEF IInv, TypeOK, SubmitPersist, Fault, heard
  <2>3. status = [status EXCEPT ![j] = status[j]]
    BY DEF IInv, TypeOK
  <2>. QED BY <2>1, <2>2, <2>3 DEF SubmitPersist, SetStatus
<1>9. PICK s \in {"done", "error", status[j]}, p \in {"persisted", "none"} :
           /\ status' = [status EXCEPT ![j] = s] /\ sub' = [sub EXCEPT ![j] = p]
           /\ p = "persisted" => s = "done"
  BY <1>0
<1>10. /\ \A k \in Job : status'[k] = IF k = j THEN s ELSE status[k]
       /\ \A k \in Job : sub'[k] = IF k = j THEN p ELSE sub[k]
  BY <1>9 DEF IInv, TypeOK
<1>1. TypeOK'
  <2>1. s \in Status
    BY DEF IInv, TypeOK, Status, Terminal
  <2>. QED BY <1>0, <1>9, <2>1 DEF IInv, workerVars, runVars, lifeVars, TypeOK
<1>2. Kinds'
  BY <1>0, <1>10 DEF IInv, workerVars, Kinds
<1>3. Places'
  BY <1>0, <1>10 DEF IInv, workerVars, lifeVars, Places, Queueable, Terminal
<1>4. Fresh'
  BY <1>0, <1>10 DEF IInv, workerVars, runVars, Fresh
<1>5. Reported'
  BY <1>0, <1>9, <1>10 DEF IInv, Reported, Terminal
<1>6. RunningIsOwned'
  BY <1>0, <1>10 DEF IInv, workerVars, runVars, lifeVars, RunningIsOwned
<1>7. Told'
  <2>1. UNCHANGED <<told, dropped, cur, worker, crashes>>
    BY <1>0 DEF workerVars, lifeVars
  <2>2. Untold' /\ Single'
    BY <1>0, <1>10, <2>1 DEF IInv, Told, Untold, Single
  <2>3. Verdict' /\ EndIsTold'
    BY <1>0, <1>10, <2>1 DEF IInv, Told, Verdict, EndIsTold
  <2>. QED BY <2>2, <2>3 DEF Told
<1>. QED BY <1>1, <1>2, <1>3, <1>4, <1>5, <1>6, <1>7 DEF IInv

LEMMA SubmitDoneStep == ASSUME IInv, NEW j \in Job, SubmitDone(j) PROVE IInv'
<1>1. TypeOK'
  BY ConstantsAssumption DEF IInv, heard, SubmitDone, rowVars, workerVars, runVars, lifeVars,
    TypeOK
<1>2. Kinds'
  BY ConstantsAssumption DEF IInv, SubmitDone, rowVars, workerVars, runVars, lifeVars, Kinds
<1>3. Places'
  BY ConstantsAssumption DEF IInv, SubmitDone, rowVars, workerVars, runVars, lifeVars,
    Places
<1>4. Fresh'
  BY ConstantsAssumption DEF IInv, SubmitDone, rowVars, workerVars, runVars, lifeVars, Fresh
<1>5. Reported'
  BY ConstantsAssumption DEF IInv, SubmitDone, rowVars, workerVars, runVars, lifeVars,
    Reported
<1>6. RunningIsOwned'
  BY ConstantsAssumption DEF IInv, heard, SubmitDone, rowVars, workerVars, runVars, lifeVars,
    RunningIsOwned
<1>7. Told'
  BY ConstantsAssumption DEF IInv, heard, SubmitDone, rowVars, workerVars, runVars, lifeVars,
    Told, Untold, Single, Verdict, EndIsTold
<1>. QED BY <1>1, <1>2, <1>3, <1>4, <1>5, <1>6, <1>7 DEF IInv

LEMMA SandboxStartStep == ASSUME IInv, NEW j \in Sandbox, SandboxStart(j) PROVE IInv'
<1>1. TypeOK'
  BY ConstantsAssumption DEF IInv, heard, SandboxStart, SetStatus, workerVars, subVars, lifeVars,
    TypeOK, Status, Sandbox
<1>2. Kinds'
  BY ConstantsAssumption DEF IInv, SandboxStart, SetStatus, workerVars, subVars, lifeVars,
    Kinds
<1>3. Places'
  BY ConstantsAssumption DEF IInv, SandboxStart, SetStatus, workerVars, subVars, lifeVars,
    Places, Queueable, Sandbox
<1>4. Fresh'
  BY ConstantsAssumption DEF IInv, SandboxStart, SetStatus, workerVars, subVars, lifeVars,
    TypeOK, Places, Fresh
<1>5. Reported'
  BY ConstantsAssumption DEF IInv, SandboxStart, SetStatus, workerVars, subVars, lifeVars,
    Fresh, Reported
<1>6. RunningIsOwned'
  BY ConstantsAssumption DEF IInv, heard, SandboxStart, SetStatus, workerVars, subVars, lifeVars,
    TypeOK, RunningIsOwned
<1>7. Told'
  BY ConstantsAssumption DEF IInv, heard, SandboxStart, SetStatus, workerVars, subVars, lifeVars,
    Told, Untold, Single, Verdict, EndIsTold
<1>. QED BY <1>1, <1>2, <1>3, <1>4, <1>5, <1>6, <1>7 DEF IInv

LEMMA UserAbortsStep == ASSUME IInv, NEW agent, UserAborts(agent) PROVE IInv'
<1>0. /\ signalled' \subseteq Job
      /\ UNCHANGED <<rowVars, specs, enq, cancelling, workerVars, run, subVars, final, told, dropped,
                     lifeVars, faults>>
  BY DEF IInv, TypeOK, UserAborts, RunsOf, heard
<1>1. TypeOK' /\ Kinds' /\ Places'
  BY <1>0 DEF IInv, rowVars, workerVars, subVars, lifeVars, TypeOK, Kinds, Places
<1>2. Fresh' /\ Reported' /\ RunningIsOwned'
  BY <1>0 DEF IInv, rowVars, workerVars, subVars, lifeVars, Fresh, Reported, RunningIsOwned
<1>3. Told'
  BY <1>0 DEF IInv, rowVars, workerVars, lifeVars, Told, Untold, Single, Verdict, EndIsTold
<1>. QED BY <1>1, <1>2, <1>3 DEF IInv

LEMMA SandboxEndsStep == ASSUME IInv, NEW j \in Job, SandboxEnds(j) PROVE IInv'
<1>0. /\ j \in Sandbox /\ run' = [run EXCEPT ![j] = "ok"] /\ run[j] = "alive"
      /\ faults' \in 0..MaxFaults
      /\ UNCHANGED <<rowVars, specs, enq, cancelling, workerVars, signalled, subVars, told, lifeVars>>
  BY ConstantsAssumption DEF IInv, TypeOK, SandboxEnds, Fault
<1>9. \/ final' = final /\ dropped' = dropped /\ status[j] # "running"
      \/ (\E s \in Terminal : final' = [final EXCEPT ![j] = s]) /\ dropped' = dropped
      \/ final' = final /\ dropped' = dropped \cup {j}
  BY DEF SandboxEnds
<1>10. /\ dropped' \subseteq dropped \cup {j} /\ dropped \subseteq dropped'
       /\ final' \in [Job -> Terminal \cup {"none"}]
       /\ \A k \in Job : k # j => final'[k] = final[k]
       /\ status[j] = "running" => final'[j] # "none" \/ j \in dropped'
  BY <1>9 DEF IInv, TypeOK, Terminal
<1>1. TypeOK'
  BY <1>0, <1>10 DEF IInv, rowVars, workerVars, subVars, lifeVars, TypeOK
<1>2. Kinds'
  BY <1>0, <1>10 DEF IInv, rowVars, workerVars, subVars, Kinds
<1>3. Places'
  BY <1>0 DEF IInv, rowVars, workerVars, lifeVars, Places
<1>4. Fresh'
  BY <1>0 DEF IInv, rowVars, workerVars, subVars, TypeOK, Fresh
<1>5. Reported'
  BY <1>0 DEF IInv, rowVars, subVars, Reported
<1>6. RunningIsOwned'
  BY <1>0, <1>10 DEF IInv, TypeOK, rowVars, workerVars, lifeVars, RunningIsOwned
<1>7. Told'
  BY <1>0, <1>10 DEF IInv, rowVars, workerVars, lifeVars, Told, Untold, Single, Verdict, EndIsTold
<1>. QED BY <1>1, <1>2, <1>3, <1>4, <1>5, <1>6, <1>7 DEF IInv

LEMMA SandboxWriteStep == ASSUME IInv, NEW j \in Job, SandboxWrite(j) PROVE IInv'
<1>0. /\ j \in Sandbox /\ j \notin Queueable /\ final[j] \in Terminal
      /\ final' = [final EXCEPT ![j] = "none"]
      /\ faults' \in 0..MaxFaults
      /\ UNCHANGED <<created, specs, enq, cancelling, workerVars, runVars, subVars, told, lifeVars>>
  BY ConstantsAssumption DEF IInv, TypeOK, Kinds, SandboxWrite, Fault, Queueable, Sandbox
<1>9. \/ status' = [status EXCEPT ![j] = final[j]] /\ dropped' = dropped
      \/ status' = status /\ dropped' = dropped \cup {j}
  BY DEF SandboxWrite, SetStatus
<1>10. /\ dropped' \subseteq dropped \cup {j} /\ dropped \subseteq dropped'
       /\ status' \in [Job -> Status]
       /\ \A k \in Job : k # j => status'[k] = status[k]
       /\ status'[j] \in Terminal \/ (status'[j] = status[j] /\ j \in dropped')
  BY <1>0, <1>9 DEF IInv, TypeOK, Status
<1>1. TypeOK'
  BY <1>0, <1>10 DEF IInv, workerVars, runVars, subVars, lifeVars, TypeOK
<1>2. Kinds'
  BY <1>0, <1>10 DEF IInv, TypeOK, workerVars, subVars, Kinds, Terminal
<1>3. Places'
  <2>1. cur # NoJob => cur \in Job /\ cur # j
    BY <1>0 DEF IInv, Kinds, Queueable
  <2>2. worker # "idle" => cur # NoJob
    BY DEF IInv, Places
  <2>3. Queueable \subseteq Job
    BY DEF Queueable
  <2>. QED BY <1>0, <1>10, <2>1, <2>2, <2>3 DEF IInv, workerVars, lifeVars, Places, Terminal
<1>4. Fresh'
  BY <1>0, <1>10 DEF IInv, workerVars, runVars, subVars, Kinds, Fresh, Terminal
<1>5. Reported'
  BY <1>0, <1>10 DEF IInv, subVars, Reported
<1>6. RunningIsOwned'
  BY <1>0, <1>10 DEF IInv, TypeOK, workerVars, runVars, lifeVars, RunningIsOwned, Terminal
<1>7. Told'
  <2>1. Untold' /\ Single'
    BY <1>0, <1>10 DEF IInv, workerVars, lifeVars, Told, Untold, Single, Terminal
  <2>2. Kind[j] # "shell"
    BY <1>0 DEF Sandbox
  <2>3. Verdict' /\ EndIsTold'
    BY <1>0, <1>10, <2>2 DEF IInv, workerVars, Told, Verdict, EndIsTold
  <2>. QED BY <2>1, <2>3 DEF Told
<1>. QED BY <1>1, <1>2, <1>3, <1>4, <1>5, <1>6, <1>7 DEF IInv

LEMMA DestroyStep == ASSUME IInv, Destroy PROVE IInv'
<1>1. TypeOK'
  BY ConstantsAssumption DEF IInv, heard, Destroy, rowVars, workerVars, subVars, TypeOK
<1>2. Kinds'
  BY ConstantsAssumption DEF IInv, Destroy, rowVars, workerVars, subVars, TypeOK, Kinds
<1>3. Places'
  BY ConstantsAssumption DEF IInv, Destroy, rowVars, workerVars, subVars, TypeOK, Places
<1>4. Fresh'
  BY ConstantsAssumption DEF IInv, Destroy, rowVars, workerVars, subVars, TypeOK, Fresh
<1>5. Reported'
  BY ConstantsAssumption DEF IInv, Destroy, rowVars, workerVars, subVars, TypeOK, Reported
<1>6. RunningIsOwned'
  BY ConstantsAssumption DEF IInv, heard, Destroy, rowVars, workerVars, subVars, TypeOK,
    RunningIsOwned
<1>7. Told'
  BY ConstantsAssumption DEF IInv, heard, Destroy, rowVars, workerVars, subVars, TypeOK, Told,
    Untold, Single, Verdict, EndIsTold
<1>. QED BY <1>1, <1>2, <1>3, <1>4, <1>5, <1>6, <1>7 DEF IInv

LEMMA CrashStep == ASSUME IInv, Crash PROVE IInv'
<1>1. TypeOK'
  <2>1. crashes' \in 0..MaxCrashes
    BY ConstantsAssumption DEF IInv, TypeOK, Crash
  <2>2. /\ up' \in BOOLEAN /\ ticking' \in BOOLEAN
        /\ worker' \in WorkerPlace /\ cur' \in Job \cup {NoJob}
        /\ specs' \subseteq Queueable /\ signalled' \subseteq Job /\ completed' \subseteq Job
    BY DEF Crash, Release, WorkerPlace
  <2>3. UNCHANGED <<status, created, told, faults>> /\ dropped' \subseteq Job
    BY DEF IInv, TypeOK, Places, Crash, rowVars
  <2>4. /\ enq' \in [Job -> {"none", "checked", "inserted", "returned"}]
        /\ cancelling' \in [Job -> {"none", "read", "updated"}]
        /\ run' \in [Job -> {"none", "alive", "ok", "failed"}]
        /\ sub' \in [Job -> {"none", "persist", "persisted"}]
        /\ final' \in [Job -> Terminal \cup {"none"}]
    BY DEF Crash
  <2>. QED BY <2>1, <2>2, <2>3, <2>4 DEF IInv, TypeOK
<1>2. Kinds'
  BY ConstantsAssumption DEF IInv, Crash, Release, rowVars, TypeOK, Kinds
<1>3. Places'
  BY ConstantsAssumption DEF IInv, Crash, Release, rowVars, TypeOK, Kinds, Places, Queueable
<1>4. Fresh'
  BY ConstantsAssumption DEF IInv, Crash, Release, rowVars, TypeOK, Kinds, Fresh
<1>5. Reported'
  BY ConstantsAssumption DEF IInv, Crash, Release, rowVars, TypeOK, Kinds, Reported
<1>6. RunningIsOwned'
  BY ConstantsAssumption DEF IInv, heard, Crash, Release, rowVars, TypeOK, Kinds, RunningIsOwned
<1>7. Told'
  <2>1. /\ UNCHANGED <<status, told>> /\ worker' = "idle" /\ cur' = NoJob /\ crashes' # 0
        /\ dropped' = dropped \cup (IF worker = "alert" THEN {cur} ELSE {})
        /\ NoJob \notin Job
    BY ConstantsAssumption DEF IInv, Crash, Release, rowVars, TypeOK
  <2>2. Untold' /\ Single' /\ Verdict'
    BY <2>1 DEF IInv, Told, Untold, Single, Verdict
  <2>3. EndIsTold'
    BY <2>1 DEF IInv, Told, Verdict, EndIsTold
  <2>. QED BY <2>2, <2>3 DEF Told
<1>. QED BY <1>1, <1>2, <1>3, <1>4, <1>5, <1>6, <1>7 DEF IInv

LEMMA RecoverStep == ASSUME IInv, Recover PROVE IInv'
<1>1. TypeOK'
  BY ConstantsAssumption DEF IInv, heard, Recover, workerVars, runVars, subVars, TypeOK, Status,
    Terminal
<1>2. Kinds'
  BY ConstantsAssumption DEF IInv, Recover, workerVars, runVars, subVars, TypeOK, Kinds
<1>3. Places'
  BY ConstantsAssumption DEF IInv, Recover, workerVars, runVars, subVars, TypeOK, Places,
    Queueable
<1>4. Fresh'
  BY ConstantsAssumption DEF IInv, Recover, workerVars, runVars, subVars, TypeOK, Fresh
<1>5. Reported'
  BY ConstantsAssumption DEF IInv, Recover, workerVars, runVars, subVars, TypeOK, Reported,
    Terminal
<1>6. RunningIsOwned'
  BY ConstantsAssumption DEF IInv, heard, Recover, workerVars, runVars, subVars, TypeOK,
    RunningIsOwned
<1>7. Told'
  <2>1. /\ ~up /\ crashes # 0 /\ cur = NoJob /\ worker = "idle" /\ NoJob \notin Job
        /\ UNCHANGED <<cur, worker, crashes, dropped>>
    BY ConstantsAssumption DEF IInv, TypeOK, Places, Recover, workerVars
  <2>2. ASSUME NEW j \in Job
        PROVE  IF status[j] \in {"queued", "running"}
               THEN status'[j] = "error" /\ told'[j] = told[j] \cup {"alert"}
               ELSE status'[j] = status[j] /\ told'[j] = told[j]
    BY DEF Recover
  <2>3. Untold' /\ Single' /\ Verdict'
    BY <2>1, <2>2 DEF IInv, Told, Untold, Single, Verdict
  <2>4. EndIsTold'
    BY <2>1, <2>2 DEF IInv, Told, EndIsTold
  <2>. QED BY <2>3, <2>4 DEF Told
<1>. QED BY <1>1, <1>2, <1>3, <1>4, <1>5, <1>6, <1>7 DEF IInv

-----------------------------------------------------------------------------
LEMMA InitInv == Init => IInv
<1>. SUFFICES ASSUME Init PROVE IInv
  OBVIOUS
<1>1. TypeOK
  BY ConstantsAssumption DEF Init, TypeOK, Status, Terminal, WorkerPlace
<1>2. Kinds /\ Fresh /\ Reported
  BY ConstantsAssumption DEF Init, Kinds, Fresh, Reported
<1>3. RunningIsOwned /\ Told
  BY ConstantsAssumption DEF Init, RunningIsOwned, Told, Untold, Single, Verdict, EndIsTold
<1>4. Places
  BY DEF Init, Places, Queueable
<1>. QED BY <1>1, <1>2, <1>3, <1>4 DEF IInv

LEMMA StutterStep == IInv /\ UNCHANGED vars => IInv'
<1>. SUFFICES ASSUME IInv, UNCHANGED vars PROVE IInv'
  OBVIOUS
<1>. USE DEF IInv, vars, heard, rowVars, workerVars, runVars, subVars, lifeVars
<1>1. TypeOK' /\ Kinds' /\ Places'
  BY DEF TypeOK, Kinds, Places
<1>2. Fresh' /\ Reported' /\ RunningIsOwned'
  BY DEF Fresh, Reported, RunningIsOwned
<1>3. Told'
  BY DEF Told, Untold, Single, Verdict, EndIsTold
<1>. QED BY <1>1, <1>2, <1>3

LEMMA NextStep == IInv /\ [Next]_vars => IInv'
<1>. SUFFICES ASSUME IInv, [Next]_vars PROVE IInv'
  OBVIOUS
<1>1. CASE WorkerStep
  BY <1>1, TickSelectStep, PickedStep, MarkRunningStep, SpawnStep, SpawnRefusedStep,
     ShellOverStep, CheckCancelledStep, DeliverStep, FinishJobStep, FailJobStep, AlertStep,
     SubAgentReturnsStep, SubAgentTimeoutStep, SettleStep, ReportStep, RecheckStep
     DEF WorkerStep
<1>2. CASE WorkerThrows
  BY <1>2, WorkerThrowsStep
<1>3. ASSUME NEW j \in Job, CallStep(j) PROVE IInv'
  BY <1>3, EnqueueInsertStep, EnqueueReturnStep, CancelUpdateStep, CancelStopStep,
     SubmitPersistStep, SubmitDoneStep, SandboxEndsStep, SandboxWriteStep DEF CallStep
<1>4. ASSUME NEW j \in Job, CancelRead(j) \/ SubmitRead(j) \/ RunEnds(j) \/ RerunFails(j)
      PROVE IInv'
  BY <1>4, CancelReadStep, SubmitReadStep, RunEndsStep, RerunFailsStep
<1>5. ASSUME NEW j \in Queueable, EnqueueCall(j) PROVE IInv'
  BY <1>5, EnqueueCallStep
<1>6. ASSUME NEW j \in Sandbox, SandboxStart(j) PROVE IInv'
  BY <1>6, SandboxStartStep
<1>7. ASSUME NEW j \in Sandbox, UserAborts(Agent[j]) PROVE IInv'
  BY <1>7, UserAbortsStep
<1>8. CASE Destroy \/ Crash \/ Recover
  BY <1>8, DestroyStep, CrashStep, RecoverStep
<1>. QED BY <1>1, <1>2, <1>3, <1>4, <1>5, <1>6, <1>7, <1>8, StutterStep DEF Next

-----------------------------------------------------------------------------
(* The rows, calls and places of the worker fit together in every          *)
(* reachable state.                                                        *)
THEOREM InductiveInvariant == Spec => []IInv
<1>. QED BY InitInv, NextStep, PTL DEF Spec

(* Every variable has its type. *)
THEOREM TypeCorrect == Spec => []TypeOK
<1>1. IInv => TypeOK
  BY DEF IInv
<1>. QED BY <1>1, InductiveInvariant, PTL

(* A row that says running has somebody who will write its end: the        *)
(* worker, the sandbox's host, or the next start; or the code let go of it  *)
(* in one of the four ways that RunningIsOwned names.                       *)
THEOREM RunningHasAnOwner == Spec => []RunningIsOwned
<1>1. IInv => RunningIsOwned
  BY DEF IInv
<1>. QED BY <1>1, InductiveInvariant, PTL

(* The end in the row of a shell job is what the user was told, whatever    *)
(* was cancelled, failed or restarted: done and its result and no alert,    *)
(* or an error that was announced.                                          *)
THEOREM EndsAreTold == Spec => []EndIsTold
<1>1. IInv => EndIsTold
  BY DEF IInv, Told
<1>. QED BY <1>1, InductiveInvariant, PTL

(* As long as the backend does not crash the user hears at most one thing  *)
(* about a job, the notice of a failed rerun apart.                        *)
THEOREM VerdictIsUnique == Spec => []OneVerdict
<1>1. ASSUME Single PROVE OneVerdict
  <2>. SUFFICES ASSUME crashes = 0, NEW j \in Job PROVE Cardinality(told[j] \ {"notice"}) <= 1
    BY DEF OneVerdict
  <2>1. CASE told[j] \ {"notice"} = {}
    BY <2>1, FS_EmptySet
  <2>2. CASE told[j] \ {"notice"} # {}
    <3>1. PICK x \in told[j] \ {"notice"} : TRUE
      BY <2>2
    <3>2. told[j] \ {"notice"} = {x}
      BY <1>1, <3>1 DEF Single
    <3>3. Cardinality({x}) = 1
      BY FS_Singleton
    <3>. QED BY <3>2, <3>3
  <2>. QED BY <2>1, <2>2
<1>2. IInv => Single
  BY DEF IInv, Told
<1>. QED BY <1>1, <1>2, InductiveInvariant, PTL

=============================================================================
