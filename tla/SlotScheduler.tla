---------------------------- MODULE SlotScheduler ----------------------------
(***************************************************************************)
(* MERCURY's slot scheduler: the cron loop and the slot transitions        *)
(* (scheduler/loop.py), the slot state every inference route consults      *)
(* (scheduler/state.py), the persisted copy (data/db.py), the admin        *)
(* endpoints (admin/routes/schedules.py) and the restart of the process.   *)
(*                                                                         *)
(* A step is the code between two suspension points of a coroutine.  The   *)
(* coroutines are run_loop (Ticker), one per admin call (Admin) and one    *)
(* per inference request (Consumer).  A transition suspends in             *)
(* wait_for_idle and in execute_actions.  wait_for_idle ends when the      *)
(* queue is idle or after max_wait_seconds, and the code goes on in either *)
(* case, so the wait is one suspension that may end at any moment.         *)
(***************************************************************************)
EXTENDS Naturals, Sequences, FiniteSets

CONSTANTS
    Schedule,        \* schedules stored in the database
    Consumer,        \* users that send inference requests
    Exclusive,       \* schedules with exclusive = True
    Allowed,         \* allowed_consumers of every schedule
    Admin,           \* concurrent calls of the admin endpoints
    Ticker,          \* the coroutine run_loop
    NoSlot,          \* None, for a slot
    NoSchedule,
    Events,          \* which of "crash", "shutdown", "delete", "fail" happen
    MaxActivations,  \* bound of the model: activations asked for
    MaxRestarts,     \* bound of the model: crashes and shutdowns
    MaxAge           \* bound of the model: age of the heartbeat, in TICK_SECONDS

Proc == Admin \cup {Ticker}

ASSUME ConstantsAssumption ==
    /\ Exclusive \subseteq Schedule
    /\ Allowed \in [Schedule -> SUBSET Consumer]
    /\ Ticker \notin Admin
    /\ NoSchedule \notin Schedule
    /\ Events \subseteq {"crash", "shutdown", "delete", "fail"}
    /\ MaxActivations \in Nat /\ MaxRestarts \in Nat /\ MaxAge \in Nat

Id == 1..MaxActivations
Slot == [schedule : Schedule, id : Id]

ASSUME NoSlotAssumption == NoSlot \notin Slot

VARIABLES
    up,          \* the process runs
    slot,        \* state._active_slot, with the snapshot named by an id
    transition,  \* state._transition
    db,          \* _db["active_slot"]
    exists,      \* keys of _db["model_schedules"]
    disk,        \* both as data/db.json has them, written by a thread of its own
    over,        \* ids of the slots whose ends_at has passed
    locked,      \* _op_lock._locked
    lockQ,       \* _op_lock._waiters
    pc,          \* where every coroutine is suspended
    op,          \* what an admin call does
    arg,         \* the schedule a coroutine activates
    mine,        \* the id of the activation of a coroutine
    activations, \* ids given so far
    owed,        \* history: activations whose actions_start ran, actions_end not
    lost,        \* history: those whose snapshot the code gives up
    request,     \* the request of every consumer
    age,         \* age of _last_tick_ts, in TICK_SECONDS
    restarts     \* crashes and shutdowns so far

slotVars == <<slot, transition, db, owed, lost>>
lockVars == <<locked, lockQ>>
procVars == <<pc, op, arg, mine, activations>>
envVars  == <<disk, over, exists, request, age, up, restarts>>
vars == <<slotVars, lockVars, procVars, envVars>>

InTransition == {"act_wait", "act_run", "deact_wait", "deact_run"}
Deactivating == {"deact_wait", "deact_run"}

TypeOK ==
    /\ up \in BOOLEAN /\ transition \in BOOLEAN /\ locked \in BOOLEAN
    /\ slot \in Slot \cup {NoSlot} /\ db \in Slot \cup {NoSlot}
    /\ disk \in [slot : Slot \cup {NoSlot}, schedules : SUBSET Schedule]
    /\ over \subseteq Id /\ owed \subseteq Id /\ lost \subseteq Id
    /\ exists \subseteq Schedule
    /\ lockQ \in Seq(Proc)
    /\ pc \in [Proc -> {"idle", "asleep", "queued"} \cup InTransition]
    /\ op \in [Proc -> {"tick", "trigger", "deactivate"}]
    /\ arg \in [Proc -> Schedule \cup {NoSchedule}]
    /\ mine \in [Proc -> 0..MaxActivations]
    /\ activations \in 0..MaxActivations
    /\ request \in [Consumer -> {"none", "admitted", "inflight"}]
    /\ age \in 0..MaxAge
    /\ restarts \in 0..MaxRestarts

Init ==
    /\ up = TRUE
    /\ slot = NoSlot /\ transition = FALSE /\ db = NoSlot
    /\ over = {} /\ owed = {} /\ lost = {}
    /\ exists = Schedule
    /\ disk = [slot |-> NoSlot, schedules |-> Schedule]
    /\ locked = FALSE /\ lockQ = <<>>
    /\ pc = [p \in Proc |-> "idle"]
    /\ op = [p \in Proc |-> "tick"]
    /\ arg = [p \in Proc |-> NoSchedule]
    /\ mine = [p \in Proc |-> 0]
    /\ activations = 0
    /\ request = [c \in Consumer |-> "none"]
    /\ age = 0
    /\ restarts = 0

-----------------------------------------------------------------------------
(* Definitions named ..._F are plausible bugs that no specification uses;  *)
(* each varies the definition that follows it.                             *)

(* state.py *)

IsExpired(s) == s.id \in over

(* is_consumer_allowed *)
IsConsumerAllowed(c) ==
    slot # NoSlot =>
        /\ ~transition
        /\ \/ IsExpired(slot)
           \/ slot.schedule \notin Exclusive
           \/ c \in Allowed[slot.schedule]

(* get_active_slot: hides a slot that has expired. *)
VisibleSlot ==
    IF slot # NoSlot /\ ~transition /\ IsExpired(slot) THEN NoSlot ELSE slot

-----------------------------------------------------------------------------
(* The transitions, run by a coroutine p that holds _op_lock.  Every        *)
(* operator fixes slot', db', transition', pc' and locked'.                 *)

(* p is done: leave the `async with`; run_loop goes to sleep. *)
Finish(p) ==
    /\ pc' = [pc EXCEPT ![p] = IF p = Ticker THEN "asleep" ELSE "idle"]
    /\ locked' = FALSE

Suspend(p, place) ==
    /\ pc' = [pc EXCEPT ![p] = place]
    /\ locked' = TRUE

(* _activate_slot up to wait_for_idle, with its check against overwriting. *)
Activate(p) ==
    IF slot' = NoSlot \/ IsExpired(slot')
    THEN Suspend(p, "act_wait")
    ELSE Finish(p)

(* What follows _deactivate_slot_locked in its three callers; o is the     *)
(* operation p performs.                                                   *)
AfterDeactivate(p, o) == IF o = "trigger" THEN Activate(p) ELSE Finish(p)

(* The slot and its snapshot go; it is lost when it was not restored. *)
ClearSlot(unrestored) ==
    /\ slot' = NoSlot /\ transition' = FALSE /\ db' = NoSlot
    /\ lost' = lost \cup unrestored

KeepSlot == UNCHANGED <<slot, transition, db, lost>>

(* _deactivate_slot_locked up to wait_for_idle. *)
Deactivate(p, o) ==
    \/ slot = NoSlot /\ KeepSlot /\ AfterDeactivate(p, o)
    \/ slot # NoSlot /\ slot.schedule \notin exists /\ ClearSlot({slot.id}) /\ AfterDeactivate(p, o)
    \/ slot # NoSlot /\ slot.schedule \in exists
       /\ transition' = TRUE /\ UNCHANGED <<slot, db, lost>> /\ Suspend(p, "deact_wait")

(* Faulty: the masked accessor, with which an expired slot is overwritten. *)
Trigger_F(p) ==
    \/ VisibleSlot # NoSlot /\ KeepSlot /\ Finish(p)
    \/ VisibleSlot = NoSlot /\ KeepSlot /\ Activate(p)

(* trigger_schedule, once it holds the lock. *)
Trigger(p) ==
    \/ slot # NoSlot /\ IsExpired(slot) /\ Deactivate(p, "trigger")
    \/ slot # NoSlot /\ ~IsExpired(slot) /\ KeepSlot /\ Finish(p)
    \/ slot = NoSlot /\ KeepSlot /\ Activate(p)

(* An admin call that holds the lock. *)
Admitted(p, o) ==
    \/ o = "trigger" /\ Trigger(p)
    \/ o = "deactivate" /\ Deactivate(p, o)

(* Faulty: the masked accessor, with which the expiry is never noticed. *)
TickBody_F ==
    \/ /\ KeepSlot /\ Finish(Ticker)
       /\ UNCHANGED <<arg, mine, activations>>
    \/ /\ VisibleSlot = NoSlot /\ slot = NoSlot /\ activations < MaxActivations
       /\ \E s \in exists : arg' = [arg EXCEPT ![Ticker] = s]
       /\ activations' = activations + 1
       /\ mine' = [mine EXCEPT ![Ticker] = activations + 1]
       /\ KeepSlot /\ Activate(Ticker)

(* tick(), once it holds the lock: end an expired slot, leave an active    *)
(* one alone, or activate a schedule that is due.                          *)
TickBody ==
    \/ /\ slot # NoSlot /\ IsExpired(slot)
       /\ Deactivate(Ticker, "tick")
       /\ UNCHANGED <<arg, mine, activations>>
    \/ /\ slot # NoSlot => ~IsExpired(slot)
       /\ KeepSlot /\ Finish(Ticker)
       /\ UNCHANGED <<arg, mine, activations>>
    \/ /\ slot = NoSlot /\ activations < MaxActivations
       /\ \E s \in exists : arg' = [arg EXCEPT ![Ticker] = s]
       /\ activations' = activations + 1
       /\ mine' = [mine EXCEPT ![Ticker] = activations + 1]
       /\ KeepSlot /\ Activate(Ticker)

-----------------------------------------------------------------------------
(* run_loop: a heartbeat, then tick(), which skips when the lock is held.  *)
(* `async with` acquires a free asyncio.Lock at once only if nobody waits  *)
(* for it: a waiter already woken by release() goes first.                 *)

TickSkip ==
    /\ up /\ pc[Ticker] = "idle" /\ locked
    /\ pc' = [pc EXCEPT ![Ticker] = "asleep"]
    /\ age' = 0
    /\ UNCHANGED <<slotVars, lockVars, op, arg, mine, activations, disk, over, exists, request,
                   up, restarts>>

TickRun ==
    /\ up /\ pc[Ticker] = "idle" /\ ~locked /\ lockQ = <<>>
    /\ TickBody
    /\ age' = 0
    /\ UNCHANGED <<owed, lockQ, op, disk, over, exists, request, up, restarts>>

TickQueue ==
    /\ up /\ pc[Ticker] = "idle" /\ ~locked /\ lockQ # <<>>
    /\ lockQ' = Append(lockQ, Ticker)
    /\ pc' = [pc EXCEPT ![Ticker] = "queued"]
    /\ age' = 0
    /\ UNCHANGED <<slotVars, locked, op, arg, mine, activations, disk, over, exists, request,
                   up, restarts>>

(* TICK_SECONDS pass: run_loop's sleep ends, or its tick() is still busy. *)
TimePasses ==
    /\ up /\ pc[Ticker] # "idle"
    /\ age' = IF age < MaxAge THEN age + 1 ELSE MaxAge
    /\ pc' = [pc EXCEPT ![Ticker] = IF @ = "asleep" THEN "idle" ELSE @]
    /\ UNCHANGED <<slotVars, lockVars, op, arg, mine, activations, disk, over, exists, request,
                   up, restarts>>

(* Faulty: the deactivate endpoint does not take the lock. *)
AcquireOrQueue_F(p, o) ==
    \/ /\ o = "deactivate" \/ (~locked /\ lockQ = <<>>)
       /\ Admitted(p, o)
       /\ UNCHANGED lockQ
    \/ /\ o # "deactivate" /\ (locked \/ lockQ # <<>>)
       /\ lockQ' = Append(lockQ, p)
       /\ pc' = [pc EXCEPT ![p] = "queued"]
       /\ KeepSlot /\ UNCHANGED locked

(* An admin call acquires the lock and goes on, or waits for its turn. *)
AcquireOrQueue(p, o) ==
    \/ /\ ~locked /\ lockQ = <<>>
       /\ Admitted(p, o)
       /\ UNCHANGED lockQ
    \/ /\ locked \/ lockQ # <<>>
       /\ lockQ' = Append(lockQ, p)
       /\ pc' = [pc EXCEPT ![p] = "queued"]
       /\ KeepSlot /\ UNCHANGED locked

(* Faulty: the schedule is looked up and not kept. *)
CallTrigger_F(p, s) ==
    /\ up /\ pc[p] = "idle" /\ s \in exists /\ activations < MaxActivations
    /\ op' = [op EXCEPT ![p] = "trigger"]
    /\ activations' = activations + 1
    /\ mine' = [mine EXCEPT ![p] = activations + 1]
    /\ AcquireOrQueue(p, "trigger")
    /\ UNCHANGED <<owed, arg, envVars>>

(* POST /schedules/{id}/trigger: the schedule is read before the lock. *)
CallTrigger(p, s) ==
    /\ up /\ pc[p] = "idle" /\ s \in exists /\ activations < MaxActivations
    /\ op' = [op EXCEPT ![p] = "trigger"]
    /\ arg' = [arg EXCEPT ![p] = s]
    /\ activations' = activations + 1
    /\ mine' = [mine EXCEPT ![p] = activations + 1]
    /\ AcquireOrQueue(p, "trigger")
    /\ UNCHANGED <<owed, envVars>>

(* POST /schedules/deactivate, on the raw slot. *)
CallDeactivate(p) ==
    /\ up /\ pc[p] = "idle" /\ slot # NoSlot
    /\ op' = [op EXCEPT ![p] = "deactivate"]
    /\ AcquireOrQueue(p, "deactivate")
    /\ UNCHANGED <<owed, arg, mine, activations, envVars>>

(* The first in line takes the lock. *)
LockGranted ==
    /\ up /\ ~locked /\ lockQ # <<>>
    /\ lockQ' = Tail(lockQ)
    /\ \/ Head(lockQ) = Ticker /\ TickBody
       \/ Head(lockQ) # Ticker /\ Admitted(Head(lockQ), op[Head(lockQ)]) /\ UNCHANGED <<arg, mine, activations>>
    /\ UNCHANGED <<owed, op, envVars>>

(* wait_for_idle returns and execute_actions begins: from here on models   *)
(* are unloaded and the snapshot lives in the coroutine.                   *)
StartActions(p) ==
    /\ up /\ pc[p] = "act_wait"
    /\ pc' = [pc EXCEPT ![p] = "act_run"]
    /\ owed' = owed \cup {mine[p]}
    /\ UNCHANGED <<slot, transition, db, lost, lockVars, op, arg, mine, activations, envVars>>

(* Faulty: the slot is set in memory only. *)
SlotActive_F(p) ==
    /\ up /\ pc[p] = "act_run"
    /\ slot' = [schedule |-> arg[p], id |-> mine[p]]
    /\ transition' = FALSE
    /\ Finish(p)
    /\ UNCHANGED <<db, owed, lost, lockQ, op, arg, mine, activations, envVars>>

(* set_active_slot, in memory and in the database. *)
SlotActive(p) ==
    /\ up /\ pc[p] = "act_run"
    /\ slot' = [schedule |-> arg[p], id |-> mine[p]]
    /\ db' = slot'
    /\ transition' = FALSE
    /\ Finish(p)
    /\ UNCHANGED <<owed, lost, lockQ, op, arg, mine, activations, envVars>>

(* An exception behind actions_start (an ends_at out of range): the slot is *)
(* never set, the snapshot is gone with the coroutine.                      *)
ActivationFails(p) ==
    /\ up /\ pc[p] = "act_run" /\ "fail" \in Events
    /\ UNCHANGED <<slot, transition, db>>
    /\ lost' = lost \cup {mine[p]}
    /\ Finish(p)
    /\ UNCHANGED <<owed, lockQ, op, arg, mine, activations, envVars>>

EndActions(p) ==
    /\ up /\ pc[p] = "deact_wait"
    /\ pc' = [pc EXCEPT ![p] = "deact_run"]
    /\ UNCHANGED <<slotVars, lockVars, op, arg, mine, activations, envVars>>

(* Faulty: the clear is not in a finally block, a failure skips it. *)
SlotCleared_F(p) ==
    /\ up /\ pc[p] = "deact_run"
    /\ \/ owed' = owed \ {slot.id} /\ ClearSlot({}) /\ AfterDeactivate(p, op[p])
       \/ KeepSlot /\ Finish(p) /\ UNCHANGED owed
    /\ UNCHANGED <<lockQ, op, arg, mine, activations, envVars>>

(* actions_end ran (a failing action is logged and skipped): clear.  The   *)
(* finally block clears after an exception too.                            *)
SlotCleared(p) ==
    /\ up /\ pc[p] = "deact_run"
    /\ \/ owed' = owed \ {slot.id} /\ ClearSlot({})
       \/ "fail" \in Events /\ UNCHANGED owed /\ ClearSlot({slot.id})
    /\ AfterDeactivate(p, op[p])
    /\ UNCHANGED <<lockQ, op, arg, mine, activations, envVars>>

(* DELETE /schedules/{id}: refused for the schedule of the visible slot. *)
DeleteSchedule(s) ==
    /\ up /\ "delete" \in Events /\ s \in exists
    /\ VisibleSlot # NoSlot => VisibleSlot.schedule # s
    /\ exists' = exists \ {s}
    /\ UNCHANGED <<slotVars, lockVars, procVars, disk, over, request, age, up, restarts>>

(* POST /schedules *)
CreateSchedule(s) ==
    /\ up /\ s \notin exists
    /\ exists' = exists \cup {s}
    /\ UNCHANGED <<slotVars, lockVars, procVars, disk, over, request, age, up, restarts>>

-----------------------------------------------------------------------------
(* Requests: the slot guard, then (after `await resolve_and_prepare`) the  *)
(* queue.                                                                  *)

RequestAdmitted(c) ==
    /\ up /\ request[c] = "none" /\ IsConsumerAllowed(c)
    /\ request' = [request EXCEPT ![c] = "admitted"]
    /\ UNCHANGED <<slotVars, lockVars, procVars, disk, over, exists, age, up, restarts>>

RequestEnqueued(c) ==
    /\ up /\ request[c] = "admitted"
    /\ request' = [request EXCEPT ![c] = "inflight"]
    /\ UNCHANGED <<slotVars, lockVars, procVars, disk, over, exists, age, up, restarts>>

RequestDone(c) ==
    /\ up /\ request[c] = "inflight"
    /\ request' = [request EXCEPT ![c] = "none"]
    /\ UNCHANGED <<slotVars, lockVars, procVars, disk, over, exists, age, up, restarts>>

-----------------------------------------------------------------------------
(* Time, disk and restarts *)

SlotEnds(s) ==
    /\ s # NoSlot /\ ~IsExpired(s)
    /\ over' = over \cup {s.id}
    /\ UNCHANGED <<slotVars, lockVars, procVars, disk, exists, request, age, up, restarts>>

(* The writer thread of data/db.py.  It writes the whole database, saves    *)
(* in their order and each one late; for what the file can hold at a given *)
(* moment, that is a write of the current database at an earlier one.      *)
OnDisk(s, schedules) == [slot |-> s, schedules |-> schedules]

DiskWrite ==
    /\ up /\ disk # OnDisk(db, exists)
    /\ disk' = OnDisk(db, exists)
    /\ UNCHANGED <<slotVars, lockVars, procVars, over, exists, request, age, up, restarts>>

(* What a dead process leaves behind: the file. *)
Gone ==
    /\ up' = FALSE
    /\ restarts' = restarts + 1
    /\ slot' = NoSlot /\ transition' = FALSE
    /\ locked' = FALSE /\ lockQ' = <<>>
    /\ pc' = [p \in Proc |-> "idle"]
    /\ request' = [c \in Consumer |-> "none"]
    /\ age' = 0
    /\ UNCHANGED <<owed, op, arg, mine, activations, over>>

(* The snapshot of an activation under way was in its coroutine only. *)
Activating(procs) == {mine[p] : p \in {q \in procs : pc[q] = "act_run"}}

IdOf(s) == IF s = NoSlot THEN {} ELSE {s.id}

(* The next process finds the slot and the schedules of the last write. *)
Crash ==
    /\ up /\ "crash" \in Events /\ restarts < MaxRestarts
    /\ db' = disk.slot /\ exists' = disk.schedules
    /\ lost' = lost \cup Activating(Proc) \cup (IF slot = disk.slot THEN {} ELSE IdOf(slot))
    /\ UNCHANGED disk
    /\ Gone

(* The lifespan ends after the handlers: scheduler_task.cancel() raises in  *)
(* the tick that is under way, and the finally block of a deactivation     *)
(* clears the slot.  data/db.py flushes its writes at exit.                *)
Shutdown ==
    /\ up /\ "shutdown" \in Events /\ restarts < MaxRestarts
    /\ \A p \in Admin : pc[p] = "idle"
    /\ \A c \in Consumer : request[c] = "none"
    /\ db' = IF pc[Ticker] \in Deactivating THEN NoSlot ELSE db
    /\ lost' = lost \cup Activating({Ticker})
                    \cup (IF pc[Ticker] \in Deactivating THEN IdOf(slot) ELSE {})
    /\ disk' = OnDisk(db', exists)
    /\ UNCHANGED exists
    /\ Gone

(* Faulty: an expired persisted slot is ignored but not cleared. *)
Boot_F ==
    /\ ~up
    /\ up' = TRUE
    /\ slot' = IF db # NoSlot /\ IsExpired(db) THEN NoSlot ELSE db
    /\ UNCHANGED <<transition, db, owed, lost, lockVars, procVars, disk, over, exists, request, age, restarts>>

(* run_loop starts and restores the persisted slot unless it has expired. *)
Boot ==
    /\ ~up
    /\ up' = TRUE
    /\ IF db # NoSlot /\ IsExpired(db)
       THEN db' = NoSlot /\ lost' = lost \cup {db.id} /\ UNCHANGED slot
       ELSE slot' = db /\ UNCHANGED <<db, lost>>
    /\ UNCHANGED <<transition, owed, lockVars, procVars, disk, over, exists, request, age, restarts>>

-----------------------------------------------------------------------------
ProcStep(p) ==
    StartActions(p) \/ SlotActive(p) \/ ActivationFails(p) \/ EndActions(p) \/ SlotCleared(p)
Tick == TickSkip \/ TickRun \/ TickQueue

Next ==
    \/ Tick
    \/ TimePasses
    \/ LockGranted
    \/ \E p \in Proc : ProcStep(p)
    \/ \E p \in Admin : CallDeactivate(p) \/ \E s \in Schedule : CallTrigger(p, s)
    \/ \E s \in Schedule : DeleteSchedule(s) \/ CreateSchedule(s)
    \/ \E c \in Consumer : RequestAdmitted(c) \/ RequestEnqueued(c) \/ RequestDone(c)
    \/ SlotEnds(slot) \/ SlotEnds(db)
    \/ DiskWrite
    \/ Crash
    \/ Shutdown
    \/ Boot

Spec == Init /\ [][Next]_vars

(* The event loop and the clock do not stop, waits and admin calls of the  *)
(* scheduler time out, a crashed process is started again.                 *)
Fairness ==
    /\ WF_vars(Tick) /\ WF_vars(TimePasses) /\ WF_vars(LockGranted)
    /\ \A p \in Proc : WF_vars(ProcStep(p))
    /\ WF_vars(SlotEnds(slot))
    /\ WF_vars(Boot)

FairSpec == Spec /\ Fairness

-----------------------------------------------------------------------------
(* Properties *)

(* What _op_lock is for: one transition at a time, whoever began it, and   *)
(* _transition is raised exactly while a deactivation is under way, so it  *)
(* neither leaks (all consumers blocked with nobody left to clear it) nor  *)
(* drops while models are being swapped.                                   *)
TransitionOwned ==
    /\ transition <=> \E p \in Proc : pc[p] \in Deactivating
    /\ transition => slot # NoSlot
    /\ \A p, q \in Proc : pc[p] \in InTransition /\ pc[q] \in InTransition => p = q

(* A snapshot that is not yet restored is with an activation under way, in  *)
(* the active slot or, while the process is down, in its persisted copy.    *)
(* It gets out of there in six ways only: an end of the process in the      *)
(* middle of its activation or, by a shutdown, of its deactivation; a crash *)
(* before its slot was on disk; an exception behind its actions; a deleted  *)
(* schedule; a slot that expired while the process was down.  No overlap of *)
(* ticks, triggers and deactivations loses one, which is the loss that the  *)
(* comments of tick() and trigger_schedule() describe, and a restart finds  *)
(* the slot again.  Without a restart no snapshot is restored twice.        *)
SnapshotKept ==
    LET held == Activating(Proc) \cup IdOf(IF up THEN slot ELSE db) IN
    /\ owed \ lost \subseteq held
    /\ restarts = 0 => held \subseteq owed

(* A consumer the slot guard rejects is not rejected for ever: slots end,   *)
(* transitions end, and a restart leaves no stale reservation.              *)
NobodyBlockedForever ==
    \A c \in Consumer : ~IsConsumerAllowed(c) ~> IsConsumerAllowed(c)

(* An expired slot is cleaned up by the tick or by whoever holds the lock.  *)
ExpiredSlotEnds == slot # NoSlot /\ IsExpired(slot) ~> slot = NoSlot

(* "Restore active slot from DB on startup (crash recovery)": the persisted *)
(* slot, which holds the only copy of the snapshot, is not erased before    *)
(* its end actions ran.                                                     *)
PersistedUntilEnded ==
    [][ disk.slot # NoSlot /\ disk'.slot = NoSlot => disk.slot.id \notin owed' ]_vars

(* The order promised by _deactivate_slot_locked: the end actions first,    *)
(* then the slot is cleared.                                                *)
ClearedAfterEndActions ==
    [][ (\E p \in Proc : pc[p] \in Deactivating /\ pc'[p] \notin Deactivating) /\ db' = NoSlot
        => slot.id \notin owed' ]_vars

(* "While a slot is active, requests from other users are rejected": what   *)
(* enters the queue comes from a consumer allowed at that moment.           *)
EnqueueRespectsGuard ==
    [][ \A c \in Consumer :
          request[c] = "admitted" /\ request'[c] = "inflight" => IsConsumerAllowed(c) ]_vars

(* The comment in tick(): with the test of locked() the tick never waits    *)
(* for the lock.                                                            *)
TickNeverWaits == pc[Ticker] # "queued"

(* /healthz takes a heartbeat older than 3 ticks for a dead scheduler.      *)
HeartbeatHonest == up => age <= 3

=============================================================================
