------------------------ MODULE SlotScheduler_proofs ------------------------
(***************************************************************************)
(* For any number of admin calls, schedules, consumers, activations and    *)
(* restarts: _op_lock makes slot transitions exclusive, _transition is     *)
(* raised exactly while somebody deactivates a slot.  Every variable keeps *)
(* its type.  And a snapshot is lost in the ways that SnapshotKept names   *)
(* only, through crashes, shutdowns, deletions and failing actions too.    *)
(***************************************************************************)
EXTENDS SlotScheduler, TLAPS

(* A coroutine in a transition holds the lock, and only one is in one. *)
Exclusion ==
    /\ \A p \in Proc : pc[p] \in InTransition => locked
    /\ \A p, q \in Proc : pc[p] \in InTransition /\ pc[q] \in InTransition => p = q

(* What is_consumer_allowed reads agrees with what the coroutines do. *)
Agreement ==
    /\ transition <=> \E p \in Proc : pc[p] \in Deactivating
    /\ transition => slot # NoSlot
    /\ up => slot = db

(* Of the types, what the steps rely on. *)
Shape ==
    /\ up \in BOOLEAN /\ transition \in BOOLEAN /\ locked \in BOOLEAN
    /\ DOMAIN pc = Proc
    /\ lockQ \in Seq(Proc)

(* Nothing of a process that is down is left but the file. *)
DownIsClean ==
    ~up => /\ slot = NoSlot
           /\ \A p \in Proc : pc[p] = "idle"

IInv == Shape /\ Exclusion /\ Agreement /\ DownIsClean

-----------------------------------------------------------------------------
LEMMA EmptyQueue == \A S : <<>> \in Seq(S)
  OBVIOUS

(* Every step of a transition moves one coroutine p, at a moment when no   *)
(* other one is in a transition: it keeps the invariant if p ends up       *)
(* holding the lock whenever it is in a transition, and the flag and the   *)
(* two copies of the slot fit the place it goes to.                        *)
LEMMA MoveKeeps ==
    ASSUME IInv, up, up' = up,
           NEW p \in Proc, NEW place,
           \A q \in Proc : q # p => pc[q] \notin InTransition,
           pc' = [pc EXCEPT ![p] = place],
           locked' \in BOOLEAN, place \in InTransition => locked',
           transition' \in BOOLEAN, transition' <=> place \in Deactivating,
           place \in Deactivating => slot' # NoSlot,
           slot' = db',
           lockQ' \in Seq(Proc)
    PROVE  IInv'
<1>1. \A q \in Proc : pc'[q] \in InTransition => q = p /\ place \in InTransition
  BY DEF IInv, Shape
<1>2. pc'[p] = place
  BY DEF IInv, Shape
<1>3. Shape'
  BY DEF IInv, Shape
<1>4. Exclusion'
  BY <1>1 DEF Exclusion
<1>5. Agreement'
  <2>1. (\E q \in Proc : pc'[q] \in Deactivating) <=> place \in Deactivating
    BY <1>1, <1>2 DEF Deactivating, InTransition
  <2> QED
    BY <2>1 DEF Agreement
<1>6. DownIsClean'
  BY DEF DownIsClean
<1> QED
  BY <1>3, <1>4, <1>5, <1>6 DEF IInv

(* What the last part of a step does to the coroutine p that runs it. *)
Leaves(p, place) ==
    /\ place \notin Deactivating
    /\ pc' = [pc EXCEPT ![p] = place]
    /\ locked' \in BOOLEAN
    /\ place \in InTransition => locked'

LEMMA SuspendLeaves ==
    ASSUME NEW p, Suspend(p, "act_wait")
    PROVE  Leaves(p, "act_wait")
  BY DEF Leaves, Suspend, Deactivating

LEMMA FinishLeaves ==
    ASSUME NEW p, Finish(p)
    PROVE  Leaves(p, IF p = Ticker THEN "asleep" ELSE "idle")
  BY DEF Leaves, Finish, InTransition, Deactivating

(* Outside of a transition nobody deactivates, so _transition is down. *)
LEMMA FreeLock ==
    ASSUME IInv, ~locked
    PROVE  /\ \A q \in Proc : pc[q] \notin InTransition
           /\ transition = FALSE
<1>1. \A q \in Proc : pc[q] \notin InTransition
  BY DEF IInv, Exclusion
<1>2. ~(\E q \in Proc : pc[q] \in Deactivating)
  BY <1>1 DEF InTransition, Deactivating
<1> QED
  BY <1>1, <1>2 DEF IInv, Agreement, Shape

(* A coroutine that has just taken the lock, or that ends a deactivation,   *)
(* activates, finishes or deactivates.                                      *)
LEMMA KeepOrClear ==
    ASSUME IInv, up, up' = up, NEW p \in Proc,
           \A q \in Proc : q # p => pc[q] \notin InTransition,
           Activate(p) \/ Finish(p),
           slot' = db', transition' = FALSE, lockQ' \in Seq(Proc)
    PROVE  IInv'
<1>1. \E place : Leaves(p, place)
  BY SuspendLeaves, FinishLeaves DEF Activate
<1>2. PICK place : Leaves(p, place)
  BY <1>1
<1>3. transition' \in BOOLEAN /\ (transition' <=> place \in Deactivating)
  BY <1>2 DEF Leaves
<1> QED
  BY <1>2, <1>3, MoveKeeps DEF Leaves

LEMMA DeactivateKeeps ==
    ASSUME IInv, up, up' = up, ~locked, NEW p \in Proc, NEW o,
           Deactivate(p, o), lockQ' \in Seq(Proc)
    PROVE  IInv'
<1>1. (\A q \in Proc : pc[q] \notin InTransition) /\ transition = FALSE
  BY FreeLock
<1>2. slot = db
  BY DEF IInv, Agreement
<1>3. CASE slot = NoSlot /\ KeepSlot /\ AfterDeactivate(p, o)
  BY <1>1, <1>2, <1>3, KeepOrClear DEF KeepSlot, AfterDeactivate
<1>4. CASE ClearSlot({slot.id}) /\ AfterDeactivate(p, o)
  BY <1>1, <1>4, KeepOrClear DEF ClearSlot, AfterDeactivate
<1>5. CASE /\ slot # NoSlot /\ transition' = TRUE /\ UNCHANGED <<slot, db>>
           /\ Suspend(p, "deact_wait")
  <2>1. "deact_wait" \in InTransition /\ "deact_wait" \in Deactivating
    BY DEF InTransition, Deactivating
  <2>2. pc' = [pc EXCEPT ![p] = "deact_wait"] /\ locked' = TRUE
    BY <1>5 DEF Suspend
  <2> QED
    BY <1>1, <1>2, <1>5, <2>1, <2>2, MoveKeeps
<1> QED
  BY <1>3, <1>4, <1>5 DEF Deactivate

LEMMA AdmittedKeeps ==
    ASSUME IInv, up, up' = up, ~locked, NEW p \in Proc, NEW o,
           Admitted(p, o), lockQ' \in Seq(Proc)
    PROVE  IInv'
<1>1. (\A q \in Proc : pc[q] \notin InTransition) /\ transition = FALSE
  BY FreeLock
<1>2. slot = db
  BY DEF IInv, Agreement
<1>3. CASE \E x : Deactivate(p, x)
  BY <1>3, DeactivateKeeps
<1>4. CASE KeepSlot /\ (Finish(p) \/ Activate(p))
  BY <1>1, <1>2, <1>4, KeepOrClear DEF KeepSlot
<1> QED
  BY <1>3, <1>4 DEF Admitted, Trigger

LEMMA TickBodyKeeps ==
    ASSUME IInv, up, up' = up, ~locked, TickBody, lockQ' \in Seq(Proc)
    PROVE  IInv'
<1>1. (\A q \in Proc : pc[q] \notin InTransition) /\ transition = FALSE
  BY FreeLock
<1>2. slot = db
  BY DEF IInv, Agreement
<1>3. Ticker \in Proc
  BY DEF Proc
<1>4. CASE Deactivate(Ticker, "tick")
  BY <1>3, <1>4, DeactivateKeeps
<1>5. CASE KeepSlot /\ (Finish(Ticker) \/ Activate(Ticker))
  BY <1>1, <1>2, <1>3, <1>5, KeepOrClear DEF KeepSlot
<1> QED
  BY <1>4, <1>5 DEF TickBody

(* Steps that move a coroutine outside of a transition, or none at all. *)
LEMMA QuietKeeps ==
    ASSUME IInv, UNCHANGED <<slot, transition, db, locked, up>>,
           DOMAIN pc' = Proc,
           \A q \in Proc : pc'[q] = pc[q]
                           \/ (up /\ pc[q] \notin InTransition /\ pc'[q] \notin InTransition),
           lockQ' \in Seq(Proc)
    PROVE  IInv'
<1>1. \A q \in Proc : (pc'[q] \in InTransition => pc[q] \in InTransition)
                      /\ (pc'[q] \in Deactivating <=> pc[q] \in Deactivating)
  BY DEF InTransition, Deactivating
<1>2. Shape'
  BY DEF IInv, Shape
<1>3. Exclusion'
  BY <1>1 DEF IInv, Exclusion
<1>4. Agreement'
  BY <1>1 DEF IInv, Agreement
<1>5. DownIsClean'
  BY DEF IInv, DownIsClean
<1> QED
  BY <1>2, <1>3, <1>4, <1>5 DEF IInv

-----------------------------------------------------------------------------
LEMMA TickStep ==
    ASSUME IInv, Tick
    PROVE  IInv'
<1>1. Ticker \in Proc /\ pc[Ticker] = "idle" /\ up
  BY DEF Tick, TickSkip, TickRun, TickQueue, Proc
<1>2. CASE TickSkip
  <2>1. pc' = [pc EXCEPT ![Ticker] = "asleep"] /\ UNCHANGED <<slot, transition, db, locked, lockQ, up>>
    BY <1>2 DEF TickSkip, slotVars, lockVars
  <2> QED
    BY <1>1, <2>1, QuietKeeps DEF IInv, Shape, InTransition
<1>3. CASE TickRun
  BY <1>1, <1>3, TickBodyKeeps DEF TickRun, IInv, Shape
<1>4. CASE TickQueue
  <2>1. pc' = [pc EXCEPT ![Ticker] = "queued"] /\ UNCHANGED <<slot, transition, db, locked, up>>
        /\ lockQ' = Append(lockQ, Ticker)
    BY <1>4 DEF TickQueue, slotVars
  <2>2. lockQ' \in Seq(Proc)
    BY <1>1, <2>1 DEF IInv, Shape
  <2> QED
    BY <1>1, <2>1, <2>2, QuietKeeps DEF IInv, Shape, InTransition
<1> QED
  BY <1>2, <1>3, <1>4 DEF Tick

LEMMA AcquireKeeps ==
    ASSUME IInv, up, up' = up, NEW p \in Proc, NEW o, pc[p] = "idle",
           AcquireOrQueue(p, o)
    PROVE  IInv'
<1>1. CASE ~locked /\ Admitted(p, o) /\ UNCHANGED lockQ
  BY <1>1, AdmittedKeeps DEF IInv, Shape
<1>2. CASE /\ lockQ' = Append(lockQ, p)
           /\ pc' = [pc EXCEPT ![p] = "queued"]
           /\ KeepSlot /\ UNCHANGED locked
  <2>1. lockQ' \in Seq(Proc)
    BY <1>2 DEF IInv, Shape
  <2> QED
    BY <1>2, <2>1, QuietKeeps DEF IInv, Shape, KeepSlot, InTransition
<1> QED
  BY <1>1, <1>2 DEF AcquireOrQueue

LEMMA ProcStepKeeps ==
    ASSUME IInv, NEW p \in Proc, ProcStep(p)
    PROVE  IInv'
<1>1. up /\ up' = up /\ lockQ' \in Seq(Proc) /\ pc[p] \in InTransition
  BY DEF ProcStep, StartActions, SlotActive, ActivationFails, EndActions, SlotCleared, envVars, lockVars,
         InTransition, IInv, Shape
<1>2. \A q \in Proc : q # p => pc[q] \notin InTransition
  BY <1>1 DEF IInv, Exclusion
<1>3. slot = db /\ locked = TRUE
  BY <1>1 DEF IInv, Agreement, Exclusion, Shape
<1>4. CASE StartActions(p)
  <2>1. "act_run" \in InTransition /\ "act_run" \notin Deactivating
        /\ pc[p] \notin Deactivating
    BY <1>4 DEF StartActions, InTransition, Deactivating
  <2>2. transition = FALSE
    BY <1>2, <2>1 DEF IInv, Agreement, Shape, InTransition, Deactivating
  <2>3. /\ pc' = [pc EXCEPT ![p] = "act_run"]
        /\ UNCHANGED <<slot, transition, db, locked>>
    BY <1>4 DEF StartActions, lockVars
  <2> QED
    BY <1>1, <1>2, <1>3, <2>1, <2>2, <2>3, MoveKeeps
<1>5. CASE SlotActive(p)
  <2>1. slot' = db' /\ transition' = FALSE /\ Finish(p)
    BY <1>5 DEF SlotActive
  <2> QED
    BY <1>1, <1>2, <2>1, KeepOrClear
<1>6. CASE EndActions(p)
  <2>1. "deact_run" \in InTransition /\ "deact_run" \in Deactivating
        /\ pc[p] \in Deactivating
    BY <1>6 DEF EndActions, InTransition, Deactivating
  <2>2. transition = TRUE /\ slot # NoSlot
    BY <2>1 DEF IInv, Agreement, Shape
  <2>3. /\ pc' = [pc EXCEPT ![p] = "deact_run"]
        /\ UNCHANGED <<slot, transition, db, locked>>
    BY <1>6 DEF EndActions, lockVars, slotVars
  <2> QED
    BY <1>1, <1>2, <1>3, <2>1, <2>2, <2>3, MoveKeeps
<1>7. CASE SlotCleared(p)
  <2>1. slot' = db' /\ transition' = FALSE /\ (Activate(p) \/ Finish(p))
    BY <1>7 DEF SlotCleared, ClearSlot, AfterDeactivate
  <2> QED
    BY <1>1, <1>2, <2>1, KeepOrClear
<1>8. CASE ActivationFails(p)
  <2>1. pc[p] \notin Deactivating /\ pc[p] \in InTransition
    BY <1>8 DEF ActivationFails, InTransition, Deactivating
  <2>2. transition = FALSE
    BY <1>2, <2>1 DEF IInv, Agreement, Shape, InTransition, Deactivating
  <2>3. slot' = db' /\ transition' = FALSE /\ Finish(p)
    BY <1>3, <1>8, <2>2 DEF ActivationFails, KeepSlot
  <2> QED
    BY <1>1, <1>2, <2>3, KeepOrClear
<1> QED
  BY <1>4, <1>5, <1>6, <1>7, <1>8 DEF ProcStep

LEMMA LockGrantedKeeps ==
    ASSUME IInv, LockGranted
    PROVE  IInv'
<1>1. up /\ up' = up /\ ~locked
  BY DEF LockGranted, envVars
<1>2. Head(lockQ) \in Proc /\ lockQ' \in Seq(Proc)
  <2>1. lockQ \in Seq(Proc) /\ lockQ # <<>> /\ lockQ' = Tail(lockQ)
    BY DEF LockGranted, IInv, Shape
  <2> QED
    BY <2>1
<1>3. CASE TickBody
  BY <1>1, <1>2, <1>3, TickBodyKeeps
<1>4. CASE Admitted(Head(lockQ), op[Head(lockQ)])
  BY <1>1, <1>2, <1>4, AdmittedKeeps
<1> QED
  BY <1>3, <1>4 DEF LockGranted

(* The process goes, by a crash or by a shutdown. *)
LEMMA GoneKeeps ==
    ASSUME Gone
    PROVE  IInv'
<1>1. /\ up' = FALSE /\ slot' = NoSlot /\ transition' = FALSE /\ locked' = FALSE
      /\ lockQ' = <<>> /\ pc' = [p \in Proc |-> "idle"]
  BY DEF Gone
<1>2. \A p \in Proc : pc'[p] \notin InTransition /\ pc'[p] \notin Deactivating
  BY <1>1 DEF InTransition, Deactivating
<1>3. Shape'
  <2>1. DOMAIN pc' = Proc
    BY <1>1
  <2>2. lockQ' \in Seq(Proc)
    BY <1>1, EmptyQueue
  <2> QED
    BY <1>1, <2>1, <2>2 DEF Shape
<1>4. Exclusion'
  BY <1>2 DEF Exclusion
<1>5. Agreement'
  BY <1>1, <1>2 DEF Agreement
<1>6. DownIsClean'
  BY <1>1 DEF DownIsClean
<1> QED
  BY <1>3, <1>4, <1>5, <1>6 DEF IInv

LEMMA BootKeeps ==
    ASSUME IInv, Boot
    PROVE  IInv'
<1>1. /\ ~up /\ up' = TRUE /\ UNCHANGED <<transition, locked, lockQ, pc>>
  BY DEF Boot, lockVars, procVars
<1>2. slot' = db'
  BY <1>1 DEF Boot, IInv, DownIsClean
<1>3. \A p \in Proc : pc[p] \notin Deactivating
  BY <1>1 DEF IInv, DownIsClean, Deactivating
<1>4. Agreement'
  BY <1>1, <1>2, <1>3 DEF IInv, Agreement
<1>5. Shape' /\ Exclusion' /\ DownIsClean'
  BY <1>1 DEF IInv, Shape, Exclusion, DownIsClean
<1> QED
  BY <1>4, <1>5 DEF IInv

-----------------------------------------------------------------------------
(* The invariant is inductive: it holds at the start and every step of      *)
(* run_loop, of the admin endpoints, of the requests and of the process     *)
(* keeps it.                                                                *)
THEOREM InductiveInvariant == Spec => []IInv
<1>1. Init => IInv
  <2> SUFFICES ASSUME Init PROVE IInv
    OBVIOUS
  <2>1. \A p \in Proc : pc[p] \notin InTransition /\ pc[p] \notin Deactivating
    BY DEF Init, InTransition, Deactivating
  <2>2. Shape
    <3>1. DOMAIN pc = Proc
      BY DEF Init
    <3>2. lockQ \in Seq(Proc)
      BY EmptyQueue DEF Init
    <3> QED
      BY <3>1, <3>2 DEF Init, Shape
  <2>3. Exclusion
    BY <2>1 DEF Exclusion
  <2>4. Agreement /\ DownIsClean
    BY <2>1 DEF Init, Agreement, DownIsClean
  <2> QED
    BY <2>2, <2>3, <2>4 DEF IInv
<1>2. IInv /\ [Next]_vars => IInv'
  <2> SUFFICES ASSUME IInv, [Next]_vars PROVE IInv'
    OBVIOUS
  <2>0. lockQ \in Seq(Proc) /\ DOMAIN pc = Proc
    BY DEF IInv, Shape
  <2>1. CASE Tick
    BY <2>1, TickStep
  <2>2. CASE TimePasses
    <3>1. /\ up /\ Ticker \in Proc
          /\ pc' = [pc EXCEPT ![Ticker] = IF @ = "asleep" THEN "idle" ELSE @]
          /\ UNCHANGED <<slot, transition, db, locked, lockQ, up>>
      BY <2>2 DEF TimePasses, slotVars, lockVars, Proc
    <3> QED
      BY <2>0, <3>1, QuietKeeps DEF InTransition
  <2>3. CASE LockGranted
    BY <2>3, LockGrantedKeeps
  <2>4. CASE \E p \in Proc : ProcStep(p)
    BY <2>4, ProcStepKeeps
  <2>5. CASE \E p \in Admin : CallDeactivate(p) \/ \E s \in Schedule : CallTrigger(p, s)
    <3>1. PICK p \in Admin : CallDeactivate(p) \/ \E s \in Schedule : CallTrigger(p, s)
      BY <2>5
    <3>2. p \in Proc /\ up /\ up' = up /\ pc[p] = "idle"
          /\ \E o : AcquireOrQueue(p, o)
      BY <3>1 DEF CallDeactivate, CallTrigger, envVars, Proc
    <3> QED
      BY <3>2, AcquireKeeps
  <2>6. CASE \/ \E s \in Schedule : DeleteSchedule(s) \/ CreateSchedule(s)
             \/ \E c \in Consumer : RequestAdmitted(c) \/ RequestEnqueued(c) \/ RequestDone(c)
             \/ SlotEnds(slot) \/ SlotEnds(db)
             \/ DiskWrite
    <3>1. UNCHANGED <<slot, transition, db, locked, lockQ, pc, up>>
      BY <2>6 DEF DeleteSchedule, CreateSchedule, RequestAdmitted, RequestEnqueued, RequestDone, SlotEnds,
                  DiskWrite, slotVars, lockVars, procVars
    <3> QED
      BY <2>0, <3>1, QuietKeeps
  <2>7. CASE Crash \/ Shutdown
    BY <2>7, GoneKeeps DEF Crash, Shutdown
  <2>8. CASE Boot
    BY <2>8, BootKeeps
  <2>9. CASE UNCHANGED vars
    <3>1. UNCHANGED <<slot, transition, db, locked, lockQ, pc, up>>
      BY <2>9 DEF vars, slotVars, lockVars, procVars, envVars
    <3> QED
      BY <2>0, <3>1, QuietKeeps
  <2> QED
    BY <2>1, <2>2, <2>3, <2>4, <2>5, <2>6, <2>7, <2>8, <2>9 DEF Next
<1> QED
  BY <1>1, <1>2, PTL DEF Spec

(* One slot transition at a time, and _transition raised exactly while a    *)
(* deactivation is under way: consumers are neither blocked without reason  *)
(* nor let in while models are swapped at the end of a slot.                *)
THEOREM TransitionsAreExclusive == Spec => []TransitionOwned
<1>1. IInv => TransitionOwned
  BY DEF IInv, Exclusion, Agreement, TransitionOwned
<1> QED
  BY <1>1, InductiveInvariant, PTL

-----------------------------------------------------------------------------
(* Types.  What set_active_slot writes is a slot because a coroutine that   *)
(* activates, or that has asked for the lock in order to trigger, carries   *)
(* its schedule and its activation through every suspension: it may come    *)
(* to activate only after it has ended an expired slot.                     *)

(* A coroutine that activates: it waits for the queue, or runs its actions. *)
Arming == {"act_wait", "act_run"}

Ready(p) == arg[p] \in Schedule /\ mine[p] \in Id

Places == {"idle", "asleep", "queued"} \cup InTransition

Armed == \A p \in Proc : op[p] = "trigger" \/ pc[p] \in Arming => Ready(p)

TInv == TypeOK /\ Armed

(* What the part of a step that serves p, for the operation o, leaves. *)
Serves(p, o) ==
    /\ slot' \in Slot \cup {NoSlot} /\ db' \in Slot \cup {NoSlot} /\ lost' \subseteq Id
    /\ transition' \in BOOLEAN /\ locked' \in BOOLEAN
    /\ \E place \in Places :
         pc' = [pc EXCEPT ![p] = place] /\ (place \in Arming => o = "trigger")

LEMMA FinishServes ==
    ASSUME NEW p, NEW o, Finish(p), transition' \in BOOLEAN,
           slot' \in Slot \cup {NoSlot}, db' \in Slot \cup {NoSlot}, lost' \subseteq Id
    PROVE  Serves(p, o)
<1>1. PICK place \in {"asleep", "idle"} : pc' = [pc EXCEPT ![p] = place]
  BY Zenon DEF Finish
<1>2. place \in Places /\ place \notin Arming /\ locked' = FALSE
  BY DEF Finish, Places, Arming
<1> QED
  BY <1>1, <1>2 DEF Serves

LEMMA SuspendServes ==
    ASSUME NEW p, NEW o, NEW place \in InTransition, Suspend(p, place), transition' \in BOOLEAN,
           slot' \in Slot \cup {NoSlot}, db' \in Slot \cup {NoSlot}, lost' \subseteq Id,
           place \in Arming => o = "trigger"
    PROVE  Serves(p, o)
  BY DEF Suspend, Serves, Places

LEMMA ActivateServes ==
    ASSUME NEW p, Activate(p), transition' \in BOOLEAN,
           slot' \in Slot \cup {NoSlot}, db' \in Slot \cup {NoSlot}, lost' \subseteq Id
    PROVE  Serves(p, "trigger")
<1>1. "act_wait" \in InTransition
  BY DEF InTransition
<1> QED
  BY <1>1, FinishServes, SuspendServes DEF Activate

LEMMA DeactivateServes ==
    ASSUME TypeOK, NEW p, NEW o, Deactivate(p, o)
    PROVE  Serves(p, o)
<1>1. ASSUME AfterDeactivate(p, o), transition' \in BOOLEAN,
             slot' \in Slot \cup {NoSlot}, db' \in Slot \cup {NoSlot}, lost' \subseteq Id
      PROVE  Serves(p, o)
  BY <1>1, ActivateServes, FinishServes DEF AfterDeactivate
<1>2. CASE KeepSlot /\ AfterDeactivate(p, o)
  BY <1>1, <1>2 DEF KeepSlot, TypeOK
<1>3. CASE ClearSlot({slot.id}) /\ slot # NoSlot /\ AfterDeactivate(p, o)
  <2>1. lost' \subseteq Id
    BY <1>3 DEF ClearSlot, TypeOK, Slot
  <2> QED
    BY <1>1, <1>3, <2>1 DEF ClearSlot
<1>4. CASE transition' = TRUE /\ UNCHANGED <<slot, db, lost>> /\ Suspend(p, "deact_wait")
  <2>1. "deact_wait" \in InTransition /\ "deact_wait" \notin Arming
    BY DEF InTransition, Arming
  <2> QED
    BY <1>4, <2>1, SuspendServes DEF TypeOK
<1> QED
  BY <1>2, <1>3, <1>4 DEF Deactivate

LEMMA AdmittedServes ==
    ASSUME TypeOK, NEW p, NEW o, Admitted(p, o)
    PROVE  Serves(p, o)
<1>1. CASE Deactivate(p, o)
  BY <1>1, DeactivateServes
<1>2. CASE KeepSlot /\ Finish(p)
  BY <1>2, FinishServes DEF KeepSlot, TypeOK
<1>3. CASE o = "trigger" /\ KeepSlot /\ Activate(p)
  BY <1>3, ActivateServes DEF KeepSlot, TypeOK
<1> QED
  BY <1>1, <1>2, <1>3 DEF Admitted, Trigger

(* A step that serves p, or queues it, keeps the types if what p is to do   *)
(* is known when it activates or triggers.                                  *)
LEMMA ServedKeeps ==
    ASSUME TInv, NEW p \in Proc, NEW o, Serves(p, o),
           op' \in [Proc -> {"tick", "trigger", "deactivate"}],
           arg' \in [Proc -> Schedule \cup {NoSchedule}],
           mine' \in [Proc -> 0..MaxActivations],
           activations' \in 0..MaxActivations,
           \A q \in Proc : q # p => op'[q] = op[q] /\ arg'[q] = arg[q] /\ mine'[q] = mine[q],
           o = "trigger" \/ op'[p] = "trigger" => Ready(p)',
           lockQ' \in Seq(Proc), age' \in 0..MaxAge, owed' \subseteq Id,
           UNCHANGED <<disk, over, exists, request, up, restarts>>
    PROVE  TInv'
<1>1. PICK place \in Places : pc' = [pc EXCEPT ![p] = place] /\ (place \in Arming => o = "trigger")
  BY DEF Serves
<1>2. pc \in [Proc -> Places]
  BY DEF TInv, TypeOK, Places
<1>3. pc' \in [Proc -> Places]
  BY <1>1, <1>2
<1>4. TypeOK'
  BY <1>3 DEF TInv, TypeOK, Serves, Places
<1>5. ASSUME NEW q \in Proc, op'[q] = "trigger" \/ pc'[q] \in Arming
      PROVE  Ready(q)'
  <2>1. CASE q = p
    BY <1>1, <1>2, <1>5, <2>1
  <2>2. CASE q # p
    BY <1>1, <1>2, <1>5, <2>2 DEF TInv, Armed, Ready
  <2> QED
    BY <2>1, <2>2
<1> QED
  BY <1>4, <1>5 DEF TInv, Armed

LEMMA TickBodyTyped ==
    ASSUME TInv, TickBody, op' = op,
           lockQ' \in Seq(Proc), age' \in 0..MaxAge, owed' \subseteq Id,
           UNCHANGED <<disk, over, exists, request, up, restarts>>
    PROVE  TInv'
<1>1. Ticker \in Proc
  BY DEF Proc
<1>2. ASSUME Serves(Ticker, "tick"), UNCHANGED <<arg, mine, activations>>
      PROVE  TInv'
  BY <1>1, <1>2, ServedKeeps DEF TInv, TypeOK, Armed, Ready
<1>3. CASE Deactivate(Ticker, "tick") /\ UNCHANGED <<arg, mine, activations>>
  BY <1>2, <1>3, DeactivateServes DEF TInv
<1>4. CASE KeepSlot /\ Finish(Ticker) /\ UNCHANGED <<arg, mine, activations>>
  BY <1>2, <1>4, FinishServes DEF TInv, TypeOK, KeepSlot
<1>5. CASE /\ activations < MaxActivations
           /\ \E s \in exists : arg' = [arg EXCEPT ![Ticker] = s]
           /\ activations' = activations + 1
           /\ mine' = [mine EXCEPT ![Ticker] = activations + 1]
           /\ KeepSlot /\ Activate(Ticker)
  <2>1. Serves(Ticker, "trigger")
    BY <1>5, ActivateServes DEF TInv, TypeOK, KeepSlot
  <2>2. activations + 1 \in Id /\ activations + 1 \in 0..MaxActivations
    BY <1>5, ConstantsAssumption DEF TInv, TypeOK, Id
  <2>3. /\ arg' \in [Proc -> Schedule \cup {NoSchedule}]
        /\ mine' \in [Proc -> 0..MaxActivations]
        /\ \A q \in Proc : q # Ticker => arg'[q] = arg[q] /\ mine'[q] = mine[q]
        /\ Ready(Ticker)'
    BY <1>1, <1>5, <2>2 DEF TInv, TypeOK, Ready, Id
  <2> QED
    BY <1>1, <1>5, <2>1, <2>2, <2>3, ServedKeeps DEF TInv, TypeOK
<1> QED
  BY <1>3, <1>4, <1>5 DEF TickBody

LEMMA AcquireTyped ==
    ASSUME TInv, NEW p \in Proc, NEW o, AcquireOrQueue(p, o)
    PROVE  Serves(p, o) /\ lockQ' \in Seq(Proc)
<1>1. CASE Admitted(p, o) /\ UNCHANGED lockQ
  BY <1>1, AdmittedServes DEF TInv, TypeOK
<1>2. CASE /\ lockQ' = Append(lockQ, p)
           /\ pc' = [pc EXCEPT ![p] = "queued"]
           /\ KeepSlot /\ UNCHANGED locked
  <2>1. "queued" \in Places /\ "queued" \notin Arming
    BY DEF Places, Arming
  <2>2. lockQ' \in Seq(Proc)
    BY <1>2 DEF TInv, TypeOK
  <2>3. Serves(p, o)
    BY <1>2, <2>1 DEF TInv, TypeOK, KeepSlot, Serves
  <2> QED
    BY <2>2, <2>3
<1> QED
  BY <1>1, <1>2 DEF AcquireOrQueue

(* Steps after which nobody is to activate who was not before. *)
LEMMA IdleTyped ==
    ASSUME TInv, TypeOK', UNCHANGED <<op, arg, mine>>,
           \A q \in Proc : pc'[q] \in Arming => pc[q] \in Arming
    PROVE  TInv'
  BY DEF TInv, Armed, Ready

LEMMA ProcTyped ==
    ASSUME TInv, IInv, NEW p \in Proc, ProcStep(p)
    PROVE  TInv'
<1>1. /\ UNCHANGED <<lockQ, op, arg, mine, activations, disk, over, exists, request, age, up, restarts>>
      /\ op[p] = "trigger" \/ pc[p] \in Arming => Ready(p)
  BY DEF ProcStep, StartActions, SlotActive, ActivationFails, EndActions, SlotCleared, envVars, lockVars,
         TInv, Armed
<1>2. ASSUME NEW o, Serves(p, o), o = "trigger" => Ready(p), owed' \subseteq Id
      PROVE  TInv'
  BY <1>1, <1>2, ServedKeeps DEF TInv, TypeOK, Ready
<1>3. CASE StartActions(p)
  <2>1. Ready(p) /\ owed' \subseteq Id
    BY <1>1, <1>3 DEF StartActions, Arming, Ready, TInv, TypeOK
  <2>2. "act_run" \in Places
    BY DEF Places, InTransition
  <2>3. Serves(p, "trigger")
    BY <1>3, <2>2 DEF StartActions, Serves, lockVars, TInv, TypeOK
  <2> QED
    BY <1>2, <2>1, <2>3
<1>4. CASE SlotActive(p)
  <2>1. slot' \in Slot /\ db' = slot' /\ owed' \subseteq Id /\ lost' \subseteq Id
    BY <1>1, <1>4 DEF SlotActive, Arming, Ready, Slot, TInv, TypeOK
  <2>2. Serves(p, "tick")
    BY <1>4, <2>1, FinishServes DEF SlotActive
  <2> QED
    BY <1>2, <2>1, <2>2
<1>5. CASE ActivationFails(p)
  <2>1. lost' \subseteq Id /\ owed' \subseteq Id
    BY <1>1, <1>5 DEF ActivationFails, Arming, Ready, TInv, TypeOK
  <2>2. /\ slot' \in Slot \cup {NoSlot} /\ db' \in Slot \cup {NoSlot} /\ transition' \in BOOLEAN
        /\ Finish(p)
    BY <1>5 DEF ActivationFails, TInv, TypeOK
  <2>3. Serves(p, "tick")
    BY <2>1, <2>2, FinishServes
  <2> QED
    BY <1>2, <2>1, <2>3
<1>6. CASE EndActions(p)
  <2>1. "deact_run" \in Places /\ "deact_run" \notin Arming
    BY DEF Places, InTransition, Arming
  <2>2. Serves(p, "tick") /\ owed' \subseteq Id
    BY <1>6, <2>1 DEF EndActions, Serves, slotVars, lockVars, TInv, TypeOK
  <2> QED
    BY <1>2, <2>2
<1>7. CASE SlotCleared(p)
  <2>0. slot \in Slot
    BY <1>7 DEF SlotCleared, Deactivating, IInv, Agreement, TInv, TypeOK
  <2>1. /\ owed' \subseteq Id /\ lost' \subseteq Id /\ AfterDeactivate(p, op[p])
        /\ slot' = NoSlot /\ db' = NoSlot /\ transition' = FALSE
    BY <1>7, <2>0 DEF SlotCleared, ClearSlot, Slot, TInv, TypeOK
  <2>2. Serves(p, op[p])
    BY <2>1, ActivateServes, FinishServes DEF AfterDeactivate
  <2> QED
    BY <1>1, <1>2, <2>1, <2>2
<1> QED
  BY <1>3, <1>4, <1>5, <1>6, <1>7 DEF ProcStep

(* Every step keeps the types and what the coroutines are to activate. *)
THEOREM TypedInvariant == Spec => []TInv
<1>0. Ticker \in Proc /\ 0 \in 0..MaxAge /\ 0 \in 0..MaxActivations /\ 0 \in 0..MaxRestarts
  BY ConstantsAssumption DEF Proc
<1>1. Init => TInv
  <2> SUFFICES ASSUME Init PROVE TInv
    OBVIOUS
  <2>1. lockQ \in Seq(Proc)
    BY EmptyQueue DEF Init
  <2>2. TypeOK
    BY <1>0, <2>1 DEF Init, TypeOK, InTransition
  <2>3. Armed
    BY DEF Init, Armed, Arming
  <2> QED
    BY <2>2, <2>3 DEF TInv
<1>2. TInv /\ IInv /\ [Next]_vars => TInv'
  <2> SUFFICES ASSUME TInv, IInv, [Next]_vars PROVE TInv'
    OBVIOUS
  <2>0. lockQ \in Seq(Proc) /\ owed \subseteq Id /\ DOMAIN pc = Proc
    BY DEF TInv, TypeOK
  <2>1. CASE TickSkip \/ TickQueue
    <3>1. PICK place \in {"asleep", "queued"} : pc' = [pc EXCEPT ![Ticker] = place]
      BY <2>1 DEF TickSkip, TickQueue
    <3>2. place \in Places /\ place \notin Arming
      BY DEF Places, Arming
    <3>3. Serves(Ticker, "tick")
      BY <2>1, <3>1, <3>2 DEF TickSkip, TickQueue, Serves, slotVars, lockVars, TInv, TypeOK
    <3>4. /\ lockQ' \in Seq(Proc) /\ age' \in 0..MaxAge
          /\ UNCHANGED <<op, arg, mine, activations, owed, disk, over, exists, request, up, restarts>>
      BY <1>0, <2>0, <2>1 DEF TickSkip, TickQueue, slotVars, lockVars
    <3> QED
      BY <1>0, <2>0, <3>3, <3>4, ServedKeeps DEF TInv, TypeOK, Armed, Ready
  <2>2. CASE TickRun
    BY <1>0, <2>0, <2>2, TickBodyTyped DEF TickRun
  <2>3. CASE TimePasses
    <3>1. age' \in 0..MaxAge
      BY <2>3, ConstantsAssumption DEF TimePasses, TInv, TypeOK
    <3>2. pc' \in [Proc -> Places] /\ \A q \in Proc : pc'[q] \in Arming => pc[q] \in Arming
      BY <2>3 DEF TimePasses, TInv, TypeOK, Places, Arming
    <3>3. TypeOK'
      BY <2>3, <3>1, <3>2 DEF TimePasses, TInv, TypeOK, Places, slotVars, lockVars
    <3> QED
      BY <2>3, <3>2, <3>3, IdleTyped DEF TimePasses
  <2>4. CASE LockGranted
    <3>1. Head(lockQ) \in Proc /\ lockQ' \in Seq(Proc)
      BY <2>0, <2>4 DEF LockGranted
    <3>2. /\ UNCHANGED <<owed, op, disk, over, exists, request, age, up, restarts>>
          /\ age' \in 0..MaxAge
      BY <2>4 DEF LockGranted, envVars, TInv, TypeOK
    <3>3. CASE TickBody
      BY <2>0, <3>1, <3>2, <3>3, TickBodyTyped
    <3>4. CASE Admitted(Head(lockQ), op[Head(lockQ)]) /\ UNCHANGED <<arg, mine, activations>>
      <4>1. PICK p \in Proc : Admitted(p, op[p])
        BY <3>1, <3>4
      <4>2. Serves(p, op[p])
        BY <4>1, AdmittedServes DEF TInv
      <4> QED
        BY <2>0, <3>1, <3>2, <3>4, <4>2, ServedKeeps DEF TInv, TypeOK, Armed, Ready
    <3> QED
      BY <2>4, <3>3, <3>4 DEF LockGranted
  <2>5. CASE \E p \in Proc : ProcStep(p)
    BY <2>5, ProcTyped
  <2>6. ASSUME NEW p \in Admin, NEW s \in Schedule, CallTrigger(p, s) PROVE TInv'
    <3>1. p \in Proc /\ Serves(p, "trigger") /\ lockQ' \in Seq(Proc)
      BY <2>6, AcquireTyped DEF CallTrigger, Proc
    <3>2. activations + 1 \in Id /\ activations + 1 \in 0..MaxActivations
      BY <2>6, ConstantsAssumption DEF CallTrigger, TInv, TypeOK, Id
    <3>3. /\ op' \in [Proc -> {"tick", "trigger", "deactivate"}]
          /\ arg' \in [Proc -> Schedule \cup {NoSchedule}]
          /\ mine' \in [Proc -> 0..MaxActivations]
          /\ activations' \in 0..MaxActivations
          /\ \A q \in Proc : q # p => op'[q] = op[q] /\ arg'[q] = arg[q] /\ mine'[q] = mine[q]
          /\ Ready(p)'
      BY <2>6, <3>1, <3>2 DEF CallTrigger, TInv, TypeOK, Ready
    <3>4. /\ age' \in 0..MaxAge /\ owed' \subseteq Id
          /\ UNCHANGED <<disk, over, exists, request, up, restarts>>
      BY <2>6 DEF CallTrigger, envVars, TInv, TypeOK
    <3> QED
      BY <3>1, <3>3, <3>4, ServedKeeps
  <2>7. ASSUME NEW p \in Admin, CallDeactivate(p) PROVE TInv'
    <3>1. p \in Proc /\ Serves(p, "deactivate") /\ lockQ' \in Seq(Proc)
      BY <2>7, AcquireTyped DEF CallDeactivate, Proc
    <3>2. /\ op' \in [Proc -> {"tick", "trigger", "deactivate"}]
          /\ op'[p] = "deactivate"
          /\ \A q \in Proc : q # p => op'[q] = op[q]
          /\ UNCHANGED <<arg, mine, activations>>
      BY <2>7, <3>1 DEF CallDeactivate, TInv, TypeOK
    <3>3. /\ age' \in 0..MaxAge /\ owed' \subseteq Id
          /\ UNCHANGED <<disk, over, exists, request, up, restarts>>
      BY <2>7 DEF CallDeactivate, envVars, TInv, TypeOK
    <3> QED
      BY <3>1, <3>2, <3>3, ServedKeeps DEF TInv, TypeOK
  <2>8. CASE \/ \E s \in Schedule : DeleteSchedule(s) \/ CreateSchedule(s)
             \/ DiskWrite \/ SlotEnds(slot) \/ SlotEnds(db)
    <3>1. UNCHANGED <<slotVars, lockVars, procVars, request, age, up, restarts>>
      BY <2>8 DEF DeleteSchedule, CreateSchedule, DiskWrite, SlotEnds
    <3>2. /\ exists' \subseteq Schedule /\ over' \subseteq Id
          /\ disk' \in [slot : Slot \cup {NoSlot}, schedules : SUBSET Schedule]
      BY <2>8 DEF DeleteSchedule, CreateSchedule, DiskWrite, OnDisk, SlotEnds, TInv, TypeOK, Slot
    <3>3. TypeOK'
      BY <3>1, <3>2 DEF TInv, TypeOK, slotVars, lockVars, procVars
    <3> QED
      BY <3>1, <3>3, IdleTyped DEF procVars
  <2>9. CASE \E c \in Consumer : RequestAdmitted(c) \/ RequestEnqueued(c) \/ RequestDone(c)
    <3>1. UNCHANGED <<slotVars, lockVars, procVars, disk, over, exists, age, up, restarts>>
      BY <2>9 DEF RequestAdmitted, RequestEnqueued, RequestDone
    <3>2. request' \in [Consumer -> {"none", "admitted", "inflight"}]
      BY <2>9 DEF RequestAdmitted, RequestEnqueued, RequestDone, TInv, TypeOK
    <3>3. TypeOK'
      BY <3>1, <3>2 DEF TInv, TypeOK, slotVars, lockVars, procVars
    <3> QED
      BY <3>1, <3>3, IdleTyped DEF procVars
  <2>10. CASE Crash \/ Shutdown
    <3>0. Activating(Proc) \subseteq Id /\ Activating({Ticker}) \subseteq Id /\ IdOf(slot) \subseteq Id
      BY <1>0 DEF Activating, IdOf, TInv, TypeOK, Armed, Ready, Arming, Slot
    <3>1. /\ Gone /\ restarts < MaxRestarts /\ db' \in Slot \cup {NoSlot} /\ exists' \subseteq Schedule
          /\ disk' \in [slot : Slot \cup {NoSlot}, schedules : SUBSET Schedule]
          /\ lost' \subseteq Id
      <4>1. CASE Crash
        BY <3>0, <4>1 DEF Crash, TInv, TypeOK
      <4>2. CASE Shutdown
        BY <3>0, <4>2 DEF Shutdown, OnDisk, TInv, TypeOK
      <4> QED
        BY <2>10, <4>1, <4>2
    <3>2. restarts' \in 0..MaxRestarts
      BY <3>1, ConstantsAssumption DEF Gone, TInv, TypeOK
    <3>3. lockQ' \in Seq(Proc)
      BY <3>1, EmptyQueue DEF Gone
    <3>4. pc' = [q \in Proc |-> "idle"] /\ request' = [c \in Consumer |-> "none"]
      BY <3>1 DEF Gone
    <3>5. TypeOK'
      <4>1. pc' \in [Proc -> {"idle", "asleep", "queued"} \cup InTransition]
        BY <3>4
      <4>2. request' \in [Consumer -> {"none", "admitted", "inflight"}]
        BY <3>4
      <4>3. /\ up' = FALSE /\ slot' = NoSlot /\ transition' = FALSE /\ locked' = FALSE /\ age' = 0
            /\ UNCHANGED <<owed, op, arg, mine, activations, over>>
        BY <3>1 DEF Gone
      <4> QED
        BY <1>0, <3>1, <3>2, <3>3, <4>1, <4>2, <4>3 DEF TInv, TypeOK
    <3>6. \A q \in Proc : pc'[q] \notin Arming
      BY <3>4 DEF Arming
    <3> QED
      BY <3>1, <3>5, <3>6, IdleTyped DEF Gone
  <2>11. CASE Boot
    <3>1. /\ UNCHANGED <<transition, owed, lockVars, procVars, disk, over, exists, request, age, restarts>>
          /\ up' = TRUE /\ slot' \in Slot \cup {NoSlot} /\ db' \in Slot \cup {NoSlot}
          /\ lost' \subseteq Id
      BY <2>11 DEF Boot, TInv, TypeOK, Slot
    <3>2. TypeOK'
      BY <3>1 DEF TInv, TypeOK, lockVars, procVars
    <3> QED
      BY <3>1, <3>2, IdleTyped DEF procVars
  <2>12. CASE UNCHANGED vars
    BY <2>12 DEF vars, slotVars, lockVars, procVars, envVars, TInv, TypeOK, Armed, Ready
  <2> QED
    BY <2>1, <2>2, <2>3, <2>4, <2>5, <2>6, <2>7, <2>8, <2>9, <2>10, <2>11, <2>12 DEF Next, Tick
<1> QED
  BY <1>1, <1>2, InductiveInvariant, PTL DEF Spec

(* Every variable keeps its type, through the restarts too: in particular   *)
(* what is set, persisted and restored as the active slot is always a       *)
(* schedule with the activation that took its snapshot.                     *)
THEOREM TypeCorrect == Spec => []TypeOK
<1>1. TInv => TypeOK
  BY DEF TInv
<1> QED
  BY <1>1, TypedInvariant, PTL

-----------------------------------------------------------------------------
(* Snapshots.  Whoever activates does so with no slot set; so a snapshot is *)
(* held at one place at a time, by the coroutine that runs actions_start,   *)
(* by the active slot or by its persisted copy, and it leaves that place in *)
(* the steps that SnapshotKept names only.                                  *)

Held == Activating(Proc) \cup IdOf(IF up THEN slot ELSE db)

Vacant == \A p \in Proc : pc[p] \in Arming => slot = NoSlot

Kept == owed \ lost \subseteq Held

NotTwice == restarts = 0 => up /\ Held \subseteq owed

SInv == Vacant /\ Kept /\ NotTwice

(* Nobody runs actions_start: the slot alone holds a snapshot. *)
LEMMA NobodyActivates ==
    ASSUME \A q \in Proc : pc[q] # "act_run"
    PROVE  Activating(Proc) = {}
  BY DEF Activating

LEMMA OneActivates ==
    ASSUME NEW p \in Proc, pc[p] = "act_run", \A q \in Proc : q # p => pc[q] # "act_run"
    PROVE  Activating(Proc) = {mine[p]}
  BY DEF Activating

(* Steps that leave the slot alone and move nobody into or out of           *)
(* execute_actions, and into wait_for_idle only when no slot is set.        *)
LEMMA CalmKeeps ==
    ASSUME SInv, UNCHANGED <<slot, db, owed, lost, up, restarts>>,
           \A q \in Proc : (pc'[q] = "act_run" <=> pc[q] = "act_run"),
           \A q \in Proc : pc[q] = "act_run" => mine'[q] = mine[q],
           \A q \in Proc : pc'[q] \in Arming => pc[q] \in Arming \/ slot = NoSlot
    PROVE  SInv'
<1>1. {q \in Proc : pc'[q] = "act_run"} = {q \in Proc : pc[q] = "act_run"}
  OBVIOUS
<1>2. Activating(Proc)' = Activating(Proc)
  BY <1>1 DEF Activating
<1>3. Held' = Held
  BY <1>2 DEF Held, IdOf
<1>4. Kept' /\ NotTwice'
  BY <1>3 DEF SInv, Kept, NotTwice
<1>5. Vacant'
  BY DEF SInv, Vacant
<1> QED
  BY <1>4, <1>5 DEF SInv

(* What the last part of a step does to the slot and to the coroutine p     *)
(* that runs it: the slot stays, or it goes and its snapshot is given up.   *)
Settles(p) ==
    /\ \/ UNCHANGED <<slot, db, lost>>
       \/ slot' = NoSlot /\ lost' = lost \cup IdOf(slot)
    /\ \E place : /\ pc' = [pc EXCEPT ![p] = place]
                  /\ place # "act_run"
                  /\ place \in Arming => slot' = NoSlot

LEMMA FinishSettles ==
    ASSUME NEW p, Finish(p), KeepSlot
    PROVE  Settles(p)
<1>1. PICK place \in {"asleep", "idle"} : pc' = [pc EXCEPT ![p] = place]
  BY Zenon DEF Finish
<1> QED
  BY <1>1 DEF Settles, KeepSlot, Arming

LEMMA ActivateLeads ==
    ASSUME NEW p, NEW o, slot' = NoSlot, Activate(p) \/ AfterDeactivate(p, o)
    PROVE  \E place : pc' = [pc EXCEPT ![p] = place] /\ place # "act_run"
<1>1. CASE Finish(p)
  <2>1. PICK place \in {"asleep", "idle"} : pc' = [pc EXCEPT ![p] = place]
    BY <1>1, Zenon DEF Finish
  <2> QED
    BY <2>1
<1>2. CASE Suspend(p, "act_wait")
  <2>1. pc' = [pc EXCEPT ![p] = "act_wait"] /\ "act_wait" # "act_run"
    BY <1>2 DEF Suspend
  <2> QED
    BY <2>1
<1> QED
  BY <1>1, <1>2 DEF AfterDeactivate, Activate

LEMMA DeactivateSettles ==
    ASSUME NEW p, NEW o, Deactivate(p, o)
    PROVE  Settles(p)
<1>1. CASE slot = NoSlot /\ KeepSlot /\ AfterDeactivate(p, o)
  BY <1>1, ActivateLeads DEF KeepSlot, Settles
<1>2. CASE slot # NoSlot /\ ClearSlot({slot.id}) /\ AfterDeactivate(p, o)
  BY <1>2, ActivateLeads DEF ClearSlot, Settles, IdOf
<1>3. CASE UNCHANGED <<slot, db, lost>> /\ Suspend(p, "deact_wait")
  <2>1. pc' = [pc EXCEPT ![p] = "deact_wait"] /\ "deact_wait" # "act_run" /\ "deact_wait" \notin Arming
    BY <1>3 DEF Suspend, Arming
  <2> QED
    BY <1>3, <2>1 DEF Settles
<1> QED
  BY <1>1, <1>2, <1>3 DEF Deactivate

LEMMA AdmittedSettles ==
    ASSUME NEW p, NEW o, Admitted(p, o)
    PROVE  Settles(p)
<1>1. CASE \E x : Deactivate(p, x)
  BY <1>1, DeactivateSettles
<1>2. CASE KeepSlot /\ Finish(p)
  BY <1>2, FinishSettles
<1>3. CASE slot = NoSlot /\ KeepSlot /\ Activate(p)
  <2>1. slot' = NoSlot
    BY <1>3 DEF KeepSlot
  <2> QED
    BY <1>3, <2>1, ActivateLeads DEF KeepSlot, Settles
<1> QED
  BY <1>1, <1>2, <1>3 DEF Admitted, Trigger

LEMMA TickBodySettles ==
    ASSUME TickBody
    PROVE  Settles(Ticker)
<1>1. CASE Deactivate(Ticker, "tick")
  BY <1>1, DeactivateSettles
<1>2. CASE KeepSlot /\ Finish(Ticker)
  BY <1>2, FinishSettles
<1>3. CASE slot = NoSlot /\ KeepSlot /\ Activate(Ticker)
  <2>1. slot' = NoSlot
    BY <1>3 DEF KeepSlot
  <2> QED
    BY <1>3, <2>1, ActivateLeads DEF KeepSlot, Settles
<1> QED
  BY <1>1, <1>2, <1>3 DEF TickBody

(* Whoever has just taken the lock finds nobody in a transition. *)
LEMMA SettledKeeps ==
    ASSUME SInv, IInv, up, ~locked, NEW p \in Proc, Settles(p),
           UNCHANGED <<owed, up, restarts>>
    PROVE  SInv'
<1>1. \A q \in Proc : pc[q] \notin Arming /\ pc[q] # "act_run"
  BY FreeLock DEF InTransition, Arming
<1>2. PICK place : /\ pc' = [pc EXCEPT ![p] = place]
                   /\ place # "act_run"
                   /\ place \in Arming => slot' = NoSlot
  BY DEF Settles
<1>3. \A q \in Proc : pc'[q] # "act_run" /\ (pc'[q] \in Arming => slot' = NoSlot)
  BY <1>1, <1>2 DEF IInv, Shape
<1>4. Activating(Proc) = {}
  BY <1>1, NobodyActivates
<1>5. Activating(Proc)' = {}
  BY <1>3 DEF Activating
<1>6. Held = IdOf(slot) /\ Held' = IdOf(slot')
  BY <1>4, <1>5 DEF Held, IdOf
<1>7. Vacant'
  BY <1>3 DEF Vacant
<1>8. Kept' /\ NotTwice'
  <2>1. CASE UNCHANGED <<slot, db, lost>>
    BY <1>6, <2>1 DEF SInv, Kept, NotTwice
  <2>2. CASE slot' = NoSlot /\ lost' = lost \cup IdOf(slot)
    <3>1. Held' = {}
      BY <1>6, <2>2 DEF IdOf
    <3> QED
      BY <1>6, <2>2, <3>1 DEF SInv, Kept, NotTwice
  <2> QED
    BY <2>1, <2>2 DEF Settles
<1> QED
  BY <1>7, <1>8 DEF SInv

LEMMA AcquireSettles ==
    ASSUME SInv, IInv, up, NEW p \in Proc, NEW o, pc[p] = "idle", AcquireOrQueue(p, o),
           \A q \in Proc : q # p => mine'[q] = mine[q],
           UNCHANGED <<owed, up, restarts>>
    PROVE  SInv'
<1>1. CASE ~locked /\ Admitted(p, o)
  BY <1>1, AdmittedSettles, SettledKeeps
<1>2. CASE pc' = [pc EXCEPT ![p] = "queued"] /\ KeepSlot
  BY <1>2, CalmKeeps DEF KeepSlot, IInv, Shape, Arming
<1> QED
  BY <1>1, <1>2 DEF AcquireOrQueue

(* The steps inside a transition. *)
LEMMA TransitionKeeps ==
    ASSUME SInv, IInv, TInv, NEW p \in Proc, ProcStep(p)
    PROVE  SInv'
<1>1. up /\ pc[p] \in InTransition /\ UNCHANGED <<up, mine, restarts>>
  BY DEF ProcStep, StartActions, SlotActive, ActivationFails, EndActions, SlotCleared, envVars,
         InTransition
<1>2. \A q \in Proc : q # p => pc[q] \notin InTransition
  BY <1>1 DEF IInv, Exclusion
<1>3. \A q \in Proc : q # p => pc[q] # "act_run" /\ pc[q] \notin Arming
  BY <1>2 DEF InTransition, Arming
<1>4. DOMAIN pc = Proc
  BY DEF IInv, Shape
<1>5. CASE StartActions(p)
  <2>1. /\ pc[p] = "act_wait" /\ pc' = [pc EXCEPT ![p] = "act_run"]
        /\ owed' = owed \cup {mine[p]} /\ UNCHANGED <<slot, lost>>
    BY <1>5 DEF StartActions
  <2>2. slot = NoSlot
    BY <2>1 DEF SInv, Vacant, Arming
  <2>3. Activating(Proc) = {}
    BY <1>3, <2>1, NobodyActivates
  <2>4. Activating(Proc)' = {mine[p]}
    BY <1>1, <1>3, <1>4, <2>1 DEF Activating
  <2>5. Held = {} /\ Held' = {mine[p]}
    BY <1>1, <2>1, <2>2, <2>3, <2>4 DEF Held, IdOf
  <2>6. Kept' /\ NotTwice'
    BY <1>1, <2>1, <2>5 DEF SInv, Kept, NotTwice
  <2>7. Vacant'
    BY <2>1, <2>2 DEF Vacant
  <2> QED
    BY <2>6, <2>7 DEF SInv
<1>6. CASE SlotActive(p)
  <2>1. /\ pc[p] = "act_run" /\ slot' = [schedule |-> arg[p], id |-> mine[p]]
        /\ pc' = [pc EXCEPT ![p] = IF p = Ticker THEN "asleep" ELSE "idle"]
        /\ UNCHANGED <<owed, lost>>
    BY <1>6 DEF SlotActive, Finish
  <2>2. slot = NoSlot /\ Ready(p)
    BY <2>1 DEF SInv, Vacant, TInv, Armed, Arming
  <2>3. slot' # NoSlot
    BY <2>1, <2>2, NoSlotAssumption DEF Ready, Slot
  <2>4. \A q \in Proc : pc'[q] # "act_run" /\ pc'[q] \notin Arming
    BY <1>3, <1>4, <2>1 DEF Arming
  <2>5. Activating(Proc) = {mine[p]}
    BY <1>3, <2>1, OneActivates
  <2>6. Activating(Proc)' = {}
    BY <2>4 DEF Activating
  <2>7. Held = {mine[p]} /\ Held' = {mine[p]}
    BY <1>1, <2>1, <2>2, <2>3, <2>5, <2>6 DEF Held, IdOf
  <2>8. Kept' /\ NotTwice'
    BY <1>1, <2>1, <2>7 DEF SInv, Kept, NotTwice
  <2> QED
    BY <2>4, <2>8 DEF SInv, Vacant
<1>7. CASE ActivationFails(p)
  <2>1. /\ pc[p] = "act_run" /\ UNCHANGED <<slot, owed>> /\ lost' = lost \cup {mine[p]}
        /\ pc' = [pc EXCEPT ![p] = IF p = Ticker THEN "asleep" ELSE "idle"]
    BY <1>7 DEF ActivationFails, Finish
  <2>2. slot = NoSlot
    BY <2>1 DEF SInv, Vacant, Arming
  <2>3. \A q \in Proc : pc'[q] # "act_run" /\ pc'[q] \notin Arming
    BY <1>3, <1>4, <2>1 DEF Arming
  <2>4. Activating(Proc) = {mine[p]}
    BY <1>3, <2>1, OneActivates
  <2>5. Activating(Proc)' = {}
    BY <2>3 DEF Activating
  <2>6. Held = {mine[p]} /\ Held' = {}
    BY <1>1, <2>1, <2>2, <2>4, <2>5 DEF Held, IdOf
  <2>7. Kept' /\ NotTwice'
    BY <1>1, <2>1, <2>6 DEF SInv, Kept, NotTwice
  <2> QED
    BY <2>3, <2>7 DEF SInv, Vacant
<1>8. CASE EndActions(p)
  <2>1. /\ pc[p] = "deact_wait" /\ pc' = [pc EXCEPT ![p] = "deact_run"]
        /\ UNCHANGED <<slot, db, owed, lost>>
    BY <1>8 DEF EndActions, slotVars
  <2> QED
    BY <1>1, <1>4, <2>1, CalmKeeps DEF Arming
<1>9. CASE SlotCleared(p)
  <2>1. /\ pc[p] = "deact_run" /\ slot' = NoSlot
        /\ \/ owed' = owed \ {slot.id} /\ lost' = lost
           \/ owed' = owed /\ lost' = lost \cup {slot.id}
    BY <1>9 DEF SlotCleared, ClearSlot
  <2>2. slot # NoSlot
    BY <2>1 DEF IInv, Agreement, Deactivating
  <2>3. PICK place : pc' = [pc EXCEPT ![p] = place] /\ place # "act_run"
    BY <1>9, <2>1, ActivateLeads DEF SlotCleared
  <2>4. \A q \in Proc : pc[q] # "act_run" /\ pc'[q] # "act_run"
    BY <1>3, <1>4, <2>1, <2>3
  <2>5. Activating(Proc) = {} /\ Activating(Proc)' = {}
    BY <2>4 DEF Activating
  <2>6. Held = {slot.id} /\ Held' = {}
    BY <1>1, <2>1, <2>2, <2>5 DEF Held, IdOf
  <2>7. Kept' /\ NotTwice'
    BY <1>1, <2>1, <2>6 DEF SInv, Kept, NotTwice
  <2> QED
    BY <2>1, <2>7 DEF SInv, Vacant
<1> QED
  BY <1>5, <1>6, <1>7, <1>8, <1>9 DEF ProcStep

(* A process that ends gives up the snapshots it holds in memory only. *)
LEMMA GoneGivesUp ==
    ASSUME SInv, IInv, TInv, Crash \/ Shutdown
    PROVE  SInv'
<1>1. /\ up /\ up' = FALSE /\ slot' = NoSlot /\ owed' = owed /\ restarts' = restarts + 1
      /\ pc' = [p \in Proc |-> "idle"]
  BY DEF Crash, Shutdown, Gone
<1>2. \A q \in Proc : pc'[q] # "act_run" /\ pc'[q] \notin Arming
  BY <1>1 DEF Arming
<1>3. Activating(Proc)' = {}
  BY <1>2 DEF Activating
<1>4. Held' = IdOf(db') /\ Held = Activating(Proc) \cup IdOf(slot)
  BY <1>1, <1>3 DEF Held, IdOf
<1>5. NotTwice'
  BY <1>1 DEF NotTwice, TInv, TypeOK
<1>6. Kept'
  <2>1. CASE Crash
    <3>1. /\ db' = disk.slot
          /\ lost' = lost \cup Activating(Proc) \cup (IF slot = disk.slot THEN {} ELSE IdOf(slot))
      BY <2>1 DEF Crash
    <3> QED
      BY <1>1, <1>4, <3>1 DEF SInv, Kept
  <2>2. CASE Shutdown
    <3>1. \A q \in Proc : pc[q] = "act_run" => q = Ticker
      BY <2>2 DEF Shutdown, Proc
    <3>2. Activating(Proc) = Activating({Ticker})
      BY <3>1 DEF Activating, Proc
    <3>3. /\ db' = IF pc[Ticker] \in Deactivating THEN NoSlot ELSE db
          /\ lost' = lost \cup Activating({Ticker})
                          \cup (IF pc[Ticker] \in Deactivating THEN IdOf(slot) ELSE {})
      BY <2>2 DEF Shutdown
    <3>4. slot = db
      BY <1>1 DEF IInv, Agreement
    <3> QED
      BY <1>1, <1>4, <3>2, <3>3, <3>4 DEF SInv, Kept
  <2> QED
    BY <2>1, <2>2
<1>7. Vacant'
  BY <1>2 DEF Vacant
<1> QED
  BY <1>5, <1>6, <1>7 DEF SInv

(* The next process finds the persisted slot, or gives it up. *)
LEMMA BootFinds ==
    ASSUME SInv, IInv, Boot
    PROVE  SInv'
<1>1. /\ ~up /\ up' = TRUE /\ UNCHANGED <<owed, pc, mine, restarts>>
  BY DEF Boot, procVars
<1>2. slot = NoSlot /\ \A q \in Proc : pc[q] = "idle"
  BY <1>1 DEF IInv, DownIsClean
<1>3. \A q \in Proc : pc[q] # "act_run" /\ pc[q] \notin Arming
  BY <1>2 DEF Arming
<1>4. Activating(Proc) = {} /\ Activating(Proc)' = {}
  BY <1>1, <1>3 DEF Activating
<1>5. Held = IdOf(db) /\ Held' = IdOf(slot')
  BY <1>1, <1>4 DEF Held, IdOf
<1>6. Kept'
  <2>1. CASE db # NoSlot /\ IsExpired(db)
    <3>1. lost' = lost \cup {db.id}
      BY <2>1 DEF Boot
    <3> QED
      BY <1>1, <1>5, <2>1, <3>1 DEF SInv, Kept, IdOf
  <2>2. CASE ~(db # NoSlot /\ IsExpired(db))
    <3>1. slot' = db /\ lost' = lost
      BY <2>2 DEF Boot
    <3> QED
      BY <1>1, <1>5, <3>1 DEF SInv, Kept
  <2> QED
    BY <2>1, <2>2
<1>7. NotTwice'
  BY <1>1 DEF SInv, NotTwice
<1>8. Vacant'
  BY <1>1, <1>3 DEF Vacant
<1> QED
  BY <1>6, <1>7, <1>8 DEF SInv

(* No overlap of ticks, triggers, deactivations and requests, no restart    *)
(* and no order of the disk writes loses a snapshot but in the six ways     *)
(* that SnapshotKept names, whatever of Events happens and however often.   *)
THEOREM SnapshotsAreKept == Spec => []SnapshotKept
<1>1. Init => SInv
  <2> SUFFICES ASSUME Init PROVE SInv
    OBVIOUS
  <2>1. \A q \in Proc : pc[q] # "act_run" /\ pc[q] \notin Arming
    BY DEF Init, Arming
  <2>2. Activating(Proc) = {}
    BY <2>1, NobodyActivates
  <2>3. Held = {}
    BY <2>2 DEF Init, Held, IdOf
  <2>4. Kept /\ NotTwice
    BY <2>3 DEF Init, Kept, NotTwice
  <2> QED
    BY <2>1, <2>4 DEF SInv, Vacant
<1>2. SInv /\ IInv /\ TInv /\ [Next]_vars => SInv'
  <2> SUFFICES ASSUME SInv, IInv, TInv, [Next]_vars PROVE SInv'
    OBVIOUS
  <2>0. DOMAIN pc = Proc /\ DOMAIN mine = Proc /\ Ticker \in Proc
    BY DEF IInv, Shape, TInv, TypeOK, Proc
  <2>1. CASE TickSkip \/ TickQueue \/ TimePasses
    <3>1. /\ UNCHANGED <<slot, db, owed, lost, up, restarts, mine>>
          /\ \E place : /\ pc' = [pc EXCEPT ![Ticker] = place]
                        /\ pc[Ticker] \notin Arming \/ place = pc[Ticker]
                        /\ place \in Arming => place = pc[Ticker]
      BY <2>1 DEF TickSkip, TickQueue, TimePasses, slotVars, lockVars, Arming
    <3>2. PICK place : /\ pc' = [pc EXCEPT ![Ticker] = place]
                       /\ pc[Ticker] \notin Arming \/ place = pc[Ticker]
                       /\ place \in Arming => place = pc[Ticker]
      BY <3>1
    <3>3. \A q \in Proc : pc'[q] = pc[q] \/ (pc[q] \notin Arming /\ pc'[q] \notin Arming)
      BY <2>0, <3>2
    <3> QED
      BY <3>1, <3>3, CalmKeeps DEF Arming
  <2>2. CASE TickRun
    BY <2>0, <2>2, TickBodySettles, SettledKeeps DEF TickRun
  <2>3. CASE LockGranted
    <3>1. up /\ ~locked /\ lockQ \in Seq(Proc) /\ lockQ # <<>> /\ UNCHANGED <<owed, up, restarts>>
      BY <2>3 DEF LockGranted, envVars, IInv, Shape
    <3>2. Head(lockQ) \in Proc
      BY <3>1
    <3>3. \E p \in Proc : Settles(p)
      BY <2>0, <2>3, <3>2, TickBodySettles, AdmittedSettles DEF LockGranted
    <3> QED
      BY <3>1, <3>3, SettledKeeps
  <2>4. CASE \E p \in Proc : ProcStep(p)
    BY <2>4, TransitionKeeps
  <2>5. ASSUME NEW p \in Admin, NEW s \in Schedule, CallTrigger(p, s) PROVE SInv'
    BY <2>0, <2>5, AcquireSettles DEF CallTrigger, envVars, Proc
  <2>6. ASSUME NEW p \in Admin, CallDeactivate(p) PROVE SInv'
    BY <2>0, <2>6, AcquireSettles DEF CallDeactivate, envVars, Proc
  <2>7. CASE \/ \E s \in Schedule : DeleteSchedule(s) \/ CreateSchedule(s)
             \/ \E c \in Consumer : RequestAdmitted(c) \/ RequestEnqueued(c) \/ RequestDone(c)
             \/ SlotEnds(slot) \/ SlotEnds(db)
             \/ DiskWrite \/ UNCHANGED vars
    <3>1. UNCHANGED <<slot, db, owed, lost, up, restarts, pc, mine>>
      BY <2>7 DEF DeleteSchedule, CreateSchedule, RequestAdmitted, RequestEnqueued, RequestDone,
                  SlotEnds, DiskWrite, vars, slotVars, lockVars, procVars, envVars
    <3> QED
      BY <3>1, CalmKeeps
  <2>8. CASE Crash \/ Shutdown
    BY <2>8, GoneGivesUp
  <2>9. CASE Boot
    BY <2>9, BootFinds
  <2> QED
    BY <2>1, <2>2, <2>3, <2>4, <2>5, <2>6, <2>7, <2>8, <2>9 DEF Next, Tick
<1>3. SInv => SnapshotKept
  BY DEF SInv, Kept, NotTwice, Held, SnapshotKept
<1> QED
  BY <1>1, <1>2, <1>3, InductiveInvariant, TypedInvariant, PTL DEF Spec

=============================================================================
