---------------------------- MODULE AgentRuns_proofs ----------------------------
(***************************************************************************)
(* Proofs about AgentRuns, for every set of calls and every start of the   *)
(* session: types, and the three invariants on the fields the calls share, *)
(* the controllers, the slot and the promises.                             *)
(*                                                                         *)
(* None of them is inductive alone.  A slot is emptied by the call whose   *)
(* promise it holds, so a promise must be known to belong to a call that   *)
(* still has its finally block before it; the promise a call awaits was in *)
(* the slot once, and whoever has overwritten the slot since does not      *)
(* matter, because the resolver is the call itself.                        *)
(***************************************************************************)
EXTENDS AgentRuns, TLAPS

RunPc == {"running", "replying", "saved"}
CompactPc == {"reading", "summarising", "purging"}

(* Only messages wait at the gate, only messages and warm-ups run. *)
Places ==
    \A c \in Calls : /\ pc[c] \in {"waiting", "compacted"} => c \in Runs
                     /\ pc[c] \in RunPc => c \in Runs \cup Warmups

(* The call of a promise still has the finally block before it that        *)
(* settles the promise and takes it out of the slot.                       *)
Serves(p) ==
    /\ p.kind = "gate" => pc[p.of] \in {"waiting"} \cup RunPc
    /\ p.kind = "run" => pc[p.of] \in RunPc
    /\ p.kind = "compact" => pc[p.of] \in CompactPc

SlotServes == slot # None => Serves(slot)
PredServes == \A c \in Calls : pred[c] = None \/ pred[c] \in settled \/ Serves(pred[c])

ControllersRun == \A c \in controllers : pc[c] \in RunPc

(* The state names an operation that is under way. *)
StateOwned ==
    /\ state \in {"thinking", "warming"} => \E c \in Calls : pc[c] \in RunPc
    /\ state = "compacting" => \E c \in Calls : pc[c] \in CompactPc

IInv == /\ TypeOK /\ Places /\ SlotServes /\ PredServes
        /\ ControllersRun /\ StateOwned /\ Stoppable

-----------------------------------------------------------------------------
LEMMA ArriveStep == ASSUME IInv, NEW c \in Calls, Arrive(c) PROVE IInv'
<1>1. TypeOK'
  BY CallsAssumption DEF Arrive, Enter, TrackedRun, Gate, TypeOK, Promises, IInv
<1>2. Places'
  BY DEF Arrive, Enter, TypeOK, Places, IInv
<1>3. SlotServes'
  BY DEF Arrive, Enter, TrackedRun, Gate, TypeOK, SlotServes, Serves, RunPc, IInv
<1>4. PredServes'
  BY DEF Arrive, Enter, TypeOK, PredServes, SlotServes, Serves, RunPc, CompactPc, Promises, IInv
<1>5. ControllersRun'
  BY DEF Arrive, Enter, TypeOK, ControllersRun, RunPc, IInv
<1>6. StateOwned'
  BY DEF Arrive, Enter, TypeOK, StateOwned, RunPc, CompactPc, IInv
<1>7. Stoppable'
  BY DEF Arrive, Enter, TypeOK, Stoppable, Running, Calls, IInv
<1>. QED BY <1>1, <1>2, <1>3, <1>4, <1>5, <1>6, <1>7 DEF IInv

LEMMA ArriveWarmupStep == ASSUME IInv, NEW c \in Calls, ArriveWarmup(c) PROVE IInv'
<1>1. TypeOK'
  BY DEF ArriveWarmup, Enter, TrackedRun, TypeOK, Promises, IInv
<1>2. Places'
  BY DEF ArriveWarmup, Enter, TypeOK, Places, IInv
<1>3. SlotServes'
  BY DEF ArriveWarmup, Enter, TrackedRun, TypeOK, SlotServes, Serves, RunPc, CompactPc, Promises, IInv
<1>4. PredServes'
  BY DEF ArriveWarmup, Enter, TypeOK, PredServes, Serves, RunPc, CompactPc, Promises, IInv
<1>5. ControllersRun'
  BY DEF ArriveWarmup, Enter, TypeOK, ControllersRun, RunPc, Calls, IInv
<1>6. StateOwned'
  BY DEF ArriveWarmup, Enter, TypeOK, StateOwned, RunPc, CompactPc, IInv
<1>7. Stoppable'
  BY DEF ArriveWarmup, Enter, TypeOK, Stoppable, Running, Calls, IInv
<1>. QED BY <1>1, <1>2, <1>3, <1>4, <1>5, <1>6, <1>7 DEF IInv

LEMMA ResumeStep == ASSUME IInv, NEW c \in Calls, Resume(c) PROVE IInv'
<1>1. TypeOK'
  BY DEF Resume, Enter, TrackedRun, TypeOK, Promises, Places, IInv
<1>2. Places'
  BY DEF Resume, Enter, Places, IInv
<1>3. SlotServes'
  BY DEF Resume, Enter, TrackedRun, TypeOK, SlotServes, Serves, RunPc, IInv
<1>4. PredServes'
  BY DEF Resume, Enter, PredServes, Serves, RunPc, CompactPc, IInv
<1>5. ControllersRun'
  BY DEF Resume, Enter, TypeOK, ControllersRun, RunPc, IInv
<1>6. StateOwned'
  BY DEF Resume, Enter, TypeOK, StateOwned, RunPc, IInv
<1>7. Stoppable'
  BY DEF Resume, Enter, Stoppable, Running, IInv
<1>. QED BY <1>1, <1>2, <1>3, <1>4, <1>5, <1>6, <1>7 DEF IInv

LEMMA StoreMessageStep == ASSUME IInv, NEW c \in Calls, StoreMessage(c) PROVE IInv'
<1>1. TypeOK'
  BY DEF StoreMessage, Message, Messages, TypeOK, IInv
<1>2. Places'
  BY DEF StoreMessage, Places, IInv
<1>3. SlotServes'
  BY DEF StoreMessage, SlotServes, Serves, RunPc, CompactPc, IInv
<1>4. PredServes'
  BY DEF StoreMessage, PredServes, Serves, RunPc, CompactPc, IInv
<1>5. ControllersRun'
  BY DEF StoreMessage, ControllersRun, RunPc, IInv
<1>6. StateOwned'
  BY DEF StoreMessage, StateOwned, RunPc, CompactPc, IInv
<1>7. Stoppable'
  BY DEF StoreMessage, Stoppable, Running, IInv
<1>. QED BY <1>1, <1>2, <1>3, <1>4, <1>5, <1>6, <1>7 DEF IInv

LEMMA SaveReplyStep == ASSUME IInv, NEW c \in Calls, SaveReply(c) PROVE IInv'
<1>1. TypeOK'
  BY DEF SaveReply, Message, Messages, TypeOK, IInv
<1>2. Places'
  BY DEF SaveReply, Places, RunPc, IInv
<1>3. SlotServes'
  BY DEF SaveReply, SlotServes, Serves, RunPc, CompactPc, IInv
<1>4. PredServes'
  BY DEF SaveReply, PredServes, Serves, RunPc, CompactPc, IInv
<1>5. ControllersRun'
  BY DEF SaveReply, ControllersRun, RunPc, IInv
<1>6. StateOwned'
  BY DEF SaveReply, StateOwned, RunPc, CompactPc, IInv
<1>7. Stoppable'
  BY DEF SaveReply, Stoppable, Running, IInv
<1>. QED BY <1>1, <1>2, <1>3, <1>4, <1>5, <1>6, <1>7 DEF IInv

LEMMA FinishStep == ASSUME IInv, NEW c \in Calls, Finish(c) PROVE IInv'
<1>1. TypeOK'
  BY DEF Finish, TrackedRun, Gate, TypeOK, Promises, IInv
<1>2. Places'
  BY DEF Finish, Places, RunPc, IInv
<1>3. SlotServes'
  BY DEF Finish, TrackedRun, Gate, TypeOK, SlotServes, Serves, CompactPc, Running, Promises, IInv
<1>4. PredServes'
  BY DEF Finish, TrackedRun, Gate, TypeOK, PredServes, Serves, CompactPc, Running, Promises, IInv
<1>5. ControllersRun'
  BY DEF Finish, ControllersRun, IInv
<1>6. StateOwned'
  BY DEF Finish, StateOwned
<1>7. Stoppable'
  BY DEF Finish, TypeOK, Stoppable, Running, IInv
<1>. QED BY <1>1, <1>2, <1>3, <1>4, <1>5, <1>6, <1>7 DEF IInv

LEMMA CompactArriveStep == ASSUME IInv, NEW c \in Calls, CompactArrive(c) PROVE IInv'
<1>1. TypeOK'
  BY DEF CompactArrive, TypeOK, IInv
<1>2. Places'
  BY DEF CompactArrive, Places, RunPc, IInv
<1>3. SlotServes'
  BY DEF CompactArrive, SlotServes, Serves, RunPc, CompactPc, IInv
<1>4. PredServes'
  BY DEF CompactArrive, PredServes, SlotServes, Serves, RunPc, CompactPc, IInv
<1>5. ControllersRun'
  BY DEF CompactArrive, ControllersRun, RunPc, IInv
<1>6. StateOwned'
  BY DEF CompactArrive, StateOwned, RunPc, CompactPc, IInv
<1>7. Stoppable'
  BY DEF CompactArrive, Stoppable, Running, IInv
<1>. QED BY <1>1, <1>2, <1>3, <1>4, <1>5, <1>6, <1>7 DEF IInv

LEMMA CompactEnterStep == ASSUME IInv, NEW c \in Calls, CompactEnter(c) PROVE IInv'
<1>1. TypeOK'
  BY DEF CompactEnter, TrackedCompact, Return, TypeOK, Promises, IInv
<1>2. Places'
  BY CallsAssumption DEF CompactEnter, Return, TypeOK, Places, RunPc, IInv
<1>3. SlotServes'
  BY DEF CompactEnter, TrackedCompact, TypeOK, SlotServes, Serves, RunPc, CompactPc, Promises, IInv
<1>4. PredServes'
  BY DEF CompactEnter, TypeOK, PredServes, Serves, RunPc, CompactPc, Promises, IInv
<1>5. ControllersRun'
  BY DEF CompactEnter, TypeOK, ControllersRun, RunPc, Calls, IInv
<1>6. StateOwned'
  BY DEF CompactEnter, TypeOK, StateOwned, RunPc, CompactPc, IInv
<1>7. Stoppable'
  BY DEF CompactEnter, Return, TypeOK, Stoppable, Running, Calls, IInv
<1>. QED BY <1>1, <1>2, <1>3, <1>4, <1>5, <1>6, <1>7 DEF IInv

LEMMA CompactReadStep == ASSUME IInv, NEW c \in Calls, CompactRead(c) PROVE IInv'
<1>1. TypeOK'
  BY DEF CompactRead, CompactLeave, TrackedCompact, Return, TypeOK, Promises, IInv
<1>2. Places'
  BY CallsAssumption DEF CompactRead, CompactLeave, Return, TypeOK, Places, RunPc, IInv
<1>3. SlotServes'
  BY DEF CompactRead, CompactLeave, TrackedCompact, TypeOK, SlotServes, Serves, RunPc, CompactPc, Promises, IInv
<1>4. PredServes'
  BY DEF CompactRead, CompactLeave, TrackedCompact, TypeOK, PredServes, Serves, RunPc, CompactPc, Promises, IInv
<1>5. ControllersRun'
  BY DEF CompactRead, CompactLeave, TypeOK, ControllersRun, RunPc, Calls, IInv
<1>6. StateOwned'
  BY DEF CompactRead, CompactLeave, TypeOK, StateOwned, RunPc, CompactPc, IInv
<1>7. Stoppable'
  BY DEF CompactRead, CompactLeave, Return, TypeOK, Stoppable, Running, Calls, IInv
<1>. QED BY <1>1, <1>2, <1>3, <1>4, <1>5, <1>6, <1>7 DEF IInv

LEMMA CompactArchiveStep == ASSUME IInv, NEW c \in Calls, CompactArchive(c) PROVE IInv'
<1>1. TypeOK'
  BY DEF CompactArchive, TypeOK, IInv
<1>2. Places'
  BY DEF CompactArchive, Places, RunPc, IInv
<1>3. SlotServes'
  BY DEF CompactArchive, SlotServes, Serves, RunPc, CompactPc, IInv
<1>4. PredServes'
  BY DEF CompactArchive, PredServes, Serves, RunPc, CompactPc, IInv
<1>5. ControllersRun'
  BY DEF CompactArchive, ControllersRun, RunPc, IInv
<1>6. StateOwned'
  BY DEF CompactArchive, StateOwned, RunPc, CompactPc, IInv
<1>7. Stoppable'
  BY DEF CompactArchive, Stoppable, Running, IInv
<1>. QED BY <1>1, <1>2, <1>3, <1>4, <1>5, <1>6, <1>7 DEF IInv

LEMMA CompactPurgeStep == ASSUME IInv, NEW c \in Calls, CompactPurge(c) PROVE IInv'
<1>1. TypeOK'
  BY DEF CompactPurge, CompactLeave, TrackedCompact, Return, Message, Messages, TypeOK, Promises, IInv
<1>2. Places'
  BY CallsAssumption DEF CompactPurge, CompactLeave, Return, Places, RunPc, IInv
<1>3. SlotServes'
  BY DEF CompactPurge, CompactLeave, TrackedCompact, TypeOK, SlotServes, Serves, RunPc, Promises, IInv
<1>4. PredServes'
  BY DEF CompactPurge, CompactLeave, TrackedCompact, TypeOK, PredServes, Serves, RunPc, Promises, IInv
<1>5. ControllersRun'
  BY DEF CompactPurge, CompactLeave, ControllersRun, RunPc, IInv
<1>6. StateOwned'
  BY DEF CompactPurge, CompactLeave, StateOwned, RunPc, IInv
<1>7. Stoppable'
  BY DEF CompactPurge, CompactLeave, Return, Stoppable, Running, IInv
<1>. QED BY <1>1, <1>2, <1>3, <1>4, <1>5, <1>6, <1>7 DEF IInv

LEMMA CompactFailsStep == ASSUME IInv, NEW c \in Calls, CompactFails(c) PROVE IInv'
<1>1. TypeOK'
  BY DEF CompactFails, CompactLeave, TrackedCompact, TypeOK, Promises, IInv
<1>2. Places'
  BY DEF CompactFails, CompactLeave, Places, RunPc, IInv
<1>3. SlotServes'
  BY DEF CompactFails, Compacting, CompactLeave, TrackedCompact, TypeOK, SlotServes, Serves, RunPc, Promises, IInv
<1>4. PredServes'
  BY DEF CompactFails, Compacting, CompactLeave, TrackedCompact, TypeOK, PredServes, Serves, RunPc, Promises, IInv
<1>5. ControllersRun'
  BY DEF CompactFails, Compacting, CompactLeave, ControllersRun, RunPc, IInv
<1>6. StateOwned'
  BY DEF CompactFails, Compacting, CompactLeave, StateOwned, RunPc, IInv
<1>7. Stoppable'
  BY DEF CompactFails, CompactLeave, Stoppable, Running, IInv
<1>. QED BY <1>1, <1>2, <1>3, <1>4, <1>5, <1>6, <1>7 DEF IInv

LEMMA CloseArriveStep == ASSUME IInv, NEW c \in Calls, CloseArrive(c) PROVE IInv'
<1>1. TypeOK'
  BY DEF CloseArrive, AbortAll, TypeOK, IInv
<1>2. Places'
  BY DEF CloseArrive, Places, RunPc, IInv
<1>3. SlotServes'
  BY DEF CloseArrive, SlotServes, Serves, RunPc, CompactPc, IInv
<1>4. PredServes'
  BY DEF CloseArrive, PredServes, SlotServes, Serves, RunPc, CompactPc, IInv
<1>5. ControllersRun'
  BY DEF CloseArrive, AbortAll, ControllersRun
<1>6. StateOwned'
  BY DEF CloseArrive, AbortAll, StateOwned, RunPc, CompactPc, IInv
<1>7. Stoppable'
  BY DEF CloseArrive, AbortAll, Stoppable, Running, IInv
<1>. QED BY <1>1, <1>2, <1>3, <1>4, <1>5, <1>6, <1>7 DEF IInv

LEMMA CloseReturnStep == ASSUME IInv, NEW c \in Calls, CloseReturn(c) PROVE IInv'
<1>1. TypeOK'
  BY DEF CloseReturn, TypeOK, IInv
<1>2. Places'
  BY DEF CloseReturn, Places, RunPc, IInv
<1>3. SlotServes'
  BY DEF CloseReturn, SlotServes, Serves, RunPc, CompactPc, IInv
<1>4. PredServes'
  BY DEF CloseReturn, PredServes, Serves, RunPc, CompactPc, IInv
<1>5. ControllersRun'
  BY DEF CloseReturn, ControllersRun, RunPc, IInv
<1>6. StateOwned'
  BY DEF CloseReturn, StateOwned, RunPc, CompactPc, IInv
<1>7. Stoppable'
  BY DEF CloseReturn, Stoppable, Running, IInv
<1>. QED BY <1>1, <1>2, <1>3, <1>4, <1>5, <1>6, <1>7 DEF IInv

LEMMA AbortStep == ASSUME IInv, Abort PROVE IInv'
<1>1. TypeOK'
  BY DEF Abort, AbortAll, TypeOK, IInv
<1>2. Places'
  BY DEF Abort, Places, IInv
<1>3. SlotServes'
  BY DEF Abort, SlotServes, Serves, IInv
<1>4. PredServes'
  BY DEF Abort, PredServes, Serves, IInv
<1>5. ControllersRun'
  BY DEF Abort, AbortAll, ControllersRun
<1>6. StateOwned'
  BY DEF Abort, AbortAll, StateOwned
<1>7. Stoppable'
  BY DEF Abort, AbortAll, Stoppable, Running, IInv
<1>. QED BY <1>1, <1>2, <1>3, <1>4, <1>5, <1>6, <1>7 DEF IInv

-----------------------------------------------------------------------------
LEMMA InitInv == Init => IInv
<1>. SUFFICES ASSUME Init PROVE IInv  OBVIOUS
<1>1. TypeOK  BY DEF Init, TypeOK, Promises, Messages
<1>2. Places /\ SlotServes /\ PredServes
  BY DEF Init, Places, RunPc, SlotServes, PredServes
<1>3. ControllersRun /\ StateOwned  BY DEF Init, ControllersRun, StateOwned
<1>4. Stoppable  BY DEF Init, Stoppable, Running, Calls
<1>. QED BY <1>1, <1>2, <1>3, <1>4 DEF IInv

LEMMA StutterStep == ASSUME IInv, UNCHANGED vars PROVE IInv'
<1>1. TypeOK'  BY DEF IInv, TypeOK, vars
<1>2. Places' /\ SlotServes' /\ PredServes'
  BY DEF IInv, Places, SlotServes, PredServes, Serves, vars
<1>3. ControllersRun' /\ StateOwned'
  BY DEF IInv, ControllersRun, StateOwned, vars
<1>4. Stoppable'  BY DEF IInv, Stoppable, Running, vars
<1>. QED BY <1>1, <1>2, <1>3, <1>4 DEF IInv

LEMMA NextStep == IInv /\ [Next]_vars => IInv'
<1>. SUFFICES ASSUME IInv, [Next]_vars PROVE IInv'  OBVIOUS
<1>1. ASSUME NEW c \in Calls, Begin(c) PROVE IInv'
  BY <1>1, ArriveStep, ArriveWarmupStep, CompactArriveStep, CloseArriveStep DEF Begin
<1>2. ASSUME NEW c \in Calls, Microtask(c) PROVE IInv'
  BY <1>2, ResumeStep, CompactEnterStep, CloseReturnStep, ArriveStep DEF Microtask
<1>3. ASSUME NEW c \in Calls, Answer(c) PROVE IInv'
  <2>1. StoreMessage(c) \/ SaveReply(c) \/ Finish(c) => IInv'
    BY StoreMessageStep, SaveReplyStep, FinishStep
  <2>2. CompactRead(c) \/ CompactArchive(c) \/ CompactPurge(c) \/ CompactFails(c) => IInv'
    BY CompactReadStep, CompactArchiveStep, CompactPurgeStep, CompactFailsStep
  <2>. QED BY <1>3, <2>1, <2>2 DEF Answer
<1>4. CASE Abort  BY <1>4, AbortStep
<1>5. CASE Over \/ UNCHANGED vars  BY <1>5, StutterStep DEF Over
<1>. QED BY <1>1, <1>2, <1>3, <1>4, <1>5 DEF Next, Step

(* The strengthening that carries the four theorems below. *)
THEOREM InductiveInvariant == Spec => []IInv
BY InitInv, NextStep, PTL DEF Spec

(* Type correctness: the slot, the controllers and the state hold only     *)
(* what the calls put there; in particular the agent is never left in a    *)
(* state of its own making when calls end out of order.                    *)
THEOREM TypeCorrect == Spec => []TypeOK
<1>1. IInv => TypeOK  BY DEF IInv
<1>. QED BY <1>1, InductiveInvariant, PTL

(* However many runs, warm-ups and aborts interleave, every run that is    *)
(* under way is stopped or can be: the Set of controllers loses no sibling.*)
THEOREM RunsAreStoppable == Spec => []Stoppable
<1>1. IInv => Stoppable  BY DEF IInv
<1>. QED BY <1>1, InductiveInvariant, PTL

(* When the last call has ended, in whatever order they did, the agent is  *)
(* idle and neither a promise nor a controller is left behind.             *)
THEOREM NothingIsLeft == Spec => []NoResidue
<1>1. IInv => NoResidue
  <2>. SUFFICES ASSUME IInv, \A c \in Calls : pc[c] \in {"out", "done"}
                PROVE  state = "idle" /\ slot = None /\ controllers = {}
    BY DEF NoResidue
  <2>1. slot = None
    BY DEF IInv, TypeOK, Promises, SlotServes, Serves, RunPc, CompactPc
  <2>2. controllers = {}
    BY DEF IInv, TypeOK, ControllersRun, RunPc, Calls
  <2>3. state = "idle"
    BY DEF IInv, TypeOK, StateOwned, RunPc, CompactPc
  <2>. QED BY <2>1, <2>2, <2>3
<1>. QED BY <1>1, InductiveInvariant, PTL

(* Whatever a run, a compaction or an abortAndWait awaits has a resolver   *)
(* that is still under way, although the slot has been overwritten since.  *)
THEOREM PromisesAreServed == Spec => []NobodyAwaitsTheGone
<1>1. IInv => NobodyAwaitsTheGone
  <2>. SUFFICES ASSUME IInv, NEW c \in Calls, ~Released(c)
                PROVE  pc[pred[c].of] \notin {"out", "done"}
    BY DEF NobodyAwaitsTheGone
  <2>1. pred[c] \in Promises /\ Serves(pred[c])
    BY DEF IInv, TypeOK, PredServes, Released
  <2>. QED BY <2>1 DEF Promises, Serves, RunPc, CompactPc
<1>. QED BY <1>1, InductiveInvariant, PTL
=============================================================================
