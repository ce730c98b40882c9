----------------------------- MODULE Thermal_proofs -----------------------------
(***************************************************************************)
(* Proofs about Thermal, for any instances, loops and hold: however a loop *)
(* ends, it leaves no server stopped but those a cancellation made it      *)
(* abandon, and while a loop watches an emergency the frequency is at its  *)
(* minimum and every stopped server is marked.                             *)
(***************************************************************************)
EXTENDS Thermal, TLAPS

(* What the governor owes at every point of its loop. *)
Active(l) == loop[l].pc \notin {"new", "done"}

Alone == \A k, l \in Loop : Active(k) /\ Active(l) => k = l

Debts ==
    /\ (\A l \in Loop : ~Active(l)) => stopped \subseteq abandoned
    /\ \A l \in Loop :
        /\ loop[l].pc = "first" => ~emergency /\ stopped \subseteq abandoned
        /\ loop[l].pc = "asleep" /\ ~emergency => stopped \subseteq abandoned
        /\ loop[l].pc = "asleep" /\ emergency => freq = 0 /\ stopped \subseteq flag
        /\ loop[l].pc = "stopping" => ~emergency
        /\ loop[l].pc = "reducing" => emergency
        /\ loop[l].pc = "continuing" => emergency /\ stopped \subseteq loop[l].targets
        /\ loop[l].pc = "leaving" /\ ~emergency => stopped \subseteq abandoned
        /\ loop[l].pc = "restoring" => stopped \subseteq loop[l].targets

(* Only a server that runs is stopped, and _task is a loop that began.     *)
Sane ==
    /\ stopped \subseteq Live
    /\ task # NoLoop => loop[task].pc # "new"

IInv == TypeOK /\ Sane /\ (~overtaken => Alone /\ Debts)

-----------------------------------------------------------------------------
LEMMA InitInv == Init => IInv
<1>. SUFFICES ASSUME Init PROVE IInv
  OBVIOUS
<1>1. NewLoop \in [pc : LoopPc, targets : SUBSET Inst] /\ NewLoop.pc = "new"
  BY DEF NewLoop, LoopPc
<1>2. /\ loop \in [Loop -> [pc : LoopPc, targets : SUBSET Inst]]
      /\ \A l \in Loop : loop[l].pc = "new"
  BY <1>1 DEF Init
<1>3. TypeOK
  <2>1. 0 \in 0..HoldTicks /\ MaxFreq \in 0..MaxFreq
    BY ThermalAssumption
  <2>. QED BY <1>2, <2>1 DEF Init, TypeOK
<1>4. Sane /\ Alone /\ Debts
  BY <1>2 DEF Init, Sane, Alone, Active, Debts
<1>. QED BY <1>3, <1>4 DEF IInv

LEMMA Resumed ==
    ASSUME TypeOK, NEW l \in Loop, NEW pc \in LoopPc, NEW S \in SUBSET Inst, Resume(l, pc, S)
    PROVE  /\ loop' \in [Loop -> [pc : LoopPc, targets : SUBSET Inst]]
           /\ loop'[l].pc = pc /\ loop'[l].targets = S
           /\ \A k \in Loop \ {l} : loop'[k] = loop[k]
BY DEF Resume, TypeOK

LEMMA StartStep ==
    ASSUME IInv, NEW l \in Loop, Start(l)
    PROVE  IInv'
<1>1. /\ loop' \in [Loop -> [pc : LoopPc, targets : SUBSET Inst]]
      /\ loop'[l].pc = "first" /\ \A k \in Loop \ {l} : loop'[k] = loop[k]
  BY Resumed DEF IInv, Start, LoopPc
<1>2. TypeOK'
  <2>1. overtaken' \in BOOLEAN
    BY DEF Start, IInv, TypeOK
  <2>2. /\ running' = TRUE /\ emergency' = FALSE /\ written' = FALSE /\ lastHot' = FALSE
        /\ since' \in 0..HoldTicks
    BY ThermalAssumption DEF Start
  <2>. QED BY <1>1, <2>1, <2>2 DEF Start, IInv, TypeOK, instVars
<1>3. Sane'
  BY <1>1 DEF Start, IInv, Sane, Live, instVars
<1>4. ASSUME ~overtaken' PROVE Alone' /\ Debts'
  <2>1. ~overtaken /\ \A k \in Loop : ~Active(k)
    BY <1>4 DEF Start, Active, IInv, TypeOK
  <2>2. stopped' \subseteq abandoned' /\ ~emergency'
    BY <2>1 DEF IInv, Debts, Start, instVars
  <2>. QED BY <1>1, <2>1, <2>2 DEF Alone, Debts, Active
<1>. QED BY <1>2, <1>3, <1>4 DEF IInv

LEMMA FirstStep ==
    ASSUME IInv, NEW l \in Loop, First(l)
    PROVE  IInv'
<1>1. /\ loop' \in [Loop -> [pc : LoopPc, targets : SUBSET Inst]]
      /\ loop'[l].pc = "asleep" /\ \A k \in Loop \ {l} : loop'[k] = loop[k]
      /\ loop[l].pc = "first"
  BY Resumed DEF IInv, First, Goto, LoopPc
<1>2. UNCHANGED <<inst, stopped, abandoned, flag, temp, running, emergency, since, cooldown, freq,
                  written, task, lastHot, overtaken>>
  BY DEF First, Goto, instVars, ctlVars, hwVars
<1>3. TypeOK'
  BY <1>1, <1>2 DEF IInv, TypeOK
<1>4. Sane'
  BY <1>1, <1>2 DEF IInv, Sane, Live, TypeOK
<1>5. ~overtaken' => Alone' /\ Debts'
  BY <1>1, <1>2 DEF IInv, Alone, Debts, Active
<1>. QED BY <1>3, <1>4, <1>5 DEF IInv

(* A loop that is cancelled in its sleep or its resume leaves; one that is *)
(* cancelled while it signals abandons what is stopped.                    *)
LEMMA StopStep ==
    ASSUME IInv, Stop
    PROVE  IInv'
<1>1. /\ UNCHANGED <<inst, flag, temp, emergency, since, cooldown, freq, written, lastHot, overtaken>>
      /\ running' = FALSE /\ task' = NoLoop
  BY DEF Stop, hwVars
<1>2. CASE task = NoLoop /\ UNCHANGED <<loop, stopped, abandoned>>
  <2>1. TypeOK'
    BY <1>1, <1>2 DEF IInv, TypeOK
  <2>2. Sane' /\ (~overtaken' => Alone' /\ Debts')
    BY <1>1, <1>2 DEF IInv, Sane, Live, Alone, Debts, Active
  <2>. QED BY <2>1, <2>2 DEF IInv
<1>3. CASE task # NoLoop /\ Resume(task, CancelledAt(loop[task].pc), {})
  <2>. DEFINE pc == loop[task].pc
              next == CancelledAt(pc)
  <2>1. task \in Loop /\ pc \in LoopPc /\ pc # "new"
    BY <1>3 DEF IInv, TypeOK, Sane
  <2>2. /\ pc \in {"first", "restoring", "done"} => next = "done"
        /\ pc \notin {"first", "restoring", "done"} => next = "leaving"
    BY DEF CancelledAt
  <2>3. /\ loop' \in [Loop -> [pc : LoopPc, targets : SUBSET Inst]]
        /\ loop'[task].pc = next /\ \A k \in Loop \ {task} : loop'[k] = loop[k]
    <3>1. next \in LoopPc
      BY <2>2 DEF LoopPc
    <3>. QED BY <1>3, <2>1, <3>1, Resumed DEF IInv
  <2>4. /\ pc \in {"stopping", "restoring"} => stopped' \subseteq Live /\ abandoned' = stopped'
        /\ pc \notin {"stopping", "restoring"} => UNCHANGED <<stopped, abandoned>>
    <3>1. CASE pc = "stopping"
      <4>1. PICK S \in SUBSET Live : stopped' = stopped \cup S /\ abandoned' = stopped'
        BY <1>3, <3>1 DEF Stop
      <4>. QED BY <3>1, <4>1 DEF IInv, Sane
    <3>2. CASE pc = "restoring"
      <4>1. PICK S \in SUBSET Live : stopped' = stopped \ S /\ abandoned' = stopped'
        BY <1>3, <3>2 DEF Stop
      <4>. QED BY <3>2, <4>1 DEF IInv, Sane
    <3>3. CASE pc \notin {"stopping", "restoring"}
      BY <1>3, <3>3 DEF Stop
    <3>. QED BY <3>1, <3>2, <3>3
  <2>. HIDE DEF next
  <2>5. Live \subseteq Inst /\ stopped' \subseteq Live
    BY <2>4 DEF Live, IInv, Sane
  <2>6. TypeOK'
    <3>1. running' \in BOOLEAN /\ abandoned' \subseteq Inst
      BY <1>1, <2>4, <2>5 DEF IInv, TypeOK
    <3>. QED BY <1>1, <2>3, <2>5, <3>1 DEF IInv, TypeOK
  <2>7. Sane'
    BY <1>1, <2>5 DEF Sane, Live
  <2>8. ASSUME ~overtaken' PROVE Alone' /\ Debts'
    <3>1. ~overtaken /\ Alone /\ Debts
      BY <1>1, <2>8 DEF IInv
    <3>2. Alone'
      BY <2>1, <2>2, <2>3, <3>1 DEF Alone, Active
    <3>3. (\A l \in Loop : ~Active(l))' => stopped' \subseteq abandoned'
      <4>1. CASE pc = "done"
        <5>1. UNCHANGED <<stopped, abandoned>>
          BY <2>4, <4>1
        <5>. QED BY <2>1, <2>2, <2>3, <3>1, <4>1, <5>1 DEF Debts, Active
      <4>2. CASE pc = "first"
        BY <2>1, <2>4, <3>1, <4>2 DEF Debts
      <4>3. CASE pc = "restoring"
        BY <2>4, <4>3
      <4>4. CASE pc \notin {"first", "restoring", "done"}
        BY <2>1, <2>2, <2>3, <4>4 DEF Active
      <4>. QED BY <4>1, <4>2, <4>3, <4>4
    <3>4. next = "leaving" /\ ~emergency => stopped' \subseteq abandoned'
      <4>1. CASE pc = "stopping"
        BY <2>4, <4>1
      <4>2. CASE pc # "stopping"
        BY <2>1, <2>2, <2>4, <3>1, <4>2 DEF Debts, LoopPc
      <4>. QED BY <4>1, <4>2
    <3>5. ASSUME NEW l \in Loop \ {task}
          PROVE  loop'[l] = loop[l] /\ (Active(l) => pc = "done")
      BY <2>1, <2>3, <3>1, <3>5 DEF Alone, Active
    <3>6. pc = "done" => UNCHANGED <<stopped, abandoned>>
      BY <2>4
    <3>7. CASE pc = "done"
      <4>1. loop'[task].pc = "done" /\ UNCHANGED <<stopped, abandoned, flag, emergency, freq>>
        BY <1>1, <2>2, <2>3, <3>6, <3>7
      <4>. QED BY <2>1, <3>1, <3>2, <3>3, <3>5, <4>1 DEF Debts
    <3>8. CASE pc # "done"
      <4>1. \A l \in Loop \ {task} : loop'[l].pc \in {"new", "done"}
        BY <3>5, <3>8 DEF Active
      <4>2. loop'[task].pc \in {"done", "leaving"}
        BY <2>2, <2>3
      <4>3. \A l \in Loop : loop'[l].pc \in {"new", "done"} \/ l = task
        BY <4>1
      <4>. QED BY <1>1, <2>3, <3>2, <3>3, <3>4, <4>2, <4>3 DEF Debts
    <3>. QED BY <3>7, <3>8
  <2>. QED BY <2>6, <2>7, <2>8 DEF IInv
<1>. QED BY <1>2, <1>3 DEF Stop

(* The steps of a loop that goes on: what it has to do is all there is. *)
LEMMA LoopMoves ==
    ASSUME IInv, NEW l \in Loop, Active(l), NEW pc \in LoopPc \ {"new"},
           NEW S \in SUBSET Inst, Goto(l, pc, S), TypeOK', stopped' \subseteq Live,
           UNCHANGED <<inst, overtaken>>,
           pc \notin {"first", "leaving"},
           ~overtaken =>
                   /\ pc = "asleep" /\ emergency' => freq' = 0 /\ stopped' \subseteq flag'
                   /\ pc = "asleep" /\ ~emergency' => stopped' \subseteq abandoned'
                   /\ pc = "stopping" => ~emergency'
                   /\ pc = "reducing" => emergency'
                   /\ pc = "continuing" => emergency' /\ stopped' \subseteq S
                   /\ pc = "restoring" => stopped' \subseteq S
                   /\ pc = "done" => stopped' \subseteq abandoned'
    PROVE  IInv'
<1>1. /\ loop' \in [Loop -> [pc : LoopPc, targets : SUBSET Inst]]
      /\ loop'[l].pc = pc /\ loop'[l].targets = S
      /\ \A k \in Loop \ {l} : loop'[k] = loop[k]
      /\ UNCHANGED task
  BY Resumed DEF IInv, Goto
<1>2. Sane'
  BY <1>1 DEF IInv, Sane, Live, TypeOK
<1>3. ASSUME ~overtaken' PROVE Alone' /\ Debts'
  <2>1. ~overtaken /\ Alone /\ \A k \in Loop \ {l} : loop[k].pc \in {"new", "done"}
    BY <1>3 DEF IInv, Alone, Active
  <2>2. Alone'
    BY <1>1, <2>1 DEF Alone, Active
  <2>3. (\A k \in Loop : ~Active(k))' => stopped' \subseteq abandoned'
    BY <1>1, <2>1 DEF Active
  <2>4. ASSUME NEW k \in Loop
        PROVE  /\ loop'[k].pc = "first" => ~emergency' /\ stopped' \subseteq abandoned'
               /\ loop'[k].pc = "asleep" /\ ~emergency' => stopped' \subseteq abandoned'
               /\ loop'[k].pc = "asleep" /\ emergency' => freq' = 0 /\ stopped' \subseteq flag'
               /\ loop'[k].pc = "stopping" => ~emergency'
               /\ loop'[k].pc = "reducing" => emergency'
               /\ loop'[k].pc = "continuing" => emergency' /\ stopped' \subseteq loop'[k].targets
               /\ loop'[k].pc = "leaving" /\ ~emergency' => stopped' \subseteq abandoned'
               /\ loop'[k].pc = "restoring" => stopped' \subseteq loop'[k].targets
    <3>1. CASE k # l
      BY <1>1, <2>1, <3>1
    <3>2. CASE k = l
      BY <1>1, <2>1, <3>2
    <3>. QED BY <3>1, <3>2
  <2>. QED BY <2>2, <2>3, <2>4 DEF Debts
<1>. QED BY <1>2, <1>3 DEF IInv

LEMMA BeginEmergencyStep ==
    ASSUME IInv, NEW l \in Loop, BeginEmergency(l)
    PROVE  IInv'
<1>1. PICK S \in SUBSET Live : Goto(l, "stopping", Live \ S) /\ SigStop(S)
  BY DEF BeginEmergency, Signal
<1>2. /\ UNCHANGED <<inst, flag, temp, running, emergency, since, cooldown, freq, written, overtaken>>
      /\ lastHot' = TRUE /\ ~emergency /\ loop[l].pc = "asleep"
  BY DEF BeginEmergency, Saw, ctlVars, hwVars
<1>3. /\ Live \subseteq Inst /\ "stopping" \in LoopPc /\ stopped' \subseteq Live
      /\ abandoned' \subseteq abandoned
  BY <1>1 DEF Live, LoopPc, IInv, Sane, SigStop
<1>4. TypeOK'
  <2>1. loop' \in [Loop -> [pc : LoopPc, targets : SUBSET Inst]] /\ UNCHANGED task
    BY <1>1, <1>3, Resumed DEF Goto, IInv
  <2>. QED BY <1>1, <1>2, <1>3, <2>1 DEF IInv, TypeOK
<1>. QED BY <1>1, <1>2, <1>3, <1>4, LoopMoves DEF Active

LEMMA EndEmergencyStep ==
    ASSUME IInv, NEW l \in Loop, EndEmergency(l)
    PROVE  IInv'
<1>1. PICK S \in SUBSET Live : SigStop(Reached(l, S))
  BY DEF EndEmergency
<1>2. /\ UNCHANGED <<inst, temp, running, since, cooldown, lastHot, overtaken>>
      /\ flag' = {i \in Inst : inst[i] # "none"}
      /\ emergency' = TRUE /\ freq' = 0 /\ written' = TRUE
      /\ Goto(l, "asleep", {}) /\ loop[l].pc = "stopping"
  BY DEF EndEmergency
<1>3. /\ "asleep" \in LoopPc \ {"new"} /\ {} \in SUBSET Inst /\ stopped' \subseteq Live /\ Live \subseteq flag'
      /\ Live \subseteq Inst /\ abandoned' \subseteq abandoned
  BY <1>1, <1>2 DEF LoopPc, IInv, Sane, Reached, Live, SigStop
<1>4. TypeOK'
  <2>1. loop' \in [Loop -> [pc : LoopPc, targets : SUBSET Inst]] /\ UNCHANGED task
    BY <1>2, <1>3, Resumed DEF Goto, IInv
  <2>2. 0 \in 0..MaxFreq
    BY ThermalAssumption
  <2>. QED BY <1>2, <1>3, <2>1, <2>2 DEF IInv, TypeOK
<1>. QED BY <1>2, <1>3, <1>4, LoopMoves DEF Active

LEMMA ApplyFreqIs ==
    ASSUME TypeOK, NEW target \in 0..MaxFreq, ApplyFreq(target)
    PROVE  freq' \in 0..MaxFreq /\ written' = TRUE
BY ThermalAssumption DEF TypeOK, ApplyFreq

LEMMA TickStep ==
    ASSUME IInv, NEW l \in Loop, Tick(l)
    PROVE  IInv'
<1>1. /\ UNCHANGED <<inst, stopped, abandoned, flag, temp, running, emergency, cooldown, loop,
                     task, overtaken>>
      /\ ~emergency /\ loop[l].pc = "asleep" /\ lastHot' = (temp = "hot")
  BY DEF Tick, Saw, instVars, taskVars
<1>2. TypeOK'
  <2>1. freq' \in 0..MaxFreq /\ written' \in BOOLEAN
    BY ApplyFreqIs DEF Tick, IInv, TypeOK
  <2>2. since' \in 0..HoldTicks
    BY ThermalAssumption DEF Tick, Age, IInv, TypeOK
  <2>3. lastHot' \in BOOLEAN
    BY <1>1
  <2>. QED BY <1>1, <2>1, <2>2, <2>3 DEF IInv, TypeOK
<1>3. Sane'
  BY <1>1 DEF IInv, Sane, Live
<1>4. ~overtaken' => Alone' /\ Debts'
  BY <1>1 DEF IInv, Alone, Debts, Active
<1>. QED BY <1>2, <1>3, <1>4 DEF IInv

LEMMA StayStoppedStep ==
    ASSUME IInv, NEW l \in Loop, StayStopped(l)
    PROVE  IInv'
<1>1. /\ UNCHANGED <<inst, stopped, abandoned, flag, temp, running, emergency, since, cooldown, freq,
                     written, loop, task, overtaken>>
      /\ lastHot' \in BOOLEAN
  BY DEF StayStopped, Saw, instVars, ctlVars, hwVars, taskVars
<1>2. TypeOK'
  BY <1>1 DEF IInv, TypeOK
<1>. QED BY <1>1, <1>2 DEF IInv, Sane, Live, Alone, Debts, Active

(* The finally block: an emergency leaves servers to continue, all of them *)
(* on the list; otherwise none is stopped but the abandoned.               *)
LEMMA FinallyStep ==
    ASSUME IInv, NEW l \in Loop, loop[l].pc \in {"asleep", "leaving"}, Finally(l),
           lastHot' \in BOOLEAN, UNCHANGED <<inst, temp, ctlVars, overtaken>>
    PROVE  IInv'
<1>0. /\ UNCHANGED <<inst, temp, running, emergency, since, cooldown, overtaken>>
      /\ Live \subseteq Inst /\ stopped \subseteq Live
  BY DEF ctlVars, Live, IInv, Sane
<1>1. CASE /\ emergency
           /\ \E S \in SUBSET Live : Signal(l, "restoring", S) /\ SigCont(S)
           /\ UNCHANGED <<flag, freq, written>>
  <2>1. PICK S \in SUBSET Live : Goto(l, "restoring", Live \ S) /\ SigCont(S)
    BY <1>1 DEF Signal
  <2>2. "restoring" \in LoopPc /\ stopped' \subseteq Live \ S /\ abandoned' \subseteq abandoned
    BY <1>0, <2>1 DEF LoopPc, SigCont
  <2>3. TypeOK'
    <3>1. loop' \in [Loop -> [pc : LoopPc, targets : SUBSET Inst]] /\ UNCHANGED task
      BY <1>0, <2>1, <2>2, Resumed DEF Goto, IInv
    <3>. QED BY <1>0, <1>1, <2>2, <3>1 DEF IInv, TypeOK
  <2>. QED BY <1>0, <2>1, <2>2, <2>3, LoopMoves DEF Active
<1>2. CASE /\ ~emergency /\ freq' = MaxFreq /\ written' = FALSE
           /\ Goto(l, "done", {}) /\ UNCHANGED <<stopped, abandoned, flag>>
  <2>1. ~overtaken => stopped \subseteq abandoned
    BY <1>2 DEF IInv, Debts
  <2>2. "done" \in LoopPc \ {"new"} /\ {} \in SUBSET Inst
    BY DEF LoopPc
  <2>3. TypeOK'
    <3>1. loop' \in [Loop -> [pc : LoopPc, targets : SUBSET Inst]] /\ UNCHANGED task
      BY <1>2, <2>2, Resumed DEF Goto, IInv
    <3>2. MaxFreq \in 0..MaxFreq
      BY ThermalAssumption
    <3>. QED BY <1>0, <1>2, <3>1, <3>2 DEF IInv, TypeOK
  <2>. QED BY <1>0, <1>2, <2>1, <2>2, <2>3, LoopMoves DEF Active
<1>. QED BY <1>1, <1>2 DEF Finally

LEMMA BeginResumeStep ==
    ASSUME IInv, NEW l \in Loop, BeginResume(l)
    PROVE  IInv'
<1>1. /\ UNCHANGED <<inst, temp, running, emergency, since, cooldown, overtaken>>
      /\ emergency /\ loop[l].pc = "asleep" /\ lastHot' = FALSE
  BY DEF BeginResume, Saw, ctlVars
<1>2. CASE Goto(l, "reducing", {}) /\ UNCHANGED <<stopped, abandoned, flag, freq, written>>
  <2>1. "reducing" \in LoopPc \ {"new"} /\ {} \in SUBSET Inst /\ stopped' \subseteq Live
    BY <1>2 DEF LoopPc, IInv, Sane
  <2>2. TypeOK'
    <3>1. loop' \in [Loop -> [pc : LoopPc, targets : SUBSET Inst]] /\ UNCHANGED task
      BY <1>2, <2>1, Resumed DEF Goto, IInv
    <3>. QED BY <1>1, <1>2, <3>1 DEF IInv, TypeOK
  <2>3. emergency'
    BY <1>1
  <2>. QED BY <1>1, <1>2, <2>1, <2>2, <2>3, LoopMoves DEF Active
<1>3. CASE Finally(l)
  BY <1>1, <1>3, FinallyStep DEF ctlVars
<1>. QED BY <1>2, <1>3 DEF BeginResume

LEMMA PowerReducedStep ==
    ASSUME IInv, NEW l \in Loop, PowerReduced(l)
    PROVE  IInv'
<1>1. PICK S \in SUBSET Live : Goto(l, "continuing", Live \ S) /\ SigCont(S)
  BY DEF PowerReduced, Signal
<1>2. /\ UNCHANGED <<inst, flag, temp, running, emergency, since, cooldown, freq, written,
                     lastHot, overtaken>>
      /\ loop[l].pc = "reducing" /\ (~overtaken => emergency)
  BY DEF PowerReduced, ctlVars, IInv, Debts
<1>3. /\ "continuing" \in LoopPc /\ stopped' \subseteq Live \ S /\ Live \subseteq Inst
      /\ abandoned' \subseteq abandoned
  BY <1>1 DEF LoopPc, IInv, Sane, Live, SigCont
<1>4. TypeOK'
  <2>1. loop' \in [Loop -> [pc : LoopPc, targets : SUBSET Inst]] /\ UNCHANGED task
    BY <1>1, <1>3, Resumed DEF Goto, IInv
  <2>. QED BY <1>2, <1>3, <2>1 DEF IInv, TypeOK
<1>. QED BY <1>1, <1>2, <1>3, <1>4, LoopMoves DEF Active

(* The rest of a list holds every server that is still stopped. *)
LEMMA EndResumeStep ==
    ASSUME IInv, NEW l \in Loop, EndResume(l)
    PROVE  IInv'
<1>1. PICK S \in SUBSET Live : SigCont(Reached(l, S))
  BY DEF EndResume
<1>2. /\ UNCHANGED <<inst, temp, running, since, freq, written, lastHot, overtaken>>
      /\ flag' = flag \ Live /\ emergency' = FALSE /\ cooldown' = TRUE
      /\ Goto(l, "asleep", {}) /\ loop[l].pc = "continuing"
  BY DEF EndResume, Unmark
<1>3. /\ "asleep" \in LoopPc \ {"new"} /\ {} \in SUBSET Inst /\ stopped' \subseteq Live
      /\ ~overtaken => stopped' = {}
      /\ abandoned' \subseteq abandoned
  BY <1>1, <1>2 DEF LoopPc, IInv, Sane, Debts, Reached, SigCont
<1>4. TypeOK'
  <2>1. loop' \in [Loop -> [pc : LoopPc, targets : SUBSET Inst]] /\ UNCHANGED task
    BY <1>2, <1>3, Resumed DEF Goto, IInv
  <2>2. Live \subseteq Inst
    BY DEF Live
  <2>. QED BY <1>2, <1>3, <2>1, <2>2 DEF IInv, TypeOK
<1>. QED BY <1>2, <1>3, <1>4, LoopMoves DEF Active

LEMMA RestoreStep ==
    ASSUME IInv, NEW l \in Loop, Restore(l)
    PROVE  IInv'
<1>1. PICK S \in SUBSET Live : SigCont(Reached(l, S))
  BY DEF Restore
<1>2. /\ UNCHANGED <<inst, temp, running, emergency, since, cooldown, lastHot, overtaken>>
      /\ flag' = flag \ Live /\ freq' = MaxFreq /\ written' = FALSE
      /\ Goto(l, "done", {}) /\ loop[l].pc = "restoring"
  BY DEF Restore, Unmark, ctlVars
<1>3. /\ "done" \in LoopPc \ {"new"} /\ {} \in SUBSET Inst /\ stopped' \subseteq Live
      /\ ~overtaken => stopped' = {}
      /\ abandoned' \subseteq abandoned
  BY <1>1, <1>2 DEF LoopPc, IInv, Sane, Debts, Reached, SigCont
<1>4. TypeOK'
  <2>1. loop' \in [Loop -> [pc : LoopPc, targets : SUBSET Inst]] /\ UNCHANGED task
    BY <1>2, <1>3, Resumed DEF Goto, IInv
  <2>2. MaxFreq \in 0..MaxFreq /\ Live \subseteq Inst
    BY ThermalAssumption DEF Live
  <2>. QED BY <1>2, <1>3, <2>1, <2>2 DEF IInv, TypeOK
<1>. QED BY <1>2, <1>3, <1>4, LoopMoves DEF Active

LEMMA LeaveStep ==
    ASSUME IInv, NEW l \in Loop, Leave(l)
    PROVE  IInv'
<1>1. lastHot' \in BOOLEAN
  BY DEF Leave, IInv, TypeOK
<1>. QED BY <1>1, FinallyStep DEF Leave

-----------------------------------------------------------------------------
(* The model manager and the machine: a server that goes is not stopped    *)
(* any more, and one that comes runs.                                      *)
LEMMA ServersStep ==
    ASSUME IInv, NEW i \in Inst, Load(i) \/ Die(i) \/ Unload(i)
    PROVE  IInv'
<1>1. UNCHANGED <<temp, running, emergency, since, cooldown, freq, written, loop,
                  task, lastHot, overtaken>>
  BY DEF Load, Die, Unload, ctlVars, hwVars, taskVars
<1>2. /\ inst' \in [Inst -> {"none", "running", "dead"}] /\ flag' \subseteq Inst
      /\ stopped' \subseteq stopped /\ stopped' \subseteq Live' /\ abandoned' \subseteq abandoned
      /\ stopped \subseteq flag => stopped' \subseteq flag'
      /\ stopped \subseteq abandoned => stopped' \subseteq abandoned'
  BY DEF Load, Die, Unload, SigCont, IInv, TypeOK, Sane, Live
<1>3. TypeOK'
  BY <1>1, <1>2 DEF IInv, TypeOK
<1>4. Sane'
  BY <1>1, <1>2 DEF IInv, Sane
<1>5. ~overtaken' => Alone' /\ Debts'
  BY <1>1, <1>2 DEF IInv, Alone, Debts, Active
<1>. QED BY <1>3, <1>4, <1>5 DEF IInv

LEMMA MachineStep ==
    ASSUME IInv, Weather \/ CooldownEnds
    PROVE  IInv'
<1>1. UNCHANGED <<inst, stopped, abandoned, flag, running, emergency, since, freq, written, loop,
                  task, lastHot, overtaken>>
  BY DEF Weather, CooldownEnds, instVars, ctlVars, hwVars, taskVars
<1>2. temp' \in {"cool", "warm", "hot"} /\ cooldown' \in BOOLEAN
  BY DEF Weather, CooldownEnds, ctlVars, IInv, TypeOK
<1>3. TypeOK'
  BY <1>1, <1>2 DEF IInv, TypeOK
<1>. QED BY <1>1, <1>3 DEF IInv, Sane, Live, Alone, Debts, Active

LEMMA StutterStep == IInv /\ UNCHANGED vars => IInv'
<1>. SUFFICES ASSUME IInv, UNCHANGED vars PROVE IInv'
  OBVIOUS
<1>1. TypeOK'
  BY DEF vars, instVars, ctlVars, hwVars, taskVars, IInv, TypeOK
<1>. QED BY <1>1 DEF vars, instVars, ctlVars, hwVars, taskVars, IInv, Sane, Live, Alone, Debts, Active

LEMMA NextStep == IInv /\ Next => IInv'
BY StartStep, FirstStep, StopStep, BeginEmergencyStep, EndEmergencyStep, TickStep, StayStoppedStep,
   BeginResumeStep, PowerReducedStep, EndResumeStep, RestoreStep, LeaveStep, ServersStep,
   MachineStep
   DEF Next, LoopStep

(* The inductive invariant: what a loop owes at each of its points. *)
THEOREM InductiveInvariant == Spec => []IInv
BY InitInv, NextStep, StutterStep, PTL DEF Spec

(* Every variable keeps its type: a frequency that moves by steps stays in *)
(* its range, and lists of targets hold instances.                         *)
THEOREM TypeCorrect == Spec => []TypeOK
<1>1. IInv => TypeOK
  BY DEF IInv
<1>. QED BY <1>1, InductiveInvariant, PTL

(* Unless a loop watches an emergency, or was overtaken, no server is      *)
(* stopped but those abandoned by a cancellation amid SIGSTOPs, or amid    *)
(* the SIGCONTs of a finally block: a resume, any other stop and a crash   *)
(* of the loop continue what it stopped.                                   *)
THEOREM NoneIsLeftStopped == Spec => []NoneLeftStopped
<1>1. IInv => NoneLeftStopped
  BY DEF IInv, Debts, Active, NoneLeftStopped, AtRest, Watching
<1>. QED BY <1>1, InductiveInvariant, PTL

(* A watched emergency has the frequency at its minimum and every stopped  *)
(* server marked.                                                          *)
THEOREM EmergencyIsHeld == Spec => []EmergencyHolds
<1>1. IInv => EmergencyHolds
  BY DEF IInv, Debts, EmergencyHolds, AtRest, Watching
<1>. QED BY <1>1, InductiveInvariant, PTL

====
