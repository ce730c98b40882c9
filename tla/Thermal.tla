------------------------------ MODULE Thermal ------------------------------
(***************************************************************************)
(* BRAIN-DAEMON's thermal governor (thermal/controller.py): a loop that    *)
(* reads the temperature every second, lowers the CPU frequency, stops the *)
(* model servers with SIGSTOP in an emergency and continues them when the  *)
(* machine is cool.  The power limits, which nothing here reads, and the   *)
(* task that raises them again are left out.                               *)
(*                                                                         *)
(* A step is the code between two suspension points.  Writing the CPU      *)
(* frequency or the GPU level does not suspend; signalling a server in a   *)
(* toolbox and calling ryzenadj do.  stop() cancels the loop at the await  *)
(* it is in, and its finally block runs beside a loop started meanwhile.   *)
(* The temperature is arbitrary, and so is the frequency the smoothed      *)
(* temperature asks for.                                                   *)
(***************************************************************************)
EXTENDS Naturals, FiniteSets

CONSTANTS
    Inst,       \* model instances
    HoldTicks,  \* T_EMERGENCY_HOLD / INTERVAL
    MaxFreq,    \* CPU_MAX_FREQ, in steps of FREQ_MAX_STEP above CPU_MIN_FREQ
    Loop,       \* bound of the model: one per call of start() that starts a loop
    NoLoop      \* None, for _task

ASSUME ThermalAssumption ==
    /\ HoldTicks \in Nat \ {0} /\ MaxFreq \in Nat \ {0}
    /\ NoLoop \notin Loop

VARIABLES
    inst,       \* state of every instance; "none": not in manager.instances
    stopped,    \* history of the signals: instances whose process is stopped
    flag,       \* thermal_stopped of every instance
    temp,       \* "cool" < T_RESUME <= "warm" < T_EMERGENCY <= "hot"
    running,    \* _running
    emergency,  \* _emergency
    since,      \* ticks since _emergency_since, at most HoldTicks; 0: not set
    cooldown,   \* now - _last_resume_ts < COOLDOWN
    freq,       \* the CPU frequency
    written,    \* _last_written_freq is set (not 0)
    loop,       \* where every _run task is, and the instances it signals
    task,       \* _task
    lastHot,    \* history: the last reading of the loop was hot
    abandoned,  \* history: stopped servers whose loop was cancelled while it sent
                \* SIGSTOP, or SIGCONT in its finally block
    overtaken   \* history: a loop was started before another had ended

instVars == <<inst, stopped, flag, abandoned>>
hwVars == <<freq, written>>
ctlVars == <<running, emergency, since, cooldown>>
taskVars == <<loop, task>>
vars == <<instVars, temp, ctlVars, hwVars, taskVars, lastHot, overtaken>>

LoopPc == {"new", "first", "asleep", "stopping", "reducing", "continuing", "leaving", "restoring", "done"}

TypeOK ==
    /\ inst \in [Inst -> {"none", "running", "dead"}]
    /\ stopped \subseteq Inst /\ abandoned \subseteq Inst
    /\ flag \subseteq Inst
    /\ temp \in {"cool", "warm", "hot"}
    /\ running \in BOOLEAN /\ emergency \in BOOLEAN /\ cooldown \in BOOLEAN
    /\ since \in 0..HoldTicks
    /\ freq \in 0..MaxFreq /\ written \in BOOLEAN
    /\ loop \in [Loop -> [pc : LoopPc, targets : SUBSET Inst]]
    /\ task \in Loop \cup {NoLoop}
    /\ lastHot \in BOOLEAN
    /\ overtaken \in BOOLEAN

NewLoop == [pc |-> "new", targets |-> {}]

Init ==
    /\ inst = [i \in Inst |-> "none"]
    /\ stopped = {} /\ abandoned = {} /\ flag = {}
    /\ temp = "cool"
    /\ running = FALSE /\ emergency = FALSE /\ since = 0 /\ cooldown = FALSE
    /\ freq = MaxFreq /\ written = FALSE
    /\ loop = [l \in Loop |-> NewLoop]
    /\ task = NoLoop
    /\ lastHot = FALSE /\ overtaken = FALSE

(* What SIGSTOP and SIGCONT do to the processes of S. *)
SigStop(S) == stopped' = stopped \cup S /\ abandoned' = abandoned \ S
SigCont(S) == stopped' = stopped \ S /\ abandoned' = abandoned \ S

Resume(l, pc, targets) == loop' = [loop EXCEPT ![l] = [pc |-> pc, targets |-> targets]]
Goto(l, pc, targets) == Resume(l, pc, targets) /\ UNCHANGED task
Live == {i \in Inst : inst[i] = "running"}

-----------------------------------------------------------------------------
(* start() and stop() *)

Start(l) ==
    /\ ~running /\ loop[l].pc = "new"
    /\ running' = TRUE /\ emergency' = FALSE /\ since' = 0 /\ written' = FALSE
    /\ Resume(l, "first", {}) /\ task' = l
    /\ overtaken' = (overtaken \/ \E k \in Loop : loop[k].pc \notin {"new", "done"})
    /\ lastHot' = FALSE
    /\ UNCHANGED <<instVars, temp, cooldown, freq>>

(* A new task runs up to its first sleep: the GPU level is set. *)
First(l) ==
    /\ loop[l].pc = "first"
    /\ Goto(l, "asleep", {})
    /\ UNCHANGED <<instVars, temp, ctlVars, hwVars, lastHot, overtaken>>

(* task.cancel() takes effect at the await the task is in.  In the try     *)
(* block the finally block follows; in the finally block (of a loop that   *)
(* crashed) the rest of it is skipped; a task that never ran is gone.      *)
CancelledAt(pc) ==
    CASE pc \in {"first", "restoring", "done"} -> "done"
      [] OTHER -> "leaving"

(* The toolbox command under way is not killed with the task, so its pkill *)
(* still reaches servers (S).  Of an emergency the loop has not recorded    *)
(* yet the finally block knows nothing.                                     *)
Stop ==
    /\ running
    /\ running' = FALSE /\ task' = NoLoop
    /\ \/ task = NoLoop /\ UNCHANGED <<loop, stopped, abandoned>>
       \/ /\ task # NoLoop
          /\ Resume(task, CancelledAt(loop[task].pc), {})
          /\ CASE loop[task].pc = "stopping" ->
                    \E S \in SUBSET Live : stopped' = stopped \cup S /\ abandoned' = stopped'
               [] loop[task].pc = "restoring" ->
                    \E S \in SUBSET Live : stopped' = stopped \ S /\ abandoned' = stopped'
               [] OTHER -> UNCHANGED <<stopped, abandoned>>
    /\ UNCHANGED <<inst, flag, temp, emergency, since, cooldown, hwVars, lastHot, overtaken>>

-----------------------------------------------------------------------------
(* _signal_llama *)

(* The instances signalled at once: those before the first toolbox of the  *)
(* list, and that one.  The others follow after its await.                 *)
Signal(l, pc, S) ==
    /\ S \subseteq Live
    /\ (S = {} => Live = {})
    /\ Goto(l, pc, Live \ S)

(* The rest of the list is signalled.  pkill -f llama-server in a toolbox   *)
(* also reaches servers (S) that joined the registry after the list was     *)
(* made.                                                                    *)
Reached(l, S) == (loop[l].targets \cup S) \cap Live

-----------------------------------------------------------------------------
(* _run *)

Age == IF since = 0 \/ since = HoldTicks THEN since ELSE since + 1
Saw(hot) == lastHot' = hot

(* temp >= T_EMERGENCY, and _emergency_since is T_EMERGENCY_HOLD old. *)
EmergencyDue == temp = "hot" /\ since = HoldTicks

(* _do_emergency up to its first await. *)
BeginEmergency(l) ==
    /\ loop[l].pc = "asleep" /\ running /\ ~emergency /\ EmergencyDue
    /\ \E S \in SUBSET Live : Signal(l, "stopping", S) /\ SigStop(S)
    /\ Saw(TRUE)
    /\ UNCHANGED <<inst, flag, temp, ctlVars, hwVars, overtaken>>

(* The loop does not lower the frequency: EmergencyHolds. *)
EndEmergency_F(l) ==
    /\ loop[l].pc = "stopping"
    /\ \E S \in SUBSET Live : SigStop(Reached(l, S))
    /\ flag' = {i \in Inst : inst[i] # "none"}
    /\ emergency' = TRUE
    /\ Goto(l, "asleep", {})
    /\ UNCHANGED <<inst, temp, running, since, cooldown, freq, written, lastHot, overtaken>>

(* The rest of _do_emergency: every instance of the registry is marked. *)
EndEmergency(l) ==
    /\ loop[l].pc = "stopping"
    /\ \E S \in SUBSET Live : SigStop(Reached(l, S))
    /\ flag' = {i \in Inst : inst[i] # "none"}
    /\ emergency' = TRUE
    /\ freq' = 0 /\ written' = TRUE
    /\ Goto(l, "asleep", {})
    /\ UNCHANGED <<inst, temp, running, since, cooldown, lastHot, overtaken>>

(* _apply_freq without force: the first write goes straight to the target, *)
(* the later ones at most one step towards it.                             *)
ApplyFreq(target) ==
    /\ written' = TRUE
    /\ freq' = CASE ~written -> target
                 [] written /\ target > freq -> freq + 1
                 [] written /\ target < freq -> freq - 1
                 [] written /\ target = freq -> freq

(* A tick outside an emergency: the counter, and unless the last resume is *)
(* recent the frequency moves towards its target, at most one step.        *)
Tick(l) ==
    /\ loop[l].pc = "asleep" /\ running /\ ~emergency /\ ~EmergencyDue
    /\ since' = IF temp # "hot" THEN 0 ELSE IF since = 0 THEN 1 ELSE Age
    /\ Saw(temp = "hot")
    /\ \/ cooldown /\ UNCHANGED <<freq, written>>
       \/ ~cooldown /\ \E target \in 0..MaxFreq : ApplyFreq(target)
    /\ UNCHANGED <<instVars, temp, running, emergency, cooldown, taskVars, overtaken>>

(* A tick of an emergency: too warm to resume. *)
StayStopped(l) ==
    /\ loop[l].pc = "asleep" /\ running /\ emergency /\ temp # "cool"
    /\ Saw(temp = "hot")
    /\ UNCHANGED <<instVars, temp, ctlVars, hwVars, taskVars, overtaken>>

(* ryzenadj has lowered the limits, SIGCONT goes out. *)
PowerReduced(l) ==
    /\ loop[l].pc = "reducing"
    /\ \E S \in SUBSET Live : Signal(l, "continuing", S) /\ SigCont(S)
    /\ UNCHANGED <<inst, flag, temp, ctlVars, freq, written, lastHot, overtaken>>

(* _mark_instances_thermal(False) skips instances that are not running. *)
Unmark == flag' = flag \ Live

(* The frequency is restored and the servers are left as they are: Recovers. *)
Finally_F(l) ==
    /\ freq' = MaxFreq /\ written' = FALSE
    /\ Goto(l, "done", {})
    /\ UNCHANGED <<stopped, abandoned, flag>>

(* The finally block, up to its first await: SIGCONT if _emergency is set  *)
(* now, else the frequency is restored at once.                            *)
Finally(l) ==
    \/ /\ emergency
       /\ \E S \in SUBSET Live : Signal(l, "restoring", S) /\ SigCont(S)
       /\ UNCHANGED <<flag, freq, written>>
    \/ /\ ~emergency
       /\ freq' = MaxFreq /\ written' = FALSE
       /\ Goto(l, "done", {})
       /\ UNCHANGED <<stopped, abandoned, flag>>

(* The emergency ends before every server has been continued: NoneLeftStopped. *)
EndResume_F(l) ==
    /\ loop[l].pc = "continuing"
    /\ Unmark
    /\ emergency' = FALSE /\ cooldown' = TRUE
    /\ Goto(l, "asleep", {})
    /\ UNCHANGED <<inst, stopped, abandoned, temp, running, since, freq, written, lastHot, overtaken>>

EndResume(l) ==
    /\ loop[l].pc = "continuing"
    /\ \E S \in SUBSET Live : SigCont(Reached(l, S))
    /\ Unmark
    /\ emergency' = FALSE /\ cooldown' = TRUE
    /\ Goto(l, "asleep", {})
    /\ UNCHANGED <<inst, temp, running, since, freq, written, lastHot, overtaken>>

(* _do_resume reads the temperature again.  Without a reading the log line *)
(* raises, and the loop ends through its finally block, _running still set.*)
BeginResume(l) ==
    /\ loop[l].pc = "asleep" /\ running /\ emergency /\ temp = "cool"
    /\ Saw(FALSE)
    /\ \/ Goto(l, "reducing", {}) /\ UNCHANGED <<stopped, abandoned, flag, freq, written>>
       \/ Finally(l)
    /\ UNCHANGED <<inst, temp, ctlVars, overtaken>>

(* A cancelled loop reaches its finally block. *)
Leave(l) ==
    /\ loop[l].pc = "leaving"
    /\ Finally(l)
    /\ UNCHANGED <<inst, temp, ctlVars, lastHot, overtaken>>

(* The rest of the finally block, after its await. *)
Restore(l) ==
    /\ loop[l].pc = "restoring"
    /\ \E S \in SUBSET Live : SigCont(Reached(l, S))
    /\ Unmark
    /\ freq' = MaxFreq /\ written' = FALSE
    /\ Goto(l, "done", {})
    /\ UNCHANGED <<inst, temp, ctlVars, lastHot, overtaken>>

-----------------------------------------------------------------------------
(* The environment: the temperature, the clock, the model manager. *)

Weather ==
    /\ temp' \in {"cool", "warm", "hot"} \ {temp}
    /\ UNCHANGED <<instVars, ctlVars, hwVars, taskVars, lastHot, overtaken>>

CooldownEnds ==
    /\ cooldown
    /\ cooldown' = FALSE
    /\ UNCHANGED <<instVars, temp, running, emergency, since, hwVars, taskVars, lastHot, overtaken>>

(* load_model registers a new instance, over a dead one if there is one. *)
Load(i) ==
    /\ inst[i] # "running"
    /\ inst' = [inst EXCEPT ![i] = "running"]
    /\ flag' = flag \ {i}
    /\ UNCHANGED <<stopped, abandoned, temp, ctlVars, hwVars, taskVars, lastHot, overtaken>>

(* The process dies, or is killed; SIGKILL works on a stopped process. *)
Die(i) ==
    /\ inst[i] = "running"
    /\ inst' = [inst EXCEPT ![i] = "dead"]
    /\ SigCont({i})
    /\ UNCHANGED <<flag, temp, ctlVars, hwVars, taskVars, lastHot, overtaken>>

Unload(i) ==
    /\ inst[i] # "none"
    /\ inst' = [inst EXCEPT ![i] = "none"]
    /\ SigCont({i})
    /\ flag' = flag \ {i}
    /\ UNCHANGED <<temp, ctlVars, hwVars, taskVars, lastHot, overtaken>>

LoopStep(l) ==
    \/ First(l) \/ BeginEmergency(l) \/ EndEmergency(l) \/ Tick(l) \/ StayStopped(l)
    \/ BeginResume(l) \/ PowerReduced(l) \/ EndResume(l) \/ Leave(l) \/ Restore(l)

Next ==
    \/ \E l \in Loop : Start(l) \/ LoopStep(l)
    \/ Stop
    \/ \E i \in Inst : Load(i) \/ Die(i) \/ Unload(i)
    \/ Weather \/ CooldownEnds

Spec == Init /\ [][Next]_vars

(* The event loop runs the tasks: a sleep ends, ryzenadj and the signals   *)
(* have deadlines.                                                         *)
FairSpec == Spec /\ \A l \in Loop : WF_vars(LoopStep(l))

-----------------------------------------------------------------------------
(* Properties *)

(* A loop that is neither signalling nor on its way out. *)
AtRest == \A l \in Loop : loop[l].pc \in {"new", "first", "asleep", "done"}

Watching == \E l \in Loop : loop[l].pc = "asleep"

(* Unless a loop keeps watch over an emergency no server is left stopped,   *)
(* whatever was loaded, unloaded or died while the signals went out, and    *)
(* however the loop ended: by a resume, a stop in the middle of one, or a   *)
(* crash.  Exactly two stops leave servers behind, the very ones that were  *)
(* stopped then and only until the next SIGCONT: a stop while the SIGSTOPs  *)
(* go out, whose finally block sees no emergency yet, and a second one      *)
(* while the finally block of a crashed loop continues them.  Nothing is    *)
(* said after a loop was started beside one that had not ended.             *)
NoneLeftStopped ==
    ~overtaken /\ AtRest /\ ~(emergency /\ Watching) => stopped \subseteq abandoned

(* While a loop watches an emergency the CPU is at its minimum, and every   *)
(* server that is stopped is marked, so that its requests are refused and   *)
(* its streams ended, not left hanging.                                     *)
EmergencyHolds ==
    ~overtaken /\ AtRest /\ emergency /\ Watching => freq = 0 /\ stopped \subseteq flag

(* When the machine cools down for good, every server runs again, even if   *)
(* the controller is stopped, or crashes, in the middle of the resume; the  *)
(* abandoned ones excepted.                                                 *)
Recovers == <>[](temp = "cool") => []<>(stopped \subseteq abandoned \/ overtaken)

(* "Emergency SIGSTOP fires at 98 C sustained for 2 s; SIGCONT + 40 s       *)
(* ramp-up follows when the die cools below 55 C": nobody sends SIGCONT to  *)
(* what a stop of the controller has abandoned.                             *)
SigcontFollows == <>[](temp = "cool") => []<>(stopped = {} \/ overtaken)

(* ">= 98 C sustained 2 s | SIGSTOP to all llama-server instances": the     *)
(* reading before the one that triggers an emergency was hot as well.       *)
EmergencyIsSustained ==
    [][ \A l \in Loop : loop[l].pc = "asleep" /\ loop'[l].pc = "stopping" => lastHot ]_vars

(* "if a model is referenced in an inference request and not yet running,   *)
(* it is loaded transparently": _get_or_load refuses a dead instance that   *)
(* is marked, so none is marked outside an emergency.                       *)
DeadAreReloaded ==
    ~overtaken /\ AtRest /\ ~emergency => \A i \in flag : inst[i] # "dead"

=============================================================================
