---------------------------- MODULE ModelManager ----------------------------
(***************************************************************************)
(* BRAIN-DAEMON's model manager (manager.py), the handlers that load,      *)
(* unload and use models (daemon.py) and the memory controller that evicts *)
(* them (memory/controller.py).                                            *)
(*                                                                         *)
(* Everything runs on one asyncio event loop and no lock protects the      *)
(* registry of instances, so a step of this specification is the code      *)
(* between two awaits.  An actor is the task of one HTTP request, or the   *)
(* loop of the memory controller.  The servers are processes of their own. *)
(* RAM, swap and VRAM readings are arbitrary.                              *)
(***************************************************************************)
EXTENDS Naturals, FiniteSets

CONSTANTS
    Model,      \* model ids, whose files exist
    Backend,    \* backend_type of every model: "native", "toolbox" or "vllm"
    Port,       \* the ports _next_port tries, in their order
    Pid,        \* bound of the model: instances that exist at the same time
    Protectable,\* models an administrator protects and unprotects
    Client,     \* HTTP requests being handled at the same time
    Memory,     \* the task of MemoryController._run
    MaxRounds,  \* range(5) of _evict_until_below
    NoModel

ASSUME ModelManagerAssumption ==
    /\ Backend \in [Model -> {"native", "toolbox", "vllm"}]
    /\ Port \subseteq Nat \ {0} /\ IsFiniteSet(Port)
    /\ Pid \subseteq Nat \ {0} /\ IsFiniteSet(Pid)
    /\ Protectable \subseteq Model
    /\ Memory \notin Client
    /\ MaxRounds \in Nat \ {0}
    /\ NoModel \notin Model

None == 0       \* no instance, no port
Actor == Client \cup {Memory}

VARIABLES
    instances,  \* manager.instances: the pid of the instance of every model
    usedPorts,  \* manager._used_ports
    proc,       \* every ModelInstance and its process, by pid
    wanted,     \* _model_load_configs[model]["protected"]
    actor,      \* where every task is suspended, and its local variables
    controller, \* memory_controller._running
    leaked,     \* history: ports no instance and no load will ever give back
    orphans     \* history: live servers the registry lost track of

vars == <<instances, usedPorts, proc, wanted, actor, controller, leaked, orphans>>

ServerState == {"dead", "starting", "up", "lost"}
Op == {"none", "infer", "load", "unload", "evict"}
Inferring == {"forwarding", "prompting"}
Pc == {"idle", "spawning", "waiting", "failed", "killing", "dying", "evicting"} \cup Inferring

TypeOK ==
    /\ instances \in [Model -> Pid \cup {None}]
    /\ usedPorts \subseteq Port
    /\ proc \in [Pid -> [state : ServerState, model : Model \cup {NoModel},
                         port : Port \cup {None}, protected : BOOLEAN]]
    /\ wanted \in [Model -> BOOLEAN]
    /\ actor \in [Actor -> [pc : Pc, op : Op, model : Model \cup {NoModel},
                            pid : Pid \cup {None}, port : Port \cup {None}, rounds : 0..MaxRounds]]
    /\ controller \in BOOLEAN
    /\ leaked \subseteq Port
    /\ orphans \subseteq Pid

NoProc == [state |-> "dead", model |-> NoModel, port |-> None,
           protected |-> FALSE]
Idle == [pc |-> "idle", op |-> "none", model |-> NoModel,
         pid |-> None, port |-> None, rounds |-> 0]

Init ==
    /\ instances = [m \in Model |-> None]
    /\ usedPorts = {}
    /\ proc = [i \in Pid |-> NoProc]
    /\ wanted \in [Model -> BOOLEAN] /\ \A m \in Model : wanted[m] => m \in Protectable
    /\ actor = [a \in Actor |-> Idle]
    /\ controller = FALSE
    /\ leaked = {}
    /\ orphans = {}

-----------------------------------------------------------------------------
(* is_running: returncode is None.  A lost server runs on in its container *)
(* while the toolbox wrapper, which is instance.process, is dead.          *)
Running(i) == i # None /\ proc[i].state \in {"starting", "up"}
Alive(i) == proc[i].state # "dead"
Bound(p) == \E i \in Pid : proc[i].port = p /\ proc[i].state \in {"up", "lost"}

(* A pid nothing refers to any more: its record can stand for a new process. *)
Fresh == {i \in Pid : /\ ~Alive(i)
                      /\ \A m \in Model : instances[m] # i
                      /\ \A a \in Actor : actor[a].pid # i}
Spawning == {a \in Actor : actor[a].pc = "spawning"}
First(x, S) == x \in S /\ \A y \in S : x <= y
Dead(i) == [proc[i] EXCEPT !.state = "dead", !.protected = FALSE]

(* actor a suspends or returns; its task keeps op, model and rounds *)
Become(a, next) == actor' = [actor EXCEPT ![a] = next]
Return(a) == Become(a, Idle)

-----------------------------------------------------------------------------
(* unload_model *)

(* The port is not given back: PortAccounting. *)
Unregister_F(m) ==
    /\ instances' = [instances EXCEPT ![m] = None]
    /\ UNCHANGED usedPorts

(* The instance leaves the registry and its port is free for the next      *)
(* load before its process is dead.                                        *)
Unregister(m) ==
    /\ instances' = [instances EXCEPT ![m] = None]
    /\ usedPorts' = usedPorts \ {proc[instances[m]].port}

(* From the pop to the first await: a native server gets its SIGTERM, a    *)
(* server in a toolbox is looked up by its port first.                     *)
UnloadModel(a, m, local) ==
    LET i == instances[m] IN
    /\ Unregister(m)
    /\ \/ Running(i) /\ Backend[m] = "native" /\ Become(a, [local EXCEPT !.pc = "dying", !.pid = i])
       \/ Running(i) /\ Backend[m] # "native" /\ Become(a, [local EXCEPT !.pc = "killing", !.pid = i])
       \/ ~Running(i) /\ Return(a)

(* pkill -f on the command line: every llama-server started with this port; *)
(* for vLLM the catch-all of the script, every vLLM process of the host.    *)
Victims(i) ==
    IF Backend[proc[i].model] = "vllm"
    THEN {j \in Pid : Alive(j) /\ Backend[proc[j].model] = "vllm"}
    ELSE {j \in Pid : Alive(j) /\ Backend[proc[j].model] # "vllm" /\ proc[j].port = proc[i].port}

(* The pkill has ended, or failed or took 5 s, which is swallowed; then the *)
(* wrapper gets its SIGTERM.                                                *)
KillByPort(a) ==
    LET i == actor[a].pid IN
    /\ actor[a].pc = "killing"
    /\ \/ /\ proc' = [j \in Pid |-> IF j \in Victims(i) THEN Dead(j) ELSE proc[j]]
          /\ orphans' = orphans \ Victims(i)
       \/ /\ proc' = [proc EXCEPT ![i].state = IF @ = "dead" THEN @ ELSE "lost"]
          /\ orphans' = IF Alive(i) THEN orphans \cup {i} ELSE orphans
    /\ Become(a, [actor[a] EXCEPT !.pc = "dying"])
    /\ UNCHANGED <<instances, usedPorts, wanted, controller, leaked>>

(* Within ten seconds the process is gone, by the SIGTERM or by a SIGKILL;  *)
(* unload_model returns, to the loop of the evictions or to the handler.    *)
WaitExit(a) ==
    LET i == actor[a].pid IN
    /\ actor[a].pc = "dying"
    /\ proc' = [proc EXCEPT ![i] = IF @.state = "lost" THEN @ ELSE Dead(i)]
    /\ orphans' = IF proc[i].state = "lost" THEN orphans ELSE orphans \ {i}
    /\ IF actor[a].rounds > 0
       THEN Become(a, [actor[a] EXCEPT !.pc = "evicting", !.pid = None])
       ELSE Return(a)
    /\ UNCHANGED <<instances, usedPorts, wanted, controller, leaked>>

(* POST /mgmt/unload, and POST /memory/evict, which asks is_running first. *)
MgmtUnload(a, m) ==
    /\ actor[a] = Idle /\ instances[m] # None
    /\ UnloadModel(a, m, [Idle EXCEPT !.op = "unload", !.model = m])
    /\ UNCHANGED <<proc, wanted, controller, leaked, orphans>>

-----------------------------------------------------------------------------
(* load_model *)

FreePorts(used) == {p \in Port : p \notin used /\ ~Bound(p)}

(* The port is chosen and not added to _used_ports: PortsReserved. *)
NextPort_F(used, p) ==
    /\ First(p, FreePorts(used))
    /\ usedPorts' = used

(* _next_port takes the first port that is neither reserved nor bound. *)
NextPort(used, p) ==
    /\ First(p, FreePorts(used))
    /\ usedPorts' = used \cup {p}

(* From the top of load_model to its first await.  A running instance is   *)
(* returned, whether it is ready or not, and /mgmt/load restores its flag; *)
(* a dead one is cleaned up.  Without a file, or without a port left, the  *)
(* call raises.                                                            *)
LoadModel(a, m, op) ==
    LET old  == instances[m]
        used == IF old = None THEN usedPorts ELSE usedPorts \ {proc[old].port}
        local == [Idle EXCEPT !.op = op, !.model = m]
    IN
    \/ /\ Running(old)
       /\ IF op = "infer"
          THEN Become(a, [local EXCEPT !.pc = "forwarding", !.pid = old]) /\ UNCHANGED proc
          ELSE Return(a) /\ proc' = [proc EXCEPT ![old].protected = wanted[m]]
       /\ UNCHANGED <<instances, usedPorts>>
    \/ /\ ~Running(old)
       /\ Cardinality(Spawning) < Cardinality(Fresh)    \* bound of the model
       /\ instances' = [instances EXCEPT ![m] = None]
       /\ \/ \E p \in Port : NextPort(used, p) /\ Become(a, [local EXCEPT !.pc = "spawning", !.port = p])
          \/ usedPorts' = used /\ Return(a)
       /\ UNCHANGED proc

(* create_subprocess_exec raised, or the command could not be built: the    *)
(* port stays reserved.                                                     *)
SpawnFails(a) ==
    /\ actor[a].pc = "spawning"
    /\ leaked' = leaked \cup {actor[a].port}
    /\ Return(a)
    /\ UNCHANGED <<instances, usedPorts, proc, wanted, controller, orphans>>

(* The process exists and its instance is registered, over the one another *)
(* call has registered in the meantime.                                    *)
Spawn(a) ==
    LET m == actor[a].model
        old == instances[m]
    IN
    /\ actor[a].pc = "spawning"
    /\ \E i \in Pid :
         /\ First(i, Fresh)
         /\ proc' = [proc EXCEPT ![i] = [NoProc EXCEPT !.state = "starting", !.model = m, !.port = actor[a].port]]
         /\ instances' = [instances EXCEPT ![m] = i]
         /\ Become(a, [actor[a] EXCEPT !.pc = "waiting", !.pid = i, !.port = None])
    /\ leaked' = IF old = None THEN leaked ELSE leaked \cup {proc[old].port}
    /\ orphans' = IF Running(old) THEN orphans \cup {old} ELSE orphans
    /\ UNCHANGED <<usedPorts, wanted, controller>>

(* /health answers 200 on the port, whichever server listens there: load_model *)
(* returns and the handler restores the protected flag.                        *)
WaitReady(a) ==
    LET i == actor[a].pid IN
    /\ actor[a].pc = "waiting" /\ Bound(proc[i].port)
    /\ proc' = [proc EXCEPT ![i].protected = wanted[actor[a].model]]
    /\ IF actor[a].op = "infer" THEN Become(a, [actor[a] EXCEPT !.pc = "forwarding"]) ELSE Return(a)
    /\ UNCHANGED <<instances, usedPorts, wanted, controller, leaked, orphans>>

(* The wait has no deadline: CallsReturn. *)
WaitFails_F(a) ==
    /\ actor[a].pc = "waiting" /\ ~Running(actor[a].pid)
    /\ Become(a, [actor[a] EXCEPT !.pc = "failed"])
    /\ UNCHANGED <<instances, usedPorts, proc, wanted, controller, leaked, orphans>>

(* The process died, or 300 s have passed; the handler sleeps 0.5 s. *)
WaitFails(a) ==
    /\ actor[a].pc = "waiting"
    /\ Become(a, [actor[a] EXCEPT !.pc = "failed"])
    /\ UNCHANGED <<instances, usedPorts, proc, wanted, controller, leaked, orphans>>

(* A failed load leaves its server alone: Tracked. *)
CleanUp_F(a) ==
    /\ actor[a].pc = "failed"
    /\ instances' = [instances EXCEPT ![actor[a].model] = None]
    /\ usedPorts' = usedPorts \ {proc[actor[a].pid].port}
    /\ Return(a)
    /\ UNCHANGED <<proc, wanted, controller, leaked, orphans>>

(* unload_model(model_id) unloads what is registered under the name now,   *)
(* and raises when there is nothing.                                       *)
CleanUp(a) ==
    LET m == actor[a].model IN
    /\ actor[a].pc = "failed"
    /\ \/ instances[m] # None /\ UnloadModel(a, m, actor[a])
       \/ instances[m] = None /\ Return(a) /\ UNCHANGED <<instances, usedPorts>>
    /\ UNCHANGED <<proc, wanted, controller, leaked, orphans>>

-----------------------------------------------------------------------------
(* Inference: _get_or_load and _forward *)

(* The three answers 503 and 404 in front of load_model (the instance is    *)
(* stopped by the thermal governor, is dead with a loading bar that has     *)
(* stuck, or has no file) change nothing: such a request takes no step.     *)
GetOrLoad(a, m) ==
    /\ actor[a] = Idle
    /\ LoadModel(a, m, "infer")
    /\ UNCHANGED <<wanted, controller, leaked, orphans>>

(* The log of the server reports the progress of the prompt: prompt_pct > 0 *)
(* within 5 s of the request.                                               *)
PromptStarts(a) ==
    /\ actor[a].pc = "forwarding" /\ proc[actor[a].pid].state = "up"
    /\ Become(a, [actor[a] EXCEPT !.pc = "prompting"])
    /\ UNCHANGED <<instances, usedPorts, proc, wanted, controller, leaked, orphans>>

(* The prompt is processed and tokens are generated, or 5 s have passed. *)
PromptEnds(a) ==
    /\ actor[a].pc = "prompting"
    /\ Become(a, [actor[a] EXCEPT !.pc = "forwarding"])
    /\ UNCHANGED <<instances, usedPorts, proc, wanted, controller, leaked, orphans>>

(* The answer is complete, or the connection failed or broke. *)
ForwardEnds(a) ==
    /\ actor[a].pc \in Inferring
    /\ Return(a)
    /\ UNCHANGED <<instances, usedPorts, proc, wanted, controller, leaked, orphans>>

-----------------------------------------------------------------------------
(* The memory controller *)

(* _select_candidate; the order of the candidates (RAM footprint) is left open. *)
Candidates ==
    {m \in Model : /\ Running(instances[m])
                   /\ ~proc[instances[m]].protected
                   /\ \A a \in Actor : actor[a].pc = "prompting" => actor[a].pid # instances[m]}

(* One round of _evict_until_below.  The KV cache is not saved: nothing    *)
(* ever sets kv_cache_auto_dump, so there is no await before unload_model. *)
Evict(a, local) ==
    \E m \in Candidates : UnloadModel(a, m, [local EXCEPT !.rounds = @ + 1])

(* Swap and RAM have been full for 30 s. *)
MemoryTick ==
    /\ actor[Memory] = Idle /\ controller
    /\ Evict(Memory, [Idle EXCEPT !.op = "evict"])
    /\ UNCHANGED <<proc, wanted, controller, leaked, orphans>>

(* The RAM is still above the threshold. *)
EvictAgain(a) ==
    /\ actor[a].pc = "evicting" /\ actor[a].rounds < MaxRounds
    /\ Evict(a, actor[a])
    /\ UNCHANGED <<proc, wanted, controller, leaked, orphans>>

(* The RAM is below the threshold, or there is no candidate, or no round,  *)
(* left.  preload_check reads the memory again and lets the load go on or  *)
(* answers 507.                                                            *)
EvictEnds(a) ==
    /\ actor[a].pc = "evicting"
    /\ \/ Return(a) /\ UNCHANGED <<instances, usedPorts, proc>>
       \/ actor[a].op = "load" /\ LoadModel(a, actor[a].model, "load")
    /\ UNCHANGED <<wanted, controller, leaked, orphans>>

(* POST /mgmt/load: preload_check finds enough memory, or evicts first, if *)
(* the controller runs; with nothing to evict it answers 507.              *)
MgmtLoad(a, m) ==
    /\ actor[a] = Idle
    /\ \/ LoadModel(a, m, "load")
       \/ /\ controller
          /\ Evict(a, [Idle EXCEPT !.op = "load", !.model = m])
          /\ UNCHANGED proc
    /\ UNCHANGED <<wanted, controller, leaked, orphans>>

MemoryStart ==
    /\ ~controller
    /\ controller' = TRUE
    /\ UNCHANGED <<instances, usedPorts, proc, wanted, actor, leaked, orphans>>

(* task.cancel() interrupts an eviction at its await: no signal follows. *)
MemoryStop ==
    /\ controller
    /\ controller' = FALSE
    /\ Return(Memory)
    /\ orphans' = IF actor[Memory].pid # None /\ Alive(actor[Memory].pid)
                  THEN orphans \cup {actor[Memory].pid} ELSE orphans
    /\ UNCHANGED <<instances, usedPorts, proc, wanted, leaked>>

(* set_protected, from POST /memory/protect and /memory/unprotect. *)
SetProtected(m, flag) ==
    /\ wanted[m] # flag
    /\ wanted' = [wanted EXCEPT ![m] = flag]
    /\ proc' = IF instances[m] = None THEN proc
               ELSE [proc EXCEPT ![instances[m]].protected = flag]
    /\ UNCHANGED <<instances, usedPorts, actor, controller, leaked, orphans>>

-----------------------------------------------------------------------------
(* The servers (external): one binds its port, or fails to and exits; any  *)
(* may die, and its wrapper with it.                                       *)
Bind(i) ==
    /\ proc[i].state = "starting"
    /\ proc' = [proc EXCEPT ![i] = IF Bound(@.port) THEN Dead(i) ELSE [@ EXCEPT !.state = "up"]]
    /\ orphans' = IF Bound(proc[i].port) THEN orphans \ {i} ELSE orphans
    /\ UNCHANGED <<instances, usedPorts, wanted, actor, controller, leaked>>

Die(i) ==
    /\ Alive(i)
    /\ proc' = [proc EXCEPT ![i] = Dead(i)]
    /\ orphans' = orphans \ {i}
    /\ UNCHANGED <<instances, usedPorts, wanted, actor, controller, leaked>>

(* The wrapper of a server in a toolbox dies alone.  The registry sees a    *)
(* dead instance, which the next load or unload drops without a signal.     *)
WrapperDies(i) ==
    /\ Running(i) /\ Backend[proc[i].model] # "native"
    /\ proc' = [proc EXCEPT ![i].state = "lost"]
    /\ orphans' = orphans \cup {i}
    /\ UNCHANGED <<instances, usedPorts, wanted, actor, controller, leaked>>

LoadStep(a) == SpawnFails(a) \/ Spawn(a) \/ WaitReady(a) \/ WaitFails(a) \/ CleanUp(a)
UnloadStep(a) == KillByPort(a) \/ WaitExit(a)
EvictStep(a) == EvictAgain(a) \/ EvictEnds(a)
Step(a) == LoadStep(a) \/ UnloadStep(a) \/ EvictStep(a) \/ ForwardEnds(a)

Next ==
    \/ \E a \in Actor : Step(a)
    \/ \E a \in Client : PromptStarts(a) \/ PromptEnds(a)
    \/ \E a \in Client, m \in Model : GetOrLoad(a, m) \/ MgmtLoad(a, m) \/ MgmtUnload(a, m)
    \/ MemoryTick \/ MemoryStart \/ MemoryStop
    \/ \E m \in Protectable, flag \in BOOLEAN : SetProtected(m, flag)
    \/ \E i \in Pid : Bind(i) \/ Die(i) \/ WrapperDies(i)

Spec == Init /\ [][Next]_vars

(* Every await of a task ends: the waits have deadlines, a server answers  *)
(* or its connection breaks.  A process need not ever bind or die.         *)
FairSpec == Spec /\ \A a \in Actor : WF_vars(Step(a))

-----------------------------------------------------------------------------
(* Properties *)

Registered == {m \in Model : instances[m] # None}
PortOf(m) == proc[instances[m]].port

(* What _next_port is for: the ports of the registered instances and of    *)
(* the loads between their reservation and their registration are all      *)
(* different and all reserved, however loads, failures, evictions and      *)
(* unloads of the same model interleave.                                   *)
PortsReserved ==
    /\ \A m \in Registered : PortOf(m) \in usedPorts
    /\ \A a \in Spawning : actor[a].port \in usedPorts
    /\ \A m, n \in Registered : m # n => PortOf(m) # PortOf(n)
    /\ \A a, b \in Spawning : a # b => actor[a].port # actor[b].port
    /\ \A m \in Registered, a \in Spawning : PortOf(m) # actor[a].port

(* The pool of ports shrinks for two reasons only: a spawn that failed, and *)
(* two overlapping loads of one model.  Every other reserved port belongs   *)
(* to a registered instance or to a load under way.                         *)
PortAccounting ==
    /\ usedPorts = leaked \cup {PortOf(m) : m \in Registered} \cup {actor[a].port : a \in Spawning}
    /\ \A m \in Registered : PortOf(m) \notin leaked

(* A live server is registered, or some task is about to kill it, or the    *)
(* registry lost it in one of four ways: a second load of the same model    *)
(* overwrote it, the pkill failed, its toolbox wrapper died without it, or  *)
(* the controller was stopped during an eviction.  No other interleaving    *)
(* leaves a server behind.                                                  *)
Tracked ==
    \A i \in Pid : Alive(i) =>
        \/ instances[proc[i].model] = i
        \/ \E a \in Actor : actor[a].pc \in {"killing", "dying"} /\ actor[a].pid = i
        \/ i \in orphans

(* Every request comes back to its client: a load that never gets ready, a  *)
(* preload that evicts, an unload of a server that ignores SIGTERM.         *)
CallsReturn == \A a \in Actor : actor[a] # Idle ~> actor[a] = Idle

(* An eviction takes model m from the registry. *)
Evicts(m) ==
    /\ instances[m] # None /\ instances'[m] = None
    /\ \E a \in Actor : actor'[a].rounds > actor[a].rounds /\ actor'[a].pid = instances[m]

(* "Protected models are NEVER evicted, no exceptions." *)
ProtectedNotEvicted == [][ \A m \in Model : Evicts(m) => ~wanted[m] ]_vars

(* "skips protected models and those mid-inference" *)
MidInferenceNotEvicted ==
    [][ \A m \in Model : Evicts(m) =>
          \A a \in Actor : actor[a].pc \in Inferring => actor[a].pid # instances[m] ]_vars

=============================================================================
