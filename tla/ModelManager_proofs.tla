-------------------------- MODULE ModelManager_proofs --------------------------
(***************************************************************************)
(* Proofs about ModelManager, for any models, ports, processes and number  *)
(* of concurrent requests: the ports of the registry and of the loads      *)
(* under way are reserved and distinct, every reserved port is accounted   *)
(* for, and every live server is registered, or about to be signalled, or  *)
(* one of the orphans.                                                     *)
(*                                                                         *)
(* The two facts on ports are inductive only together, and with the fact   *)
(* that a load that is spawning holds a port that was never lost: it is    *)
(* lost later, if at all, by the failure of the spawn or by the            *)
(* registration over it.  The servers come last, on top of these.          *)
(***************************************************************************)
EXTENDS ModelManager, TLAPS

(* A load that is spawning holds a port, and so does every instance. *)
PortsHeld ==
    /\ \A m \in Registered : PortOf(m) \in Port
    /\ \A a \in Spawning : actor[a].port \in Port /\ actor[a].port \notin leaked

PortInv == PortsHeld /\ PortsReserved /\ PortAccounting

(* A task that signals a process, or waits for one, knows which, and a     *)
(* task that loads knows what; the memory controller only evicts.          *)
WithPid == {"waiting", "killing", "dying"}
Sound(a, l) ==
    /\ l.pc \in WithPid => l.pid \in Pid
    /\ l.op \in {"infer", "load", "unload"} => l.model \in Model
    /\ l.pc \in {"spawning", "waiting", "failed"} => l.op \in {"infer", "load"}
    /\ a = Memory => l.op \in {"none", "evict"}
Targets == \A a \in Actor : Sound(a, actor[a])

IInv == TypeOK /\ Targets /\ PortInv

-----------------------------------------------------------------------------
(* Types. *)

Locals == [pc : Pc, op : Op, model : Model \cup {NoModel},
           pid : Pid \cup {None}, port : Port \cup {None}, rounds : 0..MaxRounds]

Procs == [state : ServerState, model : Model \cup {NoModel},
          port : Port \cup {None}, protected : BOOLEAN]

LEMMA Shape ==
    TypeOK <=> /\ instances \in [Model -> Pid \cup {None}]
               /\ usedPorts \subseteq Port
               /\ proc \in [Pid -> Procs]
               /\ wanted \in [Model -> BOOLEAN]
               /\ actor \in [Actor -> Locals]
               /\ controller \in BOOLEAN
               /\ leaked \subseteq Port
               /\ orphans \subseteq Pid
BY DEF TypeOK, Procs, Locals

LEMMA ShapeNext ==
    TypeOK' <=> /\ instances' \in [Model -> Pid \cup {None}]
                /\ usedPorts' \subseteq Port
                /\ proc' \in [Pid -> Procs]
                /\ wanted' \in [Model -> BOOLEAN]
                /\ actor' \in [Actor -> Locals]
                /\ controller' \in BOOLEAN
                /\ leaked' \subseteq Port
                /\ orphans' \subseteq Pid
BY DEF TypeOK, Procs, Locals

LEMMA IdleIsLocal == Idle \in Locals
BY ModelManagerAssumption DEF Idle, Locals, Pc, Op

LEMMA LocalFields ==
    ASSUME NEW l \in Locals
    PROVE  /\ \A pc \in Pc : [l EXCEPT !.pc = pc] \in Locals
           /\ \A pc \in Pc, i \in Pid \cup {None} : [l EXCEPT !.pc = pc, !.pid = i] \in Locals
           /\ \A pc \in Pc, q \in Port : [l EXCEPT !.pc = pc, !.port = q] \in Locals
           /\ l.rounds < MaxRounds => [l EXCEPT !.rounds = @ + 1] \in Locals
           /\ \A pc \in Pc, i \in Pid : [l EXCEPT !.pc = pc, !.pid = i, !.port = None] \in Locals
<1>1. \A pc \in Pc : [l EXCEPT !.pc = pc] \in Locals
  BY DEF Locals
<1>2. \A pc \in Pc, i \in Pid \cup {None} : [l EXCEPT !.pc = pc, !.pid = i] \in Locals
  BY DEF Locals
<1>3. \A pc \in Pc, q \in Port : [l EXCEPT !.pc = pc, !.port = q] \in Locals
  BY DEF Locals
<1>4. l.rounds < MaxRounds => [l EXCEPT !.rounds = @ + 1] \in Locals
  BY ModelManagerAssumption DEF Locals
<1>5. \A pc \in Pc, i \in Pid : [l EXCEPT !.pc = pc, !.pid = i, !.port = None] \in Locals
  BY DEF Locals
<1>. QED BY <1>1, <1>2, <1>3, <1>4, <1>5

LEMMA LocalOf ==
    ASSUME NEW op \in Op
    PROVE  /\ [Idle EXCEPT !.op = op] \in Locals
           /\ \A m \in Model \cup {NoModel} : [Idle EXCEPT !.op = op, !.model = m] \in Locals
<1>1. \A l \in Locals :
        /\ [l EXCEPT !.op = op] \in Locals
        /\ \A m \in Model \cup {NoModel} : [l EXCEPT !.op = op, !.model = m] \in Locals
  BY DEF Locals
<1>. QED BY <1>1, IdleIsLocal

LEMMA PcNames ==
    /\ {"idle", "spawning", "waiting", "failed", "killing", "dying", "evicting"} \subseteq Pc
    /\ {"forwarding", "prompting"} \subseteq Pc
    /\ {"none", "infer", "load", "unload", "evict"} \subseteq Op
BY DEF Pc, Op, Inferring

LEMMA BecomeType ==
    ASSUME actor \in [Actor -> Locals], NEW a \in Actor, NEW l \in Locals, Become(a, l)
    PROVE  actor' \in [Actor -> Locals]
BY DEF Become

LEMMA UnloadType ==
    ASSUME TypeOK, NEW a \in Actor, NEW m \in Model, NEW local \in Locals,
           instances[m] # None, UnloadModel(a, m, local)
    PROVE  /\ instances' \in [Model -> Pid \cup {None}]
           /\ usedPorts' \subseteq Port
           /\ actor' \in [Actor -> Locals]
<1>1. instances[m] \in Pid
  BY Shape
<1>2. instances' \in [Model -> Pid \cup {None}] /\ usedPorts' \subseteq Port
  BY Shape DEF UnloadModel, Unregister
<1>3. /\ [local EXCEPT !.pc = "dying", !.pid = instances[m]] \in Locals
      /\ [local EXCEPT !.pc = "killing", !.pid = instances[m]] \in Locals
  BY <1>1, LocalFields, PcNames
<1>4. actor' \in [Actor -> Locals]
  BY <1>3, IdleIsLocal, Shape, BecomeType DEF UnloadModel, Return
<1>. QED BY <1>2, <1>4

LEMMA LoadType ==
    ASSUME TypeOK, NEW a \in Actor, NEW m \in Model, NEW op \in Op, LoadModel(a, m, op)
    PROVE  /\ instances' \in [Model -> Pid \cup {None}]
           /\ usedPorts' \subseteq Port
           /\ actor' \in [Actor -> Locals]
           /\ proc' \in [Pid -> Procs]
<1>. DEFINE local == [Idle EXCEPT !.op = op, !.model = m]
<1>1. local \in Locals
  BY LocalOf
<1>2. instances' \in [Model -> Pid \cup {None}]
  BY Shape DEF LoadModel
<1>3. usedPorts' \subseteq Port
  BY Shape DEF LoadModel, NextPort
<1>. HIDE DEF local
<1>p. ASSUME NEW q \in Port PROVE [local EXCEPT !.pc = "spawning", !.port = q] \in Locals
  BY <1>1, LocalFields, PcNames
<1>i. ASSUME NEW i \in Pid PROVE [local EXCEPT !.pc = "forwarding", !.pid = i] \in Locals
  BY <1>1, LocalFields, PcNames
<1>4. /\ \A q \in Port : [local EXCEPT !.pc = "spawning", !.port = q] \in Locals
      /\ \A i \in Pid : [local EXCEPT !.pc = "forwarding", !.pid = i] \in Locals
  BY <1>p, <1>i
<1>5. actor' \in [Actor -> Locals]
  <2>1. \/ Become(a, Idle)
        \/ \E q \in Port : Become(a, [local EXCEPT !.pc = "spawning", !.port = q])
        \/ Running(instances[m]) /\ Become(a, [local EXCEPT !.pc = "forwarding", !.pid = instances[m]])
    BY Zenon DEF LoadModel, Return, local
  <2>2. Running(instances[m]) => instances[m] \in Pid
    BY Shape DEF Running
  <2>3. actor \in [Actor -> Locals]
    BY Shape
  <2>4. \E l \in Locals : Become(a, l)
    BY <2>1, <2>2, <1>4, IdleIsLocal, Zenon
  <2>5. PICK l \in Locals : Become(a, l)
    BY <2>4
  <2>. QED BY <2>3, <2>5 DEF Become
<1>6. proc' \in [Pid -> Procs]
  <2>1. \/ proc' = proc
        \/ Running(instances[m]) /\ proc' = [proc EXCEPT ![instances[m]].protected = wanted[m]]
    BY Zenon DEF LoadModel
  <2>2. \A q \in Procs, flag \in BOOLEAN : [q EXCEPT !.protected = flag] \in Procs
    BY DEF Procs
  <2>3. Running(instances[m]) => instances[m] \in Pid
    BY Shape DEF Running
  <2>. QED BY <2>1, <2>2, <2>3, Shape
<1>. QED BY <1>2, <1>3, <1>5, <1>6

-----------------------------------------------------------------------------
(* Steps that do not touch the ports. *)

SamePorts == \A i \in Pid : proc'[i].port = proc[i].port
SameLoads == Spawning' = Spawning /\ \A b \in Spawning : actor'[b].port = actor[b].port

LEMMA QuietKeeps ==
    ASSUME TypeOK, PortInv, UNCHANGED <<instances, usedPorts, leaked>>, SamePorts, SameLoads
    PROVE  PortInv'
<1>1. Registered' = Registered /\ \A m \in Registered : PortOf(m)' = PortOf(m)
  BY Shape DEF Registered, PortOf, SamePorts
<1>2. PortsHeld'
  BY <1>1 DEF PortInv, PortsHeld, SameLoads
<1>3. PortsReserved'
  BY <1>1 DEF PortInv, PortsReserved, SameLoads
<1>4. PortAccounting'
  <2>1. {PortOf(m) : m \in Registered}' = {PortOf(m) : m \in Registered}
    BY <1>1
  <2>2. {actor[a].port : a \in Spawning}' = {actor[a].port : a \in Spawning}
    BY DEF SameLoads
  <2>. QED BY <1>1, <2>1, <2>2 DEF PortInv, PortAccounting
<1>. QED BY <1>2, <1>3, <1>4 DEF PortInv

LEMMA NotALoad ==
    ASSUME TypeOK, NEW a \in Actor, NEW l \in Locals, Become(a, l),
           actor[a].pc # "spawning", l.pc # "spawning"
    PROVE  SameLoads
BY Shape DEF Become, SameLoads, Spawning

(* An instance leaves the registry and its port is free again. *)
LEMMA UnregisterKeeps ==
    ASSUME TypeOK, PortInv, NEW m \in Registered, Unregister(m),
           UNCHANGED leaked, SamePorts, SameLoads
    PROVE  PortInv'
<1>1. Registered' = Registered \ {m} /\ \A n \in Registered' : PortOf(n)' = PortOf(n)
  BY Shape DEF Registered, PortOf, SamePorts, Unregister
<1>2. usedPorts' = usedPorts \ {PortOf(m)}
  BY DEF Unregister, PortOf
<1>3. PortsHeld'
  BY <1>1 DEF PortInv, PortsHeld, SameLoads
<1>4. PortsReserved'
  BY <1>1, <1>2 DEF PortInv, PortsReserved, SameLoads
<1>5. PortAccounting'
  <2>1. {PortOf(n) : n \in Registered}' = {PortOf(n) : n \in Registered} \ {PortOf(m)}
    BY <1>1 DEF PortInv, PortsReserved
  <2>2. {actor[a].port : a \in Spawning}' = {actor[a].port : a \in Spawning}
    BY DEF SameLoads
  <2>3. PortOf(m) \notin leaked /\ PortOf(m) \notin {actor[a].port : a \in Spawning}
    BY DEF PortInv, PortAccounting, PortsReserved
  <2>. QED BY <1>1, <1>2, <2>1, <2>2, <2>3 DEF PortInv, PortAccounting
<1>. QED BY <1>3, <1>4, <1>5 DEF PortInv

LEMMA UnloadKeeps ==
    ASSUME TypeOK, PortInv, NEW a \in Actor, NEW m \in Model, NEW local \in Locals,
           instances[m] # None, UnloadModel(a, m, local), UNCHANGED leaked, SamePorts,
           actor[a].pc # "spawning"
    PROVE  PortInv'
<1>1. m \in Registered /\ Unregister(m)
  BY DEF Registered, UnloadModel
<1>2. instances[m] \in Pid
  BY Shape
<1>3. /\ [local EXCEPT !.pc = "dying", !.pid = instances[m]] \in Locals
      /\ [local EXCEPT !.pc = "killing", !.pid = instances[m]] \in Locals
  BY <1>2, LocalFields, PcNames
<1>4. \E l \in Locals : Become(a, l) /\ l.pc # "spawning"
  BY <1>3, IdleIsLocal DEF UnloadModel, Return, Idle, Locals
<1>5. SameLoads
  BY <1>4, NotALoad
<1>. QED BY <1>1, <1>5, UnregisterKeeps

(* A load reserves a port nobody has, or meets a running instance. *)
LEMMA LoadKeeps ==
    ASSUME TypeOK, PortInv, NEW a \in Actor, NEW m \in Model, NEW op \in Op,
           LoadModel(a, m, op), UNCHANGED leaked, actor[a].pc # "spawning"
    PROVE  PortInv' /\ SamePorts
<1>. DEFINE local == [Idle EXCEPT !.op = op, !.model = m]
            used == IF instances[m] = None THEN usedPorts ELSE usedPorts \ {proc[instances[m]].port}
<1>0. SamePorts
  <2>1. \/ proc' = proc
        \/ Running(instances[m]) /\ proc' = [proc EXCEPT ![instances[m]].protected = wanted[m]]
    BY Zenon DEF LoadModel
  <2>2. Running(instances[m]) => instances[m] \in Pid
    BY Shape DEF Running
  <2>. QED BY <2>1, <2>2, Shape DEF SamePorts, Procs
<1>1. CASE Running(instances[m]) /\ UNCHANGED <<instances, usedPorts>> /\ \E l \in Locals : Become(a, l) /\ l.pc # "spawning"
  BY <1>0, <1>1, NotALoad, QuietKeeps
<1>2. ASSUME instances' = [instances EXCEPT ![m] = None], UNCHANGED proc
      PROVE  /\ Registered' = Registered \ {m}
             /\ \A n \in Registered' : PortOf(n)' = PortOf(n)
             /\ {PortOf(n) : n \in Registered}' = {PortOf(n) : n \in Registered \ {m}}
  <2>1. Registered' = Registered \ {m} /\ \A n \in Registered' : PortOf(n)' = PortOf(n)
    BY <1>2, Shape DEF Registered, PortOf
  <2>. QED BY <2>1
<1>3. /\ used = leaked \cup {PortOf(n) : n \in Registered \ {m}} \cup {actor[b].port : b \in Spawning}
      /\ \A n \in Registered \ {m} : PortOf(n) \in used
      /\ \A b \in Spawning : actor[b].port \in used
      /\ leaked \subseteq used
  <2>1. CASE instances[m] = None
    BY <2>1 DEF PortInv, PortAccounting, PortsReserved, Registered
  <2>2. CASE instances[m] # None
    <3>1. m \in Registered /\ used = usedPorts \ {PortOf(m)}
      BY <2>2, Shape DEF Registered, PortOf
    <3>2. {PortOf(n) : n \in Registered \ {m}} = {PortOf(n) : n \in Registered} \ {PortOf(m)}
      BY <3>1 DEF PortInv, PortsReserved
    <3>3. PortOf(m) \notin leaked /\ PortOf(m) \notin {actor[b].port : b \in Spawning}
      BY <3>1 DEF PortInv, PortAccounting, PortsReserved
    <3>. QED BY <3>1, <3>2, <3>3 DEF PortInv, PortAccounting, PortsReserved
  <2>. QED BY <2>1, <2>2
<1>. HIDE DEF used, local
<1>4. ASSUME instances' = [instances EXCEPT ![m] = None], UNCHANGED proc,
             NEW q \in Port, NextPort(used, q),
             Become(a, [local EXCEPT !.pc = "spawning", !.port = q])
      PROVE  PortInv'
  <2>1. q \notin used /\ usedPorts' = used \cup {q}
    BY <1>4 DEF NextPort, First, FreePorts
  <2>2. local \in Locals
    BY LocalOf DEF local
  <2>3. /\ Spawning' = Spawning \cup {a} /\ a \notin Spawning
        /\ actor'[a].port = q
        /\ \A b \in Spawning : actor'[b].port = actor[b].port
    BY <1>4, <2>2, Shape DEF Become, Spawning, Locals
  <2>4. {actor[b].port : b \in Spawning}' = {actor[b].port : b \in Spawning} \cup {q}
    BY <2>3
  <2>5. PortsHeld'
    BY <1>2, <1>3, <1>4, <2>1, <2>3 DEF PortInv, PortsHeld
  <2>6. PortsReserved'
    BY <1>2, <1>3, <1>4, <2>1, <2>3 DEF PortInv, PortsReserved
  <2>7. PortAccounting'
    BY <1>2, <1>3, <1>4, <2>1, <2>4 DEF PortInv, PortAccounting
  <2>. QED BY <2>5, <2>6, <2>7 DEF PortInv
<1>5. ASSUME instances' = [instances EXCEPT ![m] = None], UNCHANGED proc,
             usedPorts' = used, Return(a)
      PROVE  PortInv'
  <2>1. SameLoads
    BY <1>5, NotALoad, IdleIsLocal DEF Return, Idle
  <2>2. {actor[b].port : b \in Spawning}' = {actor[b].port : b \in Spawning}
    BY <2>1 DEF SameLoads
  <2>3. PortsHeld'
    BY <1>2, <1>5, <2>1 DEF PortInv, PortsHeld, SameLoads
  <2>4. PortsReserved'
    BY <1>2, <1>3, <1>5, <2>1 DEF PortInv, PortsReserved, SameLoads
  <2>5. PortAccounting'
    BY <1>2, <1>3, <1>5, <2>2 DEF PortInv, PortAccounting
  <2>. QED BY <2>3, <2>4, <2>5 DEF PortInv
<1>6. \/ Running(instances[m]) /\ UNCHANGED <<instances, usedPorts>> /\ Return(a)
      \/ /\ Running(instances[m]) /\ UNCHANGED <<instances, usedPorts>>
         /\ Become(a, [local EXCEPT !.pc = "forwarding", !.pid = instances[m]])
      \/ /\ instances' = [instances EXCEPT ![m] = None] /\ UNCHANGED proc
         /\ \/ \E q \in Port : NextPort(used, q) /\ Become(a, [local EXCEPT !.pc = "spawning", !.port = q])
            \/ usedPorts' = used /\ Return(a)
  BY Zenon DEF LoadModel, used, local
<1>7. Running(instances[m]) => /\ [local EXCEPT !.pc = "forwarding", !.pid = instances[m]] \in Locals
                               /\ [local EXCEPT !.pc = "forwarding", !.pid = instances[m]].pc = "forwarding"
  <2>1. local \in Locals
    BY LocalOf DEF local
  <2>2. Running(instances[m]) => instances[m] \in Pid
    BY Shape DEF Running
  <2>3. \A i \in Pid : [local EXCEPT !.pc = "forwarding", !.pid = i] \in Locals
    BY <2>1, LocalFields, PcNames
  <2>. QED BY <2>1, <2>2, <2>3 DEF Locals
<1>8. Idle \in Locals /\ Idle.pc # "spawning"
  BY IdleIsLocal DEF Idle
<1>. QED BY <1>0, <1>1, <1>4, <1>5, <1>6, <1>7, <1>8 DEF Return

-----------------------------------------------------------------------------
(* The steps of an unload. *)

LEMMA TargetKept ==
    ASSUME TypeOK, Targets, NEW a \in Actor, NEW l \in Locals, Become(a, l), Sound(a, l)
    PROVE  Targets'
BY Shape DEF Become, Targets

LEMMA IdleIsSound == Idle \in Locals /\ \A a \in Actor : Sound(a, Idle)
BY IdleIsLocal DEF Idle, Sound, WithPid

LEMMA UnloadTarget ==
    ASSUME TypeOK, Targets, NEW a \in Actor, NEW m \in Model, NEW local \in Locals,
           Sound(a, local), instances[m] # None, UnloadModel(a, m, local)
    PROVE  Targets'
<1>. DEFINE l(pc) == [local EXCEPT !.pc = pc, !.pid = instances[m]]
<1>1. instances[m] \in Pid
  BY Shape
<1>2. \A pc \in {"dying", "killing"} :
        /\ l(pc) \in Locals
        /\ l(pc).pc = pc /\ l(pc).pid = instances[m] /\ l(pc).op = local.op /\ l(pc).model = local.model
  BY <1>1, PcNames DEF Locals
<1>3. \A pc \in {"dying", "killing"} : Sound(a, l(pc))
  BY <1>1, <1>2 DEF Sound
<1>4. \/ \E pc \in {"dying", "killing"} : Become(a, l(pc))
      \/ Become(a, Idle)
  BY DEF UnloadModel, Return
<1>. HIDE DEF l
<1>. QED BY <1>2, <1>3, <1>4, IdleIsSound, TargetKept

LEMMA LoadTarget ==
    ASSUME TypeOK, Targets, NEW a \in Client, NEW m \in Model, NEW op \in {"infer", "load"},
           LoadModel(a, m, op)
    PROVE  Targets'
<1>. DEFINE local == [Idle EXCEPT !.op = op, !.model = m]
<1>0. a \in Actor /\ a # Memory
  BY ModelManagerAssumption DEF Actor
<1>1. \/ Become(a, Idle)
      \/ \E q \in Port : Become(a, [local EXCEPT !.pc = "spawning", !.port = q])
      \/ Running(instances[m]) /\ Become(a, [local EXCEPT !.pc = "forwarding", !.pid = instances[m]])
  BY Zenon DEF LoadModel, Return, local
<1>2. local \in Locals /\ local.op = op /\ local.model = m
  BY LocalOf, PcNames DEF Idle
<1>. HIDE DEF local
<1>3. \A q \in Port : /\ [local EXCEPT !.pc = "spawning", !.port = q] \in Locals
                      /\ Sound(a, [local EXCEPT !.pc = "spawning", !.port = q])
  BY <1>0, <1>2, PcNames DEF Locals, Sound, WithPid
<1>4. \A i \in Pid : /\ [local EXCEPT !.pc = "forwarding", !.pid = i] \in Locals
                     /\ Sound(a, [local EXCEPT !.pc = "forwarding", !.pid = i])
  BY <1>0, <1>2, PcNames DEF Locals, Sound, WithPid
<1>5. Running(instances[m]) => instances[m] \in Pid
  BY Shape DEF Running
<1>6. \E l \in Locals : Become(a, l) /\ Sound(a, l)
  BY <1>0, <1>1, <1>3, <1>4, <1>5, IdleIsSound
<1>. QED BY <1>0, <1>6, TargetKept

LEMMA DeadType == ASSUME TypeOK, NEW i \in Pid PROVE Dead(i) \in Procs /\ Dead(i).port = proc[i].port
BY Shape DEF Dead, Procs, ServerState

LEMMA KillByPortStep == ASSUME IInv, NEW a \in Actor, KillByPort(a) PROVE IInv'
<1>. DEFINE i == actor[a].pid
            l == [actor[a] EXCEPT !.pc = "dying"]
<1>1. TypeOK /\ Targets /\ PortInv /\ i \in Pid
  BY DEF IInv, KillByPort, Targets, Sound, WithPid
<1>2. l \in Locals /\ l.pc = "dying" /\ Sound(a, l)
  BY <1>1, Shape, PcNames DEF Locals, Targets, Sound
<1>3. SameLoads /\ Targets' /\ actor' \in [Actor -> Locals]
  <2>. HIDE DEF l
  <2>1. Become(a, l) /\ actor[a].pc # "spawning"
    BY DEF KillByPort, l
  <2>. QED BY <1>1, <1>2, <2>1, Shape, NotALoad, TargetKept, BecomeType
<1>4. proc' \in [Pid -> Procs] /\ SamePorts /\ orphans' \subseteq Pid
  <2>1. CASE /\ proc' = [j \in Pid |-> IF j \in Victims(i) THEN Dead(j) ELSE proc[j]]
             /\ orphans' = orphans \ Victims(i)
    BY <1>1, <2>1, Shape, DeadType DEF SamePorts
  <2>2. CASE /\ proc' = [proc EXCEPT ![i].state = IF @ = "dead" THEN @ ELSE "lost"]
             /\ orphans' = IF Alive(i) THEN orphans \cup {i} ELSE orphans
    BY <1>1, <2>2, Shape DEF SamePorts, Procs, ServerState
  <2>. QED BY <2>1, <2>2 DEF KillByPort
<1>5. TypeOK'
  BY <1>1, <1>3, <1>4, Shape, ShapeNext DEF KillByPort
<1>6. PortInv'
  BY <1>1, <1>3, <1>4, QuietKeeps DEF KillByPort
<1>. QED BY <1>3, <1>5, <1>6 DEF IInv

LEMMA WaitExitStep == ASSUME IInv, NEW a \in Actor, WaitExit(a) PROVE IInv'
<1>. DEFINE i == actor[a].pid
            l == [actor[a] EXCEPT !.pc = "evicting", !.pid = None]
<1>1. TypeOK /\ Targets /\ PortInv /\ i \in Pid
  BY DEF IInv, WaitExit, Targets, Sound, WithPid
<1>2. l \in Locals /\ l.pc = "evicting" /\ Sound(a, l) /\ Idle \in Locals /\ Idle.pc = "idle" /\ Sound(a, Idle)
  BY <1>1, Shape, PcNames, IdleIsSound DEF Locals, Idle, Targets, Sound, WithPid
<1>3. SameLoads /\ Targets' /\ actor' \in [Actor -> Locals]
  <2>. HIDE DEF l
  <2>1. (Become(a, l) \/ Become(a, Idle)) /\ actor[a].pc # "spawning"
    BY DEF WaitExit, Return, l
  <2>. QED BY <1>1, <1>2, <2>1, Shape, NotALoad, TargetKept, BecomeType
<1>4. proc' \in [Pid -> Procs] /\ SamePorts /\ orphans' \subseteq Pid
  BY <1>1, Shape, DeadType DEF WaitExit, SamePorts
<1>5. TypeOK'
  BY <1>1, <1>3, <1>4, Shape, ShapeNext DEF WaitExit
<1>6. PortInv'
  BY <1>1, <1>3, <1>4, QuietKeeps DEF WaitExit
<1>. QED BY <1>3, <1>5, <1>6 DEF IInv

(* Every action that unloads a model is, for the invariant, an unload. *)
LEMMA UnloadPreserves ==
    ASSUME IInv, NEW a \in Actor, NEW m \in Model, NEW local \in Locals,
           Sound(a, local), actor[a].pc # "spawning", instances[m] # None, UnloadModel(a, m, local),
           UNCHANGED <<proc, wanted, leaked>>, controller' \in BOOLEAN, orphans' \subseteq Pid
    PROVE  IInv'
<1>1. TypeOK /\ Targets /\ PortInv
  BY DEF IInv
<1>2. TypeOK'
  BY <1>1, UnloadType, Shape, ShapeNext
<1>3. Targets'
  BY <1>1, UnloadTarget
<1>4. PortInv'
  BY <1>1, UnloadKeeps DEF SamePorts
<1>. QED BY <1>2, <1>3, <1>4 DEF IInv

LEMMA LoadPreserves ==
    ASSUME IInv, NEW a \in Client, NEW m \in Model, NEW op \in {"infer", "load"},
           actor[a].pc # "spawning", LoadModel(a, m, op),
           UNCHANGED <<wanted, controller, leaked, orphans>>
    PROVE  IInv'
<1>1. TypeOK /\ Targets /\ PortInv
  BY DEF IInv
<1>2. op \in Op /\ a \in Actor
  BY PcNames DEF Actor
<1>3. TypeOK'
  BY <1>1, <1>2, LoadType, Shape, ShapeNext
<1>. QED BY <1>1, <1>2, <1>3, LoadTarget, LoadKeeps DEF IInv

(* A task goes on, and nothing else happens. *)
LEMMA BecomePreserves ==
    ASSUME IInv, NEW a \in Actor, NEW l \in Locals, Become(a, l),
           actor[a].pc # "spawning", l.pc # "spawning", Sound(a, l),
           UNCHANGED <<instances, usedPorts, wanted, leaked>>,
           controller' \in BOOLEAN, orphans' \subseteq Pid,
           proc' \in [Pid -> Procs], SamePorts
    PROVE  IInv'
<1>1. TypeOK /\ Targets /\ PortInv
  BY DEF IInv
<1>2. TypeOK'
  BY <1>1, BecomeType, Shape, ShapeNext
<1>. QED BY <1>1, <1>2, NotALoad, QuietKeeps, TargetKept DEF IInv

LEMMA MgmtUnloadStep == ASSUME IInv, NEW a \in Client, NEW m \in Model, MgmtUnload(a, m) PROVE IInv'
<1>. DEFINE local == [Idle EXCEPT !.op = "unload", !.model = m]
<1>0. a \in Actor /\ a # Memory
  BY ModelManagerAssumption DEF Actor
<1>1. local \in Locals /\ Sound(a, local)
  BY <1>0, LocalOf, PcNames DEF Sound, WithPid, Idle
<1>2. actor[a].pc # "spawning" /\ orphans \subseteq Pid /\ controller \in BOOLEAN
  BY Shape DEF MgmtUnload, Idle, IInv
<1>. HIDE DEF local
<1>. QED BY <1>0, <1>1, <1>2, UnloadPreserves DEF MgmtUnload, local

LEMMA GetOrLoadStep == ASSUME IInv, NEW a \in Client, NEW m \in Model, GetOrLoad(a, m) PROVE IInv'
<1>1. actor[a].pc # "spawning"
  BY DEF GetOrLoad, Idle
<1>. QED BY <1>1, LoadPreserves DEF GetOrLoad

-----------------------------------------------------------------------------
(* The steps of a load. *)

(* The spawn failed: the port is lost, and stays reserved. *)
LEMMA SpawnFailsStep == ASSUME IInv, NEW a \in Actor, SpawnFails(a) PROVE IInv'
<1>1. TypeOK /\ Targets /\ PortInv /\ a \in Spawning
  BY DEF IInv, SpawnFails, Spawning
<1>2. /\ Spawning' = Spawning \ {a}
      /\ \A b \in Spawning' : actor'[b].port = actor[b].port
      /\ leaked' = leaked \cup {actor[a].port}
  BY <1>1, Shape DEF SpawnFails, Return, Become, Spawning, Idle
<1>3. Registered' = Registered /\ \A m \in Registered : PortOf(m)' = PortOf(m)
  BY DEF SpawnFails, Registered, PortOf
<1>4. TypeOK'
  BY <1>1, Shape, ShapeNext, IdleIsLocal, BecomeType DEF SpawnFails, Return, PortInv, PortsHeld
<1>5. Targets'
  BY <1>1, IdleIsSound, TargetKept DEF SpawnFails, Return
<1>6. PortsHeld'
  BY <1>1, <1>2, <1>3 DEF PortInv, PortsHeld, PortsReserved
<1>7. PortsReserved'
  BY <1>1, <1>2, <1>3 DEF PortInv, PortsReserved, SpawnFails
<1>8. PortAccounting'
  <2>1. {actor[b].port : b \in Spawning} = {actor[b].port : b \in Spawning}' \cup {actor[a].port}
    BY <1>1, <1>2
  <2>2. {PortOf(m) : m \in Registered}' = {PortOf(m) : m \in Registered}
    BY <1>3
  <2>3. \A m \in Registered : PortOf(m) # actor[a].port
    BY <1>1 DEF PortInv, PortsReserved
  <2>. QED BY <1>1, <1>2, <1>3, <2>1, <2>2, <2>3 DEF PortInv, PortAccounting, SpawnFails
<1>. QED BY <1>4, <1>5, <1>6, <1>7, <1>8 DEF IInv, PortInv

(* The port goes over from the load to the new instance; that of an        *)
(* instance another call has registered in the meantime is lost.           *)
LEMMA SpawnStep == ASSUME IInv, NEW a \in Actor, Spawn(a) PROVE IInv'
<1>1. TypeOK /\ Targets /\ PortInv /\ a \in Spawning
  BY DEF IInv, Spawn, Spawning
<1>m. PICK m \in Model : m = actor[a].model
  BY <1>1 DEF Targets, Sound, Spawning
<1>q. PICK q \in Port : q = actor[a].port
  BY <1>1 DEF PortInv, PortsHeld
<1>2. PICK i \in Pid :
        /\ i \in Fresh
        /\ proc' = [proc EXCEPT ![i] = [NoProc EXCEPT !.state = "starting", !.model = m, !.port = q]]
        /\ instances' = [instances EXCEPT ![m] = i]
        /\ Become(a, [actor[a] EXCEPT !.pc = "waiting", !.pid = i, !.port = None])
  BY <1>m, <1>q, Zenon DEF Spawn, First
<1>. DEFINE l == [actor[a] EXCEPT !.pc = "waiting", !.pid = i, !.port = None]
<1>3. l \in Locals /\ l.pc = "waiting" /\ Sound(a, l)
  BY <1>1, Shape, PcNames DEF Locals, Targets, Sound, WithPid, Spawning
<1>4. Become(a, l) /\ leaked' = IF instances[m] = None THEN leaked ELSE leaked \cup {proc[instances[m]].port}
  BY <1>2, <1>m, Zenon DEF Spawn
<1>5. orphans' \subseteq Pid /\ UNCHANGED <<usedPorts, wanted, controller>>
  BY <1>1, <1>m, Shape DEF Spawn, Running
<1>. HIDE DEF l
<1>6. /\ proc' \in [Pid -> Procs] /\ proc'[i].port = q
      /\ \A j \in Pid \ {i} : proc'[j].port = proc[j].port
  <2>1. [NoProc EXCEPT !.state = "starting", !.model = m, !.port = q] \in Procs
    BY <1>1 DEF Procs, NoProc, ServerState
  <2>. QED BY <1>1, <1>2, <2>1, Shape DEF NoProc
<1>7. /\ Registered' = Registered \cup {m}
      /\ PortOf(m)' = q
      /\ \A n \in Registered \ {m} : PortOf(n)' = PortOf(n)
  <2>1. i # None
    BY ModelManagerAssumption DEF None
  <2>2. \A n \in Model : instances[n] # i
    BY <1>2 DEF Fresh
  <2>. QED BY <1>1, <1>2, <1>6, <2>1, <2>2, Shape DEF Registered, PortOf
<1>8. Spawning' = Spawning \ {a} /\ \A b \in Spawning' : actor'[b].port = actor[b].port
  BY <1>1, <1>3, <1>4, Shape DEF Become, Spawning
<1>9. leaked' = IF m \in Registered THEN leaked \cup {PortOf(m)} ELSE leaked
  BY <1>1, <1>4 DEF Registered, PortOf
<1>10. {actor[b].port : b \in Spawning} = {actor[b].port : b \in Spawning}' \cup {q}
  BY <1>1, <1>8, <1>q
<1>11. PortsHeld'
  <2>1. \A b \in Spawning' : actor[b].port # PortOf(m) \/ m \notin Registered
    BY <1>1, <1>8 DEF PortInv, PortsReserved
  <2>. QED BY <1>1, <1>7, <1>8, <1>9, <2>1 DEF PortInv, PortsHeld
<1>12. PortsReserved'
  <2>1. /\ q \in usedPorts
        /\ \A n \in Registered : PortOf(n) # q
        /\ \A b \in Spawning \ {a} : actor[b].port # q
    BY <1>1, <1>q DEF PortInv, PortsReserved
  <2>. QED BY <1>1, <1>5, <1>7, <1>8, <2>1 DEF PortInv, PortsReserved
<1>13. PortAccounting'
  <2>1. {PortOf(n) : n \in Registered}' = {PortOf(n) : n \in Registered \ {m}} \cup {q}
    BY <1>7
  <2>2. usedPorts' = leaked' \cup {PortOf(n) : n \in Registered}' \cup {actor[b].port : b \in Spawning}'
    <3>1. CASE m \in Registered
      <4>1. {PortOf(n) : n \in Registered} = {PortOf(n) : n \in Registered \ {m}} \cup {PortOf(m)}
        BY <3>1
      <4>. QED BY <1>1, <1>5, <1>9, <1>10, <2>1, <3>1, <4>1 DEF PortInv, PortAccounting
    <3>2. CASE m \notin Registered
      <4>1. {PortOf(n) : n \in Registered} = {PortOf(n) : n \in Registered \ {m}}
        BY <3>2
      <4>. QED BY <1>1, <1>5, <1>9, <1>10, <2>1, <3>2, <4>1 DEF PortInv, PortAccounting
    <3>. QED BY <3>1, <3>2
  <2>3. q \notin leaked' /\ \A n \in Registered \ {m} : PortOf(n) \notin leaked'
    BY <1>1, <1>9, <1>q DEF PortInv, PortsHeld, PortsReserved, PortAccounting
  <2>. QED BY <1>7, <2>2, <2>3 DEF PortAccounting
<1>14. TypeOK'
  <2>1. instances' \in [Model -> Pid \cup {None}] /\ actor' \in [Actor -> Locals]
    BY <1>1, <1>2, <1>3, <1>4, Shape, BecomeType
  <2>2. leaked' \subseteq Port
    BY <1>1, <1>9, Shape DEF PortInv, PortsHeld
  <2>. QED BY <1>1, <1>5, <1>6, <2>1, <2>2, Shape, ShapeNext
<1>15. Targets'
  BY <1>1, <1>3, <1>4, TargetKept
<1>. QED BY <1>11, <1>12, <1>13, <1>14, <1>15 DEF IInv, PortInv

(* A task that only goes on to another place. *)
LEMMA GoOn ==
    ASSUME IInv, NEW a \in Actor, NEW l \in Locals, Become(a, l), Sound(a, l),
           actor[a].pc # "spawning", l.pc # "spawning",
           UNCHANGED <<instances, usedPorts, proc, wanted, controller, leaked, orphans>>
    PROVE  IInv'
BY BecomePreserves, Shape DEF IInv, SamePorts

LEMMA WaitReadyStep == ASSUME IInv, NEW a \in Actor, WaitReady(a) PROVE IInv'
<1>. DEFINE i == actor[a].pid
            l == [actor[a] EXCEPT !.pc = "forwarding"]
<1>1. TypeOK /\ Targets /\ i \in Pid /\ actor[a].model \in Model
  BY DEF IInv, WaitReady, Targets, Sound, WithPid
<1>2. l \in Locals /\ l.pc = "forwarding" /\ Sound(a, l) /\ Idle \in Locals /\ Sound(a, Idle) /\ Idle.pc = "idle"
  BY <1>1, Shape, PcNames, IdleIsSound DEF Locals, Targets, Sound, WithPid, Idle
<1>3. proc' \in [Pid -> Procs] /\ SamePorts
  <2>1. \A q \in Procs, flag \in BOOLEAN :
          [q EXCEPT !.protected = flag] \in Procs /\ [q EXCEPT !.protected = flag].port = q.port
    BY DEF Procs
  <2>. QED BY <1>1, <2>1, Shape DEF WaitReady, SamePorts
<1>. HIDE DEF l
<1>4. (Become(a, l) \/ Become(a, Idle)) /\ actor[a].pc # "spawning"
  BY DEF WaitReady, Return, l
<1>5. /\ UNCHANGED <<instances, usedPorts, wanted, leaked>>
      /\ controller' \in BOOLEAN /\ orphans' \subseteq Pid
  BY <1>1, Shape DEF WaitReady
<1>. QED BY <1>2, <1>3, <1>4, <1>5, BecomePreserves

LEMMA WaitFailsStep == ASSUME IInv, NEW a \in Actor, WaitFails(a) PROVE IInv'
<1>. DEFINE l == [actor[a] EXCEPT !.pc = "failed"]
<1>1. l \in Locals /\ l.pc = "failed" /\ Sound(a, l)
  BY Shape, PcNames DEF IInv, WaitFails, Locals, Targets, Sound, WithPid
<1>2. Become(a, l) /\ actor[a].pc # "spawning"
  BY DEF WaitFails
<1>. HIDE DEF l
<1>. QED BY <1>1, <1>2, GoOn DEF WaitFails

LEMMA CleanUpStep == ASSUME IInv, NEW a \in Actor, CleanUp(a) PROVE IInv'
<1>1. TypeOK /\ actor[a] \in Locals /\ Sound(a, actor[a]) /\ actor[a].model \in Model
  BY Shape DEF IInv, CleanUp, Targets, Sound
<1>2. CASE instances[actor[a].model] # None /\ UnloadModel(a, actor[a].model, actor[a])
  BY <1>1, <1>2, Shape, UnloadPreserves DEF CleanUp
<1>3. CASE Return(a) /\ UNCHANGED <<instances, usedPorts>>
  BY <1>3, IdleIsSound, GoOn DEF CleanUp, Return, Idle
<1>. QED BY <1>2, <1>3 DEF CleanUp

-----------------------------------------------------------------------------
(* Requests, evictions, the administrator and the servers. *)

LEMMA PromptStep ==
    ASSUME IInv, NEW a \in Actor, PromptStarts(a) \/ PromptEnds(a) \/ ForwardEnds(a)
    PROVE  IInv'
<1>. DEFINE l(pc) == [actor[a] EXCEPT !.pc = pc]
<1>1. \A pc \in {"prompting", "forwarding"} : l(pc) \in Locals /\ l(pc).pc = pc /\ Sound(a, l(pc))
  BY Shape, PcNames DEF IInv, Locals, Targets, Sound, WithPid
<1>2. Idle \in Locals /\ Sound(a, Idle) /\ Idle.pc = "idle"
  BY IdleIsSound DEF Idle
<1>3. /\ Become(a, l("prompting")) \/ Become(a, l("forwarding")) \/ Become(a, Idle)
      /\ actor[a].pc # "spawning"
      /\ UNCHANGED <<instances, usedPorts, proc, wanted, controller, leaked, orphans>>
  BY DEF PromptStarts, PromptEnds, ForwardEnds, Return, Inferring
<1>. HIDE DEF l
<1>. QED BY <1>1, <1>2, <1>3, GoOn

LEMMA EvictPreserves ==
    ASSUME IInv, NEW a \in Actor, NEW local \in Locals, Sound(a, local), local.rounds < MaxRounds,
           actor[a].pc # "spawning", Evict(a, local), UNCHANGED <<proc, wanted, controller, leaked, orphans>>
    PROVE  IInv'
<1>. DEFINE l == [local EXCEPT !.rounds = @ + 1]
<1>1. PICK m \in Model : instances[m] # None /\ UnloadModel(a, m, l)
  BY DEF Evict, Candidates, Running
<1>2. l \in Locals /\ Sound(a, l)
  BY LocalFields DEF Sound, Locals
<1>. HIDE DEF l
<1>. QED BY <1>1, <1>2, UnloadPreserves, Shape DEF IInv

LEMMA MemoryTickStep == ASSUME IInv, MemoryTick PROVE IInv'
<1>. DEFINE l == [Idle EXCEPT !.op = "evict"]
<1>1. l \in Locals /\ Sound(Memory, l) /\ l.rounds < MaxRounds
  <2>1. l \in Locals
    BY LocalOf, PcNames
  <2>2. Sound(Memory, l)
    BY DEF Sound, Idle, WithPid
  <2>3. l.rounds = 0 /\ 0 < MaxRounds
    BY ModelManagerAssumption DEF Idle
  <2>. QED BY <2>1, <2>2, <2>3
<1>2. Memory \in Actor /\ actor[Memory].pc # "spawning" /\ Evict(Memory, l)
  BY DEF MemoryTick, Actor, Idle
<1>. HIDE DEF l
<1>. QED BY <1>1, <1>2, EvictPreserves DEF MemoryTick

LEMMA EvictAgainStep == ASSUME IInv, NEW a \in Actor, EvictAgain(a) PROVE IInv'
<1>1. actor[a] \in Locals /\ Sound(a, actor[a])
  BY Shape DEF IInv, Targets
<1>. QED BY <1>1, EvictPreserves DEF EvictAgain

LEMMA EvictEndsStep == ASSUME IInv, NEW a \in Actor, EvictEnds(a) PROVE IInv'
<1>1. CASE Return(a) /\ UNCHANGED <<instances, usedPorts, proc>>
  BY <1>1, IdleIsSound, GoOn DEF EvictEnds, Return, Idle
<1>2. CASE actor[a].op = "load" /\ LoadModel(a, actor[a].model, "load")
  <2>1. actor[a].model \in Model /\ a \in Client
    BY <1>2 DEF IInv, Targets, Sound, Actor
  <2>. QED BY <1>2, <2>1, LoadPreserves DEF EvictEnds
<1>. QED BY <1>1, <1>2 DEF EvictEnds

LEMMA MgmtLoadStep == ASSUME IInv, NEW a \in Client, NEW m \in Model, MgmtLoad(a, m) PROVE IInv'
<1>. DEFINE l == [Idle EXCEPT !.op = "load", !.model = m]
<1>0. a \in Actor /\ a # Memory
  BY ModelManagerAssumption DEF Actor
<1>1. l \in Locals /\ Sound(a, l) /\ l.rounds < MaxRounds
  <2>1. l \in Locals
    BY LocalOf, PcNames
  <2>2. Sound(a, l)
    BY <1>0 DEF Sound, Idle, WithPid
  <2>3. l.rounds = 0 /\ 0 < MaxRounds
    BY ModelManagerAssumption DEF Idle
  <2>. QED BY <2>1, <2>2, <2>3
<1>2. actor[a].pc # "spawning"
  BY DEF MgmtLoad, Idle
<1>3. CASE LoadModel(a, m, "load")
  BY <1>2, <1>3, LoadPreserves DEF MgmtLoad
<1>4. CASE Evict(a, l) /\ UNCHANGED proc
  <2>. HIDE DEF l
  <2>. QED BY <1>0, <1>1, <1>2, <1>4, EvictPreserves DEF MgmtLoad
<1>. QED BY <1>3, <1>4 DEF MgmtLoad

(* Cancelling the controller interrupts an eviction, never a load. *)
LEMMA MemoryStopStep == ASSUME IInv, MemoryStop PROVE IInv'
<1>1. Memory \in Actor /\ TypeOK /\ Sound(Memory, actor[Memory])
  BY DEF IInv, Targets, Actor
<1>2. actor[Memory].pc # "spawning"
  BY <1>1 DEF Sound
<1>3. actor[Memory].pid # None => actor[Memory].pid \in Pid
  BY <1>1, Shape DEF Locals
<1>4. Idle \in Locals /\ Sound(Memory, Idle) /\ Idle.pc = "idle"
  BY <1>1, IdleIsSound DEF Idle
<1>5. /\ controller' \in BOOLEAN /\ orphans' \subseteq Pid
      /\ proc' \in [Pid -> Procs] /\ SamePorts
      /\ UNCHANGED <<instances, usedPorts, wanted, leaked>> /\ Become(Memory, Idle)
  BY <1>1, <1>3, Shape DEF MemoryStop, SamePorts, Return
<1>. QED BY <1>1, <1>2, <1>4, <1>5, BecomePreserves

(* Steps of the environment: no task moves. *)
LEMMA ServersPreserve ==
    ASSUME IInv, UNCHANGED <<instances, usedPorts, actor, leaked>>,
           proc' \in [Pid -> Procs], SamePorts, wanted' \in [Model -> BOOLEAN],
           controller' \in BOOLEAN, orphans' \subseteq Pid
    PROVE  IInv'
<1>1. TypeOK'
  BY Shape, ShapeNext DEF IInv
<1>2. Targets'
  BY DEF IInv, Targets
<1>3. SameLoads
  BY DEF SameLoads, Spawning
<1>. QED BY <1>1, <1>2, <1>3, QuietKeeps DEF IInv

LEMMA MemoryStartStep == ASSUME IInv, MemoryStart PROVE IInv'
BY ServersPreserve, Shape DEF IInv, MemoryStart, SamePorts

LEMMA SetProtectedStep ==
    ASSUME IInv, NEW m \in Protectable, NEW flag \in BOOLEAN, SetProtected(m, flag) PROVE IInv'
<1>1. TypeOK /\ m \in Model
  BY ModelManagerAssumption DEF IInv
<1>2. proc' \in [Pid -> Procs] /\ SamePorts
  <2>1. \A q \in Procs :
          [q EXCEPT !.protected = flag] \in Procs /\ [q EXCEPT !.protected = flag].port = q.port
    BY DEF Procs
  <2>. QED BY <1>1, <2>1, Shape DEF SetProtected, SamePorts
<1>. QED BY <1>1, <1>2, ServersPreserve, Shape DEF SetProtected

LEMMA BindStep == ASSUME IInv, NEW i \in Pid, Bind(i) PROVE IInv'
<1>1. TypeOK
  BY DEF IInv
<1>2. proc' \in [Pid -> Procs] /\ SamePorts
  <2>1. \A q \in Procs : [q EXCEPT !.state = "up"] \in Procs /\ [q EXCEPT !.state = "up"].port = q.port
    BY DEF Procs, ServerState
  <2>. QED BY <1>1, <2>1, Shape, DeadType DEF Bind, SamePorts
<1>. QED BY <1>1, <1>2, ServersPreserve, Shape DEF Bind

LEMMA DieStep == ASSUME IInv, NEW i \in Pid, Die(i) PROVE IInv'
<1>1. TypeOK
  BY DEF IInv
<1>2. proc' \in [Pid -> Procs] /\ SamePorts
  BY <1>1, Shape, DeadType DEF Die, SamePorts
<1>. QED BY <1>1, <1>2, ServersPreserve, Shape DEF Die

LEMMA WrapperDiesStep == ASSUME IInv, NEW i \in Pid, WrapperDies(i) PROVE IInv'
<1>1. TypeOK
  BY DEF IInv
<1>2. proc' \in [Pid -> Procs] /\ SamePorts
  <2>1. \A q \in Procs : [q EXCEPT !.state = "lost"] \in Procs /\ [q EXCEPT !.state = "lost"].port = q.port
    BY DEF Procs, ServerState
  <2>. QED BY <1>1, <2>1, Shape DEF WrapperDies, SamePorts
<1>. QED BY <1>1, <1>2, ServersPreserve, Shape DEF WrapperDies

-----------------------------------------------------------------------------
(* The theorems. *)

LEMMA InitInv == Init => IInv
<1>. SUFFICES ASSUME Init PROVE IInv
  OBVIOUS
<1>1. NoProc \in Procs
  BY DEF NoProc, Procs, ServerState
<1>2. Registered = {} /\ Spawning = {}
  BY DEF Init, Registered, Spawning, Idle
<1>3. TypeOK
  BY <1>1, IdleIsLocal, Shape DEF Init
<1>4. Targets
  BY IdleIsSound DEF Init, Targets
<1>5. PortInv
  BY <1>2 DEF Init, PortInv, PortsHeld, PortsReserved, PortAccounting
<1>. QED BY <1>3, <1>4, <1>5 DEF IInv

LEMMA NextStep == IInv /\ [Next]_vars => IInv'
<1>. SUFFICES ASSUME IInv, [Next]_vars PROVE IInv'
  OBVIOUS
<1>1. ASSUME NEW a \in Actor, Step(a) PROVE IInv'
  BY <1>1, SpawnFailsStep, SpawnStep, WaitReadyStep, WaitFailsStep, CleanUpStep, KillByPortStep,
     WaitExitStep, EvictAgainStep, EvictEndsStep, PromptStep
     DEF Step, LoadStep, UnloadStep, EvictStep
<1>2. ASSUME NEW a \in Client, PromptStarts(a) \/ PromptEnds(a) PROVE IInv'
  BY <1>2, PromptStep DEF Actor
<1>3. ASSUME NEW a \in Client, NEW m \in Model, GetOrLoad(a, m) \/ MgmtLoad(a, m) \/ MgmtUnload(a, m)
      PROVE  IInv'
  BY <1>3, GetOrLoadStep, MgmtLoadStep, MgmtUnloadStep
<1>4. CASE MemoryTick \/ MemoryStart \/ MemoryStop
  BY <1>4, MemoryTickStep, MemoryStartStep, MemoryStopStep
<1>5. ASSUME NEW m \in Protectable, NEW flag \in BOOLEAN, SetProtected(m, flag) PROVE IInv'
  BY <1>5, SetProtectedStep
<1>6. ASSUME NEW i \in Pid, Bind(i) \/ Die(i) \/ WrapperDies(i) PROVE IInv'
  BY <1>6, BindStep, DieStep, WrapperDiesStep
<1>7. CASE UNCHANGED vars
  BY <1>7, ServersPreserve, Shape DEF vars, IInv, SamePorts
<1>. QED BY <1>1, <1>2, <1>3, <1>4, <1>5, <1>6, <1>7 DEF Next

(* Registry, reservations and tasks fit together in every reachable state, *)
(* for any models and ports, any number of concurrent requests and any     *)
(* interleaving with the memory controller and the deaths of servers.      *)
THEOREM InductiveInvariant == Spec => []IInv
<1>. QED BY InitInv, NextStep, PTL DEF Spec

(* Type correctness. *)
THEOREM TypeCorrect == Spec => []TypeOK
<1>1. IInv => TypeOK
  BY DEF IInv
<1>. QED BY <1>1, InductiveInvariant, PTL

(* No two instances or loads ever share a port, and each holds its own. *)
THEOREM PortsAreReserved == Spec => []PortsReserved
<1>1. IInv => PortsReserved
  BY DEF IInv, PortInv
<1>. QED BY <1>1, InductiveInvariant, PTL

(* Ports are lost to failed spawns and overlapping loads, and to nothing else. *)
THEOREM PortsAreAccounted == Spec => []PortAccounting
<1>1. IInv => PortAccounting
  BY DEF IInv, PortInv
<1>. QED BY <1>1, InductiveInvariant, PTL

-----------------------------------------------------------------------------
(* No server gets lost.  A server that is alive is registered, or a task   *)
(* is about to signal it, or it is an orphan.  Two facts keep this true:   *)
(* the instance registered for m runs m, so that the pop of m touches no   *)
(* other server, and a server that survived its wrapper is an orphan       *)
(* already, so that dropping it from the registry as dead loses nothing.   *)

Killing == {"killing", "dying"}
Hunted(i) == \E a \in Actor : actor[a].pc \in Killing /\ actor[a].pid = i

LostAreOrphans == \A i \in Pid : proc[i].state = "lost" => i \in orphans
RegisteredByName == \A m \in Registered : proc[instances[m]].model = m

TrackInv == Tracked /\ LostAreOrphans /\ RegisteredByName

LEMMA TrackedAsHunted ==
    Tracked <=> \A i \in Pid : Alive(i) => instances[proc[i].model] = i \/ Hunted(i) \/ i \in orphans
BY DEF Tracked, Hunted, Killing

LEMMA TrackedNext ==
    Tracked' <=> \A i \in Pid : Alive(i)' => instances'[proc'[i].model] = i \/ Hunted(i)' \/ i \in orphans'
BY DEF Tracked, Hunted, Killing

LEMMA MoveHunts ==
    ASSUME TypeOK, NEW a \in Actor, NEW l, Become(a, l), actor[a].pc \notin Killing
    PROVE  /\ \A i \in Pid : Hunted(i) => Hunted(i)'
           /\ \A i \in Pid : l.pc \in Killing /\ l.pid = i => Hunted(i)'
BY Shape DEF Become, Hunted

SameServers == \A i \in Pid : proc'[i].state = proc[i].state /\ proc'[i].model = proc[i].model

(* Nothing is registered or unregistered, and no server starts; one that   *)
(* changes its state has died or is an orphan.                             *)
LEMMA ServersKeep ==
    ASSUME TypeOK, TrackInv, UNCHANGED instances,
           \A i \in Pid : proc'[i].model = proc[i].model,
           \A i \in Pid : \/ ~Alive(i)'
                          \/ i \in orphans'
                          \/ /\ Alive(i) /\ proc'[i].state # "lost"
                             /\ i \notin orphans
                             /\ Hunted(i) => Hunted(i)'
    PROVE  TrackInv'
<1>1. RegisteredByName'
  BY Shape DEF TrackInv, RegisteredByName, Registered
<1>2. LostAreOrphans'
  BY DEF LostAreOrphans, Alive
<1>3. Tracked'
  BY TrackedAsHunted, TrackedNext DEF TrackInv
<1>. QED BY <1>1, <1>2, <1>3 DEF TrackInv

(* A task moves that is about to signal nobody. *)
LEMMA MoveKeepsTrack ==
    ASSUME TypeOK, TrackInv, UNCHANGED <<instances, orphans>>, SameServers,
           NEW a \in Actor, NEW l, Become(a, l), actor[a].pc \notin Killing
    PROVE  TrackInv'
<1>1. \A i \in Pid : Hunted(i) => Hunted(i)'
  BY MoveHunts
<1>2. \A i \in Pid : Alive(i)' = Alive(i)
  BY DEF Alive, SameServers
<1>3. \A i \in Pid : proc'[i].state = "lost" => i \in orphans'
  BY DEF SameServers, TrackInv, LostAreOrphans
<1>. QED BY <1>1, <1>2, <1>3, ServersKeep DEF SameServers

(* The pop of m, by an unload or by a load that finds a dead instance: the *)
(* server is hunted from now on, or dead, or an orphan.                    *)
LEMMA PopKeepsTrack ==
    ASSUME TypeOK, TrackInv, UNCHANGED <<proc, orphans>>,
           NEW m \in Model, instances' = [instances EXCEPT ![m] = None],
           NEW old, old = instances[m], Running(old) => Hunted(old)',
           \A i \in Pid : Hunted(i) => Hunted(i)'
    PROVE  TrackInv'
<1>1. RegisteredByName'
  BY Shape DEF TrackInv, RegisteredByName, Registered
<1>2. LostAreOrphans'
  BY DEF TrackInv, LostAreOrphans
<1>3. ASSUME NEW i \in Pid, Alive(i)'
      PROVE  instances'[proc'[i].model] = i \/ Hunted(i)' \/ i \in orphans'
  <2>1. Alive(i) /\ (instances[proc[i].model] = i \/ Hunted(i) \/ i \in orphans)
    BY <1>3, TrackedAsHunted DEF TrackInv, Alive
  <2>2. CASE old = i
    <3>1. proc[i].state \in {"starting", "up", "lost"}
      BY <2>1, Shape DEF Alive, Procs, ServerState
    <3>2. i # None
      BY ModelManagerAssumption DEF None
    <3>. QED BY <2>2, <3>1, <3>2 DEF Running, TrackInv, LostAreOrphans
  <2>3. CASE old # i
    BY <2>1, <2>3, Shape DEF Procs
  <2>. QED BY <2>2, <2>3
<1>. QED BY <1>1, <1>2, <1>3, TrackedNext DEF TrackInv

LEMMA UnloadTracked ==
    ASSUME TypeOK, TrackInv, NEW a \in Actor, actor[a].pc \notin Killing,
           NEW m \in Model, NEW local \in Locals, instances[m] # None, UnloadModel(a, m, local),
           UNCHANGED <<proc, orphans>>
    PROVE  TrackInv'
<1>1. instances' = [instances EXCEPT ![m] = None] /\ instances[m] \in Pid
  BY Shape DEF UnloadModel, Unregister
<1>2. PICK old \in Pid : old = instances[m]
  BY <1>1
<1>3. \A pc \in Killing : [local EXCEPT !.pc = pc, !.pid = old].pc = pc
                         /\ [local EXCEPT !.pc = pc, !.pid = old].pid = old
  BY DEF Locals
<1>4. \/ Running(old) /\ \E pc \in Killing : Become(a, [local EXCEPT !.pc = pc, !.pid = old])
      \/ ~Running(old) /\ Become(a, Idle)
  BY <1>2 DEF UnloadModel, Return, Killing
<1>5. PICK l : Become(a, l) /\ (Running(old) => l.pc \in Killing /\ l.pid = old)
  <2>1. CASE Running(old)
    <3>1. PICK pc \in Killing : Become(a, [local EXCEPT !.pc = pc, !.pid = old])
      BY <1>4, <2>1
    <3>. DEFINE l == [local EXCEPT !.pc = pc, !.pid = old]
    <3>2. l.pc \in Killing /\ l.pid = old
      BY <1>3
    <3>3. Become(a, l)
      BY <3>1
    <3>. HIDE DEF l
    <3>. QED BY <3>2, <3>3
  <2>2. CASE ~Running(old)
    BY <1>4, <2>2
  <2>. QED BY <2>1, <2>2
<1>6. (\A i \in Pid : Hunted(i) => Hunted(i)') /\ (Running(old) => Hunted(old)')
  BY <1>5, MoveHunts
<1>. QED BY <1>1, <1>2, <1>6, PopKeepsTrack

LEMMA LoadTracked ==
    ASSUME TypeOK, TrackInv, NEW a \in Actor, actor[a].pc \notin Killing,
           NEW m \in Model, NEW op, LoadModel(a, m, op), UNCHANGED orphans
    PROVE  TrackInv'
<1>1. PICK l : Become(a, l)
  BY Zenon DEF LoadModel, Return
<1>2. CASE Running(instances[m])
  <2>1. UNCHANGED instances
    BY <1>2, Zenon DEF LoadModel
  <2>2. proc' = proc \/ proc' = [proc EXCEPT ![instances[m]].protected = wanted[m]]
    BY Zenon DEF LoadModel
  <2>3. SameServers
    BY <2>2, Shape DEF SameServers, Procs
  <2>. QED BY <1>1, <2>1, <2>3, MoveKeepsTrack
<1>3. CASE ~Running(instances[m])
  <2>1. instances' = [instances EXCEPT ![m] = None] /\ UNCHANGED proc
    BY <1>3, Zenon DEF LoadModel
  <2>. QED BY <1>1, <1>3, <2>1, MoveHunts, PopKeepsTrack
<1>. QED BY <1>2, <1>3

LEMMA DeadServer ==
    ASSUME TypeOK, NEW i \in Pid
    PROVE  Dead(i).state = "dead" /\ Dead(i).model = proc[i].model
BY Shape DEF Dead, Procs

LEMMA KillTracked == ASSUME IInv, TrackInv, NEW a \in Actor, KillByPort(a) PROVE TrackInv'
<1>1. TypeOK /\ actor[a].pid \in Pid /\ UNCHANGED instances
  BY DEF IInv, KillByPort, Targets, Sound, WithPid
<1>. PICK i \in Pid : i = actor[a].pid
  BY <1>1
<1>2. \A j \in Pid : Hunted(j) => Hunted(j)'
  <2>1. actor'[a].pc = "dying" /\ actor'[a].pid = i /\ \A b \in Actor \ {a} : actor'[b] = actor[b]
    BY <1>1, Shape DEF KillByPort, Become, Locals
  <2>. QED BY <2>1 DEF Hunted, Killing
<1>3. CASE /\ proc' = [j \in Pid |-> IF j \in Victims(i) THEN Dead(j) ELSE proc[j]]
           /\ orphans' = orphans \ Victims(i)
  <2>1. \A j \in Pid : proc'[j].model = proc[j].model
    BY <1>1, <1>3, DeadServer
  <2>2. \A j \in Pid : j \in Victims(i) => ~Alive(j)'
    BY <1>1, <1>3, DeadServer DEF Alive
  <2>3. \A j \in Pid : j \notin Victims(i) => Alive(j)' = Alive(j) /\ proc'[j].state = proc[j].state
    BY <1>3 DEF Alive
  <2>4. \A j \in Pid : proc[j].state = "lost" => j \in orphans
    BY DEF TrackInv, LostAreOrphans
  <2>. QED BY <1>1, <1>2, <1>3, <2>1, <2>2, <2>3, <2>4, ServersKeep
<1>4. CASE /\ proc' = [proc EXCEPT ![i].state = IF @ = "dead" THEN @ ELSE "lost"]
           /\ orphans' = IF Alive(i) THEN orphans \cup {i} ELSE orphans
  <2>1. \A j \in Pid : proc'[j].model = proc[j].model
    BY <1>1, <1>4, Shape DEF Procs
  <2>2. ~Alive(i)' \/ i \in orphans'
    BY <1>1, <1>4, Shape DEF Alive, Procs
  <2>3. \A j \in Pid \ {i} : proc'[j] = proc[j]
    BY <1>1, <1>4, Shape
  <2>4. \A j \in Pid : proc[j].state = "lost" => j \in orphans
    BY DEF TrackInv, LostAreOrphans
  <2>5. orphans \subseteq orphans'
    BY <1>4
  <2>. QED BY <1>1, <1>2, <2>1, <2>2, <2>3, <2>4, <2>5, ServersKeep DEF Alive
<1>. QED BY <1>3, <1>4 DEF KillByPort

LEMMA ExitTracked == ASSUME IInv, TrackInv, NEW a \in Actor, WaitExit(a) PROVE TrackInv'
<1>1. TypeOK /\ actor[a].pid \in Pid /\ UNCHANGED instances
  BY DEF IInv, WaitExit, Targets, Sound, WithPid
<1>. PICK i \in Pid : i = actor[a].pid
  BY <1>1
<1>2. \A j \in Pid \ {i} : Hunted(j) => Hunted(j)'
  <2>1. PICK l : Become(a, l)
    BY DEF WaitExit, Return
  <2>2. \A b \in Actor \ {a} : actor'[b] = actor[b]
    BY <1>1, <2>1, Shape DEF Become
  <2>. QED BY <2>2 DEF Hunted
<1>3. /\ proc' = [proc EXCEPT ![i] = IF @.state = "lost" THEN @ ELSE Dead(i)]
      /\ orphans' = IF proc[i].state = "lost" THEN orphans ELSE orphans \ {i}
  BY DEF WaitExit
<1>4. \A j \in Pid : proc'[j].model = proc[j].model
  BY <1>1, <1>3, Shape, DeadServer
<1>5. ~Alive(i)' \/ i \in orphans'
  BY <1>1, <1>3, Shape, DeadServer DEF Alive, TrackInv, LostAreOrphans
<1>6. \A j \in Pid \ {i} : proc'[j] = proc[j] /\ (j \in orphans' <=> j \in orphans)
  BY <1>1, <1>3, Shape
<1>7. \A j \in Pid : proc[j].state = "lost" => j \in orphans
  BY DEF TrackInv, LostAreOrphans
<1>. QED BY <1>1, <1>2, <1>4, <1>5, <1>6, <1>7, ServersKeep DEF Alive

(* The new instance takes the place of one that is dead, or an orphan from *)
(* now on.                                                                 *)
LEMMA SpawnTracked == ASSUME IInv, TrackInv, NEW a \in Actor, Spawn(a) PROVE TrackInv'
<1>1. TypeOK /\ actor[a].pc = "spawning"
  BY DEF IInv, Spawn
<1>m. PICK m \in Model : m = actor[a].model
  BY <1>1 DEF IInv, Targets, Sound
<1>2. PICK i \in Pid :
        /\ i \in Fresh
        /\ proc' = [proc EXCEPT ![i] = [NoProc EXCEPT !.state = "starting", !.model = m, !.port = actor[a].port]]
        /\ instances' = [instances EXCEPT ![m] = i]
        /\ \E l : Become(a, l)
  BY <1>m, Zenon DEF Spawn, First
<1>3. /\ \A j \in Pid \ {i} : proc'[j] = proc[j]
      /\ proc'[i].state = "starting" /\ proc'[i].model = m
  BY <1>1, <1>2, Shape DEF NoProc
<1>4. orphans' = IF Running(instances[m]) THEN orphans \cup {instances[m]} ELSE orphans
  BY <1>m DEF Spawn
<1>5. \A j \in Pid : Hunted(j) => Hunted(j)'
  BY <1>1, <1>2, MoveHunts DEF Killing
<1>6. LostAreOrphans'
  BY <1>3, <1>4 DEF TrackInv, LostAreOrphans
<1>7. RegisteredByName'
  <2>1. \A n \in Model : instances[n] # i
    BY <1>2 DEF Fresh
  <2>. QED BY <1>1, <1>2, <1>3, <2>1, Shape DEF TrackInv, RegisteredByName, Registered
<1>8. ASSUME NEW j \in Pid, Alive(j)'
      PROVE  instances'[proc'[j].model] = j \/ Hunted(j)' \/ j \in orphans'
  <2>1. CASE j = i
    BY <1>1, <1>2, <1>3, <2>1, Shape
  <2>2. CASE j # i
    <3>1. Alive(j) /\ proc'[j] = proc[j]
          /\ (instances[proc[j].model] = j \/ Hunted(j) \/ j \in orphans)
      BY <1>3, <1>8, <2>2, TrackedAsHunted DEF TrackInv, Alive
    <3>2. CASE instances[m] = j
      <4>1. proc[j].state \in {"starting", "up", "lost"} /\ j # None
        BY <1>1, <3>1, Shape, ModelManagerAssumption DEF Alive, Procs, ServerState, None
      <4>. QED BY <1>4, <3>2, <4>1 DEF Running, TrackInv, LostAreOrphans
    <3>3. CASE instances[m] # j
      <4>1. proc[j].model = m \/ instances'[proc[j].model] = instances[proc[j].model]
        BY <1>1, <1>2, Shape
      <4>2. orphans \subseteq orphans'
        BY <1>4
      <4>. QED BY <1>5, <3>1, <3>3, <4>1, <4>2
    <3>. QED BY <3>2, <3>3
  <2>. QED BY <2>1, <2>2
<1>. QED BY <1>6, <1>7, <1>8, TrackedNext DEF TrackInv

LEMMA ReadyTracked == ASSUME IInv, TrackInv, NEW a \in Actor, WaitReady(a) PROVE TrackInv'
<1>1. TypeOK /\ actor[a].pc \notin Killing /\ UNCHANGED <<instances, orphans>>
  BY DEF IInv, WaitReady, Killing
<1>2. PICK l : Become(a, l)
  BY DEF WaitReady, Return
<1>3. SameServers
  BY <1>1, Shape DEF WaitReady, SameServers, Procs
<1>. QED BY <1>1, <1>2, <1>3, MoveKeepsTrack

LEMMA CleanUpTracked == ASSUME IInv, TrackInv, NEW a \in Actor, CleanUp(a) PROVE TrackInv'
<1>1. TypeOK /\ actor[a] \in Locals /\ actor[a].model \in Model /\ actor[a].pc \notin Killing
  BY Shape DEF IInv, CleanUp, Targets, Sound, Killing
<1>2. CASE instances[actor[a].model] # None /\ UnloadModel(a, actor[a].model, actor[a])
  BY <1>1, <1>2, UnloadTracked DEF CleanUp
<1>3. CASE Return(a) /\ UNCHANGED <<instances, usedPorts>>
  BY <1>1, <1>3, MoveKeepsTrack DEF CleanUp, Return, SameServers
<1>. QED BY <1>2, <1>3 DEF CleanUp

LEMMA QuietTracked ==
    ASSUME IInv, TrackInv, NEW a \in Actor,
           \/ SpawnFails(a) \/ WaitFails(a) \/ ForwardEnds(a)
           \/ PromptStarts(a) \/ PromptEnds(a)
    PROVE  TrackInv'
<1>1. /\ TypeOK /\ UNCHANGED <<instances, orphans, proc>> /\ actor[a].pc \notin Killing
      /\ \E l : Become(a, l)
  BY Zenon DEF IInv, SpawnFails, WaitFails, ForwardEnds, PromptStarts, PromptEnds, Return, Killing, Inferring
<1>. QED BY <1>1, MoveKeepsTrack DEF SameServers

LEMMA EvictTracked ==
    ASSUME TypeOK, TrackInv, NEW a \in Actor, actor[a].pc \notin Killing,
           NEW local \in Locals, local.rounds < MaxRounds, Evict(a, local), UNCHANGED <<proc, orphans>>
    PROVE  TrackInv'
<1>. DEFINE l == [local EXCEPT !.rounds = @ + 1]
<1>1. PICK m \in Model : instances[m] # None /\ UnloadModel(a, m, l)
  BY DEF Evict, Candidates, Running
<1>2. l \in Locals
  BY LocalFields
<1>. HIDE DEF l
<1>. QED BY <1>1, <1>2, UnloadTracked

LEMMA LocalsOfCalls ==
    ASSUME NEW op \in Op, NEW m \in Model \cup {NoModel}
    PROVE  /\ [Idle EXCEPT !.op = op, !.model = m] \in Locals
           /\ [Idle EXCEPT !.op = op, !.model = m].rounds < MaxRounds
           /\ [Idle EXCEPT !.op = op] \in Locals
           /\ [Idle EXCEPT !.op = op].rounds < MaxRounds
<1>1. 0 < MaxRounds
  BY ModelManagerAssumption
<1>. QED BY <1>1, LocalOf DEF Idle

LEMMA EvictionsTracked ==
    ASSUME IInv, TrackInv, NEW a \in Actor, EvictAgain(a) \/ EvictEnds(a)
    PROVE  TrackInv'
<1>1. TypeOK /\ actor[a] \in Locals /\ actor[a].pc \notin Killing /\ UNCHANGED orphans
  BY Shape DEF IInv, EvictAgain, EvictEnds, Killing
<1>2. CASE EvictAgain(a)
  BY <1>1, <1>2, EvictTracked DEF EvictAgain
<1>3. CASE Return(a) /\ UNCHANGED <<instances, usedPorts, proc>>
  BY <1>1, <1>3, MoveKeepsTrack DEF Return, SameServers
<1>4. CASE actor[a].op = "load" /\ LoadModel(a, actor[a].model, "load")
  <2>1. actor[a].model \in Model
    BY <1>4 DEF IInv, Targets, Sound
  <2>. QED BY <1>1, <1>4, <2>1, LoadTracked
<1>. QED BY <1>2, <1>3, <1>4 DEF EvictEnds

LEMMA CallTracked ==
    ASSUME IInv, TrackInv, NEW a \in Client, NEW m \in Model,
           GetOrLoad(a, m) \/ MgmtLoad(a, m) \/ MgmtUnload(a, m)
    PROVE  TrackInv'
<1>1. TypeOK /\ a \in Actor /\ actor[a].pc \notin Killing /\ UNCHANGED orphans
  BY DEF IInv, GetOrLoad, MgmtLoad, MgmtUnload, Actor, Killing, Idle
<1>2. CASE \E op : LoadModel(a, m, op)
  BY <1>1, <1>2, LoadTracked
<1>3. CASE Evict(a, [Idle EXCEPT !.op = "load", !.model = m]) /\ UNCHANGED proc
  <2>1. "load" \in Op
    BY PcNames
  <2>. QED BY <1>1, <1>3, <2>1, LocalsOfCalls, EvictTracked
<1>4. CASE MgmtUnload(a, m)
  <2>1. [Idle EXCEPT !.op = "unload", !.model = m] \in Locals
    BY LocalsOfCalls, PcNames
  <2>. QED BY <1>1, <1>4, <2>1, UnloadTracked DEF MgmtUnload
<1>. QED BY <1>2, <1>3, <1>4 DEF GetOrLoad, MgmtLoad

(* Cancelling the controller during an eviction leaves an orphan. *)
LEMMA ControllerTracked ==
    ASSUME IInv, TrackInv, MemoryTick \/ MemoryStart \/ MemoryStop
    PROVE  TrackInv'
<1>1. TypeOK /\ Memory \in Actor
  BY DEF IInv, Actor
<1>2. CASE MemoryTick
  <2>1. "evict" \in Op
    BY PcNames
  <2>2. actor[Memory].pc \notin Killing
    BY <1>2 DEF MemoryTick, Idle, Killing
  <2>. QED BY <1>1, <1>2, <2>1, <2>2, LocalsOfCalls, EvictTracked DEF MemoryTick
<1>3. CASE MemoryStart
  BY <1>3, TrackedAsHunted, TrackedNext
     DEF MemoryStart, TrackInv, LostAreOrphans, RegisteredByName, Registered, Hunted, Alive
<1>4. CASE MemoryStop
  <2>. DEFINE i == actor[Memory].pid
  <2>1. UNCHANGED <<instances, proc>> /\ \A b \in Actor \ {Memory} : actor'[b] = actor[b]
    BY <1>1, <1>4, Shape DEF MemoryStop, Return, Become
  <2>2. \A j \in Pid \ {i} : Hunted(j) => Hunted(j)'
    BY <2>1 DEF Hunted
  <2>3. orphans \subseteq orphans' /\ (i \in Pid /\ Alive(i) => i \in orphans')
    BY <1>4, ModelManagerAssumption DEF MemoryStop, None
  <2>4. \A j \in Pid : proc[j].state = "lost" => j \in orphans
    BY DEF TrackInv, LostAreOrphans
  <2>. QED BY <1>1, <2>1, <2>2, <2>3, <2>4, ServersKeep DEF Alive
<1>. QED BY <1>2, <1>3, <1>4

LEMMA EnvironmentTracked ==
    ASSUME IInv, TrackInv,
           \/ \E m \in Protectable, flag \in BOOLEAN : SetProtected(m, flag)
           \/ \E i \in Pid : Bind(i) \/ Die(i) \/ WrapperDies(i)
    PROVE  TrackInv'
<1>1. TypeOK /\ UNCHANGED <<instances, actor>>
  BY DEF IInv, SetProtected, Bind, Die, WrapperDies
<1>2. \A j \in Pid : Hunted(j)' = Hunted(j)
  BY <1>1 DEF Hunted
<1>3. \A j \in Pid : proc[j].state = "lost" => j \in orphans
  BY DEF TrackInv, LostAreOrphans
<1>4. ASSUME NEW m \in Protectable, NEW flag \in BOOLEAN, SetProtected(m, flag)
      PROVE  TrackInv'
  <2>1. SameServers /\ UNCHANGED orphans
    BY <1>1, <1>4, Shape DEF SetProtected, SameServers, Procs
  <2>. QED BY <1>1, <1>2, <1>3, <2>1, ServersKeep DEF SameServers, Alive
<1>5. ASSUME NEW i \in Pid, Bind(i) \/ Die(i) \/ WrapperDies(i)
      PROVE  TrackInv'
  <2>1. \A j \in Pid \ {i} : proc'[j] = proc[j] /\ (j \in orphans' <=> j \in orphans)
    BY <1>1, <1>5, Shape DEF Bind, Die, WrapperDies
  <2>2. /\ proc'[i].model = proc[i].model
        /\ \/ ~Alive(i)' \/ i \in orphans'
           \/ proc[i].state = "starting" /\ proc'[i].state = "up" /\ UNCHANGED orphans
    BY <1>1, <1>5, Shape, DeadServer DEF Bind, Die, WrapperDies, Alive, Procs
  <2>. QED BY <1>1, <1>2, <1>3, <2>1, <2>2, ServersKeep DEF Alive
<1>. QED BY <1>4, <1>5

(* A live server is registered, or about to be killed, or lost in one of   *)
(* the four ways the code has: a second load of its model registered over  *)
(* it, the pkill that failed, its toolbox wrapper died without it, the     *)
(* controller stopped during an eviction.                                  *)
THEOREM ServersAreTracked == Spec => []Tracked
<1>1. Init => TrackInv
  <2>1. ASSUME Init PROVE \A i \in Pid : proc[i].state = "dead"
    BY <2>1 DEF Init, NoProc
  <2>. QED BY <2>1 DEF Init, TrackInv, Tracked, LostAreOrphans, RegisteredByName, Registered, Alive
<1>2. IInv /\ TrackInv /\ [Next]_vars => TrackInv'
  <2> SUFFICES ASSUME IInv, TrackInv, [Next]_vars PROVE TrackInv'
    OBVIOUS
  <2>1. ASSUME NEW a \in Actor, Step(a) PROVE TrackInv'
    BY <2>1, SpawnTracked, ReadyTracked, CleanUpTracked, KillTracked, ExitTracked, EvictionsTracked, QuietTracked
       DEF Step, LoadStep, UnloadStep, EvictStep
  <2>2. ASSUME NEW a \in Client, PromptStarts(a) \/ PromptEnds(a) PROVE TrackInv'
    BY <2>2, QuietTracked DEF Actor
  <2>3. CASE UNCHANGED vars
    BY <2>3, TrackedAsHunted, TrackedNext
       DEF vars, TrackInv, LostAreOrphans, RegisteredByName, Registered, Hunted, Alive
  <2>. QED BY <2>1, <2>2, <2>3, CallTracked, ControllerTracked, EnvironmentTracked DEF Next
<1>3. TrackInv => Tracked
  BY DEF TrackInv
<1>. QED BY <1>1, <1>2, <1>3, InductiveInvariant, PTL DEF Spec

=============================================================================
