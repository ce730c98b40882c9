------------------------------- MODULE AgentRuns -------------------------------
(***************************************************************************)
(* The operations on ONE agent of MASTERMIND's AgentModule                 *)
(* (modules/agent/index.ts): run() for messages and for cache warm-ups,    *)
(* the /compact command and the daily compaction (compactSession), abort() *)
(* and abortAndWait().  They share three fields keyed by the agent: the    *)
(* gate slot runPromises, the set abortControllers and the state.          *)
(*                                                                         *)
(* JavaScript runs one callback at a time, so an action is the code        *)
(* between two awaits that really suspend.  When runAgent settles, the     *)
(* continuation of `await runComplete' and its finally block run before    *)
(* anybody who awaits the tracked promise: Finish is one action.  Awaiters *)
(* of settled promises go on before anything new happens (microtasks run   *)
(* before the next event); in which order they do is left open.            *)
(*                                                                         *)
(* The session is the set of its messages.  The tool loop of a run is the  *)
(* subject of ToolLoop; here a run stores its message, and stores a reply  *)
(* or not.                                                                 *)
(***************************************************************************)
EXTENDS Naturals, FiniteSets

CONSTANTS Runs,          \* calls of run() with a message
          Commands,      \* those of them whose message is /compact
          Warmups,       \* calls of run() with warmup: true
          Compactions,   \* calls of compactSession by the daily ticker
          Closers,       \* calls of abortAndWait
          Old,           \* the messages the session starts with
          None           \* an empty slot, no predecessor

Calls == Runs \cup Warmups \cup Compactions \cup Closers

ASSUME CallsAssumption ==
    /\ Commands \subseteq Runs
    /\ Runs \cap (Warmups \cup Compactions \cup Closers) = {}
    /\ Warmups \cap (Compactions \cup Closers) = {}
    /\ Compactions \cap Closers = {}

VARIABLES pc,            \* where each call is
          pred,          \* the promise each call awaits or awaited
          slot,          \* runPromises.get(agentId)
          settled,       \* the promises that are settled
          controllers,   \* the calls whose controller is in abortControllers
          aborted,       \* the calls whose signal is aborted
          state,         \* states.get(agentId)
          msgs,          \* the messages of the session in the database
          snapshot,      \* what each compaction has read and archives
          lost           \* the messages deleted by a compaction that had not
                         \* read them (a history variable)

vars == <<pc, pred, slot, settled, controllers, aborted, state,
          msgs, snapshot, lost>>

-----------------------------------------------------------------------------
(* The promises a call can put in the slot. *)
Gate(c) == [of |-> c, kind |-> "gate"]
TrackedRun(c) == [of |-> c, kind |-> "run"]
TrackedCompact(c) == [of |-> c, kind |-> "compact"]

Promises == [of : Calls, kind : {"gate", "run", "compact"}]

(* A call goes on when what it awaits is settled. *)
Released(c) == pred[c] = None \/ pred[c] \in settled

(* The calls whose continuation is in the microtask queue. *)
Ready == {c \in Calls :
            \/ pc[c] \in {"waiting", "compactWait", "closing"} /\ Released(c)
            \/ pc[c] = "compacted"}

Messages == Old \cup [by : Calls, role : {"user", "assistant", "summary"}]
Message(c, role) == [by |-> c, role |-> role]

Running == {c \in Runs \cup Warmups : pc[c] \in {"running", "replying", "saved"}}
Compacting == {c \in Calls : pc[c] \in {"reading", "summarising", "purging"}}

Init ==
    /\ pc = [c \in Calls |-> "out"]
    /\ pred = [c \in Calls |-> None]
    /\ slot = None
    /\ settled = {}
    /\ controllers = {}
    /\ aborted = {}
    /\ state = "idle"
    /\ msgs = Old
    /\ snapshot = [c \in Calls |-> {}]
    /\ lost = {}

-----------------------------------------------------------------------------
(* abort(agentId): every registered controller is aborted and forgotten,   *)
(* and the agent is idle in name although its runs still clean up.         *)
AbortAll ==
    /\ aborted' = aborted \cup controllers
    /\ controllers' = {}
    /\ state' = IF controllers # {} THEN "idle" ELSE state

(* chat.abort, the war room's timeouts, the cancel of a sub-agent, the     *)
(* reload of a configuration: anybody may abort at any time.               *)
Abort ==
    /\ Ready = {}
    /\ controllers # {}
    /\ AbortAll
    /\ UNCHANGED <<pc, pred, slot, settled, msgs, snapshot, lost>>

(* From the new controller to the swap of the slot: the run is under way   *)
(* and the slot holds its tracked promise, whatever it held before.        *)
Enter(c, ctrls) ==
    /\ controllers' = ctrls \cup {c}
    /\ state' = IF c \in Warmups THEN "warming" ELSE "thinking"
    /\ slot' = TrackedRun(c)
    /\ pc' = [pc EXCEPT ![c] = "running"]

(* run() up to its first await.  A warm-up leaves when the agent is busy,  *)
(* a message aborts what the agent is doing.  The predecessor is captured  *)
(* and the gate installed in one go; without a predecessor nothing is      *)
(* awaited and the run starts at once.                                     *)
Arrive(c) ==
    /\ \/ pc[c] = "out" /\ c \in Runs \ Commands
       \/ pc[c] = "compacted" /\ c \in Commands
    /\ aborted' = aborted \cup controllers
    /\ pred' = [pred EXCEPT ![c] = slot]
    /\ IF slot = None
         THEN Enter(c, {})
         ELSE /\ controllers' = {}
              /\ state' = IF controllers # {} THEN "idle" ELSE state
              /\ slot' = Gate(c)
              /\ pc' = [pc EXCEPT ![c] = "waiting"]
    /\ UNCHANGED <<settled, msgs, snapshot, lost>>

ArriveWarmup(c) ==
    /\ pc[c] = "out" /\ c \in Warmups
    /\ IF state # "idle" \/ slot # None
         THEN /\ pc' = [pc EXCEPT ![c] = "done"]
              /\ UNCHANGED <<controllers, state, slot>>
         ELSE Enter(c, controllers)
    /\ UNCHANGED <<pred, settled, aborted, msgs, snapshot, lost>>

(* The predecessor is settled: the run enters. *)
Resume(c) ==
    /\ pc[c] = "waiting"
    /\ Released(c)
    /\ Enter(c, controllers)
    /\ UNCHANGED <<pred, settled, aborted, msgs, snapshot, lost>>

(* runAgent stores the message; it does not look at the signal before the  *)
(* first call of the provider.                                             *)
StoreMessage(c) ==
    /\ c \in Runs /\ pc[c] = "running"
    /\ msgs' = msgs \cup {Message(c, "user")}
    /\ pc' = [pc EXCEPT ![c] = "replying"]
    /\ UNCHANGED <<pred, slot, settled, controllers, aborted, state, snapshot, lost>>

(* The reply, whole or partial, is stored. *)
SaveReply(c) ==
    /\ pc[c] = "replying"
    /\ msgs' = msgs \cup {Message(c, "assistant")}
    /\ pc' = [pc EXCEPT ![c] = "saved"]
    /\ UNCHANGED <<pred, slot, settled, controllers, aborted, state, snapshot, lost>>

(* runAgent has settled: with a reply, aborted with nothing to save, a     *)
(* warm-up, or by an error of the provider or the database.  The finally   *)
(* block removes this run's controller only, empties the slot only when it *)
(* is this run's, settles the gate and says idle.                          *)
Finish_F(c) ==
    /\ c \in Running
    /\ controllers' = {}
    /\ slot' = IF slot \in {Gate(c), TrackedRun(c)} THEN None ELSE slot
    /\ settled' = settled \cup {Gate(c), TrackedRun(c)}
    /\ state' = "idle"
    /\ aborted' = aborted \ {c}
    /\ pred' = [pred EXCEPT ![c] = None]
    /\ pc' = [pc EXCEPT ![c] = "done"]
    /\ UNCHANGED <<msgs, snapshot, lost>>

Finish_F2(c) ==
    /\ c \in Running
    /\ controllers' = controllers \ {c}
    /\ slot' = IF slot = Gate(c) THEN None ELSE slot
    /\ settled' = settled \cup {Gate(c), TrackedRun(c)}
    /\ state' = "idle"
    /\ aborted' = aborted \ {c}
    /\ pred' = [pred EXCEPT ![c] = None]
    /\ pc' = [pc EXCEPT ![c] = "done"]
    /\ UNCHANGED <<msgs, snapshot, lost>>

Finish_F3(c) ==
    /\ c \in Running
    /\ controllers' = controllers \ {c}
    /\ slot' = IF slot \in {Gate(c), TrackedRun(c)} THEN None ELSE slot
    /\ settled' = settled \cup {TrackedRun(c)}
    /\ state' = "idle"
    /\ aborted' = aborted \ {c}
    /\ pred' = [pred EXCEPT ![c] = None]
    /\ pc' = [pc EXCEPT ![c] = "done"]
    /\ UNCHANGED <<msgs, snapshot, lost>>

Finish_F4(c) ==
    /\ c \in Running
    /\ controllers' = controllers \ {c}
    /\ slot' = IF slot \in {Gate(c), TrackedRun(c)} THEN None ELSE slot
    /\ settled' = settled \cup {Gate(c), TrackedRun(c)}
    /\ state' = "error"
    /\ aborted' = aborted \ {c}
    /\ pred' = [pred EXCEPT ![c] = None]
    /\ pc' = [pc EXCEPT ![c] = "done"]
    /\ UNCHANGED <<msgs, snapshot, lost>>

Finish(c) ==
    /\ c \in Running
    /\ controllers' = controllers \ {c}
    /\ slot' = IF slot \in {Gate(c), TrackedRun(c)} THEN None ELSE slot
    /\ settled' = settled \cup {Gate(c), TrackedRun(c)}
    /\ state' = "idle"
    /\ aborted' = aborted \ {c}
    /\ pred' = [pred EXCEPT ![c] = None]
    /\ pc' = [pc EXCEPT ![c] = "done"]
    /\ UNCHANGED <<msgs, snapshot, lost>>

-----------------------------------------------------------------------------
(* compactSession: wait for what occupies the slot.                        *)
CompactArrive(c) ==
    /\ c \in Commands \cup Compactions
    /\ pc[c] = "out"
    /\ pred' = [pred EXCEPT ![c] = slot]
    /\ pc' = [pc EXCEPT ![c] = "compactWait"]
    /\ UNCHANGED <<slot, settled, controllers, aborted, state, msgs, snapshot, lost>>

(* What a caller of compactSession does when it returns or throws. *)
Return(c) == IF c \in Commands THEN "compacted" ELSE "done"

(* Unless the agent is busy, the compaction takes the slot from whoever    *)
(* holds it by now.                                                        *)
CompactEnter_F(c) ==
    /\ pc[c] = "compactWait"
    /\ Released(c)
    /\ IF state # "idle"
         THEN UNCHANGED <<pc, slot, state>>
         ELSE /\ slot' = TrackedCompact(c)
              /\ state' = "compacting"
              /\ pc' = [pc EXCEPT ![c] = "reading"]
    /\ UNCHANGED <<pred, settled, controllers, aborted, msgs, snapshot, lost>>

CompactEnter(c) ==
    /\ pc[c] = "compactWait"
    /\ Released(c)
    /\ IF state # "idle"
         THEN /\ pc' = [pc EXCEPT ![c] = Return(c)]
              /\ UNCHANGED <<slot, state>>
         ELSE /\ slot' = TrackedCompact(c)
              /\ state' = "compacting"
              /\ pc' = [pc EXCEPT ![c] = "reading"]
    /\ UNCHANGED <<pred, settled, controllers, aborted, msgs, snapshot, lost>>

(* The finally block of compactSession. *)
CompactLeave(c, to) ==
    /\ settled' = settled \cup {TrackedCompact(c)}
    /\ slot' = IF slot = TrackedCompact(c) THEN None ELSE slot
    /\ state' = IF state = "compacting" THEN "idle" ELSE state
    /\ snapshot' = [snapshot EXCEPT ![c] = {}]
    /\ pc' = [pc EXCEPT ![c] = to]

CompactRead(c) ==
    /\ pc[c] = "reading"
    /\ IF Cardinality(msgs) < 2
         THEN CompactLeave(c, Return(c))
         ELSE /\ snapshot' = [snapshot EXCEPT ![c] = msgs]
              /\ pc' = [pc EXCEPT ![c] = "summarising"]
              /\ UNCHANGED <<slot, settled, state>>
    /\ UNCHANGED <<pred, controllers, aborted, msgs, lost>>

(* The summary, or its fallback when the provider fails, and the archive   *)
(* file of the messages that were read.                                    *)
CompactArchive(c) ==
    /\ pc[c] = "summarising"
    /\ pc' = [pc EXCEPT ![c] = "purging"]
    /\ UNCHANGED <<pred, slot, settled, controllers, aborted, state, msgs,
                   snapshot, lost>>

(* The transaction: all messages of the session go, the summary comes. *)
CompactPurge(c) ==
    /\ pc[c] = "purging"
    /\ msgs' = {Message(c, "summary")}
    /\ lost' = lost \cup (msgs \ snapshot[c])
    /\ CompactLeave(c, Return(c))
    /\ UNCHANGED <<pred, controllers, aborted>>

(* The read, the archive or the transaction throws: nothing is deleted,    *)
(* and the command's run() ends with the exception.                        *)
CompactFails(c) ==
    /\ c \in Compacting
    /\ CompactLeave(c, "done")
    /\ UNCHANGED <<pred, controllers, aborted, msgs, lost>>

-----------------------------------------------------------------------------
(* abortAndWait: abort, and wait for what is in the slot now. *)
CloseArrive(c) ==
    /\ c \in Closers /\ pc[c] = "out"
    /\ AbortAll
    /\ pred' = [pred EXCEPT ![c] = slot]
    /\ pc' = [pc EXCEPT ![c] = "closing"]
    /\ UNCHANGED <<slot, settled, msgs, snapshot, lost>>

CloseReturn(c) ==
    /\ pc[c] = "closing"
    /\ Released(c)
    /\ pc' = [pc EXCEPT ![c] = "done"]
    /\ UNCHANGED <<pred, slot, settled, controllers, aborted, state, msgs,
                   snapshot, lost>>

-----------------------------------------------------------------------------
(* The continuations of awaits on the gate, and those of awaits on the     *)
(* database, the provider and the file system, which come from the event   *)
(* loop once the microtask queue is empty, like new calls and aborts.      *)
Microtask(c) ==
    \/ Resume(c) \/ CompactEnter(c) \/ CloseReturn(c)
    \/ pc[c] = "compacted" /\ Arrive(c)

Answer(c) ==
    /\ Ready = {}
    /\ \/ StoreMessage(c) \/ SaveReply(c) \/ Finish(c)
       \/ CompactRead(c) \/ CompactArchive(c) \/ CompactPurge(c) \/ CompactFails(c)

Step(c) == Microtask(c) \/ Answer(c)

Begin(c) ==
    /\ Ready = {}
    /\ \/ pc[c] = "out" /\ Arrive(c)
       \/ ArriveWarmup(c) \/ CompactArrive(c) \/ CloseArrive(c)

(* All calls have returned. *)
Over == (\A c \in Calls : pc[c] = "done") /\ UNCHANGED vars

Next == (\E c \in Calls : Begin(c) \/ Step(c)) \/ Abort \/ Over

Spec == Init /\ [][Next]_vars

(* A call that is under way goes on: the event loop runs the continuation  *)
(* of a settled promise, and the provider and the database answer or fail  *)
(* (both have timeouts).  Nothing makes a call arrive, or abort.           *)
FairSpec == Spec /\ \A c \in Calls : WF_vars(Step(c))

-----------------------------------------------------------------------------
TypeOK ==
    /\ pc \in [Calls -> {"out", "waiting", "running", "replying", "saved",
                         "compactWait", "reading", "summarising", "purging",
                         "compacted", "closing", "done"}]
    /\ pred \in [Calls -> Promises \cup {None}]
    /\ slot \in Promises \cup {None}
    /\ settled \subseteq Promises
    /\ controllers \subseteq Runs \cup Warmups
    /\ aborted \subseteq Runs \cup Warmups
    /\ state \in {"idle", "warming", "thinking", "compacting"}
    /\ msgs \subseteq Messages
    /\ snapshot \in [Calls -> SUBSET Messages]
    /\ lost \subseteq Messages

(* Every run that is under way can be stopped: its controller is in the    *)
(* agent's set, or its signal is already aborted.  A run that ends never   *)
(* takes a sibling's controller with it.                                   *)
Stoppable == \A c \in Running : c \in controllers \/ c \in aborted

(* When nothing is under way the agent is idle, the slot is empty and no   *)
(* controller is left: otherwise every later warm-up would be refused.     *)
NoResidue ==
    (\A c \in Calls : pc[c] \in {"out", "done"})
        => state = "idle" /\ slot = None /\ controllers = {}

(* Whatever a call awaits is settled, or belongs to a call that is still   *)
(* under way and will settle it: nobody waits for a promise whose resolver *)
(* is gone, whoever took the slot over and however the other call ended.   *)
NobodyAwaitsTheGone ==
    \A c \in Calls :
        pc[c] \in {"waiting", "compactWait", "closing"} /\ ~Released(c)
            => pc[pred[c].of] \notin {"out", "done"}

(* What a compaction deletes it has read before, and so archived: no run   *)
(* adds a message to the session in between.                               *)
NothingLost == lost = {}

(* The promise of the gate: one non-warmup run at a time per agent. *)
OneRunAtATime == Cardinality(Running \cap Runs) <= 1

(* abort() stops whatever the agent is doing: at an abortAndWait, every run *)
(* that has arrived and is not over is told to stop.                        *)
AbortReachesAll ==
    [][\A x \in Closers, c \in Runs :
            pc[x] = "out" /\ pc'[x] = "closing" /\ pc[c] \notin {"out", "done"}
                => c \in aborted']_vars

(* Every call of run, compactSession and abortAndWait returns. *)
CallsReturn == \A c \in Calls : pc[c] # "out" ~> pc[c] = "done"

=============================================================================
