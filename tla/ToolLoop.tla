-------------------------------- MODULE ToolLoop --------------------------------
(***************************************************************************)
(* runAgent (MASTERMIND modules/agent/run.ts) on one session: the message  *)
(* is stored, the prompt is rebuilt from the rows of the database          *)
(* (buildLlmPayload), and the tool loop streams a turn, stores it, executes*)
(* its tool calls, stores each result and streams again.  Runs follow each *)
(* other on the same session; between and during them the user may abort,  *)
(* the database, the provider or the process may fail.                     *)
(*                                                                         *)
(* Two contracts bind the rows of the database to what the provider sees.  *)
(* A strict provider (transport `mercury') refuses a tool call without its *)
(* result and a result without its call.  A local one (`openai-compat')    *)
(* keeps a cache of the prompt it has last processed, and recomputes it    *)
(* when the next prompt does not extend it.                                *)
(*                                                                         *)
(* A row or a prompt message is a record: its role; its id, which for a    *)
(* result is the id of its call; the calls it declares; where its text     *)
(* comes from; whether the live prefix of a user message is there.         *)
(***************************************************************************)
EXTENDS Naturals, Sequences, SequencesExt

CONSTANTS MaxToolTurns,    \* toolDefaults.maxToolTurns
          MaxIdentical,    \* toolDefaults.maxIdenticalToolCalls
          Limit,           \* agentConfig.contextMessages, the rows of a prompt
          MaxCalls,        \* bound: tool calls of a turn
          MaxRuns,         \* bound: runs on the session
          MaxRows          \* bound: rows after which no tool is called any more

ASSUME BoundsAssumption ==
    /\ MaxToolTurns \in Nat
    /\ {MaxIdentical, Limit, MaxCalls, MaxRuns, MaxRows} \subseteq Nat \ {0}

VARIABLES rows,       \* the live rows of the session, in order
          pc,         \* where the run is
          run,        \* the number of the run
          strict,     \* its provider is of type `mercury'
          messages,   \* the prompt in memory
          turns,      \* toolTurns
          pending,    \* the calls of this turn that have no result yet
          same,       \* consecutiveIdenticalCount (of one signature)
          think,      \* accumulatedThinkBlocks is not empty
          full,       \* where fullResponse comes from
          signal,     \* the signal is aborted
          aborted,    \* the variable `aborted' of runAgent
          sent,       \* sendToUserCalled
          slot,       \* the prompt the local provider has in its cache
          excused     \* the code has accepted a miss of that cache

vars == <<rows, pc, run, strict, messages, turns, pending, same, think, full,
          signal, aborted, sent, slot, excused>>

-----------------------------------------------------------------------------
Message(role, id, calls, text) ==
    [role |-> role, id |-> id, calls |-> calls, text |-> text, prefix |-> FALSE]

(* A row has the metadata of a message besides it: the bytes the model     *)
(* streamed when its text is something else, and whether it is the copy of *)
(* a message send_to_user has delivered.                                   *)
Row(m, raw, copy) == [message |-> m, raw |-> raw, copy |-> copy]
Plain(m) == Row(m, FALSE, FALSE)

Id(k) == <<run, turns, k>>

(* toAiMessage: the raw stream is preferred to the text shown to the user. *)
ToAiMessage(row) ==
    IF row.raw THEN [row.message EXCEPT !.text = "stream"] ELSE row.message

(* filter(): the elements of s at the indices in I, in their order. *)
Keep(s, I) ==
    LET First[n \in 0..Len(s)] ==      \* of the first n elements
          IF n = 0 THEN <<>>
          ELSE IF n \in I THEN Append(First[n - 1], s[n])
          ELSE First[n - 1]
    IN  First[Len(s)]

(* stripOrphanedToolCalls: forward for everybody, in reverse for a strict  *)
(* provider.                                                               *)
Answered(ms) == {ms[i].id : i \in {j \in DOMAIN ms : ms[j].role = "tool"}}
Forward(ms) ==
    [i \in DOMAIN ms |-> [ms[i] EXCEPT !.calls = @ \cap Answered(ms)]]
Declared(ms) == UNION {ms[i].calls : i \in DOMAIN ms}
Reverse_(ms) ==
    Keep(ms, {i \in DOMAIN ms : ms[i].role = "tool" => ms[i].id \in Declared(ms)})

StripOrphanedToolCalls_F(ms, isStrict) ==
    IF isStrict THEN Reverse_(ms) ELSE ms
StripOrphanedToolCalls(ms, isStrict) ==
    IF isStrict THEN Reverse_(Forward(ms)) ELSE Forward(ms)

(* getMessages: of the last Limit rows those that are no copies            *)
(* (cacheOptimized).                                                       *)
Read(i) == i + Limit > Len(rows) /\ ~rows[i].copy
History == Keep(rows, {i \in DOMAIN rows : Read(i)})

(* The prompt of a run: the message that was just stored gets the live     *)
(* prefix, the others are what their rows say.                             *)
Payload(history, isStrict) ==
    LET ms == [i \in DOMAIN history |->
                  IF i = Len(history)
                    THEN [history[i].message EXCEPT !.prefix = TRUE]
                    ELSE ToAiMessage(history[i])]
    IN  StripOrphanedToolCalls(ms, isStrict)

Init ==
    /\ rows = <<>> /\ messages = <<>> /\ slot = <<>>
    /\ pc = "idle" /\ run = 0 /\ turns = 0 /\ same = 0
    /\ pending = <<>>
    /\ full = "none"
    /\ strict = FALSE /\ think = FALSE /\ signal = FALSE /\ aborted = FALSE
    /\ sent = FALSE /\ excused = FALSE

-----------------------------------------------------------------------------
(* The variables of a run are gone when it ends. *)
EndRun ==
    /\ pc' = "idle"
    /\ messages' = <<>> /\ pending' = <<>>
    /\ turns' = 0 /\ same' = 0
    /\ full' = "none"
    /\ strict' = FALSE /\ think' = FALSE /\ signal' = FALSE /\ aborted' = FALSE
    /\ sent' = FALSE

(* A run begins: the message is stored. *)
StoreUser ==
    /\ pc = "idle" /\ run < MaxRuns
    /\ run' = run + 1
    /\ strict' \in BOOLEAN
    /\ rows' = Append(rows, Plain(Message("user", <<run + 1, 0, 0>>, {}, "user")))
    /\ pc' = "building"
    /\ UNCHANGED <<messages, turns, pending, same, think, full, signal, aborted,
                   sent, slot, excused>>

(* autoCompactIfNeeded, when the estimate exceeds the threshold.  A turn    *)
(* starts at each row of the user (groupTurns); the rows that were read and *)
(* come before the first turn that is kept are replaced by one summary, a   *)
(* row of the user in front of that turn.                                   *)
Summary == Plain(Message("user", <<run, 0, 1>>, {}, "summary"))

AutoCompact ==
    /\ pc = "building"
    /\ \E at \in DOMAIN rows :
        LET gone == {i \in 1..(at - 1) : Read(i)} IN
        /\ Read(at) /\ rows[at].message.role = "user"
        /\ gone # {}
        /\ rows' = Keep(rows, (1..(at - 1)) \ gone) \o <<Summary>> \o SubSeq(rows, at, Len(rows))
        /\ messages' = Payload(<<Summary>> \o Keep(rows, {i \in at..Len(rows) : Read(i)}), strict)
    /\ excused' = TRUE
    /\ pc' = "prefix"
    /\ UNCHANGED <<run, strict, turns, pending, same, think, full, signal,
                   aborted, sent, slot>>

Build ==
    /\ pc = "building"
    /\ messages' = Payload(History, strict)
    /\ excused' = (excused \/ Len(rows) > Limit)
    /\ pc' = "prefix"
    /\ UNCHANGED <<rows, run, strict, turns, pending, same, think, full, signal,
                   aborted, sent, slot>>

(* The live prefix is written to the row before the provider is called; a  *)
(* failure is logged.                                                      *)
PersistPrefix_F(ok) ==
    /\ pc = "prefix"
    /\ UNCHANGED rows
    /\ excused' = (excused \/ ~ok)
    /\ pc' = "loop"
    /\ UNCHANGED <<run, strict, messages, turns, pending, same, think, full,
                   signal, aborted, sent, slot>>

PersistPrefix(ok) ==
    /\ pc = "prefix"
    /\ rows' = IF ok THEN [rows EXCEPT ![Len(rows)].message.prefix = TRUE] ELSE rows
    /\ excused' = (excused \/ ~ok)
    /\ pc' = "loop"
    /\ UNCHANGED <<run, strict, messages, turns, pending, same, think, full,
                   signal, aborted, sent, slot>>

-----------------------------------------------------------------------------
(* The head of the loop. *)
Streaming == pc = "loop" /\ ~signal /\ turns <= MaxToolTurns

(* The provider has processed the prompt: a local one keeps it. *)
Processed == slot' = IF strict THEN slot ELSE messages

(* The loop is left with what fullResponse is by then. *)
LeaveLoop(isAborted, text) ==
    /\ aborted' = isAborted
    /\ full' = IF text = "none" /\ turns >= MaxToolTurns THEN "notice" ELSE text
    /\ pc' = "final"

(* An abort is seen before the turn, or the turns are used up. *)
LoopEnds ==
    /\ pc = "loop" /\ (signal \/ turns > MaxToolTurns)
    /\ LeaveLoop(signal /\ turns <= MaxToolTurns, "none")
    /\ UNCHANGED <<rows, run, strict, messages, turns, pending, same, think,
                   signal, sent, slot, excused>>

(* A turn without tool calls is the answer.  When earlier turns had think  *)
(* blocks the text is the merged one.                                      *)
StreamText ==
    /\ Streaming
    /\ Processed
    /\ LeaveLoop(FALSE, IF think THEN "merged" ELSE "stream")
    /\ UNCHANGED <<rows, run, strict, messages, turns, pending, same, think,
                   signal, sent, excused>>

(* The signal cuts the stream: what has come is a partial answer, or       *)
(* nothing has come.                                                       *)
StreamAborted ==
    /\ pc = "loop" /\ turns <= MaxToolTurns
    /\ ~signal
    /\ Processed
    /\ signal' = TRUE
    /\ \E text \in {"stream", "none"} : LeaveLoop(TRUE, text)
    /\ UNCHANGED <<rows, run, strict, messages, turns, pending, same, think,
                   sent, excused>>

(* All tool calls have an empty name: the loop is left, and the text of    *)
(* the turn with it.                                                       *)
StreamMalformed ==
    /\ Streaming
    /\ Processed
    /\ LeaveLoop(FALSE, "none")
    /\ UNCHANGED <<rows, run, strict, messages, turns, pending, same, think,
                   signal, sent, excused>>

(* A turn with n tool calls is pushed and stored, without its calls when   *)
(* the text of the stream holds them already (dropStructured).             *)
StreamCalls(n, drop, thinks) ==
    /\ Streaming
    /\ Len(rows) + n + 1 <= MaxRows
    /\ Processed
    /\ LET turn == Message("assistant", Id(0),
                           IF drop THEN {} ELSE {Id(k) : k \in 1..n}, "stream")
       IN  /\ messages' = Append(messages, turn)
           /\ rows' = Append(rows, Plain(turn))
    /\ pending' = [k \in 1..n |-> k]
    /\ think' = (think \/ thinks)
    /\ pc' = "tools"
    /\ UNCHANGED <<run, strict, turns, same, full, signal, aborted, sent,
                   excused>>

(* The result of the next call, in the prompt and in the database. *)
Result == Message("tool", Id(Head(pending)), {}, "result")
Answer(extra) ==
    /\ messages' = Append(messages, Result)
    /\ rows' = Append(rows, Plain(Result)) \o extra
    /\ pending' = Tail(pending)

(* The turn was interrupted: each remaining call gets a synthetic result,  *)
(* then the run ends.                                                      *)
Interrupt ==
    /\ pc = "tools" /\ pending # <<>> /\ signal
    /\ Answer(<<>>)
    /\ IF Len(pending) = 1 THEN LeaveLoop(TRUE, full) ELSE UNCHANGED <<aborted, full, pc>>
    /\ UNCHANGED <<run, strict, turns, same, think, signal, sent, slot, excused>>

(* The next call is executed, or refused by the loop guard: a tool that    *)
(* fails has its error as result.  `again' says that the signature is the  *)
(* one of the call before.                                                 *)
Count(again) == IF again THEN same + 1 ELSE 1

ExecuteTool(tool, again) ==
    /\ pc = "tools" /\ pending # <<>> /\ ~signal
    /\ Count(again) <= MaxIdentical + 1
    /\ same' = Count(again)
    /\ LET refused == Count(again) > MaxIdentical
           delivers == tool = "send_to_user" /\ ~refused
       IN  /\ Answer(IF delivers
                       THEN <<Row(Message("assistant", Id(Head(pending)), {}, "copy"),
                                  FALSE, TRUE)>>
                       ELSE <<>>)
           /\ sent' = (sent \/ delivers)
    /\ UNCHANGED <<pc, run, strict, turns, think, full, signal, aborted, slot,
                   excused>>

(* The model has ignored the guard: the call and the ones after it get     *)
(* their results, and the run ends with a notice.                          *)
GuardAborts ==
    /\ pc = "tools" /\ pending # <<>> /\ ~signal
    /\ same + 1 > MaxIdentical + 1
    /\ same' = same + 1
    /\ Answer(<<>>)
    /\ full' = "notice"
    /\ aborted' = TRUE
    /\ pc' = IF Len(pending) = 1 THEN "final" ELSE "skip"
    /\ UNCHANGED <<run, strict, turns, think, signal, sent, slot, excused>>

SkipTool_F ==
    /\ pc = "skip" /\ pending # <<>>
    /\ Answer(<<>>)
    /\ pc' = "skip"
    /\ UNCHANGED <<run, strict, turns, same, think, full, signal, aborted, sent,
                   slot, excused>>

SkipTool ==
    /\ pc = "skip"
    /\ Answer(<<>>)
    /\ pc' = IF Len(pending) = 1 THEN "final" ELSE "skip"
    /\ UNCHANGED <<run, strict, turns, same, think, full, signal, aborted, sent,
                   slot, excused>>

(* All calls of the turn have their result: the next turn, unless the run  *)
(* is a sandbox run and has delivered its message.                         *)
NextTurn(sandbox) ==
    /\ pc = "tools" /\ pending = <<>>
    /\ IF sandbox /\ sent
         THEN LeaveLoop(FALSE, "notice") /\ UNCHANGED turns
         ELSE turns' = turns + 1 /\ pc' = "loop" /\ UNCHANGED <<aborted, full>>
    /\ UNCHANGED <<rows, run, strict, messages, pending, same, think, signal,
                   sent, slot, excused>>

-----------------------------------------------------------------------------
(* The answer is stored; an aborted run without text stores nothing.  An   *)
(* answer that consists of think blocks only is promoted to text, which    *)
(* the cache has not seen.                                                 *)
StoreFinal(promoted) ==
    /\ pc = "final"
    /\ IF aborted /\ full = "none"
         THEN ~promoted /\ UNCHANGED <<rows, slot, excused>>
         ELSE LET said == IF full = "none" THEN "empty" ELSE full
                  m == Message("assistant", Id(0), {}, said)
              IN  /\ promoted => ~aborted /\ full \in {"stream", "merged"}
                  /\ rows' = Append(rows, Row(m, full = "merged" /\ ~promoted, FALSE))
                  /\ excused' = (excused \/ promoted)
                  /\ slot' = IF strict \/ full \notin {"stream", "merged"} THEN slot
                             ELSE Append(messages, [m EXCEPT !.text = "stream"])
    /\ EndRun
    /\ UNCHANGED run

(* The provider fails or answers nothing, the database refuses a row, or   *)
(* the process dies: the run ends with what is stored so far.              *)
RunFails ==
    /\ pc # "idle"
    /\ EndRun
    /\ UNCHANGED <<rows, run, slot, excused>>

(* abort() reaches the run through its signal. *)
Abort ==
    /\ pc # "idle" /\ ~signal
    /\ signal' = TRUE
    /\ UNCHANGED <<rows, pc, run, strict, messages, turns, pending, same, think,
                   full, aborted, sent, slot, excused>>

Over == pc = "idle" /\ run = MaxRuns /\ UNCHANGED vars

Step ==
    \/ AutoCompact \/ Build
    \/ \E ok \in BOOLEAN : PersistPrefix(ok)
    \/ LoopEnds \/ StreamText \/ StreamAborted \/ StreamMalformed
    \/ \E n \in 1..MaxCalls, drop, thinks \in BOOLEAN : StreamCalls(n, drop, thinks)
    \/ Interrupt \/ GuardAborts \/ SkipTool
    \/ \E sandbox \in BOOLEAN : NextTurn(sandbox)
    \/ \E tool \in {"send_to_user", "other"}, again \in BOOLEAN : ExecuteTool(tool, again)
    \/ \E promoted \in BOOLEAN : StoreFinal(promoted)

Next == StoreUser \/ Step \/ RunFails \/ Abort \/ Over

Spec == Init /\ [][Next]_vars

(* The provider, the tools and the database answer in the end; no failure  *)
(* is counted on.                                                          *)
FairSpec == Spec /\ WF_vars(Step)

-----------------------------------------------------------------------------
Ids == (1..MaxRuns) \X (0..(MaxToolTurns + 1)) \X (0..MaxCalls)
MessageType ==
    [role : {"user", "assistant", "tool"}, id : Ids, calls : SUBSET Ids,
     text : {"user", "summary", "stream", "merged", "notice", "empty", "result", "copy"},
     prefix : BOOLEAN]
RowType == [message : MessageType, raw : BOOLEAN, copy : BOOLEAN]

TypeOK ==
    /\ \A i \in DOMAIN rows : rows[i] \in RowType
    /\ \A i \in DOMAIN messages : messages[i] \in MessageType
    /\ pc \in {"idle", "building", "prefix", "loop", "tools", "skip", "final"}
    /\ turns \in 0..(MaxToolTurns + 1)
    /\ same \in 0..(MaxIdentical + 2)
    /\ \A i \in DOMAIN pending : pending[i] \in 1..MaxCalls

(* The contract of a strict provider: the results follow the turn that     *)
(* declares their calls, and each declared call has its result there.      *)
Contract(ms) ==
    /\ \A i \in DOMAIN ms : ms[i].role = "tool" =>
          \E j \in 1..(i - 1) : /\ ms[i].id \in ms[j].calls
                                /\ \A k \in (j + 1)..i : ms[k].role = "tool"
    /\ \A j \in DOMAIN ms : \A c \in ms[j].calls :
          \E i \in (j + 1)..Len(ms) : ms[i].role = "tool" /\ ms[i].id = c

(* Every prompt rebuilt for a strict provider honours the contract,        *)
(* whatever crash, abort, failure or compaction has cut the rows.          *)
RebuiltIsValid == pc = "prefix" /\ strict => Contract(messages)

(* The prompt a strict provider gets later in a run honours it too. *)
SentIsValid == pc = "loop" /\ turns <= MaxToolTurns /\ strict => Contract(messages)

(* The cache of the local provider stays useful: a rebuilt prompt extends  *)
(* the one it has last processed, unless the code has accepted the miss.   *)
CacheParity ==
    pc = "prefix" /\ ~strict /\ ~excused => IsPrefix(slot, messages)

(* What the model has said as its answer is stored as the answer. *)
AnswerIsKept == \A i \in DOMAIN rows : rows[i].message.text # "empty"

(* After an auto-compaction the summary stands for all that came before:   *)
(* no older row is left in front of it.                                    *)
SummaryIsOldest ==
    \A i \in DOMAIN rows : rows[i].message.text = "summary" => i = 1

(* Every run ends: the limits on turns and on repeated calls leave the     *)
(* loop whatever the model asks for, and each way out goes through the     *)
(* storing of the answer.                                                  *)
RunsEnd == []<>(pc = "idle")

=============================================================================
