------------------------- MODULE TaskScheduler_proofs -------------------------
(***************************************************************************)
(* Proofs about TaskScheduler, for any tasks, agents and numbers of runs,  *)
(* edits and faults: every reservation has its owner, no escalation is     *)
(* stranded, a call that is over leaves nothing behind, and the sweep      *)
(* spares the rows of live runs.                                           *)
(***************************************************************************)
EXTENDS TaskScheduler, FiniteSetTheorems, SequenceTheorems, TLAPS

Ended == {"none", "over", "dead"}

(* Where the calls of a task, and those of a dispatch, can be. *)
TaskOnly == {"connecting", "starting", "updating", "deleting", "failed", "unlocking"}
DispatchOnly == {"triggering", "queued", "waiting"}

Kinds ==
    \A r \in Run :
        /\ Pc(r) \in Ended => IsTask(r)
        /\ Pc(r) \in TaskOnly => IsTask(r)
        /\ Pc(r) \in DispatchOnly => ~IsTask(r) /\ ~run[r].mine
        /\ Pc(r) = "triggering" => run[r].kind = "escalation"
        /\ Pc(r) \notin Ended /\ IsTask(r) =>
              run[r].task \in Task /\ run[r].agent = AgentOf[run[r].task]

(* Runs are taken in their order. *)
Allocated == \A r, s \in Run : r < s /\ Pc(s) # "none" => Pc(r) # "none"

(* A run that escalates waits for its tool, one escalation at a time. *)
Parents ==
    \A d \in Run : Pc(d) = "triggering" /\ run[d].parent # 0 =>
        /\ Pc(run[d].parent) = "tool"
        /\ \A e \in Run : Pc(e) = "triggering" /\ run[e].parent = run[d].parent => e = d

(* The lock of a task is held by one call of it, from "starting" on; only   *)
(* a call that fails may be without.                                        *)
MayLock == {"starting", "running", "tool", "completing", "updating", "deleting",
            "failing", "failed", "unlocking"}
Locked ==
    \A r \in Run :
        /\ \A t \in Task : lock[t] = r => IsTask(r) /\ run[r].task = t /\ Pc(r) \in MayLock
        /\ IsTask(r) /\ Pc(r) \in MayLock \ {"failing", "failed"} => lock[run[r].task] = r

(* What a call has in the maps. *)
Early == {"connecting", "starting", "triggering"}
Underway == {"running", "tool", "completing"}
Tidy ==
    \A r \in Run :
        /\ Pc(r) \in Ended \cup Early \cup {"unlocking"} => r \notin contexts \cup live
        /\ Pc(r) \in Ended \cup Early \cup {"queued", "waiting"} => pending[r] = <<>>
        /\ Pc(r) \in Underway \cup {"waiting"} => r \in live
        /\ IsTask(r) /\ (r \in contexts \cup live \/ pending[r] # <<>>) =>
              lock[run[r].task] = r

(* The dispatches that are queued, each in one place. *)
Waits(e) == Pc(e) = "queued" /\ run[e].kind = "escalation"
Queues ==
    /\ \A p \in Run : \A i \in DOMAIN pending[p] : Waits(pending[p][i])
    /\ \A b \in batches : \A i \in DOMAIN b : i # 1 => Waits(b[i])
    /\ \A b \in batches : /\ Pc(b[1]) \in Underway \cup {"queued", "waiting", "failing"}
                          /\ ~IsTask(b[1])

OnePlace ==
    /\ \A p, q \in Run : \A i \in DOMAIN pending[p], j \in DOMAIN pending[q] :
          pending[p][i] = pending[q][j] => p = q /\ i = j
    /\ \A b, c \in batches : \A i \in DOMAIN b, j \in DOMAIN c :
          b[i] = c[j] => b = c /\ i = j
    /\ \A p \in Run, b \in batches : \A i \in DOMAIN pending[p], j \in DOMAIN b :
          pending[p][i] # b[j]

Placed ==
    \A e \in Run : Pc(e) = "queued" =>
        \/ \E b \in batches : e = b[1]
        \/ run[e].kind = "escalation" /\ \E b \in batches : \E i \in DOMAIN b : e = b[i]
        \/ run[e].kind = "escalation" /\ \E p \in Run : \E i \in DOMAIN pending[p] : e = pending[p][i]

(* The row of a run under way is running; a row that is old and belongs to *)
(* a run that goes on is known to be live, to the sweep as well.           *)
Going == Underway \cup {"queued", "waiting"}
Rows ==
    /\ \A r \in Run : Pc(r) \in {"none", "connecting", "starting"} => row[r] = "none"
    /\ \A r \in old : row[r] = "running"
    /\ \A r \in Run : run[r].kind # "escalation" /\ Pc(r) \in Going => row[r] = "running"
    /\ \A r \in old : run[r].kind # "escalation" /\ Pc(r) \in Going => r \in live
    /\ sweeping => \A r \in old \ spared : ~(run[r].kind # "escalation" /\ Pc(r) \in Going)

Shape == /\ pending \in [Run -> Seq(Run)]
         /\ batches \subseteq Seq(Run) \ {<<>>}

CallType == [pc : Pcs, kind : {"task", "escalation", "alert"}, task : Task \cup {None},
             agent : Agent \cup {None}, enabled : BOOLEAN, mine : BOOLEAN,
             parent : Run \cup {0}]

Core == /\ Shape /\ Kinds /\ Allocated /\ Parents /\ Locked /\ Tidy
        /\ Queues /\ OnePlace /\ Placed /\ Rows /\ ReservationsOwned

(* A call of the user is about a task. *)
Edits == edit.op # "none" => edit.task \in Task

IInv == TypeOK /\ Edits /\ Core
-----------------------------------------------------------------------------
(* What To changes of the calls. *)
LEMMA Moved ==
    ASSUME TypeOK, NEW r \in Run, NEW p \in Pcs, To(r, p)
    PROVE  /\ run' \in [Run -> CallType]
           /\ \A s \in Run : /\ run'[s].pc = IF s = r THEN p ELSE run[s].pc
                             /\ run'[s].kind = run[s].kind /\ run'[s].task = run[s].task
                             /\ run'[s].agent = run[s].agent /\ run'[s].mine = run[s].mine
                             /\ run'[s].enabled = run[s].enabled
                             /\ run'[s].parent = run[s].parent
<1>1. run \in [Run -> CallType]
  BY DEF TypeOK, CallType
<1>2. run' = [run EXCEPT ![r] = [run[r] EXCEPT !.pc = p]]
  BY DEF To
<1>3. [run[r] EXCEPT !.pc = p] \in CallType
  BY <1>1 DEF CallType
<1>. QED BY <1>1, <1>2, <1>3 DEF CallType

(* SetToSeq enumerates a finite set. *)
LEMMA Enumerates ==
    ASSUME NEW S, IsFiniteSet(S)
    PROVE  /\ SetToSeq(S) \in [1..Cardinality(S) -> S]
           /\ \A i, j \in 1..Cardinality(S) : SetToSeq(S)[i] = SetToSeq(S)[j] => i = j
           /\ \A x \in S : \E i \in 1..Cardinality(S) : SetToSeq(S)[i] = x
<1>. DEFINE n == Cardinality(S)
            q == SetToSeq(S)
<1>1. n \in Nat /\ ExistsBijection(1..n, S)
  BY FS_CardinalityType
<1>2. PICK f : f \in [1..n -> S] /\ IsInjective(f)
  BY <1>1 DEF ExistsBijection, Bijection, Injection
<1>3. q \in [1..n -> S] /\ IsInjective(q)
  BY <1>2 DEF SetToSeq
<1>4. q \in Surjection(1..n, S)
  <2>1. q \in Injection(1..n, S)
    BY <1>3 DEF Injection
  <2>2. Cardinality(1..n) = n
    BY <1>1, FS_Interval
  <2>. QED BY <2>1, <2>2, FS_Injection
<1>. QED BY <1>3, <1>4 DEF IsInjective, Surjection

(* What the sequences hold. *)
LEMMA Elements ==
    ASSUME Shape
    PROVE  /\ \A q \in Run : \A i \in DOMAIN pending[q] : pending[q][i] \in Run
           /\ \A b \in batches : /\ 1 \in DOMAIN b
                                 /\ \A i \in DOMAIN b : b[i] \in Run
BY DEF Shape

(* A call that holds its agent goes on, or fails, and keeps what it has.   *)
LEMMA MoveKeeps ==
    ASSUME IInv, NEW r \in Run, Pc(r) \in Active \ {"tool"},
           NEW p \in {"completing", "updating", "deleting", "failing", "failed"}, To(r, p),
           p = "completing" => Pc(r) = "running",
           p \in {"updating", "deleting"} => IsTask(r) /\ Pc(r) \in {"completing", "updating"},
           p = "failed" => IsTask(r) /\ Pc(r) = "failing",
           \/ UNCHANGED <<row, old>>
           \/ p # "completing" /\ \E s \in {"completed", "failed"} : SetRow(r, s),
           UNCHANGED <<lock, memVars, sweeping, spared, batches>>
    PROVE  Core'
<1>1. p \in Pcs
  BY DEF Pcs
<1>2. /\ run' \in [Run -> CallType]
      /\ \A s \in Run : /\ run'[s].pc = IF s = r THEN p ELSE run[s].pc
                        /\ run'[s].kind = run[s].kind /\ run'[s].task = run[s].task
                        /\ run'[s].agent = run[s].agent /\ run'[s].mine = run[s].mine
                        /\ run'[s].enabled = run[s].enabled
                        /\ run'[s].parent = run[s].parent
  BY <1>1, Moved DEF IInv
<1>3. UNCHANGED <<running, reserved, contexts, pending, live>>
  BY DEF memVars
<1>. USE DEF IInv, Core, Pc, IsTask, Ended
<1>0. run \in [Run -> CallType]
  BY DEF TypeOK, CallType
<1>4. Shape'
  BY <1>3 DEF Shape
<1>5. Kinds'
  BY <1>2 DEF Kinds, TaskOnly, DispatchOnly, Active
<1>6. Allocated'
  BY <1>2 DEF Allocated, Active
<1>7. Parents'
  BY <1>0, <1>2 DEF Parents, CallType, Active
<1>8. Locked'
  BY <1>2 DEF Locked, MayLock, Active
<1>9. Tidy'
  BY <1>2, <1>3 DEF Tidy, Early, Underway, Active
<1>10. Queues'
  BY <1>2, <1>3, Elements DEF Queues, Waits, Underway, Active, Kinds, TaskOnly
<1>11. OnePlace'
  BY <1>3 DEF OnePlace
<1>12. Placed'
  BY <1>2, <1>3 DEF Placed
<1>13. Rows'
  <2>0. /\ row \in [Run -> {"none", "running", "completed", "failed"}]
        /\ old \subseteq Run
    BY DEF TypeOK
  <2>1. CASE UNCHANGED <<row, old>>
    BY <1>2, <1>3, <2>0, <2>1 DEF Rows, Going, Underway, Active
  <2>2. CASE p # "completing" /\ \E s \in {"completed", "failed"} : SetRow(r, s)
    <3>1. /\ \A s \in Run \ {r} : row'[s] = row[s]
          /\ old' = old \ {r}
      BY <2>0, <2>2 DEF SetRow
    <3>. QED BY <1>2, <1>3, <2>0, <2>2, <3>1 DEF Rows, Going, Underway, Active
  <2>. QED BY <2>1, <2>2
<1>14. Holders' = Holders
  BY <1>2 DEF Holders, Active
<1>15. ReservationsOwned'
  BY <1>2, <1>3, <1>14 DEF ReservationsOwned, Holders
<1>. QED BY <1>4, <1>5, <1>6, <1>7, <1>8, <1>9, <1>10, <1>11, <1>12, <1>13, <1>15

LEMMA OverIs ==
    /\ NoRun \in CallType /\ Over \in CallType
    /\ Over.pc = "over" /\ Over.kind = "task" /\ ~Over.mine
BY DEF NoRun, Over, CallType, Pcs

(* The finally of executeTask, with or without the lock. *)
LEMMA FinallyKeeps ==
    ASSUME IInv, NEW r \in Run, IsTask(r),
           Pc(r) \in {"connecting", "updating", "deleting", "failing", "failed"}, Finally(r),
           UNCHANGED <<row, old, lock, sweeping, spared>>
    PROVE  Core'
<1>. DEFINE locks == lock[run[r].task] = r
<1>. USE DEF IInv, Core, Pc, IsTask, Ended
<1>0. /\ run \in [Run -> CallType]
      /\ old \subseteq Run
  BY DEF TypeOK, CallType
<1>1. /\ \A s \in Run \ {r} : run'[s] = run[s]
      /\ run'[r].kind = "task"
      /\ run'[r].pc = IF locks THEN "unlocking" ELSE "over"
      /\ locks => run'[r].task = run[r].task /\ run'[r].agent = run[r].agent
  BY <1>0, OverIs DEF Finally, CallType
<1>2. /\ contexts' = contexts \ {r} /\ live' = live \ {r}
      /\ running' = running \ {run[r].task} /\ reserved' = reserved \ {run[r].agent}
      /\ UNCHANGED <<pending, batches>>
  BY DEF Finally
<1>3. Pc(r) = "connecting" => ~locks
  BY DEF Locked, MayLock, Kinds
<1>4. Shape'
  BY <1>2 DEF Shape
<1>5. Kinds'
  BY <1>1 DEF Kinds, TaskOnly, DispatchOnly
<1>6. Allocated'
  BY <1>1 DEF Allocated
<1>7. Parents'
  BY <1>0, <1>1 DEF Parents, CallType
<1>8. Locked'
  BY <1>1 DEF Locked, MayLock, Kinds
<1>9. Tidy'
  BY <1>1, <1>2, <1>3 DEF Tidy, Early, Underway, Locked, MayLock
<1>10. Queues'
  BY <1>1, <1>2, Elements DEF Queues, Waits, Underway
<1>11. OnePlace'
  BY <1>2 DEF OnePlace
<1>12. Placed'
  BY <1>1, <1>2 DEF Placed
<1>13. Rows'
  BY <1>0, <1>1, <1>2 DEF Rows, Going, Underway
<1>14. Holders' = Holders \ {r} /\ r \in Holders
  BY <1>1 DEF Holders, Active
<1>15. ReservationsOwned'
  <2>1. \A s \in Holders \ {r} : IsTask(s) => run[s].task # run[r].task
    BY <1>0, <1>14 DEF ReservationsOwned, Holders, Kinds, Active
  <2>. QED BY <1>1, <1>2, <1>14, <2>1 DEF ReservationsOwned, Holders
<1>. QED BY <1>4, <1>5, <1>6, <1>7, <1>8, <1>9, <1>10, <1>11, <1>12, <1>13, <1>15

(* What a flush makes of the batches: some stay, the first of others is    *)
(* taken off, and what was pending under r is a batch of its own.          *)
LEMMA Flushed ==
    ASSUME Shape, NEW r \in Run, Flush(r)
    PROVE  /\ pending' \in [Run -> Seq(Run)]
           /\ pending'[r] = <<>>
           /\ \A p \in Run \ {r} : pending'[p] = pending[p]
           /\ batches' \subseteq Seq(Run) \ {<<>>}
           /\ \A b \in batches : b[1] # r => b \in batches'
           /\ \A b \in batches : b[1] = r =>
                 \A i \in DOMAIN b : i # 1 => /\ i - 1 \in DOMAIN Tail(b)
                                              /\ Tail(b) \in batches'
                                              /\ Tail(b)[i - 1] = b[i]
           /\ pending[r] # <<>> => pending[r] \in batches'
           /\ \A c \in batches' :
                 \/ c \in batches /\ c[1] # r
                 \/ c = pending[r]
                 \/ \E b \in batches :
                       /\ c = Tail(b) /\ b[1] = r
                       /\ \A i \in DOMAIN c : i + 1 \in DOMAIN b /\ c[i] = b[i + 1]
<1>. DEFINE ended == {b \in batches : Head(b) = r}
<1>1. /\ pending \in [Run -> Seq(Run)] /\ pending[r] \in Seq(Run)
      /\ \A b \in batches : b \in Seq(Run) /\ b # <<>>
  BY DEF Shape
<1>2. ASSUME NEW b \in batches
      PROVE  /\ Head(b) = b[1] /\ Tail(b) \in Seq(Run) /\ 1 \in DOMAIN b
             /\ \A i \in DOMAIN Tail(b) : i + 1 \in DOMAIN b /\ Tail(b)[i] = b[i + 1]
             /\ \A i \in DOMAIN b : i # 1 => /\ i - 1 \in DOMAIN Tail(b)
                                             /\ Tail(b)[i - 1] = b[i]
                                             /\ Tail(b) # <<>>
  <2>1. b \in Seq(Run) /\ b # <<>> /\ Head(b) = b[1]
    BY <1>1
  <2>2. /\ Tail(b) \in Seq(Run) /\ Len(Tail(b)) = Len(b) - 1
        /\ \A i \in 1..Len(Tail(b)) : Tail(b)[i] = b[i + 1]
    BY <2>1, HeadTailProperties
  <2>3. /\ DOMAIN b = 1..Len(b) /\ Len(b) \in Nat \ {0}
        /\ DOMAIN Tail(b) = 1..Len(Tail(b))
    BY <2>1, <2>2, EmptySeq, LenProperties
  <2>4. ASSUME NEW i \in DOMAIN b, i # 1
        PROVE  /\ i - 1 \in DOMAIN Tail(b) /\ Tail(b)[i - 1] = b[i]
               /\ Tail(b) # <<>>
    BY <2>2, <2>3, <2>4, EmptySeq
  <2>5. \A i \in DOMAIN Tail(b) : i + 1 \in DOMAIN b /\ Tail(b)[i] = b[i + 1]
    BY <2>2, <2>3
  <2>. QED BY <2>1, <2>2, <2>3, <2>4, <2>5
<1>3. /\ batches' = (batches \ ended)
                      \cup (({pending[r]} \cup {Tail(b) : b \in ended}) \ {<<>>})
      /\ pending' = [pending EXCEPT ![r] = <<>>]
  BY DEF Flush
<1>4. /\ pending' \in [Run -> Seq(Run)] /\ pending'[r] = <<>>
      /\ \A p \in Run \ {r} : pending'[p] = pending[p]
  BY <1>1, <1>3
<1>5. ASSUME NEW c \in batches' PROVE c \in Seq(Run) /\ c # <<>>
  <2>1. CASE c \in batches \ ended
    BY <1>1, <2>1
  <2>2. CASE c = pending[r] /\ c # <<>>
    BY <1>1, <2>2
  <2>3. CASE (\E b \in ended : c = Tail(b)) /\ c # <<>>
    BY <1>2, <2>3
  <2>. QED BY <1>3, <2>1, <2>2, <2>3
<1>6. /\ \A b \in batches : b[1] # r => b \in batches'
      /\ pending[r] # <<>> => pending[r] \in batches'
  BY <1>2, <1>3
<1>7. ASSUME NEW b \in batches, b[1] = r, NEW i \in DOMAIN b, i # 1
      PROVE  i - 1 \in DOMAIN Tail(b) /\ Tail(b) \in batches' /\ Tail(b)[i - 1] = b[i]
  BY <1>2, <1>3, <1>7
<1>8. ASSUME NEW c \in batches'
      PROVE  \/ c \in batches /\ c[1] # r
             \/ c = pending[r]
             \/ \E b \in batches : /\ c = Tail(b) /\ b[1] = r
                                   /\ \A i \in DOMAIN c : i + 1 \in DOMAIN b /\ c[i] = b[i + 1]
  <2>1. CASE c \in batches \ ended
    BY <1>2, <2>1
  <2>2. CASE \E b \in ended : c = Tail(b)
    BY <1>2, <2>2
  <2>. QED BY <1>3, <2>1, <2>2
<1>. QED BY <1>4, <1>5, <1>6, <1>7, <1>8

LEMMA FlushKeeps ==
    ASSUME IInv, NEW r \in Run, Flush(r), Pc(r) \notin {"queued", "waiting"},
           run'[r] = Over, \A s \in Run \ {r} : run'[s] = run[s]
    PROVE  Shape' /\ Queues' /\ OnePlace' /\ Placed'
<1>. USE DEF IInv, Core, Pc, IsTask
<1>1. Shape'
  BY Flushed DEF Shape
<1>2. /\ \A p \in Run : \A i \in DOMAIN pending'[p] :
            i \in DOMAIN pending[p] /\ pending'[p][i] = pending[p][i] /\ p # r
      /\ \A p \in Run : pending[p] \in Seq(Run)
      /\ \A b \in batches : b \in Seq(Run)
  <2>1. DOMAIN pending'[r] = {}
    BY Flushed, EmptySeq, LenProperties
  <2>. QED BY <2>1, Flushed DEF Shape
<1>3. \A e \in Run : Waits(e) => run'[e].pc = "queued" /\ run'[e].kind = "escalation" /\ e # r
  BY DEF Waits
<1>4. Queues'
  <2>1. ASSUME NEW p \in Run, NEW i \in DOMAIN pending'[p]
        PROVE  run'[pending'[p][i]].pc = "queued" /\ run'[pending'[p][i]].kind = "escalation"
    BY <1>2, <1>3, <2>1, Elements DEF Queues
  <2>2. ASSUME NEW c \in batches'
        PROVE  /\ \A i \in DOMAIN c : i # 1 => run'[c[i]].pc = "queued" /\ run'[c[i]].kind = "escalation"
               /\ run'[c[1]].pc \in Underway \cup {"queued", "waiting", "failing"}
               /\ run'[c[1]].kind # "task"
    <3>1. c \in Seq(Run) /\ 1 \in DOMAIN c
      BY Flushed
    <3>2. CASE c \in batches /\ c[1] # r
      BY <1>3, <3>1, <3>2, Elements DEF Queues
    <3>3. CASE c = pending[r]
      BY <1>3, <3>1, <3>3, Elements DEF Queues, Waits
    <3>4. CASE \E b \in batches : \A i \in DOMAIN c : i + 1 \in DOMAIN b /\ c[i] = b[i + 1]
      <4>1. PICK b \in batches : \A i \in DOMAIN c : i + 1 \in DOMAIN b /\ c[i] = b[i + 1]
        BY <3>4
      <4>2. \A i \in DOMAIN c : i + 1 # 1 /\ Waits(c[i])
        BY <1>2, <3>1, <4>1 DEF Queues
      <4>. QED BY <1>3, <3>1, <4>2, Elements DEF Waits
    <3>. QED BY <3>2, <3>3, <3>4, Flushed
  <2>. QED BY <2>1, <2>2 DEF Queues, Waits
<1>5. OnePlace'
  <2>1. ASSUME NEW p \in Run, NEW q \in Run,
               NEW i \in DOMAIN pending'[p], NEW j \in DOMAIN pending'[q],
               pending'[p][i] = pending'[q][j]
        PROVE  p = q /\ i = j
    BY <1>2, <2>1 DEF OnePlace
  (* Where the entries of a new batch were. *)
  <2>2. ASSUME NEW c \in batches', NEW i \in DOMAIN c
        PROVE  \/ c \in batches /\ c[1] # r
               \/ c = pending[r]
               \/ \E b \in batches : /\ c = Tail(b) /\ b[1] = r
                                     /\ i + 1 \in DOMAIN b /\ c[i] = b[i + 1]
    BY Flushed
  <2>3. ASSUME NEW p \in Run, NEW c \in batches',
               NEW i \in DOMAIN pending'[p], NEW j \in DOMAIN c
        PROVE  pending'[p][i] # c[j]
    BY <1>2, <2>2 DEF OnePlace
  <2>4. ASSUME NEW b \in batches', NEW c \in batches', NEW i \in DOMAIN b, NEW j \in DOMAIN c,
               b[i] = c[j]
        PROVE  b = c /\ i = j
    <3>00. \A d \in batches' : d \in Seq(Run)
      BY Flushed
    <3>0. i \in Int /\ j \in Int /\ b \in Seq(Run) /\ c \in Seq(Run)
      BY <3>00
    <3>1. CASE b \in batches /\ b[1] # r
      BY <1>2, <2>2, <2>4, <3>0, <3>1, Elements DEF OnePlace
    <3>2. CASE b = pending[r]
      BY <1>2, <2>2, <2>4, <3>0, <3>2 DEF OnePlace
    <3>3. CASE \E d \in batches : /\ b = Tail(d) /\ d[1] = r
                                  /\ i + 1 \in DOMAIN d /\ b[i] = d[i + 1]
      <4>1. PICK d \in batches : /\ b = Tail(d) /\ d[1] = r
                                 /\ i + 1 \in DOMAIN d /\ b[i] = d[i + 1]
        BY <3>3
      <4>2. CASE c \in batches /\ c[1] # r
        BY <2>4, <4>1, <4>2, Elements DEF OnePlace
      <4>3. CASE c = pending[r]
        BY <2>4, <4>1, <4>3 DEF OnePlace
      <4>4. CASE \E e \in batches : /\ c = Tail(e) /\ e[1] = r
                                    /\ j + 1 \in DOMAIN e /\ c[j] = e[j + 1]
        <5>1. PICK e \in batches : /\ c = Tail(e) /\ e[1] = r
                                   /\ j + 1 \in DOMAIN e /\ c[j] = e[j + 1]
          BY <4>4
        <5>2. d = e /\ i + 1 = j + 1
          BY <2>4, <4>1, <5>1 DEF OnePlace
        <5>. QED BY <3>0, <4>1, <5>1, <5>2
      <4>. QED BY <2>2, <4>2, <4>3, <4>4
    <3>. QED BY <2>2, <3>1, <3>2, <3>3
  <2>. QED BY <2>1, <2>3, <2>4 DEF OnePlace
<1>6. Placed'
  <2>. SUFFICES ASSUME NEW e \in Run, run'[e].pc = "queued"
       PROVE  \/ \E c \in batches' : e = c[1]
              \/ run'[e].kind = "escalation" /\ \E c \in batches' : \E i \in DOMAIN c : e = c[i]
              \/ run'[e].kind = "escalation"
                   /\ \E p \in Run : \E i \in DOMAIN pending'[p] : e = pending'[p][i]
    BY DEF Placed
  <2>1. e # r /\ run'[e] = run[e]
    BY OverIs DEF Over
  <2>2. CASE \E b \in batches : e = b[1]
    BY <2>1, <2>2, Flushed
  <2>3. CASE run[e].kind = "escalation" /\ \E b \in batches : \E i \in DOMAIN b : e = b[i]
    <3>1. PICK b \in batches : \E i \in DOMAIN b : e = b[i]
      BY <2>3
    <3>2. PICK i \in DOMAIN b : e = b[i]
      BY <3>1
    <3>3. CASE b[1] # r
      BY <2>1, <2>3, <3>2, <3>3, Flushed
    <3>4. CASE b[1] = r
      <4>1. i # 1
        BY <2>1, <3>2, <3>4
      <4>2. Tail(b) \in batches' /\ i - 1 \in DOMAIN Tail(b) /\ e = Tail(b)[i - 1]
        BY <3>2, <3>4, <4>1, Flushed
      <4>. QED BY <2>1, <2>3, <4>2
    <3>. QED BY <3>3, <3>4
  <2>4. CASE run[e].kind = "escalation" /\ \E p \in Run : \E i \in DOMAIN pending[p] : e = pending[p][i]
    <3>1. PICK p \in Run : \E i \in DOMAIN pending[p] : e = pending[p][i]
      BY <2>4
    <3>2. CASE p = r
      BY <1>2, <2>1, <2>4, <3>1, <3>2, Flushed
    <3>3. CASE p # r
      BY <2>1, <2>4, <3>1, <3>3, Flushed
    <3>. QED BY <3>2, <3>3
  <2>. QED BY <2>1, <2>2, <2>3, <2>4 DEF Placed
<1>. QED BY <1>1, <1>4, <1>5, <1>6

(* The finally of a dispatch. *)
LEMMA FinallyDispatchKeeps ==
    ASSUME IInv, NEW r \in Run, ~IsTask(r), Pc(r) \in {"completing", "failing"},
           FinallyDispatch(r),
           UNCHANGED <<row, old>> \/ \E s \in {"completed", "failed"} : SetRow(r, s),
           UNCHANGED <<lock, sweeping, spared>>
    PROVE  Core'
<1>. USE DEF IInv, Core, Pc, IsTask, Ended
<1>0. /\ run \in [Run -> CallType]
      /\ row \in [Run -> {"none", "running", "completed", "failed"}]
      /\ old \subseteq Run
  BY DEF TypeOK, CallType
<1>1. /\ \A s \in Run \ {r} : run'[s] = run[s]
      /\ run'[r] = Over /\ run'[r].pc = "over" /\ run'[r].kind = "task"
  BY <1>0, OverIs DEF FinallyDispatch
<1>2. /\ contexts' = contexts \ {r} /\ live' = live \ {r} /\ running' = running
      /\ reserved' = IF run[r].mine THEN reserved \ {run[r].agent} ELSE reserved
      /\ Flush(r)
  BY DEF FinallyDispatch
<1>3. Shape' /\ Queues' /\ OnePlace' /\ Placed'
  BY <1>1, <1>2, FlushKeeps
<1>4. pending'[r] = <<>> /\ \A p \in Run \ {r} : pending'[p] = pending[p]
  BY <1>2, Flushed
<1>5. Kinds'
  BY <1>1 DEF Kinds, TaskOnly, DispatchOnly
<1>6. Allocated'
  BY <1>1 DEF Allocated
<1>7. Parents'
  BY <1>0, <1>1 DEF Parents, CallType
<1>8. Locked'
  BY <1>1 DEF Locked, MayLock, Kinds
<1>9. Tidy'
  BY <1>1, <1>2, <1>4 DEF Tidy, Early, Underway
<1>10. Rows'
  <2>1. \A s \in Run \ {r} : row'[s] = row[s]
    BY <1>0 DEF SetRow
  <2>2. old' \subseteq old /\ \A s \in old \ {r} : s \in old'
    BY DEF SetRow
  <2>3. \A s \in old' : row'[s] = "running"
    BY <1>0 DEF SetRow, Rows
  <2>. QED BY <1>0, <1>1, <1>2, <2>1, <2>2, <2>3 DEF Rows, Going, Underway
<1>11. Holders' = Holders \ {r} /\ (r \in Holders <=> run[r].mine)
  BY <1>1 DEF Holders, Active
<1>12. ReservationsOwned'
  BY <1>1, <1>2, <1>11 DEF ReservationsOwned, Holders
<1>. QED BY <1>3, <1>5, <1>6, <1>7, <1>8, <1>9, <1>10, <1>12

(* The unlock of a call of executeTask, and its flush. *)
LEMMA UnlockKeeps ==
    ASSUME IInv, NEW r \in Run, Unlock(r)
    PROVE  Core'
<1>. USE DEF IInv, Core, Pc, IsTask, Ended
<1>0. /\ run \in [Run -> CallType]
      /\ lock \in [Task -> Run \cup {0}]
      /\ old \subseteq Run
      /\ Pc(r) = "unlocking" /\ IsTask(r)
  BY DEF TypeOK, CallType, Unlock, Kinds, TaskOnly
<1>1. /\ \A s \in Run \ {r} : run'[s] = run[s]
      /\ run'[r] = Over /\ run'[r].pc = "over" /\ run'[r].kind = "task"
  BY <1>0, OverIs DEF Unlock
<1>2. /\ UNCHANGED <<row, old, running, reserved, contexts, live, sweeping, spared>>
      /\ Flush(r)
  BY DEF Unlock, loopVars
<1>3. Shape' /\ Queues' /\ OnePlace' /\ Placed'
  BY <1>0, <1>1, <1>2, FlushKeeps
<1>4. pending'[r] = <<>> /\ \A p \in Run \ {r} : pending'[p] = pending[p]
  BY <1>2, Flushed
<1>5. /\ run[r].task \in Task /\ lock[run[r].task] = r
      /\ r \notin contexts \cup live
  BY <1>0 DEF Locked, MayLock, Kinds, Tidy
<1>6. \A t \in Task : lock'[t] = IF t = run[r].task THEN 0 ELSE lock[t]
  BY <1>0 DEF Unlock
<1>7. Kinds'
  BY <1>1 DEF Kinds, TaskOnly, DispatchOnly
<1>8. Allocated'
  BY <1>0, <1>1 DEF Allocated
<1>9. Parents'
  BY <1>0, <1>1 DEF Parents, CallType
<1>10. \A s \in Run \ {r} : IsTask(s) /\ run[s].task = run[r].task => lock[run[s].task] # s
  BY <1>5
<1>11. Locked'
  <2>1. 0 \notin Run
    BY DEF Run
  <2>. QED BY <1>0, <1>1, <1>5, <1>6, <1>10, <2>1 DEF Locked, MayLock, Kinds
<1>12. Tidy'
  BY <1>0, <1>1, <1>2, <1>4, <1>5, <1>6, <1>10 DEF Tidy, Early, Underway, Kinds
<1>13. Rows'
  BY <1>0, <1>1, <1>2 DEF Rows, Going, Underway
<1>14. Holders' = Holders
  BY <1>0, <1>1 DEF Holders, Active
<1>15. ReservationsOwned'
  BY <1>0, <1>1, <1>2, <1>14 DEF ReservationsOwned, Holders, Active
<1>. QED BY <1>3, <1>7, <1>8, <1>9, <1>11, <1>12, <1>13, <1>15

(* A call that has connected gets the lock. *)
LEMMA LockKeeps ==
    ASSUME IInv, NEW r \in Run, Pc(r) = "connecting", lock[run[r].task] = 0,
           lock' = [lock EXCEPT ![run[r].task] = r], To(r, "starting"),
           UNCHANGED <<row, old, memVars, sweeping, spared, batches>>
    PROVE  Core'
<1>1. "starting" \in Pcs
  BY DEF Pcs
<1>2. /\ run' \in [Run -> CallType]
      /\ \A s \in Run : /\ run'[s].pc = IF s = r THEN "starting" ELSE run[s].pc
                        /\ run'[s].kind = run[s].kind /\ run'[s].task = run[s].task
                        /\ run'[s].agent = run[s].agent /\ run'[s].mine = run[s].mine
                        /\ run'[s].enabled = run[s].enabled
                        /\ run'[s].parent = run[s].parent
  BY <1>1, Moved DEF IInv
<1>3. UNCHANGED <<running, reserved, contexts, pending, live>>
  BY DEF memVars
<1>. USE DEF IInv, Core, Pc, IsTask, Ended
<1>4. /\ run \in [Run -> CallType] /\ old \subseteq Run
      /\ lock \in [Task -> Run \cup {0}] /\ 0 \notin Run
  BY DEF TypeOK, CallType, Run
<1>5. IsTask(r) /\ run[r].task \in Task
  BY DEF Kinds, TaskOnly
<1>6. \A t \in Task : lock'[t] = IF t = run[r].task THEN r ELSE lock[t]
  BY <1>4
<1>7. Shape'
  BY <1>3 DEF Shape
<1>8. Kinds'
  BY <1>2 DEF Kinds, TaskOnly, DispatchOnly
<1>9. Allocated'
  BY <1>2 DEF Allocated
<1>10. Parents'
  BY <1>2, <1>4 DEF Parents, CallType
<1>11. Locked'
  BY <1>2, <1>4, <1>5, <1>6 DEF Locked, MayLock, Kinds
<1>12. Tidy'
  BY <1>2, <1>3, <1>4, <1>5, <1>6 DEF Tidy, Early, Underway, Locked, MayLock, Kinds
<1>13. Queues'
  <2>1. \A b \in batches : b[1] \in Run \ {r}
    BY Elements DEF Queues, Underway
  <2>. QED BY <1>2, <1>3, Elements, <2>1 DEF Queues, Waits
<1>14. OnePlace'
  BY <1>3 DEF OnePlace
<1>15. Placed'
  BY <1>2, <1>3 DEF Placed
<1>16. Rows'
  BY <1>2, <1>3, <1>4 DEF Rows, Going, Underway
<1>17. Holders' = Holders
  BY <1>2 DEF Holders, Active
<1>18. ReservationsOwned'
  BY <1>2, <1>3, <1>17 DEF ReservationsOwned, Holders
<1>. QED BY <1>7, <1>8, <1>9, <1>10, <1>11, <1>12, <1>13, <1>14, <1>15, <1>16, <1>18

(* The row of a call is inserted, and the call is live. *)
LEMMA StartKeeps ==
    ASSUME IInv, NEW r \in Run, Pc(r) = "starting",
           row' = [row EXCEPT ![r] = "running"], live' = live \cup {r},
           contexts' \in {contexts, contexts \cup {r}}, To(r, "running"),
           UNCHANGED <<old, lock, running, reserved, pending, sweeping, spared, batches>>
    PROVE  Core'
<1>1. "running" \in Pcs
  BY DEF Pcs
<1>2. /\ run' \in [Run -> CallType]
      /\ \A s \in Run : /\ run'[s].pc = IF s = r THEN "running" ELSE run[s].pc
                        /\ run'[s].kind = run[s].kind /\ run'[s].task = run[s].task
                        /\ run'[s].agent = run[s].agent /\ run'[s].mine = run[s].mine
                        /\ run'[s].enabled = run[s].enabled
                        /\ run'[s].parent = run[s].parent
  BY <1>1, Moved DEF IInv
<1>. USE DEF IInv, Core, Pc, IsTask, Ended
<1>3. /\ run \in [Run -> CallType] /\ old \subseteq Run
      /\ row \in [Run -> {"none", "running", "completed", "failed"}]
  BY DEF TypeOK, CallType
<1>4. \A s \in Run : row'[s] = IF s = r THEN "running" ELSE row[s]
  BY <1>3
<1>5. IsTask(r) /\ row[r] = "none" /\ lock[run[r].task] = r
  BY DEF Kinds, TaskOnly, Rows, Locked, MayLock
<1>7. Shape'
  BY DEF Shape
<1>8. Kinds'
  BY <1>2 DEF Kinds, TaskOnly, DispatchOnly
<1>9. Allocated'
  BY <1>2 DEF Allocated
<1>10. Parents'
  BY <1>2, <1>3 DEF Parents, CallType
<1>11. Locked'
  BY <1>2 DEF Locked, MayLock
<1>12. Tidy'
  BY <1>2, <1>5 DEF Tidy, Early, Underway
<1>13. Queues'
  <2>1. \A b \in batches : b[1] \in Run \ {r}
    BY Elements DEF Queues, Underway
  <2>. QED BY <1>2, Elements, <2>1 DEF Queues, Waits
<1>14. OnePlace'
  BY DEF OnePlace
<1>15. Placed'
  BY <1>2 DEF Placed
<1>16. Rows'
  BY <1>2, <1>3, <1>4, <1>5 DEF Rows, Going, Underway
<1>17. Holders' = Holders
  BY <1>2 DEF Holders, Active
<1>18. ReservationsOwned'
  BY <1>2, <1>17 DEF ReservationsOwned, Holders
<1>. QED BY <1>7, <1>8, <1>9, <1>10, <1>11, <1>12, <1>13, <1>14, <1>15, <1>16, <1>18

(* The calls that have begun are the first ones. *)
LEMMA Allocation ==
    ASSUME Allocated
    PROVE  \E k \in 0..MaxRuns : /\ Unused = (k + 1)..MaxRuns
                                 /\ Cardinality(Unused) = MaxRuns - k
<1>. DEFINE Used == {r \in Run : Pc(r) # "none"}
            k == Cardinality(Used)
<1>1. MaxRuns \in Nat /\ IsFiniteSet(Run) /\ Cardinality(Run) = MaxRuns
  BY BoundsAssumption, FS_Interval DEF Run
<1>2. IsFiniteSet(Used) /\ k \in 0..MaxRuns
  BY <1>1, FS_Subset, FS_CardinalityType
<1>3. ASSUME NEW r \in Used PROVE r \in 1..k
  <2>1. 1..r \in SUBSET Used
    BY <1>1 DEF Allocated, Run
  <2>2. Cardinality(1..r) = r
    BY <1>1, FS_Interval DEF Run
  <2>3. r <= k
    BY <1>2, <2>1, <2>2, FS_Subset
  <2>. QED BY <1>1, <1>2, <2>3 DEF Run
<1>4. Used = 1..k
  <2>1. IsFiniteSet(1..k) /\ Cardinality(1..k) = k
    BY <1>2, FS_Interval
  <2>. HIDE DEF k
  <2>. QED BY <1>3, <2>1, FS_Subset DEF k
<1>5. Unused = (k + 1)..MaxRuns
  <2>1. Unused = Run \ Used
    BY DEF Unused
  <2>. HIDE DEF k, Used
  <2>. QED BY <1>1, <1>2, <1>4, <2>1 DEF Run
<1>6. Cardinality(Unused) = MaxRuns - k
  <2>1. k \in Nat /\ k <= MaxRuns /\ MaxRuns \in Nat
    BY <1>1, <1>2
  <2>. HIDE DEF k, Used
  <2>2. Cardinality((k + 1)..MaxRuns) = IF k + 1 > MaxRuns THEN 0 ELSE MaxRuns - (k + 1) + 1
    BY <2>1, FS_Interval
  <2>. QED BY <1>5, <2>1, <2>2
<1>. QED BY <1>2, <1>5, <1>6

LEMMA FirstUnused ==
    ASSUME Allocated, Unused # {}
    PROVE  /\ Min(Unused) \in Run /\ Pc(Min(Unused)) = "none"
           /\ \A s \in Run : s < Min(Unused) => Pc(s) # "none"
<1>1. PICK k \in 0..MaxRuns : Unused = (k + 1)..MaxRuns
  BY Allocation
<1>2. \E x \in Unused : \A y \in Unused : x =< y
  BY <1>1, BoundsAssumption
<1>3. PICK m \in Unused : m = Min(Unused) /\ \A y \in Unused : m =< y
  BY <1>2 DEF Min
<1>4. Unused \subseteq Run /\ Run \subseteq Nat
  BY DEF Unused, Run
<1>5. \A s \in Run : s \in Unused <=> Pc(s) = "none"
  BY DEF Unused
<1>. QED BY <1>3, <1>4, <1>5

LEMMA ExecutionIs ==
    ASSUME NEW t \in Task, NEW enabled \in BOOLEAN
    PROVE  /\ Execution(t, enabled) \in CallType
           /\ Execution(t, enabled).pc = "connecting" /\ Execution(t, enabled).kind = "task"
           /\ Execution(t, enabled).task = t /\ Execution(t, enabled).agent = AgentOf[t]
<1>1. AgentOf[t] \in Agent
  BY TasksAssumption
<1>. QED BY <1>1 DEF Execution, NoRun, CallType, Pcs

(* Calls of executeTask begin, each with an agent that nobody had. *)
LEMMA ExecuteKeeps ==
    ASSUME IInv, NEW D \in SUBSET Unused, NEW f \in [D -> Task],
           \A r \in Run \ D : run'[r] = run[r],
           \A r \in D : \E enabled \in BOOLEAN : run'[r] = Execution(f[r], enabled),
           \A r \in D : AgentOf[f[r]] \notin reserved,
           \A r, s \in D : AgentOf[f[r]] = AgentOf[f[s]] => r = s,
           Allocated',
           running' = running \cup {f[r] : r \in D},
           reserved' = reserved \cup {AgentOf[f[r]] : r \in D},
           UNCHANGED <<row, old, lock, contexts, pending, live, sweeping, spared, batches>>
    PROVE  Core'
<1>. USE DEF IInv, Core, Pc, IsTask, Ended
<1>1. /\ run \in [Run -> CallType] /\ old \subseteq Run /\ 0 \notin Run
      /\ D \subseteq Run /\ \A r \in D : Pc(r) = "none"
  BY DEF TypeOK, CallType, Run, Unused
<1>2. \A r \in D : /\ run'[r].pc = "connecting" /\ run'[r].kind = "task"
                   /\ run'[r].task = f[r] /\ run'[r].agent = AgentOf[f[r]]
                   /\ f[r] \in Task
  BY ExecutionIs
<1>3. Shape'
  BY DEF Shape
<1>4. Kinds'
  BY <1>1, <1>2 DEF Kinds, TaskOnly, DispatchOnly
<1>5. Parents'
  BY <1>1, <1>2 DEF Parents, CallType
<1>6. Locked'
  BY <1>1, <1>2 DEF Locked, MayLock
<1>7. Tidy'
  BY <1>1, <1>2 DEF Tidy, Early, Underway
<1>8. \A e \in Run : Pc(e) # "none" => run'[e] = run[e]
  BY <1>1
<1>9. Queues'
  BY <1>8, Elements DEF Queues, Waits, Underway
<1>10. OnePlace'
  BY DEF OnePlace
<1>11. Placed'
  BY <1>1, <1>2 DEF Placed
<1>12. Rows'
  BY <1>1, <1>2 DEF Rows, Going, Underway
<1>13. Holders' = Holders \cup D /\ Holders \cap D = {}
  BY <1>1, <1>2 DEF Holders, Active
<1>14. ReservationsOwned'
  <2>1. reserved' = {run'[r].agent : r \in Holders'}
    BY <1>1, <1>2, <1>13 DEF ReservationsOwned, Holders
  <2>2. running' = {run'[r].task : r \in {s \in Holders' : run'[s].kind = "task"}}
    BY <1>1, <1>2, <1>13 DEF ReservationsOwned, Holders
  <2>3. ASSUME NEW r \in Holders', NEW s \in Holders', run'[r].agent = run'[s].agent
        PROVE  r = s
    BY <1>1, <1>2, <1>13, <2>3 DEF ReservationsOwned, Holders
  <2>. QED BY <2>1, <2>2, <2>3 DEF ReservationsOwned
<1>. QED BY <1>3, <1>4, <1>5, <1>6, <1>7, <1>9, <1>10, <1>11, <1>12, <1>14

(* A dispatch begins, as the first of its batch. *)
LEMMA DispatchKeeps ==
    ASSUME IInv, NEW r \in Run, Dispatch(r)
    PROVE  Core'
<1>1. "waiting" \in Pcs /\ To(r, "waiting") /\ Pc(r) = "queued" /\ \E b \in batches : Head(b) = r
  BY DEF Pcs, Dispatch
<1>2. /\ run' \in [Run -> CallType]
      /\ \A s \in Run : /\ run'[s].pc = IF s = r THEN "waiting" ELSE run[s].pc
                        /\ run'[s].kind = run[s].kind /\ run'[s].task = run[s].task
                        /\ run'[s].agent = run[s].agent /\ run'[s].mine = run[s].mine
                        /\ run'[s].enabled = run[s].enabled
                        /\ run'[s].parent = run[s].parent
  BY <1>1, Moved DEF IInv
<1>3. /\ UNCHANGED <<row, old, lock, running, reserved, contexts, pending, batches, sweeping, spared>>
      /\ live' = live \cup {r}
  BY DEF Dispatch, dbVars, loopVars
<1>. USE DEF IInv, Core, Pc, IsTask, Ended
<1>4. /\ run \in [Run -> CallType] /\ old \subseteq Run
  BY DEF TypeOK, CallType
<1>5. PICK b \in batches : b[1] = r /\ 1 \in DOMAIN b
  BY <1>1, Elements DEF Shape
<1>6. ~IsTask(r) /\ ~run[r].mine
  BY <1>1 DEF Kinds, DispatchOnly
<1>7. Shape'
  BY <1>3 DEF Shape
<1>8. Kinds'
  BY <1>1, <1>2 DEF Kinds, TaskOnly, DispatchOnly
<1>9. Allocated'
  BY <1>1, <1>2 DEF Allocated
<1>10. Parents'
  BY <1>1, <1>2, <1>4 DEF Parents, CallType
<1>11. Locked'
  BY <1>1, <1>2, <1>3, <1>6 DEF Locked, MayLock
<1>12. Tidy'
  BY <1>1, <1>2, <1>3, <1>6 DEF Tidy, Early, Underway
<1>13. Queues'
  <2>1. \A p \in Run : \A i \in DOMAIN pending[p] : pending[p][i] # r
    BY <1>5 DEF OnePlace
  <2>2. \A c \in batches : \A i \in DOMAIN c : i # 1 => c[i] # r
    BY <1>5 DEF OnePlace
  <2>3. \A c \in batches : run'[c[1]].kind = run[c[1]].kind
    BY <1>2, Elements
  <2>4. \A c \in batches : run'[c[1]].pc = IF c[1] = r THEN "waiting" ELSE run[c[1]].pc
    BY <1>2, Elements
  <2>. QED BY <1>1, <1>2, <1>3, <2>1, <2>2, <2>3, <2>4, Elements DEF Queues, Waits
<1>14. OnePlace'
  BY <1>3 DEF OnePlace
<1>15. Placed'
  BY <1>2, <1>3 DEF Placed
<1>16. Rows'
  BY <1>1, <1>2, <1>3, <1>4 DEF Rows, Going, Underway
<1>17. Holders' = Holders
  BY <1>1, <1>2 DEF Holders, Active
<1>18. ReservationsOwned'
  BY <1>2, <1>3, <1>17 DEF ReservationsOwned, Holders
<1>. QED BY <1>7, <1>8, <1>9, <1>10, <1>11, <1>12, <1>13, <1>14, <1>15, <1>16, <1>18

(* A dispatch stops waiting, with or without a reservation of its own. *)
LEMMA AcquireKeeps ==
    ASSUME IInv, NEW r \in Run, Acquire(r)
    PROVE  Core'
<1>. DEFINE free == run[r].agent \notin reserved
<1>. USE DEF IInv, Core, Pc, IsTask, Ended
<1>1. /\ run \in [Run -> CallType] /\ old \subseteq Run
      /\ Pc(r) = "waiting" /\ ~IsTask(r) /\ ~run[r].mine /\ r \in live
  BY DEF TypeOK, CallType, Acquire, Kinds, DispatchOnly, Tidy
<1>2. /\ \A s \in Run \ {r} : run'[s] = run[s]
      /\ run'[r].pc = "running" /\ run'[r].kind = run[r].kind /\ run'[r].task = run[r].task
      /\ run'[r].agent = run[r].agent /\ run'[r].parent = run[r].parent
      /\ run'[r].mine = free
  BY <1>1 DEF Acquire, To, CallType
<1>3. /\ UNCHANGED <<row, old, lock, running, contexts, pending, live, batches, sweeping, spared>>
      /\ reserved' = IF free THEN reserved \cup {run[r].agent} ELSE reserved
  BY DEF Acquire, dbVars, loopVars
<1>4. Shape'
  BY <1>3 DEF Shape
<1>5. Kinds'
  BY <1>1, <1>2 DEF Kinds, TaskOnly, DispatchOnly
<1>6. Allocated'
  BY <1>1, <1>2 DEF Allocated
<1>7. Parents'
  BY <1>1, <1>2 DEF Parents, CallType
<1>8. Locked'
  BY <1>1, <1>2, <1>3 DEF Locked, MayLock
<1>9. Tidy'
  BY <1>1, <1>2, <1>3 DEF Tidy, Early, Underway
<1>10. Queues'
  <2>1. \A c \in batches : /\ run'[c[1]].kind = run[c[1]].kind
                           /\ run'[c[1]].pc = IF c[1] = r THEN "running" ELSE run[c[1]].pc
    BY <1>2, Elements
  <2>. QED BY <1>1, <1>2, <1>3, <2>1, Elements DEF Queues, Waits, Underway
<1>11. OnePlace'
  BY <1>3 DEF OnePlace
<1>12. Placed'
  BY <1>1, <1>2, <1>3 DEF Placed
<1>13. Rows'
  BY <1>1, <1>2, <1>3 DEF Rows, Going, Underway
<1>14. Holders' = IF free THEN Holders \cup {r} ELSE Holders
  BY <1>1, <1>2 DEF Holders, Active
<1>15. r \notin Holders /\ \A s \in Holders : s \in Run /\ run'[s] = run[s]
  BY <1>1, <1>2 DEF Holders, Active
<1>16. ReservationsOwned'
  <2>1. reserved' = {run'[s].agent : s \in Holders'}
    BY <1>2, <1>3, <1>14, <1>15 DEF ReservationsOwned
  <2>2. {s \in Holders' : run'[s].kind = "task"} = {s \in Holders : run[s].kind = "task"}
    BY <1>1, <1>2, <1>14, <1>15
  <2>3. running' = {run'[s].task : s \in {q \in Holders' : run'[q].kind = "task"}}
    BY <1>3, <1>15, <2>2 DEF ReservationsOwned
  <2>4. ASSUME NEW p \in Holders', NEW s \in Holders', run'[p].agent = run'[s].agent
        PROVE  p = s
    BY <1>2, <1>14, <1>15, <2>4 DEF ReservationsOwned
  <2>. QED BY <2>1, <2>3, <2>4 DEF ReservationsOwned
<1>. QED BY <1>4, <1>5, <1>6, <1>7, <1>8, <1>9, <1>10, <1>11, <1>12, <1>13, <1>16

(* The owners keep what they have. *)
LEMMA SameHolders ==
    ASSUME ReservationsOwned, Holders' = Holders, UNCHANGED <<running, reserved>>,
           \A s \in Holders : /\ run'[s].agent = run[s].agent /\ run'[s].task = run[s].task
                             /\ run'[s].kind = run[s].kind
    PROVE  ReservationsOwned'
BY DEF ReservationsOwned, IsTask

(* A run, or a chat, escalates: the row of the handler is inserted. *)
LEMMA EscalateKeeps ==
    ASSUME IInv, NEW p \in Run \cup {0}, NEW h \in Agent, Escalate(p, h)
    PROVE  Core'
<1>. DEFINE e == Min(Unused)
<1>. USE DEF IInv, Core, Pc, IsTask, Ended
<1>1. /\ e \in Run /\ Pc(e) = "none" /\ \A s \in Run : s < e => Pc(s) # "none"
      /\ p # 0 => Pc(p) = "running" /\ p \in Run
      /\ e # p
  <2>1. Unused # {} /\ (p # 0 => Pc(p) = "running")
    BY DEF Escalate
  <2>2. 0 \notin Run
    BY DEF Run
  <2>. QED BY <2>1, <2>2, FirstUnused
<1>2. /\ run' = [r \in Run |->
                   IF r = e THEN [NoRun EXCEPT !.pc = "triggering", !.agent = h,
                                               !.kind = "escalation", !.parent = p]
                   ELSE IF r = p THEN [run[r] EXCEPT !.pc = "tool"] ELSE run[r]]
      /\ row' = [row EXCEPT ![e] = "running"]
      /\ UNCHANGED <<old, lock, running, reserved, contexts, pending, live, batches,
                     sweeping, spared>>
  BY DEF Escalate, memVars, loopVars
<1>. HIDE DEF e
<1>3. /\ run \in [Run -> CallType] /\ old \subseteq Run /\ 0 \notin Run
      /\ row \in [Run -> {"none", "running", "completed", "failed"}]
  BY DEF TypeOK, CallType, Run
<1>4. /\ \A s \in Run \ {e, p} : run'[s] = run[s]
      /\ run'[e].pc = "triggering" /\ run'[e].kind = "escalation"
      /\ run'[e].parent = p /\ ~run'[e].mine
      /\ p # 0 => /\ run'[p].pc = "tool" /\ run'[p].kind = run[p].kind
                  /\ run'[p].task = run[p].task /\ run'[p].agent = run[p].agent
                  /\ run'[p].mine = run[p].mine /\ run'[p].parent = run[p].parent
  BY <1>1, <1>2, <1>3 DEF NoRun, CallType
<1>5. \A s \in Run \ {e} : row'[s] = row[s]
  BY <1>2, <1>3
<1>6. row'[e] = "running" /\ e \notin old
  BY <1>1, <1>2, <1>3 DEF Rows
<1>7. Shape'
  BY <1>2 DEF Shape
<1>8. Kinds'
  BY <1>1, <1>3, <1>4 DEF Kinds, TaskOnly, DispatchOnly
<1>9. Allocated'
  BY <1>1, <1>3, <1>4 DEF Allocated, Run
<1>10. Parents'
  <2>. SUFFICES ASSUME NEW d \in Run, run'[d].pc = "triggering", run'[d].parent # 0
       PROVE  /\ run'[run'[d].parent].pc = "tool"
              /\ \A f \in Run : run'[f].pc = "triggering" /\ run'[f].parent = run'[d].parent
                                  => f = d
    BY DEF Parents
  <2>1. CASE d = e
    BY <1>1, <1>4, <2>1 DEF Parents
  <2>2. CASE d # e
    <3>1. d # p /\ run'[d] = run[d] /\ run[d].parent \in Run
      BY <1>3, <1>4, <2>2 DEF CallType
    <3>2. Pc(run[d].parent) = "tool"
      BY <3>1 DEF Parents
    <3>. QED BY <1>1, <1>3, <1>4, <3>1, <3>2 DEF Parents
  <2>. QED BY <2>1, <2>2
<1>11. Locked'
  BY <1>1, <1>2, <1>3, <1>4 DEF Locked, MayLock
<1>12. Tidy'
  BY <1>1, <1>2, <1>3, <1>4 DEF Tidy, Early, Underway
<1>13. Queues'
  <2>1. \A r \in Run : Waits(r) => run'[r] = run[r]
    BY <1>1, <1>3, <1>4 DEF Waits
  <2>2. \A c \in batches : c[1] # e
    BY <1>1, Elements DEF Queues, Underway
  <2>3. \A c \in batches : /\ run'[c[1]].kind = run[c[1]].kind
                           /\ run'[c[1]].pc = IF c[1] = p THEN "tool" ELSE run[c[1]].pc
    BY <1>1, <1>3, <1>4, <2>2, Elements
  <2>4. ASSUME NEW c \in batches
        PROVE  /\ \A i \in DOMAIN c : i # 1 => run'[c[i]].pc = "queued" /\ run'[c[i]].kind = "escalation"
               /\ run'[c[1]].pc \in Underway \cup {"queued", "waiting", "failing"}
               /\ run'[c[1]].kind # "task"
    BY <2>1, <2>3, Elements DEF Queues, Waits, Underway
  <2>5. ASSUME NEW q \in Run, NEW i \in DOMAIN pending[q]
        PROVE  run'[pending[q][i]].pc = "queued" /\ run'[pending[q][i]].kind = "escalation"
    BY <2>1, Elements DEF Queues, Waits
  <2>. QED BY <1>2, <2>4, <2>5 DEF Queues, Waits
<1>14. OnePlace'
  BY <1>2 DEF OnePlace
<1>15. Placed'
  BY <1>1, <1>2, <1>3, <1>4 DEF Placed
<1>16. Rows'
  BY <1>1, <1>2, <1>3, <1>4, <1>5, <1>6 DEF Rows, Going, Underway
<1>17. Holders' = Holders
  BY <1>1, <1>3, <1>4 DEF Holders, Active
<1>18. ReservationsOwned'
  <2>1. \A s \in Holders : /\ s \in Run /\ run'[s].agent = run[s].agent
                           /\ run'[s].task = run[s].task /\ run'[s].kind = run[s].kind
    BY <1>1, <1>3, <1>4 DEF Holders, Active
  <2>. QED BY <1>2, <1>17, <2>1, SameHolders
<1>. QED BY <1>7, <1>8, <1>9, <1>10, <1>11, <1>12, <1>13, <1>14, <1>15, <1>16, <1>18

(* The escalation is handed to the run that waits for it, or on its way,   *)
(* or lost by a query that failed; the run goes on.                        *)
LEMMA EscalateEndsKeeps ==
    ASSUME IInv, NEW e \in Run, EscalateEnds(e)
    PROVE  Core'
<1>. DEFINE p == run[e].parent
            queued == faults' = faults
<1>. USE DEF IInv, Core, Pc, IsTask, Ended
<1>1. /\ run \in [Run -> CallType] /\ old \subseteq Run /\ contexts \subseteq Run
      /\ 0 \notin Run /\ p \in Run \cup {0} /\ Pc(e) = "triggering"
      /\ run[e].kind = "escalation"
  BY DEF TypeOK, CallType, EscalateEnds, Run, Kinds
<1>2. p # 0 => p \in Run /\ Pc(p) = "tool" /\ p # e
  BY <1>1 DEF Parents
<1>3. /\ run' = [r \in Run |->
                   IF r = e THEN IF queued THEN [run[r] EXCEPT !.pc = "queued"] ELSE Over
                   ELSE IF r = p THEN [run[r] EXCEPT !.pc = "running"] ELSE run[r]]
      /\ UNCHANGED <<row, old, lock, running, reserved, live, sweeping, spared>>
  BY DEF EscalateEnds, dbVars, loopVars
<1>4. \/ /\ queued /\ contexts' = contexts \cup {e}
         /\ \/ /\ p \in Run /\ pending' = [pending EXCEPT ![p] = Append(@, e)]
               /\ p \in contexts /\ UNCHANGED batches
            \/ batches' = batches \cup {<<e>>} /\ UNCHANGED pending
      \/ ~queued /\ UNCHANGED <<contexts, pending, batches>>
  <2>1. Fault => ~queued
    BY DEF Fault, TypeOK
  <2>. QED BY <1>1, <2>1 DEF EscalateEnds
<1>. HIDE DEF p, queued
<1>5. /\ \A s \in Run \ {e, p} : run'[s] = run[s]
      /\ run'[e].pc = (IF queued THEN "queued" ELSE "over")
      /\ run'[e].kind = (IF queued THEN "escalation" ELSE "task")
      /\ queued => run'[e].mine = run[e].mine
      /\ p # 0 => /\ run'[p].pc = "running" /\ run'[p].kind = run[p].kind
                  /\ run'[p].task = run[p].task /\ run'[p].agent = run[p].agent
                  /\ run'[p].mine = run[p].mine /\ run'[p].parent = run[p].parent
  BY <1>1, <1>2, <1>3, OverIs DEF CallType
<1>6. e \notin contexts \cup live /\ pending[e] = <<>>
  BY <1>1 DEF Tidy, Early
<1>7. /\ pending' \in [Run -> Seq(Run)]
      /\ \A q \in Run : q # p => pending'[q] = pending[q]
      /\ UNCHANGED pending \/ (p \in contexts /\ p \in Run)
  <2>1. p \in Run => Append(pending[p], e) \in Seq(Run)
    BY AppendProperties DEF Shape
  <2>. QED BY <1>4, <2>1 DEF Shape
<1>8. batches' \in SUBSET (batches \cup {<<e>>})
  BY <1>4
<1>9. /\ \A b \in batches : b \in Seq(Run) /\ b # <<>> /\ 1 \in DOMAIN b
      /\ <<e>> \in Seq(Run) \ {<<>>} /\ DOMAIN <<e>> = {1} /\ <<e>>[1] = e
  BY DEF Shape
<1>10. ASSUME NEW q \in Run, NEW i \in DOMAIN pending'[q]
       PROVE  /\ pending[q] \in Seq(Run) /\ i \in Nat
              /\ \/ i \in DOMAIN pending[q] /\ pending'[q][i] = pending[q][i]
                 \/ /\ queued /\ UNCHANGED batches /\ q = p
                    /\ i = Len(pending[q]) + 1 /\ pending'[q][i] = e
  <2>1. pending[q] \in Seq(Run) /\ pending'[q] \in Seq(Run)
    BY <1>7 DEF Shape
  <2>2. CASE pending'[q] = pending[q]
    BY <2>1, <2>2
  <2>3. CASE /\ queued /\ UNCHANGED batches /\ q = p
             /\ pending'[q] = Append(pending[q], e)
    <3>1. /\ Len(pending'[q]) = Len(pending[q]) + 1
          /\ \A j \in 1..Len(pending[q]) : pending'[q][j] = pending[q][j]
          /\ pending'[q][Len(pending[q]) + 1] = e
      BY <2>1, <2>3, AppendProperties
    <3>2. /\ DOMAIN pending[q] = 1..Len(pending[q]) /\ Len(pending[q]) \in Nat
          /\ DOMAIN pending'[q] = 1..Len(pending'[q])
      BY <2>1
    <3>. QED BY <2>1, <2>3, <3>1, <3>2
  <2>. QED BY <1>4, <2>1, <2>2, <2>3 DEF Shape
<1>11. \A q \in Run : \A i \in DOMAIN pending[q] :
          i \in DOMAIN pending'[q] /\ pending'[q][i] = pending[q][i]
  <2>. SUFFICES ASSUME NEW q \in Run, NEW i \in DOMAIN pending[q]
       PROVE  i \in DOMAIN pending'[q] /\ pending'[q][i] = pending[q][i]
    OBVIOUS
  <2>1. pending[q] \in Seq(Run)
    BY DEF Shape
  <2>2. CASE pending'[q] = pending[q]
    BY <2>2
  <2>3. CASE pending'[q] = Append(pending[q], e)
    BY <2>1, <2>3, AppendProperties
  <2>. QED BY <1>4, <2>2, <2>3 DEF Shape
<1>12. queued => \/ <<e>> \in batches'
                 \/ \E q \in Run : \E i \in DOMAIN pending'[q] : e = pending'[q][i]
  <2>1. ASSUME p \in Run, pending' = [pending EXCEPT ![p] = Append(@, e)]
        PROVE  \E i \in DOMAIN pending'[p] : e = pending'[p][i]
    <3>1. pending[p] \in Seq(Run) /\ pending'[p] = Append(pending[p], e)
      BY <2>1 DEF Shape
    <3>2. Len(pending[p]) + 1 \in DOMAIN pending'[p] /\ pending'[p][Len(pending[p]) + 1] = e
      BY <3>1, AppendProperties
    <3>. QED BY <3>2
  <2>. QED BY <1>4, <2>1
<1>13. Shape'
  BY <1>7, <1>8, <1>9 DEF Shape
<1>14. Kinds'
  BY <1>1, <1>2, <1>5 DEF Kinds, TaskOnly, DispatchOnly
<1>15. Allocated'
  BY <1>1, <1>2, <1>5 DEF Allocated
<1>16. Parents'
  <2>. SUFFICES ASSUME NEW d \in Run, run'[d].pc = "triggering", run'[d].parent # 0
       PROVE  /\ run'[run'[d].parent].pc = "tool"
              /\ \A f \in Run : run'[f].pc = "triggering" /\ run'[f].parent = run'[d].parent
                                  => f = d
    BY DEF Parents
  <2>1. d # e /\ d # p /\ run'[d] = run[d] /\ run[d].parent \in Run
    BY <1>1, <1>2, <1>3, <1>5 DEF CallType
  <2>2. Pc(run[d].parent) = "tool" /\ run[d].parent # p
    BY <1>1, <1>2, <2>1 DEF Parents, p
  <2>3. run[d].parent # e
    BY <1>1, <2>2
  <2>4. \A f \in Run : run'[f].pc = "triggering" => run'[f] = run[f]
    BY <1>1, <1>2, <1>3, <1>5
  <2>. QED BY <1>5, <2>1, <2>2, <2>3, <2>4 DEF Parents
<1>17. Locked'
  BY <1>1, <1>2, <1>3, <1>5 DEF Locked, MayLock, Kinds, DispatchOnly
<1>18. Tidy'
  <2>. SUFFICES ASSUME NEW r \in Run
       PROVE  /\ run'[r].pc \in Ended \cup Early \cup {"unlocking"} => r \notin contexts' \cup live'
              /\ run'[r].pc \in Ended \cup Early \cup {"queued", "waiting"} => pending'[r] = <<>>
              /\ run'[r].pc \in Underway \cup {"waiting"} => r \in live'
              /\ run'[r].kind = "task" /\ (r \in contexts' \cup live' \/ pending'[r] # <<>>) =>
                    lock'[run'[r].task] = r
    BY DEF Tidy
  <2>1. CASE r = e
    BY <1>2, <1>3, <1>4, <1>5, <1>6, <1>7, <2>1 DEF Early, Underway, p
  <2>2. CASE r = p
    BY <1>1, <1>2, <1>3, <1>4, <1>5, <2>2 DEF Early, Underway, Tidy, Locked, MayLock
  <2>3. CASE r # e /\ r # p
    BY <1>3, <1>4, <1>5, <1>7, <2>3 DEF Tidy
  <2>. QED BY <2>1, <2>2, <2>3
<1>19. \A d \in Run : Waits(d) => d # e /\ run'[d] = run[d]
  BY <1>1, <1>2, <1>5 DEF Waits
<1>20. \A b \in batches : b[1] # e /\ \A i \in DOMAIN b : b[i] # e
  BY <1>1, <1>9, Elements DEF Queues, Waits, Underway
<1>21. \A q \in Run : \A i \in DOMAIN pending[q] : pending[q][i] # e
  BY <1>1 DEF Queues, Waits
<1>22. Queues'
  <2>1. \A b \in batches : /\ run'[b[1]].kind = run[b[1]].kind
                           /\ run'[b[1]].pc = IF b[1] = p THEN "running" ELSE run[b[1]].pc
    BY <1>1, <1>2, <1>5, <1>20, Elements
  <2>2. ASSUME NEW q \in Run, NEW i \in DOMAIN pending'[q]
        PROVE  run'[pending'[q][i]].pc = "queued" /\ run'[pending'[q][i]].kind = "escalation"
    BY <1>5, <1>10, <1>19, Elements DEF Queues, Waits
  <2>3. ASSUME NEW b \in batches'
        PROVE  /\ \A i \in DOMAIN b : i # 1 => run'[b[i]].pc = "queued" /\ run'[b[i]].kind = "escalation"
               /\ run'[b[1]].pc \in Underway \cup {"queued", "waiting", "failing"}
               /\ run'[b[1]].kind # "task"
    <3>1. CASE b \in batches
      BY <1>19, <2>1, <3>1, Elements DEF Queues, Waits, Underway
    <3>2. CASE b = <<e>> /\ queued
      BY <1>5, <1>9, <3>2
    <3>. QED BY <1>4, <3>1, <3>2
  <2>. QED BY <2>2, <2>3 DEF Queues, Waits
<1>23. OnePlace'
  <2>1. ASSUME NEW q \in Run, NEW s \in Run,
               NEW i \in DOMAIN pending'[q], NEW j \in DOMAIN pending'[s],
               pending'[q][i] = pending'[s][j]
        PROVE  q = s /\ i = j
    BY <1>10, <1>21, <2>1 DEF OnePlace
  <2>2. ASSUME NEW b \in batches', NEW c \in batches', NEW i \in DOMAIN b, NEW j \in DOMAIN c,
               b[i] = c[j]
        PROVE  b = c /\ i = j
    BY <1>8, <1>9, <1>20, <2>2 DEF OnePlace
  <2>3. ASSUME NEW q \in Run, NEW b \in batches', NEW i \in DOMAIN pending'[q], NEW j \in DOMAIN b
        PROVE  pending'[q][i] # b[j]
    BY <1>8, <1>9, <1>10, <1>20, <1>21 DEF OnePlace
  <2>. QED BY <2>1, <2>2, <2>3 DEF OnePlace
<1>24. Placed'
  <2>. SUFFICES ASSUME NEW d \in Run, run'[d].pc = "queued"
       PROVE  \/ \E c \in batches' : d = c[1]
              \/ run'[d].kind = "escalation" /\ \E c \in batches' : \E i \in DOMAIN c : d = c[i]
              \/ run'[d].kind = "escalation"
                   /\ \E q \in Run : \E i \in DOMAIN pending'[q] : d = pending'[q][i]
    BY DEF Placed
  <2>1. CASE d = e
    BY <1>5, <1>9, <1>12, <2>1
  <2>2. CASE d # e
    <3>1. run'[d] = run[d]
      BY <1>1, <1>5, <2>2
    <3>2. batches \subseteq batches'
      BY <1>4
    <3>. QED BY <1>11, <3>1, <3>2 DEF Placed
  <2>. QED BY <2>1, <2>2
<1>25. Rows'
  BY <1>1, <1>2, <1>3, <1>5 DEF Rows, Going, Underway
<1>26. Holders' = Holders
  BY <1>1, <1>2, <1>5 DEF Holders, Active
<1>27. ReservationsOwned'
  <2>1. \A s \in Holders : /\ s \in Run /\ run'[s].agent = run[s].agent
                           /\ run'[s].task = run[s].task /\ run'[s].kind = run[s].kind
    BY <1>1, <1>2, <1>5 DEF Holders, Active
  <2>. QED BY <1>3, <1>26, <2>1, SameHolders
<1>. QED BY <1>13, <1>14, <1>15, <1>16, <1>17, <1>18, <1>22, <1>23, <1>24, <1>25, <1>27

(* A webhook: its run is inserted and is a batch of its own. *)
LEMMA AlertKeeps ==
    ASSUME IInv, NEW a \in AlertAgents, Alert(a)
    PROVE  Core'
<1>. DEFINE e == Min(Unused)
<1>. USE DEF IInv, Core, Pc, IsTask, Ended
<1>1. /\ e \in Run /\ Pc(e) = "none" /\ \A s \in Run : s < e => Pc(s) # "none"
  BY FirstUnused DEF Alert
<1>2. /\ run' = [run EXCEPT ![e] = [NoRun EXCEPT !.pc = "queued", !.kind = "alert", !.agent = a]]
      /\ row' = [row EXCEPT ![e] = "running"]
      /\ batches' = batches \cup {<<e>>}
      /\ UNCHANGED <<old, lock, running, reserved, contexts, pending, live, sweeping, spared>>
  BY DEF Alert, memVars, loopVars
<1>. HIDE DEF e
<1>3. /\ run \in [Run -> CallType] /\ old \subseteq Run
      /\ row \in [Run -> {"none", "running", "completed", "failed"}]
  BY DEF TypeOK, CallType
<1>4. /\ \A s \in Run \ {e} : run'[s] = run[s] /\ row'[s] = row[s]
      /\ run'[e].pc = "queued" /\ run'[e].kind = "alert" /\ ~run'[e].mine
      /\ row'[e] = "running" /\ e \notin old
  BY <1>1, <1>2, <1>3 DEF NoRun, Rows
<1>5. /\ \A b \in batches : b \in Seq(Run) /\ b # <<>> /\ 1 \in DOMAIN b
      /\ <<e>> \in Seq(Run) \ {<<>>} /\ DOMAIN <<e>> = {1} /\ <<e>>[1] = e
  BY <1>1 DEF Shape
<1>6. Shape'
  BY <1>2, <1>5 DEF Shape
<1>7. Kinds'
  BY <1>1, <1>4 DEF Kinds, TaskOnly, DispatchOnly
<1>8. Allocated'
  BY <1>1, <1>4 DEF Allocated, Run
<1>9. Parents'
  BY <1>1, <1>3, <1>4 DEF Parents, CallType
<1>10. Locked'
  BY <1>1, <1>2, <1>4 DEF Locked, MayLock
<1>11. Tidy'
  BY <1>1, <1>2, <1>4 DEF Tidy, Early, Underway
<1>12. \A d \in Run : Waits(d) => d # e /\ run'[d] = run[d]
  BY <1>1, <1>4 DEF Waits
<1>13. \A b \in batches : b[1] # e /\ \A i \in DOMAIN b : b[i] # e
  BY <1>1, <1>5, Elements DEF Queues, Waits, Underway
<1>14. \A q \in Run : \A i \in DOMAIN pending[q] : pending[q][i] # e
  BY <1>1 DEF Queues, Waits
<1>15. Queues'
  <2>1. ASSUME NEW q \in Run, NEW i \in DOMAIN pending[q]
        PROVE  run'[pending[q][i]].pc = "queued" /\ run'[pending[q][i]].kind = "escalation"
    BY <1>12, Elements DEF Queues, Waits
  <2>2. ASSUME NEW b \in batches'
        PROVE  /\ \A i \in DOMAIN b : i # 1 => run'[b[i]].pc = "queued" /\ run'[b[i]].kind = "escalation"
               /\ run'[b[1]].pc \in Underway \cup {"queued", "waiting", "failing"}
               /\ run'[b[1]].kind # "task"
    <3>1. CASE b \in batches
      BY <1>4, <1>12, <1>13, <3>1, Elements DEF Queues, Waits, Underway
    <3>2. CASE b = <<e>>
      BY <1>4, <1>5, <3>2
    <3>. QED BY <1>2, <3>1, <3>2
  <2>. QED BY <1>2, <2>1, <2>2 DEF Queues, Waits
<1>16. OnePlace'
  <2>1. ASSUME NEW b \in batches', NEW c \in batches', NEW i \in DOMAIN b, NEW j \in DOMAIN c,
               b[i] = c[j]
        PROVE  b = c /\ i = j
    BY <1>2, <1>5, <1>13, <2>1 DEF OnePlace
  <2>2. ASSUME NEW q \in Run, NEW b \in batches', NEW i \in DOMAIN pending[q], NEW j \in DOMAIN b
        PROVE  pending[q][i] # b[j]
    BY <1>2, <1>5, <1>14 DEF OnePlace
  <2>. QED BY <1>2, <2>1, <2>2 DEF OnePlace
<1>17. Placed'
  <2>1. batches \subseteq batches' /\ <<e>> \in batches'
    BY <1>2
  <2>2. e = <<e>>[1]
    BY <1>5
  <2>. SUFFICES ASSUME NEW d \in Run, run'[d].pc = "queued"
       PROVE  \/ \E c \in batches' : d = c[1]
              \/ run'[d].kind = "escalation" /\ \E c \in batches' : \E i \in DOMAIN c : d = c[i]
              \/ run'[d].kind = "escalation"
                   /\ \E q \in Run : \E i \in DOMAIN pending[q] : d = pending[q][i]
    BY <1>2 DEF Placed
  <2>3. CASE d = e
    BY <2>1, <2>2, <2>3
  <2>4. CASE d # e
    BY <1>4, <2>1, <2>4 DEF Placed
  <2>. QED BY <2>3, <2>4
<1>18. Rows'
  BY <1>1, <1>2, <1>3, <1>4 DEF Rows, Going, Underway
<1>19. Holders' = Holders /\ \A s \in Holders : run'[s] = run[s]
  BY <1>1, <1>4 DEF Holders, Active
<1>20. ReservationsOwned'
  BY <1>2, <1>19, SameHolders
<1>. QED BY <1>6, <1>7, <1>8, <1>9, <1>10, <1>11, <1>15, <1>16, <1>17, <1>18, <1>20

(* The tick starts what is due and free. *)
LEMMA TickDispatchKeeps ==
    ASSUME IInv, TickDispatch
    PROVE  Core' /\ run' \in [Run -> CallType]
<1>. USE DEF IInv, Core, Pc
<1>1. PICK S \in SUBSET Startable :
        /\ \A t, u \in S : AgentOf[t] = AgentOf[u] => t = u
        /\ LET agents == {AgentOf[t] : t \in Startable}
           IN  Cardinality(S) = IF Cardinality(agents) < Cardinality(Unused)
                                  THEN Cardinality(agents) ELSE Cardinality(Unused)
        /\ LET q == SetToSeq(S)
               first == MaxRuns - Cardinality(Unused)
           IN  run' = [r \in Run |-> IF r - first \in DOMAIN q
                                       THEN Execution(q[r - first], TRUE) ELSE run[r]]
        /\ running' = running \cup S
        /\ reserved' = reserved \cup {AgentOf[t] : t \in S}
  BY DEF TickDispatch
<1>. DEFINE n == Cardinality(S)
            q == SetToSeq(S)
<1>2. PICK k \in 0..MaxRuns : /\ Unused = (k + 1)..MaxRuns
                              /\ Cardinality(Unused) = MaxRuns - k
  BY Allocation
<1>3. MaxRuns \in Nat /\ k \in Nat /\ k <= MaxRuns /\ MaxRuns - (MaxRuns - k) = k
  BY <1>2, BoundsAssumption
<1>4. /\ S \subseteq Task /\ IsFiniteSet(S) /\ n \in Nat
      /\ \A t \in S : AgentOf[t] \notin reserved
  <2>1. S \subseteq Task /\ \A t \in S : AgentOf[t] \notin reserved
    BY DEF Startable, TypeOK
  <2>. QED BY <2>1, TasksAssumption, FS_Subset, FS_CardinalityType
<1>5. k + n <= MaxRuns
  BY <1>1, <1>2, <1>3, <1>4
<1>6. /\ q \in [1..n -> S]
      /\ \A i, j \in 1..n : q[i] = q[j] => i = j
      /\ \A t \in S : \E i \in 1..n : q[i] = t
  BY <1>4, Enumerates
<1>7. run' = [r \in Run |-> IF r - k \in 1..n THEN Execution(q[r - k], TRUE) ELSE run[r]]
  BY <1>1, <1>2, <1>3, <1>6
<1>. HIDE DEF n, q
<1>. DEFINE D == (k + 1)..(k + n)
            f == [r \in D |-> q[r - k]]
<1>8. /\ D \subseteq Unused /\ D \subseteq Run /\ D \subseteq Nat
      /\ \A r \in D : r - k \in 1..n
      /\ \A r \in Run : r - k \in 1..n => r \in D
  BY <1>2, <1>3, <1>4, <1>5 DEF Run
<1>9. /\ f \in [D -> Task] /\ \A r \in D : f[r] = q[r - k] /\ f[r] \in S
  BY <1>4, <1>6, <1>8
<1>10. \A t \in S : \E r \in D : f[r] = t
  <2>1. \A i \in 1..n : k + i \in D /\ (k + i) - k = i
    BY <1>3, <1>4
  <2>. QED BY <1>6, <1>9, <2>1
<1>11. \A r, s \in D : AgentOf[f[r]] = AgentOf[f[s]] => r = s
  BY <1>1, <1>3, <1>6, <1>8, <1>9
<1>. HIDE DEF f, D
<1>12. /\ \A r \in Run \ D : run'[r] = run[r]
       /\ \A r \in D : run'[r] = Execution(f[r], TRUE)
  BY <1>7, <1>8, <1>9
<1>13. run' \in [Run -> CallType] /\ \A r \in D : run'[r].pc = "connecting"
  <2>1. run \in [Run -> CallType]
    BY DEF TypeOK, CallType
  <2>2. \A r \in D : run'[r] \in CallType /\ run'[r].pc = "connecting"
    <3>1. ASSUME NEW r \in D PROVE run'[r] \in CallType /\ run'[r].pc = "connecting"
      <4>1. f[r] \in Task /\ TRUE \in BOOLEAN
        BY <1>9
      <4>2. /\ Execution(f[r], TRUE) \in CallType
            /\ Execution(f[r], TRUE).pc = "connecting"
        BY <4>1, ExecutionIs
      <4>. QED BY <1>12, <4>2
    <3>. QED BY <3>1
  <2>3. \A r \in Run : run'[r] \in CallType
    BY <1>12, <2>1, <2>2
  <2>. QED BY <1>7, <2>2, <2>3
<1>14. Allocated'
  <2>. SUFFICES ASSUME NEW r \in Run, NEW s \in Run, r < s, run'[s].pc # "none"
       PROVE  run'[r].pc # "none"
    BY DEF Allocated
  <2>1. CASE s \in D
    <3>1. r \in D \/ r <= k
      BY <1>3, <1>4, <2>1 DEF D, Run
    <3>2. r <= k => Pc(r) # "none"
      <4>1. r <= k => r \notin Unused
        BY <1>2, <1>3 DEF Run
      <4>. QED BY <4>1 DEF Unused
    <3>. QED BY <1>12, <1>13, <3>1, <3>2
  <2>2. CASE s \notin D
    BY <1>12, <1>13, <2>2 DEF Allocated
  <2>. QED BY <2>1, <2>2
<1>15. /\ running' = running \cup {f[r] : r \in D}
       /\ reserved' = reserved \cup {AgentOf[f[r]] : r \in D}
  BY <1>1, <1>9, <1>10
<1>16. UNCHANGED <<row, old, lock, contexts, pending, live, sweeping, spared, batches>>
  BY DEF TickDispatch, dbVars
<1>17. /\ \A r \in D : \E enabled \in BOOLEAN : run'[r] = Execution(f[r], enabled)
       /\ \A r \in D : AgentOf[f[r]] \notin reserved
       /\ D \in SUBSET Unused
  BY <1>4, <1>8, <1>9, <1>12
<1>. QED BY <1>9, <1>11, <1>12, <1>13, <1>14, <1>15, <1>16, <1>17, ExecuteKeeps DEF IInv

(* The user starts a task. *)
LEMMA RunNowKeeps ==
    ASSUME IInv, RunNow, edit.task \in Task
    PROVE  Core' /\ run' \in [Run -> CallType]
<1>. USE DEF IInv, Core, Pc
<1>. DEFINE t == edit.task
            e == Min(Unused)
<1>1. run \in [Run -> CallType] /\ edit.enabled \in BOOLEAN
  BY DEF TypeOK, CallType
<1>2. UNCHANGED <<row, old, lock, contexts, pending, live, sweeping, spared, batches>>
  BY DEF RunNow, dbVars, loopVars
<1>3. e \in Run /\ Pc(e) = "none" /\ \A s \in Run : s < e => Pc(s) # "none"
  BY FirstUnused DEF RunNow
<1>4. CASE UNCHANGED <<running, reserved, run>>
  <2>1. Core'
    BY <1>2, <1>4 DEF Shape, Kinds, Allocated, Parents, Locked, Tidy, Queues, Waits,
          OnePlace, Placed, Rows, ReservationsOwned, Holders, IsTask
  <2>. QED BY <1>1, <1>4, <2>1
<1>5. CASE /\ AgentOf[t] \notin reserved
           /\ running' = running \cup {t} /\ reserved' = reserved \cup {AgentOf[t]}
           /\ run' = [run EXCEPT ![e] = Execution(t, edit.enabled)]
  <2>. DEFINE f == [r \in {e} |-> t]
  <2>. HIDE DEF e, t
  <2>1. /\ f \in [{e} -> Task] /\ f[e] = t /\ {e} \in SUBSET Unused
    BY <1>3 DEF Unused, t
  <2>2. /\ run' \in [Run -> CallType] /\ run'[e] = Execution(t, edit.enabled)
        /\ \A s \in Run \ {e} : run'[s] = run[s]
        /\ run'[e].pc = "connecting"
    <3>1. /\ Execution(t, edit.enabled) \in CallType
          /\ Execution(t, edit.enabled).pc = "connecting"
      BY <1>1, ExecutionIs DEF t
    <3>. QED BY <1>1, <1>3, <1>5, <3>1
  <2>3. Allocated'
    BY <1>3, <2>2 DEF Allocated, Run
  <2>4. /\ running' = running \cup {f[r] : r \in {e}}
        /\ reserved' = reserved \cup {AgentOf[f[r]] : r \in {e}}
    BY <1>5, <2>1
  <2>5. /\ \A r \in {e} : \E enabled \in BOOLEAN : run'[r] = Execution(f[r], enabled)
        /\ \A r \in {e} : AgentOf[f[r]] \notin reserved
        /\ \A r, s \in {e} : AgentOf[f[r]] = AgentOf[f[s]] => r = s
    BY <1>1, <1>5, <2>1, <2>2
  <2>. HIDE DEF f
  <2>6. Core'
    BY <1>2, <2>1, <2>2, <2>3, <2>4, <2>5, ExecuteKeeps DEF IInv
  <2>. QED BY <2>2, <2>6
<1>. QED BY <1>4, <1>5 DEF RunNow

(* What the calls, their rows and their places do not see. *)
LEMMA QuietKeeps ==
    ASSUME IInv,
           UNCHANGED <<run, row, old, lock, memVars, batches, sweeping, spared>>
    PROVE  Core'
<1>1. UNCHANGED <<running, reserved, contexts, pending, live>>
  BY DEF memVars
<1>2. Shape' /\ Kinds' /\ Allocated' /\ Parents'
  BY <1>1 DEF IInv, Core, Shape, Kinds, Allocated, Parents, Pc, IsTask
<1>3. Locked' /\ Tidy'
  BY <1>1 DEF IInv, Core, Locked, Tidy, Pc, IsTask
<1>4. Queues' /\ OnePlace' /\ Placed'
  BY <1>1 DEF IInv, Core, Queues, Waits, OnePlace, Placed, Pc, IsTask
<1>5. Rows'
  BY <1>1 DEF IInv, Core, Rows, Pc
<1>6. ReservationsOwned'
  BY <1>1 DEF IInv, Core, ReservationsOwned, Holders, Pc, IsTask
<1>. QED BY <1>2, <1>3, <1>4, <1>5, <1>6 DEF Core

(* A sweep that begins knows every run that is live. *)
LEMMA TickReadKeeps ==
    ASSUME IInv, NEW sweep \in BOOLEAN, TickRead(sweep)
    PROVE  Core'
<1>1. /\ UNCHANGED <<run, row, old, lock, running, reserved, contexts, pending, live, batches>>
      /\ sweeping' = (sweeping \/ sweep)
      /\ spared' = IF sweep THEN live ELSE spared
  BY DEF TickRead, dbVars, memVars
<1>2. Shape' /\ Kinds' /\ Allocated' /\ Parents'
  BY <1>1 DEF IInv, Core, Shape, Kinds, Allocated, Parents, Pc, IsTask
<1>3. Locked' /\ Tidy'
  BY <1>1 DEF IInv, Core, Locked, Tidy, Pc, IsTask
<1>4. Queues' /\ OnePlace' /\ Placed'
  BY <1>1 DEF IInv, Core, Queues, Waits, OnePlace, Placed, Pc, IsTask
<1>5. Rows'
  BY <1>1 DEF IInv, Core, Rows, Pc
<1>6. ReservationsOwned'
  BY <1>1 DEF IInv, Core, ReservationsOwned, Holders, Pc, IsTask
<1>. QED BY <1>2, <1>3, <1>4, <1>5, <1>6 DEF Core

(* A sweep ends: no row of a run that goes on is failed. *)
LEMMA SweepKeeps ==
    ASSUME IInv, Sweep
    PROVE  Core'
<1>1. /\ UNCHANGED <<run, lock, running, reserved, contexts, pending, live, batches>>
      /\ row' = [r \in Run |-> IF row[r] = "running" /\ r \in old \ spared
                                 THEN "failed" ELSE row[r]]
      /\ old' = old \cap spared /\ sweeping /\ ~sweeping' /\ spared' = {}
  BY DEF Sweep, memVars
<1>2. Shape' /\ Kinds' /\ Allocated' /\ Parents'
  BY <1>1 DEF IInv, Core, Shape, Kinds, Allocated, Parents, Pc, IsTask
<1>3. Locked' /\ Tidy'
  BY <1>1 DEF IInv, Core, Locked, Tidy, Pc, IsTask
<1>4. Queues' /\ OnePlace' /\ Placed'
  BY <1>1 DEF IInv, Core, Queues, Waits, OnePlace, Placed, Pc, IsTask
<1>5. Rows'
  BY <1>1 DEF IInv, Core, TypeOK, Rows, Pc
<1>6. ReservationsOwned'
  BY <1>1 DEF IInv, Core, ReservationsOwned, Holders, Pc, IsTask
<1>. QED BY <1>2, <1>3, <1>4, <1>5, <1>6 DEF Core

(* Half an hour passes: what is old and goes on is live. *)
LEMMA HalfHourKeeps ==
    ASSUME IInv, HalfHour
    PROVE  Core'
<1>1. /\ UNCHANGED <<run, row, lock, running, reserved, contexts, pending, live, batches, spared>>
      /\ old' = {r \in Run : row[r] = "running"} /\ ~sweeping /\ ~sweeping'
      /\ \A r \in Run : \/ Pc(r) \in {"none", "over", "dead", "running"}
                        \/ Pc(r) = "queued" /\ \A b \in batches : Head(b) # r
  BY DEF HalfHour, memVars, loopVars
<1>2. Shape' /\ Kinds' /\ Allocated' /\ Parents'
  BY <1>1 DEF IInv, Core, Shape, Kinds, Allocated, Parents, Pc, IsTask
<1>3. Locked' /\ Tidy'
  BY <1>1 DEF IInv, Core, Locked, Tidy, Pc, IsTask
<1>4. Queues' /\ OnePlace' /\ Placed'
  BY <1>1 DEF IInv, Core, Queues, Waits, OnePlace, Placed, Pc, IsTask
<1>5. Rows'
  <2>1. \A b \in batches : Head(b) = b[1]
    BY DEF IInv, Core, Shape
  <2>2. ASSUME NEW r \in Run, run[r].kind # "escalation", Pc(r) \in Going
        PROVE  r \in live
    BY <1>1, <2>1, <2>2 DEF IInv, Core, Placed, Tidy, Going, Underway
  <2>3. /\ \A r \in Run : Pc(r) \in {"none", "connecting", "starting"} => row[r] = "none"
        /\ \A r \in Run : run[r].kind # "escalation" /\ Pc(r) \in Going => row[r] = "running"
    BY DEF IInv, Core, Rows
  <2>. QED BY <1>1, <2>2, <2>3 DEF Rows, Pc
<1>6. ReservationsOwned'
  BY <1>1 DEF IInv, Core, ReservationsOwned, Holders, Pc, IsTask
<1>. QED BY <1>2, <1>3, <1>4, <1>5, <1>6 DEF Core

(* A restart ends every call and forgets the maps. *)
LEMMA RestartKeeps ==
    ASSUME IInv, Restart
    PROVE  Core'
<1>. USE DEF IInv, Core, Pc, IsTask, Ended
<1>1. /\ run \in [Run -> CallType] /\ 0 \notin Run
      /\ row \in [Run -> {"none", "running", "completed", "failed"}]
  BY DEF TypeOK, CallType, Run
<1>2. /\ running' = {} /\ reserved' = {} /\ contexts' = {} /\ live' = {}
      /\ pending' = [r \in Run |-> <<>>] /\ batches' = {} /\ old' = {} /\ ~sweeping'
      /\ \A t \in Task : lock'[t] = 0
      /\ \A r \in Run : row'[r] = IF row[r] = "running" THEN "failed" ELSE row[r]
  BY DEF Restart
<1>3. \A r \in Run : /\ Pc(r) \in {"none", "over"} => run'[r] = run[r]
                     /\ Pc(r) \notin {"none", "over"} =>
                          run'[r].pc = "dead" /\ run'[r].kind = "task"
  BY <1>1 DEF Restart, NoRun
<1>4. \A r \in Run : /\ run'[r].pc \in Ended /\ run'[r].kind = "task"
                     /\ run'[r].pc = "none" <=> Pc(r) = "none"
  BY <1>3 DEF Kinds
<1>5. Shape'
  BY <1>2 DEF Shape
<1>6. Kinds'
  BY <1>4 DEF Kinds, TaskOnly, DispatchOnly
<1>7. Allocated' /\ Parents'
  BY <1>4 DEF Allocated, Parents
<1>8. Locked' /\ Tidy'
  BY <1>1, <1>2, <1>4 DEF Locked, MayLock, Tidy, Early, Underway
<1>9. Queues' /\ OnePlace' /\ Placed'
  BY <1>2, <1>4 DEF Queues, OnePlace, Placed
<1>10. Rows'
  BY <1>2, <1>4 DEF Rows, Going, Underway
<1>11. ReservationsOwned'
  <2>1. Holders' = {}
    BY <1>4 DEF Holders, Active
  <2>. QED BY <1>2, <2>1 DEF ReservationsOwned
<1>. QED BY <1>5, <1>6, <1>7, <1>8, <1>9, <1>10, <1>11

-----------------------------------------------------------------------------
(* The steps of a call keep the invariant. *)
LEMMA StepCore ==
    ASSUME IInv, NEW r \in Run, Step(r)
    PROVE  Core'
<1>1. CASE Connect(r)
  <2>0. IsTask(r)
    BY <1>1 DEF Connect, IInv, Core, Kinds, TaskOnly
  <2>1. CASE /\ lock[run[r].task] = 0 /\ lock' = [lock EXCEPT ![run[r].task] = r]
             /\ To(r, "starting") /\ UNCHANGED <<memVars, batches>>
    BY <1>1, <2>1, LockKeeps DEF Connect, loopVars
  <2>2. CASE Finally(r) /\ UNCHANGED lock
    BY <1>1, <2>0, <2>2, FinallyKeeps DEF Connect, loopVars
  <2>3. CASE To(r, "failing") /\ UNCHANGED <<lock, memVars, batches>>
    BY <1>1, <2>3, MoveKeeps DEF Connect, loopVars, Active
  <2>. QED BY <1>1, <2>1, <2>2, <2>3 DEF Connect
<1>2. CASE Start(r)
  <2>1. CASE row' = [row EXCEPT ![r] = "running"] /\ To(r, "running") /\ live' = live \cup {r}
    BY <1>2, <2>1, StartKeeps DEF Start, loopVars
  <2>2. CASE To(r, "failing") /\ UNCHANGED <<row, live, contexts>>
    BY <1>2, <2>2, MoveKeeps DEF Start, loopVars, memVars, Active
  <2>. QED BY <1>2, <2>1, <2>2 DEF Start
<1>3. CASE Complete(r)
  <2>1. CASE SetRow(r, "completed") /\ IsTask(r) /\ To(r, "updating") /\ UNCHANGED <<memVars, batches>>
    BY <1>3, <2>1, MoveKeeps DEF Complete, loopVars, Active
  <2>2. CASE SetRow(r, "completed") /\ ~IsTask(r) /\ FinallyDispatch(r)
    BY <1>3, <2>2, FinallyDispatchKeeps DEF Complete, loopVars
  <2>3. CASE To(r, "failing") /\ UNCHANGED <<row, old, memVars, batches>>
    BY <1>3, <2>3, MoveKeeps DEF Complete, loopVars, Active
  <2>. QED BY <1>3, <2>1, <2>2, <2>3 DEF Complete
<1>4. CASE Update(r)
  <2>0. IsTask(r)
    BY <1>4 DEF Update, IInv, Core, Kinds, TaskOnly
  <2>1. CASE To(r, "deleting") /\ UNCHANGED <<memVars, batches>>
    BY <1>4, <2>0, <2>1, MoveKeeps DEF Update, loopVars, Active
  <2>2. CASE Finally(r)
    BY <1>4, <2>0, <2>2, FinallyKeeps DEF Update, loopVars
  <2>3. CASE To(r, "failing") /\ UNCHANGED <<memVars, batches>>
    BY <1>4, <2>3, MoveKeeps DEF Update, loopVars, Active
  <2>. QED BY <1>4, <2>1, <2>2, <2>3 DEF Update
<1>5. CASE AutoDelete(r)
  <2>0. IsTask(r)
    BY <1>5 DEF AutoDelete, IInv, Core, Kinds, TaskOnly
  <2>1. CASE Finally(r)
    BY <1>5, <2>0, <2>1, FinallyKeeps DEF AutoDelete, loopVars
  <2>2. CASE To(r, "failing") /\ UNCHANGED <<memVars, batches>>
    BY <1>5, <2>2, MoveKeeps DEF AutoDelete, loopVars, Active
  <2>. QED BY <1>5, <2>1, <2>2 DEF AutoDelete
<1>6. CASE Fail(r)
  <2>1. CASE /\ UNCHANGED <<row, old>> \/ SetRow(r, "failed")
             /\ IsTask(r) /\ To(r, "failed") /\ UNCHANGED <<memVars, batches>>
    BY <1>6, <2>1, MoveKeeps DEF Fail, loopVars, Active
  <2>2. CASE /\ UNCHANGED <<row, old>> \/ SetRow(r, "failed")
             /\ ~IsTask(r) /\ FinallyDispatch(r)
    BY <1>6, <2>2, FinallyDispatchKeeps DEF Fail, loopVars
  <2>3. CASE UNCHANGED <<row, old>> /\ IsTask(r) /\ Finally(r)
    BY <1>6, <2>3, FinallyKeeps DEF Fail, loopVars
  <2>. QED BY <1>6, <2>1, <2>2, <2>3 DEF Fail
<1>7. CASE FailTask(r)
  <2>0. IsTask(r)
    BY <1>7 DEF FailTask, IInv, Core, Kinds, TaskOnly
  <2>. QED BY <1>7, <2>0, FinallyKeeps DEF FailTask, loopVars
<1>8. CASE Unlock(r)
  BY <1>8, UnlockKeeps
<1>9. CASE EscalateEnds(r)
  BY <1>9, EscalateEndsKeeps
<1>10. CASE Dispatch(r)
  BY <1>10, DispatchKeeps
<1>11. CASE Acquire(r)
  BY <1>11, AcquireKeeps
<1>12. CASE \E ok \in BOOLEAN : RunEnds(r, ok)
  <2>1. PICK ok \in BOOLEAN : RunEnds(r, ok)
    BY <1>12
  <2>2. CASE ok
    BY <2>1, <2>2, MoveKeeps DEF RunEnds, dbVars, loopVars, Active
  <2>3. CASE ~ok
    BY <2>1, <2>3, MoveKeeps DEF RunEnds, dbVars, loopVars, Active
  <2>. QED BY <2>2, <2>3
<1>. QED BY <1>1, <1>2, <1>3, <1>4, <1>5, <1>6, <1>7, <1>8, <1>9, <1>10, <1>11, <1>12 DEF Step

LEMMA NextCore ==
    ASSUME IInv, Next
    PROVE  Core'
<1>1. CASE \E r \in Run : Step(r)
  BY <1>1, StepCore
<1>2. CASE \E p \in Run \cup {0}, h \in Agent : Escalate(p, h)
  BY <1>2, EscalateKeeps
<1>3. CASE \E a \in AlertAgents : Alert(a)
  BY <1>3, AlertKeeps
<1>4. CASE \E sweep \in BOOLEAN : TickRead(sweep)
  BY <1>4, TickReadKeeps
<1>5. CASE TickDispatch
  BY <1>5, TickDispatchKeeps
<1>6. CASE Sweep
  BY <1>6, SweepKeeps
<1>7. CASE User
  <2>1. CASE RunNow
    <3>1. edit.task \in Task
      BY <2>1 DEF RunNow, IInv, Edits
    <3>. QED BY <2>1, <3>1, RunNowKeeps
  <2>2. CASE EditWrite \/ RestoreWrite
    BY <2>2, QuietKeeps DEF EditWrite, RestoreWrite, loopVars
  <2>3. CASE \E t \in Task : \/ CreateTask(t) \/ DeleteTask(t) \/ RestoreRead(t) \/ PurgeTask(t)
                             \/ \E op \in {"on", "off", "update", "run"} : EditRead(t, op)
    <3>1. UNCHANGED <<run, row, old, lock, memVars, batches, loopVars>>
      BY <2>3 DEF CreateTask, DeleteTask, RestoreRead, PurgeTask, EditRead, dbVars
    <3>. QED BY <3>1, QuietKeeps DEF loopVars
  <2>. QED BY <1>7, <2>1, <2>2, <2>3 DEF User
<1>8. CASE \E t \in Task : DateComes(t)
  BY <1>8, QuietKeeps DEF DateComes, loopVars
<1>9. CASE HalfHour
  BY <1>9, HalfHourKeeps
<1>10. CASE Restart
  BY <1>10, RestartKeeps
<1>. QED BY <1>1, <1>2, <1>3, <1>4, <1>5, <1>6, <1>7, <1>8, <1>9, <1>10 DEF Next

-----------------------------------------------------------------------------
(* The types, by what the actions change together. *)
TaskType == [status : {"absent", "live", "deleted", "purged"}, enabled : BOOLEAN,
             next : {"none", "future", "due"}, past : BOOLEAN]
EditType == [op : {"none", "on", "off", "update", "restore", "run"}, task : Task \cup {None},
             enabled : BOOLEAN]

TasksTyped == task \in [Task -> TaskType]
RowsTyped == /\ row \in [Run -> {"none", "running", "completed", "failed"}]
             /\ old \subseteq Run /\ spared \subseteq Run
LocksTyped == lock \in [Task -> Run \cup {0}]
MapsTyped == /\ running \subseteq Task /\ reserved \subseteq Agent
             /\ contexts \subseteq Run /\ live \subseteq Run
CallsTyped == /\ run \in [Run -> CallType]
              /\ \A r \in Run : Pc(r) \notin Ended => run[r].agent \in Agent
LoopsTyped == /\ due \subseteq Task /\ {tickInProgress, sweeping} \subseteq BOOLEAN
              /\ faults \in 0..MaxFaults
EditsTyped == edit \in EditType /\ Edits /\ edits \in 0..MaxEdits

Typed == /\ TasksTyped /\ RowsTyped /\ LocksTyped /\ MapsTyped /\ CallsTyped
         /\ LoopsTyped /\ EditsTyped

LEMMA Types == TypeOK /\ Edits => Typed
BY DEF TypeOK, Typed, TasksTyped, RowsTyped, LocksTyped, MapsTyped, CallsTyped, LoopsTyped,
       EditsTyped, TaskType, CallType, EditType, Ended

LEMMA Assembled == Typed /\ Shape => TypeOK /\ Edits
<1>. SUFFICES ASSUME Typed, Shape PROVE TypeOK /\ Edits
  OBVIOUS
<1>1. /\ DOMAIN pending = Run /\ \A r \in Run : Range(pending[r]) \subseteq Run
      /\ \A b \in batches : b # <<>> /\ Range(b) \subseteq Run
  BY DEF Shape, Range
<1>. QED BY <1>1 DEF TypeOK, Typed, TasksTyped, RowsTyped, LocksTyped, MapsTyped, CallsTyped,
            LoopsTyped, EditsTyped, TaskType, CallType, EditType, Ended

LEMMA ExecutedIs ==
    ASSUME TasksTyped, NEW r \in Run, run[r].task \in Task, run[r].enabled \in BOOLEAN
    PROVE  Executed(r) \in [Task -> TaskType]
<1>. DEFINE t == run[r].task
            next == ComputeNextRun(t)
            enabled == t \notin Once /\ run[r].enabled
<1>1. task[t] \in TaskType /\ next \in {"none", "future"} /\ enabled \in BOOLEAN
  BY DEF TasksTyped, ComputeNextRun
<1>2. Executed(r) \in {task, [task EXCEPT ![t].next = next, ![t].enabled = enabled]}
  BY DEF Executed
<1>. HIDE DEF t, next, enabled
<1>3. [task EXCEPT ![t].next = next, ![t].enabled = enabled] \in [Task -> TaskType]
  BY <1>1 DEF TasksTyped, TaskType
<1>. QED BY <1>2, <1>3 DEF TasksTyped

LEMMA DeletedIs ==
    ASSUME TasksTyped, NEW t \in Task
    PROVE  Deleted(t) \in [Task -> TaskType]
<1>. DEFINE gone == [task[t] EXCEPT !.status = "deleted", !.enabled = FALSE, !.next = "none"]
<1>1. gone \in TaskType
  BY DEF TasksTyped, TaskType
<1>2. Deleted(t) \in {task, [task EXCEPT ![t] = gone]}
  BY DEF Deleted, TasksTyped, TaskType
<1>. HIDE DEF gone
<1>. QED BY <1>1, <1>2 DEF TasksTyped

LEMMA CallsKeepTypes ==
    ASSUME IInv, NEW r \in Run, Pc(r) \notin Ended,
           \/ \E p \in Pcs : To(r, p)
           \/ run' = [run EXCEPT ![r] = Over]
           \/ Finally(r)
    PROVE  CallsTyped'
<1>. USE DEF IInv, Pc
<1>0. /\ run \in [Run -> CallType]
      /\ \A s \in Run : Pc(s) \notin Ended => run[s].agent \in Agent
  BY Types DEF Typed, CallsTyped
<1>1. CASE \E p \in Pcs : To(r, p)
  <2>1. PICK p \in Pcs : To(r, p)
    BY <1>1
  <2>2. /\ run' \in [Run -> CallType]
        /\ \A s \in Run : /\ run'[s].agent = run[s].agent
                          /\ s # r => run'[s].pc = run[s].pc
    BY <2>1, Moved
  <2>. QED BY <1>0, <2>2 DEF CallsTyped
<1>2. CASE run' = [run EXCEPT ![r] = Over]
  BY <1>0, <1>2, OverIs DEF CallsTyped, Ended
<1>3. CASE run' = [run EXCEPT ![r] = [run[r] EXCEPT !.pc = "unlocking"]]
  <2>1. [run[r] EXCEPT !.pc = "unlocking"] \in CallType
    BY <1>0 DEF CallType, Pcs
  <2>. QED BY <1>0, <1>3, <2>1 DEF CallsTyped, CallType
<1>. QED BY <1>1, <1>2, <1>3 DEF Finally

(* The steps of a call keep the types. *)
LEMMA StepTyped ==
    ASSUME IInv, NEW r \in Run, Step(r)
    PROVE  Typed'
<1>0. Typed
  BY Types DEF IInv
<1>1. Pc(r) \notin Ended
  BY DEF Step, Connect, Start, Complete, Update, AutoDelete, Fail, FailTask, Unlock, EscalateEnds,
         Dispatch, Acquire, RunEnds, Ended
<1>2. TasksTyped'
  <2>1. IsTask(r) => run[r].task \in Task /\ run[r].enabled \in BOOLEAN
    BY <1>0, <1>1 DEF IInv, Core, Kinds, Typed, CallsTyped, CallType
  <2>2. CASE Update(r) \/ FailTask(r)
    <3>1. IsTask(r)
      BY <2>2 DEF Update, FailTask, IInv, Core, Kinds, TaskOnly
    <3>2. task' \in {task, Executed(r)}
      BY <2>2 DEF Update, FailTask
    <3>. QED BY <1>0, <2>1, <3>1, <3>2, ExecutedIs DEF Typed, TasksTyped
  <2>3. CASE AutoDelete(r)
    <3>1. IsTask(r)
      BY <2>3 DEF AutoDelete, IInv, Core, Kinds, TaskOnly
    <3>2. task' \in {task, Deleted(run[r].task)}
      BY <2>3 DEF AutoDelete
    <3>. QED BY <1>0, <2>1, <3>1, <3>2, DeletedIs DEF Typed, TasksTyped
  <2>4. CASE ~(Update(r) \/ FailTask(r) \/ AutoDelete(r))
    <3>1. UNCHANGED task
      BY <2>4 DEF Step, Connect, Start, Complete, Fail, Unlock, EscalateEnds, Dispatch, Acquire,
                  RunEnds, dbVars
    <3>. QED BY <1>0, <3>1 DEF Typed, TasksTyped
  <2>. QED BY <2>2, <2>3, <2>4
<1>3. RowsTyped'
  <2>1. /\ \/ UNCHANGED <<row, old>>
           \/ row' = [row EXCEPT ![r] = "running"] /\ UNCHANGED old
           \/ \E s \in {"completed", "failed"} : SetRow(r, s)
        /\ UNCHANGED spared
    BY DEF Step, Connect, Start, Complete, Update, AutoDelete, Fail, FailTask, Unlock,
           EscalateEnds, Dispatch, Acquire, RunEnds, dbVars, loopVars
  <2>. QED BY <1>0, <2>1 DEF Typed, RowsTyped, SetRow
<1>4. LocksTyped'
  <2>1. \/ UNCHANGED lock
        \/ lock' = [lock EXCEPT ![run[r].task] = r]
        \/ lock' = [lock EXCEPT ![run[r].task] = 0]
    BY DEF Step, Connect, Start, Complete, Update, AutoDelete, Fail, FailTask, Unlock,
           EscalateEnds, Dispatch, Acquire, RunEnds, dbVars
  <2>. QED BY <1>0, <2>1 DEF Typed, LocksTyped
<1>5. MapsTyped'
  <2>1. /\ running' \subseteq running
        /\ reserved' \subseteq reserved \cup {run[r].agent}
        /\ contexts' \subseteq contexts \cup {r} /\ live' \subseteq live \cup {r}
    BY DEF Step, Connect, Start, Complete, Update, AutoDelete, Fail, FailTask, Unlock,
           EscalateEnds, Dispatch, Acquire, RunEnds, memVars, Finally, FinallyDispatch
  <2>2. run[r].agent \in Agent
    BY <1>0, <1>1 DEF Typed, CallsTyped
  <2>. QED BY <1>0, <2>1, <2>2 DEF Typed, MapsTyped
<1>6. CallsTyped'
  <2>1. CASE EscalateEnds(r)
    <3>1. /\ run \in [Run -> CallType]
          /\ \A s \in Run : Pc(s) \notin Ended => run[s].agent \in Agent
      BY <1>0 DEF Typed, CallsTyped
    <3>2. /\ Pc(r) = "triggering"
          /\ run' = [s \in Run |->
                       IF s = r THEN IF faults' = faults THEN [run[s] EXCEPT !.pc = "queued"]
                                                         ELSE Over
                       ELSE IF s = run[r].parent THEN [run[s] EXCEPT !.pc = "running"] ELSE run[s]]
      BY <2>1 DEF EscalateEnds
    <3>3. run[r].parent \in Run => Pc(run[r].parent) = "tool"
      BY <3>2 DEF IInv, Core, Parents, Run
    <3>4. \A s \in Run : /\ [run[s] EXCEPT !.pc = "queued"] \in CallType
                         /\ [run[s] EXCEPT !.pc = "running"] \in CallType
                         /\ [run[s] EXCEPT !.pc = "queued"].agent = run[s].agent
                         /\ [run[s] EXCEPT !.pc = "running"].agent = run[s].agent
      BY <3>1 DEF CallType, Pcs
    <3>5. run' \in [Run -> CallType]
      BY <3>1, <3>2, <3>4, OverIs
    <3>6. ASSUME NEW s \in Run, run'[s].pc \notin Ended
          PROVE  run'[s].agent \in Agent
      <4>1. CASE s = r
        BY <1>1, <3>1, <3>2, <3>4, <3>6, <4>1, OverIs DEF Ended
      <4>2. CASE s # r /\ s = run[r].parent
        <5>1. run[s].agent \in Agent
          BY <3>1, <3>3, <4>2 DEF Ended
        <5>. QED BY <3>2, <3>4, <4>2, <5>1
      <4>3. CASE s # r /\ s # run[r].parent
        BY <3>1, <3>2, <3>6, <4>3 DEF Pc
      <4>. QED BY <4>1, <4>2, <4>3
    <3>. QED BY <3>5, <3>6 DEF CallsTyped, Pc
  <2>2. CASE Acquire(r)
    <3>1. /\ run \in [Run -> CallType]
          /\ \A s \in Run : Pc(s) \notin Ended => run[s].agent \in Agent
      BY <1>0 DEF Typed, CallsTyped
    <3>2. CASE To(r, "running")
      BY <1>1, <3>2, CallsKeepTypes DEF Pcs
    <3>3. CASE run' = [run EXCEPT ![r].pc = "running", ![r].mine = TRUE]
      <4>1. /\ run' \in [Run -> CallType]
            /\ \A s \in Run \ {r} : run'[s] = run[s]
            /\ run'[r].agent = run[r].agent
        <5>. DEFINE c == [run[r] EXCEPT !.pc = "running", !.mine = TRUE]
        <5>1. c \in CallType /\ c.agent = run[r].agent
          BY <3>1 DEF CallType, Pcs
        <5>2. run' = [run EXCEPT ![r] = c]
          BY <3>3
        <5>. HIDE DEF c
        <5>. QED BY <3>1, <5>1, <5>2
      <4>. QED BY <1>1, <3>1, <4>1 DEF CallsTyped, Pc
    <3>. QED BY <2>2, <3>2, <3>3 DEF Acquire
  <2>3. CASE ~EscalateEnds(r) /\ ~Acquire(r)
    <3>1. \/ \E p \in Pcs : To(r, p)
          \/ run' = [run EXCEPT ![r] = Over]
          \/ Finally(r)
      BY <2>3 DEF Step, Connect, Start, Complete, Update, AutoDelete, Fail, FailTask, Unlock,
                  Dispatch, RunEnds, FinallyDispatch, Pcs
    <3>. QED BY <1>1, <3>1, CallsKeepTypes
  <2>. QED BY <2>1, <2>2, <2>3
<1>7. LoopsTyped'
  <2>1. UNCHANGED loopVars /\ (UNCHANGED faults \/ Fault)
    BY DEF Step, Connect, Start, Complete, Update, AutoDelete, Fail, FailTask, Unlock,
           EscalateEnds, Dispatch, Acquire, RunEnds
  <2>. QED BY <1>0, <2>1, BoundsAssumption DEF Typed, LoopsTyped, loopVars, Fault
<1>8. EditsTyped'
  <2>1. UNCHANGED userVars
    BY DEF Step, Connect, Start, Complete, Update, AutoDelete, Fail, FailTask, Unlock,
           EscalateEnds, Dispatch, Acquire, RunEnds
  <2>. QED BY <1>0, <2>1 DEF Typed, EditsTyped, Edits, userVars
<1>. QED BY <1>2, <1>3, <1>4, <1>5, <1>6, <1>7, <1>8 DEF Typed

(* The other steps keep the types, too. *)
LEMMA EscalateTyped ==
    ASSUME IInv, NEW p \in Run \cup {0}, NEW h \in Agent, Escalate(p, h)
    PROVE  Typed'
<1>. DEFINE e == Min(Unused)
            c == [NoRun EXCEPT !.pc = "triggering", !.agent = h, !.kind = "escalation",
                               !.parent = p]
<1>0. Typed
  BY Types DEF IInv
<1>1. e \in Run
  BY FirstUnused DEF Escalate, IInv, Core
<1>2. /\ run' = [r \in Run |-> IF r = e THEN c
                               ELSE IF r = p THEN [run[r] EXCEPT !.pc = "tool"] ELSE run[r]]
      /\ row' = [row EXCEPT ![e] = "running"]
      /\ p # 0 => Pc(p) = "running"
      /\ UNCHANGED <<task, old, lock, running, reserved, contexts, live, loopVars, userVars, faults>>
  BY DEF Escalate, memVars
<1>3. c \in CallType /\ c.agent = h
  BY DEF NoRun, CallType, Pcs
<1>. HIDE DEF e, c
<1>4. CallsTyped'
  <2>1. /\ run \in [Run -> CallType] /\ 0 \notin Run
        /\ \A s \in Run : Pc(s) \notin Ended => run[s].agent \in Agent
    BY <1>0 DEF Typed, CallsTyped, Run
  <2>2. \A s \in Run : /\ [run[s] EXCEPT !.pc = "tool"] \in CallType
                       /\ [run[s] EXCEPT !.pc = "tool"].agent = run[s].agent
    BY <2>1 DEF CallType, Pcs
  <2>3. run' \in [Run -> CallType]
    BY <1>2, <1>3, <2>1, <2>2
  <2>4. ASSUME NEW s \in Run, run'[s].pc \notin Ended
        PROVE  run'[s].agent \in Agent
    <3>1. CASE s = e
      BY <1>2, <1>3, <3>1
    <3>2. CASE s # e /\ s = p
      BY <1>2, <2>1, <2>2, <3>2 DEF Ended
    <3>3. CASE s # e /\ s # p
      BY <1>2, <2>1, <2>4, <3>3 DEF Pc
    <3>. QED BY <3>1, <3>2, <3>3
  <2>. QED BY <2>3, <2>4 DEF CallsTyped, Pc
<1>5. RowsTyped'
  BY <1>0, <1>1, <1>2 DEF Typed, RowsTyped, loopVars
<1>. QED BY <1>0, <1>2, <1>4, <1>5
         DEF Typed, TasksTyped, LocksTyped, MapsTyped, LoopsTyped, EditsTyped, Edits,
             loopVars, userVars

LEMMA AlertTyped ==
    ASSUME IInv, NEW a \in AlertAgents, Alert(a)
    PROVE  Typed'
<1>. DEFINE e == Min(Unused)
            c == [NoRun EXCEPT !.pc = "queued", !.kind = "alert", !.agent = a]
<1>0. Typed /\ a \in Agent
  BY Types, TasksAssumption DEF IInv
<1>1. e \in Run
  BY FirstUnused DEF Alert, IInv, Core
<1>2. /\ run' = [run EXCEPT ![e] = c] /\ row' = [row EXCEPT ![e] = "running"]
      /\ UNCHANGED <<task, old, lock, running, reserved, contexts, live, loopVars, userVars, faults>>
  BY DEF Alert, memVars
<1>3. c \in CallType /\ c.agent = a
  BY <1>0 DEF NoRun, CallType, Pcs
<1>. HIDE DEF e, c
<1>4. CallsTyped'
  BY <1>0, <1>1, <1>2, <1>3 DEF Typed, CallsTyped, Pc
<1>5. RowsTyped'
  BY <1>0, <1>2 DEF Typed, RowsTyped, loopVars
<1>. QED BY <1>0, <1>2, <1>4, <1>5
         DEF Typed, TasksTyped, LocksTyped, MapsTyped, LoopsTyped, EditsTyped, Edits,
             loopVars, userVars

LEMMA TickTyped ==
    ASSUME IInv, \/ \E sweep \in BOOLEAN : TickRead(sweep)
                 \/ TickDispatch \/ Sweep \/ HalfHour
    PROVE  Typed'
<1>0. Typed
  BY Types DEF IInv
<1>1. CASE TickDispatch
  <2>1. run' \in [Run -> CallType] /\ Core'
    BY <1>1, TickDispatchKeeps
  <2>2. \A r \in Run : run'[r] = run[r] \/ run'[r].kind = "task"
    BY <1>1 DEF TickDispatch, Execution, NoRun
  <2>3. CallsTyped'
    BY <1>0, <2>1, <2>2, TasksAssumption
       DEF Typed, CallsTyped, Core, Kinds, Pc, IsTask
  <2>4. MapsTyped'
    <3>1. PICK S \in SUBSET Startable : /\ running' = running \cup S
                                        /\ reserved' = reserved \cup {AgentOf[t] : t \in S}
      BY <1>1 DEF TickDispatch
    <3>2. S \subseteq Task /\ \A t \in S : AgentOf[t] \in Agent
      BY <1>0, TasksAssumption DEF Startable, Typed, LoopsTyped
    <3>3. UNCHANGED <<contexts, live>>
      BY <1>1 DEF TickDispatch
    <3>. QED BY <1>0, <3>1, <3>2, <3>3 DEF Typed, MapsTyped
  <2>5. LoopsTyped'
    BY <1>0, <1>1 DEF TickDispatch, Typed, LoopsTyped
  <2>. QED BY <1>0, <1>1, <2>3, <2>4, <2>5
           DEF TickDispatch, Typed, TasksTyped, RowsTyped, LocksTyped, EditsTyped, Edits,
               dbVars, userVars
<1>2. CASE \E sweep \in BOOLEAN : TickRead(sweep)
  BY <1>0, <1>2
     DEF TickRead, Typed, TasksTyped, RowsTyped, LocksTyped, MapsTyped, CallsTyped, LoopsTyped,
         EditsTyped, Edits, Pc, dbVars, memVars, userVars
<1>3. CASE Sweep
  BY <1>0, <1>3
     DEF Sweep, Typed, TasksTyped, RowsTyped, LocksTyped, MapsTyped, CallsTyped, LoopsTyped,
         EditsTyped, Edits, Pc, memVars, userVars
<1>4. CASE HalfHour
  BY <1>0, <1>4
     DEF HalfHour, Typed, TasksTyped, RowsTyped, LocksTyped, MapsTyped, CallsTyped, LoopsTyped,
         EditsTyped, Edits, Pc, memVars, loopVars, userVars
<1>. QED BY <1>1, <1>2, <1>3, <1>4

LEMMA RestartTyped ==
    ASSUME IInv, Restart
    PROVE  Typed'
<1>0. Typed
  BY Types DEF IInv
<1>1. [NoRun EXCEPT !.pc = "dead"] \in CallType /\ [NoRun EXCEPT !.pc = "dead"].pc = "dead"
  BY DEF NoRun, CallType, Pcs
<1>2. CallsTyped'
  BY <1>0, <1>1 DEF Restart, Typed, CallsTyped, Ended, Pc
<1>3. LoopsTyped'
  <2>1. faults' \in 0..MaxFaults
    BY <1>0, BoundsAssumption DEF Restart, Typed, LoopsTyped, Fault
  <2>2. due' = {} /\ tickInProgress' = FALSE /\ sweeping' = FALSE
    BY DEF Restart
  <2>. QED BY <2>1, <2>2 DEF LoopsTyped
<1>4. RowsTyped' /\ LocksTyped' /\ MapsTyped'
  BY <1>0 DEF Restart, Typed, RowsTyped, LocksTyped, MapsTyped
<1>5. TasksTyped' /\ EditsTyped'
  BY <1>0 DEF Restart, Typed, TasksTyped, EditsTyped, Edits, EditType, NoEdit
<1>. QED BY <1>2, <1>3, <1>4, <1>5 DEF Typed

LEMMA UserTyped ==
    ASSUME IInv, User \/ \E t \in Task : DateComes(t)
    PROVE  Typed'
<1>0. Typed
  BY Types DEF IInv
<1>1. CASE RunNow
  <2>0. edit.task \in Task
    BY <1>1 DEF RunNow, IInv, Edits
  <2>1. run' \in [Run -> CallType] /\ Core'
    BY <1>1, <2>0, RunNowKeeps
  <2>2. \A r \in Run : run'[r] = run[r] \/ run'[r].kind = "task"
    BY <1>0, <1>1 DEF RunNow, Execution, NoRun, Typed, CallsTyped
  <2>3. CallsTyped'
    BY <1>0, <2>1, <2>2, TasksAssumption
       DEF Typed, CallsTyped, Core, Kinds, Pc, IsTask
  <2>4. MapsTyped'
    <3>1. AgentOf[edit.task] \in Agent
      BY <2>0, TasksAssumption
    <3>. QED BY <1>0, <1>1, <2>0, <3>1 DEF RunNow, Typed, MapsTyped
  <2>5. EditsTyped'
    BY <1>0, <1>1 DEF RunNow, NoEdit, Typed, EditsTyped, EditType, Edits
  <2>. QED BY <1>0, <1>1, <2>3, <2>4, <2>5
           DEF RunNow, Typed, TasksTyped, RowsTyped, LocksTyped, LoopsTyped, dbVars, loopVars
<1>. SUFFICES ASSUME ~RunNow
     PROVE  Typed'
  BY <1>1
<1>2. /\ UNCHANGED <<row, old, lock, run, running, reserved, contexts, live, loopVars, faults>>
      /\ \/ (EditWrite \/ RestoreWrite) /\ UNCHANGED edits
         \/ \E t \in Task : RestoreRead(t) /\ UNCHANGED edits
         \/ (Counted \/ UNCHANGED edits) /\ UNCHANGED edit
         \/ \E t \in Task, op \in {"on", "off", "update", "run"} : EditRead(t, op)
  BY DEF User, EditWrite, RestoreWrite, CreateTask, DeleteTask, RestoreRead, PurgeTask, EditRead, DateComes,
         dbVars, memVars, userVars
<1>3. TasksTyped'
  <2>0. /\ task \in [Task -> TaskType]
        /\ \A t \in Task : ComputeNextRun(t) \in {"none", "future"}
    BY <1>0 DEF Typed, TasksTyped, ComputeNextRun
  <2>1. CASE EditWrite
    <3>. DEFINE t == edit.task
                enabled == IF edit.op = "update" THEN edit.enabled ELSE edit.op = "on"
                next == IF edit.op = "off" THEN "none" ELSE ComputeNextRun(t)
    <3>1. t \in Task /\ enabled \in BOOLEAN /\ next \in {"none", "future"}
      BY <1>0, <2>0, <2>1 DEF EditWrite, Typed, EditsTyped, EditType, Edits
    <3>2. task' \in {task, [task EXCEPT ![t].enabled = enabled, ![t].next = next]}
      BY <2>1 DEF EditWrite
    <3>. HIDE DEF t, enabled, next
    <3>. QED BY <2>0, <3>1, <3>2 DEF TasksTyped, TaskType
  <2>2. CASE \E t \in Task : DeleteTask(t)
    BY <1>0, <2>2, DeletedIs DEF DeleteTask, Typed, TasksTyped
  <2>3. CASE \E t \in Task : CreateTask(t)
    BY <2>0, <2>3 DEF CreateTask, TasksTyped, TaskType
  <2>4. CASE RestoreWrite
    <3>. DEFINE t == edit.task
                next == ComputeNextRun(t)
    <3>1. t \in Task /\ next \in {"none", "future"}
      BY <1>0, <2>0, <2>4 DEF RestoreWrite, Typed, EditsTyped, EditType, Edits
    <3>2. task' \in {task, [task EXCEPT ![t].status = "live", ![t].next = next]}
      BY <2>4 DEF RestoreWrite
    <3>. HIDE DEF t, next
    <3>. QED BY <2>0, <3>1, <3>2 DEF TasksTyped, TaskType
  <2>5. CASE \E t \in Task : PurgeTask(t)
    BY <2>0, <2>5 DEF PurgeTask, TasksTyped, TaskType
  <2>6. CASE \E t \in Task : DateComes(t)
    <3>1. PICK t \in Task : task' = [task EXCEPT ![t].next = "due", ![t].past = t \in Once]
      BY <2>6 DEF DateComes
    <3>2. CASE t \in Once
      <4>1. task' = [task EXCEPT ![t].next = "due", ![t].past = TRUE]
        BY <3>1, <3>2
      <4>. QED BY <2>0, <4>1 DEF TasksTyped, TaskType
    <3>3. CASE t \notin Once
      <4>1. task' = [task EXCEPT ![t].next = "due", ![t].past = FALSE]
        <5>1. (t \in Once) = FALSE
          BY <3>3
        <5>. QED BY <3>1, <5>1
      <4>. QED BY <2>0, <4>1 DEF TasksTyped, TaskType
    <3>. QED BY <3>2, <3>3
  <2>7. CASE \E t \in Task, op \in {"on", "off", "update", "run"} : EditRead(t, op)
    BY <2>0, <2>7 DEF EditRead, dbVars, TasksTyped
  <2>8. CASE \E t \in Task : RestoreRead(t)
    BY <2>0, <2>8 DEF RestoreRead, dbVars, TasksTyped
  <2>. QED BY <2>1, <2>2, <2>3, <2>4, <2>5, <2>6, <2>7, <2>8 DEF User
<1>4. EditsTyped'
  <2>1. CASE (EditWrite \/ RestoreWrite) /\ UNCHANGED edits
    <3>1. edit' = NoEdit
      BY <2>1 DEF EditWrite, RestoreWrite
    <3>. QED BY <1>0, <2>1, <3>1 DEF NoEdit, Typed, EditsTyped, EditType, Edits
  <2>2. CASE (Counted \/ UNCHANGED edits) /\ UNCHANGED edit
    BY <1>0, <2>2, BoundsAssumption DEF Counted, Typed, EditsTyped, Edits
  <2>3. CASE \E t \in Task, op \in {"on", "off", "update", "run"} : EditRead(t, op)
    <3>1. PICK t \in Task, op \in {"on", "off", "update", "run"} : EditRead(t, op)
      BY <2>3
    <3>2. task[t].enabled \in BOOLEAN
      BY <1>0 DEF Typed, TasksTyped, TaskType
    <3>3. edits' \in 0..MaxEdits
      BY <1>0, <3>1, BoundsAssumption DEF EditRead, Counted, Typed, EditsTyped
    <3>. QED BY <3>1, <3>2, <3>3 DEF EditRead, EditsTyped, EditType, Edits
  <2>4. CASE \E t \in Task : RestoreRead(t) /\ UNCHANGED edits
    <3>1. PICK t \in Task : RestoreRead(t) /\ UNCHANGED edits
      BY <2>4
    <3>. QED BY <1>0, <3>1 DEF RestoreRead, NoEdit, Typed, EditsTyped, EditType, Edits
  <2>. QED BY <1>2, <2>1, <2>2, <2>3, <2>4
<1>. QED BY <1>0, <1>2, <1>3, <1>4
         DEF Typed, RowsTyped, LocksTyped, MapsTyped, CallsTyped, LoopsTyped, Pc, loopVars

-----------------------------------------------------------------------------
LEMMA InitInv == Init => IInv
<1>. SUFFICES ASSUME Init PROVE IInv
  OBVIOUS
<1>1. /\ \A r \in Run : /\ run[r] = NoRun /\ row[r] = "none" /\ pending[r] = <<>>
                        /\ run[r].pc = "none" /\ run[r].kind = "task"
      /\ \A t \in Task : lock[t] = 0
      /\ run \in [Run -> CallType] /\ batches = {} /\ old = {} /\ ~sweeping /\ 0 \notin Run
      /\ reserved = {} /\ running = {} /\ contexts = {} /\ live = {}
  <2>1. NoRun \in CallType /\ NoRun.pc = "none" /\ NoRun.kind = "task"
    BY OverIs DEF NoRun
  <2>2. run = [r \in Run |-> NoRun] /\ run \in [Run -> CallType]
    BY <2>1 DEF Init
  <2>. QED BY <2>1, <2>2 DEF Init, Run
<1>2. Shape
  BY DEF Init, Shape
<1>3. Typed
  <2>1. NoTask \in TaskType /\ NoEdit \in EditType
    BY DEF NoTask, NoEdit, TaskType, EditType
  <2>2. EditsTyped
    BY <2>1, BoundsAssumption DEF Init, EditsTyped, Edits, NoEdit
  <2>3. LoopsTyped
    <3>1. 0 \in 0..MaxFaults
      BY BoundsAssumption
    <3>. QED BY <3>1 DEF Init, LoopsTyped
  <2>. QED BY <1>1, <2>1, <2>2, <2>3
           DEF Init, Typed, TasksTyped, RowsTyped, LocksTyped, MapsTyped, CallsTyped, Pc, Ended
<1>4. Kinds /\ Allocated /\ Parents
  BY <1>1 DEF Kinds, TaskOnly, DispatchOnly, Allocated, Parents, Pc, IsTask, Ended
<1>5. Locked /\ Tidy
  BY <1>1 DEF Locked, MayLock, Tidy, Early, Underway, Pc, IsTask, Ended
<1>6. Queues /\ OnePlace /\ Placed
  BY <1>1 DEF Queues, OnePlace, Placed, Pc
<1>7. Rows
  BY <1>1 DEF Rows, Going, Underway, Pc
<1>8. ReservationsOwned
  <2>1. Holders = {}
    BY <1>1 DEF Holders, Active, Pc
  <2>. QED BY <1>1, <2>1 DEF ReservationsOwned
<1>. QED BY <1>2, <1>3, <1>4, <1>5, <1>6, <1>7, <1>8, Assembled DEF IInv, Core

LEMMA StutterStep == IInv /\ UNCHANGED vars => IInv'
<1>. SUFFICES ASSUME IInv, UNCHANGED vars PROVE IInv'
  OBVIOUS
<1>1. Core'
  BY QuietKeeps DEF vars, dbVars, loopVars
<1>2. TypeOK' /\ Edits'
  BY DEF vars, dbVars, memVars, loopVars, userVars, IInv, TypeOK, Edits, Pc
<1>. QED BY <1>1, <1>2 DEF IInv

LEMMA AssembledNext == Typed' /\ Shape' => TypeOK' /\ Edits'
BY Assembled, PTL

LEMMA NextStep == IInv /\ Next => IInv'
<1>. SUFFICES ASSUME IInv, Next PROVE IInv'
  OBVIOUS
<1>1. Core' /\ Shape'
  BY NextCore DEF Core
<1>2. Typed'
  BY StepTyped, EscalateTyped, AlertTyped, TickTyped, RestartTyped, UserTyped DEF Next
<1>3. TypeOK' /\ Edits'
  BY <1>1, <1>2, AssembledNext
<1>. QED BY <1>1, <1>3 DEF IInv

(* The inductive invariant: who holds what, and where every escalation is. *)
THEOREM InductiveInvariant == Spec => []IInv
BY InitInv, NextStep, StutterStep, PTL DEF Spec

(* Every variable keeps its type, and no counter exceeds its bound. *)
THEOREM TypeCorrect == Spec => []TypeOK
<1>1. IInv => TypeOK
  BY DEF IInv
<1>. QED BY <1>1, InductiveInvariant, PTL

(* A reservation of an agent, or of a task, has exactly one owner, and an  *)
(* owner has its reservation: no path of executeTask and of the dispatches *)
(* releases what another call has taken.                                   *)
THEOREM ReservationsHaveOwners == Spec => []ReservationsOwned
<1>1. IInv => ReservationsOwned
  BY DEF IInv, Core
<1>. QED BY <1>1, InductiveInvariant, PTL

(* A committed escalation waits under a run that has its flush before it,  *)
(* or behind a dispatch that is under way.                                 *)
THEOREM NothingIsStranded == Spec => []NothingStranded
<1>1. IInv => NothingStranded
  <2>. SUFFICES ASSUME IInv, NEW e \in Run, Pc(e) = "queued"
       PROVE  \/ \E p \in Run : e \in Range(pending[p]) /\ Pc(p) \in Active \cup {"unlocking"}
              \/ \E b \in batches : e \in Range(b) /\ Pc(Head(b)) \notin {"over", "dead"}
    BY DEF NothingStranded
  <2>1. CASE \E b \in batches : \E i \in DOMAIN b : e = b[i]
    <3>1. PICK b \in batches : \E i \in DOMAIN b : e = b[i]
      BY <2>1
    <3>2. Head(b) = b[1] /\ e \in Range(b)
      BY <3>1 DEF IInv, Core, Shape, Range
    <3>3. Pc(b[1]) \notin {"over", "dead"}
      BY DEF IInv, Core, Queues, Underway
    <3>. QED BY <3>2, <3>3
  <2>2. CASE \E p \in Run : \E i \in DOMAIN pending[p] : e = pending[p][i]
    <3>1. PICK p \in Run : \E i \in DOMAIN pending[p] : e = pending[p][i]
      BY <2>2
    <3>2. pending[p] # <<>> /\ e \in Range(pending[p])
      BY <3>1 DEF Range
    <3>3. Pc(p) \in Pcs
      BY DEF IInv, TypeOK, Pc
    <3>4. Pc(p) \in Active \cup {"unlocking"}
      BY <3>2, <3>3 DEF IInv, Core, Tidy, Early, Ended, Active, Pcs, Locked, MayLock
    <3>. QED BY <3>2, <3>4
  <2>. QED BY <2>1, <2>2, Elements DEF IInv, Core, Placed
<1>. QED BY <1>1, InductiveInvariant, PTL

(* A call that is over, or that died, has left nothing in the maps.        *)
THEOREM NothingRemains == Spec => []NoResidue
<1>1. IInv => NoResidue
  <2>. SUFFICES ASSUME IInv, NEW r \in Run, Pc(r) \in {"none", "over", "dead"}
       PROVE  /\ r \notin contexts \cup live
              /\ pending[r] = <<>>
              /\ \A t \in Task : lock[t] # r
              /\ \A b \in batches : r \notin Range(b)
    BY DEF NoResidue
  <2>1. r \notin contexts \cup live /\ pending[r] = <<>>
    BY DEF IInv, Core, Tidy, Ended
  <2>2. \A t \in Task : lock[t] # r
    BY DEF IInv, Core, Locked, MayLock
  <2>3. ASSUME NEW b \in batches, NEW i \in DOMAIN b PROVE b[i] # r
    BY DEF IInv, Core, Queues, Waits, Underway
  <2>. QED BY <2>1, <2>2, <2>3 DEF Range
<1>. QED BY <1>1, InductiveInvariant, PTL

(* No sweep takes the row of a task or of an alert whose agent runs.  (It  *)
(* does take that of an escalation which waited for half an hour.)         *)
THEOREM LiveRunsAreSpared == Spec => []SweepSparesLive
<1>1. IInv => SweepSparesLive
  BY DEF IInv, Core, Rows, SweepSparesLive, Going, Underway
<1>. QED BY <1>1, InductiveInvariant, PTL

=============================================================================
