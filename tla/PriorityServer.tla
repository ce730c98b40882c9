--------------------------- MODULE PriorityServer ---------------------------
(***************************************************************************)
(* What the request queue promises, without workers, tasks, futures and    *)
(* streams: a waiting room of bounded size and one server that serves one  *)
(* request at a time, best priority first and in the order of arrival      *)
(* among equals.  A request gets its outcome while it is the one served,   *)
(* and the server turns away from it only once it has one.                 *)
(***************************************************************************)
EXTENDS Naturals, FiniteSets

CONSTANTS Request, Priority, Capacity, Nobody

VARIABLES
    waiting,    \* requests in the waiting room
    arrived,    \* ticket of every request, 0 before it arrives
    tickets,    \* tickets handed out
    refused,    \* requests sent away
    serving,    \* the request being served
    ended       \* requests that have their outcome

vars == <<waiting, arrived, tickets, refused, serving, ended>>

Init ==
    /\ waiting = {}
    /\ arrived = [r \in Request |-> 0]
    /\ tickets = 0
    /\ refused = {}
    /\ serving = Nobody
    /\ ended = {}

Unseen(r) == arrived[r] = 0 /\ r \notin refused

Arrive(r) ==
    /\ Unseen(r) /\ Cardinality(waiting) < Capacity
    /\ waiting' = waiting \cup {r}
    /\ tickets' = tickets + 1
    /\ arrived' = [arrived EXCEPT ![r] = tickets']
    /\ UNCHANGED <<refused, serving, ended>>

Refuse(r) ==
    /\ Unseen(r) /\ Cardinality(waiting) >= Capacity
    /\ refused' = refused \cup {r}
    /\ UNCHANGED <<waiting, arrived, tickets, serving, ended>>

(* r goes before q. *)
Precedes(r, q) ==
    \/ Priority[r] < Priority[q]
    \/ Priority[r] = Priority[q] /\ arrived[r] < arrived[q]

(* The request being served gets its outcome. *)
Finish ==
    /\ serving # Nobody
    /\ ended' = ended \cup {serving}

(* The server turns to the first of the waiting room, or rests. *)
Take ==
    \/ \E r \in waiting :
         /\ \A q \in waiting \ {r} : Precedes(r, q)
         /\ waiting' = waiting \ {r}
         /\ serving' = r
    \/ serving' = Nobody /\ UNCHANGED waiting

Turn ==
    /\ Finish \/ UNCHANGED ended
    /\ serving = Nobody \/ serving \in ended'
    /\ Take
    /\ UNCHANGED <<arrived, tickets, refused>>

Next ==
    \/ \E r \in Request : Arrive(r) \/ Refuse(r)
    \/ Finish /\ UNCHANGED <<waiting, arrived, tickets, refused, serving>>
    \/ Turn

Spec == Init /\ [][Next]_vars

=============================================================================
