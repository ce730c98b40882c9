--------------------------- MODULE MCRequestQueue ---------------------------
(* Instances of RequestQueue for TLC. *)
EXTENDS RequestQueue, TLC

CONSTANTS a, b, c, d

(* Urgent requests of a user with a threshold, ordinary ones of another. *)
MCPriority4 == (a :> 1 @@ b :> 2 @@ c :> 2 @@ d :> 1)
MCPriority3 == (a :> 1 @@ b :> 2 @@ c :> 1)

=============================================================================
