------------------------------ MODULE MCToolLoop ------------------------------
(* TLC instances of ToolLoop. *)
EXTENDS ToolLoop
=============================================================================
