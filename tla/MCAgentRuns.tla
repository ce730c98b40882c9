------------------------------ MODULE MCAgentRuns ------------------------------
(* TLC instances of AgentRuns. *)
EXTENDS AgentRuns, TLC
CONSTANTS r1, r2, r3, r4, w1, d1, x1, m1, m2
MCSymmetry == Permutations(Runs \ Commands)
=============================================================================
