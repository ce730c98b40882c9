--------------------------- MODULE MCModelManager ---------------------------
(* Instances of ModelManager for TLC. *)
EXTENDS ModelManager, TLC

CONSTANTS m1, m2, c1, c2

MCBackend == (m1 :> "toolbox" @@ m2 :> "native")
MCPort == {1, 2}
MCPid == {1, 2}

(* The requests are interchangeable; only used without temporal properties. *)
MCSymmetry == Permutations(Client)


=============================================================================
