---------------------------- MODULE MCAsyncJobs ----------------------------
(* Instances of AsyncJobs for TLC.  The two sub-agent jobs use the same    *)
(* preset, the other jobs have agents of their own.                        *)
EXTENDS AsyncJobs

CONSTANTS shell, sub1, sub2, box

MCKind == [j \in Job |-> IF j = shell THEN "shell"
                         ELSE IF j = box THEN "sandbox_run" ELSE "sub_agent"]
MCAgent == [j \in Job |-> IF j = sub2 THEN sub1 ELSE j]

=============================================================================
