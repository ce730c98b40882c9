-------------------------- MODULE MCSlotScheduler --------------------------
(* Instances of SlotScheduler for TLC: the schedule `night` reserves the   *)
(* backends for the consumer `batch`.                                      *)
EXTENDS SlotScheduler, TLC

CONSTANTS night, day, batch, guest, adm1, adm2

MCAllowed == [s \in Schedule |-> IF s = night THEN Consumer \ {guest} ELSE {}]
MCSymmetry == Permutations(Admin)

=============================================================================
