-------------------------- MODULE MCOpenBiosCdRom --------------------------
(* The driver used in every way while the lid stays closed; and used by    *)
(* calls that wait, with fewer errors, while the lid opens and closes.     *)
EXTENDS OpenBiosCdRom

VARIABLE lidMoves       \* whether the lid does

Closed == INSTANCE OpenBiosCdRom WITH Moves <- 0
Moved == INSTANCE OpenBiosCdRom WITH Uses <- Uses \ {"direct"}, Errors <- 1

MCInit == lidMoves \in BOOLEAN /\ OpenBiosInit

MCNext ==
    /\ UNCHANGED lidMoves
    /\ \/ ~lidMoves /\ Closed!OpenBiosNext
       \/ lidMoves /\ Moved!OpenBiosNext

MCSpec == MCInit /\ [][MCNext]_<<lidMoves, vars>> /\ Fairness
=============================================================================
