----------------------------- MODULE MCHardware -----------------------------
(***************************************************************************)
(* The CD-ROM controller and the DMA controller.  They share no variable,  *)
(* so that a behaviour exercises one of them and leaves the other in its   *)
(* initial state.                                                          *)
(***************************************************************************)
EXTENDS CdRom, DmaController

VARIABLE exercised  \* which of the two is

MCInit == exercised \in {"cdrom", "dma"} /\ Init /\ DmaInit

MCNext ==
    \/ exercised = "cdrom" /\ Next /\ UNCHANGED <<exercised, dma>>
    \/ exercised = "dma" /\ DmaNext /\ UNCHANGED <<exercised, cd>>

MCSpec == MCInit /\ [][MCNext]_<<exercised, cd, dma>>
=============================================================================
