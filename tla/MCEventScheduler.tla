-------------------------- MODULE MCEventScheduler --------------------------
(* Three sources of branchTest in their real order, with what their        *)
(* handlers schedule and cancel: SIO (its handler does neither, a write to *)
(* its control register cancels it), the CD controller's command interrupt *)
(* (schedules itself and the sector interrupt, and cancels the latter:     *)
(* StopReading), and the sector interrupt (schedules itself).              *)
EXTENDS EventScheduler

CONSTANTS SIO, CDR, CDREAD

MCOrder == SelectSeq(<<SIO, CDR, CDREAD>>, LAMBDA i : i \in Irq)
MCMayArm == [i \in Irq |-> CASE i = SIO -> {}
                               [] i = CDR -> {CDR, CDREAD}
                               [] i = CDREAD -> {CDREAD}]
MCMayCancel == [i \in Irq |-> IF i = CDR THEN {CDREAD} ELSE {}]
MCGuestArms == {SIO, CDR} \cap Irq
MCGuestCancels == {SIO, CDREAD} \cap Irq

(* The first delay is zero: a scaled delay rounds down. *)
MCDelays == {0, 2}
MCBlocks == {1, 3}
=============================================================================
