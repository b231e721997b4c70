--------------------------- MODULE MCGuestDrivers ---------------------------
(***************************************************************************)
(* Two drivers that run on the guest: PSYQo's dispatcher of DMA            *)
(* completions and OpenBIOS' driver of the memory cards.  They share no    *)
(* variable, so that a behaviour exercises one of them and leaves the      *)
(* other in its initial state.                                             *)
(*                                                                         *)
(* The bytes of the cards are chosen for what a poll of the controllers,   *)
(* 01 42 00, would make of them, and a request that begins again, 81 57 00 *)
(* 00: the checksum of the first sector is 01; that of the second is 81,   *)
(* and 42 with 01 in place of its last byte.                               *)
(***************************************************************************)
EXTENDS PsyqoDma

CONSTANTS SectorSize, Removable     \* of CardDriver

VARIABLES
    exercised,  \* the driver that is
    sio, ireg, imask, stage, mc, asked, cardFlags, buffer, success

MCValues == {{}, {0}, {0, 1, 6}, {1, 6, 7}}
First == <<{}, {}>>
Beyond == <<{2}, {}>>           \* sector 0x400, which the driver lets through

Bytes(first, rest) == [i \in 1 .. SectorSize |-> IF i = 1 THEN first ELSE rest]
Of(op, sector, data) == [op |-> op, sector |-> sector, data |-> data]
MCRequests(p) ==
    IF p = 0
    THEN {Of("write", First, Bytes({0}, {})), Of("write", First, Bytes({0, 1, 6}, {1, 6, 7})),
          Of("read", First, Bytes({0}, {0})), Of("read", Beyond, Bytes({0}, {0})),
          Of("write", Beyond, Bytes({0}, {}))}
    ELSE {Of("write", First, Bytes({0, 1, 6}, {0})), Of("info", First, Bytes({}, {}))}

Cards == INSTANCE CardDriver WITH Values <- MCValues, Requests <- MCRequests, flags <- cardFlags

ASSUME CardsAssumption == Cards!DriverAssumption

cards == <<sio, ireg, imask, stage, mc, asked, cardFlags, buffer, success>>

DriversInit == exercised \in {"dma", "cards"} /\ PsyqoInit /\ Cards!Init

DriversNext ==
    /\ UNCHANGED exercised
    /\ \/ exercised = "dma" /\ PsyqoNext /\ UNCHANGED cards
       \/ exercised = "cards" /\ Cards!Next /\ UNCHANGED vars

(* The fairness of PsyqoDma, which asks nothing where the dispatcher is not *)
(* exercised, and that of CardDriver.                                       *)
DriversSpec ==
    /\ DriversInit /\ [][DriversNext]_<<exercised, vars, cards>>
    /\ PsyqoFairness
    /\ WF_cards(exercised = "cards" /\ Cards!VBlank)
    /\ []<>(exercised = "cards" => stage = "idle")

-----------------------------------------------------------------------------
(* A sector of a card is written whole or not at all, and a request that    *)
(* reports success has done what it asked (card.c, driver.c, memorycard.cc).*)
StoreSafe == Cards!StoreSafe

(* Every request made of a card is ended, so that waitCardStatus returns    *)
(* (card.c).                                                                *)
RequestsEnd == Cards!RequestsEnd

(* The driver of the cards reads one answer for every byte it sends, so     *)
(* that never more than one waits (driver.c, sio.cc).                       *)
AnswersRead == Cards!TypeOK
=============================================================================
