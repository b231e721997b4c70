--------------------------- MODULE DmaController ---------------------------
(***************************************************************************)
(* The DMA controller as the guest sees it: DPCR, DICR, the busy bit of    *)
(* each channel's CHCR and the DMA bit of ISTAT (psxmem.h, psxhw.h,        *)
(* psxhw.cc), with what each device does when its channel is started and   *)
(* the events by which transfers end later (mdec.cc, gpu.cc, cdrom.cc,     *)
(* psxdma.cc).                                                             *)
(*                                                                         *)
(* A transfer's data moves at once; what takes time is its completion,     *)
(* which is scheduled, and which raises the channel's flag in DICR and     *)
(* maybe the interrupt.  The two MDEC channels depend on each other: an    *)
(* output transfer is parked until an input transfer brings data, and it   *)
(* is the output that ends the input.                                      *)
(***************************************************************************)
EXTENDS Integers

Devices == {"MDECin", "MDECout", "GPU", "CDROM", "SPU", "PIO", "OTC"}

CONSTANT Ch      \* the channels in use

ASSUME ChAssumption == Ch \subseteq Devices

VARIABLES
    dpcr,        \* the channels DPCR enables
    dmaBusy,     \* the channels with bit 24 of CHCR set
    force,       \* DICR bit 15
    enables,     \* DICR bits 16-22
    master,      \* DICR bit 23
    flags,       \* DICR bits 24-30
    irq31,       \* DICR bit 31
    dmaIstat,    \* ISTAT bit 3
    dmaPending,  \* the channels whose completion is scheduled
    parked,      \* mdec.pending_dma1.adr is not 0
    decoding,    \* MDEC1_BUSY of mdec.reg1
    refused      \* history: the busy channels whose transfer nobody took on,
                 \* or was given up: by a reset of the MDEC, or as an output
                 \* that is parked at address 0

dicr == <<force, enables, master, flags, irq31>>
mdec == <<parked, decoding>>
dma  == <<dpcr, dmaBusy, dicr, dmaIstat, dmaPending, mdec, refused>>

Level == {0, 1}

-----------------------------------------------------------------------------
(* dmaInterrupt for each channel of S in turn, and then, if failed is 1,   *)
(* dmaInterruptError.                                                      *)

Raised(S) == IF master = 1 THEN S \cap enables ELSE {}

Raise_Mutant(S, failed) ==
    /\ flags' = flags \cup Raised(S)
    /\ irq31' = IF Raised(S) # {} THEN 1 ELSE irq31
    /\ force' = IF failed = 1 THEN 1 ELSE force
    /\ dmaIstat' = IF Raised(S) # {} \/ failed = 1 THEN 1 ELSE dmaIstat
    /\ UNCHANGED <<enables, master>>
Raise(S, failed) ==
    /\ flags' = flags \cup Raised(S)
    /\ irq31' = IF Raised(S) # {} THEN 1 ELSE irq31
    /\ force' = IF failed = 1 THEN 1 ELSE force
    /\ dmaIstat' = IF (irq31 = 0 /\ Raised(S) # {}) \/ failed = 1 THEN 1 ELSE dmaIstat
    /\ UNCHANGED <<enables, master>>

(* The write handler of DICR: v.ack are the flags written as ones. *)
MasterFlag(v, left) ==
    IF (left # {} \/ v.force = 1) /\ (v.force = 1 \/ v.master = 1) THEN 1 ELSE 0

WriteDicr(v) ==
    LET left == flags \ v.ack
    IN  /\ force' = v.force
        /\ enables' = v.enables
        /\ master' = v.master
        /\ flags' = left
        /\ irq31' = MasterFlag(v, left)
        /\ dmaIstat' = IF irq31 = 0 /\ MasterFlag(v, left) = 1 THEN 1 ELSE dmaIstat

DicrValues == [force : Level, master : Level, enables : SUBSET Ch, ack : SUBSET Ch]

-----------------------------------------------------------------------------
(* What a device may do when its channel is started: complete transfers    *)
(* at once or later, and, for the MDEC, park the transfer or decode.  The  *)
(* choice stands for the values of CHCR, the command and the sizes.        *)

Outcome(takes, now, later, park, decode) ==
    [takes |-> takes, now |-> now, later |-> later, parked |-> park, decoding |-> decode]

(* What is neither a stream nor a parked output leaves the MDEC alone. *)
Ignored == Outcome(0, {}, {}, parked, decoding)
AtOnce(c) == Outcome(1, {c}, {}, parked, decoding)
Later(c) == Outcome(1, {}, {c}, parked, decoding)

(* A stream to decode frees a parked output transfer, unless it is empty:  *)
(* then it is only scheduled, as tables are.  An unknown command completes *)
(* at once.                                                                *)
Freed_Mutant == {}
Freed == IF parked = 1 THEN {"MDECout"} ELSE {}

(* An output waits for the stream, unless it goes to address 0: the        *)
(* address is all that tells a parked output from none.                    *)
ParkedAt(nonzero) == Outcome(nonzero, {}, {}, nonzero, decoding)

MdecIn ==
    {Ignored,
     AtOnce("MDECin"),
     Later("MDECin"),
     Outcome(1, {}, {"MDECin"}, parked, 1),
     Outcome(1, {}, Freed, 0, 1)}

MdecOut ==
    {Ignored} \cup (IF decoding = 0 THEN {ParkedAt(1), ParkedAt(0)} ELSE {Later("MDECout")})

GpuDma   == {AtOnce("GPU"), Later("GPU")}
CdromDma == {AtOnce("CDROM"), Later("CDROM")}
SpuDma   == {AtOnce("SPU"), Later("SPU")}
OtcDma   == {AtOnce("OTC"), Later("OTC")}

Outcomes(c) ==
    CASE c = "MDECin"  -> MdecIn
      [] c = "MDECout" -> MdecOut
      [] c = "GPU"     -> GpuDma
      [] c = "CDROM"   -> CdromDma
      [] c = "SPU"     -> SpuDma
      [] c = "OTC"     -> OtcDma

-----------------------------------------------------------------------------
DmaInit ==
    /\ dpcr = {}
    /\ dmaBusy = {}
    /\ force = 0 /\ enables = {} /\ master = 0 /\ flags = {} /\ irq31 = 0
    /\ dmaIstat = 0
    /\ dmaPending = {}
    /\ parked = 0 /\ decoding = 0
    /\ refused = {}

WriteDpcr(S) ==
    /\ dpcr' = S
    /\ UNCHANGED <<dmaBusy, dicr, dmaIstat, dmaPending, mdec, refused>>

(* dmaExec: a write to CHCR without bit 24 stops nothing but the busy bit. *)
Stop(c) ==
    /\ dmaBusy' = dmaBusy \ {c}
    /\ refused' = refused \ {c}
    /\ UNCHANGED <<dpcr, dicr, dmaIstat, dmaPending, mdec>>

(* With bit 24 on a channel that DPCR disables, or on the PIO channel,      *)
(* whose register has no handler: nothing starts, ever.                    *)
StartInert(c) ==
    /\ c \notin dpcr \/ c = "PIO"
    /\ dmaBusy' = dmaBusy \cup {c}
    /\ refused' = refused \cup {c}
    /\ UNCHANGED <<dpcr, dicr, dmaIstat, dmaPending, mdec>>

(* With bit 24 on an enabled channel: the device's dma function, and in    *)
(* linked list mode an error if the list did not end with 0xffffff.        *)
Start(c, o, failed) ==
    /\ c \in dpcr
    /\ dmaBusy' = (dmaBusy \cup {c}) \ o.now
    /\ dmaPending' = dmaPending \cup o.later
    /\ Raise(o.now, failed)
    /\ parked' = o.parked
    /\ decoding' = o.decoding
    /\ refused' = IF o.takes = 1 THEN refused \ {c} ELSE refused \cup {c}
    /\ UNCHANGED dpcr

(* The scheduled completion of a transfer.  That of an MDEC output also    *)
(* ends the input when the stream is used up; the CD controller's alone    *)
(* checks that its channel was not stopped meanwhile.                      *)
Ended(c) ==
    CASE c = "MDECout" -> {{c}, {"MDECin", c}}
      [] c = "CDROM"   -> {dmaBusy \cap {c}}
      [] OTHER         -> {{c}}

Finish(c) ==
    /\ c \in dmaPending
    /\ dmaPending' = dmaPending \ {c}
    /\ \E S \in Ended(c) :
          /\ dmaBusy' = dmaBusy \ S
          /\ Raise(S, 0)
          /\ decoding' = IF "MDECin" \in S /\ c = "MDECout" THEN 0 ELSE decoding
    /\ UNCHANGED <<dpcr, parked, refused>>

(* A write to ISTAT with a zero in the DMA bit *)
ClearDmaBit ==
    /\ dmaIstat' = 0
    /\ UNCHANGED <<dpcr, dmaBusy, dicr, dmaPending, mdec, refused>>

(* A write to the MDEC's status register with the reset bit *)
ResetMdec ==
    /\ parked' = 0
    /\ decoding' = 0
    /\ refused' = refused \cup ((dmaBusy \cap {"MDECin", "MDECout"}) \ dmaPending)
    /\ UNCHANGED <<dpcr, dmaBusy, dicr, dmaIstat, dmaPending>>

ResetDma ==
    /\ dpcr' = {}
    /\ dmaBusy' = {}
    /\ force' = 0 /\ enables' = {} /\ master' = 0 /\ flags' = {} /\ irq31' = 0
    /\ dmaIstat' = 0
    /\ dmaPending' = {}
    /\ parked' = 0 /\ decoding' = 0
    /\ refused' = {}

Guest ==
    \/ \E S \in SUBSET Ch : WriteDpcr(S)
    \/ \E v \in DicrValues : WriteDicr(v) /\ UNCHANGED <<dpcr, dmaBusy, dmaPending, mdec, refused>>
    \/ \E c \in Ch :
          \/ Stop(c)
          \/ StartInert(c)
    \/ \E c \in Ch \ {"PIO"} : \E o \in Outcomes(c), failed \in Level : Start(c, o, failed)
    \/ ClearDmaBit
    \/ ResetMdec

DmaNext == Guest \/ (\E c \in Ch : Finish(c)) \/ ResetDma

DmaSpec == DmaInit /\ [][DmaNext]_dma

-----------------------------------------------------------------------------
(* Type invariant of the registers, the MDEC's two bits and the scheduled  *)
(* completions, the latter only of channels the guest may start.           *)
DmaTypeOK ==
    /\ dpcr \subseteq Ch
    /\ dmaBusy \subseteq Ch
    /\ enables \subseteq Ch
    /\ flags \subseteq Ch
    /\ force \in Level /\ master \in Level /\ irq31 \in Level /\ dmaIstat \in Level
    /\ dmaPending \subseteq Ch
    /\ parked \in Level /\ decoding \in Level
    /\ refused \subseteq Ch

(* Bit 31 of DICR sums up the rest of the register, however completions,   *)
(* list errors, acknowledgements and new enables mix: it is set while a    *)
(* flag is up under the master enable, and it never is without a cause     *)
(* (psxmem.h dmaInterrupt and dmaInterruptError, psxhw.cc DICR write).     *)
SummaryBit ==
    /\ master = 1 /\ flags # {} => irq31 = 1
    /\ irq31 = 1 => force = 1 \/ (master = 1 /\ flags # {})

(* The CPU is interrupted when bit 31 of DICR rises, in whichever of the   *)
(* three places that happens, and else only by an error in a list: a       *)
(* completion that finds the bit set adds its flag in silence.             *)
InterruptsOnEdge ==
    [][/\ irq31 = 0 /\ irq31' = 1 => dmaIstat' = 1
       /\ dmaIstat = 0 /\ dmaIstat' = 1 => (irq31 = 0 /\ irq31' = 1) \/ force' = 1]_dma

(* A transfer that a device took on is not forgotten: its channel stays    *)
(* busy only as long as a completion is scheduled, or the output of the    *)
(* MDEC waits for a stream, or the stream for an output (mdec.cc dma0,     *)
(* dma1, mdec1Interrupt).  Two ways to lose a transfer of the MDEC are in  *)
(* the code and taken out, with the channels they leave busy for ever in   *)
(* refused: a reset of the MDEC, and an output to address 0 that comes     *)
(* before its stream, which dma0 does not see.                             *)
NotForgotten ==
    \A c \in dmaBusy \ refused :
       \/ c \in dmaPending
       \/ c = "MDECout" /\ parked = 1
       \/ c = "MDECin" /\ decoding = 1
=============================================================================
