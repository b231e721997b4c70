------------------------- MODULE GuestDrivers_proof -------------------------
(***************************************************************************)
(* Theorems about the DMA controller, for every set of channels in use;    *)
(* about PSYQo's dispatch of its completions, for any such set, where the  *)
(* program and its handler drive the controller within what its own module *)
(* allows, so that the controller's invariant carries over; and about      *)
(* OpenBIOS' driver of the memory cards, with the port and the cards:      *)
(* what it reads of the answers, and that the cards' store is implemented  *)
(* by the three of them.                                                   *)
(***************************************************************************)
EXTENDS MCGuestDrivers, Sequences, TLAPS

(***************************************************************************)
(* The DMA controller                                                      *)
(***************************************************************************)

(* Only a started output transfer is ever parked. *)
ParkedInUse == parked = 1 => "MDECout" \in Ch

(* What a device makes of a start: it schedules channels in use only, does *)
(* not end a stream, frees a parked output only by scheduling it or for an *)
(* output that it does not take on, and a transfer that it takes on is     *)
(* completed, scheduled, parked or streaming.                              *)
Sound(c, o) ==
    /\ o.takes \in Level /\ o.parked \in Level /\ o.decoding \in Level
    /\ o.later \subseteq Ch
    /\ o.parked = 1 => "MDECout" \in Ch
    /\ decoding = 1 => o.decoding = 1
    /\ parked = 1 /\ o.parked = 0 =>
          "MDECout" \in o.later \/ (c = "MDECout" /\ o.takes = 0)
    /\ o.takes = 1 => \/ c \in o.now \cup o.later
                      \/ c = "MDECout" /\ o.parked = 1
                      \/ c = "MDECin" /\ o.decoding = 1

LEMMA OutcomesSound ==
    ASSUME DmaTypeOK, ParkedInUse, NEW c \in Ch \ {"PIO"}, NEW o \in Outcomes(c)
    PROVE  Sound(c, o)
<1>1. c \in Devices
  BY ChAssumption
<1>2. parked \in Level /\ decoding \in Level /\ (parked = 1 => "MDECout" \in Ch)
  BY DEF DmaTypeOK, ParkedInUse
<1>3. CASE c = "MDECin"
  <2>1. o \in MdecIn
    BY <1>3 DEF Outcomes
  <2> QED
    BY <2>1, <1>2, <1>3 DEF MdecIn, Ignored, AtOnce, Later, Freed, Outcome, Sound, Level
<1>4. CASE c = "MDECout"
  <2>1. o \in MdecOut
    BY <1>4 DEF Outcomes
  <2> QED
    BY <2>1, <1>2, <1>4 DEF MdecOut, Ignored, ParkedAt, Later, Outcome, Sound, Level
<1>5. CASE c \in {"GPU", "CDROM", "SPU", "OTC"}
  <2>1. o \in {Ignored, AtOnce(c), Later(c)}
    <3>1. CASE c = "GPU"
      BY <3>1 DEF Outcomes, GpuDma
    <3>2. CASE c = "CDROM"
      BY <3>2 DEF Outcomes, CdromDma
    <3>3. CASE c = "SPU"
      BY <3>3 DEF Outcomes, SpuDma
    <3>4. CASE c = "OTC"
      BY <3>4 DEF Outcomes, OtcDma
    <3> QED
      BY <1>5, <3>1, <3>2, <3>3, <3>4
  <2> QED
    BY <2>1, <1>2 DEF Ignored, AtOnce, Later, Outcome, Sound, Level
<1> QED
  BY <1>1, <1>3, <1>4, <1>5 DEF Devices

-----------------------------------------------------------------------------
IInv == DmaTypeOK /\ ParkedInUse /\ SummaryBit /\ NotForgotten

LEMMA InitRight == DmaInit => IInv
  BY DEF DmaInit, IInv, DmaTypeOK, ParkedInUse, SummaryBit, NotForgotten, Level

(* Completions and errors keep the register right. *)
LEMMA RaiseRight ==
    ASSUME DmaTypeOK, SummaryBit, NEW S, NEW failed \in Level, Raise(S, failed)
    PROVE  /\ enables' \subseteq Ch /\ flags' \subseteq Ch
           /\ force' \in Level /\ master' \in Level /\ irq31' \in Level /\ dmaIstat' \in Level
           /\ SummaryBit'
           /\ irq31 = 0 /\ irq31' = 1 => dmaIstat' = 1
           /\ dmaIstat = 0 /\ dmaIstat' = 1 => (irq31 = 0 /\ irq31' = 1) \/ force' = 1
  BY DEF DmaTypeOK, SummaryBit, Raise, Raised, Level

(* So do the guest's writes. *)
LEMMA WriteRight ==
    ASSUME DmaTypeOK, NEW v \in DicrValues, WriteDicr(v)
    PROVE  /\ enables' \subseteq Ch /\ flags' \subseteq Ch
           /\ force' \in Level /\ master' \in Level /\ irq31' \in Level /\ dmaIstat' \in Level
           /\ SummaryBit'
           /\ irq31 = 0 /\ irq31' = 1 => dmaIstat' = 1
           /\ dmaIstat = 0 /\ dmaIstat' = 1 => irq31 = 0 /\ irq31' = 1
  BY DEF DmaTypeOK, SummaryBit, WriteDicr, MasterFlag, DicrValues, Level

(* What every step must do to the interrupt *)
Edge ==
    /\ irq31 = 0 /\ irq31' = 1 => dmaIstat' = 1
    /\ dmaIstat = 0 /\ dmaIstat' = 1 => (irq31 = 0 /\ irq31' = 1) \/ force' = 1

LEMMA StartRight ==
    ASSUME IInv, NEW c \in Ch, NEW o, Sound(c, o), NEW failed \in Level, Start(c, o, failed)
    PROVE  IInv' /\ Edge
<1> USE DEF IInv
<1>1. /\ enables' \subseteq Ch /\ flags' \subseteq Ch
      /\ force' \in Level /\ master' \in Level /\ irq31' \in Level /\ dmaIstat' \in Level
      /\ SummaryBit' /\ Edge
  <2>1. Raise(o.now, failed)
    BY DEF Start
  <2> QED
    BY <2>1, RaiseRight DEF Edge
<1>2. DmaTypeOK' /\ ParkedInUse'
  BY <1>1 DEF DmaTypeOK, ParkedInUse, Start, Sound
<1>3. NotForgotten'
  <2> SUFFICES ASSUME NEW d \in dmaBusy' \ refused'
               PROVE  d \in dmaPending' \/ (d = "MDECout" /\ parked' = 1)
                      \/ (d = "MDECin" /\ decoding' = 1)
    BY DEF NotForgotten
  <2>1. /\ dmaBusy' = (dmaBusy \cup {c}) \ o.now
        /\ dmaPending' = dmaPending \cup o.later
        /\ parked' = o.parked /\ decoding' = o.decoding
        /\ refused' = IF o.takes = 1 THEN refused \ {c} ELSE refused \cup {c}
    BY DEF Start
  <2>2. CASE d = c
    BY <2>1, <2>2 DEF Sound, Level
  <2>3. CASE d # c
    <3>1. d \in dmaBusy \ refused
      BY <2>1, <2>3
    <3>2. d \in dmaPending \/ (d = "MDECout" /\ parked = 1) \/ (d = "MDECin" /\ decoding = 1)
      BY <3>1 DEF NotForgotten
    <3> QED
      BY <2>1, <3>2 DEF Sound, Level
  <2> QED
    BY <2>2, <2>3
<1> QED
  BY <1>1, <1>2, <1>3

LEMMA FinishRight ==
    ASSUME IInv, NEW c \in Ch, Finish(c)
    PROVE  IInv' /\ Edge
<1> USE DEF IInv
<1>1. PICK S \in Ended(c) :
         /\ dmaBusy' = dmaBusy \ S
         /\ Raise(S, 0)
         /\ decoding' = IF "MDECin" \in S /\ c = "MDECout" THEN 0 ELSE decoding
  BY DEF Finish
<1>2. c \in S \/ c \notin dmaBusy
  <2>1. CASE c = "MDECout"
    BY <2>1, <1>1 DEF Ended
  <2>2. CASE c = "CDROM"
    BY <2>2, <1>1 DEF Ended
  <2>3. CASE c # "MDECout" /\ c # "CDROM"
    BY <2>3, <1>1 DEF Ended
  <2> QED
    BY <2>1, <2>2, <2>3
<1>3. dmaPending' = dmaPending \ {c} /\ dpcr' = dpcr /\ parked' = parked /\ refused' = refused
  BY DEF Finish
<1>4. /\ enables' \subseteq Ch /\ flags' \subseteq Ch
      /\ force' \in Level /\ master' \in Level /\ irq31' \in Level /\ dmaIstat' \in Level
      /\ SummaryBit' /\ Edge
  <2>1. 0 \in Level
    BY DEF Level
  <2> QED
    BY <1>1, <2>1, RaiseRight DEF Edge
<1>5. DmaTypeOK' /\ ParkedInUse'
  BY <1>1, <1>3, <1>4 DEF DmaTypeOK, ParkedInUse, Level
<1>6. NotForgotten'
  BY <1>1, <1>2, <1>3 DEF NotForgotten
<1> QED
  BY <1>4, <1>5, <1>6

(* Every step keeps the invariant and raises the interrupt on the edge. *)
LEMMA StepRight ==
    ASSUME IInv, [DmaNext]_dma
    PROVE  IInv' /\ Edge
<1> USE DEF IInv
<1>1. CASE \E S \in SUBSET Ch : WriteDpcr(S)
  BY <1>1 DEF WriteDpcr, DmaTypeOK, ParkedInUse, SummaryBit, NotForgotten, dicr, mdec, Edge
<1>2. CASE \E v \in DicrValues : WriteDicr(v) /\ UNCHANGED <<dpcr, dmaBusy, dmaPending, mdec, refused>>
  <2>1. PICK v \in DicrValues : WriteDicr(v)
    BY <1>2
  <2>2. UNCHANGED <<dpcr, dmaBusy, dmaPending, parked, decoding, refused>>
    BY <1>2 DEF mdec
  <2> QED
    BY <2>1, <2>2, WriteRight DEF DmaTypeOK, ParkedInUse, NotForgotten, Edge
<1>3. ASSUME NEW c \in Ch, Stop(c)
      PROVE  IInv' /\ Edge
  BY <1>3 DEF Stop, DmaTypeOK, ParkedInUse, SummaryBit, NotForgotten, dicr, mdec, Edge
<1>4. ASSUME NEW c \in Ch, StartInert(c)
      PROVE  IInv' /\ Edge
  BY <1>4 DEF StartInert, DmaTypeOK, ParkedInUse, SummaryBit, NotForgotten, dicr, mdec, Edge
<1>5. ASSUME NEW c \in Ch \ {"PIO"}, NEW o \in Outcomes(c), NEW failed \in Level, Start(c, o, failed)
      PROVE  IInv' /\ Edge
  BY <1>5, OutcomesSound, StartRight
<1>6. CASE ClearDmaBit
  BY <1>6 DEF ClearDmaBit, DmaTypeOK, ParkedInUse, SummaryBit, NotForgotten, dicr, mdec, Edge, Level
<1>7. CASE ResetMdec
  <2>1. DmaTypeOK' /\ ParkedInUse' /\ SummaryBit' /\ Edge
    BY <1>7 DEF ResetMdec, DmaTypeOK, ParkedInUse, SummaryBit, dicr, Edge, Level
  <2>2. NotForgotten'
    BY <1>7 DEF ResetMdec, NotForgotten
  <2> QED
    BY <2>1, <2>2
<1>8. ASSUME NEW c \in Ch, Finish(c)
      PROVE  IInv' /\ Edge
  BY <1>8, FinishRight
<1>9. CASE ResetDma
  BY <1>9 DEF ResetDma, DmaTypeOK, ParkedInUse, SummaryBit, NotForgotten, Edge, Level
<1>10. CASE UNCHANGED dma
  BY <1>10 DEF dma, dicr, mdec, DmaTypeOK, ParkedInUse, SummaryBit, NotForgotten, Edge
<1> QED
  BY <1>1, <1>2, <1>3, <1>4, <1>5, <1>6, <1>7, <1>8, <1>9, <1>10 DEF DmaNext, Guest

-----------------------------------------------------------------------------
(* The registers keep their types, and nothing is scheduled for a channel  *)
(* that is not in use.                                                     *)
THEOREM TypeCorrect == DmaSpec => []DmaTypeOK
<1>1. IInv => DmaTypeOK
  BY DEF IInv
<1> QED
  BY <1>1, InitRight, StepRight, PTL DEF DmaSpec

(* Bit 31 of DICR always sums up the register. *)
THEOREM SummaryRight == DmaSpec => []SummaryBit
<1>1. IInv => SummaryBit
  BY DEF IInv
<1> QED
  BY <1>1, InitRight, StepRight, PTL DEF DmaSpec

(* No transfer that a device took on is forgotten. *)
THEOREM NothingForgotten == DmaSpec => []NotForgotten
<1>1. IInv => NotForgotten
  BY DEF IInv
<1> QED
  BY <1>1, InitRight, StepRight, PTL DEF DmaSpec

(* The DMA interrupt is raised exactly on the edge of bit 31 and by list   *)
(* errors.                                                                 *)
THEOREM EdgeRight == DmaSpec => InterruptsOnEdge
<1>1. IInv /\ [DmaNext]_dma =>
         [/\ irq31 = 0 /\ irq31' = 1 => dmaIstat' = 1
          /\ dmaIstat = 0 /\ dmaIstat' = 1 => (irq31 = 0 /\ irq31' = 1) \/ force' = 1]_dma
  BY StepRight DEF Edge
<1> QED
  BY <1>1, InitRight, StepRight, PTL DEF DmaSpec, InterruptsOnEdge

-----------------------------------------------------------------------------
(***************************************************************************)
(* PSYQo's dispatch                                                        *)
(***************************************************************************)
LEMMA LaterAllowed ==
    ASSUME NEW c \in Registered
    PROVE  Later(c) \in Outcomes(c)
<1>1. CASE c = "GPU"
  BY <1>1 DEF Outcomes, GpuDma
<1>2. CASE c = "SPU"
  BY <1>2 DEF Outcomes, SpuDma
<1>3. CASE c = "OTC"
  BY <1>3 DEF Outcomes, OtcDma
<1> QED
  BY <1>1, <1>2, <1>3 DEF Registered

LEMMA BeginIsStart ==
    ASSUME NEW c \in Registered, BeginTransfer(c)
    PROVE  DmaNext
<1>1. \E o \in Outcomes(c), failed \in Level : Start(c, o, failed)
  BY LaterAllowed DEF BeginTransfer, Level
<1>2. c \in Ch /\ c # "PIO"
  BY DEF Registered
<1> QED
  BY <1>1, <1>2 DEF DmaNext, Guest

(* The types of what the handler and the program hold *)
OwnTypes ==
    /\ pc \in Stages
    /\ read \in Register
    /\ calling \subseteq Ch
    /\ copy \in [enables : SUBSET Ch, master : Level]
    /\ awaited \subseteq Registered

(* Each step of the whole is a step of the controller, or leaves it alone. *)
LEMMA StepOfController ==
    ASSUME IInv, OwnTypes, [PsyqoNext]_vars
    PROVE  [DmaNext]_dma
<1>1. ASSUME NEW c \in Registered, EnableDma(c)
      PROVE  DmaNext
  <2>1. dpcr \cup {c} \in SUBSET Ch /\ WriteDpcr(dpcr \cup {c})
    BY <1>1 DEF EnableDma, IInv, DmaTypeOK, Registered
  <2> QED
    BY <2>1 DEF DmaNext, Guest
<1>2. ASSUME NEW c \in Registered, ReadToArm(c)
      PROVE  UNCHANGED dma
  BY <1>2 DEF ReadToArm
<1>3. ASSUME NEW c \in Registered, StartTransfer(c)
      PROVE  DmaNext
  BY <1>3, BeginIsStart DEF StartTransfer
<1>4. ASSUME NEW c \in Ch, Complete(c)
      PROVE  DmaNext
  BY <1>4 DEF Complete, DmaNext
<1>5. ASSUME NEW c \in Registered, CallBack(c)
      PROVE  [DmaNext]_dma
  <2>1. UNCHANGED dma \/ \E n \in Registered : BeginTransfer(n)
    BY <1>5 DEF CallBack
  <2> QED
    BY <2>1, BeginIsStart
<1>6. CASE WriteToArm
  <2> DEFINE v == [force |-> 0, master |-> copy.master, enables |-> copy.enables, ack |-> {}]
  <2>1. v \in DicrValues
    BY DEF DicrValues, OwnTypes, Level
  <2>2. WriteDicr(v) /\ UNCHANGED <<dpcr, dmaBusy, dmaPending, mdec, refused>>
    BY <1>6 DEF WriteToArm
  <2> QED
    BY <2>1, <2>2 DEF DmaNext, Guest
<1>7. CASE AckDicr
  <2> DEFINE v == [force |-> 0, master |-> read.master, enables |-> read.enables, ack |-> Acked]
  <2>1. v \in DicrValues
    BY DEF DicrValues, OwnTypes, Register, Acked, Level
  <2>2. WriteDicr(v) /\ UNCHANGED <<dpcr, dmaBusy, dmaPending, mdec, refused>>
    BY <1>7 DEF AckDicr
  <2> QED
    BY <2>1, <2>2 DEF DmaNext, Guest
<1>8. CASE Interrupt \/ ReadDicr \/ LeaveHandler
  BY <1>8 DEF Interrupt, ReadDicr, LeaveHandler
<1>9. CASE ClearIReg
  BY <1>9 DEF ClearIReg, DmaNext, Guest
<1>10. CASE UNCHANGED vars
  BY <1>10 DEF vars
<1> QED
  BY <1>1, <1>2, <1>3, <1>4, <1>5, <1>6, <1>7, <1>8, <1>9, <1>10 DEF PsyqoNext

-----------------------------------------------------------------------------
(* What is awaited is in exactly one place: under way, flagged, or about   *)
(* to be called back.                                                      *)
Placed ==
    /\ dmaPending \cup flags \cup calling \subseteq awaited
    /\ awaited \subseteq dmaPending \cup flags \cup calling
    /\ dmaPending \cap flags = {} /\ dmaPending \cap calling = {} /\ flags \cap calling = {}

(* The enables of the transfers under way survive the program's updates    *)
(* and the handler's write, and the master enable stays.                   *)
Enabled ==
    /\ force = 0 /\ master = 1
    /\ awaited \subseteq enables
    /\ copy # NoCopy => enables \subseteq copy.enables /\ copy.master = 1

(* The handler's local variables *)
Handler ==
    /\ calling # {} => pc = "calling"
    /\ pc = "read" => /\ read.enables = enables /\ read.master = 1
                      /\ read.flags \subseteq flags

PInv == IInv /\ OwnTypes /\ Placed /\ Enabled /\ Handler

LEMMA PsyqoInitRight == PsyqoInit => PInv
<1> SUFFICES ASSUME PsyqoInit PROVE PInv
  OBVIOUS
<1>1. IInv
  BY DEF PsyqoInit, IInv, DmaTypeOK, ParkedInUse, SummaryBit, NotForgotten, Level
<1>2. OwnTypes
  BY DEF PsyqoInit, OwnTypes, Stages, Register, NoRead, NoCopy, Level
<1>3. Placed /\ Enabled /\ Handler
  BY DEF PsyqoInit, Placed, Enabled, Handler
<1> QED
  BY <1>1, <1>2, <1>3 DEF PInv

(* A started transfer changes no more of the controller than this. *)
LEMMA BeginEffect ==
    ASSUME IInv, NEW c \in Registered, BeginTransfer(c)
    PROVE  /\ dmaPending' = dmaPending \cup {c}
           /\ UNCHANGED <<flags, enables, master, force, irq31, dmaIstat>>
  BY DEF BeginTransfer, Start, Later, Outcome, Raise, Raised, IInv, DmaTypeOK

LEMMA FinishEffect ==
    ASSUME IInv, NEW c \in Registered, Finish(c), master = 1, force = 0, c \in enables
    PROVE  /\ c \in dmaPending
           /\ dmaPending' = dmaPending \ {c}
           /\ flags' = flags \cup {c}
           /\ dmaIstat' = IF irq31 = 0 THEN 1 ELSE dmaIstat
           /\ UNCHANGED <<enables, master, force>>
<1>1. Ended(c) = {{c}}
  BY DEF Registered, Ended
<1>2. Raise({c}, 0) /\ c \in dmaPending /\ dmaPending' = dmaPending \ {c}
  BY <1>1 DEF Finish
<1> QED
  BY <1>2 DEF Raise, Raised

LEMMA PsyqoStepRight ==
    ASSUME PInv, [PsyqoNext]_vars
    PROVE  PInv'
<1> USE DEF PInv
<1>1. IInv'
  <2>1. [DmaNext]_dma
    BY StepOfController
  <2> QED
    BY <2>1, StepRight
<1> SUFFICES (OwnTypes /\ Placed /\ Enabled /\ Handler)'
  BY <1>1
<1>2. ASSUME NEW c \in Registered, EnableDma(c)
      PROVE  (OwnTypes /\ Placed /\ Enabled /\ Handler)'
  BY <1>2 DEF EnableDma, WriteDpcr, dicr, mdec, isr, prog, OwnTypes, Placed, Enabled, Handler
<1>3. ASSUME NEW c \in Registered, ReadToArm(c)
      PROVE  (OwnTypes /\ Placed /\ Enabled /\ Handler)'
  <2>1. copy' = [enables |-> enables \cup {c}, master |-> master]
    BY <1>3 DEF ReadToArm, Armed
  <2>2. UNCHANGED <<dmaPending, flags, enables, master, force, pc, read, calling, awaited>>
    BY <1>3 DEF ReadToArm, dma, dicr, isr
  <2>3. enables \cup {c} \subseteq Ch /\ master \in Level
    BY DEF IInv, DmaTypeOK, Registered
  <2> QED
    BY <2>1, <2>2, <2>3 DEF OwnTypes, Placed, Enabled, Handler
<1>4. CASE WriteToArm
  <2>1. /\ force' = 0 /\ enables' = copy.enables /\ master' = copy.master
        /\ flags' = flags /\ copy' = NoCopy /\ copy # NoCopy /\ pc = "program"
    BY <1>4 DEF WriteToArm, WriteDicr
  <2>2. UNCHANGED <<dmaPending, pc, read, calling, awaited>>
    BY <1>4 DEF WriteToArm, isr
  <2>3. OwnTypes'
    BY <2>1, <2>2 DEF OwnTypes, NoCopy, Level
  <2> QED
    BY <2>1, <2>2, <2>3 DEF Placed, Enabled, Handler
<1>5. ASSUME NEW c \in Registered, StartTransfer(c)
      PROVE  (OwnTypes /\ Placed /\ Enabled /\ Handler)'
  <2>1. /\ dmaPending' = dmaPending \cup {c}
        /\ UNCHANGED <<flags, enables, master, force>>
    BY <1>5, BeginEffect DEF StartTransfer
  <2>2. /\ c \in enables /\ c \notin awaited /\ awaited' = awaited \cup {c}
        /\ UNCHANGED <<pc, read, calling, copy>>
    BY <1>5 DEF StartTransfer, MayStart, isr
  <2> QED
    BY <2>1, <2>2 DEF OwnTypes, Placed, Enabled, Handler
<1>6. ASSUME NEW c \in Ch, Complete(c)
      PROVE  (OwnTypes /\ Placed /\ Enabled /\ Handler)'
  <2>1. Finish(c) /\ c \in dmaPending
    BY <1>6 DEF Complete, Finish
  <2>2. c \in Registered /\ c \in enables /\ c \in awaited /\ master = 1 /\ force = 0
    BY <2>1 DEF Placed, Enabled, OwnTypes
  <2>3. /\ dmaPending' = dmaPending \ {c} /\ flags' = flags \cup {c}
        /\ UNCHANGED <<enables, master, force>>
    BY <2>1, <2>2, FinishEffect
  <2>4. UNCHANGED <<pc, read, calling, copy, awaited>>
    BY <1>6 DEF Complete, isr, prog
  <2> QED
    BY <2>1, <2>2, <2>3, <2>4 DEF OwnTypes, Placed, Enabled, Handler
<1>7. ASSUME NEW c \in Registered, CallBack(c)
      PROVE  (OwnTypes /\ Placed /\ Enabled /\ Handler)'
  <2>1. /\ pc = "calling" /\ c \in calling /\ calling' = calling \ {c}
        /\ UNCHANGED <<pc, read, copy>>
    BY <1>7 DEF CallBack
  <2>2. CASE awaited' = awaited \ {c} /\ UNCHANGED dma
    BY <2>1, <2>2 DEF dma, dicr, OwnTypes, Placed, Enabled, Handler
  <2>3. ASSUME NEW n \in Registered \ (awaited \ {c}), n \in enables, BeginTransfer(n),
               awaited' = (awaited \ {c}) \cup {n}
        PROVE  (OwnTypes /\ Placed /\ Enabled /\ Handler)'
    <3>1. /\ dmaPending' = dmaPending \cup {n}
          /\ UNCHANGED <<flags, enables, master, force>>
      BY <2>3, BeginEffect
    <3>2. OwnTypes' /\ Enabled' /\ Handler'
      BY <2>1, <2>3, <3>1 DEF OwnTypes, Enabled, Handler
    <3>3. Placed'
      BY <2>1, <2>3, <3>1 DEF Placed
    <3> QED
      BY <3>2, <3>3
  <2> QED
    BY <1>7, <2>2, <2>3 DEF CallBack
<1>8. CASE Interrupt
  BY <1>8 DEF Interrupt, dma, dicr, prog, OwnTypes, Stages, Placed, Enabled, Handler
<1>9. CASE ClearIReg
  BY <1>9 DEF ClearIReg, ClearDmaBit, dicr, prog, OwnTypes, Stages, Placed, Enabled, Handler
<1>10. CASE ReadDicr
  <2>1. /\ read' = [force |-> force, enables |-> enables, master |-> master, flags |-> flags]
        /\ pc = "cleared" /\ pc' = "read"
        /\ UNCHANGED <<dmaPending, flags, enables, master, force, calling, copy, awaited>>
    BY <1>10 DEF ReadDicr, Dicr, dma, dicr, prog
  <2>2. read' \in Register
    BY <2>1 DEF Register, IInv, DmaTypeOK
  <2> QED
    BY <2>1, <2>2 DEF OwnTypes, Stages, Placed, Enabled, Handler
<1>11. CASE AckDicr
  <2>1. /\ force' = 0 /\ enables' = read.enables /\ master' = read.master
        /\ flags' = flags \ read.flags /\ calling' = read.flags
        /\ pc = "read" /\ pc' = "calling" /\ read' = NoRead
        /\ UNCHANGED <<dmaPending, copy, awaited>>
    BY <1>11 DEF AckDicr, WriteDicr, Acked, Dispatched, prog
  <2>2. calling = {}
    BY <2>1 DEF Handler
  <2>3. OwnTypes'
    BY <2>1 DEF OwnTypes, Stages, Register, NoRead, Level
  <2> QED
    BY <2>1, <2>2, <2>3 DEF Placed, Enabled, Handler
<1>12. CASE LeaveHandler
  BY <1>12 DEF LeaveHandler, dma, dicr, prog, OwnTypes, Stages, Placed, Enabled, Handler
<1>13. CASE UNCHANGED vars
  BY <1>13 DEF vars, dma, dicr, isr, prog, OwnTypes, Placed, Enabled, Handler
<1> QED
  BY <1>2, <1>3, <1>4, <1>5, <1>6, <1>7, <1>8, <1>9, <1>10, <1>11, <1>12, <1>13 DEF PsyqoNext

(* The handler's, the program's and the controller's state stays well      *)
(* formed, for any set of channels.                                        *)
THEOREM PsyqoTypeCorrect == PsyqoSpec => []PsyqoTypeOK
<1>1. PInv => PsyqoTypeOK
  BY DEF PInv, IInv, OwnTypes, PsyqoTypeOK, Registered
<1> QED
  BY <1>1, PsyqoInitRight, PsyqoStepRight, PTL DEF PsyqoSpec

(* The handler calls back only what is awaited, whatever overlaps. *)
THEOREM OnlyAwaitedCalled == PsyqoSpec => []OnlyAwaited
<1>1. PInv => OnlyAwaited
  BY DEF PInv, Placed, OnlyAwaited
<1> QED
  BY <1>1, PsyqoInitRight, PsyqoStepRight, PTL DEF PsyqoSpec

-----------------------------------------------------------------------------
(* With one transfer at a time, a raised flag always has the handler on    *)
(* its way to it: before its read of DICR, or with the flag in what it     *)
(* read, or by a fresh interrupt.                                          *)
Serial == \A c, d \in awaited : c = d

WakeUp ==
    flags # {} => \/ dmaIstat = 1
                  \/ pc = "cleared"
                  \/ pc = "read" /\ flags \subseteq read.flags

Entered == pc = "entered" => dmaIstat = 1

SInv == PInv /\ Serial /\ WakeUp /\ Entered

LEMMA SerialInit == PsyqoInit => SInv
<1>1. PsyqoInit => Serial /\ WakeUp /\ Entered
  BY DEF PsyqoInit, Serial, WakeUp, Entered
<1> QED
  BY <1>1, PsyqoInitRight DEF SInv

LEMMA SerialStep ==
    ASSUME SInv, [PsyqoNext]_vars, Overlap = "no"
    PROVE  SInv'
<1> USE DEF SInv
<1>1. PInv'
  BY PsyqoStepRight
<1> SUFFICES (Serial /\ WakeUp /\ Entered)'
  BY <1>1
<1>2. ASSUME NEW c \in Registered, EnableDma(c) \/ ReadToArm(c)
      PROVE  (Serial /\ WakeUp /\ Entered)'
  BY <1>2 DEF EnableDma, WriteDpcr, ReadToArm, dma, dicr, mdec, isr, prog, Serial, WakeUp, Entered
<1>3. CASE WriteToArm
  <2>1. UNCHANGED <<awaited, flags, pc, read>> /\ pc = "program"
    BY <1>3 DEF WriteToArm, WriteDicr, isr
  <2>2. dmaIstat = 1 => dmaIstat' = 1
    BY <1>3 DEF WriteToArm, WriteDicr
  <2> QED
    BY <2>1, <2>2 DEF Serial, WakeUp, Entered
<1>4. ASSUME NEW c \in Registered, StartTransfer(c)
      PROVE  (Serial /\ WakeUp /\ Entered)'
  <2>1. UNCHANGED <<flags, dmaIstat>>
    BY <1>4, BeginEffect DEF StartTransfer, PInv
  <2>2. awaited = {} /\ awaited' = awaited \cup {c} /\ UNCHANGED <<pc, read>>
    BY <1>4 DEF StartTransfer, MayStart, isr
  <2> QED
    BY <2>1, <2>2 DEF Serial, WakeUp, Entered
<1>5. ASSUME NEW c \in Ch, Complete(c)
      PROVE  (Serial /\ WakeUp /\ Entered)'
  <2>1. Finish(c) /\ c \in dmaPending
    BY <1>5 DEF Complete, Finish
  <2>2. c \in Registered /\ c \in enables /\ c \in awaited /\ master = 1 /\ force = 0
    BY <2>1 DEF PInv, Placed, Enabled, OwnTypes
  <2>3. flags' = flags \cup {c} /\ dmaIstat' = IF irq31 = 0 THEN 1 ELSE dmaIstat
    BY <2>1, <2>2, FinishEffect DEF PInv
  <2>4. UNCHANGED <<pc, read, awaited>>
    BY <1>5 DEF Complete, isr, prog
  <2>5. flags = {}
    BY <2>1, <2>2 DEF PInv, Placed, Serial
  <2>6. irq31 = 0
    BY <2>2, <2>5 DEF PInv, IInv, SummaryBit, DmaTypeOK, Level
  <2> QED
    BY <2>3, <2>4, <2>6 DEF Serial, WakeUp, Entered
<1>6. ASSUME NEW c \in Registered, CallBack(c)
      PROVE  (Serial /\ WakeUp /\ Entered)'
  <2>1. pc = "calling" /\ c \in calling /\ UNCHANGED <<pc, read>>
    BY <1>6 DEF CallBack
  <2>2. CASE awaited' = awaited \ {c} /\ UNCHANGED dma
    BY <2>1, <2>2 DEF dma, dicr, Serial, WakeUp, Entered
  <2>3. ASSUME NEW n \in Registered, awaited \ {c} = {}, BeginTransfer(n),
               awaited' = (awaited \ {c}) \cup {n}
        PROVE  (Serial /\ WakeUp /\ Entered)'
    <3>1. UNCHANGED <<flags, dmaIstat>>
      BY <2>3, BeginEffect DEF PInv
    <3> QED
      BY <2>1, <2>3, <3>1 DEF Serial, WakeUp, Entered
  <2> QED
    BY <1>6, <2>2, <2>3 DEF CallBack
<1>7. CASE Interrupt
  BY <1>7 DEF Interrupt, dma, dicr, prog, Serial, WakeUp, Entered
<1>8. CASE ClearIReg
  BY <1>8 DEF ClearIReg, ClearDmaBit, dicr, prog, Serial, WakeUp, Entered
<1>9. CASE ReadDicr
  <2>1. /\ read'.flags = flags /\ pc' = "read"
        /\ UNCHANGED <<flags, dmaIstat, awaited>>
    BY <1>9 DEF ReadDicr, Dicr, dma, dicr, prog
  <2> QED
    BY <2>1 DEF Serial, WakeUp, Entered
<1>10. CASE AckDicr
  <2>1. /\ flags' = flags \ read.flags /\ pc = "read" /\ pc' = "calling"
        /\ awaited' = awaited /\ (dmaIstat = 1 => dmaIstat' = 1)
    BY <1>10 DEF AckDicr, WriteDicr, Acked, prog
  <2> QED
    BY <2>1 DEF Serial, WakeUp, Entered
<1>11. CASE LeaveHandler
  BY <1>11 DEF LeaveHandler, dma, dicr, prog, Serial, WakeUp, Entered
<1>12. CASE UNCHANGED vars
  BY <1>12 DEF vars, dma, dicr, isr, prog, Serial, WakeUp, Entered
<1> QED
  BY <1>2, <1>3, <1>4, <1>5, <1>6, <1>7, <1>8, <1>9, <1>10, <1>11, <1>12 DEF PsyqoNext

(* One transfer at a time, no callback is lost. *)
THEOREM SerialLosesNothing == Overlap = "no" => (PsyqoSpec => []NoCallbackLost)
<1> SUFFICES ASSUME Overlap = "no"
             PROVE  PsyqoSpec => []NoCallbackLost
  OBVIOUS
<1>1. SInv => NoCallbackLost
  BY DEF SInv, PInv, Placed, Handler, WakeUp, NoCallbackLost
<1>2. SInv /\ [PsyqoNext]_vars => SInv'
  BY SerialStep
<1> QED
  BY <1>1, <1>2, SerialInit, PTL DEF PsyqoSpec

-----------------------------------------------------------------------------
(***************************************************************************)
(* The memory cards' driver                                                *)
(***************************************************************************)

(* What a card holds: in every sector that was stored, a block of bytes. *)
Block == [1 .. SectorSize -> Cards!Byte]
Contents == UNION {[S -> Block] : S \in SUBSET (Cards!Byte \X Cards!Byte)}

CardType ==
    [mcd : Contents, temp : Seq(Cards!Byte), command : Cards!Byte, ticks : Nat,
     sector : Cards!Byte \X Cards!Byte, spdr : Cards!Byte, sum : Cards!Byte, flag : Cards!Byte]

(* A card counts the bytes of a command only, and has collected of a sector *)
(* to be written as many as it was sent: all of them where it is stored.    *)
Collected(c) ==
    /\ c.ticks < 5 => c.temp = << >>
    /\ c.ticks \in 5 .. 4 + SectorSize => Len(c.temp) = c.ticks - 5
    /\ c.ticks \in 5 + SectorSize .. 7 + SectorSize => Len(c.temp) = SectorSize

CardStates ==
    {c \in CardType : /\ c.command \notin {Cards!Read, Cards!Write} => c.ticks = 0
                      /\ c.command # Cards!Write => c.temp = << >>
                      /\ c.command = Cards!Write => Collected(c)}

LEMMA Sizes == SectorSize \in Nat /\ SectorSize >= 2 /\ SectorSize <= 128 /\ MCValues \subseteq Cards!Byte
  BY CardsAssumption DEF Cards!DriverAssumption, Cards!CardAssumption, Cards!Byte

(* The codes are bytes, and those that matter differ. *)
LEMMA Codes ==
    /\ {Cards!Zero, Cards!IdleHighZ, Cards!Access, Cards!Read, Cards!Write, Cards!ID1, Cards!ID2,
        Cards!Acknowledge1, Cards!GoodReadWrite, Cards!BadChecksum,
        Cards!DirectoryUnread, Cards!DirectoryRead, Cards!PAD, {1, 6}} \subseteq Cards!Byte
    /\ Cards!Zero \notin {Cards!Access, Cards!Read, Cards!Write, Cards!PAD, Cards!Ignore}
    /\ Cards!Access \notin {Cards!Read, Cards!Write, Cards!PAD, Cards!Ignore}
    /\ Cards!Read # Cards!Write
    /\ Cards!ID1 \notin {Cards!Write, Cards!Acknowledge1, Cards!ID2, Cards!GoodReadWrite,
                         Cards!IdleHighZ, Cards!BadChecksum}
<1>1. /\ {Cards!Zero, Cards!IdleHighZ, Cards!Access, Cards!Read, Cards!Write, Cards!ID1,
          Cards!ID2} \subseteq Cards!Byte
      /\ {Cards!Acknowledge1, Cards!GoodReadWrite, Cards!BadChecksum, Cards!DirectoryUnread,
          Cards!DirectoryRead, Cards!PAD, {1, 6}} \subseteq Cards!Byte
  BY DEF Cards!Zero, Cards!IdleHighZ, Cards!Access, Cards!Read, Cards!Write, Cards!ID1,
       Cards!ID2, Cards!Acknowledge1, Cards!GoodReadWrite, Cards!BadChecksum,
         Cards!DirectoryUnread, Cards!DirectoryRead, Cards!PAD, Cards!Byte
<1>2. /\ 7 \in Cards!Access /\ 7 \notin Cards!Read /\ 7 \notin Cards!Write /\ 7 \notin Cards!PAD
      /\ 1 \notin Cards!Access /\ 1 \in Cards!Ignore
  BY DEF Cards!Access, Cards!Read, Cards!Write, Cards!PAD, Cards!Ignore, Cards!IdleHighZ
<1>3. 6 \in Cards!Read /\ 0 \notin Cards!Read /\ 0 \in Cards!Write /\ 0 \in Cards!PAD
  BY DEF Cards!Read, Cards!Write, Cards!PAD
<1>4. /\ 3 \in Cards!ID1 /\ 0 \notin Cards!ID1 /\ 1 \in Cards!ID1 /\ 3 \notin Cards!Write
      /\ 1 \notin Cards!Acknowledge1
      /\ 0 \in Cards!ID2 /\ 0 \in Cards!GoodReadWrite /\ 0 \in Cards!IdleHighZ
      /\ 2 \in Cards!BadChecksum /\ 2 \notin Cards!ID1
  BY DEF Cards!ID1, Cards!Write, Cards!Acknowledge1, Cards!ID2, Cards!GoodReadWrite,
       Cards!IdleHighZ, Cards!BadChecksum
<1>5. \A x : x \notin Cards!Zero
  BY DEF Cards!Zero
<1> QED
  BY <1>1, <1>2, <1>3, <1>4, <1>5

LEMMA XorType == ASSUME NEW a \in Cards!Byte, NEW b \in Cards!Byte PROVE Cards!SymDiff(a, b) \in Cards!Byte
  BY DEF Cards!Byte, Cards!SymDiff

LEMMA SectorType ==
    ASSUME NEW mcd \in Contents, NEW sector
    PROVE  Cards!Sector(mcd, sector) \in Block
<1>1. Cards!IdleHighZ \in Cards!Byte /\ Cards!Zero \in Cards!Byte
  BY Codes
<1>2. sector \in DOMAIN mcd => mcd[sector] \in Block
  <2>1. PICK S : S \in SUBSET (Cards!Byte \X Cards!Byte) /\ mcd \in [S -> Block]
    BY DEF Contents
  <2> QED
    BY <2>1
<1> QED
  BY <1>1, <1>2 DEF Cards!Sector, Block

LEMMA StoredType ==
    ASSUME NEW mcd \in Contents, NEW sector \in Cards!Byte \X Cards!Byte, NEW data \in Block
    PROVE  Cards!Stored(mcd, sector, data) \in Contents
<1>1. PICK S : S \in SUBSET (Cards!Byte \X Cards!Byte) /\ mcd \in [S -> Block]
  BY DEF Contents
<1> DEFINE T == S \cup {sector}
<1>2. T \in SUBSET (Cards!Byte \X Cards!Byte)
  BY <1>1
<1>3. Cards!Stored(mcd, sector, data) \in [T -> Block]
  BY <1>1 DEF Cards!Stored
<1> QED
  BY <1>2, <1>3 DEF Contents

LEMMA DeselectRight ==
    ASSUME NEW c \in CardStates
    PROVE  Cards!Deselect(c) \in CardStates /\ Cards!Deselect(c).command = Cards!Zero
<1> DEFINE d == Cards!Deselect(c)
<1>0. /\ c \in CardType /\ Cards!Zero \in Cards!Byte /\ Cards!IdleHighZ \in Cards!Byte
      /\ <<Cards!Zero, Cards!Zero>> \in Cards!Byte \X Cards!Byte /\ << >> \in Seq(Cards!Byte)
  BY Codes DEF CardStates
<1>1. d \in CardType
  BY <1>0 DEF CardType, Cards!Deselect
<1>2. d.temp = << >> /\ d.command = Cards!Zero /\ d.ticks = 0
  BY DEF CardStates, CardType, Cards!Deselect
<1>3. Cards!Zero # Cards!Write
  BY Codes
<1> HIDE DEF d
<1> QED
  BY <1>1, <1>2, <1>3 DEF CardStates, d

(* The answer, and how it leaves what a command relies on. *)
LEMMA AnswerRight ==
    ASSUME NEW c \in CardType, NEW b \in Cards!Byte
    PROVE  /\ Cards!Answer(c, b).ack = 1
           /\ Cards!Answer(c, b).card \in CardType
           /\ Cards!Answer(c, b).card.ticks = c.ticks + 1
           /\ Cards!Answer(c, b).card.spdr = b
           /\ Cards!Answer(c, b).card.command = c.command
           /\ Cards!Answer(c, b).card.temp = c.temp
           /\ Cards!Refuse(c, b).ack = 0
           /\ Cards!Refuse(c, b).card \in CardType
           /\ Cards!Refuse(c, b).card.ticks = c.ticks
           /\ Cards!Refuse(c, b).card.spdr = b
           /\ Cards!Refuse(c, b).card.command = c.command
           /\ Cards!Refuse(c, b).card.temp = c.temp
<1> DEFINE a == [c EXCEPT !.ticks = c.ticks + 1, !.spdr = b]
           r == [c EXCEPT !.spdr = b]
<1>1. c.ticks \in Nat /\ c.ticks + 1 \in Nat
  BY DEF CardType
<1>2. /\ a \in CardType /\ a.ticks = c.ticks + 1 /\ a.spdr = b /\ a.command = c.command
      /\ a.temp = c.temp
      /\ r \in CardType /\ r.ticks = c.ticks /\ r.spdr = b /\ r.command = c.command
      /\ r.temp = c.temp
  BY <1>1 DEF CardType
<1>3. /\ Cards!Answer(c, b).card = a /\ Cards!Answer(c, b).ack = 1 /\ Cards!Refuse(c, b).card = r
      /\ Cards!Refuse(c, b).ack = 0
  BY DEF Cards!Answer, Cards!Refuse
<1> HIDE DEF a, r
<1> QED
  BY <1>2, <1>3

LEMMA CardReadRight ==
    ASSUME NEW c \in CardStates, NEW value \in Cards!Byte, c.command = Cards!Read
    PROVE  /\ Cards!TickRead(c, value).card \in CardStates
           /\ Cards!TickRead(c, value).card.command = Cards!Read
           /\ Cards!TickRead(c, value).ack \in {0, 1}
<1> DEFINE t == c.ticks
           next == IF t \in 8 .. 7 + SectorSize THEN Cards!Sector(c.mcd, c.sector)[t - 7] ELSE Cards!Zero
           Fit(a) == a.card \in CardStates /\ a.card.command = Cards!Read /\ a.ack \in {0, 1}
<1>1. /\ c \in CardType /\ t \in Nat /\ c.sector \in Cards!Byte \X Cards!Byte
      /\ c.sum \in Cards!Byte /\ c.temp = << >>
      /\ c.sector[1] \in Cards!Byte /\ c.sector[2] \in Cards!Byte
  BY Codes DEF CardStates, CardType
<1>2. next \in Cards!Byte
  <2>1. Cards!Sector(c.mcd, c.sector) \in Block
    BY SectorType DEF CardStates, CardType
  <2>2. t \in 8 .. 7 + SectorSize => t - 7 \in 1 .. SectorSize
    BY <1>1, Sizes
  <2> QED
    BY <2>1, <2>2, Codes DEF Block
<1>3. ASSUME NEW d \in CardType, NEW b \in Cards!Byte, d.command = Cards!Read, d.temp = << >>
      PROVE  Fit(Cards!Answer(d, b)) /\ Fit(Cards!Refuse(d, b))
  <2> DEFINE a == Cards!Answer(d, b).card
             r == Cards!Refuse(d, b).card
  <2>1. /\ a \in CardType /\ a.command = Cards!Read /\ a.temp = << >> /\ Cards!Answer(d, b).ack = 1
        /\ r \in CardType /\ r.command = Cards!Read /\ r.temp = << >> /\ Cards!Refuse(d, b).ack = 0
    BY <1>3, AnswerRight
  <2> HIDE DEF a, r
  <2>2. a \in CardStates /\ r \in CardStates
    BY <2>1, Codes DEF CardStates
  <2> QED
    BY <2>1, <2>2 DEF a, r
<1>4. /\ [c EXCEPT !.sector = <<value, Cards!Zero>>] \in CardType
      /\ [c EXCEPT !.sector[2] = value] \in CardType
      /\ [c EXCEPT !.sum = Cards!SymDiff(c.sector[1], c.sector[2])] \in CardType
      /\ [c EXCEPT !.sum = Cards!SymDiff(c.sum, next)] \in CardType
  BY <1>1, <1>2, Codes, XorType DEF CardType
<1>5. /\ \A x : [c EXCEPT !.sector = x].command = Cards!Read /\ [c EXCEPT !.sector = x].temp = << >>
      /\ \A x : [c EXCEPT !.sector[2] = x].command = Cards!Read /\ [c EXCEPT !.sector[2] = x].temp = << >>
      /\ \A x : [c EXCEPT !.sum = x].command = Cards!Read /\ [c EXCEPT !.sum = x].temp = << >>
  BY <1>1 DEF CardType
<1>6. {Cards!Zero, Cards!ID1, Cards!ID2, Cards!Acknowledge1, Cards!GoodReadWrite, c.sector[1],
       c.sector[2], value, c.sum, next} \subseteq Cards!Byte
  BY <1>1, <1>2, Codes
<1> HIDE DEF Fit, next
<1>7. /\ \A b \in Cards!Byte : Fit(Cards!Answer(c, b)) /\ Fit(Cards!Refuse(c, b))
      /\ Fit(Cards!Answer([c EXCEPT !.sector = <<value, Cards!Zero>>], value))
      /\ Fit(Cards!Answer([c EXCEPT !.sector[2] = value], Cards!Acknowledge1))
      /\ Fit(Cards!Answer([c EXCEPT !.sum = Cards!SymDiff(c.sector[1], c.sector[2])], c.sector[2]))
      /\ Fit(Cards!Answer([c EXCEPT !.sum = Cards!SymDiff(c.sum, next)], next))
  BY <1>1, <1>3, <1>4, <1>5, <1>6
<1>8. Fit(Cards!TickRead(c, value))
  BY <1>6, <1>7 DEF Cards!TickRead, next
<1> QED
  BY <1>8 DEF Fit

(* A card that collects a sector never answers with what only the byte that *)
(* begins a command is answered with, unless it is sent that very byte.     *)
LEMMA CardWriteRight ==
    ASSUME NEW c \in CardStates, NEW value \in Cards!Byte, c.command = Cards!Write
    PROVE  LET a == Cards!TickWrite(c, value)
           IN  /\ a.card \in CardStates /\ a.card.command = Cards!Write /\ a.ack \in {0, 1}
               /\ a.card.ticks = c.ticks + 1 \/ (c.ticks >= 5 /\ a.card.ticks >= 5)
               /\ c.ticks >= 5 /\ value # Cards!ID1 => a.card.spdr # Cards!ID1
<1> DEFINE t == c.ticks
           Fit(a) == /\ a.card \in CardStates /\ a.card.command = Cards!Write /\ a.ack \in {0, 1}
                     /\ a.card.ticks = t + 1 \/ (t >= 5 /\ a.card.ticks >= 5)
                     /\ t >= 5 /\ value # Cards!ID1 => a.card.spdr # Cards!ID1
           Next5(d) == /\ t < 4 => d.temp = << >>
                       /\ t \in 4 .. 3 + SectorSize => Len(d.temp) = t - 4
                       /\ t \in 4 + SectorSize .. 6 + SectorSize => Len(d.temp) = SectorSize
<1>1. /\ c \in CardType /\ t \in Nat /\ c.sector \in Cards!Byte \X Cards!Byte
      /\ c.sum \in Cards!Byte /\ c.temp \in Seq(Cards!Byte)
      /\ c.sector[1] \in Cards!Byte /\ c.sector[2] \in Cards!Byte /\ Collected(c)
      /\ c.mcd \in Contents
  BY Codes DEF CardStates, CardType
<1>2. ASSUME NEW d \in CardType, NEW b \in Cards!Byte, d.command = Cards!Write, d.ticks = t, Next5(d),
             t >= 5 /\ value # Cards!ID1 => b # Cards!ID1
      PROVE  Fit(Cards!Answer(d, b))
  <2> DEFINE a == Cards!Answer(d, b).card
  <2>1. /\ a \in CardType /\ a.command = Cards!Write /\ a.temp = d.temp
        /\ Cards!Answer(d, b).ack = 1
        /\ a.ticks = t + 1 /\ a.spdr = b
    BY <1>2, AnswerRight
  <2> HIDE DEF a
  <2>2. Collected(a)
    BY <2>1, <1>1, <1>2, Sizes DEF Collected
  <2>3. a \in CardStates
    BY <2>1, <2>2, Codes DEF CardStates
  <2> QED
    BY <2>1, <2>3, <1>2 DEF a
<1>3. ASSUME NEW d \in CardType, NEW b \in Cards!Byte, d.command = Cards!Write, d.ticks > 7 + SectorSize,
             t >= 5, b # Cards!ID1
      PROVE  Fit(Cards!Refuse(d, b))
  <2> DEFINE a == Cards!Refuse(d, b).card
  <2>1. /\ a \in CardType /\ a.command = Cards!Write /\ a.temp = d.temp
        /\ Cards!Refuse(d, b).ack = 0
        /\ a.ticks = d.ticks /\ a.spdr = b /\ a.ticks \in Nat
    BY <1>3, AnswerRight DEF CardType
  <2> HIDE DEF a
  <2>2. Collected(a)
    BY <2>1, <1>1, <1>3, Sizes DEF Collected
  <2>3. a \in CardStates
    BY <2>1, <2>2, Codes DEF CardStates
  <2> QED
    BY <2>1, <2>3, <1>3, Sizes DEF a
<1> HIDE DEF Fit
<1>4. CASE t \in {0, 1, 2}
  <2>1. Next5(c)
    BY <1>1, <1>4, Sizes DEF Collected
  <2>2. \A b \in Cards!Byte : Fit(Cards!Answer(c, b))
    BY <1>1, <1>2, <1>4, <2>1
  <2>3. Cards!TickWrite(c, value) \in {Cards!Answer(c, Cards!ID1), Cards!Answer(c, Cards!ID2),
                                       Cards!Answer(c, Cards!Zero)}
    BY <1>4, Sizes DEF Cards!TickWrite
  <2>4. Fit(Cards!TickWrite(c, value))
    BY <2>2, <2>3, Codes
  <2> QED
    BY <2>4 DEF Fit
<1>5. CASE t = 3
  <2> DEFINE d == [c EXCEPT !.sector = <<value, Cards!Zero>>]
  <2>1. d \in CardType /\ d.command = Cards!Write /\ d.ticks = t /\ d.temp = c.temp
    BY <1>1, Codes DEF CardType
  <2>2. Next5(d)
    BY <1>1, <1>5, <2>1, Sizes DEF Collected
  <2>3. Cards!TickWrite(c, value) = Cards!Answer(d, value)
    BY <1>5, Sizes DEF Cards!TickWrite
  <2> HIDE DEF d
  <2>4. Fit(Cards!Answer(d, value))
    BY <1>2, <1>5, <2>1, <2>2
  <2> QED
    BY <2>3, <2>4 DEF Fit
<1>6. CASE t = 4
  <2> DEFINE d == [c EXCEPT !.sector[2] = value, !.sum = Cards!SymDiff(c.sector[1], value)]
  <2>1. d \in CardType /\ d.command = Cards!Write /\ d.ticks = t /\ d.temp = c.temp
    <3>1. /\ Cards!SymDiff(c.sector[1], value) \in Cards!Byte
          /\ [c.sector EXCEPT ![2] = value] \in Cards!Byte \X Cards!Byte
      BY <1>1, XorType
    <3> QED
      BY <1>1, <3>1 DEF CardType
  <2>2. Next5(d)
    BY <1>1, <1>6, <2>1, Sizes DEF Collected
  <2>3. Cards!TickWrite(c, value) = Cards!Answer(d, value)
    BY <1>6, Sizes DEF Cards!TickWrite
  <2> HIDE DEF d
  <2>4. Fit(Cards!Answer(d, value))
    BY <1>2, <1>6, <2>1, <2>2
  <2> QED
    BY <2>3, <2>4 DEF Fit
<1>7. CASE t \in 5 .. 4 + SectorSize
  <2> DEFINE d == [c EXCEPT !.temp = Append(c.temp, value), !.sum = Cards!SymDiff(c.sum, value)]
  <2>1. Append(c.temp, value) \in Seq(Cards!Byte) /\ Cards!SymDiff(c.sum, value) \in Cards!Byte
    BY <1>1, XorType
  <2>2. d \in CardType /\ d.command = Cards!Write /\ d.ticks = t /\ d.temp = Append(c.temp, value)
    BY <1>1, <2>1 DEF CardType
  <2>3. Len(Append(c.temp, value)) = Len(c.temp) + 1 /\ Len(c.temp) = t - 5
    BY <1>1, <1>7 DEF Collected
  <2>4. Next5(d)
    BY <1>1, <1>7, <2>2, <2>3, Sizes
  <2>5. Cards!TickWrite(c, value) = Cards!Answer(d, value)
    BY <1>1, <1>7, Sizes DEF Cards!TickWrite
  <2> HIDE DEF d
  <2>6. Fit(Cards!Answer(d, value))
    BY <1>2, <1>7, <2>2, <2>4
  <2> QED
    BY <2>5, <2>6 DEF Fit
<1>8. CASE t = 5 + SectorSize
  <2> DEFINE d == [c EXCEPT !.ticks = 255]
  <2>1. d \in CardType /\ d.command = Cards!Write /\ d.ticks = 255
    BY <1>1 DEF CardType
  <2>2. Next5(c)
    BY <1>1, <1>8, Sizes DEF Collected
  <2>3. Fit(Cards!Answer(c, Cards!Acknowledge1))
    BY <1>1, <1>2, <2>2, Codes
  <2>4. Fit(Cards!Refuse(d, Cards!IdleHighZ)) /\ Fit(Cards!Refuse(d, Cards!BadChecksum))
    <3> HIDE DEF d
    <3> QED
      BY <1>1, <1>3, <1>8, <2>1, Codes, Sizes
  <2>5. Cards!TickWrite(c, value) \in {Cards!Refuse(d, Cards!IdleHighZ), Cards!Refuse(d,
                                       Cards!BadChecksum), Cards!Answer(c, Cards!Acknowledge1)}
    BY <1>8, Sizes DEF Cards!TickWrite
  <2> QED
    BY <2>3, <2>4, <2>5 DEF Fit
<1>9. CASE t \in {6 + SectorSize, 7 + SectorSize}
  <2> DEFINE d == Cards!Kept(c, t)
  <2>1. Len(c.temp) = SectorSize
    BY <1>1, <1>9, Sizes DEF Collected
  <2>2. c.temp \in Block
    BY <1>1, <2>1, Sizes DEF Block
  <2>3. Cards!Stored(c.mcd, c.sector, c.temp) \in Contents
    BY <1>1, <2>2, StoredType
  <2>4. d \in CardType /\ d.command = Cards!Write /\ d.ticks = t /\ d.temp = c.temp
    BY <1>1, <2>3, Codes DEF CardType, Cards!Kept
  <2>5. Next5(d)
    BY <1>1, <1>9, <2>1, <2>4, Sizes
  <2>6. Cards!TickWrite(c, value) \in {Cards!Answer(d, Cards!ID2), Cards!Answer(d, Cards!GoodReadWrite)}
    BY <1>9, Sizes DEF Cards!TickWrite
  <2> HIDE DEF d
  <2>7. Fit(Cards!Answer(d, Cards!ID2)) /\ Fit(Cards!Answer(d, Cards!GoodReadWrite))
    BY <1>2, <2>4, <2>5, Codes
  <2> QED
    BY <2>6, <2>7 DEF Fit
<1>10. CASE t > 7 + SectorSize
  <2>1. Cards!TickWrite(c, value) = Cards!Refuse(c, Cards!Acknowledge1)
    BY <1>1, <1>10, Sizes DEF Cards!TickWrite
  <2>2. Fit(Cards!Refuse(c, Cards!Acknowledge1))
    BY <1>1, <1>3, <1>10, Codes, Sizes
  <2> QED
    BY <2>1, <2>2 DEF Fit
<1> QED
  BY <1>1, <1>4, <1>5, <1>6, <1>7, <1>8, <1>9, <1>10, Sizes

(* What a byte makes of a card. *)
LEMMA TransceiveRight ==
    ASSUME NEW c \in CardStates, NEW value \in Cards!Byte
    PROVE  LET a == Cards!Transceive(c, value)
           IN  /\ a.card \in CardStates /\ a.ack \in {0, 1}
               /\ a.card.command = IF c.command \in {Cards!Zero, Cards!Access} THEN value ELSE c.command
               /\ a.card.command = Cards!Write =>
                     /\ a.card.ticks = c.ticks + 1 \/ (c.ticks >= 5 /\ a.card.ticks >= 5)
                     /\ c.ticks >= 5 /\ value # Cards!ID1 => a.card.spdr # Cards!ID1
<1> DEFINE d == Cards!Commanded(c, value)
<1>1. /\ d \in CardType /\ d.temp = c.temp /\ d.ticks = c.ticks
      /\ d.command = IF c.command \in {Cards!Zero, Cards!Access} THEN value ELSE c.command
      /\ d.flag \in Cards!Byte /\ c \in CardType
  BY DEF CardStates, CardType, Cards!Commanded
<1>2. c.command \in {Cards!Zero, Cards!Access} => d.ticks = 0 /\ d.temp = << >>
  BY <1>1, Codes DEF CardStates
<1>3. d \in CardStates
  <2>1. CASE c.command \in {Cards!Zero, Cards!Access}
    <3>1. Collected(d)
      BY <1>2, <2>1, Sizes DEF Collected
    <3> HIDE DEF d
    <3> QED
      BY <1>1, <1>2, <2>1, <3>1 DEF CardStates
  <2>2. CASE c.command \notin {Cards!Zero, Cards!Access}
    BY <2>2 DEF Cards!Commanded
  <2> QED
    BY <2>1, <2>2
<1> HIDE DEF d
<1>4. CASE d.command = Cards!Access
  <2> DEFINE e == [d EXCEPT !.spdr = d.flag]
  <2>1. /\ e \in CardType /\ e.temp = d.temp /\ e.ticks = d.ticks /\ e.command = d.command
    BY <1>1 DEF CardType
  <2>2. Cards!Transceive(c, value).card = e /\ Cards!Transceive(c, value).ack = 1
    <3>1. d = Cards!Commanded(c, value)
      BY DEF d
    <3>2. Cards!Transceive(c, value) =
              [card |-> [Cards!Commanded(c, value) EXCEPT !.spdr = Cards!Commanded(c, value).flag], ack |-> 1]
      BY <1>4, <3>1, Codes DEF Cards!Transceive
    <3> QED
      BY <3>1, <3>2
  <2> HIDE DEF e
  <2>3. e \in CardStates
    BY <2>1, <1>3, <1>4, Codes DEF CardStates
  <2> QED
    BY <1>1, <1>4, <2>1, <2>2, <2>3, Codes
<1>5. CASE d.command = Cards!Read
  <2>1. Cards!Transceive(c, value) = Cards!TickRead(d, value)
    BY <1>5, Codes DEF Cards!Transceive, d
  <2> QED
    BY <1>1, <1>3, <1>5, <2>1, CardReadRight, Codes
<1>6. CASE d.command = Cards!Write
  <2>1. Cards!Transceive(c, value) = Cards!TickWrite(d, value)
    BY <1>6, Codes DEF Cards!Transceive, d
  <2> QED
    BY <1>1, <1>3, <1>6, <2>1, CardWriteRight
<1>7. CASE d.command \notin {Cards!Access, Cards!Read, Cards!Write}
  <2> DEFINE e == Cards!Refuse(d, Cards!IdleHighZ).card
  <2>1. Cards!Transceive(c, value) = Cards!Refuse(d, Cards!IdleHighZ)
    BY <1>7 DEF Cards!Transceive, d
  <2>2. /\ e \in CardType /\ e.temp = d.temp /\ e.ticks = d.ticks /\ e.command = d.command
        /\ Cards!Refuse(d, Cards!IdleHighZ).ack = 0
    BY <1>1, AnswerRight, Codes
  <2> HIDE DEF e
  <2>3. e \in CardStates
    BY <2>2, <1>3, <1>7 DEF CardStates
  <2> QED
    BY <1>1, <1>7, <2>1, <2>2, <2>3 DEF e
<1> QED
  BY <1>4, <1>5, <1>6, <1>7

-----------------------------------------------------------------------------
(* The serial port                                                         *)
Bits == {"TXEN", "DTR", "ACKIRQEN", "PORTSEL", "IR"}

PortType ==
    [ctrl : SUBSET Bits, fifo : Seq(Cards!Byte), device : {Cards!None, Cards!PAD, Cards!Access,
                                                           Cards!Ignore}, waits : {<< >>},
     due : {0, 1}, card : [{0, 1} -> CardStates], inserted : [{0, 1} -> {0, 1}]]

(* Nothing is selected, and no card is within a command. *)
Quiet(s) == s.device = Cards!None /\ \A p \in {0, 1} : s.card[p].command = Cards!Zero

LEMMA FifoRight ==
    ASSUME NEW s \in PortType, Len(s.fifo) <= 1
    PROVE  /\ Cards!Fifo(s) \in Cards!Byte
           /\ Cards!Pulled(s) \in PortType
           /\ Cards!Pulled(s) = [s EXCEPT !.fifo = << >>]
           /\ s.fifo # << >> => Cards!Fifo(s) = Head(s.fifo)
<1>1. s.fifo \in Seq(Cards!Byte)
  BY DEF PortType
<1>2. Cards!Fifo(s) \in Cards!Byte
  BY <1>1, Codes DEF Cards!Fifo
<1>3. s.fifo = << >> \/ Tail(s.fifo) = << >>
  BY <1>1
<1>4. s = [s EXCEPT !.fifo = s.fifo]
  BY DEF PortType
<1>5. Cards!Pulled(s) = [s EXCEPT !.fifo = << >>]
  BY <1>3, <1>4 DEF Cards!Pulled
<1>6. << >> \in Seq(Cards!Byte)
  OBVIOUS
<1>7. [s EXCEPT !.fifo = << >>] \in PortType
  BY <1>6 DEF PortType
<1> QED
  BY <1>2, <1>5, <1>7 DEF Cards!Fifo

LEMMA PushRight ==
    ASSUME NEW s \in PortType, NEW b \in Cards!Byte, s.fifo = << >>
    PROVE  Cards!Push(s, b) \in PortType /\ Cards!Push(s, b) = [s EXCEPT !.fifo = <<b>>]
<1>1. <<b>> \in Seq(Cards!Byte) /\ Append(<< >>, b) = <<b>> /\ Len(s.fifo) = 0
  OBVIOUS
<1>2. Cards!Push(s, b) = [s EXCEPT !.fifo = <<b>>]
  BY <1>1 DEF Cards!Push, Cards!FifoSize
<1>3. [s EXCEPT !.fifo = <<b>>] \in PortType
  BY <1>1 DEF PortType
<1> QED
  BY <1>2, <1>3

LEMMA DeselectedRight ==
    ASSUME NEW s \in PortType
    PROVE  /\ Cards!Deselected(s) \in PortType
           /\ Quiet(Cards!Deselected(s))
           /\ Cards!Deselected(s).ctrl = s.ctrl /\ Cards!Deselected(s).fifo = s.fifo
           /\ Cards!Deselected(s).waits = s.waits /\ Cards!Deselected(s).due = s.due
<1> DEFINE both == [p \in {0, 1} |-> Cards!Deselect(s.card[p])]
           t == [s EXCEPT !.device = Cards!None, !.card = both]
<1>1. both \in [{0, 1} -> CardStates] /\ \A p \in {0, 1} : both[p].command = Cards!Zero
  <2>1. \A p \in {0, 1} : s.card[p] \in CardStates
    BY DEF PortType
  <2> QED
    BY <2>1, DeselectRight
<1> HIDE DEF both
<1>2. /\ t \in PortType /\ t.device = Cards!None /\ t.card = both /\ t.ctrl = s.ctrl
      /\ t.fifo = s.fifo
      /\ t.waits = s.waits /\ t.due = s.due
  BY <1>1 DEF PortType
<1>3. Cards!Deselected(s) = t
  BY DEF Cards!Deselected, both
<1> HIDE DEF t
<1> QED
  BY <1>1, <1>2, <1>3 DEF Quiet

(* A byte that is sent at once: one answer comes, and that of a card is     *)
(* what it made of the byte before.                                         *)
LEMMA SendRight ==
    ASSUME NEW s \in PortType, NEW value \in Cards!Byte, s.fifo = << >>, "TXEN" \in s.ctrl
    PROVE  LET t == Cards!WriteByte(s, value)
               p == Cards!Port(s)
           IN  /\ t \in PortType /\ Len(t.fifo) = 1 /\ t.ctrl = s.ctrl
               /\ s.device \in {Cards!Access,
                                Cards!Ignore} \/ (s.device = Cards!None /\ value = Cards!Access) =>
                     /\ t.device \in {Cards!Access, Cards!Ignore}
                     /\ t.device = Cards!Ignore => t.due = s.due
                     /\ t.device = Cards!Access => /\ s.device # Cards!Ignore
                                                   /\ t.card[p] = Cards!Transceive(s.card[p], value).card
                                                   /\ t.fifo = <<s.card[p].spdr>>
<1> DEFINE device == IF s.device = Cards!None THEN value ELSE s.device
           u == [s EXCEPT !.device = device, !.waits = << >>]
           p == Cards!Port(s)
           Fit(t) == t \in PortType /\ Len(t.fifo) = 1 /\ t.ctrl = s.ctrl
<1>1. Cards!WriteByte(s, value) = Cards!Transmit(s, value)
  BY DEF Cards!WriteByte
<1>2. p \in {0, 1}
  BY DEF Cards!Port
<1>3. /\ Cards!IdleHighZ \in Cards!Byte /\ s.card[p] \in CardStates
      /\ s.card[p].spdr \in Cards!Byte /\ s.card[p].flag \in Cards!Byte
  BY <1>2, Codes DEF PortType, CardStates, CardType
<1>4. ASSUME device \in {Cards!PAD, Cards!Access, Cards!Ignore}
      PROVE  u \in PortType /\ u.device = device /\ u.ctrl = s.ctrl /\ u.due = s.due /\ u.fifo = << >>
             /\ u.card = s.card /\ u.inserted = s.inserted /\ Cards!Port(u) = p
  BY <1>4 DEF PortType, Cards!Port
<1>5. \A t \in PortType : \A b \in Cards!Byte :
         t.fifo = << >> /\ t.ctrl = s.ctrl =>
            /\ Fit(Cards!Push(t, b)) /\ Cards!Push(t, b).device = t.device
            /\ Cards!Push(t, b).due = t.due
            /\ Cards!Push(t, b).card = t.card /\ Cards!Push(t, b).fifo = <<b>>
  <2> SUFFICES ASSUME NEW t \in PortType, NEW b \in Cards!Byte, t.fifo = << >>, t.ctrl = s.ctrl
               PROVE  /\ Fit(Cards!Push(t, b)) /\ Cards!Push(t, b).device = t.device /\ Cards!Push(t, b).due = t.due
                      /\ Cards!Push(t, b).card = t.card /\ Cards!Push(t, b).fifo = <<b>>
    OBVIOUS
  <2>1. Cards!Push(t, b) \in PortType /\ Cards!Push(t, b) = [t EXCEPT !.fifo = <<b>>]
    BY PushRight
  <2>2. /\ [t EXCEPT !.fifo = <<b>>].device = t.device /\ [t EXCEPT !.fifo = <<b>>].due = t.due
        /\ [t EXCEPT !.fifo = <<b>>].card = t.card /\ [t EXCEPT !.fifo = <<b>>].fifo = <<b>>
        /\ [t EXCEPT !.fifo = <<b>>].ctrl = t.ctrl
    BY DEF PortType
  <2>3. Len(<<b>>) = 1
    OBVIOUS
  <2> QED
    BY <2>1, <2>2, <2>3
<1> HIDE DEF Fit
<1>6. CASE device = Cards!Access
  <2> DEFINE a == Cards!Transceive(s.card[p], value)
             t == [u EXCEPT !.card[p] = a.card]
             v == IF a.ack = 1 THEN Cards!Acknowledge(t) ELSE t
             w == [u EXCEPT !.card[p] = Cards!Deselect([u.card[p] EXCEPT !.flag = Cards!DirectoryUnread]),
                            !.device = Cards!Ignore]
  <2>1. /\ u \in PortType /\ u.device = device /\ u.ctrl = s.ctrl /\ u.due = s.due /\ u.fifo = << >>
        /\ u.card = s.card /\ u.inserted = s.inserted /\ Cards!Port(u) = p
    BY <1>4, <1>6
  <2>2. Cards!Transmit(s, value) = Cards!ToCard(u, value)
    BY <1>6, Codes DEF Cards!Transmit
  <2>3. s.device # Cards!Ignore
    BY <1>6, Codes DEF Cards!None
  <2> HIDE DEF u
  <2>4. CASE s.inserted[p] = 1
    <3>1. a.card \in CardStates
      BY <1>3, TransceiveRight
    <3> HIDE DEF a
    <3>2. /\ t \in PortType /\ t.card[p] = a.card /\ t.device = Cards!Access /\ t.ctrl = s.ctrl
          /\ t.fifo = << >>
      BY <2>1, <3>1, <1>2, <1>6 DEF PortType
    <3> HIDE DEF t
    <3>3. /\ v \in PortType /\ v.card[p] = a.card /\ v.device = Cards!Access /\ v.ctrl = s.ctrl
          /\ v.fifo = << >>
      BY <3>2 DEF PortType, Cards!Acknowledge
    <3>4. Cards!ToCard(u, value) = Cards!Push(v, s.card[p].spdr)
      BY <2>1, <2>4 DEF Cards!ToCard, v, t, a
    <3> HIDE DEF v
    <3>5. /\ Fit(Cards!Push(v, s.card[p].spdr))
          /\ Cards!Push(v, s.card[p].spdr).device = Cards!Access
          /\ Cards!Push(v, s.card[p].spdr).card[p] = a.card
          /\ Cards!Push(v, s.card[p].spdr).fifo = <<s.card[p].spdr>>
      BY <1>3, <1>5, <3>3
    <3> QED
      BY <1>1, <2>2, <2>3, <3>4, <3>5, Codes DEF Fit, a
  <2>5. CASE s.inserted[p] # 1
    <3>1. [u.card[p] EXCEPT !.flag = Cards!DirectoryUnread] \in CardStates
      BY <1>2, <2>1, Codes DEF PortType, CardStates, CardType, Collected
    <3>2. Cards!Deselect([u.card[p] EXCEPT !.flag = Cards!DirectoryUnread]) \in CardStates
      BY <3>1, DeselectRight
    <3>3. /\ w \in PortType /\ w.device = Cards!Ignore /\ w.ctrl = s.ctrl /\ w.fifo = << >>
          /\ w.due = s.due
      BY <2>1, <3>2, <1>2 DEF PortType
    <3>4. Cards!ToCard(u, value) = Cards!Push(w, Cards!IdleHighZ)
      BY <2>1, <2>5 DEF Cards!ToCard
    <3> HIDE DEF w
    <3>5. /\ Fit(Cards!Push(w, Cards!IdleHighZ))
          /\ Cards!Push(w, Cards!IdleHighZ).device = Cards!Ignore
          /\ Cards!Push(w, Cards!IdleHighZ).due = s.due
      BY <1>3, <1>5, <3>3
    <3> QED
      BY <1>1, <2>2, <3>4, <3>5, Codes DEF Fit
  <2> QED
    BY <2>4, <2>5
<1>7. CASE device \in {Cards!PAD, Cards!Ignore}
  <2>1. /\ u \in PortType /\ u.device = device /\ u.ctrl = s.ctrl /\ u.due = s.due /\ u.fifo = << >>
    BY <1>4, <1>7
  <2>2. Cards!Transmit(s, value) = Cards!Push(u, Cards!IdleHighZ)
    BY <1>7, Codes DEF Cards!Transmit
  <2> HIDE DEF u
  <2>3. /\ Fit(Cards!Push(u, Cards!IdleHighZ)) /\ Cards!Push(u, Cards!IdleHighZ).device = device
        /\ Cards!Push(u, Cards!IdleHighZ).due = s.due
    BY <1>3, <1>5, <2>1
  <2>4. \/ device = Cards!Ignore
        \/ ~(\/ s.device \in {Cards!Access, Cards!Ignore}
             \/ s.device = Cards!None /\ value = Cards!Access)
    BY <1>7, Codes DEF Cards!None
  <2> QED
    BY <1>1, <2>2, <2>3, <2>4, Codes DEF Fit
<1>8. CASE device \notin {Cards!PAD, Cards!Access, Cards!Ignore}
  <2>1. s.device = Cards!None /\ value # Cards!Access
    BY <1>8 DEF PortType
  <2>2. Cards!Transmit(s, value) = Cards!Push(Cards!Deselected(u), Cards!IdleHighZ)
    BY <1>8 DEF Cards!Transmit
  <2>3. u = [[s EXCEPT !.waits = << >>] EXCEPT !.device = value]
    BY <2>1 DEF PortType
  <2>4. Cards!Deselected(u) = Cards!Deselected(s)
    BY <2>1 DEF Cards!Deselected, PortType
  <2>5. /\ Cards!Deselected(s) \in PortType /\ Cards!Deselected(s).fifo = << >>
        /\ Cards!Deselected(s).ctrl = s.ctrl
    BY DeselectedRight
  <2>6. Fit(Cards!Push(Cards!Deselected(s), Cards!IdleHighZ))
    BY <1>3, <1>5, <2>5
  <2> QED
    BY <1>1, <2>1, <2>2, <2>4, <2>6, Codes DEF Fit, Cards!None
<1> QED
  BY <1>6, <1>7, <1>8

(* A write to the control register, with nothing that waits to be sent.    *)
LEMMA ControlRight ==
    ASSUME NEW s \in PortType, NEW ctrl \in SUBSET Bits
    PROVE  LET t == Cards!WriteCtrl(s, ctrl)
           IN  /\ t \in PortType /\ t.ctrl = ctrl
               /\ t.fifo \in {s.fifo, << >>}
               /\ Quiet(s) \/ Cards!Leaves(s, ctrl) \/ "IR" \in ctrl => Quiet(t)
               /\ ~Cards!Leaves(s, ctrl) /\ "IR" \notin ctrl => t = [s EXCEPT !.ctrl = ctrl]
<1> DEFINE t == [s EXCEPT !.ctrl = ctrl]
           u == IF Cards!Leaves(s, ctrl) THEN Cards!Deselected(t) ELSE t
           v == IF "IR" \in ctrl THEN Cards!Restarted(u) ELSE u
<1>1. /\ t \in PortType /\ t.ctrl = ctrl /\ t.fifo = s.fifo /\ t.waits = << >> /\ (Quiet(s) => Quiet(t))
  BY DEF PortType, Quiet
<1>2. Cards!WriteCtrl(s, ctrl) = IF v.waits # << >> /\ "TXEN" \notin s.ctrl /\ "TXEN" \in ctrl
                           THEN Cards!Transmit(v, Head(v.waits)) ELSE v
  BY DEF Cards!WriteCtrl
<1> HIDE DEF t
<1>3. /\ u \in PortType /\ u.ctrl = ctrl /\ u.fifo = s.fifo /\ u.waits = << >>
      /\ (Quiet(s) \/ Cards!Leaves(s, ctrl) => Quiet(u)) /\ (~Cards!Leaves(s, ctrl) => u = t)
  BY <1>1, DeselectedRight
<1> HIDE DEF u
<1>4. /\ v \in PortType /\ v.ctrl = ctrl /\ v.fifo \in {s.fifo, << >>} /\ v.waits = << >>
      /\ ("IR" \in ctrl => Quiet(v)) /\ ("IR" \notin ctrl => v = u)
  <2>1. CASE "IR" \in ctrl
    <3> DEFINE d == Cards!Deselected(u)
               w == [d EXCEPT !.fifo = << >>, !.waits = << >>, !.due = 0]
    <3>1. d \in PortType /\ Quiet(d) /\ d.ctrl = ctrl
      BY <1>3, DeselectedRight
    <3>2. v = w
      BY <2>1 DEF Cards!Restarted
    <3> HIDE DEF d
    <3>3. << >> \in Seq(Cards!Byte)
      OBVIOUS
    <3>4. w \in PortType /\ w.ctrl = ctrl /\ w.fifo = << >> /\ w.waits = << >> /\ Quiet(w)
      BY <3>1, <3>3 DEF PortType, Quiet
    <3> QED
      BY <2>1, <3>2, <3>4
  <2>2. CASE "IR" \notin ctrl
    BY <1>3, <2>2
  <2> QED
    BY <2>1, <2>2
<1> HIDE DEF v
<1>5. Cards!WriteCtrl(s, ctrl) = v
  BY <1>2, <1>4
<1> QED
  BY <1>3, <1>4, <1>5 DEF t

-----------------------------------------------------------------------------
(* The driver                                                              *)
Globals ==
    [active : {0, 1}, port : {0, 1}, op : 0 .. 12, skip : {0, 1}, fast : {0, 1}, count : Nat, sum : Cards!Byte]

Asked == [op : {"none", "read", "write", "info"}, sector : Cards!Byte \X Cards!Byte, data : Block \cup {<< >>}]

DriverTypes ==
    /\ sio \in PortType /\ Len(sio.fifo) <= 1
    /\ ireg \in {0, 1} /\ imask \in {0, 1} /\ success \in {0, 1}
    /\ stage \in Cards!Stages
    /\ mc \in Globals
    /\ asked \in [Cards!Slots -> Asked]
    /\ cardFlags \in [Cards!Slots -> {0, 1, 2, 4}]
    /\ buffer \in [Cards!Slots -> Block \cup {<< >>}]

(* A busy slot has a request, and memory of the size of a sector. *)
Requested ==
    \A p \in Cards!Slots : Cards!Busy(p) => /\ asked[p].op # "none"
                                            /\ cardFlags[p] = Cards!FlagOf(asked[p].op)
                                            /\ buffer[p] \in Block

(* Between requests the port is off. *)
Resting == mc.active = 0 => sio.ctrl = {} /\ Quiet(sio) /\ mc.fast = 0

(* What counts the bytes of a sector.  A request of the other slot sets the *)
(* operation back to the first one, while the count stays: of a read that   *)
(* gets as far again, the card's answers permitting, the count passes its   *)
(* end, but stays within the sector, since no third request can come; of a  *)
(* write, the card never lets the driver get as far.                        *)
CountsOf(m) ==
    LET other == 1 - m.port
        begun == m.count > 0 \/ m.fast = 1
    IN  /\ Cards!Busy(m.port)
        /\ m.count <= SectorSize
        /\ m.fast = 1 => m.count < SectorSize
        /\ asked[m.port].op = "info" => m.fast = 0
        /\ asked[m.port].op = "write" =>
              /\ m.fast = 1 => m.op \in {0, 6}
              /\ begun => m.op \notin {4, 5}
        /\ asked[m.port].op = "read" =>
              /\ m.fast = 1 /\ m.count = SectorSize - 1 => m.op = 11
              /\ m.count = SectorSize => m.op >= 11 /\ Cards!Busy(other)
              /\ ~Cards!Busy(other) => /\ begun => m.op >= 11
                                       /\ m.fast = 1 => m.count <= SectorSize - 2

Counts == mc.active = 1 => CountsOf(mc)

On(p) == Cards!Mask(p) \cup {"TXEN", "ACKIRQEN", "DTR"}

(* The card that is written to has the command, and has had as many bytes   *)
(* of it as the driver has sent, or more when the driver has begun again.   *)
(* Once it collects the sector, it no longer answers what the driver then   *)
(* wants first.                                                             *)
Follows(m) ==
    LET c == sio.card[m.port]
    IN  /\ m.op <= 1 => c.command = Cards!Access \/ (c.command = Cards!Write /\ c.ticks >= 1)
        /\ m.op >= 2 => c.command = Cards!Write /\ c.ticks >= 1 /\ (c.ticks >= 5 \/ c.ticks >= m.op - 1)
        /\ m.count > 0 \/ m.fast = 1 =>
              /\ c.command = Cards!Write /\ c.ticks >= 5
              /\ m.op = 2 => c.spdr # Cards!ID1
              /\ m.op = 3 => sio.fifo # << >> /\ Head(sio.fifo) # Cards!ID1

(* During a request the port is on, and it has acknowledged one byte at     *)
(* most; a card that was pulled out acknowledges no more, but for what was  *)
(* left from before the request.                                            *)
Talking ==
    stage = "idle" /\ mc.active = 1 =>
        /\ sio.ctrl = On(mc.port)
        /\ sio.device \in {Cards!Access, Cards!Ignore}
        /\ sio.due = 0 \/ ireg = 0
        /\ sio.device = Cards!Ignore => \/ sio.due = 0 /\ ireg = 0
                                        \/ mc.op <= 1 /\ mc.fast = 0 /\ mc.count = 0
        /\ asked[mc.port].op = "write" /\ sio.device = Cards!Access => Follows(mc)

CardsInv == DriverTypes /\ Requested /\ Resting /\ Counts /\ Talking

LEMMA CardsInit == Cards!Init => CardsInv
<1> SUFFICES ASSUME Cards!Init PROVE CardsInv
  OBVIOUS
<1>1. /\ << >> \in Seq(Cards!Byte) /\ << >> \in Contents
      /\ {Cards!Zero, Cards!IdleHighZ, Cards!DirectoryUnread} \subseteq Cards!Byte
  <2>1. << >> \in [1 .. 0 -> Block] /\ 1 .. 0 \in SUBSET (Cards!Byte \X Cards!Byte)
    OBVIOUS
  <2>2. << >> \in Contents
    BY <2>1 DEF Contents
  <2> QED
    BY <2>2, Codes
<1>2. Cards!NewCard(<< >>) \in CardStates /\ Cards!NewCard(<< >>).command = Cards!Zero
  BY <1>1, Codes DEF Cards!NewCard, CardStates, CardType
<1>3. sio \in PortType /\ sio.ctrl = {} /\ Quiet(sio) /\ Len(sio.fifo) = 0
  BY <1>1, <1>2 DEF Cards!Init, Cards!NewSio, PortType, Quiet, Cards!Slots, Cards!None
<1> QED
  BY <1>1, <1>3 DEF Cards!Init, CardsInv, DriverTypes, Requested, Resting, Counts, Talking,
       Globals, Asked,
     Cards!Slots, Cards!Stages, Cards!NoRequest, Cards!Busy

(* The port as the handler finds it, or makes it at the first operation. *)
Engaged(m) ==
    \/ m.op = 0 /\ sio.ctrl = {} /\ Quiet(sio)
    \/ sio.ctrl = On(m.port) /\ sio.device \in {Cards!Access, Cards!Ignore}

LEMMA OnRight ==
    ASSUME NEW p
    PROVE  On(p) \in SUBSET Bits /\ "IR" \notin On(p) /\ {"TXEN", "DTR"} \subseteq On(p)
  BY DEF On, Cards!Mask, Bits

LEMMA SelectedRight ==
    ASSUME sio \in PortType, Len(sio.fifo) <= 1, NEW m \in Globals, Engaged(m)
    PROVE  LET v == [sio EXCEPT !.ctrl = On(m.port)]
           IN  /\ v \in PortType /\ v.ctrl = On(m.port) /\ v.fifo = sio.fifo
               /\ v.device = sio.device /\ v.due = sio.due /\ v.card = sio.card
               /\ Cards!Selected(m, m.op + 1) \in {v, Cards!Pulled(v)}
               /\ m.op # 6 => Cards!Selected(m, m.op + 1) = v
<1> DEFINE n == m.op + 1
           v == [sio EXCEPT !.ctrl = On(m.port)]
           first == sio.ctrl \cup Cards!Mask(m.port) \cup {"DTR"}
           s == Cards!WriteCtrl(sio, first)
           t == IF n = 1 THEN Cards!WriteCtrl(s, Cards!Mask(m.port) \cup {"TXEN", "ACKIRQEN",
                                                                          "DTR"}) ELSE s
<1>1. /\ v \in PortType /\ v.ctrl = On(m.port) /\ v.fifo = sio.fifo
      /\ v.device = sio.device /\ v.due = sio.due /\ v.card = sio.card
  BY OnRight DEF PortType
<1>2. first \in SUBSET Bits /\ "IR" \notin first
  BY OnRight DEF Engaged, On, Cards!Mask, Bits
<1>3. ~Cards!Leaves(sio, first)
  BY DEF Cards!Leaves
<1>4. s = [sio EXCEPT !.ctrl = first] /\ s \in PortType /\ s.ctrl = first
  BY <1>2, <1>3, ControlRight
<1>5. t = v
  <2>1. CASE n = 1
    <3>1. ~Cards!Leaves(s, On(m.port))
      BY <1>4, OnRight DEF Engaged, Cards!Leaves, On, Cards!Mask
    <3>2. Cards!WriteCtrl(s, On(m.port)) = [s EXCEPT !.ctrl = On(m.port)]
      BY <1>4, <3>1, OnRight, ControlRight
    <3>3. [s EXCEPT !.ctrl = On(m.port)] = v
      BY <1>4 DEF PortType
    <3> QED
      BY <2>1, <3>2, <3>3 DEF On
  <2>2. CASE n # 1
    <3>1. sio.ctrl = On(m.port) /\ first = On(m.port)
      BY <2>2 DEF Engaged, On, Globals
    <3> QED
      BY <2>2, <3>1, <1>4
  <2> QED
    BY <2>1, <2>2
<1>6. Cards!Selected(m, n) = IF n = 7 /\ asked[m.port].op = "write" THEN Cards!Pulled(t) ELSE t
  BY DEF Cards!Selected
<1>7. m.op \in Int
  BY DEF Globals
<1> HIDE DEF t, v
<1> QED
  BY <1>1, <1>5, <1>6, <1>7 DEF v

LEMMA ExchangeRight ==
    ASSUME sio \in PortType, Len(sio.fifo) <= 1, NEW m \in Globals, Engaged(m), NEW byte \in Cards!Byte
    PROVE  LET n == m.op + 1
               u == [[sio EXCEPT !.ctrl = On(m.port)] EXCEPT !.fifo = << >>]
           IN  /\ u \in PortType /\ u.ctrl = On(m.port) /\ u.fifo = << >> /\ u.device = sio.device
               /\ u.due = sio.due /\ u.card = sio.card /\ Cards!Port(u) = m.port
               /\ Cards!Exchange(Cards!Selected(m, n), byte) = Cards!WriteByte(u, byte)
               /\ Cards!Fifo(Cards!Selected(m, n)) \in Cards!Byte
               /\ m.op # 6 /\ sio.fifo # << >> => Cards!Fifo(Cards!Selected(m, n)) = Head(sio.fifo)
               /\ Cards!Selected(m, n) \in PortType /\ Len(Cards!Selected(m, n).fifo) <= 1
               /\ Cards!Selected(m, n).ctrl = On(m.port)
<1> DEFINE n == m.op + 1
           v == [sio EXCEPT !.ctrl = On(m.port)]
           u == [v EXCEPT !.fifo = << >>]
<1>1. /\ v \in PortType /\ v.ctrl = On(m.port) /\ v.fifo = sio.fifo
      /\ v.device = sio.device /\ v.due = sio.due /\ v.card = sio.card
      /\ Cards!Selected(m, n) \in {v, Cards!Pulled(v)}
      /\ m.op # 6 => Cards!Selected(m, n) = v
  BY SelectedRight
<1> HIDE DEF v
<1>2. << >> \in Seq(Cards!Byte) /\ Len(<< >>) = 0
  OBVIOUS
<1>3. /\ u \in PortType /\ u.ctrl = On(m.port) /\ u.fifo = << >> /\ u.device = sio.device
      /\ u.due = sio.due /\ u.card = sio.card
  BY <1>1, <1>2 DEF PortType
<1>4. Cards!Port(u) = m.port
  BY <1>3 DEF Cards!Port, On, Cards!Mask, Globals
<1>5. Cards!Pulled(v) = u /\ Cards!Fifo(v) \in Cards!Byte /\ (v.fifo # << >> => Cards!Fifo(v) = Head(v.fifo))
  BY <1>1, FifoRight
<1>6. Cards!Pulled(u) = u /\ Cards!Fifo(u) \in Cards!Byte
  <2>1. Len(u.fifo) <= 1
    BY <1>2, <1>3
  <2>2. Cards!Fifo(u) \in Cards!Byte
    BY <1>3, <2>1, FifoRight
  <2> QED
    BY <1>3, <2>2 DEF Cards!Pulled
<1> HIDE DEF u
<1>7. /\ Cards!Pulled(Cards!Selected(m, n)) = u
      /\ Cards!Exchange(Cards!Selected(m, n), byte) = Cards!WriteByte(u, byte)
  BY <1>1, <1>5, <1>6 DEF Cards!Exchange
<1>8. /\ Cards!Fifo(Cards!Selected(m, n)) \in Cards!Byte
      /\ m.op # 6 /\ sio.fifo # << >> => Cards!Fifo(Cards!Selected(m, n)) = Head(sio.fifo)
  BY <1>1, <1>5, <1>6
<1>9. /\ Cards!Selected(m, n) \in PortType /\ Len(Cards!Selected(m, n).fifo) <= 1
      /\ Cards!Selected(m, n).ctrl = On(m.port)
  <2>1. Cards!Selected(m, n) \in {v, u}
    BY <1>1, <1>5
  <2> QED
    BY <1>1, <1>2, <1>3, <2>1
<1> QED
  BY <1>3, <1>4, <1>7, <1>8, <1>9 DEF u, v

LEMMA SentType ==
    ASSUME NEW m \in Globals, NEW r \in Asked, NEW n, NEW b \in Cards!Byte
    PROVE  Cards!Sent(m, r, n) \in Cards!Byte /\ Cards!SumAfter(m, r, n, b) \in Cards!Byte
<1>1. /\ r.sector[1] \in Cards!Byte /\ r.sector[2] \in Cards!Byte /\ m.sum \in Cards!Byte
      /\ {Cards!Access, Cards!Write, Cards!Read, Cards!Zero} \subseteq Cards!Byte
  BY Codes DEF Asked, Globals
<1>2. Cards!Sent(m, r, n) \in {Cards!Access, Cards!Write, Cards!Read, r.sector[1], r.sector[2],
                               m.sum, Cards!Zero}
  BY DEF Cards!Sent
<1>3. Cards!SumAfter(m, r, n, b) \in {r.sector[1], Cards!SymDiff(m.sum, r.sector[2]),
                                Cards!SymDiff(r.sector[1], r.sector[2]), Cards!SymDiff(m.sum, b),
                                m.sum}
  BY DEF Cards!SumAfter
<1>4. {Cards!SymDiff(m.sum, r.sector[2]), Cards!SymDiff(r.sector[1], r.sector[2]),
       Cards!SymDiff(m.sum, b)} \subseteq Cards!Byte
  BY <1>1, XorType
<1> QED
  BY <1>1, <1>2, <1>3, <1>4

(* The port that a byte of the handler is sent to. *)
Cleared(m) == [[sio EXCEPT !.ctrl = On(m.port)] EXCEPT !.fifo = << >>]

RequestOver(m) ==
    /\ mc' = Cards!Over(m)
    /\ cardFlags' = [cardFlags EXCEPT ![m.port] = 1]
    /\ sio'.ctrl = {} /\ Quiet(sio')

RequestGoesOn(m) ==
    LET n == m.op + 1
        r == asked[m.port]
        b == Cards!Fifo(Cards!Selected(m, n))
    IN  /\ n < Cards!LastOp(r) /\ b \in Cards!Wanted(m, r, n)
        /\ cardFlags' = cardFlags
        /\ mc' = [m EXCEPT !.op = n, !.active = IF n = 1 THEN 1 ELSE m.active,
                           !.sum = Cards!SumAfter(m, r, n, b), !.fast = Cards!FastAfter(m, r, n)]
        /\ sio' = Cards!WriteByte(Cleared(m), Cards!Sent(m, r, n))

(* What one call of mcHandler does. *)
LEMMA HandleRight ==
    ASSUME DriverTypes, Requested, NEW m \in Globals, Engaged(m), Cards!Busy(m.port),
           NEW reported \in {0, 1}, Cards!Handle(m, reported), stage' \in Cards!Stages
    PROVE  /\ DriverTypes'
           /\ ireg' = 0 /\ asked' = asked
           /\ \A p \in Cards!Slots : buffer[p] \in Block => buffer'[p] \in Block
           /\ RequestOver(m) \/ RequestGoesOn(m)
<1> DEFINE n == m.op + 1
           p == m.port
           r == asked[p]
           s == Cards!Selected(m, n)
           b == Cards!Fifo(s)
           t == IF n > Cards!LastOp(r) THEN s ELSE Cards!Exchange(s, Cards!Sent(m, r, n))
           filled == r.op = "read" /\ n = 12
<1>1. /\ p \in Cards!Slots /\ r \in Asked /\ r.op \in {"read", "write", "info"}
      /\ buffer[p] \in Block /\ n \in Nat
  BY DEF DriverTypes, Requested, Globals, Cards!Slots, Asked
<1>2. sio \in PortType /\ Len(sio.fifo) <= 1
  BY DEF DriverTypes
<1>3. b \in Cards!Byte /\ s \in PortType /\ Len(s.fifo) <= 1 /\ s.ctrl = On(p)
  BY <1>2, ExchangeRight, Codes
<1>4. Cards!Sent(m, r, n) \in Cards!Byte /\ Cards!SumAfter(m, r, n, b) \in Cards!Byte
  BY <1>1, <1>3, SentType
<1>5. /\ Cards!Exchange(s, Cards!Sent(m, r, n)) = Cards!WriteByte(Cleared(m), Cards!Sent(m, r, n))
      /\ Cleared(m) \in PortType /\ Cleared(m).fifo = << >> /\ Cleared(m).ctrl = On(p)
  BY <1>2, <1>4, ExchangeRight DEF Cleared
<1> DEFINE e == Cards!WriteByte(Cleared(m), Cards!Sent(m, r, n))
<1>6. e \in PortType /\ Len(e.fifo) <= 1 /\ e.ctrl = On(p)
  <2>1. "TXEN" \in Cleared(m).ctrl
    BY <1>5, OnRight
  <2>2. e \in PortType /\ Len(e.fifo) = 1 /\ e.ctrl = Cleared(m).ctrl
    BY <1>4, <1>5, <2>1, SendRight
  <2> HIDE DEF e
  <2> QED
    BY <1>5, <2>2
<1>7. t \in PortType /\ Len(t.fifo) <= 1 /\ t.ctrl = On(p)
  <2>1. t \in {s, e}
    BY <1>5
  <2> HIDE DEF t, s, e
  <2> QED
    BY <1>3, <1>6, <2>1
<1>8. /\ ireg' = 0
      /\ buffer' = IF filled THEN [buffer EXCEPT ![p][SectorSize] = b] ELSE buffer
      /\ IF Cards!GivesUp(m, n, b)
         THEN Cards!Ends(m, 0) /\ sio' = Cards!WriteCtrl(t, {})
         ELSE IF n < Cards!LastOp(r) THEN Cards!Goes(m, n, b, reported) /\ sio' = t
         ELSE /\ Cards!Ends(m, IF Cards!GoodEnd(r, t) THEN 1 ELSE 0)
              /\ sio' = Cards!WriteCtrl(Cards!Emptied(r, t), {})
      /\ UNCHANGED asked
  BY DEF Cards!Handle
<1> HIDE DEF t, s
<1> HIDE DEF e
<1>9. /\ buffer' \in [Cards!Slots -> Block \cup {<< >>}]
      /\ \A q \in Cards!Slots : buffer[q] \in Block => buffer'[q] \in Block
  <2>1. [buffer[p] EXCEPT ![SectorSize] = b] \in Block
    BY <1>1, <1>3 DEF Block
  <2> HIDE DEF b
  <2>2. buffer \in [Cards!Slots -> Block \cup {<< >>}]
    BY DEF DriverTypes
  <2>3. buffer' \in {[buffer EXCEPT ![p] = [buffer[p] EXCEPT ![SectorSize] = b]], buffer}
    BY <1>8
  <2> QED
    BY <1>1, <2>1, <2>2, <2>3
<1>10. ASSUME NEW x \in PortType, Len(x.fifo) <= 1, x.ctrl = On(p), NEW ok \in {0, 1},
              Cards!Ends(m, ok), sio' = Cards!WriteCtrl(x, {})
       PROVE  DriverTypes' /\ RequestOver(m)
  <2>1. Cards!Leaves(x, {})
    BY <1>10, OnRight DEF Cards!Leaves
  <2>2. sio' \in PortType /\ sio'.ctrl = {} /\ Quiet(sio') /\ sio'.fifo \in {x.fifo, << >>}
    BY <1>10, <2>1, ControlRight
  <2>3. /\ mc' = Cards!Over(m) /\ cardFlags' = [cardFlags EXCEPT ![p] = 1] /\ success' = ok
        /\ imask' = 0
    BY <1>10 DEF Cards!Ends
  <2>4. Cards!Over(m) \in Globals
    <3>1. Cards!Zero \in Cards!Byte /\ 0 \in 0 .. 12 /\ 0 \in Nat
      BY Codes
    <3> QED
      BY <3>1 DEF Cards!Over, Globals
  <2>5. Len(sio'.fifo) <= 1
    BY <1>10, <2>2
  <2> QED
    BY <1>1, <1>8, <1>9, <2>2, <2>3, <2>4, <2>5 DEF DriverTypes, RequestOver
<1>11. CASE Cards!GivesUp(m, n, b)
  BY <1>7, <1>8, <1>9, <1>10, <1>11
<1>12. CASE ~Cards!GivesUp(m, n, b) /\ n < Cards!LastOp(r)
  <2>1. Cards!Goes(m, n, b, reported) /\ sio' = t
    BY <1>8, <1>12
  <2>2. t = Cards!WriteByte(Cleared(m), Cards!Sent(m, r, n))
    <3>1. Cards!LastOp(r) \in {13, 10, 4}
      BY <1>1 DEF Cards!LastOp
    <3> QED
      BY <1>1, <1>5, <1>12, <3>1 DEF t, s
  <2>3. b \in Cards!Wanted(m, r, n)
    BY <1>12 DEF Cards!GivesUp
  <2>4. n \in 0 .. 12
    BY <1>1, <1>12 DEF Cards!LastOp
  <2>5. mc' = [m EXCEPT !.op = n, !.active = IF n = 1 THEN 1 ELSE m.active,
                        !.sum = Cards!SumAfter(m, r, n, b), !.fast = Cards!FastAfter(m, r, n)]
    BY <2>1 DEF Cards!Goes
  <2>6. Cards!FastAfter(m, r, n) \in {0, 1}
    BY DEF Cards!FastAfter, Globals
  <2>7. mc' \in Globals
    BY <1>4, <2>4, <2>5, <2>6 DEF Globals
  <2>8. cardFlags' = cardFlags /\ imask' = 1 /\ success' = reported
    BY <2>1 DEF Cards!Goes
  <2>9. DriverTypes'
    BY <1>7, <1>8, <1>9, <2>1, <2>7, <2>8 DEF DriverTypes
  <2> QED
    BY <1>8, <1>9, <1>12, <2>1, <2>2, <2>3, <2>5, <2>8, <2>9 DEF RequestGoesOn, s
<1>13. CASE ~Cards!GivesUp(m, n, b) /\ ~(n < Cards!LastOp(r))
  <2>1. /\ Cards!Emptied(r, t) \in PortType /\ Len(Cards!Emptied(r, t).fifo) <= 1
        /\ Cards!Emptied(r, t).ctrl = On(p)
    <3>1. Cards!Pulled(t) \in PortType /\ Cards!Pulled(t) = [t EXCEPT !.fifo = << >>]
      BY <1>7, FifoRight
    <3>2. /\ [t EXCEPT !.fifo = << >>].fifo = << >> /\ [t EXCEPT !.fifo = << >>].ctrl = t.ctrl
          /\ Len(<< >>) = 0
      BY <1>7 DEF PortType
    <3> QED
      BY <1>7, <3>1, <3>2 DEF Cards!Emptied
  <2>2. PICK ok \in {0, 1} : Cards!Ends(m, ok) /\ sio' = Cards!WriteCtrl(Cards!Emptied(r, t), {})
    BY <1>8, <1>13
  <2> QED
    BY <1>8, <1>9, <1>10, <2>1, <2>2
<1> QED
  BY <1>11, <1>12, <1>13

(* A request that is over leaves everything at rest. *)
LEMMA EndedRight ==
    ASSUME CardsInv, DriverTypes', NEW m \in Globals, RequestOver(m), asked' = asked,
           \A p \in Cards!Slots : buffer[p] \in Block => buffer'[p] \in Block
    PROVE  CardsInv'
<1>1. mc'.active = 0 /\ mc'.fast = 0
  BY DEF RequestOver, Cards!Over, Globals
<1>2. Requested'
  BY DEF CardsInv, DriverTypes, Requested, Cards!Busy, RequestOver, Cards!FlagOf
<1>3. Resting' /\ Counts' /\ Talking'
  BY <1>1 DEF RequestOver, Resting, Counts, Talking
<1> QED
  BY <1>2, <1>3 DEF CardsInv

(* A request that goes on: what the handler sent, and the answer. *)
LEMMA WentRight ==
    ASSUME CardsInv, DriverTypes', NEW m \in Globals, Engaged(m), RequestGoesOn(m), CountsOf(m),
           m.active = 1 \/ m.op = 0, m.fast = 0, ireg' = 0, asked' = asked,
           sio.due = 0 \/ (m.op = 0 /\ m.count = 0),
           sio.device \in {Cards!Access, Cards!Ignore} \/ m.count = 0,
           sio.device = Cards!Ignore => m.op <= 1 /\ m.count = 0,
           asked[m.port].op = "write" /\ sio.device = Cards!Access => Follows(m),
           \A p \in Cards!Slots : buffer[p] \in Block => buffer'[p] \in Block
    PROVE  CardsInv'
<1> DEFINE n == m.op + 1
           p == m.port
           r == asked[p]
           b == Cards!Fifo(Cards!Selected(m, n))
           u == Cleared(m)
           byte == Cards!Sent(m, r, n)
           t == Cards!WriteByte(u, byte)
           c == sio.card[p]
<1>1. /\ p \in Cards!Slots /\ r \in Asked /\ r.op \in {"read", "write", "info"} /\ n \in 1 .. 13
      /\ m.op \in 0 .. 12
      /\ m.count \in Nat /\ SectorSize \in Nat /\ SectorSize >= 2
  BY Sizes DEF CardsInv, DriverTypes, Requested, Globals, Cards!Slots, Asked, CountsOf
<1>2. sio \in PortType /\ Len(sio.fifo) <= 1 /\ c \in CardStates
  BY <1>1 DEF CardsInv, DriverTypes, PortType, Cards!Slots
<1>3. b \in Cards!Byte /\ byte \in Cards!Byte
  BY <1>1, <1>2, ExchangeRight, SentType, Codes
<1>4. /\ u \in PortType /\ u.ctrl = On(p) /\ u.fifo = << >> /\ u.device = sio.device
      /\ u.due = sio.due /\ u.card = sio.card /\ Cards!Port(u) = p
      /\ m.op # 6 /\ sio.fifo # << >> => b = Head(sio.fifo)
  BY <1>2, <1>3, ExchangeRight DEF Cleared
<1>5. /\ n < Cards!LastOp(r) /\ b \in Cards!Wanted(m, r, n) /\ cardFlags' = cardFlags /\ sio' = t
      /\ mc' = [m EXCEPT !.op = n, !.active = IF n = 1 THEN 1 ELSE m.active,
                         !.sum = Cards!SumAfter(m, r, n, b), !.fast = Cards!FastAfter(m, r, n)]
  BY DEF RequestGoesOn
<1>6. /\ mc'.op = n /\ mc'.active = 1 /\ mc'.fast = Cards!FastAfter(m, r, n)
      /\ mc'.count = m.count /\ mc'.port = p
  BY <1>1, <1>5 DEF Globals
<1> HIDE DEF b, u
<1>7. \/ sio.device \in {Cards!Access, Cards!Ignore}
      \/ sio.device = Cards!None /\ byte = Cards!Access /\ m.op = 0 /\ c.command = Cards!Zero
  BY <1>1 DEF Engaged, Quiet, Cards!Sent, Cards!Slots
<1>8. /\ sio'.ctrl = On(p)
      /\ sio'.device \in {Cards!Access, Cards!Ignore}
      /\ sio'.device = Cards!Ignore => sio'.due = sio.due
      /\ sio'.device = Cards!Access => /\ sio.device # Cards!Ignore
                                       /\ sio'.card[p] = Cards!Transceive(c, byte).card
                                       /\ sio'.fifo = <<c.spdr>>
  <2>1. "TXEN" \in u.ctrl
    BY <1>4, OnRight
  <2> HIDE DEF byte
  <2>2. u.device \in {Cards!Access, Cards!Ignore} \/ (u.device = Cards!None /\ byte = Cards!Access)
    BY <1>4, <1>7
  <2> QED
    BY <1>3, <1>4, <1>5, <2>1, <2>2, SendRight
<1>9. \A q : Cards!Busy(q)' <=> Cards!Busy(q)
  BY <1>5 DEF Cards!Busy
<1>10. r.op = "write" /\ m.count > 0 => n \notin {4, 5}
  <2> SUFFICES ASSUME r.op = "write", m.count > 0
               PROVE  n \notin {4, 5}
    OBVIOUS
  <2>1. m.op # 4
    BY DEF CountsOf
  <2>2. ASSUME m.op = 3 PROVE FALSE
    <3>1. sio.device = Cards!Access
      BY <1>1, <2>2
    <3>2. b = Head(sio.fifo) /\ Head(sio.fifo) # Cards!ID1
      BY <1>4, <2>2, <3>1 DEF Follows
    <3>3. Cards!Wanted(m, r, n) = {Cards!ID1}
      BY <2>2 DEF Cards!Wanted
    <3> QED
      BY <1>5, <3>2, <3>3
  <2> QED
    BY <1>1, <2>1, <2>2
<1>11. CountsOf(mc)'
  <2>1. CASE r.op = "info"
    BY <1>1, <1>5, <1>6, <1>9, <2>1 DEF CountsOf, Cards!FastAfter
  <2>2. CASE r.op = "write"
    <3>1. n = 6 => m.count = 0
      BY <1>1, <2>2 DEF CountsOf
    <3> QED
      BY <1>1, <1>6, <1>9, <1>10, <2>2, <3>1 DEF CountsOf, Cards!FastAfter
  <2>3. CASE r.op = "read"
    BY <1>1, <1>6, <1>9, <2>3 DEF CountsOf, Cards!FastAfter
  <2> QED
    BY <1>1, <2>1, <2>2, <2>3
<1>12. ASSUME r.op = "write", sio'.device = Cards!Access
       PROVE  Follows(mc)'
  <2> DEFINE d == Cards!Transceive(c, byte).card
  <2>1. /\ d.command = IF c.command \in {Cards!Zero, Cards!Access} THEN byte ELSE c.command
        /\ d.command = Cards!Write => /\ d.ticks = c.ticks + 1 \/ (c.ticks >= 5 /\ d.ticks >= 5)
                                      /\ c.ticks >= 5 /\ byte # Cards!ID1 => d.spdr # Cards!ID1
        /\ c.ticks \in Nat /\ d.ticks \in Nat /\ (c.command = Cards!Access => c.ticks = 0)
    BY <1>2, <1>3, TransceiveRight, Codes DEF CardStates, CardType
  <2>2. sio'.card[p] = d /\ sio'.fifo = <<c.spdr>>
    BY <1>8, <1>12
  <2>0. (n = 1 => byte = Cards!Access) /\ (n = 2 => byte = Cards!Write)
    BY <1>1, <1>12 DEF Cards!Sent
  <2>5. Cards!Write # Cards!Zero /\ Cards!Write # Cards!Access /\ Cards!Write # Cards!ID1
    BY Codes
  <2>6. /\ (c.command = Cards!Access => d.command = byte)
        /\ (c.command = Cards!Write => d.command = Cards!Write)
    BY <2>1, <2>5
  <2> HIDE DEF d, byte
  <2>3. CASE sio.device # Cards!Access
    <3>1. m.op = 0 /\ c.command = Cards!Zero /\ m.count = 0 /\ byte = Cards!Access
      BY <1>7, <1>8, <1>12, <2>3
    <3>2. d.command = Cards!Access /\ mc'.op = 1 /\ mc'.count = 0 /\ mc'.fast = 0
      BY <1>6, <2>1, <3>1, <1>12 DEF Cards!FastAfter
    <3> QED
      BY <1>6, <2>2, <3>2 DEF Follows
  <2>4. CASE sio.device = Cards!Access
    <3>1. Follows(m)
      BY <1>12, <2>4
    <3>2. CASE n = 1
      <4>1. byte = Cards!Access /\ Cards!FastAfter(m, r, n) = 0
        BY <2>0, <3>2 DEF Cards!FastAfter
      <4>2. d.command = Cards!Access \/ (d.command = Cards!Write /\ d.ticks >= 1)
        BY <1>1, <2>1, <2>6, <3>1, <3>2, <4>1 DEF Follows
      <4>3. m.count > 0 => d.command = Cards!Write /\ d.ticks >= 5
        BY <1>1, <2>1, <2>6, <3>1, <3>2 DEF Follows
      <4> QED
        BY <1>1, <1>6, <2>2, <3>2, <4>1, <4>2, <4>3 DEF Follows
    <3>3. CASE n = 2
      <4>1. byte = Cards!Write /\ Cards!FastAfter(m, r, n) = 0
        BY <2>0, <3>3 DEF Cards!FastAfter
      <4>2. d.command = Cards!Write /\ d.ticks >= 1
        BY <1>1, <2>1, <2>5, <2>6, <3>1, <3>3, <4>1 DEF Follows
      <4>3. m.count > 0 => d.ticks >= 5 /\ d.spdr # Cards!ID1
        BY <1>1, <2>1, <2>5, <3>1, <3>3, <4>1, <4>2 DEF Follows
      <4> QED
        BY <1>1, <1>6, <2>2, <3>3, <4>1, <4>2, <4>3 DEF Follows
    <3>4. CASE n >= 3
      <4>1. c.command = Cards!Write /\ c.ticks >= 1 /\ (c.ticks >= 5 \/ c.ticks >= n - 2)
        BY <1>1, <3>1, <3>4 DEF Follows
      <4>2. d.command = Cards!Write /\ d.ticks >= 1 /\ (d.ticks >= 5 \/ d.ticks >= n - 1)
        BY <1>1, <2>1, <2>6, <4>1
      <4>3. m.count > 0 => d.ticks >= 5
        BY <1>1, <2>1, <3>1, <4>2 DEF Follows
      <4>4. n = 6 => d.ticks >= 5
        BY <1>1, <4>2
      <4>5. mc'.fast = 1 => n = 6
        BY <1>6, <1>12 DEF Cards!FastAfter
      <4>6. n = 3 /\ m.count > 0 => c.spdr # Cards!ID1
        BY <1>1, <3>1 DEF Follows
      <4>7. sio'.fifo # << >> /\ Head(sio'.fifo) = c.spdr
        BY <2>2
      <4> QED
        BY <1>1, <1>6, <2>2, <3>4, <4>2, <4>3, <4>4, <4>5, <4>6, <4>7 DEF Follows
    <3> QED
      BY <1>1, <3>2, <3>3, <3>4
  <2> QED
    BY <2>3, <2>4
<1>13. Talking'
  <2>1. sio'.device = Cards!Ignore => \/ sio'.due = 0
                                      \/ mc'.op <= 1 /\ mc'.fast = 0 /\ mc'.count = 0
    BY <1>6, <1>8 DEF Cards!FastAfter
  <2> QED
    BY <1>6, <1>8, <1>12, <2>1 DEF Talking
<1>14. Requested'
  <2>1. \A q \in Cards!Slots : Cards!Busy(q) =>
            /\ asked[q].op # "none" /\ cardFlags[q] = Cards!FlagOf(asked[q].op)
            /\ buffer[q] \in Block
    BY DEF CardsInv, Requested
  <2>2. asked' = asked /\ cardFlags' = cardFlags
    BY <1>5
  <2> QED
    BY <1>9, <2>1, <2>2 DEF Requested
<1>15. Resting' /\ Counts'
  BY <1>6, <1>11 DEF Resting, Counts
<1> QED
  BY <1>13, <1>14, <1>15 DEF CardsInv

-----------------------------------------------------------------------------
(* Every action keeps the invariant.                                       *)
LEMMA HandledRight ==
    ASSUME CardsInv, NEW m \in Globals, Engaged(m), CountsOf(m), NEW reported \in {0, 1},
           Cards!Handle(m, reported), stage' \in Cards!Stages,
           m.active = 1 \/ m.op = 0, m.fast = 0,
           sio.due = 0 \/ (m.op = 0 /\ m.count = 0),
           sio.device \in {Cards!Access, Cards!Ignore} \/ m.count = 0,
           sio.device = Cards!Ignore => m.op <= 1 /\ m.count = 0,
           asked[m.port].op = "write" /\ sio.device = Cards!Access => Follows(m)
    PROVE  CardsInv'
<1>1. DriverTypes /\ Requested /\ Cards!Busy(m.port)
  BY DEF CardsInv, CountsOf
<1>2. /\ DriverTypes'
      /\ ireg' = 0 /\ asked' = asked
      /\ \A p \in Cards!Slots : buffer[p] \in Block => buffer'[p] \in Block
      /\ RequestOver(m) \/ RequestGoesOn(m)
  BY <1>1, HandleRight
<1>3. CASE RequestOver(m)
  BY <1>2, <1>3, EndedRight
<1>4. CASE RequestGoesOn(m)
  BY <1>2, <1>4, WentRight
<1> QED
  BY <1>2, <1>3, <1>4

LEMMA McHandlerRight == ASSUME CardsInv, Cards!McHandler PROVE CardsInv'
<1>1. /\ stage = "idle" /\ mc.active = 1 /\ ireg = 1 /\ mc.fast = 0 /\ Cards!Handle(mc, success)
      /\ stage' = stage
      /\ mc \in Globals /\ success \in {0, 1} /\ stage \in Cards!Stages
  BY DEF Cards!McHandler, CardsInv, DriverTypes
<1>2. /\ CountsOf(mc) /\ Engaged(mc) /\ sio.due = 0
      /\ sio.device = Cards!Ignore => mc.op <= 1 /\ mc.count = 0
      /\ sio.device \in {Cards!Access, Cards!Ignore}
      /\ asked[mc.port].op = "write" /\ sio.device = Cards!Access => Follows(mc)
  BY <1>1 DEF CardsInv, Counts, Talking, Engaged
<1> QED
  BY <1>1, <1>2, HandledRight

LEMMA FirstRight == ASSUME CardsInv, Cards!Start, stage' \in Cards!Stages PROVE CardsInv'
<1>1. /\ Cards!Started \in Globals /\ Cards!Started.op = 0 /\ Cards!Started.fast = 0
      /\ Cards!Started.count = 0 /\ Cards!Started.port = Cards!Flipped.port
  <2>1. mc \in Globals /\ 1 - mc.port \in {0, 1} /\ 0 \in 0 .. 12
    BY DEF CardsInv, DriverTypes, Globals
  <2>2. Cards!Flipped \in Globals
    BY <2>1 DEF Cards!Flipped, Globals
  <2> QED
    BY <2>1, <2>2 DEF Cards!Started, Globals
<1>2. /\ sio.ctrl = {} /\ Quiet(sio) /\ Cards!Busy(Cards!Flipped.port)
      /\ Cards!Handle(Cards!Started, 0)
  BY DEF Cards!Start, CardsInv, Resting
<1>3. Engaged(Cards!Started) /\ CountsOf(Cards!Started)
  BY <1>1, <1>2, Sizes DEF Engaged, CountsOf
<1>4. sio.device # Cards!Access /\ sio.device # Cards!Ignore
  BY <1>2, Codes DEF Quiet, Cards!None
<1> QED
  BY <1>1, <1>2, <1>3, <1>4, HandledRight

LEMMA AbortRight == ASSUME CardsInv, Cards!Abort, stage' \in Cards!Stages PROVE CardsInv'
<1> DEFINE a == Cards!WriteCtrl(sio, {})
           b == Cards!WriteCtrl(a, {"IR"})
<1>1. /\ Cards!Ends(mc, 0) /\ sio' = Cards!WriteCtrl(b, {}) /\ ireg' = 0
      /\ UNCHANGED <<asked, buffer>>
  BY DEF Cards!Abort
<1>2. {} \in SUBSET Bits /\ {"IR"} \in SUBSET Bits /\ Len(<< >>) = 0
  BY DEF Bits
<1>3. sio \in PortType /\ Len(sio.fifo) <= 1 /\ mc \in Globals
  BY DEF CardsInv, DriverTypes
<1>4. a \in PortType /\ a.fifo \in {sio.fifo, << >>}
  BY <1>2, <1>3, ControlRight
<1> HIDE DEF a
<1>5. b \in PortType /\ Quiet(b) /\ b.fifo \in {a.fifo, << >>}
  BY <1>2, <1>4, ControlRight
<1> HIDE DEF b
<1>6. sio' \in PortType /\ Quiet(sio') /\ sio'.ctrl = {} /\ sio'.fifo \in {b.fifo, << >>}
  BY <1>1, <1>2, <1>5, ControlRight
<1>7. Len(sio'.fifo) <= 1
  BY <1>2, <1>3, <1>4, <1>5, <1>6
<1>8. /\ mc' = Cards!Over(mc) /\ cardFlags' = [cardFlags EXCEPT ![mc.port] = 1] /\ success' = 0
      /\ imask' = 0
  BY <1>1 DEF Cards!Ends
<1>9. Cards!Over(mc) \in Globals
  <2>1. Cards!Zero \in Cards!Byte /\ 0 \in 0 .. 12 /\ 0 \in Nat
    BY Codes
  <2> QED
    BY <1>3, <2>1 DEF Cards!Over, Globals
<1>10. DriverTypes' /\ RequestOver(mc)
  BY <1>1, <1>6, <1>7, <1>8, <1>9 DEF CardsInv, DriverTypes, RequestOver
<1> QED
  BY <1>1, <1>3, <1>10, EndedRight

LEMMA FirstStageRight == ASSUME CardsInv, Cards!FirstStage PROVE CardsInv'
<1>1. stage' \in Cards!Stages
  BY DEF Cards!FirstStage, Cards!Stages
<1>2. CASE Cards!PassOver
  <2>1. Cards!Flipped \in Globals /\ Cards!Flipped.active = 0 /\ Cards!Flipped.fast = mc.fast
    BY <1>2 DEF Cards!PassOver, Cards!Flipped, CardsInv, DriverTypes, Globals
  <2>2. /\ mc' = Cards!Flipped /\ success' = 0 /\ mc.active = 0
        /\ UNCHANGED <<sio, ireg, imask, asked, cardFlags, buffer>>
    BY <1>2 DEF Cards!PassOver
  <2>3. DriverTypes'
    BY <1>1, <2>1, <2>2 DEF CardsInv, DriverTypes
  <2>4. Requested'
    BY <2>2 DEF CardsInv, Requested, Cards!Busy
  <2>5. Resting' /\ Counts' /\ Talking'
    BY <2>1, <2>2 DEF CardsInv, Resting, Counts, Talking
  <2> QED
    BY <2>3, <2>4, <2>5 DEF CardsInv
<1> QED
  BY <1>1, <1>2, AbortRight, FirstRight DEF Cards!FirstStage

(* A request comes only when the slot is free, so that it is the other one  *)
(* than that of the request under way.                                      *)
LEMMA AskRight == ASSUME CardsInv, NEW p \in Cards!Slots, Cards!Ask(p) PROVE CardsInv'
<1>1. PICK request \in MCRequests(p) :
         /\ asked' = [asked EXCEPT ![p] = request]
         /\ buffer' = [buffer EXCEPT ![p] = request.data]
         /\ cardFlags' = [cardFlags EXCEPT ![p] = Cards!FlagOf(request.op)]
  BY DEF Cards!Ask
<1>2. /\ stage = "idle" /\ cardFlags[p] = 1 /\ mc' = [mc EXCEPT !.op = 0]
      /\ UNCHANGED <<sio, ireg, imask, stage, success>>
  BY DEF Cards!Ask, Cards!Busy
<1>3. /\ request.op \in {"read", "write", "info"} /\ request \in Asked /\ request.data \in Block
  <2>1. request \in [op : {"read", "write", "info"}, sector : Cards!Byte \X Cards!Byte, data : Cards!Data]
    BY CardsAssumption DEF Cards!DriverAssumption, Cards!Slots
  <2>2. Cards!Data \subseteq Block
    BY Sizes DEF Cards!Data, Block
  <2> QED
    BY <2>1, <2>2 DEF Asked
<1>4. Cards!FlagOf(request.op) \in {0, 2, 4}
  BY <1>3 DEF Cards!FlagOf
<1>5. /\ mc' \in Globals /\ mc'.op = 0 /\ mc'.port = mc.port /\ mc'.active = mc.active
      /\ mc'.fast = mc.fast /\ mc'.count = mc.count
  BY <1>2 DEF CardsInv, DriverTypes, Globals
<1>6. DriverTypes'
  BY <1>1, <1>2, <1>3, <1>4, <1>5 DEF CardsInv, DriverTypes
<1>7. Requested'
  BY <1>1, <1>3, <1>4 DEF CardsInv, DriverTypes, Requested, Cards!Busy
<1>8. Resting'
  BY <1>2, <1>5 DEF CardsInv, Resting
<1>9. ASSUME mc.active = 1
      PROVE  CountsOf(mc)' /\ mc.port # p /\ asked'[mc.port] = asked[mc.port]
  <2>1. /\ CountsOf(mc) /\ mc.port \in Cards!Slots /\ mc.count \in Nat /\ mc.fast \in {0, 1}
        /\ mc.op \in 0 .. 12
    BY <1>9 DEF CardsInv, DriverTypes, Counts, Globals, Cards!Slots
  <2>2. mc.port # p /\ p = 1 - mc.port
    BY <1>2, <2>1 DEF CountsOf, Cards!Busy, Cards!Slots
  <2>3. /\ asked'[mc.port] = asked[mc.port] /\ cardFlags'[mc.port] = cardFlags[mc.port]
        /\ cardFlags'[p] # 1
    BY <1>1, <1>4, <2>1, <2>2 DEF CardsInv, DriverTypes
  <2>4. ~Cards!Busy(1 - mc.port) /\ Cards!Busy(mc.port)' /\ Cards!Busy(1 - mc.port)'
    BY <1>2, <1>4, <2>1, <2>2, <2>3 DEF CountsOf, Cards!Busy
  <2>5. asked[mc.port].op = "read" => /\ mc.count < SectorSize
                                      /\ mc.fast = 1 => mc.count <= SectorSize - 2
    BY <2>1, <2>4, Sizes DEF CountsOf
  <2> QED
    BY <1>5, <2>1, <2>2, <2>3, <2>4, <2>5, Sizes DEF CountsOf
<1>10. Counts'
  BY <1>5, <1>9 DEF Counts
<1>11. ASSUME mc.active = 1
       PROVE  Talking'
  <2>1. /\ sio.ctrl = On(mc.port) /\ sio.device \in {Cards!Access, Cards!Ignore}
        /\ sio.due = 0 \/ ireg = 0
        /\ sio.device = Cards!Ignore => \/ sio.due = 0 /\ ireg = 0
                                        \/ mc.op <= 1 /\ mc.fast = 0 /\ mc.count = 0
        /\ asked[mc.port].op = "write" /\ sio.device = Cards!Access => Follows(mc)
    BY <1>2, <1>11 DEF CardsInv, Talking
  <2>2. mc.op \in 0 .. 12
    BY DEF CardsInv, DriverTypes, Globals
  <2>3. Follows(mc) => Follows(mc)'
    BY <1>2, <1>5, <2>2 DEF Follows
  <2> QED
    BY <1>2, <1>5, <1>9, <1>11, <2>1, <2>3 DEF Talking
<1> QED
  BY <1>5, <1>6, <1>7, <1>8, <1>10, <1>11 DEF CardsInv, Talking

LEMMA QuietStepsRight ==
    ASSUME CardsInv,
           Cards!AllowNewCard \/ Cards!VBlank \/ Cards!Interrupt \/ Cards!Insert \/ UNCHANGED Cards!vars
    PROVE  CardsInv'
<1>1. CASE Cards!AllowNewCard
  <2>1. /\ mc' = [mc EXCEPT !.skip = 1]
        /\ UNCHANGED <<sio, ireg, imask, stage, asked, cardFlags, buffer, success>>
    BY <1>1 DEF Cards!AllowNewCard
  <2>2. /\ mc' \in Globals /\ mc'.op = mc.op /\ mc'.port = mc.port /\ mc'.active = mc.active
        /\ mc'.fast = mc.fast /\ mc'.count = mc.count
    BY <2>1 DEF CardsInv, DriverTypes, Globals
  <2>3. DriverTypes'
    BY <2>1, <2>2 DEF CardsInv, DriverTypes
  <2>4. Requested' /\ Resting'
    BY <2>1, <2>2 DEF CardsInv, Requested, Resting, Cards!Busy
  <2>5. Counts'
    BY <2>1, <2>2 DEF CardsInv, Counts, CountsOf, Cards!Busy
  <2>6. Talking'
    BY <2>1, <2>2 DEF CardsInv, Talking, Follows
  <2> QED
    BY <2>3, <2>4, <2>5, <2>6 DEF CardsInv
<1>2. CASE Cards!VBlank
  <2>1. /\ stage' \in {"pad0", "card"}
        /\ UNCHANGED <<sio, ireg, imask, mc, asked, cardFlags, buffer, success>>
    BY <1>2 DEF Cards!VBlank
  <2> QED
    BY <2>1 DEF CardsInv, DriverTypes, Cards!Stages, Requested, Resting, Counts, CountsOf,
         Talking, Cards!Busy
<1>3. CASE Cards!Interrupt \/ Cards!Insert
  <2>1. /\ sio' \in PortType /\ sio'.ctrl = sio.ctrl /\ sio'.fifo = sio.fifo
        /\ sio'.device = sio.device
        /\ sio'.card = sio.card
        /\ \/ sio.due = 1 /\ sio'.due = 0 /\ ireg' = 1
           \/ sio'.due = sio.due /\ ireg' = ireg
        /\ UNCHANGED <<imask, stage, mc, asked, cardFlags, buffer, success>>
    <3>1. sio \in PortType
      BY DEF CardsInv, DriverTypes
    <3>2. CASE Cards!Interrupt
      BY <3>1, <3>2 DEF Cards!Interrupt, PortType
    <3>3. CASE Cards!Insert
      <4>1. PICK p \in Removable : sio' = [sio EXCEPT !.inserted[p] = 1 - @]
        BY <3>3 DEF Cards!Insert
      <4>2. p \in {0, 1}
        BY <4>1, CardsAssumption DEF Cards!DriverAssumption
      <4>3. 1 - sio.inserted[p] \in {0, 1}
        BY <3>1, <4>2 DEF PortType
      <4> QED
        BY <3>1, <3>3, <4>1, <4>2, <4>3 DEF Cards!Insert, PortType
    <3> QED
      BY <1>3, <3>2, <3>3
  <2>2. DriverTypes'
    BY <2>1 DEF CardsInv, DriverTypes
  <2>3. Requested' /\ Resting'
    BY <2>1 DEF CardsInv, Requested, Resting, Cards!Busy, Quiet
  <2>4. Counts'
    BY <2>1 DEF CardsInv, Counts, CountsOf, Cards!Busy
  <2>5. Talking'
    BY <2>1 DEF CardsInv, Talking, Follows
  <2> QED
    BY <2>2, <2>3, <2>4, <2>5 DEF CardsInv
<1>4. CASE UNCHANGED Cards!vars
  BY <1>4 DEF Cards!vars, CardsInv, DriverTypes, Requested, Resting, Counts, CountsOf, Talking,
       Follows, Cards!Busy
<1> QED
  BY <1>1, <1>2, <1>3, <1>4

(* The fast track: the count stays within the sector, and the card that is  *)
(* written to goes on collecting.                                           *)
LEMMA FastRight ==
    ASSUME CardsInv, Cards!FastTrack, NEW sent \in Cards!Byte, NEW byte \in Cards!Byte, NEW last \in Int,
           Cards!FastByte(sent), Cards!Counted(byte, last),
           \/ asked[mc.port].op = "write" /\ last = SectorSize - 1
           \/ asked[mc.port].op = "read" /\ last = SectorSize - 2,
           buffer' \in [Cards!Slots -> Block \cup {<< >>}],
           \A p \in Cards!Slots : buffer[p] \in Block => buffer'[p] \in Block
    PROVE  CardsInv'
<1> DEFINE p == mc.port
           u == Cards!Pulled(sio)
           t == Cards!WriteByte(u, sent)
           c == sio.card[p]
           d == Cards!Transceive(c, sent).card
<1>1. /\ stage = "idle" /\ mc.fast = 1 /\ ireg = 1 /\ mc.active = 1
      /\ sio' = t /\ ireg' = 0 /\ UNCHANGED <<imask, stage, asked, cardFlags, success>>
      /\ mc' = [mc EXCEPT !.count = mc.count + 1, !.sum = Cards!SymDiff(mc.sum, byte),
                          !.fast = IF mc.count + 1 > last THEN 0 ELSE 1]
  <2>1. mc.active # 0
    BY DEF Cards!FastTrack, CardsInv, Resting
  <2> QED
    BY <2>1 DEF Cards!FastTrack, Cards!FastByte, Cards!Counted, CardsInv, DriverTypes, Globals
<1>2. /\ sio \in PortType /\ Len(sio.fifo) <= 1 /\ mc \in Globals /\ p \in Cards!Slots
      /\ mc.count \in Nat
      /\ SectorSize \in Nat /\ SectorSize >= 2 /\ mc.op \in 0 .. 12 /\ CountsOf(mc)
  BY <1>1, Sizes DEF CardsInv, DriverTypes, Counts, Globals, Cards!Slots
<1>3. /\ sio.ctrl = On(p) /\ sio.device = Cards!Access /\ sio.due = 0
      /\ asked[p].op = "write" => Follows(mc)
  BY <1>1, <1>2 DEF CardsInv, Talking
<1>4. /\ u \in PortType /\ u.ctrl = On(p) /\ u.fifo = << >> /\ u.device = Cards!Access
      /\ u.due = 0 /\ u.card = sio.card /\ Cards!Port(u) = p
  <2>1. u = [sio EXCEPT !.fifo = << >>] /\ u \in PortType
    BY <1>2, FifoRight
  <2>2. /\ u.ctrl = On(p) /\ u.fifo = << >> /\ u.device = Cards!Access /\ u.due = 0
        /\ u.card = sio.card
    BY <1>2, <1>3, <2>1 DEF PortType
  <2> QED
    BY <1>2, <2>1, <2>2 DEF Cards!Port, On, Cards!Mask, Cards!Slots
<1> HIDE DEF u
<1>5. /\ sio' \in PortType /\ Len(sio'.fifo) = 1 /\ sio'.ctrl = On(p)
      /\ sio'.device \in {Cards!Access, Cards!Ignore}
      /\ sio'.device = Cards!Ignore => sio'.due = 0
      /\ sio'.device = Cards!Access => sio'.card[p] = d
  <2>1. "TXEN" \in u.ctrl
    BY <1>4, OnRight
  <2> QED
    BY <1>1, <1>4, <2>1, SendRight
<1>6. /\ mc' \in Globals /\ mc'.op = mc.op /\ mc'.port = p /\ mc'.active = 1
      /\ mc'.count = mc.count + 1 /\ mc'.fast = IF mc.count + 1 > last THEN 0 ELSE 1
  <2> DEFINE sum == Cards!SymDiff(mc.sum, byte)
             fast == IF mc.count + 1 > last THEN 0 ELSE 1
  <2>1. sum \in Cards!Byte /\ fast \in {0, 1} /\ mc.count + 1 \in Nat
    BY <1>2, XorType DEF Globals
  <2>2. mc' = [mc EXCEPT !.count = mc.count + 1, !.sum = sum, !.fast = fast]
    BY <1>1
  <2> HIDE DEF sum, fast
  <2>3. /\ mc' \in Globals /\ mc'.op = mc.op /\ mc'.port = p /\ mc'.active = 1
        /\ mc'.count = mc.count + 1 /\ mc'.fast = fast
    BY <1>1, <1>2, <2>1, <2>2 DEF Globals
  <2> QED
    BY <2>3 DEF fast
<1>7. DriverTypes'
  BY <1>1, <1>5, <1>6 DEF CardsInv, DriverTypes
<1>8. Requested' /\ Resting'
  BY <1>1, <1>6 DEF CardsInv, Requested, Resting, Cards!Busy
<1>9. CountsOf(mc)'
  BY <1>1, <1>2, <1>6 DEF CountsOf, Cards!Busy
<1>10. ASSUME asked[p].op = "write", sio'.device = Cards!Access
       PROVE  Follows(mc)'
  <2>1. c.command = Cards!Write /\ c.ticks >= 5 /\ mc.op \in {0, 6}
    BY <1>1, <1>2, <1>3, <1>10 DEF Follows, CountsOf
  <2>2. c \in CardStates /\ c.ticks \in Nat
    BY <1>2 DEF PortType, Cards!Slots, CardStates, CardType
  <2>3. /\ d.command = IF c.command \in {Cards!Zero, Cards!Access} THEN sent ELSE c.command
        /\ d.command = Cards!Write => d.ticks = c.ticks + 1 \/ d.ticks >= 5
        /\ d.ticks \in Nat
    BY <2>2, TransceiveRight DEF CardStates, CardType
  <2>4. Cards!Write # Cards!Zero /\ Cards!Write # Cards!Access
    BY Codes
  <2>5. d.command = Cards!Write /\ d.ticks >= 5
    BY <2>1, <2>2, <2>3, <2>4
  <2> HIDE DEF d
  <2> QED
    BY <1>5, <1>6, <1>10, <2>1, <2>3, <2>5 DEF Follows
<1>11. Talking'
  BY <1>1, <1>5, <1>6, <1>10 DEF Talking
<1> QED
  BY <1>6, <1>7, <1>8, <1>9, <1>11 DEF CardsInv, Counts

LEMMA FastWriteRight == ASSUME CardsInv, Cards!FastWrite PROVE CardsInv'
<1> DEFINE byte == buffer[mc.port][mc.count + 1]
<1>1. /\ Cards!FastTrack /\ cardFlags[mc.port] = 4 /\ Cards!FastByte(byte)
      /\ Cards!Counted(byte, SectorSize - 1)
      /\ buffer' = buffer
  BY DEF Cards!FastWrite
<1>2. /\ mc.active = 1 /\ mc.fast = 1 /\ mc.port \in Cards!Slots /\ mc.count \in Nat
  BY <1>1 DEF Cards!FastTrack, CardsInv, DriverTypes, Resting, Globals, Cards!Slots
<1>3. mc.count < SectorSize /\ Cards!Busy(mc.port)
  BY <1>2 DEF CardsInv, Counts, CountsOf
<1>4. asked[mc.port].op = "write" /\ buffer[mc.port] \in Block
  BY <1>1, <1>2, <1>3 DEF CardsInv, DriverTypes, Requested, Cards!FlagOf, Asked
<1>5. byte \in Cards!Byte
  BY <1>2, <1>3, <1>4, Sizes DEF Block
<1>6. SectorSize - 1 \in Int /\ buffer \in [Cards!Slots -> Block \cup {<< >>}]
  BY Sizes DEF CardsInv, DriverTypes
<1> QED
  BY <1>1, <1>4, <1>5, <1>6, FastRight

LEMMA FastReadRight == ASSUME CardsInv, Cards!FastRead PROVE CardsInv'
<1> DEFINE byte == Cards!Fifo(sio)
<1>1. /\ Cards!FastTrack /\ cardFlags[mc.port] = 2 /\ Cards!FastByte(Cards!Zero)
      /\ Cards!Counted(byte, SectorSize - 2)
      /\ buffer' = [buffer EXCEPT ![mc.port][mc.count + 1] = byte]
  BY DEF Cards!FastRead
<1>2. /\ mc.active = 1 /\ mc.fast = 1 /\ mc.port \in Cards!Slots /\ mc.count \in Nat
  BY <1>1 DEF Cards!FastTrack, CardsInv, DriverTypes, Resting, Globals, Cards!Slots
<1>3. mc.count < SectorSize /\ Cards!Busy(mc.port)
  BY <1>2 DEF CardsInv, Counts, CountsOf
<1>4. asked[mc.port].op = "read" /\ buffer[mc.port] \in Block
  BY <1>1, <1>2, <1>3 DEF CardsInv, DriverTypes, Requested, Cards!FlagOf, Asked
<1>5. byte \in Cards!Byte /\ Cards!Zero \in Cards!Byte
  BY Codes, FifoRight DEF CardsInv, DriverTypes
<1> HIDE DEF byte
<1>6. [buffer[mc.port] EXCEPT ![mc.count + 1] = byte] \in Block
  BY <1>4, <1>5 DEF Block
<1>7. SectorSize - 2 \in Int /\ buffer \in [Cards!Slots -> Block \cup {<< >>}]
  BY Sizes DEF CardsInv, DriverTypes
<1>8. /\ buffer' \in [Cards!Slots -> Block \cup {<< >>}]
      /\ \A p \in Cards!Slots : buffer[p] \in Block => buffer'[p] \in Block
  BY <1>1, <1>2, <1>6, <1>7
<1> QED
  BY <1>1, <1>4, <1>5, <1>7, <1>8, FastRight

(* A poll of a controller takes an answer for every byte, and leaves the    *)
(* port off and the cards without a command.                                *)
LEMMA PadRight ==
    ASSUME NEW s \in PortType, NEW byte \in Cards!Byte, s.fifo = << >>, "TXEN" \in s.ctrl
    PROVE  LET t == Cards!Pulled(Cards!WriteByte(s, byte))
           IN  t \in PortType /\ t.fifo = << >> /\ t.ctrl = s.ctrl
<1> DEFINE w == Cards!WriteByte(s, byte)
<1>1. w \in PortType /\ Len(w.fifo) = 1 /\ w.ctrl = s.ctrl
  BY SendRight
<1>0. Len(w.fifo) <= 1
  BY <1>1
<1> HIDE DEF w
<1>2. Cards!Pulled(w) \in PortType /\ Cards!Pulled(w) = [w EXCEPT !.fifo = << >>]
  BY <1>0, <1>1, FifoRight
<1>3. [w EXCEPT !.fifo = << >>].fifo = << >> /\ [w EXCEPT !.fifo = << >>].ctrl = w.ctrl
  BY <1>1 DEF PortType
<1> QED
  BY <1>1, <1>2, <1>3 DEF w

LEMMA PolledRight ==
    ASSUME NEW s \in PortType, s.fifo = << >>, "TXEN" \in s.ctrl, NEW t \in Cards!Polled(s)
    PROVE  t \in PortType /\ t.fifo = << >> /\ t.ctrl = s.ctrl
<1> DEFINE Fit(x) == x \in PortType /\ x.fifo = << >> /\ x.ctrl = s.ctrl
           first == Cards!Pulled(Cards!WriteByte(s, Cards!PAD))
           second == Cards!PadByte(first, {1, 6})
           third == Cards!PadByte(second, Cards!Zero)
<1>1. Cards!PAD \in Cards!Byte /\ {1, 6} \in Cards!Byte /\ Cards!Zero \in Cards!Byte
  BY Codes
<1>2. Fit(first)
  BY <1>1, PadRight
<1>3. ASSUME NEW x, Fit(x), NEW d \in {0, 1} PROVE Fit([x EXCEPT !.due = d])
  BY <1>3 DEF PortType
<1>4. ASSUME NEW x, Fit(x), NEW byte \in Cards!Byte PROVE Fit(Cards!PadByte(x, byte))
  <2> DEFINE y == [x EXCEPT !.due = 0]
  <2>1. Fit(y)
    BY <1>3, <1>4
  <2> HIDE DEF y
  <2>2. Fit(Cards!Pulled(Cards!WriteByte(y, byte)))
    BY <2>1, PadRight
  <2> QED
    BY <2>2 DEF Cards!PadByte, y
<1>5. Fit(second)
  <2> HIDE DEF Fit, first
  <2> QED
    BY <1>1, <1>2, <1>4
<1>6. Fit(third)
  <2> HIDE DEF Fit, second
  <2> QED
    BY <1>1, <1>4, <1>5
<1>7. t \in {[first EXCEPT !.due = d] : d \in {0, 1}} \cup {first, second, third}
  BY DEF Cards!Polled, Cards!PadBytes
<1> HIDE DEF Fit, first, second, third
<1>8. Fit(t)
  BY <1>2, <1>3, <1>5, <1>6, <1>7
<1> QED
  BY <1>8 DEF Fit

LEMMA ReadPadRight == ASSUME CardsInv, NEW p \in Cards!Slots, Cards!ReadPad(p) PROVE CardsInv'
<1> DEFINE a == Cards!WriteCtrl(sio, Cards!Mask(p) \cup {"DTR"})
           b == Cards!Pulled(a)
           s == Cards!WriteCtrl(b, On(p))
<1>1. /\ stage' \in {"pad1", "card"}
      /\ \E t \in Cards!Polled(s) : sio' = Cards!WriteCtrl(t, {})
      /\ ireg' = 0
      /\ UNCHANGED <<imask, mc, asked, cardFlags, buffer, success>>
  <2>1. Cards!Mask(p) \cup {"TXEN", "DTR", "ACKIRQEN"} = On(p)
    BY DEF On
  <2> QED
    BY <2>1 DEF Cards!ReadPad
<1>2. sio \in PortType /\ Len(sio.fifo) <= 1 /\ Len(<< >>) = 0
  BY DEF CardsInv, DriverTypes
<1>3. /\ Cards!Mask(p) \cup {"DTR"} \in SUBSET Bits /\ On(p) \in SUBSET Bits
      /\ {"TXEN", "DTR"} \subseteq On(p)
  BY OnRight DEF Cards!Mask, Bits
<1>4. a \in PortType /\ a.fifo \in {sio.fifo, << >>}
  BY <1>2, <1>3, ControlRight
<1> HIDE DEF a
<1>5. b \in PortType /\ b.fifo = << >>
  <2>1. Len(a.fifo) <= 1
    BY <1>2, <1>4
  <2>2. b \in PortType /\ b = [a EXCEPT !.fifo = << >>]
    BY <1>4, <2>1, FifoRight
  <2> QED
    BY <1>4, <2>2 DEF PortType
<1> HIDE DEF b
<1>6. s \in PortType /\ s.fifo = << >> /\ s.ctrl = On(p)
  BY <1>3, <1>5, ControlRight
<1> HIDE DEF s
<1>7. PICK t \in Cards!Polled(s) : sio' = Cards!WriteCtrl(t, {})
  BY <1>1
<1>8. t \in PortType /\ t.fifo = << >> /\ t.ctrl = On(p)
  BY <1>3, <1>6, PolledRight
<1>9. Cards!Leaves(t, {})
  BY <1>3, <1>8 DEF Cards!Leaves
<1>10. sio' \in PortType /\ sio'.ctrl = {} /\ Quiet(sio') /\ sio'.fifo = << >>
  BY <1>7, <1>8, <1>9, ControlRight
<1>11. DriverTypes'
  BY <1>1, <1>2, <1>10 DEF CardsInv, DriverTypes, Cards!Stages
<1>12. Requested' /\ Resting'
  BY <1>1, <1>10 DEF CardsInv, Requested, Resting, Cards!Busy
<1>13. Counts' /\ Talking'
  BY <1>1 DEF CardsInv, Counts, CountsOf, Talking, Cards!Busy
<1> QED
  BY <1>11, <1>12, <1>13 DEF CardsInv

LEMMA CardsStep == CardsInv /\ [Cards!Next]_(Cards!vars) => CardsInv'
<1> SUFFICES ASSUME CardsInv, [Cards!Next]_(Cards!vars) PROVE CardsInv'
  OBVIOUS
<1>1. CASE \E p \in Cards!Slots : Cards!Ask(p) \/ Cards!ReadPad(p)
  BY <1>1, AskRight, ReadPadRight
<1>2. CASE Cards!McHandler \/ Cards!FastWrite \/ Cards!FastRead \/ Cards!FirstStage
  BY <1>2, McHandlerRight, FastWriteRight, FastReadRight, FirstStageRight
<1>3. CASE Cards!AllowNewCard \/ Cards!VBlank \/ Cards!Interrupt \/ Cards!Insert \/ UNCHANGED Cards!vars
  BY <1>3, QuietStepsRight
<1> QED
  BY <1>1, <1>2, <1>3 DEF Cards!Next

LEMMA CardsRight == CardsInv => AnswersRead
<1> SUFFICES ASSUME CardsInv PROVE AnswersRead
  OBVIOUS
<1>1. mc.fast = 1 /\ mc.active = 1 => mc.count < SectorSize
  BY DEF CardsInv, Counts, CountsOf
<1>2. \A p \in Cards!Slots : cardFlags[p] \in {0, 1, 2, 4}
  BY DEF CardsInv, DriverTypes
<1> QED
  BY <1>1, <1>2 DEF CardsInv, DriverTypes, AnswersRead, Cards!TypeOK, PortType, Globals,
       Cards!Slots, Bits

(* The driver reads one answer for every byte it sends, whatever controllers *)
(* are polled, cards removed and requests made meanwhile, and stays within   *)
(* the sector it counts; for sectors of any size up to the real one.         *)
THEOREM OneAnswerWaits == DriversSpec => []AnswersRead
<1>1. DriversInit => CardsInv
  BY CardsInit DEF DriversInit
<1>2. CardsInv /\ [DriversNext]_<<exercised, vars, cards>> => CardsInv'
  <2>1. [DriversNext]_<<exercised, vars, cards>> => [Cards!Next]_(Cards!vars)
    BY DEF DriversNext, cards, Cards!vars
  <2> QED
    BY <2>1, CardsStep
<1> QED
  BY <1>1, <1>2, CardsRight, PTL DEF DriversSpec
-----------------------------------------------------------------------------
(***************************************************************************)
(* What the cards keep                                                     *)
(***************************************************************************)

(* What a card's record holds. *)
LEMMA CardFields ==
    ASSUME NEW c \in CardStates
    PROVE  /\ c \in CardType /\ c.ticks \in Nat /\ c.sum \in Cards!Byte /\ c.spdr \in Cards!Byte
           /\ c.temp \in Seq(Cards!Byte) /\ c.mcd \in Contents
           /\ c.sector \in Cards!Byte \X Cards!Byte /\ c.sector = <<c.sector[1], c.sector[2]>>
           /\ c.sector[1] \in Cards!Byte /\ c.sector[2] \in Cards!Byte
           /\ c.command \notin {Cards!Read, Cards!Write} => c.ticks = 0
           /\ c.command = Cards!Write => Collected(c)
  BY DEF CardStates, CardType

(* What is answered does not matter to what is kept. *)
LEMMA AnswerKeeps ==
    ASSUME NEW c \in CardType, NEW b
    PROVE  /\ Cards!Answer(c, b).card.mcd = c.mcd /\ Cards!Refuse(c, b).card.mcd = c.mcd
           /\ Cards!Answer(c, b).card.sector = c.sector /\ Cards!Refuse(c, b).card.sector = c.sector
           /\ Cards!Answer(c, b).card.temp = c.temp /\ Cards!Refuse(c, b).card.temp = c.temp
           /\ Cards!Answer(c, b).card.sum = c.sum /\ Cards!Refuse(c, b).card.sum = c.sum
           /\ Cards!Answer(c, b).card.command = c.command /\ Cards!Refuse(c, b).card.command = c.command
           /\ Cards!Answer(c, b).card.ticks = c.ticks + 1 /\ Cards!Refuse(c, b).card.ticks = c.ticks
           /\ Cards!Answer(c, b).card.spdr = b /\ Cards!Refuse(c, b).card.spdr = b
           /\ Cards!Answer(c, b).ack = 1 /\ Cards!Refuse(c, b).ack = 0
  BY DEF Cards!Answer, Cards!Refuse, CardType

(* Each byte of a write, by what it does to the card. *)
LEMMA TickWriteIs ==
    ASSUME NEW c \in CardStates, NEW value \in Cards!Byte, c.command = Cards!Write
    PROVE  LET a == Cards!TickWrite(c, value)
               d == a.card
               t == c.ticks
               good == Cards!Exists(c.sector) /\ value = c.sum
           IN  /\ d.mcd = IF t = 7 + SectorSize THEN Cards!Stored(c.mcd, c.sector, c.temp) ELSE c.mcd
               /\ t \notin {3, 4} => d.sector = c.sector
               /\ t = 3 => d.sector = <<value, Cards!Zero>>
               /\ t = 4 => d.sector = <<c.sector[1], value>> /\ d.sum = Cards!SymDiff(c.sector[1], value)
               /\ t \in 5 .. 4 + SectorSize => /\ d.temp = Append(c.temp, value)
                                               /\ d.sum = Cards!SymDiff(c.sum, value)
               /\ t \notin 5 .. 4 + SectorSize => d.temp = c.temp
               /\ t < 5 + SectorSize => d.ticks = t + 1
               /\ t = 5 + SectorSize => d.ticks = IF good THEN t + 1 ELSE 255
               /\ t \in {6 + SectorSize, 7 + SectorSize} => d.ticks = t + 1
               /\ t > 7 + SectorSize => d.ticks = t
               /\ t = 0 => d.spdr = Cards!ID1
               /\ t = 1 => d.spdr = Cards!ID2
               /\ t = 2 => d.spdr = Cards!Zero
               /\ t \in 3 .. 4 + SectorSize => d.spdr = value
               /\ t > 4 + SectorSize /\ t # 7 + SectorSize => d.spdr # Cards!GoodReadWrite
<1> DEFINE a == Cards!TickWrite(c, value)
           t == c.ticks
<1>1. /\ c \in CardType /\ t \in Nat /\ c.sector = <<c.sector[1], c.sector[2]>>
      /\ SectorSize \in Nat /\ SectorSize >= 2
  BY CardFields, Sizes
<1>2. CASE t \in 0 .. 2
  <2>1. /\ t = 0 => a = Cards!Answer(c, Cards!ID1)
        /\ t = 1 => a = Cards!Answer(c, Cards!ID2)
        /\ t = 2 => a = Cards!Answer(c, Cards!Zero)
    BY <1>1, <1>2 DEF Cards!TickWrite
  <2> HIDE DEF a
  <2> QED
    BY <1>1, <1>2, <2>1, AnswerKeeps DEF a
<1>3. CASE t = 3
  <2> DEFINE e == [c EXCEPT !.sector = <<value, Cards!Zero>>]
  <2>1. a = Cards!Answer(e, value)
    BY <1>1, <1>3 DEF Cards!TickWrite
  <2>2. /\ e \in CardType /\ e.mcd = c.mcd /\ e.sector = <<value, Cards!Zero>> /\ e.temp = c.temp
        /\ e.ticks = t
    BY <1>1, Codes DEF CardType
  <2> HIDE DEF a, e
  <2> QED
    BY <1>1, <1>3, <2>1, <2>2, AnswerKeeps DEF a
<1>4. CASE t = 4
  <2> DEFINE e == [c EXCEPT !.sector[2] = value, !.sum = Cards!SymDiff(c.sector[1], value)]
  <2>1. a = Cards!Answer(e, value)
    BY <1>1, <1>4 DEF Cards!TickWrite
  <2>2. /\ e \in CardType /\ e.mcd = c.mcd /\ e.sector = <<c.sector[1], value>> /\ e.temp = c.temp
        /\ e.ticks = t /\ e.sum = Cards!SymDiff(c.sector[1], value)
    <3> DEFINE x == [c.sector EXCEPT ![2] = value]
    <3>1. Cards!SymDiff(c.sector[1], value) \in Cards!Byte
      BY XorType, CardFields
    <3>2. x = <<c.sector[1], value>> /\ x \in Cards!Byte \X Cards!Byte
      BY CardFields
    <3>3. e = [c EXCEPT !.sector = x, !.sum = Cards!SymDiff(c.sector[1], value)]
      BY <1>1 DEF CardType
    <3> HIDE DEF x, e
    <3> QED
      BY <1>1, <3>1, <3>2, <3>3 DEF CardType
  <2> HIDE DEF a, e
  <2> QED
    BY <1>1, <1>4, <2>1, <2>2, AnswerKeeps DEF a
<1>5. CASE t \in 5 .. 4 + SectorSize
  <2> DEFINE e == [c EXCEPT !.temp = Append(c.temp, value), !.sum = Cards!SymDiff(c.sum, value)]
  <2>1. a = Cards!Answer(e, value)
    BY <1>1, <1>5 DEF Cards!TickWrite
  <2>2. /\ e \in CardType /\ e.mcd = c.mcd /\ e.sector = c.sector /\ e.temp = Append(c.temp, value)
        /\ e.ticks = t /\ e.sum = Cards!SymDiff(c.sum, value)
    <3>1. Cards!SymDiff(c.sum, value) \in Cards!Byte /\ Append(c.temp, value) \in Seq(Cards!Byte)
      BY XorType, CardFields
    <3> QED
      BY <1>1, <3>1, CardFields DEF CardType
  <2> HIDE DEF a, e
  <2>3. /\ a.card.mcd = c.mcd /\ a.card.sector = c.sector /\ a.card.temp = Append(c.temp, value)
        /\ a.card.sum = Cards!SymDiff(c.sum, value) /\ a.card.ticks = t + 1 /\ a.card.spdr = value
    BY <2>1, <2>2, AnswerKeeps
  <2>4. /\ t \notin {0, 1, 2, 3, 4, 5 + SectorSize, 6 + SectorSize, 7 + SectorSize}
        /\ t < 5 + SectorSize /\ ~(t > 4 + SectorSize) /\ ~(t > 7 + SectorSize) /\ t \in 3 .. 4 + SectorSize
    BY <1>1, <1>5
  <2> QED
    BY <1>5, <2>3, <2>4 DEF a
<1>6. CASE t = 5 + SectorSize
  <2> DEFINE e == [c EXCEPT !.ticks = 255]
             good == Cards!Exists(c.sector) /\ value = c.sum
  <2>1. IF good THEN a = Cards!Answer(c, Cards!Acknowledge1)
        ELSE a \in {Cards!Refuse(e, Cards!IdleHighZ), Cards!Refuse(e, Cards!BadChecksum)}
    BY <1>1, <1>6 DEF Cards!TickWrite
  <2>2. e \in CardType /\ e.mcd = c.mcd /\ e.sector = c.sector /\ e.temp = c.temp /\ e.ticks = 255
    BY <1>1 DEF CardType
  <2>3. Cards!GoodReadWrite \notin {Cards!IdleHighZ, Cards!BadChecksum, Cards!Acknowledge1}
    <3>1. 0 \in Cards!GoodReadWrite /\ 0 \notin Cards!BadChecksum /\ 0 \notin Cards!Acknowledge1
      BY DEF Cards!GoodReadWrite, Cards!BadChecksum, Cards!Acknowledge1
    <3>2. 7 \in Cards!IdleHighZ /\ 7 \notin Cards!GoodReadWrite
      BY DEF Cards!GoodReadWrite, Cards!IdleHighZ
    <3> QED
      BY <3>1, <3>2
  <2> HIDE DEF a, e, good
  <2>4. CASE good
    BY <1>1, <1>6, <2>1, <2>3, <2>4, AnswerKeeps DEF a, good
  <2>5. CASE ~good
    BY <1>1, <1>6, <2>1, <2>2, <2>3, <2>5, AnswerKeeps DEF a, good
  <2> QED
    BY <2>4, <2>5
<1>7. CASE t = 6 + SectorSize
  <2>1. a = Cards!Answer(c, Cards!ID2)
    BY <1>1, <1>7 DEF Cards!TickWrite, Cards!Kept, Cards!StoreTick
  <2>2. Cards!ID2 # Cards!GoodReadWrite
    BY DEF Cards!ID2, Cards!GoodReadWrite
  <2> HIDE DEF a
  <2> QED
    BY <1>1, <1>7, <2>1, <2>2, AnswerKeeps DEF a
<1>8. CASE t = 7 + SectorSize
  <2> DEFINE e == Cards!Kept(c, t)
             mcd == Cards!Stored(c.mcd, c.sector, c.temp)
  <2>1. a = Cards!Answer(e, Cards!GoodReadWrite)
    BY <1>1, <1>8 DEF Cards!TickWrite
  <2>2. e = [c EXCEPT !.mcd = mcd, !.flag = Cards!DirectoryRead]
    BY <1>8 DEF Cards!Kept, Cards!StoreTick
  <2>3. Len(c.temp) = SectorSize /\ c.temp \in Block
    <3>1. Len(c.temp) = SectorSize /\ c.temp \in Seq(Cards!Byte)
      BY <1>1, <1>8, CardFields DEF Collected
    <3> QED
      BY <1>1, <3>1 DEF Block
  <2>4. mcd \in Contents
    BY <2>3, CardFields, StoredType
  <2>5. /\ e \in CardType /\ e.mcd = mcd /\ e.sector = c.sector /\ e.temp = c.temp /\ e.ticks = t
    <3> HIDE DEF e, mcd
    <3> QED
      BY <1>1, <2>2, <2>4, Codes DEF CardType
  <2> HIDE DEF a, e, mcd
  <2> QED
    BY <1>1, <1>8, <2>1, <2>5, AnswerKeeps DEF a, mcd
<1>9. CASE t > 7 + SectorSize
  <2>1. a = Cards!Refuse(c, Cards!Acknowledge1)
    BY <1>1, <1>9 DEF Cards!TickWrite
  <2>2. Cards!Acknowledge1 # Cards!GoodReadWrite
    BY DEF Cards!Acknowledge1, Cards!GoodReadWrite
  <2> HIDE DEF a
  <2> QED
    BY <1>1, <1>9, <2>1, <2>2, AnswerKeeps DEF a
<1> QED
  BY <1>1, <1>2, <1>3, <1>4, <1>5, <1>6, <1>7, <1>8, <1>9


(* Each byte of a read, likewise. *)
LEMMA TickReadIs ==
    ASSUME NEW c \in CardStates, NEW value \in Cards!Byte, c.command = Cards!Read
    PROVE  LET a == Cards!TickRead(c, value)
               d == a.card
               t == c.ticks
           IN  /\ d.mcd = c.mcd /\ d.command = Cards!Read
               /\ t <= 9 + SectorSize => a.ack = 1 /\ d.ticks = t + 1
               /\ t > 9 + SectorSize => a.ack = 0 /\ d.ticks = t
               /\ t \notin {3, 4} => d.sector = c.sector
               /\ t = 3 => d.sector = <<value, Cards!Zero>>
               /\ t = 4 => d.sector = <<c.sector[1], value>>
               /\ t \in 8 .. 7 + SectorSize => d.spdr = Cards!Sector(c.mcd, c.sector)[t - 7]
<1> DEFINE a == Cards!TickRead(c, value)
           t == c.ticks
           next == IF t \in 8 .. 7 + SectorSize THEN Cards!Sector(c.mcd, c.sector)[t - 7] ELSE Cards!Zero
<1>1. /\ c \in CardType /\ t \in Nat /\ c.sector = <<c.sector[1], c.sector[2]>>
      /\ SectorSize \in Nat /\ SectorSize >= 2
  BY CardFields, Sizes
<1> DEFINE x == [c.sector EXCEPT ![2] = value]
           msb == [c EXCEPT !.sector = <<value, Cards!Zero>>]
           lsb == [c EXCEPT !.sector[2] = value]
           begun == [c EXCEPT !.sum = Cards!SymDiff(c.sector[1], c.sector[2])]
           summed == [c EXCEPT !.sum = Cards!SymDiff(c.sum, next)]
<1>2. msb \in CardType /\ msb.mcd = c.mcd /\ msb.command = c.command /\ msb.ticks = t
      /\ msb.sector = <<value, Cards!Zero>>
  BY <1>1, Codes DEF CardType
<1>3. lsb \in CardType /\ lsb.mcd = c.mcd /\ lsb.command = c.command /\ lsb.ticks = t
      /\ lsb.sector = <<c.sector[1], value>>
  <2>1. x = <<c.sector[1], value>> /\ x \in Cards!Byte \X Cards!Byte
    BY CardFields
  <2>2. lsb = [c EXCEPT !.sector = x]
    BY <1>1 DEF CardType
  <2> HIDE DEF x, lsb
  <2> QED
    BY <1>1, <2>1, <2>2 DEF CardType
<1>4. ASSUME NEW b \in Cards!Byte
      PROVE  LET e == [c EXCEPT !.sum = b]
             IN  /\ e \in CardType /\ e.mcd = c.mcd /\ e.command = c.command /\ e.ticks = t
                 /\ e.sector = c.sector
  BY <1>1 DEF CardType
<1>5. begun \in CardType /\ begun.mcd = c.mcd /\ begun.command = c.command /\ begun.ticks = t
      /\ begun.sector = c.sector
  <2>1. Cards!SymDiff(c.sector[1], c.sector[2]) \in Cards!Byte
    BY XorType, CardFields
  <2> QED
    BY <1>4, <2>1
<1>6. summed \in CardType /\ summed.mcd = c.mcd /\ summed.command = c.command /\ summed.ticks = t
      /\ summed.sector = c.sector
  <2>1. next \in Cards!Byte
    BY <1>1, CardFields, SectorType, Codes DEF Block
  <2>2. Cards!SymDiff(c.sum, next) \in Cards!Byte
    BY <2>1, XorType, CardFields
  <2> QED
    BY <1>4, <2>2
<1>7. \/ t \in {0, 1, 2, 5, 6, 8 + SectorSize, 9 + SectorSize} /\ \E b : a = Cards!Answer(c, b)
      \/ t = 3 /\ a = Cards!Answer(msb, value)
      \/ t = 4 /\ a = Cards!Answer(lsb, Cards!Acknowledge1)
      \/ t = 7 /\ a = Cards!Answer(begun, c.sector[2])
      \/ t \in 8 .. 7 + SectorSize /\ a = Cards!Answer(summed, next)
      \/ t > 9 + SectorSize /\ a = Cards!Refuse(c, Cards!Acknowledge1)
  BY <1>1 DEF Cards!TickRead
<1> HIDE DEF a, msb, lsb, begun, summed, x
<1>8. CASE t \in {0, 1, 2, 5, 6, 8 + SectorSize, 9 + SectorSize} /\ \E b : a = Cards!Answer(c, b)
  <2>1. PICK b : a = Cards!Answer(c, b)
    BY <1>8
  <2>2. a.card.mcd = c.mcd /\ a.card.command = Cards!Read /\ a.card.sector = c.sector
        /\ a.card.ticks = t + 1 /\ a.ack = 1
    BY <1>1, <2>1, AnswerKeeps
  <2>3. t <= 9 + SectorSize /\ t \notin {3, 4} /\ t \notin 8 .. 7 + SectorSize
    BY <1>1, <1>8
  <2> QED
    BY <1>1, <2>2, <2>3 DEF a
<1>9. CASE t = 3 /\ a = Cards!Answer(msb, value)
  <2>1. a.card.mcd = c.mcd /\ a.card.command = Cards!Read /\ a.card.sector = <<value, Cards!Zero>>
        /\ a.card.ticks = t + 1 /\ a.ack = 1
    BY <1>2, <1>9, AnswerKeeps
  <2> QED
    BY <1>1, <1>9, <2>1 DEF a
<1>10. CASE t = 4 /\ a = Cards!Answer(lsb, Cards!Acknowledge1)
  <2>1. a.card.mcd = c.mcd /\ a.card.command = Cards!Read /\ a.card.sector = <<c.sector[1], value>>
        /\ a.card.ticks = t + 1 /\ a.ack = 1
    BY <1>3, <1>10, AnswerKeeps
  <2> QED
    BY <1>1, <1>10, <2>1 DEF a
<1>11. CASE t = 7 /\ a = Cards!Answer(begun, c.sector[2])
  <2>1. a.card.mcd = c.mcd /\ a.card.command = Cards!Read /\ a.card.sector = c.sector
        /\ a.card.ticks = t + 1 /\ a.ack = 1
    BY <1>5, <1>11, AnswerKeeps
  <2> QED
    BY <1>1, <1>11, <2>1 DEF a
<1>12. CASE t \in 8 .. 7 + SectorSize /\ a = Cards!Answer(summed, next)
  <2>1. a.card.mcd = c.mcd /\ a.card.command = Cards!Read /\ a.card.sector = c.sector
        /\ a.card.ticks = t + 1 /\ a.ack = 1 /\ a.card.spdr = next
    BY <1>6, <1>12, AnswerKeeps
  <2>2. t <= 9 + SectorSize /\ t \notin {3, 4} /\ ~(t > 9 + SectorSize)
    BY <1>1, <1>12
  <2> QED
    BY <1>12, <2>1, <2>2 DEF a
<1>13. CASE t > 9 + SectorSize /\ a = Cards!Refuse(c, Cards!Acknowledge1)
  <2>1. a.card.mcd = c.mcd /\ a.card.command = Cards!Read /\ a.card.sector = c.sector
        /\ a.card.ticks = t /\ a.ack = 0
    BY <1>1, <1>13, AnswerKeeps
  <2>2. ~(t <= 9 + SectorSize) /\ t \notin {3, 4} /\ t \notin 8 .. 7 + SectorSize
    BY <1>1, <1>13
  <2> QED
    BY <1>13, <2>1, <2>2 DEF a
<1> QED
  BY <1>7, <1>8, <1>9, <1>10, <1>11, <1>12, <1>13

(* A byte that is a command, or that is of one. *)
LEMMA CommandIs ==
    ASSUME NEW c \in CardStates, NEW value \in Cards!Byte
    PROVE  LET a == Cards!Transceive(c, value)
               e == [c EXCEPT !.command = value]
               idle == c.command \in {Cards!Zero, Cards!Access}
           IN  /\ a.card \in CardStates
               /\ a.card.command = IF idle THEN value ELSE c.command
               /\ a.card.command # Cards!Write => a.card.mcd = c.mcd
               /\ c.command = Cards!Write => a = Cards!TickWrite(c, value)
               /\ c.command = Cards!Read => a = Cards!TickRead(c, value)
               /\ idle => /\ e \in CardStates /\ e.command = value /\ e.ticks = 0 /\ e.mcd = c.mcd
                          /\ value = Cards!Write => a = Cards!TickWrite(e, value)
                          /\ value = Cards!Read => a = Cards!TickRead(e, value)
<1> DEFINE a == Cards!Transceive(c, value)
           e == [c EXCEPT !.command = value]
           idle == c.command \in {Cards!Zero, Cards!Access}
           d == Cards!Commanded(c, value)
<1>1. /\ a.card \in CardStates /\ a.card.command = IF idle THEN value ELSE c.command
      /\ c \in CardType
  BY TransceiveRight, CardFields
<1>2. d = IF idle THEN e ELSE c
  BY DEF Cards!Commanded
<1>3. ASSUME idle PROVE e \in CardStates /\ e.command = value /\ e.ticks = 0 /\ e.mcd = c.mcd
  <2>1. c.ticks = 0 /\ c.temp = << >>
    BY <1>3, Codes DEF CardStates
  <2>2. e \in CardType /\ e.command = value /\ e.ticks = 0 /\ e.temp = << >> /\ e.mcd = c.mcd
    BY <1>1, <2>1 DEF CardType
  <2>3. Collected(e)
    BY <2>2, Sizes DEF Collected
  <2> HIDE DEF e
  <2> QED
    BY <2>2, <2>3 DEF CardStates
<1>4. a = CASE d.command = Cards!Access -> [card |-> [d EXCEPT !.spdr = d.flag], ack |-> 1]
            [] d.command = Cards!Read -> Cards!TickRead(d, value)
            [] d.command = Cards!Write -> Cards!TickWrite(d, value)
            [] OTHER -> Cards!Refuse(d, Cards!IdleHighZ)
  BY DEF Cards!Transceive
<1>5. d \in CardStates /\ d.mcd = c.mcd /\ d.command = IF idle THEN value ELSE c.command
  BY <1>2, <1>3
<1> HIDE DEF a, d, e
<1>6. /\ d.command = Cards!Write => a = Cards!TickWrite(d, value)
      /\ d.command = Cards!Read => a = Cards!TickRead(d, value)
  BY <1>4, Codes
<1>7. ASSUME d.command # Cards!Write PROVE a.card.mcd = c.mcd
  <2>0. d \in CardType
    BY <1>5, CardFields
  <2>1. CASE d.command = Cards!Read
    BY <1>5, <1>6, <2>1, TickReadIs
  <2>2. CASE d.command = Cards!Access
    <3> DEFINE x == [d EXCEPT !.spdr = d.flag]
    <3>1. a = [card |-> x, ack |-> 1]
      BY <1>4, <2>2, Codes
    <3>2. x.mcd = d.mcd
      BY <2>0 DEF CardType
    <3> QED
      BY <1>5, <3>1, <3>2
  <2>3. CASE d.command \notin {Cards!Read, Cards!Access}
    <3>1. a = Cards!Refuse(d, Cards!IdleHighZ)
      BY <1>4, <1>7, <2>3
    <3> QED
      BY <1>5, <2>0, <3>1, AnswerKeeps
  <2> QED
    BY <2>1, <2>2, <2>3
<1>8. c.command \in {Cards!Read, Cards!Write} => ~idle
  BY Codes
<1> QED
  BY <1>1, <1>2, <1>3, <1>5, <1>6, <1>7, <1>8 DEF a, d, e

-----------------------------------------------------------------------------
(***************************************************************************)
(* What the driver and the card know of each other                         *)
(***************************************************************************)

(* The contents b are a with the sector of request r written, or just a.    *)
Lands(a, b, r) ==
    \A s : Cards!Sector(b, s) = IF s = r.sector THEN r.data ELSE Cards!Sector(a, s)

MayLand(a, b, r) == a = b \/ Lands(a, b, r)

Stores(a, b, r) == a = b \/ (r.op = "write" /\ Lands(a, b, r))

(* A card that is written to has collected what request r sends, as far as  *)
(* it has come, and when it answers that all is good it has stored it.      *)
Faithful(c, r) ==
    /\ c.ticks = 4 => c.sector[1] = r.sector[1]
    /\ c.ticks >= 5 => c.sector = r.sector
    /\ c.ticks \in 5 .. 5 + SectorSize => \A i \in 1 .. c.ticks - 5 : c.temp[i] = r.data[i]
    /\ c.ticks \in 5 + SectorSize .. 7 + SectorSize => c.temp = r.data
    /\ c.ticks \in {6 + SectorSize, 7 + SectorSize} => Cards!Exists(r.sector)
    /\ c.ticks > 5 + SectorSize /\ c.spdr = Cards!GoodReadWrite => Cards!Sector(c.mcd, r.sector) = r.data

(* No command has been sent. *)
Fresh(m, c) == c.command = Cards!Access /\ m.op <= 1 /\ m.count = 0 /\ m.fast = 0

(* The driver sends the sector's number, the sector, and what follows.  If  *)
(* a request of the other slot resets the operation once the sector itself  *)
(* is being sent, the rest of it is sent all the same.                      *)
OnCourse(m, c, r) ==
    /\ c.command = Cards!Write /\ Faithful(c, r)
    /\ \/ m.fast = 0 /\ m.count = 0 /\ m.op \in 2 .. 5 /\ c.ticks = m.op - 1
       \/ m.fast = 1 /\ c.ticks = 5 + m.count
       \/ /\ m.fast = 0 /\ m.count = SectorSize
          /\ c.ticks >= 5 + SectorSize
          /\ m.op >= 6 => c.ticks >= m.op - 1 + SectorSize

(* If it resets the operation before, the card takes 81 57 00 for a part of *)
(* the sector's number and of the sector.  Should 81 be the number's second *)
(* half, the checksum has its bit 7, which no poll of a controller has, and *)
(* the answers are not those that let the driver begin to send a sector.    *)
Lost(m, c) ==
    /\ c.command = Cards!Write /\ Cards!Busy(1 - m.port)
    /\ m.op <= 3 /\ m.count = 0 /\ m.fast = 0
    /\ c.ticks \in 1 .. 4 + m.op
    /\ m.op >= 1 /\ c.ticks = 4 + m.op /\ Cards!Exists(c.sector) => 7 \in c.sum
    /\ m.op = 2 => c.spdr # Cards!ID1
    /\ m.op = 3 => Cards!Fifo(sio) # Cards!ID1

(* A card that is read from, in step with the driver, sends the sector that *)
(* was asked for.                                                           *)
InStep(m, c, r) ==
    LET held == Cards!Sector(c.mcd, r.sector)
    IN  /\ m.op <= 10 => m.count = 0 /\ m.fast = 0
        /\ m.count <= SectorSize - 1 /\ (m.fast = 1 => m.count <= SectorSize - 2)
        /\ c.ticks = 4 => c.sector[1] = r.sector[1]
        /\ c.ticks >= 5 => c.sector = r.sector
        /\ c.ticks \in 9 .. 8 + SectorSize => c.spdr = held[c.ticks - 8]
        /\ c.ticks \in 10 .. 9 + SectorSize => Cards!Fifo(sio) = held[c.ticks - 9]
        /\ m.op = 11 => \A i \in 1 .. m.count : buffer[m.port][i] = held[i]
        /\ m.op = 12 => buffer[m.port] = held

(* It is never behind the driver; when it is ahead, because the operation   *)
(* was reset, it stays so, and stops answering before the driver is done.   *)
Reading(m, c, r) ==
    /\ c.command = Cards!Read /\ c.ticks <= 10 + SectorSize
    /\ m.op >= 11 /\ m.fast = 0 => m.count >= SectorSize - 1
    /\ m.op = 12 => m.fast = 0
    /\ \/ sio.due = 0 /\ ireg = 0
       \/ c.ticks > m.op - 1 + m.count
       \/ c.ticks = m.op - 1 + m.count /\ InStep(m, c, r)

Serving(m) ==
    LET c == sio.card[m.port]
        r == asked[m.port]
    IN  /\ sio.ctrl = On(m.port)
        /\ r.op = "write" => (Fresh(m, c) \/ OnCourse(m, c, r) \/ Lost(m, c))
        /\ r.op = "read" => (Fresh(m, c) \/ Reading(m, c, r))
        /\ r.op = "info" => (Fresh(m, c) \/ c.command = Cards!Read)

(* What is to be written is not read into meanwhile. *)
Loaded == \A p \in Cards!Slots : Cards!Busy(p) /\ asked[p].op = "write" => buffer[p] = asked[p].data

StoreInv ==
    /\ CardsInv
    /\ Loaded
    /\ stage = "pad1" => Quiet(sio)
    /\ mc.active = 1 /\ sio.device = Cards!Access => Serving(mc)

-----------------------------------------------------------------------------
(* What a byte does to it, for the card.                                   *)
LEMMA StoresTwice ==
    ASSUME NEW a, NEW b, NEW c, NEW r, Stores(a, b, r), Stores(b, c, r)
    PROVE  Stores(a, c, r)
<1>1. Lands(a, b, r) /\ Lands(b, c, r) => Lands(a, c, r)
  BY DEF Lands
<1> QED
  BY <1>1 DEF Stores

(* A sector that is stored changes the card the way the request asked. *)
LEMMA StoredLands ==
    ASSUME NEW mcd \in Contents, NEW r \in Asked, Cards!Exists(r.sector)
    PROVE  Lands(mcd, Cards!Stored(mcd, r.sector, r.data), r)
<1> DEFINE new == Cards!Stored(mcd, r.sector, r.data)
<1>1. /\ DOMAIN new = DOMAIN mcd \cup {r.sector} /\ new[r.sector] = r.data
      /\ \A s \in DOMAIN mcd : s # r.sector => new[s] = mcd[s]
  BY DEF Cards!Stored
<1> HIDE DEF new
<1>2. Cards!Sector(new, r.sector) = r.data
  BY <1>1 DEF Cards!Sector
<1>3. \A s : s # r.sector => Cards!Sector(new, s) = Cards!Sector(mcd, s)
  BY <1>1 DEF Cards!Sector
<1> QED
  BY <1>2, <1>3 DEF Lands, new

(* The answers that say that all is good differ from the others. *)
LEMMA GoodCode ==
    /\ Cards!GoodReadWrite \notin {Cards!Zero, Cards!IdleHighZ, Cards!Acknowledge1, Cards!ID2, Cards!BadChecksum}
<1>1. /\ 0 \in Cards!GoodReadWrite /\ 1 \in Cards!GoodReadWrite /\ 4 \notin Cards!GoodReadWrite
      /\ 7 \notin Cards!GoodReadWrite
  BY DEF Cards!GoodReadWrite
<1>2. /\ 0 \notin Cards!Zero /\ 7 \in Cards!IdleHighZ /\ 4 \in Cards!Acknowledge1 /\ 4 \in Cards!ID2
      /\ 0 \notin Cards!BadChecksum
  BY DEF Cards!Zero, Cards!IdleHighZ, Cards!Acknowledge1, Cards!ID2, Cards!BadChecksum
<1> QED
  BY <1>1, <1>2

(* The number of a sector is two bytes. *)
LEMMA PairIs ==
    ASSUME NEW x \in Cards!Byte \X Cards!Byte
    PROVE  x = <<x[1], x[2]>> /\ x[1] \in Cards!Byte /\ x[2] \in Cards!Byte
  OBVIOUS

(* The number of the sector. *)
LEMMA NumberStep ==
    ASSUME NEW c \in CardStates, c.command = Cards!Write, NEW r \in Asked, Faithful(c, r), c.ticks \in 0 .. 4,
           NEW value \in Cards!Byte,
           c.ticks = 3 => value = r.sector[1], c.ticks = 4 => value = r.sector[2]
    PROVE  LET d == Cards!TickWrite(c, value).card
           IN  Faithful(d, r) /\ d.ticks = c.ticks + 1 /\ d.mcd = c.mcd
<1> DEFINE d == Cards!TickWrite(c, value).card
           t == c.ticks
<1>1. /\ SectorSize \in Nat /\ SectorSize >= 2 /\ t \in Nat
      /\ r.sector = <<r.sector[1], r.sector[2]>>
  BY Sizes, CardFields, PairIs DEF Asked
<1>2. /\ d.mcd = c.mcd /\ d.ticks = t + 1
      /\ t = 3 => d.sector = <<value, Cards!Zero>>
      /\ t = 4 => d.sector = <<c.sector[1], value>>
  BY <1>1, TickWriteIs
<1> HIDE DEF d
<1>3. t = 3 => d.sector[1] = r.sector[1]
  BY <1>2
<1>4. t = 4 => d.sector = r.sector
  BY <1>1, <1>2 DEF Faithful
<1>5. Faithful(d, r)
  BY <1>1, <1>2, <1>3, <1>4 DEF Faithful
<1> QED
  BY <1>2, <1>5 DEF d

(* A byte of the sector. *)
LEMMA CollectStep ==
    ASSUME NEW c \in CardStates, c.command = Cards!Write, NEW r \in Asked, r.data \in Block, Faithful(c, r),
           NEW k \in Nat, k < SectorSize, c.ticks = 5 + k
    PROVE  LET d == Cards!TickWrite(c, r.data[k + 1]).card
           IN  Faithful(d, r) /\ d.ticks = 6 + k /\ d.mcd = c.mcd
<1> DEFINE value == r.data[k + 1]
           d == Cards!TickWrite(c, value).card
           t == c.ticks
<1>1. /\ SectorSize \in Nat /\ SectorSize >= 2 /\ t \in Nat /\ value \in Cards!Byte
      /\ c.temp \in Seq(Cards!Byte) /\ Len(c.temp) = k
  BY Sizes, CardFields DEF Block, Collected
<1>2. t \in 5 .. 4 + SectorSize /\ t \notin {3, 4} /\ t < 5 + SectorSize /\ t # 7 + SectorSize
  BY <1>1
<1>3. d.mcd = c.mcd /\ d.ticks = t + 1 /\ d.sector = c.sector /\ d.temp = Append(c.temp, value)
      /\ d.spdr = value
  BY <1>1, <1>2, TickWriteIs
<1> HIDE DEF d
<1>4. \A i \in 1 .. k : c.temp[i] = r.data[i]
  BY <1>1, <1>2 DEF Faithful
<1>5. \A i \in 1 .. k + 1 : d.temp[i] = r.data[i]
  BY <1>1, <1>3, <1>4
<1>6. d.temp \in Seq(Cards!Byte) /\ Len(d.temp) = k + 1
  BY <1>1, <1>3
<1>7. ASSUME k + 1 = SectorSize PROVE d.temp = r.data
  <2>1. d.temp \in [1 .. SectorSize -> Cards!Byte]
    BY <1>6, <1>7
  <2> QED
    BY <1>5, <1>7, <2>1 DEF Block
<1>8. c.sector = r.sector
  BY <1>1 DEF Faithful
<1>9. Faithful(d, r)
  BY <1>1, <1>3, <1>5, <1>7, <1>8 DEF Faithful
<1> QED
  BY <1>3, <1>9 DEF d, value

(* The checksum, and what follows: the sector is stored at the third byte.  *)
LEMMA CheckStep ==
    ASSUME NEW c \in CardStates, c.command = Cards!Write, NEW r \in Asked, r.data \in Block, Faithful(c, r),
           c.ticks >= 5 + SectorSize, NEW value \in Cards!Byte
    PROVE  LET d == Cards!TickWrite(c, value).card
           IN  /\ Faithful(d, r)
               /\ IF c.ticks > 7 + SectorSize THEN d.ticks = c.ticks /\ d.mcd = c.mcd
                  ELSE d.ticks \in Nat /\ d.ticks >= c.ticks + 1
               /\ MayLand(c.mcd, d.mcd, r)
<1> DEFINE d == Cards!TickWrite(c, value).card
           t == c.ticks
           good == Cards!Exists(c.sector) /\ value = c.sum
<1>1. /\ SectorSize \in Nat /\ SectorSize >= 2 /\ SectorSize <= 128 /\ t \in Nat /\ c.mcd \in Contents
      /\ c.sector = r.sector /\ t \notin {3, 4}
  <2>1. SectorSize \in Nat /\ SectorSize >= 2 /\ SectorSize <= 128 /\ t \in Nat /\ c.mcd \in Contents
    BY Sizes, CardFields
  <2> QED
    BY <2>1 DEF Faithful
<1>2. /\ d.mcd = IF t = 7 + SectorSize THEN Cards!Stored(c.mcd, c.sector, c.temp) ELSE c.mcd
      /\ d.sector = c.sector /\ d.temp = c.temp
      /\ t = 5 + SectorSize => d.ticks = IF good THEN t + 1 ELSE 255
      /\ t \in {6 + SectorSize, 7 + SectorSize} => d.ticks = t + 1
      /\ t > 7 + SectorSize => d.ticks = t
      /\ t # 7 + SectorSize => d.spdr # Cards!GoodReadWrite
  <2>1. t \notin {3, 4} /\ t \notin 5 .. 4 + SectorSize /\ t > 4 + SectorSize
    BY <1>1
  <2> QED
    BY <1>1, <2>1, TickWriteIs
<1> HIDE DEF d
<1>3. CASE t \in {5 + SectorSize, 6 + SectorSize}
  <2>1. d.ticks > 5 + SectorSize /\ d.ticks \in Nat /\ d.ticks >= t + 1 /\ d.mcd = c.mcd
        /\ d.spdr # Cards!GoodReadWrite
        /\ (d.ticks \in {6 + SectorSize, 7 + SectorSize} => Cards!Exists(r.sector))
    BY <1>1, <1>2, <1>3 DEF Faithful
  <2>2. d.temp = r.data /\ d.sector = r.sector
    BY <1>1, <1>2, <1>3 DEF Faithful
  <2>3. Faithful(d, r)
    BY <1>1, <2>1, <2>2 DEF Faithful
  <2> QED
    BY <1>1, <1>3, <2>1, <2>3 DEF d, MayLand
<1>4. CASE t = 7 + SectorSize
  <2>1. c.temp = r.data /\ Cards!Exists(r.sector)
    BY <1>1, <1>4 DEF Faithful
  <2>2. Lands(c.mcd, d.mcd, r)
    BY <1>1, <1>2, <1>4, <2>1, StoredLands
  <2>3. Cards!Sector(d.mcd, r.sector) = r.data
    BY <2>2 DEF Lands
  <2>4. d.ticks = 8 + SectorSize /\ d.sector = r.sector
    BY <1>1, <1>2, <1>4
  <2>5. Faithful(d, r)
    BY <1>1, <2>3, <2>4 DEF Faithful
  <2> QED
    BY <1>1, <1>4, <2>2, <2>4, <2>5 DEF d, MayLand
<1>5. CASE t > 7 + SectorSize
  <2>1. d.ticks = t /\ d.mcd = c.mcd /\ d.spdr # Cards!GoodReadWrite /\ d.sector = r.sector
    BY <1>1, <1>2, <1>5
  <2>2. Faithful(d, r)
    BY <1>1, <1>5, <2>1 DEF Faithful
  <2> QED
    BY <1>5, <2>1, <2>2 DEF d, MayLand
<1> QED
  BY <1>1, <1>3, <1>4, <1>5

(* k more bytes, of those a poll sends, store nothing but what was asked.   *)
Safe(c, k, r) ==
    c.command = Cards!Write =>
        /\ r.op = "write" /\ r.data \in Block
        /\ \/ c.ticks + k <= 7 + SectorSize
           \/ c.ticks >= 5 + SectorSize /\ Faithful(c, r)
           \/ c.ticks = 5 + SectorSize /\ (Cards!Exists(c.sector) => 7 \in c.sum)
           \/ c.ticks > 7 + SectorSize

(* One byte of a poll to a card to which k + 1 more do no harm. *)
LEMMA SafeStep ==
    ASSUME NEW c \in CardStates, NEW r \in Asked, NEW k \in Nat, Safe(c, k + 1, r),
           NEW value \in Cards!Byte, 7 \notin value, value # Cards!Write
    PROVE  LET d == Cards!Transceive(c, value).card
           IN  d \in CardStates /\ Safe(d, k, r) /\ Stores(c.mcd, d.mcd, r)
<1> DEFINE d == Cards!Transceive(c, value).card
           t == c.ticks
           good == Cards!Exists(c.sector) /\ value = c.sum
<1>1. /\ d \in CardStates
      /\ d.command = IF c.command \in {Cards!Zero, Cards!Access} THEN value ELSE c.command
      /\ d.command # Cards!Write => d.mcd = c.mcd
      /\ c.command = Cards!Write => Cards!Transceive(c, value) = Cards!TickWrite(c, value)
  BY CommandIs
<1>2. CASE c.command # Cards!Write
  <2>1. d.command # Cards!Write
    BY <1>1, <1>2
  <2> QED
    BY <1>1, <2>1 DEF Safe, Stores
<1>3. CASE c.command = Cards!Write
  <2>0. d = Cards!TickWrite(c, value).card
    BY <1>1, <1>3
  <2>7. r.op = "write" /\ r.data \in Block
    BY <1>3 DEF Safe
  <2>1. SectorSize \in Nat /\ SectorSize >= 2 /\ SectorSize <= 128 /\ t \in Nat
    BY Sizes, CardFields
  <2>2. CASE t >= 5 + SectorSize /\ Faithful(c, r)
    <3>1. Faithful(d, r) /\ MayLand(c.mcd, d.mcd, r) /\ d.ticks >= 5 + SectorSize
      BY <1>3, <2>0, <2>1, <2>2, <2>7, CheckStep
    <3> QED
      BY <1>1, <2>7, <3>1 DEF Safe, MayLand, Stores
  <2>3. /\ d.mcd = IF t = 7 + SectorSize THEN Cards!Stored(c.mcd, c.sector, c.temp) ELSE c.mcd
        /\ t < 5 + SectorSize => d.ticks = t + 1
        /\ t = 5 + SectorSize => d.ticks = IF good THEN t + 1 ELSE 255
        /\ t \in {6 + SectorSize, 7 + SectorSize} => d.ticks = t + 1
        /\ t > 7 + SectorSize => d.ticks = t
    BY <1>3, <2>0, <2>1, TickWriteIs
  <2> HIDE DEF d
  <2>4. CASE t + (k + 1) <= 7 + SectorSize
    <3>1. d.mcd = c.mcd /\ (d.ticks = t + 1 \/ d.ticks = 255)
      BY <2>1, <2>3, <2>4
    <3> QED
      BY <1>1, <2>1, <2>4, <2>7, <3>1 DEF Safe, Stores, d
  <2>5. CASE t = 5 + SectorSize /\ (Cards!Exists(c.sector) => 7 \in c.sum)
    <3>1. ~good
      BY <2>5
    <3>2. d.mcd = c.mcd /\ d.ticks = 255
      BY <2>1, <2>3, <2>5, <3>1
    <3> QED
      BY <1>1, <2>1, <2>7, <3>2 DEF Safe, Stores, d
  <2>6. CASE t > 7 + SectorSize
    <3>1. d.mcd = c.mcd /\ d.ticks = t
      BY <2>1, <2>3, <2>6
    <3> QED
      BY <1>1, <2>6, <2>7, <3>1 DEF Safe, Stores, d
  <2> QED
    BY <1>3, <2>2, <2>4, <2>5, <2>6 DEF Safe
<1> QED
  BY <1>2, <1>3

-----------------------------------------------------------------------------
(* What a byte and the control register do to them, for the port.          *)
Alike(s, t) == \A q \in {0, 1} : t.card[q].mcd = s.card[q].mcd

(* Letting go of a device keeps what the cards hold. *)
LEMMA DeselectedKeeps == ASSUME NEW s \in PortType PROVE Alike(s, Cards!Deselected(s))
<1>1. \A q \in {0, 1} : s.card[q] \in CardType
  BY DEF PortType, CardStates
<1>2. Cards!Deselected(s).card = [q \in {0, 1} |-> Cards!Deselect(s.card[q])]
  BY DEF Cards!Deselected, PortType
<1> QED
  BY <1>1, <1>2 DEF Alike, Cards!Deselect, CardType

(* A byte that is sent keeps the other card, and reaches this one as `Transceive` says. *)
LEMMA SendKeeps ==
    ASSUME NEW s \in PortType, NEW value \in Cards!Byte, s.fifo = << >>, "TXEN" \in s.ctrl
    PROVE  LET t == Cards!WriteByte(s, value)
               p == Cards!Port(s)
               device == IF s.device = Cards!None THEN value ELSE s.device
               a == Cards!Transceive(s.card[p], value)
           IN  /\ t \in PortType /\ t.ctrl = s.ctrl
               /\ device # Cards!Access => Alike(s, t) /\ t.device # Cards!Access /\ t.fifo = <<Cards!IdleHighZ>>
               /\ device = Cards!Access =>
                     \/ /\ t.device = Cards!Access /\ t.card = [s.card EXCEPT ![p] = a.card]
                        /\ t.fifo = <<s.card[p].spdr>> /\ (a.ack # 1 => t.due = s.due)
                     \/ /\ t.device = Cards!Ignore /\ Alike(s, t) /\ t.fifo = <<Cards!IdleHighZ>>
                        /\ t.due = s.due
<1> DEFINE device == IF s.device = Cards!None THEN value ELSE s.device
           u == [s EXCEPT !.device = device, !.waits = << >>]
           p == Cards!Port(s)
           a == Cards!Transceive(s.card[p], value)
           w == Cards!WriteByte(s, value)
<1>1. Cards!WriteByte(s, value) = Cards!Transmit(s, value)
  BY DEF Cards!WriteByte
<1>2. /\ p \in {0, 1} /\ w \in PortType /\ w.ctrl = s.ctrl
  BY SendRight DEF Cards!Port
<1>3. /\ Cards!IdleHighZ \in Cards!Byte /\ s.card[p] \in CardStates /\ s.card[p] \in CardType
      /\ s.card[p].spdr \in Cards!Byte
  BY <1>2, Codes DEF PortType, CardStates, CardType
<1>4. ASSUME device \in {Cards!PAD, Cards!Access, Cards!Ignore}
      PROVE  u \in PortType /\ u.device = device /\ u.ctrl = s.ctrl /\ u.due = s.due /\ u.fifo = << >>
             /\ u.card = s.card /\ u.inserted = s.inserted /\ Cards!Port(u) = p
  BY <1>4 DEF PortType, Cards!Port
<1>5. ASSUME NEW t \in PortType, NEW b \in Cards!Byte, t.fifo = << >>
      PROVE  /\ Cards!Push(t, b).device = t.device
             /\ Cards!Push(t, b).due = t.due
             /\ Cards!Push(t, b).card = t.card /\ Cards!Push(t, b).fifo = <<b>>
  <2>1. Cards!Push(t, b) = [t EXCEPT !.fifo = <<b>>]
    BY <1>5, PushRight
  <2> QED
    BY <2>1 DEF PortType
<1>6. CASE device = Cards!Access
  <2> DEFINE t == [u EXCEPT !.card[p] = a.card]
             v == IF a.ack = 1 THEN Cards!Acknowledge(t) ELSE t
             e == [u.card[p] EXCEPT !.flag = Cards!DirectoryUnread]
             x == Cards!Deselect(e)
             z == [u EXCEPT !.card[p] = x, !.device = Cards!Ignore]
  <2>1. /\ u \in PortType /\ u.device = device /\ u.ctrl = s.ctrl /\ u.due = s.due /\ u.fifo = << >>
        /\ u.card = s.card /\ u.inserted = s.inserted /\ Cards!Port(u) = p
    BY <1>4, <1>6
  <2>2. Cards!Transmit(s, value) = Cards!ToCard(u, value)
    BY <1>6, Codes DEF Cards!Transmit
  <2> HIDE DEF u
  <2>4. CASE s.inserted[p] = 1
    <3>1. a.card \in CardStates
      BY <1>3, TransceiveRight
    <3>0. Cards!ToCard(u, value) = Cards!Push(v, s.card[p].spdr)
      BY <2>1, <2>4 DEF Cards!ToCard
    <3> HIDE DEF a
    <3>2. /\ t \in PortType /\ t.card = [s.card EXCEPT ![p] = a.card] /\ t.device = Cards!Access
          /\ t.fifo = << >> /\ t.due = s.due
      BY <2>1, <3>1, <1>2, <1>6 DEF PortType
    <3> HIDE DEF t
    <3>3. /\ v \in PortType /\ v.card = t.card /\ v.device = Cards!Access
          /\ v.fifo = << >> /\ (a.ack # 1 => v.due = s.due)
      BY <3>2 DEF PortType, Cards!Acknowledge
    <3> HIDE DEF v
    <3>5. /\ Cards!Push(v, s.card[p].spdr).device = Cards!Access
          /\ Cards!Push(v, s.card[p].spdr).card = t.card
          /\ Cards!Push(v, s.card[p].spdr).fifo = <<s.card[p].spdr>>
          /\ a.ack # 1 => Cards!Push(v, s.card[p].spdr).due = s.due
      BY <1>3, <1>5, <3>3
    <3> QED
      BY <1>1, <1>2, <1>6, <2>2, <3>0, <3>2, <3>5 DEF a
  <2>5. CASE s.inserted[p] # 1
    <3>1. e \in CardStates /\ e.mcd = s.card[p].mcd
      BY <1>2, <1>3, <2>1, Codes DEF PortType, CardStates, CardType, Collected
    <3> HIDE DEF e
    <3>2. x \in CardStates /\ x.mcd = s.card[p].mcd
      <4>1. e \in CardType
        BY <3>1 DEF CardStates
      <4>2. x.mcd = e.mcd
        BY <4>1 DEF Cards!Deselect, CardType
      <4> QED
        BY <3>1, <4>2, DeselectRight
    <3>0. Cards!ToCard(u, value) = Cards!Push(z, Cards!IdleHighZ)
      BY <2>1, <2>5 DEF Cards!ToCard, x, e
    <3> HIDE DEF x
    <3>3. /\ z \in PortType /\ z.device = Cards!Ignore /\ z.fifo = << >>
          /\ z.due = s.due /\ z.card = [s.card EXCEPT ![p] = x]
      BY <2>1, <3>2, <1>2 DEF PortType
    <3>4. Alike(s, z)
      <4>1. s.card \in [{0, 1} -> CardStates]
        BY DEF PortType
      <4> HIDE DEF z
      <4> QED
        BY <1>2, <3>2, <3>3, <4>1 DEF Alike
    <3> HIDE DEF z
    <3>5. /\ Cards!Push(z, Cards!IdleHighZ).device = Cards!Ignore
          /\ Cards!Push(z, Cards!IdleHighZ).due = s.due
          /\ Cards!Push(z, Cards!IdleHighZ).card = z.card
          /\ Cards!Push(z, Cards!IdleHighZ).fifo = <<Cards!IdleHighZ>>
      BY <1>3, <1>5, <3>3
    <3> QED
      BY <1>1, <1>2, <1>6, <2>2, <3>0, <3>4, <3>5 DEF Alike
  <2> QED
    BY <2>4, <2>5
<1>7. CASE device \in {Cards!PAD, Cards!Ignore}
  <2>1. /\ u \in PortType /\ u.device = device /\ u.fifo = << >> /\ u.card = s.card
    BY <1>4, <1>7
  <2>2. Cards!Transmit(s, value) = Cards!Push(u, Cards!IdleHighZ)
    BY <1>7, Codes DEF Cards!Transmit
  <2> HIDE DEF u
  <2>3. /\ Cards!Push(u, Cards!IdleHighZ).device = device
        /\ Cards!Push(u, Cards!IdleHighZ).card = s.card
        /\ Cards!Push(u, Cards!IdleHighZ).fifo = <<Cards!IdleHighZ>>
    BY <1>3, <1>5, <2>1
  <2>4. device # Cards!Access
    BY <1>7, Codes
  <2> QED
    BY <1>1, <1>2, <2>2, <2>3, <2>4 DEF Alike
<1>8. CASE device \notin {Cards!PAD, Cards!Access, Cards!Ignore}
  <2>1. s.device = Cards!None /\ value # Cards!Access
    BY <1>8 DEF PortType
  <2>2. Cards!Transmit(s, value) = Cards!Push(Cards!Deselected(u), Cards!IdleHighZ)
    BY <1>8 DEF Cards!Transmit
  <2>4. Cards!Deselected(u) = Cards!Deselected(s)
    BY <2>1 DEF Cards!Deselected, PortType
  <2>5. /\ Cards!Deselected(s) \in PortType /\ Cards!Deselected(s).fifo = << >>
        /\ Quiet(Cards!Deselected(s))
    BY DeselectedRight
  <2>6. Alike(s, Cards!Deselected(s))
    BY DeselectedKeeps
  <2>7. /\ Cards!Push(Cards!Deselected(s), Cards!IdleHighZ).device = Cards!None
        /\ Cards!Push(Cards!Deselected(s), Cards!IdleHighZ).card = Cards!Deselected(s).card
        /\ Cards!Push(Cards!Deselected(s), Cards!IdleHighZ).fifo = <<Cards!IdleHighZ>>
    BY <1>3, <1>5, <2>5 DEF Quiet
  <2> QED
    BY <1>1, <1>2, <1>8, <2>2, <2>4, <2>6, <2>7, Codes DEF Alike, Cards!None
<1> QED
  BY <1>6, <1>7, <1>8

(* The control register keeps what the cards hold. *)
LEMMA ControlKeeps ==
    ASSUME NEW s \in PortType, NEW ctrl
    PROVE  Alike(s, Cards!WriteCtrl(s, ctrl))
<1> DEFINE t == [s EXCEPT !.ctrl = ctrl]
           u == IF Cards!Leaves(s, ctrl) THEN Cards!Deselected(t) ELSE t
           v == IF "IR" \in ctrl THEN Cards!Restarted(u) ELSE u
           Same(x) == x.waits = << >> /\ Alike(s, x) /\ \A q \in {0, 1} : x.card[q] \in CardType
           Off(x) == [q \in {0, 1} |-> Cards!Deselect(x.card[q])]
<1>1. Same(t) /\ t = [t EXCEPT !.device = t.device]
  BY DEF PortType, CardStates, Alike
<1>2. ASSUME NEW x, Same(x), NEW y, y.card = Off(x), y.waits = << >> PROVE Same(y)
  <2>1. \A q \in {0, 1} : y.card[q] = Cards!Deselect(x.card[q])
    BY <1>2
  <2>2. \A q \in {0, 1} : Cards!Deselect(x.card[q]) \in CardType /\ Cards!Deselect(x.card[q]).mcd = x.card[q].mcd
    <3>1. /\ Cards!Zero \in Cards!Byte /\ Cards!IdleHighZ \in Cards!Byte
          /\ <<Cards!Zero, Cards!Zero>> \in Cards!Byte \X Cards!Byte /\ << >> \in Seq(Cards!Byte)
      BY Codes
    <3> QED
      BY <1>2, <3>1 DEF CardType, Cards!Deselect
  <2> QED
    BY <1>2, <2>1, <2>2 DEF Alike
<1>3. Same(u)
  <2>1. Cards!Deselected(t).card = Off(t) /\ Cards!Deselected(t).waits = << >>
    BY DEF Cards!Deselected, PortType
  <2> HIDE DEF Same, Off, t
  <2>2. Same(Cards!Deselected(t))
    BY <1>1, <1>2, <2>1
  <2> QED
    BY <1>1, <2>2
<1>4. Same(v)
  <2>1. Cards!Restarted(u).card = Off(u) /\ Cards!Restarted(u).waits = << >>
    BY DEF Cards!Restarted, Cards!Deselected, PortType
  <2> HIDE DEF Same, Off, u
  <2>2. Same(Cards!Restarted(u))
    BY <1>2, <1>3, <2>1
  <2> QED
    BY <1>3, <2>2
<1> HIDE DEF v
<1>5. Cards!WriteCtrl(s, ctrl) = v
  BY <1>4 DEF Cards!WriteCtrl, v
<1> QED
  BY <1>4, <1>5

(* So does reading an answer. *)
LEMMA PulledKeeps == ASSUME NEW s \in PortType PROVE Alike(s, Cards!Pulled(s))
  BY DEF Alike, Cards!Pulled, PortType

-----------------------------------------------------------------------------
(* What a step is to the store.                                            *)

(* The step stores nothing but what the slot's request writes. *)
Moved(p) ==
    \A q \in Cards!Slots :
        \/ sio'.card[q].mcd = sio.card[q].mcd
        \/ q = p /\ asked[p].op = "write" /\ Lands(sio.card[p].mcd, sio'.card[p].mcd, asked[p])

Kept == [q \in Cards!Slots |-> sio.card[q].mcd]
Open == [q \in Cards!Slots |-> IF Cards!Busy(q) THEN 1 ELSE 0]

(* Cards that hold the same are the same to the store. *)
LEMMA AlikeIsKept ==
    /\ Alike(sio, sio') => Kept' = Kept
    /\ Alike(sio, sio') => \A p : Moved(p)
  BY DEF Alike, Kept, Moved, Cards!Slots

(* A card that moved wrote the sector of its open request, or nothing. *)
LEMMA MovedIs ==
    ASSUME NEW p \in Cards!Slots, Moved(p)
    PROVE  \/ Kept' = Kept
           \/ Cards!Store!Written(p)
<1>1. CASE sio'.card[p].mcd = sio.card[p].mcd
  <2>1. Kept' = Kept
    BY <1>1 DEF Kept, Moved
  <2> QED
    BY <2>1
<1>2. CASE sio'.card[p].mcd # sio.card[p].mcd
  <2>1. asked[p].op = "write" /\ Lands(sio.card[p].mcd, sio'.card[p].mcd, asked[p])
    BY <1>2 DEF Moved
  <2>2. Kept' = [Kept EXCEPT ![p] = Kept'[p]]
    BY DEF Kept, Moved
  <2>3. Kept[p] = sio.card[p].mcd /\ Kept'[p] = sio'.card[p].mcd
    BY DEF Kept
  <2>4. /\ \A s : Cards!Sector(Kept'[p], s) =
                      IF s = asked[p].sector THEN asked[p].data ELSE Cards!Sector(Kept[p], s)
        /\ Cards!Sector(Kept'[p], asked[p].sector) = asked[p].data
    BY <2>1, <2>3 DEF Lands
  <2> QED
    BY <2>1, <2>2, <2>4 DEF Cards!Store!Written, Kept
<1> QED
  BY <1>1, <1>2

(* A step during a request that goes on is a step of the store or none. *)
LEMMA StaysOpen ==
    ASSUME NEW p \in Cards!Slots, Cards!Busy(p), Moved(p), asked' = asked, cardFlags' = cardFlags,
           success' = success,
           \/ buffer' = buffer
           \/ Alike(sio, sio') /\ asked[p].op = "read" /\ buffer' = [buffer EXCEPT ![p] = buffer'[p]]
    PROVE  Cards!Store!Next \/ UNCHANGED Cards!Store!vars
<1>1. Open' = Open /\ Open[p] = 1
  BY DEF Open, Cards!Busy
<1>2. CASE buffer' = buffer
  <2>1. CASE Kept' = Kept
    BY <1>1, <1>2, <2>1 DEF Cards!Store!vars, Kept, Open
  <2>2. CASE Cards!Store!Written(p)
    <3>1. Cards!Store!Land(p)
      BY <1>1, <1>2, <2>2 DEF Cards!Store!Land, Open
    <3> QED
      BY <3>1 DEF Cards!Store!Next, Cards!Slots
  <2> QED
    BY <2>1, <2>2, MovedIs
<1>3. CASE Alike(sio, sio') /\ asked[p].op = "read" /\ buffer' = [buffer EXCEPT ![p] = buffer'[p]]
  <2>1. Kept' = Kept
    BY <1>3, AlikeIsKept
  <2>2. Cards!Store!Fill(p)
    BY <1>1, <1>3, <2>1 DEF Cards!Store!Fill, Open, Kept
  <2> QED
    BY <2>2 DEF Cards!Store!Next, Cards!Slots
<1> QED
  BY <1>2, <1>3

(* A step that changes no card and no request changes at most what was reported. *)
LEMMA Unmoved ==
    ASSUME Alike(sio, sio'), asked' = asked, cardFlags' = cardFlags, buffer' = buffer
    PROVE  /\ success' = success => UNCHANGED Cards!Store!vars
           /\ success' = 0 => Cards!Store!Next
<1>1. Kept' = Kept /\ Open' = Open
  BY AlikeIsKept DEF Open, Cards!Busy
<1>2. success' = success => UNCHANGED Cards!Store!vars
  BY <1>1 DEF Cards!Store!vars, Kept, Open
<1>3. success' = 0 => Cards!Store!Forget
  BY <1>1 DEF Cards!Store!Forget, Kept, Open
<1> QED
  BY <1>2, <1>3 DEF Cards!Store!Next

(* A request that ends is closed in the store. *)
LEMMA Closes ==
    ASSUME NEW p \in Cards!Slots, Cards!Busy(p), cardFlags \in [Cards!Slots -> {0, 1, 2, 4}],
           cardFlags' = [cardFlags EXCEPT ![p] = 1],
           asked' = asked, buffer' = [buffer EXCEPT ![p] = buffer'[p]], success' \in {0, 1}
    PROVE  Cards!Store!End(p, success')
<1>1. Open[p] = 1 /\ Open' = [Open EXCEPT ![p] = 0]
  BY DEF Open, Cards!Busy
<1> QED
  BY <1>1 DEF Cards!Store!End, Open

(* One that ends without success fails there, and may have been written by its last byte. *)
LEMMA Fails ==
    ASSUME NEW p \in Cards!Slots, Moved(p), Cards!Store!End(p, 0)
    PROVE  Cards!Store!Next
<1>1. Kept' = Kept \/ Cards!Store!Written(p)
  BY MovedIs
<1>2. Cards!Store!Fail(p)
  BY <1>1 DEF Cards!Store!Fail, Kept
<1> QED
  BY <1>2 DEF Cards!Store!Next, Cards!Slots

(* One that ends with success has been done by then. *)
LEMMA Succeeds ==
    ASSUME NEW p \in Cards!Slots, Alike(sio, sio'), Cards!Store!End(p, 1),
           asked[p].op = "write" => Cards!Sector(sio.card[p].mcd, asked[p].sector) = asked[p].data,
           asked[p].op = "read" => buffer'[p] = Cards!Sector(sio.card[p].mcd, asked[p].sector)
    PROVE  Cards!Store!Next
<1>1. Kept' = Kept /\ Kept[p] = sio.card[p].mcd
  BY AlikeIsKept DEF Kept
<1>2. Cards!Store!Succeed(p)
  BY <1>1 DEF Cards!Store!Succeed, Kept
<1> QED
  BY <1>2 DEF Cards!Store!Next, Cards!Slots

-----------------------------------------------------------------------------
(* What a byte does to what the driver and the card know of each other.    *)

(* A handler's byte of a write stores what was asked, or nothing; the last  *)
(* one nothing, and when the answer to the one before is good, all is done. *)
LEMMA WriteMoves ==
    ASSUME NEW m \in Globals, m.fast = 0, NEW c \in CardStates, NEW r \in Asked, r.op = "write", r.data \in Block,
           Fresh(m, c) \/ OnCourse(m, c, r) \/ Lost(m, c)
    PROVE  LET d == Cards!Transceive(c, Cards!Sent(m, r, m.op + 1)).card
           IN  /\ MayLand(c.mcd, d.mcd, r)
               /\ m.op = 9 => /\ d.mcd = c.mcd
                              /\ c.spdr = Cards!GoodReadWrite => Cards!Sector(c.mcd, r.sector) = r.data
<1> DEFINE value == Cards!Sent(m, r, m.op + 1)
           a == Cards!Transceive(c, value)
           d == a.card
<1>1. /\ value \in Cards!Byte /\ m.op \in 0 .. 12 /\ c.ticks \in Nat
      /\ SectorSize \in Nat /\ SectorSize >= 2 /\ SectorSize <= 128
  BY SentType, Sizes, Codes, CardFields DEF Globals
<1>2. c.command = Cards!Write => a = Cards!TickWrite(c, value)
  BY <1>1, CommandIs
<1>3. ASSUME c.command = Cards!Write, c.ticks < 7 + SectorSize PROVE d.mcd = c.mcd
  BY <1>1, <1>2, <1>3, TickWriteIs
<1>4. CASE Fresh(m, c)
  <2>1. c.ticks = 0 /\ m.op # 9
    BY <1>1, <1>4, Codes DEF Fresh, CardStates
  <2>2. d.mcd = c.mcd
    <3> DEFINE e == [c EXCEPT !.command = value]
    <3>1. /\ value # Cards!Write => d.mcd = c.mcd
          /\ value = Cards!Write => e \in CardStates /\ e.command = value /\ e.ticks = 0 /\ e.mcd = c.mcd
                                    /\ a = Cards!TickWrite(e, value)
      BY <1>1, <1>4, CommandIs DEF Fresh
    <3> HIDE DEF e, value
    <3>2. value = Cards!Write => d.mcd = c.mcd
      BY <1>1, <3>1, TickWriteIs
    <3> QED
      BY <3>1, <3>2
  <2> QED
    BY <2>1, <2>2 DEF MayLand
<1>5. CASE Lost(m, c)
  <2>1. c.command = Cards!Write /\ c.ticks < 7 + SectorSize /\ m.op # 9
    BY <1>1, <1>5 DEF Lost
  <2> QED
    BY <1>3, <2>1 DEF MayLand
<1>6. CASE OnCourse(m, c, r)
  <2>1. c.command = Cards!Write /\ Faithful(c, r)
    BY <1>6 DEF OnCourse
  <2>2. CASE c.ticks < 5 + SectorSize
    <3>1. m.op # 9
      BY <1>1, <1>6, <2>2 DEF OnCourse
    <3> QED
      BY <1>1, <1>3, <2>1, <2>2, <3>1 DEF MayLand
  <2>3. CASE c.ticks >= 5 + SectorSize
    <3>1. /\ MayLand(c.mcd, d.mcd, r)
          /\ c.ticks > 7 + SectorSize => d.mcd = c.mcd
      BY <1>1, <1>2, <2>1, <2>3, CheckStep
    <3>2. m.op = 9 => c.ticks > 7 + SectorSize
      BY <1>1, <1>6, <2>3 DEF OnCourse
    <3> HIDE DEF d
    <3> QED
      BY <1>1, <2>1, <3>1, <3>2 DEF Faithful, d
  <2> QED
    BY <1>1, <2>2, <2>3
<1> QED
  BY <1>4, <1>5, <1>6

(* The handler goes on with a write. *)
LEMMA WriteGoesOn ==
    ASSUME NEW m \in Globals, m.fast = 0, NEW c \in CardStates, NEW r \in Asked, r.op = "write", r.data \in Block,
           Fresh(m, c) \/ OnCourse(m, c, r) \/ Lost(m, c),
           m.count > 0 => m.op \notin {4, 5}, m.op + 1 < 10,
           m.op = 3 => Cards!Fifo(sio) = Cards!ID1,
           mc'.op = m.op + 1, mc'.count = m.count, mc'.port = m.port,
           mc'.fast = Cards!FastAfter(m, r, m.op + 1), cardFlags' = cardFlags,
           Cards!Fifo(sio)' = c.spdr
    PROVE  LET d == Cards!Transceive(c, Cards!Sent(m, r, m.op + 1)).card
           IN  \/ Fresh(mc', d) \/ OnCourse(mc', d, r)
               \/ /\ d.command = Cards!Write /\ cardFlags'[1 - m.port] # 1
                  /\ mc'.op <= 3 /\ mc'.count = 0 /\ mc'.fast = 0
                  /\ d.ticks \in 1 .. 4 + mc'.op
                  /\ mc'.op >= 1 /\ d.ticks = 4 + mc'.op /\ Cards!Exists(d.sector) => 7 \in d.sum
                  /\ mc'.op = 2 => d.spdr # Cards!ID1
                  /\ mc'.op = 3 => Cards!Fifo(sio)' # Cards!ID1
<1> DEFINE n == m.op + 1
           value == Cards!Sent(m, r, n)
           a == Cards!Transceive(c, value)
           d == a.card
           fast == Cards!FastAfter(m, r, n)
<1>1. /\ value \in Cards!Byte /\ m.op \in 0 .. 12 /\ c.ticks \in Nat /\ n \in 1 .. 9 /\ m.count \in Nat
      /\ SectorSize \in Nat /\ SectorSize >= 2 /\ SectorSize <= 128
  <2>1. value \in Cards!Byte
    BY SentType, Codes
  <2>2. m.op \in 0 .. 12 /\ m.count \in Nat
    BY DEF Globals
  <2> HIDE DEF value
  <2> QED
    BY <2>1, <2>2, Sizes, CardFields
<1>2. /\ c.command = Cards!Write => a = Cards!TickWrite(c, value) /\ d.command = Cards!Write
      /\ d \in CardStates
  BY <1>1, CommandIs, Codes
<1>3. fast = IF n = 6 THEN 1 ELSE 0
  BY DEF Cards!FastAfter
<1>4. /\ n = 1 => value = Cards!Access
      /\ n = 2 => value = Cards!Write
      /\ n \in {3, 4} => value = Cards!Zero
      /\ n = 5 => value = r.sector[1]
      /\ n = 6 => value = r.sector[2]
  BY <1>1 DEF Cards!Sent
<1> HIDE DEF n, value, a, fast
<1>5. CASE Fresh(m, c)
  <2>1. n \in {1, 2} /\ c.command = Cards!Access /\ m.count = 0
    BY <1>1, <1>5 DEF Fresh, n
  <2>2. CASE n = 1
    <3>1. d.command = Cards!Access
      BY <1>1, <1>4, <2>1, <2>2, CommandIs DEF a
    <3> QED
      BY <1>3, <2>1, <2>2, <3>1 DEF Fresh, n, fast, a, value
  <2>3. CASE n = 2
    <3> DEFINE e == [c EXCEPT !.command = value]
    <3>1. /\ e \in CardStates /\ e.command = Cards!Write /\ e.ticks = 0
          /\ a = Cards!TickWrite(e, value) /\ d.command = Cards!Write
      BY <1>1, <1>4, <2>1, <2>3, CommandIs DEF a
    <3> HIDE DEF e
    <3>2. Faithful(e, r)
      BY <1>1, <3>1 DEF Faithful
    <3>3. Faithful(d, r) /\ d.ticks = 1
      BY <1>1, <3>1, <3>2, NumberStep
    <3>4. OnCourse(mc', d, r)
      BY <1>1, <1>3, <2>1, <2>3, <3>1, <3>3 DEF OnCourse, n, fast
    <3> QED
      BY <3>4 DEF n, a, value
  <2> QED
    BY <2>1, <2>2, <2>3
<1>6. CASE OnCourse(m, c, r)
  <2>1. c.command = Cards!Write /\ Faithful(c, r) /\ a = Cards!TickWrite(c, value) /\ d.command = Cards!Write
    BY <1>2, <1>6 DEF OnCourse
  <2>2. CASE m.count = 0 /\ m.op \in 2 .. 5 /\ c.ticks = m.op - 1
    <3>1. Faithful(d, r) /\ d.ticks = n - 1
      <4>1. c.ticks \in 0 .. 4 /\ (c.ticks = 3 => n = 5) /\ (c.ticks = 4 => n = 6) /\ c.ticks = n - 2
        BY <1>1, <2>2 DEF n
      <4> QED
        BY <1>1, <1>4, <2>1, <4>1, NumberStep
    <3>2. OnCourse(mc', d, r)
      BY <1>1, <1>3, <2>1, <2>2, <3>1 DEF OnCourse, n, fast
    <3> QED
      BY <3>2 DEF n, a, value
  <2>3. CASE m.count = SectorSize /\ c.ticks >= 5 + SectorSize /\ (m.op >= 6 => c.ticks >= m.op - 1 + SectorSize)
    <3>1. Faithful(d, r) /\ IF c.ticks > 7 + SectorSize THEN d.ticks = c.ticks
                            ELSE d.ticks \in Nat /\ d.ticks >= c.ticks + 1
      BY <1>1, <2>1, <2>3, CheckStep
    <3>2. n \notin {5, 6} /\ fast = 0
      BY <1>1, <1>3, <2>3 DEF n
    <3>3. d.ticks >= 5 + SectorSize /\ (n >= 6 => d.ticks >= n - 1 + SectorSize)
      BY <1>1, <2>3, <3>1, <3>2 DEF n
    <3>4. OnCourse(mc', d, r)
      BY <1>1, <2>1, <2>3, <3>1, <3>2, <3>3 DEF OnCourse, n, fast
    <3> QED
      BY <3>4 DEF n, a, value
  <2> QED
    BY <1>6, <2>2, <2>3 DEF OnCourse
<1>7. CASE Lost(m, c)
  <2>1. /\ c.command = Cards!Write /\ Cards!Busy(1 - m.port) /\ m.op <= 3 /\ m.count = 0
        /\ c.ticks \in 1 .. 4 + m.op
        /\ m.op >= 1 /\ c.ticks = 4 + m.op /\ Cards!Exists(c.sector) => 7 \in c.sum
        /\ m.op = 2 => c.spdr # Cards!ID1
        /\ m.op = 3 => Cards!Fifo(sio) # Cards!ID1
    BY <1>7 DEF Lost
  <2>2. m.op \in {0, 1, 2} /\ n = m.op + 1 /\ a = Cards!TickWrite(c, value) /\ d.command = Cards!Write
    BY <1>1, <1>2, <2>1 DEF n
  <2>3. c.ticks \in 1 .. 6 /\ c.ticks < 5 + SectorSize /\ d.ticks = c.ticks + 1 /\ fast = 0
    <3>1. c.ticks \in 1 .. 6 /\ c.ticks < 5 + SectorSize
      BY <1>1, <2>1, <2>2
    <3>2. d.ticks = c.ticks + 1
      BY <1>1, <2>1, <2>2, <3>1, TickWriteIs
    <3> QED
      BY <1>3, <2>2, <3>1, <3>2
  <2>4. ASSUME d.ticks = 4 + n, Cards!Exists(d.sector) PROVE 7 \in d.sum
    <3>1. c.ticks = 4 + m.op
      BY <2>2, <2>3, <2>4
    <3>2. CASE m.op = 0
      <4>1. d.sector = <<c.sector[1], value>> /\ d.sum = Cards!SymDiff(c.sector[1], value) /\ value = Cards!Access
        BY <1>1, <1>4, <2>1, <2>2, <3>1, <3>2, TickWriteIs
      <4>2. 7 \notin c.sector[1]
        BY <2>4, <4>1 DEF Cards!Exists
      <4>3. 7 \in Cards!Access
        BY DEF Cards!Access
      <4> HIDE DEF d
      <4> QED
        BY <4>1, <4>2, <4>3 DEF Cards!SymDiff
    <3>3. CASE m.op \in {1, 2}
      <4>1. c.ticks \in 5 .. 4 + SectorSize /\ c.ticks \notin {3, 4}
        BY <1>1, <3>1, <3>3
      <4>2. d.sector = c.sector /\ d.sum = Cards!SymDiff(c.sum, value)
        BY <1>1, <2>1, <2>2, <4>1, TickWriteIs
      <4>3. 7 \in c.sum
        BY <1>1, <2>1, <2>4, <3>1, <3>3, <4>2
      <4>4. value \in {Cards!Write, Cards!Zero}
        BY <1>4, <2>2, <3>3
      <4>5. 7 \notin value
        BY <4>4 DEF Cards!Write, Cards!Zero
      <4> HIDE DEF d
      <4> QED
        BY <4>2, <4>3, <4>5 DEF Cards!SymDiff
    <3> QED
      BY <2>2, <3>2, <3>3
  <2>5. ASSUME n = 2 PROVE d.spdr # Cards!ID1
    <3>1. value = Cards!Write /\ c.ticks \in 1 .. 5
      BY <1>4, <2>1, <2>2, <2>5
    <3>2. d.spdr \in {Cards!ID2, Cards!Zero, value}
      <4>1. /\ c.ticks = 1 => d.spdr = Cards!ID2
            /\ c.ticks = 2 => d.spdr = Cards!Zero
            /\ c.ticks \in 3 .. 4 + SectorSize => d.spdr = value
        BY <1>1, <2>1, <2>2, TickWriteIs
      <4> HIDE DEF d
      <4> QED
        BY <1>1, <3>1, <4>1
    <3>3. Cards!Zero # Cards!ID1
      BY DEF Cards!Zero, Cards!ID1
    <3> QED
      BY <3>1, <3>2, <3>3, Codes
  <2>6. n = 3 => c.spdr # Cards!ID1
    BY <2>1, <2>2
  <2>7. cardFlags'[1 - m.port] # 1
    BY <2>1 DEF Cards!Busy
  <2> HIDE DEF d
  <2>8. /\ d.command = Cards!Write /\ cardFlags'[1 - m.port] # 1
        /\ n <= 3 /\ mc'.count = 0 /\ fast = 0
        /\ d.ticks \in 1 .. 4 + n
        /\ n >= 1 /\ d.ticks = 4 + n /\ Cards!Exists(d.sector) => 7 \in d.sum
        /\ n = 2 => d.spdr # Cards!ID1
        /\ n = 3 => Cards!Fifo(sio)' # Cards!ID1
    BY <2>1, <2>2, <2>3, <2>4, <2>5, <2>6, <2>7
  <2> QED
    BY <2>8 DEF d, a, value, n, fast
<1> QED
  BY <1>5, <1>6, <1>7

(* A byte of a read keeps the card that is in step in step, and the one    *)
(* that is ahead ahead; a card that has no more to say is silent.          *)
LEMMA ReadGoesOn ==
    ASSUME NEW c \in CardStates, NEW r \in Asked, NEW value \in Cards!Byte,
           NEW done \in Nat,
           c.command = Cards!Read, c.ticks <= 10 + SectorSize, c.ticks >= done - 1,
           c.ticks = done - 1 =>
               /\ c.ticks = 4 => c.sector[1] = r.sector[1]
               /\ c.ticks >= 5 => c.sector = r.sector
               /\ c.ticks \in 9 .. 8 + SectorSize => c.spdr = Cards!Sector(c.mcd, r.sector)[c.ticks - 8]
               /\ c.ticks = 3 => value = r.sector[1]
               /\ c.ticks = 4 => value = r.sector[2]
    PROVE  LET a == Cards!Transceive(c, value)
               d == a.card
               held == Cards!Sector(d.mcd, r.sector)
           IN  /\ d.command = Cards!Read /\ d.ticks <= 10 + SectorSize /\ d.mcd = c.mcd
               /\ \/ a.ack # 1
                  \/ d.ticks > done
                  \/ /\ d.ticks = done
                     /\ d.ticks = 4 => d.sector[1] = r.sector[1]
                     /\ d.ticks >= 5 => d.sector = r.sector
                     /\ d.ticks \in 9 .. 8 + SectorSize => d.spdr = held[d.ticks - 8]
                     /\ d.ticks \in 10 .. 9 + SectorSize => c.spdr = held[d.ticks - 9]
<1> DEFINE a == Cards!Transceive(c, value)
           d == a.card
           held == Cards!Sector(c.mcd, r.sector)
           t == c.ticks
<1>1. /\ SectorSize \in Nat /\ SectorSize >= 2 /\ t \in Nat
      /\ r.sector = <<r.sector[1], r.sector[2]>>
  BY Sizes, CardFields, PairIs DEF Asked
<1>2. /\ a = Cards!TickRead(c, value) /\ d \in CardStates
  BY CommandIs
<1>3. /\ d.mcd = c.mcd /\ d.command = Cards!Read
      /\ t <= 9 + SectorSize => a.ack = 1 /\ d.ticks = t + 1
      /\ t > 9 + SectorSize => a.ack = 0 /\ d.ticks = t
      /\ t \notin {3, 4} => d.sector = c.sector
      /\ t = 3 => d.sector = <<value, Cards!Zero>>
      /\ t = 4 => d.sector = <<c.sector[1], value>>
      /\ t \in 8 .. 7 + SectorSize => d.spdr = Cards!Sector(c.mcd, c.sector)[t - 7]
  BY <1>2, TickReadIs
<1> HIDE DEF a, held
<1>4. CASE t > 9 + SectorSize
  BY <1>1, <1>3, <1>4 DEF a
<1>5. CASE t <= 9 + SectorSize /\ t > done - 1
  BY <1>1, <1>3, <1>5 DEF a
<1>6. CASE t <= 9 + SectorSize /\ t = done - 1
  <2>1. d.ticks = done /\ d.ticks = t + 1
    BY <1>3, <1>6
  <2>2. d.ticks = 4 => d.sector[1] = r.sector[1]
    BY <1>1, <1>3, <1>6, <2>1
  <2>3. d.ticks >= 5 => d.sector = r.sector
    <3>1. t = 4 => d.sector = r.sector
      BY <1>1, <1>3, <1>6
    <3>2. t >= 5 => d.sector = r.sector
      BY <1>1, <1>3, <1>6
    <3> QED
      BY <1>1, <2>1, <3>1, <3>2
  <2>4. d.ticks \in 9 .. 8 + SectorSize => d.spdr = held[d.ticks - 8]
    <3> SUFFICES ASSUME d.ticks \in 9 .. 8 + SectorSize PROVE d.spdr = held[d.ticks - 8]
      OBVIOUS
    <3>1. t \in 8 .. 7 + SectorSize /\ d.ticks - 8 = t - 7 /\ c.sector = r.sector
      BY <1>1, <1>6, <2>1
    <3> QED
      BY <1>3, <3>1 DEF held
  <2>5. d.ticks \in 10 .. 9 + SectorSize => c.spdr = held[d.ticks - 9]
    <3> SUFFICES ASSUME d.ticks \in 10 .. 9 + SectorSize PROVE c.spdr = held[d.ticks - 9]
      OBVIOUS
    <3>1. t \in 9 .. 8 + SectorSize /\ d.ticks - 9 = t - 8
      BY <1>1, <2>1
    <3> QED
      BY <1>6, <3>1 DEF held
  <2>6. d.ticks <= 10 + SectorSize
    BY <1>1, <1>6, <2>1
  <2> QED
    BY <1>3, <2>1, <2>2, <2>3, <2>4, <2>5, <2>6 DEF a, held
<1> QED
  BY <1>1, <1>4, <1>5, <1>6

(* The first byte of a read. *)
LEMMA ReadBegins ==
    ASSUME NEW c \in CardStates, c.command = Cards!Access
    PROVE  LET d == Cards!Transceive(c, Cards!Read).card
           IN  d.command = Cards!Read /\ d.ticks = 1
<1> DEFINE e == [c EXCEPT !.command = Cards!Read]
<1>1. /\ e \in CardStates /\ e.command = Cards!Read /\ e.ticks = 0
      /\ Cards!Transceive(c, Cards!Read) = Cards!TickRead(e, Cards!Read)
  BY CommandIs, Codes
<1> HIDE DEF e
<1> QED
  BY <1>1, TickReadIs, Codes, Sizes

-----------------------------------------------------------------------------
(* What a call of the handler does, beyond what HandleRight says. *)
Sends(m) == Cards!WriteByte(Cleared(m), Cards!Sent(m, asked[m.port], m.op + 1))

(* What the handler sends, and where it leaves off. *)
LEMMA HandleSends ==
    ASSUME DriverTypes, Requested, NEW m \in Globals, Engaged(m), Cards!Busy(m.port),
           NEW reported \in {0, 1}, Cards!Handle(m, reported), stage' \in Cards!Stages
    PROVE  LET n == m.op + 1
               p == m.port
               r == asked[p]
               b == Cards!Fifo(Cards!Selected(m, n))
               filled == r.op = "read" /\ n = 12
           IN  /\ Alike(sio, sio') \/ Alike(Sends(m), sio')
               /\ \/ success' = 0 /\ RequestOver(m)
                  \/ success' = reported /\ RequestGoesOn(m)
                  \/ /\ success' = 1 /\ RequestOver(m) /\ n = Cards!LastOp(r)
                     /\ Alike(Sends(m), sio')
                     /\ r.op = "info" \/ Cards!Fifo(Sends(m)) = Cards!GoodReadWrite
               /\ buffer' = IF filled THEN [buffer EXCEPT ![p][SectorSize] = b] ELSE buffer
               /\ m.op # 6 => b = Cards!Fifo(sio)
<1> DEFINE n == m.op + 1
           p == m.port
           r == asked[p]
           s == Cards!Selected(m, n)
           b == Cards!Fifo(s)
           filled == r.op = "read" /\ n = 12
           t == IF n > Cards!LastOp(r) THEN s ELSE Cards!Exchange(s, Cards!Sent(m, r, n))
           v == [sio EXCEPT !.ctrl = On(p)]
           w == Sends(m)
<1>1. /\ p \in Cards!Slots /\ r \in Asked /\ r.op \in {"read", "write", "info"} /\ n \in Nat
      /\ sio \in PortType /\ Len(sio.fifo) <= 1
  BY DEF DriverTypes, Requested, Globals, Cards!Slots, Asked
<1>2. Cards!Sent(m, r, n) \in Cards!Byte
  BY <1>1, SentType, Codes
<1>3. /\ v \in PortType /\ v.fifo = sio.fifo /\ v.card = sio.card
      /\ s \in {v, Cards!Pulled(v)} /\ (m.op # 6 => s = v)
  BY <1>1, SelectedRight
<1> HIDE DEF v
<1>4. Alike(sio, s) /\ s \in PortType
  <2>1. Alike(v, Cards!Pulled(v)) /\ Cards!Pulled(v) \in PortType
    BY <1>1, <1>3, PulledKeeps, FifoRight
  <2> QED
    BY <1>3, <2>1 DEF Alike
<1>5. m.op # 6 => b = Cards!Fifo(sio)
  BY <1>3 DEF Cards!Fifo
<1>6. /\ Cards!Exchange(s, Cards!Sent(m, r, n)) = w
      /\ Cleared(m) \in PortType /\ Cleared(m).fifo = << >> /\ Cleared(m).ctrl = On(p)
  BY <1>1, <1>2, ExchangeRight DEF Cleared, Sends
<1>7. w \in PortType /\ Len(w.fifo) = 1
  BY <1>2, <1>6, OnRight, SendRight DEF Sends
<1>8. t \in PortType /\ (Alike(sio, t) \/ Alike(w, t)) /\ (n <= Cards!LastOp(r) => t = w)
  <2>1. Cards!LastOp(r) \in {13, 10, 4}
    BY <1>1 DEF Cards!LastOp
  <2>2. Alike(w, w)
    BY DEF Alike
  <2> HIDE DEF s, w
  <2> QED
    BY <1>1, <1>4, <1>6, <1>7, <2>1, <2>2
<1>9. /\ buffer' = IF filled THEN [buffer EXCEPT ![p][SectorSize] = b] ELSE buffer
      /\ IF Cards!GivesUp(m, n, b)
         THEN Cards!Ends(m, 0) /\ sio' = Cards!WriteCtrl(t, {})
         ELSE IF n < Cards!LastOp(r) THEN Cards!Goes(m, n, b, reported) /\ sio' = t
         ELSE /\ Cards!Ends(m, IF Cards!GoodEnd(r, t) THEN 1 ELSE 0)
              /\ sio' = Cards!WriteCtrl(Cards!Emptied(r, t), {})
  BY DEF Cards!Handle
<1> HIDE DEF t, s, w, n
<1>10. /\ Alike(t, Cards!WriteCtrl(t, {})) /\ Alike(t, t)
       /\ n <= Cards!LastOp(r) => Alike(t, Cards!WriteCtrl(Cards!Emptied(r, t), {}))
  <2>1. Alike(t, Cards!WriteCtrl(t, {})) /\ Alike(t, t)
    BY <1>8, ControlKeeps DEF Alike
  <2>2. ASSUME n <= Cards!LastOp(r)
        PROVE  Alike(t, Cards!WriteCtrl(Cards!Emptied(r, t), {}))
    <3>0. t = w
      BY <1>8, <2>2
    <3>1. Cards!Pulled(t) \in PortType /\ Alike(t, Cards!Pulled(t))
      <4>0. Len(t.fifo) = 1
        BY <1>7, <3>0
      <4>1. Len(t.fifo) <= 1
        BY <4>0
      <4> QED
        BY <1>8, <4>1, PulledKeeps, FifoRight
    <3>2. Cards!Emptied(r, t) \in PortType /\ Alike(t, Cards!Emptied(r, t))
      BY <1>8, <2>1, <3>1 DEF Cards!Emptied
    <3>3. Alike(Cards!Emptied(r, t), Cards!WriteCtrl(Cards!Emptied(r, t), {}))
      BY <3>2, ControlKeeps
    <3> QED
      BY <3>2, <3>3 DEF Alike
  <2> QED
    BY <2>1, <2>2
<1>11. ~Cards!GivesUp(m, n, b) => n <= Cards!LastOp(r)
  <2>1. Cards!LastOp(r) \in {13, 10, 4}
    BY <1>1 DEF Cards!LastOp
  <2> QED
    BY <1>1, <2>1 DEF Cards!GivesUp, n
<1>12. Alike(t, sio')
  BY <1>9, <1>10, <1>11
<1>13. Alike(sio, sio') \/ Alike(w, sio')
  BY <1>8, <1>12 DEF Alike
<1>14. RequestOver(m) \/ RequestGoesOn(m)
  BY HandleRight
<1>15. Cards!Over(m).op = 0 /\ n # 0
  BY DEF Cards!Over, Globals, n
<1>16. ASSUME mc' = Cards!Over(m) PROVE RequestOver(m)
  <2>1. RequestGoesOn(m) => mc'.op = n
    BY DEF RequestGoesOn, Globals, n
  <2> QED
    BY <1>14, <1>15, <1>16, <2>1
<1>17. CASE Cards!GivesUp(m, n, b)
  <2>1. success' = 0 /\ mc' = Cards!Over(m)
    BY <1>9, <1>17 DEF Cards!Ends
  <2> QED
    BY <1>5, <1>9, <1>13, <1>16, <2>1 DEF s, n, w
<1>18. CASE ~Cards!GivesUp(m, n, b) /\ n < Cards!LastOp(r)
  <2>1. success' = reported /\ mc'.op = n
    BY <1>9, <1>18 DEF Cards!Goes, Globals
  <2>2. RequestGoesOn(m)
    BY <1>14, <1>15, <2>1 DEF RequestOver
  <2> QED
    BY <1>5, <1>9, <1>13, <2>1, <2>2 DEF s, n, w
<1>19. CASE ~Cards!GivesUp(m, n, b) /\ ~(n < Cards!LastOp(r))
  <2>0. Cards!LastOp(r) \in {13, 10, 4} /\ n \in Nat
    BY <1>1 DEF Cards!LastOp
  <2>1. n = Cards!LastOp(r) /\ t = w /\ Alike(w, sio')
    BY <1>8, <1>11, <1>12, <1>19, <2>0
  <2>2. /\ success' = IF Cards!GoodEnd(r, t) THEN 1 ELSE 0
        /\ mc' = Cards!Over(m)
    BY <1>9, <1>19 DEF Cards!Ends
  <2>3. RequestOver(m)
    BY <1>16, <2>2
  <2>4. CASE Cards!GoodEnd(r, t)
    <3>1. r.op = "info" \/ Cards!Fifo(w) = Cards!GoodReadWrite
      BY <2>1, <2>4 DEF Cards!GoodEnd
    <3> QED
      BY <1>5, <1>9, <1>13, <2>1, <2>2, <2>3, <2>4, <3>1 DEF s, n, w
  <2>5. CASE ~Cards!GoodEnd(r, t)
    BY <1>5, <1>9, <1>13, <2>2, <2>3, <2>5 DEF s, n, w
  <2> QED
    BY <2>4, <2>5
<1> QED
  BY <1>17, <1>18, <1>19

(* What the handler sends is the next byte of its request. *)
LEMMA SendsRight ==
    ASSUME DriverTypes, Requested, NEW m \in Globals, Engaged(m), Cards!Busy(m.port)
    PROVE  LET p == m.port
               c == sio.card[p]
               value == Cards!Sent(m, asked[p], m.op + 1)
               a == Cards!Transceive(c, value)
               w == Sends(m)
           IN  /\ p \in Cards!Slots /\ c \in CardStates /\ value \in Cards!Byte /\ w.ctrl = On(p)
               /\ asked[p] \in Asked /\ asked[p].op \in {"read", "write", "info"}
               /\ \/ /\ w.device = Cards!Access /\ sio.device # Cards!Ignore
                     /\ w.card = [sio.card EXCEPT ![p] = a.card] /\ w.card[p] = a.card
                     /\ w.fifo = <<c.spdr>> /\ (a.ack # 1 => w.due = sio.due)
                  \/ w.device # Cards!Access /\ Alike(sio, w) /\ w.fifo = <<Cards!IdleHighZ>>
<1> DEFINE p == m.port
           c == sio.card[p]
           value == Cards!Sent(m, asked[p], m.op + 1)
           a == Cards!Transceive(c, value)
           u == Cleared(m)
           w == Sends(m)
<1>1. /\ p \in Cards!Slots /\ asked[p] \in Asked /\ asked[p].op \in {"read", "write", "info"}
      /\ sio \in PortType /\ Len(sio.fifo) <= 1
  BY DEF DriverTypes, Requested, Globals, Cards!Slots, Asked
<1>2. value \in Cards!Byte /\ c \in CardStates
  BY <1>1, SentType, Codes DEF PortType, Cards!Slots
<1>3. /\ u \in PortType /\ u.ctrl = On(p) /\ u.fifo = << >> /\ u.device = sio.device
      /\ u.due = sio.due /\ u.card = sio.card /\ Cards!Port(u) = p
  BY <1>1, <1>2, ExchangeRight DEF Cleared
<1>4. w = Cards!WriteByte(u, value)
  BY DEF Sends
<1> DEFINE device == IF u.device = Cards!None THEN value ELSE u.device
<1> HIDE DEF u, w, value, c
<1>5. /\ w.ctrl = u.ctrl
      /\ device # Cards!Access => Alike(u, w) /\ w.device # Cards!Access /\ w.fifo = <<Cards!IdleHighZ>>
      /\ device = Cards!Access =>
            \/ /\ w.device = Cards!Access /\ w.card = [u.card EXCEPT ![p] = Cards!Transceive(u.card[p], value).card]
               /\ w.fifo = <<u.card[p].spdr>> /\ (Cards!Transceive(u.card[p], value).ack # 1 => w.due = u.due)
            \/ /\ w.device = Cards!Ignore /\ Alike(u, w) /\ w.fifo = <<Cards!IdleHighZ>>
               /\ w.due = u.due
  <2>1. "TXEN" \in u.ctrl
    BY <1>3, OnRight
  <2> QED
    BY <1>2, <1>3, <1>4, <2>1, SendKeeps
<1>6. Alike(u, w) => Alike(sio, w)
  BY <1>3 DEF Alike
<1>7. u.card[p] = c /\ sio.card \in [{0, 1} -> CardStates] /\ Cards!Ignore # Cards!Access /\ Cards!Ignore # Cards!None
  BY <1>1, <1>3, Codes DEF c, PortType, Cards!None
<1>8. CASE device # Cards!Access
  BY <1>1, <1>2, <1>3, <1>5, <1>6, <1>8 DEF c, w, value
<1>9. CASE device = Cards!Access
  <2>1. sio.device # Cards!Ignore
    BY <1>3, <1>7, <1>9
  <2>2. CASE w.device = Cards!Access
    <3>1. /\ w.card = [sio.card EXCEPT ![p] = a.card]
          /\ w.fifo = <<c.spdr>> /\ (a.ack # 1 => w.due = sio.due)
      BY <1>3, <1>5, <1>7, <1>9, <2>2
    <3>2. w.card[p] = a.card
      BY <1>1, <1>7, <3>1 DEF Cards!Slots
    <3> QED
      BY <1>1, <1>2, <1>3, <1>5, <2>1, <2>2, <3>1, <3>2 DEF c, w, value
  <2>3. CASE w.device # Cards!Access
    BY <1>1, <1>2, <1>3, <1>5, <1>6, <1>9, <2>3 DEF c, w, value
  <2> QED
    BY <2>2, <2>3
<1> QED
  BY <1>8, <1>9

(* A byte of the handler stores nothing but what a write has asked for. *)
LEMMA CardMoves ==
    ASSUME StoreInv, mc.active = 1, sio.device = Cards!Access, mc.fast = 0
    PROVE  LET p == mc.port
               r == asked[p]
               c == sio.card[p]
               d == Cards!Transceive(c, Cards!Sent(mc, r, mc.op + 1)).card
           IN  /\ d.mcd = c.mcd \/ (r.op = "write" /\ Lands(c.mcd, d.mcd, r))
               /\ r.op = "write" /\ mc.op = 9 =>
                     /\ d.mcd = c.mcd
                     /\ c.spdr = Cards!GoodReadWrite => Cards!Sector(c.mcd, r.sector) = r.data
               /\ r.op = "read" /\ mc.op = 12 /\ ireg = 1 => buffer[p] = Cards!Sector(c.mcd, r.sector)
<1> DEFINE p == mc.port
           r == asked[p]
           c == sio.card[p]
           value == Cards!Sent(mc, r, mc.op + 1)
           d == Cards!Transceive(c, value).card
<1>1. /\ mc \in Globals /\ p \in Cards!Slots /\ r \in Asked /\ r.op \in {"read", "write", "info"}
      /\ c \in CardStates /\ value \in Cards!Byte /\ Cards!Busy(p) /\ mc.op \in 0 .. 12 /\ mc.count \in Nat
      /\ buffer[p] \in Block
  <2>1. /\ mc \in Globals /\ p \in Cards!Slots /\ sio \in PortType /\ Cards!Busy(p) /\ r \in Asked
    BY DEF StoreInv, CardsInv, DriverTypes, Globals, Cards!Slots, Counts, CountsOf
  <2>2. r.op \in {"read", "write", "info"} /\ buffer[p] \in Block
    BY <2>1 DEF StoreInv, CardsInv, Requested, Asked
  <2> QED
    BY <2>1, <2>2, SentType, Codes DEF PortType, Cards!Slots, Globals
<1>2. Serving(mc)
  BY DEF StoreInv
<1>3. CASE r.op = "write"
  <2>1. r.data \in Block
    BY <1>1, <1>3 DEF StoreInv, Loaded
  <2>2. Fresh(mc, c) \/ OnCourse(mc, c, r) \/ Lost(mc, c)
    BY <1>2, <1>3 DEF Serving
  <2>3. /\ MayLand(c.mcd, d.mcd, r)
        /\ mc.op = 9 => /\ d.mcd = c.mcd
                        /\ c.spdr = Cards!GoodReadWrite => Cards!Sector(c.mcd, r.sector) = r.data
    BY <1>1, <1>3, <2>1, <2>2, WriteMoves
  <2> HIDE DEF d, c, r
  <2> QED
    BY <1>3, <2>3 DEF MayLand, d, c, r
<1>4. CASE r.op # "write"
  <2>1. Fresh(mc, c) \/ c.command = Cards!Read
    BY <1>1, <1>2, <1>4 DEF Serving, Reading
  <2>2. c.command \in {Cards!Zero, Cards!Access} => value # Cards!Write
    <3>1. c.command \in {Cards!Zero, Cards!Access} => mc.op \in {0, 1}
      BY <1>1, <2>1, Codes DEF Fresh
    <3>2. mc.op \in {0, 1} => value \in {Cards!Access, Cards!Read}
      BY <1>4 DEF Cards!Sent
    <3> QED
      BY <3>1, <3>2, Codes
  <2>3. d.mcd = c.mcd
    <3>1. d.command # Cards!Write
      BY <1>1, <2>1, <2>2, CommandIs, Codes DEF Fresh
    <3> QED
      BY <1>1, <3>1, CommandIs
  <2>4. r.op = "read" /\ mc.op = 12 /\ ireg = 1 => buffer[p] = Cards!Sector(c.mcd, r.sector)
    <3> SUFFICES ASSUME r.op = "read", mc.op = 12, ireg = 1
                 PROVE  buffer[p] = Cards!Sector(c.mcd, r.sector)
      OBVIOUS
    <3>1. Reading(mc, c, r)
      BY <1>2 DEF Serving, Fresh
    <3>2. /\ mc.count >= SectorSize - 1 /\ c.ticks <= 10 + SectorSize
          /\ c.ticks > 11 + mc.count \/ (c.ticks = 11 + mc.count /\ InStep(mc, c, r))
      BY <3>1 DEF Reading
    <3>3. InStep(mc, c, r)
      BY <1>1, <3>2, CardFields, Sizes
    <3> QED
      BY <3>3 DEF InStep
  <2> QED
    BY <1>4, <2>3, <2>4
<1> QED
  BY <1>3, <1>4

(* Functions that agree everywhere are equal. *)
LEMMA SameFunction ==
    ASSUME NEW S, NEW T, NEW f \in [S -> T], NEW g \in [S -> T], \A i \in S : f[i] = g[i]
    PROVE  f = g
  OBVIOUS

(* A request that goes on is served on. *)
LEMMA HandlerServes ==
    ASSUME StoreInv, CardsInv', Cards!McHandler, RequestGoesOn(mc), sio'.device = Cards!Access
    PROVE  Serving(mc)'
<1> DEFINE p == mc.port
           n == mc.op + 1
           r == asked[p]
           c == sio.card[p]
           b == Cards!Fifo(Cards!Selected(mc, n))
           value == Cards!Sent(mc, r, n)
           a == Cards!Transceive(c, value)
           d == a.card
           fast == Cards!FastAfter(mc, r, n)
           filled == r.op = "read" /\ n = 12
<1>1. /\ stage = "idle" /\ mc.active = 1 /\ ireg = 1 /\ mc.fast = 0 /\ Cards!Handle(mc, success)
      /\ stage' = stage /\ mc \in Globals /\ success \in {0, 1} /\ stage \in Cards!Stages
      /\ ireg' = 0 /\ asked' = asked
  BY DEF Cards!McHandler, Cards!Handle, StoreInv, CardsInv, DriverTypes
<1>2. /\ CountsOf(mc) /\ Engaged(mc) /\ sio.due = 0 /\ Cards!Busy(p) /\ DriverTypes /\ Requested
  BY <1>1 DEF StoreInv, CardsInv, Counts, CountsOf, Talking, Engaged
<1>3. sio' = Sends(mc)
  BY DEF RequestGoesOn, Sends
<1>4. /\ p \in Cards!Slots /\ c \in CardStates /\ value \in Cards!Byte /\ sio'.ctrl = On(p)
      /\ r \in Asked /\ r.op \in {"read", "write", "info"}
      /\ sio.device # Cards!Ignore
      /\ sio'.card[p] = d /\ sio'.fifo = <<c.spdr>> /\ (a.ack # 1 => sio'.due = 0)
  BY <1>1, <1>2, <1>3, SendsRight
<1>5. sio.device = Cards!Access
  BY <1>1, <1>4 DEF StoreInv, CardsInv, Talking
<1>6. Serving(mc) /\ buffer[p] \in Block
  BY <1>1, <1>2, <1>4, <1>5 DEF StoreInv, CardsInv, Requested
<1>7. /\ n < Cards!LastOp(r) /\ b \in Cards!Wanted(mc, r, n) /\ cardFlags' = cardFlags
      /\ mc'.op = n /\ mc'.count = mc.count /\ mc'.port = p /\ mc'.fast = fast
      /\ mc.op \in 0 .. 12 /\ mc.count \in Nat /\ n \in Nat
  BY <1>1 DEF RequestGoesOn, Globals
<1>8. /\ mc.op # 6 => b = Cards!Fifo(sio)
      /\ buffer' = IF filled THEN [buffer EXCEPT ![p][SectorSize] = b] ELSE buffer
  BY <1>1, <1>2, HandleSends
<1>9. Cards!Fifo(sio)' = c.spdr
  BY <1>4 DEF Cards!Fifo
<1> DEFINE Served == /\ sio'.ctrl = On(p)
                     /\ r.op = "write" => (Fresh(mc', d) \/ OnCourse(mc', d, r) \/ Lost(mc, sio.card[mc.port])')
                     /\ r.op = "read" => (Fresh(mc', d) \/ Reading(mc, sio.card[mc.port], asked[mc.port])')
                     /\ r.op = "info" => (Fresh(mc', d) \/ d.command = Cards!Read)
<1>10. Served => Serving(mc)'
  BY <1>1, <1>4, <1>7 DEF Serving, Fresh, OnCourse
<1> HIDE DEF a, b, c, r, value, filled, fast
<1>11. CASE r.op = "write"
  <2>1. r.data \in Block
    BY <1>2, <1>4, <1>6, <1>11 DEF StoreInv, Loaded, r
  <2>2. Fresh(mc, c) \/ OnCourse(mc, c, r) \/ Lost(mc, c)
    BY <1>6, <1>11 DEF Serving, r, c
  <2>3. mc.count > 0 => mc.op \notin {4, 5}
    BY <1>2, <1>11 DEF CountsOf, r
  <2>4. n < 10
    BY <1>7, <1>11 DEF Cards!LastOp
  <2>5. mc.op = 3 => Cards!Fifo(sio) = Cards!ID1
    <3> SUFFICES ASSUME mc.op = 3 PROVE Cards!Fifo(sio) = Cards!ID1
      OBVIOUS
    <3>1. b = Cards!Fifo(sio)
      BY <1>8
    <3>2. Cards!Wanted(mc, r, n) = {Cards!ID1}
      BY DEF Cards!Wanted
    <3> QED
      BY <1>7, <3>1, <3>2
  <2>6. \/ Fresh(mc', d) \/ OnCourse(mc', d, r)
        \/ /\ d.command = Cards!Write /\ cardFlags'[1 - p] # 1
           /\ mc'.op <= 3 /\ mc'.count = 0 /\ mc'.fast = 0
           /\ d.ticks \in 1 .. 4 + mc'.op
           /\ mc'.op >= 1 /\ d.ticks = 4 + mc'.op /\ Cards!Exists(d.sector) => 7 \in d.sum
           /\ mc'.op = 2 => d.spdr # Cards!ID1
           /\ mc'.op = 3 => Cards!Fifo(sio)' # Cards!ID1
    BY <1>1, <1>4, <1>7, <1>9, <1>11, <2>1, <2>2, <2>3, <2>4, <2>5, WriteGoesOn DEF r, c, a, value, fast
  <2>7. Served
    BY <1>4, <1>7, <1>11, <2>6 DEF Lost, Cards!Busy
  <2> QED
    BY <1>10, <2>7
<1>12. CASE r.op = "info"
  <2>1. Fresh(mc, c) \/ c.command = Cards!Read
    BY <1>6, <1>12 DEF Serving, r, c
  <2>2. CASE c.command = Cards!Read
    <3>1. d.command = Cards!Read
      BY <1>4, <2>2, CommandIs, Codes DEF a
    <3> QED
      BY <1>4, <1>10, <1>12, <3>1
  <2>3. CASE Fresh(mc, c)
    <3>1. c.command = Cards!Access /\ mc.op \in {0, 1} /\ mc.count = 0
      BY <1>7, <2>3 DEF Fresh
    <3>2. d.command = value
      BY <1>4, <3>1, CommandIs DEF a
    <3>3. CASE mc.op = 0
      <4>1. value = Cards!Access /\ fast = 0
        BY <1>1, <3>3 DEF value, fast, Cards!Sent, Cards!FastAfter
      <4> QED
        BY <1>4, <1>7, <1>10, <1>12, <3>1, <3>2, <3>3, <4>1 DEF Fresh
    <3>4. CASE mc.op = 1
      <4>1. value = Cards!Read
        BY <1>12, <3>4 DEF value, Cards!Sent
      <4> QED
        BY <1>4, <1>10, <1>12, <3>2, <4>1
    <3> QED
      BY <3>1, <3>3, <3>4
  <2> QED
    BY <2>1, <2>2, <2>3
<1>13. CASE r.op = "read"
  <2>0. /\ SectorSize \in Nat /\ SectorSize >= 2 /\ n \in 1 .. 12
        /\ fast = IF n = 11 THEN 1 ELSE 0
        /\ c.ticks \in Nat
    <3>1. Cards!LastOp(r) = 13
      BY <1>13 DEF Cards!LastOp
    <3>2. fast = IF n = 11 THEN 1 ELSE 0
      BY <1>1, <1>7, <1>13 DEF fast, Cards!FastAfter
    <3>3. c.ticks \in Nat
      BY <1>4, CardFields
    <3> QED
      BY <1>7, <3>1, <3>2, <3>3, Sizes
  <2>1. Fresh(mc, c) \/ Reading(mc, c, r)
    BY <1>6, <1>13 DEF Serving, r, c
  <2>2. CASE Fresh(mc, c)
    <3>1. c.command = Cards!Access /\ mc.op \in {0, 1} /\ mc.count = 0
      BY <1>7, <2>2 DEF Fresh
    <3>2. CASE mc.op = 0
      <4>1. value = Cards!Access /\ fast = 0
        BY <1>1, <3>2 DEF value, fast, Cards!Sent, Cards!FastAfter
      <4>2. d.command = value
        BY <1>4, <3>1, CommandIs DEF a
      <4> QED
        BY <1>4, <1>7, <1>10, <1>13, <3>1, <3>2, <4>1, <4>2 DEF Fresh
    <3>3. CASE mc.op = 1
      <4>1. value = Cards!Read
        BY <1>13, <3>3 DEF value, Cards!Sent
      <4>2. d.command = Cards!Read /\ d.ticks = 1
        BY <1>4, <3>1, <4>1, ReadBegins DEF a
      <4>3. Reading(mc, sio.card[mc.port], asked[mc.port])'
        BY <1>1, <1>4, <1>7, <2>0, <3>1, <3>3, <4>2 DEF Reading, InStep
      <4> QED
        BY <1>4, <1>10, <1>13, <4>3
    <3> QED
      BY <3>1, <3>2, <3>3
  <2>3. CASE Reading(mc, c, r)
    <3> DEFINE done == mc.op + mc.count
               held == Cards!Sector(c.mcd, r.sector)
    <3>1. /\ c.command = Cards!Read /\ c.ticks <= 10 + SectorSize
          /\ mc.op >= 11 => mc.count >= SectorSize - 1
          /\ c.ticks >= done - 1 /\ (c.ticks = done - 1 => InStep(mc, c, r)) /\ done \in Nat
      BY <1>1, <1>7, <2>0, <2>3 DEF Reading
    <3>2. c.ticks = done - 1 =>
              /\ c.ticks = 4 => c.sector[1] = r.sector[1]
              /\ c.ticks >= 5 => c.sector = r.sector
              /\ c.ticks \in 9 .. 8 + SectorSize => c.spdr = held[c.ticks - 8]
              /\ c.ticks = 3 => value = r.sector[1]
              /\ c.ticks = 4 => value = r.sector[2]
      <4> SUFFICES ASSUME c.ticks = done - 1
                   PROVE  /\ c.ticks = 4 => c.sector[1] = r.sector[1]
                          /\ c.ticks >= 5 => c.sector = r.sector
                          /\ c.ticks \in 9 .. 8 + SectorSize => c.spdr = held[c.ticks - 8]
                          /\ c.ticks = 3 => value = r.sector[1]
                          /\ c.ticks = 4 => value = r.sector[2]
        OBVIOUS
      <4>1. InStep(mc, c, r)
        BY <3>1
      <4>2. c.ticks \in {3, 4} => n = c.ticks + 2
        BY <1>7, <2>0, <4>1 DEF InStep
      <4>3. (n = 5 => value = r.sector[1]) /\ (n = 6 => value = r.sector[2])
        BY <1>13 DEF value, Cards!Sent
      <4> QED
        BY <2>0, <4>1, <4>2, <4>3 DEF InStep
    <3>3. /\ d.command = Cards!Read /\ d.ticks <= 10 + SectorSize /\ d.mcd = c.mcd
          /\ \/ a.ack # 1
             \/ d.ticks > done
             \/ /\ d.ticks = done
                /\ d.ticks = 4 => d.sector[1] = r.sector[1]
                /\ d.ticks >= 5 => d.sector = r.sector
                /\ d.ticks \in 9 .. 8 + SectorSize => d.spdr = Cards!Sector(d.mcd, r.sector)[d.ticks - 8]
                /\ d.ticks \in 10 .. 9 + SectorSize => c.spdr = Cards!Sector(d.mcd, r.sector)[d.ticks - 9]
      BY <1>4, <3>1, <3>2, ReadGoesOn DEF a
    <3> HIDE DEF held, done
    <3>4. done = mc'.op - 1 + mc'.count
      BY <1>7 DEF done
    <3>5. (mc'.op >= 11 /\ mc'.fast = 0 => mc'.count >= SectorSize - 1) /\ (mc'.op = 12 => mc'.fast = 0)
      BY <1>7, <2>0, <3>1 DEF Reading
    <3>6. CASE a.ack # 1 \/ d.ticks > done
      <4>1. Reading(mc, sio.card[mc.port], asked[mc.port])'
        BY <1>1, <1>4, <1>7, <3>3, <3>4, <3>5, <3>6 DEF Reading
      <4> QED
        BY <1>4, <1>10, <1>13, <4>1
    <3>7. CASE a.ack = 1 /\ ~(d.ticks > done)
      <4>1. d.ticks = done /\ d.ticks \in Nat
        BY <3>1, <3>3, <3>7
      <4>2. c.ticks = done - 1
        <5>1. /\ a = Cards!TickRead(c, value)
          BY <1>4, <3>1, CommandIs DEF a
        <5>2. d.ticks = c.ticks + 1
          BY <1>4, <2>0, <3>1, <3>7, <5>1, TickReadIs
        <5> HIDE DEF d
        <5> QED
          BY <2>0, <4>1, <5>2
      <4>3. InStep(mc, c, r)
        BY <3>1, <4>2
      <4>4. mc.count <= SectorSize - 1 /\ (mc.op <= 10 => mc.count = 0)
        BY <4>3 DEF InStep
      <4>5. n = 11 => \A i \in 1 .. mc.count : buffer'[p][i] = held[i]
        BY <1>7, <4>4
      <4>6. n = 12 => buffer'[p] = held
        <5> SUFFICES ASSUME n = 12 PROVE buffer'[p] = held
          OBVIOUS
        <5>1. mc.op = 11 /\ mc.count = SectorSize - 1 /\ c.ticks = 9 + SectorSize
          BY <1>7, <2>0, <3>1, <4>2, <4>4 DEF done
        <5>2. \A i \in 1 .. SectorSize - 1 : buffer[p][i] = held[i]
          BY <4>3, <5>1 DEF InStep, held
        <5>3. b = held[SectorSize]
          <6>1. c.ticks \in 10 .. 9 + SectorSize /\ c.ticks - 9 = SectorSize
            BY <2>0, <5>1
          <6>2. Cards!Fifo(sio) = held[SectorSize]
            BY <4>3, <6>1 DEF InStep, held
          <6> QED
            BY <1>8, <5>1, <6>2
        <5>4. held \in Block
          BY <1>4, CardFields, SectorType DEF held
        <5>5. buffer'[p] = [buffer[p] EXCEPT ![SectorSize] = b]
          <6>1. buffer' = [buffer EXCEPT ![p][SectorSize] = b] /\ buffer \in [Cards!Slots -> Block \cup {<< >>}]
            BY <1>2, <1>8, <1>13 DEF filled, DriverTypes
          <6> QED
            BY <1>4, <6>1
        <5> HIDE DEF p
        <5>6. \A i \in 1 .. SectorSize : buffer'[p][i] = held[i]
          BY <1>6, <2>0, <5>2, <5>3, <5>5 DEF Block
        <5>7. held \in [1 .. SectorSize -> Cards!Byte] /\ b \in Cards!Byte
          BY <2>0, <5>3, <5>4 DEF Block
        <5>8. buffer'[p] \in [1 .. SectorSize -> Cards!Byte]
          BY <1>6, <5>5, <5>7 DEF Block
        <5> HIDE DEF held
        <5> DEFINE D == 1 .. SectorSize
                   f == buffer'[p]
        <5>9. f \in [D -> Cards!Byte] /\ held \in [D -> Cards!Byte] /\ \A i \in D : f[i] = held[i]
          BY <5>6, <5>7, <5>8
        <5> HIDE DEF D, f
        <5>10. f = held
          BY <5>9, SameFunction
        <5> QED
          BY <5>10 DEF f
      <4>7. held = Cards!Sector(d.mcd, r.sector)
        BY <3>3 DEF held
      <4>8. InStep(mc, sio.card[mc.port], asked[mc.port])'
        <5>1. mc'.op <= 10 => mc'.count = 0 /\ mc'.fast = 0
          BY <1>7, <2>0, <4>4
        <5>2. mc'.count <= SectorSize - 1 /\ (mc'.fast = 1 => mc'.count <= SectorSize - 2)
          BY <1>7, <2>0, <4>4
        <5>3. /\ d.ticks = 4 => d.sector[1] = r.sector[1]
              /\ d.ticks >= 5 => d.sector = r.sector
              /\ d.ticks \in 9 .. 8 + SectorSize => d.spdr = held[d.ticks - 8]
              /\ d.ticks \in 10 .. 9 + SectorSize => Cards!Fifo(sio)' = held[d.ticks - 9]
          BY <1>9, <3>3, <3>7, <4>7
        <5>4. sio'.card[mc'.port] = d /\ asked'[mc'.port] = r /\ mc'.port = p
          BY <1>1, <1>4, <1>7 DEF r
        <5> HIDE DEF d, p
        <5>5. /\ mc'.op = 11 => \A i \in 1 .. mc'.count : buffer'[mc'.port][i] = held[i]
              /\ mc'.op = 12 => buffer'[mc'.port] = held
          BY <1>7, <4>5, <4>6, <5>4
        <5> QED
          BY <4>7, <5>1, <5>2, <5>3, <5>4, <5>5 DEF InStep
      <4>9. Reading(mc, sio.card[mc.port], asked[mc.port])'
        BY <1>1, <1>4, <1>7, <3>3, <3>4, <3>5, <4>1, <4>8 DEF Reading
      <4> QED
        BY <1>4, <1>10, <1>13, <4>9
    <3> QED
      BY <3>6, <3>7
  <2> QED
    BY <2>1, <2>2, <2>3
<1> QED
  BY <1>4, <1>11, <1>12, <1>13

-----------------------------------------------------------------------------
(* The handler.                                                            *)
LEMMA LoadedStays ==
    ASSUME Loaded, NEW m, m.port \in Cards!Slots, asked' = asked, NEW i, NEW b,
           buffer \in [Cards!Slots -> Block \cup {<< >>}], cardFlags \in [Cards!Slots -> {0, 1, 2, 4}],
           buffer' = buffer \/ (asked[m.port].op = "read" /\ buffer' = [buffer EXCEPT ![m.port][i] = b]),
           cardFlags' = cardFlags \/ cardFlags' = [cardFlags EXCEPT ![m.port] = 1]
    PROVE  Loaded'
<1> SUFFICES ASSUME NEW q \in Cards!Slots, Cards!Busy(q)', asked[q].op = "write" PROVE buffer'[q] = asked[q].data
  BY DEF Loaded
<1>1. Cards!Busy(q)
  BY DEF Cards!Busy
<1>2. buffer'[q] = buffer[q]
  OBVIOUS
<1> QED
  BY <1>1, <1>2 DEF Loaded

(* The handler of the driver. *)
LEMMA McHandlerStores ==
    ASSUME StoreInv, Cards!McHandler
    PROVE  StoreInv' /\ (Cards!Store!Next \/ UNCHANGED Cards!Store!vars)
<1> DEFINE p == mc.port
           r == asked[p]
           c == sio.card[p]
           n == mc.op + 1
           b == Cards!Fifo(Cards!Selected(mc, n))
           a == Cards!Transceive(c, Cards!Sent(mc, r, n))
           w == Sends(mc)
           filled == r.op = "read" /\ n = 12
<1>1. /\ stage = "idle" /\ mc.active = 1 /\ ireg = 1 /\ mc.fast = 0 /\ Cards!Handle(mc, success)
      /\ stage' = stage /\ mc \in Globals /\ success \in {0, 1} /\ stage \in Cards!Stages
      /\ asked' = asked /\ mc.op \in 0 .. 12 /\ CardsInv
  BY DEF Cards!McHandler, Cards!Handle, StoreInv, CardsInv, DriverTypes, Globals
<1>2. /\ Engaged(mc) /\ Cards!Busy(p) /\ DriverTypes /\ Requested
      /\ buffer \in [Cards!Slots -> Block \cup {<< >>}] /\ cardFlags \in [Cards!Slots -> {0, 1, 2, 4}]
  BY <1>1 DEF CardsInv, Counts, CountsOf, Talking, Engaged, DriverTypes
<1>3. CardsInv'
  BY <1>1, McHandlerRight
<1>4. /\ Alike(sio, sio') \/ Alike(w, sio')
      /\ \/ success' = 0 /\ RequestOver(mc)
         \/ success' = success /\ RequestGoesOn(mc)
         \/ /\ success' = 1 /\ RequestOver(mc) /\ n = Cards!LastOp(r)
            /\ Alike(w, sio')
            /\ r.op = "info" \/ Cards!Fifo(w) = Cards!GoodReadWrite
      /\ buffer' = IF filled THEN [buffer EXCEPT ![p][SectorSize] = b] ELSE buffer
  BY <1>1, <1>2, HandleSends
<1>5. /\ p \in Cards!Slots /\ c \in CardStates /\ r.op \in {"read", "write", "info"}
      /\ \/ /\ w.device = Cards!Access /\ sio.device # Cards!Ignore
            /\ w.card = [sio.card EXCEPT ![p] = a.card] /\ w.card[p] = a.card /\ w.fifo = <<c.spdr>>
         \/ w.device # Cards!Access /\ Alike(sio, w) /\ w.fifo = <<Cards!IdleHighZ>>
  BY <1>1, <1>2, SendsRight
<1>6. w.device = Cards!Access =>
          /\ a.card.mcd = c.mcd \/ (r.op = "write" /\ Lands(c.mcd, a.card.mcd, r))
          /\ r.op = "write" /\ mc.op = 9 =>
                /\ a.card.mcd = c.mcd
                /\ c.spdr = Cards!GoodReadWrite => Cards!Sector(c.mcd, r.sector) = r.data
          /\ r.op = "read" /\ mc.op = 12 => buffer[p] = Cards!Sector(c.mcd, r.sector)
  <2> SUFFICES ASSUME w.device = Cards!Access
               PROVE  /\ a.card.mcd = c.mcd \/ (r.op = "write" /\ Lands(c.mcd, a.card.mcd, r))
                      /\ r.op = "write" /\ mc.op = 9 =>
                            /\ a.card.mcd = c.mcd
                            /\ c.spdr = Cards!GoodReadWrite => Cards!Sector(c.mcd, r.sector) = r.data
                      /\ r.op = "read" /\ mc.op = 12 => buffer[p] = Cards!Sector(c.mcd, r.sector)
    OBVIOUS
  <2>1. sio.device = Cards!Access
    BY <1>1, <1>5 DEF CardsInv, Talking
  <2> QED
    BY <1>1, <2>1, CardMoves
<1> HIDE DEF w, a, b, r, c
<1>7. sio.card \in [{0, 1} -> CardStates] /\ sio.card[p] = c
  BY <1>2 DEF DriverTypes, PortType, c
<1>8. \A q \in Cards!Slots :
          \/ w.card[q].mcd = sio.card[q].mcd
          \/ q = p /\ r.op = "write" /\ Lands(sio.card[p].mcd, w.card[p].mcd, r)
  BY <1>5, <1>6, <1>7 DEF Alike, Cards!Slots
<1>9. Moved(p)
  <2>1. CASE Alike(sio, sio')
    BY <2>1, AlikeIsKept
  <2>2. CASE Alike(w, sio')
    BY <1>5, <1>8, <2>2 DEF Alike, Moved, Cards!Slots, r
  <2> QED
    BY <1>4, <2>1, <2>2
<1>10. r.op # "write" => Alike(sio, sio')
  BY <1>9 DEF Moved, Alike, Cards!Slots, r
<1>11. /\ buffer' = buffer \/ (r.op = "read" /\ buffer' = [buffer EXCEPT ![p][SectorSize] = b])
       /\ buffer' = [buffer EXCEPT ![p] = buffer'[p]]
  BY <1>2, <1>4, <1>5
<1>12. RequestOver(mc) => mc'.active = 0 /\ mc'.op = 0 /\ cardFlags' = [cardFlags EXCEPT ![p] = 1]
  BY <1>1 DEF RequestOver, Cards!Over, Globals
<1>13. RequestGoesOn(mc) => mc'.op = n /\ mc'.active = 1 /\ cardFlags' = cardFlags
  BY <1>1 DEF RequestGoesOn, Globals
<1>14. Loaded'
  <2>1. asked' = asked /\ Loaded
    BY <1>1 DEF StoreInv
  <2> QED
    BY <1>2, <1>4, <1>5, <1>11, <1>12, <1>13, <2>1, LoadedStays DEF r
<1>15. CASE RequestGoesOn(mc)
  <2>1. success' = success
    BY <1>1, <1>4, <1>12, <1>13, <1>15
  <2>2. Cards!Store!Next \/ UNCHANGED Cards!Store!vars
    BY <1>1, <1>2, <1>5, <1>9, <1>10, <1>11, <1>13, <1>15, <2>1, StaysOpen DEF r
  <2>3. mc'.active = 1 /\ sio'.device = Cards!Access => Serving(mc)'
    BY <1>3, <1>15, HandlerServes
  <2> QED
    BY <1>1, <1>3, <1>14, <2>2, <2>3 DEF StoreInv
<1>16. CASE RequestOver(mc)
  <2>1. StoreInv'
    BY <1>1, <1>3, <1>12, <1>14, <1>16 DEF StoreInv
  <2>2. Cards!Store!End(p, success')
    BY <1>1, <1>2, <1>4, <1>5, <1>11, <1>12, <1>16, Closes
  <2>3. CASE success' = 0
    BY <1>5, <1>9, <2>1, <2>2, <2>3, Fails
  <2>4. CASE success' = 1
    <3>1. /\ n = Cards!LastOp(r) /\ Alike(w, sio')
          /\ r.op = "info" \/ Cards!Fifo(w) = Cards!GoodReadWrite
      BY <1>1, <1>4, <1>12, <1>13, <1>16, <2>4
    <3>2. /\ r.op = "write" => n = 10
          /\ r.op = "read" => n = 13
      BY <3>1 DEF Cards!LastOp
    <3>3. r.op # "info" => w.device = Cards!Access /\ c.spdr = Cards!GoodReadWrite
      <4>1. w.fifo = <<Cards!IdleHighZ>> => Cards!Fifo(w) = Cards!IdleHighZ
        BY DEF Cards!Fifo
      <4>2. w.fifo = <<c.spdr>> => Cards!Fifo(w) = c.spdr
        BY DEF Cards!Fifo
      <4> QED
        BY <1>5, <3>1, <4>1, <4>2, GoodCode
    <3>4. r.op = "write" => Alike(sio, sio') /\ Cards!Sector(c.mcd, r.sector) = r.data
      <4> SUFFICES ASSUME r.op = "write" PROVE Alike(sio, sio') /\ Cards!Sector(c.mcd, r.sector) = r.data
        OBVIOUS
      <4>1. a.card.mcd = c.mcd /\ Cards!Sector(c.mcd, r.sector) = r.data /\ w.card[p].mcd = sio.card[p].mcd
        BY <1>1, <1>5, <1>6, <1>7, <3>2, <3>3
      <4>2. Alike(sio, w)
        BY <1>8, <4>1 DEF Alike, Cards!Slots
      <4> QED
        BY <3>1, <4>1, <4>2 DEF Alike
    <3>5. r.op = "read" => buffer'[p] = Cards!Sector(c.mcd, r.sector)
      <4>1. r.op = "read" => mc.op = 12 /\ buffer' = buffer
        BY <1>1, <1>4, <3>2
      <4> QED
        BY <1>6, <3>3, <4>1
    <3>6. Alike(sio, sio')
      BY <1>10, <3>4
    <3>7. Cards!Store!Next
      BY <1>5, <2>2, <2>4, <3>4, <3>5, <3>6, Succeeds DEF r, c
    <3> QED
      BY <2>1, <3>7
  <2> QED
    BY <1>4, <1>12, <1>13, <1>1, <1>16, <2>3, <2>4
<1> QED
  BY <1>4, <1>15, <1>16

(***************************************************************************)
(* The VBlank.                                                             *)
(***************************************************************************)
LEMMA AbortStores ==
    ASSUME StoreInv, Cards!Abort, stage' = "idle"
    PROVE  StoreInv' /\ Cards!Store!Next
<1> DEFINE a == Cards!WriteCtrl(sio, {})
           b == Cards!WriteCtrl(a, {"IR"})
<1>1. /\ Cards!Ends(mc, 0) /\ sio' = Cards!WriteCtrl(b, {}) /\ mc.active = 1
      /\ UNCHANGED <<asked, buffer>> /\ CardsInv
  BY DEF Cards!Abort, StoreInv
<1>2. /\ sio \in PortType /\ mc.port \in Cards!Slots /\ Cards!Busy(mc.port) /\ mc \in Globals
      /\ cardFlags \in [Cards!Slots -> {0, 1, 2, 4}] /\ buffer \in [Cards!Slots -> Block \cup {<< >>}]
  BY <1>1 DEF CardsInv, DriverTypes, Counts, CountsOf, Globals, Cards!Slots
<1>3. a \in PortType /\ b \in PortType
  <2>1. {} \in SUBSET Bits /\ {"IR"} \in SUBSET Bits
    BY DEF Bits
  <2> HIDE DEF a
  <2>2. a \in PortType
    BY <1>2, <2>1, ControlRight DEF a
  <2> QED
    BY <2>1, <2>2, ControlRight
<1>4. Alike(sio, a)
  BY <1>2, ControlKeeps
<1> HIDE DEF a
<1>5. Alike(a, b)
  BY <1>3, ControlKeeps
<1> HIDE DEF b
<1>6. Alike(b, sio')
  BY <1>1, <1>3, ControlKeeps
<1>7. Alike(sio, sio')
  BY <1>4, <1>5, <1>6 DEF Alike
<1>8. /\ mc'.active = 0 /\ success' = 0 /\ cardFlags' = [cardFlags EXCEPT ![mc.port] = 1]
  BY <1>1, <1>2 DEF Cards!Ends, Cards!Over, Globals
<1>9. StoreInv'
  <2>1. CardsInv'
    BY <1>1, AbortRight DEF Cards!Stages
  <2>2. Loaded'
    BY <1>1, <1>8 DEF StoreInv, Loaded, Cards!Busy, CardsInv, DriverTypes
  <2> QED
    BY <1>8, <2>1, <2>2 DEF StoreInv
<1>10. Cards!Store!End(mc.port, success')
  BY <1>1, <1>2, <1>8, Closes
<1> QED
  BY <1>2, <1>7, <1>8, <1>9, <1>10, AlikeIsKept, Fails

(* The driver goes over to the other slot. *)
LEMMA PassOverStores ==
    ASSUME StoreInv, Cards!PassOver, stage' = "idle"
    PROVE  StoreInv' /\ Cards!Store!Next
<1>1. /\ mc' = Cards!Flipped /\ success' = 0 /\ mc.active = 0
      /\ UNCHANGED <<sio, ireg, imask, asked, cardFlags, buffer>>
  BY DEF Cards!PassOver
<1>2. mc'.active = 0
  BY <1>1 DEF Cards!Flipped, StoreInv, CardsInv, DriverTypes, Globals
<1>3. CardsInv'
  <2>1. Cards!Flipped \in Globals /\ Cards!Flipped.active = 0 /\ Cards!Flipped.fast = mc.fast
    BY <1>1 DEF Cards!Flipped, StoreInv, CardsInv, DriverTypes, Globals
  <2>2. DriverTypes'
    BY <1>1, <2>1 DEF StoreInv, CardsInv, DriverTypes, Cards!Stages
  <2>3. Requested'
    BY <1>1 DEF StoreInv, CardsInv, Requested, Cards!Busy
  <2>4. Resting' /\ Counts' /\ Talking'
    BY <1>1, <2>1 DEF StoreInv, CardsInv, Resting, Counts, Talking
  <2> QED
    BY <2>2, <2>3, <2>4 DEF CardsInv
<1>4. StoreInv'
  BY <1>1, <1>2, <1>3 DEF StoreInv, Loaded, Cards!Busy
<1> QED
  BY <1>1, <1>4, Unmoved DEF Alike

(* The driver starts a request. *)
LEMMA StartStores ==
    ASSUME StoreInv, Cards!Start, stage' = "idle"
    PROVE  StoreInv' /\ Cards!Store!Next
<1> DEFINE m == Cards!Started
           p == m.port
           r == asked[p]
           c == sio.card[p]
           n == m.op + 1
           a == Cards!Transceive(c, Cards!Sent(m, r, n))
           w == Sends(m)
<1>1. /\ m \in Globals /\ m.op = 0 /\ m.fast = 0 /\ m.count = 0 /\ p = Cards!Flipped.port
  <2>1. mc \in Globals /\ 1 - mc.port \in {0, 1} /\ 0 \in 0 .. 12
    BY DEF StoreInv, CardsInv, DriverTypes, Globals
  <2>2. Cards!Flipped \in Globals
    BY <2>1 DEF Cards!Flipped, Globals
  <2> QED
    BY <2>1, <2>2 DEF Cards!Started, Globals
<1>2. /\ CardsInv /\ DriverTypes /\ Requested /\ Loaded
      /\ sio.ctrl = {} /\ Quiet(sio) /\ Cards!Busy(p) /\ Cards!Handle(m, 0) /\ asked' = asked
      /\ buffer \in [Cards!Slots -> Block \cup {<< >>}] /\ cardFlags \in [Cards!Slots -> {0, 1, 2, 4}]
  BY <1>1 DEF Cards!Start, StoreInv, CardsInv, Resting, Cards!Handle, DriverTypes
<1>3. CardsInv'
  BY <1>2, FirstRight DEF Cards!Stages
<1> HIDE DEF m
<1>4. Engaged(m) /\ stage' \in Cards!Stages
  BY <1>1, <1>2 DEF Engaged, Cards!Stages
<1>5. /\ Alike(sio, sio') \/ Alike(w, sio')
      /\ \/ success' = 0 /\ RequestOver(m)
         \/ success' = 0 /\ RequestGoesOn(m)
         \/ success' = 1 /\ n = Cards!LastOp(r)
      /\ buffer' = IF r.op = "read" /\ n = 12
                   THEN [buffer EXCEPT ![p][SectorSize] = Cards!Fifo(Cards!Selected(m, n))] ELSE buffer
  BY <1>1, <1>2, <1>4, HandleSends
<1>6. /\ p \in Cards!Slots /\ c \in CardStates /\ Cards!Sent(m, r, n) \in Cards!Byte /\ w.ctrl = On(p)
      /\ r.op \in {"read", "write", "info"}
      /\ \/ /\ w.device = Cards!Access
            /\ w.card = [sio.card EXCEPT ![p] = a.card] /\ w.card[p] = a.card
         \/ w.device # Cards!Access /\ Alike(sio, w)
  BY <1>1, <1>2, <1>4, SendsRight
<1>7. Cards!Sent(m, r, n) = Cards!Access /\ n = 1
  BY <1>1 DEF Cards!Sent
<1>8. /\ success' = 0 /\ (RequestOver(m) \/ RequestGoesOn(m)) /\ buffer' = buffer
  <2>1. Cards!LastOp(r) # 1
    BY <1>6 DEF Cards!LastOp
  <2> QED
    BY <1>5, <1>7, <2>1
<1>9. c.command = Cards!Zero
  BY <1>2, <1>6 DEF Quiet, Cards!Slots
<1>10. a.card.command = Cards!Access /\ a.card.mcd = c.mcd
  BY <1>6, <1>7, <1>9, CommandIs, Codes
<1> HIDE DEF w, a, r, c, n
<1>11. Alike(sio, w)
  <2>1. sio.card \in [{0, 1} -> CardStates] /\ sio.card[p] = c
    BY <1>2 DEF DriverTypes, PortType, c
  <2> QED
    BY <1>6, <1>10, <2>1 DEF Alike, Cards!Slots
<1>12. Alike(sio, sio')
  BY <1>5, <1>11 DEF Alike
<1>13. CASE RequestOver(m)
  <2>1. /\ mc'.active = 0 /\ cardFlags' = [cardFlags EXCEPT ![p] = 1]
    BY <1>1, <1>13 DEF RequestOver, Cards!Over, Globals
  <2>2. Loaded'
    BY <1>2, <1>8, <2>1 DEF Loaded, Cards!Busy
  <2>3. StoreInv'
    BY <1>3, <2>1, <2>2 DEF StoreInv
  <2>4. Cards!Store!End(p, success')
    BY <1>2, <1>6, <1>8, <2>1, Closes
  <2> QED
    BY <1>6, <1>8, <1>12, <2>3, <2>4, AlikeIsKept, Fails
<1>14. CASE RequestGoesOn(m)
  <2>1. /\ mc'.active = 1 /\ mc'.op = 1 /\ mc'.count = 0 /\ mc'.port = p /\ cardFlags' = cardFlags
        /\ mc'.fast = Cards!FastAfter(m, r, 1) /\ sio' = w
    BY <1>1, <1>7, <1>14 DEF RequestGoesOn, Globals, w, Sends, n, r
  <2>2. mc'.fast = 0
    BY <1>1, <2>1 DEF Cards!FastAfter
  <2>3. sio'.device = Cards!Access => Serving(mc)'
    <3> SUFFICES ASSUME sio'.device = Cards!Access PROVE Serving(mc)'
      OBVIOUS
    <3>1. sio'.card[p] = a.card /\ sio'.ctrl = On(p)
      BY <1>6, <2>1
    <3>2. Fresh(mc', a.card)
      BY <1>10, <2>1, <2>2 DEF Fresh
    <3> QED
      BY <2>1, <3>1, <3>2 DEF Serving, Fresh
  <2>4. Loaded'
    BY <1>2, <1>8, <2>1 DEF Loaded, Cards!Busy
  <2>5. StoreInv'
    BY <1>3, <2>1, <2>3, <2>4 DEF StoreInv
  <2> QED
    BY <1>2, <1>8, <1>12, <2>1, <2>5, Unmoved
<1> QED
  BY <1>8, <1>13, <1>14

(***************************************************************************)
(* The fast track.                                                         *)
(***************************************************************************)
LEMMA FastSends ==
    ASSUME StoreInv, Cards!FastTrack, NEW sent \in Cards!Byte, Cards!FastByte(sent)
    PROVE  LET p == mc.port
               c == sio.card[p]
               a == Cards!Transceive(c, sent)
           IN  /\ stage = "idle" /\ mc.active = 1 /\ mc.fast = 1 /\ ireg = 1 /\ sio.due = 0
               /\ ireg' = 0 /\ asked' = asked /\ cardFlags' = cardFlags /\ success' = success /\ stage' = stage
               /\ p \in Cards!Slots /\ c \in CardStates /\ mc \in Globals /\ mc.op \in 0 .. 12 /\ mc.count \in Nat
               /\ CountsOf(mc) /\ Serving(mc)
               /\ \/ /\ sio'.device = Cards!Access /\ sio'.ctrl = On(p)
                     /\ sio'.card = [sio.card EXCEPT ![p] = a.card] /\ sio'.card[p] = a.card
                     /\ sio'.fifo = <<c.spdr>> /\ (a.ack # 1 => sio'.due = 0)
                  \/ sio'.device # Cards!Access /\ Alike(sio, sio')
<1> DEFINE p == mc.port
           c == sio.card[p]
           a == Cards!Transceive(c, sent)
           u == Cards!Pulled(sio)
           t == Cards!WriteByte(u, sent)
<1>1. /\ stage = "idle" /\ mc.fast = 1 /\ ireg = 1 /\ mc.active = 1
      /\ sio' = t /\ ireg' = 0 /\ UNCHANGED <<imask, stage, asked, cardFlags, success>>
  <2>1. mc.active # 0
    BY DEF Cards!FastTrack, StoreInv, CardsInv, Resting
  <2> QED
    BY <2>1 DEF Cards!FastTrack, Cards!FastByte, StoreInv, CardsInv, DriverTypes, Globals
<1>2. /\ sio \in PortType /\ Len(sio.fifo) <= 1 /\ mc \in Globals /\ p \in Cards!Slots /\ c \in CardStates
      /\ mc.count \in Nat /\ mc.op \in 0 .. 12 /\ CountsOf(mc) /\ sio.card \in [{0, 1} -> CardStates]
  BY <1>1 DEF StoreInv, CardsInv, DriverTypes, Counts, Globals, Cards!Slots, PortType
<1>3. /\ sio.ctrl = On(p) /\ sio.device = Cards!Access /\ sio.due = 0
  BY <1>1, <1>2 DEF StoreInv, CardsInv, Talking
<1>4. Serving(mc)
  BY <1>1, <1>3 DEF StoreInv
<1>5. /\ u \in PortType /\ u.ctrl = On(p) /\ u.fifo = << >> /\ u.device = Cards!Access
      /\ u.due = 0 /\ u.card = sio.card /\ Cards!Port(u) = p
  <2>1. u = [sio EXCEPT !.fifo = << >>] /\ u \in PortType
    BY <1>2, FifoRight
  <2>2. /\ u.ctrl = On(p) /\ u.fifo = << >> /\ u.device = Cards!Access /\ u.due = 0
        /\ u.card = sio.card
    BY <1>2, <1>3, <2>1 DEF PortType
  <2> QED
    BY <1>2, <2>1, <2>2 DEF Cards!Port, On, Cards!Mask, Cards!Slots
<1> HIDE DEF u
<1>6. /\ t.ctrl = On(p)
      /\ \/ /\ t.device = Cards!Access /\ t.card = [u.card EXCEPT ![p] = Cards!Transceive(u.card[p], sent).card]
            /\ t.fifo = <<u.card[p].spdr>> /\ (Cards!Transceive(u.card[p], sent).ack # 1 => t.due = 0)
         \/ t.device = Cards!Ignore /\ Alike(u, t)
  <2>1. "TXEN" \in u.ctrl
    BY <1>5, OnRight
  <2>2. Cards!Access # Cards!None
    BY Codes DEF Cards!None
  <2> QED
    BY <1>5, <2>1, <2>2, SendKeeps
<1> HIDE DEF t
<1>7. CASE t.device = Cards!Access
  <2>1. Cards!Access # Cards!Ignore
    BY Codes
  <2>2. /\ t.card = [sio.card EXCEPT ![p] = a.card] /\ t.fifo = <<c.spdr>> /\ (a.ack # 1 => t.due = 0)
    BY <1>5, <1>6, <1>7, <2>1
  <2>3. t.card[p] = a.card
    BY <1>2, <2>2 DEF Cards!Slots
  <2> QED
    BY <1>1, <1>2, <1>3, <1>4, <1>6, <1>7, <2>2, <2>3
<1>8. CASE t.device # Cards!Access
  <2>1. Alike(sio, sio')
    BY <1>1, <1>5, <1>6, <1>8 DEF Alike
  <2> QED
    BY <1>1, <1>2, <1>3, <1>4, <1>8, <2>1
<1> QED
  BY <1>7, <1>8

(* The fast track of a write. *)
LEMMA FastWriteStores ==
    ASSUME StoreInv, Cards!FastWrite
    PROVE  StoreInv' /\ UNCHANGED Cards!Store!vars
<1> DEFINE p == mc.port
           r == asked[p]
           c == sio.card[p]
           byte == buffer[p][mc.count + 1]
           a == Cards!Transceive(c, byte)
           d == a.card
<1>1. /\ Cards!FastTrack /\ cardFlags[p] = 4 /\ Cards!FastByte(byte)
      /\ Cards!Counted(byte, SectorSize - 1)
      /\ buffer' = buffer /\ CardsInv
  BY DEF Cards!FastWrite, StoreInv
<1>2. /\ mc.active = 1 /\ mc.fast = 1 /\ p \in Cards!Slots /\ mc.count \in Nat
  BY <1>1 DEF Cards!FastTrack, CardsInv, DriverTypes, Resting, Globals, Cards!Slots
<1>3. mc.count < SectorSize /\ Cards!Busy(p) /\ SectorSize \in Nat /\ SectorSize >= 2
  BY <1>1, <1>2, Sizes DEF CardsInv, Counts, CountsOf
<1>4. r.op = "write" /\ buffer[p] \in Block /\ r \in Asked /\ buffer[p] = r.data
  <2>1. r.op = "write" /\ buffer[p] \in Block /\ r \in Asked
    BY <1>1, <1>2, <1>3 DEF CardsInv, DriverTypes, Requested, Cards!FlagOf, Asked
  <2> QED
    BY <1>2, <1>3, <2>1 DEF StoreInv, Loaded
<1>5. byte \in Cards!Byte /\ byte = r.data[mc.count + 1]
  BY <1>2, <1>3, <1>4 DEF Block
<1> HIDE DEF byte
<1>6. /\ stage = "idle" /\ mc.active = 1 /\ mc.fast = 1 /\ ireg = 1 /\ sio.due = 0
      /\ ireg' = 0 /\ asked' = asked /\ cardFlags' = cardFlags /\ success' = success /\ stage' = stage
      /\ p \in Cards!Slots /\ c \in CardStates /\ mc \in Globals /\ mc.op \in 0 .. 12 /\ mc.count \in Nat
      /\ CountsOf(mc) /\ Serving(mc)
      /\ \/ /\ sio'.device = Cards!Access /\ sio'.ctrl = On(p)
            /\ sio'.card = [sio.card EXCEPT ![p] = d] /\ sio'.card[p] = d
         \/ sio'.device # Cards!Access /\ Alike(sio, sio')
  BY <1>1, <1>5, FastSends
<1> HIDE DEF r, c
<1>7. /\ mc'.op = mc.op /\ mc'.port = p /\ mc'.count = mc.count + 1
      /\ mc'.fast = IF mc.count + 1 > SectorSize - 1 THEN 0 ELSE 1
  BY <1>1, <1>6 DEF Cards!Counted, Globals
<1>8. /\ c.command = Cards!Write /\ Faithful(c, r) /\ c.ticks = 5 + mc.count
  BY <1>4, <1>6 DEF Serving, Fresh, OnCourse, Lost, r, c
<1>9. Faithful(d, r) /\ d.ticks = 6 + mc.count /\ d.mcd = c.mcd /\ d.command = Cards!Write
  <2>1. a = Cards!TickWrite(c, byte) /\ d.command = Cards!Write
    BY <1>5, <1>6, <1>8, CommandIs, Codes
  <2> HIDE DEF a
  <2>2. Faithful(d, r) /\ d.ticks = 6 + mc.count /\ d.mcd = c.mcd
    BY <1>3, <1>4, <1>5, <1>6, <1>8, <2>1, CollectStep
  <2> QED
    BY <2>1, <2>2
<1> HIDE DEF a
<1>10. Alike(sio, sio')
  <2>1. sio.card \in [{0, 1} -> CardStates] /\ sio.card[p] = c
    BY <1>1 DEF CardsInv, DriverTypes, PortType, c
  <2> QED
    BY <1>6, <1>9, <2>1 DEF Alike, Cards!Slots
<1>11. sio'.device = Cards!Access => Serving(mc)'
  <2> SUFFICES ASSUME sio'.device = Cards!Access PROVE Serving(mc)'
    OBVIOUS
  <2>1. mc.op \in {0, 6}
    BY <1>4, <1>6 DEF CountsOf, r
  <2>2. sio'.card[mc'.port] = d /\ asked'[mc'.port] = r /\ sio'.ctrl = On(mc'.port)
    BY <1>6, <1>7 DEF r
  <2> HIDE DEF p, d
  <2>3. OnCourse(mc', d, r)
    BY <1>3, <1>6, <1>7, <1>9, <2>1 DEF OnCourse
  <2> QED
    BY <1>4, <2>2, <2>3 DEF Serving, OnCourse, Fresh
<1>12. StoreInv'
  <2>1. CardsInv'
    BY <1>1, FastWriteRight
  <2>2. Loaded'
    BY <1>1, <1>6 DEF StoreInv, Loaded, Cards!Busy
  <2> QED
    BY <1>6, <1>11, <2>1, <2>2 DEF StoreInv
<1> QED
  BY <1>1, <1>6, <1>10, <1>12, Unmoved

(* The fast track of a read. *)
LEMMA FastReadStores ==
    ASSUME StoreInv, Cards!FastRead
    PROVE  StoreInv' /\ (Cards!Store!Next \/ UNCHANGED Cards!Store!vars)
<1> DEFINE p == mc.port
           r == asked[p]
           c == sio.card[p]
           byte == Cards!Fifo(sio)
           a == Cards!Transceive(c, Cards!Zero)
           d == a.card
           done == mc.op + mc.count
           held == Cards!Sector(c.mcd, r.sector)
<1>1. /\ Cards!FastTrack /\ cardFlags[p] = 2 /\ Cards!FastByte(Cards!Zero)
      /\ Cards!Counted(byte, SectorSize - 2)
      /\ buffer' = [buffer EXCEPT ![p][mc.count + 1] = byte] /\ CardsInv
  BY DEF Cards!FastRead, StoreInv
<1>2. Cards!Zero \in Cards!Byte /\ SectorSize \in Nat /\ SectorSize >= 2
  BY Codes, Sizes
<1>3. /\ stage = "idle" /\ mc.active = 1 /\ mc.fast = 1 /\ ireg = 1 /\ sio.due = 0
      /\ ireg' = 0 /\ asked' = asked /\ cardFlags' = cardFlags /\ success' = success /\ stage' = stage
      /\ p \in Cards!Slots /\ c \in CardStates /\ mc \in Globals /\ mc.op \in 0 .. 12 /\ mc.count \in Nat
      /\ CountsOf(mc) /\ Serving(mc)
      /\ \/ /\ sio'.device = Cards!Access /\ sio'.ctrl = On(p)
            /\ sio'.card = [sio.card EXCEPT ![p] = d] /\ sio'.card[p] = d
            /\ sio'.fifo = <<c.spdr>> /\ (a.ack # 1 => sio'.due = 0)
         \/ sio'.device # Cards!Access /\ Alike(sio, sio')
  BY <1>1, <1>2, FastSends
<1>4. /\ Cards!Busy(p) /\ r \in Asked /\ r.op = "read" /\ buffer[p] \in Block
      /\ buffer \in [Cards!Slots -> Block \cup {<< >>}] /\ cardFlags \in [Cards!Slots -> {0, 1, 2, 4}]
      /\ sio.card \in [{0, 1} -> CardStates] /\ mc.count < SectorSize
  <2>1. Cards!Busy(p) /\ mc.count < SectorSize
    BY <1>3 DEF CountsOf
  <2> QED
    BY <1>1, <1>3, <2>1 DEF CardsInv, DriverTypes, Requested, Cards!FlagOf, Asked, PortType
<1> HIDE DEF byte, r, c
<1>5. /\ mc'.op = mc.op /\ mc'.port = p /\ mc'.count = mc.count + 1
      /\ mc'.fast = IF mc.count + 1 > SectorSize - 2 THEN 0 ELSE 1
  BY <1>1, <1>3 DEF Cards!Counted, Globals
<1>6. /\ c.command = Cards!Read /\ c.ticks <= 10 + SectorSize /\ mc.op # 12 /\ c.ticks \in Nat
      /\ done \in Nat /\ c.ticks >= done - 1
      /\ c.ticks = done - 1 => InStep(mc, c, r) /\ mc.op = 11
  <2>1. Reading(mc, c, r) /\ c.ticks \in Nat
    BY <1>3, <1>4, CardFields DEF Serving, Fresh, r, c
  <2>2. InStep(mc, c, r) => mc.op > 10
    BY <1>3 DEF InStep
  <2> QED
    BY <1>2, <1>3, <2>1, <2>2 DEF Reading
<1>7. c.ticks = done - 1 =>
          /\ c.ticks = 10 + mc.count /\ c.ticks \notin {3, 4} /\ c.sector = r.sector
          /\ c.ticks \in 9 .. 8 + SectorSize => c.spdr = held[c.ticks - 8]
          /\ byte = held[mc.count + 1]
          /\ \A i \in 1 .. mc.count : buffer[p][i] = held[i]
          /\ mc.count <= SectorSize - 2
  <2> SUFFICES ASSUME c.ticks = done - 1
               PROVE  /\ c.ticks = 10 + mc.count /\ c.ticks \notin {3, 4} /\ c.sector = r.sector
                      /\ c.ticks \in 9 .. 8 + SectorSize => c.spdr = held[c.ticks - 8]
                      /\ byte = held[mc.count + 1]
                      /\ \A i \in 1 .. mc.count : buffer[p][i] = held[i]
                      /\ mc.count <= SectorSize - 2
    OBVIOUS
  <2>1. InStep(mc, c, r) /\ mc.op = 11 /\ c.ticks = 10 + mc.count
    BY <1>3, <1>6
  <2>2. mc.count <= SectorSize - 2
    BY <1>3, <2>1 DEF InStep
  <2>3. c.ticks \in 10 .. 9 + SectorSize /\ c.ticks - 9 = mc.count + 1
    BY <1>2, <1>3, <2>1, <2>2
  <2>4. byte = held[mc.count + 1]
    BY <2>1, <2>3 DEF InStep, byte
  <2>5. c.ticks >= 5 /\ c.ticks \notin {3, 4}
    BY <1>2, <2>3
  <2> QED
    BY <2>1, <2>2, <2>4, <2>5 DEF InStep
<1>8. /\ d.command = Cards!Read /\ d.ticks <= 10 + SectorSize /\ d.mcd = c.mcd
      /\ \/ a.ack # 1
         \/ d.ticks > done
         \/ /\ d.ticks = done
            /\ d.ticks = 4 => d.sector[1] = r.sector[1]
            /\ d.ticks >= 5 => d.sector = r.sector
            /\ d.ticks \in 9 .. 8 + SectorSize => d.spdr = Cards!Sector(d.mcd, r.sector)[d.ticks - 8]
            /\ d.ticks \in 10 .. 9 + SectorSize => c.spdr = Cards!Sector(d.mcd, r.sector)[d.ticks - 9]
  <2> HIDE DEF done
  <2> QED
    BY <1>2, <1>3, <1>4, <1>6, <1>7, ReadGoesOn
<1>9. a.ack = 1 /\ ~(d.ticks > done) => d.ticks = done /\ c.ticks = done - 1
  <2>1. a = Cards!TickRead(c, Cards!Zero)
    BY <1>2, <1>3, <1>6, CommandIs
  <2>2. a.ack = 1 => d.ticks = c.ticks + 1
    BY <1>2, <1>3, <1>6, <2>1, TickReadIs
  <2> HIDE DEF a, done
  <2> QED
    BY <1>6, <1>8, <2>2
<1> HIDE DEF a, held
<1>10. Alike(sio, sio')
  BY <1>3, <1>4, <1>8 DEF Alike, Cards!Slots, c
<1>11. buffer' = [buffer EXCEPT ![p] = buffer'[p]] /\ buffer'[p] = [buffer[p] EXCEPT ![mc.count + 1] = byte]
  BY <1>1, <1>3, <1>4
<1>12. Cards!Store!Next \/ UNCHANGED Cards!Store!vars
  BY <1>3, <1>4, <1>10, <1>11, AlikeIsKept, StaysOpen DEF r
<1>13. sio'.device = Cards!Access => Serving(mc)'
  <2> SUFFICES ASSUME sio'.device = Cards!Access PROVE Serving(mc)'
    OBVIOUS
  <2>1. sio'.card[mc'.port] = d /\ asked'[mc'.port] = r /\ sio'.ctrl = On(mc'.port)
    BY <1>3, <1>5 DEF r
  <2>2. sio'.fifo = <<c.spdr>> /\ (a.ack # 1 => sio'.due = 0)
    BY <1>3
  <2>3. Cards!Fifo(sio)' = c.spdr
    BY <2>2 DEF Cards!Fifo
  <2>4. \A i \in 1 .. mc.count + 1 : c.ticks = done - 1 => buffer'[mc'.port][i] = held[i]
    <3> SUFFICES ASSUME NEW i \in 1 .. mc.count + 1, c.ticks = done - 1 PROVE buffer'[p][i] = held[i]
      BY <1>5
    <3>1. i \in 1 .. SectorSize
      BY <1>3, <1>4, <1>2
    <3>2. CASE i = mc.count + 1
      BY <1>4, <1>7, <1>11, <3>1, <3>2 DEF Block
    <3>3. CASE i # mc.count + 1
      <4>1. i \in 1 .. mc.count
        BY <1>3, <3>3
      <4> QED
        BY <1>4, <1>7, <1>11, <3>1, <3>3, <4>1 DEF Block
    <3> QED
      BY <3>2, <3>3
  <2> HIDE DEF p, d
  <2>5. a.ack = 1 /\ ~(d.ticks > done) => InStep(mc, sio.card[mc.port], asked[mc.port])'
    <3> SUFFICES ASSUME a.ack = 1, ~(d.ticks > done) PROVE InStep(mc, sio.card[mc.port], asked[mc.port])'
      OBVIOUS
    <3>1. d.ticks = done /\ c.ticks = done - 1 /\ mc.op = 11
      BY <1>6, <1>9
    <3>2. mc'.count <= SectorSize - 1 /\ (mc'.fast = 1 => mc'.count <= SectorSize - 2) /\ mc'.op = 11
      BY <1>2, <1>3, <1>5, <1>7, <3>1
    <3>3. \A i \in 1 .. mc'.count : buffer'[mc'.port][i] = held[i]
      BY <1>5, <2>4, <3>1
    <3>4. held = Cards!Sector(d.mcd, r.sector)
      BY <1>8 DEF held
    <3>5. d.ticks \in Nat
      BY <1>6, <3>1
    <3>6. /\ d.ticks = 4 => d.sector[1] = r.sector[1]
          /\ d.ticks >= 5 => d.sector = r.sector
          /\ d.ticks \in 9 .. 8 + SectorSize => d.spdr = held[d.ticks - 8]
          /\ d.ticks \in 10 .. 9 + SectorSize => Cards!Fifo(sio)' = held[d.ticks - 9]
      <4>1. ~(d.ticks > done)
        OBVIOUS
      <4> QED
        BY <1>8, <2>3, <3>4, <4>1
    <3> QED
      BY <2>1, <3>2, <3>3, <3>4, <3>6 DEF InStep
  <2>6. mc'.op - 1 + mc'.count = done
    BY <1>3, <1>5 DEF done
  <2>7. Reading(mc, sio.card[mc.port], asked[mc.port])'
    <3>1. mc'.op >= 11 /\ mc'.fast = 0 => mc'.count >= SectorSize - 1
      BY <1>2, <1>3, <1>5
    <3>2. \/ sio'.due = 0 /\ ireg' = 0
          \/ d.ticks > done
          \/ d.ticks = done /\ InStep(mc, sio.card[mc.port], asked[mc.port])'
      BY <1>3, <1>9, <2>2, <2>5, <1>8
    <3> QED
      BY <1>5, <1>6, <1>8, <2>1, <2>6, <3>1, <3>2 DEF Reading
  <2> QED
    BY <1>4, <2>1, <2>7 DEF Serving
<1>14. StoreInv'
  <2>1. CardsInv'
    BY <1>1, FastReadRight
  <2>2. Loaded'
    BY <1>1, <1>3, <1>4 DEF StoreInv, Loaded, Cards!Busy, r
  <2> QED
    BY <1>3, <1>13, <2>1, <2>2 DEF StoreInv
<1> QED
  BY <1>12, <1>14

(***************************************************************************)
(* What touches no card: the program, the interrupt and the user.          *)
(***************************************************************************)
LEMMA QuietStepsStore ==
    ASSUME StoreInv,
           Cards!AllowNewCard \/ Cards!VBlank \/ Cards!Interrupt \/ Cards!Insert \/ UNCHANGED Cards!vars
    PROVE  StoreInv' /\ UNCHANGED Cards!Store!vars
<1>1. /\ sio \in PortType /\ mc \in Globals /\ CardsInv
  BY DEF StoreInv, CardsInv, DriverTypes
<1>2. /\ sio'.ctrl = sio.ctrl /\ sio'.fifo = sio.fifo /\ sio'.device = sio.device /\ sio'.card = sio.card
      /\ sio.due = 0 /\ ireg = 0 => sio'.due = 0 /\ ireg' = 0
      /\ mc'.op = mc.op /\ mc'.port = mc.port /\ mc'.active = mc.active /\ mc'.fast = mc.fast /\ mc'.count = mc.count
      /\ UNCHANGED <<asked, cardFlags, buffer, success>>
      /\ stage' = "pad1" => stage = "pad1"
  <2>1. CASE Cards!AllowNewCard
    BY <1>1, <2>1 DEF Cards!AllowNewCard, Globals
  <2>2. CASE Cards!VBlank
    BY <2>2 DEF Cards!VBlank
  <2>3. CASE Cards!Interrupt
    BY <1>1, <2>3 DEF Cards!Interrupt, PortType
  <2>4. CASE Cards!Insert
    BY <1>1, <2>4 DEF Cards!Insert, PortType
  <2>5. CASE UNCHANGED Cards!vars
    BY <2>5 DEF Cards!vars
  <2> QED
    BY <2>1, <2>2, <2>3, <2>4, <2>5
<1>3. CardsInv'
  BY <1>1, QuietStepsRight
<1>4. Loaded' /\ (stage = "pad1" => Quiet(sio))' /\ Alike(sio, sio')
  BY <1>2 DEF StoreInv, Loaded, Cards!Busy, Quiet, Alike
<1>5. mc'.active = 1 /\ sio'.device = Cards!Access => Serving(mc)'
  <2> SUFFICES ASSUME mc'.active = 1, sio'.device = Cards!Access PROVE Serving(mc)'
    OBVIOUS
  <2> DEFINE c == sio.card[mc.port]
             r == asked[mc.port]
  <2>1. Serving(mc)
    BY <1>2 DEF StoreInv
  <2>2. sio'.card[mc'.port] = c /\ asked'[mc'.port] = r /\ buffer'[mc'.port] = buffer[mc.port]
    BY <1>2
  <2>3. Fresh(mc, c) => Fresh(mc, sio.card[mc.port])'
    BY <1>2, <2>2 DEF Fresh
  <2>4. OnCourse(mc, c, r) => OnCourse(mc, sio.card[mc.port], asked[mc.port])'
    <3> HIDE DEF c, r
    <3> QED
      BY <1>2, <2>2 DEF OnCourse, Faithful
  <2>5. Lost(mc, c) => Lost(mc, sio.card[mc.port])'
    <3> HIDE DEF c, r
    <3> QED
      BY <1>2, <2>2 DEF Lost, Cards!Busy, Cards!Fifo
  <2>6. Reading(mc, c, r) => Reading(mc, sio.card[mc.port], asked[mc.port])'
    <3> HIDE DEF c, r
    <3>1. InStep(mc, c, r) => InStep(mc, sio.card[mc.port], asked[mc.port])'
      BY <1>2, <2>2 DEF InStep, Cards!Fifo
    <3> QED
      BY <1>2, <2>2, <3>1 DEF Reading
  <2> QED
    BY <1>2, <2>1, <2>2, <2>3, <2>4, <2>5, <2>6 DEF Serving
<1> QED
  BY <1>2, <1>3, <1>4, <1>5, Unmoved DEF StoreInv

(* A new request is an open one in the store. *)
LEMMA AskStores ==
    ASSUME StoreInv, NEW p \in Cards!Slots, Cards!Ask(p)
    PROVE  StoreInv' /\ Cards!Store!Next
<1>1. PICK request \in MCRequests(p) :
         /\ asked' = [asked EXCEPT ![p] = request]
         /\ buffer' = [buffer EXCEPT ![p] = request.data]
         /\ cardFlags' = [cardFlags EXCEPT ![p] = Cards!FlagOf(request.op)]
  BY DEF Cards!Ask
<1>2. /\ stage = "idle" /\ cardFlags[p] = 1 /\ mc' = [mc EXCEPT !.op = 0]
      /\ UNCHANGED <<sio, ireg, imask, stage, success>>
  BY DEF Cards!Ask, Cards!Busy
<1>3. /\ mc \in Globals /\ asked \in [Cards!Slots -> Asked] /\ cardFlags \in [Cards!Slots -> {0, 1, 2, 4}]
      /\ buffer \in [Cards!Slots -> Block \cup {<< >>}] /\ sio \in PortType /\ CardsInv
  BY DEF StoreInv, CardsInv, DriverTypes
<1>4. Cards!FlagOf(request.op) # 1
  <2>1. request.op \in {"read", "write", "info"}
    BY CardsAssumption DEF Cards!DriverAssumption, Cards!Slots
  <2> QED
    BY <2>1 DEF Cards!FlagOf
<1>5. /\ mc'.op = 0 /\ mc'.port = mc.port /\ mc'.active = mc.active /\ mc'.fast = mc.fast
      /\ mc'.count = mc.count /\ mc.op \in 0 .. 12 /\ mc.count \in Nat
  BY <1>2, <1>3 DEF Globals
<1>6. CardsInv'
  BY <1>3, AskRight
<1>7. Loaded'
  BY <1>1, <1>3 DEF StoreInv, Loaded, Cards!Busy
<1>8. Cards!Store!Next
  <2>1. asked'[p] = request
    BY <1>1, <1>3
  <2>2. Open[p] = 0 /\ Open' = [Open EXCEPT ![p] = 1] /\ Kept' = Kept
    BY <1>1, <1>2, <1>3, <1>4 DEF Open, Kept, Cards!Busy
  <2>3. Cards!Store!Ask(p)
    BY <1>1, <1>2, <2>1, <2>2 DEF Cards!Store!Ask, Open, Kept
  <2> QED
    BY <2>3 DEF Cards!Store!Next, Cards!Slots
<1>9. mc'.active = 1 /\ sio'.device = Cards!Access => Serving(mc)'
  <2> SUFFICES ASSUME mc'.active = 1, sio'.device = Cards!Access PROVE Serving(mc)'
    OBVIOUS
  <2> DEFINE q == mc.port
             c == sio.card[q]
             r == asked[q]
  <2>1. Serving(mc) /\ CountsOf(mc)
    BY <1>2, <1>3, <1>5 DEF StoreInv, CardsInv, Counts
  <2>2. q \in Cards!Slots /\ q # p /\ p = 1 - q
    BY <1>2, <1>3, <2>1 DEF CountsOf, Cards!Busy, Cards!Slots, Globals
  <2>3. /\ sio'.card[mc'.port] = c /\ asked'[mc'.port] = r /\ buffer'[mc'.port] = buffer[q]
        /\ Cards!Fifo(sio)' = Cards!Fifo(sio) /\ c \in CardStates
    BY <1>1, <1>2, <1>3, <1>5, <2>2 DEF PortType, Cards!Slots
  <2>4. ~Cards!Busy(1 - q) /\ cardFlags'[1 - q] # 1
    BY <1>1, <1>2, <1>3, <1>4, <2>2 DEF Cards!Busy
  <2>5. c.ticks \in Nat /\ SectorSize \in Nat
    BY <2>3, CardFields, Sizes
  <2> HIDE DEF q, c, r
  <2>6. Fresh(mc, c) => Fresh(mc, sio.card[mc.port])'
    BY <1>5, <2>3 DEF Fresh
  <2>7. ~Lost(mc, c)
    BY <2>4 DEF Lost, q
  <2>8. OnCourse(mc, c, r) => \/ OnCourse(mc, sio.card[mc.port], asked[mc.port])'
                              \/ Lost(mc, sio.card[mc.port])'
    <3> SUFFICES ASSUME OnCourse(mc, c, r)
                 PROVE  \/ OnCourse(mc, sio.card[mc.port], asked[mc.port])'
                        \/ Lost(mc, sio.card[mc.port])'
      OBVIOUS
    <3>1. c.command = Cards!Write /\ Faithful(c, r)
      BY DEF OnCourse
    <3>2. Faithful(sio.card[mc.port], asked[mc.port])'
      BY <2>3, <3>1 DEF Faithful
    <3>3. CASE mc.fast = 0 /\ mc.count = 0 /\ mc.op \in 2 .. 5 /\ c.ticks = mc.op - 1
      BY <1>5, <2>3, <2>4, <2>5, <3>1, <3>3 DEF Lost, Cards!Busy, q
    <3>4. CASE mc.fast = 1 /\ c.ticks = 5 + mc.count
      BY <1>5, <2>3, <3>1, <3>2, <3>4 DEF OnCourse
    <3>5. CASE mc.fast = 0 /\ mc.count = SectorSize /\ c.ticks >= 5 + SectorSize
      BY <1>5, <2>3, <3>1, <3>2, <3>5 DEF OnCourse
    <3> QED
      BY <3>3, <3>4, <3>5 DEF OnCourse
  <2>9. Reading(mc, c, r) => Reading(mc, sio.card[mc.port], asked[mc.port])'
    <3> SUFFICES ASSUME Reading(mc, c, r) PROVE Reading(mc, sio.card[mc.port], asked[mc.port])'
      OBVIOUS
    <3>1. /\ c.command = Cards!Read /\ c.ticks <= 10 + SectorSize
          /\ \/ sio.due = 0 /\ ireg = 0
             \/ c.ticks > mc.op - 1 + mc.count
             \/ c.ticks = mc.op - 1 + mc.count /\ InStep(mc, c, r)
      BY DEF Reading
    <3>2. mc.op = 0 /\ InStep(mc, c, r) => InStep(mc, sio.card[mc.port], asked[mc.port])'
      BY <1>5, <2>3 DEF InStep
    <3>3. \/ sio'.due = 0 /\ ireg' = 0
          \/ c.ticks > -1 + mc.count
          \/ c.ticks = -1 + mc.count /\ InStep(mc, sio.card[mc.port], asked[mc.port])'
      BY <1>2, <1>5, <2>5, <3>1, <3>2
    <3> QED
      BY <1>5, <2>3, <3>1, <3>3 DEF Reading
  <2> QED
    BY <1>2, <1>5, <2>1, <2>3, <2>6, <2>7, <2>8, <2>9 DEF Serving, q, c, r
<1> QED
  BY <1>2, <1>6, <1>7, <1>8, <1>9 DEF StoreInv

(***************************************************************************)
(* The polls of the controllers, whose bytes a card that is being talked   *)
(* to takes for bytes of its command.                                      *)
(***************************************************************************)

(* The port, before k more bytes of a poll of port p, has stored nothing    *)
(* but what request r may store.                                            *)
PollHolds(t, k, p, r) ==
    /\ t \in PortType /\ t.fifo = << >> /\ t.ctrl = On(p)
    /\ t.card[1 - p].mcd = sio.card[1 - p].mcd
    /\ Stores(sio.card[p].mcd, t.card[p].mcd, r)
    /\ t.device = Cards!Access => Safe(t.card[p], k, r)

PollBytes == {Cards!PAD, {1, 6}, Cards!Zero}

(* No byte of a poll selects a card, is a command to write or ends a write. *)
LEMMA PollBytesRight ==
    ASSUME NEW value \in PollBytes
    PROVE  value \in Cards!Byte /\ value # Cards!Access /\ value # Cards!Write /\ 7 \notin value
<1>1. value \in Cards!Byte
  BY Codes DEF PollBytes
<1>2. 7 \notin value
  BY DEF PollBytes, Cards!PAD, Cards!Zero
<1>3. 7 \in Cards!Access
  BY DEF Cards!Access
<1>4. ~(2 \in value)
  BY DEF PollBytes, Cards!PAD, Cards!Zero
<1>5. 2 \in Cards!Write
  BY DEF Cards!Write
<1> QED
  BY <1>1, <1>2, <1>3, <1>4, <1>5

(* One byte of a poll. *)
LEMMA PollStep ==
    ASSUME NEW p \in Cards!Slots, NEW r \in Asked, NEW k \in Nat, NEW t, PollHolds(t, k + 1, p, r),
           NEW value \in PollBytes
    PROVE  PollHolds(Cards!Pulled(Cards!WriteByte(t, value)), k, p, r)
<1> DEFINE w == Cards!WriteByte(t, value)
           u == Cards!Pulled(w)
           device == IF t.device = Cards!None THEN value ELSE t.device
           c == t.card[p]
           a == Cards!Transceive(c, value)
<1>1. /\ t \in PortType /\ t.fifo = << >> /\ t.ctrl = On(p) /\ "TXEN" \in t.ctrl
      /\ t.card[1 - p].mcd = sio.card[1 - p].mcd /\ Stores(sio.card[p].mcd, c.mcd, r)
      /\ t.device = Cards!Access => Safe(c, k + 1, r)
  BY OnRight DEF PollHolds, On
<1>2. /\ p \in {0, 1} /\ 1 - p \in {0, 1} /\ 1 - p # p /\ Cards!Port(t) = p
      /\ c \in CardStates /\ t.card \in [{0, 1} -> CardStates]
  BY <1>1 DEF Cards!Slots, Cards!Port, On, Cards!Mask, PortType
<1>3. value \in Cards!Byte /\ value # Cards!Access /\ value # Cards!Write /\ 7 \notin value
  BY PollBytesRight
<1>4. u \in PortType /\ u.fifo = << >> /\ u.ctrl = On(p)
  BY <1>1, <1>3, PadRight
<1>5. /\ w \in PortType
      /\ device # Cards!Access => Alike(t, w) /\ w.device # Cards!Access
      /\ device = Cards!Access =>
            \/ w.device = Cards!Access /\ w.card = [t.card EXCEPT ![p] = a.card]
            \/ w.device = Cards!Ignore /\ Alike(t, w)
  BY <1>1, <1>2, <1>3, SendKeeps
<1>6. Len(w.fifo) <= 1
  <2>1. Len(w.fifo) = 1
    BY <1>1, <1>3, SendRight
  <2> QED
    BY <2>1
<1> HIDE DEF w
<1>7. u.card = w.card /\ u.device = w.device
  <2>1. u = [w EXCEPT !.fifo = << >>]
    BY <1>5, <1>6, FifoRight
  <2> QED
    BY <1>5, <2>1 DEF PortType
<1> HIDE DEF u
<1>8. CASE Alike(t, w) /\ w.device # Cards!Access
  BY <1>1, <1>2, <1>4, <1>7, <1>8 DEF PollHolds, Alike, u, w
<1>9. CASE device = Cards!Access /\ w.device = Cards!Access /\ w.card = [t.card EXCEPT ![p] = a.card]
  <2>1. t.device = Cards!Access
    BY <1>3, <1>9
  <2>2. Safe(a.card, k, r) /\ Stores(c.mcd, a.card.mcd, r)
    BY <1>1, <1>2, <1>3, <2>1, SafeStep
  <2> HIDE DEF a
  <2>3. w.card[p] = a.card /\ w.card[1 - p] = t.card[1 - p]
    BY <1>2, <1>9
  <2>4. Stores(sio.card[p].mcd, a.card.mcd, r)
    BY <1>1, <2>2, StoresTwice
  <2> QED
    BY <1>1, <1>4, <1>7, <2>2, <2>3, <2>4 DEF PollHolds, u, w
<1>10. Cards!Ignore # Cards!Access
  BY Codes
<1> QED
  BY <1>5, <1>8, <1>9, <1>10

(* A whole poll, or as much of it as was answered. *)
LEMMA PolledStores ==
    ASSUME NEW p \in Cards!Slots, NEW r \in Asked, NEW s, PollHolds(s, 3, p, r), NEW t \in Cards!Polled(s)
    PROVE  PollHolds(t, 0, p, r) \/ PollHolds(t, 1, p, r) \/ PollHolds(t, 2, p, r)
<1> DEFINE first == Cards!Pulled(Cards!WriteByte(s, Cards!PAD))
           second == Cards!PadByte(first, {1, 6})
           third == Cards!PadByte(second, Cards!Zero)
<1>1. Cards!PAD \in PollBytes /\ {1, 6} \in PollBytes /\ Cards!Zero \in PollBytes
  BY DEF PollBytes
<1>2. ASSUME NEW x, NEW k, PollHolds(x, k, p, r), NEW d \in {0, 1} PROVE PollHolds([x EXCEPT !.due = d], k, p, r)
  <2>1. x \in PortType
    BY <1>2 DEF PollHolds
  <2> DEFINE y == [x EXCEPT !.due = d]
  <2>2. /\ y \in PortType /\ y.fifo = x.fifo /\ y.ctrl = x.ctrl /\ y.card = x.card /\ y.device = x.device
    BY <2>1 DEF PortType
  <2> HIDE DEF y
  <2>3. PollHolds(y, k, p, r)
    BY <1>2, <2>2 DEF PollHolds
  <2> QED
    BY <2>3 DEF y
<1>3. ASSUME NEW x, NEW k \in Nat, PollHolds(x, k + 1, p, r), NEW byte \in PollBytes
      PROVE  PollHolds(Cards!PadByte(x, byte), k, p, r)
  <2> DEFINE y == [x EXCEPT !.due = 0]
  <2>1. PollHolds(y, k + 1, p, r)
    BY <1>2, <1>3
  <2> HIDE DEF y
  <2>2. PollHolds(Cards!Pulled(Cards!WriteByte(y, byte)), k, p, r)
    BY <2>1, PollStep
  <2> QED
    BY <2>2 DEF Cards!PadByte, y
<1>4. PollHolds(first, 2, p, r)
  <2>1. PollHolds(s, 2 + 1, p, r)
    OBVIOUS
  <2> QED
    BY <1>1, <2>1, PollStep
<1>5. PollHolds(second, 1, p, r)
  <2> HIDE DEF first
  <2>1. PollHolds(first, 1 + 1, p, r)
    BY <1>4
  <2> QED
    BY <1>1, <1>3, <2>1
<1>6. PollHolds(third, 0, p, r)
  <2> HIDE DEF second
  <2>1. PollHolds(second, 0 + 1, p, r)
    BY <1>5
  <2> QED
    BY <1>1, <1>3, <2>1
<1>7. t \in {[first EXCEPT !.due = d] : d \in {0, 1}} \cup {first, second, third}
  BY DEF Cards!Polled, Cards!PadBytes
<1> HIDE DEF first, second, third
<1> QED
  BY <1>2, <1>4, <1>5, <1>6, <1>7

(* A card that is written to stands three bytes of a poll. *)
LEMMA ServedIsSafe ==
    ASSUME StoreInv, mc.active = 1, sio.device = Cards!Access
    PROVE  Safe(sio.card[mc.port], 3, asked[mc.port])
<1> DEFINE c == sio.card[mc.port]
           r == asked[mc.port]
<1> SUFFICES ASSUME c.command = Cards!Write PROVE Safe(c, 3, r)
  BY DEF Safe
<1>1. /\ mc.port \in Cards!Slots /\ Cards!Busy(mc.port) /\ CountsOf(mc) /\ c \in CardStates
      /\ r.op \in {"read", "write", "info"} /\ buffer[mc.port] \in Block /\ mc.op \in 0 .. 12 /\ mc.count \in Nat
  <2>1. /\ mc.port \in Cards!Slots /\ Cards!Busy(mc.port) /\ CountsOf(mc) /\ c \in CardStates /\ r \in Asked
        /\ mc.op \in 0 .. 12 /\ mc.count \in Nat
    BY DEF StoreInv, CardsInv, DriverTypes, Counts, CountsOf, Globals, Cards!Slots, PortType
  <2> QED
    BY <2>1 DEF StoreInv, CardsInv, Requested, Asked
<1>2. Serving(mc)
  BY DEF StoreInv
<1>3. c.ticks \in Nat /\ SectorSize \in Nat /\ SectorSize >= 2
  BY <1>1, CardFields, Sizes
<1>4. r.op = "write"
  BY <1>1, <1>2, Codes DEF Serving, Fresh, Reading
<1>5. r.data \in Block
  BY <1>1, <1>4 DEF StoreInv, Loaded
<1>6. ~Fresh(mc, c)
  BY Codes DEF Fresh
<1> HIDE DEF c, r
<1>7. CASE OnCourse(mc, c, r)
  <2>1. CASE mc.op \in 2 .. 5 /\ c.ticks = mc.op - 1
    BY <1>3, <1>4, <1>5, <2>1 DEF Safe
  <2>2. CASE mc.fast = 1 /\ c.ticks = 5 + mc.count
    BY <1>1, <1>3, <1>4, <1>5, <2>2 DEF Safe, CountsOf
  <2>3. CASE c.ticks >= 5 + SectorSize
    BY <1>4, <1>5, <1>7, <2>3 DEF Safe, OnCourse
  <2> QED
    BY <1>7, <2>1, <2>2, <2>3 DEF OnCourse
<1>8. CASE Lost(mc, c)
  <2>1. /\ c.ticks \in 1 .. 4 + mc.op /\ mc.op <= 3
        /\ mc.op >= 1 /\ c.ticks = 4 + mc.op /\ Cards!Exists(c.sector) => 7 \in c.sum
    BY <1>8 DEF Lost
  <2>2. CASE c.ticks + 3 <= 7 + SectorSize
    BY <1>4, <1>5, <2>2 DEF Safe
  <2>3. CASE c.ticks + 3 > 7 + SectorSize
    <3>1. c.ticks = 7 /\ SectorSize = 2 /\ mc.op = 3
      BY <1>1, <1>3, <2>1, <2>3
    <3>2. c.ticks = 5 + SectorSize /\ (Cards!Exists(c.sector) => 7 \in c.sum)
      BY <2>1, <3>1
    <3> QED
      BY <1>4, <1>5, <3>2 DEF Safe
  <2> QED
    BY <1>3, <2>2, <2>3
<1>9. Fresh(mc, c) \/ OnCourse(mc, c, r) \/ Lost(mc, c)
  BY <1>2, <1>4 DEF Serving, c, r
<1> QED
  BY <1>6, <1>7, <1>8, <1>9 DEF c, r

(* The driver polls a controller. *)
LEMMA ReadPadStores ==
    ASSUME StoreInv, NEW p \in Cards!Slots, Cards!ReadPad(p)
    PROVE  StoreInv' /\ (Cards!Store!Next \/ UNCHANGED Cards!Store!vars)
<1> DEFINE first == Cards!Mask(p) \cup {"DTR"}
           a == Cards!WriteCtrl(sio, first)
           b == Cards!Pulled(a)
           s == Cards!WriteCtrl(b, On(p))
<1>1. /\ stage = IF p = 0 THEN "pad0" ELSE "pad1"
      /\ \E t \in Cards!Polled(s) : sio' = Cards!WriteCtrl(t, {})
      /\ UNCHANGED <<imask, mc, asked, cardFlags, buffer, success>>
  <2>1. Cards!Mask(p) \cup {"TXEN", "DTR", "ACKIRQEN"} = On(p)
    BY DEF On
  <2> QED
    BY <2>1 DEF Cards!ReadPad
<1>2. /\ sio \in PortType /\ Len(sio.fifo) <= 1 /\ mc \in Globals /\ asked \in [Cards!Slots -> Asked]
      /\ p \in {0, 1} /\ Len(<< >>) = 0 /\ CardsInv
  BY DEF StoreInv, CardsInv, DriverTypes, Cards!Slots
<1>3. /\ first \in SUBSET Bits /\ On(p) \in SUBSET Bits /\ {} \in SUBSET Bits
      /\ {"TXEN", "DTR"} \subseteq On(p) /\ "IR" \notin first /\ "IR" \notin On(p)
  BY OnRight DEF Cards!Mask, Bits
<1> HIDE DEF first
<1>4. /\ a \in PortType /\ a.fifo \in {sio.fifo, << >>} /\ Alike(sio, a)
      /\ a.device = Cards!Access => ~Cards!Leaves(sio, first) /\ a.card = sio.card /\ sio.device = Cards!Access
  <2>1. a \in PortType /\ a.fifo \in {sio.fifo, << >>} /\ Alike(sio, a)
    BY <1>2, <1>3, ControlRight, ControlKeeps
  <2>2. Cards!Leaves(sio, first) => a.device # Cards!Access
    <3>1. Cards!Leaves(sio, first) => Quiet(a)
      BY <1>2, <1>3, ControlRight
    <3> QED
      BY <3>1, Codes DEF Quiet, Cards!None
  <2>3. ~Cards!Leaves(sio, first) => a = [sio EXCEPT !.ctrl = first]
    BY <1>2, <1>3, ControlRight
  <2>4. ~Cards!Leaves(sio, first) => a.card = sio.card /\ a.device = sio.device
    BY <1>2, <2>3 DEF PortType
  <2> QED
    BY <2>1, <2>2, <2>4
<1> HIDE DEF a
<1>5. /\ b \in PortType /\ b.fifo = << >> /\ Alike(a, b) /\ b.card = a.card /\ b.device = a.device
  <2>1. Len(a.fifo) <= 1
    BY <1>2, <1>4
  <2>2. b \in PortType /\ b = [a EXCEPT !.fifo = << >>] /\ Alike(a, b)
    BY <1>4, <2>1, FifoRight, PulledKeeps
  <2> QED
    BY <1>4, <2>2 DEF PortType
<1> HIDE DEF b
<1>6. /\ s \in PortType /\ s.fifo = << >> /\ s.ctrl = On(p) /\ Alike(b, s)
      /\ s.device = Cards!Access => s.card = b.card /\ b.device = Cards!Access
  <2>1. s \in PortType /\ s.fifo = << >> /\ s.ctrl = On(p) /\ Alike(b, s)
    BY <1>3, <1>5, ControlRight, ControlKeeps
  <2>2. Cards!Leaves(b, On(p)) => s.device # Cards!Access
    <3>1. Cards!Leaves(b, On(p)) => Quiet(s)
      BY <1>3, <1>5, ControlRight
    <3> QED
      BY <3>1, Codes DEF Quiet, Cards!None
  <2>3. ~Cards!Leaves(b, On(p)) => s = [b EXCEPT !.ctrl = On(p)]
    BY <1>3, <1>5, ControlRight
  <2>4. ~Cards!Leaves(b, On(p)) => s.card = b.card /\ s.device = b.device
    BY <1>5, <2>3 DEF PortType
  <2> QED
    BY <2>1, <2>2, <2>4
<1> HIDE DEF s
<1>7. Alike(sio, s)
  BY <1>4, <1>5, <1>6 DEF Alike
<1>8. PICK t \in Cards!Polled(s) : sio' = Cards!WriteCtrl(t, {})
  BY <1>1
<1>9. t \in PortType /\ t.fifo = << >> /\ t.ctrl = On(p)
  BY <1>3, <1>6, PolledRight
<1>10. Quiet(sio') /\ Alike(t, sio')
  <2>1. Cards!Leaves(t, {})
    BY <1>3, <1>9 DEF Cards!Leaves
  <2> QED
    BY <1>3, <1>8, <1>9, <2>1, ControlRight, ControlKeeps
<1>11. StoreInv'
  <2>1. CardsInv'
    BY <1>2, ReadPadRight
  <2>2. Loaded'
    BY <1>1 DEF StoreInv, Loaded, Cards!Busy
  <2>3. sio'.device # Cards!Access
    BY <1>10, Codes DEF Quiet, Cards!None
  <2> QED
    BY <1>10, <2>1, <2>2, <2>3 DEF StoreInv
<1>12. CASE s.device = Cards!Access
  <2>1. ~Cards!Leaves(sio, first) /\ s.card = sio.card /\ sio.device = Cards!Access
    BY <1>4, <1>5, <1>6, <1>12
  <2>2. ~Quiet(sio)
    BY <2>1, Codes DEF Quiet, Cards!None
  <2>3. mc.active = 1 /\ p = 0
    <3>1. mc.active = 1
      BY <1>2, <2>2 DEF CardsInv, Resting, Globals
    <3>2. stage # "pad1"
      BY <2>2 DEF StoreInv
    <3> QED
      BY <1>1, <1>2, <3>1, <3>2
  <2>4. sio.ctrl = On(mc.port)
    BY <2>1, <2>3 DEF StoreInv, Serving
  <2>5. mc.port = 0
    BY <1>2, <2>1, <2>3, <2>4 DEF Cards!Leaves, On, Cards!Mask, first, Globals
  <2>6. asked[p] \in Asked /\ Cards!Busy(p)
    BY <1>2, <2>3, <2>5 DEF CardsInv, Counts, CountsOf, Cards!Slots
  <2>7. PollHolds(s, 3, p, asked[p])
    <3>1. Safe(sio.card[p], 3, asked[p])
      BY <2>1, <2>3, <2>5, ServedIsSafe
    <3> QED
      BY <1>6, <2>1, <3>1 DEF PollHolds, Stores
  <2>8. /\ t.card[1 - p].mcd = sio.card[1 - p].mcd
        /\ Stores(sio.card[p].mcd, t.card[p].mcd, asked[p])
    BY <1>8, <2>6, <2>7, PolledStores DEF PollHolds
  <2>9. Moved(p)
    BY <1>10, <2>3, <2>8 DEF Moved, Alike, Stores, Cards!Slots
  <2>10. Cards!Store!Next \/ UNCHANGED Cards!Store!vars
    BY <1>1, <2>6, <2>9, StaysOpen
  <2> QED
    BY <1>11, <2>10
<1>13. CASE s.device # Cards!Access
  <2> DEFINE r == Cards!NoRequest
  <2>1. r \in Asked /\ r.op # "write"
    <3>1. Cards!Zero \in Cards!Byte
      BY Codes
    <3> QED
      BY <3>1 DEF Cards!NoRequest, Asked
  <2> HIDE DEF r
  <2>2. PollHolds(s, 3, p, r)
    BY <1>2, <1>6, <1>7, <1>13 DEF PollHolds, Stores, Alike
  <2>3. /\ t.card[1 - p].mcd = sio.card[1 - p].mcd
        /\ Stores(sio.card[p].mcd, t.card[p].mcd, r)
    BY <1>8, <2>1, <2>2, PolledStores DEF PollHolds
  <2>4. Alike(sio, sio')
    BY <1>2, <1>10, <2>1, <2>3 DEF Alike, Stores
  <2>5. UNCHANGED Cards!Store!vars
    BY <1>1, <2>4, Unmoved
  <2> QED
    BY <1>11, <2>5
<1> QED
  BY <1>12, <1>13

(* At first the store is empty and nothing is open. *)
LEMMA StoreInit == Cards!Init => StoreInv /\ Cards!Store!Init
<1> SUFFICES ASSUME Cards!Init PROVE StoreInv /\ Cards!Store!Init
  OBVIOUS
<1>1. CardsInv
  BY CardsInit
<1>2. \A p \in Cards!Slots : cardFlags[p] = 1
  BY DEF Cards!Init
<1>3. stage = "idle" /\ mc.active = 0 /\ success = 0
  BY DEF Cards!Init
<1>4. StoreInv
  BY <1>1, <1>2, <1>3 DEF StoreInv, Loaded, Cards!Busy
<1>5. Cards!Store!Init
  BY <1>2, <1>3 DEF Cards!Store!Init, Cards!Busy, Cards!Slots
<1> QED
  BY <1>4, <1>5

(* Every step of the driver, the port and the cards is a step of the store or none. *)
LEMMA StoreStep ==
    StoreInv /\ [Cards!Next]_(Cards!vars) => StoreInv' /\ [Cards!Store!Next]_(Cards!Store!vars)
<1> SUFFICES ASSUME StoreInv, [Cards!Next]_(Cards!vars)
             PROVE  StoreInv' /\ (Cards!Store!Next \/ UNCHANGED Cards!Store!vars)
  OBVIOUS
<1>1. CASE \E p \in Cards!Slots : Cards!Ask(p) \/ Cards!ReadPad(p)
  BY <1>1, AskStores, ReadPadStores
<1>2. CASE Cards!McHandler \/ Cards!FastWrite \/ Cards!FastRead
  BY <1>2, McHandlerStores, FastWriteStores, FastReadStores
<1>3. CASE Cards!FirstStage
  BY <1>3, AbortStores, PassOverStores, StartStores DEF Cards!FirstStage
<1>4. CASE Cards!AllowNewCard \/ Cards!VBlank \/ Cards!Interrupt \/ Cards!Insert \/ UNCHANGED Cards!vars
  BY <1>4, QuietStepsStore
<1> QED
  BY <1>1, <1>2, <1>3, <1>4 DEF Cards!Next

(* A sector of a card is written whole or not at all, while its request is   *)
(* under way, and a request that reports success has done what it asked,     *)
(* whatever is polled, pulled out or asked of the other slot meanwhile; for  *)
(* sectors of any size up to the real one.                                   *)
THEOREM CardsKeepSectors == DriversSpec => StoreSafe
<1>1. DriversInit => StoreInv /\ Cards!Store!Init
  BY StoreInit DEF DriversInit
<1>2. StoreInv /\ [DriversNext]_<<exercised, vars, cards>> => StoreInv' /\ [Cards!Store!Next]_(Cards!Store!vars)
  <2>1. [DriversNext]_<<exercised, vars, cards>> => [Cards!Next]_(Cards!vars)
    BY DEF DriversNext, cards, Cards!vars
  <2> QED
    BY <2>1, StoreStep
<1> QED
  BY <1>1, <1>2, PTL DEF DriversSpec, StoreSafe, Cards!StoreSafe, Cards!Store!Spec
=============================================================================
