------------------------------ MODULE PsyqoDma ------------------------------
(***************************************************************************)
(* A PSYQo program that uses DMA, on the DMA controller of the emulator:   *)
(* the kernel's interrupt handler dmaIRQ (kernel.cpp), which dispatches    *)
(* the completions to the callbacks of registerDmaEvent, and a program     *)
(* that arms channels, starts transfers and waits for their callbacks, the *)
(* way GPU::flip and SPU's uploads do.                                     *)
(*                                                                         *)
(* The handler runs with interrupts off, but the devices go on: the        *)
(* emulator looks for scheduled completions after every branch of guest    *)
(* code, that of the handler included.                                     *)
(***************************************************************************)
EXTENDS DmaController

CONSTANT Overlap   \* "yes": a transfer may start while others are awaited

(* The channels whose completions PSYQo registers callbacks for *)
Registered == Ch \cap {"GPU", "SPU", "OTC"}

VARIABLES
    pc,       \* where the CPU is: in the program, or how far into dmaIRQ
    read,     \* dmaIRQ: dicr and dirqs, as read
    calling,  \* dmaIRQ: the channels whose callbacks are still to run
    copy,     \* the program: DICR as read for an update of the enables, or NoCopy
    awaited   \* the program: the transfers whose callback has not run

isr  == <<pc, read, calling>>
prog == <<copy, awaited>>
vars == <<dma, isr, prog>>

Stages == {"program", "entered", "cleared", "read", "calling"}

Register == [force : Level, enables : SUBSET Ch, master : Level, flags : SUBSET Ch]
Dicr     == [force |-> force, enables |-> enables, master |-> master, flags |-> flags]
NoRead   == [force |-> 0, enables |-> {}, master |-> 0, flags |-> {}]
NoCopy   == [enables |-> {}, master |-> 0]

-----------------------------------------------------------------------------
(* Kernel::Internal::prepare leaves every channel disabled and idle, the   *)
(* flags acknowledged and the master enable set.                           *)
PsyqoInit ==
    /\ dpcr = {} /\ dmaBusy = {} /\ dmaPending = {} /\ refused = {}
    /\ force = 0 /\ enables = {} /\ master = 1 /\ flags = {} /\ irq31 = 0
    /\ dmaIstat = 0
    /\ parked = 0 /\ decoding = 0
    /\ pc = "program" /\ read = NoRead /\ calling = {}
    /\ copy = NoCopy /\ awaited = {}

(* Kernel::enableDma *)
EnableDma(c) ==
    /\ pc = "program"
    /\ WriteDpcr(dpcr \cup {c})
    /\ UNCHANGED <<isr, prog>>

(* GPU::initialize and SPU::initialize arm their interrupts: DICR is read, *)
(* its upper byte dropped, an enable added, and the result written back.   *)
(* The handler may run in between.                                         *)
Armed_Mutant(c) == {c}
Armed(c) == enables \cup {c}

ReadToArm(c) ==
    /\ pc = "program"
    /\ copy = NoCopy
    /\ copy' = [enables |-> Armed(c), master |-> master]
    /\ UNCHANGED <<dma, isr, awaited>>

WriteToArm ==
    /\ pc = "program"
    /\ copy # NoCopy
    /\ WriteDicr([force |-> 0, master |-> copy.master, enables |-> copy.enables, ack |-> {}])
    /\ copy' = NoCopy
    /\ UNCHANGED <<dpcr, dmaBusy, dmaPending, mdec, refused, isr, awaited>>

(* A transfer with a valid CHCR, once no earlier one of the channel is     *)
(* under way; others is what the caller waits for besides.                 *)
MayStart(c, others) ==
    /\ c \in dpcr \cap enables
    /\ c \notin dmaBusy \cup awaited
    /\ Overlap = "yes" \/ others = {}

BeginTransfer(c) == Start(c, Later(c), 0)

StartTransfer(c) ==
    /\ pc = "program"
    /\ MayStart(c, awaited)
    /\ BeginTransfer(c)
    /\ awaited' = awaited \cup {c}
    /\ UNCHANGED <<isr, copy>>

(* A device ends a transfer, whatever the CPU is doing. *)
Complete(c) ==
    /\ Finish(c)
    /\ UNCHANGED <<isr, prog>>

-----------------------------------------------------------------------------
(* dmaIRQ.  The exception comes as soon as the program's interrupts are    *)
(* on, which inside its critical sections takes a while.                   *)

Interrupt ==
    /\ pc = "program"
    /\ dmaIstat = 1
    /\ pc' = "entered"
    /\ UNCHANGED <<dma, read, calling, prog>>

ClearIReg ==
    /\ pc = "entered"
    /\ ClearDmaBit
    /\ pc' = "cleared"
    /\ UNCHANGED <<read, calling, prog>>

ReadDicr ==
    /\ pc = "cleared"
    /\ read' = Dicr
    /\ pc' = "read"
    /\ UNCHANGED <<dma, calling, prog>>

(* The acknowledged flags, and the channels then called back: dirqs, whose *)
(* eighth bit is the summary.                                              *)
Acked_Mutant == {}
Acked == read.flags
Dispatched == read.flags

AckDicr ==
    /\ pc = "read"
    /\ WriteDicr([force |-> 0, master |-> read.master, enables |-> read.enables, ack |-> Acked])
    /\ calling' = Dispatched
    /\ pc' = "calling"
    /\ read' = NoRead
    /\ UNCHANGED <<dpcr, dmaBusy, dmaPending, mdec, refused, prog>>

(* The callbacks of one channel run.  They may start a transfer, as the    *)
(* GPU's does for its ordering tables.                                     *)
CallBack(c) ==
    /\ pc = "calling"
    /\ c \in calling
    /\ calling' = calling \ {c}
    /\ \/ /\ awaited' = awaited \ {c}
          /\ UNCHANGED dma
       \/ \E n \in Registered \ (awaited \ {c}) :
             /\ n \in (dpcr \cap enables) \ dmaBusy
             /\ Overlap = "yes" \/ awaited \ {c} = {}
             /\ BeginTransfer(n)
             /\ awaited' = (awaited \ {c}) \cup {n}
    /\ UNCHANGED <<pc, read, copy>>

LeaveHandler ==
    /\ pc = "calling"
    /\ calling = {}
    /\ pc' = "program"
    /\ UNCHANGED <<dma, read, calling, prog>>

PsyqoNext ==
    \/ \E c \in Registered :
          \/ EnableDma(c) \/ ReadToArm(c) \/ StartTransfer(c)
          \/ CallBack(c)
    \/ \E c \in Ch : Complete(c)
    \/ WriteToArm
    \/ Interrupt \/ ClearIReg \/ ReadDicr \/ AckDicr \/ LeaveHandler

PsyqoSpec == PsyqoInit /\ [][PsyqoNext]_vars

(* Scheduled completions come, interrupts are off for bounded times only,  *)
(* and the handler runs to its end.                                        *)
PsyqoFairness ==
    /\ \A c \in Ch : WF_vars(Complete(c))
    /\ WF_vars(Interrupt)
    /\ WF_vars(ClearIReg \/ ReadDicr \/ AckDicr \/ LeaveHandler \/ \E c \in Ch : CallBack(c))

PsyqoFairSpec == PsyqoSpec /\ PsyqoFairness

-----------------------------------------------------------------------------
(* Type invariant of the handler's and the program's state.                *)
PsyqoTypeOK ==
    /\ DmaTypeOK
    /\ pc \in Stages
    /\ read \in Register
    /\ calling \subseteq Ch
    /\ copy \in [enables : SUBSET Ch, master : Level]
    /\ awaited \subseteq Ch

(* The handler calls back only for transfers the program waits for, once   *)
(* each: no completion is seen twice, though the handler acknowledges      *)
(* flags with a value it read before other channels raised theirs.         *)
OnlyAwaited == calling \subseteq awaited

(* No callback is lost: while the program runs and no DMA interrupt is on  *)
(* its way, every transfer it waits for is still to end (kernel.cpp,       *)
(* dmaIRQ).                                                                *)
NoCallbackLost == pc = "program" /\ dmaIstat = 0 => awaited \subseteq dmaPending

(* "All the callbacks registered will be called sequentially during the    *)
(* dispatcher interrupt handler" (kernel.hh, registerDmaEvent): the        *)
(* end of every transfer the program waits for is dispatched.              *)
CalledBack == \A c \in Ch : c \in awaited ~> c \in calling
=============================================================================
