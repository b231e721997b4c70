---------------------------- MODULE OpenBiosCdRom ----------------------------
(***************************************************************************)
(* OpenBIOS's CD-ROM driver (mips/openbios/cdrom) on the CD-ROM            *)
(* controller: initCDRom, the state machine behind the interrupts of the   *)
(* controller and of its DMA channel, the events of the kernel by which it *)
(* tells of what it did, and the blocking calls of the file system.        *)
(*                                                                         *)
(* States of the machine that no entry point of the BIOS leads to are left *)
(* out, as are bytes, the events nobody opened, and cdromReadTOC and       *)
(* cdromReset, which nothing calls (main.c:281).  A program's call and the *)
(* dispatch of an interrupt are steps of their own; an interrupt is taken  *)
(* before the program's next step.                                         *)
(***************************************************************************)
EXTENDS CdRom, Integers

CONSTANTS
    Uses,    \* what the program does, among AllUses
    Hurry,   \* {"preempted"}: the program may be held up between two instructions
    Count,   \* the largest number of sectors read at once
    Retries, \* how often cdromBlockReading tries: 10 in the code
    Errors,  \* bound on the sectors that cannot be read, in the guard of Sector
    Moves    \* bound on the movements of the lid, in the guard of Lid

AllUses == {"file", "status", "direct"}

ASSUME OpenBiosAssumption ==
    /\ Uses \subseteq AllUses /\ Hurry \subseteq {"preempted"}
    /\ Count \in Nat \ {0} /\ Retries \in Nat \ {0} /\ Errors \in Nat /\ Moves \in Nat
    /\ {"Getstat", "Setloc", "Read", "Pause", "Reset", "Setmode", "Seek"} \subseteq Commands
    /\ "Sync" \notin Commands      \* which the driver never sends

VARIABLES
    state,          \* s_currentState
    gotInt5,        \* s_gotInt5
    initialized,    \* s_initializationComplete
    sectors,        \* s_sectorCounter
    transfers,      \* s_dmaCounter
    delivered,      \* the opened events whose flags are EVENT_FLAG_PENDING
    isr, cause,     \* how far cdromIOVerifier and cdromIOHandler are, and the response read
    dma, dmaIstat,  \* a transfer under way, and the DMA's bit of ISTAT
    call,           \* where the program is
    want, tries,    \* cdromBlockReading: count, and how many tries are left
    goal, fetched,  \* history: the sectors of the last cdromRead, and those copied since
    result, why,    \* history: how the last call ended, and what may have made it fail
    silenced,       \* history: 1 once opening the lid stopped a read without a response
    errors, moves   \* the counters that Errors and Moves bound

machine == <<state, gotInt5, initialized, sectors, transfers>>
handler == <<isr, cause>>
channel == <<dma, dmaIstat>>
reader  == <<want, tries>>
history == <<goal, fetched, result, why, silenced>>
bounds  == <<errors, moves>>
vars    == <<cd, machine, delivered, handler, channel, call, reader, history, bounds>>

States == {"GETSTATUS", "SETMODE", "SEEKL", "SEEKL_SETLOC", "READ", "READ_SETMODE",
           "INITIALIZING", "REINIT", "PAUSING", "IDLE"}
Calls  == {"boot", "init", "initializing", "delay", "program", "seekl", "sought", "seeking",
           "read", "reading", "asking"}

(* The events that initializeCDRomHandlersAndEvents opens and enables; RDY   *)
(* and END are delivered for audio only, which nothing here plays.          *)
Opened == {"ACK", "DNE", "ERR"}

OpenBiosInit ==
    /\ Init
    /\ state = "IDLE" /\ gotInt5 = 0 /\ initialized = 0 /\ sectors = 0 /\ transfers = 0
    /\ delivered = {}
    /\ isr = "none" /\ cause = "none" /\ dma = 0 /\ dmaIstat = 0
    /\ call = "boot" /\ want = 0 /\ tries = 0
    /\ goal = 0 /\ fetched = 0 /\ result = "none" /\ why = {} /\ silenced = 0
    /\ errors = 0 /\ moves = 0

-----------------------------------------------------------------------------
(* The program runs when no interrupt waits and none is handled. *)
Runs(where) == call = where /\ isr = "none" /\ istat = 0 /\ dmaIstat = 0

(* How a call of the program ends, once it has polled the event e: it looks  *)
(* at DNE first *)
Return(r) == call' = "program" /\ result' = r

Polled(e) ==
    /\ e \in delivered /\ (e = "ERR" => "DNE" \notin delivered)
    /\ delivered' = delivered \ {e}

(* cdromInnerInit: what was due or waiting is forgotten, *)
PrepareInit ==
    /\ Runs("boot")
    /\ state' = "INITIALIZING" /\ gotInt5' = 0 /\ initialized' = 0
    /\ stat' = "none" /\ mask' = 1
    /\ call' = "init"
    /\ UNCHANGED <<host, istat, disc, motor, pending, sectors, transfers, delivered, handler,
                   channel, reader, history, bounds>>

(* and the controller is told to start over, *)
SendInit ==
    /\ Runs("init")
    /\ WriteCommand("Reset", "no", {})
    /\ call' = "initializing"
    /\ UNCHANGED <<machine, delivered, handler, channel, reader, history, bounds>>

(* 30000 rounds of waiting are less than the 4100000 cycles a Reset takes,  *)
(* but more than the 0x800 of its acknowledgement, or of a repeated one.    *)
TakesLong == irq = "Reset" /\ part = 2 /\ repeated = 0

InitReturns ==
    /\ Runs("initializing")
    /\ \/ initialized = 1 /\ call' = "delay"
       \/ initialized = 2 /\ call' = "boot"
       \/ initialized = 0 /\ TakesLong /\ call' = "boot"
    /\ UNCHANGED <<cd, machine, delivered, handler, channel, reader, history, bounds>>

(* initCDRom's 50000 rounds of delay outlast an acknowledgement too. *)
Delay ==
    /\ Runs("delay")
    /\ irq = "none" \/ part = 2
    /\ call' = "program"
    /\ UNCHANGED <<cd, machine, delivered, handler, channel, reader, history, bounds>>

Booting == PrepareInit \/ SendInit \/ InitReturns \/ Delay

-----------------------------------------------------------------------------
(* A call of the program begins: the driver may still be at work for an     *)
(* earlier one that did not wait.                                           *)
Begin(use, step) ==
    /\ Runs("program")
    /\ use \in Uses
    /\ call' = step
    /\ why' = IF state # "IDLE" THEN {"busy"} ELSE {}
    /\ result' = "none"
    /\ UNCHANGED <<silenced, bounds, handler, channel>>

BlockReading(n) ==
    /\ Begin("file", "seekl")
    /\ want' = n /\ tries' = Retries
    /\ UNCHANGED <<cd, machine, delivered, goal, fetched>>

(* cdromSeekL sends the command, and only then sets the state; *)
\* Mutant: an error stays.
UndeliveredBySeek_Mutant == {"DNE"}
UndeliveredBySeek == {"DNE", "ERR"}

SeekL ==
    /\ Runs("seekl") /\ state = "IDLE"
    /\ delivered' = delivered \ UndeliveredBySeek
    /\ \E far \in {"yes", "no"} : WriteCommand("Setloc", far, {})
    /\ call' = "sought"
    /\ UNCHANGED <<machine, handler, channel, reader, history, bounds>>

SetSeekState ==
    /\ Runs("sought")
    /\ state' = "SEEKL_SETLOC"
    /\ call' = "seeking"
    /\ UNCHANGED <<cd, gotInt5, initialized, sectors, transfers, delivered, handler, channel,
                   reader, history, bounds>>

(* the caller polls the events. *)
Sought ==
    /\ Runs("seeking")
    /\ \/ Polled("DNE") /\ call' = "read" /\ UNCHANGED result
       \/ Polled("ERR") /\ Return("failed")
    /\ UNCHANGED <<cd, machine, handler, channel, reader, goal, fetched, why, silenced, bounds>>

(* cdromRead *)
\* Mutant: the end of the seek stays.
Undelivered_Mutant == {"DNE"} \cap delivered
Undelivered == {}

\* Mutant: a read that failed leaves its count.
Transfers_Mutant(n) == IF transfers = 0 THEN n ELSE transfers
Transfers(n) == n

Read(n) ==
    /\ state = "IDLE"
    /\ delivered' = Undelivered
    /\ sectors' = n /\ transfers' = Transfers(n) /\ goal' = n /\ fetched' = 0
    /\ state' = "READ_SETMODE"
    /\ WriteCommand("Setmode", "no", {})
    /\ UNCHANGED <<gotInt5, initialized, silenced, bounds, handler, channel>>

BlockRead ==
    /\ Runs("read")
    /\ Read(want)
    /\ call' = "reading"
    /\ UNCHANGED <<reader, result, why>>

(* A sector that cannot be read is tried again, from the seek on. *)
ReadReturns ==
    /\ Runs("reading")
    /\ \/ Polled("DNE") /\ Return("done") /\ UNCHANGED tries
       \/ /\ Polled("ERR") /\ tries' = tries - 1
          /\ IF tries > 1 THEN call' = "seekl" /\ UNCHANGED result ELSE Return("failed")
    /\ UNCHANGED <<cd, machine, handler, channel, want, goal, fetched, why, silenced, bounds>>

(* cdromBlockGetStatus *)
GetStatus ==
    /\ Begin("status", "asking")
    /\ state = "IDLE"
    /\ delivered' = {}
    /\ state' = "GETSTATUS"
    /\ WriteCommand("Getstat", "no", {})
    /\ UNCHANGED <<gotInt5, initialized, sectors, transfers, reader, goal, fetched>>

StatusReturns ==
    /\ Runs("asking")
    /\ \E e \in {"DNE", "ERR"} : Polled(e) /\ Return(IF e = "DNE" THEN "done" ELSE "failed")
    /\ UNCHANGED <<cd, machine, handler, channel, reader, goal, fetched, why, silenced, bounds>>

(* A driver that stays busy makes a call give up: at the second read, too. *)
GiveUp ==
    /\ Runs("seekl") \/ Runs("read")
    /\ state # "IDLE"
    /\ Return("failed")
    /\ UNCHANGED <<cd, machine, delivered, handler, channel, reader, goal, fetched, why,
                   silenced, bounds>>

(* The calls that do not wait, and the tests of the events that follow *)
DirectRead(n) ==
    /\ Begin("direct", "program")
    /\ Read(n)
    /\ UNCHANGED reader

DirectSetMode ==
    /\ Begin("direct", "program")
    /\ state = "IDLE"
    /\ delivered' = {}
    /\ state' = "SETMODE"
    /\ \E m \in ModeSets : WriteCommand("Setmode", "no", m)
    /\ UNCHANGED <<gotInt5, initialized, sectors, transfers, reader, goal, fetched>>

TestEvent(e) ==
    /\ Runs("program")
    /\ e \in delivered
    /\ delivered' = delivered \ {e}
    /\ UNCHANGED <<cd, machine, handler, channel, call, reader, history, bounds>>

Starts ==
    \/ \E n \in 1 .. Count : BlockReading(n) \/ DirectRead(n)
    \/ GetStatus \/ DirectSetMode
    \/ \E e \in Opened : TestEvent(e)

GoesOn ==
    \/ Booting
    \/ SeekL \/ SetSeekState \/ Sought \/ BlockRead \/ ReadReturns
    \/ StatusReturns

-----------------------------------------------------------------------------
(* The interrupt: cdromIOVerifier reads and acknowledges the response, then *)
(* dispatches it; cdromIOHandler clears the bit in ISTAT last.              *)
Verify ==
    /\ isr = "none" /\ istat = 1
    /\ isr' = "verified" /\ cause' = stat
    /\ Acknowledge
    /\ UNCHANGED <<machine, delivered, channel, call, reader, history, bounds>>

Deliver(events) == delivered' = delivered \cup events

Tell(s, events) ==
    /\ state' = s
    /\ Deliver(events)
    /\ UNCHANGED <<cd, sectors, transfers, dma, fetched>>

Send(s, c) ==
    /\ state' = s
    /\ WriteCommand(c, "no", {})
    /\ UNCHANGED delivered

Nothing == Tell(state, {})

(* initiateDMA, for each sector that is ready.  The controller copies the   *)
(* sector as the transfer starts.                                           *)
SectorsAfter == IF sectors = 0 THEN -2 ELSE sectors - 1

InitiateDMA ==
    /\ sectors' = SectorsAfter
    /\ dma' = 1 /\ fetched' = fetched + 1
    /\ IF sectors' = 0 THEN Send("PAUSING", "Pause") ELSE UNCHANGED <<cd, state, delivered>>
    /\ UNCHANGED <<transfers, gotInt5, initialized>>

DataReady ==
    IF state = "READ" THEN InitiateDMA ELSE Nothing /\ UNCHANGED <<gotInt5, initialized>>

Complete ==
    \/ state = "INITIALIZING" /\ Tell("IDLE", {}) /\ initialized' = 1 /\ UNCHANGED gotInt5
    \/ state = "REINIT" /\ Tell("IDLE", {"ERR"}) /\ gotInt5' = 0 /\ UNCHANGED initialized
    \/ state = "IDLE" /\ Nothing /\ UNCHANGED <<gotInt5, initialized>>
    \/ state \notin {"INITIALIZING", "REINIT", "IDLE"} /\ Tell("IDLE", {"DNE"})
       /\ UNCHANGED <<gotInt5, initialized>>

\* Mutant: readSetModeResponse forgets to set the state.
AfterSetmode_Mutant == "READ_SETMODE"
AfterSetmode == "READ"

(* acknowledge: the other states wait for a second response *)
Acknowledged ==
    /\ \/ state \in {"SETMODE", "GETSTATUS"} /\ Tell("IDLE", {"DNE"})
       \/ state = "READ_SETMODE" /\ Send(AfterSetmode, "Read")
          /\ UNCHANGED <<sectors, transfers, dma, fetched>>
       \/ state = "SEEKL_SETLOC" /\ Send("SEEKL", "Seek")
          /\ UNCHANGED <<sectors, transfers, dma, fetched>>
       \/ state \in {"SEEKL", "READ", "INITIALIZING", "REINIT", "PAUSING", "IDLE"} /\ Nothing
    /\ UNCHANGED <<gotInt5, initialized>>

(* discError: the first error starts the controller over, and is told of   *)
(* when that is done; an error while it does so is told of at once.         *)
DiscError ==
    \/ state = "INITIALIZING" /\ Nothing /\ initialized' = 2 /\ UNCHANGED gotInt5
    \/ /\ state # "INITIALIZING" /\ gotInt5 = 0
       /\ gotInt5' = 1
       /\ Send("REINIT", "Reset")
       /\ UNCHANGED <<initialized, sectors, transfers, dma, fetched>>
    \/ /\ state # "INITIALIZING" /\ gotInt5 = 1
       /\ gotInt5' = 0
       /\ Tell("IDLE", {"ERR"})
       /\ UNCHANGED initialized

Dispatch ==
    /\ isr = "verified"
    /\ isr' = "handled"
    /\ \/ cause = "DataReady" /\ DataReady
       \/ cause = "Complete" /\ Complete
       \/ cause = "Acknowledge" /\ Acknowledged
       \/ cause = "DiskError" /\ DiscError
    /\ why' = IF cause = "DiskError" THEN why \cup {"error"} ELSE why
    /\ UNCHANGED <<cause, dmaIstat, call, reader, goal, result, silenced, bounds>>

IOHandler ==
    /\ isr = "handled"
    /\ isr' = "none" /\ cause' = "none"
    /\ ClearIstat
    /\ UNCHANGED <<machine, delivered, channel, call, reader, history, bounds>>

(* cdromDMAVerifier and cdromDMAHandler *)
LastTransfer == transfers' = 0

DMAInterrupt ==
    /\ isr = "none" /\ dmaIstat = 1
    /\ dmaIstat' = 0
    /\ transfers' = transfers - 1
    /\ Deliver(IF LastTransfer THEN {"ACK"} ELSE {})
    /\ UNCHANGED <<cd, state, gotInt5, initialized, sectors, handler, dma, call, reader,
                   history, bounds>>

Handler == Verify \/ Dispatch \/ IOHandler \/ DMAInterrupt

-----------------------------------------------------------------------------
(* A transfer ends 512 cycles after it began: before anything else happens. *)
TransferEnds ==
    /\ dma = 1
    /\ dma' = 0 /\ dmaIstat' = 1
    /\ UNCHANGED <<cd, machine, delivered, handler, call, reader, history, bounds>>

(* A response is handled before another one is ready, and the program gets  *)
(* from one instruction to the next before a command is answered, unless an *)
(* interrupt holds it up.                                                   *)
Timely ==
    /\ isr = "none" /\ istat = 0 /\ dma = 0 /\ dmaIstat = 0
    /\ call = "sought" => "preempted" \in Hurry

Event(e) ==
    /\ Timely
    /\ e
    /\ UNCHANGED <<machine, delivered, handler, channel, call, reader, goal, fetched, result,
                   why, moves>>

Responses == Event(Interrupt) /\ UNCHANGED <<errors, silenced>>
Sector ==
    /\ Event(ReadInterrupt)
    /\ errors' = IF stat' = "DiskError" THEN errors + 1 ELSE errors
    /\ errors' <= Errors
    /\ UNCHANGED silenced
SeekOver == Event(PlayInterrupt) /\ UNCHANGED <<errors, silenced>>

(* Opening the lid stops a read, and nothing tells the guest. *)
Silences == silenced' = IF reading = 1 /\ reading' = 0 THEN 1 ELSE silenced
LidEvent == Event(LidSeekInterrupt) /\ Silences /\ UNCHANGED errors

Lid ==
    /\ moves < Moves /\ moves' = moves + 1
    /\ \E l \in {"open", "closed"} \ {lid} : MoveLid(l)
    /\ Silences
    /\ UNCHANGED <<machine, delivered, handler, channel, call, reader, goal, fetched, result,
                   why, errors>>

OpenBiosNext ==
    \/ Starts \/ GoesOn \/ GiveUp
    \/ Handler \/ TransferEnds
    \/ Responses \/ Sector \/ SeekOver \/ LidEvent
    \/ Lid

OpenBiosSpec == OpenBiosInit /\ [][OpenBiosNext]_vars

(* Programs and interrupts go on, and an event that is due fires as soon as *)
(* no interrupt is handled.  The end of a Reset does not fall between two   *)
(* tries of cdromInnerInit, a few instructions of 30000 rounds, every time. *)
ResetOver == Responses /\ irq' = "none" /\ call = "initializing"

Fairness ==
    /\ WF_vars(GoesOn) /\ WF_vars(Handler) /\ WF_vars(TransferEnds)
    /\ SF_vars(Responses) /\ SF_vars(Sector) /\ SF_vars(SeekOver) /\ SF_vars(LidEvent)
    /\ SF_vars(ResetOver)

OpenBiosFairSpec == OpenBiosSpec /\ Fairness

-----------------------------------------------------------------------------
OpenBiosTypeOK ==
    /\ TypeOK
    /\ state \in States /\ gotInt5 \in Bit /\ initialized \in 0 .. 2
    /\ sectors \in -2 .. Count /\ transfers \in 0 .. Count
    /\ delivered \subseteq Opened
    /\ isr \in {"none", "verified", "handled"} /\ cause \in Causes \cup {"none"}
    /\ dma \in Bit /\ dmaIstat \in Bit
    /\ call \in Calls /\ want \in 0 .. Count /\ tries \in 0 .. Retries
    /\ goal \in 0 .. Count /\ fetched \in 0 .. Count /\ result \in {"none", "done", "failed"}
    /\ why \subseteq {"busy", "error"} /\ silenced \in Bit
    /\ errors \in 0 .. Errors /\ moves \in 0 .. Moves

(* A response is due, or still to be dispatched. *)
Comes == irq # "none" \/ stat # "none" \/ isr = "verified"

(* What the driver waits for is on its way: a response, the end of a seek,  *)
(* or the next sector, which only opening the lid keeps from coming.  And a *)
(* call that polls waits for a driver that is at work, or has been told.    *)
NobodyForgotten ==
    /\ state \notin {"IDLE", "INITIALIZING"} =>
          \/ Comes
          \/ state = "SEEKL" /\ seeked = "pending" /\ "PLAY" \in pending
          \/ state = "READ" /\ ("READ" \in pending \/ silenced = 1)
    /\ call \in {"seeking", "reading", "asking"} => state # "IDLE" \/ {"DNE", "ERR"} \cap delivered # {}
    /\ call = "initializing" => initialized # 0 \/ Comes

(* A program that is told of the end of an operation finds the driver ready *)
(* for the next one: no event is left over from an earlier operation, or    *)
(* comes before its own is over.  No response waits without the interrupt   *)
(* that makes the driver see it, and no interrupt is taken without one; and *)
(* nobody waits for what nobody will do (statemachine.c, events.c, the      *)
(* polling of helpers.c:70).                                                *)
DriverSound ==
    /\ OpenBiosTypeOK
    /\ {"DNE", "ERR"} \cap delivered # {} => state = "IDLE"
    /\ stat # "none" => istat = 1
    /\ isr = "none" /\ istat = 1 => stat # "none"
    /\ NobodyForgotten

(* When cdromBlockReading is told that its read is done, or a program that  *)
(* its transfers are, every sector has arrived, also after errors.          *)
ReadsWhole ==
    /\ call = "reading" /\ "DNE" \in delivered => fetched = want /\ transfers = 0
    /\ "ACK" \in delivered => fetched = goal /\ sectors = 0

(* A call fails only because of a disc error or a call that did not wait.   *)
FailsForCause == result = "failed" => why # {}

(* Every call ends, the initialisation with all its time-outs, too, and the *)
(* driver gets ready again after whatever it was asked to do, if the lid    *)
(* stays closed in the end and its opening did not stop a read.             *)
CallsEnd ==
    <>[](lid = "closed") =>
        /\ call # "program" ~> call = "program" \/ silenced = 1
        /\ state # "IDLE" ~> state = "IDLE" \/ silenced = 1
=============================================================================
