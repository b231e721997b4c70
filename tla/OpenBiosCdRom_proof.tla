------------------------- MODULE OpenBiosCdRom_proof -------------------------
(***************************************************************************)
(* Theorems about OpenBIOS's CD-ROM driver, for any number of sectors,     *)
(* tries and errors, and whatever the lid does, as long as the program is  *)
(* not held up between a command and the state that goes with it.          *)
(***************************************************************************)
EXTENDS OpenBiosCdRom, CdRom_proof

OwnTypes ==
    /\ state \in States /\ gotInt5 \in Bit /\ initialized \in 0 .. 2
    /\ sectors \in -2 .. Count /\ transfers \in 0 .. Count
    /\ delivered \subseteq Opened
    /\ isr \in {"none", "verified", "handled"} /\ cause \in Causes \cup {"none"}
    /\ dma \in Bit /\ dmaIstat \in Bit
    /\ call \in Calls /\ want \in 0 .. Count /\ tries \in 0 .. Retries
    /\ goal \in 0 .. Count /\ fetched \in 0 .. Count /\ result \in {"none", "done", "failed"}
    /\ why \subseteq {"busy", "error"} /\ silenced \in Bit
    /\ errors \in 0 .. Errors /\ moves \in 0 .. Moves

(* The response that is still to be dispatched *)
Coming == IF isr = "verified" THEN cause ELSE stat

(* An interrupt waits for each response, and comes when nothing else goes on *)
Interrupting ==
    /\ mask = 1
    /\ stat # "none" => istat = 1
    /\ isr = "none" => cause = "none" /\ (istat = 1 => stat # "none")
    /\ isr # "none" => istat = 1 /\ stat = "none"
    /\ isr = "verified" => cause # "none"
    /\ istat = 1 /\ isr # "handled" => dma = 0 /\ dmaIstat = 0
    /\ dma = 0 \/ dmaIstat = 0
    /\ dma = 1 \/ dmaIstat = 1 => state \in {"READ", "PAUSING"}

(* The commands that may be due in each state.  One that was repeated is    *)
(* acknowledged and still due, so that it may be left over when the         *)
(* operation is complete.                                                   *)
DueIn(s, c) ==
    \/ s = "IDLE" /\ c \in {"Reset", "Setmode", "Getstat"}
    \/ s \in {"SETMODE", "READ_SETMODE"} /\ c = "Setmode"
    \/ s = "GETSTATUS" /\ c = "Getstat"
    \/ s = "SEEKL_SETLOC" /\ c = "Setloc"
    \/ s = "SEEKL" /\ c = "Seek"
    \/ s = "READ" /\ c = "Read"
    \/ s = "PAUSING" /\ c = "Pause"
    \/ s \in {"INITIALIZING", "REINIT"} /\ c = "Reset"

(* The events that tell of the end of an operation *)
Ends == {"DNE", "ERR"} \cap delivered

(* What the controller may answer in each state: the end of a seek or of a  *)
(* command never while a read is being set up or goes on, and no error once *)
(* an operation is told to be over.                                         *)
Answers ==
    /\ irq # "none" => DueIn(state, irq) \/ (call = "sought" /\ irq = "Setloc")
    /\ part = 2 => irq \in {"Pause", "Reset"}
    /\ reading = 1 => state = "READ"
    /\ seeked = "pending" => state \in {"SEEKL_SETLOC", "SEEKL"} \/ call \in {"boot", "init", "sought"}
    /\ Coming = "Complete" => /\ irq = "none"
                              /\ state \notin {"READ_SETMODE", "READ", "SEEKL_SETLOC"}
                              /\ state = "SEEKL" => seeked = "done"
    /\ state = "SEEKL_SETLOC" => irq # "none" \/ Coming \in {"Acknowledge", "DiskError"}
    /\ state = "REINIT" /\ Coming = "DiskError" => irq = "none"
    /\ state = "IDLE" /\ (irq = "Reset" \/ Coming = "DiskError") => Ends = {}
    /\ gotInt5 = 1 <=> state = "REINIT"
    /\ Ends # {} => state = "IDLE"

(* How far initCDRom is: it starts over only when no operation was begun *)
Booted ==
    /\ call \in {"boot", "init", "initializing", "delay"} => state \in {"IDLE", "INITIALIZING", "REINIT"}
    /\ call \in {"boot", "init"} \/ (call = "initializing" /\ initialized # 1) =>
          /\ Ends = {} /\ irq \in {"none", "Reset"} /\ reading = 0
          /\ \/ state = "INITIALIZING"
             \/ /\ state = "IDLE" /\ irq = "none" /\ Coming # "DiskError"
                /\ call = "boot" \/ (call = "init" /\ initialized = 1)
    /\ initialized = 1 => state # "INITIALIZING"
    /\ state = "INITIALIZING" => call \in {"boot", "init", "initializing"}
    /\ call = "sought" => /\ state = "IDLE" /\ isr = "none" /\ istat = 0 /\ dma = 0 /\ dmaIstat = 0
                          /\ Ends = {} /\ irq = "Setloc"

(* The sectors that are still to come, those that were copied, and the      *)
(* transfers still to be counted                                            *)
Accounts ==
    /\ fetched <= goal
    /\ state = "READ_SETMODE" => sectors = goal /\ transfers = goal /\ fetched = 0 /\ goal > 0
    /\ state = "READ" => sectors = goal - fetched /\ sectors > 0 /\ transfers = sectors + dma + dmaIstat
    /\ state = "PAUSING" => sectors = 0 /\ fetched = goal /\ transfers = dma + dmaIstat
    /\ call \in {"seekl", "sought", "seeking", "read", "reading"} => want > 0 /\ tries > 0
    /\ call = "reading" => want = goal /\ state \in {"READ_SETMODE", "READ", "PAUSING", "REINIT", "IDLE"}

(* An error that a call will be told of, and a driver that a call finds busy *)
Caused ==
    /\ call \in {"sought", "seeking", "read", "reading", "asking"} /\ (state = "REINIT" \/ "ERR" \in delivered)
          => why # {}
    /\ call \in {"seekl", "read"} => state = "IDLE" \/ why # {}

OInv == /\ IInv /\ OwnTypes
        /\ Interrupting /\ Answers /\ Booted /\ Accounts /\ ReadsWhole /\ Caused /\ FailsForCause

(* The driver's parts of the invariant *)
Sound == Interrupting /\ Answers /\ Booted /\ Accounts /\ ReadsWhole /\ Caused /\ FailsForCause

LEMMA OpenBiosInitRight == OpenBiosInit => OInv
<1> SUFFICES ASSUME OpenBiosInit PROVE OInv
  OBVIOUS
<1>1. IInv
  BY InitRight DEF OpenBiosInit
<1>2. OwnTypes
  BY OpenBiosAssumption DEF OpenBiosInit, OwnTypes, States, Calls, Opened, Causes, Bit
<1>3. Interrupting /\ Booted
  BY DEF OpenBiosInit, Init, Interrupting, Booted, Ends, Coming
<1>4. Answers
  BY DEF OpenBiosInit, Init, Answers, Ends, Coming
<1>5. Accounts /\ ReadsWhole /\ Caused /\ FailsForCause
  BY DEF OpenBiosInit, Accounts, ReadsWhole, Caused, FailsForCause
<1> QED
  BY <1>1, <1>2, <1>3, <1>4, <1>5 DEF OInv

-----------------------------------------------------------------------------
(* The controller *)

(* The commands of the driver *)
DriverCommands == {"Getstat", "Setloc", "Read", "Pause", "Reset", "Setmode", "Seek"}

(* What a command does to what the driver sees *)
Sends(c) ==
    /\ irq' = c /\ (part' = 1 \/ (irq = c /\ part' = part))
    /\ UNCHANGED <<stat, mask, istat>>
    /\ reading' = 1 => reading = 1 /\ c \notin {"Read", "Pause", "Reset"}
    /\ seeked' = "pending" => c # "Reset" /\ (c = "Setloc" \/ seeked = "pending")

LEMMA CommandSends ==
    ASSUME IInv, NEW c \in DriverCommands, NEW far, NEW m \in SUBSET Modes, WriteCommand(c, far, m)
    PROVE  IInv' /\ Sends(c)
<1>1. c \in Commands
  BY OpenBiosAssumption DEF DriverCommands
<1>2. IInv'
  BY <1>1, WriteRight
<1>3. irq' = c /\ (part' = 1 \/ (irq = c /\ part' = part)) /\ UNCHANGED <<stat, mask, istat>>
  BY DEF WriteCommand, AddIrqQueue, IrqOf, DriverCommands, answer
<1>4. reading' = 1 => reading = 1 /\ c \notin {"Read", "Pause", "Reset"}
  BY DEF WriteCommand, StopAtOnce
<1>5. seeked' = "pending" => c # "Reset" /\ (c = "Setloc" \/ seeked = "pending")
  BY DEF WriteCommand, DriverCommands
<1> QED
  BY <1>2, <1>3, <1>4, <1>5 DEF Sends

(* What an event does to it, when no response waits *)
Hears ==
    /\ mask' = mask /\ (istat' = 1 <=> stat' # "none") /\ istat' \in Bit
    /\ irq' \in {irq, "none"}
    /\ part' = 2 => irq' = irq /\ (part = 2 \/ irq \notin {"none", "Getstat", "Setloc", "Read", "Setmode", "Seek"})
    /\ reading' = 1 => reading = 1 \/ irq = "Read"
    /\ seeked' = "pending" => seeked = "pending" \/ irq = "Seek"
    /\ stat' = "Complete" =>
          /\ irq' = "none"
          /\ irq = "none" => seeked = "pending" /\ seeked' = "done"
          /\ irq # "none" => part = 2 \/ irq \notin DriverCommands
    /\ stat' = "DiskError" =>
          \/ reading = 1
          \/ irq \notin {"none", "Setmode", "Getstat"} /\ (irq = "Reset" => irq' = "none")
    /\ irq' # irq => stat' \in {"Acknowledge", "Complete", "DiskError"}

LEMMA ResponseHeard ==
    ASSUME IInv, mask = 1, stat = "none", istat = 0, Interrupt,
           part = 2 => irq \notin {"Setmode", "Getstat"}
    PROVE  Hears
<1>1. \A s \in Causes : SetIrq(s) => mask' = mask /\ stat' = s /\ istat' = 1 /\ s # "none"
  BY DEF SetIrq, Causes
<1>2. part \in 1 .. 2 /\ (irq # "none" <=> "CDR" \in pending)
  BY OpenBiosAssumption DEF IInv, TypeOK, CommandDue
<1>3. CASE RepeatCommand
  <2>1. SetIrq("Acknowledge") /\ UNCHANGED <<irq, part, reading, seeked>> /\ "Acknowledge" \in Causes
    BY <1>3 DEF RepeatCommand, disc, Causes
  <2>2. irq \notin {"none"}
    BY <1>2, <1>3 DEF RepeatCommand
  <2>3. part = 2 => part' = 2
    BY <2>1
  <2> QED
    BY <1>1, <2>1, <2>2 DEF Hears, Bit
<1>4. ASSUME NEW c \in Commands, NEW bad, Answered(c, bad),
             seeked' = "pending" => seeked = "pending" \/ c = "Seek",
             reading' = 1 => reading = 1 \/ c = "Read"
      PROVE  Hears
  <2>1. /\ irq = c /\ part = 1 /\ irq' = "none" /\ part' = 1 /\ SetIrq(Response(c, 1, DriveAfter(c), bad))
    BY <1>4, OpenBiosAssumption DEF Answered, Respond, IrqOf, Done
  <2>2. Response(c, 1, DriveAfter(c), bad) \in {"Acknowledge", "Complete", "DiskError"}
    BY DEF Response
  <2>3. Response(c, 1, DriveAfter(c), bad) = "Complete" => c = "Forward"
    BY DEF Response
  <2>4. Response(c, 1, DriveAfter(c), bad) = "DiskError" => c \notin {"Setmode", "Getstat"}
    BY DEF Response, Fails, NoBusyError
  <2>5. c # "none"
    BY NoCommand
  <2>6. {"Acknowledge", "Complete", "DiskError"} \subseteq Causes
    BY DEF Causes
  <2>7. mask' = mask /\ stat' = Response(c, 1, DriveAfter(c), bad) /\ istat' = 1
    BY <1>1, <2>1, <2>2, <2>6
  <2> QED
    BY <1>4, <2>1, <2>2, <2>3, <2>4, <2>5, <2>7 DEF Hears, Bit, DriverCommands
<1>5. ASSUME NEW c \in Commands, NEW bad, AnswerFirst(c, bad) PROVE Hears
  <2>1. /\ irq = c /\ part = 1 /\ irq' = c /\ part' = 2 /\ SetIrq(Response(c, 1, DriveAfter(c), bad))
        /\ seeked' = seeked /\ (reading' = 1 => reading = 1) /\ Twice(c)
    BY <1>5, OpenBiosAssumption DEF AnswerFirst, Respond, IrqOf, Second
  <2>2. Response(c, 1, DriveAfter(c), bad) \in {"Acknowledge", "DiskError"}
    BY <2>1 DEF Response, Twice
  <2>3. c \notin {"Getstat", "Setloc", "Read", "Setmode", "Seek", "none"}
    BY <2>1 DEF Twice
  <2>4. c = "Reset" => Response(c, 1, DriveAfter(c), bad) = "Acknowledge"
    BY DEF Response, Fails, NoBusyError
  <2>5. {"Acknowledge", "DiskError"} \subseteq Causes
    BY DEF Causes
  <2>7. mask' = mask /\ stat' = Response(c, 1, DriveAfter(c), bad) /\ istat' = 1
    BY <1>1, <2>1, <2>2, <2>5
  <2> QED
    BY <2>1, <2>2, <2>3, <2>4, <2>7 DEF Hears, Bit
<1>6. ASSUME NEW c \in Commands, NEW bad, AnswerSecond(c, bad) PROVE Hears
  <2>1. /\ irq = c /\ part = 2 /\ irq' = "none" /\ part' = 1 /\ SetIrq(Response(c, 2, drive, bad))
        /\ seeked' = seeked /\ reading' = reading
    BY <1>6, OpenBiosAssumption DEF AnswerSecond, Respond, IrqOf, Done, disc
  <2>2. Response(c, 2, drive, bad) \in {"Complete", "DiskError"}
    BY DEF Response
  <2>3. c \notin {"none", "Setmode", "Getstat"}
    BY <2>1, NoCommand
  <2>5. {"Complete", "DiskError"} \subseteq Causes
    BY DEF Causes
  <2>7. mask' = mask /\ stat' = Response(c, 2, drive, bad) /\ istat' = 1
    BY <1>1, <2>1, <2>2, <2>5
  <2> QED
    BY <2>1, <2>2, <2>3, <2>7 DEF Hears, Bit
<1>7. ASSUME NEW c \in Commands, NEW bad,
             \/ AnswerPlain(c, bad) \/ AnswerPlay(c, bad) \/ AnswerRead(c, bad)
             \/ AnswerSeek(c, bad) \/ AnswerInit(c, bad)
      PROVE  Hears
  BY <1>4, <1>7 DEF AnswerPlain, AnswerPlay, AnswerRead, AnswerSeek, AnswerInit
<1> QED
  BY <1>3, <1>5, <1>6, <1>7 DEF Interrupt

LEMMA SectorHeard ==
    ASSUME mask = 1, stat = "none", istat = 0, ReadInterrupt
    PROVE  Hears
<1>1. UNCHANGED host /\ reading = 1 /\ reading' = reading /\ seeked' = "done"
  BY DEF ReadInterrupt, PutOffRead, ReadSector, ReadFails, MayRead, host
<1>2. \E s \in {"DataReady", "DiskError", "none"} : SetIrq(s)
  BY DEF ReadInterrupt, PutOffRead, ReadSector, ReadFails, MayRead
<1>3. mask' = mask /\ (istat' = 1 <=> stat' # "none") /\ istat' \in Bit /\ stat' # "Complete"
  BY <1>2 DEF SetIrq, Bit
<1> QED
  BY <1>1, <1>3 DEF Hears, host

LEMMA SeekHeard ==
    ASSUME mask = 1, stat = "none", istat = 0, PlayInterrupt
    PROVE  Hears
<1>1. PICK s : /\ PlayEnd(s)
               /\ s = "Complete" => seeked = "pending" /\ irq = "none"
               /\ s # "DiskError"
  BY DEF PlayInterrupt, PlayNothing, PlayAudio, SeekEnds, AudioTells
<1>2. UNCHANGED host /\ reading' = reading /\ seeked' = "done"
  BY <1>1 DEF PlayEnd
<1>3. mask' = mask /\ stat' = s /\ (istat' = 1 <=> stat' # "none") /\ istat' \in Bit
  BY <1>1 DEF PlayEnd, SetIrq, Bit, answer
<1> QED
  BY <1>1, <1>2, <1>3 DEF Hears, host

LEMMA LidHeard ==
    ASSUME reading \in Bit, NEW e, NEW p, LidSeek(e, p), UNCHANGED <<host, answer, seeked>>
    PROVE  UNCHANGED <<irq, part, stat, mask, istat, seeked>> /\ reading' \in {reading, 0}
BY DEF LidSeek, host, answer

-----------------------------------------------------------------------------
(* What an event makes of the driver's parts: nothing that a state cannot   *)
(* take, because each command that is due is one of its own.                *)
DriverVars == <<machine, delivered, handler, channel, call, reader, goal, fetched, result, why>>

LEMMA HeardRight ==
    ASSUME OInv, Hurry = {}, Timely, Hears, UNCHANGED DriverVars, reading' \in Bit
    PROVE  Sound'
<1>0. /\ isr = "none" /\ istat = 0 /\ dma = 0 /\ dmaIstat = 0 /\ call # "sought"
      /\ stat = "none" /\ mask = 1 /\ cause = "none" /\ Coming = "none"
  BY DEF Timely, OInv, Interrupting, Coming
<1>1. UNCHANGED <<state, gotInt5, initialized, sectors, transfers, delivered, isr, cause, dma,
                  dmaIstat, call, want, tries, goal, fetched, result, why>>
  BY DEF DriverVars, machine, handler, channel, reader
<1>2. Interrupting'
  BY <1>0, <1>1 DEF Interrupting, Hears
<1>3. irq # "none" => DueIn(state, irq)
  BY <1>0 DEF OInv, Answers
<1>4. Coming' = stat'
  BY <1>0, <1>1 DEF Coming
<1>5. Ends' = Ends
  BY <1>1 DEF Ends
<1>6. stat' = "Complete" => /\ irq' = "none"
                            /\ state \notin {"READ_SETMODE", "READ", "SEEKL_SETLOC"}
                            /\ state = "SEEKL" => seeked' = "done"
  <2> SUFFICES ASSUME stat' = "Complete"
               PROVE  /\ irq' = "none"
                      /\ state \notin {"READ_SETMODE", "READ", "SEEKL_SETLOC"}
                      /\ state = "SEEKL" => seeked' = "done"
    OBVIOUS
  <2>1. irq' = "none"
    BY DEF Hears
  <2>2. CASE irq = "none"
    <3>1. seeked = "pending" /\ seeked' = "done"
      BY <2>2 DEF Hears
    <3>2. state \in {"SEEKL_SETLOC", "SEEKL"} \/ call \in {"boot", "init"}
      BY <3>1, <1>0 DEF OInv, Answers
    <3>3. state # "SEEKL_SETLOC"
      BY <2>2, <1>0 DEF OInv, Answers
    <3>4. call \in {"boot", "init"} => state \in {"IDLE", "INITIALIZING", "REINIT"}
      BY DEF OInv, Booted
    <3> QED
      BY <2>1, <3>1, <3>2, <3>3, <3>4
  <2>3. CASE irq # "none"
    <3>1. irq \in {"Pause", "Reset"}
      BY <2>3, <1>3 DEF Hears, OInv, Answers, DueIn, DriverCommands
    <3> QED
      BY <2>1, <2>3, <3>1, <1>3 DEF DueIn
  <2> QED
    BY <2>2, <2>3
<1>7. Answers'
  <2>1. irq' # "none" => DueIn(state', irq') \/ (call' = "sought" /\ irq' = "Setloc")
    BY <1>1, <1>3 DEF Hears
  <2>2. part' = 2 => irq' \in {"Pause", "Reset"}
    BY <1>3 DEF Hears, OInv, Answers, DueIn
  <2>3. reading' = 1 => state' = "READ"
    BY <1>1, <1>3 DEF Hears, OInv, Answers, DueIn
  <2>4. seeked' = "pending" => state' \in {"SEEKL_SETLOC", "SEEKL"} \/ call' \in {"boot", "init", "sought"}
    BY <1>1, <1>3 DEF Hears, OInv, Answers, DueIn
  <2>5. Coming' = "Complete" => /\ irq' = "none"
                                /\ state' \notin {"READ_SETMODE", "READ", "SEEKL_SETLOC"}
                                /\ state' = "SEEKL" => seeked' = "done"
    BY <1>1, <1>4, <1>6
  <2>6. state' = "SEEKL_SETLOC" => irq' # "none" \/ Coming' \in {"Acknowledge", "DiskError"}
    BY <1>0, <1>1, <1>4, <1>6 DEF Hears, OInv, Answers
  <2>7. state' = "REINIT" /\ Coming' = "DiskError" => irq' = "none"
    BY <1>1, <1>3, <1>4 DEF Hears, OInv, Answers, DueIn
  <2>8. state' = "IDLE" /\ (irq' = "Reset" \/ Coming' = "DiskError") => Ends' = {}
    BY <1>1, <1>3, <1>4, <1>5 DEF Hears, OInv, Answers, DueIn
  <2>9. (gotInt5' = 1 <=> state' = "REINIT") /\ (Ends' # {} => state' = "IDLE")
    BY <1>1, <1>5 DEF OInv, Answers
  <2> QED
    BY <2>1, <2>2, <2>3, <2>4, <2>5, <2>6, <2>7, <2>8, <2>9 DEF Answers
<1>8. Booted'
  <2>1. irq = "none" /\ reading = 0 => irq' = "none" /\ Coming' # "DiskError"
    BY <1>4 DEF Hears
  <2>2. irq \in {"none", "Reset"} /\ reading = 0 => irq' \in {"none", "Reset"} /\ reading' = 0
    BY DEF Hears, Bit
  <2> QED
    BY <1>0, <1>1, <1>5, <2>1, <2>2 DEF OInv, Booted
<1>9. Accounts' /\ ReadsWhole' /\ Caused' /\ FailsForCause'
  BY <1>1 DEF OInv, Accounts, ReadsWhole, Caused, FailsForCause
<1> QED
  BY <1>2, <1>7, <1>8, <1>9 DEF Sound

(* Every event leaves the invariant as it is, *)
LEMMA EventKeeps ==
    ASSUME OInv, Hurry = {}, NEW e, Event(e), Hears, IInv',
           errors' \in 0 .. Errors, silenced' \in Bit
    PROVE  OInv'
<1>1. Timely /\ UNCHANGED DriverVars /\ moves' = moves
  BY DEF Event, DriverVars
<1>2. reading' \in Bit
  BY DEF IInv, TypeOK
<1>3. Sound'
  BY <1>1, <1>2, HeardRight
<1>4. OwnTypes'
  BY <1>1 DEF OInv, OwnTypes, DriverVars, machine, handler, channel, reader
<1> QED
  BY <1>3, <1>4 DEF Sound, OInv

LEMMA EventRight ==
    ASSUME OInv, Hurry = {}, Responses \/ Sector \/ SeekOver \/ LidEvent
    PROVE  OInv'
<1>1. /\ mask = 1 /\ stat = "none" /\ istat = 0
      /\ errors \in 0 .. Errors /\ silenced \in Bit /\ IInv /\ reading \in Bit
  BY DEF Responses, Sector, SeekOver, LidEvent, Event, Timely, OInv, Interrupting, OwnTypes, IInv, TypeOK
<1>2. CASE Responses
  <2>1. Event(Interrupt) /\ Interrupt /\ UNCHANGED <<errors, silenced>>
    BY <1>2 DEF Responses, Event
  <2>2. Timely
    BY <2>1 DEF Event
  <2>3. part = 2 => irq \notin {"Setmode", "Getstat"}
    BY DEF OInv, Answers
  <2>4. Hears
    BY <1>1, <2>1, <2>3, ResponseHeard
  <2>5. IInv'
    BY <1>1, <2>1, StepRight DEF Next
  <2> QED
    BY <1>1, <2>1, <2>4, <2>5, EventKeeps
<1>3. CASE Sector
  <2>1. /\ Event(ReadInterrupt) /\ ReadInterrupt /\ silenced' = silenced
        /\ errors' \in {errors, errors + 1} /\ errors' <= Errors
    BY <1>3 DEF Sector, Event
  <2>2. Hears
    BY <1>1, <2>1, SectorHeard
  <2>3. IInv'
    BY <1>1, <2>1, StepRight DEF Next
  <2>4. errors' \in 0 .. Errors
    BY <1>1, <2>1, OpenBiosAssumption
  <2> QED
    BY <1>1, <2>1, <2>2, <2>3, <2>4, EventKeeps
<1>4. CASE SeekOver
  <2>1. Event(PlayInterrupt) /\ PlayInterrupt /\ UNCHANGED <<errors, silenced>>
    BY <1>4 DEF SeekOver, Event
  <2>2. Hears
    BY <1>1, <2>1, SeekHeard
  <2>3. IInv'
    BY <1>1, <2>1, StepRight DEF Next
  <2> QED
    BY <1>1, <2>1, <2>2, <2>3, EventKeeps
<1>5. CASE LidEvent
  <2>1. Event(LidSeekInterrupt) /\ LidSeekInterrupt /\ errors' = errors /\ silenced' \in {1, silenced}
    BY <1>5 DEF LidEvent, Event, Silences
  <2>2. UNCHANGED <<irq, part, stat, mask, istat, seeked>> /\ reading' \in {reading, 0}
    BY <1>1, <2>1, LidHeard DEF LidSeekInterrupt
  <2>3. Hears
    BY <1>1, <2>2 DEF Hears, Bit
  <2>4. IInv'
    BY <1>1, <2>1, StepRight DEF Next
  <2>5. silenced' \in Bit
    BY <1>1, <2>1 DEF Bit
  <2> QED
    BY <1>1, <2>1, <2>3, <2>4, <2>5, EventKeeps
<1> QED
  BY <1>2, <1>3, <1>4, <1>5

(* and so does the lid, at any time. *)
LEMMA LidMoveRight ==
    ASSUME OInv, Lid
    PROVE  OInv'
<1>1. PICK l \in {"open", "closed"} : MoveLid(l)
  BY DEF Lid
<1>2. IInv'
  BY <1>1, StepRight DEF Next, OInv
<1>3. UNCHANGED <<irq, part, stat, mask, istat, seeked>> /\ reading' \in {reading, 0}
  BY <1>1, LidHeard DEF MoveLid, OInv, IInv, TypeOK
<1>4. /\ UNCHANGED <<state, gotInt5, initialized, sectors, transfers, delivered, isr, cause, dma,
                     dmaIstat, call, want, tries, goal, fetched, result, why, errors>>
      /\ moves < Moves /\ moves' = moves + 1 /\ silenced' \in {1, silenced}
  BY DEF Lid, machine, handler, channel, reader, Silences
<1>5. Coming' = Coming /\ Ends' = Ends
  BY <1>3, <1>4 DEF Coming, Ends
<1>6. OwnTypes'
  <2>1. moves' \in 0 .. Moves
    BY <1>4, OpenBiosAssumption DEF OInv, OwnTypes
  <2>2. silenced' \in Bit
    BY <1>4 DEF OInv, OwnTypes, Bit
  <2> QED
    BY <2>1, <2>2, <1>4 DEF OInv, OwnTypes
<1>7. Interrupting'
  BY <1>3, <1>4 DEF OInv, Interrupting
<1>8. Answers' /\ Booted'
  BY <1>3, <1>4, <1>5 DEF OInv, Answers, Booted
<1>9. Accounts' /\ ReadsWhole' /\ Caused' /\ FailsForCause'
  BY <1>4 DEF OInv, Accounts, ReadsWhole, Caused, FailsForCause
<1> QED
  BY <1>2, <1>6, <1>7, <1>8, <1>9 DEF OInv

-----------------------------------------------------------------------------
(* The program.  What it leaves of the controller, when it writes nothing *)
LEMMA Unwritten ==
    ASSUME OInv, UNCHANGED cd
    PROVE  IInv' /\ UNCHANGED <<irq, part, stat, mask, istat, reading, seeked>>
BY DEF OInv, cd, host, answer, disc, motor, IInv, TypeOK, CommandDue, EventsRight,
       QuietWhileStopping, DriveGetsReady

(* The program finds nothing under way at the handlers. *)
LEMMA RunsQuiet ==
    ASSUME OInv, NEW where, Runs(where)
    PROVE  /\ call = where /\ isr = "none" /\ istat = 0 /\ dmaIstat = 0
           /\ stat = "none" /\ cause = "none" /\ mask = 1 /\ Coming = "none"
BY DEF OInv, Runs, Interrupting, Coming

LEMMA InitPrepared == ASSUME OInv, PrepareInit PROVE OInv'
<1>1. /\ call = "boot" /\ isr = "none" /\ istat = 0 /\ dmaIstat = 0 /\ stat = "none" /\ mask = 1
      /\ cause = "none" /\ Coming = "none"
  BY RunsQuiet DEF PrepareInit
<1>2. UNCHANGED cd
  BY <1>1 DEF PrepareInit, cd, answer
<1>3. IInv' /\ UNCHANGED <<irq, part, stat, mask, istat, reading, seeked>>
  BY <1>2, Unwritten
<1>4. UNCHANGED <<sectors, transfers, delivered, isr, cause, dma, dmaIstat, want, tries, goal,
                  fetched, result, why, silenced, errors, moves>>
  BY DEF PrepareInit, handler, channel, reader, history, bounds
<1>5. state' = "INITIALIZING" /\ gotInt5' = 0 /\ initialized' = 0 /\ call' = "init"
  BY DEF PrepareInit
<1>6. Coming' = Coming /\ Ends' = Ends
  BY <1>3, <1>4 DEF Coming, Ends
<1>7. OwnTypes'
  BY <1>4, <1>5 DEF OInv, OwnTypes, States, Calls, Bit
<1>8. Interrupting'
  BY <1>1, <1>3, <1>4, <1>5 DEF OInv, Interrupting, Booted
<1>9. Ends = {} /\ irq \in {"none", "Reset"} /\ reading = 0
  BY <1>1 DEF OInv, Booted
<1>10. Answers'
  BY <1>1, <1>3, <1>4, <1>5, <1>6, <1>9 DEF OInv, Answers, DueIn
<1>11. Booted'
  BY <1>1, <1>3, <1>4, <1>5, <1>6, <1>9 DEF OInv, Booted
<1>12. Accounts' /\ ReadsWhole' /\ Caused' /\ FailsForCause'
  BY <1>4, <1>5 DEF OInv, Accounts, ReadsWhole, Caused, FailsForCause
<1> QED
  BY <1>3, <1>7, <1>8, <1>10, <1>11, <1>12 DEF OInv

(* A step of the program that writes nothing, and may take events *)
LEMMA Reflects ==
    ASSUME OInv, UNCHANGED <<cd, machine, handler, channel>>, delivered' \subseteq delivered,
           call \notin {"boot", "init", "sought"}
    PROVE  IInv' /\ Interrupting' /\ Answers' /\ Coming' = Coming /\ Ends' \subseteq Ends
<1>1. UNCHANGED <<state, gotInt5, initialized, sectors, transfers, isr, cause, dma, dmaIstat>>
  BY DEF machine, handler, channel
<1>2. IInv' /\ UNCHANGED <<irq, part, stat, mask, istat, reading, seeked>>
  BY Unwritten
<1>3. Coming' = Coming /\ Ends' \subseteq Ends
  BY <1>1, <1>2 DEF Coming, Ends
<1>4. Interrupting'
  BY <1>1, <1>2 DEF OInv, Interrupting
<1>5. Answers'
  BY <1>1, <1>2, <1>3 DEF OInv, Answers
<1> QED
  BY <1>2, <1>3, <1>4, <1>5

(* One that follows the initialisation is no part of it. *)
LEMMA BootedAfter ==
    ASSUME OInv, UNCHANGED machine,
           call \notin {"boot", "init", "initializing", "sought"},
           call' \notin {"boot", "init", "initializing", "delay", "sought"}
    PROVE  Booted'
BY DEF OInv, Booted, machine

LEMMA InitSent == ASSUME OInv, SendInit PROVE OInv'
<1>1. /\ call = "init" /\ isr = "none" /\ istat = 0 /\ dmaIstat = 0 /\ stat = "none" /\ mask = 1
      /\ cause = "none" /\ Coming = "none"
  BY RunsQuiet DEF SendInit
<1>2. IInv' /\ Sends("Reset")
  BY CommandSends DEF SendInit, OInv, DriverCommands
<1>3. UNCHANGED <<state, gotInt5, initialized, sectors, transfers, delivered, isr, cause, dma,
                  dmaIstat, want, tries, goal, fetched, result, why, silenced, errors, moves>>
      /\ call' = "initializing"
  BY DEF SendInit, machine, handler, channel, reader, history, bounds
<1>4. Coming' = Coming /\ Ends' = Ends
  BY <1>2, <1>3 DEF Coming, Ends, Sends
<1>5. OwnTypes'
  BY <1>3 DEF OInv, OwnTypes, Calls
<1>6. Interrupting'
  BY <1>1, <1>2, <1>3 DEF OInv, Interrupting, Sends
<1>7. Ends = {} /\ state \in {"INITIALIZING", "IDLE"} /\ (initialized # 1 => state = "INITIALIZING")
  BY <1>1 DEF OInv, Booted
<1>8. reading' = 0 /\ irq' = "Reset" /\ seeked' # "pending"
  BY <1>2 DEF Sends, IInv, TypeOK, Bit
<1>9. Answers'
  BY <1>1, <1>3, <1>4, <1>7, <1>8 DEF OInv, Answers, DueIn
<1>10. Booted'
  BY <1>1, <1>3, <1>4, <1>7, <1>8 DEF OInv, Booted
<1>11. Accounts' /\ ReadsWhole' /\ Caused' /\ FailsForCause'
  BY <1>3 DEF OInv, Accounts, ReadsWhole, Caused, FailsForCause
<1> QED
  BY <1>2, <1>5, <1>6, <1>9, <1>10, <1>11 DEF OInv

LEMMA InitOver == ASSUME OInv, InitReturns \/ Delay PROVE OInv'
<1>1. call \in {"initializing", "delay"} /\ call' \in {"boot", "delay", "program"}
  BY DEF InitReturns, Delay, Runs
<1>2. UNCHANGED <<cd, machine, delivered, handler, channel, reader, history, bounds>>
  BY DEF InitReturns, Delay
<1>3. IInv' /\ Interrupting' /\ Answers' /\ Coming' = Coming
  BY <1>1, <1>2, Reflects
<1>4. UNCHANGED <<state, gotInt5, initialized, sectors, transfers, delivered, isr, cause, dma,
                  dmaIstat, want, tries, goal, fetched, result, why, silenced, errors, moves>>
  BY <1>2 DEF machine, handler, channel, reader, history, bounds
<1>5. OwnTypes'
  BY <1>1, <1>4 DEF OInv, OwnTypes, Calls
<1>6. UNCHANGED <<irq, reading>> /\ Ends' = Ends
  BY <1>2, <1>4, Unwritten DEF Ends
<1>7. Booted'
  BY <1>3, <1>4, <1>6 DEF InitReturns, Delay, Runs, OInv, Booted
<1>8. Accounts' /\ ReadsWhole' /\ Caused' /\ FailsForCause'
  BY <1>1, <1>4 DEF OInv, Accounts, ReadsWhole, Caused, FailsForCause
<1> QED
  BY <1>3, <1>5, <1>7, <1>8 DEF OInv

LEMMA BlockReadingRight == ASSUME OInv, NEW n \in 1 .. Count, BlockReading(n) PROVE OInv'
<1>1. /\ call = "program" /\ call' = "seekl" /\ want' = n /\ tries' = Retries /\ result' = "none"
      /\ why' \in {{}, {"busy"}} /\ (state # "IDLE" => why' # {})
  BY DEF BlockReading, Begin, Runs
<1>2. UNCHANGED <<cd, machine, delivered, goal, fetched, silenced, bounds, handler, channel>>
  BY DEF BlockReading, Begin
<1>3. IInv' /\ Interrupting' /\ Answers'
  BY <1>1, <1>2, Reflects
<1>4. UNCHANGED <<state, gotInt5, initialized, sectors, transfers, isr, cause, dma, dmaIstat, errors, moves>>
  BY <1>2 DEF machine, handler, channel, bounds
<1>5. OwnTypes'
  BY <1>1, <1>2, <1>4, OpenBiosAssumption DEF OInv, OwnTypes, Calls
<1>6. Booted'
  BY <1>1, <1>2, BootedAfter
<1>7. Accounts'
  BY <1>1, <1>2, <1>4, OpenBiosAssumption DEF OInv, Accounts
<1>8. ReadsWhole' /\ Caused' /\ FailsForCause'
  BY <1>1, <1>2, <1>4 DEF OInv, ReadsWhole, Caused, FailsForCause
<1> QED
  BY <1>3, <1>5, <1>6, <1>7, <1>8 DEF OInv

LEMMA SeekRight == ASSUME OInv, SeekL PROVE OInv'
<1>1. /\ call = "seekl" /\ isr = "none" /\ istat = 0 /\ dmaIstat = 0 /\ stat = "none" /\ mask = 1
      /\ cause = "none" /\ Coming = "none"
  BY RunsQuiet DEF SeekL
<1>2. state = "IDLE" /\ dma = 0
  BY DEF SeekL, OInv, Interrupting, OwnTypes, Bit
<1>3. IInv' /\ Sends("Setloc")
  <2>1. PICK far \in {"yes", "no"} : WriteCommand("Setloc", far, {})
    BY DEF SeekL
  <2> QED
    BY <2>1, CommandSends DEF OInv, DriverCommands
<1>4. UNCHANGED <<state, gotInt5, initialized, sectors, transfers, isr, cause, dma,
                  dmaIstat, want, tries, goal, fetched, result, why, silenced, errors, moves>>
      /\ call' = "sought" /\ delivered' = delivered \ {"DNE", "ERR"}
  BY DEF SeekL, machine, handler, channel, reader, history, bounds, UndeliveredBySeek
<1>5. Coming' = Coming /\ Ends' = {}
  BY <1>3, <1>4 DEF Coming, Ends, Sends
<1>6. OwnTypes'
  BY <1>4 DEF OInv, OwnTypes, Calls
<1>7. Interrupting'
  BY <1>1, <1>3, <1>4 DEF OInv, Interrupting, Sends
<1>8. irq' = "Setloc" /\ part' # 2 /\ reading' # 1 /\ istat' = 0
  BY <1>1, <1>2, <1>3 DEF OInv, Answers, Sends
<1>9. Answers'
  BY <1>1, <1>2, <1>4, <1>5, <1>8 DEF OInv, Answers
<1>10. Booted'
  BY <1>1, <1>2, <1>4, <1>5, <1>8 DEF OInv, Booted
<1>11. Accounts' /\ ReadsWhole' /\ Caused' /\ FailsForCause'
  BY <1>1, <1>2, <1>4 DEF OInv, Accounts, ReadsWhole, Caused, FailsForCause
<1> QED
  BY <1>3, <1>6, <1>7, <1>9, <1>10, <1>11 DEF OInv

LEMMA SeekStateRight == ASSUME OInv, SetSeekState PROVE OInv'
<1>1. /\ call = "sought" /\ isr = "none" /\ istat = 0 /\ dmaIstat = 0 /\ stat = "none" /\ mask = 1
      /\ cause = "none" /\ Coming = "none"
  BY RunsQuiet DEF SetSeekState
<1>2. state = "IDLE" /\ dma = 0 /\ Ends = {} /\ irq = "Setloc"
  BY <1>1 DEF OInv, Booted
<1>3. IInv' /\ UNCHANGED <<irq, part, stat, mask, istat, reading, seeked>>
  BY Unwritten DEF SetSeekState
<1>4. UNCHANGED <<gotInt5, initialized, sectors, transfers, delivered, isr, cause, dma,
                  dmaIstat, want, tries, goal, fetched, result, why, silenced, errors, moves>>
      /\ call' = "seeking" /\ state' = "SEEKL_SETLOC"
  BY DEF SetSeekState, handler, channel, reader, history, bounds
<1>5. Coming' = Coming /\ Ends' = Ends
  BY <1>3, <1>4 DEF Coming, Ends
<1>6. OwnTypes'
  BY <1>4 DEF OInv, OwnTypes, Calls, States
<1>7. Interrupting'
  BY <1>1, <1>2, <1>3, <1>4 DEF OInv, Interrupting
<1>8. Answers'
  BY <1>1, <1>2, <1>3, <1>4, <1>5 DEF OInv, Answers, DueIn
<1>9. Booted'
  BY <1>1, <1>4 DEF OInv, Booted
<1>10. Accounts' /\ ReadsWhole' /\ Caused' /\ FailsForCause'
  BY <1>1, <1>2, <1>4 DEF OInv, Accounts, ReadsWhole, Caused, FailsForCause
<1> QED
  BY <1>3, <1>6, <1>7, <1>8, <1>9, <1>10 DEF OInv

(* The calls that poll an event, or look whether there is one *)
LEMMA PolledRight ==
    ASSUME OInv, Sought \/ ReadReturns \/ StatusReturns \/ GiveUp \/ \E e \in Opened : TestEvent(e)
    PROVE  OInv'
<1>1. /\ UNCHANGED <<cd, machine, handler, channel, want, goal, fetched, why, silenced, bounds>>
      /\ delivered' \subseteq delivered
  BY DEF Sought, ReadReturns, StatusReturns, GiveUp, TestEvent, Polled, reader, history
<1>2. /\ call \in {"seekl", "seeking", "read", "reading", "asking", "program"}
      /\ call' \in {"seekl", "read", "program"}
  BY DEF Sought, ReadReturns, StatusReturns, GiveUp, TestEvent, Runs, Return
<1>3. IInv' /\ Interrupting' /\ Answers'
  BY <1>1, <1>2, Reflects
<1>4. Booted'
  BY <1>1, <1>2, BootedAfter
<1>5. UNCHANGED <<state, gotInt5, initialized, sectors, transfers, isr, cause, dma, dmaIstat, errors, moves>>
  BY <1>1 DEF machine, handler, channel, bounds
<1>6. \/ tries' = tries
      \/ tries' = tries - 1 /\ call = "reading" /\ call' # "read" /\ (call' = "seekl" => tries > 1)
  BY DEF Sought, ReadReturns, StatusReturns, GiveUp, TestEvent, reader, Runs, Return
<1>7. call' \in {"seekl", "read"} => call \in {"seeking", "reading"} /\ Ends # {}
  BY DEF Sought, ReadReturns, StatusReturns, GiveUp, TestEvent, Runs, Return, Polled, Ends
<1>8. /\ result' \in {result, "done", "failed"}
      /\ result' = "failed" /\ result # "failed" =>
            \/ call \in {"seeking", "reading", "asking"} /\ "ERR" \in delivered
            \/ call \in {"seekl", "read"} /\ state # "IDLE"
  BY DEF Sought, ReadReturns, StatusReturns, GiveUp, TestEvent, Runs, Return, Polled, history
<1>9. tries' \in 0 .. Retries /\ (call' \in {"seekl", "read"} => tries' > 0)
  <2>1. tries \in 0 .. Retries /\ Retries \in Nat /\ (call \in {"seeking", "reading"} => tries > 0)
    BY OpenBiosAssumption DEF OInv, OwnTypes, Accounts
  <2> QED
    BY <1>2, <1>6, <1>7, <2>1
<1>10. OwnTypes'
  BY <1>1, <1>2, <1>5, <1>8, <1>9 DEF OInv, OwnTypes, Calls
<1>11. Accounts'
  BY <1>1, <1>2, <1>5, <1>7, <1>9 DEF OInv, Accounts
<1>12. ReadsWhole'
  BY <1>1, <1>2, <1>5 DEF OInv, ReadsWhole
<1>13. Caused'
  BY <1>1, <1>2, <1>5, <1>7 DEF OInv, Answers, Caused
<1>14. FailsForCause'
  BY <1>1, <1>8 DEF OInv, Caused, FailsForCause
<1> QED
  BY <1>3, <1>4, <1>10, <1>11, <1>12, <1>13, <1>14 DEF OInv

(* The calls that begin an operation of the driver *)
LEMMA OperationBegins ==
    ASSUME OInv, state = "IDLE", NEW where \in {"read", "program"}, Runs(where),
           NEW c \in {"Setmode", "Getstat"}, NEW m \in SUBSET Modes, WriteCommand(c, "no", m),
           state' \in {"READ_SETMODE", "SETMODE", "GETSTATUS"}, DueIn(state', c),
           delivered' = {}, UNCHANGED <<gotInt5, initialized, handler, channel>>,
           call' \in {"reading", "asking", "program"}
    PROVE  IInv' /\ Interrupting' /\ Answers' /\ Booted' /\ dma = 0 /\ dmaIstat = 0
<1>1. /\ call = where /\ isr = "none" /\ istat = 0 /\ dmaIstat = 0 /\ stat = "none" /\ mask = 1
      /\ cause = "none" /\ Coming = "none"
  BY RunsQuiet
<1>2. dma = 0
  BY DEF OInv, Interrupting, OwnTypes, Bit
<1>3. IInv' /\ Sends(c)
  BY CommandSends DEF OInv, DriverCommands
<1>4. UNCHANGED <<isr, cause, dma, dmaIstat>>
  BY DEF handler, channel
<1>5. Coming' = Coming /\ Ends' = {}
  BY <1>3, <1>4 DEF Coming, Ends, Sends
<1>6. Interrupting'
  BY <1>1, <1>2, <1>3, <1>4 DEF OInv, Interrupting, Sends
<1>7. irq' = c /\ part' # 2 /\ reading' # 1 /\ seeked' # "pending"
  BY <1>1, <1>3 DEF OInv, Answers, Sends
<1>8. Answers'
  BY <1>1, <1>5, <1>7 DEF OInv, Answers
<1>9. Booted'
  BY DEF OInv, Booted
<1> QED
  BY <1>1, <1>2, <1>3, <1>6, <1>8, <1>9

LEMMA ReadBegins ==
    ASSUME OInv, NEW n \in 1 .. Count, Read(n),
           \/ Runs("read") /\ call' = "reading" /\ n = want /\ UNCHANGED <<result, why>>
           \/ Runs("program") /\ call' = "program" /\ result' = "none" /\ why' = {},
           UNCHANGED reader
    PROVE  OInv'
<1>1. /\ state = "IDLE" /\ delivered' = {} /\ sectors' = n /\ transfers' = n /\ goal' = n /\ fetched' = 0
      /\ state' = "READ_SETMODE" /\ WriteCommand("Setmode", "no", {})
      /\ UNCHANGED <<gotInt5, initialized, silenced, errors, moves, handler, channel>>
  BY DEF Read, Undelivered, Transfers, bounds
<1>2. PICK where \in {"read", "program"} : Runs(where)
  OBVIOUS
<1>3. IInv' /\ Interrupting' /\ Answers' /\ Booted' /\ dma = 0 /\ dmaIstat = 0
  BY <1>1, <1>2, OperationBegins DEF DueIn
<1>4. UNCHANGED <<isr, cause, dma, dmaIstat, want, tries>>
  BY <1>1 DEF handler, channel, reader
<1>5. OwnTypes'
  <2>1. n \in -2 .. Count /\ n \in 0 .. Count /\ 0 \in 0 .. Count
    BY OpenBiosAssumption
  <2>2. call' \in Calls /\ result' \in {"none", "done", "failed"} /\ why' \subseteq {"busy", "error"}
    BY DEF OInv, OwnTypes, Calls
  <2> QED
    BY <1>1, <1>4, <2>1, <2>2 DEF OInv, OwnTypes, States
<1>6. Accounts'
  BY <1>1, <1>3, <1>4 DEF OInv, Accounts, Runs
<1>7. ReadsWhole' /\ Caused' /\ FailsForCause'
  BY <1>1 DEF OInv, ReadsWhole, Caused, FailsForCause
<1> QED
  BY <1>3, <1>5, <1>6, <1>7 DEF OInv

LEMMA OtherBegins == ASSUME OInv, GetStatus \/ DirectSetMode PROVE OInv'
<1>1. /\ Runs("program") /\ state = "IDLE" /\ why' = {} /\ result' = "none" /\ delivered' = {}
      /\ UNCHANGED <<gotInt5, initialized, sectors, transfers, goal, fetched, silenced, errors, moves,
                     handler, channel, reader>>
  BY DEF GetStatus, DirectSetMode, Begin, bounds
<1>2. PICK c \in {"Setmode", "Getstat"}, m \in SUBSET Modes :
         /\ WriteCommand(c, "no", m) /\ state' \in {"SETMODE", "GETSTATUS"} /\ DueIn(state', c)
         /\ call' \in {"asking", "program"}
  BY CommandsAssumption DEF GetStatus, DirectSetMode, Begin, DueIn
<1>3. IInv' /\ Interrupting' /\ Answers' /\ Booted' /\ dma = 0 /\ dmaIstat = 0
  BY <1>1, <1>2, OperationBegins
<1>4. UNCHANGED <<isr, cause, dma, dmaIstat, want, tries>>
  BY <1>1 DEF handler, channel, reader
<1>5. OwnTypes'
  BY <1>1, <1>2, <1>4 DEF OInv, OwnTypes, States, Calls
<1>6. Accounts'
  BY <1>1, <1>2, <1>4 DEF OInv, Accounts
<1>7. ReadsWhole' /\ Caused' /\ FailsForCause'
  BY <1>1, <1>2 DEF OInv, ReadsWhole, Caused, FailsForCause
<1> QED
  BY <1>3, <1>5, <1>6, <1>7 DEF OInv

(* So the program keeps the invariant. *)
LEMMA ProgramRight == ASSUME OInv, Starts \/ GoesOn \/ GiveUp PROVE OInv'
<1>1. ASSUME NEW n \in 1 .. Count, DirectRead(n) PROVE OInv'
  BY <1>1, ReadBegins DEF DirectRead, Begin, Read
<1>2. CASE BlockRead
  <2>1. Runs("read") /\ Read(want) /\ call' = "reading" /\ UNCHANGED <<reader, result, why>>
    BY <1>2 DEF BlockRead
  <2>2. want \in 1 .. Count
    BY <2>1, OpenBiosAssumption DEF Runs, OInv, Accounts, OwnTypes
  <2> QED
    BY <2>1, <2>2, ReadBegins
<1> QED
  BY <1>1, <1>2, BlockReadingRight, OtherBegins, PolledRight, InitPrepared, InitSent, InitOver,
     SeekRight, SeekStateRight
     DEF Starts, GoesOn, Booting

-----------------------------------------------------------------------------
(* The interrupt *)
LEMMA VerifyRight == ASSUME OInv, Verify PROVE OInv'
<1>1. /\ isr = "none" /\ istat = 1 /\ isr' = "verified" /\ cause' = stat /\ stat' = "none" /\ stat # "none"
      /\ dma = 0 /\ dmaIstat = 0
  BY DEF Verify, Acknowledge, OInv, Interrupting
<1>2. UNCHANGED <<irq, part, mask, istat, reading, seeked>>
  BY DEF Verify, Acknowledge, host, disc
<1>3. IInv'
  BY GuestRight DEF Verify, OInv
<1>4. UNCHANGED <<state, gotInt5, initialized, sectors, transfers, delivered, dma, dmaIstat, call,
                  want, tries, goal, fetched, result, why, silenced, errors, moves>>
  BY DEF Verify, machine, channel, reader, history, bounds
<1>5. Coming' = Coming /\ Ends' = Ends
  BY <1>1, <1>4 DEF Coming, Ends
<1>6. OwnTypes'
  BY <1>1, <1>4 DEF OInv, OwnTypes, IInv, TypeOK
<1>7. Interrupting'
  BY <1>1, <1>2, <1>4 DEF OInv, Interrupting
<1>8. Answers' /\ Booted'
  BY <1>1, <1>2, <1>4, <1>5 DEF OInv, Answers, Booted
<1>9. Accounts' /\ ReadsWhole' /\ Caused' /\ FailsForCause'
  BY <1>4 DEF OInv, Accounts, ReadsWhole, Caused, FailsForCause
<1> QED
  BY <1>3, <1>6, <1>7, <1>8, <1>9 DEF OInv

LEMMA HandlerRight == ASSUME OInv, IOHandler PROVE OInv'
<1>1. /\ isr = "handled" /\ istat = 1 /\ isr' = "none" /\ cause' = "none" /\ istat' = 0 /\ stat = "none"
  BY DEF IOHandler, ClearIstat, OInv, Interrupting
<1>2. UNCHANGED <<irq, part, stat, mask, reading, seeked>>
  BY DEF IOHandler, ClearIstat, host, disc
<1>3. IInv'
  BY GuestRight DEF IOHandler, OInv
<1>4. UNCHANGED <<state, gotInt5, initialized, sectors, transfers, delivered, dma, dmaIstat, call,
                  want, tries, goal, fetched, result, why, silenced, errors, moves>>
  BY DEF IOHandler, machine, channel, reader, history, bounds
<1>5. Coming' = Coming /\ Ends' = Ends
  BY <1>1, <1>2, <1>4 DEF Coming, Ends
<1>6. OwnTypes'
  BY <1>1, <1>4 DEF OInv, OwnTypes
<1>7. Interrupting'
  BY <1>1, <1>2, <1>4 DEF OInv, Interrupting
<1>8. Answers' /\ Booted'
  BY <1>1, <1>2, <1>4, <1>5 DEF OInv, Answers, Booted
<1>9. Accounts' /\ ReadsWhole' /\ Caused' /\ FailsForCause'
  BY <1>4 DEF OInv, Accounts, ReadsWhole, Caused, FailsForCause
<1> QED
  BY <1>3, <1>6, <1>7, <1>8, <1>9 DEF OInv

(* A transfer is counted once it is over; the last one of a read comes when *)
(* its last sector was copied.                                              *)
LEMMA TransferRight == ASSUME OInv, TransferEnds \/ DMAInterrupt PROVE OInv'
<1>1. /\ UNCHANGED <<cd, state, gotInt5, initialized, sectors, isr, cause, call, want, tries, goal,
                     fetched, result, why, silenced, errors, moves>>
      /\ dma' = 0
  BY DEF TransferEnds, DMAInterrupt, machine, handler, reader, history, bounds, OInv, Interrupting,
         OwnTypes, Bit
<1>2. IInv' /\ UNCHANGED <<irq, part, stat, mask, istat, reading, seeked>>
  BY <1>1, Unwritten
<1>3. state \in {"READ", "PAUSING"} /\ call # "sought"
  BY DEF TransferEnds, DMAInterrupt, OInv, Interrupting, Booted
<1>4. /\ dmaIstat' \in Bit
      /\ \/ dmaIstat' = 1 /\ dma = 1 /\ dmaIstat = 0 /\ transfers' = transfers /\ delivered' = delivered
            /\ (istat # 1 \/ isr = "handled")
         \/ /\ dmaIstat' = 0 /\ dma = 0 /\ dmaIstat = 1 /\ transfers' = transfers - 1
            /\ delivered' = delivered \cup IF transfers' = 0 THEN {"ACK"} ELSE {}
  <2>1. CASE TransferEnds
    BY <2>1 DEF TransferEnds, machine, OInv, Interrupting, OwnTypes, Bit
  <2>2. CASE DMAInterrupt
    <3>1. dma = 0
      BY <2>2 DEF DMAInterrupt, OInv, Interrupting, OwnTypes, Bit
    <3> QED
      BY <2>2, <3>1 DEF DMAInterrupt, Deliver, LastTransfer, Bit
  <2> QED
    BY <2>1, <2>2
<1>5. Coming' = Coming /\ Ends' = Ends
  BY <1>1, <1>2, <1>4 DEF Coming, Ends
<1>6. transfers \in 0 .. Count /\ sectors \in -2 .. Count /\ Count \in Nat
  BY OpenBiosAssumption DEF OInv, OwnTypes
<1>7. transfers' \in 0 .. Count
  BY <1>1, <1>3, <1>4, <1>6 DEF OInv, Accounts
<1>8. transfers' = 0 /\ dma = 0 => state = "PAUSING"
  BY <1>3, <1>4, <1>6 DEF OInv, Accounts
<1>9. OwnTypes'
  BY <1>1, <1>4, <1>7 DEF OInv, OwnTypes, Opened, Bit
<1>10. Interrupting'
  BY <1>1, <1>2, <1>3, <1>4 DEF OInv, Interrupting
<1>11. Answers' /\ Booted'
  BY <1>1, <1>2, <1>3, <1>5 DEF OInv, Answers, Booted
<1>12. Accounts'
  BY <1>1, <1>3, <1>4, <1>6 DEF OInv, Accounts
<1>13. ReadsWhole'
  <2>1. "DNE" \notin delivered'
    BY <1>3, <1>5 DEF OInv, Answers, Ends
  <2>2. "ACK" \in delivered' => "ACK" \in delivered \/ state = "PAUSING"
    BY <1>4, <1>8
  <2> QED
    BY <1>1, <2>1, <2>2 DEF OInv, ReadsWhole, Accounts
<1>14. Caused' /\ FailsForCause'
  BY <1>1, <1>5 DEF OInv, Caused, FailsForCause, Ends
<1> QED
  BY <1>2, <1>9, <1>10, <1>11, <1>12, <1>13, <1>14 DEF OInv

(* What holds before and after any dispatch *)
DispatchFrame ==
    /\ isr = "verified" /\ isr' = "handled"
    /\ why' = IF cause = "DiskError" THEN why \cup {"error"} ELSE why
    /\ UNCHANGED <<cause, dmaIstat, call, reader, goal, result, silenced, bounds>>

LEMMA FrameRight ==
    ASSUME OInv, DispatchFrame, UNCHANGED <<stat, mask, istat>>,
           dma' \in {0, 1}, dma' = 1 => state' \in {"READ", "PAUSING"}
    PROVE  /\ Interrupting' /\ Coming' = "none"
           /\ Coming = cause /\ cause # "none" /\ dma = 0 /\ dmaIstat = 0 /\ call # "sought"
           /\ UNCHANGED <<want, tries, errors, moves>> /\ why \subseteq why'
           /\ why' \subseteq {"busy", "error"} /\ FailsForCause'
<1>1. /\ isr = "verified" /\ istat = 1 /\ stat = "none" /\ mask = 1 /\ dma = 0 /\ dmaIstat = 0
      /\ cause # "none" /\ call # "sought" /\ why \subseteq {"busy", "error"}
  BY DEF DispatchFrame, OInv, Interrupting, OwnTypes, Booted
<1>2. isr' = "handled" /\ UNCHANGED <<cause, dmaIstat, want, tries, result, errors, moves>>
  BY DEF DispatchFrame, reader, bounds
<1>3. Interrupting'
  BY <1>1, <1>2 DEF Interrupting
<1>4. Coming = cause /\ Coming' = "none"
  BY <1>1, <1>2 DEF Coming
<1>5. why \subseteq why' /\ why' \subseteq {"busy", "error"}
  BY <1>1 DEF DispatchFrame
<1>6. FailsForCause'
  BY <1>2, <1>5 DEF OInv, FailsForCause
<1> QED
  BY <1>1, <1>2, <1>3, <1>4, <1>5, <1>6

(* A dispatch that tells of the end of an operation, or does nothing *)
LEMMA TellRight ==
    ASSUME OInv, DispatchFrame, NEW s \in States, NEW es \in SUBSET Opened, Tell(s, es)
    PROVE  /\ IInv' /\ Interrupting' /\ Coming' = "none" /\ FailsForCause'
           /\ Coming = cause /\ cause # "none" /\ dma = 0 /\ dmaIstat = 0 /\ call # "sought"
           /\ why \subseteq why'
           /\ UNCHANGED <<irq, part, stat, mask, istat, reading, seeked, dma, dmaIstat>>
           /\ UNCHANGED <<sectors, transfers, call, want, tries, goal, fetched>>
           /\ state' = s /\ delivered' = delivered \cup es
           /\ gotInt5' \in Bit /\ initialized' \in 0 .. 2 => OwnTypes'
<1>1. /\ state' = s /\ delivered' = delivered \cup es
      /\ UNCHANGED <<cd, sectors, transfers, dma, fetched>>
  BY DEF Tell, Deliver
<1>2. IInv' /\ UNCHANGED <<irq, part, stat, mask, istat, reading, seeked>>
  BY <1>1, Unwritten
<1>3. dma = 0
  BY DEF DispatchFrame, OInv, Interrupting
<1>4. /\ Interrupting' /\ Coming' = "none"
      /\ Coming = cause /\ cause # "none" /\ dma = 0 /\ dmaIstat = 0 /\ call # "sought"
      /\ UNCHANGED <<want, tries, errors, moves>> /\ why \subseteq why'
      /\ why' \subseteq {"busy", "error"} /\ FailsForCause'
  BY <1>1, <1>2, <1>3, FrameRight
<1>5. isr' = "handled" /\ UNCHANGED <<cause, dmaIstat, call, goal, result, silenced>>
  BY DEF DispatchFrame
<1>6. gotInt5' \in Bit /\ initialized' \in 0 .. 2 => OwnTypes'
  BY <1>1, <1>4, <1>5 DEF OInv, OwnTypes
<1> QED
  BY <1>1, <1>2, <1>4, <1>5, <1>6

(* One that sends the next command of an operation *)
LEMMA SendRight ==
    ASSUME OInv, DispatchFrame, NEW s \in States, NEW c \in DriverCommands, Send(s, c),
           UNCHANGED transfers, dma' \in {0, 1}, dma' = 1 => s \in {"READ", "PAUSING"},
           DueIn(s, c), s \notin {"IDLE", "INITIALIZING"}, Ends = {},
           gotInt5' = 1 <=> s = "REINIT",
           s # "SEEKL_SETLOC", state = "READ" => c \in {"Pause", "Reset"},
           seeked = "pending" => s \in {"SEEKL", "REINIT"}
    PROVE  /\ IInv' /\ Interrupting' /\ Answers' /\ FailsForCause'
           /\ dma = 0 /\ dmaIstat = 0 /\ call # "sought" /\ why \subseteq why'
           /\ UNCHANGED <<delivered, dmaIstat, transfers, call, want, tries, goal>> /\ state' = s
           /\ OwnTypes' <=> /\ gotInt5' \in Bit /\ initialized' \in 0 .. 2
                            /\ sectors' \in -2 .. Count /\ fetched' \in 0 .. Count
<1>1. IInv' /\ Sends(c) /\ state' = s /\ delivered' = delivered
  BY CommandSends DEF Send, OInv
<1>2. /\ Interrupting' /\ Coming' = "none"
      /\ Coming = cause /\ cause # "none" /\ dma = 0 /\ dmaIstat = 0 /\ call # "sought"
      /\ UNCHANGED <<want, tries, errors, moves>> /\ why \subseteq why'
      /\ why' \subseteq {"busy", "error"} /\ FailsForCause'
  BY <1>1, FrameRight DEF Sends
<1>3. isr' = "handled" /\ UNCHANGED <<cause, dmaIstat, call, goal, result, silenced>>
  BY DEF DispatchFrame
<1>4. Ends' = {}
  BY <1>1 DEF Ends
<1>5. /\ irq' = c /\ (part' = 2 => c \in {"Pause", "Reset"})
      /\ reading' = 1 => reading = 1 /\ c \notin {"Read", "Pause", "Reset"}
      /\ seeked' = "pending" => c # "Reset" /\ (c = "Setloc" \/ seeked = "pending")
  BY <1>1 DEF Sends, OInv, Answers
<1>6. reading' # 1
  BY <1>5 DEF OInv, Answers
<1>7. Answers'
  BY <1>1, <1>2, <1>3, <1>4, <1>5, <1>6 DEF Answers, DueIn
<1>8. OwnTypes' <=> /\ gotInt5' \in Bit /\ initialized' \in 0 .. 2
                    /\ sectors' \in -2 .. Count /\ fetched' \in 0 .. Count
  BY <1>1, <1>2, <1>3 DEF OInv, OwnTypes, Bit
<1> QED
  BY <1>1, <1>2, <1>3, <1>7, <1>8

(* A response that the driver has no use for *)
LEMMA NothingRight ==
    ASSUME OInv, DispatchFrame, Nothing, UNCHANGED <<gotInt5, initialized>>,
           state = "SEEKL_SETLOC" => irq # "none"
    PROVE  OInv'
<1>1. Tell(state, {})
  BY DEF Nothing
<1>2. /\ IInv' /\ Interrupting' /\ Coming' = "none" /\ FailsForCause'
      /\ Coming = cause /\ cause # "none" /\ dma = 0 /\ dmaIstat = 0 /\ call # "sought"
      /\ why \subseteq why'
      /\ UNCHANGED <<irq, part, stat, mask, istat, reading, seeked, dma, dmaIstat>>
      /\ UNCHANGED <<sectors, transfers, call, want, tries, goal, fetched>>
      /\ state' = state /\ delivered' = delivered \cup {}
      /\ gotInt5' \in Bit /\ initialized' \in 0 .. 2 => OwnTypes'
  BY <1>1, TellRight DEF OInv, OwnTypes
<1>3. OwnTypes' /\ delivered' = delivered /\ Ends' = Ends
  BY <1>2 DEF OInv, OwnTypes, Ends
<1>4. Answers'
  BY <1>2, <1>3 DEF OInv, Answers
<1>5. Booted'
  BY <1>2, <1>3 DEF OInv, Booted
<1>6. Accounts' /\ ReadsWhole' /\ Caused'
  BY <1>2, <1>3 DEF OInv, Accounts, ReadsWhole, Caused
<1> QED
  BY <1>2, <1>3, <1>4, <1>5, <1>6 DEF OInv

LEMMA DataReadyRight ==
    ASSUME OInv, DispatchFrame, cause = "DataReady", DataReady
    PROVE  OInv'
<1>1. CASE state = "READ"
  <2>1. /\ sectors' = SectorsAfter /\ dma' = 1 /\ fetched' = fetched + 1
        /\ IF sectors' = 0 THEN Send("PAUSING", "Pause") ELSE UNCHANGED <<cd, state, delivered>>
        /\ UNCHANGED <<transfers, gotInt5, initialized>>
    BY <1>1 DEF DataReady, InitiateDMA
  <2>2. /\ sectors \in -2 .. Count /\ goal \in 0 .. Count /\ fetched \in 0 .. Count /\ Count \in Nat
        /\ sectors = goal - fetched /\ sectors > 0 /\ fetched <= goal
    BY <1>1, OpenBiosAssumption DEF OInv, OwnTypes, Accounts
  <2>3. sectors' = sectors - 1 /\ sectors' \in -2 .. Count /\ fetched' \in 0 .. Count
        /\ fetched' <= goal /\ sectors' = goal - fetched'
    BY <2>1, <2>2 DEF SectorsAfter
  <2>4. gotInt5' \in Bit /\ initialized' \in 0 .. 2 /\ gotInt5 # 1
    BY <1>1, <2>1 DEF OInv, OwnTypes, Answers
  <2>5. Ends = {} /\ seeked # "pending" /\ call \notin {"boot", "init", "initializing", "delay", "sought"}
        /\ "ACK" \notin delivered
    BY <1>1, <2>2 DEF OInv, Answers, Booted, ReadsWhole
  <2>6. goal' = goal
    BY DEF DispatchFrame
  <2>7. CASE sectors' = 0
    <3>1. /\ IInv' /\ Interrupting' /\ Answers' /\ FailsForCause'
          /\ dma = 0 /\ dmaIstat = 0 /\ call # "sought" /\ why \subseteq why'
          /\ UNCHANGED <<delivered, dmaIstat, transfers, call, want, tries, goal>> /\ state' = "PAUSING"
          /\ OwnTypes' <=> /\ gotInt5' \in Bit /\ initialized' \in 0 .. 2
                           /\ sectors' \in -2 .. Count /\ fetched' \in 0 .. Count
      <4>1. DueIn("PAUSING", "Pause") /\ "PAUSING" \in States /\ "Pause" \in DriverCommands
        BY DEF DueIn, States, DriverCommands
      <4> QED
        BY <1>1, <2>1, <2>4, <2>5, <2>7, <4>1, SendRight
    <3>2. transfers = 1
      BY <1>1, <2>2, <2>3, <2>7, <3>1 DEF OInv, Accounts
    <3>3. Accounts'
      BY <1>1, <2>1, <2>2, <2>3, <2>7, <3>1, <3>2 DEF OInv, Accounts
    <3>4. Booted' /\ ReadsWhole' /\ Caused'
      BY <1>1, <2>1, <2>5, <3>1 DEF OInv, Booted, ReadsWhole, Caused, Ends
    <3> QED
      BY <2>3, <2>4, <3>1, <3>3, <3>4 DEF OInv
  <2>8. CASE sectors' # 0
    <3>1. UNCHANGED <<cd, state, delivered>>
      BY <2>1, <2>8
    <3>2. IInv' /\ UNCHANGED <<irq, part, stat, mask, istat, reading, seeked>>
      BY <3>1, Unwritten
    <3>3. /\ Interrupting' /\ Coming' = "none"
          /\ Coming = cause /\ cause # "none" /\ dma = 0 /\ dmaIstat = 0 /\ call # "sought"
          /\ UNCHANGED <<want, tries, errors, moves>> /\ why \subseteq why'
          /\ why' \subseteq {"busy", "error"} /\ FailsForCause'
      BY <1>1, <2>1, <3>1, <3>2, FrameRight
    <3>4. isr' = "handled" /\ UNCHANGED <<cause, dmaIstat, call, goal, result, silenced>>
      BY DEF DispatchFrame
    <3>5. Ends' = Ends
      BY <3>1 DEF Ends
    <3>6. OwnTypes'
      BY <2>1, <2>3, <3>1, <3>3, <3>4 DEF OInv, OwnTypes, Bit
    <3>7. Answers'
      BY <1>1, <2>1, <3>1, <3>2, <3>3, <3>4, <3>5 DEF OInv, Answers
    <3>8. Accounts'
      BY <1>1, <2>1, <2>2, <2>3, <2>8, <3>1, <3>3, <3>4 DEF OInv, Accounts
    <3>9. Booted' /\ ReadsWhole' /\ Caused'
      BY <1>1, <2>1, <2>5, <3>1, <3>3, <3>4 DEF OInv, Booted, ReadsWhole, Caused, Ends
    <3> QED
      BY <3>2, <3>3, <3>6, <3>7, <3>8, <3>9 DEF OInv
  <2> QED
    BY <2>7, <2>8
<1>2. CASE state # "READ"
  <2>1. state = "SEEKL_SETLOC" => irq # "none"
    BY DEF DispatchFrame, OInv, Answers, Coming
  <2> QED
    BY <1>2, <2>1, NothingRight DEF DataReady
<1> QED
  BY <1>1, <1>2

LEMMA CompleteRight ==
    ASSUME OInv, DispatchFrame, cause = "Complete", Complete
    PROVE  OInv'
<1>1. /\ irq = "none" /\ state \notin {"READ_SETMODE", "READ", "SEEKL_SETLOC"}
      /\ state = "SEEKL" => seeked = "done"
  BY DEF DispatchFrame, OInv, Answers, Coming
<1>2. CASE state = "IDLE"
  BY <1>1, <1>2, NothingRight DEF Complete
<1>3. ASSUME state # "IDLE", NEW es \in SUBSET {"DNE", "ERR"}, Tell("IDLE", es),
             \/ state = "INITIALIZING" /\ es = {} /\ initialized' = 1
             \/ state # "INITIALIZING" /\ initialized' = initialized,
             gotInt5' = 0,
             "ERR" \in es => state = "REINIT",
             "DNE" \in es => state # "REINIT"
      PROVE  OInv'
  <2>1. /\ IInv' /\ Interrupting' /\ Coming' = "none" /\ FailsForCause'
        /\ Coming = cause /\ cause # "none" /\ dma = 0 /\ dmaIstat = 0 /\ call # "sought"
        /\ why \subseteq why'
        /\ UNCHANGED <<irq, part, stat, mask, istat, reading, seeked, dma, dmaIstat>>
        /\ UNCHANGED <<sectors, transfers, call, want, tries, goal, fetched>>
        /\ state' = "IDLE" /\ delivered' = delivered \cup es
        /\ gotInt5' \in Bit /\ initialized' \in 0 .. 2 => OwnTypes'
    BY <1>3, TellRight DEF OInv, OwnTypes, States, Opened
  <2>2. OwnTypes'
    BY <1>3, <2>1 DEF OInv, OwnTypes, Bit
  <2>3. seeked = "pending" => call \in {"boot", "init"}
    BY <1>1, <1>3, <2>1 DEF OInv, Answers, Booted
  <2>4. Answers'
    BY <1>1, <1>3, <2>1, <2>3 DEF OInv, Answers
  <2>5. Ends = {}
    BY <1>3 DEF OInv, Answers
  <2>6. Booted'
    BY <1>1, <1>3, <2>1, <2>5 DEF OInv, Booted, Ends
  <2>7. Accounts' /\ Caused'
    BY <1>3, <2>1, <2>5 DEF OInv, Accounts, Caused, Ends
  <2>8. ReadsWhole'
    BY <1>1, <1>3, <2>1, <2>5 DEF OInv, ReadsWhole, Accounts, Ends
  <2> QED
    BY <2>1, <2>2, <2>4, <2>6, <2>7, <2>8 DEF OInv
<1>4. gotInt5 \in Bit /\ (gotInt5 = 1 <=> state = "REINIT")
  BY DEF OInv, OwnTypes, Answers
<1>5. CASE state = "INITIALIZING"
  <2>1. Tell("IDLE", {}) /\ initialized' = 1 /\ gotInt5' = 0
    BY <1>4, <1>5 DEF Complete, Bit
  <2> QED
    BY <1>3, <1>5, <2>1
<1>6. CASE state = "REINIT"
  BY <1>3, <1>4, <1>6 DEF Complete, Bit
<1>7. CASE state \notin {"INITIALIZING", "REINIT", "IDLE"}
  BY <1>3, <1>4, <1>7 DEF Complete, Bit
<1> QED
  BY <1>2, <1>5, <1>6, <1>7

LEMMA AcknowledgedRight ==
    ASSUME OInv, DispatchFrame, cause = "Acknowledge", Acknowledged
    PROVE  OInv'
<1>1. UNCHANGED <<gotInt5, initialized>>
  BY DEF Acknowledged
<1>2. /\ gotInt5 \in Bit /\ initialized \in 0 .. 2 /\ sectors \in -2 .. Count /\ fetched \in 0 .. Count
      /\ goal' = goal
  BY DEF OInv, OwnTypes, DispatchFrame
<1>3. CASE state \in {"SETMODE", "GETSTATUS"}
  <2>1. Tell("IDLE", {"DNE"})
    BY <1>3 DEF Acknowledged
  <2>2. /\ IInv' /\ Interrupting' /\ Coming' = "none" /\ FailsForCause'
        /\ Coming = cause /\ cause # "none" /\ dma = 0 /\ dmaIstat = 0 /\ call # "sought"
        /\ why \subseteq why'
        /\ UNCHANGED <<irq, part, stat, mask, istat, reading, seeked, dma, dmaIstat>>
        /\ UNCHANGED <<sectors, transfers, call, want, tries, goal, fetched>>
        /\ state' = "IDLE" /\ delivered' = delivered \cup {"DNE"}
        /\ gotInt5' \in Bit /\ initialized' \in 0 .. 2 => OwnTypes'
    BY <2>1, TellRight DEF States, Opened
  <2>3. OwnTypes'
    BY <1>1, <1>2, <2>2
  <2>4. irq \in {"none", "Setmode", "Getstat"} /\ Ends = {} /\ gotInt5 # 1
        /\ call \notin {"boot", "init", "initializing", "delay", "reading"}
    BY <1>3, <2>2 DEF OInv, Answers, DueIn, Booted, Accounts
  <2>5. Answers'
    BY <1>1, <1>3, <2>2, <2>4 DEF OInv, Answers, DueIn
  <2>6. Booted' /\ ReadsWhole' /\ Caused'
    BY <1>1, <1>3, <2>2, <2>4 DEF OInv, Booted, ReadsWhole, Caused, Ends
  <2>7. Accounts'
    BY <1>3, <2>2, <2>4 DEF OInv, Accounts
  <2> QED
    BY <2>2, <2>3, <2>5, <2>6, <2>7 DEF OInv
<1>4. CASE state = "READ_SETMODE"
  <2>1. Send("READ", "Read") /\ UNCHANGED <<sectors, transfers, dma, fetched>>
    BY <1>4 DEF Acknowledged, AfterSetmode
  <2>2. Ends = {} /\ gotInt5 # 1 /\ seeked # "pending" /\ dma = 0
        /\ call \notin {"boot", "init", "initializing", "delay", "sought"}
    BY <1>4 DEF OInv, Answers, Booted, Interrupting, DispatchFrame
  <2>3. DueIn("READ", "Read") /\ "READ" \in States /\ "Read" \in DriverCommands
    BY DEF DueIn, States, DriverCommands
  <2>4. /\ IInv' /\ Interrupting' /\ Answers' /\ FailsForCause'
        /\ dma = 0 /\ dmaIstat = 0 /\ call # "sought" /\ why \subseteq why'
        /\ UNCHANGED <<delivered, dmaIstat, transfers, call, want, tries, goal>> /\ state' = "READ"
        /\ OwnTypes' <=> /\ gotInt5' \in Bit /\ initialized' \in 0 .. 2
                         /\ sectors' \in -2 .. Count /\ fetched' \in 0 .. Count
    BY <1>1, <1>4, <2>1, <2>2, <2>3, SendRight
  <2>5. OwnTypes'
    BY <1>1, <1>2, <2>1, <2>4
  <2>6. Booted' /\ ReadsWhole' /\ Caused'
    BY <1>1, <1>2, <1>4, <2>1, <2>2, <2>4 DEF OInv, Booted, ReadsWhole, Caused, Ends
  <2>7. Accounts'
    BY <1>2, <1>4, <2>1, <2>2, <2>4 DEF OInv, Accounts, OwnTypes
  <2> QED
    BY <2>4, <2>5, <2>6, <2>7 DEF OInv
<1>5. CASE state = "SEEKL_SETLOC"
  <2>1. Send("SEEKL", "Seek") /\ UNCHANGED <<sectors, transfers, dma, fetched>>
    BY <1>5 DEF Acknowledged
  <2>2. Ends = {} /\ gotInt5 # 1 /\ dma = 0
        /\ call \notin {"boot", "init", "initializing", "delay", "sought", "reading"}
    BY <1>5 DEF OInv, Answers, Booted, Interrupting, DispatchFrame, Accounts
  <2>3. DueIn("SEEKL", "Seek") /\ "SEEKL" \in States /\ "Seek" \in DriverCommands
    BY DEF DueIn, States, DriverCommands
  <2>4. /\ IInv' /\ Interrupting' /\ Answers' /\ FailsForCause'
        /\ dma = 0 /\ dmaIstat = 0 /\ call # "sought" /\ why \subseteq why'
        /\ UNCHANGED <<delivered, dmaIstat, transfers, call, want, tries, goal>> /\ state' = "SEEKL"
        /\ OwnTypes' <=> /\ gotInt5' \in Bit /\ initialized' \in 0 .. 2
                         /\ sectors' \in -2 .. Count /\ fetched' \in 0 .. Count
    BY <1>1, <1>5, <2>1, <2>2, <2>3, SendRight
  <2>5. OwnTypes'
    BY <1>1, <1>2, <2>1, <2>4
  <2>6. Booted' /\ ReadsWhole' /\ Caused'
    BY <1>1, <1>2, <1>5, <2>1, <2>2, <2>4 DEF OInv, Booted, ReadsWhole, Caused, Ends
  <2>7. Accounts'
    BY <1>2, <1>5, <2>1, <2>2, <2>4 DEF OInv, Accounts
  <2> QED
    BY <2>4, <2>5, <2>6, <2>7 DEF OInv
<1>6. CASE state \notin {"SETMODE", "GETSTATUS", "READ_SETMODE", "SEEKL_SETLOC"}
  <2>1. Nothing
    BY <1>6 DEF Acknowledged
  <2> QED
    BY <1>1, <1>6, <2>1, NothingRight
<1> QED
  BY <1>3, <1>4, <1>5, <1>6

LEMMA DiscErrorRight ==
    ASSUME OInv, DispatchFrame, cause = "DiskError", DiscError
    PROVE  OInv'
<1>1. /\ why' = why \cup {"error"} /\ why' # {} /\ goal' = goal /\ Coming = "DiskError"
      /\ dma = 0 /\ dmaIstat = 0 /\ call # "sought"
  BY DEF DispatchFrame, Coming, OInv, Interrupting, Booted
<1>2. /\ gotInt5 \in Bit /\ initialized \in 0 .. 2 /\ sectors \in -2 .. Count /\ fetched \in 0 .. Count
      /\ Ends = {} /\ (gotInt5 = 1 <=> state = "REINIT")
  BY <1>1 DEF OInv, OwnTypes, Answers
<1>3. call \in {"boot", "init"} \/ (call = "initializing" /\ initialized # 1) => state = "INITIALIZING"
  BY <1>1 DEF OInv, Booted
<1>4. CASE state = "INITIALIZING"
  <2>1. Tell(state, {}) /\ initialized' = 2 /\ gotInt5' = gotInt5
    BY <1>2, <1>4 DEF DiscError, Nothing
  <2>2. /\ IInv' /\ Interrupting' /\ Coming' = "none" /\ FailsForCause'
        /\ Coming = cause /\ cause # "none" /\ dma = 0 /\ dmaIstat = 0 /\ call # "sought"
        /\ why \subseteq why'
        /\ UNCHANGED <<irq, part, stat, mask, istat, reading, seeked, dma, dmaIstat>>
        /\ UNCHANGED <<sectors, transfers, call, want, tries, goal, fetched>>
        /\ state' = state /\ delivered' = delivered \cup {}
        /\ gotInt5' \in Bit /\ initialized' \in 0 .. 2 => OwnTypes'
    BY <2>1, TellRight DEF OInv, OwnTypes
  <2>3. OwnTypes' /\ delivered' = delivered /\ Ends' = Ends
    BY <1>2, <2>1, <2>2 DEF Ends
  <2>4. Answers'
    BY <1>4, <2>1, <2>2, <2>3 DEF OInv, Answers
  <2>5. Booted'
    BY <1>4, <2>1, <2>2, <2>3 DEF OInv, Booted
  <2>6. Accounts' /\ ReadsWhole' /\ Caused'
    BY <2>2, <2>3 DEF OInv, Accounts, ReadsWhole, Caused
  <2> QED
    BY <2>2, <2>3, <2>4, <2>5, <2>6 DEF OInv
<1>5. CASE state # "INITIALIZING" /\ gotInt5 = 0
  <2>1. /\ Send("REINIT", "Reset") /\ gotInt5' = 1
        /\ UNCHANGED <<initialized, sectors, transfers, dma, fetched>>
    BY <1>5 DEF DiscError
  <2>2. DueIn("REINIT", "Reset") /\ "REINIT" \in States /\ "Reset" \in DriverCommands
    BY DEF DueIn, States, DriverCommands
  <2>3. /\ IInv' /\ Interrupting' /\ Answers' /\ FailsForCause'
        /\ dma = 0 /\ dmaIstat = 0 /\ call # "sought" /\ why \subseteq why'
        /\ UNCHANGED <<delivered, dmaIstat, transfers, call, want, tries, goal>> /\ state' = "REINIT"
        /\ OwnTypes' <=> /\ gotInt5' \in Bit /\ initialized' \in 0 .. 2
                         /\ sectors' \in -2 .. Count /\ fetched' \in 0 .. Count
    BY <1>1, <1>2, <2>1, <2>2, SendRight
  <2>4. OwnTypes'
    BY <1>2, <2>1, <2>3 DEF Bit
  <2>5. Booted'
    BY <1>3, <1>5, <2>1, <2>3 DEF OInv, Booted
  <2>6. Accounts'
    BY <1>1, <2>1, <2>3 DEF OInv, Accounts
  <2>7. ReadsWhole' /\ Caused'
    BY <1>1, <1>2, <2>1, <2>3 DEF OInv, ReadsWhole, Caused, Ends
  <2> QED
    BY <2>3, <2>4, <2>5, <2>6, <2>7 DEF OInv
<1>6. CASE state # "INITIALIZING" /\ gotInt5 = 1
  <2>1. Tell("IDLE", {"ERR"}) /\ gotInt5' = 0 /\ initialized' = initialized
    BY <1>6 DEF DiscError
  <2>2. /\ IInv' /\ Interrupting' /\ Coming' = "none" /\ FailsForCause'
        /\ Coming = cause /\ cause # "none" /\ dma = 0 /\ dmaIstat = 0 /\ call # "sought"
        /\ why \subseteq why'
        /\ UNCHANGED <<irq, part, stat, mask, istat, reading, seeked, dma, dmaIstat>>
        /\ UNCHANGED <<sectors, transfers, call, want, tries, goal, fetched>>
        /\ state' = "IDLE" /\ delivered' = delivered \cup {"ERR"}
        /\ gotInt5' \in Bit /\ initialized' \in 0 .. 2 => OwnTypes'
    BY <2>1, TellRight DEF States, Opened
  <2>3. OwnTypes'
    BY <1>2, <2>1, <2>2 DEF Bit
  <2>4. state = "REINIT" /\ irq = "none" /\ seeked # "pending" /\ reading # 1
    BY <1>1, <1>2, <1>3, <1>6 DEF OInv, Answers
  <2>5. Answers'
    BY <2>1, <2>2, <2>4 DEF OInv, Answers
  <2>6. Booted'
    BY <1>3, <2>1, <2>2, <2>4 DEF OInv, Booted
  <2>7. Accounts' /\ ReadsWhole' /\ Caused'
    BY <1>1, <1>2, <2>2 DEF OInv, Accounts, ReadsWhole, Caused, Ends
  <2> QED
    BY <2>2, <2>3, <2>5, <2>6, <2>7 DEF OInv
<1> QED
  BY <1>2, <1>4, <1>5, <1>6 DEF Bit

LEMMA DispatchRight == ASSUME OInv, Dispatch PROVE OInv'
<1>1. DispatchFrame
  BY DEF Dispatch, DispatchFrame
<1> QED
  BY <1>1, DataReadyRight, CompleteRight, AcknowledgedRight, DiscErrorRight DEF Dispatch

-----------------------------------------------------------------------------
(* Nobody is forgotten.  In each state the response that takes the driver   *)
(* out of it is due or to be dispatched, or an event brings what it waits   *)
(* for; a read takes no audio for sectors, as it cleared the mode.          *)
Owed ==
    /\ state \in {"GETSTATUS", "SETMODE"} =>
          irq # "none" \/ Coming \in {"Acknowledge", "Complete", "DiskError"}
    /\ state \in {"READ_SETMODE", "SEEKL_SETLOC"} =>
          irq # "none" \/ Coming \in {"Acknowledge", "DiskError"}
    /\ state \in {"PAUSING", "REINIT"} => irq # "none" \/ Coming \in {"Complete", "DiskError"}
    /\ state = "SEEKL" => \/ irq # "none" \/ Coming \in {"Complete", "DiskError"}
                          \/ seeked = "pending" /\ "PLAY" \in pending
    /\ state = "READ" => \/ irq # "none" \/ Coming = "DiskError" \/ silenced = 1
                         \/ reading = 1 /\ "READ" \in pending
    /\ state \in {"READ_SETMODE", "READ"} => mode = {}
    /\ call \in {"seeking", "reading", "asking"} => state # "IDLE" \/ Ends # {}
    /\ call = "initializing" /\ initialized = 0 =>
          state = "INITIALIZING" /\ (irq # "none" \/ Coming \in {"Complete", "DiskError"})

(* What an event does about it, when no response waits *)
Heeds ==
    /\ irq' # irq /\ irq \in {"Pause", "Reset"} => stat' \in {"Complete", "DiskError"}
    /\ irq' # irq /\ irq = "Seek" => seeked' = "pending" /\ "PLAY" \in pending'
    /\ irq' # irq /\ irq = "Read" /\ mode = {} => reading' = 1 /\ "READ" \in pending'
    /\ irq = "none" /\ reading = 1 /\ "READ" \in pending =>
          \/ reading' = 1 /\ "READ" \in pending'
          \/ stat' = "DiskError" \/ silenced' = 1
    /\ irq = "none" /\ reading = 0 /\ seeked = "pending" /\ "PLAY" \in pending =>
          \/ seeked' = "pending" /\ "PLAY" \in pending'
          \/ stat' = "Complete"
    /\ mode = {} => mode' = {}

LEMMA ResponseHeeded ==
    ASSUME IInv, mask = 1, stat = "none", Interrupt, part = 2 => irq \in {"Pause", "Reset"}
    PROVE  Heeds
<1>1. "CDR" \in pending /\ irq # "none"
  BY OpenBiosAssumption DEF Interrupt, RepeatCommand, AnswerPlain, AnswerPlay, AnswerRead, AnswerSeek, AnswerInit,
         AnswerFirst, AnswerSecond, Answered, Respond, IInv, CommandDue
<1>2. CASE RepeatCommand
  BY <1>1, <1>2 DEF RepeatCommand, Heeds, disc
<1>3. ASSUME NEW c \in Commands, NEW bad,
             AnswerPlain(c, bad) \/ AnswerPlay(c, bad) \/ AnswerInit(c, bad)
      PROVE  Heeds
  BY <1>1, <1>3, OpenBiosAssumption DEF AnswerPlain, AnswerPlay, AnswerInit, Answered, Respond,
                                        IrqOf, Twice, Heeds
<1>4. ASSUME NEW c \in Commands, NEW bad, AnswerRead(c, bad) \/ AnswerSeek(c, bad)
      PROVE  Heeds
  BY <1>1, <1>4, OpenBiosAssumption DEF AnswerRead, AnswerSeek, Answered, Respond, IrqOf, Heeds
<1>5. ASSUME NEW c \in Commands, NEW bad, AnswerFirst(c, bad) PROVE Heeds
  BY <1>1, <1>5 DEF AnswerFirst, Second, Heeds
<1>6. ASSUME NEW c \in Commands, NEW bad, AnswerSecond(c, bad) PROVE Heeds
  <2>1. irq \in {"Pause", "Reset"} /\ SetIrq(Response(c, 2, drive, bad)) /\ UNCHANGED disc
    BY <1>6 DEF AnswerSecond, Respond
  <2>2. stat' \in {"Complete", "DiskError"}
    BY <2>1 DEF SetIrq, Response
  <2> QED
    BY <1>1, <2>1, <2>2 DEF Heeds, disc
<1> QED
  BY <1>2, <1>3, <1>4, <1>5, <1>6 DEF Interrupt

LEMMA SectorHeeded == ASSUME ReadInterrupt PROVE Heeds
<1>1. reading = 1 /\ reading' = 1 /\ irq = "none" /\ irq' = irq /\ mode' = mode
  BY DEF ReadInterrupt, PutOffRead, ReadSector, ReadFails, MayRead, host
<1>2. "READ" \in pending' \/ stat' = "DiskError"
  BY DEF ReadInterrupt, PutOffRead, ReadSector, ReadFails, MayRead, NextSector, SetIrq
<1> QED
  BY <1>1, <1>2 DEF Heeds

LEMMA SeekHeeded == ASSUME stat = "none", PlayInterrupt PROVE Heeds
<1>1. irq' = irq /\ mode' = mode /\ reading' = reading /\ ("READ" \in pending => "READ" \in pending')
  BY DEF PlayInterrupt, PlayNothing, PlayAudio, PlayEnd, host
<1>2. seeked = "pending" /\ irq = "none" => stat' = "Complete"
  <2> SUFFICES ASSUME seeked = "pending", irq = "none" PROVE stat' = "Complete"
    OBVIOUS
  <2>1. SeekEnds = "Complete"
    BY DEF SeekEnds
  <2>2. \A ends : AudioTells(SeekEnds, ends) = "Complete"
    BY <2>1 DEF AudioTells, Pauses, Reports
  <2>3. PlayEnd("Complete")
    BY <2>1, <2>2 DEF PlayInterrupt, PlayNothing, PlayAudio
  <2> QED
    BY <2>3 DEF PlayEnd, SetIrq
<1> QED
  BY <1>1, <1>2 DEF Heeds

(* The lid takes only the event of the sectors, and that is noted. *)
LEMMA LidHeeded ==
    ASSUME NEW e, NEW p, LidSeek(e, p), Silences, reading \in Bit, silenced \in Bit,
           "READ" \in pending => "READ" \in e, "PLAY" \in pending => "PLAY" \in e
    PROVE  /\ "PLAY" \in pending => "PLAY" \in pending'
           /\ reading = 1 /\ "READ" \in pending =>
                 (reading' = 1 /\ "READ" \in pending') \/ silenced' = 1
           /\ silenced' \in {silenced, 1}
<1>1. "PLAY" \in pending => "PLAY" \in pending'
  BY DEF LidSeek, StopReading
<1>2. CASE reading' = reading
  <2>1. drive = "lidopen" /\ shell = 0 => reading = 0
    BY <1>2 DEF LidSeek, Bit
  <2>2. reading = 1 /\ "READ" \in pending => "READ" \in pending'
    BY <2>1 DEF LidSeek
  <2> QED
    BY <1>1, <1>2, <2>2 DEF Silences
<1>3. CASE reading' # reading
  <2>1. reading = 1 /\ reading' = 0
    BY <1>3 DEF LidSeek, Bit
  <2> QED
    BY <1>1, <2>1 DEF Silences
<1> QED
  BY <1>2, <1>3

LEMMA HeedsOwed ==
    ASSUME OInv, Owed, Hurry = {}, Timely, Hears, Heeds, Answers', UNCHANGED DriverVars,
           silenced' \in {silenced, 1}
    PROVE  Owed'
<1>1. UNCHANGED <<state, gotInt5, initialized, sectors, transfers, delivered, isr, cause, dma,
                  dmaIstat, call, want, tries, goal, fetched, result, why>>
  BY DEF DriverVars, machine, handler, channel, reader
<1>2. isr = "none" /\ call # "sought" /\ Coming = "none"
  BY DEF Timely, OInv, Interrupting, Coming
<1>3. Coming' = stat' /\ Ends' = Ends
  BY <1>1, <1>2 DEF Coming, Ends
<1>4. irq # "none" => DueIn(state, irq)
  BY <1>2 DEF OInv, Answers
<1>5. irq' # irq => irq # "none" /\ stat' \in {"Acknowledge", "Complete", "DiskError"}
  BY DEF Hears
<1>6. reading \in Bit /\ (reading = 1 => state = "READ")
  BY DEF OInv, Answers, IInv, TypeOK
<1>7. state \in {"GETSTATUS", "SETMODE"} =>
         irq' # "none" \/ Coming' \in {"Acknowledge", "Complete", "DiskError"}
  BY <1>2, <1>3, <1>5 DEF Owed
<1>8. state \in {"READ_SETMODE", "SEEKL_SETLOC"} =>
         irq' # "none" \/ Coming' \in {"Acknowledge", "DiskError"}
  BY <1>1, <1>2, <1>3, <1>5 DEF Owed, Answers
<1>9. state \in {"PAUSING", "REINIT", "INITIALIZING"} /\ irq # "none" =>
         irq' # "none" \/ Coming' \in {"Complete", "DiskError"}
  BY <1>3, <1>4 DEF Heeds, DueIn
<1>10. state = "SEEKL" => \/ irq' # "none" \/ Coming' \in {"Complete", "DiskError"}
                          \/ seeked' = "pending" /\ "PLAY" \in pending'
  <2>1. CASE irq # "none"
    BY <1>4, <2>1 DEF Heeds, DueIn
  <2>2. CASE irq = "none"
    BY <1>2, <1>3, <1>6, <2>2 DEF Owed, Heeds, Bit
  <2> QED
    BY <2>1, <2>2
<1>11. state = "READ" => \/ irq' # "none" \/ Coming' = "DiskError" \/ silenced' = 1
                         \/ reading' = 1 /\ "READ" \in pending'
  <2>1. CASE irq # "none"
    BY <1>4, <2>1 DEF Owed, Heeds, DueIn
  <2>2. CASE irq = "none"
    BY <1>2, <1>3, <2>2 DEF Owed, Heeds
  <2> QED
    BY <2>1, <2>2
<1>12. state \in {"READ_SETMODE", "READ"} => mode' = {}
  BY DEF Owed, Heeds
<1>13. call = "initializing" /\ initialized = 0 => state = "INITIALIZING" /\ irq # "none"
  BY <1>2 DEF Owed
<1>14. call \in {"seeking", "reading", "asking"} => state # "IDLE" \/ Ends # {}
  BY DEF Owed
<1>15. state \in {"PAUSING", "REINIT"} => irq # "none"
  BY <1>2 DEF Owed
<1> QED
  BY <1>1, <1>3, <1>7, <1>8, <1>9, <1>10, <1>11, <1>12, <1>13, <1>14, <1>15 DEF Owed

LEMMA EventOwes ==
    ASSUME OInv, Owed, OInv', Hurry = {}, Responses \/ Sector \/ SeekOver \/ LidEvent
    PROVE  Owed'
<1>0. /\ mask = 1 /\ stat = "none" /\ istat = 0 /\ IInv
      /\ silenced \in Bit /\ reading \in Bit /\ pending \subseteq Events
      /\ part = 2 => irq \in {"Pause", "Reset"}
  BY DEF Responses, Sector, SeekOver, LidEvent, Event, Timely, OInv, Interrupting, OwnTypes, IInv,
         TypeOK, Answers
<1>1. Timely /\ UNCHANGED DriverVars /\ Answers'
  BY DEF Responses, Sector, SeekOver, LidEvent, Event, DriverVars, OInv
<1>2. CASE Responses
  <2>1. Interrupt /\ silenced' = silenced
    BY <1>2 DEF Responses, Event
  <2>2. Hears /\ Heeds
    BY <1>0, <2>1, ResponseHeard, ResponseHeeded
  <2> QED
    BY <1>1, <2>1, <2>2, HeedsOwed
<1>3. CASE Sector
  <2>1. ReadInterrupt /\ silenced' = silenced
    BY <1>3 DEF Sector, Event
  <2>2. Hears /\ Heeds
    BY <1>0, <2>1, SectorHeard, SectorHeeded
  <2> QED
    BY <1>1, <2>1, <2>2, HeedsOwed
<1>4. CASE SeekOver
  <2>1. PlayInterrupt /\ silenced' = silenced
    BY <1>4 DEF SeekOver, Event
  <2>2. Hears /\ Heeds
    BY <1>0, <2>1, SeekHeard, SeekHeeded
  <2> QED
    BY <1>1, <2>1, <2>2, HeedsOwed
<1>5. CASE LidEvent
  <2>1. /\ LidSeek(pending \ {"LID"}, play) /\ Silences
        /\ UNCHANGED <<host, answer, seeked, mode, rescheduled>>
    BY <1>5 DEF LidEvent, Event, LidSeekInterrupt
  <2>2. UNCHANGED <<irq, part, stat, mask, istat, seeked>> /\ reading' \in {reading, 0}
    BY <1>0, <2>1, LidHeard
  <2>3. /\ "PLAY" \in pending => "PLAY" \in pending'
        /\ reading = 1 /\ "READ" \in pending =>
              (reading' = 1 /\ "READ" \in pending') \/ silenced' = 1
        /\ silenced' \in {silenced, 1}
    BY <1>0, <2>1, LidHeeded
  <2>4. Hears
    BY <1>0, <2>2 DEF Hears, Bit
  <2>5. Heeds
    BY <2>1, <2>2, <2>3 DEF Heeds
  <2> QED
    BY <1>1, <2>3, <2>4, <2>5, HeedsOwed
<1> QED
  BY <1>2, <1>3, <1>4, <1>5

LEMMA LidMoveOwes == ASSUME OInv, Owed, Lid PROVE Owed'
<1>1. PICK l \in {"open", "closed"} : MoveLid(l)
  BY DEF Lid
<1>2. reading \in Bit /\ silenced \in Bit
  BY DEF OInv, IInv, TypeOK, OwnTypes
<1>3. LidSeek(pending, 0) /\ Silences /\ UNCHANGED <<host, answer, seeked, mode, rescheduled>>
  BY <1>1 DEF MoveLid, Lid
<1>4. /\ "PLAY" \in pending => "PLAY" \in pending'
      /\ reading = 1 /\ "READ" \in pending => (reading' = 1 /\ "READ" \in pending') \/ silenced' = 1
      /\ silenced' \in {silenced, 1}
  BY <1>2, <1>3, LidHeeded
<1>5. UNCHANGED <<irq, stat, state, initialized, delivered, isr, cause, call>>
  BY <1>3 DEF Lid, machine, handler, host, answer
<1>6. Coming' = Coming /\ Ends' = Ends
  BY <1>5 DEF Coming, Ends
<1> QED
  BY <1>3, <1>4, <1>5, <1>6 DEF Owed

(* A step that leaves what is due as it is, *)
LEMMA StillOwed ==
    ASSUME Owed, UNCHANGED <<irq, reading, seeked, mode, pending, state, silenced>>,
           Coming' = Coming,
           call' \in {"seeking", "reading", "asking"} => call' = call /\ Ends \subseteq Ends',
           call' = "initializing" => call' = call /\ initialized' = initialized
    PROVE  Owed'
BY DEF Owed

(* and one that leaves a command due. *)
LEMMA OwedWhenDue ==
    ASSUME irq' # "none",
           state' \in {"READ_SETMODE", "READ"} => mode' = {},
           call' \in {"seeking", "reading", "asking"} => state' # "IDLE",
           call' = "initializing" /\ initialized' = 0 => state' = "INITIALIZING"
    PROVE  Owed'
BY DEF Owed

LEMMA ProgramOwes == ASSUME OInv, Owed, OInv', Starts \/ GoesOn \/ GiveUp PROVE Owed'
<1>1. CASE PrepareInit
  BY <1>1 DEF PrepareInit, Owed
<1>2. CASE SendInit
  <2>1. irq' = "Reset" /\ call' = "initializing"
    BY <1>2 DEF SendInit, WriteCommand, AddIrqQueue, IrqOf
  <2>2. initialized' = 0 => state' = "INITIALIZING"
    BY <2>1 DEF OInv, Booted
  <2>3. state' \notin {"READ_SETMODE", "READ"}
    BY <2>1 DEF OInv, Booted
  <2> QED
    BY <2>1, <2>2, <2>3, OwedWhenDue
<1>3. CASE \/ InitReturns \/ Delay \/ Sought \/ ReadReturns \/ StatusReturns \/ GiveUp
           \/ (\E e \in Opened : TestEvent(e)) \/ (\E n \in 1 .. Count : BlockReading(n))
  <2>1. /\ UNCHANGED <<cd, machine, handler, silenced>>
        /\ call' \in {"boot", "delay", "program", "seekl", "read"}
    BY <1>3 DEF InitReturns, Delay, Sought, ReadReturns, StatusReturns, GiveUp, TestEvent,
                BlockReading, Begin, Return, Runs, history
  <2>2. UNCHANGED <<irq, stat, reading, seeked, mode, pending, state, isr, cause>>
    BY <2>1 DEF cd, host, answer, disc, machine, handler
  <2>3. Coming' = Coming
    BY <2>2 DEF Coming
  <2> QED
    BY <2>1, <2>2, <2>3, StillOwed
<1>4. CASE SeekL
  <2>1. irq' = "Setloc" /\ state' = "IDLE" /\ call' = "sought"
    BY <1>4 DEF SeekL, WriteCommand, AddIrqQueue, IrqOf, machine
  <2> QED
    BY <2>1, OwedWhenDue
<1>5. CASE SetSeekState
  <2>1. call = "sought" /\ irq' = irq /\ state' = "SEEKL_SETLOC" /\ call' = "seeking"
    BY <1>5 DEF SetSeekState, Runs, cd, host
  <2>2. irq = "Setloc"
    BY <2>1 DEF OInv, Booted
  <2> QED
    BY <2>1, <2>2, OwedWhenDue
<1>6. CASE BlockRead \/ \E n \in 1 .. Count : DirectRead(n)
  <2>1. /\ irq' = "Setmode" /\ mode' = {} /\ state' = "READ_SETMODE"
        /\ call' \in {"reading", "program"}
    BY <1>6 DEF BlockRead, DirectRead, Begin, Read, WriteCommand, AddIrqQueue, IrqOf
  <2> QED
    BY <2>1, OwedWhenDue
<1>7. CASE GetStatus \/ DirectSetMode
  <2>1. /\ irq' \in {"Getstat", "Setmode"} /\ state' \in {"GETSTATUS", "SETMODE"}
        /\ call' \in {"asking", "program"}
    BY <1>7 DEF GetStatus, DirectSetMode, Begin, WriteCommand, AddIrqQueue, IrqOf
  <2> QED
    BY <2>1, OwedWhenDue
<1> QED
  BY <1>1, <1>2, <1>3, <1>4, <1>5, <1>6, <1>7 DEF Starts, GoesOn, Booting

LEMMA InterruptOwes ==
    ASSUME OInv, Owed, Verify \/ IOHandler \/ TransferEnds \/ DMAInterrupt \/ UNCHANGED vars
    PROVE  Owed'
<1>1. /\ UNCHANGED <<irq, reading, seeked, mode, pending, state, silenced, call, initialized>>
      /\ delivered \subseteq delivered'
  BY DEF Verify, Acknowledge, IOHandler, ClearIstat, TransferEnds, DMAInterrupt, Deliver,
         machine, history, vars, cd, host, disc
<1>2. Coming' = Coming
  <2>1. CASE Verify
    BY <2>1 DEF Verify, Coming
  <2>2. CASE IOHandler
    BY <2>2 DEF IOHandler, ClearIstat, Coming
  <2>3. CASE TransferEnds \/ DMAInterrupt \/ UNCHANGED vars
    BY <2>3 DEF TransferEnds, DMAInterrupt, vars, cd, answer, handler, Coming
  <2> QED
    BY <2>1, <2>2, <2>3
<1>3. Ends \subseteq Ends'
  BY <1>1 DEF Ends
<1> QED
  BY <1>1, <1>2, <1>3, StillOwed

(* The response that was due is the one the state waits for, and the        *)
(* dispatch answers it with a command, an event or nothing.                 *)
LEMMA DispatchOwes == ASSUME OInv, Owed, Dispatch PROVE Owed'
<1>1. /\ isr = "verified" /\ Coming = cause /\ cause # "none" /\ isr' = "handled"
      /\ UNCHANGED <<call, silenced>>
  BY DEF Dispatch, Coming, OInv, Interrupting
<1>2. state = "IDLE" \/ Ends = {}
  BY DEF OInv, Answers
<1>3. ASSUME NEW s, NEW c \in DriverCommands, Send(s, c), s \notin {"IDLE", "READ_SETMODE"},
             s = "READ" => mode = {} /\ c # "Setmode", initialized' = initialized,
             s = "INITIALIZING" \/ ~(call = "initializing" /\ initialized = 0)
      PROVE  Owed'
  <2>1. irq' = c /\ c # "none" /\ state' = s /\ (s = "READ" => mode' = mode)
    BY <1>3 DEF Send, WriteCommand, AddIrqQueue, IrqOf, DriverCommands
  <2> QED
    BY <1>1, <1>3, <2>1, OwedWhenDue
<1>4. ASSUME NEW es, Tell("IDLE", es),
             initialized' # 0 \/ ~(call = "initializing" /\ initialized = 0),
             es = {} => state \in {"IDLE", "INITIALIZING"},
             es \subseteq {"DNE", "ERR"},
             initialized' = 0 => initialized = 0
      PROVE  Owed'
  <2>1. state' = "IDLE" /\ delivered' = delivered \cup es
    BY <1>4 DEF Tell, Deliver
  <2>2. call \in {"seeking", "reading", "asking"} => state # "INITIALIZING"
    BY DEF OInv, Booted
  <2>3. call \in {"seeking", "reading", "asking"} => Ends' # {}
    <3>1. CASE es = {}
      BY <1>4, <2>1, <2>2, <3>1 DEF Owed, Ends
    <3>2. CASE es # {}
      BY <1>4, <2>1, <3>2 DEF Ends
    <3> QED
      BY <3>1, <3>2
  <2> QED
    BY <1>1, <1>4, <2>1, <2>3 DEF Owed
<1>5. ASSUME Nothing \/ UNCHANGED <<cd, state, delivered>>,
             initialized' \in {initialized, 2},
             \/ cause = "DataReady"
             \/ cause = "Acknowledge" /\ state \notin {"GETSTATUS", "SETMODE", "READ_SETMODE", "SEEKL_SETLOC"}
             \/ state = "IDLE"
             \/ state = "INITIALIZING" /\ initialized' # 0
      PROVE  Owed'
  <2>1. UNCHANGED <<cd, state, delivered>>
    BY <1>5 DEF Nothing, Tell, Deliver
  <2>2. UNCHANGED <<irq, reading, seeked, mode, pending>> /\ Ends' = Ends
    BY <2>1 DEF cd, host, disc, Ends
  <2> QED
    BY <1>1, <1>5, <2>1, <2>2 DEF Owed
<1>6. call = "initializing" /\ initialized = 0 => state = "INITIALIZING"
  BY DEF Owed
<1>7. CASE cause = "DataReady" /\ DataReady
  <2>1. CASE state = "READ"
    <3>1. (sectors' = 0 /\ Send("PAUSING", "Pause")) \/ UNCHANGED <<cd, state, delivered>>
      BY <1>7, <2>1 DEF DataReady, InitiateDMA
    <3>2. initialized' = initialized
      BY <1>7, <2>1 DEF DataReady, InitiateDMA
    <3> QED
      BY <1>3, <1>5, <1>6, <1>7, <2>1, <3>1, <3>2 DEF DriverCommands
  <2>2. CASE state # "READ"
    BY <1>5, <1>7, <2>2 DEF DataReady
  <2> QED
    BY <2>1, <2>2
<1>8. CASE cause = "Complete" /\ Complete
  <2>1. CASE state = "INITIALIZING"
    BY <1>4, <1>8, <2>1 DEF Complete
  <2>2. CASE state = "REINIT"
    BY <1>4, <1>6, <1>8, <2>2 DEF Complete
  <2>3. CASE state = "IDLE"
    BY <1>5, <1>8, <2>3 DEF Complete
  <2>4. CASE state \notin {"INITIALIZING", "REINIT", "IDLE"}
    BY <1>4, <1>6, <1>8, <2>4 DEF Complete
  <2> QED
    BY <2>1, <2>2, <2>3, <2>4
<1>9. CASE cause = "Acknowledge" /\ Acknowledged
  <2>0. initialized' = initialized
    BY <1>9 DEF Acknowledged
  <2>1. CASE state \in {"SETMODE", "GETSTATUS"}
    BY <1>4, <1>6, <1>9, <2>0, <2>1 DEF Acknowledged
  <2>2. CASE state = "READ_SETMODE"
    <3>1. Send("READ", "Read") /\ mode = {}
      BY <1>9, <2>2 DEF Acknowledged, AfterSetmode, Owed
    <3> QED
      BY <1>3, <1>6, <2>0, <2>2, <3>1 DEF DriverCommands
  <2>3. CASE state = "SEEKL_SETLOC"
    BY <1>3, <1>6, <1>9, <2>0, <2>3 DEF Acknowledged, DriverCommands
  <2>4. CASE state \notin {"SETMODE", "GETSTATUS", "READ_SETMODE", "SEEKL_SETLOC"}
    BY <1>5, <1>9, <2>0, <2>4 DEF Acknowledged
  <2> QED
    BY <2>1, <2>2, <2>3, <2>4
<1>10. CASE cause = "DiskError" /\ DiscError
  <2>1. CASE state = "INITIALIZING"
    <3>1. Nothing /\ initialized' = 2
      BY <1>10, <2>1 DEF DiscError
    <3> QED
      BY <1>5, <2>1, <3>1
  <2>2. CASE state # "INITIALIZING" /\ gotInt5 = 0
    BY <1>3, <1>6, <1>10, <2>2 DEF DiscError, DriverCommands
  <2>3. CASE state # "INITIALIZING" /\ gotInt5 # 0
    BY <1>4, <1>6, <1>10, <2>3 DEF DiscError
  <2> QED
    BY <2>1, <2>2, <2>3
<1> QED
  BY <1>7, <1>8, <1>9, <1>10 DEF Dispatch

-----------------------------------------------------------------------------
LEMMA DriverStepRight == ASSUME Hurry = {}, OInv, [OpenBiosNext]_vars PROVE OInv'
<1>1. CASE UNCHANGED vars
  <2>1. IInv' /\ UNCHANGED <<irq, part, stat, mask, istat, reading, seeked>>
    BY <1>1, Unwritten DEF vars
  <2>2. UNCHANGED <<state, gotInt5, initialized, sectors, transfers, delivered, isr, cause, dma,
                    dmaIstat, call, want, tries, goal, fetched, result, why, silenced, errors, moves>>
    BY <1>1 DEF vars, machine, handler, channel, reader, history, bounds
  <2>3. Coming' = Coming /\ Ends' = Ends
    BY <2>1, <2>2 DEF Coming, Ends
  <2>4. OwnTypes' /\ Interrupting'
    BY <2>1, <2>2 DEF OInv, OwnTypes, Interrupting
  <2>5. Answers' /\ Booted'
    BY <2>1, <2>2, <2>3 DEF OInv, Answers, Booted
  <2>6. Accounts' /\ ReadsWhole' /\ Caused' /\ FailsForCause'
    BY <2>2 DEF OInv, Accounts, ReadsWhole, Caused, FailsForCause
  <2> QED
    BY <2>1, <2>4, <2>5, <2>6 DEF OInv
<1> QED
  BY <1>1, ProgramRight, EventRight, LidMoveRight, VerifyRight, DispatchRight, HandlerRight, TransferRight
     DEF OpenBiosNext, Handler

LEMMA DriverRight == Hurry = {} => (OpenBiosSpec => []OInv)
<1> SUFFICES ASSUME Hurry = {} PROVE OpenBiosSpec => []OInv
  OBVIOUS
<1>1. OInv /\ [OpenBiosNext]_vars => OInv'
  BY DriverStepRight
<1> QED
  BY OpenBiosInitRight, <1>1, PTL DEF OpenBiosSpec

LEMMA NobodyForgottenRight == Hurry = {} => (OpenBiosSpec => [](OInv /\ NobodyForgotten))
<1> SUFFICES ASSUME Hurry = {} PROVE OpenBiosSpec => [](OInv /\ NobodyForgotten)
  OBVIOUS
<1>1. OpenBiosInit => Owed
  BY DEF OpenBiosInit, Owed
<1>2. OInv /\ Owed /\ [OpenBiosNext]_vars => OInv' /\ Owed'
  BY DriverStepRight, ProgramOwes, EventOwes, LidMoveOwes, DispatchOwes, InterruptOwes
     DEF OpenBiosNext, Handler
<1>3. OInv /\ Owed => NobodyForgotten
  <2> SUFFICES ASSUME OInv, Owed PROVE NobodyForgotten
    OBVIOUS
  <2>1. Coming # "none" => Comes
    BY DEF Coming, Comes
  <2>2. irq # "none" => Comes
    BY DEF Comes
  <2>3. state \in States /\ initialized \in 0 .. 2
    BY DEF OInv, OwnTypes
  <2> QED
    BY <2>1, <2>2, <2>3 DEF Owed, NobodyForgotten, States, Ends, OInv, Answers
<1> QED
  BY OpenBiosInitRight, <1>1, <1>2, <1>3, PTL DEF OpenBiosSpec

(* A program that is told of the end of an operation finds the driver ready *)
(* for the next one, no event is left over, no response goes by without its *)
(* interrupt, and nobody waits for what nobody will do: for every number of *)
(* sectors, tries, errors and movements of the lid, as long as nothing      *)
(* holds the program up between a command and the state it sets for it      *)
(* (cdrom.c:41).                                                            *)
THEOREM DriverStaysSound == Hurry = {} => (OpenBiosSpec => []DriverSound)
<1>1. OInv /\ NobodyForgotten => DriverSound
  BY DEF OInv, OwnTypes, IInv, Interrupting, Answers, Ends, DriverSound, OpenBiosTypeOK
<1> QED
  BY <1>1, NobodyForgottenRight, PTL

(* What cdromBlockReading is told is done has arrived whole, whatever tries *)
(* failed before (helpers.c).                                               *)
THEOREM SectorsArrive == Hurry = {} => (OpenBiosSpec => []ReadsWhole)
<1>1. OInv => ReadsWhole
  BY DEF OInv
<1> QED
  BY <1>1, DriverRight, PTL

(* A call only fails because of an error of the disc, or because a call of  *)
(* the program that did not wait for the driver left it busy (helpers.c).   *)
THEOREM CallsFailForCause == Hurry = {} => (OpenBiosSpec => []FailsForCause)
<1>1. OInv => FailsForCause
  BY DEF OInv
<1> QED
  BY <1>1, DriverRight, PTL
=============================================================================
