------------------------------- MODULE CdRom -------------------------------
(***************************************************************************)
(* The CD-ROM controller of the emulator (src/core/cdrom.cc): commands,    *)
(* first and second responses, reading, audio, seeking and the lid.        *)
(*                                                                         *)
(* The controller is driven by writes of the guest and by four events of   *)
(* the CPU's scheduler: CDR (responses), READ (sectors), PLAY (audio and   *)
(* the end of seeks) and LID.  An event fires some time after it was       *)
(* scheduled: its delay is left open.  A handler that finds a response not *)
(* yet acknowledged only schedules its event again, which changes nothing  *)
(* here: it is a guard.                                                    *)
(*                                                                         *)
(* Commands with the same control stand for one another: Read is ReadN and *)
(* ReadS, Seek is SeekL and SeekP, Forward is also Backward, GetTN is also *)
(* GetTD, Getparam is also Test, Mute is also Demute, Setfilter, GetlocL,  *)
(* GetlocP and GetQ, Unknown is every one that interrupt() has no case     *)
(* for, but Sync.  Positions, results and the sector buffer are left out.  *)
(***************************************************************************)
EXTENDS Naturals

CONSTANTS
    Commands,   \* the commands the guest uses
    ModeSets    \* the modes it sets

AllCommands == {"Getstat", "Setloc", "Play", "Forward", "Read", "Standby", "Stop", "Pause",
                "Reset", "Mute", "Setmode", "Getparam", "GetTN", "Seek", "ID", "ReadT",
                "Init", "ReadToc", "Sync", "Unknown"}

Modes == {"CDDA", "AUTOPAUSE", "REPORT", "STRSND"}

ASSUME CommandsAssumption == Commands \subseteq AllCommands /\ ModeSets \subseteq SUBSET Modes

VARIABLES
    irq,          \* m_irq: the command whose response is due, or "none": 0
    part,         \* 1: its first response, 2: its second one (m_irq & 0x100)
    repeated,     \* m_irqRepeated
    stat,         \* m_stat: the response the guest has not acknowledged
    busy,         \* BUSYSTS in m_ctrl
    mask,         \* m_reg2: whether responses raise the interrupt
    istat,        \* the CD-ROM bit of ISTAT
    reading, play, seeked, mode,      \* m_reading, m_play, m_seeked, m_mode
    rescheduled,  \* m_readRescheduled
    drive,        \* m_driveState
    shell,        \* STATUS_SHELLOPEN in m_statP
    rotating,     \* STATUS_ROTATING in m_statP
    lid,          \* isLidOpened()
    pending       \* the events scheduled

host   == <<irq, part, repeated, busy>>
answer == <<stat, mask, istat>>
disc   == <<reading, play, seeked, mode, rescheduled>>
motor  == <<drive, shell, rotating, lid>>
cd     == <<host, answer, disc, motor, pending>>

Bit     == 0..1
Causes  == {"DataReady", "Complete", "Acknowledge", "DataEnd", "DiskError"}
Drives  == {"standby", "lidopen", "rescan", "prepare", "stopped"}
Events  == {"CDR", "READ", "PLAY", "LID"}

TypeOK ==
    /\ irq \in (Commands \ {"Sync"}) \cup {"none"} /\ part \in 1..2
    /\ repeated \in Bit /\ busy \in Bit /\ mask \in Bit /\ istat \in Bit
    /\ stat \in Causes \cup {"none"}
    /\ reading \in Bit /\ play \in Bit /\ rescheduled \in Bit
    /\ seeked \in {"pending", "done"}
    /\ mode \subseteq Modes
    /\ drive \in Drives /\ shell \in Bit /\ rotating \in Bit
    /\ lid \in {"open", "closed"}
    /\ pending \subseteq Events

(* CDRomImpl::reset, after which nothing is scheduled *)
Init ==
    /\ irq = "none" /\ part = 1 /\ repeated = 0 /\ busy = 0
    /\ stat = "none" /\ mask = 1 /\ istat = 0
    /\ reading = 0 /\ play = 0 /\ seeked = "pending" /\ mode = {} /\ rescheduled = 0
    /\ drive = "standby" /\ shell = 0 /\ rotating = 1
    /\ lid = "closed"
    /\ pending = {}

-----------------------------------------------------------------------------
(* setIrq: the response s raises the interrupt if it is enabled *)
SetIrq_Mutant(s) == stat' = s /\ UNCHANGED <<mask, istat>>
SetIrq(s) ==
    /\ stat' = s
    /\ istat' = IF s # "none" /\ mask = 1 THEN 1 ELSE istat
    /\ UNCHANGED mask

(* m_irqRepeated once a command is written again *)
Repeated == 1

(* m_irq while command c is due.  The number of Sync is 0: while it is due, *)
(* the controller takes it that nothing is.                                 *)
IrqOf(c) == IF c = "Sync" THEN "none" ELSE c

(* AddIrqQueue, from a write: a command already due is only marked repeated; *)
(* any other one takes the place of what was due.                           *)
AddIrqQueue(c) ==
    \/ /\ irq = c
       /\ repeated' = Repeated
       /\ UNCHANGED <<irq, part>>
    \/ /\ irq # c
       /\ irq' = IrqOf(c) /\ part' = 1
       /\ UNCHANGED repeated

(* The events left when reading stops *)
StopReading_Mutant(events) == events
StopReading(events) == IF reading = 1 THEN events \ {"READ"} ELSE events

(* The commands that stop reading and audio as soon as they are written *)
StopAtOnce_Mutant == {"Read", "Reset", "Init"}
StopAtOnce == {"Read", "Pause", "Reset", "Init"}

(* write1.  A Setloc far from the current position leaves a seek pending;   *)
(* Setmode takes effect at once.                                            *)
WriteCommand(c, far, m) ==
    /\ AddIrqQueue(c)
    /\ busy' = 1
    /\ LET stop == c \in StopAtOnce
       IN  /\ pending' = {"CDR"} \cup IF stop THEN StopReading(pending) ELSE pending
           /\ reading' = IF stop THEN 0 ELSE reading
           /\ play' = IF stop \/ (c = "Setmode" /\ "CDDA" \notin m) THEN 0 ELSE play
    /\ seeked' = CASE c = "Setloc" /\ far = "yes" -> "pending"
                   [] c \in {"Reset", "Init"}   -> "done"
                   [] OTHER                     -> seeked
    /\ mode' = IF c = "Setmode" THEN m ELSE mode
    /\ UNCHANGED <<answer, rescheduled, motor>>

(* write3: the guest acknowledges the response *)
Acknowledge ==
    /\ stat # "none"
    /\ stat' = "none"
    /\ UNCHANGED <<host, mask, istat, disc, motor, pending>>

(* write2: the guest enables or disables the responses' interrupt *)
WriteMask(m) ==
    /\ mask' = m
    /\ istat' = IF stat # "none" /\ m = 1 THEN 1 ELSE istat
    /\ UNCHANGED <<host, stat, disc, motor, pending>>

(* The guest acknowledges the interrupt in ISTAT *)
ClearIstat ==
    /\ istat = 1
    /\ istat' = 0
    /\ UNCHANGED <<host, stat, mask, disc, motor, pending>>

-----------------------------------------------------------------------------
(* interrupt, the CDR event *)

(* Commands and second responses that the drive serves at any time, and     *)
(* the commands that start a stopped drive                                  *)
NoBusyError(c, p) == IF p = 1 THEN c \in {"Getstat", "Reset", "Setmode", "Getparam", "Init", "ReadToc"}
                              ELSE c = "ReadToc"
Spins(c) == /\ drive = "stopped"
            /\ c \in {"Play", "Read", "Standby", "Reset", "ReadT", "Seek", "ReadToc"}
NotReady == {"lidopen", "rescan", "prepare"}

(* The commands answered twice: Standby only starts a stopped drive *)
Twice(c) == \/ c \in {"Stop", "Pause", "Reset", "ID", "ReadT", "ReadToc"}
            \/ c = "Standby" /\ drive = "stopped"

(* When a response tells of an error, where d is the state the command left *)
(* the drive in and bad says that there is no readable disc                 *)
Fails(c, p, d, bad) ==
    \/ c \in {"Sync", "Unknown"}
    \/ c = "Standby" /\ p = 1 /\ drive # "stopped"
    \/ c = "GetTN" /\ bad = "yes"
    \/ c = "ID" /\ p = 2 /\ bad = "yes"
    \/ d \in NotReady /\ ~NoBusyError(c, p)

Response(c, p, d, bad) ==
    IF Fails(c, p, d, bad) THEN "DiskError"
    ELSE IF c = "Forward" \/ p = 2 THEN "Complete" ELSE "Acknowledge"

(* Where a first response leaves the drive *)
DriveAfter(c) ==
    IF c = "Stop" THEN "stopped" ELSE IF c = "Init" THEN "rescan"
    ELSE IF Spins(c) THEN "standby" ELSE drive

(* A repeated command that fires exactly on time is acknowledged and left   *)
(* due: m_eCycle is compared with a difference that is then zero, and wraps *)
(* around to a huge one otherwise.                                          *)
RepeatCommand ==
    /\ "CDR" \in pending
    /\ stat = "none"
    /\ repeated = 1
    /\ repeated' = 0 /\ busy' = 0
    /\ SetIrq("Acknowledge")
    /\ UNCHANGED <<irq, part, disc, motor, pending>>

(* What every other response starts with *)
Respond(c, p, d, bad) ==
    /\ "CDR" \in pending
    /\ stat = "none"
    /\ irq = IrqOf(c) /\ part = p
    /\ repeated' = 0
    /\ SetIrq(Response(c, p, d, bad))

(* What is due after a response: nothing, or the second one *)
Done_Mutant == irq' = "none" /\ part' = 1 /\ busy' = busy
Done   == irq' = "none" /\ part' = 1 /\ busy' = 0
Second_Mutant == irq' = "none" /\ part' = 1
Second == irq' = irq /\ part' = 2

(* Commands without a second response, by what they start *)
Answered(c, bad) ==
    /\ Respond(c, 1, DriveAfter(c), bad)
    /\ Done
    /\ drive' = DriveAfter(c)
    /\ rotating' = IF Spins(c) THEN 1 ELSE rotating
    /\ UNCHANGED <<lid, mode, rescheduled>>

AnswerPlain(c, bad) ==
    /\ c \notin {"Play", "Read", "Seek", "Init"}
    /\ ~Twice(c)
    /\ Answered(c, bad)
    /\ shell' = IF c = "Getstat" /\ drive # "lidopen" THEN 0 ELSE shell
    /\ pending' = pending \ {"CDR"}
    /\ UNCHANGED <<reading, play, seeked>>

(* Play, and Read of an audio track in CDDA mode *)
AnswerPlay(c, bad) ==
    /\ c = "Play" \/ (c = "Read" /\ "CDDA" \in mode)
    /\ Answered(c, bad)
    /\ play' = 1 /\ seeked' = "done"
    /\ pending' = (pending \ {"CDR"}) \cup {"PLAY"}
    /\ UNCHANGED <<reading, shell>>

AnswerRead(c, bad) ==
    /\ c = "Read"
    /\ Answered(c, bad)
    /\ reading' = 1
    /\ pending' = (pending \ {"CDR"}) \cup {"READ"}
    /\ UNCHANGED <<play, seeked, shell>>

AnswerSeek(c, bad) ==
    /\ c = "Seek"
    /\ Answered(c, bad)
    /\ play' = 0 /\ reading' = 0 /\ seeked' = "pending"
    /\ pending' = (StopReading(pending) \ {"CDR"}) \cup {"PLAY"}
    /\ UNCHANGED shell

InitEvents_Mutant == pending \ {"CDR"}
InitEvents == (pending \ {"CDR"}) \cup {"LID"}

AnswerInit(c, bad) ==
    /\ c = "Init"
    /\ Answered(c, bad)
    /\ shell' = 1
    /\ pending' = InitEvents
    /\ UNCHANGED <<reading, play, seeked>>

(* The first of two responses.  Pause leaves the controller busy, and lets  *)
(* a PLAY event go by unless the drive stands by.                           *)
AnswerFirst(c, bad) ==
    /\ Twice(c)
    /\ Respond(c, 1, DriveAfter(c), bad)
    /\ Second
    /\ busy' = IF c = "Pause" THEN 1 ELSE 0
    /\ drive' = DriveAfter(c)
    /\ rotating' = IF Spins(c) THEN 1 ELSE rotating
    /\ play' = IF c = "Stop" THEN 0 ELSE play
    /\ reading' = IF c = "Stop" THEN 0 ELSE reading
    /\ mode' = IF c = "Reset" THEN {} ELSE mode
    /\ pending' = IF c = "Stop" THEN StopReading(pending)
                  ELSE IF c = "Pause" /\ drive # "standby" THEN pending \cup {"PLAY"}
                  ELSE pending
    /\ UNCHANGED <<seeked, rescheduled, shell, lid>>

AnswerSecond(c, bad) ==
    /\ Respond(c, 2, drive, bad)
    /\ Done
    /\ rotating' = IF c = "Stop" THEN 0 ELSE rotating
    /\ pending' = pending \ {"CDR"}
    /\ UNCHANGED <<disc, drive, shell, lid>>

Interrupt ==
    \/ RepeatCommand
    \/ \E c \in Commands, bad \in {"yes", "no"} :
          \/ AnswerPlain(c, bad) \/ AnswerPlay(c, bad) \/ AnswerRead(c, bad)
          \/ AnswerSeek(c, bad) \/ AnswerInit(c, bad)
          \/ AnswerFirst(c, bad) \/ AnswerSecond(c, bad)

-----------------------------------------------------------------------------
(* readInterrupt, the READ event.  A response or a command due puts it off. *)
MayRead == /\ "READ" \in pending
           /\ reading = 1
           /\ irq = "none" /\ stat = "none"

(* Once per sector, while an earlier interrupt is still to be taken, if the *)
(* guest lets it through                                                    *)
PutOffRead ==
    /\ MayRead
    /\ istat = 1 /\ rescheduled = 0
    /\ rescheduled' = 1
    /\ UNCHANGED <<host, answer, reading, play, seeked, mode, motor, pending>>

(* The events once a sector was read: the next one is scheduled *)
NextSector == pending

(* A sector: the guest is told unless it is audio that is being streamed *)
ReadSector(told) ==
    /\ MayRead
    /\ told = "no" => "STRSND" \in mode
    /\ SetIrq(IF told = "yes" THEN "DataReady" ELSE "none")
    /\ rotating' = 1 /\ seeked' = "done" /\ rescheduled' = 0
    /\ pending' = NextSector
    /\ UNCHANGED <<host, reading, play, mode, drive, shell, lid>>

(* A sector that cannot be read: no other one will be *)
ReadFails ==
    /\ MayRead
    /\ SetIrq("DiskError")
    /\ rotating' = 1 /\ seeked' = "done"
    /\ pending' = pending \ {"READ"}
    /\ UNCHANGED <<host, reading, play, mode, rescheduled, drive, shell, lid>>

ReadInterrupt == PutOffRead \/ ReadFails \/ \E told \in {"yes", "no"} : ReadSector(told)

(* playInterrupt, the PLAY event: the end of a seek, then a frame of audio. *)
(* The seek completes unless a command is due.                              *)
SeekEnds == IF seeked = "pending" /\ irq = "none" THEN "Complete" ELSE stat

(* What audio then tells the guest, where s is the response the seek left   *)
(* and ends says that a track or the disc did                               *)
Pauses_Mutant(s, ends) == irq = "none" /\ s = "none" /\ "AUTOPAUSE" \in mode /\ ends = "track"
Pauses(s, ends) == irq = "none" /\ s = "none" /\ "AUTOPAUSE" \in mode /\ ends # "no"
Reports(s)      == irq = "none" /\ s = "none" /\ "REPORT" \in mode

AudioTells(s, ends) ==
    IF Pauses(s, ends) THEN "DataEnd" ELSE IF Reports(s) THEN "DataReady" ELSE s

PlayEnd(s) ==
    /\ IF s = stat THEN UNCHANGED answer ELSE SetIrq(s)
    /\ rotating' = IF seeked = "pending" THEN 1 ELSE rotating
    /\ seeked' = "done"
    /\ UNCHANGED <<host, reading, mode, rescheduled, drive, shell, lid>>

MayPlay_Mutant == "PLAY" \in pending
MayPlay == "PLAY" \in pending /\ (seeked = "pending" => stat = "none")

PlayNothing ==
    /\ MayPlay /\ play = 0
    /\ PlayEnd(SeekEnds)
    /\ pending' = pending \ {"PLAY"}
    /\ UNCHANGED play

PlayAudio(ends) ==
    /\ MayPlay /\ play = 1
    /\ PlayEnd(AudioTells(SeekEnds, ends))
    /\ IF ends = "disc" \/ Pauses(SeekEnds, ends)
       THEN play' = 0 /\ pending' = pending \ {"PLAY"}
       ELSE UNCHANGED <<play, pending>>

PlayInterrupt == PlayNothing \/ \E ends \in {"no", "track", "disc"} : PlayAudio(ends)

-----------------------------------------------------------------------------
(* lidSeekInterrupt, where the events e are scheduled, and audio plays or   *)
(* not (p), when it is called                                               *)
LidSeek(e, p) ==
    \/ /\ drive \in {"standby", "stopped"} /\ lid' = "closed"
       /\ play' = p /\ pending' = e
       /\ UNCHANGED <<reading, drive, shell, rotating>>
    \/ /\ drive \in {"standby", "stopped"} /\ lid' = "open"
       /\ play' = 0 /\ drive' = "lidopen" /\ pending' = e \cup {"LID"}
       /\ UNCHANGED <<reading, shell, rotating>>
    \/ /\ drive = "lidopen" /\ shell = 0
       /\ reading' = 0 /\ shell' = 1 /\ play' = p
       /\ pending' = StopReading(e) \cup {"LID"}
       /\ UNCHANGED <<drive, rotating>>
    \/ /\ drive = "lidopen" /\ shell = 1
       /\ rotating' = 0 /\ play' = p
       /\ drive' = IF rotating = 0 /\ lid' = "closed" THEN "rescan" ELSE "lidopen"
       /\ pending' = e \cup {"LID"}
       /\ UNCHANGED <<reading, shell>>
    \/ /\ drive = "rescan"
       /\ rotating' = 1 /\ drive' = "prepare" /\ play' = p /\ pending' = e \cup {"LID"}
       /\ UNCHANGED <<reading, shell>>
    \/ /\ drive = "prepare"
       /\ drive' = "standby" /\ play' = p /\ pending' = e \cup {"LID"}
       /\ UNCHANGED <<reading, shell, rotating>>

LidSeekInterrupt ==
    /\ "LID" \in pending
    /\ lid' = lid
    /\ LidSeek(pending \ {"LID"}, play)
    /\ UNCHANGED <<host, answer, seeked, mode, rescheduled>>

(* The user opens or closes the lid: lidInterrupt *)
MoveLid(l) ==
    /\ lid' = l
    /\ LidSeek(pending, 0)
    /\ UNCHANGED <<host, answer, seeked, mode, rescheduled>>

(* "Open and close LID": two seconds later it is closed, and nothing tells *)
LidCloses ==
    /\ lid = "open"
    /\ lid' = "closed"
    /\ UNCHANGED <<host, answer, disc, drive, shell, rotating, pending>>

(* The machine is reset; the lid stays as it is *)
Reset ==
    /\ irq' = "none" /\ part' = 1 /\ repeated' = 0 /\ busy' = 0
    /\ stat' = "none" /\ mask' = 1 /\ istat' = 0
    /\ reading' = 0 /\ play' = 0 /\ seeked' = "pending" /\ mode' = {} /\ rescheduled' = 0
    /\ drive' = "standby" /\ shell' = 0 /\ rotating' = 1
    /\ pending' = {}
    /\ UNCHANGED lid

(* The writes of an arbitrary guest *)
Write ==
    \/ \E c \in Commands \ {"Setloc", "Setmode"} : WriteCommand(c, "no", {})
    \/ "Setloc" \in Commands /\ \E far \in {"yes", "no"} : WriteCommand("Setloc", far, {})
    \/ "Setmode" \in Commands /\ \E m \in ModeSets : WriteCommand("Setmode", "no", m)

Next ==
    \/ Write \/ Acknowledge \/ ClearIstat
    \/ \E m \in Bit : WriteMask(m)
    \/ Interrupt \/ ReadInterrupt \/ PlayInterrupt \/ LidSeekInterrupt
    \/ \E l \in {"open", "closed"} : MoveLid(l)
    \/ LidCloses
    \/ Reset

Spec == Init /\ [][Next]_cd

-----------------------------------------------------------------------------
(* While a command is due the CDR event is scheduled, and the controller is *)
(* never busy, nor has a repeated command, without it: no command is left   *)
(* unanswered for lack of an event.  The event comes for nothing else,      *)
(* except that one of Sync cannot be told from none (AddIrqQueue, interrupt *)
(* of cdrom.cc).  That the second copy of a repeated command is answered    *)
(* too is not said here.                                                    *)
CommandDue ==
    /\ irq # "none" => "CDR" \in pending
    /\ "CDR" \in pending => irq # "none" \/ "Sync" \in Commands
    /\ busy = 1 \/ repeated = 1 => "CDR" \in pending

(* Whatever commands, errors and lid movements come in between, READ events *)
(* come only while reading and audio plays only with a PLAY event to come.  *)
EventsRight ==
    /\ "READ" \in pending => reading = 1
    /\ play = 1 => "PLAY" \in pending

(* Reading goes on: the next sector is given up only with a DiskError, or   *)
(* because reading stopped.                                                 *)
ReadsGoOn ==
    [][reading = 1 /\ reading' = 1 /\ "READ" \in pending /\ "READ" \notin pending'
           => stat = "none" /\ stat' = "DiskError"]_cd

(* Between the write of a Pause or Init and its last response, and from the *)
(* first response to a Stop to the last, nothing is read and nothing plays. *)
QuietWhileStopping ==
    irq \in {"Pause", "Reset", "Init"} \/ (irq = "Stop" /\ part = 2)
        => reading = 0 /\ play = 0 /\ "READ" \notin pending

(* A drive that is not ready is on its way: an event will take it further.  *)
DriveGetsReady == drive \in NotReady => "LID" \in pending

(* No response is overwritten: one that the guest has not acknowledged only *)
(* goes away when it is, or when the machine is reset.                      *)
ResponseKept == [][stat # "none" => stat' \in {stat, "none"}]_cd

=============================================================================
