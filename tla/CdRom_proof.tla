---------------------------- MODULE CdRom_proof ----------------------------
(* Theorems about the CD-ROM controller, for every set of commands.        *)
EXTENDS CdRom, TLAPS

(* The invariants hold together: none of the last four is inductive alone. *)
IInv == TypeOK /\ CommandDue /\ EventsRight /\ QuietWhileStopping /\ DriveGetsReady

LEMMA InitRight == Init => IInv
  BY DEF Init, IInv, TypeOK, CommandDue, EventsRight, QuietWhileStopping, DriveGetsReady,
         Bit, Causes, Modes, Drives, Events, NotReady

(* What the helpers return *)
LEMMA NoCommand == "none" \notin Commands
  BY CommandsAssumption DEF AllCommands

LEMMA DriveAfterType ==
    ASSUME TypeOK, NEW c \in Commands
    PROVE  /\ DriveAfter(c) \in Drives
           /\ DriveAfter(c) \in NotReady => c = "Init" \/ drive \in NotReady
  BY DEF TypeOK, DriveAfter, Spins, Drives, NotReady

LEMMA ResponseType ==
    ASSUME NEW c, NEW p, NEW d, NEW bad
    PROVE  Response(c, p, d, bad) \in Causes
  BY DEF Response, Causes

LEMMA StopReadingEvents ==
    ASSUME TypeOK, EventsRight
    PROVE  StopReading(pending) = pending \ {"READ"}
  BY DEF TypeOK, EventsRight, StopReading, Bit, Events

LEMMA SetIrqType ==
    ASSUME TypeOK, NEW s \in Causes \cup {"none"}, SetIrq(s)
    PROVE  stat' \in Causes \cup {"none"} /\ istat' \in Bit /\ mask' \in Bit
  BY DEF TypeOK, SetIrq, Bit

-----------------------------------------------------------------------------
(* Every step keeps the invariants: the writes of the guest ... *)
LEMMA WriteRight ==
    ASSUME IInv, NEW c \in Commands, NEW far, NEW m \in SUBSET Modes, WriteCommand(c, far, m)
    PROVE  IInv'
<1>1. StopReading(pending) = pending \ {"READ"}
  BY StopReadingEvents DEF IInv
<1>2. irq' = IrqOf(c) /\ part' \in 1..2 /\ repeated' \in Bit
  <2>1. CASE irq = c
    BY <2>1, NoCommand DEF IInv, TypeOK, WriteCommand, AddIrqQueue, IrqOf, Repeated, Bit
  <2>2. CASE irq # c
    BY <2>2 DEF IInv, TypeOK, WriteCommand, AddIrqQueue, Bit
  <2> QED
    BY <2>1, <2>2
<1>3. /\ c \in StopAtOnce => reading' = 0 /\ play' = 0 /\ "READ" \notin pending'
      /\ c \notin StopAtOnce => /\ reading' = reading /\ (play' = play \/ play' = 0)
                                /\ pending' = pending \cup {"CDR"}
      /\ pending' \in SUBSET Events /\ "CDR" \in pending'
      /\ "PLAY" \in pending <=> "PLAY" \in pending'
      /\ "LID" \in pending <=> "LID" \in pending'
  BY <1>1 DEF WriteCommand, StopAtOnce, Events, IInv, TypeOK
<1>4. seeked' \in {"pending", "done"}
  BY DEF IInv, TypeOK, WriteCommand
<1>5. /\ busy' = 1 /\ (mode' = m \/ mode' = mode)
      /\ UNCHANGED <<answer, rescheduled, motor>>
  BY DEF WriteCommand
<1>6. TypeOK'
  BY <1>2, <1>3, <1>4, <1>5 DEF IInv, TypeOK, IrqOf, Bit, answer, motor
<1>7. CommandDue'
  BY <1>2, <1>3, NoCommand DEF CommandDue, IrqOf
<1>8. EventsRight'
  BY <1>3 DEF IInv, EventsRight
<1>9. QuietWhileStopping'
  <2>1. CASE c \in StopAtOnce
    BY <2>1, <1>3 DEF QuietWhileStopping
  <2>2. CASE c = "Stop" /\ part' = 2
    <3>1. irq = "Stop" /\ part = 2
      BY <2>2 DEF WriteCommand, AddIrqQueue
    <3>2. reading = 0 /\ play = 0 /\ "READ" \notin pending
      BY <3>1 DEF IInv, QuietWhileStopping
    <3> QED
      BY <3>2, <2>2, <1>3 DEF QuietWhileStopping, StopAtOnce
  <2> QED
    BY <2>1, <2>2, <1>2 DEF QuietWhileStopping, StopAtOnce, IrqOf
<1>10. DriveGetsReady'
  BY <1>3, <1>5 DEF IInv, DriveGetsReady, motor
<1> QED
  BY <1>6, <1>7, <1>8, <1>9, <1>10 DEF IInv

LEMMA GuestRight ==
    ASSUME IInv,
           \/ Acknowledge \/ ClearIstat \/ Reset
           \/ \E m \in Bit : WriteMask(m)
    PROVE  IInv'
<1>1. CASE Acknowledge
  BY <1>1 DEF Acknowledge, IInv, TypeOK, CommandDue, EventsRight, QuietWhileStopping,
              DriveGetsReady, host, disc, motor, Bit
<1>2. CASE ClearIstat
  BY <1>2 DEF ClearIstat, IInv, TypeOK, CommandDue, EventsRight, QuietWhileStopping,
              DriveGetsReady, host, disc, motor, Bit
<1>3. CASE \E m \in Bit : WriteMask(m)
  BY <1>3 DEF WriteMask, IInv, TypeOK, CommandDue, EventsRight, QuietWhileStopping,
              DriveGetsReady, host, disc, motor, Bit
<1>4. CASE Reset
  BY <1>4 DEF Reset, IInv, TypeOK, CommandDue, EventsRight, QuietWhileStopping,
              DriveGetsReady, NotReady, Bit, Causes, Modes, Drives, Events
<1> QED
  BY <1>1, <1>2, <1>3, <1>4

(* ... its commands' responses ... *)
LEMMA AnswerRight ==
    ASSUME IInv, NEW c \in Commands, NEW bad,
           \/ AnswerPlain(c, bad) \/ AnswerPlay(c, bad) \/ AnswerRead(c, bad)
           \/ AnswerSeek(c, bad) \/ AnswerInit(c, bad)
    PROVE  IInv'
<1>1. Answered(c, bad)
  BY DEF AnswerPlain, AnswerPlay, AnswerRead, AnswerSeek, AnswerInit
<1>2. /\ irq' = "none" /\ part' = 1 /\ busy' = 0 /\ repeated' = 0
      /\ drive' = DriveAfter(c) /\ rotating' \in {1, rotating}
      /\ UNCHANGED <<lid, mode, rescheduled>>
      /\ SetIrq(Response(c, 1, DriveAfter(c), bad))
  BY <1>1 DEF Answered, Respond, Done
<1>3. stat' \in Causes \cup {"none"} /\ istat' \in Bit /\ mask' \in Bit
  BY <1>2, SetIrqType, ResponseType DEF IInv
<1>4. /\ drive' \in Drives
      /\ drive' \in NotReady => c = "Init" \/ drive \in NotReady
  BY <1>2, DriveAfterType DEF IInv
<1>5. StopReading(pending) = pending \ {"READ"}
  BY StopReadingEvents DEF IInv
<1>6. /\ reading' \in Bit /\ play' \in Bit /\ shell' \in Bit
      /\ seeked' \in {"pending", "done"}
      /\ pending' \in SUBSET Events /\ "CDR" \notin pending'
      /\ "LID" \in pending => "LID" \in pending'
      /\ c = "Init" => "LID" \in pending'
      /\ "READ" \in pending' => reading' = 1
      /\ play' = 1 => "PLAY" \in pending'
  <2>1. CASE AnswerPlain(c, bad)
    BY <2>1 DEF AnswerPlain, IInv, TypeOK, EventsRight, Bit, Events
  <2>2. CASE AnswerPlay(c, bad)
    BY <2>2 DEF AnswerPlay, IInv, TypeOK, EventsRight, Bit, Events
  <2>3. CASE AnswerRead(c, bad)
    BY <2>3 DEF AnswerRead, IInv, TypeOK, EventsRight, Bit, Events
  <2>4. CASE AnswerSeek(c, bad)
    BY <2>4, <1>5 DEF AnswerSeek, IInv, TypeOK, EventsRight, Bit, Events
  <2>5. CASE AnswerInit(c, bad)
    BY <2>5 DEF AnswerInit, InitEvents, IInv, TypeOK, EventsRight, Bit, Events
  <2> QED
    BY <2>1, <2>2, <2>3, <2>4, <2>5
<1>7. TypeOK'
  BY <1>2, <1>3, <1>4, <1>6 DEF IInv, TypeOK, Bit
<1>8. CommandDue' /\ EventsRight' /\ QuietWhileStopping'
  BY <1>2, <1>6 DEF CommandDue, EventsRight, QuietWhileStopping
<1>9. DriveGetsReady'
  BY <1>4, <1>6 DEF IInv, DriveGetsReady
<1> QED
  BY <1>7, <1>8, <1>9 DEF IInv

LEMMA AnswerTwiceRight ==
    ASSUME IInv, NEW c \in Commands, NEW bad,
           AnswerFirst(c, bad) \/ AnswerSecond(c, bad)
    PROVE  IInv'
<1>1. CASE AnswerFirst(c, bad)
  <2>1. StopReading(pending) = pending \ {"READ"}
    BY StopReadingEvents DEF IInv
  <2>2. SetIrq(Response(c, 1, DriveAfter(c), bad))
    BY <1>1 DEF AnswerFirst, Respond
  <2>3. stat' \in Causes \cup {"none"} /\ istat' \in Bit /\ mask' \in Bit
    BY <2>2, SetIrqType, ResponseType DEF IInv
  <2>4. /\ "CDR" \in pending /\ irq = c /\ part = 1 /\ irq' = c /\ part' = 2
        /\ repeated' = 0 /\ busy' \in Bit
        /\ drive' = DriveAfter(c) /\ rotating' \in {1, rotating}
        /\ mode' \in {{}, mode}
        /\ UNCHANGED <<seeked, rescheduled, shell, lid>>
    BY <1>1 DEF AnswerFirst, Respond, Second, IrqOf, Twice, Bit
  <2>5. c # "Init"
    BY <1>1 DEF AnswerFirst, Twice
  <2>6. drive' \in Drives /\ (drive' \in NotReady => drive \in NotReady)
    BY <2>4, <2>5, DriveAfterType DEF IInv
  <2>7. CASE c = "Stop"
    <3>1. reading' = 0 /\ play' = 0 /\ pending' = pending \ {"READ"}
      BY <1>1, <2>7, <2>1 DEF AnswerFirst
    <3>2. TypeOK'
      BY <2>3, <2>4, <2>6, <3>1 DEF IInv, TypeOK, Bit
    <3> QED
      BY <2>4, <2>6, <2>7, <3>1, <3>2, NoCommand
      DEF IInv, CommandDue, EventsRight, QuietWhileStopping, DriveGetsReady
  <2>8. CASE c # "Stop"
    <3>1. reading' = reading /\ play' = play
      BY <1>1, <2>8 DEF AnswerFirst
    <3>2. pending' = pending \/ pending' = pending \cup {"PLAY"}
      BY <1>1, <2>8 DEF AnswerFirst
    <3>3. pending' \subseteq Events
      BY <3>2 DEF IInv, TypeOK, Events
    <3>4. TypeOK'
      BY <2>3, <2>4, <2>6, <3>1, <3>3 DEF IInv, TypeOK, Bit
    <3> QED
      BY <2>4, <2>6, <2>8, <3>1, <3>2, <3>4, NoCommand
      DEF IInv, CommandDue, EventsRight, QuietWhileStopping, DriveGetsReady
  <2> QED
    BY <2>7, <2>8
<1>2. CASE AnswerSecond(c, bad)
  <2>1. stat' \in Causes \cup {"none"} /\ istat' \in Bit /\ mask' \in Bit
    BY <1>2, SetIrqType, ResponseType DEF IInv, AnswerSecond, Respond
  <2> QED
    BY <1>2, <2>1 DEF AnswerSecond, Respond, Done, IInv, TypeOK, CommandDue, EventsRight,
                      QuietWhileStopping, DriveGetsReady, disc, Bit
<1> QED
  BY <1>1, <1>2

LEMMA RepeatRight == ASSUME IInv, RepeatCommand PROVE IInv'
<1>1. stat' \in Causes \cup {"none"} /\ istat' \in Bit /\ mask' \in Bit
  BY SetIrqType DEF IInv, RepeatCommand, Causes
<1> QED
  BY <1>1 DEF RepeatCommand, IInv, TypeOK, CommandDue, EventsRight,
              QuietWhileStopping, DriveGetsReady, disc, motor, Bit

(* ... the sectors, the audio ... *)
LEMMA ReadRight == ASSUME IInv, ReadInterrupt PROVE IInv'
<1>1. CASE PutOffRead
  BY <1>1 DEF PutOffRead, IInv, TypeOK, CommandDue, EventsRight, QuietWhileStopping,
              DriveGetsReady, host, answer, motor, Bit
<1>2. CASE ReadFails
  <2>1. stat' \in Causes \cup {"none"} /\ istat' \in Bit /\ mask' \in Bit
    BY <1>2, SetIrqType DEF IInv, ReadFails, Causes
  <2> QED
    BY <1>2, <2>1 DEF ReadFails, IInv, TypeOK, CommandDue, EventsRight, QuietWhileStopping,
                      DriveGetsReady, host, Bit
<1>3. ASSUME NEW told \in {"yes", "no"}, ReadSector(told) PROVE IInv'
  <2>1. stat' \in Causes \cup {"none"} /\ istat' \in Bit /\ mask' \in Bit
    BY <1>3, SetIrqType DEF IInv, ReadSector, Causes
  <2> QED
    BY <1>3, <2>1 DEF ReadSector, NextSector, IInv, TypeOK, CommandDue, EventsRight,
                      QuietWhileStopping, DriveGetsReady, host, Bit
<1> QED
  BY <1>1, <1>2, <1>3 DEF ReadInterrupt

LEMMA PlayEndRight ==
    ASSUME TypeOK, NEW s \in Causes \cup {"none"}, PlayEnd(s)
    PROVE  /\ stat' \in Causes \cup {"none"} /\ istat' \in Bit /\ mask' \in Bit
           /\ rotating' \in Bit /\ seeked' = "done"
           /\ UNCHANGED <<host, reading, mode, rescheduled, drive, shell, lid>>
<1>1. CASE s = stat
  BY <1>1 DEF PlayEnd, TypeOK, answer, Bit
<1>2. CASE s # stat
  BY <1>2, SetIrqType DEF PlayEnd, TypeOK, Bit
<1> QED
  BY <1>1, <1>2

LEMMA PlayRight == ASSUME IInv, PlayInterrupt PROVE IInv'
<1>1. SeekEnds \in Causes \cup {"none"}
  BY DEF SeekEnds, IInv, TypeOK, Causes
<1>2. CASE PlayNothing
  <2>1. /\ stat' \in Causes \cup {"none"} /\ istat' \in Bit /\ mask' \in Bit
        /\ rotating' \in Bit /\ seeked' = "done"
        /\ UNCHANGED <<host, reading, mode, rescheduled, drive, shell, lid>>
    BY <1>1, <1>2, PlayEndRight DEF IInv, PlayNothing
  <2> QED
    BY <1>2, <2>1 DEF PlayNothing, IInv, TypeOK, CommandDue, EventsRight, QuietWhileStopping,
                      DriveGetsReady, host, Bit
<1>3. ASSUME NEW ends, PlayAudio(ends) PROVE IInv'
  <2>1. AudioTells(SeekEnds, ends) \in Causes \cup {"none"}
    BY <1>1 DEF AudioTells, Causes
  <2>2. /\ stat' \in Causes \cup {"none"} /\ istat' \in Bit /\ mask' \in Bit
        /\ rotating' \in Bit /\ seeked' = "done"
        /\ UNCHANGED <<host, reading, mode, rescheduled, drive, shell, lid>>
    BY <1>3, <2>1, PlayEndRight DEF IInv, PlayAudio
  <2>3. \/ UNCHANGED <<play, pending>>
        \/ play' = 0 /\ pending' = pending \ {"PLAY"}
    BY <1>3 DEF PlayAudio
  <2> QED
    BY <2>2, <2>3 DEF IInv, TypeOK, CommandDue, EventsRight, QuietWhileStopping,
                      DriveGetsReady, host, Bit
<1> QED
  BY <1>2, <1>3 DEF PlayInterrupt

(* ... and the lid. *)
LEMMA LidSeekRight ==
    ASSUME IInv, NEW e \in SUBSET Events, NEW p \in {0, play},
           e \cup {"LID"} = pending \cup {"LID"},
           lid' \in {"open", "closed"},
           LidSeek(e, p), UNCHANGED <<host, answer, seeked, mode, rescheduled>>
    PROVE  IInv'
<1>1. /\ "CDR" \in e <=> "CDR" \in pending
      /\ "PLAY" \in e <=> "PLAY" \in pending
      /\ "READ" \in e <=> "READ" \in pending
  OBVIOUS
<1>2. StopReading(e) = e \ {"READ"}
  BY <1>1 DEF IInv, TypeOK, EventsRight, StopReading, Bit
<1>3. \/ pending' = e
      \/ pending' = e \cup {"LID"}
      \/ pending' = (e \ {"READ"}) \cup {"LID"} /\ reading' = 0
  BY <1>2 DEF LidSeek
<1>4. reading' = reading \/ (reading' = 0 /\ "READ" \notin pending')
  <2>1. CASE drive = "lidopen" /\ shell = 0
    BY <2>1, <1>2 DEF LidSeek
  <2>2. CASE ~(drive = "lidopen" /\ shell = 0)
    BY <2>2 DEF LidSeek
  <2> QED
    BY <2>1, <2>2
<1>5. play' = p \/ play' = 0
  BY DEF LidSeek
<1>6. drive' \in Drives /\ (drive' \in NotReady => "LID" \in pending')
  <2>1. CASE drive \in {"standby", "stopped"}
    BY <2>1 DEF LidSeek, Drives, NotReady
  <2>2. CASE drive = "lidopen"
    BY <2>2 DEF LidSeek, Drives, NotReady
  <2>3. CASE drive \in {"rescan", "prepare"}
    BY <2>3 DEF LidSeek, Drives, NotReady
  <2> QED
    BY <2>1, <2>2, <2>3 DEF IInv, TypeOK, Drives
<1>7. shell' \in Bit /\ rotating' \in Bit
  BY DEF LidSeek, IInv, TypeOK, Bit
<1>8. pending' \in SUBSET Events
  BY <1>3 DEF Events
<1>9. /\ "CDR" \in pending' <=> "CDR" \in pending
      /\ "PLAY" \in pending' <=> "PLAY" \in pending
      /\ "READ" \in pending' => "READ" \in pending
  BY <1>1, <1>3
<1>10. TypeOK'
  BY <1>4, <1>5, <1>6, <1>7, <1>8 DEF IInv, TypeOK, host, answer, Bit
<1>11. CommandDue' /\ EventsRight'
  BY <1>4, <1>5, <1>9 DEF IInv, TypeOK, CommandDue, EventsRight, host, Bit
<1>12. QuietWhileStopping' /\ DriveGetsReady'
  BY <1>4, <1>5, <1>6, <1>9 DEF IInv, QuietWhileStopping, DriveGetsReady, host
<1> QED
  BY <1>10, <1>11, <1>12 DEF IInv

LEMMA LidRight ==
    ASSUME IInv, LidSeekInterrupt \/ LidCloses \/ \E l \in {"open", "closed"} : MoveLid(l)
    PROVE  IInv'
<1>1. CASE LidSeekInterrupt
  <2>1. pending \ {"LID"} \in SUBSET Events
    BY DEF IInv, TypeOK
  <2>2. lid' \in {"open", "closed"}
    BY <1>1 DEF LidSeekInterrupt, IInv, TypeOK
  <2> QED
    BY <1>1, <2>1, <2>2, LidSeekRight DEF LidSeekInterrupt
<1>2. ASSUME NEW l \in {"open", "closed"}, MoveLid(l) PROVE IInv'
  <2>1. pending \in SUBSET Events
    BY DEF IInv, TypeOK
  <2> QED
    BY <1>2, <2>1, LidSeekRight DEF MoveLid
<1>3. CASE LidCloses
  BY <1>3 DEF LidCloses, IInv, TypeOK, CommandDue, EventsRight, QuietWhileStopping,
              DriveGetsReady, host, answer, disc, Bit
<1> QED
  BY <1>1, <1>2, <1>3

LEMMA StepRight == IInv /\ [Next]_cd => IInv'
<1> SUFFICES ASSUME IInv, [Next]_cd PROVE IInv'
  OBVIOUS
<1>1. CASE UNCHANGED cd
  BY <1>1 DEF cd, host, answer, disc, motor, IInv, TypeOK, CommandDue, EventsRight,
              QuietWhileStopping, DriveGetsReady
<1>2. CASE Write
  <2>1. \A m \in ModeSets : m \in SUBSET Modes
    BY CommandsAssumption
  <2>2. {} \in SUBSET Modes
    OBVIOUS
  <2> QED
    BY <1>2, <2>1, <2>2, WriteRight DEF Write
<1>3. CASE Interrupt
  <2>1. CASE RepeatCommand
    BY <2>1, RepeatRight
  <2>2. ASSUME NEW c \in Commands, NEW bad \in {"yes", "no"},
               \/ AnswerPlain(c, bad) \/ AnswerPlay(c, bad) \/ AnswerRead(c, bad)
               \/ AnswerSeek(c, bad) \/ AnswerInit(c, bad)
               \/ AnswerFirst(c, bad) \/ AnswerSecond(c, bad)
        PROVE  IInv'
    BY <2>2, AnswerRight, AnswerTwiceRight
  <2> QED
    BY <1>3, <2>1, <2>2 DEF Interrupt
<1> QED
  BY <1>1, <1>2, <1>3, GuestRight, ReadRight, PlayRight, LidRight DEF Next

(* What no step may do *)
LEMMA SectorStep ==
    ASSUME IInv, [Next]_cd,
           reading = 1, reading' = 1, "READ" \in pending, "READ" \notin pending'
    PROVE  stat = "none" /\ stat' = "DiskError"
<1>1. CASE UNCHANGED cd
  BY <1>1 DEF cd
<1>2. ASSUME NEW c \in Commands, NEW far, NEW m, WriteCommand(c, far, m) PROVE FALSE
  BY <1>2 DEF WriteCommand
<1>3. CASE Acknowledge \/ ClearIstat \/ Reset \/ \E m \in Bit : WriteMask(m)
  BY <1>3 DEF Acknowledge, ClearIstat, Reset, WriteMask
<1>4. CASE RepeatCommand
  BY <1>4 DEF RepeatCommand
<1>5. ASSUME NEW c \in Commands, NEW bad,
             \/ AnswerPlain(c, bad) \/ AnswerPlay(c, bad) \/ AnswerRead(c, bad)
             \/ AnswerSeek(c, bad) \/ AnswerInit(c, bad) \/ AnswerSecond(c, bad)
      PROVE  FALSE
  BY <1>5 DEF AnswerPlain, AnswerPlay, AnswerRead, AnswerSeek, AnswerInit, InitEvents,
              AnswerSecond
<1>6. ASSUME NEW c \in Commands, NEW bad, AnswerFirst(c, bad) PROVE FALSE
  <2>1. CASE c = "Stop"
    BY <1>6, <2>1 DEF AnswerFirst
  <2>2. CASE c # "Stop"
    BY <1>6, <2>2 DEF AnswerFirst
  <2> QED
    BY <2>1, <2>2
<1>7. CASE ReadInterrupt
  <2>1. stat = "none"
    BY <1>7 DEF ReadInterrupt, PutOffRead, ReadFails, ReadSector, MayRead
  <2>2. ReadFails
    BY <1>7 DEF ReadInterrupt, PutOffRead, ReadSector, NextSector, motor
  <2> QED
    BY <2>1, <2>2 DEF ReadFails, SetIrq
<1>8. CASE PlayInterrupt
  BY <1>8 DEF PlayInterrupt, PlayNothing, PlayAudio
<1>9. CASE LidSeekInterrupt \/ \E l \in {"open", "closed"} : MoveLid(l)
  <2>1. PICK e, p : LidSeek(e, p) /\ "READ" \in e
    BY <1>9 DEF LidSeekInterrupt, MoveLid
  <2> QED
    BY <2>1 DEF LidSeek
<1>10. CASE LidCloses
  BY <1>10 DEF LidCloses
<1> QED
  BY <1>1, <1>2, <1>3, <1>4, <1>5, <1>6, <1>7, <1>8, <1>9, <1>10 DEF Next, Write, Interrupt

LEMMA ResponseStep ==
    ASSUME IInv, [Next]_cd, stat # "none"
    PROVE  stat' \in {stat, "none"}
<1>1. CASE UNCHANGED cd
  BY <1>1 DEF cd, answer
<1>2. CASE Write
  BY <1>2 DEF Write, WriteCommand, answer
<1>3. CASE Acknowledge \/ ClearIstat \/ Reset \/ \E m \in Bit : WriteMask(m)
  BY <1>3 DEF Acknowledge, ClearIstat, Reset, WriteMask
<1>4. CASE Interrupt
  BY <1>4 DEF Interrupt, RepeatCommand, AnswerPlain, AnswerPlay, AnswerRead, AnswerSeek,
              AnswerInit, AnswerFirst, AnswerSecond, Answered, Respond
<1>5. CASE ReadInterrupt
  BY <1>5 DEF ReadInterrupt, PutOffRead, ReadFails, ReadSector, MayRead
<1>6. CASE PlayInterrupt
  <2>1. MayPlay
    BY <1>6 DEF PlayInterrupt, PlayNothing, PlayAudio
  <2>2. SeekEnds = stat
    BY <2>1 DEF MayPlay, SeekEnds
  <2>3. \A ends : AudioTells(SeekEnds, ends) = stat
    BY <2>2 DEF AudioTells, Pauses, Reports
  <2>4. PlayEnd(stat)
    BY <1>6, <2>2, <2>3 DEF PlayInterrupt, PlayNothing, PlayAudio
  <2> QED
    BY <2>4 DEF PlayEnd, answer
<1>7. CASE LidSeekInterrupt \/ LidCloses \/ \E l \in {"open", "closed"} : MoveLid(l)
  BY <1>7 DEF LidSeekInterrupt, LidCloses, MoveLid, answer
<1> QED
  BY <1>1, <1>2, <1>3, <1>4, <1>5, <1>6, <1>7 DEF Next

(* The controller never loses the event a command, a read, the audio or the *)
(* lid waits for, and is quiet while it stops.                              *)
THEOREM TypeCorrect == Spec => []TypeOK
<1>1. IInv => TypeOK
  BY DEF IInv
<1> QED
  BY <1>1, InitRight, StepRight, PTL DEF Spec

THEOREM CommandsDue == Spec => []CommandDue
<1>1. IInv => CommandDue
  BY DEF IInv
<1> QED
  BY <1>1, InitRight, StepRight, PTL DEF Spec

THEOREM EventsKept == Spec => []EventsRight
<1>1. IInv => EventsRight
  BY DEF IInv
<1> QED
  BY <1>1, InitRight, StepRight, PTL DEF Spec

THEOREM QuietStops == Spec => []QuietWhileStopping
<1>1. IInv => QuietWhileStopping
  BY DEF IInv
<1> QED
  BY <1>1, InitRight, StepRight, PTL DEF Spec

THEOREM DriveMoves == Spec => []DriveGetsReady
<1>1. IInv => DriveGetsReady
  BY DEF IInv
<1> QED
  BY <1>1, InitRight, StepRight, PTL DEF Spec

(* Sectors keep coming until one cannot be read or reading stops. *)
THEOREM SectorsGoOn == Spec => ReadsGoOn
<1>1. IInv /\ [Next]_cd
        => [reading = 1 /\ reading' = 1 /\ "READ" \in pending /\ "READ" \notin pending'
              => stat = "none" /\ stat' = "DiskError"]_cd
  BY SectorStep
<1> QED
  BY <1>1, InitRight, StepRight, PTL DEF Spec, ReadsGoOn

(* A response stays until the guest acknowledges it or the machine is reset. *)
THEOREM ResponsesKept == Spec => ResponseKept
<1>1. IInv /\ [Next]_cd => [stat # "none" => stat' \in {stat, "none"}]_cd
  BY ResponseStep
<1> QED
  BY <1>1, InitRight, StepRight, PTL DEF Spec, ResponseKept

=============================================================================
