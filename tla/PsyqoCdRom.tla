----------------------------- MODULE PsyqoCdRom -----------------------------
(***************************************************************************)
(* PSYQo's CDRomDevice (src/mips/psyqo) on the CD-ROM controller: its      *)
(* interrupt handler irq(), all its actions and the calls that block, as   *)
(* used by a program that keeps to the rules of cdrom-device.hh.           *)
(*                                                                         *)
(* The lid stays closed, and a sector or the disc may be unreadable.       *)
(* pauseCDDA, stopCDDA and getPlaybackLocation mask the interrupt of the   *)
(* CD-ROM while they run: each is one step.  A call that blocks masks it   *)
(* too and polls it instead, which makes no difference to what irq() does; *)
(* the callbacks it pumps start nothing on the device.                     *)
(***************************************************************************)
EXTENDS CdRom

CONSTANTS
    Uses,   \* what the program does, among AllUses
    Hurry,  \* when things may come quickly, among AllHurry
    Count,  \* the largest number of sectors read at once
    Tracks, \* on the disc
    Sizes   \* of the tables that the program has for their positions

(* "disc" plays to the end of the disc, "track" to that of a track; "block" *)
(* uses the blocking variants as well, of the actions that have one         *)
AllUses == {"read", "track", "disc", "pause", "locate", "reset", "size", "toc", "test", "mute", "block"}

(* "restart": an action may start while a PLAY event of audio that was      *)
(* stopped is still to come, at most a sector's time later.                 *)
(* "late": the handler of a response may be late, because the interrupt was *)
(* masked for long, and the next response be ready before it ends.          *)
AllHurry == {"restart", "late"}

ASSUME PsyqoAssumption ==
    /\ Uses \subseteq AllUses /\ Hurry \subseteq AllHurry
    /\ Count \in Nat \ {0} /\ Tracks \in Nat \ {0} /\ Sizes \subseteq Nat
    /\ {"Setloc", "Setmode", "Read", "Pause", "Stop", "GetTN", "Seek", "Play", "Mute", "Reset", "Getparam"}
           \subseteq Commands
    /\ "Sync" \notin Commands      \* which the device never sends

VARIABLES
    pc,       \* "program", or how far into irq() the CPU is
    ranOnce,  \* irq(): the loop was gone through
    cause,    \* irq(): the response read from the controller
    action,   \* m_action, or "none"
    state,    \* m_state
    blocking, \* m_blocking
    table,    \* m_size and m_currentTrack of readTOC, 0 unless it goes on
    toEnd,    \* m_stopAtEndOfTrack
    count,    \* m_count: sectors still to read
    location, \* m_pendingGetLocation
    queued,   \* callbacks queued for the main loop
    playing,  \* the program's callback told it that audio plays
    paused,   \* what it did last is to pause or stop audio
    broken,   \* the abort or assertion the device ran into, "overrun" if it wrote
              \* past the program's table, or "no"
    careful   \* history: 1 until an action starts early, a response comes
              \* while another is handled, or a location is asked for

isr    == <<pc, ranOnce, cause>>
device == <<action, state, blocking, table, toEnd, count, location>>
prog   == <<queued, playing, paused>>
vars   == <<cd, isr, device, prog, broken, careful>>

States == {"IDLE", "SETLOC", "SETMODE", "READ", "READ_ACK", "PAUSE", "PAUSE_ACK",
           "GETTD", "SEEK", "SEEK_ACK", "PLAY", "PLAYING", "STOPPING", "STOPPING_ACK",
           "RESET", "RESET_ACK", "GETTN", "TEST", "MUTE"}
Aborts == {"no", "action", "cause", "dataReady", "complete", "acknowledge", "end", "overrun"}
NoTable == [size |-> 0, track |-> 0]

(* CDRomDevice::prepare and reset have run *)
PsyqoInit ==
    /\ Init
    /\ pc = "program" /\ ranOnce = 0 /\ cause = "none"
    /\ action = "none" /\ state = "IDLE" /\ blocking = 0 /\ table = NoTable
    /\ toEnd = 0 /\ count = 0 /\ location = 0
    /\ queued = {} /\ playing = 0 /\ paused = 0
    /\ broken = "no" /\ careful = 1

Running(where) == broken = "no" /\ pc = where

-----------------------------------------------------------------------------
(* The program *)

(* An action starts when the device is idle, and the callback of the last   *)
(* one has run.                                                             *)
MayStart ==
    /\ Running("program")
    /\ state = "IDLE" /\ action = "none" /\ blocking = 0 /\ queued = {}
    /\ "restart" \in Hurry \/ "PLAY" \notin pending

(* A call that blocks does not return before the action is complete.        *)
Blocks == IF "block" \in Uses THEN Bit ELSE {0}

Begin(a, s) ==
    /\ MayStart
    /\ action' = a /\ state' = s /\ paused' = 0
    /\ blocking' \in IF a \in {"play", "mute"} THEN {0} ELSE Blocks
    /\ careful' = IF "PLAY" \in pending THEN 0 ELSE careful
    /\ UNCHANGED <<isr, location, queued, playing, broken>>

(* ReadSectorsAction::start *)
Sectors(n) == n

StartRead(n) ==
    /\ "read" \in Uses
    /\ Begin("read", "SETLOC")
    /\ count' = Sectors(n)
    /\ \E far \in {"yes", "no"} : WriteCommand("Setloc", far, {})
    /\ UNCHANGED <<toEnd, table>>

(* The modes playCDDA sets, from a track number and from a position *)
TrackModes(end) == IF end = 1 THEN {"AUTOPAUSE"} ELSE {}
MsfModes(end)   == TrackModes(end) \cup {"CDDA"}

(* PlayCDDAAction::start, from a track, from a position, and to resume *)
StartPlay(end) ==
    /\ (end = 1 /\ "track" \in Uses) \/ (end = 0 /\ "disc" \in Uses)
    /\ \/ /\ Begin("play", "GETTD")
          /\ toEnd' = end
          /\ WriteCommand("GetTN", "no", {})
       \/ /\ Begin("play", "SETMODE")
          /\ WriteCommand("Setmode", "no", MsfModes(end))
          /\ UNCHANGED toEnd
    /\ UNCHANGED <<count, table>>

Resume ==
    /\ paused = 1
    /\ Begin("play", "PLAY")
    /\ WriteCommand("Play", "no", {})
    /\ UNCHANGED <<toEnd, count, table>>

(* The actions that send one command: reset, getTOCSize, test, and mute and *)
(* unmute.  What reset writes to Cause and its mask changes nothing, as no  *)
(* response waits.                                                          *)
StartPlain(a, s, c) ==
    /\ a \in Uses /\ (a = "reset" => stat = "none")
    /\ Begin(a, s)
    /\ WriteCommand(c, "no", {})
    /\ UNCHANGED <<toEnd, count, table>>

(* ReadTOCAction::start *)
StartToc(size) ==
    /\ "toc" \in Uses
    /\ Begin("toc", "GETTN")
    /\ table' = [NoTable EXCEPT !.size = size]
    /\ WriteCommand("GetTN", "no", {})
    /\ UNCHANGED <<toEnd, count>>

(* pauseCDDA and stopCDDA, once the callback told that audio plays; they do *)
(* nothing if it has ended since                                            *)
StopPlaying(c) ==
    /\ "pause" \in Uses
    /\ Running("program") /\ playing = 1
    /\ action = "play" /\ state = "PLAYING"
    /\ state' = "STOPPING" /\ paused' = 1
    /\ WriteCommand(c, "no", {})
    /\ UNCHANGED <<isr, action, blocking, table, toEnd, count, location, queued, playing, broken, careful>>

(* getPlaybackLocation while audio plays, one at a time *)
GetLocation ==
    /\ "locate" \in Uses
    /\ Running("program") /\ playing = 1
    /\ location = 0 /\ "location" \notin queued
    /\ action = "play" /\ state = "PLAYING"
    /\ location' = 1 /\ careful' = 0
    /\ WriteCommand("Mute", "no", {})
    /\ UNCHANGED <<isr, action, state, blocking, table, toEnd, count, prog, broken>>

(* The main loop runs the callbacks in the order they were queued in:       *)
(* "started" and "location" come before "done".                             *)
RunCallback(b) ==
    /\ Running("program")
    /\ b \in queued
    /\ b = "done" => queued = {"done"}
    /\ queued' = queued \ {b}
    /\ playing' = CASE b = "started" -> 1 [] b = "done" -> 0 [] OTHER -> playing
    /\ state' = IF b = "done" THEN "IDLE" ELSE state
    /\ UNCHANGED <<cd, isr, action, blocking, table, toEnd, count, location, paused, broken, careful>>

(* A call that blocked returns: ~BlockingAction finds the device idle.      *)
Return ==
    /\ Running("program") /\ blocking = 1 /\ state = "IDLE"
    /\ blocking' = 0
    /\ UNCHANGED <<cd, isr, action, state, table, toEnd, count, location, prog, broken, careful>>

Program ==
    \/ \E n \in 1..Count : StartRead(n)
    \/ \E end \in Bit : StartPlay(end)
    \/ Resume
    \/ StartPlain("reset", "RESET", "Reset")
    \/ StartPlain("size", "GETTN", "GetTN")
    \/ StartPlain("test", "TEST", "Getparam")
    \/ StartPlain("mute", "MUTE", "Mute")
    \/ \E size \in Sizes : StartToc(size)
    \/ \E c \in {"Pause", "Stop"} : StopPlaying(c)
    \/ GetLocation
    \/ \E b \in queued : RunCallback(b)
    \/ Return

-----------------------------------------------------------------------------
(* irq(), the handler *)

Enter ==
    /\ Running("program")
    /\ ClearIstat
    /\ pc' = "entered" /\ ranOnce' = 0
    /\ UNCHANGED <<cause, device, prog, broken, careful>>

(* Every pass of the loop reads the cause; only after the first one is      *)
(* finding none a reason to leave.                                          *)
MayLeave == ranOnce = 1 /\ stat = "none"

Leave ==
    /\ Running("entered") /\ MayLeave
    /\ pc' = "program" /\ cause' = "none" /\ ranOnce' = 0
    /\ UNCHANGED <<cd, device, prog, broken, careful>>

ReadCause ==
    /\ Running("entered") /\ ~MayLeave
    /\ cause' = stat /\ ranOnce' = 1
    /\ \/ action = "none" /\ broken' = "action" /\ UNCHANGED pc
       \/ action # "none" /\ pc' = "read" /\ UNCHANGED broken
    /\ UNCHANGED <<cd, device, prog, careful>>

AckCause ==
    /\ Running("read") /\ cause # "none"
    /\ Acknowledge
    /\ pc' = "acked"
    /\ UNCHANGED <<ranOnce, cause, device, prog, broken, careful>>

UnknownCause ==
    /\ Running("read") /\ cause = "none"
    /\ broken' = "cause"
    /\ UNCHANGED <<cd, isr, device, prog, careful>>

(* What a response leads to: the next state, and the command sent.  The     *)
(* last sector's dataReady pauses the drive.                                *)
ReadStep ==
    [s \in {"SETLOC", "SETMODE", "READ", "PAUSE"} |->
        CASE s = "SETLOC"  -> [state |-> "SETMODE", send |-> "Setmode"]
          [] s = "SETMODE" -> [state |-> "READ", send |-> "Read"]
          [] s = "READ"    -> [state |-> "READ_ACK", send |-> "none"]
          [] s = "PAUSE"   -> [state |-> "PAUSE_ACK", send |-> "none"]]
PlayStep ==
    [s \in {"GETTD", "SETMODE", "SETLOC", "SEEK", "PLAY", "STOPPING"} |->
        CASE s = "GETTD"    -> [state |-> "SETMODE", send |-> "Setmode"]
          [] s = "SETMODE"  -> [state |-> "SETLOC", send |-> "Setloc"]
          [] s = "SETLOC"   -> [state |-> "SEEK", send |-> "Seek"]
          [] s = "SEEK"     -> [state |-> "SEEK_ACK", send |-> "none"]
          [] s = "PLAY"     -> [state |-> "PLAYING", send |-> "none"]
          [] s = "STOPPING" -> [state |-> "STOPPING_ACK", send |-> "none"]]

(* The modes that a Setmode sent from the handler sets: readSectors' 0x80,  *)
(* or, after GETTD, the bits for the track                                  *)
ModesSent == IF action = "read" THEN {} ELSE TrackModes(toEnd)

Goto(step) ==
    /\ state' = step.state
    /\ IF step.send = "none" THEN UNCHANGED cd
       ELSE \E far \in {"yes", "no"} :
                /\ step.send # "Setloc" => far = "no"
                /\ WriteCommand(step.send, far, ModesSent)
    /\ UNCHANGED <<action, blocking, toEnd>>

(* The action ends: actionComplete is queued, or runs at once for a call   *)
(* that blocks.                                                            *)
Finish ==
    /\ action' = "none" /\ table' = NoTable
    /\ state' = IF blocking = 1 THEN "IDLE" ELSE state
    /\ queued' = IF blocking = 1 THEN queued ELSE queued \cup {"done"}
    /\ UNCHANGED <<cd, blocking, toEnd, count, playing, paused, broken>>

Abort(a) == broken' = a /\ UNCHANGED <<cd, device, prog>>

Quiet == UNCHANGED <<prog, table, broken>>

ReadAcknowledge ==
    \/ /\ state \in DOMAIN ReadStep
       /\ Goto(ReadStep[state]) /\ UNCHANGED <<count, location>> /\ Quiet
    \/ state \notin DOMAIN ReadStep /\ Abort("acknowledge")

(* Sectors are expected while reading only, the last one pauses the drive *)
ReadDataReady ==
    \/ /\ state = "READ_ACK" /\ count > 1
       /\ count' = count - 1
       /\ UNCHANGED <<cd, action, state, blocking, toEnd, location>> /\ Quiet
    \/ /\ state = "READ_ACK" /\ count = 1
       /\ count' = 0
       /\ Goto([state |-> "PAUSE", send |-> "Pause"]) /\ UNCHANGED location /\ Quiet
    \/ state # "READ_ACK" /\ Abort("dataReady")

ReadComplete ==
    \/ state = "PAUSE_ACK" /\ Finish /\ UNCHANGED location
    \/ state # "PAUSE_ACK" /\ Abort("complete")

(* An acknowledgement while audio plays is the answer to GetlocP *)
PlayAcknowledge ==
    \/ /\ state \in DOMAIN PlayStep
       /\ Goto(PlayStep[state])
       /\ queued' = IF state = "PLAY" THEN queued \cup {"started"} ELSE queued
       /\ UNCHANGED <<table, count, location, playing, paused, broken>>
    \/ /\ state = "PLAYING" /\ location = 1
       /\ location' = 0 /\ queued' = queued \cup {"location"}
       /\ UNCHANGED <<cd, action, state, blocking, table, toEnd, count, playing, paused, broken>>
    \/ /\ state \notin DOMAIN PlayStep
       /\ state # "PLAYING" \/ location = 0
       /\ Abort("acknowledge")

PlayComplete ==
    \/ /\ state = "SEEK_ACK"
       /\ Goto([state |-> "PLAY", send |-> "Play"]) /\ UNCHANGED <<count, location>> /\ Quiet
    \/ state = "STOPPING_ACK" /\ Finish /\ UNCHANGED location
    \/ state \notin {"SEEK_ACK", "STOPPING_ACK"} /\ Abort("complete")

(* The end of the audio is ignored while a pause is on its way; a location  *)
(* asked for is given up.                                                   *)
PlayEndReached ==
    \/ state = "STOPPING" /\ UNCHANGED <<cd, device, prog, broken>>
    \/ /\ state = "PLAYING"
       /\ action' = "none" /\ location' = 0
       /\ queued' = queued \cup {"done"} \cup IF location = 1 THEN {"location"} ELSE {}
       /\ UNCHANGED <<cd, state, blocking, table, toEnd, count, playing, paused, broken>>
    \/ state \notin {"STOPPING", "PLAYING"} /\ Abort("end")

ResetAcknowledge ==
    \/ /\ state = "RESET" /\ Goto([state |-> "RESET_ACK", send |-> "none"])
       /\ UNCHANGED <<count, location>> /\ Quiet
    \/ state # "RESET" /\ Abort("acknowledge")

ResetComplete ==
    \/ state = "RESET_ACK" /\ Finish /\ UNCHANGED location
    \/ state # "RESET_ACK" /\ Abort("complete")

(* The table of contents: the number of tracks, then the position of each, *)
(* up to the end of the disc or of the table.                              *)
TocMore == table.track + 1 <= Tracks /\ table.track + 1 < table.size

TocAcknowledge ==
    \/ /\ state = "GETTN"
       /\ Goto([state |-> "GETTD", send |-> "GetTN"])
       /\ table' = [table EXCEPT !.track = 1]
       /\ UNCHANGED <<count, location, prog, broken>>
    \/ /\ state = "GETTD" /\ table.track < table.size
       /\ \/ /\ TocMore /\ Goto([state |-> "GETTD", send |-> "GetTN"])
             /\ table' = [table EXCEPT !.track = @ + 1]
             /\ UNCHANGED <<count, location, prog, broken>>
          \/ ~TocMore /\ Finish /\ UNCHANGED location
    \/ state = "GETTD" /\ table.track >= table.size /\ Abort("overrun")

(* The functions each action has; the others are those of ActionBase.      *)
Overrides ==
    [read |-> {"Acknowledge", "DataReady", "Complete"}, play |-> {"Acknowledge", "Complete", "DataEnd"},
     reset |-> {"Acknowledge", "Complete"}, size |-> {"Acknowledge"}, toc |-> {"Acknowledge"},
     test |-> {"Acknowledge", "Complete"}, mute |-> {"Complete"}]

NotImplemented ==
    \E a \in {"dataReady", "complete", "acknowledge", "end"} :
        /\ cause = CASE a = "dataReady" -> "DataReady" [] a = "complete" -> "Complete"
                     [] a = "acknowledge" -> "Acknowledge" [] a = "end" -> "DataEnd"
        /\ Abort(a)

Dispatch ==
    /\ Running("acked") /\ action # "none"
    /\ pc' = "entered"
    /\ \/ cause = "DiskError" /\ Finish /\ UNCHANGED location
       \/ cause # "DiskError" /\ cause \notin Overrides[action] /\ NotImplemented
       \/ /\ action = "read"
          /\ \/ cause = "Acknowledge" /\ ReadAcknowledge
             \/ cause = "DataReady" /\ ReadDataReady
             \/ cause = "Complete" /\ ReadComplete
       \/ /\ action = "play"
          /\ \/ cause = "Acknowledge" /\ PlayAcknowledge
             \/ cause = "Complete" /\ PlayComplete
             \/ cause = "DataEnd" /\ PlayEndReached
       \/ /\ action = "reset"
          /\ \/ cause = "Acknowledge" /\ ResetAcknowledge
             \/ cause = "Complete" /\ ResetComplete
       \/ action = "toc" /\ cause = "Acknowledge" /\ TocAcknowledge
       \/ /\ action \in {"size", "test", "mute"} /\ cause \in Overrides[action]
          /\ Finish /\ UNCHANGED location
    /\ UNCHANGED <<ranOnce, cause, careful>>

Handler == Enter \/ Leave \/ ReadCause \/ AckCause \/ UnknownCause \/ Dispatch

-----------------------------------------------------------------------------
(* The controller's events.  Unless things may be late, the program always  *)
(* handles a response before another one is ready.  Even if they are, the   *)
(* handler takes less time than a command it sends (0x800 cycles).          *)
Handled == pc = "program" /\ istat = 0
Timely ==
    \/ Handled
    \/ "late" \in Hurry /\ (pc = "program" \/ part = 2 \/ irq = "none")

Event(e) == /\ broken = "no" /\ Timely
            /\ e
            /\ careful' = IF Handled THEN careful ELSE 0
            /\ UNCHANGED <<isr, device, prog, broken>>

PsyqoNext ==
    \/ Program \/ Handler
    \/ Event(Interrupt) \/ Event(ReadInterrupt) \/ Event(PlayInterrupt)

PsyqoSpec == PsyqoInit /\ [][PsyqoNext]_vars

(* Events happen, and the CPU runs the handler and the main loop *)
PsyqoFairSpec ==
    /\ PsyqoSpec
    /\ WF_vars(Handler)
    /\ WF_vars(Return \/ \E b \in queued : RunCallback(b))
    /\ WF_vars(Event(Interrupt)) /\ WF_vars(Event(ReadInterrupt)) /\ WF_vars(Event(PlayInterrupt))

-----------------------------------------------------------------------------
PsyqoTypeOK ==
    /\ TypeOK
    /\ pc \in {"program", "entered", "read", "acked"} /\ ranOnce \in Bit
    /\ cause \in Causes \cup {"none"}
    /\ action \in DOMAIN Overrides \cup {"none"} /\ state \in States
    /\ blocking \in Bit /\ table \in [size : Nat, track : Nat]
    /\ toEnd \in Bit /\ count \in 0..Count /\ location \in Bit
    /\ queued \subseteq {"started", "location", "done"} /\ playing \in Bit /\ paused \in Bit
    /\ broken \in Aborts /\ careful \in Bit

(* No response goes unseen: one that waits while the program runs has its   *)
(* interrupt pending.                                                       *)
ResponseSeen == broken = "no" /\ pc = "program" /\ stat # "none" => istat = 1

(* The driver and the controller agree on what comes next, as long as the   *)
(* program is careful: no assertion and no abort of the device is reached.  *)
NeverAborts == careful = 1 => broken = "no"

(* A response is due, or still to be dispatched. *)
Comes == irq # "none" \/ stat # "none" \/ pc = "acked"

(* What an action waits for is on its way: a response, the next sector, the *)
(* end of a seek, or that of the audio, which tells of itself in AUTOPAUSE  *)
(* alone.  When no action is left its last callback has run or is queued,   *)
(* and a call that blocks goes by.                                          *)
NobodyForgotten ==
    /\ action # "none" =>
          \/ Comes
          \/ state = "READ_ACK" /\ "READ" \in pending
          \/ state = "SEEK_ACK" /\ seeked = "pending" /\ "PLAY" \in pending
          \/ state = "PLAYING" /\ (play = 1 \/ "AUTOPAUSE" \notin mode)
    /\ action = "none" => state = "IDLE" \/ ("done" \in queued /\ blocking = 0)
    /\ action = "play" /\ state = "PLAYING" => playing = 1 \/ "started" \in queued

(* So the device and the controller agree, as long as the program is        *)
(* careful: none of the device's assertions and aborts is reached, and      *)
(* nothing it waits for has been forgotten (cdrom-device.cpp:66-161).       *)
DeviceAgrees == careful = 1 => broken = "no" /\ NobodyForgotten

(* Every action but playing ends, with its callback called, even when a     *)
(* sector or the disc cannot be read, and a call that blocks returns.       *)
ActionsEnd ==
    action \notin {"none", "play"} ~> (state = "IDLE" /\ blocking = 0) \/ careful = 0

(* The callback of an audio playback is called a second time once it was    *)
(* paused or stopped, or its track ended.                                   *)
PlaysEnd ==
    state = "STOPPING" \/ (state = "PLAYING" /\ play = 0 /\ "AUTOPAUSE" \in mode)
        ~> state = "IDLE" \/ careful = 0

(* The callback is called a second time "at the end of the disc if the last *)
(* track is reached" (cdrom-device.hh:331), whoever set the mode.           *)
DiscEnds == state = "PLAYING" /\ play = 0 ~> state = "IDLE" \/ careful = 0
=============================================================================
