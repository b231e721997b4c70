-------------------------- MODULE PsyqoCdRom_proof --------------------------
(***************************************************************************)
(* Theorems about PSYQo's CDRomDevice, for every set of uses and any       *)
(* number of sectors.  The device drives the controller by commands,       *)
(* acknowledgements and the clearing of its interrupt alone, so that the   *)
(* controller's invariant carries over; the mask of its interrupt stays    *)
(* as prepare left it, and so a response always raises the interrupt.      *)
(* On top of it, for careful programs: device and controller agree on the   *)
(* response that comes next, so that the device never aborts.              *)
(***************************************************************************)
EXTENDS PsyqoCdRom, CdRom_proof

OwnTypes ==
    /\ pc \in {"program", "entered", "read", "acked"} /\ ranOnce \in Bit
    /\ cause \in Causes \cup {"none"}
    /\ action \in DOMAIN Overrides \cup {"none"} /\ state \in States
    /\ blocking \in Bit /\ table \in [size : Nat, track : Nat]
    /\ toEnd \in Bit /\ count \in 0..Count /\ location \in Bit
    /\ queued \subseteq {"started", "location", "done"} /\ playing \in Bit /\ paused \in Bit
    /\ broken \in Aborts /\ careful \in Bit

PInv == IInv /\ OwnTypes /\ mask = 1 /\ ResponseSeen

LEMMA PsyqoInitRight == PsyqoInit => PInv
<1> SUFFICES ASSUME PsyqoInit PROVE PInv
  OBVIOUS
<1>1. IInv
  BY InitRight DEF PsyqoInit
<1>2. OwnTypes
  BY PsyqoAssumption DEF PsyqoInit, OwnTypes, Bit, Causes, States, Aborts, NoTable
<1>3. mask = 1 /\ ResponseSeen
  BY DEF PsyqoInit, Init, ResponseSeen
<1> QED
  BY <1>1, <1>2, <1>3 DEF PInv

(* What a step may do to the controller: nothing, or what keeps its        *)
(* invariant and tells of every new response.                              *)
Told ==
    /\ IInv' /\ mask' = mask
    /\ stat' # "none" => istat' = 1 \/ (stat' = stat /\ istat' = istat)

LEMMA LeftAlone == ASSUME IInv, UNCHANGED cd PROVE Told
<1>1. IInv'
  BY StepRight
<1> QED
  BY <1>1 DEF Told, cd, answer

(* The commands of the device *)
DeviceCommands == {"Setloc", "Setmode", "Read", "Pause", "Stop", "GetTN", "Seek", "Play", "Mute",
                   "Reset", "Getparam"}

LEMMA CommandTold ==
    ASSUME IInv, NEW c \in DeviceCommands, NEW far, NEW m \in SUBSET Modes, WriteCommand(c, far, m)
    PROVE  Told
<1>1. c \in Commands
  BY PsyqoAssumption DEF DeviceCommands
<1>2. IInv'
  BY <1>1, WriteRight
<1> QED
  BY <1>2 DEF WriteCommand, answer, Told

LEMMA EventTold ==
    ASSUME IInv, mask = 1, Interrupt \/ ReadInterrupt \/ PlayInterrupt
    PROVE  Told
<1>1. IInv'
  BY StepRight DEF Next
<1>2. UNCHANGED answer \/ \E s : SetIrq(s)
  <2>1. CASE Interrupt
    BY <2>1 DEF Interrupt, RepeatCommand, AnswerPlain, AnswerPlay, AnswerRead, AnswerSeek,
                AnswerInit, AnswerFirst, AnswerSecond, Answered, Respond
  <2>2. CASE ReadInterrupt
    BY <2>2 DEF ReadInterrupt, PutOffRead, ReadFails, ReadSector
  <2>3. CASE PlayInterrupt
    <3>1. PICK s : PlayEnd(s)
      BY <2>3 DEF PlayInterrupt, PlayNothing, PlayAudio
    <3> QED
      BY <3>1 DEF PlayEnd
  <2> QED
    BY <2>1, <2>2, <2>3
<1>3. mask' = mask /\ (stat' # "none" => istat' = 1 \/ (stat' = stat /\ istat' = istat))
  BY <1>2 DEF SetIrq, answer
<1> QED
  BY <1>1, <1>3 DEF Told

-----------------------------------------------------------------------------
(* The program *)

LEMMA BeginTypes ==
    ASSUME OwnTypes, NEW a \in DOMAIN Overrides, NEW s \in States, Begin(a, s),
           count' \in 0..Count, toEnd' \in Bit, table' \in [size : Nat, track : Nat]
    PROVE  OwnTypes' /\ pc' = pc /\ broken' = broken
<1>1. blocking' \in Bit /\ paused' \in Bit /\ careful' \in Bit
  BY DEF Begin, Blocks, OwnTypes, Bit
<1> QED
  BY <1>1 DEF OwnTypes, Begin, isr

(* The names of the actions *)
LEMMA ActionNames == DOMAIN Overrides = {"read", "play", "reset", "size", "toc", "test", "mute"}
BY DEF Overrides

LEMMA ProgramRight == ASSUME PInv, Program PROVE Told /\ OwnTypes' /\ pc' = pc /\ broken' = broken
<1> USE DEF PInv
<1>0. \A end \in Bit : TrackModes(end) \in SUBSET Modes /\ MsfModes(end) \in SUBSET Modes
  BY DEF TrackModes, MsfModes, Modes
<1>1. ASSUME NEW n \in 1..Count, StartRead(n) PROVE Told /\ OwnTypes' /\ pc' = pc /\ broken' = broken
  <2>1. Told
    BY <1>1, CommandTold DEF StartRead, DeviceCommands
  <2>2. count' \in 0..Count /\ toEnd' \in Bit /\ table' \in [size : Nat, track : Nat]
    BY <1>1, PsyqoAssumption DEF StartRead, Sectors, OwnTypes
  <2>3. "SETLOC" \in States
    BY DEF States
  <2> QED
    BY <1>1, <2>1, <2>2, <2>3, ActionNames, BeginTypes DEF StartRead
<1>2. ASSUME NEW end \in Bit, StartPlay(end) PROVE Told /\ OwnTypes' /\ pc' = pc /\ broken' = broken
  <2>1. Told
    BY <1>0, <1>2, CommandTold DEF StartPlay, DeviceCommands
  <2>2. count' \in 0..Count /\ toEnd' \in Bit /\ table' \in [size : Nat, track : Nat]
    BY <1>2 DEF StartPlay, OwnTypes
  <2>3. "GETTD" \in States /\ "SETMODE" \in States
    BY DEF States
  <2>4. Begin("play", "GETTD") \/ Begin("play", "SETMODE")
    BY <1>2 DEF StartPlay
  <2> QED
    BY <2>1, <2>2, <2>3, <2>4, ActionNames, BeginTypes
<1>3. CASE Resume
  <2>1. Told
    BY <1>3, CommandTold DEF Resume, DeviceCommands
  <2>2. count' \in 0..Count /\ toEnd' \in Bit /\ table' \in [size : Nat, track : Nat]
    BY <1>3 DEF Resume, OwnTypes
  <2>3. "PLAY" \in States
    BY DEF States
  <2> QED
    BY <1>3, <2>1, <2>2, <2>3, ActionNames, BeginTypes DEF Resume
<1>4. ASSUME NEW c \in {"Pause", "Stop"}, StopPlaying(c)
      PROVE  Told /\ OwnTypes' /\ pc' = pc /\ broken' = broken
  <2>1. Told
    BY <1>4, CommandTold DEF StopPlaying, DeviceCommands
  <2> QED
    BY <1>4, <2>1 DEF StopPlaying, OwnTypes, States, isr, Bit
<1>5. CASE GetLocation
  <2>1. Told
    BY <1>5, CommandTold DEF GetLocation, DeviceCommands
  <2> QED
    BY <1>5, <2>1 DEF GetLocation, OwnTypes, isr, prog, Bit
<1>6. ASSUME NEW b \in queued, RunCallback(b)
      PROVE  Told /\ OwnTypes' /\ pc' = pc /\ broken' = broken
  <2>1. Told
    BY <1>6, LeftAlone DEF RunCallback
  <2>2. playing' \in Bit
    BY <1>6 DEF RunCallback, OwnTypes, Bit
  <2> QED
    BY <1>6, <2>1, <2>2 DEF RunCallback, OwnTypes, States, isr
<1>7. ASSUME NEW a \in DOMAIN Overrides, NEW s \in States, NEW c \in DeviceCommands, StartPlain(a, s, c)
      PROVE  Told /\ OwnTypes' /\ pc' = pc /\ broken' = broken
  <2>1. Told
    BY <1>7, CommandTold DEF StartPlain
  <2>2. count' \in 0..Count /\ toEnd' \in Bit /\ table' \in [size : Nat, track : Nat]
    BY <1>7 DEF StartPlain, OwnTypes
  <2> QED
    BY <1>7, <2>1, <2>2, BeginTypes DEF StartPlain
<1>8. ASSUME NEW size \in Sizes, StartToc(size)
      PROVE  Told /\ OwnTypes' /\ pc' = pc /\ broken' = broken
  <2>1. Told
    BY <1>8, CommandTold DEF StartToc, DeviceCommands
  <2>2. table' \in [size : Nat, track : Nat]
    BY <1>8, PsyqoAssumption DEF StartToc, NoTable
  <2>3. count' \in 0..Count /\ toEnd' \in Bit /\ "GETTN" \in States
    BY <1>8 DEF StartToc, OwnTypes, States
  <2> QED
    BY <1>8, <2>1, <2>2, <2>3, ActionNames, BeginTypes DEF StartToc
<1>9. CASE Return
  <2>1. Told
    BY <1>9, LeftAlone DEF Return
  <2> QED
    BY <1>9, <2>1 DEF Return, OwnTypes, isr, prog, Bit
<1>10. /\ {"RESET", "GETTN", "TEST", "MUTE"} \subseteq States
       /\ {"Reset", "GetTN", "Getparam", "Mute"} \subseteq DeviceCommands
  BY DEF States, DeviceCommands
<1>11. CASE \/ StartPlain("reset", "RESET", "Reset") \/ StartPlain("size", "GETTN", "GetTN")
            \/ StartPlain("test", "TEST", "Getparam") \/ StartPlain("mute", "MUTE", "Mute")
  BY <1>7, <1>10, <1>11, ActionNames
<1> QED
  BY <1>1, <1>2, <1>3, <1>4, <1>5, <1>6, <1>8, <1>9, <1>11 DEF Program

-----------------------------------------------------------------------------
(* The handler *)

LEMMA GotoRight ==
    ASSUME PInv, NEW s \in States, NEW c \in DeviceCommands \cup {"none"},
           Goto([state |-> s, send |-> c])
    PROVE  Told /\ state' \in States /\ UNCHANGED <<action, blocking, toEnd>>
<1> USE DEF PInv
<1>1. ModesSent \in SUBSET Modes
  BY DEF ModesSent, TrackModes, Modes
<1>2. state' = s /\ UNCHANGED <<action, blocking, toEnd>>
  BY DEF Goto
<1>3. CASE c = "none"
  BY <1>2, <1>3, LeftAlone DEF Goto
<1>4. CASE c \in DeviceCommands
  <2>1. PICK far : WriteCommand(c, far, ModesSent)
    BY <1>4 DEF Goto, DeviceCommands
  <2> QED
    BY <1>1, <1>2, <1>4, <2>1, CommandTold
<1> QED
  BY <1>3, <1>4

(* What an answer to a response leaves in its place *)
Kept ==
    /\ Told
    /\ action' \in DOMAIN Overrides \cup {"none"} /\ state' \in States
    /\ blocking' \in Bit /\ table' \in [size : Nat, track : Nat]
    /\ toEnd' \in Bit /\ count' \in 0..Count /\ location' \in Bit
    /\ queued' \subseteq {"started", "location", "done"} /\ playing' \in Bit /\ paused' \in Bit
    /\ broken' \in Aborts

LEMMA FinishRight == ASSUME PInv, Finish, UNCHANGED location PROVE Kept
<1>1. Told
  BY LeftAlone DEF Finish, PInv
<1>2. state' \in States /\ table' \in [size : Nat, track : Nat]
  BY DEF Finish, PInv, OwnTypes, States, NoTable
<1>3. queued' \subseteq {"started", "location", "done"}
  BY DEF Finish, PInv, OwnTypes
<1> QED
  BY <1>1, <1>2, <1>3 DEF Finish, PInv, OwnTypes, Kept

LEMMA AbortRight == ASSUME PInv, NEW a \in Aborts, Abort(a) PROVE Kept
<1>1. Told
  BY LeftAlone DEF Abort, PInv
<1> QED
  BY <1>1 DEF Abort, device, prog, PInv, OwnTypes, Kept

LEMMA AbortNames == {"dataReady", "complete", "acknowledge", "end", "action", "cause", "no", "overrun"} \subseteq Aborts
BY DEF Aborts

LEMMA ReadRightly == ASSUME PInv, ReadAcknowledge \/ ReadDataReady \/ ReadComplete PROVE Kept
<1>1. CASE state \in DOMAIN ReadStep /\ Goto(ReadStep[state]) /\ UNCHANGED <<count, location>> /\ Quiet
  <2>1. PICK s \in States, c \in DeviceCommands \cup {"none"} : ReadStep[state] = [state |-> s, send |-> c]
    BY <1>1 DEF ReadStep, States, DeviceCommands
  <2>2. Told /\ state' \in States /\ UNCHANGED <<action, blocking, toEnd>>
    BY <1>1, <2>1, GotoRight
  <2> QED
    BY <1>1, <2>2 DEF Quiet, prog, PInv, OwnTypes, Kept
<1>2. CASE /\ state = "READ_ACK" /\ count > 1 /\ count' = count - 1
           /\ UNCHANGED <<cd, action, state, blocking, toEnd, location>> /\ Quiet
  <2>1. Told
    BY <1>2, LeftAlone DEF PInv
  <2>2. count' \in 0..Count
    BY <1>2, PsyqoAssumption DEF PInv, OwnTypes
  <2> QED
    BY <1>2, <2>1, <2>2 DEF Quiet, prog, PInv, OwnTypes, Kept
<1>3. CASE /\ count' = 0 /\ Goto([state |-> "PAUSE", send |-> "Pause"]) /\ UNCHANGED location /\ Quiet
  <2>1. "PAUSE" \in States /\ "Pause" \in DeviceCommands
    BY DEF States, DeviceCommands
  <2>2. Told /\ state' \in States /\ UNCHANGED <<action, blocking, toEnd>>
    BY <1>3, <2>1, GotoRight
  <2>3. count' \in 0..Count
    BY <1>3, PsyqoAssumption
  <2> QED
    BY <1>3, <2>2, <2>3 DEF Quiet, prog, PInv, OwnTypes, Kept
<1>4. CASE Abort("acknowledge") \/ Abort("dataReady") \/ Abort("complete")
  BY <1>4, AbortRight, AbortNames
<1>5. CASE Finish /\ UNCHANGED location
  BY <1>5, FinishRight
<1> QED
  BY <1>1, <1>2, <1>3, <1>4, <1>5 DEF ReadAcknowledge, ReadDataReady, ReadComplete

LEMMA PlayRightly == ASSUME PInv, PlayAcknowledge \/ PlayComplete \/ PlayEndReached PROVE Kept
<1>1. CASE /\ state \in DOMAIN PlayStep /\ Goto(PlayStep[state])
           /\ queued' = IF state = "PLAY" THEN queued \cup {"started"} ELSE queued
           /\ UNCHANGED <<table, count, location, playing, paused, broken>>
  <2>1. PICK s \in States, c \in DeviceCommands \cup {"none"} : PlayStep[state] = [state |-> s, send |-> c]
    BY <1>1 DEF PlayStep, States, DeviceCommands
  <2>2. Told /\ state' \in States /\ UNCHANGED <<action, blocking, toEnd>>
    BY <1>1, <2>1, GotoRight
  <2> QED
    BY <1>1, <2>2 DEF PInv, OwnTypes, Kept
<1>2. CASE /\ state = "PLAYING" /\ location = 1 /\ location' = 0 /\ queued' = queued \cup {"location"}
           /\ UNCHANGED <<cd, action, state, blocking, table, toEnd, count, playing, paused, broken>>
  <2>1. Told
    BY <1>2, LeftAlone DEF PInv
  <2> QED
    BY <1>2, <2>1 DEF PInv, OwnTypes, Kept, Bit
<1>3. CASE Goto([state |-> "PLAY", send |-> "Play"]) /\ UNCHANGED <<count, location>> /\ Quiet
  <2>1. "PLAY" \in States /\ "Play" \in DeviceCommands
    BY DEF States, DeviceCommands
  <2>2. Told /\ state' \in States /\ UNCHANGED <<action, blocking, toEnd>>
    BY <1>3, <2>1, GotoRight
  <2> QED
    BY <1>3, <2>2 DEF Quiet, prog, PInv, OwnTypes, Kept
<1>4. CASE UNCHANGED <<cd, device, prog, broken>>
  <2>1. Told
    BY <1>4, LeftAlone DEF PInv
  <2> QED
    BY <1>4, <2>1 DEF device, prog, PInv, OwnTypes, Kept
<1>5. CASE /\ action' = "none" /\ location' = 0
           /\ queued' = queued \cup {"done"} \cup IF location = 1 THEN {"location"} ELSE {}
           /\ UNCHANGED <<cd, state, blocking, table, toEnd, count, playing, paused, broken>>
  <2>1. Told
    BY <1>5, LeftAlone DEF PInv
  <2> QED
    BY <1>5, <2>1 DEF PInv, OwnTypes, Kept, Bit
<1>6. CASE Abort("acknowledge") \/ Abort("complete") \/ Abort("end")
  BY <1>6, AbortRight, AbortNames
<1>7. CASE Finish /\ UNCHANGED location
  BY <1>7, FinishRight
<1> QED
  BY <1>1, <1>2, <1>3, <1>4, <1>5, <1>6, <1>7 DEF PlayAcknowledge, PlayComplete, PlayEndReached

LEMMA ResetRightly == ASSUME PInv, ResetAcknowledge \/ ResetComplete PROVE Kept
<1>1. CASE Goto([state |-> "RESET_ACK", send |-> "none"]) /\ UNCHANGED <<count, location>> /\ Quiet
  <2>1. "RESET_ACK" \in States
    BY DEF States
  <2>2. Told /\ state' \in States /\ UNCHANGED <<action, blocking, toEnd>>
    BY <1>1, <2>1, GotoRight
  <2> QED
    BY <1>1, <2>2 DEF Quiet, prog, PInv, OwnTypes, Kept
<1>2. CASE Finish /\ UNCHANGED location
  BY <1>2, FinishRight
<1>3. CASE Abort("acknowledge") \/ Abort("complete")
  BY <1>3, AbortRight, AbortNames
<1> QED
  BY <1>1, <1>2, <1>3 DEF ResetAcknowledge, ResetComplete

LEMMA TocRightly == ASSUME PInv, TocAcknowledge PROVE Kept
<1>1. CASE /\ Goto([state |-> "GETTD", send |-> "GetTN"])
           /\ \E n \in {1, table.track + 1} : table' = [table EXCEPT !.track = n]
           /\ UNCHANGED <<count, location, prog, broken>>
  <2>1. "GETTD" \in States /\ "GetTN" \in DeviceCommands
    BY DEF States, DeviceCommands
  <2>2. Told /\ state' \in States /\ UNCHANGED <<action, blocking, toEnd>>
    BY <1>1, <2>1, GotoRight
  <2>3. table' \in [size : Nat, track : Nat]
    BY <1>1 DEF PInv, OwnTypes
  <2> QED
    BY <1>1, <2>2, <2>3 DEF prog, PInv, OwnTypes, Kept
<1>2. CASE Finish /\ UNCHANGED location
  BY <1>2, FinishRight
<1>3. CASE Abort("overrun")
  BY <1>3, AbortRight, AbortNames
<1>4. \/ TocMore /\ table' = [table EXCEPT !.track = @ + 1] => table' = [table EXCEPT !.track = table.track + 1]
  OBVIOUS
<1> QED
  BY <1>1, <1>2, <1>3, <1>4 DEF TocAcknowledge

LEMMA NotImplementedRight == ASSUME PInv, NotImplemented PROVE Kept
<1>1. PICK a \in {"dataReady", "complete", "acknowledge", "end"} : Abort(a)
  BY DEF NotImplemented
<1> QED
  BY <1>1, AbortRight, AbortNames

LEMMA DispatchRight == ASSUME PInv, Dispatch PROVE IInv' /\ OwnTypes' /\ mask' = 1 /\ pc' = "entered"
<1>1. Kept
  BY FinishRight, ReadRightly, PlayRightly, ResetRightly, TocRightly, NotImplementedRight DEF Dispatch
<1> QED
  BY <1>1 DEF Dispatch, Kept, Told, PInv, OwnTypes

LEMMA HandlerRight == ASSUME PInv, Handler PROVE PInv'
<1>1. CASE Enter
  <2>1. IInv'
    BY <1>1, GuestRight DEF Enter, PInv
  <2> QED
    BY <1>1, <2>1 DEF Enter, ClearIstat, device, prog, PInv, OwnTypes, ResponseSeen, Bit
<1>2. CASE Leave
  <2>1. Told
    BY <1>2, LeftAlone DEF Leave, PInv
  <2> QED
    BY <1>2, <2>1 DEF Leave, MayLeave, Told, cd, answer, device, prog, PInv, OwnTypes, ResponseSeen, Bit
<1>3. CASE ReadCause
  <2>1. Told
    BY <1>3, LeftAlone DEF ReadCause, PInv
  <2>2. cause' \in Causes \cup {"none"} /\ ranOnce' \in Bit /\ careful' = careful
    BY <1>3 DEF ReadCause, PInv, IInv, TypeOK, Bit
  <2>3. pc' \in {"entered", "read"} /\ broken' \in Aborts
    BY <1>3, AbortNames DEF ReadCause, Running, PInv, OwnTypes
  <2> QED
    BY <1>3, <2>1, <2>2, <2>3 DEF ReadCause, Told, device, prog, PInv, OwnTypes, ResponseSeen
<1>4. CASE AckCause
  <2>1. IInv'
    BY <1>4, GuestRight DEF AckCause, PInv
  <2> QED
    BY <1>4, <2>1 DEF AckCause, Acknowledge, device, prog, PInv, OwnTypes, ResponseSeen
<1>5. CASE UnknownCause
  <2>1. Told
    BY <1>5, LeftAlone DEF UnknownCause, PInv
  <2> QED
    BY <1>5, <2>1, AbortNames DEF UnknownCause, Told, isr, device, prog, PInv, OwnTypes, ResponseSeen
<1>6. CASE Dispatch
  BY <1>6, DispatchRight DEF PInv, ResponseSeen
<1> QED
  BY <1>1, <1>2, <1>3, <1>4, <1>5, <1>6 DEF Handler

LEMMA PsyqoStepRight == PInv /\ [PsyqoNext]_vars => PInv'
<1> SUFFICES ASSUME PInv, [PsyqoNext]_vars PROVE PInv'
  OBVIOUS
<1>1. CASE Program
  <2>1. Told /\ OwnTypes' /\ pc' = pc /\ broken' = broken
    BY <1>1, ProgramRight
  <2> QED
    BY <2>1 DEF Told, PInv, ResponseSeen
<1>2. CASE Handler
  BY <1>2, HandlerRight
<1>3. CASE Event(Interrupt) \/ Event(ReadInterrupt) \/ Event(PlayInterrupt)
  <2>1. Told
    BY <1>3, EventTold DEF Event, PInv
  <2>2. UNCHANGED <<isr, device, prog, broken>> /\ careful' \in Bit
    BY <1>3 DEF Event, PInv, OwnTypes, Bit
  <2> QED
    BY <2>1, <2>2 DEF Told, PInv, OwnTypes, ResponseSeen, isr, device, prog
<1>4. CASE UNCHANGED vars
  <2>1. Told
    BY <1>4, LeftAlone DEF vars, PInv
  <2> QED
    BY <1>4, <2>1 DEF vars, Told, PInv, OwnTypes, ResponseSeen, isr, device, prog
<1> QED
  BY <1>1, <1>2, <1>3, <1>4 DEF PsyqoNext

(* The device's, the program's and the controller's state stay well formed *)
(* for every number of sectors and every use (cdrom-device.hh).            *)
THEOREM PsyqoTypeCorrect == PsyqoSpec => []PsyqoTypeOK
<1>1. PInv => PsyqoTypeOK
  BY DEF PInv, IInv, OwnTypes, PsyqoTypeOK
<1> QED
  BY <1>1, PsyqoInitRight, PsyqoStepRight, PTL DEF PsyqoSpec

(* No response goes unseen: irq() returns only when none waits, though it  *)
(* clears the interrupt once (cdrom-device.cpp:66-72).                     *)
THEOREM ResponsesSeen == PsyqoSpec => []ResponseSeen
<1>1. PInv => ResponseSeen
  BY DEF PInv
<1> QED
  BY <1>1, PsyqoInitRight, PsyqoStepRight, PTL DEF PsyqoSpec
-----------------------------------------------------------------------------
(* The device and the controller agree.  As long as the program is careful  *)
(* a response becomes ready only when none is handled, so that each one is  *)
(* the one its action waits for.                                            *)

(* The response that is still to be dispatched *)
Coming == IF pc = "acked" THEN cause ELSE stat

(* How far irq() is, by what waits and what it has seen *)
Handling ==
    /\ pc # "program" => istat = 0
    /\ pc = "program" => (istat = 1 <=> stat # "none")
    /\ pc = "entered" => (ranOnce = 1 <=> stat = "none")
    /\ pc = "read" => cause = stat /\ stat # "none" /\ ranOnce = 1
    /\ pc = "acked" => cause # "none" /\ stat = "none" /\ ranOnce = 1

(* Where action a, in state s, waits for the first response to command c, *)
(* and where for the second one                                           *)
First(a, s, c) ==
    \/ /\ a = "read"
       /\ \/ s = "SETLOC" /\ c = "Setloc"
          \/ s = "SETMODE" /\ c = "Setmode"
          \/ s = "READ" /\ c = "Read"
          \/ s = "PAUSE" /\ c = "Pause"
    \/ /\ a = "play"
       /\ \/ s = "GETTD" /\ c = "GetTN"
          \/ s = "SETMODE" /\ c = "Setmode"
          \/ s = "SETLOC" /\ c = "Setloc"
          \/ s = "SEEK" /\ c = "Seek"
          \/ s = "PLAY" /\ c = "Play"
          \/ s = "STOPPING" /\ c \in {"Pause", "Stop"}
    \/ a = "reset" /\ s = "RESET" /\ c = "Reset"
    \/ a = "size" /\ s = "GETTN" /\ c = "GetTN"
    \/ a = "test" /\ s = "TEST" /\ c = "Getparam"
    \/ a = "toc" /\ s \in {"GETTN", "GETTD"} /\ c = "GetTN"
Again(a, s, c) ==
    \/ a = "read" /\ s = "PAUSE_ACK" /\ c = "Pause"
    \/ a = "play" /\ s = "STOPPING_ACK" /\ c \in {"Pause", "Stop"}
    \/ a = "reset" /\ s = "RESET_ACK" /\ c = "Reset"

(* What the controller owes the action *)
Idle == action = "none" /\ irq = "none" /\ Coming = "none"
Asked ==
    /\ First(action, state, irq) /\ part = 1
    /\ Coming = "none" \/ (state = "STOPPING" /\ Coming = "DataEnd")
ToldFirst(c) ==
    /\ First(action, state, c)
    /\ Coming = "Acknowledge" \/ (Coming = "DiskError" /\ c = "GetTN")
    /\ IF c \in {"Pause", "Stop", "Reset"} THEN irq = c /\ part = 2 ELSE irq = "none"
AskedAgain == Again(action, state, irq) /\ part = 2 /\ Coming = "none"
ToldSecond(c) == Again(action, state, c) /\ irq = "none" /\ Coming = "Complete"
Unasked ==
    /\ irq = "none"
    /\ \/ action = "read" /\ state = "READ_ACK" /\ Coming \in {"none", "DataReady", "DiskError"}
       \/ action = "play" /\ state = "SEEK_ACK" /\ Coming \in {"none", "Complete"}
       \/ action = "play" /\ state = "PLAYING" /\ Coming \in {"none", "DataEnd"}
Due == \/ Idle \/ Asked \/ AskedAgain \/ Unasked
       \/ \E c \in DeviceCommands : ToldFirst(c) \/ ToldSecond(c)

(* Sectors come only while they are read, and none after an error *)
Sectored ==
    /\ "READ" \in pending => /\ action = "read" /\ Coming # "DiskError"
                             /\ \/ state = "READ" /\ Coming = "Acknowledge"
                                \/ state = "READ_ACK"
    /\ action = "read" /\ state \in {"SETMODE", "READ", "READ_ACK"} => mode = {}
    /\ action = "read" /\ state \in {"READ_ACK", "PAUSE"} => drive = "standby"
    /\ action = "read" /\ state = "READ" /\ Coming # "none" => drive = "standby"
    /\ mode \subseteq {"CDDA", "AUTOPAUSE"} /\ drive \in {"standby", "stopped"} /\ repeated = 0

(* Audio plays for a play action alone, and a seek ends only where one waits *)
Played ==
    /\ "PLAY" \in pending => action \in {"none", "play"}
    /\ action = "none" => play = 0 /\ ("PLAY" \in pending => seeked = "done")
    /\ action = "play" =>
           /\ state \in {"GETTD", "SETMODE", "SETLOC"} => "PLAY" \notin pending
           /\ state \in {"SEEK", "SEEK_ACK", "STOPPING_ACK"} => play = 0
           /\ state \in {"PLAYING", "STOPPING", "STOPPING_ACK"} => seeked = "done"
           /\ state = "PLAY" /\ Coming # "none" => seeked = "done"
           /\ state = "PLAYING" /\ Coming # "none" => play = 0

(* The table has room for the position that is asked for *)
Roomy == action = "toc" => table.size > 1 /\ (state = "GETTD" => table.track < table.size)

Agree == Handling /\ Due /\ Sectored /\ Played /\ Roomy /\ broken = "no" /\ ("done" \in queued => action = "none")

(* Without mute, which aborts, and with tables of at least two entries, the *)
(* size below which readTOC writes past the table                           *)
Supported == "mute" \notin Uses /\ \A n \in Sizes : n > 1

DInv == PInv /\ (careful = 1 => Agree)

LEMMA AgreeInit == PsyqoInit => Agree
BY DEF PsyqoInit, Init, Agree, Handling, Due, Idle, Coming, Sectored, Played, Roomy

(* A command that is sent with none due *)
LEMMA Sent ==
    ASSUME PInv, repeated = 0, irq = "none", NEW c \in DeviceCommands, NEW far,
           NEW m \in SUBSET {"CDDA", "AUTOPAUSE"}, mode \in SUBSET {"CDDA", "AUTOPAUSE"},
           WriteCommand(c, far, m)
    PROVE  /\ irq' = c /\ part' = 1 /\ repeated' = 0
           /\ mode' \in SUBSET {"CDDA", "AUTOPAUSE"} /\ mode' = IF c = "Setmode" THEN m ELSE mode
           /\ UNCHANGED <<answer, motor>>
           /\ "READ" \in pending' => "READ" \in pending /\ c \notin StopAtOnce
           /\ "PLAY" \in pending' => "PLAY" \in pending
           /\ play = 0 => play' = 0
           /\ c \in {"Setloc", "Reset"} \/ seeked' = seeked
<1>1. irq' = c /\ part' = 1 /\ repeated' = 0
  BY DEF WriteCommand, AddIrqQueue, IrqOf, DeviceCommands
<1>2. mode' \in SUBSET {"CDDA", "AUTOPAUSE"} /\ mode' = IF c = "Setmode" THEN m ELSE mode
  BY DEF WriteCommand
<1>3. UNCHANGED <<answer, motor>>
  BY DEF WriteCommand
<1>4. "READ" \in pending' => "READ" \in pending /\ c \notin StopAtOnce
  BY DEF WriteCommand, StopReading, PInv, IInv, EventsRight
<1>5. "PLAY" \in pending' => "PLAY" \in pending
  BY DEF WriteCommand, StopReading
<1>6. play = 0 => play' = 0
  BY DEF WriteCommand
<1>7. c \in {"Setloc", "Reset"} \/ seeked' = seeked
  BY DEF WriteCommand, DeviceCommands
<1> QED
  BY <1>1, <1>2, <1>3, <1>4, <1>5, <1>6, <1>7

-----------------------------------------------------------------------------
LEMMA BeginAgrees ==
    ASSUME PInv, careful = 1 => Agree, careful' = 1,
           NEW a \in DOMAIN Overrides, NEW s \in States, NEW c \in DeviceCommands, NEW far,
           NEW m \in SUBSET {"CDDA", "AUTOPAUSE"},
           Begin(a, s), First(a, s, c), WriteCommand(c, far, m),
           a = "toc" => s = "GETTN" /\ table'.size > 1,
           a = "read" => s = "SETLOC",
           a = "play" => s \in {"GETTD", "SETMODE", "PLAY"}
    PROVE  Agree'
<1>1. /\ careful = 1 /\ "PLAY" \notin pending /\ action = "none" /\ pc = "program" /\ queued = {}
      /\ action' = a /\ state' = s /\ UNCHANGED <<isr, queued, broken>>
  BY DEF Begin, MayStart, Running
<1>2. Agree
  BY <1>1
<1>3. irq = "none" /\ Coming = "none"
  BY <1>1, <1>2 DEF Agree, Due, Idle, Asked, ToldFirst, ToldSecond, AskedAgain, Unasked, First, Again
<1>4. repeated = 0 /\ mode \in SUBSET {"CDDA", "AUTOPAUSE"} /\ "READ" \notin pending /\ play = 0
  BY <1>1, <1>2 DEF Agree, Sectored, Played
<1>5. /\ irq' = c /\ part' = 1 /\ repeated' = 0
      /\ mode' \in SUBSET {"CDDA", "AUTOPAUSE"}
      /\ UNCHANGED <<answer, motor>>
      /\ "READ" \notin pending' /\ "PLAY" \notin pending'
      /\ play' = 0
  BY <1>1, <1>3, <1>4, Sent
<1>6. Coming' = "none"
  BY <1>1, <1>3, <1>5 DEF Coming, isr, answer
<1>7. Handling'
  BY <1>1, <1>2, <1>5 DEF Agree, Handling, isr, answer
<1>8. Due'
  BY <1>1, <1>5, <1>6 DEF Due, Asked
<1>9. Sectored'
  BY <1>1, <1>2, <1>5, <1>6, ActionNames DEF Agree, Sectored, motor
<1>10. Played'
  BY <1>1, <1>5, <1>6, ActionNames DEF Played
<1>11. Roomy' /\ broken' = "no" /\ ("done" \in queued' => action' = "none")
  BY <1>1, <1>2 DEF Agree, Roomy
<1> QED
  BY <1>7, <1>8, <1>9, <1>10, <1>11 DEF Agree

LEMMA StopAgrees ==
    ASSUME PInv, Agree, NEW c \in {"Pause", "Stop"}, StopPlaying(c)
    PROVE  Agree'
<1>1. /\ pc = "program" /\ action = "play" /\ state = "PLAYING" /\ state' = "STOPPING"
      /\ WriteCommand(c, "no", {})
      /\ UNCHANGED <<isr, action, table, queued, broken>>
  BY DEF StopPlaying, Running
<1>2. irq = "none" /\ Coming \in {"none", "DataEnd"}
  BY <1>1 DEF Agree, Due, Idle, Asked, ToldFirst, ToldSecond, AskedAgain, Unasked, First, Again
<1>3. c \in DeviceCommands /\ {} \in SUBSET {"CDDA", "AUTOPAUSE"} /\ c \notin {"Setloc", "Reset"}
  BY DEF DeviceCommands
<1>4. repeated = 0 /\ mode \in SUBSET {"CDDA", "AUTOPAUSE"} /\ "READ" \notin pending
  BY <1>1 DEF Agree, Sectored
<1>5. /\ irq' = c /\ part' = 1 /\ repeated' = 0
      /\ mode' \in SUBSET {"CDDA", "AUTOPAUSE"}
      /\ UNCHANGED <<answer, motor>>
      /\ "READ" \notin pending'
      /\ seeked' = seeked
  BY <1>1, <1>2, <1>3, <1>4, Sent
<1>6. Coming' = Coming
  BY <1>1, <1>5 DEF Coming, isr, answer
<1>7. Handling'
  BY <1>1, <1>5 DEF Agree, Handling, isr, answer
<1>8. Due'
  BY <1>1, <1>2, <1>5, <1>6 DEF Due, Asked, First
<1>9. Sectored'
  BY <1>1, <1>5, <1>6 DEF Agree, Sectored, motor
<1>10. Played'
  BY <1>1, <1>5, <1>6 DEF Agree, Played
<1>11. Roomy' /\ broken' = "no" /\ ("done" \in queued' => action' = "none")
  BY <1>1 DEF Agree, Roomy
<1> QED
  BY <1>7, <1>8, <1>9, <1>10, <1>11 DEF Agree

(* Steps that leave the agreement alone: the controller stands still, and   *)
(* what is to be dispatched stays the same                                  *)
LEMMA StillAgrees ==
    ASSUME Agree, UNCHANGED <<host, disc, motor, pending, action, table, broken>>, Coming' = Coming, Handling',
           state' = state \/ action = "none", "done" \in queued' => "done" \in queued
    PROVE  Agree'
<1>1. Due'
  BY DEF host, Agree, Due, Idle, Asked, ToldFirst, ToldSecond, AskedAgain, Unasked, First, Again
<1>2. Sectored'
  BY DEF host, disc, motor, Agree, Sectored
<1>3. Played'
  BY DEF disc, Agree, Played
<1> QED
  BY <1>1, <1>2, <1>3 DEF Agree, Roomy

LEMMA ProgramAgrees ==
    ASSUME Supported, DInv, Program, careful' = 1
    PROVE  Agree'
<1> USE DEF DInv
<1>0. \A end \in Bit : /\ TrackModes(end) \in SUBSET {"CDDA", "AUTOPAUSE"}
                       /\ MsfModes(end) \in SUBSET {"CDDA", "AUTOPAUSE"}
  BY DEF TrackModes, MsfModes
<1>1. {} \in SUBSET {"CDDA", "AUTOPAUSE"}
  OBVIOUS
<1>a. /\ {"Setloc", "GetTN", "Setmode", "Play", "Reset", "Getparam"} \subseteq DeviceCommands
      /\ {"SETLOC", "GETTD", "SETMODE", "PLAY", "RESET", "GETTN", "TEST"} \subseteq States
  BY DEF DeviceCommands, States
<1>2. ASSUME NEW n \in 1..Count, StartRead(n) PROVE Agree'
  <2>1. PICK far \in {"yes", "no"} : WriteCommand("Setloc", far, {})
    BY <1>2 DEF StartRead
  <2>2. Begin("read", "SETLOC") /\ First("read", "SETLOC", "Setloc")
    BY <1>2 DEF StartRead, First
  <2> QED
    BY <1>1, <1>a, <2>1, <2>2, ActionNames, BeginAgrees
<1>3. ASSUME NEW end \in Bit, StartPlay(end) PROVE Agree'
  <2>1. CASE Begin("play", "GETTD") /\ WriteCommand("GetTN", "no", {})
    <3>1. First("play", "GETTD", "GetTN")
      BY DEF First
    <3> QED
      BY <1>1, <1>a, <2>1, <3>1, ActionNames, BeginAgrees
  <2>2. CASE Begin("play", "SETMODE") /\ WriteCommand("Setmode", "no", MsfModes(end))
    <3>1. First("play", "SETMODE", "Setmode")
      BY DEF First
    <3> QED
      BY <1>0, <1>a, <2>2, <3>1, ActionNames, BeginAgrees
  <2> QED
    BY <1>3, <2>1, <2>2 DEF StartPlay
<1>4. CASE Resume
  <2>1. Begin("play", "PLAY") /\ WriteCommand("Play", "no", {}) /\ First("play", "PLAY", "Play")
    BY <1>4 DEF Resume, First
  <2> QED
    BY <1>1, <1>a, <2>1, ActionNames, BeginAgrees
<1>5. CASE StartPlain("reset", "RESET", "Reset")
  <2>1. Begin("reset", "RESET") /\ WriteCommand("Reset", "no", {}) /\ First("reset", "RESET", "Reset")
    BY <1>5 DEF StartPlain, First
  <2> QED
    BY <1>1, <1>a, <2>1, ActionNames, BeginAgrees
<1>6. CASE StartPlain("size", "GETTN", "GetTN")
  <2>1. Begin("size", "GETTN") /\ WriteCommand("GetTN", "no", {}) /\ First("size", "GETTN", "GetTN")
    BY <1>6 DEF StartPlain, First
  <2> QED
    BY <1>1, <1>a, <2>1, ActionNames, BeginAgrees
<1>7. CASE StartPlain("test", "TEST", "Getparam")
  <2>1. Begin("test", "TEST") /\ WriteCommand("Getparam", "no", {}) /\ First("test", "TEST", "Getparam")
    BY <1>7 DEF StartPlain, First
  <2> QED
    BY <1>1, <1>a, <2>1, ActionNames, BeginAgrees
<1>8. CASE StartPlain("mute", "MUTE", "Mute")
  BY <1>8 DEF StartPlain, Supported
<1>9. ASSUME NEW size \in Sizes, StartToc(size) PROVE Agree'
  <2>1. Begin("toc", "GETTN") /\ WriteCommand("GetTN", "no", {}) /\ First("toc", "GETTN", "GetTN")
    BY <1>9 DEF StartToc, First
  <2>2. table'.size > 1
    BY <1>9 DEF StartToc, NoTable, Supported
  <2> QED
    BY <1>1, <1>a, <2>1, <2>2, ActionNames, BeginAgrees
<1>10. ASSUME NEW c \in {"Pause", "Stop"}, StopPlaying(c) PROVE Agree'
  <2>1. careful = 1
    BY <1>10 DEF StopPlaying
  <2> QED
    BY <1>10, <2>1, StopAgrees
<1>11. CASE GetLocation
  BY <1>11 DEF GetLocation
<1>12. ASSUME NEW b \in queued, RunCallback(b) PROVE Agree'
  <2>1. careful = 1 /\ Agree
    BY <1>12 DEF RunCallback
  <2>2. UNCHANGED <<host, disc, motor, pending, action, table, broken>> /\ UNCHANGED <<isr, answer>>
    BY <1>12 DEF RunCallback, cd
  <2>3. Coming' = Coming /\ Handling'
    BY <2>1, <2>2 DEF Agree, Handling, Coming, isr, answer
  <2>4. state' = state \/ action = "none"
    BY <1>12, <2>1 DEF RunCallback, Agree
  <2>5. "done" \in queued' => "done" \in queued
    BY <1>12 DEF RunCallback
  <2> QED
    BY <2>1, <2>2, <2>3, <2>4, <2>5, StillAgrees
<1>13. CASE Return
  <2>1. careful = 1 /\ Agree
    BY <1>13 DEF Return
  <2>2. UNCHANGED <<host, disc, motor, pending, action, table, broken, state, queued>> /\ UNCHANGED <<isr, answer>>
    BY <1>13 DEF Return, cd, prog
  <2>3. Coming' = Coming /\ Handling'
    BY <2>1, <2>2 DEF Agree, Handling, Coming, isr, answer
  <2> QED
    BY <2>1, <2>2, <2>3, StillAgrees
<1> QED
  BY <1>2, <1>3, <1>4, <1>5, <1>6, <1>7, <1>8, <1>9, <1>10, <1>11, <1>12, <1>13 DEF Program

-----------------------------------------------------------------------------
(* The handler.  What comes is what its action waits for, so that each      *)
(* response finds a function that takes it.                                 *)

(* A response is taken: irq() is about to read the next cause, and finds   *)
(* none, as no event came in between                                       *)
Taken == pc = "acked" /\ careful = 1 /\ pc' = "entered" /\ UNCHANGED <<ranOnce, cause, careful>>

LEMMA TakenNext ==
    ASSUME Agree, Taken, UNCHANGED answer
    PROVE  Handling' /\ Coming' = "none" /\ Coming = cause /\ cause # "none"
BY DEF Agree, Taken, Handling, Coming, answer

LEMMA FinishAgrees ==
    ASSUME PInv, Agree, Taken, Finish, irq = "none",
           cause \in {"Complete", "DiskError"} \/ action \in {"size", "test", "toc"},
           action = "play" => state \in {"GETTD", "STOPPING_ACK"}
    PROVE  Agree'
<1>1. /\ UNCHANGED <<host, answer, disc, motor, pending, broken>> /\ action' = "none"
  BY DEF Finish, cd
<1>2. Handling' /\ Coming' = "none" /\ Coming = cause /\ cause # "none"
  BY <1>1, TakenNext
<1>3. Due'
  BY <1>1, <1>2 DEF Due, Idle, host
<1>4. action # "none"
  BY <1>2 DEF Agree, Due, Idle, Asked, ToldFirst, ToldSecond, AskedAgain, Unasked, First, Again
<1>5. "READ" \notin pending
  <2>1. CASE action = "read"
    <3>1. cause \in {"Complete", "DiskError"}
      BY <2>1
    <3>2. state \in {"READ", "READ_ACK"} => cause # "Complete"
      BY <1>2, <2>1 DEF Agree, Due, Idle, Asked, ToldFirst, ToldSecond, AskedAgain, Unasked, First, Again
    <3> QED
      BY <1>2, <3>1, <3>2 DEF Agree, Sectored
  <2> QED
    BY <2>1 DEF Agree, Sectored
<1>6. Sectored'
  BY <1>1, <1>5 DEF host, disc, motor, Agree, Sectored
<1>7. play = 0 /\ ("PLAY" \in pending => seeked = "done")
  <2>1. play \in 0..1 /\ (play = 1 => "PLAY" \in pending)
    BY DEF PInv, IInv, TypeOK, Bit, EventsRight
  <2> QED
    BY <1>4, <2>1 DEF Agree, Played
<1>8. Played'
  BY <1>1, <1>7 DEF disc, Played
<1>9. Roomy' /\ broken' = "no" /\ ("done" \in queued' => action' = "none")
  BY <1>1 DEF Agree, Roomy
<1> QED
  BY <1>2, <1>3, <1>6, <1>8, <1>9 DEF Agree

(* A response that makes the action send its next command *)
LEMMA SendAgrees ==
    ASSUME PInv, Agree, Taken, irq = "none",
           NEW s \in States, NEW c \in DeviceCommands, Goto([state |-> s, send |-> c]),
           First(action, s, c), UNCHANGED <<queued, broken>>, Roomy',
           action = "read" => /\ "READ" \notin pending \/ s = "PAUSE"
                              /\ s \in {"SETMODE", "READ", "PAUSE"}
                              /\ s = "PAUSE" => drive = "standby"
                              /\ s = "READ" => mode = {},
           action = "play" => /\ s \in {"SETMODE", "SETLOC", "SEEK", "PLAY"}
                              /\ s # "PLAY" => "PLAY" \notin pending
    PROVE  Agree'
<1>1. action' = action /\ state' = s
  BY DEF Goto
<1>2. PICK far : WriteCommand(c, far, ModesSent)
  BY DEF Goto, DeviceCommands
<1>3. ModesSent \in SUBSET {"CDDA", "AUTOPAUSE"} /\ (action = "read" => ModesSent = {})
  BY DEF ModesSent, TrackModes
<1>4. repeated = 0 /\ mode \in SUBSET {"CDDA", "AUTOPAUSE"}
  BY DEF Agree, Sectored
<1>5. /\ irq' = c /\ part' = 1 /\ repeated' = 0
      /\ mode' \in SUBSET {"CDDA", "AUTOPAUSE"} /\ mode' = IF c = "Setmode" THEN ModesSent ELSE mode
      /\ UNCHANGED <<answer, motor>>
      /\ "READ" \in pending' => "READ" \in pending /\ c \notin StopAtOnce
      /\ "PLAY" \in pending' => "PLAY" \in pending
      /\ play = 0 => play' = 0
  BY <1>2, <1>3, <1>4, Sent
<1>6. Handling' /\ Coming' = "none" /\ Coming = cause /\ cause # "none"
  BY <1>5, TakenNext
<1>7. action # "none"
  BY DEF First
<1>8. Due'
  BY <1>1, <1>5, <1>6 DEF Due, Asked
<1>9. "READ" \notin pending'
  BY <1>5 DEF Agree, Sectored, First, StopAtOnce
<1>10. Sectored'
  <2>1. action = "read" /\ s \in {"SETMODE", "READ"} => mode' = {}
    BY <1>3, <1>5 DEF First
  <2> QED
    BY <1>1, <1>5, <1>6, <1>9, <2>1 DEF Agree, Sectored, motor
<1>11. Played'
  <2>1. "PLAY" \in pending' => action = "play" /\ s = "PLAY"
    BY <1>5, <1>7 DEF Agree, Played
  <2>2. action = "play" /\ s = "SEEK" => play' = 0
    BY <1>5 DEF PInv, IInv, TypeOK, Bit, EventsRight
  <2> QED
    BY <1>1, <1>6, <1>7, <2>1, <2>2 DEF Played
<1>12. broken' = "no" /\ ("done" \in queued' => action' = "none")
  BY <1>1 DEF Agree
<1> QED
  BY <1>6, <1>8, <1>10, <1>11, <1>12 DEF Agree

(* What comes for each action *)
LEMMA ReadComes ==
    ASSUME Agree, Coming # "none", action = "read"
    PROVE  /\ Coming \in {"Acknowledge", "DataReady", "Complete", "DiskError"}
           /\ Coming = "Acknowledge" => /\ state \in {"SETLOC", "SETMODE", "READ", "PAUSE"}
                                        /\ IF state = "PAUSE" THEN irq = "Pause" /\ part = 2 ELSE irq = "none"
           /\ Coming \in {"DataReady", "DiskError"} => state = "READ_ACK" /\ irq = "none"
           /\ Coming = "Complete" => state = "PAUSE_ACK" /\ irq = "none"
BY DEF Agree, Due, Idle, Asked, ToldFirst, ToldSecond, AskedAgain, Unasked, First, Again

LEMMA PlayComes ==
    ASSUME Agree, Coming # "none", action = "play"
    PROVE  /\ Coming \in {"Acknowledge", "DataEnd", "Complete", "DiskError"}
           /\ Coming = "Acknowledge" =>
                  /\ state \in {"GETTD", "SETMODE", "SETLOC", "SEEK", "PLAY", "STOPPING"}
                  /\ IF state = "STOPPING" THEN irq \in {"Pause", "Stop"} /\ part = 2 ELSE irq = "none"
           /\ Coming = "DiskError" => state = "GETTD" /\ irq = "none"
           /\ Coming = "Complete" => state \in {"SEEK_ACK", "STOPPING_ACK"} /\ irq = "none"
           /\ Coming = "DataEnd" =>
                  \/ state = "PLAYING" /\ irq = "none"
                  \/ state = "STOPPING" /\ irq \in {"Pause", "Stop"} /\ part = 1
BY DEF Agree, Due, Idle, Asked, ToldFirst, ToldSecond, AskedAgain, Unasked, First, Again

LEMMA OthersCome ==
    ASSUME Agree, Coming # "none", action \notin {"read", "play"}
    PROVE  /\ action \in {"reset", "size", "test", "toc"}
           /\ Coming \in {"Acknowledge", "Complete", "DiskError"}
           /\ action = "reset" => \/ /\ Coming = "Acknowledge" /\ state = "RESET"
                                     /\ irq = "Reset" /\ part = 2
                                  \/ Coming = "Complete" /\ state = "RESET_ACK" /\ irq = "none"
           /\ action # "reset" => Coming # "Complete" /\ irq = "none"
           /\ action = "toc" => state \in {"GETTN", "GETTD"}
BY DEF Agree, Due, Idle, Asked, ToldFirst, ToldSecond, AskedAgain, Unasked, First, Again

(* A response that the action only notes, as nothing is sent *)
LEMMA NotedAgrees ==
    ASSUME PInv, Agree, Taken, UNCHANGED <<cd, action, broken>>, Due', Roomy',
           "done" \in queued' => "done" \in queued,
           action = "read" => \/ state \in {"READ", "READ_ACK"} /\ state' = "READ_ACK" /\ Coming # "DiskError"
                              \/ state = "PAUSE" /\ state' = "PAUSE_ACK",
           action = "play" => \/ state = "SEEK" /\ state' = "SEEK_ACK"
                              \/ state = "PLAY" /\ state' = "PLAYING"
                              \/ state = "STOPPING" /\ state' \in {"STOPPING", "STOPPING_ACK"}
                                     /\ (state' = "STOPPING_ACK" => play = 0)
    PROVE  Agree'
<1>1. UNCHANGED <<host, answer, disc, motor, pending>>
  BY DEF cd
<1>2. Handling' /\ Coming' = "none" /\ Coming = cause /\ cause # "none"
  BY <1>1, TakenNext
<1>3. Sectored'
  BY <1>1, <1>2 DEF host, disc, motor, Agree, Sectored
<1>4. Played'
  BY <1>1, <1>2 DEF disc, Agree, Played
<1> QED
  BY <1>2, <1>3, <1>4 DEF Agree

LEMMA ReadAgrees ==
    ASSUME PInv, Agree, Taken, action = "read", UNCHANGED ranOnce,
           \/ cause = "Acknowledge" /\ ReadAcknowledge
           \/ cause = "DataReady" /\ ReadDataReady
           \/ cause = "Complete" /\ ReadComplete
    PROVE  Agree'
<1>1. Coming = cause /\ cause # "none"
  BY DEF Taken, Agree, Handling, Coming
<1>2. CASE cause = "Acknowledge" /\ ReadAcknowledge
  <2>1. /\ state \in {"SETLOC", "SETMODE", "READ", "PAUSE"}
        /\ IF state = "PAUSE" THEN irq = "Pause" /\ part = 2 ELSE irq = "none"
    BY <1>1, <1>2, ReadComes
  <2>2. Goto(ReadStep[state]) /\ Quiet
    BY <1>2, <2>1 DEF ReadAcknowledge, ReadStep
  <2>3. UNCHANGED <<queued, broken, action>> /\ Roomy'
    BY <2>2 DEF Quiet, prog, Goto, Roomy
  <2>4. CASE state = "SETLOC"
    <3>1. ReadStep[state] = [state |-> "SETMODE", send |-> "Setmode"]
      BY <2>4 DEF ReadStep
    <3>2. "SETMODE" \in States /\ "Setmode" \in DeviceCommands /\ First(action, "SETMODE", "Setmode")
      BY DEF States, DeviceCommands, First
    <3>3. "READ" \notin pending
      BY <2>4 DEF Agree, Sectored
    <3> QED
      BY <2>1, <2>2, <2>3, <2>4, <3>1, <3>2, <3>3, SendAgrees
  <2>5. CASE state = "SETMODE"
    <3>1. ReadStep[state] = [state |-> "READ", send |-> "Read"]
      BY <2>5 DEF ReadStep
    <3>2. "READ" \in States /\ "Read" \in DeviceCommands /\ First(action, "READ", "Read")
      BY DEF States, DeviceCommands, First
    <3>3. "READ" \notin pending /\ mode = {}
      BY <2>5 DEF Agree, Sectored
    <3> QED
      BY <2>1, <2>2, <2>3, <2>5, <3>1, <3>2, <3>3, SendAgrees
  <2>6. CASE state = "READ"
    <3>1. UNCHANGED cd /\ state' = "READ_ACK"
      BY <2>2, <2>6 DEF ReadStep, Goto
    <3>2. Coming' = "none"
      BY <3>1, TakenNext DEF cd
    <3>3. Due'
      BY <2>1, <2>3, <2>6, <3>1, <3>2 DEF Due, Unasked, cd, host
    <3> QED
      BY <1>1, <1>2, <2>3, <2>6, <3>1, <3>3, NotedAgrees
  <2>7. CASE state = "PAUSE"
    <3>1. UNCHANGED cd /\ state' = "PAUSE_ACK"
      BY <2>2, <2>7 DEF ReadStep, Goto
    <3>2. Coming' = "none"
      BY <3>1, TakenNext DEF cd
    <3>3. Due'
      BY <2>1, <2>3, <2>7, <3>1, <3>2 DEF Due, AskedAgain, Again, cd, host
    <3> QED
      BY <2>3, <2>7, <3>1, <3>3, NotedAgrees
  <2> QED
    BY <2>1, <2>4, <2>5, <2>6, <2>7
<1>3. CASE cause = "DataReady" /\ ReadDataReady
  <2>1. state = "READ_ACK" /\ irq = "none"
    BY <1>1, <1>3, ReadComes
  <2>2. CASE UNCHANGED <<cd, action, state, blocking, toEnd, location>> /\ Quiet
    <3>1. UNCHANGED <<queued, broken>> /\ Roomy'
      BY <2>1, <2>2 DEF Quiet, prog, Roomy
    <3>2. Coming' = "none"
      BY <2>2, TakenNext DEF cd
    <3>3. Due'
      BY <2>1, <2>2, <3>2 DEF Due, Unasked, cd, host
    <3> QED
      BY <1>1, <1>3, <2>1, <2>2, <3>1, <3>3, NotedAgrees
  <2>3. CASE Goto([state |-> "PAUSE", send |-> "Pause"]) /\ UNCHANGED location /\ Quiet
    <3>1. "PAUSE" \in States /\ "Pause" \in DeviceCommands /\ First(action, "PAUSE", "Pause")
      BY DEF States, DeviceCommands, First
    <3>2. UNCHANGED <<queued, broken, action>> /\ Roomy'
      BY <2>3 DEF Quiet, prog, Goto, Roomy
    <3>3. drive = "standby"
      BY <2>1 DEF Agree, Sectored
    <3> QED
      BY <2>1, <2>3, <3>1, <3>2, <3>3, SendAgrees
  <2> QED
    BY <1>3, <2>1, <2>2, <2>3 DEF ReadDataReady
<1>4. CASE cause = "Complete" /\ ReadComplete
  <2>1. state = "PAUSE_ACK" /\ irq = "none"
    BY <1>1, <1>4, ReadComes
  <2>2. Finish
    BY <1>4, <2>1 DEF ReadComplete
  <2> QED
    BY <1>4, <2>1, <2>2, FinishAgrees
<1> QED
  BY <1>2, <1>3, <1>4

LEMMA PlayAgrees ==
    ASSUME PInv, Agree, Taken, action = "play",
           \/ cause = "Acknowledge" /\ PlayAcknowledge
           \/ cause = "Complete" /\ PlayComplete
           \/ cause = "DataEnd" /\ PlayEndReached
    PROVE  Agree'
<1>1. Coming = cause /\ cause # "none"
  BY DEF Taken, Agree, Handling, Coming
<1>2. CASE cause = "Acknowledge" /\ PlayAcknowledge
  <2>1. /\ state \in {"GETTD", "SETMODE", "SETLOC", "SEEK", "PLAY", "STOPPING"}
        /\ IF state = "STOPPING" THEN irq \in {"Pause", "Stop"} /\ part = 2 ELSE irq = "none"
    BY <1>1, <1>2, PlayComes
  <2>2. /\ Goto(PlayStep[state])
        /\ queued' = IF state = "PLAY" THEN queued \cup {"started"} ELSE queued
        /\ UNCHANGED <<table, count, location, playing, paused, broken>>
    BY <1>2, <2>1 DEF PlayAcknowledge, PlayStep
  <2>3. UNCHANGED <<broken, action>> /\ Roomy' /\ ("done" \in queued' => "done" \in queued)
    BY <2>2 DEF Goto, Roomy
  <2>4. CASE state \in {"GETTD", "SETMODE", "SETLOC"}
    <3>1. PICK s \in {"SETMODE", "SETLOC", "SEEK"}, c \in DeviceCommands :
              PlayStep[state] = [state |-> s, send |-> c] /\ First(action, s, c)
      BY <2>4 DEF PlayStep, DeviceCommands, First
    <3>2. "PLAY" \notin pending
      BY <2>4 DEF Agree, Played
    <3>3. s \in States /\ UNCHANGED queued
      BY <2>2, <2>4 DEF States
    <3> QED
      BY <2>1, <2>2, <2>3, <2>4, <3>1, <3>2, <3>3, SendAgrees
  <2>5. CASE state = "SEEK"
    <3>1. UNCHANGED cd /\ state' = "SEEK_ACK"
      BY <2>2, <2>5 DEF PlayStep, Goto
    <3>2. Coming' = "none"
      BY <3>1, TakenNext DEF cd
    <3>3. Due'
      BY <2>1, <2>3, <2>5, <3>1, <3>2 DEF Due, Unasked, cd, host
    <3> QED
      BY <2>3, <2>5, <3>1, <3>3, NotedAgrees
  <2>6. CASE state = "PLAY"
    <3>1. UNCHANGED cd /\ state' = "PLAYING"
      BY <2>2, <2>6 DEF PlayStep, Goto
    <3>2. Coming' = "none"
      BY <3>1, TakenNext DEF cd
    <3>3. Due'
      BY <2>1, <2>3, <2>6, <3>1, <3>2 DEF Due, Unasked, cd, host
    <3> QED
      BY <2>3, <2>6, <3>1, <3>3, NotedAgrees
  <2>7. CASE state = "STOPPING"
    <3>1. UNCHANGED cd /\ state' = "STOPPING_ACK"
      BY <2>2, <2>7 DEF PlayStep, Goto
    <3>2. Coming' = "none"
      BY <3>1, TakenNext DEF cd
    <3>3. Due'
      BY <2>1, <2>3, <2>7, <3>1, <3>2 DEF Due, AskedAgain, Again, cd, host
    <3>4. play = 0
      BY <2>1, <2>7 DEF PInv, IInv, QuietWhileStopping
    <3> QED
      BY <2>3, <2>7, <3>1, <3>3, <3>4, NotedAgrees
  <2> QED
    BY <2>1, <2>4, <2>5, <2>6, <2>7
<1>3. CASE cause = "Complete" /\ PlayComplete
  <2>1. state \in {"SEEK_ACK", "STOPPING_ACK"} /\ irq = "none"
    BY <1>1, <1>3, PlayComes
  <2>2. CASE state = "SEEK_ACK"
    <3>1. Goto([state |-> "PLAY", send |-> "Play"]) /\ Quiet
      BY <1>3, <2>2 DEF PlayComplete
    <3>2. UNCHANGED <<queued, broken, action>> /\ Roomy'
      BY <3>1 DEF Quiet, prog, Goto, Roomy
    <3>3. "PLAY" \in States /\ "Play" \in DeviceCommands /\ First(action, "PLAY", "Play")
      BY DEF States, DeviceCommands, First
    <3> QED
      BY <2>1, <3>1, <3>2, <3>3, SendAgrees
  <2>3. CASE state = "STOPPING_ACK"
    <3>1. Finish
      BY <1>3, <2>3 DEF PlayComplete
    <3> QED
      BY <1>3, <2>1, <2>3, <3>1, FinishAgrees
  <2> QED
    BY <2>1, <2>2, <2>3
<1>4. CASE cause = "DataEnd" /\ PlayEndReached
  <2>1. \/ state = "PLAYING" /\ irq = "none"
        \/ state = "STOPPING" /\ irq \in {"Pause", "Stop"} /\ part = 1
    BY <1>1, <1>4, PlayComes
  <2>2. CASE state = "STOPPING"
    <3>1. UNCHANGED <<cd, action, state, table, queued, broken>>
      BY <1>4, <2>2 DEF PlayEndReached, device, prog
    <3>2. Coming' = "none"
      BY <3>1, TakenNext DEF cd
    <3>3. Due'
      BY <2>1, <2>2, <3>1, <3>2 DEF Due, Asked, First, cd, host
    <3>4. Roomy'
      BY <3>1 DEF Roomy
    <3> QED
      BY <2>2, <3>1, <3>3, <3>4, NotedAgrees
  <2>3. CASE state = "PLAYING"
    <3>1. action' = "none" /\ UNCHANGED <<cd, state, broken>>
      BY <1>4, <2>3 DEF PlayEndReached
    <3>2. UNCHANGED <<host, answer, disc, motor, pending>>
      BY <3>1 DEF cd
    <3>3. Handling' /\ Coming' = "none"
      BY <3>2, TakenNext
    <3>4. Due'
      BY <2>1, <2>3, <3>1, <3>2, <3>3 DEF Due, Idle, host
    <3>5. Sectored'
      BY <3>1, <3>2 DEF host, disc, motor, Agree, Sectored
    <3>6. Played'
      BY <1>1, <2>3, <3>1, <3>2 DEF disc, Agree, Played
    <3> QED
      BY <3>1, <3>3, <3>4, <3>5, <3>6 DEF Agree, Roomy
  <2> QED
    BY <2>1, <2>2, <2>3
<1> QED
  BY <1>2, <1>3, <1>4

LEMMA ResetAgrees ==
    ASSUME PInv, Agree, Taken, action = "reset",
           \/ cause = "Acknowledge" /\ ResetAcknowledge
           \/ cause = "Complete" /\ ResetComplete
    PROVE  Agree'
<1>1. Coming = cause /\ cause # "none"
  BY DEF Taken, Agree, Handling, Coming
<1>2. CASE cause = "Acknowledge" /\ ResetAcknowledge
  <2>1. state = "RESET" /\ irq = "Reset" /\ part = 2
    BY <1>1, <1>2, OthersCome
  <2>2. Goto([state |-> "RESET_ACK", send |-> "none"]) /\ Quiet
    BY <1>2, <2>1 DEF ResetAcknowledge
  <2>3. UNCHANGED <<cd, queued, broken, action>> /\ state' = "RESET_ACK" /\ Roomy'
    BY <2>2 DEF Quiet, prog, Goto, Roomy
  <2>4. Coming' = "none"
    BY <2>3, TakenNext DEF cd
  <2>5. Due'
    BY <2>1, <2>3, <2>4 DEF Due, AskedAgain, Again, cd, host
  <2> QED
    BY <2>3, <2>5, NotedAgrees
<1>3. CASE cause = "Complete" /\ ResetComplete
  <2>1. state = "RESET_ACK" /\ irq = "none"
    BY <1>1, <1>3, OthersCome
  <2>2. Finish
    BY <1>3, <2>1 DEF ResetComplete
  <2> QED
    BY <1>3, <2>1, <2>2, FinishAgrees
<1> QED
  BY <1>2, <1>3

LEMMA TocAgrees ==
    ASSUME PInv, Agree, Taken, action = "toc", cause = "Acknowledge", TocAcknowledge
    PROVE  Agree'
<1>1. Coming = cause /\ cause # "none"
  BY DEF Taken, Agree, Handling, Coming
<1>2. irq = "none" /\ state \in {"GETTN", "GETTD"}
  BY <1>1, OthersCome
<1>3. /\ table \in [size : Nat, track : Nat] /\ table.size > 1
      /\ state = "GETTD" => table.track < table.size
  BY DEF PInv, OwnTypes, Agree, Roomy
<1>4. "GETTD" \in States /\ "GetTN" \in DeviceCommands /\ First(action, "GETTD", "GetTN")
  BY DEF States, DeviceCommands, First
<1>5. ASSUME NEW n \in Nat, n < table.size, table' = [table EXCEPT !.track = n],
             Goto([state |-> "GETTD", send |-> "GetTN"]), UNCHANGED <<queued, broken>>
      PROVE  Agree'
  <2>1. table'.size = table.size /\ table'.track = n
    BY <1>3, <1>5
  <2>2. Roomy'
    BY <1>3, <1>5, <2>1 DEF Roomy
  <2> QED
    BY <1>2, <1>4, <1>5, <2>2, SendAgrees
<1>6. CASE state = "GETTN"
  <2>1. /\ Goto([state |-> "GETTD", send |-> "GetTN"]) /\ table' = [table EXCEPT !.track = 1]
        /\ UNCHANGED <<queued, broken>>
    BY <1>6 DEF TocAcknowledge, prog
  <2> QED
    BY <1>3, <1>5, <2>1
<1>7. CASE state = "GETTD"
  <2>1. CASE Finish
    BY <1>2, <1>7, <2>1, FinishAgrees
  <2>2. CASE /\ TocMore /\ Goto([state |-> "GETTD", send |-> "GetTN"])
             /\ table' = [table EXCEPT !.track = table.track + 1]
             /\ UNCHANGED <<queued, broken>>
    <3>1. table.track + 1 \in Nat /\ table.track + 1 < table.size
      BY <1>3, <2>2 DEF TocMore
    <3> QED
      BY <1>5, <2>2, <3>1
  <2>3. ~(table.track >= table.size)
    BY <1>3, <1>7
  <2> QED
    BY <1>7, <2>1, <2>2, <2>3 DEF TocAcknowledge, prog
<1> QED
  BY <1>2, <1>6, <1>7

LEMMA DispatchAgrees ==
    ASSUME PInv, Agree, careful = 1, Dispatch
    PROVE  Agree'
<1>1. Taken /\ action # "none"
  BY DEF Dispatch, Running, Taken
<1>2. Coming = cause /\ cause # "none"
  BY <1>1 DEF Taken, Agree, Handling, Coming
<1>3. CASE cause = "DiskError" /\ Finish
  <2>1. CASE action = "read"
    BY <1>1, <1>2, <1>3, <2>1, ReadComes, FinishAgrees
  <2>2. CASE action = "play"
    BY <1>1, <1>2, <1>3, <2>2, PlayComes, FinishAgrees
  <2>3. CASE action \notin {"read", "play"}
    BY <1>1, <1>2, <1>3, <2>3, OthersCome, FinishAgrees
  <2> QED
    BY <2>1, <2>2, <2>3
<1>4. CASE cause # "DiskError" /\ cause \notin Overrides[action]
  <2>1. CASE action = "read"
    BY <1>2, <1>4, <2>1, ReadComes DEF Overrides
  <2>2. CASE action = "play"
    BY <1>2, <1>4, <2>2, PlayComes DEF Overrides
  <2>3. CASE action \notin {"read", "play"}
    BY <1>2, <1>4, <2>3, OthersCome DEF Overrides
  <2> QED
    BY <2>1, <2>2, <2>3
<1>5. CASE action = "read" /\ (\/ cause = "Acknowledge" /\ ReadAcknowledge
                               \/ cause = "DataReady" /\ ReadDataReady
                               \/ cause = "Complete" /\ ReadComplete)
  BY <1>1, <1>5, ReadAgrees DEF Taken
<1>6. CASE action = "play" /\ (\/ cause = "Acknowledge" /\ PlayAcknowledge
                               \/ cause = "Complete" /\ PlayComplete
                               \/ cause = "DataEnd" /\ PlayEndReached)
  BY <1>1, <1>6, PlayAgrees
<1>7. CASE action = "reset" /\ (\/ cause = "Acknowledge" /\ ResetAcknowledge
                                \/ cause = "Complete" /\ ResetComplete)
  BY <1>1, <1>7, ResetAgrees
<1>8. CASE action = "toc" /\ cause = "Acknowledge" /\ TocAcknowledge
  BY <1>1, <1>8, TocAgrees
<1>9. CASE action \in {"size", "test", "mute"} /\ Finish
  <2>1. action \in {"size", "test"} /\ irq = "none"
    BY <1>2, <1>9, OthersCome
  <2> QED
    BY <1>1, <1>9, <2>1, FinishAgrees
<1> QED
  BY <1>3, <1>4, <1>5, <1>6, <1>7, <1>8, <1>9 DEF Dispatch

LEMMA HandlerAgrees ==
    ASSUME PInv, Agree, careful = 1, Handler
    PROVE  Agree'
<1>1. CASE Enter
  <2>1. UNCHANGED <<host, disc, motor, pending, action, table, broken, state, queued>>
    BY <1>1 DEF Enter, ClearIstat, device, prog
  <2>2. pc = "program" /\ pc' = "entered" /\ ranOnce' = 0 /\ istat = 1 /\ istat' = 0 /\ stat' = stat
    BY <1>1 DEF Enter, Running, ClearIstat
  <2>3. Handling' /\ Coming' = Coming
    BY <2>2 DEF Agree, Handling, Coming
  <2> QED
    BY <2>1, <2>3, StillAgrees
<1>2. CASE Leave
  <2>1. UNCHANGED <<cd, action, table, broken, state, queued>>
    BY <1>2 DEF Leave, device, prog
  <2>2. UNCHANGED <<host, disc, motor, pending, stat, istat>>
    BY <2>1 DEF cd, answer
  <2>3. pc = "entered" /\ pc' = "program" /\ stat = "none"
    BY <1>2 DEF Leave, Running, MayLeave
  <2>4. Handling' /\ Coming' = Coming
    BY <2>2, <2>3 DEF Agree, Handling, Coming
  <2> QED
    BY <2>1, <2>2, <2>4, StillAgrees
<1>3. CASE ReadCause
  <2>1. UNCHANGED <<cd, action, table, state, queued>> /\ pc = "entered" /\ ~MayLeave /\ cause' = stat /\ ranOnce' = 1
    BY <1>3 DEF ReadCause, device, prog, Running
  <2>2. UNCHANGED <<host, disc, motor, pending, stat, istat>>
    BY <2>1 DEF cd, answer
  <2>3. stat # "none" /\ Coming = stat
    BY <2>1 DEF Agree, Handling, MayLeave, Coming
  <2>4. action # "none"
    BY <2>3 DEF Agree, Due, Idle, Asked, ToldFirst, ToldSecond, AskedAgain, Unasked, First, Again
  <2>5. pc' = "read" /\ UNCHANGED broken
    BY <1>3, <2>4 DEF ReadCause
  <2>6. Handling' /\ Coming' = Coming
    BY <2>1, <2>2, <2>3, <2>5 DEF Agree, Handling, Coming
  <2> QED
    BY <2>1, <2>2, <2>5, <2>6, StillAgrees
<1>4. CASE AckCause
  <2>1. UNCHANGED <<host, disc, motor, pending, action, table, broken, state, queued, istat>>
    BY <1>4 DEF AckCause, Acknowledge, device, prog
  <2>2. pc = "read" /\ pc' = "acked" /\ UNCHANGED <<ranOnce, cause>> /\ stat' = "none"
    BY <1>4 DEF AckCause, Running, Acknowledge
  <2>3. Handling' /\ Coming' = Coming
    BY <2>1, <2>2 DEF Agree, Handling, Coming
  <2> QED
    BY <2>1, <2>3, StillAgrees
<1>5. CASE UnknownCause
  BY <1>5 DEF UnknownCause, Running, Agree, Handling
<1>6. CASE Dispatch
  BY <1>6, DispatchAgrees
<1> QED
  BY <1>1, <1>2, <1>3, <1>4, <1>5, <1>6 DEF Handler

-----------------------------------------------------------------------------
(* The events.  A careful program has handled the last response when one    *)
(* comes: nothing waits, and the interrupt is not pending.                  *)

(* A response s that becomes ready, or none *)
Ready(s) == pc = "program" /\ istat = 0 /\ mask = 1 /\ (SetIrq(s) \/ (s = stat /\ UNCHANGED answer))
            /\ UNCHANGED <<isr, device, prog, broken>>

LEMMA ReadyNext ==
    ASSUME Agree, NEW s, Ready(s)
    PROVE  Coming = "none" /\ stat = "none" /\ Coming' = s /\ Handling'
<1>1. pc' = "program" /\ stat = "none" /\ stat' = s
  BY DEF Agree, Handling, Ready, isr, SetIrq, answer
<1>2. istat' = 1 <=> stat' # "none"
  BY <1>1 DEF Ready, SetIrq, answer
<1>3. Handling'
  BY <1>1, <1>2 DEF Handling
<1> QED
  BY <1>1, <1>3 DEF Coming, Ready

LEMMA RestAgrees ==
    ASSUME Agree, UNCHANGED <<device, prog, broken>>
    PROVE  Roomy' /\ broken' = "no" /\ ("done" \in queued' => action' = "none")
BY DEF Agree, Roomy, device, prog

(* What an action waits for while nothing waits for it *)
LEMMA Owed ==
    ASSUME Agree, Coming = "none", irq # "none"
    PROVE  /\ action # "none" /\ "READ" \notin pending
           /\ \/ First(action, state, irq) /\ part = 1
              \/ Again(action, state, irq) /\ part = 2
<1>1. /\ action # "none"
      /\ \/ First(action, state, irq) /\ part = 1
         \/ Again(action, state, irq) /\ part = 2
  BY DEF Agree, Due, Idle, Asked, ToldFirst, ToldSecond, AskedAgain, Unasked, First, Again
<1>2. state # "READ_ACK"
  BY <1>1 DEF First, Again
<1> QED
  BY <1>1, <1>2 DEF Agree, Sectored

(* The first response to a command *)
LEMMA FirstResponse ==
    ASSUME drive \in {"standby", "stopped"}, NEW c \in DeviceCommands, NEW bad
    PROVE  /\ Response(c, 1, DriveAfter(c), bad) = "Acknowledge"
                \/ (c = "GetTN" /\ Response(c, 1, DriveAfter(c), bad) = "DiskError")
           /\ DriveAfter(c) \in {"standby", "stopped"}
           /\ c = "Read" => DriveAfter(c) = "standby"
           /\ c = "Pause" => DriveAfter(c) = drive
<1>1. /\ DriveAfter(c) \in {"standby", "stopped"}
      /\ c = "Read" => DriveAfter(c) = "standby"
      /\ c = "Pause" => DriveAfter(c) = drive
  BY DEF DriveAfter, Spins, DeviceCommands
<1>2. Fails(c, 1, DriveAfter(c), bad) => c = "GetTN"
  BY <1>1 DEF Fails, NotReady, DeviceCommands
<1>3. Response(c, 1, DriveAfter(c), bad) = "Acknowledge"
         \/ (c = "GetTN" /\ Response(c, 1, DriveAfter(c), bad) = "DiskError")
  BY <1>2 DEF Response, DeviceCommands
<1> QED
  BY <1>1, <1>3

LEMMA SecondResponse ==
    ASSUME drive \in {"standby", "stopped"}, NEW c \in {"Pause", "Stop", "Reset"}, NEW bad
    PROVE  Response(c, 2, drive, bad) = "Complete"
BY DEF Response, Fails, NotReady

(* What the two kinds of first response have in common *)
RespondsFirst(c) ==
    /\ irq = c /\ part = 1
    /\ \E bad : Ready(Response(c, 1, DriveAfter(c), bad))
    /\ drive' = DriveAfter(c) /\ repeated' = 0
    /\ mode' \in {mode, {}}
    /\ IF c \in {"Pause", "Stop", "Reset"} THEN irq' = c /\ part' = 2 ELSE irq' = "none"

LEMMA FirstRightly ==
    ASSUME Agree, NEW c \in DeviceCommands, RespondsFirst(c)
    PROVE  /\ Handling' /\ Due' /\ First(action, state, c) /\ UNCHANGED <<device, prog, broken>>
           /\ Coming' \in {"Acknowledge", "DiskError"} /\ (Coming' = "DiskError" => c = "GetTN")
           /\ drive' \in {"standby", "stopped"}
           /\ c = "Read" => drive' = "standby"
           /\ c = "Pause" => drive' = drive
           /\ "READ" \notin pending
<1>1. PICK bad : Ready(Response(c, 1, DriveAfter(c), bad))
  BY DEF RespondsFirst
<1>2. Coming = "none" /\ Coming' = Response(c, 1, DriveAfter(c), bad) /\ Handling'
  BY <1>1, ReadyNext
<1>3. drive \in {"standby", "stopped"}
  BY DEF Agree, Sectored
<1>4. Coming' = "Acknowledge" \/ (c = "GetTN" /\ Coming' = "DiskError")
  BY <1>2, <1>3, FirstResponse
<1>5. First(action, state, c) /\ "READ" \notin pending
  BY <1>2, Owed DEF RespondsFirst, DeviceCommands
<1>6. UNCHANGED <<device, prog, broken>>
  BY <1>1 DEF Ready
<1>7. UNCHANGED <<action, state>>
  BY <1>6 DEF device
<1>8. ToldFirst(c)'
  BY <1>4, <1>5, <1>7 DEF ToldFirst, RespondsFirst
<1>9. Due'
  BY <1>8 DEF Due
<1> QED
  BY <1>2, <1>3, <1>4, <1>5, <1>6, <1>9, FirstResponse DEF RespondsFirst

LEMMA InterruptAgrees ==
    ASSUME PInv, Agree, pc = "program", istat = 0, UNCHANGED <<isr, device, prog, broken>>, Interrupt
    PROVE  Agree'
<1>0. mask = 1
  BY DEF PInv
<1>1. repeated = 0 /\ mode \subseteq {"CDDA", "AUTOPAUSE"}
  BY DEF Agree, Sectored
<1>2. Coming = "none" /\ stat = "none"
  BY DEF Agree, Handling, Coming
<1>3. irq # "none" => irq \in DeviceCommands
  BY <1>2, Owed DEF First, Again, DeviceCommands
<1>4. Roomy' /\ broken' = "no" /\ ("done" \in queued' => action' = "none")
  BY RestAgrees
<1>5. UNCHANGED <<action, state>>
  BY DEF device
<1>6. ASSUME NEW c \in Commands, NEW bad, Answered(c, bad), c \notin {"Pause", "Stop", "Reset"}
      PROVE  c \in DeviceCommands /\ RespondsFirst(c) /\ mode' = mode
  <2>1. /\ irq = c /\ part = 1 /\ repeated' = 0 /\ SetIrq(Response(c, 1, DriveAfter(c), bad))
        /\ irq' = "none" /\ drive' = DriveAfter(c) /\ mode' = mode
    BY <1>6, PsyqoAssumption DEF Answered, Respond, IrqOf, Done
  <2>2. Ready(Response(c, 1, DriveAfter(c), bad))
    BY <1>0, <2>1 DEF Ready
  <2>3. c \in DeviceCommands
    BY <1>3, <2>1, NoCommand
  <2> QED
    BY <1>6, <2>1, <2>2, <2>3 DEF RespondsFirst
<1>7. ASSUME NEW c \in Commands, NEW bad, AnswerPlain(c, bad) PROVE Agree'
  <2>1. Answered(c, bad) /\ c \notin {"Pause", "Stop", "Reset", "Play", "Read", "Seek"}
        /\ pending' = pending \ {"CDR"} /\ UNCHANGED <<play, seeked>>
    BY <1>7 DEF AnswerPlain, Twice
  <2>2. c \in DeviceCommands /\ RespondsFirst(c) /\ mode' = mode
    BY <1>6, <2>1
  <2>3. /\ Handling' /\ Due' /\ First(action, state, c)
        /\ drive' \in {"standby", "stopped"}
        /\ "READ" \notin pending
    BY <2>2, FirstRightly
  <2>4. Sectored'
    BY <1>1, <1>5, <2>1, <2>2, <2>3 DEF Agree, Sectored, RespondsFirst, First
  <2>5. Played'
    BY <1>5, <2>1, <2>3 DEF Agree, Played, First
  <2> QED
    BY <1>4, <2>3, <2>4, <2>5 DEF Agree
<1>8. ASSUME NEW c \in Commands, NEW bad, AnswerPlay(c, bad) PROVE Agree'
  <2>1. Answered(c, bad) /\ c \in {"Play", "Read"} /\ (c = "Read" => mode # {})
        /\ pending' = (pending \ {"CDR"}) \cup {"PLAY"} /\ play' = 1 /\ seeked' = "done"
    BY <1>8 DEF AnswerPlay
  <2>2. c \in DeviceCommands /\ RespondsFirst(c) /\ mode' = mode
    BY <1>6, <2>1
  <2>3. /\ Handling' /\ Due' /\ First(action, state, c)
        /\ drive' \in {"standby", "stopped"}
        /\ "READ" \notin pending
    BY <2>2, FirstRightly
  <2>4. action = "play" /\ state = "PLAY"
    <3>1. c # "Read"
      BY <2>1, <2>3 DEF First, Agree, Sectored
    <3> QED
      BY <2>1, <2>3, <3>1 DEF First
  <2>5. Sectored'
    BY <1>1, <1>5, <2>1, <2>2, <2>3, <2>4 DEF Sectored, RespondsFirst
  <2>6. Played'
    BY <1>5, <2>1, <2>4 DEF Played
  <2> QED
    BY <1>4, <2>3, <2>5, <2>6 DEF Agree
<1>9. ASSUME NEW c \in Commands, NEW bad, AnswerRead(c, bad) PROVE Agree'
  <2>1. Answered(c, bad) /\ c = "Read"
        /\ pending' = (pending \ {"CDR"}) \cup {"READ"} /\ UNCHANGED <<play, seeked>>
    BY <1>9 DEF AnswerRead
  <2>2. c \in DeviceCommands /\ RespondsFirst(c) /\ mode' = mode
    BY <1>6, <2>1
  <2>3. /\ Handling' /\ Due' /\ First(action, state, c)
        /\ Coming' \in {"Acknowledge", "DiskError"} /\ (Coming' = "DiskError" => c = "GetTN")
        /\ drive' = "standby"
    BY <2>1, <2>2, FirstRightly
  <2>4. action = "read" /\ state = "READ" /\ Coming' = "Acknowledge"
    BY <2>1, <2>3 DEF First
  <2>5. Sectored'
    BY <1>1, <1>5, <2>1, <2>2, <2>3, <2>4 DEF Agree, Sectored, RespondsFirst
  <2>6. Played'
    BY <1>5, <2>1, <2>4 DEF Agree, Played
  <2> QED
    BY <1>4, <2>3, <2>5, <2>6 DEF Agree
<1>10. ASSUME NEW c \in Commands, NEW bad, AnswerSeek(c, bad) PROVE Agree'
  <2>1. Answered(c, bad) /\ c = "Seek" /\ play' = 0
        /\ pending' = (StopReading(pending) \ {"CDR"}) \cup {"PLAY"}
    BY <1>10 DEF AnswerSeek
  <2>2. c \in DeviceCommands /\ RespondsFirst(c) /\ mode' = mode
    BY <1>6, <2>1
  <2>3. /\ Handling' /\ Due' /\ First(action, state, c)
        /\ drive' \in {"standby", "stopped"}
        /\ "READ" \notin pending
    BY <2>2, FirstRightly
  <2>4. action = "play" /\ state = "SEEK" /\ "READ" \notin pending'
    BY <2>1, <2>3 DEF First, StopReading
  <2>5. Sectored'
    BY <1>1, <1>5, <2>2, <2>3, <2>4 DEF Sectored, RespondsFirst
  <2>6. Played'
    BY <1>5, <2>1, <2>4 DEF Played
  <2> QED
    BY <1>4, <2>3, <2>5, <2>6 DEF Agree
<1>11. ASSUME NEW c \in Commands, NEW bad, AnswerInit(c, bad) PROVE Agree'
  <2>1. c = "Init" /\ irq = c
    BY <1>11 DEF AnswerInit, Answered, Respond, IrqOf
  <2> QED
    BY <1>3, <2>1 DEF DeviceCommands
<1>12. ASSUME NEW c \in Commands, NEW bad, AnswerFirst(c, bad) PROVE Agree'
  <2>1. /\ irq = c /\ part = 1 /\ repeated' = 0 /\ SetIrq(Response(c, 1, DriveAfter(c), bad))
        /\ irq' = c /\ part' = 2 /\ drive' = DriveAfter(c)
        /\ mode' \in {mode, {}} /\ seeked' = seeked /\ Twice(c)
    BY <1>12, PsyqoAssumption DEF AnswerFirst, Respond, IrqOf, Second
  <2>2. c \in {"Pause", "Stop", "Reset"}
    BY <1>3, <2>1, NoCommand DEF Twice, DeviceCommands
  <2>3. Ready(Response(c, 1, DriveAfter(c), bad))
    BY <1>0, <2>1 DEF Ready
  <2>4. c \in DeviceCommands /\ RespondsFirst(c)
    BY <2>1, <2>2, <2>3 DEF RespondsFirst, DeviceCommands
  <2>5. /\ Handling' /\ Due' /\ First(action, state, c)
        /\ drive' \in {"standby", "stopped"} /\ (c = "Pause" => drive' = drive)
        /\ "READ" \notin pending
    BY <2>4, FirstRightly
  <2>6. "READ" \notin pending' /\ ("PLAY" \in pending' => "PLAY" \in pending \/ (c = "Pause" /\ drive # "standby"))
        /\ (play = 0 => play' = 0)
    BY <1>12, <2>5 DEF AnswerFirst, StopReading
  <2>7. Sectored'
    BY <1>1, <1>5, <2>1, <2>2, <2>5, <2>6 DEF Agree, Sectored, First
  <2>8. Played'
    <3>1. action \in {"read", "reset"} => "PLAY" \notin pending'
      BY <2>2, <2>5, <2>6 DEF Agree, Played, Sectored, First
    <3>2. action \in {"read", "reset"} \/ (action = "play" /\ state = "STOPPING")
      BY <2>2, <2>5 DEF First
    <3> QED
      BY <1>5, <2>1, <3>1, <3>2 DEF Agree, Played
  <2> QED
    BY <1>4, <2>5, <2>7, <2>8 DEF Agree
<1>13. ASSUME NEW c \in Commands, NEW bad, AnswerSecond(c, bad) PROVE Agree'
  <2>1. /\ irq = c /\ part = 2 /\ repeated' = 0 /\ SetIrq(Response(c, 2, drive, bad))
        /\ irq' = "none" /\ pending' = pending \ {"CDR"} /\ UNCHANGED <<disc, drive>>
    BY <1>13, PsyqoAssumption DEF AnswerSecond, Respond, IrqOf, Done
  <2>2. Again(action, state, c) /\ "READ" \notin pending /\ drive \in {"standby", "stopped"}
    BY <1>2, <2>1, Owed, NoCommand DEF Agree, Sectored
  <2>3. Response(c, 2, drive, bad) = "Complete"
    BY <2>2, SecondResponse DEF Again
  <2>4. Ready("Complete")
    BY <1>0, <2>1, <2>3 DEF Ready
  <2>5. Coming' = "Complete" /\ Handling'
    BY <2>4, ReadyNext
  <2>6. Due'
    BY <1>5, <2>1, <2>2, <2>5 DEF Due, ToldSecond, Again, DeviceCommands
  <2>7. Sectored'
    BY <1>1, <1>5, <2>1, <2>2, <2>5 DEF Sectored, Again, disc
  <2>8. Played'
    BY <1>5, <2>1, <2>2 DEF Agree, Played, Again, disc
  <2> QED
    BY <1>4, <2>5, <2>6, <2>7, <2>8 DEF Agree
<1>14. CASE RepeatCommand
  BY <1>1, <1>14 DEF RepeatCommand
<1> QED
  BY <1>7, <1>8, <1>9, <1>10, <1>11, <1>12, <1>13, <1>14 DEF Interrupt

LEMMA ReadEventAgrees ==
    ASSUME PInv, Agree, pc = "program", istat = 0, UNCHANGED <<isr, device, prog, broken>>, ReadInterrupt
    PROVE  Agree'
<1>1. "READ" \in pending /\ irq = "none" /\ stat = "none" /\ mask = 1
  BY DEF ReadInterrupt, PutOffRead, ReadSector, ReadFails, MayRead, PInv
<1>2. action = "read" /\ state = "READ_ACK" /\ "PLAY" \notin pending
  BY <1>1 DEF Agree, Handling, Coming, Sectored, Played
<1>3. Roomy' /\ broken' = "no" /\ ("done" \in queued' => action' = "none")
  BY RestAgrees
<1>4. UNCHANGED <<action, state>>
  BY DEF device
<1>5. mode = {} /\ drive = "standby" /\ repeated = 0
  BY <1>2 DEF Agree, Sectored
<1>6. ASSUME NEW s \in {"DataReady", "DiskError"}, SetIrq(s), UNCHANGED <<host, play, mode, drive>>,
             pending' \subseteq pending, s = "DiskError" => "READ" \notin pending'
      PROVE  Agree'
  <2>1. Coming' = s /\ Handling'
    <3>1. Ready(s)
      BY <1>1, <1>6 DEF Ready
    <3> QED
      BY <3>1, ReadyNext
  <2>2. Due'
    BY <1>1, <1>2, <1>4, <1>6, <2>1 DEF Due, Unasked, host
  <2>3. Sectored'
    BY <1>2, <1>4, <1>5, <1>6, <2>1 DEF Sectored, host
  <2>4. Played'
    BY <1>2, <1>4, <1>6 DEF Played
  <2> QED
    BY <1>3, <2>1, <2>2, <2>3, <2>4 DEF Agree
<1>7. ~PutOffRead
  BY DEF PutOffRead
<1>8. CASE ReadFails
  <2>1. /\ SetIrq("DiskError") /\ UNCHANGED <<host, play, mode, drive>> /\ pending' = pending \ {"READ"}
    BY <1>8 DEF ReadFails
  <2> QED
    BY <1>6, <2>1
<1>9. ASSUME NEW told \in {"yes", "no"}, ReadSector(told) PROVE Agree'
  <2>1. /\ SetIrq("DataReady") /\ UNCHANGED <<host, play, mode, drive>> /\ pending' = pending
    BY <1>5, <1>9 DEF ReadSector, NextSector
  <2> QED
    BY <1>6, <2>1
<1> QED
  BY <1>7, <1>8, <1>9 DEF ReadInterrupt

LEMMA PlayEventAgrees ==
    ASSUME PInv, Agree, pc = "program", istat = 0, UNCHANGED <<isr, device, prog, broken>>, PlayInterrupt
    PROVE  Agree'
<1>1. "PLAY" \in pending /\ stat = "none" /\ mask = 1 /\ Coming = "none" /\ play \in 0..1
  BY DEF PlayInterrupt, PlayNothing, PlayAudio, MayPlay, PInv, Agree, Handling, Coming, IInv, TypeOK, Bit
<1>2. action = "none" \/ (action = "play" /\ state \notin {"GETTD", "SETMODE", "SETLOC"})
  BY <1>1 DEF Agree, Played
<1>3. Roomy' /\ broken' = "no" /\ ("done" \in queued' => action' = "none")
  BY RestAgrees
<1>4. UNCHANGED <<action, state>>
  BY DEF device
<1>5. "READ" \notin pending /\ mode \subseteq {"CDDA", "AUTOPAUSE"} /\ drive \in {"standby", "stopped"} /\ repeated = 0
  BY <1>2 DEF Agree, Sectored
<1>6. PICK s : /\ PlayEnd(s) /\ pending' \subseteq pending
               /\ \/ play = 0 /\ s = SeekEnds /\ play' = 0
                  \/ /\ play = 1
                     /\ \E ends : /\ s = AudioTells(SeekEnds, ends)
                                  /\ IF ends = "disc" \/ Pauses(SeekEnds, ends)
                                     THEN play' = 0 /\ pending' = pending \ {"PLAY"}
                                     ELSE UNCHANGED <<play, pending>>
  BY DEF PlayInterrupt, PlayNothing, PlayAudio
<1>7. Coming' = s /\ Handling' /\ seeked' = "done" /\ UNCHANGED <<host, mode, drive>>
  <2>1. Ready(s)
    BY <1>1, <1>6 DEF Ready, PlayEnd
  <2> QED
    BY <1>6, <2>1, ReadyNext DEF PlayEnd
<1>8. play = 0 => play' = 0
  BY <1>6
<1>9. Sectored'
  BY <1>2, <1>4, <1>5, <1>6, <1>7 DEF Sectored, host
<1>10. CASE irq # "none"
  <2>1. s = "none"
    BY <1>1, <1>6, <1>10 DEF AudioTells, SeekEnds, Pauses, Reports
  <2>2. Due'
    BY <1>1, <1>4, <1>7, <1>10, <2>1
       DEF host, Agree, Due, Idle, Asked, ToldFirst, ToldSecond, AskedAgain, Unasked
  <2>3. state \notin {"SEEK_ACK", "PLAYING"} /\ action = "play"
    BY <1>1, <1>2, <1>10, Owed DEF First, Again
  <2>4. Played'
    BY <1>2, <1>4, <1>7, <1>8, <2>1, <2>3 DEF Agree, Played
  <2> QED
    BY <1>3, <1>7, <1>9, <2>2, <2>4 DEF Agree
<1>11. CASE irq = "none" /\ action = "none"
  <2>1. s = "none" /\ play' = 0
    BY <1>1, <1>6, <1>11 DEF Agree, Played, SeekEnds
  <2>2. Due'
    BY <1>4, <1>7, <1>11, <2>1 DEF host, Due, Idle
  <2>3. Played'
    BY <1>4, <1>7, <1>11, <2>1 DEF Played
  <2> QED
    BY <1>3, <1>7, <1>9, <2>2, <2>3 DEF Agree
<1>12. CASE irq = "none" /\ action = "play"
  <2>1. state \in {"SEEK_ACK", "PLAYING"}
    BY <1>1, <1>12, NoCommand DEF Agree, Due, Idle, Asked, ToldFirst, ToldSecond, AskedAgain, Unasked, First, Again
  <2>2. CASE state = "SEEK_ACK"
    <3>1. s \in {"none", "Complete"} /\ play' = 0
      BY <1>1, <1>6, <1>12, <2>2 DEF Agree, Played, SeekEnds
    <3>2. Due'
      BY <1>4, <1>7, <1>12, <2>2, <3>1 DEF host, Due, Unasked
    <3>3. Played'
      BY <1>4, <1>7, <1>12, <2>2, <3>1 DEF Played
    <3> QED
      BY <1>3, <1>7, <1>9, <3>2, <3>3 DEF Agree
  <2>3. CASE state = "PLAYING"
    <3>1. SeekEnds = "none"
      BY <1>1, <1>12, <2>3 DEF Agree, Played, SeekEnds
    <3>2. \A ends : AudioTells(SeekEnds, ends) = IF Pauses(SeekEnds, ends) THEN "DataEnd" ELSE "none"
      BY <1>5, <3>1 DEF AudioTells, Reports
    <3>3. s \in {"none", "DataEnd"} /\ (s # "none" => play' = 0)
      BY <1>6, <3>1, <3>2
    <3>4. Due'
      BY <1>4, <1>7, <1>12, <2>3, <3>3 DEF host, Due, Unasked
    <3>5. Played'
      BY <1>4, <1>7, <1>12, <2>3, <3>3 DEF Played
    <3> QED
      BY <1>3, <1>7, <1>9, <3>4, <3>5 DEF Agree
  <2> QED
    BY <2>1, <2>2, <2>3
<1> QED
  BY <1>2, <1>10, <1>11, <1>12

LEMMA AgreeStep ==
    ASSUME Supported, DInv, [PsyqoNext]_vars
    PROVE  careful' = 1 => Agree'
<1> SUFFICES ASSUME careful' = 1 PROVE Agree'
  OBVIOUS
<1>1. CASE Program
  BY <1>1, ProgramAgrees
<1>2. CASE Handler
  <2>1. careful = 1
    BY <1>2 DEF Handler, Enter, Leave, ReadCause, AckCause, UnknownCause, Dispatch
  <2> QED
    BY <1>2, <2>1, HandlerAgrees DEF DInv
<1>3. CASE Event(Interrupt) \/ Event(ReadInterrupt) \/ Event(PlayInterrupt)
  <2>1. /\ careful = 1 /\ pc = "program" /\ istat = 0 /\ UNCHANGED <<isr, device, prog, broken>>
        /\ Interrupt \/ ReadInterrupt \/ PlayInterrupt
    BY <1>3 DEF Event, Handled
  <2> QED
    BY <2>1, InterruptAgrees, ReadEventAgrees, PlayEventAgrees DEF DInv
<1>4. CASE UNCHANGED vars
  <2>1. careful = 1 /\ Agree
    BY <1>4 DEF vars, DInv
  <2>2. UNCHANGED <<cd, isr, action, table, broken, state, queued>>
    BY <1>4 DEF vars, device, prog
  <2>3. UNCHANGED <<host, answer, disc, motor, pending>>
    BY <2>2 DEF cd
  <2>4. Coming' = Coming /\ Handling'
    BY <2>1, <2>2, <2>3 DEF Agree, Handling, Coming, isr, answer
  <2> QED
    BY <2>1, <2>2, <2>3, <2>4, StillAgrees
<1> QED
  BY <1>1, <1>2, <1>3, <1>4 DEF PsyqoNext

-----------------------------------------------------------------------------
(* Nothing is forgotten.  The event that brings what an action waits for    *)
(* without having asked for it was scheduled by the response it saw last,   *)
(* and the callbacks that are still to come are queued.                     *)
Promised ==
    /\ action = "read" =>
          /\ state = "READ" /\ Coming # "none" => "READ" \in pending
          /\ state = "READ_ACK" => "READ" \in pending \/ Coming = "DiskError"
    /\ action = "play" =>
          /\ blocking = 0
          /\ state = "SEEK" /\ Coming # "none" => seeked = "pending" /\ "PLAY" \in pending
          /\ state = "SEEK_ACK" => (seeked = "pending" /\ "PLAY" \in pending) \/ Coming = "Complete"
          /\ state = "PLAY" /\ Coming # "none" => play = 1
          /\ state = "PLAYING" => /\ play = 1 \/ "AUTOPAUSE" \notin mode \/ Coming = "DataEnd"
                                  /\ playing = 1 \/ "started" \in queued
    /\ action = "none" => state = "IDLE" \/ ("done" \in queued /\ blocking = 0)

LEMMA PromisedInit == PsyqoInit => Promised
BY DEF PsyqoInit, Promised

(* An action begins: its first command is due. *)
LEMMA BeginPromises ==
    ASSUME Agree, action = "none", NEW a \in DOMAIN Overrides, NEW s, Begin(a, s), NEW c, NEW far, NEW m,
           WriteCommand(c, far, m), s \notin {"READ", "READ_ACK", "SEEK", "SEEK_ACK", "PLAYING"}
    PROVE  Promised'
<1>1. a # "none" /\ action' = a /\ state' = s /\ (a = "play" => blocking' = 0)
  BY ActionNames DEF Begin
<1>2. Coming = "none"
  BY DEF Agree, Due, Idle, Asked, ToldFirst, ToldSecond, AskedAgain, Unasked, First, Again
<1>3. Coming' = "none"
  BY <1>2 DEF Begin, WriteCommand, isr, answer, Coming
<1> QED
  BY <1>1, <1>3 DEF Promised

LEMMA ProgramPromises ==
    ASSUME DInv, careful = 1 => Promised, Program, careful' = 1
    PROVE  Promised'
<1>1. CASE \/ \E n \in 1..Count : StartRead(n)
           \/ \E end \in Bit : StartPlay(end)
           \/ Resume
           \/ StartPlain("reset", "RESET", "Reset") \/ StartPlain("size", "GETTN", "GetTN")
           \/ StartPlain("test", "TEST", "Getparam") \/ StartPlain("mute", "MUTE", "Mute")
           \/ \E size \in Sizes : StartToc(size)
  <2> DEFINE FirstStates == {"SETLOC", "GETTD", "SETMODE", "PLAY", "RESET", "GETTN", "TEST", "MUTE"}
  <2>1. PICK a \in DOMAIN Overrides, s \in FirstStates :
             Begin(a, s) /\ \E c, far, m : WriteCommand(c, far, m)
    BY <1>1, ActionNames DEF StartRead, StartPlay, Resume, StartPlain, StartToc
  <2>3. PICK c, far, m : WriteCommand(c, far, m)
    BY <2>1
  <2>2. Agree /\ action = "none"
    BY <2>1 DEF Begin, MayStart, DInv
  <2> QED
    BY <2>1, <2>2, <2>3, BeginPromises
<1>2. CASE \E c \in {"Pause", "Stop"} : StopPlaying(c)
  BY <1>2 DEF StopPlaying, Promised
<1>3. CASE GetLocation
  BY <1>3 DEF GetLocation
<1>4. ASSUME NEW b \in queued, RunCallback(b) PROVE Promised'
  <2>1. /\ UNCHANGED <<seeked, play, mode, pending, action, blocking>> /\ Coming' = Coming
        /\ Agree /\ Promised
    BY <1>4 DEF RunCallback, cd, answer, disc, isr, Coming, DInv
  <2>2. CASE b = "done"
    BY <1>4, <2>1, <2>2 DEF RunCallback, Promised, Agree
  <2>3. CASE b # "done"
    BY <1>4, <2>1, <2>3 DEF RunCallback, Promised
  <2> QED
    BY <2>2, <2>3
<1>5. CASE Return
  <2>1. /\ UNCHANGED <<seeked, play, mode, pending, action, state, queued, playing>> /\ Coming' = Coming
        /\ Promised /\ blocking' = 0
    BY <1>5 DEF Return, cd, answer, disc, isr, prog, Coming
  <2> QED
    BY <2>1 DEF Promised
<1> QED
  BY <1>1, <1>2, <1>3, <1>4, <1>5 DEF Program

(* A response is answered. *)
LEMMA FinishPromises == ASSUME PInv, Finish PROVE Promised'
BY DEF Finish, Promised, PInv, OwnTypes, Bit

LEMMA ReadPromises ==
    ASSUME Agree, Promised, Taken, PInv, broken' = "no", action = "read", Coming # "none",
           \/ cause = "Acknowledge" /\ ReadAcknowledge
           \/ cause = "DataReady" /\ ReadDataReady
           \/ cause = "Complete" /\ ReadComplete
    PROVE  Promised'
<1>1. Coming = cause
  BY DEF Taken, Coming
<1>2. ~(\E a \in {"acknowledge", "dataReady", "complete"} : Abort(a))
  BY DEF Abort
<1>3. CASE cause = "Acknowledge" /\ state \in DOMAIN ReadStep /\ Goto(ReadStep[state])
  <2>1. action' = "read" /\ state' = ReadStep[state].state
    BY <1>3 DEF Goto
  <2>2. state' = "READ" => ReadStep[state].send = "Read"
    BY <1>3, <2>1 DEF ReadStep
  <2>3. Coming' = "none"
    <3>1. UNCHANGED answer
      BY <1>3 DEF Goto, cd, WriteCommand
    <3> QED
      BY <3>1, TakenNext
  <2>4. CASE state = "READ"
    <3>1. UNCHANGED cd /\ state' = "READ_ACK"
      BY <1>3, <2>4 DEF Goto, ReadStep
    <3>2. "READ" \in pending'
      BY <2>4, <3>1 DEF Promised, cd
    <3> QED
      BY <2>1, <3>1, <3>2 DEF Promised
  <2>5. CASE state # "READ"
    <3>1. state' # "READ_ACK"
      BY <1>3, <2>1, <2>5 DEF ReadStep
    <3> QED
      BY <2>1, <2>3, <3>1 DEF Promised
  <2> QED
    BY <2>4, <2>5
<1>4. CASE cause = "DataReady" /\ state = "READ_ACK" /\ UNCHANGED <<cd, action, state>>
  BY <1>1, <1>4 DEF Promised, cd
<1>5. CASE Goto([state |-> "PAUSE", send |-> "Pause"])
  BY <1>5 DEF Goto, Promised
<1>6. CASE Finish
  BY <1>6, FinishPromises
<1> QED
  BY <1>2, <1>3, <1>4, <1>5, <1>6 DEF ReadAcknowledge, ReadDataReady, ReadComplete

LEMMA PlayPromises ==
    ASSUME Agree, Promised, Taken, PInv, broken' = "no", action = "play", Coming # "none",
           \/ cause = "Acknowledge" /\ PlayAcknowledge
           \/ cause = "Complete" /\ PlayComplete
           \/ cause = "DataEnd" /\ PlayEndReached
    PROVE  Promised'
<1>1. Coming = cause
  BY DEF Taken, Coming
<1>2. ~(\E a \in {"acknowledge", "complete", "end"} : Abort(a))
  BY DEF Abort
<1>3. CASE /\ cause = "Acknowledge" /\ state \in DOMAIN PlayStep /\ Goto(PlayStep[state])
           /\ queued' = IF state = "PLAY" THEN queued \cup {"started"} ELSE queued
  <2>1. action' = "play" /\ blocking' = blocking /\ state' = PlayStep[state].state
    BY <1>3 DEF Goto
  <2>2. Coming' = "none"
    <3>1. UNCHANGED answer
      BY <1>3 DEF Goto, cd, WriteCommand
    <3> QED
      BY <3>1, TakenNext
  <2>3. CASE state = "SEEK"
    <3>1. UNCHANGED cd /\ state' = "SEEK_ACK"
      BY <1>3, <2>3 DEF Goto, PlayStep
    <3>2. seeked' = "pending" /\ "PLAY" \in pending'
      BY <2>3, <3>1 DEF Promised, cd, disc
    <3> QED
      BY <2>1, <3>1, <3>2 DEF Promised
  <2>4. CASE state = "PLAY"
    <3>1. UNCHANGED cd /\ state' = "PLAYING"
      BY <1>3, <2>4 DEF Goto, PlayStep
    <3>2. play' = 1
      BY <2>4, <3>1 DEF Promised, cd, disc
    <3> QED
      BY <1>3, <2>1, <2>4, <3>1, <3>2 DEF Promised
  <2>5. CASE state \notin {"SEEK", "PLAY"}
    <3>1. state' \notin {"SEEK_ACK", "PLAYING"}
      BY <1>3, <2>1, <2>5 DEF PlayStep
    <3> QED
      BY <2>1, <2>2, <3>1 DEF Promised
  <2> QED
    BY <2>3, <2>4, <2>5
<1>4. ~(cause = "Acknowledge" /\ state = "PLAYING")
  BY <1>1, PlayComes
<1>5. CASE Goto([state |-> "PLAY", send |-> "Play"])
  <2>1. UNCHANGED answer
    BY <1>5 DEF Goto, WriteCommand
  <2>2. Coming' = "none"
    BY <2>1, TakenNext
  <2> QED
    BY <1>5, <2>2 DEF Goto, Promised
<1>6. CASE Finish
  BY <1>6, FinishPromises
<1>7. CASE state = "STOPPING" /\ UNCHANGED <<cd, device, prog, broken>>
  BY <1>7 DEF Promised, device
<1>8. CASE /\ action' = "none" /\ UNCHANGED blocking
           /\ queued' = queued \cup {"done"} \cup IF location = 1 THEN {"location"} ELSE {}
  BY <1>8 DEF Promised
<1> QED
  BY <1>2, <1>3, <1>4, <1>5, <1>6, <1>7, <1>8 DEF PlayAcknowledge, PlayComplete, PlayEndReached

LEMMA DispatchPromises ==
    ASSUME PInv, Agree, Promised, Agree', careful = 1, Dispatch
    PROVE  Promised'
<1>1. Taken /\ action # "none" /\ broken' = "no"
  BY DEF Dispatch, Running, Taken, Agree
<1>2. Coming = cause /\ cause # "none"
  BY <1>1 DEF Taken, Agree, Handling, Coming
<1>3. CASE Finish
  BY <1>3, FinishPromises
<1>4. ~NotImplemented
  BY <1>1 DEF NotImplemented, Abort
<1>5. CASE action = "reset" /\ (\/ cause = "Acknowledge" /\ ResetAcknowledge
                                \/ cause = "Complete" /\ ResetComplete)
  <2>1. CASE Goto([state |-> "RESET_ACK", send |-> "none"])
    BY <1>5, <2>1 DEF Goto, Promised
  <2>2. ~Abort("acknowledge") /\ ~Abort("complete")
    BY <1>1 DEF Abort
  <2> QED
    BY <1>3, <1>5, <2>1, <2>2 DEF ResetAcknowledge, ResetComplete
<1>6. CASE action = "toc" /\ TocAcknowledge
  <2>1. CASE Goto([state |-> "GETTD", send |-> "GetTN"])
    BY <1>6, <2>1 DEF Goto, Promised
  <2>2. ~Abort("overrun")
    BY <1>1 DEF Abort
  <2> QED
    BY <1>3, <1>6, <2>1, <2>2 DEF TocAcknowledge
<1> QED
  BY <1>1, <1>2, <1>3, <1>4, <1>5, <1>6, ReadPromises, PlayPromises DEF Dispatch

LEMMA HandlerPromises ==
    ASSUME PInv, Agree, Promised, Agree', careful = 1, Handler
    PROVE  Promised'
<1>1. CASE Enter \/ Leave \/ ReadCause \/ AckCause
  <2>1. UNCHANGED <<seeked, play, mode, pending, action, state, blocking, queued, playing>>
    BY <1>1 DEF Enter, ClearIstat, Leave, ReadCause, AckCause, Acknowledge, device, prog, cd, disc
  <2>2. Coming' = Coming
    BY <1>1 DEF Enter, ClearIstat, Leave, ReadCause, AckCause, Acknowledge, Running, Agree, Handling, cd, answer, Coming
  <2> QED
    BY <2>1, <2>2 DEF Promised
<1>2. ~UnknownCause
  BY DEF UnknownCause, Agree
<1>3. CASE Dispatch
  BY <1>3, DispatchPromises
<1> QED
  BY <1>1, <1>2, <1>3 DEF Handler

(* An event comes: a response that schedules one, *)
LEMMA InterruptPromises ==
    ASSUME PInv, Agree, Promised, pc = "program", istat = 0, UNCHANGED <<isr, device, prog, broken>>, Interrupt
    PROVE  Promised'
<1>1. stat = "none" /\ irq # "none" /\ repeated = 0 /\ Coming = "none"
  BY PsyqoAssumption
  DEF Agree, Handling, Sectored, Coming, Interrupt, RepeatCommand, AnswerPlain, AnswerPlay, AnswerRead,
         AnswerSeek, AnswerInit, AnswerFirst, AnswerSecond, Answered, Respond, PInv, IInv, CommandDue
<1>2. /\ action # "none"
      /\ \/ First(action, state, irq) /\ part = 1
         \/ Again(action, state, irq) /\ part = 2
  BY <1>1, Owed
<1>3. state \notin {"READ_ACK", "SEEK_ACK", "PLAYING"}
  BY <1>2 DEF First, Again
<1>4. UNCHANGED <<action, state, blocking>>
  BY DEF device
<1>5. action = "read" /\ state = "READ" => "READ" \in pending'
  <2> SUFFICES ASSUME action = "read", state = "READ" PROVE "READ" \in pending'
    OBVIOUS
  <2>1. irq = "Read" /\ part = 1 /\ mode = {}
    BY <1>2 DEF First, Again, Agree, Sectored
  <2> QED
    BY <1>1, <2>1 DEF Interrupt, RepeatCommand, AnswerPlain, AnswerPlay, AnswerRead, AnswerSeek, AnswerInit,
                      AnswerFirst, AnswerSecond, Answered, Respond, IrqOf, Twice
<1>6. action = "play" /\ state = "SEEK" => seeked' = "pending" /\ "PLAY" \in pending'
  <2> SUFFICES ASSUME action = "play", state = "SEEK" PROVE seeked' = "pending" /\ "PLAY" \in pending'
    OBVIOUS
  <2>1. irq = "Seek" /\ part = 1
    BY <1>2 DEF First, Again
  <2> QED
    BY <1>1, <2>1 DEF Interrupt, RepeatCommand, AnswerPlain, AnswerPlay, AnswerRead, AnswerSeek, AnswerInit,
                      AnswerFirst, AnswerSecond, Answered, Respond, IrqOf, Twice
<1>7. action = "play" /\ state = "PLAY" => play' = 1
  <2> SUFFICES ASSUME action = "play", state = "PLAY" PROVE play' = 1
    OBVIOUS
  <2>1. irq = "Play" /\ part = 1
    BY <1>2 DEF First, Again
  <2> QED
    BY <1>1, <2>1 DEF Interrupt, RepeatCommand, AnswerPlain, AnswerPlay, AnswerRead, AnswerSeek, AnswerInit,
                      AnswerFirst, AnswerSecond, Answered, Respond, IrqOf, Twice
<1> QED
  BY <1>2, <1>3, <1>4, <1>5, <1>6, <1>7 DEF Promised

(* a sector, which is followed by the next one unless it cannot be read, *)
LEMMA ReadEventPromises ==
    ASSUME PInv, Agree, Promised, pc = "program", istat = 0, UNCHANGED <<isr, device, prog, broken>>, ReadInterrupt
    PROVE  Promised'
<1>1. /\ "READ" \in pending /\ stat = "none"
      /\ ("READ" \in pending' \/ stat' = "DiskError")
  BY DEF ReadInterrupt, PutOffRead, ReadSector, ReadFails, MayRead, NextSector, SetIrq
<1>2. action = "read" /\ state = "READ_ACK"
  BY <1>1 DEF Agree, Handling, Coming, Sectored
<1>3. UNCHANGED <<action, state, pc>>
  BY DEF device, isr
<1> QED
  BY <1>1, <1>2, <1>3 DEF Promised, Coming

(* and audio, which tells of its end if it is to. *)
LEMMA PlayEventPromises ==
    ASSUME PInv, Agree, Promised, pc = "program", istat = 0, UNCHANGED <<isr, device, prog, broken>>, PlayInterrupt
    PROVE  Promised'
<1>1. /\ "PLAY" \in pending /\ stat = "none" /\ Coming = "none" /\ play \in 0..1
      /\ mode \subseteq {"CDDA", "AUTOPAUSE"}
  BY DEF PlayInterrupt, PlayNothing, PlayAudio, MayPlay, Agree, Handling, Coming, PInv, IInv, TypeOK, Bit, Sectored
<1>2. action = "none" \/ (action = "play" /\ state \notin {"GETTD", "SETMODE", "SETLOC"})
  BY <1>1 DEF Agree, Played
<1>3. UNCHANGED <<action, state, blocking, queued, playing, pc>>
  BY DEF device, prog, isr
<1>4. PICK s : /\ PlayEnd(s)
               /\ \/ play = 0 /\ s = SeekEnds /\ play' = 0
                  \/ /\ play = 1
                     /\ \E ends : /\ s = AudioTells(SeekEnds, ends)
                                  /\ IF ends = "disc" \/ Pauses(SeekEnds, ends)
                                     THEN play' = 0 ELSE play' = play
                                  /\ ends \in {"no", "track", "disc"}
  BY DEF PlayInterrupt, PlayNothing, PlayAudio
<1>5. mode' = mode /\ stat' = s /\ Coming' = s
  BY <1>1, <1>3, <1>4 DEF PlayEnd, SetIrq, answer, Coming
<1>6. CASE action = "none"
  BY <1>3, <1>6 DEF Promised
<1>7. CASE action = "play"
  <2>1. state = "SEEK_ACK" => s = "Complete"
    <3> SUFFICES ASSUME state = "SEEK_ACK" PROVE s = "Complete"
      OBVIOUS
    <3>1. seeked = "pending" /\ irq = "none" /\ play = 0
      BY <1>1, <1>7 DEF Promised, Agree, Played, Due, Idle, Asked, ToldFirst, ToldSecond, AskedAgain, Unasked, First, Again
    <3> QED
      BY <1>4, <3>1 DEF SeekEnds
  <2>2. state = "PLAYING" => play' = 1 \/ "AUTOPAUSE" \notin mode \/ s = "DataEnd"
    <3> SUFFICES ASSUME state = "PLAYING", "AUTOPAUSE" \in mode PROVE play' = 1 \/ s = "DataEnd"
      OBVIOUS
    <3>1. play = 1 /\ irq = "none" /\ SeekEnds = "none"
      BY <1>1, <1>7, NoCommand DEF Promised, Agree, Played, SeekEnds, Due, Idle, Asked, ToldFirst, ToldSecond,
                            AskedAgain, Unasked, First, Again
    <3> QED
      BY <1>4, <3>1 DEF AudioTells, Pauses
  <2>3. state \in {"SEEK", "PLAY"} => s = "none"
    <3> SUFFICES ASSUME state \in {"SEEK", "PLAY"} PROVE s = "none"
      OBVIOUS
    <3>1. irq # "none"
      BY <1>1, <1>7 DEF Agree, Due, Idle, Asked, ToldFirst, ToldSecond, AskedAgain, Unasked, First, Again
    <3> QED
      BY <1>1, <1>4, <3>1 DEF AudioTells, Pauses, Reports, SeekEnds
  <2> QED
    BY <1>3, <1>5, <1>7, <2>1, <2>2, <2>3 DEF Promised
<1> QED
  BY <1>2, <1>6, <1>7

LEMMA PromisedStep ==
    ASSUME DInv, DInv', careful = 1 => Promised, [PsyqoNext]_vars
    PROVE  careful' = 1 => Promised'
<1> SUFFICES ASSUME careful' = 1 PROVE Promised'
  OBVIOUS
<1> USE DEF DInv
<1>1. CASE Program
  BY <1>1, ProgramPromises
<1>2. CASE Handler
  <2>1. careful = 1
    BY <1>2 DEF Handler, Enter, Leave, ReadCause, AckCause, UnknownCause, Dispatch
  <2> QED
    BY <1>2, <2>1, HandlerPromises
<1>3. CASE Event(Interrupt) \/ Event(ReadInterrupt) \/ Event(PlayInterrupt)
  <2>1. /\ careful = 1 /\ pc = "program" /\ istat = 0 /\ UNCHANGED <<isr, device, prog, broken>>
        /\ Interrupt \/ ReadInterrupt \/ PlayInterrupt
    BY <1>3 DEF Event, Handled
  <2> QED
    BY <2>1, InterruptPromises, ReadEventPromises, PlayEventPromises
<1>4. CASE UNCHANGED vars
  <2>1. careful = 1
    BY <1>4 DEF vars
  <2>2. /\ UNCHANGED <<seeked, play, mode, pending, action, state, blocking, queued, playing>>
        /\ Coming' = Coming
    BY <1>4 DEF vars, cd, answer, disc, isr, device, prog, Coming
  <2> QED
    BY <2>1, <2>2 DEF Promised
<1> QED
  BY <1>1, <1>2, <1>3, <1>4 DEF PsyqoNext

(* A careful program and the device agree, and nothing is forgotten. *)
Agreeing == DInv /\ (careful = 1 => Promised)

(* The driver and the controller agree on what comes next: whatever a       *)
(* careful program does, none of the device's assertions and aborts is      *)
(* reached, what an action waits for is on its way, and the callback of one *)
(* that is over is queued (cdrom-device.cpp:66-161 and the actions).        *)
(* Muting is left out, as its answer always aborts, and so are tables of    *)
(* one entry.                                                               *)
THEOREM DeviceStaysInAgreement == Supported => (PsyqoSpec => []DeviceAgrees)
<1> SUFFICES ASSUME Supported PROVE PsyqoSpec => []DeviceAgrees
  OBVIOUS
<1>1. PsyqoInit => Agreeing
  BY PsyqoInitRight, AgreeInit, PromisedInit DEF Agreeing, DInv
<1>2. Agreeing /\ [PsyqoNext]_vars => Agreeing'
  <2> SUFFICES ASSUME DInv, careful = 1 => Promised, [PsyqoNext]_vars
               PROVE  DInv' /\ (careful' = 1 => Promised')
    BY DEF Agreeing
  <2>1. DInv'
    BY PsyqoStepRight, AgreeStep DEF DInv
  <2> QED
    BY <2>1, PromisedStep
<1>3. Agreeing => DeviceAgrees
  <2> SUFFICES ASSUME DInv, careful = 1, Promised PROVE broken = "no" /\ NobodyForgotten
    BY DEF Agreeing, DeviceAgrees
  <2>1. Agree
    BY DEF DInv
  <2>2. Coming # "none" => Comes
    BY DEF Coming, Comes
  <2>3. action # "none" /\ irq = "none" /\ Coming = "none" =>
           \/ action = "read" /\ state = "READ_ACK"
           \/ action = "play" /\ state \in {"SEEK_ACK", "PLAYING"}
    BY <2>1, NoCommand DEF Agree, Due, Idle, Asked, ToldFirst, ToldSecond, AskedAgain, Unasked, First, Again
  <2>4. action # "none" =>
           \/ Comes
           \/ state = "READ_ACK" /\ "READ" \in pending
           \/ state = "SEEK_ACK" /\ seeked = "pending" /\ "PLAY" \in pending
           \/ state = "PLAYING" /\ (play = 1 \/ "AUTOPAUSE" \notin mode)
    <3> SUFFICES ASSUME action # "none", ~Comes
                 PROVE  \/ state = "READ_ACK" /\ "READ" \in pending
                        \/ state = "SEEK_ACK" /\ seeked = "pending" /\ "PLAY" \in pending
                        \/ state = "PLAYING" /\ (play = 1 \/ "AUTOPAUSE" \notin mode)
      OBVIOUS
    <3>1. irq = "none" /\ Coming = "none"
      BY <2>2 DEF Comes
    <3>2. CASE action = "read" /\ state = "READ_ACK"
      BY <3>1, <3>2 DEF Promised
    <3>3. CASE action = "play" /\ state \in {"SEEK_ACK", "PLAYING"}
      BY <3>1, <3>3 DEF Promised
    <3> QED
      BY <2>3, <3>1, <3>2, <3>3
  <2>5. action = "none" => state = "IDLE" \/ ("done" \in queued /\ blocking = 0)
    BY DEF Promised
  <2>6. action = "play" /\ state = "PLAYING" => playing = 1 \/ "started" \in queued
    BY DEF Promised
  <2> QED
    BY <2>1, <2>4, <2>5, <2>6 DEF NobodyForgotten, Agree
<1> QED
  BY <1>1, <1>2, <1>3, PTL DEF PsyqoSpec

(* In particular it never aborts. *)
THEOREM DeviceNeverAborts == Supported => (PsyqoSpec => []NeverAborts)
<1>1. DeviceAgrees => NeverAborts
  BY DEF DeviceAgrees, NeverAborts
<1> QED
  BY <1>1, DeviceStaysInAgreement, PTL
=============================================================================
