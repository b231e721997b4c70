---------------------------- MODULE AudioOutput ----------------------------
(***************************************************************************)
(* The clock and the stream together.  The device's callback drains the    *)
(* stream, then counts its frames; saving and loading a state stop the     *)
(* mixing thread from the emulation thread, which waits for it meanwhile.  *)
(***************************************************************************)
EXTENDS AudioClock, AudioStream

vars == <<clockVars, streamVars>>
Init == ClockInit /\ StreamInit

(* One slice of streamCallback.  With null sync the device drains the      *)
(* stream all the same, and does not count.                                *)
Callback(n) ==
    /\ Device \in active /\ adding[Device] = None
    /\ Dequeue(n)
    /\ IF Counts(Device) THEN Add(Device, n) ELSE UNCHANGED clockVars

Tick == Add(NullThread, Period) /\ UNCHANGED streamVars
CheckGoal(c) == Check(c) /\ UNCHANGED streamVars

(* The emulation thread does nothing else while RemoveThread waits. *)
Emulation == endThread = 0 /\ Emulate /\ UNCHANGED streamVars
UserInterface == endThread = 0 /\ Control /\ UNCHANGED streamVars

SaveOrLoad == main = "run" /\ RemoveThread /\ UNCHANGED clockVars
Saved == SetupThread /\ UNCHANGED clockVars
Loaded == SetupThread /\ Restart

Mixing == MixerStep /\ UNCHANGED clockVars

Next ==
    \/ \E n \in Chunks : Callback(n)
    \/ Tick
    \/ \E c \in Consumers : CheckGoal(c)
    \/ Mixing
    \/ Emulation \/ UserInterface
    \/ SaveOrLoad \/ Saved \/ Loaded

(* The system schedules its threads, calls back a device that plays, and   *)
(* lets 200 ms elapse.  Nothing makes the user or the machine do anything. *)
Fairness ==
    /\ \A n \in Chunks : WF_vars(Callback(n))
    /\ WF_vars(Tick)
    /\ \A c \in Consumers : WF_vars(CheckGoal(c))
    /\ WF_vars(Mixing)
    /\ WF_vars(endThread = 0 /\ (Load \/ Store \/ Wake \/ EndBlock) /\ UNCHANGED streamVars)
    /\ WF_vars(Saved \/ Loaded)

Spec == Init /\ [][Next]_vars
FairSpec == Spec /\ Fairness

-----------------------------------------------------------------------------
ClockTypeOK ==
    /\ frames \in Frames /\ goalpost \in Frames /\ previousGoalpost \in Frames
    /\ target \in Frames /\ audioFrames \in Frames /\ since \in Frames
    /\ moved \in {0, 1} /\ fallback \in {0, 1} /\ nullSync \in {0, 1}
    /\ running \in {0, 1} /\ gaveUp \in {0, 1}
    /\ adding \in [Consumers -> Frames \cup {None}] /\ active \subseteq Consumers
    /\ main \in {"run", "tail", "reinit", "decided", "loaded", "waiting"}

TypeOK == ClockTypeOK /\ StreamTypeOK

(* A goal that is waited for and not reached yet differs from the previous *)
(* one.  advanceFrames takes a goal equal to the previous one for a goal   *)
(* that was already served (sdlaudio.cc:261): the wait would never end.    *)
GoalFresh == main = "waiting" /\ moved = 0 => goalpost # previousGoalpost

(* The machine is woken by its own goal, not by the trigger of an earlier  *)
(* one that a consumer was late to raise (sdlaudio.h:94 reads m_triggered  *)
(* before it posts the goal).                                              *)
NotEarly == main = "waiting" /\ moved = 1 => Ahead(target, frames) <= 0

(* While the machine runs and the audio window is not in the middle of a   *)
(* change, one thread counts frames and no other; while it is paused, none *)
(* does.  The exception: a device that would not resume.                   *)
Clocks == {c \in active : Counts(c)}
OneClock ==
    main # "reinit" =>
        IF running = 1
        THEN (\E c \in Consumers : Clocks = {c}) \/ (fallback = 1 /\ Clocks = {})
        ELSE Clocks = {}

(* A wait is never longer than what was emulated since the update before:  *)
(* the cycles of the whole time since the last wait are not waited for     *)
(* once more (psxcounters.cc:171), as long as the machine did not give up. *)
ShortWaits ==
    main \in {"decided", "loaded", "waiting"} /\ gaveUp = 0 =>
        \E n \in Steps : Ahead(target, frames) <= n

(* A mixer that waits on the condition variable waits for room: no         *)
(* notification is lost between its test and its sleep.                    *)
WaitsForRoom == mixer = "waiting" => ~Fits(block)

(* The buffer is the queue StreamQueue describes: whole blocks, in order,  *)
(* none twice, none dropped but by a mixer that is told to end.            *)
StreamSafe == Stream!Spec

(* As long as a thread counts frames, a wait for a goal ends.              *)
WaitEnds == main = "waiting" /\ Clocks # {} ~> main = "run"

(* Saving a state ends, even with the sound device paused and the buffer   *)
(* full: enqueue's timeout lets the mixing thread see bEndThread.          *)
MixerStops == endThread = 1 ~> endThread = 0
=============================================================================
