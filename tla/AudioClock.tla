----------------------------- MODULE AudioClock -----------------------------
(***************************************************************************)
(* The emulated machine runs at the pace of the sound it plays.  Threads   *)
(* that consume frames (the sound device's callback, or the "null sync"    *)
(* thread) count them in m_frames; the emulation thread, when it is ahead, *)
(* posts a goal and sleeps until a consumer sees the count reach it.       *)
(*                                                                         *)
(* core/psxcounters.cc (update), spu/sdlaudio.h and spu/sdlaudio.cc.       *)
(***************************************************************************)
EXTENDS Integers

CONSTANTS
    Half,      \* half the range of a 32-bit counter of frames: 2^31
    Behind,    \* how late the machine may be before it gives up: 2000000000
    MaxDrift,  \* bound: the frames consumed past the last goal
    Steps,     \* frames' worth of cycles between two updates
    Chunks,    \* frames in a callback of the device
    Period     \* frames in a tick of the null thread: kPeriodFrames

ASSUME ClockAssumption ==
    /\ Half \in Nat /\ Behind \in Nat /\ MaxDrift \in Nat
    /\ Steps \subseteq Nat \ {0} /\ Steps # {}
    /\ Chunks \subseteq Nat \ {0} /\ Period \in Nat \ {0}
    /\ \A n \in Steps, m \in Chunks \cup {Period} : MaxDrift + n + m < Half

Wrap == 2 * Half
Frames == 0 .. Wrap - 1
None == -1
Device == "device"
NullThread == "null"
Consumers == {Device, NullThread}

VARIABLES
    frames,       \* m_frames: the frames consumed, modulo 2^32
    goalpost,     \* m_goalpost
    previousGoalpost,
    moved,        \* 1: m_triggered changed since waitForGoal read it
    adding,       \* per consumer, advanceFrames' total, None outside of it
    active,       \* the consumers that run: device resumed, thread started
    fallback,     \* 1: the device would not resume, the dummy one is open
    nullSync,     \* the setting, 0 or 1
    running,      \* g_system->running(), 0 or 1
    main,         \* where the emulation thread is
    target,       \* the goal update computed, 0 when there is none
    audioFrames,  \* m_audioFrames
    since,        \* the cycles since previousCycles, in frames
    gaveUp        \* history: 1 when the machine gave up since the last wait

settings == <<active, fallback, nullSync, running>>
machine == <<target, audioFrames, since, gaveUp>>
post == <<goalpost, previousGoalpost, moved>>
clockVars == <<frames, post, adding, settings, main, machine>>

(* Modular arithmetic of uint32_t, and a difference read as an int32_t. *)
Plus(a, n) == IF a + n < Wrap THEN a + n ELSE a + n - Wrap
Ahead(a, b) ==
    LET d == IF a >= b THEN a - b ELSE a - b + Wrap
    IN  IF d < Half THEN d ELSE d - Wrap

ClockInit ==
    /\ frames = 0 /\ goalpost = 0 /\ previousGoalpost = 0 /\ moved = 0
    /\ adding = [c \in Consumers |-> None]
    /\ active = {} /\ fallback = 0 /\ nullSync \in {0, 1} /\ running = 0
    /\ main = "run" /\ target = 0 /\ audioFrames = 0 /\ since = 0 /\ gaveUp = 0

-----------------------------------------------------------------------------
(* The consumers.  The device's callback counts its frames unless the null *)
(* thread is the clock.                                                    *)

Counts(c) == c = NullThread \/ nullSync = 0

(* fetch_add keeps the count it found.  No more than MaxDrift frames pass  *)
(* after the last goal: 2^31 frames are thirteen hours without a wait.     *)
Add(c, n) ==
    /\ c \in active /\ Counts(c) /\ adding[c] = None
    /\ Ahead(goalpost, frames) - n >= - MaxDrift
    /\ adding' = [adding EXCEPT ![c] = frames]
    /\ frames' = Plus(frames, n)
    /\ UNCHANGED <<post, settings, main, machine>>

(* mutant: the goal has to be met exactly *)
Reached_Mutant(c) == goalpost # previousGoalpost /\ Ahead(goalpost, adding[c]) = 0
Reached(c) == goalpost # previousGoalpost /\ Ahead(goalpost, adding[c]) <= 0

(* The rest of advanceFrames.  Only consumers write m_previousGoalpost, so *)
(* it does not matter when the goal was read within this step.             *)
Check(c) ==
    /\ adding[c] # None
    /\ adding' = [adding EXCEPT ![c] = None]
    /\ previousGoalpost' = IF Reached(c) THEN goalpost ELSE previousGoalpost
    /\ moved' = IF Reached(c) THEN 1 ELSE moved
    /\ UNCHANGED <<frames, goalpost, settings, main, machine>>

-----------------------------------------------------------------------------
(* The emulation thread.  "run" is both the emulated code and the user     *)
(* interface it calls; "tail" is the end of a block whose code paused.     *)

Executes == (main = "run" /\ running = 1) \/ main = "tail"

(* branchTest, at the end of a block, finds an update due. *)
Update(n) ==
    LET s == Plus(since, n)
        t == Plus(audioFrames, s)
        diff == Ahead(t, frames)
    IN  /\ Executes
        /\ IF diff > 0
           THEN /\ main' = "decided" /\ target' = t /\ since' = 0
                /\ UNCHANGED <<audioFrames, gaveUp>>
           ELSE /\ main' = "run" /\ since' = s
                /\ audioFrames' = IF diff < - Behind THEN frames ELSE audioFrames
                /\ gaveUp' = IF diff < - Behind THEN 1 ELSE gaveUp
                /\ UNCHANGED target
        /\ UNCHANGED <<frames, post, adding, settings>>

(* mutant: what m_triggered was is remembered from the wait before *)
Load_Mutant ==
    /\ main = "decided"
    /\ main' = "loaded"
    /\ UNCHANGED <<frames, post, adding, settings, machine>>

(* waitForGoal: read m_triggered, post the goal, sleep while it is what it *)
(* was.                                                                    *)
Load ==
    /\ main = "decided"
    /\ main' = "loaded" /\ moved' = 0
    /\ UNCHANGED <<frames, goalpost, previousGoalpost, adding, settings, machine>>

Store ==
    /\ main = "loaded"
    /\ main' = "waiting" /\ goalpost' = target
    /\ UNCHANGED <<frames, previousGoalpost, moved, adding, settings, machine>>

Wake ==
    /\ main = "waiting" /\ moved = 1
    /\ main' = "run" /\ audioFrames' = target /\ gaveUp' = 0
    /\ target' = 0
    /\ UNCHANGED <<frames, post, adding, settings, since>>

(* A reset of the machine, or a state loaded: both forget the cycles and   *)
(* start from the frames consumed so far.                                  *)
Restart ==
    /\ main = "run"
    /\ audioFrames' = frames /\ since' = 0 /\ gaveUp' = 0
    /\ UNCHANGED <<frames, post, adding, settings, main, target>>

-----------------------------------------------------------------------------
(* What starts and stops the consumers, all of it on the emulation thread. *)

(* The device plays and, with null sync, the null thread ticks; a device   *)
(* that will not resume is replaced by the dummy one, which init leaves    *)
(* paused.                                                                 *)
Started == {Device} \cup (IF nullSync = 1 THEN {NullThread} ELSE {})

ResumeExecution ==
    /\ main = "run" /\ running = 0
    /\ running' = 1
    /\ \/ active' = Started /\ fallback' = 0
       \/ active' = Started \ {Device} /\ fallback' = 1
    /\ UNCHANGED <<frames, post, adding, nullSync, main, machine>>

(* stopNullThread joins; the callback may still be on its way. *)
Stop ==
    /\ running = 1 /\ adding[NullThread] = None
    /\ running' = 0 /\ active' = {}
    /\ UNCHANGED <<frames, post, adding, fallback, nullSync, machine>>

PauseExecution == main = "run" /\ Stop /\ UNCHANGED main

(* The emulated code pauses the machine in the middle of a block: a write  *)
(* to the debug break port, an access to memory that is not there.  The    *)
(* block goes on to its end.                                               *)
GuestBreak == main = "run" /\ Stop /\ main' = "tail"

EndBlock ==
    /\ main = "tail" /\ main' = "run"
    /\ UNCHANGED <<frames, post, adding, settings, machine>>

(* The audio window: the setting changes while the consumers run ... *)
ChangeSettings ==
    /\ main = "run"
    /\ main' = "reinit" /\ nullSync' \in {0, 1}
    /\ UNCHANGED <<frames, post, adding, active, fallback, running, machine>>

(* ... and reinit joins them and starts them anew. *)
Reinit ==
    /\ main = "reinit" /\ adding = [c \in Consumers |-> None]
    /\ main' = "run"
    /\ \/ active' = (IF running = 1 THEN Started ELSE {}) /\ fallback' = 0
       \/ running = 1 /\ active' = {} /\ fallback' = 1
    /\ UNCHANGED <<frames, post, adding, nullSync, running, machine>>

-----------------------------------------------------------------------------
Advance == \/ \E n \in Chunks : Add(Device, n)
           \/ Add(NullThread, Period)
           \/ \E c \in Consumers : Check(c)

Emulate == (\E n \in Steps : Update(n)) \/ Load \/ Store \/ Wake \/ EndBlock

Control == \/ Restart \/ ResumeExecution \/ PauseExecution \/ GuestBreak
           \/ ChangeSettings \/ Reinit

ClockNext == Advance \/ Emulate \/ Control
ClockSpec == ClockInit /\ [][ClockNext]_clockVars
=============================================================================
