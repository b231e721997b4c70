----------------------------- MODULE PsyqoTimers -----------------------------
(***************************************************************************)
(* PSYQo's clock and timers: pumpCallbacks reads root counter 1, which     *)
(* counts horizontal blanks, moves the clock on and calls the timers that  *)
(* are due.  Both the counter and the clock wrap around.  The callbacks,   *)
(* those of the timers and those queued in the kernel, are code of the     *)
(* program: they arm, change, pause, resume and cancel timers, and they    *)
(* may pump in their turn.                                                 *)
(*                                                                         *)
(* mips/psyqo/src/gpu.cpp and gpu.hh.  The unit of time is the horizontal  *)
(* blank, which the code takes for 64 microseconds.  Time goes on without  *)
(* a bound: the histories are relative to the last time the counter was    *)
(* read.  A field that is set before it is read again is 0.                *)
(***************************************************************************)
EXTENDS Integers, Sequences

CONSTANTS
    Timers,         \* the entries of m_timers
    Delays,         \* the delays and periods the program asks for
    CounterRange,   \* of the root counter, 2^16
    Half,           \* of the range of the clock, 2^31 microseconds
    MaxDepth        \* bound: the calls of pumpCallbacks that are active; 1: no callback pumps

(* The documentation asks for delays of less than half the clock's range.  *)
TimersAssumption ==
    /\ CounterRange \in Nat \ {0} /\ Half \in Nat \ {0} /\ (2 * Half) % CounterRange = 0
    /\ Delays \subseteq 1 .. (Half - 1)
    /\ MaxDepth \in Nat \ {0}

VARIABLES
    timers,         \* m_timers
    deadline,       \* of each timer, on the clock
    period,         \* of each timer, 0 if it is not periodic
    paused,         \* the timers that are paused
    remaining,      \* pausedRemaining of each timer
    currentTime,    \* m_currentTime
    lastHSync,      \* m_lastHSyncCounter
    pumps,          \* the active calls of pumpCallbacks, the innermost last
    elapsed,        \* the blanks there were, as the clock should tell them
    unseen,         \* history: the blanks since the counter was last read
    left,           \* history: the blanks from then until each timer is due
    fired           \* history: how often each single timer was called since it was armed

settings == <<deadline, period, paused, remaining>>
clock == <<currentTime, lastHSync>>
vars == <<timers, settings, clock, pumps, elapsed, unseen, left, fired>>

Zero == [t \in Timers |-> 0]

Init ==
    /\ timers = << >> /\ deadline = Zero /\ period = Zero /\ paused = {} /\ remaining = Zero
    /\ currentTime = 0 /\ lastHSync = 0 /\ pumps = << >>
    /\ elapsed = 0 /\ unseen = 0 /\ left = Zero /\ fired = Zero

OnClock(time) == time % (2 * Half)

Armed == {timers[i] : i \in DOMAIN timers}
Place(t) == CHOOSE i \in DOMAIN timers : timers[i] = t

Top == pumps[Len(pumps)]
Outer == SubSeq(pumps, 1, Len(pumps) - 1)
Goes(phase, at) == pumps' = Append(Outer, [Top EXCEPT !.phase = phase, !.at = at])

(* The code of the program runs: a callback, or no pumpCallbacks at all.   *)
InProgram == pumps # << >> => Top.phase \in {"timer", "queued"}
Calling == {pumps[k].at : k \in {k \in DOMAIN pumps : pumps[k].phase = "timer"}}

-----------------------------------------------------------------------------
(* Every deadline is within half the clock's range.                        *)
InReach(blanksLeft, since) == blanksLeft < Half /\ blanksLeft - since > -Half

(* A blank.  The program pumps at least once in every round of the counter *)
(* and before a timer is half the clock's range late.                      *)
Blank ==
    /\ elapsed' = OnClock(elapsed + 1) /\ unseen' = unseen + 1
    /\ unseen' < CounterRange
    /\ \A t \in Armed \ paused : InReach(left[t], unseen')
    /\ UNCHANGED <<timers, settings, clock, pumps, left, fired>>

-----------------------------------------------------------------------------
(* What the program does with timers. *)

Arm(t, delay, interval) ==
    /\ timers' = Append(timers, t)
    /\ deadline' = [deadline EXCEPT ![t] = OnClock(currentTime + delay)]
    /\ left' = [left EXCEPT ![t] = delay]
    /\ period' = [period EXCEPT ![t] = interval]
    /\ UNCHANGED <<paused, remaining, fired>>

armTimer(t, delay) == Arm(t, delay, 0)
armPeriodicTimer(t, interval) == Arm(t, interval, interval)

(* What a paused timer has left stays what it was.  As with a delay, the   *)
(* program keeps the deadline within half the clock's range.               *)
changeTimerPeriod(t, new, reset) ==
    /\ period[t] \notin {0, new}
    /\ period' = [period EXCEPT ![t] = new]
    /\ LET From(now, old) == (IF reset THEN now ELSE old - period[t]) + new
       IN  IF t \in paused THEN UNCHANGED <<deadline, left>>
           ELSE /\ deadline' = [deadline EXCEPT ![t] = OnClock(From(currentTime, @))]
                /\ left' = [left EXCEPT ![t] = From(0, @)]
                /\ InReach(left'[t], unseen)
    /\ UNCHANGED <<timers, paused, remaining, fired>>

pauseTimer(t) ==
    /\ t \notin paused /\ paused' = paused \cup {t}
    /\ remaining' = [remaining EXCEPT ![t] = OnClock(deadline[t] - currentTime)]
    /\ deadline' = [deadline EXCEPT ![t] = 0]
    /\ UNCHANGED <<timers, period, left, fired>>

(* mutant: the clock has not moved *)
ResumedDeadline_Mutant(t) == remaining[t]
ResumedDeadline(t) == OnClock(currentTime + remaining[t])

resumeTimer(t) ==
    /\ t \in paused /\ InReach(left[t], unseen)
    /\ paused' = paused \ {t}
    /\ deadline' = [deadline EXCEPT ![t] = ResumedDeadline(t)]
    /\ remaining' = [remaining EXCEPT ![t] = 0]
    /\ UNCHANGED <<timers, period, left, fired>>

(* A timer leaves m_timers, and its entry is free.                         *)
Erase(t) ==
    /\ timers' = SubSeq(timers, 1, Place(t) - 1) \o SubSeq(timers, Place(t) + 1, Len(timers))
    /\ deadline' = [deadline EXCEPT ![t] = 0] /\ period' = [period EXCEPT ![t] = 0]
    /\ paused' = paused \ {t} /\ remaining' = [remaining EXCEPT ![t] = 0]
    /\ left' = [left EXCEPT ![t] = 0] /\ fired' = [fired EXCEPT ![t] = 0]

(* A timer that its own callback cancels is erased under the loop that     *)
(* called it and goes on from it: the program must not.                    *)
cancelTimer(t) == t \notin Calling /\ Erase(t)

Program ==
    /\ InProgram
    /\ \/ \E t \in Timers \ Armed, d \in Delays : armTimer(t, d) \/ armPeriodicTimer(t, d)
       \/ \E t \in Armed :
             \/ \E d \in Delays, reset \in BOOLEAN : changeTimerPeriod(t, d, reset)
             \/ pauseTimer(t) \/ resumeTimer(t) \/ cancelTimer(t)
    /\ UNCHANGED <<clock, pumps, elapsed, unseen>>

-----------------------------------------------------------------------------
Since(value) == (IF value < lastHSync THEN value + CounterRange ELSE value) - lastHSync

pumpCallbacks ==
    /\ InProgram /\ Len(pumps) < MaxDepth
    /\ LET value == elapsed % CounterRange     \* COUNTERS[1].value
       IN  /\ currentTime' = OnClock(currentTime + Since(value))
           /\ pumps' = Append(pumps, [phase |-> "scan", at |-> 0,
                                      value |-> value, time |-> currentTime'])
    /\ unseen' = 0
    /\ left' = [t \in Timers |-> left[t] - (IF t \in Armed \ paused THEN unseen ELSE 0)]
    /\ UNCHANGED <<timers, settings, lastHSync, elapsed, fired>>

(* mutant: the unsigned difference has no sign *)
IsDue_Mutant(t, time) == OnClock(deadline[t] - time) = 0
(* The difference is not positive, as a signed number.                     *)
IsDue(t, time) == LET difference == OnClock(deadline[t] - time)
                  IN  difference = 0 \/ difference >= Half

(* The timers the loop is still to come to that are to be called.          *)
Rest == {i \in DOMAIN timers : /\ Top.at # 0 => i > Place(Top.at)
                               /\ timers[i] \notin paused /\ IsDue(timers[i], Top.time)}

(* The loop goes on to the next of them.                                   *)
CallTimer ==
    /\ pumps # << >> /\ Top.phase = "scan"
    /\ \E i \in Rest :
        LET t == timers[i]
        IN  /\ \A j \in Rest : i <= j
            /\ Goes("timer", t)
            /\ deadline' = [deadline EXCEPT ![t] = OnClock(@ + period[t])]
            /\ left' = [left EXCEPT ![t] = @ + period[t]]
            /\ fired' = [fired EXCEPT ![t] = IF period[t] = 0 THEN @ + 1 ELSE @]
    /\ UNCHANGED <<timers, period, paused, remaining, clock, elapsed, unseen>>

(* No timer is left: the callbacks queued in the kernel are called.        *)
CallQueued ==
    /\ pumps # << >> /\ Top.phase = "scan" /\ Rest = {}
    /\ Goes("queued", 0)
    /\ UNCHANGED <<timers, settings, clock, elapsed, unseen, left, fired>>

SingleEnds(t) == Erase(t)

(* A timer's callback returns: the loop goes on, or, when the timer was a  *)
(* single one, erases it and begins again.                                 *)
TimerReturns ==
    /\ pumps # << >> /\ Top.phase = "timer" /\ Top.at \in Armed
    /\ \/ /\ period[Top.at] # 0 /\ Goes("scan", Top.at)
          /\ UNCHANGED <<timers, settings, left, fired>>
       \/ period[Top.at] = 0 /\ Goes("scan", 0) /\ SingleEnds(Top.at)
    /\ UNCHANGED <<clock, elapsed, unseen>>

PumpReturns ==
    /\ pumps # << >> /\ Top.phase = "queued"
    /\ lastHSync' = Top.value /\ pumps' = Outer
    /\ UNCHANGED <<timers, settings, currentTime, elapsed, unseen, left, fired>>

-----------------------------------------------------------------------------
Next ==
    Blank \/ Program \/ pumpCallbacks \/ CallTimer \/ CallQueued \/ TimerReturns \/ PumpReturns

(* The program's main loop pumps, and its callbacks return.                *)
MainThread == pumpCallbacks \/ CallTimer \/ CallQueued \/ TimerReturns \/ PumpReturns
Fairness == WF_vars(MainThread)

Spec == Init /\ [][Next]_vars
FairSpec == Spec /\ Fairness

-----------------------------------------------------------------------------
(* The clock tells the blanks there were when the counter was last read,   *)
(* although counter and clock wrap around (gpu.cpp:558).                   *)
ClockTrue == currentTime = OnClock(elapsed - unseen)

(* No timer is called before it is due, through every change of its        *)
(* period, pause and resumption (gpu.hh:421: after its deadline).          *)
NotEarly ==
    [][\A t \in Timers : (CallTimer /\ pumps'[Len(pumps')].at = t) => left[t] <= 0]_vars

(* A timer that is due is called, unless the program cancels, pauses or    *)
(* changes it.                                                             *)
IsOverdue(t) == t \in Armed \ paused /\ left[t] <= 0
DueFires == \A t \in Timers : IsOverdue(t) ~> (~IsOverdue(t) \/ t \in Calling)

(* A single timer is called once (gpu.hh:428: disabled upon being fired).  *)
SingleFiresOnce == \A t \in Timers : fired[t] <= 1
=============================================================================
