---------------------------- MODULE MCPsyqoMain ----------------------------
(***************************************************************************)
(* What PSYQo's main thread runs besides the program: the callbacks queued *)
(* in the kernel, the timers and the task queues.  They share no variable, *)
(* so that a behaviour exercises one of them and leaves the others in      *)
(* their initial states: the states add up instead of multiplying.         *)
(***************************************************************************)
EXTENDS PsyqoCallbacks

CONSTANTS
    Timers, Delays, CounterRange, Half,     \* of PsyqoTimers
    Length, MaxRuns, Habits                 \* of TaskQueue

VARIABLES
    part,       \* the part that is exercised
    timers, deadline, period, paused, remaining, currentTime, lastHSync, gpuPumps,
    elapsed, unseen, left, fired,
    given, set, index, running, parent, calls, waiting, fresh, runs, owed, cascade

Timing == INSTANCE PsyqoTimers WITH pumps <- gpuPumps
Tasks == INSTANCE TaskQueue

ASSUME MainAssumption ==
    Timing!TimersAssumption /\ Tasks!TaskAssumption

timing == <<timers, deadline, period, paused, remaining, currentTime, lastHSync, gpuPumps,
            elapsed, unseen, left, fired>>
tasks == <<given, set, index, running, parent, calls, waiting, fresh, runs, owed, cascade>>
all == <<part, vars, timing, tasks>>

MainInit ==
    /\ part \in {"callbacks", "timers", "tasks"}
    /\ Init /\ Timing!Init /\ Tasks!Init
    /\ part # "tasks" => given = [q \in Tasks!Queues |-> {}]

MainNext ==
    \/ part = "callbacks" /\ Next /\ UNCHANGED <<part, timing, tasks>>
    \/ part = "timers" /\ Timing!Next /\ UNCHANGED <<part, vars, tasks>>
    \/ part = "tasks" /\ Tasks!Next /\ UNCHANGED <<part, vars, timing>>

MainSpec ==
    /\ MainInit /\ [][MainNext]_all
    /\ WF_vars(part = "callbacks" /\ MainThread)
    /\ WF_timing(part = "timers" /\ Timing!MainThread)
    /\ WF_tasks(part = "tasks" /\ Tasks!MainThread)
    /\ \A q \in Tasks!Queues : WF_tasks(part = "tasks" /\ Tasks!complete(q))

-----------------------------------------------------------------------------
(* The ring is never popped empty, and no callback in it is forgotten.      *)
RingSound == NeverPopsEmpty /\ NoneForgotten

(* The clock tells the blanks there were, no timer is called before it is  *)
(* due, and a single one is called once (gpu.hh:428).                      *)
TimersSound == [](Timing!ClockTrue /\ Timing!SingleFiresOnce) /\ Timing!NotEarly

(* A queue that runs has someone who goes on with it, every run calls each *)
(* of its handlers once, and a rejection of an embedded queue rejects the  *)
(* one that embeds it.                                                     *)
QueuesSound == Tasks!TypeOK /\ Tasks!GoesOn /\ Tasks!HandlersOnce /\ Tasks!Cascades

(* What was begun is done: callbacks are called, timers that are due fire, *)
(* and queues come to their end.                                           *)
AllDone == AllCalled /\ Timing!DueFires /\ Tasks!RunEnds
=============================================================================
