------------------------------ MODULE TaskQueue ------------------------------
(***************************************************************************)
(* PSYQo's TaskQueue: tasks that run one after the other, each until it is *)
(* resolved or rejected, a handler for a rejection and one for the end.  A *)
(* queue may be embedded in another one as one of its tasks.               *)
(*                                                                         *)
(* mips/psyqo/task.hh and mips/psyqo/src/task.cpp.  All of it runs on the  *)
(* main thread, as calls that call each other; what is left to be done is  *)
(* kept in a stack.  A task completes once, at once or from a callback.    *)
(***************************************************************************)
EXTENDS Integers, Sequences

CONSTANTS
    Length,     \* the tasks of a queue
    MaxRuns,    \* bound: the runs of a queue
    Habits      \* what the program does against the advice of this module

TaskAssumption ==
    /\ Length \in Nat /\ MaxRuns \in Nat
    /\ Habits \subseteq {"rerun", "restart"}

Queues == {"outer", "inner"}
Handlers == {"catch", "finally"}

VARIABLES
    given,      \* the handlers the program builds each queue with
    set,        \* those that are set: m_catch, m_finally
    index,      \* m_index
    running,    \* the queues that run: m_running
    parent,     \* 1: m_parent of the inner queue is set
    calls,      \* what is left to be done, the innermost call first
    waiting,    \* the queues whose task completes from a callback
    fresh,      \* history: the queues built since their last run
    runs,       \* history: the runs of each queue
    owed,       \* history: handlers that a run is to call, less those that were called
    cascade     \* history: an embedded run was rejected since the outer queue was run

state == <<set, index, running, parent>>
history == <<fresh, runs, owed, cascade>>
vars == <<given, state, calls, waiting, history>>

Init ==
    /\ given \in [Queues -> SUBSET Handlers] /\ set = [q \in Queues |-> {}]
    /\ index = [q \in Queues |-> 0] /\ running = {} /\ parent = 0
    /\ calls = << >> /\ waiting = {}
    /\ fresh = {} /\ runs = [q \in Queues |-> 0] /\ cascade = 0
    /\ owed = [q \in Queues |-> [h \in Handlers |-> 0]]

Call(what, q) == <<[what |-> what, queue |-> q]>>
Idle == calls = << >>
Now(what, q) == ~Idle /\ Head(calls) = [what |-> what, queue |-> q]

(* The innermost call returns, after what it calls last.                   *)
Then(last) == calls' = last \o Tail(calls)

-----------------------------------------------------------------------------
(* What the program does with a queue that does not run. *)

(* A queue is run again as it is, but not when a rejection left it without *)
(* one of its handlers: "rerun" is to do so all the same.                  *)
MayRun(q) ==
    /\ q \notin running /\ runs[q] < MaxRuns
    /\ q \in fresh \/ (runs[q] > 0 /\ (set[q] = given[q] \/ "rerun" \in Habits))

(* A handler may build its queue and run it again, but not if another      *)
(* queue waits for this one: "restart" is to do so all the same.           *)
MayRestart(q) ==
    /\ q \notin running /\ runs[q] < MaxRuns
    /\ parent = 0 \/ q = "outer" \/ "restart" \in Habits

(* reset, then, butCatch and finally: startWith begins with a reset.       *)
Build(q) ==
    /\ Idle /\ q \notin running \cup fresh
    /\ set' = [set EXCEPT ![q] = given[q]] /\ fresh' = fresh \cup {q}
    /\ UNCHANGED <<given, index, running, parent, calls, waiting, runs, owed, cascade>>

(* run, and the body of the task that schedule makes.                      *)
Start(q, from) ==
    /\ parent' = IF q = "inner" THEN from ELSE parent
    /\ index' = [index EXCEPT ![q] = 0] /\ running' = running \cup {q}
    /\ fresh' = fresh \ {q} /\ runs' = [runs EXCEPT ![q] = @ + 1]
    /\ cascade' = IF q = "outer" THEN 0 ELSE cascade
    /\ UNCHANGED <<given, waiting>>

run(q) ==
    /\ Idle /\ MayRun(q)
    /\ Start(q, 0) /\ calls' = Call("next", q)
    /\ UNCHANGED <<set, owed>>

-----------------------------------------------------------------------------
(* The calls. *)

Ends(q, handlers) ==
    /\ running' = running \ {q}
    /\ owed' = [owed EXCEPT ![q] =
                   [h \in Handlers |-> @[h] + IF h \in handlers \cap given[q] THEN 1 ELSE 0]]
    /\ UNCHANGED <<given, index, parent, waiting, fresh, runs, cascade>>

(* mutant: the index is not moved on *)
Advance_Mutant(q) == UNCHANGED index
Advance(q) == index' = [index EXCEPT ![q] = @ + 1]

AtEnd(q) == index[q] >= Length

runNext(q) ==
    /\ Now("next", q)
    /\ \/ /\ AtEnd(q)
          /\ Ends(q, {"finally"}) /\ Then(Call("finally", q) \o Call("resolved", q))
          /\ UNCHANGED set
       \/ /\ ~AtEnd(q)
          /\ Advance(q) /\ Then(Call("task", q))
          /\ UNCHANGED <<given, set, running, parent, waiting, history>>

Scheduled == Start("inner", 1)

(* A task completes at once, or from a callback that comes later, or it is *)
(* the inner queue.                                                        *)
Task(q) ==
    /\ Now("task", q)
    /\ \/ /\ \E what \in {"next", "fail"} : Then(Call(what, q))
          /\ UNCHANGED <<given, state, waiting, history>>
       \/ /\ waiting' = waiting \cup {q} /\ Then(<< >>)
          /\ UNCHANGED <<given, state, history>>
       \/ /\ q = "outer" /\ MayRun("inner")
          /\ Scheduled /\ Then(Call("next", "inner"))
          /\ UNCHANGED <<set, owed>>

complete(q) ==
    /\ Idle /\ q \in waiting
    /\ waiting' = waiting \ {q}
    /\ \E what \in {"next", "fail"} : calls' = Call(what, q)
    /\ UNCHANGED <<given, state, history>>

(* mutant: finally is moved out and forgotten *)
LastHandler_Mutant(q) == IF set[q] = Handlers THEN << >> ELSE Call("finally", q)
(* finally is moved out before catch is called, which may build the queue  *)
(* anew; when one of them is missing the test comes afterwards.            *)
LastHandler(q) == Call(IF set[q] = Handlers THEN "moved" ELSE "finally", q)

runCatch(q) ==
    /\ Now("fail", q)
    /\ Ends(q, Handlers)
    /\ set' = [set EXCEPT ![q] = IF @ = Handlers THEN {"catch"} ELSE @]
    /\ Then(Call("catch", q) \o LastHandler(q) \o Call("rejected", q))

(* A handler is called if it is set; it may begin the next run.            *)
Handler(h, q) ==
    \/ /\ Now(h, q) /\ h \notin set[q]
       /\ Then(<< >>) /\ UNCHANGED <<given, state, waiting, history>>
    \/ /\ (Now(h, q) /\ h \in set[q]) \/ (h = "finally" /\ Now("moved", q))
       /\ owed' = [owed EXCEPT ![q][h] = @ - 1]
       /\ \/ Then(<< >>) /\ UNCHANGED <<given, state, waiting, fresh, runs, cascade>>
          \/ /\ MayRestart(q)
             /\ set' = [set EXCEPT ![q] = given[q]]
             /\ Start(q, 0) /\ Then(Call("next", q))

Outcome(q) == IF Now("resolved", q) THEN "next" ELSE "fail"

(* The parent is looked at after the handlers.                             *)
TellParent(q) ==
    /\ Now("resolved", q) \/ Now("rejected", q)
    /\ LET tells == q = "inner" /\ parent = 1
       IN  /\ Then(IF tells THEN Call(Outcome(q), "outer") ELSE << >>)
           /\ cascade' = IF tells /\ Now("rejected", q) THEN 1 ELSE cascade
    /\ UNCHANGED <<given, state, waiting, fresh, runs, owed>>

-----------------------------------------------------------------------------
Works(q) ==
    \/ runNext(q) \/ Task(q) \/ runCatch(q) \/ (\E h \in Handlers : Handler(h, q)) \/ TellParent(q)

Next == \E q \in Queues : Build(q) \/ run(q) \/ Works(q) \/ complete(q)

(* The main thread goes on with its calls, and the callbacks come.         *)
MainThread == \E q \in Queues : Works(q)
Fairness ==
    /\ WF_vars(MainThread)
    /\ \A q \in Queues : WF_vars(complete(q))

Spec == Init /\ [][Next]_vars
FairSpec == Spec /\ Fairness

-----------------------------------------------------------------------------
Calls == [what : {"next", "task", "fail", "moved", "resolved", "rejected"} \cup Handlers,
          queue : Queues]

TypeOK ==
    /\ given \in [Queues -> SUBSET Handlers] /\ set \in [Queues -> SUBSET Handlers]
    /\ index \in [Queues -> 0 .. Length] /\ running \subseteq Queues /\ parent \in {0, 1}
    /\ calls \in Seq(Calls) /\ waiting \subseteq Queues
    /\ fresh \subseteq Queues /\ runs \in [Queues -> Nat] /\ cascade \in {0, 1}
    /\ owed \in [Queues -> [Handlers -> Int]]

(* Whenever the main thread is done with its calls, a queue that runs has  *)
(* someone who goes on with it: a task of its own that waits, or else the  *)
(* queue embedded in it (task.hh:121).                                     *)
GoesOn ==
    Idle => \A q \in running :
        (q \in waiting) # (q = "outer" /\ "inner" \in running /\ parent = 1)

(* Every run that ends calls finally once, every run that is rejected      *)
(* calls catch once, if the program gave the queue these handlers,         *)
(* whatever the handlers do with the queue (task.hh:84 and 96).            *)
HandlersOnce == Idle => \A q \in Queues : \A h \in Handlers : owed[q][h] = 0

(* A rejection of an embedded queue rejects the queue that embeds it       *)
(* (task.hh:121: exceptions will be cascading).                            *)
Cascades == Idle /\ cascade = 1 => "outer" \notin running

(* A queue that runs comes to its end, if its tasks complete.              *)
RunEnds == \A q \in Queues : q \in running ~> q \notin running
=============================================================================
