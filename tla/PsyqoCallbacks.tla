--------------------------- MODULE PsyqoCallbacks ---------------------------
(***************************************************************************)
(* The callbacks PSYQo's main thread runs in its idle moments: queued by   *)
(* the main thread and by interrupt handlers in a ring of fixed size that  *)
(* overwrites its oldest entry, called by pumpCallbacks with interrupts    *)
(* enabled.  A callback that waits for something pumps in its turn.        *)
(*                                                                         *)
(* mips/psyqo/src/kernel.cpp; the ring is EASTL's fixed_ring_buffer.       *)
(***************************************************************************)
EXTENDS Integers, Sequences

CONSTANTS
    Capacity,   \* of the ring, 32
    MaxQueued,  \* bound: the callbacks
    MaxDepth    \* bound: the calls of pumpCallbacks that are active; 1: no callback pumps

ASSUME CallbacksAssumption ==
    Capacity \in Nat \ {0} /\ MaxQueued \in Nat /\ MaxDepth \in Nat \ {0}

Slots == 0 .. Capacity      \* the ring has one more than it holds

VARIABLES
    slots,      \* the callback in each slot, 0 if it was never used
    begin,      \* mBegin
    end,        \* mEnd
    size,       \* mSize
    flag,       \* s_flag
    pumps,      \* the active calls of pumpCallbacks: how many callbacks each is still to run,
                \* the slot of the one at the front, and whether that one was called
    queued,     \* history: how many callbacks were queued; they are numbered
    called,     \* history: those that were called, in order
    overrun     \* history: 1 once the ring was full

ring == <<slots, begin, end, size>>
vars == <<ring, flag, pumps, queued, called, overrun>>

Init ==
    /\ slots = [i \in Slots |-> 0] /\ begin = 0 /\ end = 0 /\ size = 0
    /\ flag = 0 /\ pumps = << >>
    /\ queued = 0 /\ called = << >> /\ overrun = 0

Following(i) == IF i = Capacity THEN 0 ELSE i + 1

Top == pumps[Len(pumps)]
Outer == SubSeq(pumps, 1, Len(pumps) - 1)

(* The code of the program runs: not in the loop of pumpCallbacks, but in  *)
(* a callback it calls, or outside.                                        *)
InProgram == pumps # << >> => Top.entered = 1

-----------------------------------------------------------------------------
push_back(callback) ==
    /\ slots' = [slots EXCEPT ![end] = callback]
    /\ end' = Following(end)
    /\ LET full == end' = begin
       IN  /\ begin' = IF full THEN Following(begin) ELSE begin
           /\ size' = IF full THEN size ELSE size + 1
           /\ overrun' = IF full THEN 1 ELSE overrun

(* mutant: the flag is not raised *)
Raise_Mutant == UNCHANGED flag
Raise == flag' = 1

Queue ==
    /\ queued < MaxQueued
    /\ queued' = queued + 1
    /\ push_back(queued') /\ Raise
    /\ UNCHANGED <<pumps, called>>

queueCallback == InProgram /\ Queue

(* An interrupt comes whenever pumpCallbacks is not in a critical section. *)
queueCallbackFromISR == Queue

-----------------------------------------------------------------------------
(* mutant: the last one that was queued is called *)
Front_Mutant(left, slot) ==
    [left |-> left, slot |-> IF end = 0 THEN Capacity ELSE end - 1, entered |-> 0]
Front(left, slot) == [left |-> left, slot |-> slot, entered |-> 0]

Waiting == size

(* pumpCallbacks, up to the first callback: the flag is read outside the   *)
(* critical section, but nobody else clears it.                            *)
pumpCallbacks ==
    /\ InProgram /\ Len(pumps) < MaxDepth /\ flag = 1
    /\ flag' = 0
    /\ pumps' = IF Waiting > 0 THEN Append(pumps, Front(Waiting, begin)) ELSE pumps
    /\ UNCHANGED <<ring, queued, called, overrun>>

(* The callback is called where it is, in the ring.                        *)
Enter ==
    /\ pumps # << >> /\ Top.entered = 0
    /\ pumps' = Append(Outer, [Top EXCEPT !.entered = 1])
    /\ called' = Append(called, slots[Top.slot])
    /\ UNCHANGED <<ring, flag, queued, overrun>>

(* It returns: pop_front, then the next one.                               *)
Leave ==
    /\ pumps # << >> /\ Top.entered = 1
    /\ begin' = Following(begin) /\ size' = size - 1
    /\ pumps' = IF Top.left > 1 THEN Append(Outer, Front(Top.left - 1, begin')) ELSE Outer
    /\ UNCHANGED <<slots, end, flag, queued, called, overrun>>

-----------------------------------------------------------------------------
Next == queueCallback \/ queueCallbackFromISR \/ pumpCallbacks \/ Enter \/ Leave

(* The main loop pumps again and again, and every callback returns.        *)
MainThread == pumpCallbacks \/ Enter \/ Leave
Fairness == WF_vars(MainThread)

Spec == Init /\ [][Next]_vars
FairSpec == Spec /\ Fairness

-----------------------------------------------------------------------------
(* The callbacks are called in the order they were queued, each of them    *)
(* once, as long as the ring was never full (kernel.hh:296).               *)
CalledInOrder == overrun = 0 => \A k \in DOMAIN called : called[k] = k

(* pop_front never finds the ring empty, not even when interrupts overran  *)
(* it while a callback was running (kernel.cpp:420).                       *)
NeverPopsEmpty == pumps # << >> => size >= Top.left /\ size <= Capacity

(* A callback that waits is never forgotten: unless pumpCallbacks is about *)
(* to call it, the flag is raised (kernel.cpp:409).                        *)
NoneForgotten == flag = 0 => size = IF pumps = << >> THEN 0 ELSE Top.left

(* Callbacks do not wait forever: when the program queues no more, all of  *)
(* them have been called in the end, unless the ring was full.             *)
AllCalled == Len(called) < queued ~> Len(called) = queued \/ overrun = 1
=============================================================================
