-------------------------- MODULE PsyqoMain_proof --------------------------
(***************************************************************************)
(* Theorems about what PSYQo's main thread runs: the ring of callbacks, of *)
(* any capacity and for any number of callbacks, as long as no callback    *)
(* pumps, and the task queues, of any length and for any number of runs,   *)
(* as long as the program keeps to what it may do with them; and the       *)
(* timers, of any number and for counters and clocks of any range, as long *)
(* as no callback pumps.                                                   *)
(***************************************************************************)
EXTENDS MCPsyqoMain, FiniteSetTheorems, TLAPS

-----------------------------------------------------------------------------
(* The slot k places after slot i. *)
At(i, k) == IF i + k <= Capacity THEN i + k ELSE i + k - (Capacity + 1)

Pumping == pumps # << >>
Inside == Pumping /\ Top.entered = 1

Pump == [left : 1 .. Capacity, slot : Slots, entered : {0, 1}]

RingTypeOK ==
    /\ slots \in [Slots -> Nat] /\ begin \in Slots /\ end \in Slots /\ size \in 0 .. Capacity
    /\ flag \in {0, 1} /\ overrun \in {0, 1}
    /\ queued \in Nat /\ called \in Seq(Nat)
    /\ pumps = << >> \/ \E p \in Pump : pumps = <<p>>

(* The end of the ring is where its size says. *)
EndInv == end = At(begin, size)

(* Whatever overruns the ring while a callback is running leaves enough of *)
(* it to pop.                                                              *)
LeftInv == Pumping => Top.left <= size

(* As long as nothing was overwritten, the ring holds the last callbacks   *)
(* that were queued, those before them were called, and the one that is at *)
(* the front was called if pumpCallbacks is inside it.                     *)
OrderInv ==
    overrun = 0 =>
        /\ Pumping => Top.slot = begin
        /\ \A k \in 0 .. Capacity - 1 : k < size => slots[At(begin, k)] = queued - size + 1 + k
        /\ Len(called) = queued - size + (IF Inside THEN 1 ELSE 0)
        /\ \A k \in 1 .. Len(called) : called[k] = k

RingInv == RingTypeOK /\ EndInv /\ LeftInv /\ NoneForgotten /\ OrderInv

LEMMA AtFacts ==
    ASSUME NEW i \in Slots
    PROVE  /\ At(i, 0) = i /\ Following(i) = At(i, 1) /\ Following(i) \in Slots
           /\ \A k \in 0 .. Capacity : At(i, k) \in Slots
           /\ \A k \in 0 .. Capacity - 1 : Following(At(i, k)) = At(i, k + 1)
                                           /\ At(Following(i), k) = At(i, k + 1)
           /\ \A k, l \in 0 .. Capacity : At(i, k) = At(i, l) => k = l
           /\ At(Following(i), Capacity) = i
  BY CallbacksAssumption DEF At, Following, Slots

LEMMA RingInit == Init => RingInv
  BY CallbacksAssumption
     DEF Init, RingInv, RingTypeOK, EndInv, LeftInv, NoneForgotten, OrderInv, Pumping, Inside, At, Slots

(* What is left of a pump when it has at most one level. *)
LEMMA PumpFacts ==
    ASSUME RingTypeOK, Pumping
    PROVE  /\ Top \in Pump /\ pumps = <<Top>> /\ Outer = << >>
           /\ \A p : Append(Outer, p) = <<p>>
<1>1. PICK p \in Pump : pumps = <<p>>
  BY DEF RingTypeOK, Pumping
<1>2. Top = p /\ Outer = << >>
  BY <1>1 DEF Top, Outer
<1> QED
  BY <1>1, <1>2

(* A callback is queued, by the main thread or by an interrupt. *)
LEMMA QueueStep ==
    ASSUME RingInv, Queue
    PROVE  RingInv'
<1> USE CallbacksAssumption
<1>0. RingTypeOK /\ EndInv /\ LeftInv /\ NoneForgotten /\ OrderInv
  BY DEF RingInv
<1>1. /\ queued' = queued + 1 /\ flag' = 1 /\ pumps' = pumps /\ called' = called
      /\ slots' = [slots EXCEPT ![end] = queued + 1] /\ end' = Following(end)
  BY DEF Queue, push_back, Raise
<1>2. begin \in Slots /\ size \in 0 .. Capacity /\ end = At(begin, size) /\ end \in Slots
  BY <1>0 DEF RingTypeOK, EndInv
<1>3. end' = begin <=> size = Capacity
  <2>1. CASE size = Capacity
    BY <1>1, <1>2, <2>1 DEF At, Following, Slots
  <2>2. CASE size < Capacity
    BY <1>1, <1>2, <2>2 DEF At, Following, Slots
  <2> QED
    BY <1>2, <2>1, <2>2
<1>4. CASE size = Capacity
  <2>1. begin' = Following(begin) /\ size' = size /\ overrun' = 1
    BY <1>1, <1>3, <1>4 DEF Queue, push_back
  <2>2. RingTypeOK'
    BY <1>0, <1>1, <1>2, <2>1, AtFacts DEF RingTypeOK
  <2>3. EndInv'
    BY <1>1, <1>2, <1>3, <1>4, <2>1 DEF EndInv, At, Following, Slots
  <2>4. LeftInv' /\ NoneForgotten' /\ OrderInv'
    BY <1>0, <1>1, <2>1 DEF LeftInv, NoneForgotten, OrderInv, Pumping, Top
  <2> QED
    BY <2>2, <2>3, <2>4 DEF RingInv
<1>5. CASE size < Capacity
  <2>1. begin' = begin /\ size' = size + 1 /\ overrun' = overrun
    BY <1>1, <1>3, <1>5 DEF Queue, push_back
  <2>2. RingTypeOK'
    BY <1>0, <1>1, <1>2, <1>5, <2>1, AtFacts DEF RingTypeOK
  <2>3. EndInv'
    BY <1>1, <1>2, <1>5, <2>1 DEF EndInv, At, Following, Slots
  <2>4. LeftInv'
    <3>1. Pumping => Top.left \in Nat
      BY <1>0, PumpFacts DEF Pump
    <3> QED
      BY <1>0, <1>1, <1>2, <2>1, <3>1 DEF LeftInv, Pumping, Top
  <2>5. NoneForgotten'
    BY <1>1 DEF NoneForgotten
  <2>6. OrderInv'
    <3> SUFFICES ASSUME overrun = 0 PROVE OrderInv'
      BY <2>1 DEF OrderInv
    <3>1. \A k \in 0 .. Capacity - 1 :
             k < size' => slots'[At(begin', k)] = queued' - size' + 1 + k
      <4> SUFFICES ASSUME NEW k \in 0 .. Capacity - 1, k < size + 1
                   PROVE  slots'[At(begin, k)] = queued - size + 1 + k
        BY <1>0, <1>1, <1>2, <2>1 DEF RingTypeOK
      <4>1. At(begin, k) \in Slots
        BY <1>2 DEF At, Slots
      <4>2. CASE k = size
        BY <1>0, <1>1, <1>2, <4>1, <4>2 DEF RingTypeOK
      <4>3. CASE k < size
        <5>1. At(begin, k) # end
          BY <1>2, <4>3 DEF At, Slots
        <5>2. slots[At(begin, k)] = queued - size + 1 + k
          BY <1>0, <4>3 DEF OrderInv
        <5> QED
          BY <1>0, <1>1, <4>1, <5>1, <5>2 DEF RingTypeOK
      <4> QED
        BY <1>2, <4>2, <4>3
    <3>2. (Pumping => Top.slot = begin)' /\ (Inside <=> Inside')
      BY <1>0, <1>1, <2>1 DEF OrderInv, Pumping, Inside, Top
    <3>3. Len(called') = queued' - size' + (IF Inside' THEN 1 ELSE 0)
      BY <1>0, <1>1, <1>2, <2>1, <3>2 DEF OrderInv, RingTypeOK
    <3>4. \A k \in 1 .. Len(called') : called'[k] = k
      BY <1>0, <1>1 DEF OrderInv
    <3> QED
      BY <3>1, <3>2, <3>3, <3>4 DEF OrderInv
  <2> QED
    BY <2>2, <2>3, <2>4, <2>5, <2>6 DEF RingInv
<1> QED
  BY <1>2, <1>4, <1>5

(* pumpCallbacks begins. *)
LEMMA PumpStep ==
    ASSUME RingInv, pumpCallbacks, MaxDepth = 1
    PROVE  RingInv'
<1> USE CallbacksAssumption
<1>0. RingTypeOK /\ EndInv /\ LeftInv /\ NoneForgotten /\ OrderInv
  BY DEF RingInv
<1>1. ~Pumping
  BY <1>0, PumpFacts DEF pumpCallbacks, Pumping
<1>2. /\ flag' = 0 /\ UNCHANGED <<slots, begin, end, size, queued, called, overrun>>
      /\ pumps' = IF size > 0 THEN <<Front(size, begin)>> ELSE << >>
  BY <1>1 DEF pumpCallbacks, Waiting, ring, Pumping
<1>3. CASE size > 0
  <2>1. Front(size, begin) \in Pump
    BY <1>0, <1>3 DEF RingTypeOK, Front, Pump
  <2>2. pumps' = <<Front(size, begin)>>
    BY <1>2, <1>3
  <2>3. Pumping' /\ Top' = Front(size, begin)
    BY <2>2 DEF Pumping, Top
  <2>4. RingTypeOK' /\ EndInv' /\ LeftInv' /\ NoneForgotten'
    BY <1>0, <1>2, <2>1, <2>2, <2>3 DEF RingTypeOK, EndInv, LeftInv, NoneForgotten, Front, Pumping
  <2>5. OrderInv'
    BY <1>0, <1>1, <1>2, <2>3 DEF OrderInv, Inside, Front
  <2> QED
    BY <2>4, <2>5 DEF RingInv
<1>4. CASE size = 0
  <2>1. pumps' = << >>
    BY <1>2, <1>4
  <2> QED
    BY <1>0, <1>1, <1>2, <1>4, <2>1
       DEF RingInv, RingTypeOK, EndInv, LeftInv, NoneForgotten, OrderInv, Pumping, Inside
<1> QED
  BY <1>0, <1>3, <1>4 DEF RingTypeOK

(* The callback at the front is called. *)
LEMMA EnterStep ==
    ASSUME RingInv, Enter
    PROVE  RingInv'
<1> USE CallbacksAssumption
<1>0. RingTypeOK /\ EndInv /\ LeftInv /\ NoneForgotten /\ OrderInv
  BY DEF RingInv
<1>1. Pumping /\ Top.entered = 0 /\ UNCHANGED <<slots, begin, end, size, flag, queued, overrun>>
  BY DEF Enter, Pumping, ring
<1>2. Top \in Pump
  BY <1>0, <1>1, PumpFacts
<1> DEFINE inside == [Top EXCEPT !.entered = 1]
<1>3. inside \in Pump /\ inside.left = Top.left /\ inside.slot = Top.slot /\ inside.entered = 1
  BY <1>2 DEF Pump
<1>4. pumps' = <<inside>> /\ called' = Append(called, slots[Top.slot])
  BY <1>0, <1>1, PumpFacts DEF Enter
<1>5. Pumping' /\ Top' = inside
  BY <1>4 DEF Pumping, Top
<1>6. slots[Top.slot] \in Nat
  BY <1>0, <1>2 DEF RingTypeOK, Pump
<1>7. RingTypeOK' /\ EndInv' /\ LeftInv' /\ NoneForgotten'
  BY <1>0, <1>1, <1>3, <1>4, <1>5, <1>6
     DEF RingTypeOK, EndInv, LeftInv, NoneForgotten, Pumping
<1>8. ASSUME overrun = 0 PROVE OrderInv'
  <2>1. Top.slot = begin /\ size > 0 /\ begin = At(begin, 0)
    BY <1>0, <1>1, <1>2, <1>8, AtFacts DEF OrderInv, LeftInv, Pump, RingTypeOK
  <2>2. slots[Top.slot] = queued - size + 1
    BY <1>0, <1>8, <2>1 DEF OrderInv, RingTypeOK
  <2>3. Len(called) = queued - size /\ called \in Seq(Nat)
    BY <1>0, <1>1, <1>8 DEF OrderInv, Inside, RingTypeOK
  <2>4. \A k \in 1 .. Len(called') : called'[k] = k
    BY <1>0, <1>4, <1>6, <1>8, <2>2, <2>3 DEF OrderInv
  <2>5. Len(called') = queued' - size' + 1 /\ Inside'
    BY <1>1, <1>3, <1>4, <1>5, <1>6, <2>3 DEF Inside
  <2> QED
    BY <1>0, <1>1, <1>3, <1>5, <1>8, <2>1, <2>4, <2>5 DEF OrderInv
<1> QED
  BY <1>1, <1>7, <1>8 DEF RingInv, OrderInv

(* It returns, and is removed. *)
LEMMA LeaveStep ==
    ASSUME RingInv, Leave
    PROVE  RingInv'
<1> USE CallbacksAssumption
<1>0. RingTypeOK /\ EndInv /\ LeftInv /\ NoneForgotten /\ OrderInv
  BY DEF RingInv
<1>1. /\ Pumping /\ Top.entered = 1 /\ begin' = Following(begin) /\ size' = size - 1
      /\ UNCHANGED <<slots, end, flag, queued, called, overrun>>
  BY DEF Leave, Pumping
<1>2. Top \in Pump
  BY <1>0, <1>1, PumpFacts
<1>3. pumps' = IF Top.left > 1 THEN <<Front(Top.left - 1, begin')>> ELSE << >>
  BY <1>0, <1>1, PumpFacts DEF Leave
<1>4. size \in 1 .. Capacity /\ begin \in Slots /\ begin' \in Slots
  BY <1>0, <1>1, <1>2, AtFacts DEF RingTypeOK, LeftInv, Pump
<1>5. EndInv'
  BY <1>0, <1>1, <1>4 DEF EndInv, At, Following, Slots
<1>6. ASSUME overrun = 0
      PROVE  /\ \A k \in 0 .. Capacity - 1 :
                   k < size' => slots'[At(begin', k)] = queued' - size' + 1 + k
             /\ Len(called') = queued' - size'
             /\ \A k \in 1 .. Len(called') : called'[k] = k
  <2>1. ASSUME NEW k \in 0 .. Capacity - 1, k < size - 1
        PROVE  slots[At(begin', k)] = queued - size + 1 + (k + 1)
    <3>1. At(begin', k) = At(begin, k + 1)
      BY <1>1, <1>4, AtFacts
    <3> QED
      BY <1>0, <1>4, <1>6, <2>1, <3>1 DEF OrderInv
  <2>2. Len(called) = queued - size + 1
    BY <1>0, <1>1, <1>6 DEF OrderInv, Inside
  <2> QED
    BY <1>0, <1>1, <1>4, <1>6, <2>1, <2>2 DEF OrderInv, RingTypeOK
<1>7. CASE Top.left > 1
  <2>1. Front(Top.left - 1, begin') \in Pump
    BY <1>2, <1>4, <1>7 DEF Front, Pump
  <2>2. pumps' = <<Front(Top.left - 1, begin')>>
    BY <1>3, <1>7
  <2>3. Pumping' /\ Top' = Front(Top.left - 1, begin')
    BY <2>2 DEF Pumping, Top
  <2>4. RingTypeOK'
    BY <1>0, <1>1, <1>4, <2>1, <2>2 DEF RingTypeOK
  <2>5. LeftInv' /\ NoneForgotten'
    BY <1>0, <1>1, <1>2, <1>4, <2>2, <2>3
       DEF LeftInv, NoneForgotten, Front, Pumping, Pump
  <2>6. OrderInv'
    BY <1>1, <1>6, <2>3 DEF OrderInv, Inside, Front
  <2> QED
    BY <1>5, <2>4, <2>5, <2>6 DEF RingInv
<1>8. CASE Top.left = 1
  <2>1. pumps' = << >>
    BY <1>3, <1>8
  <2>2. RingTypeOK'
    BY <1>0, <1>1, <1>4, <2>1 DEF RingTypeOK
  <2>3. LeftInv' /\ NoneForgotten'
    BY <1>0, <1>1, <1>4, <1>8, <2>1 DEF LeftInv, NoneForgotten, Pumping
  <2>4. OrderInv'
    BY <1>1, <1>6, <2>1 DEF OrderInv, Inside, Pumping
  <2> QED
    BY <1>5, <2>2, <2>3, <2>4 DEF RingInv
<1> QED
  BY <1>2, <1>7, <1>8 DEF Pump

LEMMA RingStep ==
    ASSUME MaxDepth = 1, RingInv, [Next]_vars
    PROVE  RingInv'
<1>1. CASE UNCHANGED vars
  BY <1>1 DEF vars, ring, RingInv, RingTypeOK, EndInv, LeftInv, NoneForgotten, OrderInv, Pumping, Inside, Top
<1> QED
  BY <1>1, QueueStep, PumpStep, EnterStep, LeaveStep DEF Next, queueCallback, queueCallbackFromISR

-----------------------------------------------------------------------------
(* If no callback pumps, callbacks are called in the order they were       *)
(* queued, each once, until the ring is overrun.                           *)
THEOREM Ordered == MaxDepth = 1 => (MainSpec => []CalledInOrder)
<1> SUFFICES ASSUME MaxDepth = 1 PROVE MainSpec => []CalledInOrder
  OBVIOUS
<1>1. RingInv => CalledInOrder
  BY DEF RingInv, RingTypeOK, OrderInv, CalledInOrder
<1>2. RingInv /\ [MainNext]_all => RingInv'
  BY RingStep DEF MainNext, all
<1>3. MainInit => RingInv
  BY RingInit DEF MainInit
<1> QED
  BY <1>1, <1>2, <1>3, PTL DEF MainSpec

(* An overrun ring is never popped more often than it can be, and no       *)
(* callback is left in it without the flag that makes pumpCallbacks look.  *)
THEOREM RingStaysSound == MaxDepth = 1 => (MainSpec => []RingSound)
<1> SUFFICES ASSUME MaxDepth = 1 PROVE MainSpec => []RingSound
  OBVIOUS
<1>1. RingInv => RingSound
  BY DEF RingInv, RingTypeOK, LeftInv, NeverPopsEmpty, Pumping, RingSound
<1>2. RingInv /\ [MainNext]_all => RingInv'
  BY RingStep DEF MainNext, all
<1>3. MainInit => RingInv
  BY RingInit DEF MainInit
<1> QED
  BY <1>1, <1>2, <1>3, PTL DEF MainSpec

-----------------------------------------------------------------------------
(* The calls, from the bottom of the stack. *)
Depth == Len(calls)
Depths == 1 .. Depth
Stack == [d \in Depths |-> calls[Depth + 1 - d]]
Is(d, what, q) == Stack[d].what \in what /\ Stack[d].queue = q

AtWork == {"next", "task", "fail"}
Outcomes == {"resolved", "rejected"}
WorksOn(q) == Depth # 0 /\ Is(Depth, AtWork, q)
Embedded == parent = 1 /\ ("inner" \in running \/ \E d \in Depths : Is(d, Outcomes, "inner"))

\* Only the innermost call works on a queue or catches; what is below ends a run.
Stacked ==
    /\ \A d \in Depths : d # Depth => Stack[d].what \notin AtWork \cup {"catch"}
    /\ \A d, e \in Depths : d < e /\ Stack[e].queue = "outer" => Stack[d].queue = "outer"
    /\ \A q \in Tasks!Queues : (\E d \in Depths : Stack[d].queue = q) => runs[q] > 0
    /\ parent = 1 =>
           /\ \A d, e \in Depths : d < e /\ Is(e, Outcomes, "inner") => Stack[d].queue = "outer"
           /\ "inner" \in running => \A d \in Depths : Stack[d].queue = "inner" => Is(d, AtWork, "inner")

\* Who goes on with a queue.
GoingOn ==
    /\ Embedded => "outer" \in running
    /\ \A q \in Tasks!Queues :
           /\ ~(q \in waiting /\ WorksOn(q))
           /\ (q \in waiting \/ WorksOn(q)) = (q \in running /\ ~(q = "outer" /\ Embedded))

\* The handlers a queue that runs or ends has.
Keeps(q) ==
    /\ q \in fresh \/ runs[q] > 0 => set[q] = given[q] \/ (given[q] = Tasks!Handlers /\ set[q] = {"catch"})
    /\ q \in running \cup fresh => set[q] = given[q]
    /\ q \in running => q \notin fresh /\ runs[q] > 0
SetRight == \A q \in Tasks!Queues :
    /\ Keeps(q)
    /\ \A d \in Depths :
           /\ Is(d, {"finally"}, q) /\ given[q] = Tasks!Handlers => d = Depth /\ set[q] = given[q]
           /\ Is(d, {"moved"}, q) => given[q] = Tasks!Handlers

\* What a queue's handlers are owed is on the stack.
Owing(q, h) == {d \in Depths : Is(d, IF h = "finally" THEN {h, "moved"} ELSE {h}, q)}
OwedRight == \A q \in Tasks!Queues : \A h \in Tasks!Handlers :
    owed[q][h] = IF h \in given[q] THEN Cardinality(Owing(q, h)) ELSE 0

Cascading == cascade = 1 => "outer" \notin running \/ (Depth # 0 /\ Is(Depth, {"fail"}, "outer"))

TasksInv == Tasks!TypeOK /\ Stacked /\ GoingOn /\ SetRight /\ OwedRight /\ Cascading

-----------------------------------------------------------------------------
(* The stack. *)

Entry(what, q) == [what |-> what, queue |-> q]

LEMMA DepthNat == ASSUME Tasks!TypeOK PROVE /\ Depth \in Nat /\ Depths \subseteq Nat
                                            /\ \A d \in Depths : Stack[d] \in Tasks!Calls
                                            /\ calls = << >> <=> Depth = 0
<1>1. calls \in Seq(Tasks!Calls)
  BY DEF Tasks!TypeOK
<1>2. Len(calls) \in Nat /\ \A i \in 1 .. Len(calls) : calls[i] \in Tasks!Calls
  BY <1>1
<1>3. calls = << >> <=> Len(calls) = 0
  BY <1>1
<1>4. \A d \in 1 .. Len(calls) : Len(calls) + 1 - d \in 1 .. Len(calls)
  BY <1>2
<1> QED
  BY <1>2, <1>3, <1>4 DEF Depth, Depths, Stack

\* The innermost call.
LEMMA NowTop ==
    ASSUME Tasks!TypeOK, NEW what, NEW q, Tasks!Now(what, q)
    PROVE  Depth \in Nat \ {0} /\ Depth \in Depths /\ Stack[Depth] = Entry(what, q) /\ calls # << >>
<1>1. calls # << >> /\ Head(calls) = Entry(what, q) /\ calls \in Seq(Tasks!Calls)
  BY DEF Tasks!Now, Tasks!Idle, Tasks!TypeOK, Entry
<1>2. Depth \in Nat \ {0}
  BY <1>1, DepthNat
<1>3. Depth + 1 - Depth = 1 /\ Depth \in 1 .. Depth
  BY <1>2
<1>4. Stack[Depth] = Head(calls)
  BY <1>1, <1>3 DEF Stack, Depths
<1> QED
  BY <1>1, <1>2, <1>3, <1>4 DEF Depths

\* It returns, after what it calls last.
LEMMA ThenShape ==
    ASSUME Tasks!TypeOK, calls # << >>, NEW last \in Seq(Tasks!Calls), Tasks!Then(last)
    PROVE  /\ calls' \in Seq(Tasks!Calls) /\ Depth' = Depth - 1 + Len(last)
           /\ \A d \in 1 .. Depth - 1 : Stack'[d] = Stack[d]
           /\ \A k \in 1 .. Len(last) : Stack'[Depth' + 1 - k] = last[k]
<1>1. calls \in Seq(Tasks!Calls) /\ Len(calls) \in Nat \ {0} /\ Len(last) \in Nat
  BY DepthNat DEF Tasks!TypeOK, Depth
<1>2. /\ Tail(calls) \in Seq(Tasks!Calls) /\ Len(Tail(calls)) = Len(calls) - 1
      /\ \A i \in 1 .. Len(calls) - 1 : Tail(calls)[i] = calls[i + 1]
  BY <1>1
<1>3. calls' = last \o Tail(calls)
  BY DEF Tasks!Then
<1>4. /\ calls' \in Seq(Tasks!Calls) /\ Len(calls') = Len(last) + (Len(calls) - 1)
      /\ \A i \in 1 .. Len(last) : calls'[i] = last[i]
      /\ \A i \in 1 .. Len(calls) - 1 : calls'[Len(last) + i] = calls[i + 1]
  BY <1>1, <1>2, <1>3
<1>5. \A d \in 1 .. Depth - 1 : calls'[Len(calls') + 1 - d] = calls[Len(calls) + 1 - d]
  <2> SUFFICES ASSUME NEW d \in 1 .. Depth - 1
               PROVE  calls'[Len(calls') + 1 - d] = calls[Len(calls) + 1 - d]
    OBVIOUS
  <2> DEFINE i == Len(calls) - d
  <2>1. i \in 1 .. Len(calls) - 1 /\ Len(calls') + 1 - d = Len(last) + i /\ Len(calls) + 1 - d = i + 1
    BY <1>1, <1>4 DEF Depth
  <2> HIDE DEF i
  <2> QED
    BY <1>4, <2>1
<1>6. \A k \in 1 .. Len(last) : /\ Len(calls') + 1 - (Len(calls') + 1 - k) = k
                                 /\ Len(calls') + 1 - k \in 1 .. Len(calls')
  BY <1>1, <1>4
<1>7. \A d \in 1 .. Depth - 1 : d \in 1 .. Len(calls) /\ d \in 1 .. Len(calls')
  BY <1>1, <1>4 DEF Depth
<1>8. \A d \in 1 .. Depth - 1 : Stack'[d] = Stack[d]
  BY <1>5, <1>7 DEF Depth, Depths, Stack
<1>9. \A k \in 1 .. Len(last) : Stack'[Depth' + 1 - k] = last[k]
  BY <1>4, <1>6 DEF Depth, Depths, Stack
<1>10. Depth' = Depth - 1 + Len(last)
  BY <1>1, <1>4 DEF Depth
<1> QED
  BY <1>4, <1>8, <1>9, <1>10

\* The four ways of returning.
LEMMA Pops ==
    ASSUME Tasks!TypeOK, calls # << >>, Tasks!Then(<< >>)
    PROVE  /\ calls' \in Seq(Tasks!Calls) /\ Depth' = Depth - 1
           /\ \A d \in 1 .. Depth - 1 : Stack'[d] = Stack[d]
<1> DEFINE last == << >>
<1>1. last \in Seq(Tasks!Calls) /\ Len(last) = 0 /\ Tasks!Then(last)
  OBVIOUS
<1> HIDE DEF last
<1>2. Depth \in Nat /\ Depth' = Depth - 1 + Len(last)
  BY <1>1, DepthNat, ThenShape
<1>3. Depth' = Depth - 1
  BY <1>1, <1>2
<1> QED
  BY <1>1, <1>3, ThenShape

Whats == {"next", "task", "fail", "moved", "resolved", "rejected", "catch", "finally"}
LEMMA EntryCall == ASSUME NEW w \in Whats, NEW q \in Tasks!Queues
                   PROVE  /\ Entry(w, q) \in Tasks!Calls /\ Tasks!Call(w, q) = <<Entry(w, q)>>
                          /\ Entry(w, q).what = w /\ Entry(w, q).queue = q
BY DEF Entry, Tasks!Calls, Tasks!Call, Whats, Tasks!Handlers

LEMMA JoinTwo ==
    ASSUME NEW S, NEW a \in S, NEW b \in S, NEW s, s = <<a>> \o <<b>>
    PROVE  s \in Seq(S) /\ Len(s) = 2 /\ s[1] = a /\ s[2] = b
OBVIOUS

LEMMA JoinMore ==
    ASSUME NEW S, NEW t \in Seq(S), NEW c \in S
    PROVE  /\ t \o <<c>> \in Seq(S) /\ Len(t \o <<c>>) = Len(t) + 1
           /\ \A i \in 1 .. Len(t) : (t \o <<c>>)[i] = t[i]
           /\ (t \o <<c>>)[Len(t) + 1] = c
OBVIOUS

LEMMA Replaces ==
    ASSUME Tasks!TypeOK, calls # << >>, NEW w \in Whats, NEW q \in Tasks!Queues, Tasks!Then(Tasks!Call(w, q))
    PROVE  /\ calls' \in Seq(Tasks!Calls) /\ Depth' = Depth /\ Stack'[Depth'] = Entry(w, q)
           /\ \A d \in 1 .. Depth - 1 : Stack'[d] = Stack[d]
<1> DEFINE last == <<Entry(w, q)>>
<1>1. last \in Seq(Tasks!Calls) /\ Len(last) = 1 /\ last[1] = Entry(w, q) /\ Tasks!Then(last)
  BY EntryCall
<1> HIDE DEF last
<1>2. Depth \in Nat /\ Depth' = Depth - 1 + Len(last)
  BY <1>1, DepthNat, ThenShape
<1>3. Depth' = Depth /\ Depth' + 1 - 1 = Depth /\ 1 \in 1 .. Len(last)
  BY <1>1, <1>2
<1> QED
  BY <1>1, <1>3, ThenShape

LEMMA PushesTwo ==
    ASSUME Tasks!TypeOK, calls # << >>, NEW v \in Whats, NEW w \in Whats, NEW q \in Tasks!Queues,
           Tasks!Then(Tasks!Call(v, q) \o Tasks!Call(w, q))
    PROVE  /\ calls' \in Seq(Tasks!Calls) /\ Depth' = Depth + 1
           /\ Stack'[Depth'] = Entry(v, q) /\ Stack'[Depth' - 1] = Entry(w, q)
           /\ \A d \in 1 .. Depth - 1 : Stack'[d] = Stack[d]
<1>1. PICK last : last = <<Entry(v, q)>> \o <<Entry(w, q)>>
  OBVIOUS
<1>2. Tasks!Then(last) /\ Entry(v, q) \in Tasks!Calls /\ Entry(w, q) \in Tasks!Calls
  BY <1>1, EntryCall
<1>3. last \in Seq(Tasks!Calls) /\ Len(last) = 2 /\ last[1] = Entry(v, q) /\ last[2] = Entry(w, q)
  BY <1>1, <1>2, JoinTwo
<1>4. Depth \in Nat /\ Depth' = Depth - 1 + Len(last)
  BY <1>2, <1>3, DepthNat, ThenShape
<1>5. /\ Depth' = Depth + 1 /\ Depth' + 1 - 1 = Depth' /\ Depth' + 1 - 2 = Depth' - 1
      /\ 1 \in 1 .. Len(last) /\ 2 \in 1 .. Len(last)
  BY <1>3, <1>4
<1> QED
  BY <1>2, <1>3, <1>5, ThenShape

LEMMA PushesThree ==
    ASSUME Tasks!TypeOK, calls # << >>, NEW u \in Whats, NEW v \in Whats, NEW w \in Whats, NEW q \in Tasks!Queues,
           Tasks!Then(Tasks!Call(u, q) \o Tasks!Call(v, q) \o Tasks!Call(w, q))
    PROVE  /\ calls' \in Seq(Tasks!Calls) /\ Depth' = Depth + 2
           /\ Stack'[Depth'] = Entry(u, q) /\ Stack'[Depth' - 1] = Entry(v, q) /\ Stack'[Depth' - 2] = Entry(w, q)
           /\ \A d \in 1 .. Depth - 1 : Stack'[d] = Stack[d]
<1>0. PICK two : two = <<Entry(u, q)>> \o <<Entry(v, q)>>
  OBVIOUS
<1>1. PICK last : last = two \o <<Entry(w, q)>>
  OBVIOUS
<1>2. /\ Tasks!Then(last)
      /\ Entry(u, q) \in Tasks!Calls /\ Entry(v, q) \in Tasks!Calls /\ Entry(w, q) \in Tasks!Calls
  BY <1>0, <1>1, EntryCall
<1>3. /\ last \in Seq(Tasks!Calls) /\ Len(last) = 3
      /\ last[1] = Entry(u, q) /\ last[2] = Entry(v, q) /\ last[3] = Entry(w, q)
  <2>1. two \in Seq(Tasks!Calls) /\ Len(two) = 2 /\ two[1] = Entry(u, q) /\ two[2] = Entry(v, q)
    BY <1>0, <1>2, JoinTwo
  <2>2. /\ last \in Seq(Tasks!Calls) /\ Len(last) = Len(two) + 1 /\ last[Len(two) + 1] = Entry(w, q)
        /\ \A i \in 1 .. Len(two) : last[i] = two[i]
    <3>1. last \in Seq(Tasks!Calls)
      BY <1>1, <1>2, <2>1, JoinMore
    <3>2. Len(last) = Len(two) + 1 
      BY <1>1, <1>2, <2>1, JoinMore
    <3>3. last[Len(two) + 1] = Entry(w, q)
      BY <1>1, <1>2, <2>1, JoinMore
    <3>4. \A i \in 1 .. Len(two) : last[i] = two[i]
      BY <1>1, <1>2, <2>1, JoinMore
    <3> QED
      BY <3>1, <3>2, <3>3, <3>4
  <2>3. Len(two) + 1 = 3 /\ 1 \in 1 .. Len(two) /\ 2 \in 1 .. Len(two)
    BY <2>1
  <2> QED
    BY <2>1, <2>2, <2>3
<1>4. Depth \in Nat /\ Depth' = Depth - 1 + Len(last)
  BY <1>2, <1>3, DepthNat, ThenShape
<1>5. /\ Depth' = Depth + 2 /\ Depth' + 1 - 1 = Depth' /\ Depth' + 1 - 2 = Depth' - 1 /\ Depth' + 1 - 3 = Depth' - 2
      /\ 1 \in 1 .. Len(last) /\ 2 \in 1 .. Len(last) /\ 3 \in 1 .. Len(last)
  BY <1>3, <1>4
<1> QED
  BY <1>2, <1>3, <1>5, ThenShape

\* A call from outside.
LEMMA Begins ==
    ASSUME Tasks!TypeOK, Tasks!Idle, NEW w \in Whats, NEW q \in Tasks!Queues, calls' = Tasks!Call(w, q)
    PROVE  /\ calls' \in Seq(Tasks!Calls) /\ Depth = 0 /\ Depth' = 1 /\ Stack'[1] = Entry(w, q)
<1>1. calls' = <<Entry(w, q)>> /\ Entry(w, q) \in Tasks!Calls
  BY EntryCall
<1>2. Depth = 0
  BY DepthNat DEF Tasks!Idle
<1>3. Len(calls') = 1 /\ calls'[1] = Entry(w, q) /\ calls' \in Seq(Tasks!Calls)
  BY <1>1
<1> QED
  BY <1>2, <1>3 DEF Depth, Depths, Stack

-----------------------------------------------------------------------------
(* The handlers that are owed. *)

Owes(h) == IF h = "finally" THEN {h, "moved"} ELSE {h}

LEMMA OwingFinite == ASSUME Tasks!TypeOK, NEW q, NEW h PROVE IsFiniteSet(Owing(q, h)) /\ Owing(q, h) \subseteq Nat
<1>1. Depth \in Nat
  BY DepthNat
<1>2. IsFiniteSet(1 .. Depth)
  BY <1>1, FS_Interval
<1>3. Owing(q, h) \subseteq 1 .. Depth
  BY DEF Owing, Depths
<1> QED
  BY <1>1, <1>2, <1>3, FS_Subset

\* What changes at the top of the stack changes what is owed.
LEMMA OwingTop ==
    ASSUME Tasks!TypeOK, Tasks!TypeOK', Depth' >= Depth - 1, \A d \in 1 .. Depth - 1 : Stack'[d] = Stack[d],
           NEW q, NEW h
    PROVE  Owing(q, h)' = (Owing(q, h) \ {Depth}) \cup {d \in Depth .. Depth' : d # 0 /\ Is(d, Owes(h), q)'}
<1>1. Depth \in Nat /\ Depth' \in Nat
  <2>1. calls' \in Seq(Tasks!Calls)
    BY DEF Tasks!TypeOK
  <2>2. Depth' \in Nat
    BY <2>1 DEF Depth
  <2> QED
    BY <2>2, DepthNat
<1>2. Depths = 1 .. Depth /\ Depths' = 1 .. Depth'
  BY DEF Depths
<1>3. Owing(q, h) = {d \in 1 .. Depth : Is(d, Owes(h), q)} /\ Owing(q, h)' = {d \in 1 .. Depth' : Is(d, Owes(h), q)'}
  BY <1>2 DEF Owing, Owes
<1>4. \A d \in 1 .. Depth - 1 : Is(d, Owes(h), q)' <=> Is(d, Owes(h), q)
  BY DEF Is, Owes
<1>5. \A d \in 1 .. Depth' : (d \in 1 .. Depth - 1 \/ (d \in Depth .. Depth' /\ d # 0)) /\ (d \in Depth .. Depth' => d \notin 1 .. Depth - 1)
  BY <1>1
<1>6. \A d \in 1 .. Depth : d # Depth <=> d \in 1 .. Depth - 1
  BY <1>1
<1>7. \A d \in 1 .. Depth - 1 : d \in 1 .. Depth' /\ d \in 1 .. Depth
  BY <1>1
<1>8. \A d \in Depth .. Depth' : d # 0 => d \in 1 .. Depth'
  BY <1>1
<1> QED
  BY <1>3, <1>4, <1>5, <1>6, <1>7, <1>8

-----------------------------------------------------------------------------
(* The steps. *)

Below == \A d \in 1 .. Depth - 1 : Stack'[d] = Stack[d]

\* Nothing is owed more or less when the innermost call was none of a handler, nor are the new ones.
LEMMA OwedStays ==
    ASSUME TasksInv, Tasks!TypeOK', UNCHANGED <<given, owed>>, Below, Depth' >= Depth - 1,
           Depth \in Depths => Stack[Depth].what \notin Tasks!Handlers \cup {"moved"},
           \A d \in Depths' : d >= Depth => Stack'[d].what \notin Tasks!Handlers \cup {"moved"}
    PROVE  OwedRight'
<1> USE DEF TasksInv
<1>1. ASSUME NEW q \in Tasks!Queues, NEW h \in Tasks!Handlers PROVE Owing(q, h)' = Owing(q, h)
  <2>1. Depth \notin Owing(q, h)
    BY DEF Owing, Is, Tasks!Handlers
  <2>2. {d \in Depth .. Depth' : d # 0 /\ Is(d, Owes(h), q)'} = {}
    <3>1. Depth \in Nat
      BY DepthNat
    <3>2. calls' \in Seq(Tasks!Calls)
      BY DEF Tasks!TypeOK
    <3>3. Depth' \in Nat
      BY <3>2 DEF Depth
    <3>4. \A d \in Depth .. Depth' : d # 0 => d \in Depths' /\ d >= Depth
      BY <3>1, <3>3 DEF Depths
    <3> QED
      BY <3>4 DEF Is, Owes, Tasks!Handlers
  <2>3. Owing(q, h)' = (Owing(q, h) \ {Depth}) \cup {d \in Depth .. Depth' : d # 0 /\ Is(d, Owes(h), q)'}
    BY OwingTop DEF Below
  <2> QED
    BY <2>1, <2>2, <2>3
<1> QED
  BY <1>1 DEF OwedRight

\* What a lower frame says of the handlers stays true if the innermost call returns.
LEMMA LowerSet ==
    ASSUME TasksInv, UNCHANGED given, NEW d \in Depths, d # Depth, Stack'[d] = Stack[d], NEW q \in Tasks!Queues
    PROVE  /\ ~(Is(d, {"finally"}, q)' /\ given'[q] = Tasks!Handlers)
           /\ Is(d, {"moved"}, q)' => given'[q] = Tasks!Handlers
BY DEF TasksInv, SetRight, Keeps, Is

\* A queue's work goes on.
LEMMA StillWorks ==
    ASSUME TasksInv, Tasks!TypeOK', UNCHANGED <<given, set, running, parent, waiting, fresh, runs, owed, cascade>>,
           NEW q \in Tasks!Queues, Depth \in Depths, Stack[Depth].what \in {"next", "task"}, Stack[Depth].queue = q,
           Depth' = Depth, Below, NEW w \in AtWork, Stack'[Depth'] = Entry(w, q)
    PROVE  TasksInv'
<1> USE DEF TasksInv
<1>1. Depth \in Nat /\ Depths' = Depths /\ \A d \in Depths : d \in 1 .. Depth - 1 \/ d = Depth
  BY DepthNat DEF Depths
<1>2. /\ \A d \in Depths : Stack'[d].queue = Stack[d].queue
      /\ \A d \in Depths : d # Depth => Stack'[d] = Stack[d]
      /\ Stack[Depth].what \in AtWork /\ Stack'[Depth].what = w /\ Stack'[Depth].queue = q
  BY <1>1 DEF Below, Entry, AtWork
<1>3. Stacked'
  BY <1>1, <1>2 DEF Stacked, Is, AtWork, Outcomes
<1>4. Embedded' <=> Embedded
  BY <1>1, <1>2 DEF Embedded, Is, AtWork, Outcomes
<1>5. \A p \in Tasks!Queues : WorksOn(p)' <=> WorksOn(p)
  BY <1>1, <1>2 DEF WorksOn, Is
<1>6. GoingOn'
  BY <1>4, <1>5 DEF GoingOn
<1>7. SetRight'
  BY <1>1, <1>2 DEF SetRight, Keeps, Is, AtWork
<1>8. OwedRight'
  <2>1. \A d \in Depths' : d >= Depth => d = Depth
    BY <1>1 DEF Depths
  <2> QED
    BY <1>1, <1>2, <2>1, OwedStays DEF AtWork, Tasks!Handlers
<1>9. Cascading'
  BY <1>1, <1>2 DEF Cascading, Is
<1> QED
  BY <1>3, <1>6, <1>7, <1>8, <1>9

\* A task waits.
LEMMA TaskWaits ==
    ASSUME TasksInv, Tasks!TypeOK', UNCHANGED <<given, set, running, parent, fresh, runs, owed, cascade>>,
           NEW q \in Tasks!Queues, Depth \in Depths, Stack[Depth] = Entry("task", q), waiting' = waiting \cup {q},
           Depth' = Depth - 1, Below
    PROVE  TasksInv'
<1> USE DEF TasksInv
<1>1. Depth \in Nat /\ Depth' \in Nat /\ \A d \in Depths' : d \in Depths /\ d # Depth /\ Stack'[d] = Stack[d]
  BY DepthNat DEF Depths, Below
<1>2. \A d \in Depths : d # Depth => d \in Depths'
  BY <1>1 DEF Depths
<1>3. Stack[Depth].what = "task" /\ Stack[Depth].queue = q
  BY DEF Entry
<1>4. \A d \in Depths' : Stack[d].what \notin AtWork \cup {"catch"}
  BY <1>1 DEF Stacked
<1>5. Stacked'
  BY <1>1, <1>4 DEF Stacked, Is
<1>6. Embedded' <=> Embedded
  BY <1>1, <1>2, <1>3 DEF Embedded, Is, Outcomes
<1>7. \A p \in Tasks!Queues : ~WorksOn(p)' /\ (WorksOn(p) <=> p = q)
  <2>1. Depth # 0
    BY DEF Depths
  <2>2. Depth' # 0 => Depth' \in Depths'
    BY <1>1 DEF Depths
  <2> QED
    BY <1>1, <1>3, <1>4, <2>1, <2>2 DEF WorksOn, Is, AtWork
<1>8. GoingOn'
  BY <1>6, <1>7 DEF GoingOn
<1>9. SetRight'
  BY <1>1, LowerSet DEF SetRight, Keeps
<1>10. OwedRight'
  <2>1. \A d \in Depths' : ~(d >= Depth)
    BY <1>1 DEF Depths
  <2> QED
    BY <1>1, <1>3, <2>1, OwedStays DEF Tasks!Handlers
<1>11. Cascading'
  BY <1>1, <1>3 DEF Cascading, Is
<1> QED
  BY <1>5, <1>8, <1>9, <1>10, <1>11


-----------------------------------------------------------------------------
(* The program builds and runs queues, and tasks complete. *)

LEMMA Builds ==
    ASSUME TasksInv, Tasks!TypeOK', NEW q \in Tasks!Queues, Tasks!Build(q)
    PROVE  TasksInv'
<1> USE DEF TasksInv
<1>1. /\ calls' = calls /\ Depth' = Depth /\ Depths' = Depths /\ Stack' = Stack
      /\ UNCHANGED <<given, running, parent, waiting, runs, owed, cascade>>
  BY DEF Tasks!Build, Depth, Depths, Stack
<1>2. Depths = {}
  <2>1. Depth = 0
    BY DepthNat DEF Tasks!Build, Tasks!Idle
  <2> QED
    BY <2>1 DEF Depths
<1>3. Stacked' /\ Cascading'
  BY <1>1, <1>2 DEF Stacked, Cascading, Is
<1>4. Embedded' <=> Embedded
  BY <1>1 DEF Embedded, Is
<1>5. \A p \in Tasks!Queues : WorksOn(p)' <=> WorksOn(p)
  BY <1>1 DEF WorksOn, Is
<1>6. GoingOn'
  BY <1>1, <1>4, <1>5 DEF GoingOn
<1>7. SetRight'
  <2>1. q \notin running /\ fresh' = fresh \cup {q} /\ set' = [set EXCEPT ![q] = given[q]]
    BY DEF Tasks!Build
  <2>2. \A p \in Tasks!Queues : set'[p] = IF p = q THEN given[p] ELSE set[p]
    BY <2>1 DEF Tasks!TypeOK
  <2> QED
    BY <1>1, <1>2, <2>1, <2>2 DEF SetRight, Keeps
<1>8. OwedRight'
  <2>1. \A p \in Tasks!Queues, h \in Tasks!Handlers : Owing(p, h)' = Owing(p, h)
    BY <1>1 DEF Owing, Is
  <2> QED
    BY <1>1, <2>1 DEF OwedRight
<1> QED
  BY <1>3, <1>6, <1>7, <1>8

\* A queue that does not run has no work.
LEMMA NotRunning ==
    ASSUME TasksInv, NEW q \in Tasks!Queues, q \notin running
    PROVE  q \notin waiting /\ ~WorksOn(q)
BY DEF TasksInv, GoingOn

LEMMA RunsWhole ==
    ASSUME TasksInv, Habits = {}, NEW q \in Tasks!Queues, Tasks!MayRun(q)
    PROVE  q \notin running /\ set[q] = given[q]
BY DEF TasksInv, SetRight, Keeps, Tasks!MayRun

LEMMA Starts ==
    ASSUME Tasks!TypeOK, NEW q \in Tasks!Queues, NEW from, Tasks!Start(q, from)
    PROVE  /\ parent' = IF q = "inner" THEN from ELSE parent
           /\ running' = running \cup {q} /\ fresh' = fresh \ {q}
           /\ \A p \in Tasks!Queues : runs'[p] = IF p = q THEN runs[p] + 1 ELSE runs[p]
           /\ runs'[q] > 0
           /\ cascade' = IF q = "outer" THEN 0 ELSE cascade
           /\ UNCHANGED <<given, waiting>>
<1>1. runs' = [runs EXCEPT ![q] = @ + 1] /\ runs \in [Tasks!Queues -> Nat]
  BY DEF Tasks!Start, Tasks!TypeOK
<1>2. \A p \in Tasks!Queues : runs'[p] = IF p = q THEN runs[p] + 1 ELSE runs[p]
  BY <1>1
<1>3. runs'[q] > 0
  BY <1>1, <1>2
<1> QED
  BY <1>2, <1>3 DEF Tasks!Start

LEMMA RunBegins ==
    ASSUME TasksInv, Tasks!TypeOK', Habits = {}, NEW q \in Tasks!Queues, Tasks!run(q)
    PROVE  TasksInv'
<1> USE DEF TasksInv
<1>1. /\ q \notin running /\ set[q] = given[q] /\ q \notin waiting
      /\ Tasks!Start(q, 0) /\ UNCHANGED <<set, owed>>
  BY RunsWhole, NotRunning DEF Tasks!run
<1>2. Depth = 0 /\ Depth' = 1 /\ Stack'[1] = Entry("next", q)
  BY Begins DEF Tasks!run, Whats
<1>3. Depths = {} /\ Depths' = {1} /\ Stack'[1].what = "next" /\ Stack'[1].queue = q
  BY <1>2 DEF Depths, Entry
<1>4. /\ parent' = IF q = "inner" THEN 0 ELSE parent
      /\ running' = running \cup {q} /\ fresh' = fresh \ {q}
      /\ \A p \in Tasks!Queues : runs'[p] = IF p = q THEN runs[p] + 1 ELSE runs[p]
      /\ runs'[q] > 0
      /\ cascade' = IF q = "outer" THEN 0 ELSE cascade
      /\ UNCHANGED <<given, waiting>>
  BY <1>1, Starts
<1>5. Stacked'
  BY <1>2, <1>3, <1>4 DEF Stacked, Is, AtWork, Outcomes
<1>6. ~Embedded /\ ~Embedded'
  <2>1. Embedded => "inner" \in running /\ "outer" \in running
    BY <1>3 DEF Embedded, GoingOn
  <2>2. ~Embedded
    BY <1>1, <2>1 DEF Tasks!Queues
  <2>3. Embedded' => parent' = 1 /\ "inner" \in running'
    BY <1>3 DEF Embedded, Is, Outcomes
  <2>4. ~Embedded'
    <3>1. CASE q = "inner"
      BY <1>4, <2>3, <3>1
    <3>2. CASE q = "outer"
      BY <1>4, <2>2, <2>3, <3>2 DEF Embedded
    <3> QED
      BY <3>1, <3>2 DEF Tasks!Queues
  <2> QED
    BY <2>2, <2>4
<1>7. \A p \in Tasks!Queues : ~WorksOn(p) /\ (WorksOn(p)' <=> p = q)
  BY <1>2, <1>3 DEF WorksOn, Is, AtWork
<1>8. GoingOn'
  BY <1>1, <1>4, <1>6, <1>7 DEF GoingOn
<1>9. SetRight'
  BY <1>1, <1>3, <1>4 DEF SetRight, Keeps, Is
<1>10. OwedRight'
  <2>1. Below /\ Depth' >= Depth - 1
    BY <1>2 DEF Below
  <2> QED
    BY <1>1, <1>3, <1>4, <2>1, OwedStays DEF Tasks!Handlers
<1>11. Cascading'
  BY <1>2, <1>4 DEF Cascading
<1> QED
  BY <1>5, <1>8, <1>9, <1>10, <1>11

LEMMA Completes ==
    ASSUME TasksInv, Tasks!TypeOK', NEW q \in Tasks!Queues, Tasks!complete(q)
    PROVE  TasksInv'
<1> USE DEF TasksInv
<1>1. PICK w \in {"next", "fail"} : calls' = Tasks!Call(w, q)
  BY DEF Tasks!complete
<1>2. /\ q \in waiting /\ waiting' = waiting \ {q}
      /\ UNCHANGED <<given, set, running, parent, fresh, runs, owed, cascade>>
  BY DEF Tasks!complete, Tasks!state, Tasks!history
<1>3. Depth = 0 /\ Depth' = 1 /\ Stack'[1] = Entry(w, q)
  BY <1>1, Begins DEF Tasks!complete, Whats
<1>4. Depths = {} /\ Depths' = {1} /\ Stack'[1].what = w /\ Stack'[1].queue = q
  BY <1>3 DEF Depths, Entry
<1>5. q \in running /\ runs[q] > 0
  BY <1>2 DEF GoingOn, SetRight, Keeps
<1>6. Stacked'
  BY <1>2, <1>3, <1>4, <1>5 DEF Stacked, Is, AtWork, Outcomes
<1>7. Embedded' <=> Embedded
  BY <1>2, <1>4 DEF Embedded, Is, Outcomes
<1>8. \A p \in Tasks!Queues : ~WorksOn(p) /\ (WorksOn(p)' <=> p = q)
  BY <1>3, <1>4 DEF WorksOn, Is, AtWork
<1>9. GoingOn'
  BY <1>2, <1>7, <1>8 DEF GoingOn
<1>10. SetRight'
  BY <1>2, <1>4 DEF SetRight, Keeps, Is
<1>11. OwedRight'
  <2>1. Below /\ Depth' >= Depth - 1
    BY <1>3 DEF Below
  <2> QED
    BY <1>2, <1>4, <2>1, OwedStays DEF Tasks!Handlers
<1>12. Cascading'
  BY <1>2, <1>3 DEF Cascading
<1> QED
  BY <1>6, <1>9, <1>10, <1>11, <1>12

\* The task of the outer queue is the inner queue.
LEMMA Embeds ==
    ASSUME TasksInv, Tasks!TypeOK', Habits = {}, Tasks!MayRun("inner"), Tasks!Scheduled, UNCHANGED <<set, owed>>,
           Depth \in Depths, Stack[Depth] = Entry("task", "outer"), Depth' = Depth, Below,
           Stack'[Depth'] = Entry("next", "inner")
    PROVE  TasksInv'
<1> USE DEF TasksInv
<1>0. "inner" \in Tasks!Queues /\ "outer" \in Tasks!Queues /\ Tasks!Queues = {"inner", "outer"}
  BY DEF Tasks!Queues
<1>1. Depth \in Nat /\ Depths' = Depths /\ \A d \in Depths : d \in 1 .. Depth - 1 \/ d = Depth
  BY DepthNat DEF Depths
<1>2. "inner" \notin running /\ set["inner"] = given["inner"] /\ "inner" \notin waiting
  BY <1>0, RunsWhole, NotRunning
<1>3. /\ parent' = 1 /\ running' = running \cup {"inner"} /\ fresh' = fresh \ {"inner"}
      /\ \A p \in Tasks!Queues : runs'[p] = IF p = "inner" THEN runs[p] + 1 ELSE runs[p]
      /\ runs'["inner"] > 0 /\ UNCHANGED <<given, waiting, cascade>>
  <2>1. Tasks!Start("inner", 1)
    BY DEF Tasks!Scheduled
  <2> QED
    BY <1>0, <2>1, Starts
<1>4. /\ Stack[Depth].what = "task" /\ Stack[Depth].queue = "outer"
      /\ Stack'[Depth].what = "next" /\ Stack'[Depth].queue = "inner"
      /\ \A d \in Depths : d # Depth => Stack'[d] = Stack[d]
  <2>1. \A d \in Depths : d # Depth => Stack'[d] = Stack[d]
    BY <1>1 DEF Below
  <2>2. Stack[Depth].what = "task" /\ Stack[Depth].queue = "outer"
    BY DEF Entry
  <2>3. Stack'[Depth] = Entry("next", "inner")
    OBVIOUS
  <2> QED
    BY <2>1, <2>2, <2>3 DEF Entry
<1>5. \A d \in Depths : Stack[d].queue = "outer"
  <2>1. \A d \in Depths : d # Depth => d < Depth
    BY <1>1 DEF Depths
  <2> QED
    BY <1>4, <2>1 DEF Stacked
<1>6. WorksOn("outer") /\ "outer" \in running /\ "outer" \notin waiting
  <2>1. WorksOn("outer")
    BY <1>4 DEF WorksOn, Is, AtWork, Depths
  <2> QED
    BY <1>0, <2>1 DEF GoingOn
<1>7. Stacked'
  <2>1. \A d \in Depths' : d # Depth' => Stack'[d].what \notin AtWork \cup {"catch"}
    BY <1>1, <1>4 DEF Stacked
  <2>2. \A d, e \in Depths' : d < e /\ Stack'[e].queue = "outer" => Stack'[d].queue = "outer"
    BY <1>1, <1>4, <1>5 DEF Depths
  <2>3. \A q \in Tasks!Queues : (\E d \in Depths' : Stack'[d].queue = q) => runs'[q] > 0
    BY <1>0, <1>1, <1>3, <1>4, <1>5 DEF Stacked
  <2>4. \A e \in Depths' : ~Is(e, Outcomes, "inner")'
    BY <1>1, <1>4, <1>5 DEF Is, Outcomes
  <2>5. \A d \in Depths' : Stack'[d].queue = "inner" => Is(d, AtWork, "inner")'
    BY <1>1, <1>4, <1>5 DEF Is, AtWork
  <2> QED
    BY <2>1, <2>2, <2>3, <2>4, <2>5 DEF Stacked
<1>8. Embedded'
  BY <1>3 DEF Embedded
<1>9. WorksOn("inner")' /\ ~WorksOn("outer")'
  BY <1>1, <1>4 DEF WorksOn, Is, AtWork, Depths
<1>10. GoingOn'
  BY <1>0, <1>2, <1>3, <1>6, <1>8, <1>9 DEF GoingOn
<1>11. SetRight'
  <2>1. ASSUME NEW q \in Tasks!Queues, NEW d \in Depths'
        PROVE  /\ ~(Is(d, {"finally"}, q)' /\ given'[q] = Tasks!Handlers)
               /\ Is(d, {"moved"}, q)' => given'[q] = Tasks!Handlers
    <3>1. CASE d = Depth
      BY <1>4, <3>1 DEF Is
    <3>2. CASE d # Depth
      BY <1>1, <1>3, <1>4, <3>2, LowerSet
    <3> QED
      BY <3>1, <3>2
  <2>2. \A q \in Tasks!Queues : Keeps(q)'
    BY <1>2, <1>3 DEF SetRight, Keeps
  <2> QED
    BY <2>1, <2>2 DEF SetRight, Keeps
<1>12. OwedRight'
  <2>1. \A d \in Depths' : d >= Depth => d = Depth
    BY <1>1 DEF Depths
  <2> QED
    BY <1>1, <1>3, <1>4, <2>1, OwedStays DEF Tasks!Handlers
<1>13. Cascading'
  BY <1>3, <1>4, <1>6 DEF Cascading, Is
<1> QED
  BY <1>7, <1>10, <1>11, <1>12, <1>13

-----------------------------------------------------------------------------
(* Runs end: handlers are owed. *)

New(q, h) == {d \in Depth .. Depth' : d # 0 /\ Is(d, Owes(h), q)'}

LEMMA OwedMore ==
    ASSUME TasksInv, Tasks!TypeOK', UNCHANGED given, Below, Depth' >= Depth, Depth \in Depths,
           Stack[Depth].what \notin Tasks!Handlers \cup {"moved"}, NEW q \in Tasks!Queues, NEW handlers,
           Tasks!Ends(q, handlers),
           \A h \in Tasks!Handlers : h \notin handlers => New(q, h) = {},
           \A h \in Tasks!Handlers : h \in handlers => \E x \in Depth .. Depth' : New(q, h) = {x},
           \A h \in Tasks!Handlers : \A p \in Tasks!Queues : p # q => New(p, h) = {}
    PROVE  OwedRight'
<1> USE DEF TasksInv
<1>1. ASSUME NEW p \in Tasks!Queues, NEW h \in Tasks!Handlers
      PROVE  owed'[p][h] = IF h \in given'[p] THEN Cardinality(Owing(p, h)') ELSE 0
  <2>1. owed[p][h] = IF h \in given[p] THEN Cardinality(Owing(p, h)) ELSE 0
    BY DEF OwedRight
  <2>2. Owing(p, h)' = Owing(p, h) \cup New(p, h)
    <3>1. Depth \notin Owing(p, h)
      BY DEF Owing, Is, Tasks!Handlers
    <3>2. Depth' >= Depth - 1
      <4>1. calls' \in Seq(Tasks!Calls)
        BY DEF Tasks!TypeOK
      <4>2. Depth' \in Nat /\ Depth \in Nat
        BY <4>1, DepthNat DEF Depth
      <4> QED
        BY <4>2
    <3>3. Owing(p, h)' = (Owing(p, h) \ {Depth}) \cup {d \in Depth .. Depth' : d # 0 /\ Is(d, Owes(h), p)'}
      BY <3>2, OwingTop DEF Below
    <3> QED
      BY <3>1, <3>3 DEF New
  <2>3. owed'[p][h] = owed[p][h] + IF p = q /\ h \in handlers \cap given[p] THEN 1 ELSE 0
    <3>1. owed' = [owed EXCEPT ![q] = [g \in Tasks!Handlers |-> @[g] + IF g \in handlers \cap given[q] THEN 1 ELSE 0]]
      BY DEF Tasks!Ends
    <3>2. owed \in [Tasks!Queues -> [Tasks!Handlers -> Int]]
      BY DEF Tasks!TypeOK
    <3>3. CASE p = q
      BY <3>1, <3>2, <3>3
    <3>4. CASE p # q
      <4>1. owed'[p] = owed[p] /\ owed[p][h] \in Int
        BY <3>1, <3>2, <3>4
      <4> QED
        BY <3>4, <4>1
    <3> QED
      BY <3>3, <3>4
  <2>4. CASE p = q /\ h \in handlers
    <3>1. PICK x \in Depth .. Depth' : New(q, h) = {x}
      BY <2>4
    <3>2. IsFiniteSet(Owing(p, h)) /\ Cardinality(Owing(p, h)) \in Nat
      BY OwingFinite, FS_CardinalityType
    <3>3. x \notin Owing(p, h)
      <4>1. CASE x = Depth
        BY <4>1 DEF Owing, Is, Tasks!Handlers
      <4>2. CASE x # Depth
        <5>1. Depth \in Nat /\ Depth' \in Int
          <6>1. calls' \in Seq(Tasks!Calls)
            BY DEF Tasks!TypeOK
          <6>2. Depth' \in Nat
            BY <6>1 DEF Depth
          <6> QED
            BY <6>2, DepthNat
        <5>2. x \notin 1 .. Depth
          BY <4>2, <5>1
        <5> QED
          BY <5>2 DEF Owing, Depths
      <4> QED
        BY <4>1, <4>2
    <3>4. Cardinality(Owing(p, h) \cup {x}) = Cardinality(Owing(p, h)) + 1
      BY <3>2, <3>3, FS_AddElement
    <3>5. Cardinality(Owing(p, h)') = Cardinality(Owing(p, h)) + 1
      BY <2>2, <2>4, <3>1, <3>4
    <3> QED
      BY <2>1, <2>3, <2>4, <3>2, <3>5
  <2>5. CASE ~(p = q /\ h \in handlers)
    <3>1. New(p, h) = {}
      BY <2>5
    <3>2. Owing(p, h)' = Owing(p, h)
      BY <2>2, <3>1
    <3>3. owed'[p][h] = owed[p][h]
      <4>1. owed[p][h] \in Int
        BY DEF Tasks!TypeOK
      <4> QED
        BY <2>3, <2>5, <4>1
    <3> QED
      BY <2>1, <3>2, <3>3
  <2> QED
    BY <2>4, <2>5
<1> QED
  BY <1>1 DEF OwedRight

\* A run ends, and its handlers are to be called before the parent is told.
LEMMA RunEnded ==
    ASSUME TasksInv, Tasks!TypeOK', NEW q \in Tasks!Queues, running' = running \ {q},
           UNCHANGED <<given, parent, waiting, fresh, runs, cascade>>,
           Depth \in Depths, Stack[Depth].what \in {"next", "fail"}, Stack[Depth].queue = q,
           Depth' > Depth, Below, Stack'[Depth].what \in Outcomes,
           \A d \in Depths' : d >= Depth => Stack'[d].queue = q,
           \A d \in Depths' : d > Depth => Stack'[d].what \notin AtWork \cup Outcomes,
           \A d \in Depths' : d > Depth /\ d # Depth' => Stack'[d].what # "catch"
    PROVE  Stacked' /\ GoingOn' /\ Cascading'
<1> USE DEF TasksInv
<1>1. /\ Depth \in Nat \ {0} /\ Depth' \in Nat /\ Depth \in Depths' /\ Depth' \in Depths'
      /\ \A d \in Depths' : (d \in Depths /\ d < Depth /\ d # Depth /\ d # Depth') \/ d = Depth \/ d > Depth
      /\ \A d \in Depths : d # Depth => d \in 1 .. Depth - 1 /\ d < Depth
      /\ \A d \in Depths : d \in Depths' /\ ~(d > Depth)
      /\ \A d \in Depths' : d = Depth \/ d > Depth => d >= Depth
  <2>1. calls' \in Seq(Tasks!Calls)
    BY DEF Tasks!TypeOK
  <2>2. Depth' \in Nat /\ Depth \in Nat
    BY <2>1, DepthNat DEF Depth
  <2> QED
    BY <2>2 DEF Depths
<1>2. Stack'[Depth].queue = q /\ Stack'[Depth'].queue = q /\ Stack'[Depth'].what \notin AtWork \cup Outcomes
  BY <1>1
<1>4. \A d \in Depths : d # Depth => Stack'[d] = Stack[d] /\ Stack[d].what \notin AtWork \cup {"catch"}
  BY <1>1 DEF Below, Stacked
<1>5. WorksOn(q) /\ q \in running /\ q \notin waiting /\ ~(q = "outer" /\ Embedded)
  <2>1. WorksOn(q)
    BY <1>1 DEF WorksOn, Is, AtWork
  <2> QED
    BY <2>1 DEF GoingOn
<1>6. \A d \in Depths : Stack[d].queue \in Tasks!Queues
  BY DepthNat DEF Tasks!Calls
<1>7. parent = 1 /\ "inner" \in running => \A d \in Depths : d # Depth => Stack[d].queue = "outer"
  BY <1>4, <1>6 DEF Stacked, Is, Tasks!Queues
<1>8. Stacked'
  <2>1. \A d \in Depths' : d # Depth' => Stack'[d].what \notin AtWork \cup {"catch"}
    BY <1>1, <1>4 DEF AtWork, Outcomes
  <2>2. ASSUME NEW d \in Depths', NEW e \in Depths', d < e, Stack'[e].queue = "outer"
        PROVE  Stack'[d].queue = "outer"
    <3>1. CASE e \in Depths /\ e < Depth
      <4>1. d \in Depths /\ d # Depth /\ e # Depth
        BY <1>1, <2>2, <3>1 DEF Depths
      <4> QED
        BY <1>4, <2>2, <3>1, <4>1 DEF Stacked
    <3>2. CASE e = Depth \/ e > Depth
      <4>1. q = "outer"
        BY <1>1, <2>2, <3>2
      <4>2. CASE d \in Depths /\ d < Depth
        BY <1>1, <1>4, <4>1, <4>2 DEF Stacked
      <4>3. CASE d = Depth \/ d > Depth
        BY <1>1, <4>1, <4>3
      <4> QED
        BY <1>1, <4>2, <4>3
    <3> QED
      BY <1>1, <3>1, <3>2
  <2>3. ASSUME NEW p \in Tasks!Queues, NEW d \in Depths', Stack'[d].queue = p
        PROVE  runs'[p] > 0
    <3>1. runs[q] > 0
      BY <1>5 DEF SetRight, Keeps
    <3>2. CASE d \in Depths /\ d < Depth
      BY <1>1, <1>4, <2>3, <3>2 DEF Stacked
    <3> QED
      BY <1>1, <1>2, <2>3, <3>1, <3>2
  <2>4. ASSUME parent' = 1, NEW d \in Depths', NEW e \in Depths', d < e, Is(e, Outcomes, "inner")'
        PROVE  Stack'[d].queue = "outer"
    <3>1. CASE e \in Depths /\ e < Depth
      <4>1. d \in Depths /\ d # Depth /\ e # Depth
        BY <1>1, <2>4, <3>1 DEF Depths
      <4> QED
        BY <1>4, <2>4, <3>1, <4>1 DEF Stacked, Is
    <3>2. CASE e = Depth
      <4>1. q = "inner" /\ d \in Depths /\ d # Depth
        BY <1>1, <1>2, <2>4, <3>2 DEF Is, Depths
      <4> QED
        BY <1>4, <1>5, <1>7, <2>4, <4>1
    <3>3. CASE e > Depth
      BY <1>2, <2>4, <3>3 DEF Is
    <3> QED
      BY <1>1, <3>1, <3>2, <3>3
  <2>5. ASSUME parent' = 1, "inner" \in running', NEW d \in Depths', Stack'[d].queue = "inner"
        PROVE  Is(d, AtWork, "inner")'
    <3>1. q # "inner"
      BY <2>5
    <3>2. d \in Depths /\ d # Depth
      BY <1>1, <1>2, <2>5, <3>1
    <3> QED
      BY <1>4, <1>7, <2>5, <3>2
  <2> QED
    BY <2>1, <2>2, <2>3, <2>4, <2>5 DEF Stacked
<1>9. Embedded' <=> Embedded
  <2>1. ASSUME NEW d \in Depths, d # Depth PROVE Is(d, Outcomes, "inner")' <=> Is(d, Outcomes, "inner")
    BY <1>4, <2>1 DEF Is
  <2>2. /\ ~Is(Depth, Outcomes, "inner")
        /\ \A d \in Depths' : /\ d > Depth => ~Is(d, Outcomes, "inner")'
                              /\ d = Depth => (Is(d, Outcomes, "inner")' <=> q = "inner")
    BY <1>2 DEF Is, Outcomes
  <2>3. CASE q = "inner"
    <3>1. Embedded <=> parent = 1
      BY <1>5, <2>3 DEF Embedded
    <3>2. Embedded' <=> parent' = 1
      BY <1>1, <2>2, <2>3 DEF Embedded
    <3> QED
      BY <3>1, <3>2
  <2>4. CASE q # "inner"
    <3>1. (\E d \in Depths' : Is(d, Outcomes, "inner")') <=> \E d \in Depths : Is(d, Outcomes, "inner")
      <4>1. ASSUME NEW d \in Depths', Is(d, Outcomes, "inner")' PROVE \E e \in Depths : Is(e, Outcomes, "inner")
        <5>1. ~(d > Depth) /\ d # Depth
          BY <1>2, <2>2, <2>4, <4>1 DEF Is
        <5>2. d \in Depths
          BY <1>1, <5>1
        <5> QED
          BY <2>1, <4>1, <5>1, <5>2
      <4>2. ASSUME NEW d \in Depths, Is(d, Outcomes, "inner") PROVE \E e \in Depths' : Is(e, Outcomes, "inner")'
        <5>1. d # Depth /\ d \in Depths'
          BY <1>1, <2>4, <4>2 DEF Is
        <5> QED
          BY <2>1, <4>2, <5>1
      <4> QED
        BY <4>1, <4>2
    <3> QED
      BY <2>4, <3>1 DEF Embedded
  <2> QED
    BY <2>3, <2>4
<1>10. \A p \in Tasks!Queues : ~WorksOn(p)' /\ (WorksOn(p) <=> p = q)
  BY <1>1, <1>2 DEF WorksOn, Is, AtWork
<1>11. GoingOn'
  <2>1. Embedded' => "outer" \in running'
    BY <1>5, <1>9 DEF GoingOn
  <2> QED
    BY <1>5, <1>9, <1>10, <2>1 DEF GoingOn
<1>14. Cascading'
  BY <1>1 DEF Cascading, Is
<1> QED
  BY <1>8, <1>11, <1>14

\* What is said of the handlers below stays, so only the new calls matter.
LEMMA SetStays ==
    ASSUME TasksInv, Tasks!TypeOK', UNCHANGED given, Below, Depth' >= Depth - 1,
           \A q \in Tasks!Queues : Keeps(q)',
           \A d \in Depths' : d >= Depth =>
               /\ Stack'[d].what = "finally" /\ given[Stack'[d].queue] = Tasks!Handlers
                      => d = Depth' /\ set'[Stack'[d].queue] = given[Stack'[d].queue]
               /\ Stack'[d].what = "moved" => given[Stack'[d].queue] = Tasks!Handlers
    PROVE  SetRight'
<1>1. ASSUME NEW p \in Tasks!Queues, NEW d \in Depths'
      PROVE  /\ Is(d, {"finally"}, p)' /\ given'[p] = Tasks!Handlers => d = Depth' /\ set'[p] = given'[p]
             /\ Is(d, {"moved"}, p)' => given'[p] = Tasks!Handlers
  <2>1. CASE d >= Depth
    BY <2>1 DEF Is
  <2>2. CASE ~(d >= Depth)
    <3>1. Depth \in Nat
      BY DepthNat DEF TasksInv
    <3>2. d \in Depths /\ d # Depth /\ d \in 1 .. Depth - 1
      BY <2>2, <3>1 DEF Depths
    <3>3. Stack'[d] = Stack[d]
      BY <3>2 DEF Below
    <3> QED
      BY <3>2, <3>3, LowerSet
  <2> QED
    BY <2>1, <2>2
<1> QED
  BY <1>1 DEF SetRight, Keeps

\* All tasks were done.
LEMMA Resolves ==
    ASSUME TasksInv, Tasks!TypeOK', NEW q \in Tasks!Queues, Tasks!Ends(q, {"finally"}), UNCHANGED set,
           Depth \in Depths, Stack[Depth] = Entry("next", q), Depth' = Depth + 1, Below,
           Stack'[Depth'] = Entry("finally", q), Stack'[Depth' - 1] = Entry("resolved", q)
    PROVE  TasksInv'
<1> USE DEF TasksInv
<1>1. /\ Depth \in Nat /\ Depth' \in Nat /\ Depth' > Depth /\ Depth' >= Depth /\ Depth' >= Depth - 1
      /\ \A d \in Depths' : /\ d >= Depth => d \in {Depth, Depth'}
                            /\ d > Depth => d = Depth'
  BY DepthNat DEF Depths
<1>2. /\ Stack[Depth].what = "next" /\ Stack[Depth].queue = q
      /\ Stack'[Depth].what = "resolved" /\ Stack'[Depth].queue = q
      /\ Stack'[Depth'].what = "finally" /\ Stack'[Depth'].queue = q
  <2>1. Depth' - 1 = Depth
    BY <1>1
  <2>2. Stack'[Depth] = Entry("resolved", q)
    BY <2>1
  <2> QED
    BY <2>2 DEF Entry
<1>3. /\ running' = running \ {q}
      /\ UNCHANGED <<given, index, parent, waiting, fresh, runs, cascade, set>>
  BY DEF Tasks!Ends
<1>4. q \in running
  <2>1. WorksOn(q)
    BY <1>2 DEF WorksOn, Is, AtWork, Depths
  <2> QED
    BY <2>1 DEF GoingOn
<1>5. Stacked' /\ GoingOn' /\ Cascading'
  <2>1. /\ Stack'[Depth].what \in Outcomes
        /\ \A d \in Depths' : d >= Depth => Stack'[d].queue = q
        /\ \A d \in Depths' : d > Depth => Stack'[d].what \notin AtWork \cup Outcomes
        /\ \A d \in Depths' : d > Depth /\ d # Depth' => Stack'[d].what # "catch"
    BY <1>1, <1>2 DEF AtWork, Outcomes
  <2> QED
    BY <1>1, <1>2, <1>3, <2>1, RunEnded
<1>6. SetRight'
  <2>1. \A p \in Tasks!Queues : Keeps(p)'
    BY <1>3 DEF SetRight, Keeps
  <2>2. set'[q] = given[q]
    BY <1>3, <1>4 DEF SetRight, Keeps
  <2> QED
    BY <1>1, <1>2, <1>3, <2>1, <2>2, SetStays
<1>7. OwedRight'
  <2>1. \A d \in Depth .. Depth' : d \in {Depth, Depth'}
    BY <1>1
  <2>2. \A h \in Tasks!Handlers : h \notin {"finally"} => New(q, h) = {}
    BY <1>2, <2>1 DEF New, Is, Owes, Tasks!Handlers
  <2>3. New(q, "finally") = {Depth'} /\ Depth' \in Depth .. Depth'
    <3>1. \A d : (d = Depth' => Is(d, Owes("finally"), q)') /\ (d = Depth => ~Is(d, Owes("finally"), q)')
      BY <1>2 DEF Is, Owes
    <3>2. Depth' \in Depth .. Depth' /\ Depth' # 0
      BY <1>1
    <3> QED
      BY <2>1, <3>1, <3>2 DEF New
  <2>4. \A h \in Tasks!Handlers : \A p \in Tasks!Queues : p # q => New(p, h) = {}
    BY <1>2, <2>1 DEF New, Is
  <2>5. Stack[Depth].what \notin Tasks!Handlers \cup {"moved"}
    BY <1>2 DEF Tasks!Handlers
  <2>6. \A h \in Tasks!Handlers : h \in {"finally"} => \E x \in Depth .. Depth' : New(q, h) = {x}
    BY <2>3
  <2> QED
    BY <1>1, <1>3, <2>2, <2>4, <2>5, <2>6, OwedMore
<1> QED
  BY <1>5, <1>6, <1>7

\* A task was rejected.
LEMMA Rejects ==
    ASSUME TasksInv, Tasks!TypeOK', NEW q \in Tasks!Queues, Tasks!Ends(q, Tasks!Handlers),
           set' = [set EXCEPT ![q] = IF @ = Tasks!Handlers THEN {"catch"} ELSE @],
           Depth \in Depths, Stack[Depth] = Entry("fail", q), Depth' = Depth + 2, Below,
           Stack'[Depth'] = Entry("catch", q),
           Stack'[Depth' - 1] = Entry(IF set[q] = Tasks!Handlers THEN "moved" ELSE "finally", q),
           Stack'[Depth' - 2] = Entry("rejected", q)
    PROVE  TasksInv'
<1> USE DEF TasksInv
<1>0. PICK last : last = IF set[q] = Tasks!Handlers THEN "moved" ELSE "finally"
  OBVIOUS
<1>1. /\ Depth \in Nat /\ Depth' \in Nat /\ Depth' > Depth /\ Depth' >= Depth /\ Depth' >= Depth - 1
      /\ Depth' - 1 = Depth + 1 /\ Depth' - 2 = Depth /\ Depth + 1 # Depth'
      /\ \A d \in Depths' : /\ d >= Depth => d \in {Depth, Depth + 1, Depth'}
                            /\ d > Depth => d \in {Depth + 1, Depth'}
  BY DepthNat DEF Depths
<1>2. /\ Stack[Depth].what = "fail" /\ Stack[Depth].queue = q
      /\ Stack'[Depth].what = "rejected" /\ Stack'[Depth].queue = q
      /\ Stack'[Depth + 1].what = last /\ Stack'[Depth + 1].queue = q
      /\ Stack'[Depth'].what = "catch" /\ Stack'[Depth'].queue = q
  <2>1. Stack'[Depth] = Entry("rejected", q) /\ Stack'[Depth + 1] = Entry(last, q)
    BY <1>0, <1>1
  <2> QED
    BY <2>1 DEF Entry
<1>3. /\ running' = running \ {q}
      /\ UNCHANGED <<given, index, parent, waiting, fresh, runs, cascade>>
  BY DEF Tasks!Ends
<1>4. q \in running /\ set[q] = given[q] /\ q \notin fresh
  <2>1. WorksOn(q)
    BY <1>2 DEF WorksOn, Is, AtWork, Depths
  <2> QED
    BY <2>1 DEF GoingOn, SetRight, Keeps
<1>5. Stacked' /\ GoingOn' /\ Cascading'
  <2>1. /\ Stack'[Depth].what \in Outcomes
        /\ \A d \in Depths' : d >= Depth => Stack'[d].queue = q
        /\ \A d \in Depths' : d > Depth => Stack'[d].what \notin AtWork \cup Outcomes
        /\ \A d \in Depths' : d > Depth /\ d # Depth' => Stack'[d].what # "catch"
    BY <1>0, <1>1, <1>2 DEF AtWork, Outcomes
  <2> QED
    BY <1>1, <1>2, <1>3, <2>1, RunEnded
<1>6. SetRight'
  <2>0. \A p \in Tasks!Queues : set'[p] = IF p = q THEN (IF set[p] = Tasks!Handlers THEN {"catch"} ELSE set[p]) ELSE set[p]
    BY DEF Tasks!TypeOK
  <2>1. \A p \in Tasks!Queues : Keeps(p)'
    BY <1>3, <1>4, <2>0 DEF SetRight, Keeps
  <2>2. \A d \in Depths' : d >= Depth =>
               /\ Stack'[d].what = "finally" => given[q] # Tasks!Handlers
               /\ Stack'[d].what = "moved" => given[q] = Tasks!Handlers
               /\ Stack'[d].queue = q
    BY <1>0, <1>1, <1>2, <1>4
  <2> QED
    BY <1>1, <1>3, <2>1, <2>2, SetStays
<1>7. OwedRight'
  <2>1. \A d \in Depth .. Depth' : d \in {Depth, Depth + 1, Depth'}
    BY <1>1
  <2>2. Depth' \in Depth .. Depth' /\ Depth' # 0 /\ Depth + 1 \in Depth .. Depth' /\ Depth + 1 # 0
    BY <1>1
  <2>3. New(q, "finally") = {Depth + 1}
    <3>1. \A d : /\ d = Depth + 1 => Is(d, Owes("finally"), q)'
                 /\ d \in {Depth, Depth'} => ~Is(d, Owes("finally"), q)'
      BY <1>0, <1>2 DEF Is, Owes
    <3> QED
      BY <2>1, <2>2, <3>1 DEF New
  <2>4. New(q, "catch") = {Depth'}
    <3>1. \A d : /\ d = Depth' => Is(d, Owes("catch"), q)'
                 /\ d \in {Depth, Depth + 1} => ~Is(d, Owes("catch"), q)'
      BY <1>0, <1>2 DEF Is, Owes
    <3> QED
      BY <2>1, <2>2, <3>1 DEF New
  <2>5. \A h \in Tasks!Handlers : \A p \in Tasks!Queues : p # q => New(p, h) = {}
    BY <1>2, <2>1 DEF New, Is
  <2>6. Stack[Depth].what \notin Tasks!Handlers \cup {"moved"}
    BY <1>2 DEF Tasks!Handlers
  <2>7. \A h \in Tasks!Handlers : \E x \in Depth .. Depth' : New(q, h) = {x}
    BY <2>2, <2>3, <2>4 DEF Tasks!Handlers
  <2> QED
    BY <1>1, <1>3, <2>5, <2>6, <2>7, OwedMore
<1> QED
  BY <1>5, <1>6, <1>7

-----------------------------------------------------------------------------
(* Handlers are called, and the parent is told. *)

\* The innermost call is of a handler, and the handler was given.
LEMMA CallsGiven ==
    ASSUME TasksInv, NEW q \in Tasks!Queues, NEW h \in Tasks!Handlers, Depth \in Depths, Stack[Depth].queue = q,
           (Stack[Depth].what = h /\ h \in set[q]) \/ (h = "finally" /\ Stack[Depth].what = "moved")
    PROVE  h \in given[q]
<1> USE DEF TasksInv
<1>1. CASE Stack[Depth].what = h /\ h \in set[q]
  <2>1. runs[q] > 0
    BY DEF Stacked
  <2> QED
    BY <1>1, <2>1 DEF SetRight, Keeps, Tasks!Handlers
<1>2. CASE h = "finally" /\ Stack[Depth].what = "moved"
  <2>1. given[q] = Tasks!Handlers
    BY <1>2 DEF SetRight, Keeps, Is
  <2> QED
    BY <2>1
<1> QED
  BY <1>1, <1>2

LEMMA NotGiven ==
    ASSUME TasksInv, NEW q \in Tasks!Queues, NEW h \in Tasks!Handlers, Depth \in Depths,
           Stack[Depth].queue = q, Stack[Depth].what = h, h \notin set[q]
    PROVE  h \notin given[q]
<1> USE DEF TasksInv
<1>1. runs[q] > 0
  BY DEF Stacked
<1>2. set[q] = given[q] \/ (given[q] = Tasks!Handlers /\ set[q] = {"catch"})
  BY <1>1 DEF SetRight, Keeps
<1>3. CASE set[q] = given[q]
  BY <1>3
<1>4. CASE given[q] = Tasks!Handlers /\ set[q] = {"catch"}
  <2>1. h = "finally"
    BY <1>4 DEF Tasks!Handlers
  <2>2. set[q] = given[q]
    BY <1>4, <2>1 DEF SetRight, Keeps, Is
  <2> QED
    BY <2>2
<1> QED
  BY <1>2, <1>3, <1>4

\* It has been called.
LEMMA OwedLess ==
    ASSUME TasksInv, Tasks!TypeOK', UNCHANGED given, Below, Depth' >= Depth - 1, Depth \in Depths,
           NEW q \in Tasks!Queues, NEW h \in Tasks!Handlers, h \in given[q], Stack[Depth].queue = q,
           Stack[Depth].what = h \/ (h = "finally" /\ Stack[Depth].what = "moved"),
           owed' = [owed EXCEPT ![q][h] = @ - 1],
           \A d \in Depths' : d >= Depth => Stack'[d].what \notin Tasks!Handlers \cup {"moved"}
    PROVE  OwedRight'
<1> USE DEF TasksInv
<1>1. ASSUME NEW p \in Tasks!Queues, NEW g \in Tasks!Handlers
      PROVE  owed'[p][g] = IF g \in given'[p] THEN Cardinality(Owing(p, g)') ELSE 0
  <2>1. owed[p][g] = IF g \in given[p] THEN Cardinality(Owing(p, g)) ELSE 0
    BY DEF OwedRight
  <2>2. Owing(p, g)' = Owing(p, g) \ {Depth}
    <3>0. Depth \in Nat
      BY DepthNat
    <3>1. New(p, g) = {}
      <4>1. calls' \in Seq(Tasks!Calls)
        BY DEF Tasks!TypeOK
      <4>2. Depth' \in Nat
        BY <4>1 DEF Depth
      <4>3. \A d \in Depth .. Depth' : d # 0 => d \in Depths' /\ d >= Depth
        BY <3>0, <4>2 DEF Depths
      <4> QED
        BY <4>3 DEF New, Is, Owes, Tasks!Handlers
    <3>2. Owing(p, g)' = (Owing(p, g) \ {Depth}) \cup {d \in Depth .. Depth' : d # 0 /\ Is(d, Owes(g), p)'}
      BY OwingTop DEF Below
    <3> QED
      BY <3>1, <3>2 DEF New
  <2>3. owed \in [Tasks!Queues -> [Tasks!Handlers -> Int]]
    BY DEF Tasks!TypeOK
  <2>4. CASE p = q /\ g = h
    <3>1. owed'[p][g] = owed[p][g] - 1
      BY <2>3, <2>4
    <3>2. Depth \in Owing(p, g)
      BY <2>4 DEF Owing, Is
    <3>3. IsFiniteSet(Owing(p, g)) /\ Cardinality(Owing(p, g)) \in Nat
      BY OwingFinite, FS_CardinalityType
    <3>4. Cardinality(Owing(p, g) \ {Depth}) = Cardinality(Owing(p, g)) - 1
      BY <3>2, <3>3, FS_RemoveElement
    <3>5. Cardinality(Owing(p, g)') = Cardinality(Owing(p, g)) - 1
      BY <2>2, <3>4
    <3> QED
      BY <2>1, <2>4, <3>1, <3>3, <3>5
  <2>5. CASE ~(p = q /\ g = h)
    <3>1. owed'[p][g] = owed[p][g]
      BY <2>3, <2>5
    <3>2. Depth \notin Owing(p, g)
      BY <2>5 DEF Owing, Is, Tasks!Handlers
    <3>3. Owing(p, g)' = Owing(p, g)
      BY <2>2, <3>2
    <3> QED
      BY <2>1, <3>1, <3>3
  <2> QED
    BY <2>4, <2>5
<1> QED
  BY <1>1 DEF OwedRight

\* There is none to call.
LEMMA OwedNone ==
    ASSUME TasksInv, Tasks!TypeOK', UNCHANGED <<given, owed>>, Below, Depth' = Depth - 1, Depth \in Depths,
           NEW q \in Tasks!Queues, NEW h \in Tasks!Handlers, h \notin given[q], Stack[Depth] = Entry(h, q)
    PROVE  OwedRight'
<1> USE DEF TasksInv
<1>1. ASSUME NEW p \in Tasks!Queues, NEW g \in Tasks!Handlers, ~(p = q /\ g = h)
      PROVE  Owing(p, g)' = Owing(p, g)
  <2>0. Depth \in Nat
    BY DepthNat
  <2>1. New(p, g) = {} /\ Depth' >= Depth - 1
    BY <2>0 DEF New
  <2>2. Depth \notin Owing(p, g)
    BY <1>1 DEF Owing, Is, Tasks!Handlers, Entry
  <2>3. Owing(p, g)' = (Owing(p, g) \ {Depth}) \cup {d \in Depth .. Depth' : d # 0 /\ Is(d, Owes(g), p)'}
    BY <2>1, OwingTop DEF Below
  <2> QED
    BY <2>1, <2>2, <2>3 DEF New
<1> QED
  BY <1>1 DEF OwedRight

\* The innermost call returns and says nothing to a parent.
LEMMA Returns ==
    ASSUME TasksInv, Tasks!TypeOK', UNCHANGED <<given, set, running, parent, waiting, fresh, runs, cascade>>,
           Depth \in Depths, Depth' = Depth - 1, Below, Stack[Depth].what \notin AtWork,
           ~(parent = 1 /\ Is(Depth, Outcomes, "inner")), OwedRight'
    PROVE  TasksInv'
<1> USE DEF TasksInv
<1>1. Depth \in Nat /\ Depth' \in Nat /\ \A d \in Depths' : d \in Depths /\ d # Depth /\ Stack'[d] = Stack[d]
  BY DepthNat DEF Depths, Below
<1>2. \A d \in Depths : d # Depth => d \in Depths'
  BY <1>1 DEF Depths
<1>4. \A d \in Depths' : Stack[d].what \notin AtWork \cup {"catch"}
  BY <1>1 DEF Stacked
<1>5. Stacked'
  BY <1>1, <1>4 DEF Stacked, Is
<1>6. Embedded' <=> Embedded
  BY <1>1, <1>2 DEF Embedded, Is
<1>7. \A p \in Tasks!Queues : ~WorksOn(p)' /\ ~WorksOn(p)
  <2>1. Depth' # 0 => Depth' \in Depths'
    BY <1>1 DEF Depths
  <2> QED
    BY <1>1, <1>4, <2>1 DEF WorksOn, Is
<1>8. GoingOn'
  BY <1>6, <1>7 DEF GoingOn
<1>9. SetRight'
  BY <1>1, LowerSet DEF SetRight, Keeps
<1>11. Cascading'
  BY DEF Cascading, Is, AtWork
<1> QED
  BY <1>5, <1>8, <1>9, <1>11

\* A handler begins the next run.
LEMMA Restarts ==
    ASSUME TasksInv, Tasks!TypeOK', Habits = {}, NEW q \in Tasks!Queues, Tasks!MayRestart(q), Tasks!Start(q, 0),
           set' = [set EXCEPT ![q] = given[q]],
           Depth \in Depths, Depth' = Depth, Below, Stack[Depth].queue = q,
           Stack[Depth].what \in Tasks!Handlers \cup {"moved"}, Stack'[Depth'] = Entry("next", q), OwedRight'
    PROVE  TasksInv'
<1> USE DEF TasksInv
<1>0. Tasks!Queues = {"inner", "outer"}
  BY DEF Tasks!Queues
<1>1. Depth \in Nat /\ Depths' = Depths /\ \A d \in Depths : d \in 1 .. Depth - 1 \/ d = Depth
  BY DepthNat DEF Depths
<1>2. q \notin running /\ q \notin waiting /\ (parent = 0 \/ q = "outer")
  BY NotRunning DEF Tasks!MayRestart
<1>3. /\ parent' = IF q = "inner" THEN 0 ELSE parent
      /\ running' = running \cup {q} /\ fresh' = fresh \ {q}
      /\ \A p \in Tasks!Queues : runs'[p] = IF p = q THEN runs[p] + 1 ELSE runs[p]
      /\ runs'[q] > 0
      /\ cascade' = IF q = "outer" THEN 0 ELSE cascade
      /\ UNCHANGED <<given, waiting>>
  BY Starts
<1>4. \A d \in Depths : d # Depth => Stack'[d] = Stack[d] /\ Stack[d].what \notin AtWork \cup {"catch"}
  BY <1>1 DEF Below, Stacked
<1>5. Stack'[Depth].what = "next" /\ Stack'[Depth].queue = q /\ Stack[Depth].what \notin AtWork \cup Outcomes
  <2>1. Stack'[Depth] = Entry("next", q)
    OBVIOUS
  <2> QED
    BY <2>1 DEF Entry, AtWork, Outcomes, Tasks!Handlers
<1>6. \A d \in Depths : Stack'[d].queue = Stack[d].queue
  BY <1>4, <1>5
<1>7. Stacked'
  <2>1. \A d \in Depths' : d # Depth' => Stack'[d].what \notin AtWork \cup {"catch"}
    BY <1>1, <1>4
  <2>2. \A d, e \in Depths' : d < e /\ Stack'[e].queue = "outer" => Stack'[d].queue = "outer"
    BY <1>1, <1>6 DEF Stacked
  <2>3. ASSUME NEW p \in Tasks!Queues, NEW d \in Depths', Stack'[d].queue = p
        PROVE  runs'[p] > 0
    BY <1>1, <1>3, <1>6, <2>3 DEF Stacked
  <2>4. ASSUME parent' = 1, NEW d \in Depths', NEW e \in Depths', d < e, Is(e, Outcomes, "inner")'
        PROVE  Stack'[d].queue = "outer"
    <3>1. parent = 1 /\ e # Depth
      BY <1>2, <1>3, <1>5, <2>4 DEF Is, Outcomes
    <3>2. Is(e, Outcomes, "inner")
      BY <1>1, <1>4, <2>4, <3>1 DEF Is
    <3> QED
      BY <1>1, <1>6, <2>4, <3>1, <3>2 DEF Stacked
  <2>5. ASSUME parent' = 1, "inner" \in running', NEW d \in Depths', Stack'[d].queue = "inner"
        PROVE  Is(d, AtWork, "inner")'
    <3>1. parent = 1 /\ q = "outer" /\ "inner" \in running
      BY <1>0, <1>2, <1>3, <2>5
    <3>2. d # Depth /\ Stack[d].queue = "inner"
      BY <1>1, <1>5, <1>6, <2>5, <3>1
    <3>3. Is(d, AtWork, "inner")
      BY <1>1, <2>5, <3>1, <3>2 DEF Stacked
    <3> QED
      BY <1>1, <1>4, <3>2, <3>3 DEF Is
  <2> QED
    BY <2>1, <2>2, <2>3, <2>4, <2>5 DEF Stacked
<1>8. ~Embedded /\ ~Embedded'
  <2>1. CASE q = "inner"
    BY <1>2, <1>3, <2>1 DEF Embedded
  <2>2. CASE q = "outer"
    <3>1. ~Embedded
      BY <1>2, <2>2 DEF GoingOn
    <3>2. ASSUME NEW d \in Depths' PROVE Is(d, Outcomes, "inner")' => Is(d, Outcomes, "inner")
      BY <1>1, <1>4, <1>5, <2>2 DEF Is, Outcomes
    <3> QED
      BY <1>1, <1>3, <2>2, <3>1, <3>2 DEF Embedded
  <2> QED
    BY <1>0, <2>1, <2>2
<1>9. \A p \in Tasks!Queues : ~WorksOn(p) /\ (WorksOn(p)' <=> p = q)
  BY <1>1, <1>5 DEF WorksOn, Is, AtWork, Depths
<1>10. GoingOn'
  BY <1>2, <1>3, <1>8, <1>9 DEF GoingOn
<1>11. SetRight'
  <2>1. \A p \in Tasks!Queues : set'[p] = IF p = q THEN given[p] ELSE set[p]
    BY DEF Tasks!TypeOK
  <2>2. \A p \in Tasks!Queues : Keeps(p)'
    BY <1>3, <2>1 DEF SetRight, Keeps
  <2>3. \A d \in Depths' : d >= Depth => d = Depth
    BY <1>1 DEF Depths
  <2>4. Depth' >= Depth - 1
    BY <1>1
  <2> QED
    BY <1>3, <1>5, <2>2, <2>3, <2>4, SetStays
<1>12. Cascading'
  <2>1. cascade = 1 => "outer" \notin running
    BY <1>5 DEF Cascading, Is, AtWork
  <2> QED
    BY <1>3, <2>1 DEF Cascading
<1> QED
  BY <1>7, <1>10, <1>11, <1>12

\* The inner queue has ended, and the outer one goes on.
LEMMA Tells ==
    ASSUME TasksInv, Tasks!TypeOK', UNCHANGED <<given, set, running, parent, waiting, fresh, runs, owed>>,
           parent = 1, Depth \in Depths, Stack[Depth].queue = "inner", NEW w,
           \/ Stack[Depth].what = "resolved" /\ w = "next" /\ cascade' = cascade
           \/ Stack[Depth].what = "rejected" /\ w = "fail" /\ cascade' = 1,
           Depth' = Depth, Below, Stack'[Depth'] = Entry(w, "outer")
    PROVE  TasksInv'
<1> USE DEF TasksInv
<1>0. "inner" \in Tasks!Queues /\ "outer" \in Tasks!Queues /\ Tasks!Queues = {"inner", "outer"}
  BY DEF Tasks!Queues
<1>1. Depth \in Nat /\ Depths' = Depths /\ \A d \in Depths : (d \in 1 .. Depth - 1 /\ d < Depth) \/ d = Depth
  BY DepthNat DEF Depths
<1>2. /\ Stack'[Depth].what = w /\ Stack'[Depth].queue = "outer"
      /\ Is(Depth, Outcomes, "inner") /\ w \in AtWork
  <2>1. Stack'[Depth] = Entry(w, "outer")
    OBVIOUS
  <2> QED
    BY <2>1 DEF Entry, Is, Outcomes, AtWork
<1>3. \A d \in Depths : d # Depth => Stack'[d] = Stack[d] /\ Stack[d].what \notin AtWork \cup {"catch"}
  BY <1>1 DEF Below, Stacked
<1>4. \A d \in Depths : d # Depth => Stack[d].queue = "outer"
  BY <1>1, <1>2 DEF Stacked
<1>5. \A d \in Depths : Stack'[d].queue = "outer"
  BY <1>2, <1>3, <1>4
<1>6. "inner" \notin running
  BY <1>2 DEF Stacked, Is, AtWork, Outcomes
<1>7. Embedded /\ ~Embedded' /\ "outer" \in running
  <2>1. Embedded
    BY <1>2 DEF Embedded
  <2>2. \A d \in Depths' : ~Is(d, Outcomes, "inner")'
    BY <1>1, <1>5 DEF Is
  <2> QED
    BY <1>6, <2>1, <2>2 DEF Embedded, GoingOn
<1>8. Stacked'
  <2>1. \A d \in Depths' : d # Depth' => Stack'[d].what \notin AtWork \cup {"catch"}
    BY <1>1, <1>3
  <2>2. \A q \in Tasks!Queues : (\E d \in Depths' : Stack'[d].queue = q) => runs'[q] > 0
    <3>1. runs["outer"] > 0
      BY <1>0, <1>7 DEF SetRight, Keeps
    <3> QED
      BY <1>1, <1>5, <3>1
  <2>3. \A d \in Depths' : ~Is(d, Outcomes, "inner")'
    BY <1>1, <1>5 DEF Is
  <2> QED
    BY <1>1, <1>5, <1>6, <2>1, <2>2, <2>3 DEF Stacked
<1>9. \A p \in Tasks!Queues : ~WorksOn(p) /\ (WorksOn(p)' <=> p = "outer")
  <2>1. Depth # 0
    BY DEF Depths
  <2>2. Depth' = Depth
    OBVIOUS
  <2>3. Stack[Depth].what \notin AtWork
    BY DEF AtWork
  <2> QED
    BY <1>2, <2>1, <2>2, <2>3 DEF WorksOn, Is
<1>10. GoingOn'
  <2>1. "outer" \notin waiting /\ "inner" \notin waiting
    BY <1>0, <1>6, <1>7 DEF GoingOn
  <2> QED
    BY <1>0, <1>6, <1>7, <1>9, <2>1 DEF GoingOn
<1>11. SetRight' /\ OwedRight'
  <2>1. \A q \in Tasks!Queues : Keeps(q)'
    BY DEF SetRight, Keeps
  <2>2. \A d \in Depths' : d >= Depth => d = Depth
    BY <1>1 DEF Depths
  <2>3. Depth' >= Depth - 1
    BY <1>1
  <2>4. SetRight'
    BY <1>2, <2>1, <2>2, <2>3, SetStays DEF AtWork
  <2>5. OwedRight'
    BY <1>2, <2>2, <2>3, OwedStays DEF AtWork, Outcomes, Tasks!Handlers, Is
  <2> QED
    BY <2>4, <2>5
<1>12. Cascading'
  <2>1. cascade # 1
    BY <1>7 DEF Cascading, Is
  <2>2. Depth' # 0 /\ Depth' = Depth
    BY DEF Depths
  <2> QED
    BY <1>2, <2>1, <2>2 DEF Cascading, Is
<1> QED
  BY <1>8, <1>10, <1>11, <1>12

-----------------------------------------------------------------------------
(* The actions. *)

\* The types of what a run begins with.
LEMMA StartTypes ==
    ASSUME Tasks!TypeOK, NEW q \in Tasks!Queues, NEW from \in {0, 1}, Tasks!Start(q, from),
           calls' \in Seq(Tasks!Calls), set' \in [Tasks!Queues -> SUBSET Tasks!Handlers],
           owed' \in [Tasks!Queues -> [Tasks!Handlers -> Int]]
    PROVE  Tasks!TypeOK'
<1>1. Length \in Nat
  BY MainAssumption DEF Tasks!TaskAssumption
<1>2. index' \in [Tasks!Queues -> 0 .. Length]
  BY <1>1 DEF Tasks!Start, Tasks!TypeOK
<1>3. runs' \in [Tasks!Queues -> Nat]
  BY DEF Tasks!Start, Tasks!TypeOK
<1>4. running' \subseteq Tasks!Queues /\ fresh' \subseteq Tasks!Queues /\ parent' \in {0, 1} /\ cascade' \in {0, 1}
  BY DEF Tasks!Start, Tasks!TypeOK
<1>5. given' = given /\ waiting' = waiting
  BY DEF Tasks!Start
<1> QED
  BY <1>2, <1>3, <1>4, <1>5 DEF Tasks!TypeOK

LEMMA EndTypes ==
    ASSUME Tasks!TypeOK, NEW q \in Tasks!Queues, NEW handlers, Tasks!Ends(q, handlers),
           calls' \in Seq(Tasks!Calls), set' \in [Tasks!Queues -> SUBSET Tasks!Handlers]
    PROVE  Tasks!TypeOK'
<1>1. owed' \in [Tasks!Queues -> [Tasks!Handlers -> Int]]
  <2>1. [h \in Tasks!Handlers |-> owed[q][h] + IF h \in handlers \cap given[q] THEN 1 ELSE 0]
            \in [Tasks!Handlers -> Int]
    BY DEF Tasks!TypeOK
  <2> QED
    BY <2>1 DEF Tasks!Ends, Tasks!TypeOK
<1>2. /\ running' \subseteq Tasks!Queues
      /\ UNCHANGED <<given, index, parent, waiting, fresh, runs, cascade>>
  BY DEF Tasks!Ends, Tasks!TypeOK
<1> QED
  BY <1>1, <1>2 DEF Tasks!TypeOK

\* Of the innermost call.
LEMMA TopIs ==
    ASSUME TasksInv, NEW w, NEW q, Tasks!Now(w, q)
    PROVE  /\ Depth \in Nat \ {0} /\ Depth \in Depths /\ calls # << >>
           /\ Stack[Depth] = Entry(w, q) /\ Stack[Depth].what = w /\ Stack[Depth].queue = q
<1>1. Depth \in Nat \ {0} /\ Depth \in Depths /\ Stack[Depth] = Entry(w, q) /\ calls # << >>
  BY NowTop DEF TasksInv
<1> QED
  BY <1>1 DEF Entry

LEMMA BuildStep ==
    ASSUME TasksInv, NEW q \in Tasks!Queues, Tasks!Build(q)
    PROVE  TasksInv'
<1>1. Tasks!TypeOK'
  BY DEF TasksInv, Tasks!TypeOK, Tasks!Build
<1> QED
  BY <1>1, Builds

LEMMA RunStep ==
    ASSUME TasksInv, Habits = {}, NEW q \in Tasks!Queues, Tasks!run(q)
    PROVE  TasksInv'
<1> USE DEF TasksInv
<1>1. calls' \in Seq(Tasks!Calls)
  BY Begins DEF Tasks!run, Whats
<1>2. Tasks!Start(q, 0) /\ set' = set /\ owed' = owed
  BY DEF Tasks!run
<1>3. set' \in [Tasks!Queues -> SUBSET Tasks!Handlers] /\ owed' \in [Tasks!Queues -> [Tasks!Handlers -> Int]]
  BY <1>2 DEF Tasks!TypeOK
<1>4. Tasks!TypeOK'
  BY <1>1, <1>2, <1>3, StartTypes
<1> QED
  BY <1>4, RunBegins

LEMMA CompleteStep ==
    ASSUME TasksInv, NEW q \in Tasks!Queues, Tasks!complete(q)
    PROVE  TasksInv'
<1> USE DEF TasksInv
<1>1. PICK w \in {"next", "fail"} : calls' = Tasks!Call(w, q)
  BY DEF Tasks!complete
<1>2. calls' \in Seq(Tasks!Calls)
  BY <1>1, Begins DEF Tasks!complete, Whats
<1>3. Tasks!TypeOK'
  BY <1>2 DEF Tasks!TypeOK, Tasks!complete, Tasks!state, Tasks!history
<1> QED
  BY <1>3, Completes

LEMMA RunNextStep ==
    ASSUME TasksInv, NEW q \in Tasks!Queues, Tasks!runNext(q)
    PROVE  TasksInv'
<1> USE DEF TasksInv
<1>1. /\ Depth \in Nat \ {0} /\ Depth \in Depths /\ calls # << >> /\ Stack[Depth] = Entry("next", q)
      /\ Stack[Depth].what = "next" /\ Stack[Depth].queue = q
  BY TopIs DEF Tasks!runNext
<1>2. CASE /\ Tasks!Ends(q, {"finally"}) /\ UNCHANGED set
           /\ Tasks!Then(Tasks!Call("finally", q) \o Tasks!Call("resolved", q))
  <2>1. "finally" \in Whats /\ "resolved" \in Whats
    BY DEF Whats
  <2>2. /\ calls' \in Seq(Tasks!Calls) /\ Depth' = Depth + 1 /\ Below
        /\ Stack'[Depth'] = Entry("finally", q) /\ Stack'[Depth' - 1] = Entry("resolved", q)
    BY <1>1, <1>2, <2>1, PushesTwo DEF Below
  <2>3. Tasks!TypeOK'
    <3>1. set' \in [Tasks!Queues -> SUBSET Tasks!Handlers]
      BY <1>2 DEF Tasks!TypeOK
    <3> QED
      BY <1>2, <2>2, <3>1, EndTypes
  <2> QED
    BY <1>1, <1>2, <2>2, <2>3, Resolves
<1>3. CASE /\ ~Tasks!AtEnd(q) /\ Tasks!Advance(q) /\ Tasks!Then(Tasks!Call("task", q))
           /\ UNCHANGED <<given, set, running, parent, waiting, Tasks!history>>
  <2>1. calls' \in Seq(Tasks!Calls) /\ Depth' = Depth /\ Below /\ Stack'[Depth'] = Entry("task", q)
    BY <1>1, <1>3, Replaces DEF Whats, Below
  <2>2. UNCHANGED <<given, set, running, parent, waiting, fresh, runs, owed, cascade>>
    BY <1>3 DEF Tasks!history
  <2>3. index' \in [Tasks!Queues -> 0 .. Length]
    <3>1. Length \in Nat
      BY MainAssumption DEF Tasks!TaskAssumption
    <3>2. index \in [Tasks!Queues -> 0 .. Length] /\ ~(index[q] >= Length) /\ index' = [index EXCEPT ![q] = @ + 1]
      BY <1>3 DEF Tasks!TypeOK, Tasks!AtEnd, Tasks!Advance
    <3>3. index[q] + 1 \in 0 .. Length
      BY <3>1, <3>2
    <3> QED
      BY <3>2, <3>3
  <2>4. Tasks!TypeOK'
    BY <2>1, <2>2, <2>3 DEF Tasks!TypeOK
  <2>5. "task" \in AtWork /\ Stack[Depth].what \in {"next", "task"}
    BY <1>1 DEF AtWork
  <2> QED
    BY <1>1, <2>1, <2>2, <2>4, <2>5, StillWorks
<1> QED
  BY <1>2, <1>3 DEF Tasks!runNext

LEMMA TaskStep ==
    ASSUME TasksInv, Habits = {}, NEW q \in Tasks!Queues, Tasks!Task(q)
    PROVE  TasksInv'
<1> USE DEF TasksInv
<1>1. /\ Depth \in Nat \ {0} /\ Depth \in Depths /\ calls # << >> /\ Stack[Depth] = Entry("task", q)
      /\ Stack[Depth].what = "task" /\ Stack[Depth].queue = q
  BY TopIs DEF Tasks!Task
<1>2. ASSUME NEW w \in {"next", "fail"}, Tasks!Then(Tasks!Call(w, q)),
             UNCHANGED <<given, Tasks!state, waiting, Tasks!history>>
      PROVE  TasksInv'
  <2>1. w \in Whats /\ w \in AtWork
    BY DEF Whats, AtWork
  <2>2. calls' \in Seq(Tasks!Calls) /\ Depth' = Depth /\ Below /\ Stack'[Depth'] = Entry(w, q)
    BY <1>1, <1>2, <2>1, Replaces DEF Below
  <2>3. UNCHANGED <<given, set, index, running, parent, waiting, fresh, runs, owed, cascade>>
    BY <1>2 DEF Tasks!history, Tasks!state
  <2>4. Tasks!TypeOK'
    BY <2>2, <2>3 DEF Tasks!TypeOK
  <2>5. Stack[Depth].what \in {"next", "task"}
    BY <1>1
  <2> QED
    BY <1>1, <2>1, <2>2, <2>3, <2>4, <2>5, StillWorks
<1>3. CASE waiting' = waiting \cup {q} /\ Tasks!Then(<< >>) /\ UNCHANGED <<given, Tasks!state, Tasks!history>>
  <2>1. calls' \in Seq(Tasks!Calls) /\ Depth' = Depth - 1 /\ Below
    BY <1>1, <1>3, Pops DEF Below
  <2>2. UNCHANGED <<given, set, index, running, parent, fresh, runs, owed, cascade>>
    BY <1>3 DEF Tasks!history, Tasks!state
  <2>3. waiting' \subseteq Tasks!Queues
    BY <1>3 DEF Tasks!TypeOK
  <2>4. Tasks!TypeOK'
    BY <2>1, <2>2, <2>3 DEF Tasks!TypeOK
  <2> QED
    BY <1>1, <1>3, <2>1, <2>2, <2>4, TaskWaits
<1>4. CASE /\ q = "outer" /\ Tasks!MayRun("inner") /\ Tasks!Scheduled /\ Tasks!Then(Tasks!Call("next", "inner"))
           /\ UNCHANGED <<set, owed>>
  <2>1. "inner" \in Tasks!Queues /\ "next" \in Whats
    BY DEF Tasks!Queues, Whats
  <2>2. calls' \in Seq(Tasks!Calls) /\ Depth' = Depth /\ Below /\ Stack'[Depth'] = Entry("next", "inner")
    BY <1>1, <1>4, <2>1, Replaces DEF Below
  <2>3. Tasks!Start("inner", 1)
    BY <1>4 DEF Tasks!Scheduled
  <2>4. set' \in [Tasks!Queues -> SUBSET Tasks!Handlers] /\ owed' \in [Tasks!Queues -> [Tasks!Handlers -> Int]]
    BY <1>4 DEF Tasks!TypeOK
  <2>5. Tasks!TypeOK'
    BY <2>1, <2>2, <2>3, <2>4, StartTypes
  <2> QED
    BY <1>1, <1>4, <2>2, <2>5, Embeds
<1> QED
  BY <1>2, <1>3, <1>4 DEF Tasks!Task

LEMMA RunCatchStep ==
    ASSUME TasksInv, NEW q \in Tasks!Queues, Tasks!runCatch(q)
    PROVE  TasksInv'
<1> USE DEF TasksInv
<1>1. /\ Depth \in Nat \ {0} /\ Depth \in Depths /\ calls # << >> /\ Stack[Depth] = Entry("fail", q)
  BY TopIs DEF Tasks!runCatch
<1> DEFINE last == IF set[q] = Tasks!Handlers THEN "moved" ELSE "finally"
<1>2. last \in Whats /\ "catch" \in Whats /\ "rejected" \in Whats
  BY DEF Whats
<1>3. Tasks!Then(Tasks!Call("catch", q) \o Tasks!Call(last, q) \o Tasks!Call("rejected", q))
  BY DEF Tasks!runCatch, Tasks!LastHandler
<1>4. /\ Tasks!Ends(q, Tasks!Handlers)
      /\ set' = [set EXCEPT ![q] = IF @ = Tasks!Handlers THEN {"catch"} ELSE @]
  BY DEF Tasks!runCatch
<1> HIDE DEF last
<1>5. /\ calls' \in Seq(Tasks!Calls) /\ Depth' = Depth + 2 /\ Below
      /\ Stack'[Depth'] = Entry("catch", q) /\ Stack'[Depth' - 1] = Entry(last, q)
      /\ Stack'[Depth' - 2] = Entry("rejected", q)
  BY <1>1, <1>2, <1>3, PushesThree DEF Below
<1>6. Tasks!TypeOK'
  <2>1. set' \in [Tasks!Queues -> SUBSET Tasks!Handlers]
    BY <1>4 DEF Tasks!TypeOK, Tasks!Handlers
  <2> QED
    BY <1>4, <1>5, <2>1, EndTypes
<1>7. Stack'[Depth' - 1] = Entry(IF set[q] = Tasks!Handlers THEN "moved" ELSE "finally", q)
  BY <1>5 DEF last
<1> QED
  BY <1>1, <1>4, <1>5, <1>6, <1>7, Rejects

LEMMA HandlerStep ==
    ASSUME TasksInv, Habits = {}, NEW q \in Tasks!Queues, NEW h \in Tasks!Handlers, Tasks!Handler(h, q)
    PROVE  TasksInv'
<1> USE DEF TasksInv
<1>1. CASE /\ Tasks!Now(h, q) /\ h \notin set[q]
           /\ Tasks!Then(<< >>) /\ UNCHANGED <<given, Tasks!state, waiting, Tasks!history>>
  <2>1. /\ Depth \in Nat \ {0} /\ Depth \in Depths /\ calls # << >> /\ Stack[Depth] = Entry(h, q)
        /\ Stack[Depth].what = h /\ Stack[Depth].queue = q
    BY <1>1, TopIs
  <2>2. calls' \in Seq(Tasks!Calls) /\ Depth' = Depth - 1 /\ Below
    BY <1>1, <2>1, Pops DEF Below
  <2>3. UNCHANGED <<given, set, index, running, parent, waiting, fresh, runs, owed, cascade>>
    BY <1>1 DEF Tasks!history, Tasks!state
  <2>4. Tasks!TypeOK'
    BY <2>2, <2>3 DEF Tasks!TypeOK
  <2>5. h \notin given[q]
    BY <1>1, <2>1, NotGiven
  <2>6. OwedRight'
    BY <2>1, <2>2, <2>3, <2>4, <2>5, OwedNone
  <2>7. Stack[Depth].what \notin AtWork \cup Outcomes
    BY <2>1 DEF AtWork, Outcomes, Tasks!Handlers
  <2> QED
    BY <2>1, <2>2, <2>3, <2>4, <2>6, <2>7, Returns DEF Is
<1>2. ASSUME (Tasks!Now(h, q) /\ h \in set[q]) \/ (h = "finally" /\ Tasks!Now("moved", q)),
             owed' = [owed EXCEPT ![q][h] = @ - 1],
             \/ Tasks!Then(<< >>) /\ UNCHANGED <<given, Tasks!state, waiting, fresh, runs, cascade>>
             \/ /\ Tasks!MayRestart(q)
                /\ set' = [set EXCEPT ![q] = given[q]]
                /\ Tasks!Start(q, 0) /\ Tasks!Then(Tasks!Call("next", q))
      PROVE  TasksInv'
  <2>1. /\ Depth \in Nat \ {0} /\ Depth \in Depths /\ calls # << >> /\ Stack[Depth].queue = q
        /\ (Stack[Depth].what = h /\ h \in set[q]) \/ (h = "finally" /\ Stack[Depth].what = "moved")
    BY <1>2, TopIs
  <2>2. h \in given[q]
    BY <2>1, CallsGiven
  <2>3. Stack[Depth].what \in Tasks!Handlers \cup {"moved"}
    BY <2>1
  <2>4. owed' \in [Tasks!Queues -> [Tasks!Handlers -> Int]]
    BY <1>2 DEF Tasks!TypeOK
  <2>5. CASE Tasks!Then(<< >>) /\ UNCHANGED <<given, Tasks!state, waiting, fresh, runs, cascade>>
    <3>1. calls' \in Seq(Tasks!Calls) /\ Depth' = Depth - 1 /\ Below
      BY <2>1, <2>5, Pops DEF Below
    <3>2. UNCHANGED <<given, set, index, running, parent, waiting, fresh, runs, cascade>>
      BY <2>5 DEF Tasks!state
    <3>3. Tasks!TypeOK'
      BY <2>4, <3>1, <3>2 DEF Tasks!TypeOK
    <3>4. \A d \in Depths' : ~(d >= Depth) /\ Depth' >= Depth - 1
      BY <2>1, <3>1 DEF Depths
    <3>5. Depth' >= Depth - 1
      BY <2>1, <3>1
    <3>6. OwedRight'
      BY <1>2, <2>1, <2>2, <3>1, <3>2, <3>3, <3>4, <3>5, OwedLess
    <3>7. Stack[Depth].what \notin AtWork \cup Outcomes
      BY <2>3 DEF AtWork, Outcomes, Tasks!Handlers
    <3> QED
      BY <2>1, <3>1, <3>2, <3>3, <3>6, <3>7, Returns DEF Is
  <2>6. CASE /\ Tasks!MayRestart(q)
             /\ set' = [set EXCEPT ![q] = given[q]]
             /\ Tasks!Start(q, 0) /\ Tasks!Then(Tasks!Call("next", q))
    <3>1. calls' \in Seq(Tasks!Calls) /\ Depth' = Depth /\ Below /\ Stack'[Depth'] = Entry("next", q)
      BY <2>1, <2>6, Replaces DEF Whats, Below
    <3>2. set' \in [Tasks!Queues -> SUBSET Tasks!Handlers]
      BY <2>6 DEF Tasks!TypeOK
    <3>3. Tasks!TypeOK'
      BY <2>4, <2>6, <3>1, <3>2, StartTypes
    <3>4. \A d \in Depths' : d >= Depth => d = Depth
      BY <2>1, <3>1 DEF Depths
    <3>5. Depth' >= Depth - 1 /\ given' = given
      BY <2>1, <2>6, <3>1 DEF Tasks!Start
    <3>6. Stack'[Depth].what \notin Tasks!Handlers \cup {"moved"}
      <4>1. Stack'[Depth] = Entry("next", q)
        BY <3>1
      <4> QED
        BY <4>1 DEF Entry, Tasks!Handlers
    <3>7. OwedRight'
      BY <1>2, <2>1, <2>2, <3>1, <3>3, <3>4, <3>5, <3>6, OwedLess
    <3> QED
      BY <2>1, <2>3, <2>6, <3>1, <3>3, <3>7, Restarts
  <2> QED
    BY <1>2, <2>5, <2>6
<1> QED
  BY <1>1, <1>2 DEF Tasks!Handler

LEMMA TellParentStep ==
    ASSUME TasksInv, NEW q \in Tasks!Queues, Tasks!TellParent(q)
    PROVE  TasksInv'
<1> USE DEF TasksInv
<1>1. PICK what \in Outcomes : Tasks!Now(what, q)
  BY DEF Tasks!TellParent, Outcomes
<1>2. /\ Depth \in Nat \ {0} /\ Depth \in Depths /\ calls # << >>
      /\ Stack[Depth].what = what /\ Stack[Depth].queue = q
  BY <1>1, TopIs
<1>3. Tasks!Now("rejected", q) <=> what = "rejected"
  BY <1>1, TopIs
<1>4. Tasks!Now("resolved", q) <=> what = "resolved"
  BY <1>1, TopIs
<1>5. UNCHANGED <<given, set, index, running, parent, waiting, fresh, runs, owed>>
  BY DEF Tasks!TellParent, Tasks!state
<1>6. CASE ~(q = "inner" /\ parent = 1)
  <2>1. Tasks!Then(<< >>) /\ cascade' = cascade
    BY <1>6 DEF Tasks!TellParent
  <2>2. calls' \in Seq(Tasks!Calls) /\ Depth' = Depth - 1 /\ Below
    BY <1>2, <2>1, Pops DEF Below
  <2>3. Tasks!TypeOK'
    BY <1>5, <2>1, <2>2 DEF Tasks!TypeOK
  <2>4. ~(parent = 1 /\ Is(Depth, Outcomes, "inner")) /\ Stack[Depth].what \notin AtWork
    BY <1>2, <1>6 DEF Is, AtWork, Outcomes
  <2>5. Stack[Depth].what \notin Tasks!Handlers \cup {"moved"}
    BY <1>2 DEF Tasks!Handlers, Outcomes
  <2>6. /\ \A d \in Depths' : ~(d >= Depth)
        /\ Depth' >= Depth - 1
    BY <1>2, <2>2 DEF Depths
  <2>7. OwedRight'
    BY <1>5, <2>2, <2>3, <2>5, <2>6, OwedStays
  <2> QED
    BY <1>2, <1>5, <2>1, <2>2, <2>3, <2>4, <2>7, Returns
<1>7. CASE q = "inner" /\ parent = 1
  <2> DEFINE w == IF what = "resolved" THEN "next" ELSE "fail"
  <2>0. w \in Whats /\ "outer" \in Tasks!Queues
    BY DEF Whats, Tasks!Queues
  <2>1. Tasks!Then(Tasks!Call(w, "outer"))
    BY <1>4, <1>7 DEF Tasks!TellParent, Tasks!Outcome
  <2>2. cascade' = IF what = "rejected" THEN 1 ELSE cascade
    BY <1>3, <1>7 DEF Tasks!TellParent
  <2>3. \/ what = "resolved" /\ w = "next" /\ cascade' = cascade
        \/ what = "rejected" /\ w = "fail" /\ cascade' = 1
    BY <2>2 DEF Outcomes
  <2> HIDE DEF w
  <2>4. calls' \in Seq(Tasks!Calls) /\ Depth' = Depth /\ Below /\ Stack'[Depth'] = Entry(w, "outer")
    BY <1>2, <2>0, <2>1, Replaces DEF Below
  <2>5. Tasks!TypeOK'
    BY <1>5, <2>2, <2>4 DEF Tasks!TypeOK
  <2> QED
    BY <1>2, <1>5, <1>7, <2>3, <2>4, <2>5, Tells
<1> QED
  BY <1>6, <1>7

LEMMA TasksStep ==
    ASSUME TasksInv, Habits = {}, Tasks!Next
    PROVE  TasksInv'
BY BuildStep, RunStep, CompleteStep, RunNextStep, TaskStep, RunCatchStep, HandlerStep, TellParentStep
   DEF Tasks!Next, Tasks!Works

LEMMA TasksInit == ASSUME Tasks!Init PROVE TasksInv
<1>1. Length \in Nat
  BY MainAssumption DEF Tasks!TaskAssumption
<1>2. Tasks!TypeOK
  BY <1>1 DEF Tasks!Init, Tasks!TypeOK
<1>3. Depth = 0 /\ Depths = {}
  <2>1. Depth = 0
    BY <1>2, DepthNat DEF Tasks!Init
  <2> QED
    BY <2>1 DEF Depths
<1>4. Stacked /\ Cascading
  BY <1>3 DEF Stacked, Cascading, Tasks!Init
<1>5. GoingOn
  BY <1>3 DEF GoingOn, Embedded, WorksOn, Tasks!Init
<1>6. SetRight
  BY <1>3 DEF SetRight, Keeps, Tasks!Init
<1>7. OwedRight
  <2>1. \A q, h : Owing(q, h) = {}
    BY <1>3 DEF Owing
  <2> QED
    BY <2>1, FS_EmptySet DEF OwedRight, Tasks!Init
<1> QED
  BY <1>2, <1>4, <1>5, <1>6, <1>7 DEF TasksInv

LEMMA TasksSound == ASSUME TasksInv PROVE QueuesSound
<1> USE DEF TasksInv
<1>1. CASE Tasks!Idle
  <2>1. Depth = 0 /\ Depths = {}
    <3>1. Depth = 0
      BY <1>1, DepthNat DEF Tasks!Idle
    <3> QED
      BY <3>1 DEF Depths
  <2>2. Tasks!GoesOn
    <3>1. \A q \in Tasks!Queues : q \in waiting <=> (q \in running /\ ~(q = "outer" /\ Embedded))
      BY <2>1 DEF GoingOn, WorksOn
    <3>2. Embedded <=> parent = 1 /\ "inner" \in running
      BY <2>1 DEF Embedded
    <3>3. running \subseteq Tasks!Queues
      BY DEF Tasks!TypeOK
    <3> QED
      BY <3>1, <3>2, <3>3 DEF Tasks!GoesOn
  <2>3. Tasks!HandlersOnce
    <3>1. \A q, h : Owing(q, h) = {}
      BY <2>1 DEF Owing
    <3> QED
      BY <3>1, FS_EmptySet DEF OwedRight, Tasks!HandlersOnce
  <2>4. Tasks!Cascades
    BY <2>1 DEF Cascading, Tasks!Cascades
  <2> QED
    BY <2>2, <2>3, <2>4 DEF QueuesSound
<1>2. CASE ~Tasks!Idle
  BY <1>2 DEF QueuesSound, Tasks!GoesOn, Tasks!HandlersOnce, Tasks!Cascades
<1> QED
  BY <1>1, <1>2

(* Whatever handlers the queues are given and however their tasks end: a   *)
(* queue that runs has someone who goes on with it, each run calls each of *)
(* its handlers once, and the rejection of an embedded queue rejects the   *)
(* one that embeds it, if the program reruns no queue that a rejection     *)
(* left without its handler and restarts none that another one waits for.  *)
THEOREM QueuesStaySound == Habits = {} => (MainSpec => []QueuesSound)
<1> SUFFICES ASSUME Habits = {} PROVE MainSpec => []QueuesSound
  OBVIOUS
<1>1. MainInit => TasksInv
  BY TasksInit DEF MainInit
<1>2. TasksInv /\ [MainNext]_all => TasksInv'
  <2>1. ASSUME TasksInv, UNCHANGED tasks PROVE TasksInv'
    <3>1. UNCHANGED <<given, set, index, running, parent, calls, waiting, fresh, runs, owed, cascade>>
      BY <2>1 DEF tasks
    <3>2. Depth' = Depth /\ Depths' = Depths /\ Stack' = Stack
      BY <3>1 DEF Depth, Depths, Stack
    <3>3. Tasks!TypeOK'
      BY <2>1, <3>1 DEF TasksInv, Tasks!TypeOK
    <3>4. Stacked' /\ Cascading'
      BY <2>1, <3>1, <3>2 DEF TasksInv, Stacked, Cascading, Is
    <3>5. Embedded' = Embedded /\ \A q \in Tasks!Queues : WorksOn(q)' <=> WorksOn(q)
      BY <3>1, <3>2 DEF Embedded, WorksOn, Is
    <3>6. GoingOn'
      BY <2>1, <3>1, <3>2, <3>5 DEF TasksInv, GoingOn
    <3>7. SetRight'
      BY <2>1, <3>1, <3>2 DEF TasksInv, SetRight, Keeps, Is
    <3>8. OwedRight'
      <4>1. \A q \in Tasks!Queues, h \in Tasks!Handlers : Owing(q, h)' = Owing(q, h)
        BY <3>2 DEF Owing, Is
      <4> QED
        BY <2>1, <3>1, <4>1 DEF TasksInv, OwedRight
    <3> QED
      BY <3>3, <3>4, <3>6, <3>7, <3>8 DEF TasksInv
  <2> QED
    BY <2>1, TasksStep DEF MainNext, all
<1>3. TasksInv => QueuesSound
  BY TasksSound
<1> QED
  BY <1>1, <1>2, <1>3, PTL DEF MainSpec

-----------------------------------------------------------------------------
(* The timers.  First, remainders: one is what is left of a multiple.      *)
LEMMA Remainder ==
    ASSUME NEW m \in Nat \ {0}, NEW q \in Int, NEW r \in 0 .. m - 1
    PROVE  (q * m + r) % m = r
<1> DEFINE a == q * m + r
           d == a \div m
           s == a % m
<1>1. a \in Int /\ d \in Int /\ s \in 0 .. m - 1 /\ a = d * m + s
  OBVIOUS
<1>2. a = q * m + r
  OBVIOUS
<1> HIDE DEF a, d, s
<1>3. s = r
  <2>1. CASE q < d
    <3>1. q + 1 <= d
      BY <1>1, <2>1
    <3>2. (q + 1) * m <= d * m
      BY <1>1, <3>1
    <3> QED
      BY <1>1, <1>2, <3>2
  <2>2. CASE d < q
    <3>1. (d + 1) * m <= q * m
      BY <1>1, <2>2
    <3> QED
      BY <1>1, <1>2, <3>1
  <2>3. CASE d = q
    <3>1. d * m = q * m /\ d * m \in Int
      BY <1>1, <2>3
    <3> QED
      BY <1>1, <1>2, <3>1
  <2> QED
    BY <1>1, <2>1, <2>2, <2>3
<1> QED
  BY <1>3 DEF s, a

LEMMA Quotient ==
    ASSUME NEW m \in Nat \ {0}, NEW a \in Int, NEW s, s = a % m
    PROVE  s \in 0 .. m - 1 /\ \E d \in Int : a = d * m + s
<1> DEFINE d == a \div m
<1>1. s \in 0 .. m - 1
  OBVIOUS
<1>2. d \in Int
  OBVIOUS
<1>3. s = a - m * d
  OBVIOUS
<1> HIDE DEF d
<1>4. a = d * m + s
  BY <1>1, <1>2, <1>3
<1> QED
  BY <1>1, <1>2, <1>4

LEMMA AddMod ==
    ASSUME NEW m \in Nat \ {0}, NEW a \in Int, NEW b \in Int
    PROVE  ((a % m) + b) % m = (a + b) % m
<1> DEFINE s == a % m
           u == (a + b) % m
<1>1. PICK d \in Int : a = d * m + s
  BY Quotient
<1>2. a + b \in Int
  OBVIOUS
<1>3. PICK e \in Int : a + b = e * m + u
  BY <1>2, Quotient
<1>4. s \in 0 .. m - 1 /\ u \in 0 .. m - 1
  BY <1>2, Quotient
<1> HIDE DEF s, u
<1>5. s + b = (e - d) * m + u /\ e - d \in Int
  BY <1>1, <1>3, <1>4
<1>6. (s + b) % m = u
  BY <1>4, <1>5, Remainder
<1> QED
  BY <1>6 DEF s, u

LEMMA ModMod ==
    ASSUME NEW m \in Nat \ {0}, NEW k \in Nat \ {0}, m % k = 0, NEW a \in Int
    PROVE  (a % m) % k = a % k
<1> DEFINE s == a % m
           u == s % k
<1>1. s = a % m /\ u = s % k /\ 0 = m % k
  OBVIOUS
<1> HIDE DEF s, u
<1>2. PICK d \in Int : a = d * m + s
  BY <1>1, Quotient
<1>3. s \in Int
  BY <1>1, Quotient
<1>4. PICK e \in Int : m = e * k + 0
  <2>1. m \in Int
    OBVIOUS
  <2> HIDE DEF s, u
  <2> QED
    BY <1>1, <2>1, Quotient, Zenon
<1>5. m = e * k
  BY <1>4
<1>6. u \in 0 .. k - 1
  BY <1>1, <1>3, Quotient
<1>7. PICK f \in Int : s = f * k + u
  BY <1>1, <1>3, Quotient
<1>8. a = (d * e + f) * k + u /\ d * e + f \in Int
  BY <1>2, <1>5, <1>6, <1>7
<1>9. a % k = u
  BY <1>6, <1>8, Remainder
<1> QED
  BY <1>9 DEF u, s

(* Clock and counter go on together. *)
LEMMA BothMod ==
    ASSUME NEW m \in Nat \ {0}, NEW k \in Nat \ {0}, m % k = 0, NEW a \in Int, NEW b \in Int
    PROVE  ((a % m) + b) % k = (a + b) % k
<1>1. a % m \in Int
  BY Quotient
<1>2. ((a % m) + b) % k = (((a % m) % k) + b) % k
  BY <1>1, AddMod
<1>3. (a % m) % k = a % k
  BY ModMod
<1>4. ((a % k) + b) % k = (a + b) % k
  BY AddMod
<1> QED
  BY <1>2, <1>3, <1>4

(* The counter u later, less than a round *)
LEMMA LaterMod ==
    ASSUME NEW m \in Nat \ {0}, NEW a \in Int, NEW u \in 0 .. m - 1
    PROVE  (a + u) % m = (a % m) + u \/ (a + u) % m = (a % m) + u - m
<1> DEFINE s == a % m
<1>1. (a + u) % m = (s + u) % m /\ s \in 0 .. m - 1
  <2>1. s = a % m
    OBVIOUS
  <2> HIDE DEF s
  <2>2. s \in 0 .. m - 1
    BY <2>1, Quotient
  <2>3. ((a % m) + u) % m = (a + u) % m
    <3>1. u \in Int
      OBVIOUS
    <3> QED
      BY <3>1, AddMod
  <2> QED
    BY <2>1, <2>2, <2>3
<1> HIDE DEF s
<1>2. CASE s + u < m
  <2>1. (0 * m + (s + u)) % m = s + u
    <3>1. s + u \in 0 .. m - 1
      BY <1>1, <1>2
    <3> HIDE DEF s
    <3> QED
      BY <3>1, Remainder
  <2>2. 0 * m + (s + u) = s + u
    BY <1>1
  <2> QED
    BY <1>1, <2>1, <2>2 DEF s
<1>3. CASE s + u >= m
  <2>1. s + u - m \in 0 .. m - 1
    BY <1>1, <1>3
  <2>2. (1 * m + (s + u - m)) % m = s + u - m
    BY <2>1, Remainder
  <2>3. 1 * m + (s + u - m) = s + u
    BY <1>1
  <2> QED
    BY <1>1, <2>2, <2>3 DEF s
<1> QED
  BY <1>1, <1>2, <1>3

-----------------------------------------------------------------------------
Call == [phase : {"scan", "timer", "queued"}, at : {0} \cup Timers, value : 0 .. CounterRange - 1,
         time : 0 .. 2 * Half - 1]

Inactive == gpuPumps = << >>
Active == Timing!Top

TimersTypeOK ==
    /\ timers \in Seq(Timers) /\ \A i, j \in 1 .. Len(timers) : timers[i] = timers[j] => i = j
    /\ deadline \in [Timers -> 0 .. 2 * Half - 1] /\ remaining \in [Timers -> 0 .. 2 * Half - 1]
    /\ period \in [Timers -> 0 .. Half - 1] /\ paused \subseteq Timing!Armed
    /\ currentTime \in 0 .. 2 * Half - 1 /\ lastHSync \in 0 .. CounterRange - 1
    /\ elapsed \in 0 .. 2 * Half - 1 /\ unseen \in 0 .. CounterRange - 1
    /\ left \in [Timers -> Int] /\ fired \in [Timers -> {0, 1}]
    /\ Inactive \/ \E p \in Call : gpuPumps = <<p>>

(* Clock and counter as they were last read; a call that is under way has  *)
(* read the counter, and writes it down as it returns.                     *)
ClockInv ==
    /\ currentTime = Timing!OnClock(elapsed - unseen)
    /\ Inactive => lastHSync = (elapsed - unseen) % CounterRange
    /\ ~Inactive => Active.time = currentTime /\ Active.value = (elapsed - unseen) % CounterRange

(* A deadline, or what a paused timer has left, is what the timer has left *)
(* on the clock, and less than half its range.                             *)
DeadlinesInv ==
    /\ \A t \in Timing!Armed \ paused :
          deadline[t] = Timing!OnClock(currentTime + left[t]) /\ left[t] < Half
    /\ \A t \in paused : remaining[t] = Timing!OnClock(left[t])

(* The one timer that was called and not yet armed anew is the one whose   *)
(* callback runs.                                                          *)
CalledInv ==
    /\ \A t \in Timers : fired[t] = 1 =>
          ~Inactive /\ Active.phase = "timer" /\ Active.at = t /\ period[t] = 0
    /\ ~Inactive /\ Active.phase = "timer" => Active.at \in Timing!Armed

TimersInv == TimersTypeOK /\ ClockInv /\ DeadlinesInv /\ CalledInv

LEMMA Ranges ==
    /\ CounterRange \in Nat \ {0} /\ Half \in Nat \ {0} /\ 2 * Half \in Nat \ {0}
    /\ (2 * Half) % CounterRange = 0 /\ Delays \subseteq 1 .. Half - 1
BY MainAssumption DEF Timing!TimersAssumption

LEMMA OnClockIs ==
    /\ \A a \in Int : Timing!OnClock(a) \in 0 .. 2 * Half - 1
    /\ \A a, b \in Int : Timing!OnClock(Timing!OnClock(a) + b) = Timing!OnClock(a + b)
    /\ \A a, b \in Int : (Timing!OnClock(a) + b) % CounterRange = (a + b) % CounterRange
    /\ \A a \in 0 .. 2 * Half - 1 : Timing!OnClock(a) = a
<1> DEFINE M == 2 * Half
<1>1. M \in Nat \ {0} /\ CounterRange \in Nat \ {0} /\ M % CounterRange = 0
  BY Ranges
<1>2. \A a \in Int : Timing!OnClock(a) = a % M
  BY DEF Timing!OnClock
<1> HIDE DEF M
<1>3. \A a \in Int : a % M \in 0 .. M - 1
  BY <1>1, Quotient
<1>4. \A a, b \in Int : ((a % M) + b) % M = (a + b) % M
  BY <1>1, AddMod
<1>5. \A a, b \in Int : ((a % M) + b) % CounterRange = (a + b) % CounterRange
  BY <1>1, BothMod
<1>6. \A a \in 0 .. M - 1 : a % M = a
  <2> SUFFICES ASSUME NEW a \in 0 .. M - 1 PROVE a % M = a
    OBVIOUS
  <2>1. (0 * M + a) % M = a /\ 0 * M + a = a
    BY <1>1, Remainder
  <2> QED
    BY <2>1
<1>7. \A a \in Int : Timing!OnClock(a) \in 0 .. M - 1
  BY <1>2, <1>3
<1>8. \A a, b \in Int : Timing!OnClock(Timing!OnClock(a) + b) = Timing!OnClock(a + b)
  <2> SUFFICES ASSUME NEW a \in Int, NEW b \in Int
               PROVE  Timing!OnClock(Timing!OnClock(a) + b) = Timing!OnClock(a + b)
    OBVIOUS
  <2> DEFINE s == a % M
  <2>0. ((a % M) + b) % M = (a + b) % M
    BY <1>1, AddMod
  <2>1. s \in Int /\ Timing!OnClock(a) = s /\ (s + b) % M = (a + b) % M
    <3>1. a % M \in 0 .. M - 1 /\ Timing!OnClock(a) = a % M
      BY <1>2, <1>3
    <3> QED
      BY <1>1, <2>0, <3>1
  <2> HIDE DEF s
  <2>2. s + b \in Int /\ a + b \in Int
    BY <2>1
  <2> QED
    BY <1>2, <2>1, <2>2
<1>9. \A a, b \in Int : (Timing!OnClock(a) + b) % CounterRange = (a + b) % CounterRange
  BY <1>2, <1>5
<1>10. \A a \in 0 .. M - 1 : Timing!OnClock(a) = a
  <2>1. \A a \in 0 .. M - 1 : a \in Int
    BY <1>1
  <2> QED
    BY <1>2, <1>6, <2>1
<1> QED
  BY <1>7, <1>8, <1>9, <1>10 DEF M

LEMMA ClockAdd ==
    ASSUME NEW x \in Int, NEW y, y = Timing!OnClock(x), NEW b \in Int
    PROVE  Timing!OnClock(y + b) = Timing!OnClock(x + b)
BY OnClockIs

(* What a timer has left decides whether it is due. *)
LEMMA DueIs ==
    ASSUME NEW a \in 0 .. 2 * Half - 1, NEW l \in Int, NEW d, d = Timing!OnClock(a + l), l < Half,
           \/ Timing!OnClock(d - a) = 0
           \/ Timing!OnClock(d - a) >= Half
    PROVE  l <= 0
<1>1. Timing!OnClock(d - a) = Timing!OnClock(l)
  <2>1. a + l \in Int /\ -a \in Int /\ Half \in Nat
    BY Ranges
  <2>2. Timing!OnClock(Timing!OnClock(a + l) + (-a)) = Timing!OnClock((a + l) + (-a))
    BY <2>1, OnClockIs
  <2>3. d \in Int
    BY <2>1, OnClockIs
  <2>4. d + (-a) = d - a /\ (a + l) + (-a) = l
    BY <2>3
  <2> QED
    BY <2>2, <2>4
<1>2. CASE l > 0
  <2>1. l \in 0 .. 2 * Half - 1 /\ Half \in Nat
    BY <1>2, Ranges
  <2>2. Timing!OnClock(l) = l
    BY <2>1, OnClockIs
  <2> QED
    BY <1>1, <1>2, <2>1, <2>2
<1> QED
  BY <1>2

LEMMA TimersInit == Timing!Init => TimersInv
<1> SUFFICES ASSUME Timing!Init PROVE TimersInv
  OBVIOUS
<1>1. Timing!OnClock(0) = 0 /\ 0 % CounterRange = 0
  BY Ranges, OnClockIs
<1>2. Timing!Armed = {}
  BY DEF Timing!Init, Timing!Armed
<1>3. TimersTypeOK
  BY <1>2, Ranges DEF Timing!Init, Timing!Zero, TimersTypeOK, Inactive
<1> QED
  BY <1>1, <1>2, <1>3 DEF Timing!Init, Timing!Zero, TimersInv, ClockInv, DeadlinesInv, CalledInv, Inactive

LEMMA ArmedIs ==
    ASSUME timers \in Seq(Timers)
    PROVE  /\ Timing!Armed \subseteq Timers
           /\ \A t \in Timing!Armed : \E i \in 1 .. Len(timers) : timers[i] = t
           /\ \A i \in 1 .. Len(timers) : timers[i] \in Timing!Armed
           /\ DOMAIN timers = 1 .. Len(timers) /\ Len(timers) \in Nat
BY DEF Timing!Armed

(* Calls of pumpCallbacks, one at a time *)
LEMMA OnePump ==
    ASSUME TimersTypeOK, ~Inactive
    PROVE  /\ Active \in Call /\ gpuPumps = <<Active>> /\ Timing!Outer = << >>
           /\ \A ph \in {"scan", "timer", "queued"}, at \in {0} \cup Timers :
                 Timing!Goes(ph, at) =>
                    /\ ~Inactive' /\ Active' \in Call /\ \E p \in Call : gpuPumps' = <<p>>
                    /\ Active'.phase = ph /\ Active'.at = at
                    /\ Active'.value = Active.value /\ Active'.time = Active.time
                    /\ gpuPumps'[Len(gpuPumps')].at = at
<1>1. PICK p \in Call : gpuPumps = <<p>>
  BY DEF TimersTypeOK
<1>2. Active = p /\ Timing!Outer = << >>
  BY <1>1 DEF Timing!Top, Active, Timing!Outer
<1>3. ASSUME NEW ph \in {"scan", "timer", "queued"}, NEW at \in {0} \cup Timers, Timing!Goes(ph, at)
      PROVE  /\ ~Inactive' /\ Active' \in Call /\ \E q \in Call : gpuPumps' = <<q>>
             /\ Active'.phase = ph /\ Active'.at = at
             /\ Active'.value = Active.value /\ Active'.time = Active.time
             /\ gpuPumps'[Len(gpuPumps')].at = at
  <2> DEFINE q == [p EXCEPT !.phase = ph, !.at = at]
  <2>1. q \in Call /\ q.phase = ph /\ q.at = at /\ q.value = p.value /\ q.time = p.time
    BY DEF Call
  <2>2. gpuPumps' = <<q>>
    BY <1>2, <1>3 DEF Timing!Goes, Active
  <2> HIDE DEF q
  <2>3. gpuPumps'[Len(gpuPumps')] = q
    BY <2>2
  <2>4. Active' = q
    BY <2>3 DEF Active, Timing!Top
  <2> QED
    BY <1>2, <2>1, <2>2, <2>3, <2>4 DEF Inactive
<1> QED
  BY <1>1, <1>2, <1>3

LEMMA BlankStep ==
    ASSUME TimersInv, Timing!Blank
    PROVE  TimersInv'
<1>1. /\ elapsed' = Timing!OnClock(elapsed + 1) /\ unseen' = unseen + 1 /\ unseen' < CounterRange
      /\ timers' = timers /\ deadline' = deadline /\ period' = period /\ paused' = paused
      /\ remaining' = remaining /\ currentTime' = currentTime /\ lastHSync' = lastHSync
      /\ gpuPumps' = gpuPumps /\ left' = left /\ fired' = fired
  BY DEF Timing!Blank, Timing!settings, Timing!clock
<1>2. elapsed \in Int /\ unseen \in Nat /\ CounterRange \in Nat
  BY Ranges DEF TimersInv, TimersTypeOK
<1>3. Timing!Armed' = Timing!Armed /\ Active' = Active /\ Inactive' = Inactive
  BY <1>1 DEF Timing!Armed, Active, Timing!Top, Inactive
<1>4. TimersTypeOK'
  <2>1. elapsed' \in 0 .. 2 * Half - 1
    BY <1>1, <1>2, OnClockIs
  <2>2. unseen' \in 0 .. CounterRange - 1
    BY <1>1, <1>2
  <2> QED
    BY <1>1, <1>3, <2>1, <2>2 DEF TimersInv, TimersTypeOK
<1>5. ClockInv'
  <2> DEFINE b == -(unseen + 1)
  <2>1. elapsed + 1 \in Int /\ b \in Int /\ (elapsed + 1) + b = elapsed - unseen
    BY <1>2
  <2>2. elapsed' - unseen' = Timing!OnClock(elapsed + 1) + b
    BY <1>1, <1>2, <2>1, OnClockIs
  <2> HIDE DEF b
  <2>3. /\ Timing!OnClock(elapsed' - unseen') = Timing!OnClock(elapsed - unseen)
        /\ (elapsed' - unseen') % CounterRange = (elapsed - unseen) % CounterRange
    BY <2>1, <2>2, OnClockIs
  <2>4. Timing!OnClock(elapsed - unseen)' = Timing!OnClock(elapsed' - unseen')
    BY DEF Timing!OnClock
  <2> QED
    BY <1>1, <1>3, <2>3, <2>4 DEF TimersInv, ClockInv
<1>6. DeadlinesInv' /\ CalledInv'
  BY <1>1, <1>3 DEF TimersInv, DeadlinesInv, CalledInv, Timing!OnClock
<1> QED
  BY <1>4, <1>5, <1>6 DEF TimersInv

(* A timer leaves the list, which held it once. *)
LEMMA Erased ==
    ASSUME TimersTypeOK, NEW t \in Timing!Armed, Timing!Erase(t)
    PROVE  /\ timers' \in Seq(Timers) /\ \A i, j \in 1 .. Len(timers') : timers'[i] = timers'[j] => i = j
           /\ Timing!Armed' = Timing!Armed \ {t}
<1> DEFINE p == Timing!Place(t)
           n == Len(timers)
<1>1. /\ timers \in Seq(Timers) /\ \A i, j \in 1 .. n : timers[i] = timers[j] => i = j
      /\ n \in Nat /\ DOMAIN timers = 1 .. n
  BY DEF TimersTypeOK
<1>2. p \in 1 .. n /\ timers[p] = t
  BY <1>1 DEF Timing!Armed, Timing!Place
<1>3. timers' = SubSeq(timers, 1, p - 1) \o SubSeq(timers, p + 1, n)
  BY DEF Timing!Erase
<1> HIDE DEF p
<1>4. /\ timers' \in Seq(Timers) /\ Len(timers') = n - 1
      /\ \A i \in 1 .. n - 1 : timers'[i] = timers[IF i < p THEN i ELSE i + 1]
  <2> DEFINE a == SubSeq(timers, 1, p - 1)
             b == SubSeq(timers, p + 1, n)
  <2>1. a \in Seq(Timers) /\ Len(a) = p - 1 /\ \A i \in 1 .. p - 1 : a[i] = timers[i]
    BY <1>1, <1>2
  <2>2. b \in Seq(Timers) /\ Len(b) = n - p /\ \A i \in 1 .. n - p : b[i] = timers[p + i]
    <3> HIDE DEF n
    <3>1. b = [i \in 1 .. n - p |-> timers[i + (p + 1) - 1]]
      BY <1>1, <1>2
    <3>2. \A i \in 1 .. n - p : p + i \in 1 .. n /\ i + (p + 1) - 1 = p + i
      BY <1>1, <1>2
    <3>3. \A i \in 1 .. n - p : timers[p + i] \in Timers
      BY <1>1, <3>2 DEF n
    <3>4. n - p \in Nat
      BY <1>1, <1>2
    <3>5. \A i \in 1 .. n - p : b[i] = timers[p + i] /\ b[i] \in Timers
      BY <3>1, <3>2, <3>3
    <3>6. b \in [1 .. n - p -> Timers]
      BY <3>1, <3>5
    <3> DEFINE m == n - p
    <3> HIDE DEF m, b
    <3>7. b \in Seq(Timers) /\ Len(b) = m
      <4>1. m \in Nat /\ b \in [1 .. m -> Timers]
        BY <3>4, <3>6 DEF m
      <4> QED
        BY <4>1
    <3> QED
      BY <3>5, <3>7 DEF m
  <2>0. timers' = a \o b
    BY <1>3
  <2> HIDE DEF a, b
  <2>3. timers' \in Seq(Timers) /\ Len(timers') = n - 1
    <3>1. n \in Nat
      BY <1>1
    <3> HIDE DEF n
    <3> QED
      BY <1>2, <2>1, <2>2, <2>0, <3>1
  <2>4. ASSUME NEW i \in 1 .. n - 1 PROVE timers'[i] = timers[IF i < p THEN i ELSE i + 1]
    <3>0. timers' = a \o b /\ n \in Nat
      BY <1>1, <2>0
    <3> HIDE DEF n
    <3>1. CASE i < p
      <4>1. i \in 1 .. p - 1
        BY <1>2, <2>4, <3>0, <3>1
      <4> QED
        BY <1>2, <2>1, <2>2, <3>0, <3>1, <4>1
    <3>2. CASE ~(i < p)
      <4>1. i - (p - 1) \in 1 .. n - p /\ p + (i - (p - 1)) = i + 1
        BY <1>2, <2>4, <3>0, <3>2
      <4>2. timers'[i] = b[i - (p - 1)]
        BY <1>2, <2>1, <2>2, <3>0, <3>2, <4>1
      <4> QED
        BY <2>2, <3>2, <4>1, <4>2
    <3> QED
      BY <3>1, <3>2
  <2> QED
    BY <2>3, <2>4
<1> HIDE DEF n
<1>5. \A i, j \in 1 .. Len(timers') : timers'[i] = timers'[j] => i = j
  <2> DEFINE o(i) == IF i < p THEN i ELSE i + 1
  <2>1. \A i \in 1 .. n - 1 : o(i) \in 1 .. n
    BY <1>1, <1>2
  <2>2. \A i, j \in 1 .. n - 1 : o(i) = o(j) => i = j
    BY <1>1, <1>2
  <2>3. \A i \in 1 .. n - 1 : timers'[i] = timers[o(i)]
    BY <1>4
  <2> HIDE DEF o
  <2> QED
    BY <1>1, <1>4, <2>1, <2>2, <2>3
<1>6. Timing!Armed' = {timers'[i] : i \in 1 .. n - 1} /\ Timing!Armed = {timers[i] : i \in 1 .. n}
  BY <1>1, <1>4 DEF Timing!Armed, n
<1>7. ASSUME NEW i \in 1 .. n - 1 PROVE timers'[i] \in Timing!Armed \ {t}
  <2>1. (IF i < p THEN i ELSE i + 1) \in 1 .. n /\ (IF i < p THEN i ELSE i + 1) # p
    BY <1>1, <1>2
  <2> QED
    BY <1>1, <1>2, <1>4, <1>6, <2>1
<1>8. ASSUME NEW i \in 1 .. n, timers[i] # t PROVE \E j \in 1 .. n - 1 : timers'[j] = timers[i]
  <2>1. i # p
    BY <1>2, <1>8
  <2>2. CASE i < p
    <3>1. i \in 1 .. n - 1
      BY <1>1, <1>2, <2>2
    <3> QED
      BY <1>4, <2>2, <3>1
  <2>3. CASE i > p
    <3>1. i - 1 \in 1 .. n - 1 /\ ~(i - 1 < p) /\ (i - 1) + 1 = i
      BY <1>1, <1>2, <2>3
    <3> QED
      BY <1>4, <3>1
  <2> QED
    BY <1>1, <1>2, <2>1, <2>2, <2>3
<1> QED
  BY <1>4, <1>5, <1>6, <1>7, <1>8

LEMMA ErasedInv ==
    ASSUME TimersInv, NEW t \in Timing!Armed, Timing!Erase(t),
           UNCHANGED <<currentTime, elapsed, unseen>>
    PROVE  /\ DeadlinesInv'
           /\ timers' \in Seq(Timers) /\ \A i, j \in 1 .. Len(timers') : timers'[i] = timers'[j] => i = j
           /\ Timing!Armed' = Timing!Armed \ {t}
           /\ deadline' \in [Timers -> 0 .. 2 * Half - 1] /\ remaining' \in [Timers -> 0 .. 2 * Half - 1]
           /\ period' \in [Timers -> 0 .. Half - 1] /\ paused' \subseteq Timing!Armed'
           /\ left' \in [Timers -> Int] /\ fired' \in [Timers -> {0, 1}]
           /\ fired'[t] = 0 /\ \A s \in Timers \ {t} : fired'[s] = fired[s] /\ period'[s] = period[s]
<1>1. TimersTypeOK /\ DeadlinesInv /\ t \in Timers /\ Timing!Armed \subseteq Timers
  BY ArmedIs DEF TimersInv, TimersTypeOK
<1>2. /\ timers' \in Seq(Timers) /\ \A i, j \in 1 .. Len(timers') : timers'[i] = timers'[j] => i = j
      /\ Timing!Armed' = Timing!Armed \ {t}
  BY <1>1, Erased
<1>3. 0 \in 0 .. 2 * Half - 1 /\ 0 \in 0 .. Half - 1 /\ 0 \in Int
  BY Ranges
<1>4. /\ deadline' = [deadline EXCEPT ![t] = 0] /\ period' = [period EXCEPT ![t] = 0]
      /\ paused' = paused \ {t} /\ remaining' = [remaining EXCEPT ![t] = 0]
      /\ left' = [left EXCEPT ![t] = 0] /\ fired' = [fired EXCEPT ![t] = 0]
  BY DEF Timing!Erase
<1>5. /\ deadline' \in [Timers -> 0 .. 2 * Half - 1] /\ remaining' \in [Timers -> 0 .. 2 * Half - 1]
      /\ period' \in [Timers -> 0 .. Half - 1] /\ paused' \subseteq Timing!Armed'
      /\ left' \in [Timers -> Int] /\ fired' \in [Timers -> {0, 1}]
  BY <1>1, <1>2, <1>3, <1>4 DEF TimersTypeOK
<1>6. \A s \in Timers \ {t} : /\ deadline'[s] = deadline[s] /\ left'[s] = left[s] /\ remaining'[s] = remaining[s]
                              /\ fired'[s] = fired[s] /\ period'[s] = period[s]
  BY <1>1, <1>4 DEF TimersTypeOK
<1>7. fired'[t] = 0
  BY <1>1, <1>4 DEF TimersTypeOK
<1>8. DeadlinesInv'
  <2>1. \A s \in Timing!Armed' : s \in Timing!Armed /\ s \in Timers \ {t}
    BY <1>1, <1>2
  <2>2. \A s \in Timing!Armed' \ paused' : deadline'[s] = Timing!OnClock(currentTime' + left'[s]) /\ left'[s] < Half
    BY <1>1, <1>4, <1>6, <2>1 DEF DeadlinesInv
  <2>3. \A s \in paused' : remaining'[s] = Timing!OnClock(left'[s])
    BY <1>1, <1>4, <1>6 DEF DeadlinesInv, TimersTypeOK
  <2> QED
    BY <2>2, <2>3 DEF DeadlinesInv, Timing!OnClock
<1> QED
  BY <1>2, <1>5, <1>6, <1>7, <1>8

(* What the program does with timers *)
LEMMA ProgramKeeps ==
    ASSUME TimersInv, UNCHANGED <<gpuPumps, currentTime, lastHSync, elapsed, unseen>>,
           ~Inactive /\ Active.phase = "timer" => Active.at \in Timing!Armed',
           \A t \in Timers : fired'[t] = 1 => fired[t] = 1 /\ period'[t] = period[t],
           DeadlinesInv',
           /\ timers' \in Seq(Timers) /\ \A i, j \in 1 .. Len(timers') : timers'[i] = timers'[j] => i = j
           /\ deadline' \in [Timers -> 0 .. 2 * Half - 1] /\ remaining' \in [Timers -> 0 .. 2 * Half - 1]
           /\ period' \in [Timers -> 0 .. Half - 1] /\ paused' \subseteq Timing!Armed'
           /\ left' \in [Timers -> Int] /\ fired' \in [Timers -> {0, 1}]
    PROVE  TimersInv'
<1>1. Active' = Active /\ Inactive' = Inactive
  BY DEF Active, Timing!Top, Inactive
<1>2. TimersTypeOK'
  BY <1>1 DEF TimersInv, TimersTypeOK
<1>3. ClockInv'
  BY <1>1 DEF TimersInv, ClockInv, Timing!OnClock
<1>4. CalledInv'
  BY <1>1 DEF TimersInv, CalledInv
<1> QED
  BY <1>2, <1>3, <1>4 DEF TimersInv

LEMMA Kept == UNCHANGED <<timers, paused, deadline, left, remaining, currentTime>> /\ DeadlinesInv => DeadlinesInv'
BY DEF DeadlinesInv, Timing!Armed, Timing!OnClock

LEMMA ArmStep ==
    ASSUME TimersInv, NEW t \in Timers \ Timing!Armed, NEW d \in Delays, NEW p \in {0, d},
           Timing!Arm(t, d, p), UNCHANGED <<gpuPumps, currentTime, lastHSync, elapsed, unseen>>
    PROVE  TimersInv'
<1>1. TimersTypeOK /\ DeadlinesInv /\ CalledInv
  BY DEF TimersInv
<1>2. d \in 1 .. Half - 1 /\ p \in 0 .. Half - 1 /\ Half \in Nat /\ currentTime \in Int /\ d \in Int
  BY <1>1, Ranges DEF TimersTypeOK
<1>3. Timing!OnClock(currentTime + d) \in 0 .. 2 * Half - 1
  <2>1. currentTime + d \in Int
    BY <1>2
  <2> QED
    BY <2>1, OnClockIs
<1>4. /\ timers' = Append(timers, t) /\ deadline' = [deadline EXCEPT ![t] = Timing!OnClock(currentTime + d)]
      /\ left' = [left EXCEPT ![t] = d] /\ period' = [period EXCEPT ![t] = p]
      /\ paused' = paused /\ remaining' = remaining /\ fired' = fired
  BY DEF Timing!Arm
<1>5. timers' \in Seq(Timers) /\ Len(timers') = Len(timers) + 1
  BY <1>1, <1>4 DEF TimersTypeOK
<1>6. Timing!Armed' = Timing!Armed \cup {t}
  <2>1. /\ \A i \in 1 .. Len(timers) : timers'[i] = timers[i]
        /\ timers'[Len(timers) + 1] = t
    BY <1>1, <1>4 DEF TimersTypeOK
  <2>2. DOMAIN timers = 1 .. Len(timers) /\ Len(timers) \in Nat /\ DOMAIN timers' = 1 .. Len(timers) + 1
    BY <1>1, <1>5 DEF TimersTypeOK
  <2> QED
    BY <2>1, <2>2 DEF Timing!Armed
<1>7. \A i, j \in 1 .. Len(timers') : timers'[i] = timers'[j] => i = j
  <2>1. /\ \A i \in 1 .. Len(timers) : timers'[i] = timers[i] /\ timers[i] # t
        /\ timers'[Len(timers) + 1] = t /\ Len(timers) \in Nat
    BY <1>1, <1>4, ArmedIs DEF TimersTypeOK
  <2>2. \A i, j \in 1 .. Len(timers) : timers[i] = timers[j] => i = j
    BY <1>1 DEF TimersTypeOK
  <2>3. \A i \in 1 .. Len(timers') : i \in 1 .. Len(timers) \/ i = Len(timers) + 1
    BY <1>5, <2>1
  <2> QED
    BY <2>1, <2>2, <2>3
<1>8. /\ deadline' \in [Timers -> 0 .. 2 * Half - 1] /\ remaining' \in [Timers -> 0 .. 2 * Half - 1]
      /\ period' \in [Timers -> 0 .. Half - 1] /\ paused' \subseteq Timing!Armed'
      /\ left' \in [Timers -> Int] /\ fired' \in [Timers -> {0, 1}]
  BY <1>1, <1>2, <1>3, <1>4, <1>6 DEF TimersTypeOK
<1>9. DeadlinesInv'
  <2>1. t \notin paused /\ paused \subseteq Timers
    BY <1>1, ArmedIs DEF TimersTypeOK
  <2>2. /\ deadline'[t] = Timing!OnClock(currentTime' + left'[t]) /\ left'[t] < Half
        /\ \A s \in Timers \ {t} : deadline'[s] = deadline[s] /\ left'[s] = left[s]
    <3>1. left'[t] = d /\ deadline'[t] = Timing!OnClock(currentTime + d)
      BY <1>1, <1>4 DEF TimersTypeOK
    <3>2. \A s \in Timers \ {t} : deadline'[s] = deadline[s] /\ left'[s] = left[s]
      BY <1>1, <1>4 DEF TimersTypeOK
    <3> QED
      BY <1>2, <3>1, <3>2
  <2>3. \A s \in Timing!Armed' \ paused' : deadline'[s] = Timing!OnClock(currentTime' + left'[s]) /\ left'[s] < Half
    BY <1>1, <1>4, <1>6, <2>2, ArmedIs DEF DeadlinesInv, TimersTypeOK
  <2>4. \A s \in paused' : remaining'[s] = Timing!OnClock(left'[s])
    BY <1>1, <1>4, <2>1, <2>2 DEF DeadlinesInv
  <2> QED
    BY <2>3, <2>4 DEF DeadlinesInv, Timing!OnClock
<1>10. \A s \in Timers : fired'[s] = 1 => fired[s] = 1 /\ period'[s] = period[s]
  <2>1. \A s \in Timers : fired[s] = 1 => s # t
    BY <1>1 DEF CalledInv
  <2> QED
    BY <1>1, <1>4, <2>1 DEF TimersTypeOK
<1>11. ~Inactive /\ Active.phase = "timer" => Active.at \in Timing!Armed'
  BY <1>1, <1>6 DEF CalledInv
<1> QED
  BY <1>5, <1>7, <1>8, <1>9, <1>10, <1>11, ProgramKeeps

LEMMA ChangeStep ==
    ASSUME TimersInv, NEW t \in Timing!Armed, NEW d \in Delays, NEW reset \in BOOLEAN,
           Timing!changeTimerPeriod(t, d, reset),
           UNCHANGED <<gpuPumps, currentTime, lastHSync, elapsed, unseen>>
    PROVE  TimersInv'
<1> DEFINE From(now, old) == (IF reset THEN now ELSE old - period[t]) + d
<1>1. TimersTypeOK /\ DeadlinesInv /\ CalledInv /\ t \in Timers
  BY ArmedIs DEF TimersInv, TimersTypeOK
<1>2. d \in 0 .. Half - 1 /\ d \in Int /\ Half \in Nat /\ currentTime \in Int /\ period[t] \in Int
  BY <1>1, Ranges DEF TimersTypeOK
<1>3. /\ timers' = timers /\ paused' = paused /\ remaining' = remaining /\ fired' = fired
      /\ period[t] # 0 /\ period' = [period EXCEPT ![t] = d]
      /\ IF t \in paused THEN deadline' = deadline /\ left' = left
         ELSE /\ deadline' = [deadline EXCEPT ![t] = Timing!OnClock(From(currentTime, @))]
              /\ left' = [left EXCEPT ![t] = From(0, @)]
              /\ left'[t] < Half
  BY DEF Timing!changeTimerPeriod, Timing!InReach
<1>4. Timing!Armed' = Timing!Armed
  BY <1>3 DEF Timing!Armed
<1>5. CASE t \in paused
  <2>1. DeadlinesInv'
    BY <1>1, <1>3, <1>5, Kept
  <2>2. period' \in [Timers -> 0 .. Half - 1]
    BY <1>1, <1>2, <1>3 DEF TimersTypeOK
  <2>3. \A s \in Timers : fired'[s] = 1 => fired[s] = 1 /\ period'[s] = period[s]
    BY <1>1, <1>3 DEF CalledInv, TimersTypeOK
  <2> QED
    BY <1>1, <1>3, <1>4, <1>5, <2>1, <2>2, <2>3, ProgramKeeps DEF TimersTypeOK, CalledInv
<1>6. CASE t \notin paused
  <2>1. /\ deadline[t] = Timing!OnClock(currentTime + left[t]) /\ left[t] \in Int /\ deadline[t] \in Int
    BY <1>1, <1>6 DEF DeadlinesInv, TimersTypeOK
  <2>2. From(currentTime, deadline[t]) \in Int /\ From(0, left[t]) \in Int
    BY <1>2, <2>1
  <2>3. Timing!OnClock(From(currentTime, deadline[t])) = Timing!OnClock(currentTime + From(0, left[t]))
    <3>1. CASE reset
      BY <1>2, <3>1
    <3>2. CASE ~reset
      <4> DEFINE b == d - period[t]
      <4>1. b \in Int /\ currentTime + left[t] \in Int
        BY <1>2, <2>1
      <4>2. From(currentTime, deadline[t]) = deadline[t] + b
        BY <1>2, <2>1, <3>2
      <4>3. currentTime + From(0, left[t]) = (currentTime + left[t]) + b
        BY <1>2, <2>1, <3>2
      <4> HIDE DEF b, From
      <4>4. Timing!OnClock(deadline[t] + b) = Timing!OnClock((currentTime + left[t]) + b)
        BY <2>1, <4>1, ClockAdd
      <4> QED
        BY <4>2, <4>3, <4>4
    <3> QED
      BY <3>1, <3>2
  <2>4. Timing!OnClock(From(currentTime, deadline[t])) \in 0 .. 2 * Half - 1
    BY <2>2, OnClockIs
  <2>5. /\ deadline' = [deadline EXCEPT ![t] = Timing!OnClock(From(currentTime, deadline[t]))]
        /\ left' = [left EXCEPT ![t] = From(0, left[t])] /\ left'[t] < Half
    BY <1>3, <1>6
  <2> HIDE DEF From
  <2>6. /\ deadline' \in [Timers -> 0 .. 2 * Half - 1] /\ left' \in [Timers -> Int]
        /\ deadline'[t] = Timing!OnClock(currentTime + left'[t])
        /\ \A s \in Timers \ {t} : deadline'[s] = deadline[s] /\ left'[s] = left[s]
    BY <1>1, <2>2, <2>3, <2>4, <2>5 DEF TimersTypeOK
  <2>7. DeadlinesInv'
    <3>1. \A s \in Timing!Armed' \ paused' : deadline'[s] = Timing!OnClock(currentTime' + left'[s]) /\ left'[s] < Half
      BY <1>1, <1>3, <1>4, <2>5, <2>6, ArmedIs DEF DeadlinesInv, TimersTypeOK
    <3>2. \A s \in paused' : s \in Timers \ {t}
      BY <1>1, <1>3, <1>6, ArmedIs DEF TimersTypeOK
    <3>3. \A s \in paused' : remaining'[s] = Timing!OnClock(left'[s])
      BY <1>1, <1>3, <2>6, <3>2 DEF DeadlinesInv
    <3> QED
      BY <3>1, <3>3 DEF DeadlinesInv, Timing!OnClock
  <2>8. period' \in [Timers -> 0 .. Half - 1]
    BY <1>1, <1>2, <1>3 DEF TimersTypeOK
  <2>9. \A s \in Timers : fired'[s] = 1 => fired[s] = 1 /\ period'[s] = period[s]
    BY <1>1, <1>3 DEF CalledInv, TimersTypeOK
  <2> QED
    BY <1>1, <1>3, <1>4, <2>6, <2>7, <2>8, <2>9, ProgramKeeps DEF TimersTypeOK, CalledInv
<1> QED
  BY <1>5, <1>6

LEMMA PauseStep ==
    ASSUME TimersInv, NEW t \in Timing!Armed, Timing!pauseTimer(t),
           UNCHANGED <<gpuPumps, currentTime, lastHSync, elapsed, unseen>>
    PROVE  TimersInv'
<1>1. TimersTypeOK /\ DeadlinesInv /\ CalledInv /\ t \in Timers
  BY ArmedIs DEF TimersInv, TimersTypeOK
<1>2. /\ timers' = timers /\ period' = period /\ left' = left /\ fired' = fired /\ t \notin paused
      /\ paused' = paused \cup {t} /\ deadline' = [deadline EXCEPT ![t] = 0]
      /\ remaining' = [remaining EXCEPT ![t] = Timing!OnClock(deadline[t] - currentTime)]
  BY DEF Timing!pauseTimer
<1>3. /\ deadline[t] = Timing!OnClock(currentTime + left[t]) /\ left[t] \in Int /\ deadline[t] \in Int
      /\ currentTime \in Int /\ 0 \in 0 .. 2 * Half - 1
  BY <1>1, <1>2, Ranges DEF DeadlinesInv, TimersTypeOK
<1>4. Timing!OnClock(deadline[t] - currentTime) = Timing!OnClock(left[t])
  <2>1. currentTime + left[t] \in Int /\ -currentTime \in Int
    BY <1>3
  <2>2. deadline[t] - currentTime = deadline[t] + (-currentTime)
    BY <1>3
  <2>3. (currentTime + left[t]) + (-currentTime) = left[t]
    BY <1>3
  <2>4. Timing!OnClock(deadline[t] + (-currentTime)) = Timing!OnClock((currentTime + left[t]) + (-currentTime))
    BY <1>3, <2>1, ClockAdd
  <2> QED
    BY <2>2, <2>3, <2>4
<1>5. Timing!Armed' = Timing!Armed
  BY <1>2 DEF Timing!Armed
<1>6. Timing!OnClock(left[t]) \in 0 .. 2 * Half - 1
  BY <1>3, OnClockIs
<1>7. /\ deadline' \in [Timers -> 0 .. 2 * Half - 1] /\ remaining' \in [Timers -> 0 .. 2 * Half - 1]
      /\ remaining'[t] = Timing!OnClock(left[t])
      /\ \A s \in Timers \ {t} : deadline'[s] = deadline[s] /\ remaining'[s] = remaining[s]
  BY <1>1, <1>2, <1>3, <1>4, <1>6 DEF TimersTypeOK
<1>8. DeadlinesInv'
  <2>1. Timing!Armed \subseteq Timers /\ paused \subseteq Timers
    BY <1>1, ArmedIs DEF TimersTypeOK
  <2>2. \A s \in Timing!Armed' \ paused' : s \in Timers \ {t} /\ s \in Timing!Armed \ paused
    BY <1>2, <1>5, <2>1
  <2>3. \A s \in Timing!Armed' \ paused' : deadline'[s] = Timing!OnClock(currentTime' + left'[s]) /\ left'[s] < Half
    BY <1>1, <1>2, <1>7, <2>2 DEF DeadlinesInv
  <2>4. \A s \in paused' : remaining'[s] = Timing!OnClock(left'[s])
    BY <1>1, <1>2, <1>7, <2>1 DEF DeadlinesInv
  <2> QED
    BY <2>3, <2>4 DEF DeadlinesInv, Timing!OnClock
<1> QED
  BY <1>1, <1>2, <1>5, <1>7, <1>8, ProgramKeeps DEF TimersTypeOK, CalledInv

LEMMA ResumeStep ==
    ASSUME TimersInv, NEW t \in Timing!Armed, Timing!resumeTimer(t),
           UNCHANGED <<gpuPumps, currentTime, lastHSync, elapsed, unseen>>
    PROVE  TimersInv'
<1>1. TimersTypeOK /\ DeadlinesInv /\ CalledInv /\ t \in Timers
  BY ArmedIs DEF TimersInv, TimersTypeOK
<1>2. /\ timers' = timers /\ period' = period /\ left' = left /\ fired' = fired /\ t \in paused
      /\ paused' = paused \ {t} /\ remaining' = [remaining EXCEPT ![t] = 0]
      /\ deadline' = [deadline EXCEPT ![t] = Timing!OnClock(currentTime + remaining[t])]
      /\ left[t] < Half
  BY DEF Timing!resumeTimer, Timing!ResumedDeadline, Timing!InReach
<1>3. /\ remaining[t] = Timing!OnClock(left[t]) /\ left[t] \in Int /\ remaining[t] \in Int
      /\ currentTime \in Int /\ 0 \in 0 .. 2 * Half - 1
  BY <1>1, <1>2, Ranges DEF DeadlinesInv, TimersTypeOK
<1>4. Timing!OnClock(currentTime + remaining[t]) = Timing!OnClock(currentTime + left[t])
  <2>1. currentTime + remaining[t] = remaining[t] + currentTime /\ currentTime + left[t] = left[t] + currentTime
    BY <1>3
  <2>2. Timing!OnClock(remaining[t] + currentTime) = Timing!OnClock(left[t] + currentTime)
    BY <1>3, ClockAdd
  <2> QED
    BY <2>1, <2>2
<1>5. Timing!Armed' = Timing!Armed
  BY <1>2 DEF Timing!Armed
<1>6. Timing!OnClock(currentTime + left[t]) \in 0 .. 2 * Half - 1
  <2>1. currentTime + left[t] \in Int
    BY <1>3
  <2> QED
    BY <2>1, OnClockIs
<1>7. /\ deadline' \in [Timers -> 0 .. 2 * Half - 1] /\ remaining' \in [Timers -> 0 .. 2 * Half - 1]
      /\ deadline'[t] = Timing!OnClock(currentTime + left[t])
      /\ \A s \in Timers \ {t} : deadline'[s] = deadline[s] /\ remaining'[s] = remaining[s]
  BY <1>1, <1>2, <1>3, <1>4, <1>6 DEF TimersTypeOK
<1>8. DeadlinesInv'
  <2>1. Timing!Armed \subseteq Timers /\ paused \subseteq Timers
    BY <1>1, ArmedIs DEF TimersTypeOK
  <2>2. \A s \in Timing!Armed' \ paused' : deadline'[s] = Timing!OnClock(currentTime' + left'[s]) /\ left'[s] < Half
    BY <1>1, <1>2, <1>5, <1>7, <2>1 DEF DeadlinesInv
  <2>3. \A s \in paused' : remaining'[s] = Timing!OnClock(left'[s])
    BY <1>1, <1>2, <1>7, <2>1 DEF DeadlinesInv
  <2> QED
    BY <2>2, <2>3 DEF DeadlinesInv, Timing!OnClock
<1> QED
  BY <1>1, <1>2, <1>5, <1>7, <1>8, ProgramKeeps DEF TimersTypeOK, CalledInv

LEMMA CancelStep ==
    ASSUME TimersInv, NEW t \in Timing!Armed, Timing!cancelTimer(t),
           UNCHANGED <<gpuPumps, currentTime, lastHSync, elapsed, unseen>>
    PROVE  TimersInv'
<1>1. t \notin Timing!Calling /\ Timing!Erase(t)
  BY DEF Timing!cancelTimer
<1>2. ~Inactive /\ Active.phase = "timer" => Active.at # t
  <2> SUFFICES ASSUME ~Inactive, Active.phase = "timer", Active.at = t PROVE FALSE
    OBVIOUS
  <2>1. PICK p \in Call : gpuPumps = <<p>>
    BY DEF TimersInv, TimersTypeOK
  <2>2. 1 \in DOMAIN gpuPumps /\ gpuPumps[1].phase = "timer" /\ gpuPumps[1].at = t
    BY <2>1 DEF Active, Timing!Top
  <2> QED
    BY <1>1, <2>2 DEF Timing!Calling
<1>3. ~Inactive /\ Active.phase = "timer" => Active.at \in Timing!Armed \ {t}
  BY <1>2 DEF TimersInv, CalledInv
<1>4. t \in Timers
  BY ArmedIs DEF TimersInv, TimersTypeOK
<1>5. \A s \in Timers : fired'[s] = 1 => fired[s] = 1 /\ period'[s] = period[s]
  BY <1>1, <1>4, ErasedInv
<1> QED
  BY <1>1, <1>3, <1>5, ErasedInv, ProgramKeeps

LEMMA ProgramStep == ASSUME TimersInv, Timing!Program PROVE TimersInv'
<1>1. UNCHANGED <<gpuPumps, currentTime, lastHSync, elapsed, unseen>>
  BY DEF Timing!Program, Timing!clock
<1>2. CASE \E t \in Timers \ Timing!Armed, d \in Delays : Timing!armTimer(t, d) \/ Timing!armPeriodicTimer(t, d)
  BY <1>1, <1>2, ArmStep DEF Timing!armTimer, Timing!armPeriodicTimer
<1>3. CASE \E t \in Timing!Armed : \/ \E d \in Delays, reset \in BOOLEAN : Timing!changeTimerPeriod(t, d, reset)
                                   \/ Timing!pauseTimer(t) \/ Timing!resumeTimer(t) \/ Timing!cancelTimer(t)
  BY <1>1, <1>3, ChangeStep, PauseStep, ResumeStep, CancelStep
<1> QED
  BY <1>2, <1>3 DEF Timing!Program

LEMMA PumpStepRight == ASSUME TimersInv, MaxDepth = 1, Timing!pumpCallbacks PROVE TimersInv'
<1> DEFINE value == elapsed % CounterRange
           last == (elapsed - unseen) % CounterRange
<1>1. TimersTypeOK /\ ClockInv /\ DeadlinesInv /\ CalledInv
  BY DEF TimersInv
<1>2. Inactive
  <2>1. Len(gpuPumps) < 1
    BY DEF Timing!pumpCallbacks
  <2> QED
    BY <1>1, <2>1 DEF TimersTypeOK, Inactive
<1>3. /\ elapsed \in Int /\ unseen \in 0 .. CounterRange - 1 /\ unseen \in Int /\ currentTime \in Int
      /\ elapsed - unseen \in Int /\ (elapsed - unseen) + unseen = elapsed /\ CounterRange \in Nat \ {0}
      /\ currentTime = Timing!OnClock(elapsed - unseen) /\ lastHSync = last
  BY <1>1, <1>2, Ranges DEF TimersTypeOK, ClockInv
<1>4. value \in 0 .. CounterRange - 1 /\ last \in 0 .. CounterRange - 1
  BY <1>3, Quotient
<1>5. value = last + unseen \/ value = last + unseen - CounterRange
  BY <1>3, LaterMod
<1> HIDE DEF value, last
<1>6. Timing!Since(value) = unseen
  BY <1>3, <1>4, <1>5 DEF Timing!Since
<1>7. /\ currentTime' = Timing!OnClock(currentTime + Timing!Since(value))
      /\ gpuPumps' = Append(gpuPumps, [phase |-> "scan", at |-> 0, value |-> value, time |-> currentTime'])
      /\ unseen' = 0
      /\ left' = [t \in Timers |-> left[t] - (IF t \in Timing!Armed \ paused THEN unseen ELSE 0)]
      /\ timers' = timers /\ deadline' = deadline /\ period' = period /\ paused' = paused
      /\ remaining' = remaining /\ lastHSync' = lastHSync /\ elapsed' = elapsed /\ fired' = fired
  BY DEF Timing!pumpCallbacks, Timing!settings, value
<1>8. currentTime' = Timing!OnClock(elapsed) /\ currentTime' \in 0 .. 2 * Half - 1
  <2>1. Timing!OnClock(currentTime + unseen) = Timing!OnClock((elapsed - unseen) + unseen)
    BY <1>3, ClockAdd
  <2> QED
    BY <1>3, <1>6, <1>7, <2>1, OnClockIs
<1> DEFINE p == [phase |-> "scan", at |-> 0, value |-> value, time |-> currentTime']
<1>9. p \in Call /\ p.phase = "scan" /\ p.value = value /\ p.time = currentTime'
  BY <1>4, <1>8 DEF Call
<1>10. gpuPumps' = <<p>>
  BY <1>2, <1>7 DEF Inactive
<1> HIDE DEF p
<1>11. Active' = p /\ ~Inactive'
  BY <1>10 DEF Active, Timing!Top, Inactive
<1>12. Timing!Armed' = Timing!Armed /\ Timing!Armed \subseteq Timers
  BY <1>1, <1>7, ArmedIs DEF Timing!Armed, TimersTypeOK
<1>13. /\ \A t \in Timers : left[t] \in Int /\ left'[t] \in Int
       /\ \A t \in Timing!Armed \ paused : left'[t] = left[t] - unseen
       /\ \A t \in paused : left'[t] = left[t]
       /\ left' \in [Timers -> Int]
  BY <1>1, <1>3, <1>7, <1>12 DEF TimersTypeOK
<1>14. TimersTypeOK'
  <2>1. unseen' \in 0 .. CounterRange - 1
    BY <1>3, <1>7
  <2> QED
    BY <1>1, <1>7, <1>8, <1>9, <1>10, <1>12, <1>13, <2>1 DEF TimersTypeOK
<1>15. ClockInv'
  <2>1. elapsed' - unseen' = elapsed
    BY <1>3, <1>7
  <2>2. Active'.time = currentTime' /\ Active'.value = elapsed % CounterRange
    BY <1>9, <1>11 DEF value
  <2> QED
    BY <1>8, <1>11, <2>1, <2>2 DEF ClockInv, Timing!OnClock
<1>16. DeadlinesInv'
  <2>1. ASSUME NEW t \in Timing!Armed' \ paused'
        PROVE  deadline'[t] = Timing!OnClock(currentTime' + left'[t]) /\ left'[t] < Half
    <3>1. /\ t \in Timing!Armed \ paused /\ left[t] \in Int /\ left'[t] = left[t] - unseen /\ left'[t] \in Int
          /\ deadline'[t] = Timing!OnClock(currentTime + left[t]) /\ left[t] < Half /\ Half \in Nat
      BY <1>1, <1>7, <1>12, <1>13, Ranges DEF DeadlinesInv
    <3>2. Timing!OnClock(currentTime + left[t]) = Timing!OnClock((elapsed - unseen) + left[t])
      BY <1>3, <3>1, ClockAdd
    <3>3. Timing!OnClock(currentTime' + left'[t]) = Timing!OnClock(elapsed + left'[t])
      <4>1. elapsed \in Int /\ left'[t] \in Int /\ currentTime' = Timing!OnClock(elapsed)
        BY <1>3, <1>8, <3>1
      <4> QED
        BY <4>1, ClockAdd
    <3>4. (elapsed - unseen) + left[t] = elapsed + left'[t]
      BY <1>3, <3>1
    <3>5. left'[t] < Half
      BY <1>3, <3>1
    <3> QED
      BY <3>1, <3>2, <3>3, <3>4, <3>5
  <2>2. \A t \in paused' : remaining'[t] = Timing!OnClock(left'[t])
    BY <1>1, <1>7, <1>13 DEF DeadlinesInv
  <2> QED
    BY <2>1, <2>2 DEF DeadlinesInv, Timing!OnClock
<1>17. CalledInv'
  BY <1>1, <1>2, <1>7, <1>9, <1>11 DEF CalledInv
<1> QED
  BY <1>14, <1>15, <1>16, <1>17 DEF TimersInv

(* The timer that is called is due. *)
LEMMA CallFacts ==
    ASSUME TimersInv, Timing!CallTimer
    PROVE  ~Inactive /\ Active.phase = "scan" /\ \E t \in Timing!Armed \ paused :
              /\ Timing!Goes("timer", t) /\ left[t] <= 0 /\ left[t] < Half
              /\ deadline' = [deadline EXCEPT ![t] = Timing!OnClock(@ + period[t])]
              /\ left' = [left EXCEPT ![t] = @ + period[t]]
              /\ fired' = [fired EXCEPT ![t] = IF period[t] = 0 THEN @ + 1 ELSE @]
<1>1. ~Inactive /\ Active.phase = "scan"
  BY DEF Timing!CallTimer, Active, Inactive
<1>2. PICK i \in Timing!Rest :
          /\ Timing!Goes("timer", timers[i])
          /\ deadline' = [deadline EXCEPT ![timers[i]] = Timing!OnClock(@ + period[timers[i]])]
          /\ left' = [left EXCEPT ![timers[i]] = @ + period[timers[i]]]
          /\ fired' = [fired EXCEPT ![timers[i]] = IF period[timers[i]] = 0 THEN @ + 1 ELSE @]
  BY DEF Timing!CallTimer
<1> DEFINE t == timers[i]
<1>3. t \in Timing!Armed \ paused /\ Timing!IsDue(t, Active.time)
  BY <1>2 DEF Timing!Rest, Timing!Armed, Active
<1>4. /\ t \in Timers /\ Active.time = currentTime /\ currentTime \in 0 .. 2 * Half - 1 /\ left[t] \in Int
      /\ deadline[t] = Timing!OnClock(currentTime + left[t]) /\ left[t] < Half
  BY <1>1, <1>3, ArmedIs DEF TimersInv, TimersTypeOK, ClockInv, DeadlinesInv
<1>5. left[t] <= 0
  BY <1>3, <1>4, DueIs DEF Timing!IsDue
<1> QED
  BY <1>1, <1>2, <1>3, <1>4, <1>5

LEMMA CallStep == ASSUME TimersInv, Timing!CallTimer PROVE TimersInv'
<1>1. TimersTypeOK /\ ClockInv /\ DeadlinesInv /\ CalledInv /\ ~Inactive /\ Active.phase = "scan"
  BY CallFacts DEF TimersInv
<1>2. PICK t \in Timing!Armed \ paused :
              /\ Timing!Goes("timer", t) /\ left[t] <= 0 /\ left[t] < Half
              /\ deadline' = [deadline EXCEPT ![t] = Timing!OnClock(@ + period[t])]
              /\ left' = [left EXCEPT ![t] = @ + period[t]]
              /\ fired' = [fired EXCEPT ![t] = IF period[t] = 0 THEN @ + 1 ELSE @]
  BY CallFacts
<1>3. /\ timers' = timers /\ period' = period /\ paused' = paused /\ remaining' = remaining
      /\ currentTime' = currentTime /\ lastHSync' = lastHSync /\ elapsed' = elapsed /\ unseen' = unseen
  BY DEF Timing!CallTimer, Timing!clock
<1>4. /\ t \in Timers /\ left[t] \in Int /\ period[t] \in 0 .. Half - 1 /\ period[t] \in Int /\ Half \in Nat
      /\ currentTime \in Int /\ deadline[t] = Timing!OnClock(currentTime + left[t])
      /\ deadline[t] \in Int /\ currentTime + left[t] \in Int
  BY <1>1, ArmedIs, Ranges DEF TimersTypeOK, DeadlinesInv
<1>5. /\ Timing!OnClock(deadline[t] + period[t]) = Timing!OnClock((currentTime + left[t]) + period[t])
      /\ Timing!OnClock(deadline[t] + period[t]) \in 0 .. 2 * Half - 1
      /\ (currentTime + left[t]) + period[t] = currentTime + (left[t] + period[t])
  <2>1. deadline[t] + period[t] \in Int
    BY <1>4
  <2>2. Timing!OnClock(deadline[t] + period[t]) = Timing!OnClock((currentTime + left[t]) + period[t])
    <3>1. deadline[t] = Timing!OnClock(currentTime + left[t]) /\ currentTime + left[t] \in Int /\ period[t] \in Int
      BY <1>4
    <3> QED
      BY <3>1, ClockAdd
  <2>3. Timing!OnClock(deadline[t] + period[t]) \in 0 .. 2 * Half - 1
    BY <2>1, OnClockIs
  <2>4. (currentTime + left[t]) + period[t] = currentTime + (left[t] + period[t])
    BY <1>4
  <2> QED
    BY <2>2, <2>3, <2>4
<1>6. \A s \in Timers : fired[s] = 0
  BY <1>1 DEF CalledInv, TimersTypeOK
<1>7. /\ ~Inactive' /\ \E p \in Call : gpuPumps' = <<p>>
      /\ Active'.phase = "timer" /\ Active'.at = t
      /\ Active'.value = Active.value /\ Active'.time = Active.time
  BY <1>1, <1>2, <1>4, OnePump
<1>8. Timing!Armed' = Timing!Armed /\ Timing!Armed \subseteq Timers
  BY <1>1, <1>3, ArmedIs DEF Timing!Armed, TimersTypeOK
<1>9. /\ deadline' \in [Timers -> 0 .. 2 * Half - 1] /\ left' \in [Timers -> Int]
      /\ deadline'[t] = Timing!OnClock(currentTime + left'[t]) /\ left'[t] < Half
      /\ \A s \in Timers \ {t} : deadline'[s] = deadline[s] /\ left'[s] = left[s]
  <2>1. left'[t] = left[t] + period[t] /\ left[t] + period[t] \in Int /\ left[t] + period[t] < Half
    BY <1>1, <1>2, <1>4 DEF TimersTypeOK
  <2>2. deadline'[t] = Timing!OnClock(deadline[t] + period[t])
    BY <1>1, <1>2, <1>4 DEF TimersTypeOK
  <2>3. \A s \in Timers \ {t} : deadline'[s] = deadline[s] /\ left'[s] = left[s]
    BY <1>1, <1>2 DEF TimersTypeOK
  <2>4. deadline' \in [Timers -> 0 .. 2 * Half - 1] /\ left' \in [Timers -> Int]
    BY <1>1, <1>2, <1>5, <2>1 DEF TimersTypeOK
  <2> QED
    BY <1>5, <2>1, <2>2, <2>3, <2>4
<1>10. fired' \in [Timers -> {0, 1}] /\ \A s \in Timers : fired'[s] = 1 => s = t /\ period[s] = 0
  <2>1. (IF period[t] = 0 THEN fired[t] + 1 ELSE fired[t]) \in {0, 1}
    BY <1>4, <1>6
  <2>2. \A s \in Timers \ {t} : fired'[s] = 0
    BY <1>1, <1>2, <1>6 DEF TimersTypeOK
  <2>3. fired'[t] = IF period[t] = 0 THEN fired[t] + 1 ELSE fired[t]
    BY <1>1, <1>2, <1>4 DEF TimersTypeOK
  <2>4. fired' \in [Timers -> {0, 1}]
    BY <1>1, <1>2, <1>4, <2>1 DEF TimersTypeOK
  <2> QED
    BY <1>4, <1>6, <2>2, <2>3, <2>4
<1>11. TimersTypeOK'
  BY <1>1, <1>3, <1>7, <1>8, <1>9, <1>10 DEF TimersTypeOK
<1>12. ClockInv'
  BY <1>1, <1>3, <1>7 DEF ClockInv, Timing!OnClock
<1>13. DeadlinesInv'
  <2>1. paused \subseteq Timers \ {t}
    BY <1>1, <1>2, <1>8 DEF TimersTypeOK
  <2>2. \A s \in Timing!Armed' \ paused' : deadline'[s] = Timing!OnClock(currentTime' + left'[s]) /\ left'[s] < Half
    BY <1>1, <1>3, <1>8, <1>9 DEF DeadlinesInv
  <2>3. \A s \in paused' : remaining'[s] = Timing!OnClock(left'[s])
    BY <1>1, <1>3, <1>9, <2>1 DEF DeadlinesInv
  <2> QED
    BY <2>2, <2>3 DEF DeadlinesInv, Timing!OnClock
<1>14. CalledInv'
  BY <1>2, <1>3, <1>7, <1>8, <1>10 DEF CalledInv
<1> QED
  BY <1>11, <1>12, <1>13, <1>14 DEF TimersInv

LEMMA ReturnStep == ASSUME TimersInv, Timing!TimerReturns PROVE TimersInv'
<1> DEFINE t == Active.at
<1>1. TimersTypeOK /\ ClockInv /\ DeadlinesInv /\ CalledInv
  BY DEF TimersInv
<1>2. ~Inactive /\ Active.phase = "timer" /\ t \in Timing!Armed /\ t \in Timers
  BY <1>1, ArmedIs DEF Timing!TimerReturns, Active, Inactive, TimersTypeOK
<1>3. UNCHANGED <<currentTime, lastHSync, elapsed, unseen>>
  BY DEF Timing!TimerReturns, Timing!clock
<1>4. CASE period[t] # 0 /\ Timing!Goes("scan", t)
           /\ UNCHANGED <<timers, deadline, period, paused, remaining, left, fired>>
  <2>1. /\ ~Inactive' /\ \E p \in Call : gpuPumps' = <<p>>
        /\ Active'.phase = "scan" /\ Active'.value = Active.value /\ Active'.time = Active.time
    BY <1>1, <1>2, <1>4, OnePump
  <2>2. Timing!Armed' = Timing!Armed
    BY <1>4 DEF Timing!Armed
  <2>3. \A s \in Timers : fired[s] # 1
    BY <1>1, <1>4 DEF CalledInv
  <2>4. TimersTypeOK'
    BY <1>1, <1>3, <1>4, <2>1, <2>2 DEF TimersTypeOK
  <2>5. ClockInv'
    BY <1>1, <1>2, <1>3, <2>1 DEF ClockInv, Timing!OnClock
  <2>6. DeadlinesInv'
    BY <1>1, <1>3, <1>4, Kept
  <2>7. CalledInv'
    BY <1>4, <2>1, <2>3 DEF CalledInv
  <2> QED
    BY <2>4, <2>5, <2>6, <2>7 DEF TimersInv
<1>5. CASE Timing!Goes("scan", 0) /\ Timing!Erase(t)
  <2>1. /\ ~Inactive' /\ \E p \in Call : gpuPumps' = <<p>>
        /\ Active'.phase = "scan" /\ Active'.value = Active.value /\ Active'.time = Active.time
    BY <1>1, <1>2, <1>5, OnePump
  <2>2. /\ DeadlinesInv'
        /\ timers' \in Seq(Timers) /\ \A i, j \in 1 .. Len(timers') : timers'[i] = timers'[j] => i = j
        /\ deadline' \in [Timers -> 0 .. 2 * Half - 1] /\ remaining' \in [Timers -> 0 .. 2 * Half - 1]
        /\ period' \in [Timers -> 0 .. Half - 1] /\ paused' \subseteq Timing!Armed'
        /\ left' \in [Timers -> Int] /\ fired' \in [Timers -> {0, 1}]
        /\ fired'[t] = 0 /\ \A s \in Timers \ {t} : fired'[s] = fired[s]
    BY <1>2, <1>3, <1>5, ErasedInv
  <2>3. \A s \in Timers : fired'[s] # 1
    <3> SUFFICES ASSUME NEW s \in Timers PROVE fired'[s] # 1
      OBVIOUS
    <3>1. CASE s = t
      BY <2>2, <3>1
    <3>2. CASE s # t
      <4>1. fired'[s] = fired[s] /\ fired[s] # 1
        BY <1>1, <2>2, <3>2 DEF CalledInv
      <4> QED
        BY <4>1
    <3> QED
      BY <3>1, <3>2
  <2>4. TimersTypeOK'
    BY <1>1, <1>3, <2>1, <2>2 DEF TimersTypeOK
  <2>5. ClockInv'
    BY <1>1, <1>2, <1>3, <2>1 DEF ClockInv, Timing!OnClock
  <2>6. CalledInv'
    BY <2>1, <2>3 DEF CalledInv
  <2> QED
    BY <2>2, <2>4, <2>5, <2>6 DEF TimersInv
<1> QED
  BY <1>4, <1>5 DEF Timing!TimerReturns, Timing!SingleEnds, Timing!settings, Active

LEMMA QueuedStep == ASSUME TimersInv, Timing!CallQueued PROVE TimersInv'
<1>1. TimersTypeOK /\ ClockInv /\ DeadlinesInv /\ CalledInv
  BY DEF TimersInv
<1>2. ~Inactive /\ Active.phase = "scan" /\ Timing!Goes("queued", 0)
  BY DEF Timing!CallQueued, Active, Inactive
<1>3. UNCHANGED <<timers, deadline, period, paused, remaining, left, fired, currentTime, lastHSync, elapsed, unseen>>
  BY DEF Timing!CallQueued, Timing!settings, Timing!clock
<1>4. /\ ~Inactive' /\ \E p \in Call : gpuPumps' = <<p>>
      /\ Active'.phase = "queued" /\ Active'.value = Active.value /\ Active'.time = Active.time
  BY <1>1, <1>2, OnePump
<1>5. Timing!Armed' = Timing!Armed
  BY <1>3 DEF Timing!Armed
<1>6. TimersTypeOK'
  BY <1>1, <1>3, <1>4, <1>5 DEF TimersTypeOK
<1>7. ClockInv'
  BY <1>1, <1>2, <1>3, <1>4 DEF ClockInv, Timing!OnClock
<1>8. DeadlinesInv'
  BY <1>1, <1>3, Kept
<1>9. CalledInv'
  BY <1>1, <1>2, <1>3, <1>4 DEF CalledInv
<1> QED
  BY <1>6, <1>7, <1>8, <1>9 DEF TimersInv

LEMMA EndStep == ASSUME TimersInv, Timing!PumpReturns PROVE TimersInv'
<1>1. TimersTypeOK /\ ClockInv /\ DeadlinesInv /\ CalledInv
  BY DEF TimersInv
<1>2. ~Inactive /\ Active.phase = "queued" /\ lastHSync' = Active.value /\ gpuPumps' = Timing!Outer
  BY DEF Timing!PumpReturns, Active, Inactive
<1>3. UNCHANGED <<timers, deadline, period, paused, remaining, left, fired, currentTime, elapsed, unseen>>
  BY DEF Timing!PumpReturns, Timing!settings
<1>4. Inactive' /\ Active \in Call
  BY <1>1, <1>2, OnePump DEF Inactive
<1>5. Timing!Armed' = Timing!Armed
  BY <1>3 DEF Timing!Armed
<1>6. TimersTypeOK'
  <2>1. lastHSync' \in 0 .. CounterRange - 1
    BY <1>2, <1>4 DEF Call
  <2> QED
    BY <1>1, <1>3, <1>4, <1>5, <2>1 DEF TimersTypeOK
<1>7. ClockInv'
  BY <1>1, <1>2, <1>3, <1>4 DEF ClockInv, Timing!OnClock
<1>8. DeadlinesInv'
  BY <1>1, <1>3, Kept
<1>9. CalledInv'
  BY <1>1, <1>2, <1>3, <1>4 DEF CalledInv
<1> QED
  BY <1>6, <1>7, <1>8, <1>9 DEF TimersInv

LEMMA TimersStep == ASSUME TimersInv, MaxDepth = 1, Timing!Next \/ UNCHANGED timing PROVE TimersInv'
<1>1. CASE UNCHANGED timing
  <2>1. UNCHANGED <<timers, deadline, period, paused, remaining, left, fired, currentTime, lastHSync, elapsed,
                    unseen, gpuPumps>>
    BY <1>1 DEF timing
  <2>2. Timing!Armed' = Timing!Armed /\ Active' = Active /\ Inactive' = Inactive
    BY <2>1 DEF Timing!Armed, Active, Timing!Top, Inactive
  <2>3. TimersTypeOK'
    BY <2>1, <2>2 DEF TimersInv, TimersTypeOK
  <2>4. ClockInv' /\ DeadlinesInv' /\ CalledInv'
    BY <2>1, <2>2 DEF TimersInv, ClockInv, DeadlinesInv, CalledInv, Timing!OnClock
  <2> QED
    BY <2>3, <2>4 DEF TimersInv
<1> QED
  BY <1>1, BlankStep, ProgramStep, PumpStepRight, CallStep, QueuedStep, ReturnStep, EndStep DEF Timing!Next

(* The clock tells the blanks there were, although counter and clock wrap  *)
(* around; a timer is called only when what it has left is used up, through *)
(* every change of its period, pause and resumption; and a single one once *)
(* (gpu.cpp, pumpCallbacks; gpu.hh:421, 428).  No callback pumps.          *)
THEOREM TimersStaySound == MaxDepth = 1 => (MainSpec => TimersSound)
<1> SUFFICES ASSUME MaxDepth = 1 PROVE MainSpec => TimersSound
  OBVIOUS
<1>1. MainInit => TimersInv
  BY TimersInit DEF MainInit
<1>2. TimersInv /\ [MainNext]_all => TimersInv'
  BY TimersStep DEF MainNext, all
<1>3. TimersInv => Timing!ClockTrue /\ Timing!SingleFiresOnce
  <2>1. TimersInv => \A t \in Timers : fired[t] \in {0, 1}
    BY DEF TimersInv, TimersTypeOK
  <2>2. TimersInv => Timing!SingleFiresOnce
    BY <2>1 DEF Timing!SingleFiresOnce
  <2> QED
    BY <2>2 DEF TimersInv, ClockInv, Timing!ClockTrue
<1>4. TimersInv =>
          [\A t \in Timers : (Timing!CallTimer /\ gpuPumps'[Len(gpuPumps')].at = t) => left[t] <= 0]_(Timing!vars)
  <2> SUFFICES ASSUME TimersInv, NEW t \in Timers, Timing!CallTimer, gpuPumps'[Len(gpuPumps')].at = t
               PROVE  left[t] <= 0
    OBVIOUS
  <2>1. PICK s \in Timing!Armed \ paused : Timing!Goes("timer", s) /\ left[s] <= 0
    BY CallFacts
  <2>2. s \in Timers /\ ~Inactive /\ TimersTypeOK
    BY ArmedIs, CallFacts DEF TimersInv, TimersTypeOK
  <2>3. gpuPumps'[Len(gpuPumps')].at = s
    <3>1. s \in {0} \cup Timers /\ "timer" \in {"scan", "timer", "queued"}
      BY <2>2
    <3> QED
      BY <2>1, <2>2, <3>1, OnePump
  <2> QED
    BY <2>1, <2>3
<1> QED
  BY <1>1, <1>2, <1>3, <1>4, PTL DEF MainSpec, TimersSound, Timing!NotEarly
=============================================================================
