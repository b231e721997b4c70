------------------------ MODULE EventScheduler_proof ------------------------
(***************************************************************************)
(* Proofs about what branchTest looks after: EventScheduler, for every set *)
(* of sources, every table of what the handlers do, every delay and every  *)
(* horizon; and, in the second half, RootCounters.                         *)
(***************************************************************************)
EXTENDS MCBranchTest, TLAPS

(* What lowestTarget guarantees while the guest runs, and during           *)
(* Counters::update, where branchTest has already read the cycle.          *)
LowestIsSafe ==
    view = "fresh" =>
        /\ pc = "guest" => \/ lowestTarget <= cycle
                           \/ \A i \in interrupt : lowestTarget <= intTargets[i]
        /\ pc = "update" => \/ lowestTarget < now
                            \/ \A i \in interrupt : lowestTarget <= intTargets[i]

(* branchTest's copy of the cycle *)
NowIsFresh ==
    view = "fresh" =>
        /\ pc = "guest" => now <= cycle
        /\ pc = "update" => now = cycle

(* In a pass an event that is still armed is either not due, or in the     *)
(* snapshot and at a position the pass has yet to reach.                   *)
PassCovers ==
    pc = "check" =>
        /\ nearest <= 0
        /\ newLowest = now
        /\ now = cycle => \A i \in interrupt :
              \/ intTargets[i] >= now
              \/ i \in snapshot /\ \E k \in index .. Len(Order) : Order[k] = i

IInv == TypeOK /\ NothingOverdue /\ LowestIsSafe /\ NowIsFresh /\ PassCovers

LEMMA Positions ==
    /\ Len(Order) \in Nat
    /\ \A k \in 1 .. Len(Order) : Order[k] \in Irq
    /\ \A i \in Irq : \E k \in 1 .. Len(Order) : Order[k] = i
BY OrderAssumption

LEMMA ArmedTargetsType ==
    ASSUME TypeOK, NEW A \in SUBSET Irq, NEW d \in [A -> Delays]
    PROVE  /\ ArmedTargets(A, d) \in [Irq -> Nat]
           /\ LowestAfter(A, d) \subseteq Nat
<1>1. d \in [A -> Nat]
  BY TimeAssumption
<1>2. ArmedTargets(A, d) \in [Irq -> Nat]
  BY <1>1 DEF TypeOK, ArmedTargets
<1>3. LowestAfter(A, d) \subseteq Nat
  BY <1>1 DEF TypeOK, LowestAfter
<1> QED
  BY <1>2, <1>3

LEMMA InitIInv == Init => IInv
BY DEF Init, IInv, TypeOK, NothingOverdue, LowestIsSafe, NowIsFresh, PassCovers,
       States, NoState, Stages, InitialDistance

(* Nothing is armed sooner than the cycle, and lowestTarget follows. *)
LEMMA ScheduleIInv ==
    ASSUME IInv, NEW i \in Irq, Schedule(i)
    PROVE  IInv'
<1>1. PICK d \in Delays :
        /\ interrupt' = interrupt \cup {i}
        /\ intTargets' = ArmedTargets({i}, [j \in {i} |-> d])
        /\ lowestTarget' \in LowestAfter({i}, [j \in {i} |-> d])
  BY DEF Schedule
<1>2. /\ intTargets' = [j \in Irq |-> IF j = i THEN cycle + d ELSE intTargets[j]]
      /\ lowestTarget' \in {lowestTarget, cycle + d}
      /\ lowestTarget' <= lowestTarget
      /\ lowestTarget' <= cycle + d
  BY <1>1 DEF ArmedTargets, LowestAfter, IInv, TypeOK
<1>3. /\ cycle \in Nat /\ d \in Nat /\ lowestTarget \in Nat /\ now \in Nat
      /\ intTargets \in [Irq -> Nat] /\ interrupt \in SUBSET Irq
      /\ cycle + d >= cycle
  BY TimeAssumption DEF IInv, TypeOK
<1>4. /\ intTargets' \in [Irq -> Nat]
      /\ intTargets'[i] = cycle + d
      /\ \A j \in Irq \ {i} : intTargets'[j] = intTargets[j]
      /\ lowestTarget' \in Nat
      /\ interrupt' = interrupt \cup {i}
  <2>1. intTargets' \in [Irq -> Nat]
    BY <1>2, <1>3
  <2>2. /\ intTargets'[i] = cycle + d
        /\ \A j \in Irq \ {i} : intTargets'[j] = intTargets[j]
    BY <1>2, <1>3
  <2> QED
    BY <1>1, <1>2, <1>3, <2>1, <2>2
<1>5. TypeOK'
  BY <1>4 DEF IInv, TypeOK, Schedule, local
<1>6. /\ pc \in {"guest", "update"}
      /\ UNCHANGED <<cycle, pc, now, view>>
  BY DEF Schedule, local
<1>7. NothingOverdue'
  <2>1. (pc = "guest" /\ view = "fresh") => cycle + d >= now
    BY <1>3 DEF IInv, NowIsFresh
  <2> QED
    BY <2>1, <1>3, <1>4, <1>6 DEF IInv, NothingOverdue
<1>9. NowIsFresh' /\ PassCovers'
  BY <1>6 DEF IInv, NowIsFresh, PassCovers
<1>8. LowestIsSafe'
  <2>1. lowestTarget' <= lowestTarget /\ lowestTarget' <= cycle + d
    BY <1>2
  <2>2. \A t \in Nat : lowestTarget <= t => lowestTarget' <= t
    BY <2>1, <1>3, <1>4
  <2>3. (\A j \in interrupt : lowestTarget <= intTargets[j])
            => \A j \in interrupt' : lowestTarget' <= intTargets'[j]
    BY <2>1, <2>2, <1>3, <1>4
  <2> QED
    BY <2>1, <2>3, <1>3, <1>4, <1>6 DEF IInv, LowestIsSafe
<1> QED
  BY <1>5, <1>7, <1>8, <1>9 DEF IInv

LEMMA EnterPassIInv == IInv /\ EnterPass => IInv'
<1> SUFFICES ASSUME IInv, EnterPass PROVE IInv'
  OBVIOUS
<1>1. TypeOK'
  BY DEF IInv, TypeOK, EnterPass, regs, Stages, InitialDistance
<1>2. PassCovers'
  BY Positions DEF IInv, TypeOK, EnterPass, regs, PassCovers, InitialDistance
<1>3. (NothingOverdue /\ LowestIsSafe /\ NowIsFresh)'
  BY DEF EnterPass, NothingOverdue, LowestIsSafe, NowIsFresh
<1> QED
  BY <1>1, <1>2, <1>3 DEF IInv

(* A pass is skipped only when lowestTarget vouches for every event. *)
LEMMA SkipPassIInv == IInv /\ SkipPass => IInv'
BY DEF IInv, TypeOK, SkipPass, PassGuard, regs, local, Stages, NothingOverdue,
       LowestIsSafe, NowIsFresh, PassCovers

LEMMA PassOverIInv == IInv /\ PassOver => IInv'
<1> SUFFICES ASSUME IInv, PassOver PROVE IInv'
  OBVIOUS
<1>1. TypeOK'
  BY DEF IInv, TypeOK, PassOver, regs
<1>2. \A i \in snapshot : \A k \in index .. Len(Order) :
         Order[k] = i => k \in index' .. Len(Order)
  BY DEF IInv, TypeOK, PassOver, Current
<1>3. PassCovers'
  BY <1>2 DEF IInv, TypeOK, PassOver, regs, PassCovers
<1>4. (NothingOverdue /\ LowestIsSafe /\ NowIsFresh)'
  BY DEF PassOver, NothingOverdue, LowestIsSafe, NowIsFresh
<1> QED
  BY <1>1, <1>3, <1>4 DEF IInv

(* The bookkeeping of lowestDistance never takes effect: it starts below   *)
(* every distance.                                                         *)
LEMMA RememberIInv == IInv /\ Remember => IInv'
<1> SUFFICES ASSUME IInv, Remember PROVE IInv'
  OBVIOUS
<1>0. /\ Current \in Irq
      /\ Distance \in Int
      /\ Distance > 0
      /\ intTargets[Current] > now
  BY DEF IInv, TypeOK, Remember, Current, Distance
<1>1. nearest' = nearest /\ newLowest' = newLowest
  BY <1>0 DEF IInv, TypeOK, Remember, PassCovers
<1>2. TypeOK'
  BY <1>1 DEF IInv, TypeOK, Remember, regs
<1>3. \A i \in interrupt : \A k \in index .. Len(Order) :
         Order[k] = i => intTargets[i] >= now \/ k \in index' .. Len(Order)
  BY <1>0 DEF IInv, TypeOK, Remember, Current
<1>4. PassCovers'
  BY <1>1, <1>3 DEF IInv, TypeOK, Remember, regs, PassCovers
<1>5. (NothingOverdue /\ LowestIsSafe /\ NowIsFresh)'
  BY DEF Remember, NothingOverdue, LowestIsSafe, NowIsFresh
<1> QED
  BY <1>2, <1>4, <1>5 DEF IInv

(* What a handler schedules, it schedules for the cycle or later. *)
LEMMA FireIInv == IInv /\ Fire => IInv'
<1> SUFFICES ASSUME IInv, Fire PROVE IInv'
  OBVIOUS
<1>0. Current \in Irq
  BY DEF IInv, TypeOK, Fire, Current
<1>1. PICK A \in SUBSET MayArm[Current], C \in SUBSET MayCancel[Current] :
        \E d \in [A -> Delays] :
          /\ interrupt' = ((interrupt \ {Current}) \ C) \cup A
          /\ intTargets' = ArmedTargets(A, d)
          /\ lowestTarget' \in LowestAfter(A, d)
  BY DEF Fire
<1>2. PICK d \in [A -> Delays] :
          /\ interrupt' = ((interrupt \ {Current}) \ C) \cup A
          /\ intTargets' = ArmedTargets(A, d)
          /\ lowestTarget' \in LowestAfter(A, d)
  BY <1>1
<1>3. A \in SUBSET Irq
  BY <1>0, <1>1, IrqAssumption
<1>4. intTargets' \in [Irq -> Nat] /\ lowestTarget' \in Nat
  BY <1>2, <1>3, ArmedTargetsType DEF IInv
<1>5. TypeOK'
  BY <1>2, <1>3, <1>4 DEF IInv, TypeOK, Fire
<1>6. \A i \in interrupt' :
         \/ i \in A /\ intTargets'[i] >= cycle
         \/ i \in interrupt /\ i # Current /\ intTargets'[i] = intTargets[i]
  <2>1. \A i \in A : d[i] \in Nat /\ cycle + d[i] >= cycle
    <3>1. \A i \in A : d[i] \in Nat
      BY TimeAssumption
    <3> QED
      BY <3>1 DEF IInv, TypeOK
  <2>2. \A i \in Irq : intTargets'[i] = IF i \in A THEN cycle + d[i] ELSE intTargets[i]
    BY <1>2 DEF ArmedTargets
  <2> QED
    BY <1>2, <1>3, <2>1, <2>2 DEF IInv, TypeOK
<1>7. \A i \in Irq : \A k \in index .. Len(Order) :
         Order[k] = i => i = Current \/ k \in index' .. Len(Order)
  BY DEF IInv, TypeOK, Fire, Current
<1>8. PassCovers'
  <2>1. /\ pc = "check" /\ pc' = "check"
        /\ nearest' = nearest /\ newLowest' = newLowest
        /\ now' = now /\ cycle' = cycle /\ snapshot' = snapshot
    BY DEF Fire
  <2>2. ASSUME now = cycle, NEW i \in interrupt'
        PROVE  \/ intTargets'[i] >= now
               \/ i \in snapshot /\ \E k \in index' .. Len(Order) : Order[k] = i
    <3>1. CASE i \in A /\ intTargets'[i] >= cycle
      BY <3>1, <2>2
    <3>2. CASE i \in interrupt /\ i # Current /\ intTargets'[i] = intTargets[i]
      <4>1. \/ intTargets[i] >= now
            \/ i \in snapshot /\ \E k \in index .. Len(Order) : Order[k] = i
        BY <2>1, <2>2, <3>2 DEF IInv, PassCovers
      <4> QED
        BY <4>1, <3>2, <1>7 DEF IInv, TypeOK
    <3> QED
      BY <3>1, <3>2, <1>6
  <2> QED
    BY <2>1, <2>2 DEF IInv, PassCovers
<1>9. (NothingOverdue /\ LowestIsSafe /\ NowIsFresh)'
  BY DEF Fire, NothingOverdue, LowestIsSafe, NowIsFresh
<1> QED
  BY <1>5, <1>8, <1>9 DEF IInv

LEMMA EndPassIInv == IInv /\ EndPass => IInv'
<1> SUFFICES ASSUME IInv, EndPass PROVE IInv'
  OBVIOUS
<1>1. TypeOK'
  BY DEF IInv, TypeOK, EndPass, Stages
<1>2. ASSUME now = cycle, NEW i \in interrupt PROVE intTargets[i] >= now
  BY <1>2 DEF IInv, TypeOK, EndPass, PassCovers
<1>3. (NothingOverdue /\ LowestIsSafe /\ NowIsFresh)'
  BY <1>2 DEF IInv, TypeOK, EndPass, NothingOverdue, LowestIsSafe, NowIsFresh, PassCovers
<1>4. PassCovers'
  BY DEF EndPass, PassCovers
<1> QED
  BY <1>1, <1>3, <1>4 DEF IInv

LEMMA GuestIInv == IInv /\ (Execute \/ TakeBranch \/ SaveState) => IInv'
<1> SUFFICES ASSUME IInv PROVE Execute \/ TakeBranch \/ SaveState => IInv'
  OBVIOUS
<1>1. CASE Execute
  <2>1. PICK n \in Blocks : cycle' = cycle + n
    BY <1>1 DEF Execute
  <2>2. n \in Nat /\ n > 0
    BY TimeAssumption
  <2>3. TypeOK'
    BY <1>1, <2>1, <2>2 DEF IInv, TypeOK, Execute, local
  <2>4. (NothingOverdue /\ LowestIsSafe /\ NowIsFresh /\ PassCovers)'
    BY <1>1, <2>1, <2>2 DEF IInv, TypeOK, Execute, local, NothingOverdue, LowestIsSafe,
                            NowIsFresh, PassCovers
  <2> QED
    BY <2>3, <2>4 DEF IInv
<1>2. CASE TakeBranch
  <2>1. PICK n \in Blocks : cycle' = cycle + n /\ now' = cycle + n
    BY <1>2 DEF TakeBranch
  <2>2. n \in Nat /\ n > 0
    BY TimeAssumption
  <2>3. TypeOK'
    BY <1>2, <2>1, <2>2 DEF IInv, TypeOK, TakeBranch, Stages
  <2>4. (NothingOverdue /\ LowestIsSafe /\ NowIsFresh /\ PassCovers)'
    BY <1>2, <2>1, <2>2 DEF IInv, TypeOK, TakeBranch, NothingOverdue, LowestIsSafe,
                            NowIsFresh, PassCovers
  <2> QED
    BY <2>3, <2>4 DEF IInv
<1>3. CASE SaveState
  BY <1>3 DEF IInv, TypeOK, SaveState, regs, local, States, NothingOverdue,
              LowestIsSafe, NowIsFresh, PassCovers
<1> QED
  BY <1>1, <1>2, <1>3

LEMMA CancelIInv ==
    ASSUME IInv, NEW i \in Irq, Cancel(i)
    PROVE  IInv'
BY DEF IInv, TypeOK, Cancel, local, NothingOverdue, LowestIsSafe, NowIsFresh, PassCovers

LEMMA ReplaceIInv == IInv /\ (LoadState \/ Reset) => IInv'
<1> SUFFICES ASSUME IInv, LoadState \/ Reset PROVE IInv'
  OBVIOUS
<1>1. PICK s \in {slot, NoState} : Replace(s) /\ lowestTarget' = s.cycle
  BY DEF LoadState, Reset, LoadedLowest, NoState
<1>2. s \in States /\ pc \in {"guest", "update"}
  <2>1. NoState \in States
    BY DEF NoState, States
  <2> QED
    BY <2>1, TimeAssumption DEF IInv, TypeOK, LoadState, Reset, GuiRuns
<1>3. TypeOK'
  BY <1>1, <1>2 DEF IInv, TypeOK, Replace, States
<1>4. (NothingOverdue /\ LowestIsSafe /\ NowIsFresh /\ PassCovers)'
  BY <1>1, <1>2 DEF IInv, TypeOK, Replace, States, NothingOverdue, LowestIsSafe,
                    NowIsFresh, PassCovers
<1> QED
  BY <1>3, <1>4 DEF IInv

LEMMA NextIInv == IInv /\ [Next]_vars => IInv'
<1> SUFFICES ASSUME IInv, [Next]_vars PROVE IInv'
  OBVIOUS
<1>1. CASE Execute \/ TakeBranch \/ SaveState
  BY <1>1, GuestIInv
<1>2. ASSUME NEW i \in Irq, Schedule(i) PROVE IInv'
  BY <1>2, ScheduleIInv
<1>3. ASSUME NEW i \in Irq, Cancel(i) PROVE IInv'
  BY <1>3, CancelIInv
<1>4. CASE EnterPass \/ SkipPass
  BY <1>4, EnterPassIInv, SkipPassIInv
<1>5. CASE PassOver \/ Remember \/ Fire \/ EndPass
  BY <1>5, PassOverIInv, RememberIInv, FireIInv, EndPassIInv
<1>6. CASE LoadState \/ Reset
  BY <1>6, ReplaceIInv
<1>7. CASE UNCHANGED vars
  BY <1>7 DEF vars, regs, local, IInv, TypeOK, NothingOverdue, LowestIsSafe, NowIsFresh,
              PassCovers
<1> QED
  BY <1>1, <1>2, <1>3, <1>4, <1>5, <1>6, <1>7 DEF Next

(* The registers and branchTest's locals keep their types. *)
THEOREM TypeCorrect == Spec => []TypeOK
<1>1. IInv => TypeOK
  BY DEF IInv
<1> QED
  BY <1>1, InitIInv, NextIInv, PTL DEF Spec

(* branchTest never leaves an overdue event behind, whatever the handlers  *)
(* schedule and cancel while it runs, unless a state came in inside it.    *)
THEOREM NoEventOverdue == Spec => []NothingOverdue
<1>1. IInv => NothingOverdue
  BY DEF IInv
<1> QED
  BY <1>1, InitIInv, NextIInv, PTL DEF Spec

-----------------------------------------------------------------------------
(* The refinement.  Without the GUI branchTest's copy of the cycle is the   *)
(* cycle, so that what a pass leaves behind is not due yet.                 *)

OnTime == view = "fresh" /\ (pc # "guest" => now = cycle)

RInv == IInv /\ OnTime

Due == [i \in Irq |-> IF i \in interrupt THEN intTargets[i] ELSE -1]

LEMMA OnTimeNext ==
    ASSUME GuiAt = {}, RInv, [Next]_vars
    PROVE  RInv'
<1>1. IInv'
  BY NextIInv DEF RInv
<1>2. ~GuiRuns
  BY DEF GuiRuns
<1>3. OnTime'
  <2> USE DEF RInv, OnTime
  <2>1. CASE Execute \/ TakeBranch \/ EnterPass \/ SkipPass
    BY <2>1 DEF Execute, TakeBranch, EnterPass, SkipPass, local, regs
  <2>2. CASE \E i \in Irq : Schedule(i) \/ Cancel(i)
    BY <2>2 DEF Schedule, Cancel, local
  <2>3. CASE PassOver \/ Remember \/ Fire \/ EndPass
    BY <2>3 DEF PassOver, Remember, Fire, EndPass, regs
  <2>4. CASE SaveState \/ LoadState \/ Reset
    BY <2>4, <1>2 DEF SaveState, LoadState, Reset
  <2>5. CASE UNCHANGED vars
    BY <2>5 DEF vars, regs, local
  <2> QED
    BY <2>1, <2>2, <2>3, <2>4, <2>5 DEF Next
<1> QED
  BY <1>1, <1>3 DEF RInv

(* scheduleInterrupt sets the due times of the events of A and no other. *)
LEMMA DueAfter ==
    ASSUME TypeOK, NEW A \in SUBSET Irq, NEW C \in SUBSET Irq, NEW d \in [A -> Delays],
           interrupt' = (interrupt \ C) \cup A, intTargets' = ArmedTargets(A, d)
    PROVE  Due' = [i \in Irq |-> IF i \in A THEN cycle + d[i]
                                  ELSE IF i \in C THEN -1 ELSE Due[i]]
  BY DEF Due, ArmedTargets, TypeOK

LEMMA ScheduleRefines ==
    ASSUME TypeOK, NEW i \in Irq, Schedule(i)
    PROVE  Timers!Request(i)
<1>1. PICK d \in Delays :
        /\ interrupt' = interrupt \cup {i}
        /\ intTargets' = ArmedTargets({i}, [j \in {i} |-> d])
  BY DEF Schedule
<1>2. Due' = [j \in Irq |-> IF j = i THEN cycle + d ELSE Due[j]]
  <2>1. [j \in {i} |-> d] \in [{i} -> Delays] /\ interrupt' = (interrupt \ {}) \cup {i}
    BY <1>1
  <2> QED
    BY <1>1, <2>1, DueAfter
<1>3. Due' = [Due EXCEPT ![i] = cycle + d]
  BY <1>2 DEF Due
<1> QED
  BY <1>3 DEF Schedule, Timers!Request, Due

LEMMA CancelRefines ==
    ASSUME TypeOK, NEW i \in Irq, Cancel(i)
    PROVE  Timers!Withdraw(i)
<1>1. Due' = [Due EXCEPT ![i] = -1]
  BY DEF Cancel, Due
<1> QED
  BY <1>1 DEF Cancel, Timers!Withdraw, Timers!Off, Due

(* The handler of an event that was cancelled by an earlier one of the pass *)
(* runs too, which EventTimers allows.                                      *)
LEMMA FireRefines ==
    ASSUME RInv, Fire, NEW i \in Irq, i = Current
    PROVE  Timers!Handle(i)
<1>1. TypeOK /\ intTargets[i] <= cycle /\ pc = "check" /\ cycle \in Nat
  BY Positions DEF Fire, RInv, OnTime, IInv, TypeOK, Distance
<1>2. PICK A \in SUBSET MayArm[i], C \in SUBSET MayCancel[i] :
        \E d \in [A -> Delays] :
            /\ interrupt' = ((interrupt \ {i}) \ C) \cup A
            /\ intTargets' = ArmedTargets(A, d)
  BY DEF Fire
<1>3. PICK d \in [A -> Delays] :
        /\ interrupt' = ((interrupt \ {i}) \ C) \cup A
        /\ intTargets' = ArmedTargets(A, d)
  BY <1>2
<1> DEFINE D == C \cup {i}
<1>4. A \in SUBSET Irq /\ D \in SUBSET Irq
  BY IrqAssumption
<1>5. interrupt' = (interrupt \ D) \cup A
  BY <1>3
<1>6. Due' = [j \in Irq |-> IF j \in A THEN cycle + d[j]
                            ELSE IF j \in D THEN -1 ELSE Due[j]]
  <2> HIDE DEF D
  <2> QED
    BY <1>1, <1>3, <1>4, <1>5, DueAfter
<1>7. Due[i] <= cycle
  BY <1>1 DEF Due
<1>8. pc # "guest" /\ UNCHANGED <<cycle, pc>>
  BY <1>1 DEF Fire
<1>9. \E B \in SUBSET MayArm[i], E \in SUBSET MayCancel[i] : \E e \in [B -> Delays] :
        Due' = [j \in Irq |-> IF j \in B THEN cycle + e[j]
                              ELSE IF j \in E \cup {i} THEN -1 ELSE Due[j]]
  BY <1>6
<1> QED
  BY <1>7, <1>8, <1>9 DEF Timers!Handle, Timers!Off, Due

(* A branch test ends when no event is due. *)
LEMMA EndRefines ==
    ASSUME RInv, RInv', SkipPass \/ EndPass
    PROVE  Timers!Finish
<1>1. /\ pc # "guest" /\ pc' = "guest" /\ UNCHANGED <<cycle, interrupt, intTargets, now>>
      /\ now = cycle
  BY DEF SkipPass, EndPass, regs, local, RInv, OnTime
<1>2. \A i \in interrupt : intTargets[i] >= cycle
  BY <1>1 DEF RInv, OnTime, IInv, NothingOverdue
<1>3. \A i \in Irq : Due[i] = -1 \/ Due[i] >= cycle
  BY <1>2 DEF Due
<1> QED
  BY <1>1, <1>3 DEF Timers!Finish, Timers!Off, Due

LEMMA StepRefines ==
    ASSUME GuiAt = {}, RInv, RInv', [Next]_vars
    PROVE  [Timers!Next]_(Timers!timers)
<1>0. TypeOK /\ ~GuiRuns
  BY DEF RInv, IInv, GuiRuns
<1>1. CASE Execute \/ TakeBranch
  <2>1. Timers!Advance
    BY <1>1 DEF Execute, TakeBranch, Timers!Advance
  <2> QED
    BY <2>1 DEF Timers!Next
<1>2. ASSUME NEW i \in Irq, Schedule(i) \/ Cancel(i) PROVE Timers!Next
  BY <1>0, <1>2, ScheduleRefines, CancelRefines DEF Timers!Next
<1>3. CASE EnterPass \/ PassOver \/ Remember \/ UNCHANGED vars
  BY <1>3 DEF EnterPass, PassOver, Remember, vars, regs, local, Timers!timers
<1>4. CASE Fire
  <2>1. PICK i \in Irq : i = Current
    BY <1>4, Positions, <1>0 DEF Fire, Current, TypeOK
  <2> QED
    BY <1>4, <2>1, FireRefines DEF Timers!Next
<1>5. CASE SkipPass \/ EndPass
  BY <1>5, EndRefines DEF Timers!Next
<1>6. CASE SaveState \/ LoadState \/ Reset
  BY <1>0, <1>6 DEF SaveState, LoadState, Reset
<1> QED
  BY <1>1, <1>2, <1>3, <1>4, <1>5, <1>6 DEF Next

(* scheduleInterrupt and branchTest implement the timers a device counts   *)
(* on, for any events and handlers, while the user keeps his hands off.    *)
THEOREM ImplementsTimers == GuiAt = {} => (Spec => KeepsTime)
<1> SUFFICES ASSUME GuiAt = {} PROVE Spec => KeepsTime
  OBVIOUS
<1>1. Init => RInv /\ Timers!Init
  <2>1. Init => RInv
    BY InitIInv DEF Init, RInv, OnTime
  <2>2. Init => Timers!Init
    BY DEF Init, Timers!Init, Timers!Off
  <2> QED
    BY <2>1, <2>2
<1>2. RInv /\ [Next]_vars => RInv'
  BY OnTimeNext
<1>3. RInv /\ RInv' /\ [Next]_vars => [Timers!Next]_(Timers!timers)
  BY StepRefines
<1> QED
  BY <1>1, <1>2, <1>3, PTL DEF Spec, KeepsTime, Timers!Spec

-----------------------------------------------------------------------------
(* The root counters, for any number of counters, widths of counts and      *)
(* products, scanlines and frames.                                          *)

All == Ctr \cup {3}

(* What stays as it is, or as the guest wrote it *)
Fits(i, r) ==
    /\ r \in Counters!Rcnt
    /\ i = 3 => r.rate = 1 /\ r.target = Line /\ r.mode = [flags |-> {"reset"}, sync |-> 0]
    /\ i # 3 => r.rate \in {1, Slow[i], Counters!Stopped} /\ r.target \in Targets \cup {0}

(* The next event of a counter that counts freely is the first it will      *)
(* come to, and has not come.                                               *)
Well(r) ==
    /\ r.goal = "target" => r.due = r.target * r.rate /\ r.target < Top /\ r.ago < r.due
    /\ r.goal = "overflow" => r.due = Top * r.rate /\ (r.target = Top \/ r.target * r.rate <= r.ago)
    /\ r.ago <= r.due

Counted(c) ==
    /\ c \in [All -> Counters!Rcnt]
    /\ \A i \in All : Fits(i, c[i]) /\ (Counters!Free(i, c[i]) => Well(c[i]))
    /\ c[3].goal = "target"

InTime(c, x) == x \in Int /\ \A i \in All : Counters!Free(i, c[i]) => x <= c[i].due - c[i].ago

Shows(c, t) == \A i \in Ctr : Counters!Judged(i, c[i]) => c[i].ago = t[i]

CountInv ==
    /\ Counters!TypeOK /\ Counted(rcnt) /\ InTime(rcnt, next)
    /\ line * Line + rcnt[3].ago = clock
    /\ Shows(rcnt, truth) /\ Counters!InterruptsTrue

LEMMA Numbers ==
    /\ Ctr \subseteq 0 .. 2 /\ Top \in Nat /\ Line \in 1 .. Top - 1 /\ Lines \in Nat \ {0}
    /\ Word \in Nat /\ Top < Word
    /\ Targets \subseteq 1 .. Top /\ Values \subseteq 0 .. Top /\ Modes \subseteq Counters!Mode
    /\ \A i \in Ctr : Slow[i] \in Nat \ {0} /\ Slow[i] * Top < Word
    /\ \A n \in Stretches : n \in Nat /\ n <= Line /\ \A t \in Targets : n < t /\ (t + n <= Top \/ t = Top)
    /\ BlankAt \in 1 .. Lines
<1>1. CASE Word < Top + 1
  BY <1>1, Counting DEF Counters!CountersAssumption
<1> QED
  BY <1>1, Counting DEF Counters!CountersAssumption

-----------------------------------------------------------------------------
(* Division *)

LEMMA Divided ==
    ASSUME NEW r \in Nat \ {0}, NEW a \in Nat
    PROVE  a \div r \in Nat /\ (a \div r) * r <= a /\ a < (a \div r) * r + r
OBVIOUS

LEMMA DivAtLeast ==
    ASSUME NEW r \in Nat \ {0}, NEW a \in Nat, NEW q \in Nat, q * r <= a
    PROVE  q <= a \div r
<1> DEFINE d == a \div r
<1>1. d * r <= a /\ a < d * r + r /\ d \in Nat
  BY Divided
<1> HIDE DEF d
<1>2. CASE d < q
  <2>1. (d + 1) * r <= q * r
    BY <1>2, <1>1
  <2> QED
    BY <2>1, <1>1
<1> QED
  BY <1>1, <1>2 DEF d

LEMMA DivBelow ==
    ASSUME NEW r \in Nat \ {0}, NEW a \in Nat, NEW q \in Nat, a < q * r
    PROVE  a \div r < q
<1> DEFINE d == a \div r
<1>1. d * r <= a /\ d \in Nat
  BY Divided
<1> HIDE DEF d
<1>2. CASE d >= q
  <2>1. d * r >= q * r
    BY <1>2, <1>1
  <2> QED
    BY <2>1, <1>1
<1> QED
  BY <1>1, <1>2 DEF d

LEMMA Grows ==
    ASSUME NEW p \in Nat, NEW q \in Nat, NEW r \in Nat \ {0}
    PROVE  (p <= q => p * r <= q * r) /\ (p < q => p * r < q * r) /\ p * r \in Nat
OBVIOUS

LEMMA SmallMod == ASSUME NEW w \in Nat \ {0}, NEW v \in Nat, v < w PROVE v % w = v
OBVIOUS

(* A count that was at most q, n cycles later *)
LEMMA Later ==
    ASSUME NEW r \in Nat \ {0}, NEW a \in Nat, NEW q \in Nat, NEW n \in Nat,
           a <= q * r, q * r <= a + n
    PROVE  (a + n) \div r \in q .. q + n
<1>1. q <= (a + n) \div r
  BY DivAtLeast
<1>2. a + n < (q + n + 1) * r
  OBVIOUS
<1>3. (a + n) \div r < q + n + 1
  BY <1>2, DivBelow
<1>4. (a + n) \div r \in Nat
  BY Divided
<1> QED
  BY <1>1, <1>3, <1>4

-----------------------------------------------------------------------------
(* writeCounterInternal *)

LEMMA LoadedFits ==
    ASSUME NEW r \in Counters!Rcnt, NEW v \in Int
    PROVE  /\ Counters!Loaded(r, v) \in Counters!Rcnt
           /\ \A f \in {"rate", "target", "mode", "hits", "request", "fired", "started"} :
                  Counters!Loaded(r, v)[f] = r[f]
<1> DEFINE w == v % (Top + 1)
           hits == w < r.target /\ r.target # Top
           ago == (w * r.rate) % Word
           due == ((IF hits THEN r.target ELSE Top) * r.rate) % Word
<1>1. w \in Nat /\ r.rate \in Nat \ {0} /\ r.target \in Nat /\ Top \in Nat /\ Word \in Nat \ {0}
  BY Numbers DEF Counters!Rcnt
<1>2. w * r.rate \in Nat /\ (IF hits THEN r.target ELSE Top) * r.rate \in Nat
  BY <1>1
<1>3. ago \in Nat /\ due \in Nat
  BY <1>1, <1>2
<1>4. Counters!Loaded(r, v) = [r EXCEPT !.ago = ago, !.due = due, !.goal = IF hits THEN "target" ELSE "overflow"]
  BY DEF Counters!Loaded
<1> HIDE DEF ago, due, hits
<1> QED
  BY <1>3, <1>4 DEF Counters!Rcnt

LEMMA LoadedWell ==
    ASSUME NEW r \in Counters!Rcnt, r.rate * Top < Word, NEW v \in 0 .. Top
    PROVE  /\ Well(Counters!Loaded(r, v))
           /\ Counters!Loaded(r, v).ago = v * r.rate
           /\ v < r.target /\ r.target < Top => Counters!Loaded(r, v).goal = "target"
<1> DEFINE l == Counters!Loaded(r, v)
           hits == v < r.target /\ r.target # Top
           goal == IF hits THEN r.target ELSE Top
<1>1. r.rate \in Nat \ {0} /\ r.target \in 0 .. Top /\ Top \in Nat /\ Word \in Nat \ {0} /\ v \in Nat
  BY Numbers DEF Counters!Rcnt
<1>2. v % (Top + 1) = v
  BY <1>1, SmallMod
<1>3. v * r.rate <= Top * r.rate /\ v * r.rate \in Nat
  BY <1>1, Grows
<1>4. goal * r.rate <= Top * r.rate /\ goal * r.rate \in Nat
  BY <1>1, Grows
<1>5. Top * r.rate < Word
  BY <1>1
<1>6. (v * r.rate) % Word = v * r.rate /\ (goal * r.rate) % Word = goal * r.rate
  BY <1>1, <1>3, <1>4, <1>5, SmallMod
<1>7. l = [r EXCEPT !.ago = v * r.rate, !.due = goal * r.rate, !.goal = IF hits THEN "target" ELSE "overflow"]
  BY <1>2, <1>6 DEF Counters!Loaded
<1>8. l.ago = v * r.rate /\ l.due = goal * r.rate /\ l.goal = (IF hits THEN "target" ELSE "overflow")
      /\ l.rate = r.rate /\ l.target = r.target
  BY <1>7 DEF Counters!Rcnt
<1>9. CASE hits
  <2>1. v * r.rate < r.target * r.rate
    BY <1>1, <1>9, Grows
  <2>2. l.goal = "target" /\ l.due = l.target * l.rate /\ l.ago < l.due /\ r.target < Top
    BY <1>8, <1>9, <1>1, <2>1
  <2>3. l.ago <= l.due
    BY <1>8, <1>3, <1>1, <2>2
  <2>4. Well(l)
    BY <1>8, <2>2, <2>3 DEF Well
  <2> QED
    BY <1>8, <1>9, <2>2, <2>4
<1>10. CASE ~hits
  <2>1. r.target = Top \/ r.target * r.rate <= v * r.rate
    BY <1>1, <1>10, Grows
  <2> QED
    BY <1>8, <1>10, <1>1, <2>1, <1>3 DEF Well
<1> QED
  BY <1>8, <1>9, <1>10

-----------------------------------------------------------------------------
(* reset: the events *)

LEMMA FreeRate ==
    ASSUME NEW i \in All, NEW r, Fits(i, r), Counters!Free(i, r)
    PROVE  r.rate \in Nat \ {0} /\ r.rate * Top < Word
<1>1. CASE r.rate = 1
  BY <1>1, Numbers
<1>2. CASE i # 3 /\ r.rate = Slow[i]
  BY <1>2, Numbers DEF All
<1> QED
  BY <1>1, <1>2 DEF Fits, Counters!Free

(* What is carried over an event *)
LEMMA CarriedRight ==
    ASSUME NEW i \in All, NEW r, NEW n \in Stretches, Fits(i, r), Counters!Free(i, r), Well(r),
           r.ago + n >= r.due, NEW p, p = [r EXCEPT !.ago = @ + n]
    PROVE  /\ Counters!Carried(p) \in 0 .. Top
           /\ i = 3 /\ r.goal = "target" => Counters!Carried(p) < Line
           /\ r.rate = 1 => Counters!Carried(p) =
                  IF r.goal = "target" /\ "reset" \notin r.mode.flags THEN r.ago + n ELSE r.ago + n - r.due
<1>1. /\ r.ago \in Nat /\ r.due \in Nat /\ r.target \in 0 .. Top /\ r.rate \in Nat \ {0}
      /\ r.goal \in {"target", "overflow"}
      /\ n \in Nat /\ n <= Line /\ Line < Top /\ Line \in Nat /\ Top \in Nat
  BY Numbers DEF Fits, Counters!Rcnt
<1>2. p.ago = r.ago + n /\ p.rate = r.rate /\ p.goal = r.goal /\ p.mode = r.mode /\ p.target = r.target
  BY DEF Fits, Counters!Rcnt
<1> DEFINE d == Counters!Elapsed(p)
<1>3. d = (r.ago + n) \div r.rate
  BY <1>2 DEF Counters!Elapsed
<1>4. r.rate = 1 => d = r.ago + n
  BY <1>1, <1>3
<1>5. CASE r.goal = "overflow"
  <2>1. Counters!Carried(p) = d - Top
    <3>1. p.goal = "overflow"
      BY <1>2, <1>5
    <3> QED
      BY <3>1 DEF Counters!Carried
  <2>2. d \in Top .. Top + n
    BY <1>1, <1>3, <1>5, Later DEF Well
  <2>3. r.rate = 1 => r.due = Top
    BY <1>1, <1>5 DEF Well
  <2> HIDE DEF d
  <2> QED
    BY <1>1, <1>4, <1>5, <2>1, <2>2, <2>3
<1>6. CASE r.goal = "target"
  <2>1. d \in r.target .. r.target + n
    BY <1>1, <1>3, <1>6, Later DEF Well
  <2>2. r.rate = 1 => r.due = r.target
    BY <1>1, <1>6 DEF Well
  <2>3. CASE "reset" \in r.mode.flags
    <3>1. Counters!Carried(p) = d - r.target
      BY <1>2, <1>6, <2>3 DEF Counters!Carried
    <3>2. i = 3 => r.rate = 1 /\ r.target = Line /\ r.ago < Line
      BY <1>1, <1>6, <2>2 DEF Fits, Well
    <3> HIDE DEF d
    <3> QED
      BY <1>1, <1>4, <1>6, <2>1, <2>2, <2>3, <3>1, <3>2
  <2>4. CASE "reset" \notin r.mode.flags
    <3>1. i # 3
      BY <2>4 DEF Fits
    <3>2. r.target # 0 /\ r.target < Top
      BY <1>1, <1>6 DEF Well
    <3>3. r.target + n <= Top
      BY <1>1, <3>1, <3>2, Numbers DEF Fits
    <3>4. d \in 0 .. Top
      BY <1>1, <2>1, <3>3
    <3> HIDE DEF d
    <3>5. d % (Top + 1) = d
      <4>1. Top + 1 \in Nat \ {0} /\ d \in Nat /\ d < Top + 1
        BY <1>1, <3>4
      <4> QED
        BY <4>1, SmallMod
    <3>6. Counters!Carried(p) = d
      BY <1>2, <1>6, <2>4, <3>5 DEF Counters!Carried, Counters!Count, d
    <3> QED
      BY <1>4, <1>6, <2>4, <3>1, <3>4, <3>6
  <2> QED
    BY <2>3, <2>4
<1> QED
  BY <1>1, <1>5, <1>6

LEMMA EventFits ==
    ASSUME NEW i \in All, NEW r, Fits(i, r)
    PROVE  /\ Fits(i, Counters!Event(r))
           /\ \A f \in {"rate", "target", "mode", "started"} : Counters!Event(r)[f] = r[f]
           /\ \A f \in {"ago", "due", "goal"} :
                  Counters!Event(r)[f] = Counters!Loaded(r, Counters!Carried(r))[f]
<1> DEFINE v == Counters!Carried(r)
           l == Counters!Loaded(r, v)
           hits == l.hits \cup {r.goal}
           fired == IF Counters!Interrupts(r) THEN 1 ELSE l.fired
           request == IF "toggle" \in r.mode.flags THEN 1 - l.request ELSE 1
<1>1. r.ago \in Nat /\ r.rate \in Nat \ {0} /\ r.target \in 0 .. Top /\ Top \in Nat /\ r.goal \in {"target", "overflow"}
  BY Numbers DEF Fits, Counters!Rcnt
<1>2. v \in Int
  <2>1. Counters!Elapsed(r) \in Nat
    BY <1>1, Divided DEF Counters!Elapsed
  <2>2. Counters!Count(r) \in Int
    BY <1>1, <2>1 DEF Counters!Count
  <2> QED
    BY <1>1, <2>1, <2>2 DEF Counters!Carried
<1> HIDE DEF v
<1>3. l \in Counters!Rcnt /\ \A f \in {"rate", "target", "mode", "hits", "request", "fired", "started"} : l[f] = r[f]
  BY <1>2, LoadedFits DEF Fits
<1>4. Counters!Event(r) = [l EXCEPT !.hits = hits, !.fired = fired, !.request = request]
  BY DEF Counters!Event, v
<1> HIDE DEF l
<1>5. hits \subseteq {"target", "overflow"} /\ fired \in 0 .. 1 /\ request \in 0 .. 1
  BY <1>1, <1>3 DEF Counters!Rcnt
<1> HIDE DEF hits, fired, request
<1>6. Counters!Event(r) \in Counters!Rcnt
  BY <1>3, <1>4, <1>5 DEF Counters!Rcnt
<1>7. \A f \in {"ago", "due", "goal", "rate", "target", "mode", "started"} : Counters!Event(r)[f] = l[f]
  BY <1>3, <1>4 DEF Counters!Rcnt
<1>8. Fits(i, Counters!Event(r))
  BY <1>3, <1>6, <1>7 DEF Fits
<1> QED
  BY <1>3, <1>7, <1>8 DEF l, v

(* Well and Free say nothing of what else a counter keeps. *)
LEMMA SameWell ==
    ASSUME NEW r, NEW s, \A f \in {"ago", "due", "goal", "rate", "target"} : s[f] = r[f]
    PROVE  Well(s) = Well(r)
BY DEF Well

LEMMA SameFree ==
    ASSUME NEW i, NEW r, NEW s, \A f \in {"rate", "mode", "started"} : s[f] = r[f]
    PROVE  Counters!Free(i, s) = Counters!Free(i, r) /\ Counters!Judged(i, s) = Counters!Judged(i, r)
BY DEF Counters!Free, Counters!Judged

LEMMA EventWell ==
    ASSUME NEW i \in All, NEW r, NEW n \in Stretches, Fits(i, r), Counters!Free(i, r), Well(r),
           r.ago + n >= r.due, NEW p, p = [r EXCEPT !.ago = @ + n], Fits(i, p)
    PROVE  /\ Well(Counters!Event(p))
           /\ i = 3 /\ r.goal = "target" => Counters!Event(p).goal = "target"
           /\ r.rate = 1 => Counters!Event(p).ago =
                  IF r.goal = "target" /\ "reset" \notin r.mode.flags THEN r.ago + n ELSE r.ago + n - r.due
<1> DEFINE v == Counters!Carried(p)
           l == Counters!Loaded(p, v)
           e == Counters!Event(p)
<1>1. /\ v \in 0 .. Top
      /\ i = 3 /\ r.goal = "target" => v < Line
      /\ r.rate = 1 => v = IF r.goal = "target" /\ "reset" \notin r.mode.flags THEN r.ago + n ELSE r.ago + n - r.due
  BY CarriedRight
<1>2. p.rate = r.rate /\ p.target = r.target /\ p \in Counters!Rcnt
  BY DEF Fits, Counters!Rcnt
<1>3. p.rate * Top < Word
  BY <1>2, FreeRate
<1> HIDE DEF v
<1>4. Well(l) /\ l.ago = v * p.rate /\ (v < p.target /\ p.target < Top => l.goal = "target")
  BY <1>1, <1>2, <1>3, LoadedWell
<1>5. \A f \in {"rate", "target"} : l[f] = p[f]
  BY <1>1, <1>2, LoadedFits
<1> HIDE DEF l
<1>6. \A f \in {"ago", "due", "goal", "rate", "target"} : e[f] = l[f]
  <2>1. \A f \in {"ago", "due", "goal"} : e[f] = l[f]
    BY EventFits DEF l, v
  <2>2. \A f \in {"rate", "target"} : e[f] = p[f]
    BY EventFits
  <2> HIDE DEF e
  <2> QED
    BY <1>5, <2>1, <2>2
<1>7. Well(e)
  BY <1>4, <1>6, SameWell
<1>8. i = 3 /\ r.goal = "target" => e.goal = "target"
  BY <1>1, <1>2, <1>4, <1>6, Numbers DEF Fits
<1>9. r.rate = 1 => e.ago = v
  BY <1>1, <1>2, <1>4, <1>6, Numbers
<1> QED
  BY <1>1, <1>7, <1>8, <1>9

-----------------------------------------------------------------------------
(* recalculateRate and the gates *)

LEMMA RateRight ==
    ASSUME NEW i \in Ctr, NEW m \in Counters!Mode
    PROVE  Counters!RateOf(i, m) \in {1, Slow[i], Counters!Stopped} \ {0}
           /\ Counters!RateOf(i, m) \in Nat /\ Counters!Stopped \in Nat \ {0}
           /\ (i # 2 => Counters!RateOf(i, m) \in {1, Slow[i]})
BY Numbers DEF Counters!RateOf, Counters!Stopped

LEMMA GatedRight ==
    ASSUME NEW i \in Ctr, i # 2, NEW r, Fits(i, r)
    PROVE  /\ Fits(i, Counters!Gated(i, r))
           /\ Counters!Free(i, Counters!Gated(i, r)) =>
                 \/ Counters!Gated(i, r) = r
                 \/ /\ Counters!Opens(r) /\ ~Counters!Free(i, r)
                    /\ Well(Counters!Gated(i, r)) /\ Counters!Gated(i, r).ago = 0
<1>1. r \in Counters!Rcnt /\ r.mode \in Counters!Mode /\ i # 3 /\ Top \in Nat
  BY Numbers DEF Fits, Counters!Rcnt
<1>2. CASE Counters!Opens(r)
  <2> DEFINE o == [r EXCEPT !.started = 1, !.rate = Counters!RateOf(i, r.mode)]
             l == Counters!Loaded(o, 0)
  <2>1. Counters!RateOf(i, r.mode) \in Nat \ {0} /\ Counters!RateOf(i, r.mode) \in {1, Slow[i]}
    BY <1>1, RateRight
  <2>2. /\ o \in Counters!Rcnt /\ o.rate = Counters!RateOf(i, r.mode) /\ o.started = 1
        /\ o.target = r.target /\ o.mode = r.mode
    <3>1. o.rate = Counters!RateOf(i, r.mode) /\ o.started = 1 /\ o.target = r.target /\ o.mode = r.mode
      BY <1>1 DEF Counters!Rcnt
    <3>2. o \in Counters!Rcnt
      <4>1. \A x \in Nat \ {0}, y \in 0 .. 1 : [r EXCEPT !.started = y, !.rate = x] \in Counters!Rcnt
        BY <1>1 DEF Counters!Rcnt
      <4>2. 1 \in 0 .. 1
        OBVIOUS
      <4> QED
        BY <2>1, <4>1, <4>2
    <3> QED
      BY <3>1, <3>2
  <2> HIDE DEF o
  <2>3. o.rate * Top < Word
    BY <2>1, <2>2, Numbers
  <2>4. Well(l) /\ l.ago = 0 * o.rate
    BY <1>1, <2>2, <2>3, LoadedWell
  <2>5. l.ago = 0
    BY <2>1, <2>2, <2>4
  <2>6. l \in Counters!Rcnt /\ l.rate = o.rate /\ l.target = o.target
    BY <2>2, LoadedFits
  <2>7. Counters!Gated(i, r) = l
    BY <1>2 DEF Counters!Gated, o
  <2> HIDE DEF l
  <2>8. Fits(i, l)
    BY <1>1, <2>1, <2>2, <2>6 DEF Fits
  <2>9. ~Counters!Free(i, r)
    BY <1>2 DEF Counters!Opens, Counters!Free
  <2> QED
    BY <1>2, <2>4, <2>5, <2>7, <2>8, <2>9
<1>3. CASE ~Counters!Opens(r) /\ "sync" \in r.mode.flags /\ r.mode.sync \in {1, 2}
  <2> DEFINE l == Counters!Loaded(r, 0)
  <2>1. Counters!Gated(i, r) = l
    BY <1>3 DEF Counters!Gated
  <2>2. l \in Counters!Rcnt /\ \A f \in {"rate", "target", "mode"} : l[f] = r[f]
    BY <1>1, LoadedFits
  <2> HIDE DEF l
  <2>3. Fits(i, l)
    BY <1>1, <2>2 DEF Fits
  <2>4. ~Counters!Free(i, l)
    BY <1>3, <2>2 DEF Counters!Free
  <2> QED
    BY <2>1, <2>3, <2>4
<1>4. CASE ~Counters!Opens(r) /\ ~("sync" \in r.mode.flags /\ r.mode.sync \in {1, 2})
  BY <1>4 DEF Counters!Gated
<1> QED
  BY <1>2, <1>3, <1>4

-----------------------------------------------------------------------------
(* set *)

LEMMA Least ==
    ASSUME NEW D \in SUBSET (0 .. 3), D # {}, NEW f, \A i \in D : f[i] \in Nat
    PROVE  \E i \in D : \A j \in D : f[i] <= f[j]
<1>1. 0 \in D => \E i \in D \cap {0} : \A j \in D \cap {0} : f[i] <= f[j]
  OBVIOUS
<1>2. D \cap {0, 1} # {} => \E i \in D \cap {0, 1} : \A j \in D \cap {0, 1} : f[i] <= f[j]
  OBVIOUS
<1>3. D \cap {0, 1, 2} # {} => \E i \in D \cap {0, 1, 2} : \A j \in D \cap {0, 1, 2} : f[i] <= f[j]
  BY <1>2
<1>4. D = D \cap {0, 1, 2, 3}
  <2>1. \A i \in 0 .. 3 : i \in {0, 1, 2, 3}
    OBVIOUS
  <2> QED
    BY <2>1
<1>5. D \cap {0, 1, 2, 3} # {} => \E i \in D \cap {0, 1, 2, 3} : \A j \in D \cap {0, 1, 2, 3} : f[i] <= f[j]
  BY <1>3
<1> QED
  BY <1>4, <1>5

LEMMA FirstLeast ==
    ASSUME NEW c \in [All -> Counters!Rcnt]
    PROVE  /\ Counters!First(c) \in Nat
           /\ \A i \in All : c[i].ago <= c[i].due => Counters!First(c) <= c[i].due - c[i].ago
<1> DEFINE a(i) == IF c[i].due < c[i].ago THEN 0 ELSE c[i].due - c[i].ago
           f == [i \in All |-> a(i)]
           away == {a(i) : i \in DOMAIN c}
<1>1. \A i \in All : c[i].ago \in Nat /\ c[i].due \in Nat
  BY DEF Counters!Rcnt
<1>2. \A i \in All : a(i) \in Nat /\ f[i] = a(i)
  BY <1>1
<1>3. All \in SUBSET (0 .. 3) /\ All # {}
  BY Numbers DEF All
<1>4. PICK i \in All : \A j \in All : f[i] <= f[j]
  BY <1>2, <1>3, Least
<1>5. \E n \in away : \A m \in away : n <= m
  BY <1>2, <1>4
<1>6. Counters!First(c) = CHOOSE n \in away : \A m \in away : n <= m
  BY DEF Counters!First
<1>7. Counters!First(c) \in away /\ \A m \in away : Counters!First(c) <= m
  BY <1>5, <1>6
<1>8. \A j \in All : a(j) \in away
  OBVIOUS
<1>9. Counters!First(c) \in Nat
  BY <1>2, <1>7
<1>10. ASSUME NEW j \in All, c[j].ago <= c[j].due PROVE Counters!First(c) <= c[j].due - c[j].ago
  BY <1>1, <1>7, <1>8, <1>10
<1> QED
  BY <1>9, <1>10

-----------------------------------------------------------------------------
(* update *)

BaseFree == Counters!Free(3, rcnt[3]) /\ rcnt[3].rate = 1 /\ rcnt[3].due = Line /\ rcnt[3].ago < Line

LEMMA BaseRight == ASSUME Counted(rcnt) PROVE BaseFree
<1>1. rcnt[3].rate = 1 /\ rcnt[3].target = Line /\ rcnt[3].mode = [flags |-> {"reset"}, sync |-> 0]
  BY DEF Counted, Fits, All
<1>2. Counters!Stopped # 1
  BY Numbers DEF Counters!Stopped
<1>3. Counters!Free(3, rcnt[3])
  BY <1>1, <1>2 DEF Counters!Free
<1>4. Well(rcnt[3]) /\ rcnt[3].goal = "target"
  BY <1>3 DEF Counted, All
<1> QED
  BY <1>1, <1>3, <1>4, Numbers DEF Well, BaseFree

(* A counter after n cycles, and after the event that may be due by then *)
Past(n, i) == [rcnt[i] EXCEPT !.ago = @ + n]
Ticked(n, i) == IF Counters!Expired(Past(n, i)) THEN Counters!Event(Past(n, i)) ELSE Past(n, i)

LEMMA PastRight ==
    ASSUME Counted(rcnt), NEW n \in Stretches, NEW i \in All
    PROVE  /\ Fits(i, Past(n, i)) /\ Past(n, i) = Counters!Passed(n)[i]
           /\ Past(n, i).ago = rcnt[i].ago + n
           /\ \A f \in {"due", "goal", "rate", "target", "mode", "hits", "request", "fired", "started"} :
                  Past(n, i)[f] = rcnt[i][f]
           /\ Counters!Expired(Past(n, i)) <=> rcnt[i].ago + n >= rcnt[i].due
<1> DEFINE r == rcnt[i]
           p == Past(n, i)
<1>1. r \in Counters!Rcnt /\ Fits(i, r) /\ n \in Nat /\ r.ago \in Nat
  BY Numbers DEF Counted, Counters!Rcnt
<1>2. p.ago = r.ago + n
  BY <1>1 DEF Past, Counters!Rcnt
<1>3. \A f \in {"due", "goal", "rate", "target", "mode", "hits", "request", "fired", "started"} : p[f] = r[f]
  BY <1>1 DEF Past, Counters!Rcnt
<1>4. p \in Counters!Rcnt
  <2>1. r.ago + n \in Nat
    BY <1>1
  <2>2. \A x \in Nat : [r EXCEPT !.ago = x] \in Counters!Rcnt
    BY <1>1 DEF Counters!Rcnt
  <2> QED
    BY <2>1, <2>2 DEF Past
<1>5. Fits(i, p)
  BY <1>1, <1>3, <1>4 DEF Fits
<1>6. p = Counters!Passed(n)[i]
  BY DEF Past, Counters!Passed, Counted
<1>7. Counters!Expired(p) <=> r.ago + n >= r.due
  BY <1>2, <1>3 DEF Counters!Expired
<1> QED
  BY <1>2, <1>3, <1>5, <1>6, <1>7

LEMMA TickedRight ==
    ASSUME Counted(rcnt), NEW n \in Stretches, NEW i \in All
    PROVE  /\ Fits(i, Ticked(n, i))
           /\ \A f \in {"rate", "target", "mode", "started"} : Ticked(n, i)[f] = rcnt[i][f]
           /\ Counters!Free(i, rcnt[i]) =>
                 /\ Well(Ticked(n, i))
                 /\ i = 3 => Ticked(n, i).goal = "target"
                 /\ rcnt[i].rate = 1 => Ticked(n, i).ago =
                        IF rcnt[i].ago + n < rcnt[i].due
                           \/ (rcnt[i].goal = "target" /\ "reset" \notin rcnt[i].mode.flags)
                        THEN rcnt[i].ago + n ELSE rcnt[i].ago + n - rcnt[i].due
<1> DEFINE r == rcnt[i]
           p == Past(n, i)
           t == Ticked(n, i)
<1>1. /\ r \in Counters!Rcnt /\ Fits(i, r) /\ n \in Nat /\ r.ago \in Nat /\ r.due \in Nat
      /\ r.rate \in Nat \ {0} /\ r.target \in Nat /\ Top \in Nat /\ r.goal \in {"target", "overflow"}
      /\ Counters!Free(i, r) => Well(r)
      /\ i = 3 => r.goal = "target"
  BY Numbers DEF Counted, Counters!Rcnt
<1>2. /\ Fits(i, p) /\ p.ago = r.ago + n /\ (Counters!Expired(p) <=> r.ago + n >= r.due)
      /\ \A f \in {"due", "goal", "rate", "target", "mode", "started"} : p[f] = r[f]
  BY PastRight
<1>3. CASE Counters!Expired(p)
  <2>1. t = Counters!Event(p)
    BY <1>3 DEF Ticked
  <2>2. Fits(i, t) /\ \A f \in {"rate", "target", "mode", "started"} : t[f] = p[f]
    BY <1>2, <2>1, EventFits
  <2>3. ASSUME Counters!Free(i, r)
        PROVE  /\ Well(t)
               /\ i = 3 => t.goal = "target"
               /\ r.rate = 1 => t.ago = IF r.goal = "target" /\ "reset" \notin r.mode.flags
                                        THEN r.ago + n ELSE r.ago + n - r.due
    BY <1>1, <1>2, <1>3, <2>1, <2>3, EventWell DEF Past
  <2> HIDE DEF t
  <2> QED
    BY <1>1, <1>2, <1>3, <2>2, <2>3 DEF t
<1>4. CASE ~Counters!Expired(p)
  <2>1. t = p
    BY <1>4 DEF Ticked
  <2>2. ASSUME Counters!Free(i, r) PROVE Well(p)
    <3>1. r.target * r.rate \in Nat
      BY <1>1
    <3> HIDE DEF p
    <3> QED
      BY <1>1, <1>2, <1>4, <2>2, <3>1 DEF Well
  <2>3. r.ago + n < r.due
    BY <1>1, <1>2, <1>4
  <2> HIDE DEF t, p
  <2>4. \A f \in {"rate", "target", "mode", "started"} : t[f] = r[f]
    BY <1>2, <2>1
  <2>5. Fits(i, t) /\ t.ago = r.ago + n /\ t.goal = r.goal
    BY <1>2, <2>1
  <2> QED
    BY <1>1, <2>1, <2>2, <2>3, <2>4, <2>5 DEF t
<1> QED
  BY <1>3, <1>4

LEMMA LineStep ==
    ASSUME NEW l \in 0 .. Lines - 1, NEW a \in 0 .. Line - 1, NEW n \in Nat, n <= Line
    PROVE  /\ a + n < Line => (l * Line + a + n) % (Line * Lines) = l * Line + (a + n)
           /\ a + n >= Line => (l * Line + a + n) % (Line * Lines) = Counters!NextLine(l) * Line + (a + n - Line)
           /\ Counters!NextLine(l) \in 0 .. Lines - 1
<1>1. Line \in Nat \ {0} /\ Lines \in Nat \ {0}
  BY Numbers
<1> DEFINE F == Line * Lines
<1>2. F \in Nat \ {0}
  BY <1>1
<1>3. (l + 1) * Line <= F /\ (l + 1) * Line = l * Line + Line /\ l * Line \in Nat
  BY <1>1
<1>4. CASE a + n < Line
  <2>1. l * Line + a + n < F
    BY <1>3, <1>4, <1>1
  <2> HIDE DEF F
  <2>2. (l * Line + a + n) % F = l * Line + a + n
    BY <1>1, <1>2, <1>3, <2>1, SmallMod
  <2> QED
    BY <1>1, <1>3, <1>4, <2>2 DEF F, Counters!NextLine
<1>5. CASE a + n >= Line /\ l + 1 < Lines
  <2>1. Counters!NextLine(l) = l + 1
    BY <1>1, <1>5 DEF Counters!NextLine
  <2>2. (l + 2) * Line <= F /\ (l + 2) * Line = l * Line + Line + Line
    BY <1>1, <1>5
  <2>3. l * Line + a + n < F
    BY <1>1, <1>3, <1>5, <2>2
  <2> HIDE DEF F
  <2>4. (l * Line + a + n) % F = l * Line + a + n
    BY <1>1, <1>2, <1>3, <2>3, SmallMod
  <2>5. (l + 1) * Line + (a + n - Line) = l * Line + a + n
    BY <1>1, <1>3
  <2> QED
    BY <1>1, <1>5, <2>1, <2>4, <2>5 DEF F
<1>6. CASE a + n >= Line /\ l + 1 = Lines
  <2>1. Counters!NextLine(l) = 0
    BY <1>1, <1>6 DEF Counters!NextLine
  <2>2. F = l * Line + Line
    BY <1>1, <1>3, <1>6
  <2> HIDE DEF F
  <2>3. \A v \in Nat : F <= v /\ v < F + F => v % F = v - F
    BY <1>2
  <2>4. l * Line + a + n \in Nat /\ F <= l * Line + a + n /\ l * Line + a + n < F + F
    BY <1>1, <1>2, <1>3, <1>6, <2>2
  <2> DEFINE v == l * Line + a + n
  <2>5. v \in Nat /\ F <= v /\ v < F + F
    BY <2>4
  <2> HIDE DEF v
  <2>6. v % F = v - F
    BY <2>3, <2>5
  <2>7. v - F = 0 * Line + (a + n - Line)
    BY <1>1, <1>2, <1>3, <2>2 DEF v
  <2> QED
    BY <1>1, <1>6, <2>1, <2>6, <2>7 DEF F, v
<1> QED
  BY <1>4, <1>5, <1>6, <1>1

(* The counters whose blank has come, those that it starts, and the         *)
(* counters once the gates of S have acted                                  *)
Scan(n) == Counters!Expired(Past(n, 3))
Gates(n) == Ctr \cap ((IF Scan(n) THEN {0} ELSE {}) \cup (IF Scan(n) /\ line + 1 = BlankAt THEN {1} ELSE {}))
Opened(n) == {i \in Gates(n) : Counters!Opens(Ticked(n, i))}
Gated(n, S) == [i \in All |-> IF i \in S THEN Counters!Gated(i, Ticked(n, i)) ELSE Ticked(n, i)]

LEMMA UpdatedIs ==
    ASSUME Counted(rcnt), NEW n \in Stretches
    PROVE  /\ Counters!UpdatedNow(n).rcnt = Gated(n, Gates(n))
           /\ Counters!UpdatedNow(n).next =
                  IF \E i \in All : Counters!Expired(Past(n, i))
                  THEN Counters!First(Gated(n, {i \in Gates(n) : \E j \in Opened(n) : i <= j})) ELSE next - n
           /\ Counters!UpdatedNow(n).line = IF Scan(n) THEN Counters!NextLine(line) ELSE line
           /\ Counters!UpdatedNow(n).raised =
                  {i \in Ctr : Counters!Expired(Past(n, i)) /\ Counters!Interrupts(Past(n, i))}
                  \cup IF Scan(n) /\ line + 1 = BlankAt THEN {3} ELSE {}
<1> DEFINE c == Counters!Passed(n)
           ticked == [i \in DOMAIN c |-> IF Counters!Expired(c[i]) THEN Counters!Event(c[i]) ELSE c[i]]
           gate == Ctr \cap ((IF Counters!Expired(c[Counters!Base]) THEN {0} ELSE {})
                             \cup (IF Counters!Expired(c[Counters!Base]) /\ line + 1 = BlankAt THEN {1} ELSE {}))
           gated(S) == [i \in DOMAIN c |-> IF i \in S THEN Counters!Gated(i, ticked[i]) ELSE ticked[i]]
           opened == {i \in gate : Counters!Opens(ticked[i])}
<1>1. Counters!UpdatedNow(n) =
        [rcnt   |-> gated(gate),
         next   |-> IF \E i \in DOMAIN c : Counters!Expired(c[i])
                    THEN Counters!First(gated({i \in gate : \E j \in opened : i <= j})) ELSE next - n,
         line   |-> IF Counters!Expired(c[Counters!Base]) THEN Counters!NextLine(line) ELSE line,
         raised |-> {i \in Ctr : Counters!Expired(c[i]) /\ Counters!Interrupts(c[i])}
                    \cup IF Counters!Expired(c[Counters!Base]) /\ line + 1 = BlankAt THEN {Counters!Base} ELSE {}]
  BY DEF Counters!UpdatedNow, Counters!Updated
<1>2. DOMAIN c = All /\ \A i \in All : c[i] = Past(n, i)
  BY DEF Counters!Passed, Counted, Past
<1>3. Counters!Base = 3 /\ 3 \in All /\ Ctr \subseteq All
  BY DEF Counters!Base, All
<1> HIDE DEF c
<1>4. \A i \in All : ticked[i] = Ticked(n, i)
  BY <1>2 DEF Ticked
<1>5. gate = Gates(n)
  BY <1>2, <1>3 DEF Gates, Scan
<1>6. \A S : gated(S) = Gated(n, S)
  BY <1>2, <1>4 DEF Gated
<1>7. opened = Opened(n)
  BY <1>3, <1>4, <1>5 DEF Opened, Gates
<1> HIDE DEF ticked, gate, gated, opened
<1>8. /\ Counters!UpdatedNow(n).rcnt = gated(gate)
      /\ Counters!UpdatedNow(n).next =
             IF \E i \in DOMAIN c : Counters!Expired(c[i])
             THEN Counters!First(gated({i \in gate : \E j \in opened : i <= j})) ELSE next - n
      /\ Counters!UpdatedNow(n).line = IF Counters!Expired(c[Counters!Base]) THEN Counters!NextLine(line) ELSE line
      /\ Counters!UpdatedNow(n).raised =
             {i \in Ctr : Counters!Expired(c[i]) /\ Counters!Interrupts(c[i])}
             \cup IF Counters!Expired(c[Counters!Base]) /\ line + 1 = BlankAt THEN {Counters!Base} ELSE {}
  BY <1>1
<1>9. Counters!UpdatedNow(n).rcnt = Gated(n, Gates(n))
  BY <1>5, <1>6, <1>8
<1>10. Counters!UpdatedNow(n).next =
             IF \E i \in All : Counters!Expired(Past(n, i))
             THEN Counters!First(Gated(n, {i \in Gates(n) : \E j \in Opened(n) : i <= j})) ELSE next - n
  BY <1>2, <1>5, <1>6, <1>7, <1>8
<1>11. Counters!UpdatedNow(n).line = IF Scan(n) THEN Counters!NextLine(line) ELSE line
  BY <1>2, <1>3, <1>8 DEF Scan
<1>12. {i \in Ctr : Counters!Expired(c[i]) /\ Counters!Interrupts(c[i])} =
       {i \in Ctr : Counters!Expired(Past(n, i)) /\ Counters!Interrupts(Past(n, i))}
  BY <1>2, <1>3
<1>13. Counters!UpdatedNow(n).raised =
             {i \in Ctr : Counters!Expired(Past(n, i)) /\ Counters!Interrupts(Past(n, i))}
             \cup IF Scan(n) /\ line + 1 = BlankAt THEN {3} ELSE {}
  BY <1>2, <1>3, <1>8, <1>12 DEF Scan
<1> QED
  BY <1>9, <1>10, <1>11, <1>13

LEMMA GatesRight ==
    ASSUME Counted(rcnt), NEW n \in Stretches, NEW i \in All, NEW S \in SUBSET Gates(n)
    PROVE  /\ Fits(i, Gated(n, S)[i])
           /\ i \notin S => Gated(n, S)[i] = Ticked(n, i)
           /\ i \in S => Gated(n, S)[i] = Counters!Gated(i, Ticked(n, i))
           /\ Counters!Free(i, Gated(n, S)[i]) =>
                 /\ Well(Gated(n, S)[i])
                 /\ \/ /\ Gated(n, S)[i] = Ticked(n, i) /\ Counters!Free(i, rcnt[i])
                    \/ /\ i \in S /\ i \in Opened(n) /\ i # 3
                       /\ ~Counters!Free(i, rcnt[i]) /\ Gated(n, S)[i].ago = 0
<1> DEFINE t == Ticked(n, i)
           g == Gated(n, S)[i]
<1>1. /\ Fits(i, t) /\ (Counters!Free(i, rcnt[i]) => Well(t))
      /\ \A f \in {"rate", "target", "mode", "started"} : t[f] = rcnt[i][f]
  BY TickedRight
<1>2. Counters!Free(i, t) = Counters!Free(i, rcnt[i])
  BY <1>1, SameFree
<1>3. CASE i \notin S
  <2>1. g = t
    BY <1>3 DEF Gated
  <2> QED
    BY <1>1, <1>2, <1>3, <2>1
<1>4. CASE i \in S
  <2>1. g = Counters!Gated(i, t)
    BY <1>4 DEF Gated
  <2>2. i \in Ctr /\ i \in Gates(n) /\ i # 2 /\ i # 3
    BY <1>4 DEF Gates
  <2>3. /\ Fits(i, g)
        /\ Counters!Free(i, g) => \/ g = t
                                  \/ Counters!Opens(t) /\ ~Counters!Free(i, t) /\ Well(g) /\ g.ago = 0
    BY <1>1, <2>1, <2>2, GatedRight
  <2>4. Counters!Opens(t) => i \in Opened(n)
    BY <2>2 DEF Opened
  <2> HIDE DEF t, g
  <2> QED
    BY <1>1, <1>2, <1>4, <2>1, <2>2, <2>3, <2>4 DEF t, g
<1> QED
  BY <1>3, <1>4

LEMMA UpdatedCounted ==
    ASSUME Counted(rcnt), InTime(rcnt, next), NEW n \in Stretches
    PROVE  Counted(Counters!UpdatedNow(n).rcnt) /\ InTime(Counters!UpdatedNow(n).rcnt, Counters!UpdatedNow(n).next)
<1> DEFINE c == Gated(n, Gates(n))
           x == Counters!UpdatedNow(n).next
           S == {i \in Gates(n) : \E j \in Opened(n) : i <= j}
<1>1. Counters!UpdatedNow(n).rcnt = c
  BY UpdatedIs
<1>2. \A i \in All : Fits(i, c[i]) /\ (Counters!Free(i, c[i]) => Well(c[i]))
  BY GatesRight
<1>3. Counted(c)
  <2>1. c \in [All -> Counters!Rcnt]
    <3>1. \A i \in All : c[i] \in Counters!Rcnt
      BY <1>2 DEF Fits
    <3> QED
      BY <3>1 DEF Gated
  <2>2. c[3] = Ticked(n, 3)
    BY Numbers DEF Gated, Gates, All
  <2>3. Ticked(n, 3).goal = "target"
    BY BaseRight, TickedRight DEF BaseFree, All
  <2> QED
    BY <1>2, <2>1, <2>2, <2>3 DEF Counted
<1>4. CASE \E i \in All : Counters!Expired(Past(n, i))
  <2>1. x = Counters!First(Gated(n, S))
    BY <1>4, UpdatedIs
  <2>2. S \in SUBSET Gates(n)
    OBVIOUS
  <2>3. Gated(n, S) \in [All -> Counters!Rcnt]
    <3>1. \A i \in All : Gated(n, S)[i] \in Counters!Rcnt
      BY <2>2, GatesRight DEF Fits
    <3> QED
      BY <3>1 DEF Gated
  <2>4. ASSUME NEW i \in All, Counters!Free(i, c[i]) PROVE x <= c[i].due - c[i].ago
    <3>1. Gates(n) \in SUBSET Gates(n)
      OBVIOUS
    <3>2. c[i] = Gated(n, S)[i]
      <4>1. CASE i \in S
        BY <2>2, <4>1, GatesRight, <3>1
      <4>2. CASE i \notin S
        <5>1. i \notin Opened(n)
          BY <4>2, Numbers DEF Opened, Gates
        <5>2. c[i] = Ticked(n, i)
          BY <2>4, <3>1, <5>1, GatesRight
        <5> QED
          BY <2>2, <4>2, <5>2, GatesRight
      <4> QED
        BY <4>1, <4>2
    <3>3. c[i].ago <= c[i].due
      BY <1>2, <2>4 DEF Well
    <3> QED
      BY <2>1, <2>3, <3>2, <3>3, FirstLeast
  <2>5. x \in Int
    BY <2>1, <2>3, FirstLeast
  <2> HIDE DEF c, x
  <2> QED
    BY <1>1, <1>3, <2>4, <2>5 DEF InTime, x
<1>5. CASE \A i \in All : ~Counters!Expired(Past(n, i))
  <2>1. x = next - n /\ n \in Nat /\ next \in Int
    BY <1>5, UpdatedIs, Numbers DEF InTime
  <2>2. Gates(n) = {}
    BY <1>5 DEF Gates, Scan, All
  <2>3. ASSUME NEW i \in All, Counters!Free(i, c[i]) PROVE x <= c[i].due - c[i].ago
    <3>1. c[i] = Past(n, i)
      BY <1>5, <2>2 DEF Gated, Ticked
    <3>2. c[i].due = rcnt[i].due /\ c[i].ago = rcnt[i].ago + n
      BY <3>1, PastRight
    <3>3. Counters!Free(i, rcnt[i])
      <4>1. \A f \in {"rate", "mode", "started"} : c[i][f] = rcnt[i][f]
        BY <3>1, PastRight
      <4> QED
        BY <2>3, <4>1, SameFree
    <3>4. next <= rcnt[i].due - rcnt[i].ago /\ rcnt[i].due \in Nat /\ rcnt[i].ago \in Nat
      BY <3>3 DEF InTime, Counted, Counters!Rcnt
    <3> HIDE DEF c, x
    <3> QED
      BY <2>1, <3>2, <3>4
  <2> HIDE DEF c, x
  <2> QED
    BY <1>1, <1>3, <2>1, <2>3 DEF InTime, x
<1> QED
  BY <1>4, <1>5

LEMMA UpdatedLine ==
    ASSUME Counters!TypeOK, Counted(rcnt), line * Line + rcnt[3].ago = clock, NEW n \in Stretches
    PROVE  /\ Counters!UpdatedNow(n).line \in 0 .. Lines - 1
           /\ Counters!UpdatedNow(n).raised \subseteq Ctr \cup {3}
           /\ Counters!UpdatedNow(n).line * Line + Counters!UpdatedNow(n).rcnt[3].ago = (clock + n) % (Line * Lines)
<1> DEFINE a == rcnt[3].ago
           b == Counters!UpdatedNow(n).rcnt[3].ago
           l == Counters!UpdatedNow(n).line
<1>1. /\ a \in 0 .. Line - 1 /\ n \in Nat /\ n <= Line /\ Line \in Nat
      /\ line \in 0 .. Lines - 1 /\ rcnt[3].due = Line /\ rcnt[3].rate = 1 /\ Counters!Free(3, rcnt[3])
  BY BaseRight, Numbers DEF BaseFree, Counted, Counters!Rcnt, All, Counters!TypeOK
<1>2. /\ a + n < Line => (clock + n) % (Line * Lines) = line * Line + (a + n)
      /\ a + n >= Line => (clock + n) % (Line * Lines) = Counters!NextLine(line) * Line + (a + n - Line)
      /\ Counters!NextLine(line) \in 0 .. Lines - 1
  BY <1>1, LineStep
<1>3. Counters!UpdatedNow(n).rcnt[3] = Ticked(n, 3)
  <2>1. Counters!UpdatedNow(n).rcnt = Gated(n, Gates(n))
    BY UpdatedIs
  <2>2. 3 \in All /\ 3 \notin Gates(n)
    BY Numbers DEF All, Gates
  <2> QED
    BY <2>1, <2>2 DEF Gated
<1>4. b = IF a + n < Line THEN a + n ELSE a + n - Line
  <2>1. Ticked(n, 3).ago = IF a + n < Line \/ (rcnt[3].goal = "target" /\ "reset" \notin rcnt[3].mode.flags)
                           THEN a + n ELSE a + n - Line
    BY <1>1, TickedRight DEF All
  <2>2. "reset" \in rcnt[3].mode.flags
    BY DEF Counted, Fits, All
  <2> QED
    BY <1>3, <2>1, <2>2
<1>5. Scan(n) <=> a + n >= Line
  BY <1>1, PastRight DEF Scan, All
<1>6. l = IF a + n >= Line THEN Counters!NextLine(line) ELSE line
  BY <1>5, UpdatedIs
<1>7. Counters!UpdatedNow(n).raised \subseteq Ctr \cup {3}
  BY UpdatedIs
<1> HIDE DEF a, b, l
<1>8. l * Line + b = (clock + n) % (Line * Lines)
  BY <1>1, <1>2, <1>4, <1>6
<1> QED
  BY <1>1, <1>2, <1>6, <1>7, <1>8 DEF l, b

(* The counter that is computed and the one that counts, in a stretch of n  *)
(* cycles                                                                   *)
LEMMA IdealRight ==
    ASSUME Counted(rcnt), NEW n \in Stretches, NEW i \in Ctr, Counters!Judged(i, rcnt[i]),
           NEW t, t = rcnt[i].ago
    PROVE  /\ Ticked(n, i).ago = Counters!Ideal(rcnt[i], t, n)
           /\ "again" \in rcnt[i].mode.flags =>
                 (Counters!Crosses(rcnt[i], t, n)
                    <=> Counters!Expired(Past(n, i)) /\ Counters!Interrupts(Past(n, i)))
<1> DEFINE r == rcnt[i]
           p == Past(n, i)
<1>1. i \in All /\ i # 3
  BY Numbers DEF All
<1>2. /\ r \in Counters!Rcnt /\ Fits(i, r) /\ Counters!Free(i, r) /\ Well(r) /\ r.rate = 1
      /\ r.ago \in Nat /\ r.due \in Nat /\ r.target \in 0 .. Top /\ r.goal \in {"target", "overflow"}
      /\ n \in Nat /\ Top \in Nat
  BY <1>1, Numbers DEF Counters!Judged, Counted, Counters!Rcnt
<1>3. /\ r.goal = "target" => r.due = r.target /\ r.target < Top /\ r.ago < r.target
      /\ r.goal = "overflow" => r.due = Top /\ (r.target = Top \/ r.target <= r.ago)
      /\ r.ago <= r.due
  BY <1>2 DEF Well
<1>4. Counters!UpTo(r, t) = r.due
  BY <1>2, <1>3 DEF Counters!UpTo
<1>5. Ticked(n, i).ago = IF r.ago + n < r.due \/ (r.goal = "target" /\ "reset" \notin r.mode.flags)
                         THEN r.ago + n ELSE r.ago + n - r.due
  BY <1>1, <1>2, TickedRight
<1>6. Ticked(n, i).ago = Counters!Ideal(r, t, n)
  <2>1. r.goal = "target" => r.target \in Targets /\ r.target + n <= Top
    BY <1>1, <1>2, <1>3, Numbers DEF Fits
  <2>2. Counters!WrapsAt(r, t) = IF "reset" \in r.mode.flags THEN r.due ELSE Top
    BY <1>4 DEF Counters!WrapsAt
  <2> QED
    BY <1>2, <1>3, <1>5, <2>1, <2>2 DEF Counters!Ideal
<1>7. /\ Counters!Expired(p) <=> t + n >= r.due
      /\ p.goal = r.goal /\ p.mode = r.mode /\ p.fired = r.fired
  BY <1>1, PastRight
<1>8. Counters!Crosses(r, t, n) <=>
          /\ t + n >= r.due
          /\ IF r.goal = "overflow" THEN "onOverflow" \in r.mode.flags ELSE "onTarget" \in r.mode.flags
  <2>1. r.due = Top <=> r.goal = "overflow"
    BY <1>2, <1>3
  <2> QED
    BY <1>4, <2>1 DEF Counters!Crosses
<1>9. "again" \in r.mode.flags =>
          (Counters!Interrupts(p) <=>
             IF r.goal = "overflow" THEN "onOverflow" \in r.mode.flags ELSE "onTarget" \in r.mode.flags)
  BY <1>2, <1>7 DEF Counters!Interrupts
<1> QED
  BY <1>6, <1>7, <1>8, <1>9

LEMMA UpdatedShows ==
    ASSUME Counted(rcnt), Shows(rcnt, truth), NEW n \in Stretches
    PROVE  Shows(Counters!UpdatedNow(n).rcnt, Counters!Truth(n))
<1> SUFFICES ASSUME NEW i \in Ctr, Counters!Judged(i, Counters!UpdatedNow(n).rcnt[i])
             PROVE  Counters!UpdatedNow(n).rcnt[i].ago = Counters!Truth(n)[i]
  BY DEF Shows
<1> DEFINE g == Gated(n, Gates(n))[i]
<1>1. Counters!UpdatedNow(n).rcnt[i] = g /\ i \in All /\ Gates(n) \in SUBSET Gates(n)
  BY UpdatedIs DEF All
<1>2. Counters!Free(i, g) /\ Counters!Judged(i, g)
  BY <1>1 DEF Counters!Judged
<1>3. CASE g = Ticked(n, i) /\ Counters!Free(i, rcnt[i])
  <2>1. Counters!Judged(i, rcnt[i])
    <3>1. Ticked(n, i).rate = rcnt[i].rate
      BY <1>1, TickedRight
    <3> QED
      BY <1>2, <1>3, <3>1 DEF Counters!Judged
  <2>2. truth[i] = rcnt[i].ago
    BY <2>1 DEF Shows
  <2>3. Counters!Truth(n)[i] = Counters!Ideal(rcnt[i], truth[i], n)
    BY <2>1 DEF Counters!Truth
  <2> QED
    BY <1>1, <1>3, <2>1, <2>2, <2>3, IdealRight
<1>4. CASE ~Counters!Free(i, rcnt[i]) /\ g.ago = 0
  <2>1. Counters!Truth(n)[i] = 0
    BY <1>4 DEF Counters!Truth, Counters!Judged
  <2> QED
    BY <1>1, <1>4, <2>1
<1> QED
  BY <1>1, <1>2, <1>3, <1>4, GatesRight

LEMMA TruthType ==
    ASSUME Counters!TypeOK, NEW n \in Stretches
    PROVE  Counters!Truth(n) \in [Ctr -> Nat]
<1> SUFFICES ASSUME NEW i \in Ctr PROVE Counters!Ideal(rcnt[i], truth[i], n) \in Nat
  BY DEF Counters!Truth
<1>1. /\ rcnt[i] \in Counters!Rcnt /\ truth[i] \in Nat /\ n \in Nat /\ Top \in Nat
      /\ rcnt[i].target \in Nat
  BY Numbers DEF Counters!TypeOK, Counters!Rcnt
<1>2. Counters!WrapsAt(rcnt[i], truth[i]) \in Nat
  BY <1>1 DEF Counters!WrapsAt, Counters!UpTo
<1> QED
  BY <1>1, <1>2 DEF Counters!Ideal

(* What Observe notes of a stretch of code, and what it raises *)
LEMMA Interrupted ==
    ASSUME Counted(rcnt), Shows(rcnt, truth), NEW n \in Stretches, NEW t,
           Counters!Observe(n, t), raised' = Counters!UpdatedNow(n).raised
    PROVE  Counters!InterruptsTrue'
<1> SUFFICES ASSUME NEW i \in Ctr
             PROVE  (expected'[i] = "yes" => i \in raised') /\ (expected'[i] = "no" => i \notin raised')
  BY DEF Counters!InterruptsTrue
<1>1. i \in raised' <=> Counters!Expired(Past(n, i)) /\ Counters!Interrupts(Past(n, i))
  <2>1. raised' = {j \in Ctr : Counters!Expired(Past(n, j)) /\ Counters!Interrupts(Past(n, j))}
                  \cup IF Scan(n) /\ line + 1 = BlankAt THEN {3} ELSE {}
    BY UpdatedIs
  <2>2. i # 3
    BY Numbers
  <2> QED
    BY <2>1, <2>2
<1>2. expected'[i] = IF ~Counters!Judged(i, rcnt[i]) \/ "again" \notin rcnt[i].mode.flags THEN "any"
                     ELSE IF Counters!Crosses(rcnt[i], truth[i], n) THEN "yes" ELSE "no"
  BY DEF Counters!Observe
<1>3. CASE Counters!Judged(i, rcnt[i]) /\ "again" \in rcnt[i].mode.flags
  <2>1. truth[i] = rcnt[i].ago
    BY <1>3 DEF Shows
  <2> QED
    BY <1>1, <1>2, <1>3, <2>1, IdealRight
<1> QED
  BY <1>2, <1>3

-----------------------------------------------------------------------------
(* The steps *)

LEMMA StretchRight ==
    ASSUME CountInv, NEW n \in Stretches, NEW t \in [Ctr -> Nat], Counters!Observe(n, t),
           Counted(rcnt'), InTime(rcnt', next'), line' \in 0 .. Lines - 1, raised' \subseteq Ctr \cup {3},
           line' * Line + rcnt'[3].ago = (clock + n) % (Line * Lines),
           \A i \in Ctr : Counters!Judged(i, rcnt'[i]) => rcnt'[i].ago = t[i],
           Counters!InterruptsTrue'
    PROVE  CountInv'
<1>1. clock' = (clock + n) % (Line * Lines) /\ clock' \in 0 .. Line * Lines - 1
  <2>1. Line * Lines \in Nat \ {0}
    BY Numbers
  <2>2. clock + n \in Nat
    BY Numbers DEF CountInv, Counters!TypeOK
  <2> DEFINE F == Line * Lines
             v == clock + n
  <2>3. F \in Nat \ {0} /\ v \in Nat /\ clock' = v % F
    BY <2>1, <2>2 DEF Counters!Observe
  <2> HIDE DEF F, v
  <2>4. v % F \in 0 .. F - 1
    BY <2>3
  <2> QED
    BY <2>3, <2>4 DEF F, v
<1>2. truth' = [i \in Ctr |-> IF Counters!Judged(i, rcnt'[i]) THEN t[i] ELSE 0]
  BY DEF Counters!Observe
<1>3. truth' \in [Ctr -> Nat]
  BY <1>2
<1>4. expected' \in [Ctr -> {"yes", "no", "any"}]
  BY DEF Counters!Observe
<1>5. Shows(rcnt', truth')
  BY <1>2 DEF Shows
<1>6. Counters!TypeOK'
  BY <1>1, <1>3, <1>4 DEF Counters!TypeOK, Counted, InTime, All, Counters!Base
<1>7. line' * Line + rcnt'[3].ago = clock'
  BY <1>1
<1> QED
  BY <1>5, <1>6, <1>7 DEF CountInv

LEMMA ReadStep ==
    ASSUME CountInv, NEW n \in Stretches, NEW c, Counters!Observe(n, Counters!Truth(n)),
           c = Counters!UpdatedNow(n).rcnt, rcnt' \in [All -> Counters!Rcnt],
           \A i \in All : \A f \in {"ago", "due", "goal", "rate", "target", "mode", "started"} : rcnt'[i][f] = c[i][f],
           next' = Counters!UpdatedNow(n).next, line' = Counters!UpdatedNow(n).line,
           raised' = Counters!UpdatedNow(n).raised
    PROVE  CountInv'
<1>1. Counted(c) /\ InTime(c, next')
  BY UpdatedCounted DEF CountInv
<1>2. /\ line' \in 0 .. Lines - 1 /\ raised' \subseteq Ctr \cup {3}
      /\ line' * Line + c[3].ago = (clock + n) % (Line * Lines)
  BY UpdatedLine DEF CountInv
<1>3. Shows(c, Counters!Truth(n))
  BY UpdatedShows DEF CountInv
<1>4. ASSUME NEW i \in All
      PROVE  /\ Counters!Free(i, rcnt'[i]) = Counters!Free(i, c[i])
             /\ Counters!Judged(i, rcnt'[i]) = Counters!Judged(i, c[i])
             /\ Well(rcnt'[i]) = Well(c[i])
  BY SameFree, SameWell
<1>5. Counted(rcnt')
  <2>1. ASSUME NEW i \in All PROVE Fits(i, rcnt'[i]) /\ (Counters!Free(i, rcnt'[i]) => Well(rcnt'[i]))
    <3>1. Fits(i, c[i]) /\ (Counters!Free(i, c[i]) => Well(c[i]))
      BY <1>1 DEF Counted
    <3> QED
      BY <1>4, <3>1 DEF Fits
  <2>2. rcnt'[3].goal = "target"
    BY <1>1 DEF Counted, All
  <2> QED
    BY <2>1, <2>2 DEF Counted
<1>6. InTime(rcnt', next')
  BY <1>1, <1>4 DEF InTime
<1>7. rcnt'[3].ago = c[3].ago
  BY DEF All
<1>8. \A i \in Ctr : Counters!Judged(i, rcnt'[i]) => rcnt'[i].ago = Counters!Truth(n)[i]
  BY <1>3, <1>4 DEF Shows, All
<1>9. Counters!InterruptsTrue'
  BY Interrupted DEF CountInv
<1>10. Counters!Truth(n) \in [Ctr -> Nat]
  BY TruthType DEF CountInv
<1> QED
  BY <1>2, <1>5, <1>6, <1>7, <1>8, <1>9, <1>10, StretchRight

LEMMA ReadsRight ==
    ASSUME CountInv, NEW n \in Stretches, NEW i \in Ctr,
           Counters!ReadCounter(n) \/ Counters!ReadMode(n, i)
    PROVE  CountInv'
<1> DEFINE c == Counters!UpdatedNow(n).rcnt
<1>1. Counted(c) /\ c \in [All -> Counters!Rcnt] /\ i \in All
  BY UpdatedCounted DEF CountInv, Counted, All
<1> HIDE DEF c
<1>2. CASE Counters!ReadCounter(n)
  <2>1. rcnt' = c
    BY <1>2 DEF Counters!ReadCounter, c
  <2> QED
    BY <1>1, <1>2, <2>1, ReadStep DEF Counters!ReadCounter, c
<1>3. CASE Counters!ReadMode(n, i)
  <2>1. rcnt' = [c EXCEPT ![i].hits = {}]
    BY <1>3 DEF Counters!ReadMode, c
  <2>2. \A j \in All : \A f \in {"ago", "due", "goal", "rate", "target", "mode", "started"} : rcnt'[j][f] = c[j][f]
    BY <1>1, <2>1 DEF Counters!Rcnt
  <2>3. rcnt' \in [All -> Counters!Rcnt]
    <3>1. [c[i] EXCEPT !.hits = {}] \in Counters!Rcnt
      BY <1>1 DEF Counters!Rcnt
    <3> QED
      BY <1>1, <2>1, <3>1
  <2> QED
    BY <1>3, <2>2, <2>3, ReadStep DEF Counters!ReadMode, c
<1> QED
  BY <1>2, <1>3

(* A branch before the next event: nothing is updated. *)
LEMMA PassedRight ==
    ASSUME CountInv, NEW n \in Stretches, next - n > 0, Counters!Observe(n, Counters!Truth(n)),
           rcnt' = Counters!Passed(n), next' = next - n, line' = line, raised' = {}
    PROVE  CountInv'
<1>1. Counted(rcnt) /\ InTime(rcnt, next) /\ Shows(rcnt, truth) /\ Counters!TypeOK
  BY DEF CountInv
<1>2. n \in Nat /\ n <= Line /\ next \in Int
  BY <1>1, Numbers DEF InTime
<1>3. ASSUME NEW i \in All
      PROVE  /\ rcnt'[i] = Past(n, i) /\ Fits(i, rcnt'[i])
             /\ Counters!Free(i, rcnt'[i]) => /\ Counters!Free(i, rcnt[i]) /\ ~Counters!Expired(Past(n, i))
                                              /\ rcnt'[i] = Ticked(n, i) /\ Well(rcnt'[i])
                                              /\ next' <= rcnt'[i].due - rcnt'[i].ago
             /\ Counters!Judged(i, rcnt'[i]) = Counters!Judged(i, rcnt[i])
  <2>1. rcnt'[i] = Past(n, i) /\ Fits(i, Past(n, i))
    BY <1>1, PastRight
  <2>2. \A f \in {"rate", "mode", "started"} : rcnt'[i][f] = rcnt[i][f]
    BY <1>1, <2>1, PastRight
  <2>3. /\ Counters!Free(i, rcnt'[i]) = Counters!Free(i, rcnt[i])
        /\ Counters!Judged(i, rcnt'[i]) = Counters!Judged(i, rcnt[i])
    BY <2>2, SameFree
  <2>4. ASSUME Counters!Free(i, rcnt[i])
        PROVE  /\ ~Counters!Expired(Past(n, i)) /\ rcnt'[i] = Ticked(n, i) /\ Well(rcnt'[i])
               /\ next' <= rcnt'[i].due - rcnt'[i].ago
    <3>1. next <= rcnt[i].due - rcnt[i].ago /\ rcnt[i].due \in Nat /\ rcnt[i].ago \in Nat
      BY <1>1, <2>4 DEF InTime, Counted, Counters!Rcnt
    <3>2. ~Counters!Expired(Past(n, i))
      <4>1. Counters!Expired(Past(n, i)) <=> rcnt[i].ago + n >= rcnt[i].due
        BY <1>1, PastRight
      <4> QED
        BY <1>2, <3>1, <4>1
    <3>3. rcnt'[i] = Ticked(n, i)
      BY <2>1, <3>2 DEF Ticked
    <3>4. Well(rcnt'[i])
      BY <1>1, <2>4, <3>3, TickedRight
    <3>5. rcnt'[i].due = rcnt[i].due /\ rcnt'[i].ago = rcnt[i].ago + n
      BY <1>1, <2>1, PastRight
    <3> QED
      BY <1>2, <3>1, <3>2, <3>3, <3>4, <3>5
  <2> QED
    BY <2>1, <2>3, <2>4
<1>4. Counted(rcnt')
  <2>1. rcnt' \in [All -> Counters!Rcnt]
    <3>1. rcnt' = [i \in All |-> Past(n, i)]
      BY <1>1 DEF Counters!Passed, Counted, Past
    <3> QED
      BY <1>3, <3>1 DEF Fits
  <2>2. rcnt'[3].goal = "target"
    <3>1. rcnt'[3] = Past(n, 3) /\ 3 \in All
      BY <1>3 DEF All
    <3>2. Past(n, 3).goal = rcnt[3].goal
      BY <1>1, <3>1, PastRight
    <3> QED
      BY <1>1, <3>1, <3>2 DEF Counted
  <2> QED
    BY <1>3, <2>1, <2>2 DEF Counted
<1>5. InTime(rcnt', next')
  BY <1>2, <1>3 DEF InTime
<1>6. line' * Line + rcnt'[3].ago = (clock + n) % (Line * Lines)
  <2> DEFINE a == rcnt[3].ago
  <2>1. /\ a \in 0 .. Line - 1 /\ rcnt[3].due = Line /\ line \in 0 .. Lines - 1
        /\ line * Line + a = clock /\ next <= Line - a
    BY <1>1, BaseRight, Numbers DEF BaseFree, InTime, Counted, Counters!Rcnt, All, Counters!TypeOK, CountInv
  <2>2. a + n < Line
    BY <1>2, <2>1, Numbers
  <2>3. (line * Line + a + n) % (Line * Lines) = line * Line + (a + n)
    BY <1>2, <2>1, <2>2, LineStep
  <2>4. rcnt'[3].ago = a + n
    BY <1>1, <1>3, PastRight DEF All
  <2> QED
    BY <2>1, <2>3, <2>4
<1>7. \A i \in Ctr : Counters!Judged(i, rcnt'[i]) => rcnt'[i].ago = Counters!Truth(n)[i]
  <2> SUFFICES ASSUME NEW i \in Ctr, Counters!Judged(i, rcnt'[i]) PROVE rcnt'[i].ago = Counters!Truth(n)[i]
    OBVIOUS
  <2>1. Counters!Judged(i, rcnt[i]) /\ rcnt'[i] = Ticked(n, i)
    BY <1>3 DEF All, Counters!Judged
  <2>2. truth[i] = rcnt[i].ago
    BY <1>1, <2>1 DEF Shows
  <2>3. Counters!Truth(n)[i] = Counters!Ideal(rcnt[i], truth[i], n)
    BY <2>1 DEF Counters!Truth
  <2> QED
    BY <1>1, <2>1, <2>2, <2>3, IdealRight
<1>8. Counters!InterruptsTrue'
  <2> SUFFICES ASSUME NEW i \in Ctr PROVE expected'[i] # "yes"
    BY DEF Counters!InterruptsTrue
  <2>1. expected'[i] = IF ~Counters!Judged(i, rcnt[i]) \/ "again" \notin rcnt[i].mode.flags THEN "any"
                       ELSE IF Counters!Crosses(rcnt[i], truth[i], n) THEN "yes" ELSE "no"
    BY DEF Counters!Observe
  <2>2. CASE Counters!Judged(i, rcnt[i]) /\ "again" \in rcnt[i].mode.flags
    <3>1. truth[i] = rcnt[i].ago
      BY <1>1, <2>2 DEF Shows
    <3>2. ~Counters!Expired(Past(n, i))
      <4>1. Counters!Judged(i, rcnt'[i]) /\ i \in All
        BY <1>3, <2>2 DEF All
      <4> QED
        BY <1>3, <4>1 DEF Counters!Judged
    <3> QED
      BY <1>1, <2>1, <2>2, <3>1, <3>2, IdealRight
  <2> QED
    BY <2>1, <2>2
<1>9. Counters!Truth(n) \in [Ctr -> Nat] /\ line' \in 0 .. Lines - 1
  BY <1>1, TruthType DEF Counters!TypeOK
<1> QED
  BY <1>4, <1>5, <1>6, <1>7, <1>8, <1>9, StretchRight

(* A counter of which a count is written *)
LEMMA LoadRight ==
    ASSUME NEW i \in All, NEW r, Fits(i, r), NEW v \in 0 .. Top
    PROVE  /\ Fits(i, Counters!Loaded(r, v))
           /\ Counters!Free(i, Counters!Loaded(r, v)) => Well(Counters!Loaded(r, v))
           /\ Counters!Judged(i, Counters!Loaded(r, v)) => Counters!Judged(i, r) /\ Counters!Loaded(r, v).ago = v
<1> DEFINE l == Counters!Loaded(r, v)
<1>1. v \in Int /\ r \in Counters!Rcnt /\ Top \in Nat
  BY Numbers DEF Fits
<1>2. l \in Counters!Rcnt /\ \A f \in {"rate", "target", "mode", "started"} : l[f] = r[f]
  BY <1>1, LoadedFits
<1>3. Fits(i, l)
  BY <1>2 DEF Fits
<1>4. Counters!Free(i, l) = Counters!Free(i, r) /\ Counters!Judged(i, l) = Counters!Judged(i, r)
  BY <1>2, SameFree
<1>5. ASSUME Counters!Free(i, r) PROVE Well(l) /\ l.ago = v * r.rate
  <2>1. r.rate * Top < Word
    BY <1>5, FreeRate
  <2> QED
    BY <1>1, <2>1, LoadedWell
<1>6. ASSUME Counters!Judged(i, r) PROVE l.ago = v
  BY <1>1, <1>5, <1>6 DEF Counters!Judged
<1> QED
  BY <1>3, <1>4, <1>5, <1>6

LEMMA ChangeRight ==
    ASSUME CountInv, NEW n \in Stretches, NEW i \in Ctr, NEW r, Fits(i, r), Counters!Free(i, r) => Well(r),
           Counters!Change(Counters!UpdatedNow(n), i, r), NEW t \in [Ctr -> Nat], Counters!Observe(n, t),
           Counters!Judged(i, r) => r.ago = t[i],
           \A j \in Ctr \ {i} : t[j] = Counters!Truth(n)[j]
    PROVE  CountInv'
<1> DEFINE c == Counters!UpdatedNow(n).rcnt
<1>1. Counted(c)
  BY UpdatedCounted DEF CountInv
<1>2. /\ Counters!UpdatedNow(n).line \in 0 .. Lines - 1 /\ Counters!UpdatedNow(n).raised \subseteq Ctr \cup {3}
      /\ Counters!UpdatedNow(n).line * Line + c[3].ago = (clock + n) % (Line * Lines)
  BY UpdatedLine DEF CountInv
<1>3. Shows(c, Counters!Truth(n))
  BY UpdatedShows DEF CountInv
<1>4. /\ rcnt' = [c EXCEPT ![i] = r] /\ next' = Counters!First(rcnt')
      /\ line' = Counters!UpdatedNow(n).line /\ raised' = Counters!UpdatedNow(n).raised
  BY DEF Counters!Change
<1> HIDE DEF c
<1>5. i \in All /\ i # 3
  BY Numbers DEF All
<1>6. /\ rcnt'[i] = r /\ \A j \in All \ {i} : rcnt'[j] = c[j]
      /\ rcnt' \in [All -> Counters!Rcnt]
  BY <1>1, <1>4, <1>5 DEF Counted, Fits
<1>7. Counted(rcnt')
  <2>1. \A j \in All : Fits(j, rcnt'[j]) /\ (Counters!Free(j, rcnt'[j]) => Well(rcnt'[j]))
    BY <1>1, <1>6 DEF Counted
  <2>2. rcnt'[3].goal = "target"
    BY <1>1, <1>5, <1>6 DEF Counted, All
  <2> QED
    BY <1>6, <2>1, <2>2 DEF Counted
<1>8. InTime(rcnt', next')
  <2>1. next' \in Nat /\ \A j \in All : rcnt'[j].ago <= rcnt'[j].due => next' <= rcnt'[j].due - rcnt'[j].ago
    BY <1>4, <1>6, FirstLeast
  <2>2. \A j \in All : Counters!Free(j, rcnt'[j]) => rcnt'[j].ago <= rcnt'[j].due
    BY <1>7 DEF Counted, Well
  <2> QED
    BY <2>1, <2>2 DEF InTime
<1>9. rcnt'[3].ago = c[3].ago
  BY <1>5, <1>6 DEF All
<1>10. \A j \in Ctr : Counters!Judged(j, rcnt'[j]) => rcnt'[j].ago = t[j]
  BY <1>3, <1>6 DEF Shows, All
<1>11. Counters!InterruptsTrue'
  BY <1>4, Interrupted DEF CountInv
<1> QED
  BY <1>2, <1>4, <1>7, <1>8, <1>9, <1>10, <1>11, StretchRight

LEMMA WritesRight ==
    ASSUME CountInv, NEW n \in Stretches, NEW i \in Ctr,
           \/ \E v \in Values : Counters!WriteCounter(n, i, v)
           \/ \E m \in Modes : Counters!WriteMode(n, i, m)
           \/ \E t \in Targets : Counters!WriteTarget(n, i, t)
    PROVE  CountInv'
<1> DEFINE u == Counters!UpdatedNow(n)
           r == u.rcnt[i]
           t == Counters!Truth(n)
<1>1. t \in [Ctr -> Nat] /\ Top \in Nat /\ i \in All /\ i # 3
  BY TruthType, Numbers DEF CountInv, All
<1>2. Fits(i, r) /\ (Counters!Free(i, r) => Well(r)) /\ r \in Counters!Rcnt
  BY <1>1, UpdatedCounted DEF CountInv, Counted
<1>3. Counters!Judged(i, r) => r.ago = t[i]
  BY UpdatedShows DEF CountInv, Shows
<1>4. ASSUME NEW v \in Values, Counters!WriteCounter(n, i, v) PROVE CountInv'
  <2> DEFINE s == [t EXCEPT ![i] = v]
  <2>1. v \in 0 .. Top
    BY Numbers
  <2>2. Counters!Change(u, i, Counters!Loaded(r, v)) /\ Counters!Observe(n, s)
    BY <1>4 DEF Counters!WriteCounter
  <2>3. s \in [Ctr -> Nat] /\ s[i] = v /\ \A j \in Ctr \ {i} : s[j] = t[j]
    BY <1>1, <2>1
  <2> HIDE DEF s, t, r
  <2>4. /\ Fits(i, Counters!Loaded(r, v))
        /\ Counters!Free(i, Counters!Loaded(r, v)) => Well(Counters!Loaded(r, v))
        /\ Counters!Judged(i, Counters!Loaded(r, v)) => Counters!Loaded(r, v).ago = s[i]
    BY <1>1, <1>2, <2>1, <2>3, LoadRight
  <2> QED
    BY <2>2, <2>3, <2>4, ChangeRight DEF t
<1>5. ASSUME NEW m \in Modes, Counters!WriteMode(n, i, m) PROVE CountInv'
  <2> DEFINE o == [r EXCEPT !.mode = m, !.hits = {}, !.request = 1, !.fired = 0, !.started = 0,
                            !.rate = Counters!ModeRate(i, m)]
             s == [t EXCEPT ![i] = 0]
  <2>1. Counters!Change(u, i, Counters!Loaded(o, 0)) /\ Counters!Observe(n, s)
    BY <1>5 DEF Counters!WriteMode, Counters!Moded
  <2>2. s \in [Ctr -> Nat] /\ s[i] = 0 /\ \A j \in Ctr \ {i} : s[j] = t[j]
    BY <1>1
  <2>3. Fits(i, o)
    <3>1. m \in Counters!Mode
      BY Numbers
    <3>2. Counters!ModeRate(i, m) \in Nat \ {0} /\ Counters!ModeRate(i, m) \in {1, Slow[i], Counters!Stopped}
      BY <3>1, RateRight, Numbers DEF Counters!ModeRate
    <3>3. \A x \in Nat \ {0}, y \in 0 .. 1, z \in 0 .. 1 :
              [r EXCEPT !.mode = m, !.hits = {}, !.request = y, !.fired = z, !.started = z, !.rate = x]
                  \in Counters!Rcnt
      BY <1>2, <3>1 DEF Counters!Rcnt
    <3>4. 0 \in 0 .. 1 /\ 1 \in 0 .. 1
      OBVIOUS
    <3>5. o \in Counters!Rcnt
      BY <3>2, <3>3, <3>4
    <3>6. o.rate = Counters!ModeRate(i, m) /\ o.target = r.target
      BY <1>2 DEF Counters!Rcnt
    <3> QED
      BY <1>1, <1>2, <3>2, <3>5, <3>6 DEF Fits
  <2> HIDE DEF o, s, t, r
  <2>4. /\ Fits(i, Counters!Loaded(o, 0))
        /\ Counters!Free(i, Counters!Loaded(o, 0)) => Well(Counters!Loaded(o, 0))
        /\ Counters!Judged(i, Counters!Loaded(o, 0)) => Counters!Loaded(o, 0).ago = s[i]
    <3>1. 0 \in 0 .. Top
      BY <1>1
    <3> QED
      BY <1>1, <2>2, <2>3, <3>1, LoadRight
  <2> QED
    BY <2>1, <2>2, <2>4, ChangeRight DEF t
<1>6. ASSUME NEW x \in Targets, Counters!WriteTarget(n, i, x) PROVE CountInv'
  <2> DEFINE o == [r EXCEPT !.target = x]
             v == Counters!Count(r)
  <2>1. Counters!Change(u, i, Counters!Loaded(o, v)) /\ Counters!Observe(n, t)
    BY <1>6 DEF Counters!WriteTarget, Counters!Retargeted
  <2>2. x \in 0 .. Top
    BY Numbers
  <2>3. Fits(i, o) /\ o.rate = r.rate /\ o.mode = r.mode /\ o.started = r.started
    <3>1. o \in Counters!Rcnt
      BY <1>2, <2>2 DEF Counters!Rcnt
    <3>2. o.rate = r.rate /\ o.mode = r.mode /\ o.started = r.started /\ o.target = x
      BY <1>2 DEF Counters!Rcnt
    <3> QED
      BY <1>1, <1>2, <3>1, <3>2 DEF Fits
  <2>4. v \in 0 .. Top
    <3>1. Counters!Elapsed(r) \in Nat
      BY <1>2, Divided DEF Counters!Elapsed, Counters!Rcnt
    <3> QED
      BY <1>1, <3>1 DEF Counters!Count
  <2>5. ASSUME Counters!Judged(i, r) PROVE v = r.ago
    <3>1. r.rate = 1 /\ r.ago \in Nat /\ r.ago <= Top
      BY <1>1, <1>2, <2>5 DEF Counters!Judged, Well, Counters!Rcnt
    <3>2. Counters!Elapsed(r) = r.ago
      BY <3>1 DEF Counters!Elapsed
    <3> QED
      BY <1>1, <3>1, <3>2 DEF Counters!Count
  <2>6. Counters!Judged(i, o) = Counters!Judged(i, r)
    <3> HIDE DEF o, r
    <3>1. \A f \in {"rate", "mode", "started"} : o[f] = r[f]
      BY <2>3
    <3> QED
      BY <3>1, SameFree
  <2> HIDE DEF o, v, t, r
  <2>7. /\ Fits(i, Counters!Loaded(o, v))
        /\ Counters!Free(i, Counters!Loaded(o, v)) => Well(Counters!Loaded(o, v))
        /\ Counters!Judged(i, Counters!Loaded(o, v)) => Counters!Loaded(o, v).ago = t[i]
    BY <1>1, <1>3, <2>3, <2>4, <2>5, <2>6, LoadRight
  <2> QED
    BY <1>1, <2>1, <2>7, ChangeRight DEF t
<1> QED
  BY <1>4, <1>5, <1>6

-----------------------------------------------------------------------------
(* init *)

LEMMA StartedRight ==
    ASSUME NEW c \in [All -> Counters!Rcnt], \A i \in Ctr : c[i].target \in Targets \cup {0}
    PROVE  Counted(Counters!Started(c)) /\ \A i \in All : Counters!Started(c)[i].ago = 0
<1> DEFINE b(i) == IF i = 3
                   THEN [c[i] EXCEPT !.rate = 1, !.target = Line, !.mode = [flags |-> {"reset"}, sync |-> 0]]
                   ELSE [c[i] EXCEPT !.rate = 1]
           s == Counters!Started(c)
<1>1. s = [i \in All |-> Counters!Loaded(b(i), 0)]
  BY DEF Counters!Started, Counters!Base
<1>2. Top \in Nat /\ 0 \in 0 .. Top /\ Line \in 0 .. Top /\ 0 < Line /\ Line < Top /\ Top < Word /\ Word \in Nat
  BY Numbers
<1>3. ASSUME NEW i \in All
      PROVE  b(i) \in Counters!Rcnt /\ b(i).rate = 1 /\ Fits(i, b(i))
  <2>1. \A x \in Nat \ {0} : [c[i] EXCEPT !.rate = x] \in Counters!Rcnt
    BY DEF Counters!Rcnt
  <2>2. \A x \in Nat \ {0}, y \in 0 .. Top, m \in Counters!Mode :
            [c[i] EXCEPT !.rate = x, !.target = y, !.mode = m] \in Counters!Rcnt
    BY DEF Counters!Rcnt
  <2>3. [flags |-> {"reset"}, sync |-> 0] \in Counters!Mode
    BY DEF Counters!Mode, Counters!Flags
  <2>4. CASE i = 3
    <3>1. b(i) \in Counters!Rcnt
      <4> DEFINE m == [flags |-> {"reset"}, sync |-> 0]
      <4>1. 1 \in Nat \ {0} /\ Line \in 0 .. Top /\ m \in Counters!Mode
        BY <1>2, <2>3
      <4> HIDE DEF m
      <4>2. [c[i] EXCEPT !.rate = 1, !.target = Line, !.mode = m] \in Counters!Rcnt
        BY <2>2, <4>1
      <4> QED
        BY <2>4, <4>2 DEF m
    <3>2. b(i).rate = 1 /\ b(i).target = Line /\ b(i).mode = [flags |-> {"reset"}, sync |-> 0]
      BY <2>4 DEF Counters!Rcnt
    <3> QED
      BY <2>4, <3>1, <3>2 DEF Fits
  <2>5. CASE i # 3
    <3>1. b(i) \in Counters!Rcnt
      BY <2>1, <2>5
    <3>2. b(i).rate = 1 /\ b(i).target = c[i].target
      BY <2>5 DEF Counters!Rcnt
    <3> QED
      BY <2>5, <3>1, <3>2 DEF Fits, All
  <2> QED
    BY <2>4, <2>5
<1> HIDE DEF b
<1>4. ASSUME NEW i \in All
      PROVE  /\ s[i] \in Counters!Rcnt /\ Fits(i, s[i]) /\ Well(s[i]) /\ s[i].ago = 0
  <2>1. s[i] = Counters!Loaded(b(i), 0)
    BY <1>1
  <2>2. b(i).rate * Top < Word
    BY <1>2, <1>3
  <2>3. Well(s[i]) /\ s[i].ago = 0 * b(i).rate
    BY <1>2, <1>3, <2>1, <2>2, LoadedWell
  <2>4. Fits(i, s[i])
    BY <1>2, <1>3, <2>1, LoadRight
  <2> QED
    BY <1>3, <2>3, <2>4 DEF Fits
<1>5. s[3].goal = "target"
  <2>1. 3 \in All /\ s[3] = Counters!Loaded(b(3), 0)
    BY <1>1 DEF All
  <2>2. b(3).rate * Top < Word /\ b(3).target = Line
    BY <1>2, <1>3, <2>1 DEF Fits
  <2> QED
    BY <1>2, <1>3, <2>1, <2>2, LoadedWell
<1> QED
  BY <1>1, <1>4, <1>5 DEF Counted

LEMMA StartRight ==
    ASSUME NEW c \in [All -> Counters!Rcnt], \A i \in Ctr : c[i].target \in Targets \cup {0},
           rcnt = Counters!Started(c), next = Counters!First(rcnt), line = 0, raised = {}, clock = 0,
           truth = [i \in Ctr |-> 0], expected = [i \in Ctr |-> "any"]
    PROVE  CountInv
<1>1. Counted(rcnt) /\ \A i \in All : rcnt[i].ago = 0
  BY StartedRight
<1>2. InTime(rcnt, next)
  <2>1. next \in Nat /\ \A j \in All : rcnt[j].ago <= rcnt[j].due => next <= rcnt[j].due - rcnt[j].ago
    BY <1>1, FirstLeast DEF Counted
  <2>2. \A j \in All : Counters!Free(j, rcnt[j]) => rcnt[j].ago <= rcnt[j].due
    BY <1>1 DEF Counted, Well
  <2> QED
    BY <2>1, <2>2 DEF InTime
<1>3. Shows(rcnt, truth)
  BY <1>1 DEF Shows, All
<1>4. line * Line + rcnt[3].ago = clock
  BY <1>1, Numbers DEF All
<1>5. Counters!TypeOK
  <2>1. 0 \in 0 .. Line * Lines - 1 /\ 0 \in 0 .. Lines - 1
    BY Numbers
  <2> QED
    BY <1>1, <1>2, <2>1 DEF Counters!TypeOK, Counted, InTime, All, Counters!Base
<1>6. Counters!InterruptsTrue
  BY DEF Counters!InterruptsTrue
<1> QED
  BY <1>1, <1>2, <1>3, <1>4, <1>5, <1>6 DEF CountInv

LEMMA CountInit == Counters!Init => CountInv
<1> SUFFICES ASSUME Counters!Init PROVE CountInv
  OBVIOUS
<1> DEFINE c == [i \in All |-> Counters!Zeroed]
<1>1. Counters!Zeroed \in Counters!Rcnt /\ Counters!Zeroed.target = 0
  <2>1. 0 \in 0 .. Top /\ 1 \in Nat \ {0} /\ 0 \in 0 .. 1
    BY Numbers
  <2>2. [flags |-> {}, sync |-> 0] \in Counters!Mode
    BY DEF Counters!Mode
  <2> QED
    BY <2>1, <2>2 DEF Counters!Zeroed, Counters!Rcnt
<1>2. c \in [All -> Counters!Rcnt] /\ \A i \in Ctr : c[i].target \in Targets \cup {0}
  BY <1>1 DEF All
<1>3. rcnt = Counters!Started(c)
  BY DEF Counters!Init, All, Counters!Base
<1> HIDE DEF c
<1> QED
  BY <1>2, <1>3, StartRight DEF Counters!Init

LEMMA ResetRight == ASSUME CountInv, Counters!Reset PROVE CountInv'
<1>1. rcnt \in [All -> Counters!Rcnt] /\ \A i \in Ctr : rcnt[i].target \in Targets \cup {0}
  BY Numbers DEF CountInv, Counted, Fits, All
<1>2. Counted(rcnt') /\ \A i \in All : rcnt'[i].ago = 0
  BY <1>1, StartedRight DEF Counters!Reset
<1>3. InTime(rcnt', next')
  <2>1. next' \in Nat /\ \A j \in All : rcnt'[j].ago <= rcnt'[j].due => next' <= rcnt'[j].due - rcnt'[j].ago
    BY <1>2, FirstLeast DEF Counted, Counters!Reset
  <2>2. \A j \in All : Counters!Free(j, rcnt'[j]) => rcnt'[j].ago <= rcnt'[j].due
    BY <1>2 DEF Counted, Well
  <2> QED
    BY <2>1, <2>2 DEF InTime
<1>4. Shows(rcnt', truth')
  BY <1>2 DEF Shows, All, Counters!Reset
<1>5. line' * Line + rcnt'[3].ago = clock'
  BY <1>2, Numbers DEF All, Counters!Reset
<1>6. Counters!TypeOK'
  <2>1. 0 \in 0 .. Line * Lines - 1 /\ 0 \in 0 .. Lines - 1
    BY Numbers
  <2> QED
    BY <1>2, <1>3, <2>1 DEF Counters!TypeOK, Counted, InTime, All, Counters!Base, Counters!Reset
<1>7. Counters!InterruptsTrue'
  BY DEF Counters!InterruptsTrue, Counters!Reset
<1> QED
  BY <1>2, <1>3, <1>4, <1>5, <1>6, <1>7 DEF CountInv

LEMMA CountStep == ASSUME CountInv, BranchTestNext \/ UNCHANGED <<exercised, vars, counting>> PROVE CountInv'
<1>1. CASE UNCHANGED counting
  BY <1>1 DEF counting, CountInv, Counters!TypeOK, Counters!InterruptsTrue
<1>2. ASSUME NEW n \in Stretches, Counters!Run(n) PROVE CountInv'
  <2>1. CASE next - n <= 0
    <3>1. /\ rcnt' = Counters!UpdatedNow(n).rcnt /\ next' = Counters!UpdatedNow(n).next
          /\ line' = Counters!UpdatedNow(n).line /\ raised' = Counters!UpdatedNow(n).raised
          /\ Counters!Observe(n, Counters!Truth(n))
      BY <1>2, <2>1 DEF Counters!Run
    <3>2. rcnt' \in [All -> Counters!Rcnt]
      BY <3>1, UpdatedCounted DEF CountInv, Counted
    <3> QED
      BY <3>1, <3>2, ReadStep
  <2>2. CASE ~(next - n <= 0)
    <3>1. next - n > 0
      BY <2>2, Numbers DEF CountInv, InTime
    <3>2. /\ rcnt' = Counters!Passed(n) /\ next' = next - n /\ line' = line /\ raised' = {}
          /\ Counters!Observe(n, Counters!Truth(n))
      BY <1>2, <2>2 DEF Counters!Run, Counters!NotUpdated
    <3> QED
      BY <3>1, <3>2, PassedRight
  <2> QED
    BY <2>1, <2>2
<1>3. ASSUME NEW n \in Stretches, Counters!ReadCounter(n) PROVE CountInv'
  <2>1. /\ rcnt' = Counters!UpdatedNow(n).rcnt /\ next' = Counters!UpdatedNow(n).next
        /\ line' = Counters!UpdatedNow(n).line /\ raised' = Counters!UpdatedNow(n).raised
        /\ Counters!Observe(n, Counters!Truth(n))
    BY <1>3 DEF Counters!ReadCounter
  <2>2. rcnt' \in [All -> Counters!Rcnt]
    BY <2>1, UpdatedCounted DEF CountInv, Counted
  <2> QED
    BY <2>1, <2>2, ReadStep
<1>4. CASE Counters!Next
  BY <1>2, <1>3, <1>4, ReadsRight, WritesRight, ResetRight DEF Counters!Next
<1> QED
  BY <1>1, <1>4 DEF BranchTestNext

LEMMA CountRight == BranchTestSpec => []CountInv
<1>1. BranchTestInit => CountInv
  BY CountInit DEF BranchTestInit
<1>2. CountInv /\ [BranchTestNext]_<<exercised, vars, counting>> => CountInv'
  BY CountStep
<1> QED
  BY <1>1, <1>2, PTL DEF BranchTestSpec

(* No event of a counter that counts freely is late, and the scanlines tell *)
(* the time to the cycle, for every width of the counts, every rate, target *)
(* and mode, as long as no stretch of code is as long as a count to a       *)
(* target (psxcounters.cc, set and update).                                 *)
THEOREM EventsOnTime == BranchTestSpec => []CountersOnTime
<1>1. CountInv => CountersOnTime
  <2> SUFFICES ASSUME CountInv PROVE CountersOnTime
    OBVIOUS
  <2>1. Counters!OnTime
    BY DEF CountInv, Counted, InTime, Well, Counters!OnTime, All, Counters!Base
  <2>2. Counters!LinesOnTime
    BY DEF CountInv, Counters!LinesOnTime, Counters!Base
  <2> QED
    BY <2>1, <2>2 DEF CountersOnTime
<1> QED
  BY <1>1, CountRight, PTL

(* A counter of rate 1 that is computed from the cycles that went by shows  *)
(* and interrupts what one that counts each of them would                   *)
(* (psxcounters.cc).                                                        *)
THEOREM CountersRight == BranchTestSpec => []CountersTrue
<1>1. CountInv => CountersTrue
  <2> SUFFICES ASSUME CountInv PROVE CountersTrue
    OBVIOUS
  <2>1. ASSUME NEW i \in Ctr, Counters!Judged(i, rcnt[i]) PROVE Counters!Count(rcnt[i]) = truth[i]
    <3> DEFINE r == rcnt[i]
    <3>1. /\ r.rate = 1 /\ r.ago \in Nat /\ r.due \in Nat /\ r.target \in 0 .. Top /\ Well(r)
          /\ r.goal \in {"target", "overflow"} /\ Top \in Nat /\ r.ago = truth[i]
      BY <2>1, Numbers DEF CountInv, Counted, Shows, Counters!Judged, Counters!Rcnt, All
    <3>2. r.ago <= Top
      BY <3>1 DEF Well
    <3>3. Counters!Elapsed(r) = r.ago
      BY <3>1 DEF Counters!Elapsed
    <3> QED
      BY <3>1, <3>2, <3>3 DEF Counters!Count
  <2> QED
    BY <2>1 DEF CountInv, CountersTrue, Counters!CountsTrue
<1> QED
  BY <1>1, CountRight, PTL
=============================================================================
