--------------------------- MODULE EventScheduler ---------------------------
(***************************************************************************)
(* The event scheduler of the emulated CPU: m_regs.interrupt,              *)
(* m_regs.intTargets and m_regs.lowestTarget, filled by scheduleInterrupt  *)
(* and drained by branchTest after every branch of the guest.              *)
(*                                                                         *)
(* Everything here runs on the emulator's one thread, but branchTest is    *)
(* not atomic: it calls Counters::update, which at the start of the        *)
(* vertical blank runs the whole GUI (and its "load state" and "reset"     *)
(* commands), and then it calls one handler after the other, each of       *)
(* which may schedule or cancel events.  The module has one action for     *)
(* each of these stages, with branchTest's local variables as state.       *)
(***************************************************************************)
EXTENDS Integers, Sequences

CONSTANTS
    Irq,         \* the PSXINT_xxx sources in use
    Order,       \* the order in which branchTest looks at them
    MayArm,      \* MayArm[i]: what the handler of i may schedule
    MayCancel,   \* MayCancel[i]: what the handler of i may cancel
    GuestArms,   \* what a guest's register write, or Counters::update, may schedule
    GuestCancels,\* what a guest's register write may cancel
    Delays,      \* the delays scheduleInterrupt is given, once scaled
    Blocks,      \* the cycles a stretch of guest code takes
    MaxCycle,    \* bound on the cycle counter, in the guard of Execute and TakeBranch
    GuiAt        \* the stages in which the user saves, loads or resets

ASSUME IrqAssumption ==
    /\ MayArm \in [Irq -> SUBSET Irq]
    /\ MayCancel \in [Irq -> SUBSET Irq]
    /\ GuestArms \subseteq Irq
    /\ GuestCancels \subseteq Irq

ASSUME OrderAssumption ==
    /\ Order \in Seq(Irq)
    /\ \A i \in Irq : \E k \in 1 .. Len(Order) : Order[k] = i

ASSUME TimeAssumption ==
    /\ Delays \subseteq Nat
    /\ Blocks \subseteq Nat \ {0}
    /\ MaxCycle \in Nat
    /\ GuiAt \subseteq {"guest", "update"}

VARIABLES
    cycle,        \* m_regs.cycle
    interrupt,    \* m_regs.interrupt, as the set of its one bits
    intTargets,   \* m_regs.intTargets
    lowestTarget, \* m_regs.lowestTarget
    slot,         \* the saved state, or NoState
    pc,           \* where the emulator's thread is: see Stages
    now,          \* branchTest: const uint64_t cycle; kept after it returns
    snapshot,     \* branchTest: const uint32_t interrupts
    index,        \* branchTest: position in the row of checkAndUpdate
    nearest,      \* branchTest: lowestDistance
    newLowest,    \* branchTest: lowestTarget
    view          \* history: "stale" from when a state came in inside branchTest
                  \* until a pass has run on its own clock, else "fresh"

regs  == <<cycle, interrupt, intTargets, lowestTarget>>
local == <<now, snapshot, index, nearest, newLowest>>
vars  == <<regs, slot, pc, local, view>>

Stages == {"guest", "update", "check"}

NoState == [cycle |-> 0, interrupt |-> {}, intTargets |-> [i \in Irq |-> 0]]
States  == [cycle : Nat, interrupt : SUBSET Irq, intTargets : [Irq -> Nat]]

(* int32_t lowestDistance = std::numeric_limits<int64_t>::max(): the       *)
(* conversion keeps the low 32 bits, all of them ones.                     *)
InitialDistance_Mutant == 2147483647
InitialDistance == -1

-----------------------------------------------------------------------------
(* scheduleInterrupt for each event i of A, with delay d[i]                *)

ArmedTargets(A, d) == [i \in Irq |-> IF i \in A THEN cycle + d[i] ELSE intTargets[i]]

(* lowestTarget is lowered to the first of the new targets: the one member *)
(* of this set is its next value.                                          *)
LowestAfter(A, d) ==
    LET times == {lowestTarget} \cup {cycle + d[i] : i \in A}
    IN  {t \in times : \A u \in times : t <= u}

-----------------------------------------------------------------------------
Init ==
    /\ cycle = 0
    /\ interrupt = {}
    /\ intTargets = [i \in Irq |-> 0]
    /\ lowestTarget = 0
    /\ slot = NoState
    /\ pc = "guest"
    /\ now = 0
    /\ snapshot = {}
    /\ index = 1
    /\ nearest = InitialDistance
    /\ newLowest = 0
    /\ view = "fresh"

(* The guest executes straight-line code, *)
Execute ==
    /\ pc = "guest"
    /\ \E n \in Blocks :
          /\ cycle + n < MaxCycle
          /\ cycle' = cycle + n
    /\ UNCHANGED <<interrupt, intTargets, lowestTarget, slot, pc, local, view>>

(* and then a branch, whose delay slot ends in branchTest. *)
TakeBranch ==
    /\ pc = "guest"
    /\ \E n \in Blocks :
          /\ cycle + n <= MaxCycle
          /\ cycle' = cycle + n
          /\ now' = cycle + n
    /\ pc' = "update"
    /\ UNCHANGED <<interrupt, intTargets, lowestTarget, slot,
                   snapshot, index, nearest, newLowest, view>>

(* A register write of the guest, or a device polled by Counters::update,  *)
(* calls scheduleInterrupt.                                                *)
Schedule(i) ==
    /\ pc \in {"guest", "update"}
    /\ i \in GuestArms
    /\ \E d \in Delays :
          /\ interrupt' = interrupt \cup {i}
          /\ intTargets' = ArmedTargets({i}, [j \in {i} |-> d])
          /\ lowestTarget' \in LowestAfter({i}, [j \in {i} |-> d])
    /\ UNCHANGED <<cycle, slot, pc, local, view>>

(* SIO::writeCtrl16, SIO1 and StopReading drop the bit and leave the rest. *)
Cancel(i) ==
    /\ pc = "guest"
    /\ i \in GuestCancels \cap interrupt
    /\ interrupt' = interrupt \ {i}
    /\ UNCHANGED <<cycle, intTargets, lowestTarget, slot, pc, local, view>>

(* branchTest after Counters::update: enter the row of checks or return.   *)
PassGuard_Mutant == interrupt # {} /\ lowestTarget > now
PassGuard == interrupt # {} /\ lowestTarget < now

EnterPass ==
    /\ pc = "update"
    /\ PassGuard
    /\ pc' = "check"
    /\ snapshot' = interrupt
    /\ index' = 1
    /\ nearest' = InitialDistance
    /\ newLowest' = now
    /\ UNCHANGED <<regs, slot, now, view>>

SkipPass ==
    /\ pc = "update"
    /\ ~PassGuard
    /\ pc' = "guest"
    /\ view' = IF now = cycle /\ (view = "fresh" \/ interrupt = {}) THEN "fresh" ELSE "stale"
    /\ UNCHANGED <<regs, slot, local>>

Current == Order[index]

(* checkAndUpdate of an event whose bit is not in the snapshot *)
PassOver ==
    /\ pc = "check"
    /\ index <= Len(Order)
    /\ Current \notin snapshot
    /\ index' = index + 1
    /\ UNCHANGED <<regs, slot, pc, now, snapshot, nearest, newLowest, view>>

(* int64_t dist = target - cycle *)
Distance_Mutant == cycle - intTargets[Current]
Distance == intTargets[Current] - now

(* checkAndUpdate of an event that is not due *)
Remember ==
    /\ pc = "check"
    /\ index <= Len(Order)
    /\ Current \in snapshot
    /\ Distance > 0
    /\ nearest' = IF nearest > Distance THEN Distance ELSE nearest
    /\ newLowest' = IF nearest > Distance THEN intTargets[Current] ELSE newLowest
    /\ index' = index + 1
    /\ UNCHANGED <<regs, slot, pc, now, snapshot, view>>

(* checkAndUpdate of a due event: its bit goes, then its handler runs,     *)
(* which may schedule again or cancel what the snapshot still holds.       *)
Fire ==
    /\ pc = "check"
    /\ index <= Len(Order)
    /\ Current \in snapshot
    /\ Distance <= 0
    /\ \E A \in SUBSET MayArm[Current], C \in SUBSET MayCancel[Current] :
       \E d \in [A -> Delays] :
          /\ interrupt' = ((interrupt \ {Current}) \ C) \cup A
          /\ intTargets' = ArmedTargets(A, d)
          /\ lowestTarget' \in LowestAfter(A, d)
    /\ index' = index + 1
    /\ UNCHANGED <<cycle, slot, pc, now, snapshot, nearest, newLowest, view>>

EndPass ==
    /\ pc = "check"
    /\ index > Len(Order)
    /\ lowestTarget' = newLowest
    /\ pc' = "guest"
    /\ snapshot' = {}
    /\ index' = 1
    /\ newLowest' = 0
    /\ view' = IF now = cycle THEN "fresh" ELSE "stale"
    /\ UNCHANGED <<cycle, interrupt, intTargets, slot, now, nearest>>

-----------------------------------------------------------------------------
(* The GUI runs while the emulation is paused (stage "guest") and inside   *)
(* Counters::update (stage "update"; the same call from a counter register *)
(* access of the guest is stage "guest" again).                            *)

GuiRuns == pc \in GuiAt

SaveState ==
    /\ GuiRuns
    /\ slot' = [cycle |-> cycle, interrupt |-> interrupt, intTargets |-> intTargets]
    /\ UNCHANGED <<regs, pc, local, view>>

(* After a load or a reset branchTest's locals, when it is running, are    *)
(* those of the state that went away.                                      *)
Replace(s) ==
    /\ cycle' = s.cycle
    /\ interrupt' = s.interrupt
    /\ intTargets' = s.intTargets
    /\ now' = IF pc = "guest" THEN 0 ELSE now
    /\ view' = IF pc = "update" THEN "stale" ELSE "fresh"
    /\ UNCHANGED <<slot, pc, snapshot, index, nearest, newLowest>>

LoadedLowest == slot.cycle

LoadState ==
    /\ GuiRuns
    /\ slot # NoState
    /\ Replace(slot)
    /\ lowestTarget' = LoadedLowest

Reset ==
    /\ GuiRuns
    /\ Replace(NoState)
    /\ lowestTarget' = 0

Next ==
    \/ Execute
    \/ TakeBranch
    \/ \E i \in Irq : Schedule(i) \/ Cancel(i)
    \/ EnterPass \/ SkipPass
    \/ PassOver \/ Remember \/ Fire
    \/ EndPass
    \/ SaveState \/ LoadState \/ Reset

Spec == Init /\ [][Next]_vars

(* The CPU thread keeps executing, and code without branches cannot go on: *)
(* it runs out of memory.  A branch test that began goes on to its end.    *)
Fairness ==
    /\ WF_vars(TakeBranch)
    /\ WF_vars(EnterPass \/ SkipPass)
    /\ WF_vars(PassOver \/ Remember \/ Fire \/ EndPass)

FairSpec == Spec /\ Fairness

-----------------------------------------------------------------------------
(* Type invariant: the registers and the locals of branchTest keep their   *)
(* types, and the position never leaves the row of checks.                 *)
TypeOK ==
    /\ cycle \in Nat
    /\ interrupt \in SUBSET Irq
    /\ intTargets \in [Irq -> Nat]
    /\ lowestTarget \in Nat
    /\ slot \in States
    /\ pc \in Stages
    /\ now \in Nat
    /\ snapshot \in SUBSET Irq
    /\ index \in 1 .. Len(Order) + 1
    /\ nearest \in Int
    /\ newLowest \in Nat
    /\ view \in {"fresh", "stale"}

(* No event is hidden: whenever the guest runs, every event that was due   *)
(* at the last branch test has been handled, whatever the handlers that    *)
(* ran in that pass scheduled or cancelled (r3000a.cc, branchTest).  The   *)
(* one exception is a state that came in from inside branchTest.           *)
NothingOverdue ==
    pc = "guest" /\ view = "fresh" => \A i \in interrupt : intTargets[i] >= now

(* The scheduler keeps the promise of EventTimers, for as long as no state *)
(* comes in from inside branchTest: in every pass each event that is due   *)
(* is handled, none ahead of its time, whatever the earlier handlers of    *)
(* the pass did to it (r3000a.cc, branchTest; r3000a.h, scheduleInterrupt).*)
Timers == INSTANCE EventTimers WITH
    clock <- cycle,
    due <- [i \in Irq |-> IF i \in interrupt THEN intTargets[i] ELSE -1],
    serving <- pc # "guest"

KeepsTime == Timers!Spec

(* Every event within the horizon is eventually handled, cancelled or      *)
(* scheduled anew: scheduleInterrupt never loses one.                      *)
Served ==
    \A i \in Irq : \A t \in 0 .. MaxCycle - 1 :
        (i \in interrupt /\ intTargets[i] = t) ~> ~(i \in interrupt /\ intTargets[i] = t)
=============================================================================
