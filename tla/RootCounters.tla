---------------------------- MODULE RootCounters ----------------------------
(***************************************************************************)
(* The root counters of the emulator (src/core/psxcounters.cc): the three  *)
(* timers of the guest, and a fourth one that counts scanlines, drives the *)
(* vertical blank and gates the others.                                    *)
(*                                                                         *)
(* Nothing counts here.  A counter is the cycle at which it would have     *)
(* been zero and the cycle of its next event; branchTest calls update when *)
(* the first of these events is due, and every register access calls it.   *)
(* update handles at most one event of each counter.  Cycles are kept      *)
(* relative to the present one, so that the cycle counter needs no bound;  *)
(* products of a count and a rate are reduced to their 32 bits, as in the  *)
(* code.  The sound and SIO1 work that update does on scanlines, and the   *)
(* GUI it runs at the vertical blank, are left out.                        *)
(***************************************************************************)
EXTENDS Integers

CONSTANTS
    Ctr,      \* the guest's counters in use, among 0, 1, 2
    Top,      \* 0xffff
    Word,     \* 2^32
    Slow,     \* Slow[i]: the rate of i's slow clock
    Line,     \* cycles per scanline: the target of counter 3
    Lines,    \* scanlines per frame: m_HSyncTotal
    BlankAt,  \* VBlankStart
    Blocks,   \* the cycles between two calls that may update the counters
    Targets,  \* the targets the guest writes
    Values,   \* the counts it writes
    Modes     \* the modes it writes, as records of Mode, their bits 10 to 15 zero

Base == 3
Flags == {"sync", "reset", "onTarget", "onOverflow", "again", "toggle", "slow"}
Mode  == [flags : SUBSET Flags, sync : 0..3]

(* Every stretch of code ends before a counter could have its next event   *)
(* twice, and an overflow is never so close to a target that they coincide *)
(* in one stretch, unless the target is 0xffff.                            *)
CountersAssumption ==
    /\ Ctr \subseteq 0..2
    /\ Top \in Nat /\ Word \in Nat \ {0} /\ Line \in 1..Top - 1 /\ Lines \in Nat \ {0}
    /\ Word % (Top + 1) = 0
    /\ Slow \in [Ctr -> Nat \ {0}] /\ \A i \in Ctr : Slow[i] * Top < Word
    /\ BlankAt \in 1..Lines
    /\ Values \subseteq 0..Top /\ Modes \subseteq Mode
    /\ Targets \subseteq 1..Top
    /\ \A n \in Blocks : /\ n \in Nat /\ n <= Line
                         /\ \A t \in Targets : n < t /\ (t + n <= Top \/ t = Top)

VARIABLES
    rcnt,      \* m_rcnts
    next,      \* m_psxNextCounter - m_regs.cycle
    line,      \* m_hSyncCount
    raised,    \* the counters whose interrupt the last step raised
    clock,     \* history: the cycles since the start of the first frame, modulo a frame
    truth,     \* history: what each counter would count to if it counted
    expected   \* history: whether it would have interrupted in the last step

vars == <<rcnt, next, line, raised, clock, truth, expected>>

(* ago is cycle - cycleStart, due is cycle, goal is counterState, hits are *)
(* bits 11 and 12 of mode, request is its bit 10, fired is irqState,       *)
(* started is gateStarted.                                                 *)
Rcnt == [ago : Nat, due : Nat, goal : {"target", "overflow"}, rate : Nat \ {0}, target : 0..Top,
         mode : Mode, hits : SUBSET {"target", "overflow"}, request : 0..1, fired : 0..1,
         started : 0..1]

Stopped == Word - 1    \* the rate 0xffffffff

-----------------------------------------------------------------------------
(* writeCounterInternal *)
Loaded(r, v) ==
    LET w == v % (Top + 1)
        hits == w < r.target /\ r.target # Top
    IN  [r EXCEPT !.ago = (w * r.rate) % Word,
                  !.due = ((IF hits THEN r.target ELSE Top) * r.rate) % Word,
                  !.goal = IF hits THEN "target" ELSE "overflow"]

Elapsed(r) == r.ago \div r.rate

(* readCounterInternal *)
Count(r) == Elapsed(r) % (Top + 1)

(* set, for the counters c: how far away the first event is *)
First(c) ==
    LET away == {IF c[i].due < c[i].ago THEN 0 ELSE c[i].due - c[i].ago : i \in DOMAIN c}
    IN  CHOOSE n \in away : \A m \in away : n <= m

(* reset: an event of the counter r.  The count goes on from what is past  *)
(* the target or the overflow.                                             *)
Carried_Mutant(r) == IF "reset" \in r.mode.flags \/ r.goal = "overflow" THEN 0 ELSE Count(r)
Carried(r) == IF r.goal = "overflow" THEN Elapsed(r) - Top
              ELSE IF "reset" \in r.mode.flags THEN Elapsed(r) - r.target
              ELSE Count(r)

Interrupts_Mutant(r) ==
    /\ \/ r.goal = "target" /\ "onTarget" \in r.mode.flags
       \/ r.goal = "overflow" /\ "onOverflow" \in r.mode.flags
    /\ r.fired = 0
Interrupts(r) ==
    /\ \/ r.goal = "target" /\ "onTarget" \in r.mode.flags
       \/ r.goal = "overflow" /\ "onOverflow" \in r.mode.flags
    /\ "again" \in r.mode.flags \/ r.fired = 0

Event(r) ==
    [Loaded(r, Carried(r)) EXCEPT
        !.hits = @ \cup {r.goal},
        !.fired = IF Interrupts(r) THEN 1 ELSE @,
        !.request = IF "toggle" \in r.mode.flags THEN 1 - @ ELSE 1]

Expired(r) == r.ago >= r.due

(* recalculateRate of counter i *)
RateOf(i, m) ==
    IF i = 2 /\ "sync" \in m.flags /\ m.sync \in {0, 3} THEN Stopped
    ELSE IF "slow" \in m.flags THEN Slow[i] ELSE 1

(* A counter at the blank that gates it: horizontal for 0, vertical for 1  *)
Opens(r) == "sync" \in r.mode.flags /\ r.mode.sync = 3 /\ r.started = 0

Gated(i, r) ==
    IF Opens(r) THEN Loaded([r EXCEPT !.started = 1, !.rate = RateOf(i, r.mode)], 0)
    ELSE IF "sync" \in r.mode.flags /\ r.mode.sync \in {1, 2} THEN Loaded(r, 0)
    ELSE r

-----------------------------------------------------------------------------
(* The scanline that follows line l *)
NextLine(l) == (l + 1) % Lines

(* update, of the counters c, with m_psxNextCounter x away, in line l: the *)
(* events, then the gates.  set is called for each event and when a gate   *)
(* opens, but not when a gate only restarts its counter.                   *)
Updated(c, x, l) ==
    LET ticked  == [i \in DOMAIN c |-> IF Expired(c[i]) THEN Event(c[i]) ELSE c[i]]
        scan    == Expired(c[Base])
        blank   == scan /\ l + 1 = BlankAt
        gate    == Ctr \cap ((IF scan THEN {0} ELSE {}) \cup (IF blank THEN {1} ELSE {}))
        gated(S) == [i \in DOMAIN c |-> IF i \in S THEN Gated(i, ticked[i]) ELSE ticked[i]]
        opened  == {i \in gate : Opens(ticked[i])}
    IN  [rcnt   |-> gated(gate),
         next   |-> IF \E i \in DOMAIN c : Expired(c[i])
                    THEN First(gated({i \in gate : \E j \in opened : i <= j})) ELSE x,
         line   |-> IF scan THEN NextLine(l) ELSE l,
         raised |-> {i \in Ctr : Expired(c[i]) /\ Interrupts(c[i])}
                    \cup IF blank THEN {Base} ELSE {}]

Passed(n) == [i \in DOMAIN rcnt |-> [rcnt[i] EXCEPT !.ago = @ + n]]
UpdatedNow(n) == Updated(Passed(n), next - n, line)
NotUpdated(n) == [rcnt |-> Passed(n), next |-> next - n, line |-> line, raised |-> {}]

-----------------------------------------------------------------------------
(* What a counter of rate 1 does, cycle for cycle: it goes from its target *)
(* to zero if it is to be reset there, and else from 0xffff.               *)

(* Counters that count freely: not stopped, nor restarted at each blank *)
Free(i, r) ==
    /\ r.rate # Stopped
    /\ i # 2 /\ "sync" \in r.mode.flags => r.mode.sync = 0 \/ (r.mode.sync = 3 /\ r.started = 1)

Judged(i, r) == Free(i, r) /\ r.rate = 1

UpTo(r, t) == IF t < r.target /\ r.target # Top THEN r.target ELSE Top
WrapsAt(r, t) == IF "reset" \in r.mode.flags THEN UpTo(r, t) ELSE Top

Ideal(r, t, n) == IF t + n >= WrapsAt(r, t) THEN t + n - WrapsAt(r, t) ELSE t + n

Crosses(r, t, n) ==
    /\ t + n >= UpTo(r, t)
    /\ (IF UpTo(r, t) = Top THEN "onOverflow" ELSE "onTarget") \in r.mode.flags

Truth(n) == [i \in Ctr |-> IF Judged(i, rcnt[i]) THEN Ideal(rcnt[i], truth[i], n) ELSE 0]

Observe(n, t) ==
    /\ clock' = (clock + n) % (Line * Lines)
    /\ truth' = [i \in Ctr |-> IF Judged(i, rcnt'[i]) THEN t[i] ELSE 0]
    /\ expected' = [i \in Ctr |->
          IF ~Judged(i, rcnt[i]) \/ "again" \notin rcnt[i].mode.flags THEN "any"
          ELSE IF Crosses(rcnt[i], truth[i], n) THEN "yes" ELSE "no"]

-----------------------------------------------------------------------------
(* init, of the counters c: what the guest wrote to them stays. *)
Started(c) ==
    [i \in DOMAIN c |->
        Loaded(IF i = Base
               THEN [c[i] EXCEPT !.rate = 1, !.target = Line,
                                 !.mode = [flags |-> {"reset"}, sync |-> 0]]
               ELSE [c[i] EXCEPT !.rate = 1], 0)]

Zeroed == [ago |-> 0, due |-> 0, goal |-> "overflow", rate |-> 1, target |-> 0,
           mode |-> [flags |-> {}, sync |-> 0], hits |-> {}, request |-> 0, fired |-> 0,
           started |-> 0]

Init ==
    /\ rcnt = Started([i \in Ctr \cup {Base} |-> Zeroed])
    /\ next = First(rcnt)
    /\ line = 0
    /\ raised = {}
    /\ clock = 0
    /\ truth = [i \in Ctr |-> 0]
    /\ expected = [i \in Ctr |-> "any"]

(* Code that ends in a branch: branchTest *)
Run(n) ==
    LET u == IF next - n <= 0 THEN UpdatedNow(n) ELSE NotUpdated(n)
    IN  /\ rcnt' = u.rcnt /\ next' = u.next /\ line' = u.line /\ raised' = u.raised
        /\ Observe(n, Truth(n))

(* Code that ends in an access to a register, which updates the counters   *)
(* first, to u; the access makes r of counter i.                           *)
Change(u, i, r) ==
    /\ rcnt' = [u.rcnt EXCEPT ![i] = r]
    /\ next' = First(rcnt')
    /\ line' = u.line /\ raised' = u.raised

ReadCounter(n) ==
    LET u == UpdatedNow(n)
    IN  /\ rcnt' = u.rcnt /\ next' = u.next /\ line' = u.line /\ raised' = u.raised
        /\ Observe(n, Truth(n))

(* readMode clears the two flags. *)
ReadMode(n, i) ==
    LET u == UpdatedNow(n)
    IN  /\ rcnt' = [u.rcnt EXCEPT ![i].hits = {}]
        /\ next' = u.next /\ line' = u.line /\ raised' = u.raised
        /\ Observe(n, Truth(n))

WriteCounter(n, i, v) ==
    /\ Change(UpdatedNow(n), i, Loaded(UpdatedNow(n).rcnt[i], v))
    /\ Observe(n, [Truth(n) EXCEPT ![i] = v])

(* The gates that pause their counter start out paused. *)
PausedAtFirst(i, m) == i # 2 /\ "sync" \in m.flags /\ m.sync \in {2, 3}
ModeRate(i, m) == IF PausedAtFirst(i, m) THEN Stopped ELSE RateOf(i, m)

(* Counter i, once its mode is written: nothing is left but its target. *)
Moded(i, r, m) ==
    Loaded([r EXCEPT !.mode = m, !.hits = {}, !.request = 1, !.fired = 0, !.started = 0,
                     !.rate = ModeRate(i, m)], 0)

WriteMode(n, i, m) ==
    /\ Change(UpdatedNow(n), i, Moded(i, UpdatedNow(n).rcnt[i], m))
    /\ Observe(n, [Truth(n) EXCEPT ![i] = 0])

Retargeted(r, t) == Loaded([r EXCEPT !.target = t], Count(r))

WriteTarget(n, i, t) ==
    /\ Change(UpdatedNow(n), i, Retargeted(UpdatedNow(n).rcnt[i], t))
    /\ Observe(n, Truth(n))

(* The machine is reset. *)
Reset ==
    /\ rcnt' = Started(rcnt)
    /\ next' = First(rcnt')
    /\ line' = 0
    /\ raised' = {}
    /\ clock' = 0
    /\ truth' = [i \in Ctr |-> 0]
    /\ expected' = [i \in Ctr |-> "any"]

Next ==
    \/ \E n \in Blocks :
          \/ Run(n)
          \/ ReadCounter(n)
          \/ \E i \in Ctr :
                \/ ReadMode(n, i)
                \/ \E v \in Values : WriteCounter(n, i, v)
                \/ \E m \in Modes : WriteMode(n, i, m)
                \/ \E t \in Targets : WriteTarget(n, i, t)
    \/ Reset

Spec == Init /\ [][Next]_vars

-----------------------------------------------------------------------------
(* Type invariant of the counters and the scanline                         *)
TypeOK ==
    /\ rcnt \in [Ctr \cup {Base} -> Rcnt]
    /\ next \in Int
    /\ line \in 0..Lines - 1
    /\ raised \subseteq Ctr \cup {Base}
    /\ clock \in 0..Line * Lines - 1
    /\ truth \in [Ctr -> Nat]
    /\ expected \in [Ctr -> {"yes", "no", "any"}]

(* No event is late: whatever the guest writes in between, the next update *)
(* comes no later than the next event of any counter that counts freely,   *)
(* and leaves none behind (psxcounters.cc, set and update).                *)
OnTime ==
    \A i \in Ctr \cup {Base} :
        Free(i, rcnt[i]) => rcnt[i].ago <= rcnt[i].due /\ next <= rcnt[i].due - rcnt[i].ago

(* The scanlines do not drift: however late the updates are, they tell the *)
(* time since the first frame to the cycle, and they stay within the frame *)
(* (psxcounters.cc, update).                                               *)
LinesOnTime == TypeOK /\ line * Line + rcnt[Base].ago = clock

(* A counter computed from the cycles that went by shows what one that     *)
(* counts each of them would, across resets at the target, overflows, new  *)
(* targets below or above the count, and gates that open.                  *)
CountsTrue == \A i \in Ctr : Judged(i, rcnt[i]) => Count(rcnt[i]) = truth[i]

(* And it interrupts when that one would, in the same stretch of code,     *)
(* never before and never twice.                                           *)
InterruptsTrue ==
    \A i \in Ctr : /\ expected[i] = "yes" => i \in raised
                   /\ expected[i] = "no" => i \notin raised
=============================================================================
