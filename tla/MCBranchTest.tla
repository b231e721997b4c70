---------------------------- MODULE MCBranchTest ----------------------------
(***************************************************************************)
(* What branchTest looks after: the root counters, which it updates first, *)
(* and then the scheduled events.  They share no variable but the cycle    *)
(* counter, which each module keeps in its own way, so that a behaviour    *)
(* exercises one of them and leaves the other in its initial state.        *)
(* Counters of three bits and products of six; a scanline takes four       *)
(* cycles, a frame three scanlines.                                        *)
(***************************************************************************)
EXTENDS MCEventScheduler

CONSTANTS Ctr, Top, Word, Slow, Line, Lines, BlankAt, Stretches, Targets, Values, Modes    \* of RootCounters

VARIABLES
    exercised,  \* which of the two is
    rcnt, next, line, raised, clock, truth, expected

MCSlow == [i \in Ctr |-> 2]
MCStretches == {1, 2}
MCModes ==
    {[flags |-> f, sync |-> 0] :
        f \in {{"onTarget", "onOverflow", "again", "toggle"},
               {"reset", "onTarget", "again"},
               {"reset", "onTarget", "slow"}}}
    \cup {[flags |-> {"sync", "reset", "onTarget", "again"}, sync |-> s] : s \in {1, 2, 3}}

Counters == INSTANCE RootCounters WITH Blocks <- Stretches

ASSUME Counting == Counters!CountersAssumption

counting == <<rcnt, next, line, raised, clock, truth, expected>>

BranchTestInit == exercised \in {"events", "counters"} /\ Init /\ Counters!Init

BranchTestNext ==
    \/ exercised = "events" /\ Next /\ UNCHANGED <<exercised, counting>>
    \/ exercised = "counters" /\ Counters!Next /\ UNCHANGED <<exercised, vars>>

BranchTestSpec == BranchTestInit /\ [][BranchTestNext]_<<exercised, vars, counting>>

FairBranchTestSpec ==
    /\ BranchTestSpec
    /\ WF_vars(exercised = "events" /\ TakeBranch)
    /\ WF_vars(exercised = "events" /\ (EnterPass \/ SkipPass))
    /\ WF_vars(exercised = "events" /\ (PassOver \/ Remember \/ Fire \/ EndPass))

-----------------------------------------------------------------------------
(* No event of a counter is late, and the scanlines do not drift, whatever *)
(* the guest writes in between (psxcounters.cc, set and update).            *)
CountersOnTime == Counters!OnTime /\ Counters!LinesOnTime

(* A counter shows what one that counts cycle for cycle would, and          *)
(* interrupts when that one would, never before and never twice.            *)
CountersTrue == Counters!CountsTrue /\ Counters!InterruptsTrue
=============================================================================
