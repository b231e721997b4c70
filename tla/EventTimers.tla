---------------------------- MODULE EventTimers ----------------------------
(***************************************************************************)
(* What the event scheduler promises the devices, without any of its       *)
(* bookkeeping: an event set for a time is handled in the first service    *)
(* that begins after that time, never sooner, and a service is over only   *)
(* when nothing that was due before it began is left.                      *)
(***************************************************************************)
EXTENDS Integers

CONSTANTS Irq, MayArm, MayCancel, GuestArms, GuestCancels, Delays, Blocks

Off == -1

VARIABLES
    clock,    \* the machine's time
    due,      \* due[i]: when i is due, or Off
    serving   \* whether the scheduler is looking at the events

timers == <<clock, due, serving>>

Init ==
    /\ clock = 0
    /\ due = [i \in Irq |-> Off]
    /\ serving = FALSE

Advance ==
    /\ ~serving
    /\ \E n \in Blocks : clock' = clock + n
    /\ serving' \in BOOLEAN
    /\ UNCHANGED due

Request(i) ==
    /\ i \in GuestArms
    /\ \E d \in Delays : due' = [due EXCEPT ![i] = clock + d]
    /\ UNCHANGED <<clock, serving>>

Withdraw(i) ==
    /\ ~serving
    /\ i \in GuestCancels
    /\ due' = [due EXCEPT ![i] = Off]
    /\ UNCHANGED <<clock, serving>>

(* The handler of i runs when i is due, and once more than needed when i   *)
(* was withdrawn by an earlier handler of the same service.                *)
Handle(i) ==
    /\ serving
    /\ due[i] <= clock
    /\ \E A \in SUBSET MayArm[i], C \in SUBSET MayCancel[i] :
       \E d \in [A -> Delays] :
          due' = [j \in Irq |-> IF j \in A THEN clock + d[j]
                                ELSE IF j \in C \cup {i} THEN Off
                                ELSE due[j]]
    /\ UNCHANGED <<clock, serving>>

Finish ==
    /\ serving
    /\ \A i \in Irq : due[i] = Off \/ due[i] >= clock
    /\ serving' = FALSE
    /\ UNCHANGED <<clock, due>>

Next ==
    \/ Advance
    \/ \E i \in Irq : Request(i) \/ Withdraw(i) \/ Handle(i)
    \/ Finish

Spec == Init /\ [][Next]_timers
=============================================================================
