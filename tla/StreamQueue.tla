---------------------------- MODULE StreamQueue ----------------------------
(***************************************************************************)
(* What the mixer and the sound device expect of the buffer between them:  *)
(* a block of frames goes in whole, behind what is there, or not at all,   *)
(* and frames come out from the front, in order and once each.  A block is *)
(* given up only when the mixer is being stopped.                          *)
(***************************************************************************)
EXTENDS Integers, Sequences

CONSTANTS Frame, Cap, Blocks

VARIABLES queue, offered, stopping

Init == queue = << >> /\ offered = << >> /\ stopping = 0

Offer ==
    /\ offered = << >>
    /\ offered' \in Blocks
    /\ UNCHANGED <<queue, stopping>>

Put ==
    /\ offered # << >>
    /\ Len(queue) + Len(offered) < Cap
    /\ queue' = queue \o offered /\ offered' = << >>
    /\ UNCHANGED stopping

GiveUp ==
    /\ offered # << >> /\ stopping = 1
    /\ offered' = << >>
    /\ UNCHANGED <<queue, stopping>>

Take ==
    /\ \E n \in 0 .. Len(queue) : queue' = SubSeq(queue, n + 1, Len(queue))
    /\ UNCHANGED <<offered, stopping>>

StopStart ==
    /\ stopping' \in {0, 1}
    /\ stopping' = 0 => offered = << >>
    /\ UNCHANGED <<queue, offered>>

Next == Offer \/ Put \/ GiveUp \/ Take \/ StopStart
Spec == Init /\ [][Next]_<<queue, offered, stopping>>
=============================================================================
