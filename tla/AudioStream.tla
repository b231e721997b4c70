---------------------------- MODULE AudioStream ----------------------------
(***************************************************************************)
(* The SPU's mixing thread feeds blocks of frames to a circular buffer the *)
(* sound device's callback drains.  A full buffer makes the thread wait on *)
(* a condition variable, 200 ms at most, and offer the same block again    *)
(* unless it is told to end, which saving and loading a state do.          *)
(*                                                                         *)
(* support/circular.h, spu/spu.cc (MainThread, SetupThread, RemoveThread), *)
(* spu/sdlaudio.cc (streamCallback).                                       *)
(***************************************************************************)
EXTENDS Integers, Sequences

CONSTANTS
    Frame,  \* the frames, two samples each
    Silence, \* the one a Frame is constructed as
    Cap,    \* BUFFER_SIZE
    Blocks  \* the blocks the mixer makes, 18 rounds of 45 frames each

(* The mixer's blocks (810 frames) are shorter than the buffer (2048). *)
ASSUME StreamAssumption ==
    /\ Cap \in Nat \ {0} /\ Silence \in Frame
    /\ Blocks \subseteq Seq(Frame)
    /\ \A b \in Blocks : 0 < Len(b) /\ Len(b) < Cap

Slots == 0 .. Cap - 1

VARIABLES
    buffer,     \* m_buffer: 0 .. Cap - 1 -> Frame
    begin,      \* m_begin
    end,        \* m_end
    size,       \* m_size
    mixer,      \* where the mixing thread is
    block,      \* the block it feeds, empty when it mixes
    endThread   \* bEndThread: 1 while RemoveThread waits for its end

ring == <<buffer, begin, end, size>>
streamVars == <<ring, mixer, block, endThread>>

StreamInit ==
    /\ buffer = [s \in Slots |-> Silence] /\ begin = 0 /\ end = 0 /\ size = 0
    /\ mixer = "mixing" /\ block = << >> /\ endThread = 0

-----------------------------------------------------------------------------
(* The circular buffer.  A copy that runs over the end goes on at slot 0;  *)
(* an index that reaches the end is 0.                                     *)

Slot(i) == IF i < Cap THEN i ELSE i - Cap

(* the place of slot k among those written from "at" on *)
Place(k, at) == IF k >= at THEN k - at + 1 ELSE k + Cap - at + 1

(* mutant: what runs over the end is cut *)
Written_Mutant(b) ==
    [k \in Slots |-> IF k >= end /\ k - end < Len(b) THEN b[k - end + 1] ELSE buffer[k]]

Written(b) ==
    [k \in Slots |-> IF Place(k, end) <= Len(b) THEN b[Place(k, end)] ELSE buffer[k]]

Fits(b) == Len(b) < Cap - size

EnqueueSafe ==
    /\ buffer' = Written(block)
    /\ end' = Slot(end + Len(block))
    /\ size' = size + Len(block)
    /\ UNCHANGED begin

Taken(n) == IF n < size THEN n ELSE size

(* dequeue: what there is, and a notification even for nothing. *)
Dequeue(n) ==
    /\ begin' = Slot(begin + Taken(n))
    /\ size' = size - Taken(n)
    /\ mixer' = IF mixer = "waiting" THEN "notified" ELSE mixer
    /\ UNCHANGED <<buffer, end, block, endThread>>

-----------------------------------------------------------------------------
(* The mixing thread. *)

(* The loop looks at bEndThread, then mixes until a block is full.  A      *)
(* thread that is told to end while it mixes goes on to offer the block    *)
(* when that is the round that fills it.                                   *)
Mix ==
    /\ mixer = "mixing"
    /\ \/ mixer' = "offering" /\ block' \in Blocks
       \/ endThread = 1 /\ mixer' = "ended" /\ UNCHANGED block
    /\ UNCHANGED <<ring, endThread>>

Fed ==
    /\ EnqueueSafe
    /\ block' = << >>
    /\ mixer' = IF endThread = 1 THEN "ended" ELSE "mixing"

(* enqueue, at its start or notified: it is its predicate that decides. *)
Enqueue ==
    /\ mixer \in {"offering", "notified"}
    /\ \/ Fits(block) /\ Fed
       \/ ~Fits(block) /\ mixer' = "waiting" /\ UNCHANGED <<ring, block>>
    /\ UNCHANGED endThread

(* mutant: the flag is not looked at while the buffer is full *)
TimeOut_Mutant ==
    /\ mixer = "waiting"
    /\ \/ Fits(block) /\ Fed
       \/ ~Fits(block) /\ mixer' = "offering" /\ UNCHANGED <<ring, block>>
    /\ UNCHANGED endThread

(* The wait's 200 ms are over: the predicate once more, then feed again or *)
(* end, the block lost.                                                    *)
TimeOut ==
    /\ mixer = "waiting"
    /\ \/ Fits(block) /\ Fed
       \/ /\ ~Fits(block)
          /\ mixer' = IF endThread = 1 THEN "ended" ELSE "offering"
          /\ block' = IF endThread = 1 THEN << >> ELSE block
          /\ UNCHANGED ring
    /\ UNCHANGED endThread

-----------------------------------------------------------------------------
(* The emulation thread saves or loads a state. *)

RemoveThread ==
    /\ endThread = 0
    /\ endThread' = 1
    /\ UNCHANGED <<ring, mixer, block>>

(* bThreadEnded is seen, the thread joined and a new one set up. *)
SetupThread ==
    /\ endThread = 1 /\ mixer = "ended"
    /\ endThread' = 0 /\ mixer' = "mixing" /\ block' = << >>
    /\ UNCHANGED ring

MixerStep == Mix \/ Enqueue \/ TimeOut

StreamNext == MixerStep \/ RemoveThread \/ SetupThread \/ \E n \in 1 .. Cap : Dequeue(n)
StreamSpec == StreamInit /\ [][StreamNext]_streamVars

-----------------------------------------------------------------------------
StreamTypeOK ==
    /\ buffer \in [Slots -> Frame] /\ begin \in Slots /\ end \in Slots
    /\ size \in 0 .. Cap - 1 /\ end = Slot(begin + size)
    /\ mixer \in {"mixing", "offering", "waiting", "notified", "ended"}
    /\ block \in Blocks \cup {<< >>} /\ endThread \in {0, 1}
    /\ (block = << >>) <=> mixer \in {"mixing", "ended"}
    /\ mixer = "ended" => endThread = 1

(* What the buffer holds, oldest first. *)
Contents == [i \in 1 .. size |-> buffer[Slot(begin + i - 1)]]

Stream == INSTANCE StreamQueue WITH
              queue <- Contents, offered <- block, stopping <- endThread
=============================================================================
