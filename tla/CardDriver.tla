----------------------------- MODULE CardDriver -----------------------------
(***************************************************************************)
(* OpenBIOS's memory card driver (mips/openbios/sio0) on the serial port   *)
(* of core/sio.cc and two memory cards.  A program asks for a sector;      *)
(* every VBlank polls the controllers and begins the request of one of the *)
(* two slots; every byte a card acknowledges interrupts, and the handler   *)
(* sends the next one.                                                     *)
(***************************************************************************)
EXTENDS Sio

CONSTANTS
    Requests(_),        \* what a program asks of a slot
    Removable           \* the slots whose card comes and goes

DriverAssumption ==
    /\ CardAssumption
    /\ Removable \subseteq {0, 1}
    /\ \A p \in {0, 1} : Requests(p) \subseteq
           [op : {"read", "write", "info"}, sector : Byte \X Byte, data : Data]

VARIABLES
    sio,                \* the serial port and the cards
    ireg, imask,        \* the controller's bits of I_STAT and I_MASK
    stage,              \* where the VBlank handler is
    mc,                 \* the driver's other globals, g_mc...
    asked,              \* g_mcHandlers, g_mcSector and the data to write, of each slot
    flags,              \* g_mcFlags; 1 for any value that has bit 0, which says that the slot is free
    buffer,             \* what g_mcUserBuffers point to
    success             \* 1: EVENT_CARD 0x0004, and no error, was delivered since the last VBlank

vars == <<sio, ireg, imask, stage, mc, asked, flags, buffer, success>>

Slots == {0, 1}
Stages == {"idle", "pad0", "pad1", "card"}
NoRequest == [op |-> "none", sector |-> <<Zero, Zero>>, data |-> << >>]
Busy(p) == flags[p] # 1
Mask(p) == IF p = 1 THEN {"PORTSEL"} ELSE {}

Init ==
    /\ sio = NewSio([p \in Slots |-> << >>], [p \in Slots |-> 1])
    /\ ireg = 0 /\ imask = 0 /\ stage = "idle"
    /\ mc = [active |-> 0, port |-> 0, op |-> 0, skip |-> 0, fast |-> 0, count |-> 0,
             sum |-> Zero]
    /\ asked = [p \in Slots |-> NoRequest]
    /\ flags = [p \in Slots |-> 1]
    /\ buffer = [p \in Slots |-> << >>]
    /\ success = 0

(***************************************************************************)
(* The program: mcReadSector, mcWriteSector and cardInfoInternal refuse a  *)
(* slot that is busy; they reset g_mcOperation, whichever slot it is of.   *)
(***************************************************************************)
FlagOf(op) == CASE op = "read" -> 2 [] op = "write" -> 4 [] op = "info" -> 0

Ask(p) ==
    /\ stage = "idle" /\ ~Busy(p)
    /\ \E request \in Requests(p) :
           /\ asked' = [asked EXCEPT ![p] = request]
           /\ buffer' = [buffer EXCEPT ![p] = request.data]
           /\ flags' = [flags EXCEPT ![p] = FlagOf(request.op)]
    /\ mc' = [mc EXCEPT !.op = 0]
    /\ UNCHANGED <<sio, ireg, imask, stage, success>>

AllowNewCard ==
    /\ stage = "idle"
    /\ mc' = [mc EXCEPT !.skip = 1]
    /\ UNCHANGED <<sio, ireg, imask, stage, asked, flags, buffer, success>>

(***************************************************************************)
(* mcHandler, with m for the globals it finds.  Each operation takes the   *)
(* answer to the byte before the last and sends a byte; ERRRES and the     *)
(* write to IREG follow.                                                   *)
(***************************************************************************)
Exchange(s, byte) == WriteByte(Pulled(s), byte)

\* The byte that operation n sends for request r.
Sent(m, r, n) ==
    CASE n = 1 -> Access
      [] n = 2 -> IF r.op = "write" THEN Write ELSE Read
      [] n = 5 -> r.sector[1]
      [] n = 6 -> r.sector[2]
      [] n = 7 /\ r.op = "write" -> m.sum
      [] OTHER -> Zero

LastOp(r) == CASE r.op = "read" -> 13 [] r.op = "write" -> 10 [] r.op = "info" -> 4

NewCardSeen(m, n, b) == n = 3 /\ m.skip = 0 /\ DirectoryUnread \subseteq b

\* The answers that let operation n go on.
Wanted(m, r, n) ==
    CASE n = 4 -> {ID1}
      [] n = 5 -> {ID2}
      [] r.op = "write" /\ n = 9 -> {Acknowledge1}
      [] r.op = "write" /\ n = 10 -> {ID2}
      [] r.op = "read" /\ n = 8 -> {Acknowledge1}
      [] r.op = "read" /\ n = 9 -> {ID2}
      [] r.op = "read" /\ n = 10 -> {r.sector[1]}
      [] r.op = "read" /\ n = 11 -> {r.sector[2]}
      [] r.op = "read" /\ n = 13 -> {m.sum}
      [] OTHER -> Byte

SumAfter(m, r, n, b) ==
    CASE r.op = "write" /\ n = 5 -> r.sector[1]
      [] r.op = "write" /\ n = 6 -> SymDiff(m.sum, r.sector[2])
      [] r.op = "read" /\ n = 10 -> SymDiff(r.sector[1], r.sector[2])
      [] r.op = "read" /\ n = 12 -> SymDiff(m.sum, b)
      [] OTHER -> m.sum

FastAfter(m, r, n) ==
    IF (r.op = "write" /\ n = 6) \/ (r.op = "read" /\ n = 11) THEN 1 ELSE m.fast

\* The handler selects its slot; the first operation writes the control register anew.
Selected(m, n) ==
    LET s == WriteCtrl(sio, sio.ctrl \cup Mask(m.port) \cup {"DTR"})
        t == IF n = 1 THEN WriteCtrl(s, Mask(m.port) \cup {"TXEN", "ACKIRQEN", "DTR"}) ELSE s
    IN  IF n = 7 /\ asked[m.port].op = "write" THEN Pulled(t) ELSE t

\* An answer that is not wanted ends the request after the byte has been sent; so does an
\* operation that does not exist, without sending one.
GivesUp(m, n, b) ==
    LET r == asked[m.port]
    IN  n > LastOp(r) \/ NewCardSeen(m, n, b) \/ b \notin Wanted(m, r, n)

\* The last operation takes the answer to its own byte too, except when only the card's state is asked.
GoodEnd(r, s) == r.op = "info" \/ Fifo(s) = GoodReadWrite
Emptied(r, s) == IF r.op = "info" THEN s ELSE Pulled(s)

\* reported: whether a success has been since the last VBlank, which takes the report back.
Goes(m, n, b, reported) ==
    LET p == m.port
        r == asked[p]
    IN  /\ mc' = [m EXCEPT !.op = n, !.active = IF n = 1 THEN 1 ELSE @,
                           !.sum = SumAfter(m, r, n, b), !.fast = FastAfter(m, r, n)]
        /\ imask' = 1 /\ success' = reported
        /\ UNCHANGED flags

\* The checksum and the counter, which the next request sets before it uses them, are cleared here.
Over(m) == [m EXCEPT !.active = 0, !.op = 0, !.skip = 0, !.fast = 0, !.count = 0, !.sum = Zero]

Ends(m, ok) ==
    /\ mc' = Over(m)
    /\ flags' = [flags EXCEPT ![m.port] = 1]
    /\ success' = ok
    /\ imask' = 0

Handle(m, reported) ==
    LET n == m.op + 1
        p == m.port
        r == asked[p]
        s == Selected(m, n)
        b == Fifo(s)
        t == IF n > LastOp(r) THEN s ELSE Exchange(s, Sent(m, r, n))
        filled == r.op = "read" /\ n = 12
    IN  /\ ireg' = 0
        /\ buffer' = IF filled THEN [buffer EXCEPT ![p][SectorSize] = b] ELSE buffer
        /\ IF GivesUp(m, n, b)
           THEN Ends(m, 0) /\ sio' = WriteCtrl(t, {})
           ELSE IF n < LastOp(r) THEN Goes(m, n, b, reported) /\ sio' = t
           ELSE /\ Ends(m, IF GoodEnd(r, t) THEN 1 ELSE 0)
                /\ sio' = WriteCtrl(Emptied(r, t), {})
        /\ UNCHANGED asked

\* mcVerifier, and the handler in the chain, where it is while the request is under way.
McHandler ==
    /\ stage = "idle" /\ mc.active = 1 /\ ireg = 1 /\ imask = 1 /\ mc.fast = 0
    /\ Handle(mc, success)
    /\ UNCHANGED stage

(***************************************************************************)
(* The exception handler's fast track: the bytes of the sector, but for    *)
(* the last one of a read.                                                 *)
(***************************************************************************)
FastByte(sent) ==
    /\ sio' = WriteByte(Pulled(sio), sent)
    /\ ireg' = 0
    /\ UNCHANGED <<imask, stage, asked, flags, success>>

\* Mutant: one byte too many.
Counted_Mutant(byte, last) ==
    mc' = [mc EXCEPT !.count = @ + 1, !.sum = SymDiff(@, byte),
                     !.fast = IF mc.count > last THEN 0 ELSE 1]
Counted(byte, last) ==
    mc' = [mc EXCEPT !.count = @ + 1, !.sum = SymDiff(@, byte),
                     !.fast = IF mc.count + 1 > last THEN 0 ELSE 1]

FastTrack == stage = "idle" /\ mc.fast = 1 /\ ireg = 1 /\ imask = 1

FastWrite ==
    LET byte == buffer[mc.port][mc.count + 1]
    IN  /\ FastTrack /\ flags[mc.port] = 4
        /\ FastByte(byte)
        /\ Counted(byte, SectorSize - 1)
        /\ UNCHANGED buffer

FastRead ==
    LET byte == Fifo(sio)
    IN  /\ FastTrack /\ flags[mc.port] = 2
        /\ FastByte(Zero)
        /\ Counted(byte, SectorSize - 2)
        /\ buffer' = [buffer EXCEPT ![mc.port][mc.count + 1] = byte]

(***************************************************************************)
(* The VBlank: sio0Handler polls the controllers of a program that has     *)
(* started them, then firstStageCardAction ends the request that is still  *)
(* under way or else turns to the other slot.                              *)
(***************************************************************************)
VBlank ==
    /\ stage = "idle"
    /\ stage' \in {"pad0", "card"}
    /\ UNCHANGED <<sio, ireg, imask, mc, asked, flags, buffer, success>>

\* The port after a byte of readPad; the interrupt it waits for before the next one has come.
PadByte(s, byte) == Pulled(WriteByte([s EXCEPT !.due = 0], byte))

\* readPad's first bytes, 01 42 00, as far as they are acknowledged in time.  A card that was
\* being talked to takes them for bytes of its command.
PadBytes(s) ==
    LET first == Pulled(WriteByte(s, PAD))
        second == PadByte(first, {1, 6})
        third == PadByte(second, Zero)
    IN  {first} \cup (IF first.due = 1 THEN {second} ELSE {})
                \cup (IF first.due = 1 /\ second.due = 1 THEN {third} ELSE {})

\* A controller answers, or stops answering, or answers late.
Polled(s) ==
    IF s.device = None THEN {[Pulled(WriteByte(s, PAD)) EXCEPT !.due = d] : d \in {0, 1}} ELSE PadBytes(s)

ReadPad(p) ==
    LET s == WriteCtrl(Pulled(WriteCtrl(sio, Mask(p) \cup {"DTR"})), Mask(p) \cup {"TXEN", "DTR", "ACKIRQEN"})
    IN  /\ stage = IF p = 0 THEN "pad0" ELSE "pad1"
        /\ stage' = IF p = 0 THEN "pad1" ELSE "card"
        /\ \E t \in Polled(s) : sio' = WriteCtrl(t, {})
        /\ ireg' = 0
        /\ UNCHANGED <<imask, mc, asked, flags, buffer, success>>

Abort ==
    /\ mc.active = 1
    /\ Ends(mc, 0)
    /\ sio' = WriteCtrl(WriteCtrl(WriteCtrl(sio, {}), {"IR"}), {})
    /\ ireg' = 0
    /\ UNCHANGED <<asked, buffer>>

\* Mutant: the slots do not take turns.
Flipped_Mutant == mc
Flipped == [mc EXCEPT !.port = 1 - @]
Started == [Flipped EXCEPT !.op = 0, !.fast = 0, !.count = 0]

PassOver ==
    /\ mc.active = 0 /\ ~Busy(Flipped.port)
    /\ mc' = Flipped /\ success' = 0
    /\ UNCHANGED <<sio, ireg, imask, asked, flags, buffer>>

Start ==
    /\ mc.active = 0 /\ Busy(Flipped.port)
    /\ Handle(Started, 0)

FirstStage ==
    /\ stage = "card" /\ stage' = "idle"
    /\ Abort \/ PassOver \/ Start

(***************************************************************************)
(* The hardware and the user.                                              *)
(***************************************************************************)
Interrupt ==
    /\ sio.due = 1
    /\ sio' = [sio EXCEPT !.due = 0]
    /\ ireg' = 1
    /\ UNCHANGED <<imask, stage, mc, asked, flags, buffer, success>>

Insert ==
    /\ \E p \in Removable : sio' = [sio EXCEPT !.inserted[p] = 1 - @]
    /\ UNCHANGED <<ireg, imask, stage, mc, asked, flags, buffer, success>>

Next ==
    \/ \E p \in Slots : Ask(p) \/ ReadPad(p)
    \/ AllowNewCard \/ McHandler \/ FastWrite \/ FastRead
    \/ VBlank \/ FirstStage \/ Interrupt \/ Insert

Spec == Init /\ [][Next]_vars

\* VBlanks come and their handler, which nothing in it makes wait for ever, ends; nothing is assumed
\* of the program, the cards or their interrupts.
FairSpec == Spec /\ WF_vars(VBlank) /\ []<>(stage = "idle")

-----------------------------------------------------------------------------
Store == INSTANCE CardStore WITH
    Held <- Sector,
    store <- [p \in Slots |-> sio.card[p].mcd],
    open <- [p \in Slots |-> IF Busy(p) THEN 1 ELSE 0]

(* A sector is written whole or not at all, whatever controllers are polled, *)
(* cards removed and requests made of the other slot meanwhile, and a        *)
(* request that reports success has done what it asked (card.c, driver.c,    *)
(* memorycard.cc).                                                           *)
StoreSafe == Store!Spec

(* Every request is ended, by its last byte, by an answer nobody wanted or   *)
(* by a VBlank, so that waitCardStatus returns.                              *)
RequestsEnd == \A p \in Slots : Busy(p) ~> ~Busy(p)

(* The driver reads one answer for every byte it sends, so that what it      *)
(* compares is the answer to the byte it means: never more than one waits,   *)
(* whatever polls come between.  The rest are types.                         *)
TypeOK ==
    /\ sio.ctrl \subseteq {"TXEN", "DTR", "ACKIRQEN", "PORTSEL", "IR"}
    /\ sio.device \in {None, PAD, Access, Ignore}
    /\ sio.fifo \in Seq(Byte) /\ Len(sio.fifo) <= 1 /\ sio.waits \in {<< >>}
    /\ {sio.due, ireg, imask, success} \subseteq {0, 1}
    /\ stage \in Stages
    /\ mc.active \in {0, 1} /\ mc.port \in Slots /\ mc.op \in 0 .. 12
    /\ mc.fast = 1 /\ mc.active = 1 => mc.count < SectorSize
    /\ \A p \in Slots : flags[p] \in {0, 1, 2, 4}
=============================================================================
