----------------------------- MODULE MemoryCard -----------------------------
(***************************************************************************)
(* A memory card (core/memorycard.cc): what it answers to each byte, and   *)
(* what it keeps.  A byte is the set of its bits that are 1, so that XOR   *)
(* is the symmetric difference; a sector's number is <<msb, lsb>>.  A      *)
(* sector has SectorSize bytes, 128 or fewer.  The PocketStation's         *)
(* commands, which are off by default, and the file behind the card,       *)
(* written after every byte that changed it, are left out.                 *)
(***************************************************************************)
EXTENDS Integers, Sequences, FiniteSetsExt

CONSTANTS
    SectorSize,     \* c_sectorSize; at most 128, so that TickWrite's 255 lies beyond a sector
    Values          \* the bytes that are stored

CardAssumption == SectorSize \in 2 .. 128 /\ Values \subseteq SUBSET (0 .. 7)

Byte == SUBSET (0 .. 7)
Data == [1 .. SectorSize -> Values]

Zero == {}                      \* 00, Commands::None and Responses::Dummy
IdleHighZ == 0 .. 7             \* ff, BadSector, Commands::Error
Access == {0, 7}                \* 81
Read == {1, 4, 6}               \* 52
Write == {0, 1, 2, 4, 6}        \* 57
ID1 == {1, 3, 4, 6}             \* 5a
ID2 == {0, 2, 3, 4, 6}          \* 5d, CommandAcknowledge2
Acknowledge1 == {2, 3, 4, 6}    \* 5c
GoodReadWrite == {0, 1, 2, 6}   \* 47
BadChecksum == {1, 2, 3, 6}     \* 4e
DirectoryUnread == {3}          \* 08
DirectoryRead == {}             \* 00

\* m_sector < 1024
Exists(sector) == sector[1] \subseteq {0, 1}

NewCard(mcd) ==
    [mcd |-> mcd, temp |-> << >>, command |-> Zero, ticks |-> 0, sector |-> <<Zero, Zero>>,
     spdr |-> IdleHighZ, sum |-> Zero, flag |-> DirectoryUnread]

\* m_checksumOut, which the next command sets before it uses it, is cleared here too.
Deselect(c) ==
    [c EXCEPT !.temp = << >>, !.command = Zero, !.ticks = 0, !.sector = <<Zero, Zero>>, !.spdr = IdleHighZ,
             !.sum = Zero]

\* What a sector holds: a card is blank where nothing has been stored.
Sector(mcd, sector) ==
    IF ~Exists(sector) THEN [i \in 1 .. SectorSize |-> IdleHighZ]
    ELSE IF sector \in DOMAIN mcd THEN mcd[sector] ELSE [i \in 1 .. SectorSize |-> Zero]

Stored(mcd, sector, data) ==
    [s \in DOMAIN mcd \cup {sector} |-> IF s = sector THEN data ELSE mcd[s]]

(***************************************************************************)
(* One byte of a command: the card after it, and whether it acknowledges.  *)
(* What it answers, in spdr, is sent with the byte that follows.           *)
(***************************************************************************)
Answer(c, byte) == [card |-> [c EXCEPT !.ticks = @ + 1, !.spdr = byte], ack |-> 1]
Refuse(c, byte) == [card |-> [c EXCEPT !.spdr = byte], ack |-> 0]

TickRead(c, value) ==
    LET t == c.ticks
        next == IF t \in 8 .. 7 + SectorSize THEN Sector(c.mcd, c.sector)[t - 7] ELSE Zero
    IN  CASE t = 0 -> Answer(c, ID1)
          [] t = 1 -> Answer(c, ID2)
          [] t = 2 -> Answer(c, Zero)
          [] t = 3 -> Answer([c EXCEPT !.sector = <<value, Zero>>], value)
          [] t = 4 -> Answer([c EXCEPT !.sector[2] = value], Acknowledge1)
          [] t = 5 -> Answer(c, ID2)
          [] t = 6 -> Answer(c, c.sector[1])
          [] t = 7 -> Answer([c EXCEPT !.sum = SymDiff(c.sector[1], c.sector[2])], c.sector[2])
          [] t \in 8 .. 7 + SectorSize -> Answer([c EXCEPT !.sum = SymDiff(@, next)], next)
          [] t = 8 + SectorSize -> Answer(c, c.sum)
          [] t = 9 + SectorSize -> Answer(c, GoodReadWrite)
          [] OTHER -> Refuse(c, Acknowledge1)

\* The sector is checked when its checksum arrives and stored two bytes later, case 135.
\* Mutant: one byte early.
StoreTick_Mutant == 6 + SectorSize
StoreTick == 7 + SectorSize
Kept(c, t) ==
    IF t = StoreTick THEN [c EXCEPT !.mcd = Stored(@, c.sector, c.temp), !.flag = DirectoryRead] ELSE c

TickWrite(c, value) ==
    LET t == c.ticks
    IN  CASE t = 0 -> Answer(c, ID1)
          [] t = 1 -> Answer(c, ID2)
          [] t = 2 -> Answer(c, Zero)
          [] t = 3 -> Answer([c EXCEPT !.sector = <<value, Zero>>], value)
          [] t = 4 -> Answer([c EXCEPT !.sector[2] = value, !.sum = SymDiff(c.sector[1], value)], value)
          [] t \in 5 .. 4 + SectorSize ->
                Answer([c EXCEPT !.temp = Append(@, value), !.sum = SymDiff(@, value)], value)
          [] t = 5 + SectorSize ->
                IF ~Exists(c.sector) THEN Refuse([c EXCEPT !.ticks = 255], IdleHighZ)
                ELSE IF value # c.sum THEN Refuse([c EXCEPT !.ticks = 255], BadChecksum)
                ELSE Answer(c, Acknowledge1)
          [] t = 6 + SectorSize -> Answer(Kept(c, t), ID2)
          [] t = 7 + SectorSize -> Answer(Kept(c, t), GoodReadWrite)
          [] OTHER -> Refuse(c, Acknowledge1)

\* A command is taken while there is none or only Access; it then stays until the card is deselected.
Commanded(c, value) ==
    IF c.command \in {Zero, Access} THEN [c EXCEPT !.command = value] ELSE c

\* A byte comes in while the answer to the previous one, c.spdr, goes out.
Transceive(c, value) ==
    LET d == Commanded(c, value)
    IN  CASE d.command = Access -> [card |-> [d EXCEPT !.spdr = d.flag], ack |-> 1]
          [] d.command = Read -> TickRead(d, value)
          [] d.command = Write -> TickWrite(d, value)
          [] OTHER -> Refuse(d, IdleHighZ)
=============================================================================
