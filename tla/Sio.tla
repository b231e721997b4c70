-------------------------------- MODULE Sio --------------------------------
(***************************************************************************)
(* The serial port of the controllers and memory cards (core/sio.cc), as   *)
(* operators on a record:                                                  *)
(*   ctrl    the bits of the control register that are set                 *)
(*   fifo    m_rxFIFO                                                      *)
(*   device  m_currentDevice                                               *)
(*   waits   the bytes, none or one, written while TXEN is off             *)
(*   due     1 while PSXINT_SIO is scheduled                               *)
(*   card, inserted   the two memory cards and their settings              *)
(* The interrupts on reception and transmission, which no program of the   *)
(* repository turns on, are left out, and the answers of a controller.     *)
(***************************************************************************)
EXTENDS MemoryCard

None == Zero
PAD == {0}
Ignore == IdleHighZ
FifoSize == 8

Port(s) == IF "PORTSEL" \in s.ctrl THEN 1 ELSE 0

NewSio(mcds, inserted) ==
    [ctrl |-> {}, fifo |-> << >>, device |-> None, waits |-> << >>, due |-> 0,
     card |-> [p \in {0, 1} |-> NewCard(mcds[p])], inserted |-> inserted]

\* A full FIFO loses its newest byte.
Push(s, byte) ==
    [s EXCEPT !.fifo = IF Len(@) < FifoSize THEN Append(@, byte) ELSE [@ EXCEPT ![FifoSize] = byte]]

\* read8: the byte, and the port after it.
Fifo(s) == IF s.fifo = << >> THEN IdleHighZ ELSE Head(s.fifo)
Pulled(s) == IF s.fifo = << >> THEN s ELSE [s EXCEPT !.fifo = Tail(@)]

Acknowledge(s) == IF {"TXEN", "ACKIRQEN"} \subseteq s.ctrl THEN [s EXCEPT !.due = 1] ELSE s

Deselected(s) == [s EXCEPT !.device = None, !.card = [p \in {0, 1} |-> Deselect(s.card[p])]]

ToCard(s, value) ==
    LET p == Port(s)
        a == Transceive(s.card[p], value)
        t == [s EXCEPT !.card[p] = a.card]
    IN  IF s.inserted[p] = 1
        THEN Push(IF a.ack = 1 THEN Acknowledge(t) ELSE t, s.card[p].spdr)
        ELSE Push([s EXCEPT !.card[p] = Deselect([@ EXCEPT !.flag = DirectoryUnread]), !.device = Ignore],
                  IdleHighZ)

Transmit(s, value) ==
    LET device == IF s.device = None THEN value ELSE s.device
        t == [s EXCEPT !.device = device, !.waits = << >>]
    IN  CASE device = Access -> ToCard(t, value)
          [] device \in {PAD, Ignore} -> Push(t, IdleHighZ)
          [] OTHER -> Push(Deselected(t), IdleHighZ)

WriteByte(s, value) ==
    IF "TXEN" \in s.ctrl THEN Transmit(s, value) ELSE [s EXCEPT !.waits = <<value>>]

(***************************************************************************)
(* writeCtrl16.  Selecting port 2 after port 1 does not deselect, the      *)
(* other way round does.  ERRRES only touches the status register.         *)
(***************************************************************************)
Leaves(s, ctrl) == \E bit \in {"DTR", "PORTSEL"} : bit \in s.ctrl /\ bit \notin ctrl

Restarted(s) == [Deselected(s) EXCEPT !.fifo = << >>, !.waits = << >>, !.due = 0]

WriteCtrl(s, ctrl) ==
    LET t == [s EXCEPT !.ctrl = ctrl]
        u == IF Leaves(s, ctrl) THEN Deselected(t) ELSE t
        v == IF "IR" \in ctrl THEN Restarted(u) ELSE u
    IN  IF v.waits # << >> /\ "TXEN" \notin s.ctrl /\ "TXEN" \in ctrl
        THEN Transmit(v, Head(v.waits)) ELSE v
=============================================================================
