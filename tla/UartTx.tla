------------------------------- MODULE UartTx -------------------------------
(***************************************************************************)
(* The transmit path of machine.UART (machine_uart.c): write() queues      *)
(* bytes in write_buffer, uart_fill_tx_fifo moves them to the hardware     *)
(* FIFO, and the one-shot FIFO-empty interrupt (ETBEI) moves the rest and  *)
(* clears tx_busy, which is what txdone() and flush() report.              *)
(*                                                                         *)
(* write() holds the GIL throughout, so there is one writer; the interrupt *)
(* falls between any two of its steps, is itself one step, and is taken    *)
(* before the writer goes on.  Bytes are numbered in the order in which    *)
(* Python wrote them; ringbuf_get on an empty buffer returns -1, which     *)
(* serial_putc sends as 0xFF, here Junk.  The FIFO, the interrupt enable   *)
(* bit and ringbuf_t are external, taken from how this file uses them.     *)
(* The file says both that ETBEI enabled on an empty FIFO interrupts at    *)
(* once (lines 590-593) and that it never does (lines 497-501): the        *)
(* variable level chooses.                                                 *)
(***************************************************************************)
EXTENDS Naturals, Sequences, SequencesExt, FiniteSetsExt

CONSTANTS
  TxBuf,          \* capacity of write_buffer (self->txbuf_len)
  FifoSize,       \* capacity of the hardware FIFO
  MaxBytes        \* bound on the bytes written altogether

ASSUME UartTxAssumption ==
  TxBuf \in Nat \ {0} /\ FifoSize \in Nat \ {0} /\ MaxBytes \in Nat

Junk == 0

VARIABLES
  wb,       \* write_buffer
  fifo,     \* the hardware FIFO
  wire,     \* the bytes that left the FIFO, in order
  busy,     \* tx_busy
  armed,    \* ETBEI is enabled
  pending,  \* the FIFO ran empty while ETBEI was enabled
  pc,       \* where the writer is
  last,     \* number of the last byte put into write_buffer
  goal,     \* number of the last byte of the current write()
  held,     \* the byte between ringbuf_get and serial_putc
  waits,    \* fixed: the program calls write() only when txdone() is true
  most,     \* fixed: the size of its longest write()
  level     \* fixed: ETBEI enabled on an empty FIFO interrupts

uartVars == <<wb, fifo, wire, busy, armed, pending, pc, last, goal, held>>
fixed == <<waits, most, level>>
vars == <<uartVars, fixed>>
hw   == <<fifo, wire, armed, pending>>

(* Writes that fit into write_buffer, and the longest that surely return.  *)
Longest == 2 * TxBuf + FifoSize - 1

TypeOK ==
  /\ wb \in Seq(Nat) /\ Len(wb) <= TxBuf
  /\ fifo \in Seq(Nat) /\ Len(fifo) <= FifoSize
  /\ wire \in Seq(Nat)
  /\ busy \in BOOLEAN /\ armed \in BOOLEAN /\ pending \in BOOLEAN
  /\ pc \in {"idle", "queue", "busy", "test", "get", "put", "arm", "more"}
  /\ last \in Nat /\ goal \in Nat /\ held \in Nat
  /\ waits \in BOOLEAN /\ most \in {TxBuf, Longest} /\ level \in BOOLEAN

Init ==
  /\ wb = <<>> /\ fifo = <<>> /\ wire = <<>>
  /\ busy = FALSE /\ armed = FALSE /\ pending = FALSE
  /\ pc = "idle" /\ last = 0 /\ goal = 0 /\ held = Junk
  /\ waits \in BOOLEAN /\ most \in {TxBuf, Longest} /\ level \in BOOLEAN

(* Mutant: the extra slot of the ring buffer is subtracted twice.          *)
RoomShort == Len(wb) + 1 < TxBuf

Room     == Len(wb) < TxBuf
Writable == Len(fifo) < FifoSize

-----------------------------------------------------------------------------
(* mp_machine_uart_write.                                                  *)
WriteEnter ==
  /\ pc = "idle" /\ (waits => ~busy)
  /\ \E n \in 1 .. most : last + n <= MaxBytes /\ goal' = last + n
  /\ pc' = "queue"
  /\ UNCHANGED <<wb, busy, last, held>> /\ UNCHANGED hw

(* ringbuf_put of the next byte of the buffer                              *)
Put == wb' = Append(wb, last + 1) /\ last' = last + 1

Queue ==
  /\ pc = "queue"
  /\ IF last < goal /\ Room THEN Put /\ UNCHANGED pc
                            ELSE pc' = "busy" /\ UNCHANGED <<wb, last>>
  /\ UNCHANGED <<busy, goal, held>> /\ UNCHANGED hw

SetBusy ==
  /\ pc = "busy" /\ busy' = TRUE /\ pc' = "test"
  /\ UNCHANGED <<wb, last, goal, held>> /\ UNCHANGED hw

(* The loop that waits for room at the end of each round of write().       *)
Feed ==
  /\ pc = "more" /\ last < goal /\ Room
  /\ Put /\ pc' = "test"
  /\ UNCHANGED <<busy, goal, held>> /\ UNCHANGED hw

WriteReturn ==
  /\ pc = "more" /\ last = goal /\ pc' = "idle"
  /\ UNCHANGED <<wb, busy, last, goal, held>> /\ UNCHANGED hw

-----------------------------------------------------------------------------
(* uart_fill_tx_fifo, called by write(): test, ringbuf_get and serial_putc *)
(* are steps between which the interrupt may run.                          *)
FillTest ==
  /\ pc = "test"
  /\ pc' = IF Writable /\ wb # <<>> THEN "get" ELSE "arm"
  /\ UNCHANGED <<wb, busy, last, goal, held>> /\ UNCHANGED hw

FillGet ==
  /\ pc = "get" /\ pc' = "put"
  /\ IF wb = <<>> THEN held' = Junk /\ UNCHANGED wb
                  ELSE held' = Head(wb) /\ wb' = Tail(wb)
  /\ UNCHANGED <<busy, last, goal>> /\ UNCHANGED hw

(* serial_putc waits for room in the FIFO                                  *)
FillPut ==
  /\ pc = "put" /\ Writable /\ pc' = "test"
  /\ fifo' = Append(fifo, held)
  /\ UNCHANGED <<wb, wire, busy, armed, pending, last, goal, held>>

Arms == busy

FillArm ==
  /\ pc = "arm" /\ pc' = "more"
  /\ armed' = (armed \/ Arms)
  /\ UNCHANGED <<wb, fifo, wire, busy, pending, last, goal, held>>

-----------------------------------------------------------------------------
(* The hardware shifts out the oldest byte of the FIFO.                    *)
Shift ==
  /\ fifo # <<>>
  /\ wire' = Append(wire, Head(fifo)) /\ fifo' = Tail(fifo)
  /\ pending' = (pending \/ (armed /\ Tail(fifo) = <<>>))
  /\ UNCHANGED <<wb, busy, armed, pc, last, goal, held>>

Interrupts == armed /\ (pending \/ (level /\ fifo = <<>>))

(* Mutant: the last byte moved stays in write_buffer.                      *)
FillRepeats ==
  LET n == Min({FifoSize - Len(fifo), Len(wb)})
  IN  /\ fifo' = fifo \o SubSeq(wb, 1, n)
      /\ wb' = SubSeq(wb, n, Len(wb))
      /\ armed' = Arms

(* uart_fill_tx_fifo in the interrupt: nothing runs in between.            *)
FillInIrq ==
  LET n == Min({FifoSize - Len(fifo), Len(wb)})
  IN  /\ fifo' = fifo \o SubSeq(wb, 1, n)
      /\ wb' = SubSeq(wb, n + 1, Len(wb))
      /\ armed' = Arms

(* Mutant: write_buffer counts as drained when the rest fits in the FIFO.  *)
FinishedEarly == Len(wb) < FifoSize

Finished == wb = <<>>

(* The TxIrq branch of machine_uart_irq_handler; the SDK has disabled      *)
(* ETBEI before the call.                                                  *)
TxIrq ==
  /\ Interrupts
  /\ IF Finished THEN busy' = FALSE /\ armed' = FALSE /\ UNCHANGED <<wb, fifo>>
                 ELSE FillInIrq /\ UNCHANGED busy
  /\ pending' = FALSE
  /\ UNCHANGED <<wire, pc, last, goal, held>>

-----------------------------------------------------------------------------
(* deinit() followed by a new UART(id), or a re-init: the buffer indices   *)
(* start at zero and serial_init resets the peripheral.  Bytes are then    *)
(* counted from the start again.                                           *)
Reinit ==
  /\ pc = "idle" /\ last > 0
  /\ wb' = <<>> /\ fifo' = <<>> /\ wire' = <<>>
  /\ busy' = FALSE /\ armed' = FALSE /\ pending' = FALSE
  /\ last' = 0 /\ goal' = 0 /\ held' = Junk
  /\ UNCHANGED pc

Write == WriteEnter \/ Queue \/ SetBusy \/ Feed \/ WriteReturn
Fill  == FillTest \/ FillGet \/ FillPut \/ FillArm

(* An interrupt that is due is taken before the thread runs again.         *)
Thread == ~Interrupts /\ (Write \/ Fill \/ Reinit)

Step == Thread \/ Shift \/ TxIrq

Next == Step /\ UNCHANGED fixed

Spec == Init /\ [][Next]_vars

(* The writer keeps running once it is in write(), the hardware shifts     *)
(* bytes out and interrupts are taken.  Nothing obliges the program to     *)
(* call write() or init() again.                                           *)
Fairness ==
  /\ WF_uartVars(~Interrupts /\ (Queue \/ SetBusy \/ Feed \/ WriteReturn \/ Fill))
  /\ WF_uartVars(Shift) /\ WF_uartVars(TxIrq)

FairSpec == Spec /\ Fairness

-----------------------------------------------------------------------------
(* Excluded below: a write() while the bytes of an earlier one are on      *)
(* their way (the interrupt and write() then both take bytes from          *)
(* write_buffer), and one longer than write_buffer (the interrupt may      *)
(* clear tx_busy in the middle of it).                                     *)
Apart == waits /\ most <= TxBuf

(* The state is well typed, no buffer overflows, and the bytes leave the   *)
(* pin in the order in which they were written, none lost, doubled or      *)
(* invented: with those in the FIFO, in flight in the writer and in        *)
(* write_buffer they are 1, 2, ..., last.  txdone() is true outside        *)
(* write() only when write_buffer and the FIFO are both empty              *)
(* (mp_machine_uart_txdone, the comment on tx_busy).                       *)
InOrder ==
  LET inHand == IF pc = "put" THEN <<held>> ELSE <<>>
  IN  /\ TypeOK
      /\ Apart => wire \o fifo \o inHand \o wb = [i \in 1 .. last |-> i]
      /\ Apart /\ pc = "idle" /\ ~busy => wb = <<>> /\ fifo = <<>>

(* mp_machine_uart_write returns: room always frees up for the rest of the *)
(* buffer, for all writes of up to 2 * txbuf + FIFO - 1 bytes; and flush() *)
(* succeeds: tx_busy is eventually cleared.  If ETBEI enabled on an empty  *)
(* FIFO did not interrupt, neither would hold: the FIFO may run empty      *)
(* between the last serial_putc and line 182.                              *)
WriteReturns == level => (pc # "idle" ~> pc = "idle") /\ ((Apart /\ busy) ~> ~busy)

Channel == INSTANCE ByteChannel
             WITH accepted <- last, sent <- wire, done <- (pc = "idle" /\ ~busy), kept <- Apart

(* The UART is the channel of ByteChannel: write(), the FIFO and the       *)
(* interrupt together deliver each byte once and in order, and txdone()    *)
(* becomes true only when the last byte has left the pin, and stays true   *)
(* until the next write().                                                 *)
ImplementsChannel == Channel!ChannelSpec
=============================================================================
