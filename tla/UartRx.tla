------------------------------- MODULE UartRx -------------------------------
(***************************************************************************)
(* Reception and life cycle of machine.UART (machine_uart.c): the RxIrq    *)
(* branch of the interrupt handler, read(), any(), init and re-init,       *)
(* deinit(), irq(), and machine_uart_deinit_all before the heap is swept.  *)
(*                                                                         *)
(* The UART object is a static table entry that the collector does not     *)
(* scan; the ring buffer and the irq object it points to are heap objects, *)
(* and live is the set of those that have not been freed.  The peer sends  *)
(* numbered bytes and breaks; a break leaves a spurious zero byte (Brk) in *)
(* the receive FIFO.  Python code runs under the GIL, the interrupt        *)
(* between any two steps.                                                  *)
(***************************************************************************)
EXTENDS Naturals, Sequences, SequencesExt, FiniteSets

CONSTANTS
  Bufs,      \* heap blocks that can back read_buffer
  Irqs,      \* heap blocks that can hold an mp_irq_obj_t
  Nil,       \* the null pointer
  RxBuf,     \* capacity of read_buffer (self->rxbuf_len)
  MaxSent,   \* bound on the bytes the peer sends
  MaxRead    \* bound on the size of one read()

ASSUME UartRxAssumption ==
  /\ Nil \notin Bufs \cup Irqs /\ Bufs \cap Irqs = {}
  /\ RxBuf \in Nat \ {0} /\ MaxSent \in Nat /\ MaxRead \in Nat \ {0}

Brk == 0
Triggers == {"RX", "BREAK"}

VARIABLES
  inited,   \* initialized
  rxon,     \* RxIrq is enabled
  rbuf,     \* read_buffer.buf, also the root machine_uart_rxbuf[id]
  rb,       \* the bytes in read_buffer
  irq,      \* mp_irq_obj
  trig,     \* mp_irq_trigger
  kept,     \* irq objects that Python variables refer to
  live,     \* heap blocks that have not been freed
  fresh,    \* the block init_helper has allocated and not yet switched to
  rxfifo,   \* the receive FIFO
  sent,     \* number of bytes sent by the peer
  pc,       \* where the Python program is
  got,      \* the bytes read by the current read()
  want,     \* how many more it wants
  taken,    \* the last byte handed to Python by any read()
  dropped,  \* history: a byte found read_buffer full since the last init
  fault,    \* the interrupt has used a freed block
  masked,   \* fixed: interrupts may be off for longer than a character takes
  forgets   \* fixed: the program may drop the object that irq() returns

fixed == <<masked, forgets>>
vars == <<inited, rxon, rbuf, rb, irq, trig, kept, live, fresh, rxfifo, sent,
          pc, got, want, taken, dropped, fault, fixed>>
obj  == <<inited, rxon, rbuf, irq, trig, kept, live, fresh>>
line == <<rxfifo, sent>>
call == <<got, want, taken, dropped>>

TypeOK ==
  /\ inited \in BOOLEAN /\ rxon \in BOOLEAN /\ dropped \in BOOLEAN /\ fault \in BOOLEAN
  /\ masked \in BOOLEAN /\ forgets \in BOOLEAN
  /\ rbuf \in Bufs \cup {Nil} /\ fresh \in Bufs \cup {Nil}
  /\ irq \in Irqs \cup {Nil} /\ trig \subseteq Triggers
  /\ kept \subseteq Irqs /\ live \subseteq Bufs \cup Irqs
  /\ rb \in Seq(0 .. MaxSent) /\ Len(rb) <= RxBuf /\ rxfifo \in Seq(0 .. MaxSent)
  /\ sent \in 0 .. MaxSent /\ taken \in 0 .. MaxSent
  /\ pc \in {"idle", "alloc", "apply", "read", "swept"}
  /\ got \in Seq(0 .. MaxSent) /\ want \in 0 .. MaxRead

Init ==
  /\ inited = FALSE /\ rxon = FALSE /\ dropped = FALSE /\ fault = FALSE
  /\ masked \in BOOLEAN /\ forgets \in BOOLEAN
  /\ rbuf = Nil /\ fresh = Nil /\ irq = Nil /\ trig = {} /\ kept = {} /\ live = {}
  /\ rb = <<>> /\ rxfifo = <<>> /\ sent = 0
  /\ pc = "idle" /\ got = <<>> /\ want = 0 /\ taken = 0

-----------------------------------------------------------------------------
(* The peer.  The receiver is only connected while the UART is set up.  A  *)
(* break raises a line-status interrupt at once, so unless interrupts are  *)
(* masked nothing arrives behind it before the handler has run.            *)
Arrives == inited /\ rxon /\ (masked \/ ~Contains(rxfifo, Brk))

Receive ==
  /\ Arrives /\ sent < MaxSent
  /\ sent' = sent + 1 /\ rxfifo' = Append(rxfifo, sent + 1)
  /\ UNCHANGED <<rb, pc, fault>> /\ UNCHANGED obj /\ UNCHANGED call

Break ==
  /\ Arrives /\ ~Contains(rxfifo, Brk)
  /\ rxfifo' = Append(rxfifo, Brk)
  /\ UNCHANGED <<rb, sent, pc, fault>> /\ UNCHANGED obj /\ UNCHANGED call

(* What the drained batch adds to read_buffer: the last byte is held back  *)
(* and dropped when the line-status register reports a break.              *)
Enqueues(items) == IF Contains(items, Brk) THEN Front(items) ELSE items

(* ringbuf_put drops a byte that does not fit                              *)
Puts(s, new) ==
  LET all == s \o new IN IF Len(all) <= RxBuf THEN all ELSE SubSeq(all, 1, RxBuf)

Flags(items) ==
  (IF Enqueues(items) # <<>> THEN {"RX"} ELSE {}) \cup
  (IF Contains(items, Brk) THEN {"BREAK"} ELSE {})

(* The RxIrq branch of machine_uart_irq_handler.                           *)
RxIrq ==
  /\ rxon /\ rxfifo # <<>>
  /\ rb' = Puts(rb, Enqueues(rxfifo))
  /\ rxfifo' = <<>>
  /\ fault' = (\/ fault
               \/ rbuf \notin live
               \/ Flags(rxfifo) \cap trig # {} /\ irq # Nil /\ irq \notin live)
  /\ dropped' = (dropped \/ Len(rb) + Len(Enqueues(rxfifo)) > RxBuf)
  /\ UNCHANGED <<sent, pc, got, want, taken>> /\ UNCHANGED obj

-----------------------------------------------------------------------------
(* mp_machine_uart_init_helper, called by the constructor and by init().   *)
(* The arguments are checked and stored in fields that only set the line   *)
(* parameters and the buffer sizes; a check that raises ends the call.     *)
InitArgs ==
  /\ pc = "idle" /\ pc' = "alloc"
  /\ UNCHANGED <<rb, fault>> /\ UNCHANGED obj /\ UNCHANGED line /\ UNCHANGED call

(* Blocks that survive a collection: the rooted buffer, the one init has   *)
(* on its stack, and what Python variables refer to.  mp_irq_obj is in the *)
(* static object and is not a root.                                        *)
Survivors == {rbuf, fresh} \cup kept

Alloc == \E b \in Bufs \ live : fresh' = b /\ live' = live \cup {b}

InitAlloc ==
  /\ pc = "alloc"
  /\ \/ Alloc /\ pc' = "apply"
     \/ pc' = "idle" /\ UNCHANGED <<fresh, live>>
  /\ UNCHANGED <<inited, rxon, rbuf, irq, trig, kept>>
  /\ UNCHANGED <<rb, fault>> /\ UNCHANGED line /\ UNCHANGED call

RegistrationAfterInit ==
  IF inited THEN irq' = Nil /\ trig' = {} ELSE UNCHANGED <<irq, trig>>

(* From the tear-down of the old configuration on, RxIrq is off until the  *)
(* last line, so nothing interferes.  Bytes are counted from here on.      *)
InitApply ==
  /\ pc = "apply" /\ pc' = "idle"
  /\ rbuf' = fresh /\ fresh' = Nil /\ rb' = <<>>
  /\ RegistrationAfterInit
  /\ inited' = TRUE /\ rxon' = TRUE
  /\ rxfifo' = <<>> /\ taken' = sent /\ dropped' = FALSE
  /\ UNCHANGED <<kept, live, sent, got, want, fault>>

(* mp_machine_uart_deinit                                                  *)
Deinit ==
  /\ pc = "idle"
  /\ inited' = FALSE /\ rxon' = FALSE /\ irq' = Nil /\ trig' = {}
  /\ rxfifo' = <<>>
  /\ UNCHANGED <<rbuf, kept, live, fresh, rb, sent, pc, fault>> /\ UNCHANGED call

(* mp_machine_uart_irq with a handler and a trigger, or with none of them. *)
(* The returned object is what the program may keep.                       *)
Irq ==
  /\ pc = "idle" /\ rbuf # Nil
  /\ \/ \E i \in Irqs \ live, t \in SUBSET Triggers :
          /\ t # {} /\ irq' = i /\ trig' = t
          /\ live' = live \cup {i} /\ kept' = kept \cup {i}
     \/ irq' = Nil /\ trig' = (IF irq = Nil THEN trig ELSE {}) /\ UNCHANGED <<live, kept>>
  /\ UNCHANGED <<inited, rxon, rbuf, fresh, rb, pc, fault>>
  /\ UNCHANGED line /\ UNCHANGED call

(* machine_uart_irq_trigger, called on an irq object Python holds          *)
IrqTrigger ==
  /\ pc = "idle" /\ kept # {}
  /\ trig' \in SUBSET Triggers
  /\ UNCHANGED <<inited, rxon, rbuf, irq, kept, live, fresh, rb, pc, fault>>
  /\ UNCHANGED line /\ UNCHANGED call

(* The program forgets an irq object, at any time or, if it is careful,    *)
(* once it is no longer registered.                                        *)
Forget ==
  /\ pc = "idle"
  /\ \E i \in kept : (forgets \/ i # irq) /\ kept' = kept \ {i}
  /\ UNCHANGED <<inited, rxon, rbuf, irq, trig, live, fresh, rb, pc, fault>>
  /\ UNCHANGED line /\ UNCHANGED call

(* gc_collect                                                              *)
Collect ==
  /\ pc # "swept" /\ live' = live \cap Survivors
  /\ UNCHANGED <<inited, rxon, rbuf, irq, trig, kept, fresh, rb, pc, fault>>
  /\ UNCHANGED line /\ UNCHANGED call

-----------------------------------------------------------------------------
(* Mutant: the soft reset leaves the receive interrupt on.                 *)
SilencedNot == UNCHANGED <<rxon, rxfifo>>

Silenced == rxon' = FALSE /\ rxfifo' = <<>>

(* The soft reset: machine_uart_deinit_all, then gc_sweep_all.             *)
DeinitAll ==
  /\ pc = "idle" /\ pc' = "swept"
  /\ inited' = FALSE /\ Silenced /\ irq' = Nil /\ trig' = {}
  /\ rbuf' = Nil /\ rb' = <<>>
  /\ UNCHANGED <<kept, live, fresh, sent, fault>> /\ UNCHANGED call

SweepAll ==
  /\ pc = "swept" /\ pc' = "idle"
  /\ live' = {} /\ kept' = {}
  /\ UNCHANGED <<inited, rxon, rbuf, irq, trig, fresh, rb, fault>>
  /\ UNCHANGED line /\ UNCHANGED call

-----------------------------------------------------------------------------
(* mp_machine_uart_read                                                    *)
ReadEnter ==
  /\ pc = "idle" /\ rbuf # Nil /\ pc' = "read"
  /\ got' = <<>> /\ want' \in 1 .. MaxRead
  /\ UNCHANGED <<rb, taken, dropped, fault>> /\ UNCHANGED obj /\ UNCHANGED line

ReadByte ==
  /\ pc = "read" /\ want > 0 /\ rb # <<>>
  /\ got' = Append(got, Head(rb)) /\ rb' = Tail(rb) /\ want' = want - 1
  /\ UNCHANGED <<taken, dropped, pc, fault>> /\ UNCHANGED obj /\ UNCHANGED line

(* Mutant: a timeout in the middle of a read() reports EAGAIN, not the     *)
(* bytes.                                                                  *)
ReturnedOnTimeout(s) == <<>>

Returned(s) == s

(* All bytes are there, or none came within timeout / timeout_char: the    *)
(* bytes read so far are returned, EAGAIN when there are none.             *)
ReadReturn ==
  /\ pc = "read" /\ (want = 0 \/ rb = <<>>) /\ pc' = "idle"
  /\ taken' = IF Returned(got) = <<>> THEN taken ELSE Last(got)
  /\ want' = 0 /\ got' = <<>>
  /\ UNCHANGED <<rb, dropped, fault>> /\ UNCHANGED obj /\ UNCHANGED line

Peer   == Receive \/ Break
Setup  == InitArgs \/ InitAlloc \/ InitApply \/ Deinit \/ DeinitAll \/ SweepAll
Python == Irq \/ IrqTrigger \/ Forget \/ Collect \/ ReadEnter \/ ReadByte \/ ReadReturn

Step == Peer \/ RxIrq \/ Setup \/ Python

Next == Step /\ UNCHANGED fixed

Spec == Init /\ [][Next]_vars

-----------------------------------------------------------------------------
(* The interrupt never writes through a freed buffer nor calls a freed     *)
(* callback object, whether or not the program keeps what irq() returned   *)
(* (doc/quickref.rst does not keep it).                                    *)
IrqNeedsNoReference == ~fault

(* As long as the program keeps the object that irq() returned, the        *)
(* interrupt never writes through a freed buffer nor calls a freed         *)
(* callback object: across failed and repeated init(), deinit(),           *)
(* collections and soft resets.                                            *)
NoUseAfterFree == ~forgets => ~fault

(* The peer's bytes in the FIFO: a break leaves its spurious one last.     *)
Data(s) == IF s # <<>> /\ Last(s) = Brk THEN Front(s) ELSE s

Increasing(s) == \A i, j \in DOMAIN s : i < j => s[i] < s[j]

(* The state is well typed, and unless the interrupt is late               *)
(* mp_machine_uart_read hands Python the peer's bytes in order, and never  *)
(* the spurious byte of a break; and none is lost on its way unless        *)
(* read_buffer overflows: what was read, is being read, is buffered and is *)
(* in the FIFO are the bytes up to the last one sent, whatever the         *)
(* timeouts of read().                                                     *)
NothingLost ==
  /\ TypeOK
  /\ ~masked => Increasing(<<taken>> \o got \o rb)
  /\ ~masked /\ inited /\ ~dropped =>
       got \o rb \o Data(rxfifo) = [i \in 1 .. sent - taken |-> taken + i]
=============================================================================
