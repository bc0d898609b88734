-------------------------------- MODULE I2s --------------------------------
(***************************************************************************)
(* machine.I2S (machine_i2s.c): one SPORT, its object, the ring buffer and *)
(* the two halves of the DMA buffer, the GDMA channel that goes round them *)
(* and its interrupt; the constructor, init(), deinit(), irq(), write()    *)
(* and readinto(), and machine_i2s_deinit_all() of the soft reset.         *)
(*                                                                         *)
(* The interrupt comes between any two steps.  A blocking write() or       *)
(* readinto() spins with the GIL held.  The wait for the channel in        *)
(* deinit() releases the GIL (mp_hal_delay_ms), so it is a step of its own *)
(* and another thread, or a scheduled callback, may use the object in it.  *)
(* The methods around the port's functions are those of the framework the  *)
(* file is included by (extmod/machine_i2s.c), which is external.          *)
(***************************************************************************)
EXTENDS Naturals, Sequences

CONSTANTS
  Half,       \* bytes of half the DMA buffer
  RingSize,   \* bytes the ring buffer holds: ibuf - 1
  Chunk,      \* SIZEOF_NON_BLOCKING_COPY_IN_BYTES
  MaxStream   \* bound: bytes written between two starts of the transfer

(* The driver accepts every ibuf of at least 256 bytes (line 315), and half *)
(* the DMA buffer is max(64, ibuf / 8) or less (line 455): the ring holds  *)
(* at least one half.  The smallest ring, of 255 bytes for halves of 64    *)
(* and chunks of 256, does not hold a chunk.                               *)
ASSUME I2sAssumption ==
  {Half, RingSize, Chunk, MaxStream} \subseteq Nat \ {0} /\ RingSize >= Half

VARIABLES
  i2s,        \* the object of the SPORT
  ring,       \* ring_buffer
  buf,        \* the two halves
  chan,       \* the GDMA channel
  todo,       \* bytes of the application's buffer still to be copied
  spin,       \* a blocking write() or readinto() spins
  waiting,    \* callers in the wait of deinit(), and what each does next
  pushed,     \* bytes written since the transfer was started
  popped,     \* bytes played (TX), or bytes read modulo Half (RX)
  clash,      \* history: the interrupt used the half the hardware is on
  wild,       \* history: freed memory, a null pointer or a channel of another was used
  env         \* fixed: what the hardware and the program do

i2sVars == <<i2s, ring, buf, chan, todo, spin, waiting, pushed, popped, clash, wild>>

Blocks  == {"dma", "lli", "ring"}
Callers == {1, 2}
AfterDeinit == {"return", "construct", "init", "forget"}

(* What may go wrong: nothing; late: an interrupt is served after the next *)
(* half has ended; busy: the channel is not inactive within the 20 ms of   *)
(* the wait; careless: the program uses the object from two threads, or    *)
(* after deinit() or a constructor that failed.                            *)
I2sEnv == {"nothing", "late", "busy", "careless"}

I2sTypeOK ==
  /\ i2s \in [rooted : BOOLEAN, mode : {"TX", "RX"}, active : BOOLEAN, initted : BOOLEAN,
              half : 0 .. 1, mem : SUBSET Blocks, blocking : BOOLEAN, copy : BOOLEAN]
  /\ ring \in Seq(Nat) /\ Len(ring) <= RingSize /\ buf \in [0 .. 1 -> Seq(Nat)]
  /\ chan \in [state : {"off", "on", "draining", "inactive"}, half : 0 .. 1,
               int : SUBSET {"block", "err"}]
  /\ todo \in Nat /\ spin \in BOOLEAN /\ waiting \in [Callers -> AfterDeinit \cup {"no"}]
  /\ pushed \in 0 .. MaxStream /\ popped \in Nat /\ clash \in BOOLEAN /\ wild \in BOOLEAN
  /\ env \in I2sEnv

Least(a, b) == IF a < b THEN a ELSE b

NoChannel == [state |-> "off", half |-> 0, int |-> {}]
Silence   == [h \in 0 .. 1 |-> <<>>]

I2sInit ==
  /\ i2s = [rooted |-> FALSE, mode |-> "TX", active |-> FALSE, initted |-> FALSE,
            half |-> 0, mem |-> {}, blocking |-> TRUE, copy |-> FALSE]
  /\ ring = <<>> /\ buf = Silence /\ chan = NoChannel /\ todo = 0 /\ spin = FALSE
  /\ waiting = [c \in Callers |-> "no"] /\ pushed = 0 /\ popped = 0
  /\ clash = FALSE /\ wild = FALSE /\ env \in I2sEnv

-----------------------------------------------------------------------------
(* The constructor and init().                                             *)

(* No transfer, no data.                                                   *)
Stopped ==
  chan' = NoChannel /\ ring' = <<>> /\ buf' = Silence /\ pushed' = 0 /\ popped' = 0

(* mp_machine_i2s_init_helper allocates the DMA buffer, the list of its    *)
(* halves and the ring, in this order.  When the allocation of b fails, or *)
(* a ValueError comes before the first one, it raises with                 *)
(* GotBefore[b] allocated, after it has freed FreedAt[b].                  *)
GotBefore == [dma |-> {}, lli |-> {"dma"}, ring |-> {"dma", "lli"}]

(* Mutant: the list of the halves is not freed when the ring fails.        *)
FreedForgets == [dma |-> {}, lli |-> {"dma"}, ring |-> {"dma"}]

FreedAt == [dma |-> {}, lli |-> {"dma"}, ring |-> {"dma", "lli"}]

AllocFails(o, b) == i2s' = [o EXCEPT !.mem = (@ \cup GotBefore[b]) \ FreedAt[b]]

(* The allocations and start_transfer: the ring is empty, so both halves   *)
(* are silence.                                                            *)
StartedAs(o, m) ==
  /\ i2s' = [o EXCEPT !.mode = m, !.mem = Blocks, !.half = 0,
                      !.initted = TRUE, !.active = TRUE]
  /\ ring' = <<>> /\ buf' = Silence /\ chan' = [NoChannel EXCEPT !.state = "on"]
  /\ pushed' = 0 /\ popped' = 0

I2sInitHelper(o) ==
  \/ (\E b \in Blocks : AllocFails(o, b)) /\ Stopped
  \/ \E m \in {"TX", "RX"} : StartedAs(o, m)

(* mp_machine_i2s_make_new_instance                                        *)
Clean(o) == [o EXCEPT !.rooted = TRUE, !.active = FALSE, !.initted = FALSE, !.half = 0,
                      !.mem = {}, !.blocking = TRUE, !.copy = FALSE]

(* A caller has the GIL; a careful program has no other caller.            *)
Calls(c) ==
  /\ ~spin /\ waiting[c] = "no"
  /\ env # "careless" => \A d \in Callers : waiting[d] = "no"

Construct(c) ==
  /\ Calls(c) /\ ~i2s.rooted /\ I2sInitHelper(Clean(i2s)) /\ todo' = 0
  /\ UNCHANGED <<spin, waiting, clash, wild>>

-----------------------------------------------------------------------------
(* mp_machine_i2s_deinit: the channel is suspended, the caller waits until *)
(* it is inactive, at most 20 ms, and aborts it.                           *)

Then(c, what) == waiting' = [waiting EXCEPT ![c] = what]

(* deinit(), Construct on a rooted object, init(), and deinit_all, which   *)
(* forgets the object afterwards.                                          *)
Suspend(c, what) ==
  /\ Calls(c) /\ i2s.rooted /\ i2s.active /\ i2s.initted
  /\ chan' = [chan EXCEPT !.state = IF @ = "on" THEN "draining" ELSE @]
  /\ Then(c, what)
  /\ UNCHANGED <<i2s, ring, buf, todo, spin, pushed, popped, clash, wild>>

(* The channel has sent its last burst.                                    *)
Drained ==
  /\ chan.state = "draining" /\ chan' = [chan EXCEPT !.state = "inactive"]
  /\ UNCHANGED <<i2s, ring, buf, todo, spin, waiting, pushed, popped, clash, wild>>

WaitOver == chan.state = "inactive" \/ env = "busy"

TornDown(o) == [o EXCEPT !.initted = FALSE, !.active = FALSE, !.mem = {}]

(* What the caller does once the object is torn down.                      *)
GoesOn(what, o) ==
  \/ what = "construct" /\ I2sInitHelper(Clean(o)) /\ todo' = 0
  \/ what = "init" /\ I2sInitHelper(o) /\ UNCHANGED todo
  \/ /\ what \in {"return", "forget"} /\ i2s' = [o EXCEPT !.rooted = what # "forget"]
     /\ Stopped /\ todo' = IF what = "forget" THEN 0 ELSE todo

(* The channel is aborted and freed, then the memory.  A channel that is   *)
(* still busy is not stopped (the result of GDMA_Abort is not looked at)   *)
(* and goes on over memory that is freed; one that was freed or started    *)
(* anew in the wait is another's.                                          *)
Abort(c) ==
  /\ waiting[c] # "no" /\ ~spin /\ WaitOver
  /\ Then(c, "no") /\ GoesOn(waiting[c], TornDown(i2s))
  /\ wild' = (wild \/ ~i2s.initted \/ chan.state # "inactive")
  /\ UNCHANGED <<spin, clash>>

(* deinit() of an object that has no transfer.                             *)
NothingToStop(c, what) ==
  /\ Calls(c) /\ i2s.rooted /\ ~i2s.active
  /\ GoesOn(what, TornDown(i2s)) /\ UNCHANGED <<spin, waiting, clash, wild>>

-----------------------------------------------------------------------------
(* The application: n bytes of its buffer are copied to the ring (TX) or   *)
(* from it (RX), at once or by the interrupt.                              *)

Copied(k) ==
  IF i2s.mode = "TX"
  THEN /\ pushed + k <= MaxStream /\ ring' = ring \o [j \in 1 .. k |-> pushed + j]
       /\ pushed' = pushed + k /\ UNCHANGED popped
  ELSE /\ ring' = SubSeq(ring, k + 1, Len(ring)) /\ popped' = (popped + k) % Half
       /\ UNCHANGED pushed

(* Bytes that can be copied now: room in the ring, or bytes in it.         *)
Ready(r) == IF i2s.mode = "TX" THEN RingSize - Len(r) ELSE Len(r)

WithinBound(n) == i2s.mode = "TX" => pushed + n <= MaxStream

(* write(), readinto(): external.  A careful program waits for a copy to   *)
(* end before it asks for the next.                                        *)
Transfer(c, n) ==
  /\ Calls(c) /\ i2s.active /\ ~i2s.copy /\ WithinBound(n)
  /\ todo' = n /\ spin' = i2s.blocking /\ i2s' = [i2s EXCEPT !.copy = ~@ /\ ~i2s.blocking]
  /\ UNCHANGED <<ring, buf, chan, waiting, pushed, popped, clash, wild>>

(* The spin of a blocking call, one byte at a time.                        *)
SpinCopy ==
  /\ spin /\ Ready(ring) > 0 /\ Copied(1)
  /\ todo' = todo - 1 /\ spin' = (todo > 1)
  /\ UNCHANGED <<i2s, buf, chan, waiting, clash, wild>>

SpinIdle == spin /\ Ready(ring) = 0 /\ UNCHANGED i2sVars

(* irq(): blocking or not, external, then mp_machine_i2s_irq_update.       *)
I2sIrq(c, b) ==
  /\ Calls(c) /\ i2s.active /\ ~i2s.copy /\ i2s' = [i2s EXCEPT !.blocking = b]
  /\ UNCHANGED <<ring, buf, chan, todo, spin, waiting, pushed, popped, clash, wild>>

(* write(), readinto() or irq() on an object without a transfer uses the   *)
(* freed ring, or the null list of blocks.                                 *)
UsedAfter(c) ==
  /\ Calls(c) /\ env = "careless" /\ i2s.rooted /\ ~i2s.active /\ wild' = TRUE
  /\ UNCHANGED <<i2s, ring, buf, chan, todo, spin, waiting, pushed, popped, clash>>

-----------------------------------------------------------------------------
(* The hardware and the interrupt.                                         *)

(* The channel ends a half and goes on with the other: TX has played it,   *)
(* RX has filled it.  The bytes of RX are their places in the half.        *)
BlockDone ==
  /\ chan.state \in {"on", "draining"} /\ (env = "late" \/ "block" \notin chan.int)
  /\ chan' = [chan EXCEPT !.half = 1 - @, !.int = @ \cup {"block"}]
  /\ IF i2s.mode = "TX"
     THEN popped' = Least(popped + Len(buf[chan.half]), MaxStream) /\ UNCHANGED buf
     ELSE buf' = [buf EXCEPT ![chan.half] = [j \in 1 .. Half |-> j - 1]] /\ UNCHANGED popped
  /\ UNCHANGED <<i2s, ring, todo, spin, waiting, pushed, clash, wild>>

GdmaError ==
  /\ chan.state = "on" /\ "err" \notin chan.int /\ chan' = [chan EXCEPT !.int = @ \cup {"err"}]
  /\ UNCHANGED <<i2s, ring, buf, todo, spin, waiting, pushed, popped, clash, wild>>

(* Mutant: it waits for ibuf bytes, one more than the ring holds.          *)
FedNever(r) == [half |-> <<>>, rest |-> r]

(* i2s_tx_feed_half: a whole half, or silence.                             *)
Fed(r) ==
  IF Len(r) >= Half THEN [half |-> SubSeq(r, 1, Half), rest |-> SubSeq(r, Half + 1, Len(r))]
                    ELSE [half |-> <<>>, rest |-> r]

(* i2s_rx_drain_half: a whole half, or none of it.                         *)
DrainedHalf(r, b) == IF RingSize - Len(r) >= Half THEN r \o b ELSE r

(* copy_appbuf_to_ringbuf_non_blocking and its counterpart: external.      *)
CopyStep(r) ==
  LET n == Least(Chunk, todo)
      k == IF ~i2s.blocking /\ i2s.copy /\ i2s.active /\ Ready(r) >= n THEN n ELSE 0
  IN  /\ todo' = todo - k /\ i2s' = [i2s EXCEPT !.half = 1 - @, !.copy = @ /\ todo # k]
      /\ IF i2s.mode = "TX"
         THEN /\ ring' = r \o [j \in 1 .. k |-> pushed + j] /\ pushed' = pushed + k
              /\ UNCHANGED popped
         ELSE /\ ring' = SubSeq(r, k + 1, Len(r)) /\ popped' = (popped + k) % Half
              /\ UNCHANGED pushed

(* Mutant: an error interrupt counts as the end of a half.                 *)
EndedAny(int) == TRUE

Ended(int) == "block" \in int

(* i2s_tx_gdma_done, i2s_rx_gdma_done.                                     *)
GdmaDone ==
  /\ chan.int # {} /\ chan.state # "off" /\ chan' = [chan EXCEPT !.int = {}]
  /\ IF Ended(chan.int)
     THEN /\ clash' = (clash \/ i2s.half = chan.half)
          /\ IF i2s.mode = "TX"
             THEN buf' = [buf EXCEPT ![i2s.half] = Fed(ring).half] /\ CopyStep(Fed(ring).rest)
             ELSE CopyStep(DrainedHalf(ring, buf[i2s.half])) /\ UNCHANGED buf
     ELSE UNCHANGED <<i2s, ring, buf, todo, pushed, popped, clash>>
  /\ UNCHANGED <<spin, waiting, wild>>

Deinits(c) == \E what \in AfterDeinit : Suspend(c, what) \/ NothingToStop(c, what)

I2sStep ==
  \/ \E c \in Callers :
       \/ Construct(c) \/ Deinits(c) \/ Abort(c) \/ UsedAfter(c)
       \/ (\E n \in 1 .. MaxStream : Transfer(c, n)) \/ (\E b \in BOOLEAN : I2sIrq(c, b))
  \/ Drained \/ SpinCopy \/ SpinIdle \/ BlockDone \/ GdmaError \/ GdmaDone

(* After a wild access nothing is known.                                   *)
I2sNext ==
  /\ UNCHANGED env
  /\ \/ ~wild /\ I2sStep
     \/ wild /\ UNCHANGED i2sVars

(* The channel never stops by itself, its interrupt is served, and a spin  *)
(* goes on whenever the ring lets it.                                      *)
I2sFairness == WF_i2sVars(BlockDone) /\ WF_i2sVars(GdmaDone) /\ WF_i2sVars(SpinCopy)

I2sSpec == I2sInit /\ [][I2sNext]_<<i2sVars, env>> /\ I2sFairness

-----------------------------------------------------------------------------
(* The bytes of TX on their way: in the half that is playing, in the other *)
(* if it waits to be played, in the ring.                                  *)
OnTheWay ==
  buf[chan.half] \o (IF "block" \in chan.int THEN <<>> ELSE buf[1 - chan.half]) \o ring

(* The state is well typed, and with interrupts served before the next     *)
(* half has ended, the interrupt never touches the half the hardware is    *)
(* on, whatever errors are reported (comment at machine_i2s.c:195-199).    *)
(* What is written is then played in order, with nothing lost, repeated    *)
(* or left behind (TX); and RX drops whole halves only, so the frames that *)
(* readinto() takes from the ring stay aligned.                            *)
StreamInOrder ==
  /\ I2sTypeOK
  /\ env # "late" => ~clash
  /\ env # "late" /\ ~wild /\ i2s.active =>
       IF i2s.mode = "TX" THEN OnTheWay = [j \in 1 .. pushed - popped |-> popped + j]
                          ELSE \A j \in DOMAIN ring : ring[j] = (popped + j - 1) % Half

(* As long as the channel can run, the memory it and its interrupt use is  *)
(* there, and when it is stopped, or a constructor has failed, none is     *)
(* left, over constructors on an object in use, failures of malloc and     *)
(* soft resets: if the program uses the object from one thread and not     *)
(* after deinit(), and the channel drains in time (machine_i2s.c:604,      *)
(* machine_i2s.c:608).                                                     *)
ChannelHasMemory ==
  env \in {"nothing", "late"} =>
    /\ ~wild
    /\ chan.state # "off" => i2s.mem = Blocks /\ i2s.rooted
    /\ chan.state = "off" => i2s.mem = {} /\ ~i2s.active

(* A ring with room for a chunk whatever part of a half is left in it:     *)
(* ibuf of at least 256 + 64 bytes with halves of 64.                      *)
RoomForChunk == RingSize >= Half + Chunk - 1

Copying == env \in {"nothing", "late"} /\ i2s.active /\ todo > 0
Over    == todo = 0 \/ \E c \in Callers : waiting[c] # "no"

(* write() and readinto() end, and so does a copy by the interrupt if ibuf *)
(* is at least 320, unless the transfer is stopped (comment at             *)
(* machine_i2s.c:26-30).                                                   *)
TransferEnds == (Copying /\ (i2s.blocking \/ RoomForChunk)) ~> Over

(* The same for every ibuf that the constructor accepts: "ibuf must be at  *)
(* least 256 bytes" (doc/quickref.rst:310, machine_i2s.c:315).  It fails:  *)
(* with ibuf = 256 the ring never has 256 bytes free, nor 256 bytes in it, *)
(* so the copy of a buffer of 256 bytes or more never starts, and its      *)
(* callback never comes.                                                   *)
EveryIbufServes == Copying ~> Over
=============================================================================
