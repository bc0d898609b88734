----------------------------- MODULE I2cTarget -----------------------------
(***************************************************************************)
(* machine.I2CTarget (machine_i2c_target.c): one controller as a target,   *)
(* its interrupt handler, the constructor, deinit() and readinto(); the    *)
(* bus with a master that writes to, reads from and probes this target and *)
(* others.                                                                 *)
(*                                                                         *)
(* The handler reads the interrupt status once and handles its bits in a   *)
(* fixed order, while the bus goes on: every branch is a step.  The state  *)
(* machine of the framework (extmod/machine_i2c_target.c), which turns the *)
(* calls into events for the program, is external: d is the transfer it is *)
(* in.                                                                     *)
(***************************************************************************)
EXTENDS Naturals, Sequences

CONSTANTS
  MaxLen,     \* bound: bytes of a transfer
  Depth,      \* bytes the receive FIFO holds
  MaxUntold   \* bound: transfers that have not been reported to their end

ASSUME TargetAssumption == MaxLen \in Nat /\ Depth \in Nat \ {0} /\ MaxUntold \in Nat

VARIABLES
  tgt,        \* the object: initialized, state, stop_pending
  d,          \* the state of the framework
  int,        \* latched bits of the interrupt status
  fifo,       \* bytes in the receive FIFO
  masked,     \* the RX_FULL interrupt is masked
  isr,        \* the handler: its next branch and the status it has read
  bus,        \* the transfer on the bus
  untold,     \* history: transfers with this target that have not been reported to their end
  wrong,      \* history: an event was reported that the bus does not justify
  unread,     \* history: a STOP was handled with a byte in the FIFO
  busUse      \* fixed: how the bus and the program use the target

targetVars == <<tgt, d, int, fifo, masked, isr, bus, untold, wrong, unread>>

Kinds == {"read", "write"}

(* plain: one target on the bus, whose handler reads when it is asked to,  *)
(* and a master that does not start the next transfer before the handler   *)
(* has seen the last STOP, but for the read after a repeated START;        *)
(* shared: other targets too; hasty: a master that does not wait;          *)
(* deferred: the program reads later, outside the handler.                 *)
BusUses == {"plain", "shared", "hasty", "deferred"}

TargetTypeOK ==
  /\ tgt \in [init : BOOLEAN, state : Kinds \cup {"idle", "inactive"}, stopPending : BOOLEAN]
  /\ d \in Kinds \cup {"idle"}
  /\ int \subseteq {"RX_DONE", "STOP_DET", "RD_REQ", "LP_WAKE"}
  /\ fifo \in 0 .. Depth /\ masked \in BOOLEAN
  /\ isr \in [at : {"no", "RX_DONE", "STOP_DET", "RX_FULL", "RD_REQ", "end"},
              intr : SUBSET {"RX_DONE", "STOP_DET", "RX_FULL", "RD_REQ"}]
  /\ bus \in [kind : Kinds \cup {"none"}, own : BOOLEAN, left : 0 .. MaxLen, asked : BOOLEAN,
              last : Kinds \cup {"none"}]
  /\ untold \in Seq([kind : Kinds, matched : BOOLEAN, over : BOOLEAN])
  /\ wrong \in BOOLEAN /\ unread \in BOOLEAN /\ busUse \in BusUses

TargetInit ==
  /\ tgt = [init |-> FALSE, state |-> "inactive", stopPending |-> FALSE] /\ d = "idle"
  /\ int = {} /\ fifo = 0 /\ masked = FALSE /\ isr = [at |-> "no", intr |-> {}]
  /\ bus = [kind |-> "none", own |-> FALSE, left |-> 0, asked |-> FALSE, last |-> "none"]
  /\ untold = <<>> /\ wrong = FALSE /\ unread = FALSE /\ busUse \in BusUses

-----------------------------------------------------------------------------
(* The bus: external.                                                      *)

(* The handler has seen all there was, or all but the STOP of a write to   *)
(* this target, which the read that follows it may overtake.               *)
Seen(kind, own) ==
  /\ isr.at = "no" /\ fifo = 0
  /\ int \subseteq {"LP_WAKE"} \/ (own /\ kind = "read" /\ bus.last = "write")

BusStart(kind, own, n) ==
  /\ bus.kind = "none" /\ Len(untold) < MaxUntold /\ (busUse = "hasty" \/ Seen(kind, own))
  /\ own \/ (busUse = "shared" /\ n = 0)
  /\ own /\ kind = "read" => n > 0
  /\ LET mine == own /\ tgt.init
     IN  /\ bus' = [kind |-> kind, own |-> mine, left |-> IF mine THEN n ELSE 0,
                    asked |-> FALSE, last |-> "none"]
         /\ int' = IF mine THEN int \cup {"LP_WAKE"} ELSE int
         /\ untold' = IF ~mine THEN untold
                      ELSE Append(untold, [kind |-> kind, matched |-> FALSE, over |-> FALSE])
  /\ UNCHANGED <<tgt, d, fifo, masked, isr, wrong, unread>>

BusWrite ==
  /\ bus.kind = "write" /\ bus.left > 0 /\ fifo < Depth
  /\ fifo' = fifo + 1 /\ bus' = [bus EXCEPT !.left = @ - 1]
  /\ UNCHANGED <<tgt, d, int, masked, isr, untold, wrong, unread>>

(* The master asks for a byte, and the clock is held until the request is  *)
(* served; after the last byte comes RX_DONE.                              *)
BusRead ==
  /\ bus.kind = "read" /\ bus.left > 0 /\ "RD_REQ" \notin int
  /\ \/ ~bus.asked /\ int' = int \cup {"RD_REQ"} /\ bus' = [bus EXCEPT !.asked = TRUE]
     \/ /\ bus.asked /\ bus' = [bus EXCEPT !.asked = FALSE, !.left = @ - 1]
        /\ int' = IF bus.left = 1 THEN int \cup {"RX_DONE"} ELSE int
  /\ UNCHANGED <<tgt, d, fifo, masked, isr, untold, wrong, unread>>

(* STOP_DET comes for every target of the bus.                             *)
BusStop ==
  /\ bus.kind # "none" /\ bus.left = 0
  /\ bus' = [bus EXCEPT !.kind = "none", !.own = FALSE,
                         !.last = IF bus.own THEN bus.kind ELSE "none"]
  /\ int' = IF tgt.init THEN int \cup {"STOP_DET"} ELSE int
  /\ untold' = IF bus.own THEN [untold EXCEPT ![Len(untold)].over = TRUE] ELSE untold
  /\ UNCHANGED <<tgt, d, fifo, masked, isr, wrong, unread>>

-----------------------------------------------------------------------------
(* What the framework reports, against the transfer it must be about:      *)
(* addr_match, read_request or write_request, and restart_or_stop.         *)

MatchIsRight(kind) == untold # <<>> /\ ~untold[1].matched /\ untold[1].kind = kind
EndIsRight == untold # <<>> /\ untold[1].matched /\ untold[1].kind = d /\ untold[1].over
RequestIsRight(kind) == untold # <<>> /\ untold[1].matched /\ untold[1].kind = kind

Matched(kind) ==
  untold' = IF MatchIsRight(kind) THEN [untold EXCEPT ![1].matched = TRUE] ELSE untold

(* A branch that serves a request: addr_match first, unless the transfer   *)
(* goes on, and state before the events.                                   *)
Request(kind) ==
  /\ tgt' = [tgt EXCEPT !.state = kind] /\ d' = kind
  /\ IF tgt.state # kind
     THEN Matched(kind) /\ wrong' = (wrong \/ ~MatchIsRight(kind))
     ELSE wrong' = (wrong \/ ~RequestIsRight(kind)) /\ UNCHANGED untold

RestartOrStop ==
  /\ d' = "idle"
  /\ IF d = "idle" THEN UNCHANGED <<untold, wrong>>
     ELSE /\ untold' = IF EndIsRight THEN Tail(untold) ELSE untold
          /\ wrong' = (wrong \/ ~EndIsRight)

-----------------------------------------------------------------------------
(* i2c_target_irq_handler                                                  *)

(* I2C_GetINT: RX_FULL is a level.                                         *)
Status == (int \ {"LP_WAKE"}) \cup (IF fifo > 0 /\ ~masked THEN {"RX_FULL"} ELSE {})

(* Mutant: STOP_DET is handled before RX_DONE.                             *)
StopFirst(at) ==
  CASE at = "no" -> "STOP_DET" [] at = "STOP_DET" -> "RX_DONE" [] at = "RX_DONE" -> "RX_FULL"
    [] at = "RX_FULL" -> "RD_REQ" [] at = "RD_REQ" -> "end" [] at = "end" -> "no"

(* The order of the branches.                                              *)
Branch(at) ==
  CASE at = "no" -> "RX_DONE" [] at = "RX_DONE" -> "STOP_DET" [] at = "STOP_DET" -> "RX_FULL"
    [] at = "RX_FULL" -> "RD_REQ" [] at = "RD_REQ" -> "end" [] at = "end" -> "no"

IsrEnter ==
  /\ tgt.init /\ isr.at = "no" /\ Status # {} /\ isr' = [at |-> Branch("no"), intr |-> Status]
  /\ UNCHANGED <<tgt, d, int, fifo, masked, bus, untold, wrong, unread>>

(* The branch of bit is taken.                                             *)
Taken(bit) == isr.at = bit /\ bit \in isr.intr /\ isr' = [isr EXCEPT !.at = Branch(bit)]

NotTaken ==
  /\ isr.at \in {"RX_DONE", "STOP_DET", "RX_FULL", "RD_REQ"} \ isr.intr
  /\ isr' = [isr EXCEPT !.at = Branch(@)]
  /\ UNCHANGED <<tgt, d, int, fifo, masked, bus, untold, wrong, unread>>

IsrRead(bit) ==
  /\ Taken(bit) /\ int' = int \ {bit} /\ Request("read")
  /\ UNCHANGED <<fifo, masked, bus, unread>>

(* STOP_DET with a byte in the FIFO.                                       *)
StopPending ==
  /\ Taken("STOP_DET") /\ fifo > 0 /\ int' = int \ {"STOP_DET"}
  /\ tgt' = [tgt EXCEPT !.stopPending = TRUE] /\ unread' = TRUE
  /\ UNCHANGED <<d, fifo, masked, bus, untold, wrong>>

(* A write without bytes, told from the STOP of another target by          *)
(* LP_WAKE_1: its address match and its end.                               *)
StopProbe ==
  /\ Taken("STOP_DET") /\ fifo = 0 /\ int' = int \ {"STOP_DET", "LP_WAKE"}
  /\ d = "idle" /\ "LP_WAKE" \in int
  /\ tgt' = [tgt EXCEPT !.state = "idle"] /\ d' = "idle"
  /\ untold' = IF MatchIsRight("write") /\ untold[1].over THEN Tail(untold) ELSE untold
  /\ wrong' = (wrong \/ ~(MatchIsRight("write") /\ untold[1].over))
  /\ UNCHANGED <<fifo, masked, bus, unread>>

StopEnd ==
  /\ Taken("STOP_DET") /\ fifo = 0 /\ int' = int \ {"STOP_DET", "LP_WAKE"}
  /\ ~(d = "idle" /\ "LP_WAKE" \in int)
  /\ RestartOrStop /\ tgt' = [tgt EXCEPT !.state = "idle"]
  /\ UNCHANGED <<fifo, masked, bus, unread>>

(* RX_FULL is masked until mp_machine_i2c_target_read_bytes: by the        *)
(* framework or the program's handler in the request, or later.            *)
IsrWrite ==
  /\ Taken("RX_FULL") /\ Request("write")
  /\ \/ /\ busUse # "deferred" /\ masked' = FALSE
        /\ \E n \in 0 .. Depth - 1 : n < fifo /\ fifo' = n
     \/ busUse = "deferred" /\ masked' = TRUE /\ UNCHANGED fifo
  /\ UNCHANGED <<int, bus, unread>>

IsrEnd ==
  /\ isr.at = "end" /\ isr' = [at |-> "no", intr |-> {}]
  /\ IF tgt.stopPending /\ fifo = 0
     THEN tgt' = [tgt EXCEPT !.stopPending = FALSE, !.state = "idle"] /\ RestartOrStop
     ELSE UNCHANGED <<tgt, d, untold, wrong>>
  /\ UNCHANGED <<int, fifo, masked, bus, unread>>

-----------------------------------------------------------------------------
(* readinto() outside the handler; it does not look at stop_pending.       *)
ReadInto ==
  /\ busUse = "deferred" /\ tgt.init /\ isr.at = "no" /\ fifo > 0
  /\ masked' = FALSE /\ \E n \in 0 .. Depth - 1 : n < fifo /\ fifo' = n
  /\ UNCHANGED <<tgt, d, int, isr, bus, untold, wrong, unread>>

(* mp_machine_i2c_target_make_new, which deinitialises an object in use;   *)
(* I2C_Init empties the FIFO and the status.  A transfer on the bus is no  *)
(* longer with this target.                                                *)
TargetOff ==
  /\ isr.at = "no" /\ int' = {} /\ fifo' = 0 /\ untold' = <<>>
  /\ bus' = [bus EXCEPT !.own = FALSE, !.left = 0, !.asked = FALSE, !.last = "none"]
  /\ UNCHANGED <<isr, wrong, unread>>

Fresh(o) == [o EXCEPT !.init = TRUE, !.state = "idle", !.stopPending = FALSE]

TargetNew == TargetOff /\ tgt' = Fresh(tgt) /\ d' = "idle" /\ masked' = FALSE

(* deinit(), and machine_i2c_target_deinit_all of the soft reset.          *)
TargetDeinit ==
  /\ tgt.init /\ TargetOff /\ tgt' = [tgt EXCEPT !.init = FALSE, !.state = "inactive"]
  /\ masked' = TRUE /\ UNCHANGED d

TargetStep ==
  \/ \E kind \in Kinds, own \in BOOLEAN, n \in 0 .. MaxLen : BusStart(kind, own, n)
  \/ BusWrite \/ BusRead \/ BusStop
  \/ IsrEnter \/ NotTaken \/ IsrRead("RX_DONE") \/ StopPending \/ StopProbe \/ StopEnd
  \/ IsrWrite \/ IsrRead("RD_REQ") \/ IsrEnd
  \/ ReadInto \/ TargetNew \/ TargetDeinit

TargetNext ==
  /\ UNCHANGED busUse
  /\ \/ ~wrong /\ TargetStep
     \/ wrong /\ UNCHANGED targetVars

TargetSpec == TargetInit /\ [][TargetNext]_<<targetVars, busUse>>

-----------------------------------------------------------------------------
(* Nothing of the bus is left for the handler to see.                      *)
TargetAtRest ==
  tgt.init /\ isr.at = "no" /\ bus.kind = "none" /\ int \subseteq {"LP_WAKE"} /\ fifo = 0

EventsAsOnTheBus == ~wrong /\ (TargetAtRest => untold = <<>>)

(* The state is well typed, and the program sees each transfer with the    *)
(* target, and no other, as one address match, its requests and one end,   *)
(* in the order of the bus, however the bits of two transfers meet in one  *)
(* status and wherever a STOP finds bytes in the FIFO: on a bus as the     *)
(* handler expects it (comments at machine_i2c_target.c:126-137 and        *)
(* 158-166), and with other targets too unless a STOP has found a byte.    *)
EveryTransferOnce ==
  /\ TargetTypeOK
  /\ busUse = "plain" \/ (busUse = "shared" /\ ~unread) => EventsAsOnTheBus

(* No match of another target's transfer is reported because of a stale    *)
(* LP_WAKE_1 (comment at machine_i2c_target.c:192-193).                    *)
NoStaleMatch == busUse = "shared" => ~wrong
=============================================================================
