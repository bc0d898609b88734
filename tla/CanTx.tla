-------------------------------- MODULE CanTx --------------------------------
(***************************************************************************)
(* The transmit side of machine.CAN (machine_can.c): the table port->tx of *)
(* message buffers in use, send(), the TX branch of the interrupt handler, *)
(* irq().flags(), restart() and the change of the irq trigger.             *)
(*                                                                         *)
(* The controller is external: CAN_WriteMsg makes a message buffer         *)
(* pending, the bus later completes it (or gives it up), which sets its    *)
(* done (or error) bit and the TX interrupt.  Python runs under the GIL;   *)
(* the interrupt falls between any two steps and is taken at once.         *)
(***************************************************************************)
EXTENDS Naturals, FiniteSets, FiniteSetsExt

CONSTANTS
  QueueLen,     \* CAN_TX_QUEUE_LEN
  Ids,          \* CAN identifiers
  TX_EMPTY      \* the mark of a free entry of port->tx

ASSUME CanTxAssumption == QueueLen \in Nat \ {0} /\ TX_EMPTY \notin Ids

Slots == 0 .. QueueLen - 1

VARIABLES
  tx,       \* port->tx
  hw,       \* hw[i]: the id pending in message buffer i of the controller
  done,     \* buffers with the done or the error bit set
  txint,    \* CAN_TX_INT
  listens,  \* MP_CAN_IRQ_TX is in mp_irq_trigger
  told,     \* the Python callback has been scheduled and has not run
  pc,       \* "idle", "write", "record" in send(); "flags" in the callback
  idx, id,  \* the locals idx_empty and id of send()
  unord,    \* its argument CAN_MSG_FLAG_UNORDERED
  clash,    \* history: CAN_WriteMsg hit a buffer that was pending
  quick,    \* fixed: a frame may complete before send() has recorded it
  subs,     \* fixed: the program's use of IRQ_TX
  remains   \* fixed: done bits may outlive the table, see Restart and Reinit

canVars == <<tx, hw, done, txint, listens, told, pc, idx, id, unord, clash>>
fixed == <<quick, subs, remains>>
vars == <<canVars, fixed>>
bus  == <<hw, done, txint>>
loc  == <<pc, idx, id, unord>>

(* The program never subscribes to IRQ_TX, always does, or changes its     *)
(* mind at any time.                                                       *)
Uses == {"never", "always", "changes"}

Triggers == CASE subs = "never" -> {FALSE} [] subs = "always" -> {TRUE} [] OTHER -> BOOLEAN

TypeOK ==
  /\ tx \in [Slots -> Ids \cup {TX_EMPTY}] /\ hw \in [Slots -> Ids \cup {TX_EMPTY}]
  /\ done \subseteq Slots /\ txint \in BOOLEAN
  /\ listens \in BOOLEAN /\ told \in BOOLEAN
  /\ pc \in {"idle", "write", "record", "flags"}
  /\ idx \in Slots /\ id \in Ids /\ unord \in BOOLEAN
  /\ clash \in BOOLEAN
  /\ quick \in BOOLEAN /\ subs \in Uses /\ remains \in BOOLEAN

Init ==
  /\ tx = [i \in Slots |-> TX_EMPTY] /\ hw = [i \in Slots |-> TX_EMPTY]
  /\ done = {} /\ txint = FALSE
  /\ quick \in BOOLEAN /\ subs \in Uses /\ remains \in BOOLEAN
  /\ listens \in Triggers /\ told = FALSE
  /\ pc = "idle" /\ idx = 0 /\ id \in Ids /\ unord = FALSE
  /\ clash = FALSE

Empty == {i \in Slots : tx[i] = TX_EMPTY}

-----------------------------------------------------------------------------
(* machine_can_port_send                                                   *)
MaySend(n, unordered) == Empty # {} /\ (unordered \/ \A i \in Slots : tx[i] # n)

FirstEmpty == Min(Empty)

(* The scan; when it finds no buffer send() returns None and nothing       *)
(* changes.                                                                *)
SendScan ==
  /\ pc = "idle"
  /\ \E n \in Ids, u \in BOOLEAN : MaySend(n, u) /\ id' = n /\ unord' = u
  /\ idx' = FirstEmpty
  /\ pc' = "write"
  /\ UNCHANGED <<tx, listens, told>> /\ UNCHANGED bus /\ UNCHANGED clash

SendWrite ==
  /\ pc = "write" /\ pc' = "record"
  /\ hw' = [hw EXCEPT ![idx] = id]
  /\ clash' = (clash \/ hw[idx] # TX_EMPTY)
  /\ UNCHANGED <<tx, done, txint, listens, told, idx, id, unord>>

SendRecord ==
  /\ pc = "record" /\ pc' = "idle"
  /\ tx' = [tx EXCEPT ![idx] = id]
  /\ UNCHANGED <<listens, told, idx, id, unord>> /\ UNCHANGED bus /\ UNCHANGED clash

-----------------------------------------------------------------------------
(* The bus completes or gives up the frame in buffer i.                    *)
Complete(i) ==
  /\ hw[i] # TX_EMPTY
  /\ quick \/ pc # "record" \/ i # idx
  /\ hw' = [hw EXCEPT ![i] = TX_EMPTY]
  /\ done' = done \cup {i} /\ txint' = TRUE
  /\ UNCHANGED <<tx, listens, told>> /\ UNCHANGED loc /\ UNCHANGED clash

Freed(s) == [i \in Slots |-> IF i \in s THEN TX_EMPTY ELSE tx[i]]

(* Mutant: the interrupt is acknowledged and nothing else is done.         *)
TxInterruptForgetful ==
  /\ txint /\ txint' = FALSE
  /\ UNCHANGED <<tx, done, told, hw, listens>> /\ UNCHANGED loc /\ UNCHANGED clash

(* Mutant: the entries are freed and the done bits stay set.               *)
TxInterruptLeavesBits ==
  /\ txint /\ txint' = FALSE
  /\ IF listens THEN told' = TRUE /\ UNCHANGED tx ELSE tx' = Freed(done) /\ UNCHANGED told
  /\ UNCHANGED <<done, hw, listens>> /\ UNCHANGED loc /\ UNCHANGED clash

(* The TX branch of can_port_isr.                                          *)
TxInterrupt ==
  /\ txint /\ txint' = FALSE
  /\ IF listens THEN told' = TRUE /\ UNCHANGED <<tx, done>>
                ELSE tx' = Freed(done) /\ done' = {} /\ UNCHANGED told
  /\ UNCHANGED <<hw, listens>> /\ UNCHANGED loc /\ UNCHANGED clash

(* The scheduled callback starts and calls irq().flags().                  *)
Callback ==
  /\ pc = "idle" /\ told /\ pc' = "flags" /\ told' = FALSE
  /\ UNCHANGED <<tx, listens, idx, id, unord>> /\ UNCHANGED bus /\ UNCHANGED clash

(* machine_can_port_irq_flags: one finished buffer per call; the callback  *)
(* calls it until it reports none.                                         *)
IrqFlags ==
  /\ pc = "flags" /\ listens /\ done # {}
  /\ done' = done \ {Min(done)} /\ tx' = [tx EXCEPT ![Min(done)] = TX_EMPTY]
  /\ UNCHANGED <<hw, txint, listens, told, clash>> /\ UNCHANGED loc

IrqFlagsNone ==
  /\ pc = "flags" /\ (~listens \/ done = {}) /\ pc' = "idle"
  /\ UNCHANGED <<tx, listens, told, idx, id, unord>> /\ UNCHANGED bus /\ UNCHANGED clash

(* CAN.irq() changes the trigger; machine_can_update_irqs concerns only RX.*)
Subscribe ==
  /\ pc = "idle" /\ listens' \in Triggers \ {listens}
  /\ UNCHANGED <<tx, told>> /\ UNCHANGED bus /\ UNCHANGED loc /\ UNCHANGED clash

(* machine_can_port_restart: the table is cleared, the bus goes off and    *)
(* on, which drops the pending frames; the done and error bits stay.       *)
Restart ==
  /\ remains /\ pc = "idle"
  /\ tx' = [i \in Slots |-> TX_EMPTY]
  /\ hw' = [i \in Slots |-> TX_EMPTY] /\ txint' = FALSE
  /\ UNCHANGED <<done, listens, told>> /\ UNCHANGED loc /\ UNCHANGED clash

(* machine_can_port_deinit and machine_can_port_init: the table starts     *)
(* afresh, and CAN_Init drops the pending frames.  Neither clears the done *)
(* bits: CAN_Init may (external), as it pleases when remains holds.        *)
Reinit ==
  /\ pc = "idle"
  /\ tx' = [i \in Slots |-> TX_EMPTY] /\ hw' = [i \in Slots |-> TX_EMPTY]
  /\ txint' = FALSE /\ done' \in (IF remains THEN {{}, done} ELSE {{}})
  /\ UNCHANGED <<listens, told>> /\ UNCHANGED loc /\ UNCHANGED clash

Send   == SendWrite \/ SendRecord
Notice == Callback \/ IrqFlags \/ IrqFlagsNone

(* The interrupt is taken before Python goes on.                           *)
Python == ~txint /\ (SendScan \/ Send \/ Notice \/ Subscribe \/ Restart \/ Reinit)

Step == Python \/ TxInterrupt \/ \E i \in Slots : Complete(i)

Next == Step /\ UNCHANGED fixed

Spec == Init /\ [][Next]_vars

(* The bus carries every pending frame away or gives it up, interrupts are *)
(* taken, a send() in progress and a scheduled callback run to their end.  *)
Fairness ==
  /\ \A i \in Slots : WF_canVars(Complete(i))
  /\ WF_canVars(TxInterrupt) /\ WF_canVars(~txint /\ (Send \/ Notice))

FairSpec == Spec /\ Fairness

-----------------------------------------------------------------------------
(* Excluded below: without a subscriber all along, a frame that completes  *)
(* before send() has recorded it (the interrupt clears the entry first and *)
(* the id is stored for good); with one, a restart() or an init() that     *)
(* keeps the done bits of buffers it declares free.                        *)
Records   == quick => subs = "always"
NoRemains == remains => subs = "never"

Recording(i) == pc = "record" /\ i = idx

(* The state is well typed, and outside send() an entry of port->tx names  *)
(* the frame pending in its buffer, whose done bit is then clear, or one   *)
(* that has finished and waits to be noticed: no entry is left behind by a *)
(* finished frame, and flags() never reports a frame that is pending (the  *)
(* comment on port->tx).  Therefore send() never writes over a pending     *)
(* frame, and starts an ordered one only when none with its id is pending, *)
(* which the controller would be free to send in either order.             *)
SlotAgrees ==
  /\ TypeOK
  /\ Records /\ NoRemains =>
       \A i \in Slots : \/ Recording(i)
                        \/ tx[i] = hw[i] /\ (tx[i] # TX_EMPTY => i \notin done)
                        \/ hw[i] = TX_EMPTY /\ i \in done
  /\ NoRemains => ~clash
  /\ NoRemains /\ pc = "write" /\ ~unord => \A i \in Slots : hw[i] # id

(* A full queue does not stay full, a later send() finds a buffer, unless  *)
(* the program drops its subscription with finished frames uncollected.    *)
QueueDrains == (Records /\ subs # "changes" /\ Empty = {}) ~> Empty # {}
=============================================================================
