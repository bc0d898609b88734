-------------------------------- MODULE CanRx --------------------------------
(***************************************************************************)
(* The receive side of machine.CAN (machine_can.c): the filters and the    *)
(* register CAN_RAM_CS they share with send(), the receive FIFO and        *)
(* recv(), the RX, ERR and BUSOFF branches of the interrupt handler, the   *)
(* error state, irq().flags() and restart().                               *)
(*                                                                         *)
(* The controller is external, taken from the comments of this file and    *)
(* the registers it uses.  Python runs under the GIL, the interrupt        *)
(* between any two steps.                                                  *)
(***************************************************************************)
EXTENDS Naturals, Sequences

CONSTANTS
  Filters,      \* 0 .. CAN_HW_MAX_FILTER - 1
  Frames,       \* kinds of frames, as far as filters tell them apart
  FifoDepth     \* frames the receive FIFO holds

ASSUME CanRxAssumption == FifoDepth \in Nat \ {0}

VARIABLES
  ramCs,      \* the bit CAN_BIT_RAM_RXTX of CAN_RAM_CS: "RX" or "TX"
  mb,         \* the message buffers of the filters: their direction and what they accept
  rxFifo,     \* the receive FIFO
  rxInt,      \* pending interrupts
  trigger,    \* mp_irq_trigger
  err,        \* the error state of the controller
  port,       \* error_passive, irq_state_pending
  cbTold,     \* the Python callback has been scheduled and has not run
  owed,       \* history: the program has not been told that err is passive or bus-off
  counted,    \* history: this passive period has been counted in num_passive
  missed,     \* history: a frame that a filter accepts was not received
  twice       \* history: a passive period was counted twice

canRxVars ==
  <<ramCs, mb, rxFifo, rxInt, trigger, err, port, cbTold, owed, counted, missed, twice>>

ErrStates == {"active", "warning", "passive", "bus_off"}

CanRxTypeOK ==
  /\ ramCs \in {"RX", "TX"}
  /\ mb \in [Filters -> [dir : {"RX", "TX"}, accepts : SUBSET Frames]]
  /\ rxFifo \in Seq(Frames) /\ Len(rxFifo) <= FifoDepth
  /\ rxInt \subseteq {"RX", "ERR", "BUSOFF"} /\ trigger \subseteq {"RX", "STATE"}
  /\ err \in ErrStates /\ port \in [passive : BOOLEAN, statePending : BOOLEAN]
  /\ cbTold \in BOOLEAN /\ owed \in BOOLEAN /\ counted \in BOOLEAN
  /\ missed \in BOOLEAN /\ twice \in BOOLEAN

Closed == [dir |-> "RX", accepts |-> {}]

CanRxInit ==
  /\ ramCs = "RX" /\ mb = [i \in Filters |-> Closed] /\ rxFifo = <<>> /\ rxInt = {}
  /\ trigger = {} /\ err = "active" /\ port = [passive |-> FALSE, statePending |-> FALSE]
  /\ cbTold = FALSE /\ owed = FALSE /\ counted = FALSE /\ missed = FALSE /\ twice = FALSE

errVars    == <<err, port, owed, counted, twice>>
filterVars == <<ramCs, mb, missed>>

-----------------------------------------------------------------------------
(* The filters.                                                            *)

(* CAN_WriteMsg of send() marks the staging register.                      *)
SendMarks ==
  /\ ramCs' = "TX" /\ UNCHANGED <<mb, missed, rxFifo, rxInt, trigger, cbTold, errVars>>

(* Mutant: the bit is not cleared first.                                   *)
StagedAsIs(bit) == bit

(* CAN_RAM_CS before CAN_SetRxMsgBuf, which commits what it holds.         *)
Staged(bit) == "RX"

(* machine_can_port_clear_filters: no filter accepts ordinary traffic.     *)
Cleared ==
  /\ ramCs' = Staged(ramCs)
  /\ mb' = [i \in Filters |-> [dir |-> Staged(ramCs), accepts |-> {}]]

ClearFilters ==
  /\ Cleared /\ UNCHANGED <<missed, rxFifo, rxInt, trigger, cbTold, errVars>>

(* machine_can_port_set_filter                                             *)
SetFilter(i, a) ==
  /\ ramCs' = Staged(ramCs) /\ mb' = [mb EXCEPT ![i] = [dir |-> Staged(ramCs), accepts |-> a]]
  /\ UNCHANGED <<missed, rxFifo, rxInt, trigger, cbTold, errVars>>

(* A frame on the bus: a receive buffer that accepts it puts it into the   *)
(* FIFO, unless that is full.                                              *)
Arrive(f) ==
  /\ err # "bus_off"
  /\ IF \E i \in Filters : mb[i].dir = "RX" /\ f \in mb[i].accepts
     THEN /\ rxFifo' = IF Len(rxFifo) < FifoDepth THEN Append(rxFifo, f) ELSE rxFifo
          /\ rxInt' = IF "RX" \in trigger THEN rxInt \cup {"RX"} ELSE rxInt
          /\ UNCHANGED missed
     ELSE /\ missed' = (missed \/ \E i \in Filters : f \in mb[i].accepts)
          /\ UNCHANGED <<rxFifo, rxInt>>
  /\ UNCHANGED <<ramCs, mb, trigger, cbTold, errVars>>

(* machine_can_port_recv                                                   *)
RecvFrame ==
  /\ rxFifo # <<>> /\ rxFifo' = Tail(rxFifo)
  /\ UNCHANGED <<rxInt, trigger, cbTold, filterVars, errVars>>

-----------------------------------------------------------------------------
(* The error state.                                                        *)

(* The controller changes its state, or meets one more error in it.  A     *)
(* state takes several frames to change, in which the interrupt for the    *)
(* one before is served; errors that change nothing may pile up.           *)
ErrorEvent(s) ==
  /\ err = "bus_off" => s = "active"
  /\ s = "bus_off" => err = "passive"
  /\ s # err => rxInt \cap {"ERR", "BUSOFF"} = {}
  /\ err' = s
  /\ rxInt' = rxInt \cup {"ERR"} \cup (IF s = "bus_off" THEN {"BUSOFF"} ELSE {})
  /\ owed' = ("STATE" \in trigger /\ s \in {"passive", "bus_off"} /\ (owed \/ s # err))
  /\ counted' = (counted /\ s = "passive")
  /\ UNCHANGED <<rxFifo, trigger, port, cbTold, twice, filterVars>>

(* Mutant: num_passive counts every error interrupt of a passive node.     *)
EntersPassiveAny == err = "passive"

(* The ERR branch: error-passive, and not known to be.                     *)
EntersPassive == err = "passive" /\ ~port.passive

(* The ERR and BUSOFF branches: does the state change concern the program? *)
StateChange ==
  \/ "ERR" \in rxInt /\ (EntersPassive \/ err = "warning")
  \/ "BUSOFF" \in rxInt

(* can_port_isr, but for TX.                                               *)
CanIsr ==
  /\ rxInt # {} /\ rxInt' = {}
  /\ LET state == StateChange /\ "STATE" \in trigger
         rx    == "RX" \in rxInt /\ "RX" \in trigger
     IN  /\ port' = [passive |-> IF "BUSOFF" \in rxInt THEN FALSE
                                 ELSE IF "ERR" \in rxInt THEN err = "passive" ELSE port.passive,
                     statePending |-> port.statePending \/ state]
         /\ cbTold' = (cbTold \/ state \/ rx)
  /\ LET counts == "ERR" \in rxInt /\ EntersPassive
     IN  twice' = (twice \/ (counts /\ counted)) /\ counted' = (counted \/ counts)
  /\ UNCHANGED <<rxFifo, trigger, err, owed, filterVars>>

(* The callback, which calls irq().flags(): machine_can_port_irq_flags.    *)
CanCallback ==
  /\ cbTold /\ cbTold' = FALSE
  /\ LET tells == "STATE" \in trigger /\ port.statePending
     IN  port' = [port EXCEPT !.statePending = @ /\ ~tells] /\ owed' = (owed /\ ~tells)
  /\ UNCHANGED <<rxFifo, rxInt, trigger, err, counted, twice, filterVars>>

(* CAN.irq() and machine_can_update_irqs.                                  *)
SetTrigger(s) ==
  /\ trigger' = s /\ owed' = (owed /\ "STATE" \in s)
  /\ UNCHANGED <<rxFifo, rxInt, err, port, cbTold, counted, twice, filterVars>>

(* machine_can_port_restart                                                *)
CanRestart ==
  /\ err' = "active" /\ rxInt' = {} /\ port' = [passive |-> FALSE, statePending |-> FALSE]
  /\ owed' = FALSE /\ counted' = FALSE
  /\ UNCHANGED <<rxFifo, trigger, cbTold, twice, filterVars>>

(* machine_can_port_init after machine_can_port_deinit; ETIMEDOUT when the *)
(* bus does not come on, before the filters are cleared.                   *)
CanReinit ==
  /\ err' = "active" /\ rxInt' = {} /\ port' = [passive |-> FALSE, statePending |-> FALSE]
  /\ owed' = FALSE /\ counted' = FALSE /\ rxFifo' = <<>>
  /\ Cleared \/ UNCHANGED <<ramCs, mb>>
  /\ UNCHANGED <<trigger, cbTold, twice, missed>>

CanRxNext ==
  \/ SendMarks \/ ClearFilters \/ (\E i \in Filters, a \in SUBSET Frames : SetFilter(i, a))
  \/ (\E f \in Frames : Arrive(f)) \/ RecvFrame
  \/ (\E s \in ErrStates : ErrorEvent(s)) \/ CanIsr \/ CanCallback
  \/ (\E s \in SUBSET {"RX", "STATE"} : SetTrigger(s)) \/ CanRestart \/ CanReinit

CanRxSpec == CanRxInit /\ [][CanRxNext]_canRxVars

-----------------------------------------------------------------------------
(* The state is well typed, and a frame that some filter accepts goes to   *)
(* the receive FIFO, which drops it only when it is full, whatever was     *)
(* sent before the filters were set (comment at machine_can.c:451-475).    *)
FilterReceives == CanRxTypeOK /\ ~missed

(* A period in the error-passive state is counted once in num_passive,     *)
(* however many error interrupts, restarts and bus-offs there are; and     *)
(* once no interrupt is pending, error_passive is the state of the         *)
(* controller, and a program that listens for IRQ_STATE has been, or is    *)
(* being, told that the node is passive or off the bus.                    *)
StateReported ==
  /\ ~twice
  /\ {"ERR", "BUSOFF"} \cap rxInt = {} =>
       /\ port.passive <=> err = "passive"
       /\ owed => port.statePending /\ cbTold
=============================================================================
