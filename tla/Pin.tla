-------------------------------- MODULE Pin --------------------------------
(***************************************************************************)
(* machine.Pin (machine_pin.c): one pin, its pad and its interrupt, and    *)
(* the functions mp_hal_pin_* through which other drivers use the pad.     *)
(*                                                                         *)
(* The pin objects are static and survive the soft reset; the handlers are *)
(* heap objects in a root array.  A call runs under the GIL, but the wire  *)
(* sees each write to a register of the pad, and the interrupt may come    *)
(* between two of them: a call makes its first write, and then is the one  *)
(* it has left.  gpio_irq_init is external and leaves the pull in any      *)
(* state (comment at machine_pin.c:498).                                   *)
(***************************************************************************)
EXTENDS Naturals

CONSTANTS
  Handlers,   \* heap blocks for handlers
  NoHandler   \* MP_OBJ_NULL and mp_const_none

ASSUME PinAssumption == NoHandler \notin Handlers

VARIABLES
  pin,        \* the fields of the object
  pad,        \* the registers of the pad: direction, output latch, pull
  then,       \* the write to the pad that the call in progress has left
  lowered,    \* history: the pad was driven low since it is open drain
  pirq,       \* the interrupt: irq_initialized, irq_trigger, and the hardware
  handler,    \* MP_STATE_PORT(machine_pin_irq_handler) of the pin
  alive,      \* handlers on the heap
  inUse,      \* handlers the program refers to
  sched,      \* handlers in the queue of the scheduler
  setup,      \* irq() has stored the handler and not yet set up the hardware
  swept,      \* the soft reset has swept the heap and not yet begun a session
  deadCall,   \* history: a handler was scheduled or run that was freed
  users       \* fixed: what programs do with the pin

heapVars == <<alive, inUse, sched>>
irqVars  == <<pirq, handler, heapVars, setup, swept, deadCall>>
padVars  == <<pin, pad, then, lowered>>
pinVars  == <<padVars, irqVars>>

PinModes == {"in", "out", "open_drain"}
Pulls    == {"PullNone", "PullUp"}
Levels   == {"low", "high"}
Triggers == {"rise", "fall"}
Nothing  == "nothing"

(* The drivers that use the pad: none, SoftI2C, or one that drives both    *)
(* levels; whether programs disable the interrupt before they end.         *)
Users == [driver : {"none", "SoftI2C", "push_pull"}, tidy : BOOLEAN]

PinTypeOK ==
  /\ pin \in [mode : PinModes, pull : Pulls, odHigh : BOOLEAN]
  /\ pad \in [dir : {"in", "out"}, latch : Levels, pull : Pulls]
  /\ then \in {Nothing, "in", "low"} \cup Pulls /\ lowered \in BOOLEAN
  /\ pirq \in [init : BOOLEAN, trigger : Triggers, event : Triggers, armed : BOOLEAN]
  /\ handler \in Handlers \cup {NoHandler}
  /\ alive \subseteq Handlers /\ inUse \subseteq alive /\ sched \subseteq Handlers
  /\ setup \in BOOLEAN /\ swept \in BOOLEAN /\ deadCall \in BOOLEAN /\ users \in Users

(* machine_pin_table_init                                                  *)
PinInit ==
  /\ pin = [mode |-> "in", pull |-> "PullNone", odHigh |-> TRUE]
  /\ pad = [dir |-> "in", latch |-> "low", pull |-> "PullNone"]
  /\ then = Nothing /\ lowered = FALSE
  /\ pirq = [init |-> FALSE, trigger |-> "rise", event |-> "rise", armed |-> FALSE]
  /\ handler = NoHandler /\ alive = {} /\ inUse = {} /\ sched = {}
  /\ setup = FALSE /\ swept = FALSE /\ deadCall = FALSE
  /\ users \in Users

(* A call of the program; no other is in progress.                         *)
Running == ~setup /\ ~swept /\ then = Nothing

-----------------------------------------------------------------------------
(* The pad.  Open drain is emulated: low is an output of 0, high an input. *)

(* gpio_dir, gpio_write, gpio_pull_ctrl                                    *)
Put(w) ==
  CASE w \in {"in", "out"} -> [pad EXCEPT !.dir = w]
    [] w \in Levels        -> [pad EXCEPT !.latch = w]
    [] w \in Pulls         -> [pad EXCEPT !.pull = w]

(* A call whose first write is w, followed by w2 if that is one.           *)
Puts(w, w2) == pad' = Put(w) /\ then' = w2

Finish ==
  /\ then # Nothing /\ Puts(then, Nothing)
  /\ lowered' = (lowered \/ (then = "low" /\ pin.mode = "open_drain"))
  /\ UNCHANGED <<pin, irqVars>>

(* In open-drain mode the direction goes out before the latch is cleared.  *)
Written(v) ==
  IF pin.mode = "open_drain"
  THEN /\ pin' = [pin EXCEPT !.odHigh = v = "high"]
       /\ IF v = "low" THEN Puts("out", "low") ELSE Puts("in", Nothing)
  ELSE Puts(v, Nothing) /\ UNCHANGED pin

(* init(mode).  Open drain is made an output first, then released.         *)
InitMode(m) ==
  /\ Running
  /\ pin' = [pin EXCEPT !.mode = m, !.odHigh = @ \/ m = "open_drain"]
  /\ Puts(IF m = "in" THEN "in" ELSE "out", IF m = "open_drain" THEN "in" ELSE Nothing)
  /\ lowered' = (lowered /\ m = "open_drain") /\ UNCHANGED irqVars

InitPull(q) ==
  /\ Running /\ pin' = [pin EXCEPT !.pull = q] /\ Puts(q, Nothing)
  /\ UNCHANGED <<lowered, irqVars>>

InitValue(v) ==
  Running /\ pin.mode # "in" /\ Written(v) /\ UNCHANGED <<lowered, irqVars>>

(* init(), and Pin() with more than a name, are these in sequence: each    *)
(* argument may be absent, and the conversion of one may raise after the   *)
(* earlier ones have taken effect.                                         *)
InitHelper ==
  \/ \E m \in PinModes : InitMode(m)
  \/ \E q \in Pulls : InitPull(q)
  \/ \E v \in Levels : InitValue(v)

(* machine_pin_call, value(), on(), off(), MP_PIN_WRITE.                   *)
Write(v) == Running /\ Written(v) /\ UNCHANGED <<lowered, irqVars>>

(* machine_pin_toggle: by od_output_high, or by the level that is read,    *)
(* which is that of the line when the pad is an input.                     *)
Toggled(read) ==
  IF pin.mode = "open_drain" THEN IF pin.odHigh THEN "low" ELSE "high"
                             ELSE IF read = "high" THEN "low" ELSE "high"

Toggle(read) ==
  /\ Running /\ (pad.dir = "out" => read = pad.latch)
  /\ Written(Toggled(read)) /\ UNCHANGED <<lowered, irqVars>>

(* mp_hal_pin_open_drain, mp_hal_pin_od_low, mp_hal_pin_od_high.           *)
SoftI2C ==
  /\ Running /\ users.driver = "SoftI2C"
  /\ Puts("out", "low") \/ Puts("in", Nothing)
  /\ UNCHANGED <<pin, lowered, irqVars>>

(* mp_hal_pin_input, mp_hal_pin_output, mp_hal_pin_write.                  *)
PushPull ==
  /\ Running /\ users.driver = "push_pull"
  /\ \E w \in {"in", "out"} \cup Levels : Puts(w, Nothing)
  /\ UNCHANGED <<pin, lowered, irqVars>>

-----------------------------------------------------------------------------
(* The interrupt.                                                          *)

(* irq(handler, trigger): the handler and the trigger first.               *)
IrqStore(h, tr) ==
  /\ Running /\ h \in inUse \cup {NoHandler}
  /\ handler' = h /\ pirq' = [pirq EXCEPT !.trigger = tr] /\ setup' = TRUE
  /\ UNCHANGED <<padVars, swept, deadCall>> /\ UNCHANGED heapVars

(* Mutant: the pull is not applied again.                                  *)
RepullNot == Nothing

Repull == pin.pull

(* The first irq() with a handler: gpio_irq_init, gpio_irq_pull_ctrl.      *)
IrqInit ==
  /\ setup /\ handler # NoHandler /\ ~pirq.init
  /\ pirq' = [pirq EXCEPT !.init = TRUE]
  /\ (\E q \in Pulls : pad' = Put(q)) /\ then' = Repull
  /\ UNCHANGED <<pin, lowered, handler, setup, swept, deadCall>> /\ UNCHANGED heapVars

Disabled(i) == IF i.init THEN [i EXCEPT !.armed = FALSE] ELSE i

(* The interrupt is disabled, or its event set and the interrupt enabled.  *)
IrqHardware ==
  /\ setup /\ then = Nothing /\ setup' = FALSE
  /\ \/ handler = NoHandler /\ pirq' = Disabled(pirq)
     \/ /\ handler # NoHandler /\ pirq.init
        /\ pirq' = [pirq EXCEPT !.event = pirq.trigger, !.armed = TRUE]
  /\ UNCHANGED <<padVars, handler, swept, deadCall>> /\ UNCHANGED heapVars

(* machine_pin_irq_trigger                                                 *)
IrqTrigger(tr) ==
  /\ Running /\ pirq' = [pirq EXCEPT !.trigger = tr, !.event = IF pirq.init THEN tr ELSE @]
  /\ UNCHANGED <<padVars, handler, setup, swept, deadCall>> /\ UNCHANGED heapVars

(* machine_pin_isr_handler: mp_sched_schedule of the handler; when the     *)
(* queue is full the event is lost.                                        *)
Scheduled ==
  /\ handler # NoHandler /\ handler \notin sched
  /\ sched' = sched \cup {handler} /\ deadCall' = (deadCall \/ handler \notin alive)
  /\ UNCHANGED <<padVars, pirq, handler, alive, inUse, setup, swept>>

PinIsr     == pirq.armed /\ Scheduled
PinIrqCall == Running /\ Scheduled

-----------------------------------------------------------------------------
(* The program, the collector and the soft reset.                          *)
RunHandler(h) ==
  /\ Running /\ h \in sched /\ sched' = sched \ {h}
  /\ deadCall' = (deadCall \/ h \notin alive)
  /\ UNCHANGED <<padVars, pirq, handler, alive, inUse, setup, swept>>

NewHandler(h) ==
  /\ Running /\ h \notin alive /\ alive' = alive \cup {h} /\ inUse' = inUse \cup {h}
  /\ UNCHANGED <<padVars, pirq, handler, sched, setup, swept, deadCall>>

DropHandler(h) ==
  /\ Running /\ h \in inUse /\ inUse' = inUse \ {h}
  /\ UNCHANGED <<padVars, pirq, handler, alive, sched, setup, swept, deadCall>>

(* Mutant: the array of handlers is not registered as a root.              *)
KeptByProgram == inUse \cup sched

(* What a collection keeps: the root array and the queue of the scheduler  *)
(* refer to handlers too.                                                  *)
Kept == inUse \cup sched \cup {handler}

CollectHandler(h) ==
  /\ Running /\ h \in alive \ Kept /\ alive' = alive \ {h}
  /\ UNCHANGED <<padVars, pirq, handler, inUse, sched, setup, swept, deadCall>>

(* soft_reset_exit has no call for the pins: gc_sweep_all frees the        *)
(* handlers, the root array and the hardware stay as they are.             *)
PinSweep ==
  /\ Running /\ (users.tidy => handler = NoHandler)
  /\ alive' = {} /\ inUse' = {} /\ swept' = TRUE
  /\ UNCHANGED <<padVars, pirq, handler, sched, setup, deadCall>>

(* mp_init empties the queue.                                              *)
PinSession ==
  /\ swept /\ swept' = FALSE /\ sched' = {}
  /\ UNCHANGED <<padVars, pirq, handler, alive, inUse, setup, deadCall>>

PinStep ==
  \/ InitHelper \/ (\E v \in Levels : Write(v) \/ Toggle(v)) \/ SoftI2C \/ PushPull \/ Finish
  \/ \E h \in Handlers \cup {NoHandler}, tr \in Triggers : IrqStore(h, tr)
  \/ IrqInit \/ IrqHardware \/ (\E tr \in Triggers : IrqTrigger(tr)) \/ PinIsr \/ PinIrqCall
  \/ \E h \in Handlers : RunHandler(h) \/ NewHandler(h) \/ DropHandler(h) \/ CollectHandler(h)
  \/ PinSweep \/ PinSession

PinNext == PinStep /\ UNCHANGED users

PinSpec == PinInit /\ [][PinNext]_<<pinVars, users>>

-----------------------------------------------------------------------------
(* The state is well typed, and between two calls the hardware is as the   *)
(* object says: the interrupt is enabled if and only if there is a         *)
(* handler, on the trigger the object has; the pull survives the first     *)
(* irq(); a pin in open-drain mode does not drive high, unless a driver    *)
(* drives both levels on it; and toggle() knows which way the pad is,      *)
(* unless SoftI2C uses the pin.  Within a call the pad may drive a high    *)
(* that was left in the latch, for the time of one write (lines 325 and    *)
(* 401), but not once it has been driven low in this mode.                 *)
PadAgrees ==
  /\ PinTypeOK
  /\ ~setup => /\ pirq.armed <=> handler # NoHandler
               /\ pirq.armed => pirq.event = pirq.trigger
  /\ (~setup /\ then = Nothing) => pad.pull = pin.pull
  /\ (pin.mode = "open_drain" /\ users.driver # "push_pull") =>
       /\ (pad.dir = "out" /\ (then = Nothing \/ lowered)) => pad.latch = "low"
       /\ (users.driver = "none" /\ then = Nothing) => (pin.odHigh <=> pad.dir = "in")

(* The pin interrupt, and the scheduler, never call a handler that has     *)
(* been freed, through collections, changes of the handler and soft        *)
(* resets, if programs call irq(None) before they end (machine_pin.c:464:  *)
(* otherwise the enabled interrupt finds a swept handler).                 *)
LiveHandler == users.tidy => ~deadCall
=============================================================================
