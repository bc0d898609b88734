------------------------------ MODULE RtcAlarm ------------------------------
(***************************************************************************)
(* The alarm of machine.RTC (machine_rtc.c): alarm(), alarm_cancel(),      *)
(* irq(), the alarm interrupt, the re-arming of a repeating alarm by the   *)
(* scheduler, and machine_rtc_deinit_all() of the soft reset.              *)
(*                                                                         *)
(* The vendor's interrupt routine disables the alarm after it has called   *)
(* the handler of the port (comment at machine_rtc.c:298-306), so the      *)
(* handler only advances alarm_target and queues a scheduler node; the     *)
(* interpreter re-arms the hardware when it runs that node.                *)
(*                                                                         *)
(* All times are seconds relative to the RTC: alarm_target and the armed   *)
(* time count down as the clock ticks.  The alarm condition is             *)
(* "target <= now" (comment at machine_rtc.c:178-192).                     *)
(***************************************************************************)
EXTENDS Integers

CONSTANTS
  Offsets,        \* whole seconds given to alarm()
  MaxLate,        \* bound: the clock stops this long after a target
  MaxAhead,       \* bound: the clock is not set further before a target
  None            \* no alarm

ASSUME RtcAssumption ==
  /\ Offsets \subseteq Int /\ MaxLate \in Nat /\ MaxAhead \in Nat /\ None \notin Int

VARIABLES
  inside,   \* fixed: TRUE when the interrupt may come in the middle of a call
  target,   \* alarm_target - now; None for the value 0
  repeat,   \* alarm_repeat
  ival,     \* alarm_interval_ms / 1000
  hw,       \* the time the hardware is armed for - now, or None
  cb,       \* machine_rtc_alarm_sched_node.callback is not NULL
  queued,   \* the node is in the scheduler's queue
  irq,      \* MP_STATE_PORT(machine_rtc_irq_object): "null", "live" or "swept"
  py,       \* the call in progress: its next step and its locals
  swept     \* history: the interrupt used an irq object of a dead session

alarmVars == <<target, repeat, ival, hw, cb, queued, irq, py, swept>>

Times == Int \cup {None}
Idle  == [pc |-> "idle", a |-> None, rep |-> FALSE, iv |-> 0]

RtcTypeOK ==
  /\ target \in Times /\ hw \in Times /\ ival \in Offsets \cup {0}
  /\ inside \in BOOLEAN /\ repeat \in BOOLEAN /\ cb \in BOOLEAN /\ queued \in BOOLEAN /\ swept \in BOOLEAN
  /\ irq \in {"null", "live", "swept"}
  /\ py \in [pc : {"idle", "target", "repeat", "ival", "set"}, a : Times,
             rep : BOOLEAN, iv : Offsets \cup {0}]

RtcInit ==
  /\ inside \in BOOLEAN
  /\ target = None /\ repeat = FALSE /\ ival = 0 /\ hw = None
  /\ cb = FALSE /\ queued = FALSE /\ irq = "null" /\ py = Idle /\ swept = FALSE

-----------------------------------------------------------------------------
(* machine_rtc_alarm: a repeating alarm needs at least 1000 ms.            *)
Accepted(off, rep) == rep => off >= 1

AlarmOffset(off, rep) ==
  /\ py = Idle /\ Accepted(off, rep)
  /\ py' = [pc |-> "target", a |-> off, rep |-> rep, iv |-> off]
  /\ UNCHANGED <<target, repeat, ival, hw, cb, queued, irq, swept>>

(* alarm() with a date and time never repeats.                             *)
AlarmTuple(off) ==
  /\ py = Idle
  /\ py' = [pc |-> "target", a |-> off, rep |-> FALSE, iv |-> 0]
  /\ UNCHANGED <<target, repeat, ival, hw, cb, queued, irq, swept>>

SetTarget ==
  /\ py.pc = "target" /\ target' = py.a /\ py' = [py EXCEPT !.pc = "repeat"]
  /\ UNCHANGED <<repeat, ival, hw, cb, queued, irq, swept>>

SetRepeat ==
  /\ py.pc = "repeat" /\ repeat' = py.rep /\ py' = [py EXCEPT !.pc = "ival"]
  /\ UNCHANGED <<target, ival, hw, cb, queued, irq, swept>>

SetInterval ==
  /\ py.pc = "ival" /\ ival' = py.iv /\ py' = [py EXCEPT !.pc = "set"]
  /\ UNCHANGED <<target, repeat, hw, cb, queued, irq, swept>>

(* rtc_set_alarm, at the end of alarm() and of the re-arming.              *)
SetAlarm ==
  /\ py.pc = "set" /\ hw' = py.a /\ py' = Idle
  /\ UNCHANGED <<target, repeat, ival, cb, queued, irq, swept>>

(* machine_rtc_alarm_cancel: the hardware first.                           *)
AlarmCancel ==
  /\ py = Idle /\ hw' = None /\ target' = None /\ repeat' = FALSE /\ ival' = 0
  /\ UNCHANGED <<cb, queued, irq, py, swept>>

(* machine_rtc_irq                                                         *)
Irq ==
  /\ py = Idle /\ irq = "null" /\ irq' = "live"
  /\ UNCHANGED <<target, repeat, ival, hw, cb, queued, py, swept>>

-----------------------------------------------------------------------------
(* alarm_target as a time: the value 0 is long past.                       *)
AsTime(t) == IF t = None THEN 0 - MaxLate ELSE t

(* The interrupt: machine_rtc_alarm_irq_handler, then the vendor's         *)
(* rtc_disable_alarm.  mp_sched_schedule_node does nothing when the node   *)
(* has a callback already.                                                 *)
Fire ==
  /\ hw # None /\ hw <= 0 /\ (inside \/ py = Idle)
  /\ IF repeat
     THEN target' = AsTime(target) + ival /\ cb' = TRUE /\ queued' = (queued \/ ~cb)
     ELSE target' = None /\ UNCHANGED <<cb, queued>>
  /\ swept' = (swept \/ irq = "swept")
  /\ hw' = None
  /\ UNCHANGED <<repeat, ival, irq, py>>

(* Mutant: the scheduled call does not look at alarm_repeat again.         *)
StillWantedAlways == TRUE

StillWanted == repeat

(* The scheduler runs the node: machine_rtc_alarm_rearm_scheduled.         *)
Pump ==
  /\ py = Idle /\ queued /\ queued' = FALSE /\ cb' = FALSE
  /\ py' = IF StillWanted THEN [Idle EXCEPT !.pc = "set", !.a = AsTime(target)] ELSE py
  /\ UNCHANGED <<target, repeat, ival, hw, irq, swept>>

(* Mutant: the soft reset forgets the node.                                *)
ResetCallbackKept == cb

ResetCallback == FALSE
ResetIrq == "null"

(* The soft reset: machine_rtc_deinit_all, gc_sweep_all, mp_init.          *)
SoftReset ==
  /\ py = Idle
  /\ hw' = None /\ target' = None /\ repeat' = FALSE /\ ival' = 0
  /\ cb' = ResetCallback /\ queued' = FALSE /\ irq' = ResetIrq
  /\ UNCHANGED <<py, swept>>

(* The clock moves forward by d: the times come nearer.                    *)
Nearer(t, d) == IF t = None THEN None ELSE t - d

Shift(d) ==
  /\ \A t \in {target, hw, py.a} \ {None} : Nearer(t, d) \in (0 - MaxLate) .. MaxAhead
  /\ target' = Nearer(target, d) /\ hw' = Nearer(hw, d)
  /\ py' = [py EXCEPT !.a = Nearer(@, d)]
  /\ UNCHANGED <<repeat, ival, cb, queued, irq, swept>>

(* A second passes.                                                        *)
Tick == Shift(1)

(* machine_rtc_datetime sets the clock; the alarm keeps its date and time. *)
Datetime(d) == py = Idle /\ Shift(d)

Alarm == SetTarget \/ SetRepeat \/ SetInterval \/ SetAlarm

RtcStep ==
  \/ \E off \in Offsets : AlarmTuple(off) \/ \E rep \in BOOLEAN : AlarmOffset(off, rep)
  \/ Alarm \/ AlarmCancel \/ Irq
  \/ Fire \/ Pump \/ SoftReset \/ Tick
  \/ \E d \in (0 - MaxAhead) .. MaxLate : Datetime(d)

RtcNext == RtcStep /\ UNCHANGED inside

(* A call goes on, and the interpreter runs what is scheduled between any  *)
(* two bytecodes and in every blocking wait.                               *)
RtcFairness == WF_alarmVars(Alarm) /\ WF_alarmVars(Pump)

RtcSpec == RtcInit /\ [][RtcNext]_<<alarmVars, inside>> /\ RtcFairness

-----------------------------------------------------------------------------
(* The state is well typed, no interrupt dispatches to an irq object that  *)
(* the soft reset has swept, and alarm_target is the time the hardware is  *)
(* armed for (comment at machine_rtc.c:71), whenever no call is in         *)
(* progress: neither an interrupt nor a re-arming queued by an earlier     *)
(* alarm makes them differ, unless the earlier alarm fires in the middle   *)
(* of alarm().                                                             *)
ArmedForTarget ==
  /\ RtcTypeOK /\ ~swept
  /\ ~inside /\ py = Idle /\ hw # None => target = hw

(* Each interrupt of a repeating alarm leaves its next time later than the *)
(* one that fired (comment at machine_rtc.c:178-192), so that it cannot    *)
(* fire for ever.                                                          *)
RepeatAdvances == [][~inside /\ Fire /\ repeat => target' > hw]_<<alarmVars, inside>>

(* A repeating alarm goes on: it advances, and it is armed again, unless   *)
(* it is cancelled or replaced, also after soft resets.                    *)
RepeatGoesOn ==
  /\ RepeatAdvances
  /\ (repeat /\ hw = None) ~> (hw # None \/ ~repeat)
=============================================================================
