------------------------------- MODULE Timer -------------------------------
(***************************************************************************)
(* machine.Timer (machine_timer.c): objects on the collected heap that     *)
(* share a pool of hardware timers, and the timer interrupt, which gets    *)
(* the address of the object and may come between any two steps of a call. *)
(*                                                                         *)
(* A slot of the root pointer array holds the object of each hardware      *)
(* timer in use.  The calls run under the GIL.                             *)
(***************************************************************************)
CONSTANTS
  Timers,   \* heap blocks for Timer objects
  Pool,     \* machine_timer_pool
  Nil       \* NULL, and the hardware id -1

ASSUME TimerAssumption ==
  Nil \notin Timers /\ Nil \notin Pool

VARIABLES
  obj,      \* "none", "live" or "freed"
  held,     \* objects the program refers to
  hwId,     \* hw_id of each object
  slot,     \* MP_STATE_PORT(machine_timer_obj)
  mode,     \* mode of each object; stands for period_us and callback too
  hard,     \* the flag of each object: run the callback in the interrupt
  run,      \* each hardware timer: "off", "oneshot" or "periodic"
  hid,      \* the object its interrupt is given
  py,       \* the call in progress
  sweep     \* a soft reset is finalising the heap

vars == <<obj, held, hwId, slot, mode, hard, run, hid, py, sweep>>

Modes == {"oneshot", "periodic"}
Idle  == [pc |-> "idle", t |-> Nil, mode |-> "periodic", hard |-> FALSE]

TypeOK ==
  /\ obj \in [Timers -> {"none", "live", "freed"}] /\ held \subseteq Timers
  /\ hwId \in [Timers -> Pool \cup {Nil}] /\ slot \in [Pool -> Timers \cup {Nil}]
  /\ mode \in [Timers -> Modes] /\ hard \in [Timers -> BOOLEAN]
  /\ run \in [Pool -> Modes \cup {"off"}] /\ hid \in [Pool -> Timers \cup {Nil}]
  /\ py \in [pc : {"idle", "hard", "period", "fields", "alloc", "start"}, t : Timers \cup {Nil},
             mode : Modes, hard : BOOLEAN]
  /\ sweep \in BOOLEAN

Init ==
  /\ obj = [t \in Timers |-> "none"] /\ held = {}
  /\ hwId = [t \in Timers |-> Nil] /\ slot = [h \in Pool |-> Nil]
  /\ mode = [t \in Timers |-> "periodic"] /\ hard = [t \in Timers |-> FALSE]
  /\ run = [h \in Pool |-> "off"] /\ hid = [h \in Pool |-> Nil]
  /\ py = Idle /\ sweep = FALSE

Goto(step) == py' = [py EXCEPT !.pc = step]

-----------------------------------------------------------------------------
(* machine_timer_make_new                                                  *)
MakeNew(t) ==
  /\ py = Idle /\ ~sweep /\ obj[t] # "live"
  /\ obj' = [obj EXCEPT ![t] = "live"] /\ held' = held \cup {t}
  /\ hwId' = [hwId EXCEPT ![t] = Nil]
  /\ mode' = [mode EXCEPT ![t] = "periodic"] /\ hard' = [hard EXCEPT ![t] = FALSE]
  /\ UNCHANGED <<slot, run, hid, py, sweep>>

(* init(mode, hard) on an object the program has.                          *)
Call(t, m, x) ==
  /\ py = Idle /\ ~sweep /\ t \in held
  /\ py' = [pc |-> "hard", t |-> t, mode |-> m, hard |-> x]
  /\ UNCHANGED <<obj, held, hwId, slot, mode, hard, run, hid, sweep>>

(* machine_timer_init_helper, step by step.                                *)
SetHard ==
  /\ py.pc = "hard" /\ hard' = [hard EXCEPT ![py.t] = py.hard] /\ Goto("period")
  /\ UNCHANGED <<obj, held, hwId, slot, mode, run, hid, sweep>>

(* An invalid freq, tick_hz or period raises ValueError.                   *)
Raise ==
  /\ py.pc = "period" /\ py' = Idle
  /\ UNCHANGED <<obj, held, hwId, slot, mode, hard, run, hid, sweep>>

(* Mutant: init() or deinit() does not stop the hardware timer.            *)
StoppedNot(t) == run

(* gtimer_stop, when the object has a timer.                               *)
Stopped(t) == [h \in Pool |-> IF h = hwId[t] THEN "off" ELSE run[h]]

(* Mutant: init() goes on with the hardware timer running.                 *)
StopNot ==
  /\ py.pc = "period" /\ Goto("fields")
  /\ UNCHANGED <<obj, held, hwId, slot, mode, hard, run, hid, sweep>>

(* A timer that has its hardware stops it before the fields change.        *)
Stop ==
  /\ py.pc = "period" /\ Goto("fields") /\ run' = Stopped(py.t)
  /\ UNCHANGED <<obj, held, hwId, slot, mode, hard, hid, sweep>>

SetFields ==
  /\ py.pc = "fields" /\ Goto("alloc")
  /\ mode' = [mode EXCEPT ![py.t] = py.mode]
  /\ UNCHANGED <<obj, held, hwId, slot, hard, run, hid, sweep>>

(* Mutant: every hardware timer that does not run is free.                 *)
FreeIfOff == {h \in Pool : run[h] = "off"}

(* machine_timer_alloc: a free timer of the pool.                          *)
Free == {h \in Pool : slot[h] = Nil}

Rooted(h, t) == [slot EXCEPT ![h] = t]

Alloc ==
  /\ py.pc = "alloc"
  /\ \/ /\ hwId[py.t] # Nil /\ Goto("start") /\ UNCHANGED <<hwId, slot>>
     \/ /\ hwId[py.t] = Nil
        /\ \E h \in Free : hwId' = [hwId EXCEPT ![py.t] = h] /\ slot' = Rooted(h, py.t)
        /\ Goto("start")
     \/ /\ hwId[py.t] = Nil /\ Free = {} /\ py' = Idle /\ UNCHANGED <<hwId, slot>>
  /\ UNCHANGED <<obj, held, mode, hard, run, hid, sweep>>

Start ==
  /\ py.pc = "start" /\ py' = Idle
  /\ run' = [run EXCEPT ![hwId[py.t]] = mode[py.t]]
  /\ hid' = [hid EXCEPT ![hwId[py.t]] = py.t]
  /\ UNCHANGED <<obj, held, hwId, slot, mode, hard, sweep>>

(* machine_timer_deinit: deinit() and the finaliser.                       *)
Release(t) ==
  /\ run' = Stopped(t)
  /\ slot' = [h \in Pool |-> IF h = hwId[t] THEN Nil ELSE slot[h]]
  /\ hwId' = [hwId EXCEPT ![t] = Nil]

Deinit(t) ==
  /\ py = Idle /\ ~sweep /\ t \in held /\ Release(t)
  /\ UNCHANGED <<obj, held, mode, hard, hid, py, sweep>>

-----------------------------------------------------------------------------
Drop(t) ==
  /\ t \in held /\ held' = held \ {t}
  /\ UNCHANGED <<obj, hwId, slot, mode, hard, run, hid, py, sweep>>

(* The collector finalises and frees an object that neither the program,   *)
(* nor a call, nor a slot refers to.                                       *)
Collect(t) ==
  /\ obj[t] = "live" /\ ~sweep
  /\ t \notin held /\ t # py.t /\ \A h \in Pool : slot[h] # t
  /\ Release(t) /\ obj' = [obj EXCEPT ![t] = "freed"]
  /\ UNCHANGED <<held, mode, hard, hid, py, sweep>>

(* The soft reset: gc_sweep_all finalises and frees every object.          *)
SoftReset ==
  /\ py = Idle /\ ~sweep /\ sweep' = TRUE /\ held' = {}
  /\ UNCHANGED <<obj, hwId, slot, mode, hard, run, hid, py>>

SweepOne(t) ==
  /\ sweep /\ obj[t] = "live" /\ Release(t) /\ obj' = [obj EXCEPT ![t] = "freed"]
  /\ UNCHANGED <<held, mode, hard, hid, py, sweep>>

SweepEnd ==
  /\ sweep /\ (\A t \in Timers : obj[t] # "live") /\ sweep' = FALSE
  /\ UNCHANGED <<obj, held, hwId, slot, mode, hard, run, hid, py>>

(* machine_timer_isr.  The callback gets the object and may keep it.       *)
Isr(h) ==
  /\ run[h] # "off"
  /\ run' = [run EXCEPT ![h] = IF @ = "oneshot" THEN "off" ELSE @]
  /\ held' \in (IF sweep THEN {held} ELSE {held, held \cup {hid[h]}})
  /\ UNCHANGED <<obj, hwId, slot, mode, hard, hid, py, sweep>>

Next ==
  \/ \E t \in Timers :
       \/ MakeNew(t) \/ Deinit(t) \/ Drop(t) \/ Collect(t) \/ SweepOne(t)
       \/ \E m \in Modes, x \in BOOLEAN : Call(t, m, x)
  \/ SetHard \/ Raise \/ Stop \/ SetFields \/ Alloc \/ Start
  \/ SoftReset \/ SweepEnd
  \/ \E h \in Pool : Isr(h)

Spec == Init /\ [][Next]_vars

-----------------------------------------------------------------------------
(* The slots and the ids agree: a slot holds the object that has its       *)
(* timer and nothing else, so two objects never share one, and none is     *)
(* lost.                                                                   *)
SlotsAgree ==
  \A h \in Pool, t \in Timers : slot[h] = t <=> obj[t] = "live" /\ hwId[t] = h

(* A running timer is the one of its slot: with SlotsAgree, its interrupt  *)
(* never gets the address of a freed object, whether deinit(), the         *)
(* collector or a soft reset took the object away.                         *)
RunningIsRooted == \A h \in Pool : run[h] # "off" => slot[h] = hid[h] /\ slot[h] # Nil

(* The fields of an object describe its timer as long as it runs: an       *)
(* interrupt never reads half of a re-initialisation (comment at           *)
(* machine_timer.c:137).  The flag hard is not one of them: init() writes  *)
(* it before it stops the timer.                                           *)
WholeUpdate == \A h \in Pool : run[h] # "off" => mode[hid[h]] = run[h]
=============================================================================
