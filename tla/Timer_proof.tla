---------------------------- MODULE Timer_proof ----------------------------
(***************************************************************************)
(* Timer objects and the hardware timers they use stay paired, the pads    *)
(* and handlers of machine.Pin agree with the objects, and the channels of *)
(* machine.PWM keep their duty: for every set of objects, handlers, pins,  *)
(* channels and frequencies.                                               *)
(***************************************************************************)
EXTENDS Timer, Pin, Pwm, WellFoundedInduction, TLAPS

(***************************************************************************)
(* machine.Timer.                                                          *)
(***************************************************************************)

(* A call works on an object that exists, and starts the timer it has.     *)
CallOK ==
  /\ py.pc # "idle" => py.t \in Timers /\ obj[py.t] = "live" /\ ~sweep
  /\ py.pc = "start" => hwId[py.t] # Nil

(* What the program refers to has not been freed, and a soft reset has     *)
(* ended the program.                                                      *)
HeldOK == (\A t \in held : obj[t] = "live") /\ (sweep => held = {})

(* SlotsAgree and RunningIsRooted are not inductive: Start needs CallOK to *)
(* know whose timer it starts, and a call needs HeldOK when it begins.     *)
IInv == TypeOK /\ SlotsAgree /\ RunningIsRooted /\ CallOK /\ HeldOK

LEMMA InitIInv == Init => IInv
<1> SUFFICES ASSUME Init PROVE IInv
  OBVIOUS
<1>1. TypeOK BY TimerAssumption DEF Init, TypeOK, Idle, Modes
<1>2. SlotsAgree BY TimerAssumption DEF Init, SlotsAgree
<1>3. RunningIsRooted BY DEF Init, RunningIsRooted
<1>4. CallOK /\ HeldOK BY DEF Init, CallOK, HeldOK, Idle
<1> QED BY <1>1, <1>2, <1>3, <1>4 DEF IInv

(* A running timer is that of a live object, which has it.                 *)
LEMMA RunningHasOwner ==
  ASSUME IInv, NEW h \in Pool, run[h] # "off"
  PROVE  hid[h] \in Timers /\ obj[hid[h]] = "live" /\ hwId[hid[h]] = h
BY DEF IInv, TypeOK, SlotsAgree, RunningIsRooted

(* What machine_timer_deinit keeps: the object it runs on is freed, or     *)
(* lives on without a timer.                                               *)
LEMMA ReleaseKeeps ==
  ASSUME IInv, NEW t \in Timers, obj[t] = "live", Release(t), hid' = hid,
         \/ obj' = obj
         \/ obj' = [obj EXCEPT ![t] = "freed"]
  PROVE  SlotsAgree' /\ RunningIsRooted'
<1>1. SlotsAgree'
  <2> SUFFICES ASSUME NEW h \in Pool, NEW u \in Timers
               PROVE  slot'[h] = u <=> obj'[u] = "live" /\ hwId'[u] = h
    BY DEF SlotsAgree
  <2>1. slot[h] = u <=> obj[u] = "live" /\ hwId[u] = h
    BY DEF IInv, SlotsAgree
  <2>2. slot'[h] = IF h = hwId[t] THEN Nil ELSE slot[h]
    BY DEF Release
  <2>3. hwId'[u] = IF u = t THEN Nil ELSE hwId[u]
    BY DEF IInv, TypeOK, Release
  <2>4. u # t => obj'[u] = obj[u]
    BY DEF IInv, TypeOK
  <2>5. h = hwId[t] => slot[h] = t
    BY DEF IInv, SlotsAgree
  <2> QED BY <2>1, <2>2, <2>3, <2>4, <2>5, TimerAssumption
<1>2. RunningIsRooted'
  BY TimerAssumption DEF IInv, TypeOK, RunningIsRooted, Release, Stopped
<1> QED BY <1>1, <1>2

LEMMA ReleaseType ==
  ASSUME IInv, NEW t \in Timers, Release(t)
  PROVE  /\ hwId' \in [Timers -> Pool \cup {Nil}]
         /\ slot' \in [Pool -> Timers \cup {Nil}]
         /\ run' \in [Pool -> Modes \cup {"off"}]
BY DEF IInv, TypeOK, Release, Stopped

(* Every step keeps the invariant.                                         *)
LEMMA StepIInv == IInv /\ [Next]_vars => IInv'
<1> SUFFICES ASSUME IInv, [Next]_vars PROVE IInv'
  OBVIOUS
<1> USE TimerAssumption DEF IInv
<1>1. ASSUME NEW t \in Timers, MakeNew(t) PROVE IInv'
  <2>1. TypeOK' BY <1>1 DEF MakeNew, TypeOK, Modes
  <2>2. SlotsAgree' BY <1>1 DEF MakeNew, TypeOK, SlotsAgree
  <2>3. RunningIsRooted' BY <1>1 DEF MakeNew, RunningIsRooted
  <2>4. CallOK' /\ HeldOK' BY <1>1 DEF MakeNew, TypeOK, CallOK, HeldOK, Idle
  <2> QED BY <2>1, <2>2, <2>3, <2>4
<1>2. ASSUME NEW t \in Timers, Deinit(t) PROVE IInv'
  <2>1. SlotsAgree' /\ RunningIsRooted' BY <1>2, ReleaseKeeps DEF Deinit, HeldOK
  <2>2. TypeOK' BY <1>2, ReleaseType DEF Deinit, TypeOK
  <2>3. CallOK' /\ HeldOK' BY <1>2 DEF Deinit, CallOK, HeldOK, Idle
  <2> QED BY <2>1, <2>2, <2>3
<1>3. ASSUME NEW t \in Timers, Drop(t) PROVE IInv'
  BY <1>3 DEF Drop, TypeOK, SlotsAgree, RunningIsRooted, CallOK, HeldOK
<1>4. ASSUME NEW t \in Timers, Collect(t) PROVE IInv'
  <2>1. SlotsAgree' /\ RunningIsRooted' BY <1>4, ReleaseKeeps DEF Collect
  <2>2. TypeOK' BY <1>4, ReleaseType DEF Collect, TypeOK
  <2>3. CallOK'
    BY <1>4 DEF Collect, Release, TypeOK, CallOK
  <2>4. HeldOK' BY <1>4 DEF Collect, TypeOK, HeldOK
  <2> QED BY <2>1, <2>2, <2>3, <2>4
<1>5. ASSUME NEW t \in Timers, SweepOne(t) PROVE IInv'
  <2>1. SlotsAgree' /\ RunningIsRooted' BY <1>5, ReleaseKeeps DEF SweepOne
  <2>2. TypeOK' BY <1>5, ReleaseType DEF SweepOne, TypeOK
  <2>3. CallOK'
    BY <1>5 DEF SweepOne, TypeOK, CallOK
  <2>4. HeldOK'
    BY <1>5 DEF SweepOne, TypeOK, HeldOK
  <2> QED BY <2>1, <2>2, <2>3, <2>4
<1>6. ASSUME NEW t \in Timers, NEW m \in Modes, NEW x \in BOOLEAN, Call(t, m, x) PROVE IInv'
  BY <1>6 DEF Call, TypeOK, SlotsAgree, RunningIsRooted, CallOK, HeldOK, Idle
<1>7. CASE SetHard
  <2>1. TypeOK' BY <1>7 DEF SetHard, Goto, TypeOK, CallOK
  <2> QED BY <2>1, <1>7 DEF SetHard, Goto, TypeOK, SlotsAgree, RunningIsRooted, CallOK, HeldOK
<1>8. CASE Raise
  BY <1>8 DEF Raise, TypeOK, SlotsAgree, RunningIsRooted, CallOK, HeldOK, Idle, Modes
<1>9. CASE Stop
  <2>1. TypeOK' BY <1>9 DEF Stop, Stopped, Goto, TypeOK
  <2> QED BY <2>1, <1>9 DEF Stop, Stopped, Goto, TypeOK, SlotsAgree, RunningIsRooted, CallOK, HeldOK
<1>10. CASE SetFields
  <2>1. TypeOK' BY <1>10 DEF SetFields, Goto, TypeOK, CallOK
  <2> QED BY <2>1, <1>10 DEF SetFields, Goto, TypeOK, SlotsAgree, RunningIsRooted, CallOK, HeldOK
<1>11. CASE Alloc
  <2>0. py.t \in Timers /\ obj[py.t] = "live" /\ ~sweep BY <1>11 DEF Alloc, CallOK
  <2>1. ASSUME hwId[py.t] # Nil, Goto("start"), UNCHANGED <<hwId, slot>> PROVE IInv'
    BY <1>11, <2>1, <2>0 DEF Alloc, Goto, TypeOK, SlotsAgree, RunningIsRooted, CallOK, HeldOK
  <2>2. ASSUME hwId[py.t] = Nil, Goto("start"), NEW h \in Free,
               hwId' = [hwId EXCEPT ![py.t] = h], slot' = Rooted(h, py.t)
        PROVE  IInv'
    <3>1. TypeOK' BY <1>11, <2>0, <2>2 DEF Alloc, Goto, Free, Rooted, TypeOK
    <3>2. SlotsAgree' BY <1>11, <2>0, <2>2 DEF Alloc, Free, Rooted, TypeOK, SlotsAgree
    <3>3. RunningIsRooted'
      BY <1>11, <2>0, <2>2 DEF Alloc, Free, Rooted, TypeOK, RunningIsRooted
    <3>4. CallOK' /\ HeldOK'
      BY <1>11, <2>0, <2>2 DEF Alloc, Goto, Free, TypeOK, CallOK, HeldOK
    <3> QED BY <3>1, <3>2, <3>3, <3>4
  <2>3. ASSUME py' = Idle, UNCHANGED <<hwId, slot>> PROVE IInv'
    BY <1>11, <2>3 DEF Alloc, TypeOK, SlotsAgree, RunningIsRooted, CallOK, HeldOK, Idle, Modes
  <2> QED BY <1>11, <2>1, <2>2, <2>3 DEF Alloc
<1>12. CASE Start
  <2>1. py.t \in Timers /\ obj[py.t] = "live" /\ hwId[py.t] \in Pool
    BY <1>12 DEF Start, CallOK, TypeOK
  <2>2. slot[hwId[py.t]] = py.t BY <2>1 DEF SlotsAgree
  <2>3. TypeOK' BY <1>12, <2>1 DEF Start, TypeOK, Idle, Modes
  <2>4. SlotsAgree' BY <1>12 DEF Start, SlotsAgree
  <2>5. RunningIsRooted' BY <1>12, <2>1, <2>2 DEF Start, TypeOK, RunningIsRooted
  <2>6. CallOK' /\ HeldOK' BY <1>12 DEF Start, CallOK, HeldOK, Idle
  <2> QED BY <2>3, <2>4, <2>5, <2>6
<1>13. CASE SoftReset
  BY <1>13 DEF SoftReset, TypeOK, SlotsAgree, RunningIsRooted, CallOK, HeldOK, Idle
<1>14. CASE SweepEnd
  <2>1. TypeOK' BY <1>14 DEF SweepEnd, TypeOK
  <2>2. SlotsAgree' /\ RunningIsRooted' BY <1>14 DEF SweepEnd, SlotsAgree, RunningIsRooted
  <2>3. CallOK' BY <1>14 DEF SweepEnd, CallOK
  <2>4. HeldOK' BY <1>14 DEF SweepEnd, HeldOK
  <2> QED BY <2>1, <2>2, <2>3, <2>4
<1>15. ASSUME NEW h \in Pool, Isr(h) PROVE IInv'
  <2>0. hid[h] \in Timers /\ obj[hid[h]] = "live" BY <1>15, RunningHasOwner DEF Isr
  <2>1. TypeOK' BY <1>15, <2>0 DEF Isr, TypeOK, Modes
  <2>2. SlotsAgree' /\ CallOK' /\ HeldOK' BY <1>15, <2>0 DEF Isr, SlotsAgree, CallOK, HeldOK
  <2>3. RunningIsRooted' BY <1>15 DEF Isr, TypeOK, RunningIsRooted
  <2> QED BY <2>1, <2>2, <2>3
<1>16. CASE UNCHANGED vars
  BY <1>16 DEF vars, TypeOK, SlotsAgree, RunningIsRooted, CallOK, HeldOK
<1> QED
  BY <1>1, <1>2, <1>3, <1>4, <1>5, <1>6, <1>7, <1>8, <1>9, <1>10, <1>11, <1>12, <1>13,
     <1>14, <1>15, <1>16 DEF Next

LEMMA IInvAlways == Spec => []IInv
BY InitIInv, StepIInv, PTL DEF Spec

(* Every reachable state of machine.Timer is well typed.                   *)
THEOREM TypeOKAlways == Spec => []TypeOK
<1>1. IInv => TypeOK BY DEF IInv
<1> QED BY <1>1, IInvAlways, PTL

(* Two Timer objects never share a hardware timer, none is lost, and the   *)
(* root array holds exactly the objects that have one.                     *)
THEOREM SlotsAgreeAlways == Spec => []SlotsAgree
<1>1. IInv => SlotsAgree BY DEF IInv
<1> QED BY <1>1, IInvAlways, PTL

(* A hardware timer that runs belongs to the object in its slot.           *)
THEOREM RunningIsRootedAlways == Spec => []RunningIsRooted
<1>1. IInv => RunningIsRooted BY DEF IInv
<1> QED BY <1>1, IInvAlways, PTL

(* The address the timer interrupt is given is that of an object that has  *)
(* not been freed, and that still has this timer.                          *)
THEOREM IsrOnLiveObject ==
  Spec => [](\A h \in Pool : run[h] # "off" => hid[h] \in Timers /\ obj[hid[h]] = "live" /\ hwId[hid[h]] = h)
<1>1. IInv => \A h \in Pool : run[h] # "off" => hid[h] \in Timers /\ obj[hid[h]] = "live" /\ hwId[hid[h]] = h
  BY DEF IInv, TypeOK, SlotsAgree, RunningIsRooted
<1> QED BY <1>1, IInvAlways, PTL
(***************************************************************************)
(* The fields describe the timer that runs.                                *)
(***************************************************************************)
(* From the stop of its timer to its start, a call works on a timer that   *)
(* does not run.                                                           *)
Quiet ==
  py.pc \in {"fields", "alloc", "start"} => \A h \in Pool : hwId[py.t] = h => run[h] = "off"

(* What machine_timer_deinit keeps.                                        *)
LEMMA ReleaseWhole ==
  ASSUME IInv, WholeUpdate, Quiet, NEW t \in Timers, Release(t), UNCHANGED <<mode, hid>>,
         py' = py, py.pc \in {"fields", "alloc", "start"} => t # py.t
  PROVE  WholeUpdate' /\ Quiet'
<1>1. run' = Stopped(t) /\ hwId' = [hwId EXCEPT ![t] = Nil]
  BY DEF Release
<1>2. WholeUpdate'
  BY <1>1 DEF WholeUpdate, Stopped
<1>3. Quiet'
  BY <1>1 DEF Quiet, Stopped, IInv, TypeOK
<1> QED BY <1>2, <1>3

LEMMA StepWhole ==
  ASSUME IInv, WholeUpdate, Quiet, [Next]_vars
  PROVE  WholeUpdate' /\ Quiet'
<1> USE TimerAssumption
<1>0. py \in [pc : {"idle", "hard", "period", "fields", "alloc", "start"}, t : Timers \cup {Nil},
              mode : Modes, hard : BOOLEAN]
  BY DEF IInv, TypeOK
<1>1. ASSUME NEW t \in Timers, MakeNew(t) PROVE WholeUpdate' /\ Quiet'
  <2>1. \A h \in Pool : run[h] # "off" => hid[h] # t
    BY <1>1, RunningHasOwner DEF MakeNew
  <2>2. WholeUpdate' BY <1>1, <2>1, RunningHasOwner DEF MakeNew, WholeUpdate, IInv, TypeOK
  <2>3. Quiet' BY <1>1 DEF MakeNew, Quiet, Idle
  <2> QED BY <2>2, <2>3
<1>2. ASSUME NEW t \in Timers, Deinit(t) PROVE WholeUpdate' /\ Quiet'
  BY <1>2, ReleaseWhole DEF Deinit, Idle
<1>3. ASSUME NEW t \in Timers, Drop(t) PROVE WholeUpdate' /\ Quiet'
  BY <1>3 DEF Drop, WholeUpdate, Quiet
<1>4. ASSUME NEW t \in Timers, Collect(t) PROVE WholeUpdate' /\ Quiet'
  BY <1>4, ReleaseWhole DEF Collect
<1>5. ASSUME NEW t \in Timers, SweepOne(t) PROVE WholeUpdate' /\ Quiet'
  <2>1. py.pc = "idle" BY <1>5 DEF SweepOne, IInv, CallOK
  <2> QED BY <1>5, <2>1, ReleaseWhole DEF SweepOne
<1>6. ASSUME NEW t \in Timers, NEW m \in Modes, NEW x \in BOOLEAN, Call(t, m, x)
      PROVE  WholeUpdate' /\ Quiet'
  BY <1>6 DEF Call, WholeUpdate, Quiet
<1>7. CASE SetHard
  BY <1>0, <1>7 DEF SetHard, Goto, WholeUpdate, Quiet
<1>8. CASE Raise
  BY <1>8 DEF Raise, WholeUpdate, Quiet, Idle
<1>9. CASE Stop
  BY <1>0, <1>9 DEF Stop, Stopped, Goto, WholeUpdate, Quiet
<1>10. CASE SetFields
  <2>1. py.t \in Timers /\ py' = [py EXCEPT !.pc = "alloc"] /\ UNCHANGED <<run, hid, hwId>>
        /\ mode' = [mode EXCEPT ![py.t] = py.mode]
    BY <1>10 DEF SetFields, Goto, IInv, CallOK
  <2>2. \A h \in Pool : run[h] # "off" => hid[h] # py.t
    BY <1>10, RunningHasOwner DEF SetFields, Quiet
  <2>3. WholeUpdate' BY <2>1, <2>2, RunningHasOwner DEF WholeUpdate, IInv, TypeOK
  <2>4. Quiet' BY <1>0, <1>10, <2>1 DEF SetFields, Quiet
  <2> QED BY <2>3, <2>4
<1>11. CASE Alloc
  <2>1. WholeUpdate' BY <1>11 DEF Alloc, WholeUpdate
  <2>2. CASE hwId[py.t] # Nil
    BY <1>0, <1>11, <2>1, <2>2 DEF Alloc, Goto, Quiet
  <2>3. CASE hwId[py.t] = Nil
    <3>1. CASE py' = Idle BY <2>1, <3>1 DEF Quiet, Idle
    <3>2. ASSUME NEW h \in Free, hwId' = [hwId EXCEPT ![py.t] = h], Goto("start")
          PROVE  Quiet'
      <4>1. py.t \in Timers BY <1>11 DEF Alloc, IInv, CallOK
      <4>2. h \in Pool /\ run[h] = "off" BY DEF Free, IInv, RunningIsRooted
      <4>3. hwId'[py.t] = h /\ py'.t = py.t /\ run' = run
        BY <1>0, <1>11, <3>2, <4>1 DEF Alloc, Goto, IInv, TypeOK
      <4> QED BY <4>2, <4>3 DEF Quiet
    <3> QED BY <1>11, <2>1, <2>3, <3>1, <3>2 DEF Alloc
  <2> QED BY <2>1, <2>2, <2>3
<1>12. CASE Start
  <2>1. py.t \in Timers /\ hwId[py.t] \in Pool
    BY <1>12 DEF Start, IInv, CallOK, TypeOK
  <2>2. WholeUpdate' BY <1>12, <2>1 DEF Start, WholeUpdate, IInv, TypeOK
  <2>3. Quiet' BY <1>12 DEF Start, Quiet, Idle
  <2> QED BY <2>2, <2>3
<1>13. CASE SoftReset BY <1>13 DEF SoftReset, WholeUpdate, Quiet
<1>14. CASE SweepEnd BY <1>14 DEF SweepEnd, WholeUpdate, Quiet
<1>15. ASSUME NEW h \in Pool, Isr(h) PROVE WholeUpdate' /\ Quiet'
  <2>1. \A g \in Pool : run'[g] = run[g] \/ run'[g] = "off"
    BY <1>15 DEF Isr, IInv, TypeOK
  <2> QED BY <1>15, <2>1 DEF Isr, WholeUpdate, Quiet
<1>16. CASE UNCHANGED vars BY <1>16 DEF vars, WholeUpdate, Quiet
<1> QED
  BY <1>1, <1>2, <1>3, <1>4, <1>5, <1>6, <1>7, <1>8, <1>9, <1>10, <1>11, <1>12, <1>13,
     <1>14, <1>15, <1>16 DEF Next

(* The interrupt of a running timer never finds the fields of a later      *)
(* init() in its object: machine_timer_init_helper stops the timer first.  *)
THEOREM WholeUpdateAlways == Spec => []WholeUpdate
<1>1. Init => WholeUpdate /\ Quiet
  BY DEF Init, WholeUpdate, Quiet, Idle
<1>2. IInv /\ (WholeUpdate /\ Quiet) /\ [Next]_vars => (WholeUpdate /\ Quiet)'
  BY StepWhole
<1> QED BY <1>1, <1>2, IInvAlways, PTL DEF Spec
(***************************************************************************)
(* The pad.                                                                *)
(***************************************************************************)
PinFields == [mode : PinModes, pull : Pulls, odHigh : BOOLEAN]
PadRegs   == [dir : {"in", "out"}, latch : Levels, pull : Pulls]

(* The pull of the pad is that of the object, or will be with the write    *)
(* that is left.                                                           *)
PullOK == /\ then \in Pulls => then = pin.pull
          /\ then \notin Pulls => pad.pull = pin.pull

(* What a pin in open-drain mode keeps, with the write that is left: its   *)
(* latch is low where the pad is an output and no write will change that,  *)
(* and from the first low to the next mode.                                *)
DrainOK ==
  /\ lowered => pin.mode = "open_drain"
  /\ (pin.mode = "open_drain" /\ users.driver # "push_pull") =>
       /\ lowered => pad.latch = "low"
       /\ (pad.dir = "out" /\ then \notin {"in", "low"}) => pad.latch = "low"
       /\ users.driver = "none" =>
            /\ then = "in" => pin.odHigh
            /\ then = "low" => ~pin.odHigh /\ pad.dir = "out"
            /\ then \notin {"in", "low"} => (pin.odHigh <=> pad.dir = "in")

PadTypeOK ==
  /\ pin \in PinFields /\ pad \in PadRegs /\ lowered \in BOOLEAN
  /\ then \in {Nothing, "in", "low"} \cup Pulls

PadInv == PadTypeOK /\ PullOK /\ DrainOK /\ (setup => then \notin {"in", "low"})

(* What one write does.                                                    *)
LEMMA PutIs ==
  /\ \A w \in {"in", "out"} : Put(w) = [pad EXCEPT !.dir = w]
  /\ \A w \in Levels : Put(w) = [pad EXCEPT !.latch = w]
  /\ \A w \in Pulls : Put(w) = [pad EXCEPT !.pull = w]
BY DEF Put, Levels, Pulls

LEMMA PutType ==
  ASSUME pad \in PadRegs, NEW w \in {"in", "out"} \cup Levels \cup Pulls
  PROVE  Put(w) \in PadRegs
BY PutIs DEF PadRegs, Levels, Pulls

(* The second write of a call.                                             *)
LEMMA FinishPad ==
  ASSUME PadInv, Finish, users' = users
  PROVE  PadInv'
<1>1. /\ then # Nothing /\ pad' = Put(then) /\ then' = Nothing /\ pin' = pin /\ setup' = setup
      /\ lowered' = (lowered \/ (then = "low" /\ pin.mode = "open_drain"))
  BY DEF Finish, Puts, irqVars
<1>2. Nothing \notin {"in", "low"} \cup Pulls BY DEF Nothing, Pulls
<1>3. CASE then = "in"
  <2>1. pad' = [pad EXCEPT !.dir = "in"] BY <1>1, <1>3, PutIs
  <2> QED BY <1>1, <1>2, <1>3, <2>1 DEF PadInv, PadTypeOK, PullOK, DrainOK, PadRegs, Pulls
<1>4. CASE then = "low"
  <2>1. pad' = [pad EXCEPT !.latch = "low"] BY <1>1, <1>4, PutIs DEF Levels
  <2> QED BY <1>1, <1>2, <1>4, <2>1 DEF PadInv, PadTypeOK, PullOK, DrainOK, PadRegs, Pulls, Levels
<1>5. CASE then \in Pulls
  <2>1. pad' = [pad EXCEPT !.pull = then] BY <1>1, <1>5, PutIs
  <2> QED BY <1>1, <1>2, <1>5, <2>1 DEF PadInv, PadTypeOK, PullOK, DrainOK, PadRegs, Pulls
<1> QED BY <1>1, <1>3, <1>4, <1>5 DEF PadInv, PadTypeOK

(* A call of the program that writes a value.                              *)
LEMMA WrittenPad ==
  ASSUME PadInv, Running, NEW v \in Levels, Written(v),
         UNCHANGED <<lowered, setup, users>>
  PROVE  PadInv'
<1> USE DEF PadInv, PadTypeOK, PullOK, DrainOK, PinFields, PadRegs, Pulls, Levels, Nothing
<1>0. then = Nothing /\ ~setup BY DEF Running
<1>1. CASE pin.mode = "open_drain" /\ v = "low"
  <2>1. pin' = [pin EXCEPT !.odHigh = FALSE] /\ pad' = [pad EXCEPT !.dir = "out"] /\ then' = "low"
    BY <1>1, PutIs DEF Written, Puts
  <2> QED BY <1>0, <1>1, <2>1
<1>2. CASE pin.mode = "open_drain" /\ v = "high"
  <2>1. pin' = [pin EXCEPT !.odHigh = TRUE] /\ pad' = [pad EXCEPT !.dir = "in"] /\ then' = Nothing
    BY <1>2, PutIs DEF Written, Puts
  <2> QED BY <1>0, <1>2, <2>1
<1>3. CASE pin.mode # "open_drain"
  <2>1. pin' = pin /\ pad' = [pad EXCEPT !.latch = v] /\ then' = Nothing
    BY <1>3, PutIs DEF Written, Puts
  <2> QED BY <1>0, <1>3, <2>1
<1> QED BY <1>1, <1>2, <1>3

LEMMA InitModePad ==
  ASSUME PadInv, NEW m \in PinModes, InitMode(m), users' = users
  PROVE  PadInv'
<1>1. /\ pin' = [pin EXCEPT !.mode = m, !.odHigh = @ \/ m = "open_drain"]
      /\ pad' = [pad EXCEPT !.dir = IF m = "in" THEN "in" ELSE "out"]
      /\ then' = IF m = "open_drain" THEN "in" ELSE Nothing
      /\ lowered' = (lowered /\ m = "open_drain")
      /\ then = Nothing /\ setup' = setup /\ ~setup
  BY PutIs DEF InitMode, Puts, Running, irqVars
<1>2. (pin.odHigh \/ m = "open_drain") \in BOOLEAN BY DEF PadInv, PadTypeOK, PinFields
<1>3. PadTypeOK'
  BY <1>1, <1>2 DEF PadInv, PadTypeOK, PinFields, PadRegs, PinModes
<1>4. PullOK' BY <1>1 DEF PadInv, PadTypeOK, PullOK, PinFields, PadRegs, Nothing, Pulls
<1>5. DrainOK' BY <1>1 DEF PadInv, PadTypeOK, DrainOK, PinFields, PadRegs, Nothing
<1> QED BY <1>1, <1>3, <1>4, <1>5 DEF PadInv

LEMMA InitPullPad ==
  ASSUME PadInv, NEW q \in Pulls, InitPull(q), users' = users
  PROVE  PadInv'
<1>1. /\ pin' = [pin EXCEPT !.pull = q] /\ pad' = [pad EXCEPT !.pull = q] /\ then' = Nothing
      /\ then = Nothing /\ UNCHANGED <<lowered, setup>>
  BY PutIs DEF InitPull, Puts, Running, irqVars
<1> QED BY <1>1 DEF PadInv, PadTypeOK, PullOK, DrainOK, PinFields, PadRegs, Nothing, Pulls

(* The other users of the pad.                                             *)
LEMMA DriverPad ==
  ASSUME PadInv, SoftI2C \/ PushPull, users' = users
  PROVE  PadInv'
<1> USE DEF PadInv, PadTypeOK, PullOK, DrainOK, PadRegs, Nothing, Pulls, Levels
<1>1. UNCHANGED <<pin, lowered, setup>> /\ then = Nothing /\ ~setup
  BY DEF SoftI2C, PushPull, Running, irqVars
<1>2. CASE SoftI2C
  <2>1. /\ users.driver = "SoftI2C"
        /\ \/ pad' = [pad EXCEPT !.dir = "out"] /\ then' = "low"
           \/ pad' = [pad EXCEPT !.dir = "in"] /\ then' = Nothing
    BY <1>2, PutIs DEF SoftI2C, Puts
  <2> QED BY <1>1, <2>1
<1>3. CASE PushPull
  <2>1. PICK w \in {"in", "out"} \cup Levels : pad' = Put(w) /\ then' = Nothing
    BY <1>3 DEF PushPull, Puts
  <2>2. users.driver = "push_pull" BY <1>3 DEF PushPull
  <2>3. pad' \in PadRegs /\ pad'.pull = pad.pull
    BY <2>1, PutIs, PutType
  <2> QED BY <1>1, <2>1, <2>2, <2>3
<1> QED BY <1>2, <1>3

(* The first irq() of the pin.                                             *)
LEMMA IrqInitPad ==
  ASSUME PadInv, IrqInit, users' = users
  PROVE  PadInv'
<1>1. PICK q \in Pulls : pad' = Put(q) BY DEF IrqInit
<1>2. pad' = [pad EXCEPT !.pull = q] BY <1>1, PutIs
<1>3. then' = pin.pull /\ UNCHANGED <<pin, lowered, setup>> /\ setup
  BY DEF IrqInit, Repull
<1> QED
  BY <1>2, <1>3 DEF PadInv, PadTypeOK, PullOK, DrainOK, PinFields, PadRegs, Nothing, Pulls

(***************************************************************************)
(* The interrupt and the handlers.                                         *)
(***************************************************************************)
Irqs == [init : BOOLEAN, trigger : Triggers, event : Triggers, armed : BOOLEAN]

(* Only an interrupt that has been set up is armed, on the trigger of the  *)
(* object but while irq() is between its two parts.                        *)
IrqOK ==
  /\ pirq.armed => pirq.init
  /\ ~setup => (pirq.armed <=> handler # NoHandler) /\ (pirq.armed => pirq.event = pirq.trigger)

(* A call is not in progress when the heap is swept.  With tidy programs   *)
(* what the interrupt and the scheduler refer to is on the heap.           *)
HandlersOK ==
  /\ ~(setup /\ swept)
  /\ users.tidy =>
       /\ handler # NoHandler => handler \in alive /\ ~swept
       /\ ~swept => sched \subseteq alive
       /\ ~deadCall

HeapTypeOK ==
  /\ handler \in Handlers \cup {NoHandler}
  /\ alive \subseteq Handlers /\ inUse \subseteq alive /\ sched \subseteq Handlers
  /\ setup \in BOOLEAN /\ swept \in BOOLEAN /\ deadCall \in BOOLEAN

PinInv ==
  /\ users \in Users /\ PadInv
  /\ pirq \in Irqs /\ IrqOK /\ HeapTypeOK /\ HandlersOK

LEMMA SamePad ==
  ASSUME PadInv, UNCHANGED <<padVars, setup, users>>
  PROVE  PadInv'
BY DEF padVars, PadInv, PadTypeOK, PullOK, DrainOK

LEMMA PinInitInv == PinInit => PinInv
<1> SUFFICES ASSUME PinInit PROVE PinInv
  OBVIOUS
<1> USE PinAssumption DEF PinInit
<1>1. PadInv
  BY DEF PadInv, PadTypeOK, PullOK, DrainOK, PinFields, PadRegs, PinModes, Levels, Pulls, Nothing
<1>2. pirq \in Irqs BY DEF Irqs, Triggers
<1>3. IrqOK BY DEF IrqOK
<1>4. HeapTypeOK BY DEF HeapTypeOK
<1>5. HandlersOK BY DEF HandlersOK
<1> QED BY <1>1, <1>2, <1>3, <1>4, <1>5 DEF PinInv

(* An interrupt, or the call of the irq object, schedules the handler.     *)
LEMMA ScheduledInv ==
  ASSUME PinInv, Scheduled, users' = users
  PROVE  PinInv'
<1>1. /\ UNCHANGED <<padVars, pirq, handler, alive, inUse, setup, swept, users>>
      /\ sched' = sched \cup {handler} /\ handler # NoHandler
      /\ deadCall' = (deadCall \/ handler \notin alive)
  BY DEF Scheduled
<1>2. HeapTypeOK' BY <1>1 DEF PinInv, HeapTypeOK
<1>3. users.tidy => handler \in alive BY <1>1 DEF PinInv, HandlersOK
<1>4. HandlersOK' BY <1>1, <1>3 DEF PinInv, HandlersOK
<1>5. IrqOK' /\ PadInv' BY <1>1, SamePad DEF PinInv, IrqOK
<1> QED BY <1>1, <1>2, <1>4, <1>5 DEF PinInv

LEMMA PinStepInv == PinInv /\ [PinNext]_<<pinVars, users>> => PinInv'
<1> SUFFICES ASSUME PinInv, [PinNext]_<<pinVars, users>> PROVE PinInv'
  OBVIOUS
<1>u. users' = users BY DEF PinNext
<1>p. PadInv /\ pirq \in Irqs BY DEF PinInv
<1>w. ASSUME PadInv', UNCHANGED irqVars PROVE PinInv'
  BY <1>w, <1>u DEF PinInv, irqVars, heapVars, IrqOK, HeapTypeOK, HandlersOK
<1>k. ASSUME UNCHANGED <<padVars, setup>> PROVE PadInv'
  BY <1>k, <1>u, <1>p, SamePad
<1>q. ASSUME UNCHANGED <<pirq, handler, setup>> PROVE (pirq \in Irqs /\ IrqOK)'
  BY <1>q DEF PinInv, IrqOK
<1>1. CASE InitHelper
  <2>1. ASSUME NEW m \in PinModes, InitMode(m) PROVE PinInv'
    <3>1. PadInv' BY <2>1, <1>p, <1>u, InitModePad
    <3>2. UNCHANGED irqVars BY <2>1 DEF InitMode
    <3> QED BY <3>1, <3>2, <1>w
  <2>2. ASSUME NEW q \in Pulls, InitPull(q) PROVE PinInv'
    BY <2>2, <1>p, <1>u, <1>w, InitPullPad DEF InitPull
  <2>3. ASSUME NEW v \in Levels, InitValue(v) PROVE PinInv'
    BY <2>3, <1>p, <1>u, <1>w, WrittenPad DEF InitValue, irqVars
  <2> QED BY <1>1, <2>1, <2>2, <2>3 DEF InitHelper
<1>2. ASSUME NEW v \in Levels, Write(v) PROVE PinInv'
  BY <1>2, <1>p, <1>u, <1>w, WrittenPad DEF Write, irqVars
<1>3. ASSUME NEW v \in Levels, Toggle(v) PROVE PinInv'
  <2>1. Toggled(v) \in Levels BY DEF Toggled, Levels
  <2> QED BY <1>3, <1>p, <1>u, <1>w, <2>1, WrittenPad DEF Toggle, irqVars
<1>4. CASE SoftI2C \/ PushPull
  BY <1>4, <1>p, <1>u, <1>w, DriverPad DEF SoftI2C, PushPull
<1>5. CASE Finish
  BY <1>5, <1>p, <1>u, <1>w, FinishPad DEF Finish
<1>6. ASSUME NEW h \in Handlers \cup {NoHandler}, NEW tr \in Triggers, IrqStore(h, tr)
      PROVE  PinInv'
  <2>1. /\ UNCHANGED <<padVars, swept, deadCall, alive, inUse, sched>>
        /\ handler' = h /\ h \in inUse \cup {NoHandler} /\ setup' = TRUE /\ ~swept
        /\ pirq' = [pirq EXCEPT !.trigger = tr] /\ then = Nothing
    BY <1>6 DEF IrqStore, heapVars, Running
  <2>2. (pirq \in Irqs /\ IrqOK)' BY <1>p, <2>1 DEF PinInv, Irqs, IrqOK
  <2>3. HeapTypeOK' BY <2>1 DEF PinInv, HeapTypeOK
  <2>4. HandlersOK' BY <2>1, <1>u DEF PinInv, HeapTypeOK, HandlersOK
  <2>5. PadInv'
    BY <2>1, <1>u, <1>p DEF padVars, PadInv, PadTypeOK, PullOK, DrainOK, Nothing
  <2> QED BY <2>2, <2>3, <2>4, <2>5, <1>u DEF PinInv
<1>7. CASE IrqHardware
  <2>1. /\ UNCHANGED <<padVars, handler, swept, deadCall, alive, inUse, sched>>
        /\ setup /\ setup' = FALSE
    BY <1>7 DEF IrqHardware, heapVars
  <2>2. HeapTypeOK' /\ HandlersOK' BY <2>1, <1>u DEF PinInv, HeapTypeOK, HandlersOK
  <2>3. (pirq \in Irqs /\ IrqOK)'
    BY <1>7, <1>p, <2>1 DEF IrqHardware, PinInv, Irqs, IrqOK, Disabled
  <2>4. PadInv'
    BY <2>1, <1>u, <1>p DEF padVars, PadInv, PadTypeOK, PullOK, DrainOK
  <2> QED BY <2>2, <2>3, <2>4, <1>u DEF PinInv
<1>14. CASE IrqInit
  <2>1. /\ UNCHANGED <<handler, setup, swept, deadCall, alive, inUse, sched>> /\ setup
        /\ pirq' = [pirq EXCEPT !.init = TRUE]
    BY <1>14 DEF IrqInit, heapVars
  <2>2. (pirq \in Irqs /\ IrqOK)' BY <1>p, <2>1 DEF PinInv, Irqs, IrqOK
  <2>3. HeapTypeOK' /\ HandlersOK' BY <2>1, <1>u DEF PinInv, HeapTypeOK, HandlersOK
  <2>4. PadInv' BY <1>14, <1>p, <1>u, IrqInitPad
  <2> QED BY <2>2, <2>3, <2>4, <1>u DEF PinInv
<1>8. ASSUME NEW tr \in Triggers, IrqTrigger(tr) PROVE PinInv'
  <2>1. /\ UNCHANGED <<padVars, handler, setup, swept, deadCall, alive, inUse, sched>>
        /\ pirq' = [pirq EXCEPT !.trigger = tr, !.event = IF pirq.init THEN tr ELSE @]
    BY <1>8 DEF IrqTrigger, heapVars
  <2>2. (pirq \in Irqs /\ IrqOK)' BY <1>p, <2>1 DEF PinInv, Irqs, IrqOK
  <2>3. HeapTypeOK' /\ HandlersOK' BY <2>1, <1>u DEF PinInv, HeapTypeOK, HandlersOK
  <2> QED BY <2>1, <2>2, <2>3, <1>k, <1>u DEF PinInv
<1>9. CASE PinIsr \/ PinIrqCall BY <1>9, <1>u, ScheduledInv DEF PinIsr, PinIrqCall
<1>10. ASSUME NEW h \in Handlers, RunHandler(h) PROVE PinInv'
  <2>1. /\ UNCHANGED <<padVars, pirq, handler, alive, inUse, setup, swept>> /\ ~swept
        /\ h \in sched /\ sched' = sched \ {h} /\ deadCall' = (deadCall \/ h \notin alive)
    BY <1>10 DEF RunHandler, Running
  <2>2. HeapTypeOK' BY <2>1 DEF PinInv, HeapTypeOK
  <2>3. HandlersOK' BY <2>1, <1>u DEF PinInv, HandlersOK
  <2> QED BY <2>1, <2>2, <2>3, <1>k, <1>q, <1>u DEF PinInv
<1>11. ASSUME NEW h \in Handlers, NewHandler(h) \/ DropHandler(h) \/ CollectHandler(h)
       PROVE  PinInv'
  <2>1. UNCHANGED <<padVars, pirq, handler, sched, setup, swept, deadCall>> /\ ~swept
    BY <1>11 DEF NewHandler, DropHandler, CollectHandler, Running
  <2>2. \/ alive' = alive \cup {h} /\ inUse' = inUse \cup {h}
        \/ alive' = alive /\ inUse' = inUse \ {h}
        \/ alive' = alive \ {h} /\ inUse' = inUse /\ h \notin inUse \cup sched \cup {handler}
    BY <1>11 DEF NewHandler, DropHandler, CollectHandler, Kept
  <2>3. HeapTypeOK' BY <2>1, <2>2 DEF PinInv, HeapTypeOK
  <2>4. HandlersOK' BY <2>1, <2>2, <1>u DEF PinInv, HandlersOK
  <2> QED BY <2>1, <2>3, <2>4, <1>k, <1>q, <1>u DEF PinInv
<1>12. CASE PinSweep \/ PinSession
  <2>1. UNCHANGED <<padVars, pirq, handler, setup, deadCall>>
    BY <1>12 DEF PinSweep, PinSession
  <2>2. HeapTypeOK' BY <1>12 DEF PinSweep, PinSession, PinInv, HeapTypeOK
  <2>3. HandlersOK' BY <1>12, <1>u DEF PinSweep, PinSession, Running, PinInv, HandlersOK
  <2> QED BY <2>1, <2>2, <2>3, <1>k, <1>q, <1>u DEF PinInv
<1>13. CASE UNCHANGED <<pinVars, users>>
  BY <1>13, <1>w, <1>k DEF pinVars, irqVars
<1> QED
  BY <1>1, <1>2, <1>3, <1>4, <1>5, <1>6, <1>7, <1>8, <1>9, <1>10, <1>11, <1>12, <1>13, <1>14
     DEF PinNext, PinStep

LEMMA PinInvAlways == PinSpec => []PinInv
BY PinInitInv, PinStepInv, PTL DEF PinSpec

(* Between two calls the pad and the interrupt are as the Pin object says; *)
(* an open-drain pin is driven high only within a call, for a high that    *)
(* was left in the latch, and not once it has been driven low.             *)
THEOREM PadAgreesAlways == PinSpec => []PadAgrees
<1>1. PinInv => PinTypeOK
  BY DEF PinInv, PinTypeOK, PadInv, PadTypeOK, PinFields, PadRegs, Irqs, HeapTypeOK
<1>2. PinInv => PadAgrees
  BY <1>1 DEF PinInv, PadAgrees, IrqOK, PadInv, PullOK, DrainOK, Nothing, Pulls
<1> QED BY <1>2, PinInvAlways, PTL

(* If programs call irq(None) before they end, no handler that has been    *)
(* freed is ever scheduled or run.                                         *)
THEOREM LiveHandlerAlways == PinSpec => []LiveHandler
<1>1. PinInv => LiveHandler BY DEF PinInv, HandlersOK, LiveHandler
<1> QED BY <1>1, PinInvAlways, PTL
(***************************************************************************)
(* machine.PWM.                                                            *)
(***************************************************************************)
(* A set of numbers that is not empty has a least one.                     *)
LEMMA MinIn ==
  ASSUME NEW T \in SUBSET Nat, T # {}
  PROVE  Min(T) \in T
<1> DEFINE R == OpToRel(<, Nat)
<1>1. IsWellFoundedOn(R, Nat) BY NatLessThanWellFounded
<1>2. \A m, n \in Nat : (<<n, m>> \in R) <=> n < m BY DEF OpToRel
<1> HIDE DEF R
<1>3. PICK m \in T : \A n \in T : ~(<<n, m>> \in R) BY <1>1, WFMin
<1>4. ASSUME NEW n \in T PROVE m <= n
  <2>1. m \in Nat /\ n \in Nat OBVIOUS
  <2>2. ~(<<n, m>> \in R) BY <1>3, <1>4
  <2>3. ~(n < m) BY <1>2, <2>1, <2>2, Zenon
  <2> QED BY <2>1, <2>3
<1> QED BY <1>4 DEF Min

(* What \div rounds down by.                                               *)
LEMMA DivRounds ==
  ASSUME NEW a \in Nat, NEW b \in Nat \ {0}
  PROVE  a \div b \in Nat /\ a - (a \div b) * b \in 0 .. b - 1
OBVIOUS

(* The prescaler and the period that are computed for a frequency fit the  *)
(* period register: pwmout_period_us never has to change the prescaler.    *)
LEMMA PrescalerFits ==
  ASSUME NEW f \in Nat \ {0}
  PROVE  /\ Prescaler(f) \in 0 .. PscLimit /\ Period(f) \in Nat
         /\ Period(f) * Clock <= ArrLimit * (Prescaler(f) + 1)
         /\ f <= 1000000 => Period(f) > 0
<1>1. PICK u \in Nat : u = 1000000 \div f BY DivRounds
<1>2. f <= 1000000 => u > 0
  <2>1. u \in Nat /\ 1000000 - u * f \in 0 .. f - 1 BY <1>1, DivRounds
  <2>2. u = 0 => u * f = 0 OBVIOUS
  <2> QED BY <2>1, <2>2
<1>3. PICK k \in Nat : k = u * 40 OBVIOUS
<1>4. Ticks(f) = k BY <1>1, <1>3 DEF Ticks, Clock
<1>a. PICK lim \in Nat \ {0} : lim = ArrLimit BY DEF ArrLimit
<1>5. PICK q \in Nat : q = k \div lim /\ k - q * lim \in 0 .. lim - 1
  BY DivRounds
<1>b. PICK m \in Nat : m = lim * 256 OBVIOUS
<1>c. Prescaler(f) = IF k > lim THEN Min({q, 255}) ELSE 0
  BY ONLY <1>4, <1>5, <1>a DEF Prescaler, PscLimit
<1>d. Period(f) = IF q > 255 THEN m \div 40 ELSE u
  <2>1. Period(f) = IF q > 255 THEN (lim * (255 + 1)) \div 40 ELSE u
    BY ONLY <1>1, <1>4, <1>5, <1>a DEF Period, PscLimit, Clock
  <2>2. lim * (255 + 1) = m BY <1>b
  <2> QED BY ONLY <2>1, <2>2
<1>e. /\ Prescaler(f) \in 0 .. 255 /\ Period(f) \in Nat
      /\ Period(f) * 40 <= lim * (Prescaler(f) + 1)
      /\ f <= 1000000 => Period(f) > 0
  <2>1. CASE q > 255
    <3>1. k > lim
      <4>1. q * lim >= lim BY <2>1
      <4>2. q * lim >= 2 * lim BY <2>1
      <4> QED BY <1>5, <4>2
    <3>2. Min({q, 255}) = 255
      <4>1. Min({q, 255}) \in {q, 255} BY MinIn
      <4>2. \A y \in {q, 255} : Min({q, 255}) <= y BY <2>1 DEF Min
      <4> QED BY <2>1, <4>1, <4>2
    <3>3. Prescaler(f) = 255 BY ONLY <1>c, <3>1, <3>2
    <3>4. PICK v \in Nat : v = m \div 40 /\ m - v * 40 \in 0 .. 39 BY DivRounds
    <3>5. Period(f) = v BY ONLY <1>d, <2>1, <3>4
    <3>6. m >= 256 BY <1>b
    <3> QED BY ONLY v \in Nat, lim \in Nat, <1>b, <3>3, <3>4, <3>5, <3>6
  <2>2. CASE q <= 255
    <3>1. Period(f) = u BY ONLY q \in Nat, <1>d, <2>2
    <3>2. CASE k > lim
      <4>1. Min({q, 255}) = q
        <5>1. Min({q, 255}) \in {q, 255} BY MinIn
        <5>2. \A y \in {q, 255} : Min({q, 255}) <= y BY <2>2 DEF Min
        <5> QED BY <2>2, <5>1, <5>2
      <4>2. Prescaler(f) = q BY ONLY <1>c, <3>2, <4>1
      <4>3. k <= lim * (q + 1) BY <1>5
      <4> QED BY <1>2, <1>3, <2>2, <3>1, <4>2, <4>3
    <3>3. CASE k <= lim
      <4>1. Prescaler(f) = 0 BY ONLY k \in Nat, lim \in Nat, <1>c, <3>3
      <4> QED BY <1>2, <1>3, <3>1, <3>3, <4>1
    <3> QED BY <3>2, <3>3
  <2> QED BY <2>1, <2>2
<1> QED BY <1>a, <1>e DEF PscLimit, Clock
LEMMA DivBelow ==
  ASSUME NEW a \in Nat, NEW b \in Nat \ {0}, NEW n \in Nat, a <= n * b
  PROVE  a \div b \in 0 .. n
<1>1. PICK q \in Nat : q = a \div b /\ a - q * b \in 0 .. b - 1 BY DivRounds
<1>2. CASE q <= n BY <1>1, <1>2
<1>3. CASE q > n
  <2>1. PICK j \in Nat : q = n + 1 + j BY <1>3
  <2>2. q * b = n * b + b + j * b BY <2>1
  <2>3. j * b >= 0 OBVIOUS
  <2> QED BY <1>1, <2>2, <2>3
<1> QED BY <1>2, <1>3

Recs == [pin : PwmPins \cup {NoPin}, period : Nat, duty : Halves, compare : Nat]
Pscs == [sdk : 0 .. PscLimit, timer : 0 .. PscLimit]

LEMMA CompareNat ==
  ASSUME NEW n \in Halves, NEW m \in Nat, NEW p \in Pscs
  PROVE  Compare(n, m, p) \in Nat
<1>1. p.sdk \in Nat BY DEF Pscs, PscLimit
<1>2. PICK b \in Nat \ {0} : b = 2 * (p.sdk + 1) BY <1>1
<1>3. PICK a \in Nat : a = n * m * Clock BY DEF Halves, Clock
<1> QED BY ONLY a \in Nat, b \in Nat \ {0}, <1>2, <1>3, DivRounds DEF Compare

(* The prescaler of the SDK and that of the timer never come apart: the    *)
(* one case of pwmout_period_us that would change only the first does not  *)
(* arise.  The timer then runs at the period asked for, up to a tick.      *)
Synchronous ==
  /\ psc.sdk = psc.timer
  /\ asked.period > 0 => asked.period * Clock - arr * (psc.timer + 1) \in 0 .. psc.timer

(* No two channels have the same pin.                                      *)
OneChannel == \A c, e \in Active : chan[c].pin = chan[e].pin => c = e

(* An active channel has the common period, or none yet.                   *)
SamePeriod == \A c \in Active : chan[c].period > 0 => chan[c].period = asked.period

(* What a channel drives, unless its duty cycle was asked for too early.   *)
DrivenAt(c) ==
  /\ chan[c].duty = asked.duty[c]
  /\ chan[c].period = 0 => chan[c].duty = 0
  /\ chan[c].period > 0 => chan[c].compare = Compare(chan[c].duty, chan[c].period, psc)

Driven == \A c \in Active \ asked.early : DrivenAt(c)

PwmInv ==
  /\ chan \in [Channels -> Recs] /\ arr \in 0 .. ArrLimit /\ psc \in Pscs /\ made \subseteq Channels
  /\ fast \in BOOLEAN /\ sdk \in {"tidy", "gates"}
  /\ asked.period \in Nat /\ asked.duty \in [Channels -> Halves] /\ asked.early \subseteq Channels
  /\ asked = [period |-> asked.period, duty |-> asked.duty, early |-> asked.early]
  /\ mux = {chan[c].pin : c \in Active} /\ OneChannel
  /\ sdk = "tidy" => Synchronous /\ SamePeriod /\ (~fast => Driven)

LEMMA PwmInitInv == PwmInit => PwmInv
<1> SUFFICES ASSUME PwmInit PROVE PwmInv
  OBVIOUS
<1> USE PwmAssumption DEF PwmInit
<1>0. 0 \in Halves /\ 0 \in 0 .. PscLimit /\ ArrLimit \in Nat BY DEF Halves, PscLimit, ArrLimit
<1>1. NoChannel \in Recs /\ NoChannel.pin = NoPin BY <1>0 DEF NoChannel, Recs
<1>2. chan \in [Channels -> Recs] BY <1>1
<1>3. psc \in Pscs /\ psc.sdk = psc.timer BY <1>0 DEF Pscs
<1>4. arr \in 0 .. ArrLimit BY <1>0
<1>5. asked.period = 0 /\ asked.duty = [c \in Channels |-> 0] /\ asked.early = {} OBVIOUS
<1>6. asked.duty \in [Channels -> Halves] BY <1>0, <1>5
<1>7. Active = {} BY <1>1 DEF Active
<1>8. mux = {chan[c].pin : c \in Active} BY <1>7
<1>9. OneChannel /\ SamePeriod /\ Driven BY <1>7 DEF OneChannel, SamePeriod, Driven
<1>10. Synchronous BY <1>3, <1>5 DEF Synchronous
<1> QED BY <1>2, <1>3, <1>4, <1>5, <1>6, <1>8, <1>9, <1>10 DEF PwmInv

(* What pwmout_init and pwmout_free do to the timer.                       *)
LEMMA GatedKeeps ==
  ASSUME PwmInv, Gated \/ UNCHANGED <<arr, psc>>
  PROVE  /\ arr' \in 0 .. ArrLimit /\ psc' \in Pscs
         /\ sdk = "tidy" => UNCHANGED <<arr, psc>>
<1>1. 0 \in 0 .. ArrLimit /\ 0 \in 0 .. PscLimit BY DEF ArrLimit, PscLimit
<1>2. /\ [sdk |-> 0, timer |-> 0] \in Pscs
      /\ psc \in Pscs => [psc EXCEPT !.timer = 0] \in Pscs
  BY <1>1 DEF Pscs
<1> QED BY <1>1, <1>2 DEF Gated, PwmInv

(* What a change of the frequency does to the timer.                       *)
LEMMA PeriodUsFits ==
  ASSUME PwmInv, NEW f \in Freqs, PeriodUs(Period(f), NewPrescaler(f))
  PROVE  /\ psc' \in Pscs /\ arr' \in 0 .. ArrLimit
         /\ Period(f) \in Nat /\ (f <= 1000000 => Period(f) > 0)
         /\ sdk = "tidy" =>
              /\ psc'.sdk = psc'.timer
              /\ Period(f) * Clock - arr' * (psc'.timer + 1) \in 0 .. psc'.timer
<1>1. f \in Nat \ {0} BY PwmAssumption
<1>2. PICK t \in 0 .. PscLimit : t = Prescaler(f) BY <1>1, PrescalerFits
<1>3. PICK m \in Nat : m = Period(f) BY <1>1, PrescalerFits
<1>4. m * Clock <= ArrLimit * (t + 1) /\ (f <= 1000000 => m > 0)
  BY <1>1, <1>2, <1>3, PrescalerFits
<1>5. PICK p \in Pscs : /\ p = NewPrescaler(f) /\ p.sdk = t
                        /\ sdk = "tidy" => p.timer = t
  <2>1. CASE t = psc.sdk
    <3>1. NewPrescaler(f) = psc BY ONLY <1>2, <2>1 DEF NewPrescaler
    <3> QED BY <2>1, <3>1 DEF PwmInv, Synchronous
  <2>2. CASE t # psc.sdk
    <3>1. NewPrescaler(f) = [sdk |-> t, timer |-> t] BY ONLY <1>2, <2>2 DEF NewPrescaler
    <3> QED BY <3>1 DEF Pscs
  <2> QED BY <2>1, <2>2
<1>6. PICK n \in Nat : n = m * Clock BY DEF Clock
<1>7. ArrLimit \in Nat /\ t \in Nat BY DEF ArrLimit, PscLimit
<1>8. PICK b \in Nat \ {0} : b = t + 1 BY <1>7
<1>9. ~(m * Clock > ArrLimit * (p.sdk + 1)) BY ONLY n \in Nat, <1>4, <1>5, <1>6, <1>7
<1>10. psc' = p /\ arr' = n \div b
  <2>1. PeriodUs(m, p) BY ONLY <1>3, <1>5, PeriodUs(Period(f), NewPrescaler(f))
  <2>2. psc' = p /\ arr' = (m * Clock) \div (p.sdk + 1) BY ONLY <2>1, <1>9 DEF PeriodUs
  <2> QED BY ONLY <2>2, <1>5, <1>6, <1>8
<1>11. arr' \in 0 .. ArrLimit BY ONLY n \in Nat, b \in Nat \ {0}, <1>4, <1>6, <1>7, <1>8, <1>10, DivBelow
<1>12. n - arr' * b \in 0 .. b - 1 BY <1>10, DivRounds
<1>13. n - arr' * (t + 1) \in 0 .. t BY ONLY t \in Nat, <1>8, <1>12
<1> QED BY ONLY p \in Pscs, m \in Nat, <1>3, <1>4, <1>5, <1>6, <1>10, <1>11, <1>13
(* PWM(pin) gives the pin a channel that no pin has.                       *)
LEMMA PwmNewInv ==
  ASSUME PwmInv, NEW p \in PwmPins, PwmNew(p), UNCHANGED pwmFixed
  PROVE  PwmInv'
<1> DEFINE c == Min(FreeChannels)
<1>1. c \in Channels /\ c \notin Active
  BY MinIn, PwmAssumption DEF PwmNew, FreeChannels, Channels
<1>2. /\ \E o \in Initialised(c, p) : chan' = [chan EXCEPT ![c] = o]
      /\ asked' = [asked EXCEPT !.duty[c] = 0, !.early = @ \ {c}]
      /\ mux' = mux \cup {p} /\ made' = made \cup {c} /\ ByPin(p) = {}
      /\ Gated \/ UNCHANGED <<arr, psc>>
  BY DEF PwmNew
<1> HIDE DEF c
<1>g. /\ arr' \in 0 .. ArrLimit /\ psc' \in Pscs
      /\ sdk = "tidy" => UNCHANGED <<arr, psc>>
  BY <1>2, GatedKeeps
<1>3. 0 \in Halves BY DEF Halves
<1>4. PICK r \in Recs : /\ r \in Initialised(c, p) /\ chan' = [chan EXCEPT ![c] = r]
                        /\ r.pin = p /\ (sdk = "tidy" => r.period = 0 /\ r.duty = 0)
  <2>1. PICK o \in Initialised(c, p) : chan' = [chan EXCEPT ![c] = o] BY <1>2
  <2>2. p \in PwmPins \cup {NoPin} /\ 0 \in Nat OBVIOUS
  <2>3. CASE o = [NoChannel EXCEPT !.pin = p]
    <3>1. o = [pin |-> p, period |-> 0, duty |-> 0, compare |-> 0] BY <2>3 DEF NoChannel
    <3>2. o \in Recs BY <1>3, <2>2, <3>1 DEF Recs
    <3>3. o.pin = p /\ o.period = 0 /\ o.duty = 0 BY <3>1
    <3> QED BY <2>1, <3>2, <3>3
  <2>4. CASE sdk # "tidy" /\ o = [chan[c] EXCEPT !.pin = p]
    <3>1. chan[c] \in Recs BY <1>1 DEF PwmInv
    <3>2. o \in Recs /\ o.pin = p BY <2>2, <2>4, <3>1 DEF Recs
    <3> QED BY <2>1, <2>4, <3>2
  <2> QED BY <2>1, <2>3, <2>4 DEF Initialised
<1>5. /\ chan' \in [Channels -> Recs] /\ chan'[c] = r
      /\ \A e \in Channels : e # c => chan'[e] = chan[e]
  BY <1>1, <1>4 DEF PwmInv
<1>6. Active' = Active \cup {c} BY <1>1, <1>4, <1>5, PwmAssumption DEF Active
<1>7. /\ asked'.period = asked.period /\ asked'.duty = [asked.duty EXCEPT ![c] = 0]
      /\ asked'.early = asked.early \ {c}
  BY <1>2 DEF PwmInv
<1>8. asked' = [period |-> asked'.period, duty |-> asked'.duty, early |-> asked'.early] BY <1>2, <1>7 DEF PwmInv
<1>9. asked'.duty \in [Channels -> Halves] BY <1>1, <1>3, <1>7 DEF PwmInv
<1>10. \A e \in Active : chan[e].pin # p BY <1>2 DEF ByPin
<1>11. mux' = {chan'[e].pin : e \in Active'}
  BY <1>1, <1>2, <1>4, <1>5, <1>6 DEF PwmInv, Active
<1>a. \A e \in Active : e \in Channels /\ chan'[e] = chan[e] BY <1>1, <1>5 DEF Active
<1>12. OneChannel'
  <2> SUFFICES ASSUME NEW e \in Active', NEW g \in Active', chan'[e].pin = chan'[g].pin
               PROVE  e = g
    BY DEF OneChannel
  <2>1. CASE e \in Active /\ g \in Active BY <2>1, <1>a DEF PwmInv, OneChannel
  <2>2. CASE e = c \/ g = c BY <2>2, <1>4, <1>5, <1>6, <1>10, <1>a
  <2> QED BY <2>1, <2>2, <1>6
<1>b. ASSUME sdk = "tidy" PROVE (Synchronous /\ SamePeriod)'
  <2>1. Synchronous' BY <1>b, <1>g, <1>7 DEF PwmInv, Synchronous
  <2>2. SamePeriod'
    <3> SUFFICES ASSUME NEW e \in Active', chan'[e].period > 0
                 PROVE  chan'[e].period = asked'.period
      BY DEF SamePeriod
    <3>1. CASE e = c BY <3>1, <1>b, <1>4, <1>5
    <3>2. CASE e \in Active BY <3>2, <1>b, <1>7, <1>a DEF PwmInv, SamePeriod
    <3> QED BY <3>1, <3>2, <1>6
  <2> QED BY <2>1, <2>2
<1>15. ASSUME sdk = "tidy", ~fast PROVE Driven'
  <2> SUFFICES ASSUME NEW e \in Active' \ asked'.early PROVE DrivenAt(e)'
    BY DEF Driven
  <2>1. CASE e = c
    <3>1. chan'[e].duty = 0 /\ chan'[e].period = 0 BY <2>1, <1>15, <1>4, <1>5
    <3>2. asked'.duty[e] = 0 BY <2>1, <1>1, <1>7 DEF PwmInv
    <3> QED BY <3>1, <3>2 DEF DrivenAt
  <2>2. CASE e # c
    <3>1. e \in Active \ asked.early /\ e \in Channels BY <1>6, <1>7, <2>2 DEF Active
    <3>2. chan'[e] = chan[e] /\ asked'.duty[e] = asked.duty[e] /\ psc' = psc
      BY <3>1, <2>2, <1>g, <1>15, <1>5, <1>7 DEF PwmInv
    <3>3. DrivenAt(e) BY <3>1, <1>15 DEF PwmInv, Driven
    <3> QED BY <3>2, <3>3 DEF DrivenAt, Compare
  <2> QED BY <2>1, <2>2
<1>16. UNCHANGED <<fast, sdk>> BY DEF pwmFixed
<1>17. made' \subseteq Channels /\ asked'.early \subseteq Channels /\ asked'.period \in Nat
  BY <1>1, <1>2, <1>7 DEF PwmInv
<1> QED
  BY <1>g, <1>5, <1>8, <1>9, <1>11, <1>12, <1>b, <1>15, <1>16, <1>17 DEF PwmInv

(* deinit() of a channel, or of all.                                       *)
LEMMA FreedInv ==
  ASSUME PwmInv, NEW cs \in SUBSET Active, Freed(cs), UNCHANGED pwmFixed
  PROVE  PwmInv'
<1>1. /\ chan' = [c \in Channels |-> IF c \in cs THEN [chan[c] EXCEPT !.pin = NoPin] ELSE chan[c]]
      /\ mux' = mux \ {chan[c].pin : c \in cs} /\ UNCHANGED <<made, asked>>
      /\ Gated \/ UNCHANGED <<arr, psc>>
  BY DEF Freed
<1>g. /\ arr' \in 0 .. ArrLimit /\ psc' \in Pscs
      /\ sdk = "tidy" => UNCHANGED <<arr, psc>>
  BY <1>1, GatedKeeps
<1>2. ASSUME NEW c \in Channels
      PROVE  /\ chan'[c] \in Recs
             /\ c \in cs => chan'[c].pin = NoPin
             /\ c \notin cs => chan'[c] = chan[c]
  <2>1. chan[c] \in Recs BY DEF PwmInv
  <2>2. [chan[c] EXCEPT !.pin = NoPin] \in Recs
        /\ [chan[c] EXCEPT !.pin = NoPin].pin = NoPin
    BY <2>1 DEF Recs
  <2> QED BY <1>1, <2>1, <2>2
<1>3. chan' \in [Channels -> Recs] BY <1>1, <1>2
<1>4. Active' = Active \ cs BY <1>2, PwmAssumption DEF Active
<1>5. mux' = {chan'[c].pin : c \in Active'}
  BY <1>1, <1>2, <1>4 DEF PwmInv, OneChannel, Active
<1>6. OneChannel' BY <1>1, <1>2, <1>4 DEF PwmInv, OneChannel, Active
<1>7. ASSUME sdk = "tidy" PROVE (Synchronous /\ SamePeriod)'
  BY <1>1, <1>2, <1>4, <1>7, <1>g DEF PwmInv, Synchronous, SamePeriod, Active
<1>8. ASSUME sdk = "tidy", ~fast PROVE Driven'
  BY <1>1, <1>2, <1>4, <1>8, <1>g DEF PwmInv, Driven, DrivenAt, Active, Compare
<1>9. UNCHANGED <<fast, sdk>> BY DEF pwmFixed
<1> QED BY <1>1, <1>3, <1>5, <1>6, <1>7, <1>8, <1>9, <1>g DEF PwmInv

(* duty_u16() and duty_ns().                                               *)
LEMMA DutySetInv ==
  ASSUME PwmInv, NEW c \in Channels, NEW n \in Halves, DutySet(c, n), UNCHANGED pwmFixed
  PROVE  PwmInv'
<1>1. PICK m \in Halves : m = IF chan[c].period = 0 THEN 0 ELSE n BY DEF Halves
<1>2. PICK r \in Recs : r = chan[c] BY DEF PwmInv
<1>3. PICK k \in Nat : k = Compare(m, r.period, psc)
  <2>1. r.period \in Nat /\ psc \in Pscs BY DEF Recs, PwmInv
  <2> QED BY <2>1, CompareNat
<1>4. /\ chan' = [chan EXCEPT ![c].duty = m, ![c].compare = k]
      /\ asked' = [asked EXCEPT !.duty[c] = n,
                    !.early = IF chan[c].period = 0 THEN @ \cup {c} ELSE @ \ {c}]
      /\ UNCHANGED <<made, mux, arr, psc>>
  BY <1>1, <1>2, <1>3 DEF DutySet
<1>5. PICK s \in Recs : /\ s = [r EXCEPT !.duty = m, !.compare = k]
                        /\ s.pin = r.pin /\ s.period = r.period /\ s.duty = m /\ s.compare = k
  <2>1. [r EXCEPT !.duty = m, !.compare = k] \in Recs BY DEF Recs
  <2> QED BY <2>1 DEF Recs
<1>6. chan' = [chan EXCEPT ![c] = s] BY <1>2, <1>4, <1>5 DEF PwmInv
<1>7. /\ chan' \in [Channels -> Recs] /\ chan'[c] = s
      /\ \A e \in Channels : e # c => chan'[e] = chan[e]
  BY <1>6 DEF PwmInv
<1>8. \A e \in Channels : chan'[e].pin = chan[e].pin /\ chan'[e].period = chan[e].period
  BY <1>2, <1>5, <1>7
<1>9. Active' = Active BY <1>8 DEF Active
<1>10. /\ asked'.period = asked.period /\ asked'.duty = [asked.duty EXCEPT ![c] = n]
       /\ asked'.early = IF chan[c].period = 0 THEN asked.early \cup {c} ELSE asked.early \ {c}
  BY <1>4 DEF PwmInv
<1>11. asked' = [period |-> asked'.period, duty |-> asked'.duty, early |-> asked'.early] BY <1>4, <1>10 DEF PwmInv
<1>12. asked'.duty \in [Channels -> Halves] BY <1>10 DEF PwmInv
<1>13. mux' = {chan'[e].pin : e \in Active'} BY <1>4, <1>8, <1>9 DEF PwmInv, Active
<1>14. OneChannel' BY <1>8, <1>9 DEF PwmInv, OneChannel, Active
<1>15. ASSUME sdk = "tidy" PROVE (Synchronous /\ SamePeriod)'
  BY <1>4, <1>8, <1>9, <1>10, <1>15 DEF PwmInv, Synchronous, SamePeriod, Active
<1>16. ASSUME sdk = "tidy", ~fast PROVE Driven'
  <2> SUFFICES ASSUME NEW e \in Active' \ asked'.early PROVE DrivenAt(e)'
    BY DEF Driven
  <2>0. e \in Active /\ e \in Channels /\ psc' = psc BY <1>4, <1>9 DEF Active
  <2>1. CASE e = c
    <3>1. r.period # 0 /\ m = n BY <2>1, <1>1, <1>2, <1>10
    <3>2. asked'.duty[e] = n BY <2>1, <1>10 DEF PwmInv
    <3> QED BY <2>0, <2>1, <3>1, <3>2, <1>3, <1>5, <1>7 DEF DrivenAt, Compare
  <2>2. CASE e # c
    <3>1. chan'[e] = chan[e] /\ asked'.duty[e] = asked.duty[e] /\ e \notin asked.early
      BY <2>0, <2>2, <1>7, <1>10 DEF PwmInv
    <3>2. DrivenAt(e) BY <2>0, <3>1, <1>16 DEF PwmInv, Driven
    <3> QED BY <2>0, <3>1, <3>2 DEF DrivenAt, Compare
  <2> QED BY <2>1, <2>2
<1>17. UNCHANGED <<fast, sdk>> BY DEF pwmFixed
<1>18. asked'.early \subseteq Channels /\ asked'.period \in Nat BY <1>10 DEF PwmInv
<1> QED
  BY <1>4, <1>7, <1>11, <1>12, <1>13, <1>14, <1>15, <1>16, <1>17, <1>18 DEF PwmInv

(* freq(): every active channel keeps its duty cycle at the new period.    *)
LEMMA FreqSetInv ==
  ASSUME PwmInv, NEW c \in Channels, NEW f \in Freqs, FreqSet(c, f), UNCHANGED pwmFixed
  PROVE  PwmInv'
<1>1. /\ psc' \in Pscs /\ arr' \in 0 .. ArrLimit
      /\ Period(f) \in Nat /\ (f <= 1000000 => Period(f) > 0)
      /\ sdk = "tidy" =>
           /\ psc'.sdk = psc'.timer
           /\ Period(f) * Clock - arr' * (psc'.timer + 1) \in 0 .. psc'.timer
  BY PeriodUsFits DEF FreqSet
<1>2. PICK m \in Nat : m = Period(f) BY <1>1
<1>a. /\ chan' = Rescaled(c, f, psc') /\ UNCHANGED <<mux, made>>
      /\ asked' = [asked EXCEPT !.period = Period(f)]
  BY SMT DEF FreqSet
<1>3. asked' = [asked EXCEPT !.period = m] BY ONLY <1>a, <1>2
<1>4. ~fast => m > 0
  <2>1. f \in Nat BY PwmAssumption
  <2>2. f > 1000000 => fast BY SMT DEF FreqSet
  <2>3. ~fast => f <= 1000000 BY <2>1, <2>2, SMT
  <2> QED BY <1>1, <1>2, <2>3, SMT
<1>5. chan' = [e \in Channels |->
                 IF e \in Active \cup {c}
                 THEN [chan[e] EXCEPT !.period = m, !.duty = Saved(e), !.compare = Compare(Saved(e), m, psc')]
                 ELSE chan[e]]
  BY ONLY <1>2, <1>a, Zenon DEF Rescaled
<1>6. ASSUME NEW e \in Channels
      PROVE  /\ chan'[e] \in Recs /\ chan'[e].pin = chan[e].pin
             /\ e \in Active => /\ chan'[e].period = m /\ chan'[e].duty = Saved(e)
                                /\ chan'[e].compare = Compare(Saved(e), m, psc')
  <2>1. PICK r \in Recs : r = chan[e] BY DEF PwmInv
  <2>2. PICK s \in Halves : s = Saved(e)
    BY <2>1 DEF Saved, Recs, Halves
  <2>3. PICK k \in Nat : k = Compare(s, m, psc') BY <1>1, CompareNat
  <2>4. chan'[e] = IF e \in Active \cup {c} THEN [r EXCEPT !.period = m, !.duty = s, !.compare = k]
                                            ELSE r
    BY ONLY e \in Channels, <1>5, <2>1, <2>2, <2>3
  <2>5. /\ chan'[e] \in Recs /\ chan'[e].pin = r.pin
        /\ e \in Active => chan'[e].period = m /\ chan'[e].duty = s /\ chan'[e].compare = k
    BY ONLY r \in Recs, m \in Nat, s \in Halves, k \in Nat, <2>4 DEF Recs
  <2> QED BY ONLY <2>1, <2>2, <2>3, <2>5
<1>7. chan' \in [Channels -> Recs] BY ONLY <1>5, <1>6
<1>8. Active' = Active BY <1>6 DEF Active
<1>9. asked'.period = m /\ asked'.duty = asked.duty /\ asked'.early = asked.early BY <1>3 DEF PwmInv
<1>10. asked' = [period |-> asked'.period, duty |-> asked'.duty, early |-> asked'.early] BY <1>3, <1>9 DEF PwmInv
<1>11. mux' = {chan'[e].pin : e \in Active'} BY <1>a, <1>6, <1>8 DEF PwmInv, Active
<1>12. OneChannel' BY <1>6, <1>8 DEF PwmInv, OneChannel, Active
<1>13. ASSUME sdk = "tidy" PROVE (Synchronous /\ SamePeriod)'
  <2>1. Synchronous' BY <1>1, <1>2, <1>9, <1>13 DEF Synchronous
  <2>2. SamePeriod' BY <1>6, <1>8, <1>9 DEF SamePeriod, Active
  <2> QED BY <2>1, <2>2
<1>14. ASSUME sdk = "tidy", ~fast PROVE Driven'
  <2> SUFFICES ASSUME NEW e \in Active' \ asked'.early PROVE DrivenAt(e)'
    BY DEF Driven
  <2>1. e \in Active \ asked.early /\ e \in Channels BY <1>8, <1>9 DEF Active
  <2>2. Saved(e) = asked.duty[e] BY <2>1, <1>14 DEF Saved, PwmInv, Driven, DrivenAt
  <2>3. chan'[e].period = m /\ chan'[e].duty = Saved(e) /\ chan'[e].compare = Compare(Saved(e), m, psc')
    BY <1>6, <2>1
  <2>4. m > 0 BY <1>4, <1>14
  <2> QED BY ONLY m \in Nat, <1>9, <2>2, <2>3, <2>4 DEF DrivenAt, Compare
<1>15. UNCHANGED <<fast, sdk>> BY DEF pwmFixed
<1>16. /\ arr' \in 0 .. ArrLimit /\ psc' \in Pscs /\ made' \subseteq Channels
       /\ fast' \in BOOLEAN /\ sdk' \in {"tidy", "gates"}
  BY <1>1, <1>a, <1>15 DEF PwmInv
<1>17. /\ asked'.period \in Nat /\ asked'.duty \in [Channels -> Halves] /\ asked'.early \subseteq Channels
  BY <1>9 DEF PwmInv
<1> QED
  BY ONLY <1>7, <1>10, <1>11, <1>12, <1>13, <1>14, <1>15, <1>16, <1>17 DEF PwmInv

LEMMA PwmStepInv == PwmInv /\ [PwmNext]_<<pwmVars, pwmFixed>> => PwmInv'
<1> SUFFICES ASSUME PwmInv, [PwmNext]_<<pwmVars, pwmFixed>> PROVE PwmInv'
  OBVIOUS
<1>f. UNCHANGED pwmFixed BY DEF PwmNext
<1>1. ASSUME NEW p \in PwmPins, PwmNew(p) PROVE PwmInv' BY <1>f, <1>1, PwmNewInv
<1>2. CASE PwmDeinitAll BY <1>f, <1>2, FreedInv DEF PwmDeinitAll
<1>3. ASSUME NEW c \in Channels, PwmDeinit(c) PROVE PwmInv'
  BY <1>f, <1>3, FreedInv DEF PwmDeinit
<1>4. ASSUME NEW c \in Channels, NEW n \in Halves, DutySet(c, n) PROVE PwmInv'
  BY <1>f, <1>4, DutySetInv
<1>5. ASSUME NEW c \in Channels, NEW f \in Freqs, FreqSet(c, f) PROVE PwmInv'
  BY <1>f, <1>5, FreqSetInv
<1>6. CASE UNCHANGED <<pwmVars, pwmFixed>>
  BY <1>6 DEF pwmVars, pwmFixed, PwmInv, OneChannel, Synchronous, SamePeriod, Driven, DrivenAt, Active,
              Compare
<1> QED BY <1>1, <1>2, <1>3, <1>4, <1>5, <1>6 DEF PwmNext

LEMMA PwmInvAlways == PwmSpec => []PwmInv
BY PwmInitInv, PwmStepInv, PTL DEF PwmSpec

(* With a tidy SDK the timer runs at the period asked for last, and every  *)
(* active channel drives the duty cycle that was asked of it, whichever    *)
(* channel changed the frequency, unless it had no period then.            *)
THEOREM DutyKeptAlways == PwmSpec => []DutyKept
<1>1. PwmInv => DutyKept
  <2> SUFFICES ASSUME PwmInv PROVE DutyKept
    OBVIOUS
  <2>1. chan \in [Channels -> Recs] /\ psc \in Pscs BY DEF PwmInv
  <2>2. asked \in [period : Nat, duty : [Channels -> Halves], early : SUBSET Channels]
    <3>1. PICK m \in Nat, g \in [Channels -> Halves], u \in SUBSET Channels :
            asked = [period |-> m, duty |-> g, early |-> u]
      BY DEF PwmInv
    <3> QED BY <3>1
  <2>3. mux \subseteq PwmPins BY <2>1 DEF PwmInv, Active, Recs
  <2>4. PwmTypeOK BY <2>1, <2>2, <2>3 DEF PwmInv, PwmTypeOK, Recs, Pscs
  <2>5. ASSUME sdk = "tidy", NEW c \in Active, chan[c].period > 0
        PROVE  /\ chan[c].period = asked.period
               /\ (~fast /\ c \notin asked.early) =>
                    chan[c].compare = (asked.duty[c] * asked.period * Clock) \div (2 * (psc.timer + 1))
    <3>1. chan[c].period = asked.period BY <2>5 DEF PwmInv, SamePeriod
    <3>2. psc.sdk = psc.timer BY <2>5 DEF PwmInv, Synchronous
    <3>3. (~fast /\ c \notin asked.early) => chan[c].compare = Compare(asked.duty[c], asked.period, psc)
      BY <2>5, <3>1 DEF PwmInv, Driven, DrivenAt
    <3> QED BY ONLY <3>1, <3>2, <3>3 DEF Compare
  <2> QED BY <2>4, <2>5 DEF PwmInv, Synchronous, DutyKept
<1> QED BY <1>1, PwmInvAlways, PTL
=============================================================================
