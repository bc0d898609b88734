--------------------------- MODULE Devices_proof ---------------------------
(***************************************************************************)
(* Invariants of drivers that share no state with each other: USBSerial,   *)
(* the alarm of the RTC, LAN, WLAN, I2S and I2CTarget.                     *)
(***************************************************************************)
EXTENDS UsbSerial, RtcAlarm, Lan, Wlan, I2s, I2cTarget, SequenceTheorems, TLAPS

(***************************************************************************)
(* machine.USBSerial                                                       *)
(***************************************************************************)
(* The places of usbserial_transmit_blocking that hold the mutex.          *)
Holding == UsbPCs \ {"idle", "lock"}

(* The mutex is taken by the one call that is past the lock.               *)
OneSender ==
  /\ \A t \in UsbCallers : where[t] \in Holding <=> tx_mutex = "taken" /\ owner = t
  /\ tx_mutex = "taken" => owner \in UsbCallers

(* What exists at each stage of bringing the driver up and tearing it      *)
(* down; at rest, all of it or nothing.  A call finds it all.              *)
Exist(c, m, s) == core = c /\ (tx_mutex # "none" <=> m) /\ (sema # "none" <=> s)

Together ==
  /\ stage = "rest" /\  ready => Exist("up", TRUE, TRUE)
  /\ stage = "rest" /\ ~ready => Exist("down", FALSE, FALSE)
  /\ stage = "mutex" => ~ready /\ Exist("down", FALSE, TRUE)
  /\ stage = "core"  => ~ready /\ Exist("down", TRUE, TRUE)
  /\ stage = "class" => ~ready /\ Exist("bare", TRUE, TRUE)
  /\ stage = "flag"  => ~ready /\ Exist("up", TRUE, TRUE)
  /\ stage = "tearing" => ready /\ core = "down" /\ NobodySends
  /\ core # "up" => ~InFlight
  /\ \A t \in UsbCallers : where[t] # "idle" => ready /\ stage = "rest"

(* With a host that reads in time, the transfer in flight is that of the   *)
(* call that waits for it, and no earlier completion is left over.         *)
OwnTransfer ==
  ~stalls =>
    /\ InFlight => where[dma] = "wait" /\ mine[dma] /\ sema = "empty"
    /\ \A t \in UsbCallers : where[t] \in {"send", "resend"} => sema = "empty"

(* AllOrNothing lacks who holds the mutex, and BufferStable where the      *)
(* owner of the buffer is.                                                 *)
UsbInv == UsbTypeOK /\ ~fault /\ OneSender /\ Together /\ OwnTransfer

LEMMA UsbInitInv == UsbInit => UsbInv
BY UsbAssumption
   DEF UsbInit, UsbInv, UsbTypeOK, Stages, OneSender, Together, OwnTransfer, InFlight, NobodySends, UsbPCs, Holding, Exist

LEMMA UsbStepInv == UsbInv /\ [UsbNext]_<<usbVars, stalls>> => UsbInv'
<1> SUFFICES ASSUME UsbInv, [UsbNext]_<<usbVars, stalls>> PROVE UsbInv'
  OBVIOUS
<1> USE UsbAssumption DEF UsbInv, InFlight, NobodySends, UsbPCs, Holding, Exist
<1>1. CASE Init0 /\ UNCHANGED stalls
  <2> USE DEF Init0, UsbTypeOK, Stages
  <2>1. CASE InitSema BY <1>1, <2>1 DEF InitSema, OneSender, Together, OwnTransfer
  <2>2. CASE InitMutex BY <1>1, <2>2 DEF InitMutex, OneSender, Together, OwnTransfer
  <2>3. CASE InitCore BY <1>1, <2>3 DEF InitCore, OneSender, Together, OwnTransfer
  <2>4. CASE InitClass BY <1>1, <2>4 DEF InitClass, OneSender, Together, OwnTransfer
  <2>5. CASE InitFlag BY <1>1, <2>5 DEF InitFlag, OneSender, Together, OwnTransfer
  <2>6. CASE Fails /\ UNCHANGED ready
    <3>1. stage \in {"mutex", "core", "class"} /\ stage' = "rest" /\ ~ready /\ ~ready'
      BY <2>6 DEF Fails, UndoneAt, Together
    <3>2. core' = "down" /\ tx_mutex' = "none" /\ sema' = "none"
      BY <2>6, <3>1 DEF Fails, UndoneAt, Delete, Together
    <3>3. UNCHANGED <<attached, owner, dma, mine, where, ok, fault, stalls>> BY <1>1
    <3>4. ~InFlight /\ \A t \in UsbCallers : where[t] = "idle" BY <3>1 DEF Together
    <3>5. UsbTypeOK' /\ ~fault'
      <4>1. stage' \in Stages /\ core' \in {"down", "bare", "up"} /\ ready' \in BOOLEAN
        BY <2>6, <3>1, <3>2
      <4> QED BY <3>2, <3>3, <4>1
    <3>6. Together' BY <3>1, <3>2, <3>3, <3>4 DEF Together
    <3>7. OneSender' BY <3>2, <3>3, <3>4 DEF OneSender
    <3>8. OwnTransfer' BY <3>3, <3>4 DEF OwnTransfer
    <3> QED BY <3>5, <3>6, <3>7, <3>8
  <2> QED BY <1>1, <2>1, <2>2, <2>3, <2>4, <2>5, <2>6
<1>2. CASE DeinitCore /\ UNCHANGED stalls
  BY <1>2 DEF DeinitCore, Stages, UsbTypeOK, OneSender, Together, OwnTransfer
<1>3. CASE DeinitObjects /\ UNCHANGED stalls
  BY <1>3 DEF DeinitObjects, Delete, Stages, UsbTypeOK, OneSender, Together, OwnTransfer
<1>4. CASE StatusChanged /\ UNCHANGED stalls
  BY <1>4 DEF StatusChanged, UsbTypeOK, OneSender, Together, OwnTransfer
<1>5. CASE Transmitted /\ UNCHANGED stalls
  <2>1. sema # "none" /\ stage \in {"rest", "flag"} BY <1>5 DEF Transmitted, UsbTypeOK, Stages, Together
  <2>2. UsbTypeOK' /\ ~fault' /\ OneSender' BY <1>5, <2>1 DEF Transmitted, UsbTypeOK, OneSender
  <2>3. Together' BY <1>5, <2>1 DEF Transmitted, UsbTypeOK, Together
  <2>4. OwnTransfer' BY <1>5 DEF Transmitted, UsbTypeOK, OneSender, OwnTransfer
  <2> QED BY <2>2, <2>3, <2>4
<1>6. ASSUME NEW t \in UsbCallers, UNCHANGED stalls, Enter(t) PROVE UsbInv'
  <2>1. UsbTypeOK' /\ ~fault' BY <1>6 DEF Enter, Goto, drv, UsbTypeOK
  <2>2. OneSender' BY <1>6 DEF Enter, Goto, drv, UsbTypeOK, OneSender
  <2>3. Together' BY <1>6 DEF Enter, Goto, drv, UsbTypeOK, Together
  <2>4. OwnTransfer' BY <1>6 DEF Enter, Goto, drv, UsbTypeOK, OwnTransfer
  <2> QED BY <2>1, <2>2, <2>3, <2>4
<1>7. ASSUME NEW t \in UsbCallers, UNCHANGED stalls, LockTimesOut(t) PROVE UsbInv'
  BY <1>7 DEF LockTimesOut, Goto, drv, UsbTypeOK, OneSender, Together, OwnTransfer
<1>8. ASSUME NEW t \in UsbCallers, UNCHANGED stalls, Lock(t) PROVE UsbInv'
  <2>1. UsbTypeOK' /\ ~fault' BY <1>8 DEF Lock, Goto, drv, UsbTypeOK
  <2>2. OneSender' BY <1>8 DEF Lock, Goto, drv, MutexFree, UsbTypeOK, OneSender
  <2>3. Together' /\ OwnTransfer'
    BY <1>8 DEF Lock, Goto, drv, MutexFree, UsbTypeOK, Together, OwnTransfer
  <2> QED BY <2>1, <2>2, <2>3
<1>9. ASSUME NEW t \in UsbCallers, Drain(t) \/ BusyWait(t) \/ Wait(t), UNCHANGED stalls PROVE UsbInv'
  BY <1>9 DEF Drain, BusyWait, Wait, MayExpire, Goto, drv, UsbTypeOK, OneSender, Together, OwnTransfer
<1>10. ASSUME NEW t \in UsbCallers, UNCHANGED stalls, SendFirst(t) \/ SendAgain(t)
      PROVE  UsbInv'
  <2>1. /\ where[t] \in {"send", "resend"}
        /\ \E l \in {"wait", "busy", "unlock"} : where' = [where EXCEPT ![t] = l]
        /\ UNCHANGED <<ready, attached, core, stage, tx_mutex, owner, sema, ok, fault>>
    BY <1>10 DEF SendFirst, SendAgain, Send, AfterSend, Goto, drv
  <2>2. \/ ~InFlight /\ dma' = t /\ mine' = [mine EXCEPT ![t] = TRUE] /\ where' = [where EXCEPT ![t] = "wait"]
        \/ UNCHANGED <<dma, mine>>
    BY <1>10 DEF SendFirst, SendAgain, Send, MaySend, AfterSend, Goto
  <2>3. UsbTypeOK' /\ ~fault' BY ZenonT(40), <1>10, <2>1, <2>2 DEF UsbTypeOK
  <2>4. OneSender' BY <2>1 DEF UsbTypeOK, OneSender
  <2>5. Together' BY <2>1, <2>2 DEF UsbTypeOK, Together
  <2>6. OwnTransfer' BY <1>10, <2>1, <2>2 DEF UsbTypeOK, OneSender, OwnTransfer
  <2> QED BY <2>3, <2>4, <2>5, <2>6
<1>11. ASSUME NEW t \in UsbCallers, Unlock(t), UNCHANGED stalls PROVE UsbInv'
  BY <1>11 DEF Unlock, Goto, drv, UsbTypeOK, OneSender, Together, OwnTransfer
<1>12. CASE UNCHANGED <<usbVars, stalls>>
  BY <1>12 DEF usbVars, UsbTypeOK, OneSender, Together, OwnTransfer
<1> QED
  BY <1>1, <1>2, <1>3, <1>4, <1>5, <1>6, <1>7, <1>8, <1>9, <1>10, <1>11, <1>12
     DEF UsbNext, UsbStep, Transmit

LEMMA UsbInvAlways == UsbSpec => []UsbInv
BY UsbInitInv, UsbStepInv, PTL DEF UsbSpec

(* No interrupt gives a deleted semaphore, and the DMA never reads the     *)
(* buffer of a call that has returned, with a host that reads in time.     *)
THEOREM BufferStableAlways == UsbSpec => []BufferStable
<1>1. UsbInv => BufferStable
  BY DEF UsbInv, BufferStable, OwnTransfer
<1> QED BY <1>1, UsbInvAlways, PTL

(* The driver, the mutex and the semaphore exist together or not at all,   *)
(* and the mutex is held only by a call in progress.                       *)
THEOREM AllOrNothingAlways == UsbSpec => []AllOrNothing
<1>1. UsbInv => AllOrNothing
  BY UsbAssumption DEF UsbInv, AllOrNothing, OneSender, Together, Holding, UsbPCs, Exist
<1> QED BY <1>1, UsbInvAlways, PTL

(***************************************************************************)
(* machine.RTC                                                             *)
(***************************************************************************)
(* The call in progress has a time to arm; at rest it has nothing.         *)
CallShape ==
  /\ py.pc = "idle" => py = Idle
  /\ py.pc # "idle" => py.a # None

(* The interval of a repeating alarm is at least a second: the old one     *)
(* until alarm() has stored the new one.                                   *)
IntervalOK ==
  /\ repeat /\ py.pc # "ival" => ival >= 1
  /\ py.pc \in {"target", "repeat", "ival"} /\ py.rep => py.iv >= 1
  /\ py.pc = "ival" => repeat = py.rep

(* Without interrupts inside calls: alarm_target is what is armed, until   *)
(* alarm() overwrites it, and from then on what alarm() will arm.  A       *)
(* repeating alarm has a target, which the re-arming reads.                *)
TargetOK ==
  ~inside =>
    /\ py.pc \in {"idle", "target"} /\ hw # None => target = hw
    /\ py.pc \in {"repeat", "ival", "set"} => target = py.a
    /\ repeat => target # None

RtcInv == RtcTypeOK /\ ~swept /\ irq # "swept" /\ CallShape /\ IntervalOK /\ TargetOK

LEMMA RtcInitInv == RtcInit => RtcInv
<1> SUFFICES ASSUME RtcInit PROVE RtcInv
  OBVIOUS
<1>1. RtcTypeOK /\ ~swept /\ irq # "swept" BY DEF RtcInit, RtcTypeOK, Idle, Times
<1>2. CallShape /\ IntervalOK /\ TargetOK BY DEF RtcInit, CallShape, IntervalOK, TargetOK, Idle
<1> QED BY <1>1, <1>2 DEF RtcInv

LEMMA CallRecord ==
  ASSUME NEW A, NEW B, NEW x \in A, NEW b \in BOOLEAN, NEW y \in B
  PROVE  [pc |-> "target", a |-> x, rep |-> b, iv |-> y]
           \in [pc : {"idle", "target", "repeat", "ival", "set"}, a : A, rep : BOOLEAN, iv : B]
OBVIOUS

(* The clock moves the target, the armed time and the time of the call     *)
(* alike.                                                                  *)
LEMMA ShiftInv ==
  ASSUME RtcInv, NEW k \in Int, Shift(k), UNCHANGED inside
  PROVE  RtcInv'
<1> USE RtcAssumption DEF RtcInv, Shift, Nearer, Times
<1>0. /\ py' = [py EXCEPT !.a = Nearer(py.a, k)]
      /\ py \in [pc : {"idle", "target", "repeat", "ival", "set"}, a : Times,
                 rep : BOOLEAN, iv : Offsets \cup {0}]
  BY DEF RtcTypeOK
<1>1. RtcTypeOK' BY <1>0 DEF RtcTypeOK
<1>2. CallShape'
  <2>1. CASE py.pc = "idle"
    <3>1. py.a = None BY <2>1 DEF CallShape, Idle
    <3>2. py' = py BY <1>0, <3>1
    <3> QED BY <2>1, <3>2 DEF CallShape
  <2>2. CASE py.pc # "idle"
    BY <1>0, <2>2 DEF CallShape
  <2> QED BY <2>1, <2>2
<1>3. IntervalOK' BY <1>0 DEF IntervalOK
<1>4. TargetOK' BY <1>0 DEF TargetOK, RtcTypeOK
<1> QED BY <1>1, <1>2, <1>3, <1>4

LEMMA RtcStepInv == RtcInv /\ [RtcNext]_<<alarmVars, inside>> => RtcInv'
<1> SUFFICES ASSUME RtcInv, [RtcNext]_<<alarmVars, inside>> PROVE RtcInv'
  OBVIOUS
<1> USE RtcAssumption DEF RtcInv, Times
<1>1. ASSUME NEW off \in Offsets, NEW rep \in BOOLEAN, UNCHANGED inside,
             AlarmTuple(off) \/ AlarmOffset(off, rep)
      PROVE  RtcInv'
  <2>0. py' \in [pc : {"idle", "target", "repeat", "ival", "set"}, a : Int \cup {None},
                 rep : BOOLEAN, iv : Offsets \cup {0}]
    <3>1. /\ off \in Int \cup {None} /\ off \in Offsets \cup {0} /\ 0 \in Offsets \cup {0}
          /\ rep \in BOOLEAN /\ FALSE \in BOOLEAN
      BY <1>1
    <3>2. \/ py' = [pc |-> "target", a |-> off, rep |-> FALSE, iv |-> 0]
          \/ py' = [pc |-> "target", a |-> off, rep |-> rep, iv |-> off]
      BY <1>1 DEF AlarmTuple, AlarmOffset
    <3>3. [pc |-> "target", a |-> off, rep |-> FALSE, iv |-> 0]
            \in [pc : {"idle", "target", "repeat", "ival", "set"}, a : Int \cup {None},
                 rep : BOOLEAN, iv : Offsets \cup {0}]
      BY ONLY <3>1, CallRecord
    <3>4. [pc |-> "target", a |-> off, rep |-> rep, iv |-> off]
            \in [pc : {"idle", "target", "repeat", "ival", "set"}, a : Int \cup {None},
                 rep : BOOLEAN, iv : Offsets \cup {0}]
      BY ONLY <3>1, CallRecord
    <3> QED BY ONLY <3>2, <3>3, <3>4
  <2>1. RtcTypeOK' BY <1>1, <2>0 DEF AlarmTuple, AlarmOffset, RtcTypeOK
  <2>2. CallShape' BY <1>1 DEF AlarmTuple, AlarmOffset, CallShape
  <2>3. IntervalOK' BY <1>1 DEF AlarmTuple, AlarmOffset, Accepted, IntervalOK, Idle
  <2>4. TargetOK' BY <1>1 DEF AlarmTuple, AlarmOffset, TargetOK, Idle
  <2> QED BY <1>1, <2>1, <2>2, <2>3, <2>4 DEF AlarmTuple, AlarmOffset
<1>2. CASE SetTarget /\ UNCHANGED inside
  BY <1>2 DEF SetTarget, RtcTypeOK, CallShape, IntervalOK, TargetOK
<1>3. CASE SetRepeat /\ UNCHANGED inside
  BY <1>3 DEF SetRepeat, RtcTypeOK, CallShape, IntervalOK, TargetOK
<1>4. CASE SetInterval /\ UNCHANGED inside
  BY <1>4 DEF SetInterval, RtcTypeOK, CallShape, IntervalOK, TargetOK
<1>5. CASE SetAlarm /\ UNCHANGED inside
  BY <1>5 DEF SetAlarm, RtcTypeOK, CallShape, IntervalOK, TargetOK, Idle
<1>6. CASE AlarmCancel /\ UNCHANGED inside
  BY <1>6 DEF AlarmCancel, RtcTypeOK, CallShape, IntervalOK, TargetOK, Idle
<1>7. CASE Irq /\ UNCHANGED inside
  BY <1>7 DEF Irq, RtcTypeOK, CallShape, IntervalOK, TargetOK, Idle
<1>8. CASE Fire /\ UNCHANGED inside
  <2>0. AsTime(target) + ival \in Int BY DEF AsTime, RtcTypeOK
  <2>1. RtcTypeOK' /\ ~swept' /\ irq' # "swept" BY <1>8, <2>0 DEF Fire, RtcTypeOK
  <2>2. CallShape' /\ IntervalOK' BY <1>8 DEF Fire, CallShape, IntervalOK
  <2>3. TargetOK' BY <1>8 DEF Fire, AsTime, RtcTypeOK, TargetOK, Idle
  <2> QED BY <2>1, <2>2, <2>3
<1>9. CASE Pump /\ UNCHANGED inside
  <2>0. AsTime(target) \in Int BY DEF AsTime, RtcTypeOK
  <2>1. RtcTypeOK' BY <1>9, <2>0 DEF Pump, RtcTypeOK, Idle
  <2>2. CallShape' /\ IntervalOK' BY <1>9 DEF Pump, StillWanted, AsTime, RtcTypeOK, CallShape, IntervalOK, Idle
  <2>3. TargetOK' BY <1>9 DEF Pump, StillWanted, AsTime, RtcTypeOK, TargetOK, Idle
  <2> QED BY <1>9, <2>1, <2>2, <2>3 DEF Pump
<1>10. CASE SoftReset /\ UNCHANGED inside
  BY <1>10 DEF SoftReset, ResetCallback, ResetIrq, RtcTypeOK, CallShape, IntervalOK, TargetOK, Idle
<1>11. CASE (Tick \/ \E k \in (0 - MaxAhead) .. MaxLate : Datetime(k)) /\ UNCHANGED inside
  BY <1>11, ShiftInv DEF Tick, Datetime
<1>12. CASE UNCHANGED <<alarmVars, inside>>
  BY <1>12 DEF alarmVars, RtcTypeOK, CallShape, IntervalOK, TargetOK
<1> QED
  BY <1>1, <1>2, <1>3, <1>4, <1>5, <1>6, <1>7, <1>8, <1>9, <1>10, <1>11, <1>12
     DEF RtcNext, RtcStep, Alarm

LEMMA RtcInvAlways == RtcSpec => []RtcInv
BY RtcInitInv, RtcStepInv, PTL DEF RtcSpec

(* Between two calls alarm_target is the time the hardware is armed for,   *)
(* unless an alarm fires in the middle of alarm(); and no interrupt        *)
(* dispatches to an irq object of an earlier session.                      *)
THEOREM ArmedForTargetAlways == RtcSpec => []ArmedForTarget
<1>1. RtcInv => ArmedForTarget
  BY DEF RtcInv, ArmedForTarget, TargetOK, Idle
<1> QED BY <1>1, RtcInvAlways, PTL

(* An interrupt of a repeating alarm moves it to a later time.             *)
THEOREM RepeatAdvancesAlways == RtcSpec => RepeatAdvances
<1>1. RtcInv /\ [RtcNext]_<<alarmVars, inside>>
        => [~inside /\ Fire /\ repeat => target' > hw]_<<alarmVars, inside>>
  <2> SUFFICES ASSUME RtcInv, ~inside, Fire, repeat PROVE target' > hw
    OBVIOUS
  <2>1. py = Idle /\ hw \in Int /\ target = hw /\ ival >= 1
    BY DEF RtcInv, RtcTypeOK, Times, Fire, TargetOK, IntervalOK, Idle
  <2>2. target' = hw + ival /\ ival \in Int
    BY <2>1, RtcAssumption DEF Fire, AsTime, RtcInv, RtcTypeOK
  <2> QED BY <2>1, <2>2
<1> QED BY <1>1, RtcInvAlways, PTL DEF RtcSpec, RepeatAdvances

(***************************************************************************)
(* network.LAN                                                             *)
(***************************************************************************)
LanSteps == {"idle", "check", "request", "store", "route", "clear", "down", "up", "forget"}

(* Without overlap one of the two tasks is at rest, the flag is set only   *)
(* with an address on an interface that is up, and so is a lease that is   *)
(* not yet stored; while an address is taken away the flag is down.        *)
OneAtATime ==
  ~overlap =>
    /\ at["py"] = "idle" \/ at["monitor"] = "idle"
    /\ hasIp => addr /\ netif
    /\ \A t \in Tasks : at[t] = "store" /\ lease[t] => addr /\ netif
    /\ at["py"] \in {"clear", "down"} \/ at["monitor"] = "clear" => ~hasIp

(* With overlap too: whoever stored the flag last has set the route or     *)
(* will, and whoever saw the interface and the link up last will ask.      *)
RouteFollows == hasIp => route \/ \E t \in Tasks : at[t] = "route"

AskFollows ==
  netif /\ link /\ ~asked =>
    at["py"] \in {"check", "request"} \/ at["monitor"] \in {"up", "request"}

LanInv ==
  LanTypeOK /\ at \in [Tasks -> LanSteps] /\ OneAtATime /\ RouteFollows /\ AskFollows

LEMMA LanInitInv == LanInit => LanInv
BY DEF LanInit, LanInv, LanTypeOK, LanSteps, Tasks, OneAtATime, RouteFollows, AskFollows

LEMMA LanStepInv == LanInv /\ [LanNext]_<<lanVars, overlap>> => LanInv'
<1> SUFFICES ASSUME LanInv, [LanNext]_<<lanVars, overlap>> PROVE LanInv'
  OBVIOUS
<1> USE DEF LanInv, LanTypeOK, LanSteps, Tasks, OneAtATime, RouteFollows, AskFollows, Moves
<1>1. ASSUME NEW t \in Tasks, DhcpRequest(t), UNCHANGED overlap PROVE LanInv'
  BY <1>1 DEF DhcpRequest
<1>2. ASSUME NEW t \in Tasks, Store(t), UNCHANGED overlap PROVE LanInv'
  BY <1>2 DEF Store
<1>3. ASSUME NEW t \in Tasks, SetDefault(t), UNCHANGED overlap PROVE LanInv'
  BY <1>3 DEF SetDefault, Routed
<1>4. CASE (MakeNew \/ Ifconfig) /\ UNCHANGED overlap
  <2>1. CASE MakeNew BY <1>4, <2>1 DEF MakeNew
  <2>2. CASE Ifconfig
    <3>1. UNCHANGED <<overlap, started, netif, link, hasIp, route, at, lease, asked>> /\ addr'
      BY <1>4, <2>2 DEF Ifconfig
    <3>2. (LanTypeOK /\ at \in [Tasks -> LanSteps] /\ RouteFollows /\ AskFollows)'
      BY <3>1, <2>2 DEF Ifconfig
    <3>3. OneAtATime' BY <3>1
    <3> QED BY <3>2, <3>3
  <2> QED BY <1>4, <2>1, <2>2
<1>5. CASE ActiveTrue /\ UNCHANGED overlap BY <1>5 DEF ActiveTrue, MayStart
<1>6. CASE Check /\ UNCHANGED overlap BY <1>6 DEF Check, AfterCheck
<1>7. CASE ActiveFalse /\ UNCHANGED overlap BY <1>7 DEF ActiveFalse, MayStart, Forgotten
<1>8. CASE ClearIp /\ UNCHANGED overlap BY <1>8 DEF ClearIp
<1>9. CASE SetDown /\ UNCHANGED overlap BY <1>9 DEF SetDown
<1>10. CASE LinkChange /\ UNCHANGED overlap BY <1>10 DEF LinkChange, MayStart
<1>11. CASE LinkUp /\ UNCHANGED overlap BY <1>11 DEF LinkUp
<1>12. CASE LinkDown /\ UNCHANGED overlap BY <1>12 DEF LinkDown
<1>13. CASE LinkDownClear /\ UNCHANGED overlap BY <1>13 DEF LinkDownClear
<1>14. CASE UNCHANGED <<lanVars, overlap>> BY <1>14 DEF lanVars
<1> QED
  BY <1>1, <1>2, <1>3, <1>4, <1>5, <1>6, <1>7, <1>8, <1>9, <1>10, <1>11, <1>12, <1>13, <1>14
     DEF LanNext, LanStep

(* Without overlap isconnected() means an address on an interface that is  *)
(* up; with any overlap, once both tasks rest, a connected interface is    *)
(* the default one, and one that is up on a link that is up has asked for  *)
(* an address.                                                             *)
THEOREM LeaseReflectedAlways == LanSpec => []LeaseReflected
<1>1. LanInv => LeaseReflected
  BY DEF LanInv, OneAtATime, RouteFollows, AskFollows, LeaseReflected, Isconnected, Tasks
<1> QED BY <1>1, LanInitInv, LanStepInv, PTL DEF LanSpec

(***************************************************************************)
(* network.WLAN                                                            *)
(***************************************************************************)
(* With one thread at a time on the interface: one call waits at most; a   *)
(* call that starts the access point has been asked to; and what           *)
(* InterfacesServed says of each interface, unless a call is on its way to *)
(* it.                                                                     *)
OneWaits == \A u, w \in Users : wait[u] # "no" /\ wait[w] # "no" => u = w

ApServed ==
  /\ (\E u \in Users : wait[u] = "wifi_start_ap") => ap.wanted
  /\ ap.wanted /\ ap.ssid /\ ~failed =>
       ap.running \/ \E u \in Users : wait[u] = "wifi_start_ap"
  /\ ap.running => ap.wanted /\ ap.ip /\ ap.dhcps

StaServed == sta.joined => sta.ip \/ \E u \in Users : wait[u] = "lwip_request_ip"

WlanInv == WlanTypeOK /\ (alone => OneWaits /\ ApServed /\ StaServed)

LEMMA WlanInitInv == WlanInit => WlanInv
<1> SUFFICES ASSUME WlanInit PROVE WlanInv
  OBVIOUS
<1>1. WlanTypeOK
  <2>1. wait \in [Users -> {"no", "wifi_start_ap", "wifi_connect", "lwip_request_ip"}]
    BY DEF WlanInit
  <2> QED BY <2>1 DEF WlanInit, WlanTypeOK
<1>2. OneWaits /\ ApServed /\ StaServed BY DEF WlanInit, OneWaits, ApServed, StaServed
<1> QED BY <1>1, <1>2 DEF WlanInv

(* A call that may or may not have to start the access point.              *)
LEMMA StartIfInv ==
  ASSUME WlanInv, NEW u \in Users, MayCall(u), UNCHANGED <<sta, alone>>,
         NEW a \in [wanted : BOOLEAN, ssid : BOOLEAN, running : BOOLEAN, ip : BOOLEAN,
                    dhcps : BOOLEAN],
         NEW starts \in BOOLEAN, StartIf(u, starts, a),
         starts => a.wanted,
         alone => (a.running => a.wanted /\ a.ip /\ a.dhcps),
         alone /\ ~starts => (a.wanted /\ a.ssid /\ ~failed => a.running)
  PROVE  WlanInv'
<1> USE DEF WlanInv, MayCall, Waits, Users
<1>1. WlanTypeOK'
  <2>1. CleanedUp(a) \in [wanted : BOOLEAN, ssid : BOOLEAN, running : BOOLEAN, ip : BOOLEAN,
                          dhcps : BOOLEAN]
    BY DEF CleanedUp
  <2> QED BY <2>1 DEF StartIf, ApStart, WlanTypeOK
<1>2. (alone => OneWaits)' BY DEF StartIf, ApStart, WlanTypeOK, OneWaits
<1>3. (alone => StaServed)' BY DEF StartIf, ApStart, WlanTypeOK, StaServed
<1>4. (alone => ApServed)'
  <2>1. CASE starts /\ ApStart(u, a)
    BY <2>1 DEF ApStart, CleanedUp, WlanTypeOK, ApServed
  <2>2. CASE ~starts /\ ap' = a /\ UNCHANGED <<wait, failed>>
    BY <2>2 DEF ApServed
  <2> QED BY <2>1, <2>2 DEF StartIf
<1> QED BY <1>1, <1>2, <1>3, <1>4

LEMMA WlanStepInv == WlanInv /\ [WlanNext]_<<wlanVars, alone>> => WlanInv'
<1> SUFFICES ASSUME WlanInv, [WlanNext]_<<wlanVars, alone>> PROVE WlanInv'
  OBVIOUS
<1>0. /\ wait \in [Users -> {"no", "wifi_start_ap", "wifi_connect", "lwip_request_ip"}]
      /\ ap \in [wanted : BOOLEAN, ssid : BOOLEAN, running : BOOLEAN, ip : BOOLEAN,
                 dhcps : BOOLEAN]
  BY DEF WlanInv, WlanTypeOK
<1>1. ASSUME NEW u \in Users, ApActiveTrue(u), UNCHANGED alone PROVE WlanInv'
  <2> DEFINE a == [ap EXCEPT !.wanted = TRUE]
  <2>1. /\ a \in [wanted : BOOLEAN, ssid : BOOLEAN, running : BOOLEAN, ip : BOOLEAN,
                  dhcps : BOOLEAN]
        /\ a.wanted /\ a.ssid = ap.ssid /\ a.running = ap.running /\ a.ip = ap.ip
        /\ a.dhcps = ap.dhcps
    BY <1>0
  <2>2. MayCall(u) /\ StartIf(u, a.ssid, a) /\ UNCHANGED sta
    BY <1>1 DEF ApActiveTrue, ActiveStarts
  <2>3. a.ssid \in BOOLEAN BY <2>1
  <2>4. alone => (a.running => a.wanted /\ a.ip /\ a.dhcps)
    BY <2>1 DEF WlanInv, ApServed
  <2> HIDE DEF a
  <2> QED BY <1>1, <2>1, <2>2, <2>3, <2>4, StartIfInv
<1>2. ASSUME NEW u \in Users, ApConfig(u), UNCHANGED alone PROVE WlanInv'
  <2>0. PICK s \in BOOLEAN :
          LET a == [ap EXCEPT !.ssid = s] IN StartIf(u, ConfigStarts(a), a)
    BY <1>2 DEF ApConfig
  <2> DEFINE a == [ap EXCEPT !.ssid = s]
  <2>1. /\ a \in [wanted : BOOLEAN, ssid : BOOLEAN, running : BOOLEAN, ip : BOOLEAN,
                  dhcps : BOOLEAN]
        /\ a.wanted = ap.wanted /\ a.running = ap.running /\ a.ip = ap.ip
        /\ a.dhcps = ap.dhcps
    BY <1>0
  <2>2. MayCall(u) /\ StartIf(u, ConfigStarts(a), a) /\ UNCHANGED sta
    BY <1>2, <2>0 DEF ApConfig
  <2>3. /\ ConfigStarts(a) \in BOOLEAN /\ (ConfigStarts(a) => a.wanted)
        /\ ~ConfigStarts(a) => (a.wanted /\ a.ssid => a.running)
    BY <2>1 DEF ConfigStarts
  <2>4. alone => (a.running => a.wanted /\ a.ip /\ a.dhcps)
    BY <2>1 DEF WlanInv, ApServed
  <2> HIDE DEF a
  <2> QED BY <1>2, <2>1, <2>2, <2>3, <2>4, StartIfInv
<1> USE DEF WlanInv, WlanTypeOK, OneWaits, ApServed, StaServed, MayCall, Waits, Users
<1>3. ASSUME NEW u \in Users, ApActiveFalse(u), UNCHANGED alone PROVE WlanInv'
  BY <1>3 DEF ApActiveFalse, CleanedUp
<1>4. ASSUME NEW u \in Users, ApConfigRaises(u), UNCHANGED alone PROVE WlanInv'
  BY <1>4 DEF ApConfigRaises
<1>5. ASSUME NEW u \in Users, ApStarted(u), UNCHANGED alone PROVE WlanInv'
  BY <1>5 DEF ApStarted
<1>6. ASSUME NEW u \in Users, ApIfconfig(u), UNCHANGED alone PROVE WlanInv'
  BY <1>6 DEF ApIfconfig
<1>7. ASSUME NEW u \in Users, Connect(u), UNCHANGED alone PROVE WlanInv'
  BY <1>7 DEF Connect
<1>8. ASSUME NEW u \in Users, Joined(u), UNCHANGED alone PROVE WlanInv'
  <2>1. CASE sta' = [sta EXCEPT !.joined = TRUE] /\ Waits(u, "lwip_request_ip")
    BY <1>8, <2>1 DEF Joined
  <2>2. CASE sta' = [sta EXCEPT !.joined = FALSE] /\ Waits(u, "no")
    BY <1>8, <2>2 DEF Joined
  <2> QED BY <1>8, <2>1, <2>2 DEF Joined
<1>9. ASSUME NEW u \in Users, Leased(u), UNCHANGED alone PROVE WlanInv'
  BY <1>9 DEF Leased, NoLease
<1>10. ASSUME NEW u \in Users, Disconnect(u) \/ StaIfconfig(u), UNCHANGED alone PROVE WlanInv'
  <2>1. sta' \in [joined : BOOLEAN, ip : BOOLEAN, static : BOOLEAN] /\ (sta'.joined => sta'.ip)
    <3>1. CASE Disconnect(u) BY <3>1 DEF Disconnect
    <3>2. CASE StaIfconfig(u) BY <3>2 DEF StaIfconfig
    <3> QED BY <1>10, <3>1, <3>2
  <2>2. UNCHANGED <<ap, wait, failed, alone>>
    BY <1>10 DEF Disconnect, StaIfconfig
  <2> QED BY <2>1, <2>2
<1>11. CASE LinkLost /\ UNCHANGED alone
  BY <1>11 DEF LinkLost
<1>12. CASE UNCHANGED <<wlanVars, alone>> BY <1>12 DEF wlanVars
<1> QED
  BY <1>1, <1>2, <1>3, <1>4, <1>5, <1>6, <1>7, <1>8, <1>9, <1>10, <1>11, <1>12
     DEF WlanNext, WlanStep

(* With one thread at a time on the interface, between two calls: an       *)
(* access point that is wanted and named runs unless its start raised, one *)
(* that runs is wanted and served, and a joined station has an address.    *)
THEOREM InterfacesServedAlways == WlanSpec => []InterfacesServed
<1>1. WlanInv => InterfacesServed
  BY DEF WlanInv, InterfacesServed, ApServed, StaServed
<1> QED BY <1>1, WlanInitInv, WlanStepInv, PTL DEF WlanSpec

(***************************************************************************)
(* machine.I2S: bytes in order and bytes modulo a half.                    *)
(***************************************************************************)
Run(p, q) == [j \in 1 .. q - p |-> p + j]

LEMMA RunSeq ==
  ASSUME NEW p \in Nat, NEW q \in Nat, p <= q
  PROVE  /\ Run(p, q) \in Seq(Nat) /\ Len(Run(p, q)) = q - p
         /\ \A j \in 1 .. q - p : Run(p, q)[j] = p + j
BY DEF Run

LEMMA RunIs ==
  ASSUME NEW p \in Nat, NEW q \in Nat, p <= q, NEW s \in Seq(Nat),
         Len(s) = q - p, \A j \in 1 .. q - p : s[j] = p + j
  PROVE  s = Run(p, q)
BY DEF Run

(* What follows the first part of a run is a run.                          *)
LEMMA RunRest ==
  ASSUME NEW p \in Nat, NEW q \in Nat, p <= q, NEW s \in Seq(Nat), NEW t \in Seq(Nat),
         s \o t = Run(p, q)
  PROVE  p + Len(s) <= q /\ t = Run(p + Len(s), q)
<1>0. PICK m \in Nat, n \in Nat : Len(s) = m /\ Len(t) = n OBVIOUS
<1>1. PICK r \in Seq(Nat) : r = s \o t BY ConcatProperties
<1>2. Len(r) = m + n /\ \A i \in 1 .. m + n : r[i] = IF i <= m THEN s[i] ELSE t[i - m]
  BY <1>0, <1>1, ConcatProperties
<1>3. Len(r) = q - p /\ \A j \in 1 .. q - p : r[j] = p + j BY ZenonT(40), <1>1, RunSeq
<1>4. m + n = q - p BY <1>2, <1>3
<1>5. ASSUME NEW j \in 1 .. n PROVE t[j] = p + m + j
  <2>1. PICK i \in 1 .. m + n : i = m + j /\ ~(i <= m) /\ i - m = j BY <1>0
  <2>2. r[i] = t[i - m] BY <2>1, <1>2
  <2>3. i \in 1 .. q - p BY <1>4
  <2>4. r[i] = p + i BY <2>3, <1>3
  <2>5. t[i - m] = t[j] BY <2>1
  <2>6. p + i = p + m + j BY <2>1
  <2> QED BY ONLY <2>2, <2>4, <2>5, <2>6
<1>6. p + m <= q /\ p + m \in Nat /\ n = q - (p + m) BY <1>4
<1> QED BY <1>0, <1>5, <1>6, RunIs

(* A run goes on where it stopped.                                         *)
LEMMA RunMore ==
  ASSUME NEW p \in Nat, NEW q \in Nat, p <= q, NEW k \in Nat
  PROVE  Run(p, q) \o Run(q, q + k) = Run(p, q + k)
<1>1. PICK a \in Seq(Nat) :
        a = Run(p, q) /\ Len(a) = q - p /\ \A j \in 1 .. q - p : a[j] = p + j
  BY RunSeq
<1>2. q + k \in Nat /\ q <= q + k /\ (q + k) - q = k OBVIOUS
<1>3. PICK b \in Seq(Nat) :
        b = Run(q, q + k) /\ Len(b) = k /\ \A j \in 1 .. k : b[j] = q + j
  <2>1. PICK z \in Nat : z = q + k /\ q <= z /\ z - q = k BY <1>2
  <2>2. Run(q, z) \in Seq(Nat) /\ Len(Run(q, z)) = z - q /\ \A j \in 1 .. z - q : Run(q, z)[j] = q + j
    BY ONLY q \in Nat, z \in Nat, <2>1, RunSeq
  <2> QED BY <2>1, <2>2
<1>4. PICK r \in Seq(Nat) : r = a \o b BY ConcatProperties
<1>5. /\ Len(r) = q + k - p
      /\ \A j \in 1 .. q + k - p : r[j] = IF j <= q - p THEN a[j] ELSE b[j - (q - p)]
  <2>1. /\ Len(r) = Len(a) + Len(b)
        /\ \A j \in 1 .. Len(a) + Len(b) : r[j] = IF j <= Len(a) THEN a[j] ELSE b[j - Len(a)]
    BY ONLY a \in Seq(Nat), b \in Seq(Nat), <1>4, ConcatProperties
  <2>2. Len(a) = q - p /\ Len(b) = k BY <1>1, <1>3
  <2>3. (q - p) + k = q + k - p OBVIOUS
  <2>4. Len(a) + Len(b) = q + k - p BY ONLY <2>2, <2>3
  <2> QED BY ONLY <2>1, <2>2, <2>4
<1>6. ASSUME NEW j \in 1 .. q + k - p PROVE r[j] = p + j
  <2>1. CASE j <= q - p BY <2>1, <1>1, <1>5
  <2>2. CASE j > q - p
    <3>1. j - (q - p) \in 1 .. k BY <2>2
    <3>2. b[j - (q - p)] = q + (j - (q - p)) BY <3>1, <1>3
    <3> QED BY <2>2, <1>5, <3>2
  <2> QED BY <2>1, <2>2
<1>7. r = Run(p, q + k) BY <1>5, <1>6, RunIs
<1> QED BY <1>1, <1>3, <1>4, <1>7

(* A sequence cut in two.                                                  *)
LEMMA Cut ==
  ASSUME NEW S, NEW s \in Seq(S), NEW k \in Nat, k <= Len(s)
  PROVE  /\ SubSeq(s, 1, k) \in Seq(S) /\ Len(SubSeq(s, 1, k)) = k
         /\ SubSeq(s, k + 1, Len(s)) \in Seq(S) /\ Len(SubSeq(s, k + 1, Len(s))) = Len(s) - k
         /\ SubSeq(s, 1, k) \o SubSeq(s, k + 1, Len(s)) = s
         /\ \A j \in 1 .. Len(s) - k : SubSeq(s, k + 1, Len(s))[j] = s[k + j]
<1>0. Len(s) \in Nat /\ \A i \in 1 .. Len(s) : s[i] \in S OBVIOUS
<1>1. SubSeq(s, 1, k) \in Seq(S) /\ SubSeq(s, k + 1, Len(s)) \in Seq(S)
  BY <1>0, SubSeqProperties
<1>2. Len(SubSeq(s, 1, k)) = k /\ Len(SubSeq(s, k + 1, Len(s))) = Len(s) - k
  BY <1>0, SubSeqProperties
<1>3. 1 \in 1 .. Len(s) + 1 /\ k \in 1 - 1 .. Len(s) /\ Len(s) \in k .. Len(s) BY <1>0
<1>4. SubSeq(s, 1, k) \o SubSeq(s, k + 1, Len(s)) = SubSeq(s, 1, Len(s))
  BY ONLY s \in Seq(S), <1>3, ConcatAdjacentSubSeq
<1>5. SubSeq(s, 1, Len(s)) = s BY SubSeqFull
<1>6. ASSUME NEW j \in 1 .. Len(s) - k PROVE SubSeq(s, k + 1, Len(s))[j] = s[k + j]
  <2>1. k + 1 \in Int /\ Len(s) \in Int /\ j \in 1 .. Len(s) - (k + 1) + 1 BY <1>0
  <2>2. SubSeq(s, k + 1, Len(s))[j] = s[(k + 1) + j - 1] BY <2>1, <1>0, SubSeqProperties
  <2>3. (k + 1) + j - 1 = k + j OBVIOUS
  <2> QED BY <2>2, <2>3
<1> QED BY <1>1, <1>2, <1>4, <1>5, <1>6

LEMMA DivMod ==
  ASSUME NEW n \in Nat \ {0}, NEW a \in Nat
  PROVE  a = n * (a \div n) + (a % n) /\ a % n \in 0 .. n - 1 /\ a \div n \in Nat
OBVIOUS

LEMMA ModOf ==
  ASSUME NEW n \in Nat \ {0}, NEW a \in Nat, NEW q \in Int, NEW r \in 0 .. n - 1, a = n * q + r
  PROVE  a % n = r
OBVIOUS

LEMMA ModSum ==
  ASSUME NEW n \in Nat \ {0}, NEW a \in Nat, NEW b \in Nat
  PROVE  ((a % n) + b) % n = (a + b) % n
<1> DEFINE q == a \div n
           c == (a % n) + b
           r == c \div n
           m == c % n
<1>1. a = n * q + (a % n) /\ a % n \in Nat /\ q \in Nat BY DivMod
<1>2. c \in Nat BY <1>1
<1>3. c = n * r + m /\ m \in 0 .. n - 1 /\ r \in Nat BY <1>2, DivMod
<1>4. a + b = n * q + c BY <1>1
<1>5. a + b = n * q + (n * r + m) BY <1>3, <1>4
<1> HIDE DEF q, c, r, m
<1>6. n * q + (n * r + m) = n * (q + r) + m BY <1>1, <1>3
<1>7. q + r \in Int /\ a + b \in Nat BY <1>1, <1>3
<1>8. (a + b) % n = m BY <1>5, <1>6, <1>7, <1>3, ModOf
<1> QED BY <1>8 DEF m, c

LEMMA ModStart ==
  ASSUME NEW n \in Nat \ {0}, NEW a \in Nat, a % n = 0, NEW b \in 0 .. n - 1
  PROVE  (a + b) % n = b
<1>1. a = n * (a \div n) + (a % n) /\ a \div n \in Nat BY DivMod
<1>2. PICK q \in Nat : a = n * q
  <2>1. PICK q \in Nat : q = a \div n BY <1>1
  <2>2. a = n * q + 0 BY <1>1, <2>1
  <2> QED BY <2>2
<1>3. a + b = n * q + b /\ a + b \in Nat /\ q \in Int BY <1>2
<1> QED BY ONLY n \in Nat \ {0}, b \in 0 .. n - 1, <1>3, ModOf

LEMMA ModFull ==
  ASSUME NEW n \in Nat \ {0}, NEW a \in Nat, a % n = 0
  PROVE  (a + n) % n = 0
<1>1. a = n * (a \div n) + (a % n) /\ a \div n \in Nat BY DivMod
<1>2. PICK q \in Nat : a = n * q
  <2>1. PICK q \in Nat : q = a \div n BY <1>1
  <2>2. a = n * q + 0 BY <1>1, <2>1
  <2> QED BY <2>2
<1>3. /\ a + n = n * (q + 1) + 0 /\ a + n \in Nat /\ q + 1 \in Int /\ 0 \in 0 .. n - 1
  BY <1>2
<1> QED BY ONLY n \in Nat \ {0}, <1>3, ModOf

(***************************************************************************)
(* machine.I2S: the invariant.                                             *)
(***************************************************************************)
Objects ==
  [rooted : BOOLEAN, mode : {"TX", "RX"}, active : BOOLEAN, initted : BOOLEAN,
   half : 0 .. 1, mem : SUBSET Blocks, blocking : BOOLEAN, copy : BOOLEAN]
Channels ==
  [state : {"off", "on", "draining", "inactive"}, half : 0 .. 1, int : SUBSET {"block", "err"}]

(* The object has its memory exactly while it has a channel.               *)
Live ==
  IF chan.state = "off" THEN ~i2s.active /\ ~i2s.initted /\ i2s.mem = {}
                        ELSE i2s.active /\ i2s.initted /\ i2s.mem = Blocks

(* No half is overfull, and a copy in progress stays within the bound.     *)
Bounded ==
  /\ \A h \in 0 .. 1 : Len(buf[h]) <= Half
  /\ todo <= MaxStream /\ (spin => i2s.blocking /\ todo >= 1)
  /\ i2s.mode = "TX" /\ (i2s.copy \/ spin) => pushed + todo <= MaxStream

(* Interrupts in time: the object and the hardware are on different halves *)
(* exactly while the end of one of them is not handled.                    *)
Alternate ==
  env # "late" =>
    ~clash /\ (chan.state # "off" => ("block" \in chan.int <=> i2s.half # chan.half))

TxOrder ==
  env # "late" /\ i2s.active /\ i2s.mode = "TX" =>
    popped <= pushed /\ OnTheWay = Run(popped, pushed)

(* The ring begins where readinto() goes on, and ends with a half.         *)
Aligned(r, p) ==
  (\A j \in 1 .. Len(r) : r[j] = (p + j - 1) % Half) /\ (p + Len(r)) % Half = 0

Filled == [j \in 1 .. Half |-> j - 1]

RxOrder ==
  env # "late" /\ i2s.active /\ i2s.mode = "RX" =>
    Aligned(ring, popped) /\ ("block" \in chan.int => buf[i2s.half] = Filled)

(* A careful program, a channel that drains in time: one caller at most is *)
(* in the wait of deinit(), and then and only then the channel is          *)
(* suspended.                                                              *)
CarefulUse ==
  env \in {"nothing", "late"} =>
    /\ ~wild /\ (chan.state # "off" => i2s.rooted)
    /\ \A c, e \in Callers : waiting[c] # "no" /\ waiting[e] # "no" => c = e
    /\ (\E c \in Callers : waiting[c] # "no") <=> chan.state \in {"draining", "inactive"}

I2sInv ==
  /\ I2sTypeOK /\ Live /\ Bounded /\ Alternate /\ TxOrder /\ RxOrder /\ CarefulUse

(* What the constructor, init() and deinit() leave.                        *)
Reset ==
  /\ i2s' \in Objects /\ ring' = <<>> /\ buf' = Silence /\ pushed' = 0 /\ popped' = 0
  /\ \/ chan' = NoChannel /\ ~i2s'.active /\ ~i2s'.initted /\ i2s'.mem = {}
     \/ /\ chan' = [NoChannel EXCEPT !.state = "on"]
        /\ i2s'.active /\ i2s'.initted /\ i2s'.mem = Blocks /\ i2s'.half = 0

LEMMA HelperResets ==
  ASSUME NEW o \in Objects, ~o.active, ~o.initted, o.mem = {}, I2sInitHelper(o)
  PROVE  Reset /\ i2s'.rooted = o.rooted
<1>1. CASE (\E b \in Blocks : AllocFails(o, b)) /\ Stopped
  <2>0. \A b \in Blocks : GotBefore[b] = FreedAt[b] BY DEF Blocks, GotBefore, FreedAt
  <2>1. i2s' = [o EXCEPT !.mem = {}] /\ Stopped
    BY <1>1, <2>0 DEF AllocFails, Objects
  <2> QED BY <2>1 DEF Stopped, Reset, Objects
<1>2. CASE \E m \in {"TX", "RX"} : StartedAs(o, m)
  <2>1. PICK m \in {"TX", "RX"} : StartedAs(o, m) BY <1>2
  <2>2. i2s' = [o EXCEPT !.mode = m, !.mem = Blocks, !.half = 0, !.initted = TRUE, !.active = TRUE]
    BY <2>1 DEF StartedAs
  <2>3. 0 \in 0 .. 1 /\ Blocks \in SUBSET Blocks OBVIOUS
  <2>4. i2s' \in Objects BY ONLY o \in Objects, m \in {"TX", "RX"}, <2>2, <2>3 DEF Objects
  <2>5. /\ i2s'.active /\ i2s'.initted /\ i2s'.mem = Blocks /\ i2s'.half = 0
        /\ i2s'.rooted = o.rooted
    BY ONLY o \in Objects, <2>2 DEF Objects
  <2> QED BY <2>1, <2>4, <2>5 DEF StartedAs, Reset
<1> QED BY <1>1, <1>2 DEF I2sInitHelper

LEMMA CleanObject ==
  ASSUME NEW o \in Objects
  PROVE  /\ Clean(o) \in Objects /\ ~Clean(o).active /\ ~Clean(o).initted
         /\ Clean(o).mem = {} /\ Clean(o).rooted
<1>1. 0 \in 0 .. 1 /\ {} \in SUBSET Blocks OBVIOUS
<1>2. Clean(o) \in Objects BY ONLY o \in Objects, <1>1 DEF Clean, Objects
<1>3. /\ ~Clean(o).active /\ ~Clean(o).initted /\ Clean(o).mem = {} /\ Clean(o).rooted
  BY ONLY o \in Objects DEF Clean, Objects
<1> QED BY <1>2, <1>3

LEMMA TornDownObject ==
  ASSUME NEW o \in Objects
  PROVE  /\ TornDown(o) \in Objects /\ ~TornDown(o).active /\ ~TornDown(o).initted
         /\ TornDown(o).mem = {} /\ TornDown(o).rooted = o.rooted
BY DEF TornDown, Objects

LEMMA GoesOnResets ==
  ASSUME NEW o \in Objects, ~o.active, ~o.initted, o.mem = {},
         NEW what \in AfterDeinit, GoesOn(what, o)
  PROVE  /\ Reset /\ todo' \in {0, todo}
         /\ o.rooted /\ chan'.state # "off" => i2s'.rooted
<1>1. CASE what = "construct"
  BY <1>1, CleanObject, HelperResets DEF GoesOn
<1>2. CASE what = "init"
  BY <1>2, HelperResets DEF GoesOn
<1>3. CASE what \in {"return", "forget"}
  <2>1. i2s' = [o EXCEPT !.rooted = what # "forget"] /\ Stopped /\ todo' \in {0, todo}
    BY <1>3 DEF GoesOn
  <2> QED BY <2>1 DEF Stopped, Reset, Objects, NoChannel
<1> QED BY <1>1, <1>2, <1>3 DEF AfterDeinit

(* All but CarefulUse holds again after each of them.                      *)
LEMMA ResetInv ==
  ASSUME I2sInv, Reset, todo' \in {0, todo}, ~spin, UNCHANGED <<spin, clash, env>>,
         wild' \in BOOLEAN, waiting' \in [Callers -> AfterDeinit \cup {"no"}]
  PROVE  (I2sTypeOK /\ Live /\ Bounded /\ Alternate /\ TxOrder /\ RxOrder)'
<1> USE I2sAssumption DEF I2sInv, Reset
<1>0. /\ Silence \in [0 .. 1 -> Seq(Nat)] /\ Len(<<>>) = 0 /\ <<>> \in Seq(Nat)
      /\ \A h \in 0 .. 1 : Silence[h] = <<>>
      /\ <<>> \o <<>> \o <<>> = <<>> /\ <<>> = Run(0, 0)
  BY ConcatEmptySeq, EmptySeq DEF Silence, Run
<1>1. chan' \in Channels /\ chan'.int = {} /\ chan'.half = 0 BY DEF NoChannel, Channels
<1>2. I2sTypeOK' BY <1>0, <1>1 DEF I2sTypeOK, Objects, Channels
<1>3. Live' BY DEF Live, NoChannel
<1>4. Bounded' BY <1>0 DEF Bounded, I2sTypeOK
<1>5. Alternate' BY DEF Alternate, NoChannel
<1>6. TxOrder' BY <1>0, <1>1 DEF TxOrder, OnTheWay
<1>7. RxOrder' BY <1>0, <1>1, ModOf DEF RxOrder, Aligned
<1> QED BY <1>2, <1>3, <1>4, <1>5, <1>6, <1>7

LEMMA I2sInitInv == I2sInit => I2sInv
<1> SUFFICES ASSUME I2sInit PROVE I2sInv
  OBVIOUS
<1> USE I2sAssumption DEF I2sInit
<1>0. /\ Silence \in [0 .. 1 -> Seq(Nat)] /\ Len(<<>>) = 0 /\ <<>> \in Seq(Nat)
      /\ \A h \in 0 .. 1 : Silence[h] = <<>>
  BY EmptySeq DEF Silence
<1>1. i2s \in Objects /\ ~i2s.active /\ ~i2s.initted /\ i2s.mem = {} /\ ~i2s.copy
  BY DEF Objects
<1>2. chan \in Channels /\ chan.state = "off" BY DEF NoChannel, Channels
<1>3. waiting \in [Callers -> AfterDeinit \cup {"no"}] /\ \A c \in Callers : waiting[c] = "no"
  OBVIOUS
<1>4. I2sTypeOK
  <2>1. /\ todo \in Nat /\ pushed \in 0 .. MaxStream /\ popped \in Nat /\ Len(ring) <= RingSize
        /\ ring \in Seq(Nat) /\ buf \in [0 .. 1 -> Seq(Nat)]
    BY <1>0
  <2>2. spin \in BOOLEAN /\ clash \in BOOLEAN /\ wild \in BOOLEAN /\ env \in I2sEnv OBVIOUS
  <2> HIDE DEF I2sInit
  <2> QED BY <1>1, <1>2, <1>3, <2>1, <2>2 DEF I2sTypeOK, Objects, Channels
<1>5. Live /\ Alternate /\ TxOrder /\ RxOrder BY <1>1, <1>2 DEF Live, Alternate, TxOrder, RxOrder
<1>6. Bounded BY <1>0, <1>1 DEF Bounded
<1>7. CarefulUse BY <1>2, <1>3 DEF CarefulUse
<1> QED BY <1>4, <1>5, <1>6, <1>7 DEF I2sInv

LEMMA ConstructInv == ASSUME I2sInv, NEW c \in Callers, Construct(c), UNCHANGED env PROVE I2sInv'
<1>0. i2s \in Objects BY DEF I2sInv, I2sTypeOK, Objects
<1>1. Reset /\ i2s'.rooted BY <1>0, CleanObject, HelperResets DEF Construct
<1>2. (I2sTypeOK /\ Live /\ Bounded /\ Alternate /\ TxOrder /\ RxOrder)'
  BY <1>1, ResetInv DEF Construct, Calls, I2sInv, I2sTypeOK
<1>3. CarefulUse'
  BY <1>1 DEF Construct, Calls, I2sInv, CarefulUse, Reset, NoChannel
<1> QED BY <1>2, <1>3 DEF I2sInv

LEMMA NothingToStopInv ==
  ASSUME I2sInv, NEW c \in Callers, NEW what \in AfterDeinit, NothingToStop(c, what), UNCHANGED env
  PROVE  I2sInv'
<1>0. i2s \in Objects BY DEF I2sInv, I2sTypeOK, Objects
<1>1. Reset /\ todo' \in {0, todo} /\ (chan'.state # "off" => i2s'.rooted)
  BY <1>0, TornDownObject, GoesOnResets DEF NothingToStop
<1>2. (I2sTypeOK /\ Live /\ Bounded /\ Alternate /\ TxOrder /\ RxOrder)'
  BY <1>1, ResetInv DEF NothingToStop, Calls, I2sInv, I2sTypeOK
<1>3. CarefulUse'
  BY <1>1 DEF NothingToStop, Calls, I2sInv, CarefulUse, Reset, NoChannel
<1> QED BY <1>2, <1>3 DEF I2sInv

LEMMA AbortInv == ASSUME I2sInv, NEW c \in Callers, Abort(c), UNCHANGED env PROVE I2sInv'
<1>0. /\ i2s \in Objects /\ waiting \in [Callers -> AfterDeinit \cup {"no"}]
      /\ wild \in BOOLEAN
  BY DEF I2sInv, I2sTypeOK, Objects
<1>1. waiting[c] \in AfterDeinit BY <1>0 DEF Abort
<1>2. waiting' = [waiting EXCEPT ![c] = "no"] BY DEF Abort, Then
<1>3. /\ Reset /\ todo' \in {0, todo}
      /\ i2s.rooted /\ chan'.state # "off" => i2s'.rooted
  <2> DEFINE o == TornDown(i2s)
  <2>1. o \in Objects /\ ~o.active /\ ~o.initted /\ o.mem = {} /\ o.rooted = i2s.rooted
    BY <1>0, TornDownObject
  <2>2. GoesOn(waiting[c], o) BY DEF Abort
  <2> HIDE DEF o
  <2> QED BY <1>1, <2>1, <2>2, GoesOnResets
<1>4. (I2sTypeOK /\ Live /\ Bounded /\ Alternate /\ TxOrder /\ RxOrder)'
  BY <1>0, <1>2, <1>3, ResetInv DEF Abort
<1>5. CarefulUse'
  <2> SUFFICES ASSUME env \in {"nothing", "late"} PROVE CarefulUse'
    BY DEF CarefulUse
  <2>1. chan.state = "inactive" /\ i2s.initted /\ i2s.rooted /\ ~wild
    BY DEF Abort, WaitOver, I2sInv, CarefulUse, Live
  <2>2. \A e \in Callers : waiting'[e] = "no"
    BY <1>0, <1>2 DEF Abort, I2sInv, CarefulUse
  <2>3. ~wild' BY <2>1 DEF Abort
  <2>4. chan'.state \in {"off", "on"} BY <1>3 DEF Reset, NoChannel
  <2> QED BY <1>3, <2>1, <2>2, <2>3, <2>4 DEF CarefulUse
<1> QED BY <1>4, <1>5 DEF I2sInv

(* The channel is suspended or becomes inactive.                           *)
LEMMA StateInv ==
  ASSUME I2sInv, chan.state # "off", NEW st \in {"draining", "inactive"},
         chan' = [chan EXCEPT !.state = st], waiting' \in [Callers -> AfterDeinit \cup {"no"}],
         UNCHANGED <<i2s, ring, buf, todo, spin, pushed, popped, clash, wild, env>>
  PROVE  (I2sTypeOK /\ Live /\ Bounded /\ Alternate /\ TxOrder /\ RxOrder)'
<1>0. /\ chan \in Channels /\ chan' \in Channels
      /\ chan'.half = chan.half /\ chan'.int = chan.int /\ chan'.state = st
  BY DEF I2sInv, I2sTypeOK, Channels
<1>1. I2sTypeOK' BY <1>0 DEF I2sInv, I2sTypeOK, Channels
<1>2. (Live /\ Bounded /\ Alternate)' BY <1>0 DEF I2sInv, Live, Bounded, Alternate
<1>3. OnTheWay' = OnTheWay
  <2>1. buf' = buf /\ ring' = ring /\ chan'.half = chan.half /\ chan'.int = chan.int BY <1>0
  <2> QED BY ONLY <2>1 DEF OnTheWay
<1>4. (TxOrder /\ RxOrder)' BY <1>0, <1>3 DEF I2sInv, TxOrder, RxOrder
<1> QED BY <1>1, <1>2, <1>4

LEMMA SuspendInv ==
  ASSUME I2sInv, NEW c \in Callers, NEW what \in AfterDeinit, Suspend(c, what), UNCHANGED env
  PROVE  I2sInv'
<1>0. chan \in Channels /\ waiting \in [Callers -> AfterDeinit \cup {"no"}]
  BY DEF I2sInv, I2sTypeOK, Channels
<1>1. chan.state # "off" BY DEF Suspend, I2sInv, Live
<1>2. PICK st \in {"draining", "inactive"} : chan' = [chan EXCEPT !.state = st]
  BY <1>0, <1>1 DEF Suspend, Channels
<1>3. waiting' = [waiting EXCEPT ![c] = what] BY DEF Suspend, Then
<1>4. waiting' \in [Callers -> AfterDeinit \cup {"no"}] BY <1>0, <1>3
<1>5. (I2sTypeOK /\ Live /\ Bounded /\ Alternate /\ TxOrder /\ RxOrder)'
  BY <1>1, <1>2, <1>4, StateInv DEF Suspend
<1>6. CarefulUse'
  <2>1. chan'.state \in {"draining", "inactive"} BY <1>0, <1>2 DEF Channels
  <2>2. waiting'[c] # "no" BY <1>0, <1>3 DEF AfterDeinit
  <2>3. ASSUME env \in {"nothing", "late"}, NEW e \in Callers, e # c PROVE waiting'[e] = "no"
    BY <1>0, <1>3, <2>3 DEF Suspend, Calls
  <2> QED BY <1>1, <2>1, <2>2, <2>3 DEF Suspend, I2sInv, CarefulUse
<1> QED BY <1>5, <1>6 DEF I2sInv

LEMMA DrainedInv == ASSUME I2sInv, Drained, UNCHANGED env PROVE I2sInv'
<1>0. chan \in Channels /\ waiting \in [Callers -> AfterDeinit \cup {"no"}]
  BY DEF I2sInv, I2sTypeOK, Channels
<1>1. (I2sTypeOK /\ Live /\ Bounded /\ Alternate /\ TxOrder /\ RxOrder)'
  BY <1>0, StateInv DEF Drained
<1>2. CarefulUse' BY <1>0 DEF Drained, I2sInv, CarefulUse, Channels
<1> QED BY <1>1, <1>2 DEF I2sInv

(* write(), readinto() and irq() change flags of the object.               *)
LEMMA CallInv ==
  ASSUME I2sInv, NEW c \in Callers, NEW n \in 1 .. MaxStream, NEW b \in BOOLEAN,
         Transfer(c, n) \/ I2sIrq(c, b) \/ UsedAfter(c), UNCHANGED env
  PROVE  I2sInv'
<1>0. i2s \in Objects BY DEF I2sInv, I2sTypeOK, Objects
<1>1. /\ i2s' \in Objects /\ todo' \in Nat /\ todo' <= MaxStream /\ spin' \in BOOLEAN
      /\ wild' \in BOOLEAN
      /\ i2s'.rooted = i2s.rooted /\ i2s'.mode = i2s.mode /\ i2s'.active = i2s.active
      /\ i2s'.initted = i2s.initted /\ i2s'.half = i2s.half /\ i2s'.mem = i2s.mem
      /\ UNCHANGED <<ring, buf, chan, waiting, pushed, popped, clash, env>>
      /\ env # "careless" => wild' = wild
  <2>1. CASE Transfer(c, n)
    <3>1. i2s' = [i2s EXCEPT !.copy = ~@ /\ ~i2s.blocking] BY <2>1 DEF Transfer
    <3>2. /\ i2s' \in Objects /\ i2s.blocking \in BOOLEAN
          /\ i2s'.rooted = i2s.rooted /\ i2s'.mode = i2s.mode /\ i2s'.active = i2s.active
          /\ i2s'.initted = i2s.initted /\ i2s'.half = i2s.half /\ i2s'.mem = i2s.mem
      BY ONLY <1>0, <3>1 DEF Objects
    <3>3. wild \in BOOLEAN BY DEF I2sInv, I2sTypeOK
    <3>4. todo' \in Nat /\ todo' <= MaxStream BY <2>1, I2sAssumption DEF Transfer
    <3>5. /\ spin' = i2s.blocking /\ wild' = wild
          /\ UNCHANGED <<ring, buf, chan, waiting, pushed, popped, clash>>
      BY <2>1 DEF Transfer
    <3> QED BY <3>2, <3>3, <3>4, <3>5
  <2>2. CASE I2sIrq(c, b)
    BY <1>0, <2>2 DEF I2sIrq, I2sInv, I2sTypeOK, Objects, Bounded
  <2>3. CASE UsedAfter(c)
    BY <1>0, <2>3 DEF UsedAfter, I2sInv, I2sTypeOK, Objects, Bounded
  <2> QED BY <2>1, <2>2, <2>3
<1>2. I2sTypeOK' BY <1>1 DEF I2sInv, I2sTypeOK, Objects
<1>3. (Live /\ Alternate /\ RxOrder /\ CarefulUse)'
  BY <1>1 DEF I2sInv, Live, Alternate, RxOrder, CarefulUse
<1>4. OnTheWay' = OnTheWay BY <1>1 DEF OnTheWay
<1>5. TxOrder' BY <1>1, <1>4 DEF I2sInv, TxOrder
<1>6. /\ spin' => i2s'.blocking /\ todo' >= 1
      /\ i2s'.mode = "TX" /\ (i2s'.copy \/ spin') => pushed' + todo' <= MaxStream
  <2>1. CASE Transfer(c, n)
    BY <1>0, <2>1, I2sAssumption DEF Transfer, WithinBound, I2sInv, I2sTypeOK, Objects
  <2>2. CASE I2sIrq(c, b)
    BY <1>0, <2>2 DEF I2sIrq, Calls, I2sInv, I2sTypeOK, Objects, Bounded
  <2>3. CASE UsedAfter(c)
    BY <1>0, <2>3 DEF UsedAfter, I2sInv, I2sTypeOK, Objects, Bounded
  <2> QED BY <2>1, <2>2, <2>3
<1>7. Bounded' BY <1>1, <1>6 DEF I2sInv, Bounded
<1> QED BY <1>2, <1>3, <1>5, <1>7 DEF I2sInv

(* k bytes more are in the ring.                                           *)
LEMMA NewBytes ==
  ASSUME NEW q \in Nat, NEW k \in Nat
  PROVE  \E b \in Seq(Nat), z \in Nat :
           b = [j \in 1 .. k |-> q + j] /\ Len(b) = k /\ b = Run(q, z) /\ z = q + k /\ q <= z
<1>1. PICK z \in Nat : z = q + k /\ z - q = k /\ q <= z OBVIOUS
<1>2. PICK b \in Seq(Nat) : b = Run(q, z) /\ Len(b) = k BY <1>1, RunSeq
<1>3. [j \in 1 .. k |-> q + j] = b BY <1>1, <1>2 DEF Run
<1> QED BY <1>1, <1>2, <1>3

LEMMA PushTx ==
  \A p, q, z \in Nat : \A a, r \in Seq(Nat) :
    p <= q /\ q <= z /\ a \o r = Run(p, q) => a \o (r \o Run(q, z)) = Run(p, z)
<1> TAKE p, q, z \in Nat
<1> TAKE a, r \in Seq(Nat)
<1> HAVE p <= q /\ q <= z /\ a \o r = Run(p, q)
<1>0. PICK b \in Seq(Nat) : b = Run(q, z) BY RunSeq
<1>1. a \o (r \o b) = (a \o r) \o b
  BY ONLY SMTT(40), a \in Seq(Nat), r \in Seq(Nat), b \in Seq(Nat), ConcatAssociative
<1>2. PICK k \in Nat : z = q + k
  <2>1. z - q \in Nat /\ z = q + (z - q) OBVIOUS
  <2> QED BY <2>1
<1>3. Run(p, q) \o Run(q, q + k) = Run(p, q + k) BY RunMore
<1> QED BY <1>0, <1>1, <1>2, <1>3

(* k bytes are taken from the ring of RX.                                  *)
LEMMA PopRx ==
  ASSUME NEW p \in Nat, NEW r \in Seq(Nat), NEW k \in Nat, k <= Len(r), Aligned(r, p)
  PROVE  Aligned(SubSeq(r, k + 1, Len(r)), (p + k) % Half)
<1> DEFINE t == SubSeq(r, k + 1, Len(r))
<1>0. Half \in Nat \ {0} /\ Len(r) \in Nat BY I2sAssumption
<1>1. Len(t) = Len(r) - k /\ \A j \in 1 .. Len(r) - k : t[j] = r[k + j] BY Cut
<1>2. PICK n \in Nat : n = Len(t) BY SMTT(40), <1>0, <1>1
<1> HIDE DEF t
<1>3. ASSUME NEW j \in 1 .. n PROVE t[j] = (((p + k) % Half) + j - 1) % Half
  <2>1. PICK i \in 1 .. Len(r) : i = k + j
    <3>1. n = Len(r) - k BY <1>1, <1>2
    <3>2. k + j \in 1 .. Len(r) BY <1>0, <3>1
    <3> QED BY <3>2
  <2>2. t[j] = r[i] BY <1>1, <1>2, <2>1
  <2>3. r[i] = (p + i - 1) % Half BY DEF Aligned
  <2>4. PICK m \in Nat, x \in Nat : m = j - 1 /\ x = p + k /\ p + i - 1 = x + m BY <2>1
  <2>5. ((x % Half) + m) % Half = (x + m) % Half BY <1>0, ModSum
  <2>6. x % Half \in Nat BY <1>0, DivMod
  <2>7. (x % Half) + j - 1 = (x % Half) + m BY <2>4, <2>6
  <2> QED BY <2>2, <2>3, <2>4, <2>5, <2>7
<1>4. (((p + k) % Half) + n) % Half = 0
  <2>1. PICK x \in Nat : x = p + k OBVIOUS
  <2>2. ((x % Half) + n) % Half = (x + n) % Half BY <1>0, ModSum
  <2>3. x + n = p + Len(r) BY <1>0, <1>1, <1>2, <2>1
  <2> QED BY <2>1, <2>2, <2>3 DEF Aligned
<1>5. Aligned(t, (p + k) % Half) BY <1>2, <1>3, <1>4 DEF Aligned
<1> QED BY <1>5 DEF t

(* A half is added to the ring of RX.                                      *)
LEMMA PushRx ==
  ASSUME NEW p \in Nat, NEW r \in Seq(Nat), Aligned(r, p)
  PROVE  Filled \in Seq(Nat) /\ Len(Filled) = Half /\ Aligned(r \o Filled, p)
<1>0. Half \in Nat \ {0} /\ Len(r) \in Nat BY I2sAssumption
<1>1. Filled \in Seq(Nat) /\ Len(Filled) = Half /\ \A j \in 1 .. Half : Filled[j] = j - 1
  BY <1>0 DEF Filled
<1>2. PICK m \in Nat : m = Len(r) BY <1>0
<1>3. PICK t \in Seq(Nat) : t = r \o Filled BY <1>1, ConcatProperties
<1>4. /\ Len(t) = m + Half
      /\ \A j \in 1 .. m + Half : t[j] = IF j <= m THEN r[j] ELSE Filled[j - m]
  BY <1>1, <1>2, <1>3, ConcatProperties
<1>5. ASSUME NEW j \in 1 .. m + Half PROVE t[j] = (p + j - 1) % Half
  <2>1. CASE j <= m BY <1>2, <1>4, <2>1 DEF Aligned
  <2>2. CASE j > m
    <3>1. PICK i \in 1 .. Half : i = j - m BY <1>0, <2>2
    <3>2. t[j] = i - 1 BY <1>1, <1>4, <2>2, <3>1
    <3>3. PICK x \in Nat, b \in 0 .. Half - 1 : x = p + m /\ b = i - 1 /\ p + j - 1 = x + b
      BY <1>0, <3>1
    <3>4. x % Half = 0 BY <1>2, <3>3 DEF Aligned
    <3>5. (x + b) % Half = b BY <1>0, <3>4, ModStart
    <3> QED BY <3>2, <3>3, <3>5
  <2> QED BY <2>1, <2>2
<1>6. (p + (m + Half)) % Half = 0
  <2>1. PICK x \in Nat : x = p + m OBVIOUS
  <2>2. x % Half = 0 BY <1>2, <2>1 DEF Aligned
  <2>3. (x + Half) % Half = 0 BY <1>0, <2>2, ModFull
  <2>4. x + Half = p + (m + Half) BY <1>0, <2>1
  <2> QED BY <2>3, <2>4
<1>7. Aligned(t, p) BY <1>4, <1>5, <1>6 DEF Aligned
<1> QED BY <1>1, <1>3, <1>7

(* What the numbers of a state are.                                        *)
LEMMA I2sTypes ==
  ASSUME I2sInv
  PROVE  /\ i2s \in Objects /\ chan \in Channels /\ ring \in Seq(Nat) /\ Len(ring) \in Nat
         /\ Len(ring) <= RingSize /\ buf \in [0 .. 1 -> Seq(Nat)]
         /\ todo \in Nat /\ pushed \in Nat /\ pushed <= MaxStream /\ popped \in Nat
         /\ Half \in Nat \ {0} /\ RingSize \in Nat \ {0} /\ Chunk \in Nat \ {0}
         /\ MaxStream \in Nat \ {0}
         /\ \A h \in 0 .. 1 : buf[h] \in Seq(Nat) /\ Len(buf[h]) \in Nat /\ Len(buf[h]) <= Half
BY I2sAssumption DEF I2sInv, I2sTypeOK, Bounded, Objects, Channels

(* The bytes of TX before the ring.                                        *)
Ahead == buf[chan.half] \o (IF "block" \in chan.int THEN <<>> ELSE buf[1 - chan.half])

LEMMA AheadSeq == ASSUME I2sInv PROVE Ahead \in Seq(Nat) /\ OnTheWay = Ahead \o ring
<1>1. chan.half \in 0 .. 1 /\ 1 - chan.half \in 0 .. 1 BY I2sTypes DEF Channels
<1>2. buf[chan.half] \in Seq(Nat) /\ buf[1 - chan.half] \in Seq(Nat) /\ <<>> \in Seq(Nat)
  BY <1>1, I2sTypes
<1> QED BY <1>2, ConcatProperties DEF Ahead, OnTheWay

LEMMA SpinInv == ASSUME I2sInv, SpinCopy, UNCHANGED env PROVE I2sInv'
<1>0. /\ UNCHANGED <<i2s, buf, chan, waiting, clash, wild, env>> /\ Copied(1) /\ Ready(ring) > 0
      /\ todo' = todo - 1 /\ spin' = (todo > 1) /\ todo >= 1
  BY DEF SpinCopy, I2sInv, Bounded
<1>t. /\ ring \in Seq(Nat) /\ Len(ring) \in Nat /\ Len(ring) <= RingSize
      /\ todo \in Nat /\ pushed \in Nat /\ pushed <= MaxStream /\ popped \in Nat
      /\ Half \in Nat \ {0} /\ RingSize \in Nat /\ MaxStream \in Nat
  BY I2sTypes
<1>1. i2s.mode \in {"TX", "RX"} BY I2sTypes DEF Objects
<1>2. /\ ring' \in Seq(Nat) /\ Len(ring') <= RingSize /\ pushed' \in 0 .. MaxStream /\ popped' \in Nat
      /\ i2s.mode = "TX" => pushed' + todo' <= MaxStream
  <2>1. CASE i2s.mode = "TX"
    <3>1. ring' = ring \o [j \in 1 .. 1 |-> pushed + j] /\ pushed' = pushed + 1 /\ popped' = popped
      BY <1>0, <2>1 DEF Copied
    <3>2. [j \in 1 .. 1 |-> pushed + j] \in Seq(Nat) /\ Len([j \in 1 .. 1 |-> pushed + j]) = 1
      BY <1>t
    <3>3. ring' \in Seq(Nat) /\ Len(ring') = Len(ring) + 1 BY <3>1, <3>2, <1>t, ConcatProperties
    <3>4. RingSize - Len(ring) > 0 BY <1>0, <2>1 DEF Ready
    <3>5. pushed + todo <= MaxStream BY <2>1 DEF SpinCopy, I2sInv, Bounded
    <3>6. pushed + 1 <= MaxStream /\ (pushed + 1) + (todo - 1) <= MaxStream BY <1>0, <3>5, <1>t
    <3> QED BY <1>0, <3>1, <3>3, <3>4, <3>6, <1>t
  <2>2. CASE i2s.mode = "RX"
    <3>1. /\ ring' = SubSeq(ring, 2, Len(ring)) /\ popped' = (popped + 1) % Half
          /\ pushed' = pushed
      BY <1>0, <2>2 DEF Copied
    <3>2. 1 \in Nat /\ 1 <= Len(ring) BY <1>0, <2>2, <1>t DEF Ready
    <3>3. SubSeq(ring, 1 + 1, Len(ring)) \in Seq(Nat)
          /\ Len(SubSeq(ring, 1 + 1, Len(ring))) = Len(ring) - 1
      <4>1. PICK k \in Nat : k = 1 /\ k <= Len(ring) BY <3>2
      <4>2. /\ SubSeq(ring, k + 1, Len(ring)) \in Seq(Nat)
            /\ Len(SubSeq(ring, k + 1, Len(ring))) = Len(ring) - k
        <5>1. PICK r \in Seq(Nat) : r = ring BY <1>t
        <5>2. k <= Len(r) BY <4>1, <5>1
        <5>3. SubSeq(r, k + 1, Len(r)) \in Seq(Nat) /\ Len(SubSeq(r, k + 1, Len(r))) = Len(r) - k
          BY ONLY k \in Nat, r \in Seq(Nat), <5>2, Cut
        <5> QED BY <5>1, <5>3
      <4> QED BY <4>1, <4>2
    <3>4. popped' \in Nat
      <4>1. PICK x \in Nat : x = popped + 1 BY <1>t
      <4>2. x % Half \in 0 .. Half - 1 BY ONLY x \in Nat, <1>t, DivMod
      <4> QED BY <3>1, <4>1, <4>2, <1>t
    <3> QED BY <1>0, <2>2, <3>1, <3>3, <3>4, <1>t
  <2> QED BY <1>1, <2>1, <2>2
<1>3. I2sTypeOK' BY <1>0, <1>2, <1>t DEF I2sInv, I2sTypeOK
<1>4. (Live /\ Alternate /\ CarefulUse)' BY <1>0 DEF I2sInv, Live, Alternate, CarefulUse
<1>5. Bounded'
  <2>1. /\ \A h \in 0 .. 1 : Len(buf[h]) <= Half
        /\ todo <= MaxStream /\ i2s.blocking
    BY DEF I2sInv, Bounded, SpinCopy
  <2>2. todo' <= MaxStream BY <1>0, <1>t, <2>1
  <2>3. spin' => todo > 1 BY <1>0
  <2>4. todo > 1 => todo' >= 1 BY <1>0, <1>t
  <2> QED BY <1>0, <1>2, <2>1, <2>2, <2>3, <2>4 DEF Bounded
<1>6. TxOrder'
  <2> SUFFICES ASSUME env # "late", i2s.active, i2s.mode = "TX"
               PROVE  popped' <= pushed' /\ OnTheWay' = Run(popped', pushed')
    BY <1>0 DEF TxOrder
  <2>1. popped <= pushed /\ Ahead \o ring = Run(popped, pushed) BY AheadSeq DEF I2sInv, TxOrder
  <2>2. ring' = ring \o [j \in 1 .. 1 |-> pushed + j] /\ pushed' = pushed + 1 /\ popped' = popped
    BY <1>0 DEF Copied
  <2>3. Ahead \o ring' = Run(popped, pushed + 1)
    <3>1. Ahead \in Seq(Nat) /\ 1 \in Nat BY AheadSeq
    <3>2. PICK k \in Nat, a \in Seq(Nat) : k = 1 /\ a = Ahead BY <3>1
    <3>3. a \o (ring \o [j \in 1 .. k |-> pushed + j]) = Run(popped, pushed + k)
      <4>1. PICK p \in Nat, q \in Nat, r \in Seq(Nat) : p = popped /\ q = pushed /\ r = ring
        BY <1>t
      <4>2. p <= q /\ a \o r = Run(p, q) BY <2>1, <3>2, <4>1
      <4>3. PICK b \in Seq(Nat), z \in Nat :
              b = [j \in 1 .. k |-> q + j] /\ b = Run(q, z) /\ z = q + k /\ q <= z
        BY NewBytes
      <4>4. p <= q /\ a \o r = Run(p, q) /\ q <= z BY <4>2, <4>3
      <4>5. \A x, y \in Seq(Nat) :
              p <= q /\ q <= z /\ x \o y = Run(p, q) => x \o (y \o Run(q, z)) = Run(p, z)
        BY ONLY ZenonT(40), p \in Nat, q \in Nat, z \in Nat, PushTx
      <4>6. a \o (r \o Run(q, z)) = Run(p, z)
        BY ONLY a \in Seq(Nat), r \in Seq(Nat), <4>4, <4>5, Zenon
      <4> QED BY <4>1, <4>3, <4>6
    <3> QED BY <2>2, <3>2, <3>3
  <2>4. OnTheWay' = Ahead \o ring' BY <1>0 DEF OnTheWay, Ahead
  <2> QED BY <2>1, <2>2, <2>3, <2>4, <1>t
<1>7. RxOrder'
  <2> SUFFICES ASSUME env # "late", i2s.active, i2s.mode = "RX"
               PROVE  Aligned(ring', popped') /\ ("block" \in chan'.int => buf'[i2s'.half] = Filled)
    BY <1>0 DEF RxOrder
  <2>1. Aligned(ring, popped) /\ ("block" \in chan.int => buf[i2s.half] = Filled)
    BY DEF I2sInv, RxOrder
  <2>2. ring' = SubSeq(ring, 1 + 1, Len(ring)) /\ popped' = (popped + 1) % Half
    BY <1>0 DEF Copied
  <2>3. 1 \in Nat /\ 1 <= Len(ring) BY <1>0, <1>t DEF Ready
  <2>4. Aligned(ring', popped') BY <2>1, <2>2, <2>3, <1>t, PopRx
  <2> QED BY <1>0, <2>1, <2>4
<1> QED BY <1>3, <1>4, <1>5, <1>6, <1>7 DEF I2sInv

LEMMA GdmaErrorInv == ASSUME I2sInv, GdmaError, UNCHANGED env PROVE I2sInv'
<1>0. UNCHANGED <<i2s, ring, buf, todo, spin, waiting, pushed, popped, clash, wild, env>>
  BY DEF GdmaError
<1>1. /\ chan' \in Channels /\ chan'.state = chan.state /\ chan'.half = chan.half
      /\ ("block" \in chan'.int) <=> ("block" \in chan.int)
  BY I2sTypes DEF GdmaError, Channels
<1>2. I2sTypeOK' BY <1>0, <1>1 DEF I2sInv, I2sTypeOK, Channels
<1>3. OnTheWay' = OnTheWay BY <1>0, <1>1 DEF OnTheWay
<1>4. (Live /\ Bounded /\ Alternate /\ TxOrder /\ RxOrder /\ CarefulUse)'
  BY <1>0, <1>1, <1>3 DEF I2sInv, Live, Bounded, Alternate, TxOrder, RxOrder, CarefulUse
<1> QED BY <1>2, <1>4 DEF I2sInv

(* A half ends.                                                            *)
LEMMA BlockDoneInv == ASSUME I2sInv, BlockDone, UNCHANGED env PROVE I2sInv'
<1>0. UNCHANGED <<i2s, ring, todo, spin, waiting, pushed, clash, wild, env>>
  BY DEF BlockDone
<1>t. /\ ring \in Seq(Nat) /\ Len(ring) \in Nat /\ Len(ring) <= RingSize
      /\ todo \in Nat /\ pushed \in Nat /\ pushed <= MaxStream /\ popped \in Nat
      /\ Half \in Nat \ {0} /\ RingSize \in Nat /\ MaxStream \in Nat
  BY I2sTypes
<1>1. /\ chan' \in Channels /\ chan'.state = chan.state /\ chan'.half = 1 - chan.half
      /\ "block" \in chan'.int /\ chan.state \in {"on", "draining"}
      /\ chan.half \in 0 .. 1 /\ 1 - chan.half \in 0 .. 1
      /\ i2s.mode \in {"TX", "RX"}
  <2>1. /\ chan \in Channels /\ chan' = [chan EXCEPT !.half = 1 - @, !.int = @ \cup {"block"}]
        /\ chan.state \in {"on", "draining"}
    BY I2sTypes DEF BlockDone
  <2>2. chan.half \in 0 .. 1 /\ chan.int \in SUBSET {"block", "err"} BY <2>1 DEF Channels
  <2>3. 1 - chan.half \in 0 .. 1 /\ chan.int \cup {"block"} \in SUBSET {"block", "err"} BY <2>2
  <2>4. chan' \in Channels /\ chan'.state = chan.state /\ chan'.half = 1 - chan.half
        /\ "block" \in chan'.int
    BY ONLY <2>1, <2>3 DEF Channels
  <2>5. i2s.mode \in {"TX", "RX"} BY I2sTypes DEF Objects
  <2> QED BY <2>1, <2>2, <2>3, <2>4, <2>5
<1>2. env # "late" => "block" \notin chan.int BY DEF BlockDone
<1>3. /\ popped' \in Nat /\ buf' \in [0 .. 1 -> Seq(Nat)] /\ \A h \in 0 .. 1 : Len(buf'[h]) <= Half
  <2>1. CASE i2s.mode = "TX"
    <3>1. popped' = Least(popped + Len(buf[chan.half]), MaxStream) /\ buf' = buf
      BY <2>1 DEF BlockDone
    <3>2. Len(buf[chan.half]) \in Nat /\ popped \in Nat /\ MaxStream \in Nat BY <1>1, I2sTypes
    <3>3. popped + Len(buf[chan.half]) \in Nat BY ONLY <3>2
    <3>4. popped' \in Nat BY ONLY <3>1, <3>2, <3>3 DEF Least
    <3> QED BY <3>1, <3>4, I2sTypes
  <2>2. CASE i2s.mode = "RX"
    <3>1. popped' = popped /\ buf' = [buf EXCEPT ![chan.half] = Filled]
      BY <2>2 DEF BlockDone, Filled
    <3>2. Filled \in Seq(Nat) /\ Len(Filled) = Half BY ONLY <1>t DEF Filled
    <3> QED BY SMTT(40), <1>1, <3>1, <3>2, I2sTypes
  <2> QED BY <1>1, <2>1, <2>2
<1>4. I2sTypeOK' BY <1>0, <1>1, <1>3 DEF I2sInv, I2sTypeOK, Channels
<1>5. (Live /\ Bounded /\ CarefulUse)' BY <1>0, <1>1, <1>3 DEF I2sInv, Live, Bounded, CarefulUse
<1>6. Alternate' BY <1>0, <1>1, <1>2, I2sTypes DEF I2sInv, Alternate, Objects
<1>7. TxOrder'
  <2> SUFFICES ASSUME env # "late", i2s.active, i2s.mode = "TX"
               PROVE  popped' <= pushed' /\ OnTheWay' = Run(popped', pushed')
    BY <1>0 DEF TxOrder
  <2>1. PICK a \in Seq(Nat), b \in Seq(Nat) : a = buf[chan.half] /\ b = buf[1 - chan.half]
    BY <1>1, I2sTypes
  <2>2. popped <= pushed /\ (a \o b) \o ring = Run(popped, pushed)
    BY <1>2, <2>1 DEF I2sInv, TxOrder, OnTheWay
  <2>3. b \o ring \in Seq(Nat) BY I2sTypes, ConcatProperties
  <2>4. (a \o b) \o ring = a \o (b \o ring)
    BY ONLY SMTT(40), a \in Seq(Nat), b \in Seq(Nat), <1>t, ConcatAssociative
  <2>5. popped + Len(a) <= pushed /\ b \o ring = Run(popped + Len(a), pushed)
    <3>1. PICK r \in Seq(Nat) : r = b \o ring BY <2>3
    <3>2. a \o r = Run(popped, pushed) BY ONLY <2>2, <2>4, <3>1
    <3>3. popped + Len(a) <= pushed /\ r = Run(popped + Len(a), pushed)
      <4>1. PICK p \in Nat, q \in Nat : p = popped /\ q = pushed BY <1>t
      <4>2. p <= q /\ a \o r = Run(p, q) BY <2>2, <3>2, <4>1
      <4>3. p + Len(a) <= q /\ r = Run(p + Len(a), q)
        BY ONLY a \in Seq(Nat), p \in Nat, q \in Nat, r \in Seq(Nat), <4>2, RunRest
      <4> QED BY <4>1, <4>3
    <3> QED BY <3>1, <3>3
  <2>6. popped' = Least(popped + Len(a), MaxStream) /\ buf' = buf
    BY <2>1 DEF BlockDone
  <2>7. popped' = popped + Len(a)
    <3>1. Len(a) \in Nat OBVIOUS
    <3>2. popped + Len(a) <= MaxStream BY <1>t, <2>5, <3>1
    <3>3. PICK m \in Nat : m = popped + Len(a) BY <1>t, <3>1
    <3>4. m <= MaxStream /\ popped' = IF m < MaxStream THEN m ELSE MaxStream
      BY <2>6, <3>2, <3>3 DEF Least
    <3> QED BY ONLY <1>t, <3>3, <3>4
  <2>8. OnTheWay' = (b \o <<>>) \o ring BY <1>0, <1>1, <2>1, <2>6 DEF OnTheWay
  <2>9. b \o <<>> = b BY ConcatEmptySeq
  <2> QED BY <1>0, <2>5, <2>7, <2>8, <2>9
<1>8. RxOrder'
  <2> SUFFICES ASSUME env # "late", i2s.active, i2s.mode = "RX"
               PROVE  Aligned(ring', popped') /\ buf'[i2s.half] = Filled
    BY <1>0 DEF RxOrder
  <2>1. popped' = popped /\ buf' = [buf EXCEPT ![chan.half] = Filled]
    BY DEF BlockDone, Filled
  <2>2. i2s.half = chan.half BY <1>1, <1>2 DEF I2sInv, Alternate
  <2>3. buf'[i2s.half] = Filled BY <1>1, <2>1, <2>2, I2sTypes
  <2> QED BY <1>0, <2>1, <2>3 DEF I2sInv, RxOrder
<1> QED BY <1>4, <1>5, <1>6, <1>7, <1>8 DEF I2sInv

(* The copy by the interrupt: k bytes, as many as there is room for, or    *)
(* none.                                                                   *)
CopyOf(r, k) ==
  /\ k <= todo /\ k <= Ready(r) /\ (k > 0 => i2s.copy /\ ~i2s.blocking)
  /\ todo' = todo - k
  /\ i2s' = [i2s EXCEPT !.half = 1 - @, !.copy = @ /\ todo # k]
  /\ IF i2s.mode = "TX"
     THEN ring' = r \o [j \in 1 .. k |-> pushed + j] /\ pushed' = pushed + k /\ popped' = popped
     ELSE /\ ring' = SubSeq(r, k + 1, Len(r)) /\ popped' = (popped + k) % Half
          /\ pushed' = pushed

LEMMA CopyCount ==
  ASSUME I2sInv, NEW r \in Seq(Nat), Len(r) <= RingSize, CopyStep(r)
  PROVE  \E k \in Nat : CopyOf(r, k)
<1> DEFINE n == Least(Chunk, todo)
           k == IF ~i2s.blocking /\ i2s.copy /\ i2s.active /\ Ready(r) >= n THEN n ELSE 0
<1>0. todo \in Nat /\ Chunk \in Nat /\ RingSize \in Nat /\ Len(r) \in Nat BY I2sTypes
<1>1. n \in Nat /\ n <= todo BY <1>0 DEF Least
<1>2. Ready(r) >= 0 /\ Ready(r) \in Int BY <1>0 DEF Ready
<1>3. /\ todo' = todo - k /\ i2s' = [i2s EXCEPT !.half = 1 - @, !.copy = @ /\ todo # k]
      /\ IF i2s.mode = "TX"
         THEN ring' = r \o [j \in 1 .. k |-> pushed + j] /\ pushed' = pushed + k /\ popped' = popped
         ELSE /\ ring' = SubSeq(r, k + 1, Len(r)) /\ popped' = (popped + k) % Half
              /\ pushed' = pushed
  BY DEF CopyStep
<1> HIDE DEF n
<1>4. k \in Nat /\ k <= todo /\ k <= Ready(r) /\ (k > 0 => i2s.copy /\ ~i2s.blocking) BY <1>0, <1>1, <1>2
<1> HIDE DEF k
<1>5. CopyOf(r, k) BY <1>3, <1>4 DEF CopyOf
<1> QED BY <1>4, <1>5

(* The object after an interrupt.                                          *)
LEMMA CopyObject ==
  ASSUME I2sInv, NEW k \in Nat, NEW r, CopyOf(r, k)
  PROVE  /\ i2s' \in Objects /\ i2s'.half = 1 - i2s.half /\ i2s.half \in 0 .. 1
         /\ i2s'.rooted = i2s.rooted /\ i2s'.mode = i2s.mode /\ i2s'.active = i2s.active
         /\ i2s'.initted = i2s.initted /\ i2s'.mem = i2s.mem /\ i2s'.blocking = i2s.blocking
         /\ i2s'.copy => i2s.copy
         /\ todo' \in Nat /\ todo' <= todo
<1>1. /\ i2s \in Objects /\ i2s' = [i2s EXCEPT !.half = 1 - @, !.copy = @ /\ todo # k]
      /\ todo \in Nat /\ todo' = todo - k /\ k <= todo
  BY I2sTypes DEF CopyOf
<1>2. i2s.half \in 0 .. 1 /\ i2s.copy \in BOOLEAN BY <1>1 DEF Objects
<1>3. 1 - i2s.half \in 0 .. 1 BY <1>2
<1>4. (i2s.copy /\ todo # k) \in BOOLEAN OBVIOUS
<1>5. i2s' \in Objects BY ONLY <1>1, <1>3, <1>4 DEF Objects
<1>6. /\ i2s'.half = 1 - i2s.half
      /\ i2s'.rooted = i2s.rooted /\ i2s'.mode = i2s.mode /\ i2s'.active = i2s.active
      /\ i2s'.initted = i2s.initted /\ i2s'.mem = i2s.mem /\ i2s'.blocking = i2s.blocking
      /\ i2s'.copy => i2s.copy
  BY ONLY <1>1 DEF Objects
<1>7. todo' \in Nat /\ todo' <= todo BY <1>1
<1> QED BY <1>2, <1>5, <1>6, <1>7

(* Half of the ring goes to the DMA buffer, or none of it.                 *)
LEMMA FedHalf ==
  ASSUME I2sInv
  PROVE  /\ Fed(ring).half \in Seq(Nat) /\ Len(Fed(ring).half) <= Half
         /\ Fed(ring).rest \in Seq(Nat) /\ Len(Fed(ring).rest) <= RingSize
         /\ Fed(ring).half \o Fed(ring).rest = ring
<1>0. PICK r \in Seq(Nat) : r = ring /\ Len(r) \in Nat /\ Len(r) <= RingSize BY I2sTypes
<1>1. Half \in Nat /\ RingSize \in Nat BY I2sTypes
<1>2. CASE Len(r) >= Half
  <2>1. /\ SubSeq(r, 1, Half) \in Seq(Nat) /\ Len(SubSeq(r, 1, Half)) = Half
        /\ SubSeq(r, Half + 1, Len(r)) \in Seq(Nat) /\ Len(SubSeq(r, Half + 1, Len(r))) = Len(r) - Half
        /\ SubSeq(r, 1, Half) \o SubSeq(r, Half + 1, Len(r)) = r
    BY <1>0, <1>1, <1>2, Cut
  <2>2. PICK x, y : x = SubSeq(r, 1, Half) /\ y = SubSeq(r, Half + 1, Len(r)) OBVIOUS
  <2>3. Fed(r).half = SubSeq(r, 1, Half) /\ Fed(r).rest = SubSeq(r, Half + 1, Len(r))
    <3>1. Fed(r) = [half |-> x, rest |-> y] BY <1>2, <2>2 DEF Fed
    <3>2. Fed(r).half = x /\ Fed(r).rest = y BY ONLY <3>1
    <3> QED BY <2>2, <3>2
  <2>4. Half <= Half /\ Len(r) - Half <= RingSize BY <1>0, <1>1
  <2> QED BY <1>0, <2>1, <2>3, <2>4
<1>3. CASE ~(Len(r) >= Half)
  <2>1. Fed(r) = [half |-> <<>>, rest |-> r] BY <1>3 DEF Fed
  <2>2. Fed(r).half = <<>> /\ Fed(r).rest = r BY <2>1
  <2>3. <<>> \in Seq(Nat) /\ Len(<<>>) = 0 /\ 0 <= Half BY <1>1, EmptySeq
  <2>4. <<>> \o r = r BY ConcatEmptySeq
  <2> QED BY <1>0, <2>2, <2>3, <2>4
<1> QED BY <1>2, <1>3

LEMMA ServedChannel ==
  ASSUME I2sInv, chan' = [chan EXCEPT !.int = {}]
  PROVE  /\ chan' \in Channels /\ chan'.state = chan.state /\ chan'.half = chan.half
         /\ chan'.int = {} /\ chan.half \in 0 .. 1 /\ 1 - chan.half \in 0 .. 1
<1>1. chan \in Channels /\ chan' = [chan EXCEPT !.int = {}] BY I2sTypes
<1>2. chan.half \in 0 .. 1 BY <1>1 DEF Channels
<1>3. {} \in SUBSET {"block", "err"} OBVIOUS
<1>4. chan' \in Channels BY ONLY <1>1, <1>3 DEF Channels
<1>5. chan'.state = chan.state /\ chan'.half = chan.half /\ chan'.int = {}
  BY ONLY <1>1 DEF Channels
<1>6. 1 - chan.half \in 0 .. 1 BY <1>2
<1> QED BY <1>2, <1>4, <1>5, <1>6

(* The interrupt of TX.                                                    *)
LEMMA TxDone ==
  ASSUME I2sInv, chan.state # "off", "block" \in chan.int, i2s.mode = "TX",
         chan' = [chan EXCEPT !.int = {}], clash' = (clash \/ i2s.half = chan.half),
         buf' = [buf EXCEPT ![i2s.half] = Fed(ring).half], CopyStep(Fed(ring).rest),
         UNCHANGED <<spin, waiting, wild, env>>
  PROVE  I2sInv'
<1> DEFINE f == Fed(ring).half
           r == Fed(ring).rest
<1>1. /\ f \in Seq(Nat) /\ Len(f) <= Half /\ r \in Seq(Nat) /\ Len(r) <= RingSize
      /\ f \o r = ring
  BY FedHalf
<1>2. PICK k \in Nat : CopyOf(r, k) BY <1>1, CopyCount
<1>3. /\ ring' = r \o [j \in 1 .. k |-> pushed + j] /\ pushed' = pushed + k /\ popped' = popped
  BY <1>2 DEF CopyOf
<1>n. /\ k <= RingSize - Len(r) /\ k <= todo /\ todo' = todo - k /\ pushed' = pushed + k
      /\ popped' = popped /\ (k > 0 => i2s.copy /\ ~i2s.blocking)
  BY <1>2 DEF CopyOf, Ready
<1>4. /\ i2s' \in Objects /\ i2s'.half = 1 - i2s.half /\ i2s.half \in 0 .. 1
      /\ i2s'.rooted = i2s.rooted /\ i2s'.mode = i2s.mode /\ i2s'.active = i2s.active
      /\ i2s'.initted = i2s.initted /\ i2s'.mem = i2s.mem /\ i2s'.blocking = i2s.blocking
      /\ i2s'.copy => i2s.copy
      /\ todo' \in Nat /\ todo' <= todo
  BY <1>2, CopyObject
<1>5. buf' = [buf EXCEPT ![i2s.half] = f] OBVIOUS
<1>6. /\ chan' \in Channels /\ chan'.state = chan.state /\ chan'.half = chan.half /\ chan'.int = {}
      /\ chan.half \in 0 .. 1 /\ 1 - chan.half \in 0 .. 1
  BY ServedChannel
<1> HIDE DEF f, r
<1>t. /\ todo \in Nat /\ todo <= MaxStream /\ pushed \in Nat /\ pushed <= MaxStream /\ popped \in Nat
      /\ RingSize \in Nat /\ MaxStream \in Nat /\ buf \in [0 .. 1 -> Seq(Nat)]
      /\ \A h \in 0 .. 1 : Len(buf[h]) <= Half
      /\ spin => i2s.blocking /\ todo >= 1
      /\ (i2s.copy \/ spin) => pushed + todo <= MaxStream
      /\ clash \in BOOLEAN
  BY I2sTypes DEF I2sInv, Bounded, I2sTypeOK
<1>7. PICK b \in Seq(Nat), z \in Nat :
        b = [j \in 1 .. k |-> pushed + j] /\ Len(b) = k /\ b = Run(pushed, z) /\ z = pushed + k
        /\ pushed <= z
  BY <1>t, NewBytes
<1>8. ring' = r \o b /\ ring' \in Seq(Nat) /\ Len(ring') = Len(r) + k
  BY <1>1, <1>3, <1>7, ConcatProperties
<1>9. Len(r) \in Nat /\ Len(ring') <= RingSize
  <2>1. Len(r) \in Nat /\ Len(ring') = Len(r) + k /\ k <= RingSize - Len(r) /\ RingSize \in Nat
    BY <1>1, <1>n, <1>8, <1>t
  <2> QED BY ONLY <2>1, k \in Nat
<1>10. pushed' <= MaxStream /\ pushed' \in Nat
  <2>1. /\ pushed' = pushed + k /\ pushed \in Nat /\ pushed <= MaxStream /\ MaxStream \in Nat
        /\ k <= todo /\ todo \in Nat
    BY <1>n, <1>t
  <2>2. k > 0 => pushed + todo <= MaxStream BY <1>n, <1>t
  <2> QED BY ONLY <2>1, <2>2, k \in Nat
<1>11. I2sTypeOK'
  <2>1. buf' \in [0 .. 1 -> Seq(Nat)] BY <1>1, <1>5, <1>t
  <2>2. clash' \in BOOLEAN OBVIOUS
  <2>3. pushed' \in 0 .. MaxStream /\ popped' \in Nat BY <1>3, <1>10, <1>t
  <2> QED BY <1>4, <1>6, <1>8, <1>9, <2>1, <2>2, <2>3 DEF I2sInv, I2sTypeOK, Objects, Channels
<1>12. (Live /\ CarefulUse)' BY <1>4, <1>6 DEF I2sInv, Live, CarefulUse
<1>13. Alternate'
  <2>1. env # "late" => ~clash /\ i2s.half # chan.half BY DEF I2sInv, Alternate
  <2>2. i2s.half # chan.half => 1 - i2s.half = chan.half BY <1>4, <1>6
  <2>3. clash' = (clash \/ i2s.half = chan.half) /\ env' = env OBVIOUS
  <2> QED BY <1>4, <1>6, <2>1, <2>2, <2>3 DEF Alternate
<1>14. Bounded'
  <2>1. \A h \in 0 .. 1 : Len(buf'[h]) <= Half BY <1>1, <1>4, <1>5, <1>t
  <2>2. todo' <= MaxStream
    <3>1. /\ todo' <= todo /\ todo <= MaxStream /\ todo' \in Nat /\ todo \in Nat
          /\ MaxStream \in Nat
      BY <1>4, <1>t
    <3> QED BY ONLY <3>1
  <2>3. spin => todo' >= 1
    <3>1. spin => ~(k > 0) /\ todo >= 1 BY <1>n, <1>t
    <3>2. todo' = todo - k /\ todo \in Nat BY <1>n, <1>t
    <3> QED BY ONLY <3>1, <3>2, k \in Nat
  <2>4. (i2s'.copy \/ spin) => pushed' + todo' <= MaxStream
    <3>1. (i2s'.copy \/ spin) => pushed + todo <= MaxStream BY <1>4, <1>t
    <3>2. pushed' = pushed + k /\ todo' = todo - k /\ pushed \in Nat /\ todo \in Nat BY <1>n, <1>t
    <3>3. pushed' + todo' = pushed + todo BY ONLY <3>2, k \in Nat
    <3> QED BY <3>1, <3>3
  <2> QED BY <1>4, <1>t, <2>1, <2>2, <2>3, <2>4 DEF Bounded
<1>15. RxOrder' BY <1>4 DEF RxOrder
<1>16. TxOrder'
  <2> SUFFICES ASSUME env # "late", i2s.active
               PROVE  popped' <= pushed' /\ OnTheWay' = Run(popped', pushed')
    BY <1>4 DEF TxOrder
  <2>1. PICK a \in Seq(Nat) : a = buf[chan.half] BY <1>6, <1>t
  <2>2. popped <= pushed /\ (a \o <<>>) \o ring = Run(popped, pushed)
    BY <2>1 DEF I2sInv, TxOrder, OnTheWay
  <2>3. a \o <<>> = a BY ConcatEmptySeq
  <2>4. i2s.half = 1 - chan.half /\ i2s.half # chan.half
    BY <1>4, <1>6 DEF I2sInv, Alternate
  <2>5. buf'[chan.half] = a /\ buf'[1 - chan.half] = f
    BY <1>1, <1>5, <1>6, <1>t, <2>1, <2>4
  <2>6. OnTheWay' = (a \o f) \o (r \o b) BY <1>6, <1>8, <2>5 DEF OnTheWay
  <2>7. a \o f \in Seq(Nat) BY <1>1, ConcatProperties
  <2>8. (a \o f) \o r = a \o (f \o r)
    <3>1. f \in Seq(Nat) /\ r \in Seq(Nat) BY <1>1
    <3> QED BY ONLY SMTT(40), a \in Seq(Nat), <3>1, ConcatAssociative
  <2>9. (a \o f) \o r = Run(popped, pushed) BY <1>1, <2>2, <2>3, <2>8
  <2>10. \A x, y \in Seq(Nat) :
           popped <= pushed /\ pushed <= z /\ x \o y = Run(popped, pushed)
             => x \o (y \o Run(pushed, z)) = Run(popped, z)
    BY ONLY ZenonT(40), <1>t, z \in Nat, PushTx
  <2>11. (a \o f) \o (r \o Run(pushed, z)) = Run(popped, z)
    BY ONLY <1>1, <1>7, <2>2, <2>7, <2>9, <2>10, Zenon
  <2>12. OnTheWay' = Run(popped, z) BY <1>7, <2>6, <2>11
  <2> QED BY <1>3, <1>7, <1>t, <2>2, <2>12
<1> QED BY <1>11, <1>12, <1>13, <1>14, <1>15, <1>16 DEF I2sInv

(* The interrupt of RX.                                                    *)
LEMMA RxDone ==
  ASSUME I2sInv, chan.state # "off", "block" \in chan.int, i2s.mode = "RX",
         chan' = [chan EXCEPT !.int = {}], clash' = (clash \/ i2s.half = chan.half),
         CopyStep(DrainedHalf(ring, buf[i2s.half])),
         UNCHANGED <<buf, spin, waiting, wild, env>>
  PROVE  I2sInv'
<1> DEFINE r == DrainedHalf(ring, buf[i2s.half])
<1>t. /\ todo \in Nat /\ todo <= MaxStream /\ pushed \in Nat /\ pushed <= MaxStream /\ popped \in Nat
      /\ RingSize \in Nat /\ Half \in Nat \ {0} /\ MaxStream \in Nat /\ buf \in [0 .. 1 -> Seq(Nat)]
      /\ \A h \in 0 .. 1 : Len(buf[h]) <= Half /\ buf[h] \in Seq(Nat) /\ Len(buf[h]) \in Nat
      /\ spin => i2s.blocking /\ todo >= 1
      /\ clash \in BOOLEAN /\ ring \in Seq(Nat) /\ Len(ring) \in Nat /\ Len(ring) <= RingSize
      /\ i2s.half \in 0 .. 1
  BY I2sTypes DEF I2sInv, Bounded, I2sTypeOK, Objects
<1>1. r \in Seq(Nat) /\ Len(r) \in Nat /\ Len(r) <= RingSize
  <2>1. PICK b \in Seq(Nat) : b = buf[i2s.half] /\ Len(b) <= Half /\ Len(b) \in Nat BY <1>t
  <2>2. ring \o b \in Seq(Nat) /\ Len(ring \o b) = Len(ring) + Len(b)
    BY <1>t, ConcatProperties
  <2>3. r = IF RingSize - Len(ring) >= Half THEN ring \o b ELSE ring BY <2>1 DEF DrainedHalf
  <2>4. RingSize - Len(ring) >= Half => Len(ring) + Len(b) <= RingSize
    <3>1. /\ Len(ring) \in Nat /\ RingSize \in Nat /\ Half \in Nat /\ Len(b) <= Half
          /\ Len(b) \in Nat
      BY <1>t, <2>1
    <3> QED BY ONLY <3>1
  <2> HIDE DEF r
  <2> QED BY <1>t, <2>1, <2>2, <2>3, <2>4
<1>2. PICK k \in Nat : CopyOf(r, k) BY <1>1, CopyCount
<1>3. /\ ring' = SubSeq(r, k + 1, Len(r)) /\ popped' = (popped + k) % Half /\ pushed' = pushed
      /\ k <= Len(r)
  BY <1>2 DEF CopyOf, Ready
<1>n. todo' = todo - k /\ (k > 0 => ~i2s.blocking) BY <1>2 DEF CopyOf
<1>4. /\ i2s' \in Objects /\ i2s'.half = 1 - i2s.half
      /\ i2s'.rooted = i2s.rooted /\ i2s'.mode = i2s.mode /\ i2s'.active = i2s.active
      /\ i2s'.initted = i2s.initted /\ i2s'.mem = i2s.mem /\ i2s'.blocking = i2s.blocking
      /\ todo' \in Nat /\ todo' <= todo
  BY <1>2, CopyObject
<1>6. /\ chan' \in Channels /\ chan'.state = chan.state /\ chan'.half = chan.half /\ chan'.int = {}
      /\ chan.half \in 0 .. 1 /\ 1 - chan.half \in 0 .. 1
  BY ServedChannel
<1>7. env # "late" /\ i2s.active => Aligned(r, popped)
  <2> SUFFICES ASSUME env # "late", i2s.active PROVE Aligned(r, popped)
    OBVIOUS
  <2>1. Aligned(ring, popped) /\ buf[i2s.half] = Filled BY DEF I2sInv, RxOrder
  <2>2. Aligned(ring \o Filled, popped)
    <3>1. PICK x \in Nat, y \in Seq(Nat) : x = popped /\ y = ring BY <1>t
    <3>2. Aligned(y, x) BY <2>1, <3>1
    <3>3. Aligned(y \o Filled, x) BY ONLY x \in Nat, y \in Seq(Nat), <3>2, PushRx
    <3> QED BY <3>1, <3>3
  <2> QED BY <2>1, <2>2 DEF DrainedHalf
<1> HIDE DEF r
<1>8. ring' \in Seq(Nat) /\ Len(ring') = Len(r) - k
  <2>1. k <= Len(r) /\ r \in Seq(Nat) BY <1>1, <1>3
  <2>2. SubSeq(r, k + 1, Len(r)) \in Seq(Nat) /\ Len(SubSeq(r, k + 1, Len(r))) = Len(r) - k
    BY ONLY k \in Nat, <2>1, Cut
  <2> QED BY <1>3, <2>2
<1>9. Len(ring') <= RingSize
  <2>1. Len(r) \in Nat /\ Len(r) <= RingSize /\ Len(ring') = Len(r) - k /\ RingSize \in Nat
    BY <1>1, <1>8, <1>t
  <2> QED BY ONLY <2>1, k \in Nat
<1>10. popped' \in Nat
  <2>1. PICK x \in Nat : x = popped + k BY <1>t
  <2>2. Half \in Nat \ {0} BY <1>t
  <2>3. x % Half \in 0 .. Half - 1 BY ONLY x \in Nat, <2>2, DivMod
  <2> QED BY <1>3, <2>1, <2>3, <2>2
<1>11. I2sTypeOK'
  <2>1. clash' \in BOOLEAN OBVIOUS
  <2>2. pushed' \in 0 .. MaxStream BY <1>3, <1>t
  <2> QED BY <1>4, <1>6, <1>8, <1>9, <1>10, <2>1, <2>2 DEF I2sInv, I2sTypeOK, Objects, Channels
<1>12. (Live /\ CarefulUse)' BY <1>4, <1>6 DEF I2sInv, Live, CarefulUse
<1>13. Alternate'
  <2>1. env # "late" => ~clash /\ i2s.half # chan.half BY DEF I2sInv, Alternate
  <2>2. i2s.half # chan.half => 1 - i2s.half = chan.half BY <1>t, <1>6
  <2>3. clash' = (clash \/ i2s.half = chan.half) /\ env' = env OBVIOUS
  <2> QED BY <1>4, <1>6, <2>1, <2>2, <2>3 DEF Alternate
<1>14. Bounded'
  <2>1. \A h \in 0 .. 1 : Len(buf'[h]) <= Half BY <1>t
  <2>2. todo' <= MaxStream
    <3>1. /\ todo' <= todo /\ todo <= MaxStream /\ todo' \in Nat /\ todo \in Nat
          /\ MaxStream \in Nat
      BY <1>4, <1>t
    <3> QED BY ONLY <3>1
  <2>3. spin => todo' >= 1
    <3>1. spin => ~(k > 0) /\ todo >= 1 BY <1>n, <1>t
    <3>2. todo' = todo - k /\ todo \in Nat BY <1>n, <1>t
    <3> QED BY ONLY <3>1, <3>2, k \in Nat
  <2> QED BY <1>4, <1>t, <2>1, <2>2, <2>3 DEF Bounded
<1>15. TxOrder' BY <1>4 DEF TxOrder
<1>16. RxOrder'
  <2> SUFFICES ASSUME env # "late", i2s.active PROVE Aligned(ring', popped')
    BY <1>4, <1>6 DEF RxOrder
  <2>1. PICK x \in Nat : x = popped BY <1>t
  <2>2. k <= Len(r) /\ r \in Seq(Nat) /\ Aligned(r, x) BY <1>1, <1>3, <1>7, <2>1
  <2>3. Aligned(SubSeq(r, k + 1, Len(r)), (x + k) % Half)
    BY ONLY k \in Nat, x \in Nat, <2>2, PopRx
  <2> QED BY <1>3, <2>1, <2>3
<1> QED BY <1>11, <1>12, <1>13, <1>14, <1>15, <1>16 DEF I2sInv

LEMMA GdmaDoneInv == ASSUME I2sInv, GdmaDone, UNCHANGED env PROVE I2sInv'
<1>0. i2s.mode \in {"TX", "RX"} BY I2sTypes DEF Objects
<1>1. CASE "block" \in chan.int
  <2>1. CASE i2s.mode = "TX" BY <1>1, <2>1, TxDone DEF GdmaDone, Ended
  <2>2. CASE i2s.mode = "RX" BY <1>1, <2>2, RxDone DEF GdmaDone, Ended
  <2> QED BY <1>0, <2>1, <2>2
<1>2. CASE "block" \notin chan.int
  <2>0. /\ UNCHANGED <<i2s, ring, buf, todo, spin, waiting, pushed, popped, clash, wild, env>>
        /\ chan' = [chan EXCEPT !.int = {}]
    BY <1>2 DEF GdmaDone, Ended
  <2>1. /\ chan' \in Channels /\ chan'.state = chan.state /\ chan'.half = chan.half
        /\ "block" \notin chan'.int
    BY <2>0, ServedChannel
  <2>2. I2sTypeOK' BY <2>0, <2>1 DEF I2sInv, I2sTypeOK, Channels
  <2>3. OnTheWay' = OnTheWay
    <3>1. buf' = buf /\ ring' = ring /\ chan'.half = chan.half /\ "block" \notin chan'.int
      BY <2>0, <2>1
    <3> QED BY ONLY <1>2, <3>1 DEF OnTheWay
  <2>4. (Live /\ Bounded /\ Alternate /\ TxOrder /\ RxOrder /\ CarefulUse)'
    BY <1>2, <2>0, <2>1, <2>3 DEF I2sInv, Live, Bounded, Alternate, TxOrder, RxOrder, CarefulUse
  <2> QED BY <2>2, <2>4 DEF I2sInv
<1> QED BY <1>1, <1>2

LEMMA I2sStepInv == I2sInv /\ [I2sNext]_<<i2sVars, env>> => I2sInv'
<1> SUFFICES ASSUME I2sInv, [I2sNext]_<<i2sVars, env>> PROVE I2sInv'
  OBVIOUS
<1>1. CASE UNCHANGED <<i2sVars, env>>
  <2>1. UNCHANGED <<i2s, ring, buf, chan, todo, spin, waiting, pushed, popped, clash, wild, env>>
    BY <1>1 DEF i2sVars
  <2>2. OnTheWay' = OnTheWay BY <2>1 DEF OnTheWay
  <2>3. I2sTypeOK' BY <2>1 DEF I2sInv, I2sTypeOK
  <2>4. (Live /\ Bounded /\ Alternate /\ TxOrder /\ RxOrder /\ CarefulUse)'
    BY <2>1, <2>2 DEF I2sInv, Live, Bounded, Alternate, TxOrder, RxOrder, CarefulUse
  <2> QED BY <2>3, <2>4 DEF I2sInv
<1>2. ASSUME I2sStep, UNCHANGED env PROVE I2sInv'
  <2>1. ASSUME NEW c \in Callers, Construct(c) PROVE I2sInv' BY <1>2, <2>1, ConstructInv
  <2>2. ASSUME NEW c \in Callers, Deinits(c) PROVE I2sInv'
    BY <1>2, <2>2, SuspendInv, NothingToStopInv DEF Deinits
  <2>3. ASSUME NEW c \in Callers, Abort(c) PROVE I2sInv' BY <1>2, <2>3, AbortInv
  <2>4. ASSUME NEW c \in Callers, UsedAfter(c) PROVE I2sInv'
    <3>1. 1 \in 1 .. MaxStream BY I2sAssumption
    <3> QED BY <1>2, <2>4, <3>1, CallInv
  <2>5. ASSUME NEW c \in Callers, NEW n \in 1 .. MaxStream, Transfer(c, n) PROVE I2sInv'
    BY <1>2, <2>5, CallInv
  <2>6. ASSUME NEW c \in Callers, NEW b \in BOOLEAN, I2sIrq(c, b) PROVE I2sInv'
    <3>1. 1 \in 1 .. MaxStream BY I2sAssumption
    <3> QED BY <1>2, <2>6, <3>1, CallInv
  <2>7. CASE Drained BY <1>2, <2>7, DrainedInv
  <2>8. CASE SpinCopy BY <1>2, <2>8, SpinInv
  <2>9. CASE SpinIdle BY <1>1, <1>2, <2>9 DEF SpinIdle
  <2>10. CASE BlockDone BY <1>2, <2>10, BlockDoneInv
  <2>11. CASE GdmaError BY <1>2, <2>11, GdmaErrorInv
  <2>12. CASE GdmaDone BY <1>2, <2>12, GdmaDoneInv
  <2> QED
    BY <1>2, <2>1, <2>2, <2>3, <2>4, <2>5, <2>6, <2>7, <2>8, <2>9, <2>10, <2>11, <2>12 DEF I2sStep
<1> QED BY <1>1, <1>2 DEF I2sNext

LEMMA I2sInvAlways == I2sSpec => []I2sInv
BY I2sInitInv, I2sStepInv, PTL DEF I2sSpec

(* Interrupts in time never touch the half the hardware is on, and the     *)
(* stream is complete and in order: TX byte by byte from write() to the    *)
(* half that is playing, RX aligned to the halves.                         *)
THEOREM StreamInOrderAlways == I2sSpec => []StreamInOrder
<1>1. I2sInv => StreamInOrder
  <2> SUFFICES ASSUME I2sInv PROVE StreamInOrder
    OBVIOUS
  <2>1. I2sTypeOK /\ (env # "late" => ~clash) BY DEF I2sInv, Alternate
  <2>2. env # "late" /\ i2s.active /\ i2s.mode = "TX"
          => OnTheWay = [j \in 1 .. pushed - popped |-> popped + j]
    BY DEF I2sInv, TxOrder, Run
  <2>3. env # "late" /\ i2s.active /\ i2s.mode # "TX"
          => \A j \in DOMAIN ring : ring[j] = (popped + j - 1) % Half
    <3>1. DOMAIN ring = 1 .. Len(ring) /\ i2s.mode \in {"TX", "RX"} BY I2sTypes DEF Objects
    <3> QED BY <3>1 DEF I2sInv, RxOrder, Aligned
  <2> QED BY <2>1, <2>2, <2>3 DEF StreamInOrder
<1> QED BY <1>1, I2sInvAlways, PTL

(* A channel that can run has its memory, and a stopped one leaves none,   *)
(* in a program that uses the object from one thread and not after         *)
(* deinit(), with a channel that drains in time.                           *)
THEOREM ChannelHasMemoryAlways == I2sSpec => []ChannelHasMemory
<1>1. I2sInv => ChannelHasMemory
  BY DEF I2sInv, Live, CarefulUse, ChannelHasMemory
<1> QED BY <1>1, I2sInvAlways, PTL

(***************************************************************************)
(* machine.I2CTarget                                                       *)
(***************************************************************************)
(* What the theorem is about: the bus as the handler expects it, and a     *)
(* shared one as long as no STOP has found a byte.                         *)
Expected == busUse = "plain" \/ (busUse = "shared" /\ ~unread)

Told(k, m, o) == [kind |-> k, matched |-> m, over |-> o]

(* A bit of the status the handler has read and not come to yet.           *)
ToCome ==
  { b \in isr.intr : \/ isr.at = "RX_DONE"
                     \/ isr.at = "STOP_DET" /\ b # "RX_DONE"
                     \/ isr.at \in {"RX_FULL", "RD_REQ"} /\ b = "RD_REQ" }

(* No transfer with this target is left to report; one with another may    *)
(* have ended.  LP_WAKE_1 is left over only from a STOP that found a byte. *)
NoneLeft ==
  /\ untold = <<>> /\ d = "idle" /\ fifo = 0 /\ ~tgt.stopPending /\ ~bus.own
  /\ int \subseteq {"STOP_DET", "LP_WAKE"}
  /\ "STOP_DET" \in int => bus.last = "none"
  /\ "LP_WAKE" \in int => bus.kind = "none" /\ "STOP_DET" \notin int /\ unread

(* A write: on the bus; or ended, with the STOP still to be seen; or       *)
(* ended, with the STOP seen and bytes to be read first.                   *)
WriteLeft(m) ==
  /\ d = IF m THEN "write" ELSE "idle"
  /\ int \subseteq {"STOP_DET", "LP_WAKE"}
  /\ \/ /\ untold = <<Told("write", m, FALSE)>> /\ bus.own /\ bus.kind = "write"
        /\ "STOP_DET" \notin int /\ "LP_WAKE" \in int /\ ~tgt.stopPending
     \/ /\ untold = <<Told("write", m, TRUE)>> /\ ~bus.own /\ bus.kind = "none"
        /\ \/ "STOP_DET" \in int /\ "LP_WAKE" \in int /\ ~tgt.stopPending
           \/ /\ "STOP_DET" \notin int /\ tgt.stopPending /\ unread
              /\ fifo > 0 \/ (m /\ isr.at # "no")

(* A read of which no byte has been asked for and served.                  *)
Unserved ==
  /\ bus.own /\ bus.kind = "read" /\ bus.left > 0
  /\ bus.asked => "RD_REQ" \in int
  /\ "RX_DONE" \notin int

ReadLeft(m) ==
  /\ d = (IF m THEN "read" ELSE "idle") /\ fifo = 0 /\ ~tgt.stopPending
  /\ \/ /\ untold = <<Told("read", m, FALSE)>> /\ bus.own /\ bus.kind = "read"
        /\ "STOP_DET" \notin int /\ (~m => Unserved)
     \/ /\ untold = <<Told("read", TRUE, TRUE)>> /\ m /\ ~bus.own /\ bus.kind = "none"
        /\ "STOP_DET" \in int /\ bus.last = "read" /\ bus.left = 0
        /\ ("RX_DONE" \in int /\ "STOP_DET" \in ToCome) => "RX_DONE" \in ToCome

(* A read that has overtaken the STOP of the write before it.              *)
BothLeft(m) ==
  /\ untold = <<Told("write", m, TRUE), Told("read", FALSE, FALSE)>>
  /\ d = (IF m THEN "write" ELSE "idle") /\ fifo = 0 /\ ~tgt.stopPending
  /\ {"STOP_DET", "LP_WAKE"} \subseteq int /\ Unserved
  /\ isr.at = "no" \/ "STOP_DET" \in ToCome

(* What holds in every case.                                               *)
Bits ==
  /\ ~wrong
  /\ ToCome \ {"RX_FULL"} \subseteq int
  /\ ~bus.own => bus.left = 0
  /\ bus.asked => bus.own /\ bus.kind = "read" /\ bus.left > 0
  /\ "RD_REQ" \in int => bus.asked
  /\ ~tgt.init => int = {} /\ isr.at = "no" /\ fifo = 0 /\ untold = <<>> /\ ~bus.own
  /\ tgt.init => tgt.state = d

Left == NoneLeft \/ \E m \in BOOLEAN : WriteLeft(m) \/ ReadLeft(m) \/ BothLeft(m)

TargetCore == Bits /\ (tgt.init => Left)

(* EveryTransferOnce lacks which transfer the bits of the status, the      *)
(* framework and the handler are at.                                       *)
TgtInv == TargetTypeOK /\ (Expected => TargetCore)

(* The sequences of one and of two transfers that the cases are about.     *)
LEMMA TwoTold == ASSUME NEW e, NEW f PROVE Append(<<e>>, f) = <<e, f>>
<1> DEFINE S == {e, f}
<1>0. e \in S /\ f \in S OBVIOUS
<1> HIDE DEF S
<1>1. <<e, f>> \in Seq(S) /\ Append(<<e>>, f) \in Seq(S) BY <1>0
<1>2. Len(Append(<<e>>, f)) = 2 /\ Len(<<e, f>>) = 2 OBVIOUS
<1>3. Append(<<e>>, f)[1] = e /\ Append(<<e>>, f)[2] = f OBVIOUS
<1>4. <<e, f>>[1] = e /\ <<e, f>>[2] = f OBVIOUS
<1>5. \A i \in 1 .. 2 : Append(<<e>>, f)[i] = <<e, f>>[i] BY <1>3, <1>4
<1> QED BY <1>1, <1>2, <1>5, SeqEqual

LEMMA Single == ASSUME NEW e PROVE Append(<<>>, e) = <<e>>
OBVIOUS

LEMMA SetMatched ==
  ASSUME NEW k, NEW m, NEW o, NEW v
  PROVE  [Told(k, m, o) EXCEPT !.matched = v] = Told(k, v, o)
BY DEF Told

LEMMA SetOver ==
  ASSUME NEW k, NEW m, NEW o, NEW v
  PROVE  [Told(k, m, o) EXCEPT !.over = v] = Told(k, m, v)
BY DEF Told

LEMMA SetFirst ==
  ASSUME NEW e, NEW f PROVE [<<e>> EXCEPT ![1] = f] = <<f>>
OBVIOUS

LEMMA OneFirst ==
  ASSUME NEW k, NEW m, NEW o
  PROVE  LET q == <<Told(k, m, o)>>
         IN  q # <<>> /\ Tail(q) = <<>> /\ q[1].kind = k /\ q[1].matched = m /\ q[1].over = o
<1>1. <<Told(k, m, o)>> # <<>> /\ Tail(<<Told(k, m, o)>>) = <<>> OBVIOUS
<1>2. <<Told(k, m, o)>>[1] = Told(k, m, o) OBVIOUS
<1>3. /\ Told(k, m, o).kind = k /\ Told(k, m, o).matched = m
      /\ Told(k, m, o).over = o BY DEF Told
<1> QED BY <1>1, <1>2, <1>3

LEMMA OneMatched ==
  ASSUME NEW k, NEW m, NEW o
  PROVE  [<<Told(k, m, o)>> EXCEPT ![1].matched = TRUE] = <<Told(k, TRUE, o)>>
<1>1. PICK v : v = TRUE OBVIOUS
<1>2. PICK e : e = Told(k, m, o) OBVIOUS
<1>3. [e EXCEPT !.matched = v] = Told(k, v, o) BY ONLY <1>2, SetMatched
<1>4. [<<e>> EXCEPT ![1].matched = v] = [<<e>> EXCEPT ![1] = [e EXCEPT !.matched = v]] OBVIOUS
<1>5. [<<e>> EXCEPT ![1] = Told(k, v, o)] = <<Told(k, v, o)>> BY ONLY SetFirst
<1>6. [<<e>> EXCEPT ![1].matched = v] = <<Told(k, v, o)>> BY ONLY <1>3, <1>4, <1>5
<1> QED BY ONLY <1>1, <1>2, <1>6

LEMMA OneOver ==
  ASSUME NEW k, NEW m, NEW o, NEW q, q = <<Told(k, m, o)>>
  PROVE  [q EXCEPT ![Len(q)].over = TRUE] = <<Told(k, m, TRUE)>>
<1>1. PICK v : v = TRUE OBVIOUS
<1>2. PICK e : e = Told(k, m, o) OBVIOUS
<1>3. [e EXCEPT !.over = v] = Told(k, m, v) BY ONLY <1>2, SetOver
<1>4. [<<e>> EXCEPT ![1].over = v] = [<<e>> EXCEPT ![1] = [e EXCEPT !.over = v]] OBVIOUS
<1>5. [<<e>> EXCEPT ![1] = Told(k, m, v)] = <<Told(k, m, v)>> BY ONLY SetFirst
<1>6. [<<e>> EXCEPT ![1].over = v] = <<Told(k, m, v)>> BY ONLY <1>3, <1>4, <1>5
<1>7. q = <<e>> BY <1>2
<1>8. Len(q) = 1 BY <1>7
<1> QED BY ONLY <1>1, <1>6, <1>7, <1>8

LEMMA TwoTail ==
  ASSUME NEW f, NEW e, NEW q, q = <<f, e>> PROVE q # <<>> /\ Tail(q) = <<e>> /\ q[1] = f
OBVIOUS

LEMMA Fields ==
  ASSUME NEW k, NEW m, NEW o, NEW f, f = Told(k, m, o)
  PROVE  f.kind = k /\ f.matched = m /\ f.over = o
BY DEF Told

(* The type of the transfers under what the bus and the handler do.        *)
Transfers == [kind : Kinds, matched : BOOLEAN, over : BOOLEAN]
TargetObjects == [init : BOOLEAN, state : Kinds \cup {"idle", "inactive"}, stopPending : BOOLEAN]
Buses == [kind : Kinds \cup {"none"}, own : BOOLEAN, left : 0 .. MaxLen, asked : BOOLEAN,
          last : Kinds \cup {"none"}]

LEMMA UntoldType ==
  ASSUME NEW q \in Seq(Transfers)
  PROVE  /\ \A kind \in Kinds :
              Append(q, [kind |-> kind, matched |-> FALSE, over |-> FALSE]) \in Seq(Transfers)
         /\ [q EXCEPT ![Len(q)].over = TRUE] \in Seq(Transfers)
         /\ [q EXCEPT ![1].matched = TRUE] \in Seq(Transfers)
         /\ q # <<>> => Tail(q) \in Seq(Transfers)
<1>1. \A kind \in Kinds : [kind |-> kind, matched |-> FALSE, over |-> FALSE] \in Transfers
  BY DEF Transfers
<1>2. ASSUME NEW e \in Transfers
      PROVE  [e EXCEPT !.over = TRUE] \in Transfers /\ [e EXCEPT !.matched = TRUE] \in Transfers
  BY <1>2 DEF Transfers
<1>3. ASSUME NEW i \in Nat PROVE [q EXCEPT ![i].over = TRUE] \in Seq(Transfers)
  <2>1. PICK e : e = [q[i] EXCEPT !.over = TRUE] OBVIOUS
  <2>2. [q EXCEPT ![i].over = TRUE] = [q EXCEPT ![i] = e] BY <2>1
  <2>3. i \in 1 .. Len(q) => q[i] \in Transfers OBVIOUS
  <2>4. i \in 1 .. Len(q) => e \in Transfers BY ONLY <2>1, <2>3, <1>2
  <2>5. [q EXCEPT ![i] = e] \in Seq(Transfers)
    <3>1. CASE i \in 1 .. Len(q) BY ONLY <3>1, <2>4, q \in Seq(Transfers)
    <3>2. CASE i \notin 1 .. Len(q)
      <4>1. [q EXCEPT ![i] = e] = q BY ONLY <3>2, q \in Seq(Transfers), i \in Nat
      <4> QED BY <4>1
    <3> QED BY <3>1, <3>2
  <2> QED BY ONLY <2>2, <2>5
<1>4. [q EXCEPT ![1].matched = TRUE] \in Seq(Transfers)
  <2>1. PICK e : e = [q[1] EXCEPT !.matched = TRUE] OBVIOUS
  <2>2. [q EXCEPT ![1].matched = TRUE] = [q EXCEPT ![1] = e] BY <2>1
  <2>3. 1 \in 1 .. Len(q) => q[1] \in Transfers OBVIOUS
  <2>4. 1 \in 1 .. Len(q) => e \in Transfers BY ONLY <2>1, <2>3, <1>2
  <2>5. [q EXCEPT ![1] = e] \in Seq(Transfers)
    <3>1. CASE 1 \in 1 .. Len(q) BY ONLY <3>1, <2>4, q \in Seq(Transfers)
    <3>2. CASE 1 \notin 1 .. Len(q)
      <4>1. [q EXCEPT ![1] = e] = q BY ONLY <3>2, q \in Seq(Transfers)
      <4> QED BY <4>1
    <3> QED BY <3>1, <3>2
  <2> QED BY ONLY <2>2, <2>5
<1>5. q # <<>> => Tail(q) \in Seq(Transfers) OBVIOUS
<1>6. \A e \in Transfers : Append(q, e) \in Seq(Transfers) OBVIOUS
<1>7. Len(q) \in Nat OBVIOUS
<1> QED BY <1>1, <1>3, <1>4, <1>5, <1>6, <1>7

LEMMA TargetStepType == TargetTypeOK /\ [TargetNext]_<<targetVars, busUse>> => TargetTypeOK'
<1> SUFFICES ASSUME TargetTypeOK, [TargetNext]_<<targetVars, busUse>> PROVE TargetTypeOK'
  OBVIOUS
<1> USE TargetAssumption DEF Kinds, BusUses
<1>0. CASE UNCHANGED <<targetVars, busUse>> BY <1>0 DEF targetVars, TargetTypeOK
<1>1. untold \in Seq(Transfers) BY DEF TargetTypeOK, Transfers
<1>2. ASSUME NEW kind \in Kinds, NEW own \in BOOLEAN, NEW n \in 0 .. MaxLen, BusStart(kind, own, n),
             UNCHANGED busUse PROVE TargetTypeOK'
  <2>1. untold' \in Seq(Transfers) BY <1>1, <1>2, UntoldType DEF BusStart
  <2> QED BY <1>2, <2>1 DEF BusStart, TargetTypeOK, Transfers
<1>3. CASE BusWrite /\ UNCHANGED busUse
  <2>1. untold' \in Seq(Transfers) BY <1>1, <1>3, UntoldType DEF BusWrite
  <2> QED BY SMTT(40), <1>3, <2>1 DEF BusWrite, TargetTypeOK, Transfers
<1>4. CASE BusRead /\ UNCHANGED busUse
  <2>1. untold' \in Seq(Transfers) BY <1>1, <1>4, UntoldType DEF BusRead
  <2>2. int' \subseteq {"RX_DONE", "STOP_DET", "RD_REQ", "LP_WAKE"} BY <1>4 DEF BusRead, TargetTypeOK
  <2>3. bus \in Buses BY DEF TargetTypeOK, Buses
  <2>4. ASSUME bus' = [bus EXCEPT !.asked = TRUE] PROVE bus' \in Buses
    BY <2>3, <2>4 DEF Buses
  <2>5. ASSUME bus.left > 0, bus' = [bus EXCEPT !.asked = FALSE, !.left = @ - 1] PROVE bus' \in Buses
    <3>1. bus.left \in 0 .. MaxLen /\ bus.left - 1 \in 0 .. MaxLen BY <2>3, <2>5 DEF Buses
    <3>2. PICK n \in 0 .. MaxLen : n = bus.left - 1 BY <3>1
    <3>3. bus' = [bus EXCEPT !.asked = FALSE, !.left = n] BY <2>5, <3>2
    <3> QED BY ONLY <2>3, <3>2, <3>3 DEF Buses
  <2>6. bus' \in Buses BY <1>4, <2>4, <2>5 DEF BusRead
  <2> QED BY <1>4, <2>1, <2>2, <2>6 DEF BusRead, TargetTypeOK, Transfers, TargetObjects, Buses
<1>5. CASE BusStop /\ UNCHANGED busUse
  <2>1. untold' \in Seq(Transfers) BY <1>1, <1>5, UntoldType DEF BusStop
  <2>2. bus' \in Buses BY <1>5 DEF BusStop, TargetTypeOK, Buses
  <2> QED BY <1>5, <2>1, <2>2 DEF BusStop, TargetTypeOK, Transfers, TargetObjects, Buses
<1>6. CASE IsrEnter /\ UNCHANGED busUse
  <2>1. untold' \in Seq(Transfers) BY <1>1, <1>6, UntoldType DEF IsrEnter, Status, Branch
  <2> QED BY <1>6, <2>1 DEF IsrEnter, Status, Branch, TargetTypeOK, Transfers
<1>7. CASE NotTaken /\ UNCHANGED busUse
  <2>1. untold' \in Seq(Transfers) BY <1>1, <1>7, UntoldType DEF NotTaken, Branch
  <2> QED BY <1>7, <2>1 DEF NotTaken, Branch, TargetTypeOK, Transfers
<1>8. CASE IsrRead("RX_DONE") /\ UNCHANGED busUse
  <2>1. untold' \in Seq(Transfers) BY <1>1, <1>8, UntoldType DEF IsrRead, Taken, Branch, Request, Matched
  <2> QED BY ZenonT(40), <1>8, <2>1 DEF IsrRead, Taken, Branch, Request, Matched, TargetTypeOK, Transfers
<1>9. CASE StopPending /\ UNCHANGED busUse
  <2>1. untold' \in Seq(Transfers) BY <1>1, <1>9, UntoldType DEF StopPending, Taken, Branch
  <2>2. tgt' \in TargetObjects BY <1>9 DEF StopPending, TargetTypeOK, TargetObjects
  <2>3. isr' = [isr EXCEPT !.at = "RX_FULL"] BY <1>9 DEF StopPending, Taken, Branch
  <2> QED BY <1>9, <2>1, <2>2, <2>3 DEF StopPending, TargetTypeOK, Transfers, TargetObjects
<1>10. CASE StopProbe /\ UNCHANGED busUse
  <2>1. untold' \in Seq(Transfers) BY <1>1, <1>10, UntoldType DEF StopProbe, Taken, Branch, MatchIsRight
  <2> QED BY <1>10, <2>1 DEF StopProbe, Taken, Branch, MatchIsRight, TargetTypeOK, Transfers
<1>11. CASE StopEnd /\ UNCHANGED busUse
  <2>1. untold' \in Seq(Transfers) BY <1>1, <1>11, UntoldType DEF StopEnd, Taken, Branch, RestartOrStop, EndIsRight
  <2>2. tgt' \in TargetObjects BY <1>11 DEF StopEnd, TargetTypeOK, TargetObjects
  <2>3. isr' = [isr EXCEPT !.at = "RX_FULL"] BY <1>11 DEF StopEnd, Taken, Branch
  <2>4. d' = "idle" /\ wrong' \in BOOLEAN BY <1>11 DEF StopEnd, RestartOrStop, TargetTypeOK
  <2> QED BY <1>11, <2>1, <2>2, <2>3, <2>4 DEF StopEnd, TargetTypeOK, Transfers, TargetObjects
<1>12. CASE IsrWrite /\ UNCHANGED busUse
  <2>1. untold' \in Seq(Transfers) BY <1>1, <1>12, UntoldType DEF IsrWrite, Taken, Branch, Request, Matched
  <2>2. fifo' \in 0 .. Depth /\ masked' \in BOOLEAN
    <3>1. fifo' = fifo \/ \E n \in 0 .. Depth - 1 : fifo' = n BY <1>12 DEF IsrWrite
    <3>2. masked' \in BOOLEAN BY <1>12 DEF IsrWrite
    <3>3. fifo \in 0 .. Depth BY DEF TargetTypeOK
    <3> QED BY <3>1, <3>2, <3>3
  <2>3. tgt' \in TargetObjects /\ wrong' \in BOOLEAN BY <1>12 DEF IsrWrite, Request, TargetTypeOK, TargetObjects
  <2> QED BY <1>12, <2>1, <2>2, <2>3 DEF IsrWrite, Taken, Branch, Request, TargetTypeOK, Transfers, TargetObjects, Buses
<1>13. CASE IsrRead("RD_REQ") /\ UNCHANGED busUse
  <2>1. untold' \in Seq(Transfers) BY <1>1, <1>13, UntoldType DEF IsrRead, Taken, Branch, Request, Matched
  <2> QED BY ZenonT(40), <1>13, <2>1 DEF IsrRead, Taken, Branch, Request, Matched, TargetTypeOK, Transfers
<1>14. CASE IsrEnd /\ UNCHANGED busUse
  <2>1. untold' \in Seq(Transfers) BY <1>1, <1>14, UntoldType DEF IsrEnd, RestartOrStop, EndIsRight
  <2>t. tgt \in TargetObjects BY DEF TargetTypeOK, TargetObjects
  <2>a. tgt' \in {tgt, [tgt EXCEPT !.stopPending = FALSE, !.state = "idle"]} BY ONLY <1>14 DEF IsrEnd
  <2>b. tgt' \in TargetObjects BY ONLY <2>t, <2>a DEF TargetObjects
  <2>w. wrong' \in BOOLEAN BY <1>14 DEF IsrEnd, RestartOrStop, TargetTypeOK
  <2>2. tgt' \in TargetObjects /\ wrong' \in BOOLEAN BY ONLY <2>b, <2>w
  <2> QED BY <1>14, <2>1, <2>2 DEF IsrEnd, RestartOrStop, TargetTypeOK, Transfers, TargetObjects, Buses
<1>15. CASE ReadInto /\ UNCHANGED busUse
  <2>1. untold' \in Seq(Transfers) BY <1>1, <1>15, UntoldType DEF ReadInto
  <2>2. fifo' \in 0 .. Depth /\ masked' \in BOOLEAN
    <3>1. fifo' = fifo \/ \E n \in 0 .. Depth - 1 : fifo' = n BY <1>15 DEF ReadInto
    <3>2. masked' \in BOOLEAN BY <1>15 DEF ReadInto
    <3>3. fifo \in 0 .. Depth BY DEF TargetTypeOK
    <3> QED BY <3>1, <3>2, <3>3
  <2> QED BY <1>15, <2>1, <2>2 DEF ReadInto, TargetTypeOK, Transfers, TargetObjects, Buses
<1>16. CASE TargetNew /\ UNCHANGED busUse
  <2>1. untold' \in Seq(Transfers) BY <1>1, <1>16, UntoldType DEF TargetNew, TargetOff, Fresh
  <2>2. tgt' \in TargetObjects BY <1>16 DEF TargetNew, TargetOff, Fresh, TargetTypeOK, TargetObjects
  <2>3. bus' \in Buses
    <3>1. bus \in Buses BY DEF TargetTypeOK, Buses
    <3>2. bus' = [bus EXCEPT !.own = FALSE, !.left = 0, !.asked = FALSE, !.last = "none"]
      BY <1>16 DEF TargetNew, TargetOff
    <3>3. 0 \in 0 .. MaxLen OBVIOUS
    <3> QED BY ONLY <3>1, <3>2, <3>3 DEF Buses
  <2>4. /\ d' = "idle" /\ int' = {} /\ fifo' = 0 /\ masked' \in BOOLEAN
        /\ UNCHANGED <<isr, wrong, unread, busUse>> BY <1>16 DEF TargetNew, TargetOff
  <2> QED BY <2>1, <2>2, <2>3, <2>4 DEF TargetTypeOK, Transfers, TargetObjects, Buses
<1>17. CASE TargetDeinit /\ UNCHANGED busUse
  <2>1. untold' \in Seq(Transfers) BY <1>1, <1>17, UntoldType DEF TargetDeinit, TargetOff
  <2>2. tgt' \in TargetObjects BY <1>17 DEF TargetDeinit, TargetOff, TargetTypeOK, TargetObjects
  <2>3. bus' \in Buses
    <3>1. bus \in Buses BY DEF TargetTypeOK, Buses
    <3>2. bus' = [bus EXCEPT !.own = FALSE, !.left = 0, !.asked = FALSE, !.last = "none"]
      BY <1>17 DEF TargetDeinit, TargetOff
    <3>3. 0 \in 0 .. MaxLen OBVIOUS
    <3> QED BY ONLY <3>1, <3>2, <3>3 DEF Buses
  <2> QED BY <1>17, <2>1, <2>2, <2>3 DEF TargetDeinit, TargetOff, TargetTypeOK, Transfers, TargetObjects, Buses
<1>18. CASE wrong /\ UNCHANGED targetVars /\ UNCHANGED busUse BY <1>18 DEF targetVars, TargetTypeOK
<1> QED BY <1>0, <1>2, <1>3, <1>4, <1>5, <1>6, <1>7, <1>8, <1>9, <1>10, <1>11, <1>12, <1>13, <1>14, <1>15, <1>16, <1>17, <1>18 DEF TargetNext, TargetStep

(* What the next branch leaves ahead.                                      *)
LEMMA Advances ==
  ASSUME TargetTypeOK, NEW b \in {"RX_DONE", "STOP_DET", "RX_FULL", "RD_REQ"}, isr.at = b,
         isr' = [isr EXCEPT !.at = Branch(b)]
  PROVE  /\ isr'.at # "no"
         /\ ToCome' = (IF b = "RX_DONE" THEN ToCome \ {b} ELSE ToCome' \cap (ToCome \ {b}))
         /\ b # "RX_DONE" => ToCome' \subseteq {"RX_FULL", "RD_REQ"}
         /\ b \in isr.intr \ {"RX_FULL"} => b \in ToCome
BY DEF TargetTypeOK, Branch, ToCome

LEMMA BusStartCore ==
  ASSUME TargetTypeOK, TargetTypeOK', TargetCore, Expected, UNCHANGED busUse,
         NEW kind \in Kinds, NEW own \in BOOLEAN, NEW n \in 0 .. MaxLen, BusStart(kind, own, n)
  PROVE  TargetCore'
<1>1. ToCome' = ToCome BY DEF BusStart, ToCome
<1>2. Bits' BY <1>1 DEF BusStart, Bits, TargetCore, TargetTypeOK, Kinds
<1>3. CASE ~(own /\ tgt.init)
  <2>1. bus'.kind = kind /\ ~bus'.own BY <1>3 DEF BusStart
  <2> QED BY <1>3, <1>2, <1>1 DEF BusStart, TargetCore, Left, NoneLeft, WriteLeft, ReadLeft, BothLeft, Seen, Expected, Bits
<1>4. CASE own /\ tgt.init
  <2> DEFINE e == Told(kind, FALSE, FALSE)
  <2>0. /\ untold' = Append(untold, e) /\ int' = int \cup {"LP_WAKE"}
        /\ bus'.kind = kind /\ bus'.own /\ bus'.left = n /\ ~bus'.asked
        /\ kind = "read" => n > 0
        /\ bus.kind = "none" /\ UNCHANGED <<tgt, d, fifo, isr, unread>>
    BY <1>4 DEF BusStart, Told
  <2>s. Seen(kind, own) BY DEF BusStart, Expected
  <2> HIDE DEF e
  <2>1. CASE NoneLeft
    <3>1. untold' = <<e>> BY <2>0, <2>1, Single DEF NoneLeft
    <3>2. int \subseteq {"LP_WAKE"} BY <2>1, <2>s DEF NoneLeft, Seen
    <3>3. CASE kind = "write"
      <4>1. d' = "idle" /\ int' \subseteq {"STOP_DET", "LP_WAKE"} /\ "STOP_DET" \notin int' /\ "LP_WAKE" \in int'
            /\ ~tgt'.stopPending
        BY <2>0, <2>1, <3>2 DEF NoneLeft
      <4>2. WriteLeft(FALSE)' BY <2>0, <3>1, <3>3, <4>1 DEF WriteLeft, e
      <4> QED BY <1>2, <4>2 DEF TargetCore, Left
    <3>4. CASE kind = "read"
      <4>1. d' = "idle" /\ fifo' = 0 /\ "STOP_DET" \notin int' /\ "RX_DONE" \notin int' /\ ~tgt'.stopPending
        BY <2>0, <2>1, <3>2 DEF NoneLeft
      <4>2. ReadLeft(FALSE)' BY <2>0, <3>1, <3>4, <4>1 DEF ReadLeft, Unserved, e
      <4> QED BY <1>2, <4>2 DEF TargetCore, Left
    <3> QED BY <3>3, <3>4 DEF Kinds
  <2>2. ASSUME NEW m \in BOOLEAN, WriteLeft(m) PROVE TargetCore'
    <3>0. isr.at = "no" /\ fifo = 0 /\ bus.kind = "none" BY <2>0, <2>s DEF Seen
    <3>1. /\ untold = <<Told("write", m, TRUE)>> /\ kind = "read"
          /\ "STOP_DET" \in int /\ ~tgt.stopPending
      <4>1. untold = <<Told("write", m, TRUE)>> /\ "STOP_DET" \in int /\ ~tgt.stopPending
        <5>1. ~(fifo > 0 \/ (m /\ isr.at # "no")) BY <3>0
        <5>2. bus.kind # "write" BY <3>0
        <5> QED BY ONLY <2>2, <5>1, <5>2 DEF WriteLeft
      <4> QED BY <2>s, <4>1 DEF Seen
    <3>2. Append(untold, e) = <<Told("write", m, TRUE), e>> BY <3>1, TwoTold
    <3>3. untold' = <<Told("write", m, TRUE), Told("read", FALSE, FALSE)>>
      BY <2>0, <3>1, <3>2 DEF e
    <3>4. BothLeft(m)' BY <1>1, <2>0, <2>s, <2>2, <3>1, <3>3 DEF WriteLeft, BothLeft, Unserved, Seen
    <3> QED BY <1>2, <3>4 DEF TargetCore, Left
  <2>3. ASSUME NEW m \in BOOLEAN, ReadLeft(m) \/ BothLeft(m) PROVE TargetCore'
    BY <2>3, <1>4 DEF BusStart, ReadLeft, BothLeft, Unserved, Seen, Expected
  <2> QED BY <1>4, <2>1, <2>2, <2>3 DEF TargetCore, Left
<1> QED BY <1>3, <1>4

LEMMA BusWriteCore ==
  ASSUME TargetTypeOK, TargetTypeOK', TargetCore, Expected, UNCHANGED busUse, BusWrite
  PROVE  TargetCore'
<1>1. ToCome' = ToCome BY DEF BusWrite, ToCome
<1>2. bus.own /\ tgt.init BY DEF BusWrite, TargetCore, Bits
<1>3. /\ bus'.kind = bus.kind /\ bus'.own = bus.own /\ bus'.asked = bus.asked /\ bus'.last = bus.last
  BY DEF BusWrite, TargetTypeOK
<1>4. ~bus.asked BY DEF BusWrite, TargetCore, Bits
<1>5. Bits' BY <1>1, <1>2, <1>3, <1>4 DEF BusWrite, TargetCore, Bits
<1>6. PICK m \in BOOLEAN : WriteLeft(m)
  BY <1>2 DEF BusWrite, TargetCore, Left, NoneLeft, ReadLeft, BothLeft, Unserved
<1>7. WriteLeft(m)' BY <1>2, <1>3, <1>6 DEF BusWrite, WriteLeft
<1> QED BY <1>5, <1>7 DEF TargetCore, Left

LEMMA BusReadCore ==
  ASSUME TargetTypeOK, TargetTypeOK', TargetCore, Expected, UNCHANGED busUse, BusRead
  PROVE  TargetCore'
<1>1. ToCome' = ToCome BY DEF BusRead, ToCome
<1>2. bus.own /\ tgt.init /\ bus.left \in Nat BY DEF BusRead, TargetCore, Bits, TargetTypeOK
<1>3. CASE ~bus.asked /\ int' = int \cup {"RD_REQ"} /\ bus' = [bus EXCEPT !.asked = TRUE]
  <2>1. /\ bus'.kind = "read" /\ bus'.own /\ bus'.asked /\ bus'.left = bus.left
    BY <1>2, <1>3 DEF BusRead, TargetTypeOK
  <2>2. Bits' BY <1>1, <1>2, <1>3, <2>1 DEF BusRead, TargetCore, Bits
  <2>3. PICK m \in BOOLEAN : ReadLeft(m) \/ BothLeft(m)
    BY <1>2 DEF BusRead, TargetCore, Left, NoneLeft, WriteLeft
  <2>4. ReadLeft(m)' \/ BothLeft(m)'
    BY <1>1, <1>2, <1>3, <2>1, <2>3 DEF BusRead, ReadLeft, BothLeft, Unserved
  <2> QED BY <2>2, <2>4 DEF TargetCore, Left
<1>4. CASE /\ bus.asked /\ bus' = [bus EXCEPT !.asked = FALSE, !.left = @ - 1]
           /\ int' = IF bus.left = 1 THEN int \cup {"RX_DONE"} ELSE int
  <2>1. /\ bus'.kind = "read" /\ bus'.own /\ ~bus'.asked /\ bus'.left = bus.left - 1
    BY <1>2, <1>4 DEF BusRead, TargetTypeOK
  <2>2. Bits' BY <1>1, <1>2, <1>4, <2>1 DEF BusRead, TargetCore, Bits
  <2>3. PICK m \in BOOLEAN : ReadLeft(m) /\ m
    BY <1>2, <1>4 DEF BusRead, TargetCore, Left, NoneLeft, WriteLeft, ReadLeft, BothLeft, Unserved
  <2>4. ReadLeft(m)' BY <1>1, <1>2, <1>4, <2>1, <2>3 DEF BusRead, ReadLeft
  <2> QED BY <2>2, <2>4 DEF TargetCore, Left
<1> QED BY <1>3, <1>4 DEF BusRead

LEMMA BusStopCore ==
  ASSUME TargetTypeOK, TargetTypeOK', TargetCore, Expected, UNCHANGED busUse, BusStop
  PROVE  TargetCore'
<1>1. ToCome' = ToCome BY DEF BusStop, ToCome
<1>2. /\ bus'.kind = "none" /\ ~bus'.own /\ bus'.left = 0 /\ bus'.asked = bus.asked
      /\ bus'.last = IF bus.own THEN bus.kind ELSE "none"
      /\ UNCHANGED <<tgt, d, fifo, isr, wrong, unread>> /\ bus.kind # "none" /\ bus.left = 0
      /\ int' = IF tgt.init THEN int \cup {"STOP_DET"} ELSE int
  BY DEF BusStop, TargetTypeOK
<1>3. ~bus.asked BY <1>2 DEF TargetCore, Bits
<1>4. CASE ~tgt.init
  <2>1. UNCHANGED untold BY <1>4 DEF BusStop, TargetCore, Bits
  <2>2. Bits' BY <1>1, <1>2, <1>3, <1>4, <2>1 DEF TargetCore, Bits
  <2> QED BY <1>2, <1>4, <2>2 DEF TargetCore
<1>5. CASE tgt.init
  <2>1. int' = int \cup {"STOP_DET"} BY <1>2, <1>5
  <2>2. Bits' BY <1>1, <1>2, <1>3, <1>5, <2>1 DEF TargetCore, Bits
  <2>3. CASE NoneLeft
    <3>1. UNCHANGED untold BY <2>3 DEF BusStop, NoneLeft
    <3>2. NoneLeft' BY <1>2, <2>1, <2>3, <3>1 DEF NoneLeft
    <3> QED BY <2>2, <3>2 DEF TargetCore, Left
  <2>4. ASSUME NEW m \in BOOLEAN, WriteLeft(m) PROVE TargetCore'
    <3>1. bus.own /\ untold = <<Told("write", m, FALSE)>> BY <1>2, <2>4 DEF WriteLeft
    <3>2. untold' = <<Told("write", m, TRUE)>>
      <4>1. untold' = [untold EXCEPT ![Len(untold)].over = TRUE] BY <3>1 DEF BusStop
      <4>2. untold = <<Told("write", m, FALSE)>> BY <3>1
      <4> QED BY ONLY <4>1, <4>2, OneOver
    <3>3. WriteLeft(m)' BY <1>2, <2>1, <2>4, <3>1, <3>2 DEF WriteLeft
    <3> QED BY <2>2, <3>3 DEF TargetCore, Left
  <2>5. ASSUME NEW m \in BOOLEAN, ReadLeft(m) PROVE TargetCore'
    <3>1. bus.own /\ untold = <<Told("read", m, FALSE)>> /\ m /\ bus.kind = "read" /\ "STOP_DET" \notin int
      <4>1. ~Unserved BY <1>2 DEF Unserved
      <4> QED BY <1>2, <2>5, <4>1 DEF ReadLeft
    <3>2. untold' = <<Told("read", m, TRUE)>>
      <4>1. untold' = [untold EXCEPT ![Len(untold)].over = TRUE] BY <3>1 DEF BusStop
      <4>2. untold = <<Told("read", m, FALSE)>> BY <3>1
      <4> QED BY ONLY <4>1, <4>2, OneOver
    <3>3. "STOP_DET" \notin ToCome' BY <1>1, <3>1 DEF TargetCore, Bits
    <3>4. ReadLeft(m)' BY <1>2, <2>1, <2>5, <3>1, <3>2, <3>3 DEF ReadLeft
    <3> QED BY <2>2, <3>4 DEF TargetCore, Left
  <2>6. ASSUME NEW m \in BOOLEAN, BothLeft(m) PROVE FALSE
    BY <1>2, <2>6 DEF BothLeft, Unserved
  <2> QED BY <1>5, <2>3, <2>4, <2>5, <2>6 DEF TargetCore, Left
<1> QED BY <1>4, <1>5

(* A step of the handler that changes nothing else.                        *)
LEMMA IsrEnterCore ==
  ASSUME TargetTypeOK, TargetTypeOK', TargetCore, Expected, UNCHANGED busUse, IsrEnter
  PROVE  TargetCore'
<1>1. ToCome' = Status /\ isr'.at = "RX_DONE" BY DEF IsrEnter, ToCome, Branch
<1>2. /\ ToCome' \ {"RX_FULL"} = int \ {"LP_WAKE"}
      /\ "RX_DONE" \in int => "RX_DONE" \in ToCome'
      /\ "STOP_DET" \in int => "STOP_DET" \in ToCome' BY <1>1 DEF Status, TargetTypeOK
<1>3. UNCHANGED <<tgt, d, int, fifo, bus, untold, wrong, unread>> /\ tgt.init /\ isr.at = "no" BY DEF IsrEnter
<1>4. Bits' BY <1>2, <1>3 DEF TargetCore, Bits
<1>5. NoneLeft => NoneLeft' BY <1>3 DEF NoneLeft
<1>6. ASSUME NEW m \in BOOLEAN
      PROVE  /\ WriteLeft(m) => WriteLeft(m)'
             /\ ReadLeft(m) => ReadLeft(m)'
             /\ BothLeft(m) => BothLeft(m)'
  <2>1. WriteLeft(m) => WriteLeft(m)' BY <1>3, <1>1 DEF WriteLeft
  <2>2. ReadLeft(m) => ReadLeft(m)' BY <1>3, <1>2 DEF ReadLeft, Unserved
  <2>3. BothLeft(m) => BothLeft(m)' BY <1>3, <1>2 DEF BothLeft, Unserved
  <2> QED BY <2>1, <2>2, <2>3
<1> QED BY <1>3, <1>4, <1>5, <1>6 DEF TargetCore, Left

LEMMA NotTakenCore ==
  ASSUME TargetTypeOK, TargetTypeOK', TargetCore, Expected, UNCHANGED busUse, NotTaken
  PROVE  TargetCore'
<1>1. PICK b \in {"RX_DONE", "STOP_DET", "RX_FULL", "RD_REQ"} :
        isr.at = b /\ b \notin isr.intr /\ isr' = [isr EXCEPT !.at = Branch(b)]
  BY DEF NotTaken, TargetTypeOK
<1>2. ToCome' \subseteq ToCome /\ isr'.at # "no" /\ b \notin ToCome BY <1>1, Advances DEF ToCome
<1>3. UNCHANGED <<tgt, d, int, fifo, bus, untold, wrong, unread>> BY DEF NotTaken
<1>4. tgt.init BY <1>1 DEF TargetCore, Bits
<1>5. Bits' BY <1>2, <1>3, <1>4 DEF TargetCore, Bits
<1>6. "STOP_DET" \in ToCome => b = "RX_DONE" /\ "STOP_DET" \in ToCome'
  BY <1>1, <1>2, Advances DEF ToCome
<1>7. "RX_DONE" \in ToCome => b # "RX_DONE" BY <1>2
<1>8. "RX_DONE" \in ToCome => isr.at = "RX_DONE" BY DEF ToCome
<1>9. ("STOP_DET" \in ToCome' => "STOP_DET" \in ToCome) /\ "RX_DONE" \notin ToCome BY <1>1, <1>2, <1>7, <1>8
<1>10. NoneLeft => NoneLeft' BY <1>3 DEF NoneLeft
<1>11. ASSUME NEW m \in BOOLEAN
       PROVE  /\ WriteLeft(m) => WriteLeft(m)'
              /\ ReadLeft(m) => ReadLeft(m)'
              /\ BothLeft(m) => BothLeft(m)'
  <2>1. WriteLeft(m) => WriteLeft(m)' BY <1>3, <1>2 DEF WriteLeft
  <2>2. ReadLeft(m) => ReadLeft(m)' BY <1>3, <1>9 DEF ReadLeft, Unserved
  <2>3. BothLeft(m) => BothLeft(m)' BY <1>1, <1>3, <1>6 DEF BothLeft, Unserved
  <2> QED BY <2>1, <2>2, <2>3
<1> QED BY <1>3, <1>4, <1>5, <1>10, <1>11 DEF TargetCore, Left

LEMMA RxDoneCore ==
  ASSUME TargetTypeOK, TargetTypeOK', TargetCore, Expected, UNCHANGED busUse, IsrRead("RX_DONE")
  PROVE  TargetCore'
<1>1. /\ isr.at = "RX_DONE" /\ "RX_DONE" \in isr.intr /\ isr' = [isr EXCEPT !.at = Branch("RX_DONE")]
      /\ int' = int \ {"RX_DONE"} /\ UNCHANGED <<fifo, bus, unread>>
  BY DEF IsrRead, Taken
<1>2. ToCome' = ToCome \ {"RX_DONE"} /\ isr'.at # "no" /\ "RX_DONE" \in ToCome BY <1>1, Advances
<1>3. "RX_DONE" \in int /\ tgt.init BY <1>1, <1>2 DEF TargetCore, Bits
<1>4. ReadLeft(TRUE)
  BY <1>3 DEF TargetCore, Left, NoneLeft, WriteLeft, ReadLeft, BothLeft, Unserved
<1>5. tgt.state = "read" /\ d = "read" BY <1>3, <1>4 DEF TargetCore, Bits, ReadLeft
<1>6. PICK m \in BOOLEAN, o \in BOOLEAN : untold = <<Told("read", m, o)>> /\ m BY <1>4 DEF ReadLeft
<1>7. untold # <<>> /\ untold[1].kind = "read" /\ untold[1].matched
  <2>1. untold = <<Told("read", m, o)>> BY <1>6
  <2>2. untold # <<>> /\ untold[1].kind = "read" /\ untold[1].matched = m BY ONLY <2>1, OneFirst
  <2> QED BY <1>6, <2>2
<1>8. RequestIsRight("read") BY <1>7 DEF RequestIsRight
<1>9. UNCHANGED <<untold, wrong, d>> /\ tgt' = [tgt EXCEPT !.state = "read"]
  BY <1>5, <1>8 DEF IsrRead, Request, TargetTypeOK
<1>10. UNCHANGED tgt BY <1>5, <1>9 DEF TargetTypeOK
<1>11. Bits' BY <1>1, <1>2, <1>3, <1>9, <1>10 DEF TargetCore, Bits
<1>12. ReadLeft(TRUE)' BY <1>1, <1>2, <1>4, <1>9, <1>10 DEF ReadLeft
<1> QED BY <1>11, <1>12 DEF TargetCore, Left

LEMMA RdReqCore ==
  ASSUME TargetTypeOK, TargetTypeOK', TargetCore, Expected, UNCHANGED busUse, IsrRead("RD_REQ")
  PROVE  TargetCore'
<1>1. /\ isr.at = "RD_REQ" /\ "RD_REQ" \in isr.intr /\ isr' = [isr EXCEPT !.at = Branch("RD_REQ")]
      /\ int' = int \ {"RD_REQ"} /\ UNCHANGED <<fifo, bus, unread>>
  BY DEF IsrRead, Taken
<1>2. ToCome' = {} /\ isr'.at # "no" /\ "RD_REQ" \in ToCome /\ "STOP_DET" \notin ToCome
  BY <1>1, Advances DEF ToCome, Branch, TargetTypeOK
<1>3. "RD_REQ" \in int /\ tgt.init /\ bus.asked /\ bus.own /\ bus.left > 0
  BY <1>1, <1>2 DEF TargetCore, Bits
<1>4. PICK m \in BOOLEAN : ReadLeft(m)
  BY <1>1, <1>2, <1>3 DEF TargetCore, Left, NoneLeft, WriteLeft, BothLeft
<1>5. untold = <<Told("read", m, FALSE)>> BY <1>3, <1>4 DEF ReadLeft
<1>6. /\ untold # <<>> /\ untold[1].kind = "read" /\ untold[1].matched = m
      /\ [untold EXCEPT ![1].matched = TRUE] = <<Told("read", TRUE, FALSE)>>
  <2>1. PICK o : o = FALSE OBVIOUS
  <2>2. untold = <<Told("read", m, o)>> BY <1>5, <2>1
  <2>3. untold # <<>> /\ untold[1].kind = "read" /\ untold[1].matched = m BY ONLY <2>2, OneFirst
  <2>4. [untold EXCEPT ![1].matched = TRUE] = <<Told("read", TRUE, o)>> BY ONLY <2>2, OneMatched
  <2> QED BY <2>1, <2>3, <2>4
<1>7. tgt.state = d /\ d = (IF m THEN "read" ELSE "idle") BY <1>3, <1>4 DEF TargetCore, Bits, ReadLeft
<1>8. untold' = <<Told("read", TRUE, FALSE)>> /\ ~wrong'
  <2>1. CASE m
    <3>1. untold' = untold /\ wrong' = (wrong \/ ~RequestIsRight("read"))
      BY <1>7, <2>1 DEF IsrRead, Request
    <3> QED BY <1>5, <1>6, <2>1, <3>1 DEF RequestIsRight, TargetCore, Bits
  <2>2. CASE ~m
    <3>1. Matched("read") /\ wrong' = (wrong \/ ~MatchIsRight("read"))
      BY <1>7, <2>2 DEF IsrRead, Request
    <3>2. MatchIsRight("read") BY <1>6, <2>2 DEF MatchIsRight
    <3> QED BY <1>6, <3>1, <3>2 DEF Matched, TargetCore, Bits
  <2> QED BY <2>1, <2>2
<1>9. d' = "read" /\ tgt'.state = "read" /\ tgt'.init /\ tgt'.stopPending = tgt.stopPending
  BY <1>3 DEF IsrRead, Request, TargetTypeOK
<1>10. Bits' BY <1>1, <1>2, <1>3, <1>8, <1>9 DEF TargetCore, Bits
<1>11. ReadLeft(TRUE)' BY <1>1, <1>2, <1>3, <1>4, <1>8, <1>9 DEF ReadLeft
<1> QED BY <1>10, <1>11 DEF TargetCore, Left

LEMMA StopPendingCore ==
  ASSUME TargetTypeOK, TargetTypeOK', TargetCore, Expected, UNCHANGED busUse, StopPending
  PROVE  TargetCore'
<1>1. /\ isr.at = "STOP_DET" /\ "STOP_DET" \in isr.intr /\ isr' = [isr EXCEPT !.at = Branch("STOP_DET")]
      /\ int' = int \ {"STOP_DET"} /\ fifo > 0 /\ unread'
      /\ UNCHANGED <<d, fifo, bus, untold, wrong>>
      /\ tgt'.init = tgt.init /\ tgt'.state = tgt.state /\ tgt'.stopPending
  BY DEF StopPending, Taken, TargetTypeOK
<1>2. ToCome' \subseteq ToCome \ {"STOP_DET"} /\ "STOP_DET" \in ToCome BY <1>1, Advances
<1>3. "STOP_DET" \in int /\ tgt.init BY <1>1, <1>2 DEF TargetCore, Bits
<1>4. Bits' BY <1>1, <1>2, <1>3 DEF TargetCore, Bits
<1>5. fifo # 0 BY <1>1 DEF TargetTypeOK
<1>6. PICK m \in BOOLEAN : WriteLeft(m)
  BY <1>3, <1>5 DEF TargetCore, Left, NoneLeft, ReadLeft, BothLeft
<1>7. WriteLeft(m)' BY <1>1, <1>3, <1>6 DEF WriteLeft
<1> QED BY <1>4, <1>7 DEF TargetCore, Left

(* The STOP of the transfer at the front: nothing is left, or the read     *)
(* that has overtaken it.                                                  *)
LEMMA FrontEnds ==
  ASSUME TargetTypeOK, TargetTypeOK', TargetCore, tgt.init,
         "STOP_DET" \in ToCome, isr.at = "STOP_DET", isr' = [isr EXCEPT !.at = Branch("STOP_DET")],
         int' = int \ {"STOP_DET", "LP_WAKE"}, fifo = 0, UNCHANGED <<fifo, bus, unread>>,
         d' = "idle", tgt' = [tgt EXCEPT !.state = "idle"], ~wrong',
         untold' = IF untold = <<>> THEN untold ELSE Tail(untold)
  PROVE  TargetCore'
<1>1. ToCome' \subseteq ToCome \ {"STOP_DET"} /\ isr'.at # "no" /\ "RX_DONE" \notin ToCome
  BY Advances DEF ToCome
<1>2. "STOP_DET" \in int BY DEF TargetCore, Bits
<1>3. tgt'.state = "idle" /\ tgt'.init /\ tgt'.stopPending = tgt.stopPending BY DEF TargetTypeOK
<1>4. "LP_WAKE" \notin ToCome BY DEF ToCome, TargetTypeOK
<1>5. Bits' BY <1>1, <1>2, <1>3, <1>4 DEF TargetCore, Bits
<1>6. CASE NoneLeft
  <2>1. NoneLeft' BY <1>3, <1>6 DEF NoneLeft
  <2> QED BY <1>5, <2>1 DEF TargetCore, Left
<1>7. ASSUME NEW m \in BOOLEAN, WriteLeft(m) PROVE TargetCore'
  <2>1. untold = <<Told("write", m, TRUE)>> /\ ~bus.own /\ ~tgt.stopPending BY <1>2, <1>7 DEF WriteLeft
  <2>2. untold # <<>> /\ Tail(untold) = <<>> BY <2>1, OneFirst
  <2>3. untold' = <<>> BY <2>2
  <2>4. NoneLeft' BY <1>3, <1>7, <2>1, <2>3 DEF NoneLeft, WriteLeft
  <2> QED BY <1>5, <2>4 DEF TargetCore, Left
<1>8. ASSUME NEW m \in BOOLEAN, ReadLeft(m) PROVE TargetCore'
  <2>1. /\ untold = <<Told("read", TRUE, TRUE)>> /\ ~bus.own /\ ~tgt.stopPending
        /\ "RX_DONE" \notin int /\ bus.kind = "none" BY <1>1, <1>2, <1>8 DEF ReadLeft
  <2>2. untold # <<>> /\ Tail(untold) = <<>> BY <2>1, OneFirst
  <2>3. untold' = <<>> BY <2>2
  <2>4. "RD_REQ" \notin int BY <2>1 DEF TargetCore, Bits
  <2>5. int' = {} BY <2>1, <2>4 DEF TargetTypeOK
  <2>6. NoneLeft' BY <1>3, <2>1, <2>3, <2>5 DEF NoneLeft
  <2> QED BY <1>5, <2>6 DEF TargetCore, Left
<1>9. ASSUME NEW m \in BOOLEAN, BothLeft(m) PROVE TargetCore'
  <2>1. untold = <<Told("write", m, TRUE), Told("read", FALSE, FALSE)>> BY <1>9 DEF BothLeft
  <2>2. untold # <<>> /\ Tail(untold) = <<Told("read", FALSE, FALSE)>> BY ONLY <2>1, TwoTail
  <2>3. untold' = <<Told("read", FALSE, FALSE)>> BY <2>2
  <2>4. Unserved' BY <1>9 DEF BothLeft, Unserved
  <2>5. bus'.own /\ bus'.kind = "read" /\ ~tgt'.stopPending /\ "STOP_DET" \notin int'
    BY <1>3, <1>9, <2>4 DEF BothLeft, Unserved
  <2>6. ReadLeft(FALSE)' BY <2>3, <2>4, <2>5 DEF ReadLeft
  <2> QED BY <1>5, <2>6 DEF TargetCore, Left
<1> QED BY <1>6, <1>7, <1>8, <1>9 DEF TargetCore, Left

LEMMA StopProbeCore ==
  ASSUME TargetTypeOK, TargetTypeOK', TargetCore, Expected, UNCHANGED busUse, StopProbe
  PROVE  TargetCore'
<1>1. /\ isr.at = "STOP_DET" /\ "STOP_DET" \in isr.intr /\ isr' = [isr EXCEPT !.at = Branch("STOP_DET")]
      /\ int' = int \ {"STOP_DET", "LP_WAKE"} /\ fifo = 0 /\ d = "idle" /\ "LP_WAKE" \in int
      /\ UNCHANGED <<fifo, bus, unread>> /\ d' = "idle" /\ tgt' = [tgt EXCEPT !.state = "idle"]
  BY DEF StopProbe, Taken
<1>2. "STOP_DET" \in ToCome BY <1>1, Advances
<1>3. "STOP_DET" \in int /\ tgt.init BY <1>1, <1>2 DEF TargetCore, Bits
<1>4. MatchIsRight("write") /\ untold[1].over
  <2>1. ~NoneLeft BY <1>1, <1>3 DEF NoneLeft
  <2>2. ASSUME NEW m \in BOOLEAN, WriteLeft(m) PROVE MatchIsRight("write") /\ untold[1].over
    <3>1. untold = <<Told("write", m, TRUE)>> /\ ~m BY <1>1, <1>3, <2>2 DEF WriteLeft
    <3>2. PICK o : o = TRUE OBVIOUS
    <3>3. untold = <<Told("write", m, o)>> BY <3>1, <3>2
    <3>4. untold # <<>> /\ untold[1].kind = "write" /\ untold[1].matched = m /\ untold[1].over = o
      BY ONLY <3>3, OneFirst
    <3> QED BY <3>1, <3>2, <3>4 DEF MatchIsRight
  <2>3. ASSUME NEW m \in BOOLEAN, ReadLeft(m) PROVE FALSE BY <1>1, <1>3, <2>3 DEF ReadLeft
  <2>4. ASSUME NEW m \in BOOLEAN, BothLeft(m) PROVE MatchIsRight("write") /\ untold[1].over
    <3>1. untold = <<Told("write", m, TRUE), Told("read", FALSE, FALSE)>> /\ ~m
      BY <1>1, <2>4 DEF BothLeft
    <3>2. PICK o : o = TRUE OBVIOUS
    <3>3. PICK e : e = Told("read", FALSE, FALSE) OBVIOUS
    <3>4. untold = <<Told("write", m, o), e>> BY <3>1, <3>2, <3>3
    <3>f. PICK f : f = Told("write", m, o) OBVIOUS
    <3>t. untold # <<>> /\ untold[1] = f
      <4>1. untold = <<f, e>> BY ONLY <3>4, <3>f
      <4> QED BY ONLY <4>1, TwoTail
    <3>s. f.kind = "write" /\ f.matched = m /\ f.over = o BY ONLY <3>f, Fields
    <3>5. untold # <<>> /\ untold[1].kind = "write" /\ untold[1].matched = m /\ untold[1].over = o
      BY ONLY <3>t, <3>s
    <3> QED BY <3>1, <3>2, <3>5 DEF MatchIsRight
  <2> QED BY <1>3, <2>1, <2>2, <2>3, <2>4 DEF TargetCore, Left
<1>5. untold # <<>> BY <1>4 DEF MatchIsRight
<1>6. untold' = Tail(untold) /\ ~wrong' BY <1>4 DEF StopProbe, TargetCore, Bits
<1> QED BY <1>1, <1>2, <1>3, <1>5, <1>6, FrontEnds

LEMMA StopEndCore ==
  ASSUME TargetTypeOK, TargetTypeOK', TargetCore, Expected, UNCHANGED busUse, StopEnd
  PROVE  TargetCore'
<1>1. /\ isr.at = "STOP_DET" /\ "STOP_DET" \in isr.intr /\ isr' = [isr EXCEPT !.at = Branch("STOP_DET")]
      /\ int' = int \ {"STOP_DET", "LP_WAKE"} /\ fifo = 0 /\ ~(d = "idle" /\ "LP_WAKE" \in int)
      /\ UNCHANGED <<fifo, bus, unread>> /\ d' = "idle" /\ tgt' = [tgt EXCEPT !.state = "idle"]
  BY DEF StopEnd, Taken, RestartOrStop
<1>2. "STOP_DET" \in ToCome BY <1>1, Advances
<1>3. "STOP_DET" \in int /\ tgt.init BY <1>1, <1>2 DEF TargetCore, Bits
<1>4. CASE d = "idle"
  <2>1. UNCHANGED <<untold, wrong>> BY <1>4 DEF StopEnd, RestartOrStop
  <2>2. ASSUME NEW m \in BOOLEAN, WriteLeft(m) \/ BothLeft(m) PROVE FALSE
    BY <1>1, <1>3, <1>4, <2>2 DEF WriteLeft, BothLeft
  <2>3. ASSUME NEW m \in BOOLEAN, ReadLeft(m) PROVE FALSE BY <1>3, <1>4, <2>3 DEF ReadLeft
  <2>4. untold = <<>> BY <1>3, <2>2, <2>3 DEF TargetCore, Left, NoneLeft
  <2>5. ~wrong' BY <2>1 DEF TargetCore, Bits
  <2> QED BY <1>1, <1>2, <1>3, <2>1, <2>4, <2>5, FrontEnds
<1>5. CASE d # "idle"
  <2>1. EndIsRight
    <3>1. ~NoneLeft BY <1>5 DEF NoneLeft
    <3>2. ASSUME NEW m \in BOOLEAN, WriteLeft(m) \/ ReadLeft(m) PROVE EndIsRight
      <4>1. PICK k \in Kinds, o \in BOOLEAN : d = k /\ m /\ o /\ untold = <<Told(k, m, o)>>
        BY <1>3, <1>5, <3>2 DEF WriteLeft, ReadLeft, Kinds
      <4>2. untold = <<Told(k, m, o)>> BY <4>1
      <4>3. untold # <<>> /\ untold[1].kind = k /\ untold[1].matched = m /\ untold[1].over = o
        BY ONLY <4>2, OneFirst
      <4> QED BY <4>1, <4>3 DEF EndIsRight
    <3>3. ASSUME NEW m \in BOOLEAN, BothLeft(m) PROVE EndIsRight
      <4>1. untold = <<Told("write", m, TRUE), Told("read", FALSE, FALSE)>> /\ m /\ d = "write"
        BY <1>5, <3>3 DEF BothLeft
      <4>2. PICK o : o = TRUE OBVIOUS
      <4>3. PICK e : e = Told("read", FALSE, FALSE) OBVIOUS
      <4>4. untold = <<Told("write", m, o), e>> BY <4>1, <4>2, <4>3
      <4>f. PICK f : f = Told("write", m, o) OBVIOUS
      <4>t. untold # <<>> /\ untold[1] = f
        <5>1. untold = <<f, e>> BY ONLY <4>4, <4>f
        <5> QED BY ONLY <5>1, TwoTail
      <4>s. f.kind = "write" /\ f.matched = m /\ f.over = o BY ONLY <4>f, Fields
      <4>5. untold # <<>> /\ untold[1].kind = "write" /\ untold[1].matched = m /\ untold[1].over = o
        BY ONLY <4>t, <4>s
      <4> QED BY <4>1, <4>2, <4>5 DEF EndIsRight
    <3> QED BY <1>3, <3>1, <3>2, <3>3 DEF TargetCore, Left
  <2>2. untold # <<>> BY <2>1 DEF EndIsRight
  <2>3. untold' = Tail(untold) /\ ~wrong' BY <1>5, <2>1 DEF StopEnd, RestartOrStop, TargetCore, Bits
  <2> QED BY <1>1, <1>2, <1>3, <2>2, <2>3, FrontEnds
<1> QED BY <1>4, <1>5

LEMMA IsrWriteCore ==
  ASSUME TargetTypeOK, TargetTypeOK', TargetCore, Expected, UNCHANGED busUse, IsrWrite
  PROVE  TargetCore'
<1>1. /\ isr.at = "RX_FULL" /\ isr' = [isr EXCEPT !.at = Branch("RX_FULL")]
      /\ UNCHANGED <<int, bus, unread>>
  BY DEF IsrWrite, Taken
<1>2. ToCome' \subseteq ToCome /\ isr'.at # "no" BY <1>1, Advances
<1>3. fifo # 0 /\ tgt.init BY <1>1 DEF IsrWrite, Expected, TargetCore, Bits
<1>4. PICK m \in BOOLEAN : WriteLeft(m)
  BY <1>3 DEF TargetCore, Left, NoneLeft, ReadLeft, BothLeft
<1>5. PICK o \in BOOLEAN : untold = <<Told("write", m, o)>> /\ (o <=> ~bus.own) BY <1>4 DEF WriteLeft
<1>6. /\ untold # <<>> /\ untold[1].kind = "write" /\ untold[1].matched = m
      /\ [untold EXCEPT ![1].matched = TRUE] = <<Told("write", TRUE, o)>>
  <2>1. untold = <<Told("write", m, o)>> BY <1>5
  <2>2. untold # <<>> /\ untold[1].kind = "write" /\ untold[1].matched = m BY ONLY <2>1, OneFirst
  <2>3. [untold EXCEPT ![1].matched = TRUE] = <<Told("write", TRUE, o)>> BY ONLY <2>1, OneMatched
  <2> QED BY <2>2, <2>3
<1>7. tgt.state = d /\ d = (IF m THEN "write" ELSE "idle") BY <1>3, <1>4 DEF TargetCore, Bits, WriteLeft
<1>8. untold' = <<Told("write", TRUE, o)>> /\ ~wrong'
  <2>1. CASE m
    <3>1. untold' = untold /\ wrong' = (wrong \/ ~RequestIsRight("write"))
      BY <1>7, <2>1 DEF IsrWrite, Request
    <3> QED BY <1>5, <1>6, <2>1, <3>1 DEF RequestIsRight, TargetCore, Bits
  <2>2. CASE ~m
    <3>1. Matched("write") /\ wrong' = (wrong \/ ~MatchIsRight("write"))
      BY <1>7, <2>2 DEF IsrWrite, Request
    <3>2. MatchIsRight("write") BY <1>6, <2>2 DEF MatchIsRight
    <3> QED BY <1>6, <3>1, <3>2 DEF Matched, TargetCore, Bits
  <2> QED BY <2>1, <2>2
<1>9. d' = "write" /\ tgt'.state = "write" /\ tgt'.init /\ tgt'.stopPending = tgt.stopPending
  BY <1>3 DEF IsrWrite, Request, TargetTypeOK
<1>10. Bits' BY <1>1, <1>2, <1>3, <1>8, <1>9 DEF TargetCore, Bits
<1>11. CASE o
  <2>1. ~bus.own /\ untold' = <<Told("write", TRUE, TRUE)>> BY <1>5, <1>8, <1>11
  <2>2. WriteLeft(TRUE)' BY <1>1, <1>2, <1>4, <1>9, <2>1 DEF WriteLeft
  <2> QED BY <1>10, <2>2 DEF TargetCore, Left
<1>12. CASE ~o
  <2>1. bus.own /\ untold' = <<Told("write", TRUE, FALSE)>> BY <1>5, <1>8, <1>12
  <2>2. WriteLeft(TRUE)' BY <1>1, <1>2, <1>4, <1>9, <2>1 DEF WriteLeft
  <2> QED BY <1>10, <2>2 DEF TargetCore, Left
<1> QED BY <1>11, <1>12

LEMMA IsrEndCore ==
  ASSUME TargetTypeOK, TargetTypeOK', TargetCore, Expected, UNCHANGED busUse, IsrEnd
  PROVE  TargetCore'
<1>1. isr.at = "end" /\ isr'.at = "no" /\ UNCHANGED <<int, fifo, bus, unread>> BY DEF IsrEnd
<1>2. ToCome' = {} /\ ToCome = {} BY <1>1 DEF ToCome
<1>3. tgt.init BY <1>1 DEF TargetCore, Bits
<1>4. CASE ~(tgt.stopPending /\ fifo = 0)
  <2>1. UNCHANGED <<tgt, d, untold, wrong>> BY <1>4 DEF IsrEnd
  <2>2. Bits' BY <1>1, <1>2, <1>3, <2>1 DEF TargetCore, Bits
  <2>3. NoneLeft => NoneLeft' BY <1>1, <2>1 DEF NoneLeft
  <2>4. ASSUME NEW m \in BOOLEAN, WriteLeft(m) PROVE WriteLeft(m)'
    <3>1. tgt.stopPending => fifo > 0 BY <1>4 DEF TargetTypeOK
    <3>2. UNCHANGED <<tgt, d, untold, int, fifo, bus, unread>> BY <1>1, <2>1
    <3> QED BY ONLY <2>4, <3>1, <3>2 DEF WriteLeft
  <2>5. ASSUME NEW m \in BOOLEAN, ReadLeft(m) PROVE ReadLeft(m)'
    BY <1>1, <1>2, <2>1, <2>5 DEF ReadLeft, Unserved
  <2>6. ASSUME NEW m \in BOOLEAN, BothLeft(m) PROVE FALSE BY <1>1, <1>2, <2>6 DEF BothLeft
  <2> QED BY <1>3, <2>2, <2>3, <2>4, <2>5, <2>6 DEF TargetCore, Left
<1>5. CASE tgt.stopPending /\ fifo = 0
  <2>1. PICK m \in BOOLEAN : WriteLeft(m)
    BY <1>3, <1>5 DEF TargetCore, Left, NoneLeft, ReadLeft, BothLeft
  <2>2. /\ untold = <<Told("write", m, TRUE)>> /\ ~bus.own /\ bus.kind = "none" /\ d = "write"
        /\ "STOP_DET" \notin int /\ m /\ unread /\ int \subseteq {"STOP_DET", "LP_WAKE"}
    <3>1. tgt.stopPending /\ ~(fifo > 0) BY <1>5
    <3> QED BY ONLY <2>1, <3>1 DEF WriteLeft
  <2>3. untold # <<>> /\ untold[1].kind = "write" /\ untold[1].matched /\ untold[1].over /\ Tail(untold) = <<>>
    <3>1. PICK o : o = TRUE OBVIOUS
    <3>2. untold = <<Told("write", m, o)>> BY <2>2, <3>1
    <3>3. /\ untold # <<>> /\ Tail(untold) = <<>> /\ untold[1].kind = "write" /\ untold[1].matched = m
          /\ untold[1].over = o
      BY ONLY <3>2, OneFirst
    <3> QED BY <2>2, <3>1, <3>3
  <2>4. EndIsRight BY <2>2, <2>3 DEF EndIsRight
  <2>5. /\ untold' = <<>> /\ ~wrong' /\ d' = "idle"
        /\ tgt' = [tgt EXCEPT !.stopPending = FALSE, !.state = "idle"]
    BY <1>5, <2>2, <2>3, <2>4 DEF IsrEnd, RestartOrStop, TargetCore, Bits
  <2>6. tgt'.state = "idle" /\ tgt'.init /\ ~tgt'.stopPending BY <1>3, <2>5 DEF TargetTypeOK
  <2>7. Bits' BY <1>1, <1>2, <1>3, <2>5, <2>6 DEF TargetCore, Bits
  <2>8. NoneLeft' BY <1>1, <1>5, <2>2, <2>5, <2>6 DEF NoneLeft
  <2> QED BY <2>7, <2>8 DEF TargetCore, Left
<1> QED BY <1>4, <1>5

LEMMA TargetNewCore ==
  ASSUME TargetTypeOK, TargetTypeOK', TargetCore, Expected, UNCHANGED busUse, TargetNew \/ TargetDeinit
  PROVE  TargetCore'
<1>1. /\ isr.at = "no" /\ int' = {} /\ fifo' = 0 /\ untold' = <<>> /\ UNCHANGED <<isr, wrong, unread>>
      /\ bus' = [bus EXCEPT !.own = FALSE, !.left = 0, !.asked = FALSE, !.last = "none"]
  BY DEF TargetNew, TargetDeinit, TargetOff
<1>2. ~bus'.own /\ bus'.left = 0 /\ ~bus'.asked /\ bus'.last = "none" BY <1>1 DEF TargetTypeOK
<1>3. ToCome' = {} BY <1>1 DEF ToCome
<1>4. CASE TargetNew
  <2>1. tgt'.init /\ tgt'.state = "idle" /\ ~tgt'.stopPending /\ d' = "idle"
    BY <1>4 DEF TargetNew, Fresh, TargetTypeOK
  <2>2. Bits' BY <1>1, <1>2, <1>3, <2>1 DEF TargetCore, Bits
  <2>3. NoneLeft' BY <1>1, <1>2, <2>1 DEF NoneLeft
  <2> QED BY <2>2, <2>3 DEF TargetCore, Left
<1>5. CASE TargetDeinit
  <2>1. ~tgt'.init BY <1>5 DEF TargetDeinit, TargetTypeOK
  <2>2. Bits' BY <1>1, <1>2, <1>3, <2>1 DEF TargetCore, Bits
  <2> QED BY <2>1, <2>2 DEF TargetCore
<1> QED BY <1>4, <1>5

LEMMA TargetInitInv == TargetInit => TgtInv
<1> SUFFICES ASSUME TargetInit PROVE TgtInv
  OBVIOUS
<1>1. 0 \in 0 .. MaxLen /\ 0 \in 0 .. Depth BY TargetAssumption
<1>2. untold \in Seq(Transfers) BY DEF TargetInit
<1>3. TargetTypeOK BY <1>1, <1>2 DEF TargetInit, TargetTypeOK, Kinds, BusUses, Transfers
<1>4. ToCome = {} BY DEF TargetInit, ToCome
<1>5. TargetCore BY <1>4 DEF TargetInit, TargetCore, Bits
<1> QED BY <1>3, <1>5 DEF TgtInv

LEMMA TargetStepInv == TgtInv /\ [TargetNext]_<<targetVars, busUse>> => TgtInv'
<1> SUFFICES ASSUME TgtInv, [TargetNext]_<<targetVars, busUse>> PROVE TgtInv'
  OBVIOUS
<1>1. TargetTypeOK /\ TargetTypeOK' BY TargetStepType DEF TgtInv
<1>2. CASE UNCHANGED <<targetVars, busUse>>
  <2>1. UNCHANGED <<tgt, d, int, fifo, isr, bus, untold, wrong, unread, busUse>> BY <1>2 DEF targetVars
  <2>2. ToCome' = ToCome BY <2>1 DEF ToCome
  <2>3. Bits => Bits' BY <2>1, <2>2 DEF Bits
  <2>4. NoneLeft => NoneLeft' BY <2>1 DEF NoneLeft
  <2>5. ASSUME NEW m \in BOOLEAN, WriteLeft(m) PROVE WriteLeft(m)' BY ONLY <2>1, <2>5 DEF WriteLeft
  <2>6. ASSUME NEW m \in BOOLEAN, ReadLeft(m) PROVE ReadLeft(m)'
    BY ONLY <2>1, <2>2, <2>6 DEF ReadLeft, Unserved
  <2>7. ASSUME NEW m \in BOOLEAN, BothLeft(m) PROVE BothLeft(m)'
    BY ONLY <2>1, <2>2, <2>7 DEF BothLeft, Unserved
  <2>8. TargetCore => TargetCore' BY <2>1, <2>3, <2>4, <2>5, <2>6, <2>7 DEF TargetCore, Left
  <2> QED BY <1>1, <2>1, <2>8 DEF TgtInv, Expected
<1>3. CASE TargetNext
  <2> SUFFICES ASSUME Expected' PROVE TargetCore'
    BY <1>1 DEF TgtInv
  <2>1. UNCHANGED busUse BY <1>3 DEF TargetNext
  <2>2. unread' = unread \/ unread'
    BY <1>3 DEF TargetNext, TargetStep, targetVars, BusStart, BusWrite, BusRead, BusStop, IsrEnter, NotTaken,
                IsrRead, StopPending, StopProbe, StopEnd, IsrWrite, IsrEnd, ReadInto, TargetNew, TargetOff,
                TargetDeinit
  <2>3. Expected BY <1>1, <2>1, <2>2 DEF Expected, TargetTypeOK
  <2>4. TargetCore BY <2>3 DEF TgtInv
  <2>5. ~wrong /\ TargetStep BY <1>3, <2>4 DEF TargetNext, TargetCore, Bits
  <2>6. ~ReadInto BY <2>3 DEF ReadInto, Expected
  <2> QED BY <1>1, <2>1, <2>3, <2>4, <2>5, <2>6, BusStartCore, BusWriteCore, BusReadCore, BusStopCore,
             IsrEnterCore, NotTakenCore, RxDoneCore, RdReqCore, StopPendingCore, StopProbeCore, StopEndCore,
             IsrWriteCore, IsrEndCore, TargetNewCore DEF TargetStep
<1> QED BY <1>2, <1>3

(* The program sees each transfer with the target as one address match,    *)
(* its requests and one end, whatever the lengths of the transfers and the *)
(* depth of the FIFO (i2c_target_irq_handler).                             *)
THEOREM EveryTransferOnceAlways == TargetSpec => []EveryTransferOnce
<1>1. TgtInv => EveryTransferOnce
  <2> SUFFICES ASSUME TgtInv PROVE EveryTransferOnce
    OBVIOUS
  <2>1. ASSUME Expected PROVE EventsAsOnTheBus
    <3>1. TargetCore BY <2>1 DEF TgtInv
    <3>2. ASSUME TargetAtRest PROVE untold = <<>>
      <4>1. tgt.init /\ isr.at = "no" /\ bus.kind = "none" /\ "STOP_DET" \notin int /\ fifo = 0
        BY <3>2 DEF TargetAtRest
      <4>2. ASSUME NEW m \in BOOLEAN, WriteLeft(m) PROVE FALSE
        <5>1. ~(fifo > 0 \/ (m /\ isr.at # "no")) BY <4>1
        <5> QED BY <4>1, <4>2, <5>1 DEF WriteLeft
      <4>3. ASSUME NEW m \in BOOLEAN, ReadLeft(m) PROVE FALSE BY <4>1, <4>3 DEF ReadLeft
      <4>4. ASSUME NEW m \in BOOLEAN, BothLeft(m) PROVE FALSE BY <4>1, <4>4 DEF BothLeft
      <4> QED BY <3>1, <4>1, <4>2, <4>3, <4>4 DEF TargetCore, Left, NoneLeft
    <3> QED BY <3>1, <3>2 DEF EventsAsOnTheBus, TargetCore, Bits
  <2> QED BY <2>1 DEF EveryTransferOnce, TgtInv, Expected
<1> QED BY <1>1, TargetInitInv, TargetStepInv, PTL DEF TargetSpec
=============================================================================
