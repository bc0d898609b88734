----------------------------- MODULE MCDevices -----------------------------
(* The instance for TLC of seven components that share no state: USBSerial *)
(* with three callers, the alarm of the RTC, LAN, WLAN, I2S with a DMA     *)
(* buffer of one or two bytes a half, I2CTarget with a FIFO of two bytes,  *)
(* and Python threads, the main one and two more.  part says which of them *)
(* a behaviour is about; the others rest in an initial state.              *)
EXTENDS UsbSerial, RtcAlarm, Lan, Wlan, I2s, I2cTarget, MpThread
CONSTANTS u1, u2, u3, th1, th2, o1, o2
VARIABLE part
Callers3     == {u1, u2, u3}
FewOffsets   == {-1, 0, 1, 2}
ThreeThreads == {Main, th1, th2}
TwoObjs      == {o1, o2}

(* What is chosen once in each of them.                                    *)
fixed == <<stalls, inside, overlap, alone, env, busUse>>

MCInit ==
  /\ UsbInit /\ RtcInit /\ LanInit /\ WlanInit /\ I2sInit /\ TargetInit /\ Init
  /\ part \in {"USBSerial", "RTC", "LAN", "WLAN", "I2S", "I2CTarget", "threads"}
  /\ part # "USBSerial" => ~stalls
  /\ part # "RTC" => ~inside
  /\ part # "LAN" => ~overlap
  /\ part # "WLAN" => alone
  /\ part # "I2S" => env = "nothing"
  /\ part # "I2CTarget" => busUse = "plain"
MCNext ==
  /\ UNCHANGED <<part, fixed>>
  /\ \/ /\ part = "USBSerial" /\ UsbNext
        /\ UNCHANGED <<vars, alarmVars, lanVars, wlanVars, i2sVars, targetVars>>
     \/ /\ part = "RTC" /\ RtcNext
        /\ UNCHANGED <<vars, usbVars, lanVars, wlanVars, i2sVars, targetVars>>
     \/ /\ part = "LAN" /\ LanNext
        /\ UNCHANGED <<vars, usbVars, alarmVars, wlanVars, i2sVars, targetVars>>
     \/ /\ part = "WLAN" /\ WlanNext
        /\ UNCHANGED <<vars, usbVars, alarmVars, lanVars, i2sVars, targetVars>>
     \/ /\ part = "I2S" /\ I2sNext
        /\ UNCHANGED <<vars, usbVars, alarmVars, lanVars, wlanVars, targetVars>>
     \/ /\ part = "I2CTarget" /\ TargetNext
        /\ UNCHANGED <<vars, usbVars, alarmVars, lanVars, wlanVars, i2sVars>>
     \/ /\ part = "threads" /\ Next
        /\ UNCHANGED <<usbVars, alarmVars, lanVars, wlanVars, i2sVars, targetVars>>

devVars == <<vars, usbVars, alarmVars, lanVars, wlanVars, i2sVars, targetVars, fixed, part>>
MCSpec == MCInit /\ [][MCNext]_devVars /\ UsbFairness /\ RtcFairness /\ I2sFairness /\ Fairness
=============================================================================
