------------------------------ MODULE MCTimer ------------------------------
(* The instance of Timer, Pwm and Pin for TLC: three Timer objects and two *)
(* hardware timers; three pins and two channels of PWM; a pin with two     *)
(* handlers.  The models share no state: part says which of them a         *)
(* behaviour is about, and the others rest in an initial state.            *)
EXTENDS Timer, Pwm, Pin, TLC
CONSTANTS t1, t2, t3, h1, h2, a1, a2, a3, f1, f2
VARIABLE part
ThreeTimers == {t1, t2, t3}
TwoIds      == {h1, h2}
ThreePins   == {a1, a2, a3}
TwoHandlers == {f1, f2}
Symmetry    == Permutations(ThreeTimers) \cup Permutations(TwoIds)

NoUser == [driver |-> "none", tidy |-> TRUE]

MCInit ==
  /\ Init /\ PwmInit /\ PinInit
  /\ \/ part = "Timer" /\ ~fast /\ sdk = "tidy" /\ users = NoUser
     \/ part = "PWM" /\ users = NoUser
     \/ part = "Pin" /\ ~fast /\ sdk = "tidy"
MCNext ==
  /\ UNCHANGED part
  /\ \/ part = "Timer" /\ Next /\ UNCHANGED <<pwmVars, pwmFixed, pinVars, users>>
     \/ part = "PWM" /\ PwmNext /\ UNCHANGED <<vars, pinVars, users>>
     \/ part = "Pin" /\ PinNext /\ UNCHANGED <<vars, pwmVars, pwmFixed>>
MCSpec == MCInit /\ [][MCNext]_<<vars, pwmVars, pwmFixed, pinVars, users, part>>
=============================================================================
