-------------------------------- MODULE Pwm --------------------------------
(***************************************************************************)
(* machine.PWM (machine_pwm.c) on AmebaDplus: channels that share one      *)
(* timer, its prescaler and its period, handed out to pins.                *)
(*                                                                         *)
(* A call runs under the GIL and is one step.  The functions pwmout_* are  *)
(* external and behave as the comments of machine_pwm.c say.  What these   *)
(* leave open is a choice of the model, sdk: "tidy", pwmout_init gives the *)
(* channel an empty period and pulse, and neither it nor pwmout_free       *)
(* touches the registers of the timer; "gates", a channel given out again  *)
(* may have its old period and pulse, and the gating of the timer (line    *)
(* 13) may clear its registers when the first channel comes or the last    *)
(* one goes.  A duty cycle is a number of halves; times are in             *)
(* microseconds, registers in ticks.                                       *)
(***************************************************************************)
EXTENDS Naturals, FiniteSets, FiniteSetsExt

CONSTANTS
  NChannels,  \* PWM_CHANNEL_MAX
  PwmPins,    \* pins
  Freqs,      \* frequencies asked for
  NoPin       \* no pin

ASSUME PwmAssumption ==
  NChannels \in Nat \ {0} /\ NoPin \notin PwmPins /\ Freqs \subseteq Nat \ {0}

VARIABLES
  chan,     \* machine_pwm_obj: pin (NoPin: not active), period, duty; and the compare register
  made,     \* channels ever given out: the program may have their objects
  mux,      \* pins whose function is PWM
  arr,      \* the period register of the timer
  psc,      \* the prescaler of the SDK and the one of the timer
  asked,    \* history: the period asked for last, the duty asked of each channel
            \* last, and early: the channels that had no period then
  fast,     \* fixed: programs ask for more than 1 MHz
  sdk       \* fixed: what pwmout_init and pwmout_free do

pwmVars  == <<chan, made, mux, arr, psc, asked>>
pwmFixed == <<fast, sdk>>

Channels == 0 .. NChannels - 1
Halves == 0 .. 2
Clock    == 40      \* PWM_TIMER_CLK_MHZ
ArrLimit == 65536   \* 0x10000
PscLimit == 255     \* 0xFF

NoChannel == [pin |-> NoPin, period |-> 0, duty |-> 0, compare |-> 0]

PwmTypeOK ==
  /\ chan \in [Channels -> [pin : PwmPins \cup {NoPin}, period : Nat, duty : Halves, compare : Nat]]
  /\ made \subseteq Channels /\ mux \subseteq PwmPins /\ arr \in 0 .. ArrLimit
  /\ psc \in [sdk : 0 .. PscLimit, timer : 0 .. PscLimit]
  /\ asked \in [period : Nat, duty : [Channels -> Halves], early : SUBSET Channels]
  /\ fast \in BOOLEAN /\ sdk \in {"tidy", "gates"}

PwmInit ==
  /\ chan = [c \in Channels |-> NoChannel] /\ made = {} /\ mux = {} /\ arr = 0
  /\ psc = [sdk |-> 0, timer |-> 0]
  /\ asked = [period |-> 0, duty |-> [c \in Channels |-> 0], early |-> {}]
  /\ fast \in BOOLEAN /\ sdk \in {"tidy", "gates"}

Active == {c \in Channels : chan[c].pin # NoPin}

-----------------------------------------------------------------------------
(* machine_pwm_alloc_channel: the first free one.                          *)
FreeChannels == Channels \ Active

(* machine_pwm_find_by_pin                                                 *)
ByPin(p) == {c \in Active : chan[c].pin = p}

(* What gating the timer does to its registers: external.                  *)
Gated ==
  \/ UNCHANGED <<arr, psc>>
  \/ sdk = "gates" /\ arr' = 0 /\ psc' \in {[psc EXCEPT !.timer = 0], [sdk |-> 0, timer |-> 0]}

(* pwmout_init: what it leaves in the channel of a pin.                    *)
Initialised(c, p) ==
  {[NoChannel EXCEPT !.pin = p]} \cup IF sdk = "tidy" THEN {} ELSE {[chan[c] EXCEPT !.pin = p]}

(* PWM(pin) without a frequency: the channel the pin has, or a new one.    *)
PwmNew(p) ==
  /\ ByPin(p) = {} /\ FreeChannels # {}
  /\ LET c == Min(FreeChannels) IN
       /\ \E o \in Initialised(c, p) : chan' = [chan EXCEPT ![c] = o]
       /\ made' = made \cup {c}
       /\ asked' = [asked EXCEPT !.duty[c] = 0, !.early = @ \ {c}]
  /\ mux' = mux \cup {p}
  /\ IF Active = {} THEN Gated ELSE UNCHANGED <<arr, psc>>

Freed(cs) ==
  /\ chan' = [c \in Channels |-> IF c \in cs THEN [chan[c] EXCEPT !.pin = NoPin] ELSE chan[c]]
  /\ mux' = mux \ {chan[c].pin : c \in cs}
  /\ IF cs = Active THEN Gated ELSE UNCHANGED <<arr, psc>>
  /\ UNCHANGED <<made, asked>>

PwmDeinit(c)  == c \in Active /\ Freed({c})
PwmDeinitAll  == Active # {} /\ Freed(Active)

-----------------------------------------------------------------------------
(* pwmout_write: the compare register for a duty cycle.                    *)
Compare(duty, period, p) == (duty * period * Clock) \div (2 * (p.sdk + 1))

(* mp_machine_pwm_duty_set_u16 and, for an empty or a full pulse,          *)
(* mp_machine_pwm_duty_set_ns.  Without a period the pulse is 0, and a     *)
(* later frequency does not bring back the duty cycle that was asked for.  *)
DutySet(c, d) ==
  /\ c \in made
  /\ LET empty == chan[c].period = 0
         duty  == IF empty THEN 0 ELSE d
     IN  /\ chan' = [chan EXCEPT ![c].duty = duty, ![c].compare = Compare(duty, chan[c].period, psc)]
         /\ asked' = [asked EXCEPT !.duty[c] = d,
                                   !.early = IF empty THEN @ \cup {c} ELSE @ \ {c}]
  /\ UNCHANGED <<made, mux, arr, psc>>

(* The prescaler and the period for a frequency, down to the floor.        *)
Ticks(f)     == (1000000 \div f) * Clock
Prescaler(f) == IF Ticks(f) > ArrLimit THEN Min({Ticks(f) \div ArrLimit, PscLimit}) ELSE 0
Period(f)    == IF Ticks(f) \div ArrLimit > PscLimit THEN (ArrLimit * (PscLimit + 1)) \div Clock
                                                     ELSE 1000000 \div f

(* The timer is written when the prescaler of the SDK changes.             *)
NewPrescaler(f) == IF Prescaler(f) = psc.sdk THEN psc
                   ELSE [sdk |-> Prescaler(f), timer |-> Prescaler(f)]

(* pwmout_period_us: a period that overflows the register changes the      *)
(* prescaler of the SDK and not that of the timer.                         *)
PeriodUs(period, p) ==
  LET over == period * Clock > ArrLimit * (p.sdk + 1)
      q    == IF over THEN [p EXCEPT !.sdk = (period * Clock) \div ArrLimit] ELSE p
  IN  psc' = q /\ arr' = (period * Clock) \div (q.sdk + 1)

(* pwmout_read, the duty that is saved: 0 of a channel without period.     *)
Saved(c) == IF chan[c].period = 0 THEN 0 ELSE chan[c].duty

(* Mutant: only the calling channel keeps its duty cycle.                  *)
RescaledOne(c, f, p) ==
  [chan EXCEPT ![c].period = Period(f), ![c].duty = Saved(c),
               ![c].compare = Compare(Saved(c), Period(f), p)]

(* The calling channel and every other active one at the new period.       *)
Rescaled(c, f, p) ==
  [d \in Channels |->
     IF d \in Active \cup {c}
     THEN [chan[d] EXCEPT !.period = Period(f), !.duty = Saved(d),
                          !.compare = Compare(Saved(d), Period(f), p)]
     ELSE chan[d]]

(* mp_machine_pwm_freq_set                                                 *)
FreqSet(c, f) ==
  /\ c \in made /\ (f > 1000000 => fast)
  /\ PeriodUs(Period(f), NewPrescaler(f)) /\ chan' = Rescaled(c, f, psc')
  /\ asked' = [asked EXCEPT !.period = Period(f)]
  /\ UNCHANGED <<made, mux>>

(* PWM(pin, freq, duty) and init(freq, duty) are these in sequence.        *)
PwmNext ==
  /\ \/ \E p \in PwmPins : PwmNew(p)
     \/ PwmDeinitAll
     \/ \E c \in Channels :
          \/ PwmDeinit(c) \/ (\E d \in Halves : DutySet(c, d)) \/ (\E f \in Freqs : FreqSet(c, f))
  /\ UNCHANGED pwmFixed

PwmSpec == PwmInit /\ [][PwmNext]_<<pwmVars, pwmFixed>>

-----------------------------------------------------------------------------
(* The state is well typed; the pins with the function PWM are those of    *)
(* the active channels.  With a tidy SDK the timer runs at the period      *)
(* asked for last, up to one of its ticks, whatever the sequence of        *)
(* frequencies, channels and pins; every active channel that has a period  *)
(* has that one; and it drives the duty cycle it was asked for last,       *)
(* whichever channel changed the frequency, as long as no more than 1 MHz  *)
(* is asked for, and that duty cycle was not asked of a channel without a  *)
(* period (lines 305 and 320: it is lost).                                 *)
DutyKept ==
  /\ PwmTypeOK /\ mux = {chan[c].pin : c \in Active}
  /\ sdk = "tidy" =>
       /\ asked.period > 0 => asked.period * Clock - arr * (psc.timer + 1) \in 0 .. psc.timer
       /\ \A c \in Active : chan[c].period > 0 =>
            /\ chan[c].period = asked.period
            /\ ~fast /\ c \notin asked.early =>
                 chan[c].compare = (asked.duty[c] * asked.period * Clock) \div (2 * (psc.timer + 1))
=============================================================================
