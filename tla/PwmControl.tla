----------------------------- MODULE PwmControl -----------------------------
(***************************************************************************)
(* The duty cycle of the motor: the variable pwm of ion_firmware/bldcdisp/ *)
(* bldcdisp.c, which the control loop moves up and down, and the pedal     *)
(* signal the loop keeps.  pwm has two bytes and the interrupt of TCD0     *)
(* looks at both: when it comes between the writes of the two, it can take *)
(* what it sees for a value that is too low and put its own in place.      *)
(***************************************************************************)
EXTENDS Integers, Sequences

CONSTANTS
    Base,                       \* values of a byte (256)
    PwmSetMin, PwmSetMax,       \* PWM_SET_MIN, PWM_SET_MAX (35 and 405)
    Levels, LevelStep,          \* function_val2 is below Levels (10), and each is worth 50
    SlopeThrottle,              \* 1
    SpeedSteps,                 \* (speed / 10) + 1, as a byte
    Drop, Nudge,                \* 200 and 250
    PedalMax, PedalUse, PedalKeep,  \* 100, 15, 20
    StrainLong, StrainShort     \* 120, 60

ASSUME PwmAssumption ==
    /\ Base \in Nat /\ PwmSetMin \in Nat /\ PwmSetMax \in Nat
    /\ PwmSetMin < Base /\ PwmSetMin < PwmSetMax
    /\ Levels \in Nat \ {0} /\ LevelStep \in Nat /\ PwmSetMin <= LevelStep
    /\ SlopeThrottle \in Nat /\ SpeedSteps \subseteq Nat /\ Drop \in Nat /\ Nudge \in Nat
    /\ PedalMax \in Nat /\ PedalUse \in Nat /\ PedalKeep \in Nat
    /\ StrainLong \in Nat /\ StrainShort \in 0 .. StrainLong

VARIABLES
    pwm, pwmSetMax, functionVal2,
    calls,                      \* calls of pwm_more and pwm_less still to be made
    pedalSignal, strainCnt,
    pedalNew,                   \* what the strain sensor says, 0 to PedalMax
    pc

pedal == <<pedalSignal, strainCnt, pedalNew>>
vars  == <<pwm, pwmSetMax, functionVal2, calls, pedal, pc>>

Limit(v) == IF (v + 1) * LevelStep > PwmSetMax THEN PwmSetMax ELSE (v + 1) * LevelStep

Init == /\ pwm = PwmSetMin /\ pwmSetMax = PwmSetMax /\ functionVal2 = Levels - 1
        /\ calls = <<>>
        /\ pedalSignal = 0 /\ strainCnt = 0 /\ pedalNew = 0
        /\ pc = "first"

-----------------------------------------------------------------------------
Low(n)  == n % Base
High(n) == n - Low(n)

\* TCD0_OVF_vect, between the writes of the low and of the high byte.
Interrupted(new) ==
    IF High(pwm) + Low(new) < PwmSetMin THEN High(new) + PwmSetMin ELSE new

\* The interrupt comes then, or it comes at another time and changes nothing.
Write(new) == pwm' \in {new, Interrupted(new)}

\* Slip: what is left is not compared.
LessUnchecked(by) == IF pwm > PwmSetMin THEN (pwm - by) % (Base * Base) ELSE PwmSetMin

\* pwm_more, pwm_less
More(by) == IF pwm < pwmSetMax /\ pwmSetMax - pwm >= by THEN pwm + by ELSE pwmSetMax
Less(by) == IF pwm > PwmSetMin /\ pwm - PwmSetMin >= by THEN pwm - by ELSE PwmSetMin

PwmMore(by) == [up |-> TRUE, by |-> by]
PwmLess(by) == [up |-> FALSE, by |-> by]

Call ==
    /\ calls # <<>> /\ calls' = Tail(calls)
    /\ LET call == Head(calls)
       IN  Write(IF call.up THEN More(call.by) ELSE Less(call.by))
    /\ UNCHANGED <<pwmSetMax, functionVal2, pedal, pc>>

Step(from, to) == pc = from /\ calls = <<>> /\ pc' = to

-----------------------------------------------------------------------------
\* "Just started": startup is 10 in the first round, unless the Hall sensors have
\* a fault; without a display that round ends with a fault of the throttle.
FirstRound == Step("first", "start") \/ Step("first", "measure")

\* Slip: only the lower limit.
ClampBelow ==
    /\ FirstRound \/ Step("clamp", "measure")
    /\ Write(IF pwm < PwmSetMin THEN PwmSetMin ELSE pwm)
    /\ UNCHANGED <<pwmSetMax, functionVal2, calls, pedal>>

\* "Double check the PWM hasn't gone crazy", and pwm_update.
Clamp ==
    /\ FirstRound \/ Step("clamp", "measure")
    /\ Write(IF pwm < PwmSetMin THEN PwmSetMin ELSE IF pwm > pwmSetMax THEN pwmSetMax ELSE pwm)
    /\ UNCHANGED <<pwmSetMax, functionVal2, calls, pedal>>

\* estimate_pwm_byspeed, of a wheel that has not been seen to turn, and pwm_update.
JustStarted ==
    /\ Step("start", "measure")
    /\ Write(PwmSetMin)
    /\ UNCHANGED <<pwmSetMax, functionVal2, calls, pedal>>

\* Undervoltage; and the limit goes up at once when the wheel is fast enough.
Measure ==
    /\ Step("measure", "throttle")
    /\ calls' \in {<<>>, <<PwmLess(Drop), PwmLess(Drop)>>}
    /\ pwmSetMax' \in {pwmSetMax, IF functionVal2 = Levels - 1 THEN PwmSetMax ELSE pwmSetMax}
    /\ UNCHANGED <<pwm, functionVal2, pedal>>

\* The voltage limits, then the current: more the further it is below target.
Voltage == {<<>>, <<PwmLess(2 * SlopeThrottle)>>,
            <<PwmLess(2 * SlopeThrottle), PwmLess(2 * SlopeThrottle)>>}
Current == {PwmMore(s) : s \in SpeedSteps}
           \cup {PwmMore(2 * SlopeThrottle), PwmMore(SlopeThrottle), PwmLess(SlopeThrottle)}
Regulate == \E v \in Voltage, c \in Current : calls' = v \o <<c>>

\* The control loop runs in this round or it does not; there is a throttle or
\* there is none.
Throttle ==
    /\ \/ Step("throttle", "tick") /\ UNCHANGED calls
       \/ Step("throttle", "pedal") /\ (UNCHANGED calls \/ Regulate)
    /\ UNCHANGED <<pwm, pwmSetMax, functionVal2, pedal>>

\* Slip: the count starts over without any force.
StrainAlways(new) == IF new >= pedalSignal THEN StrainLong ELSE StrainShort

\* How long the highest signal is kept.
Strain(new) == IF new > 0 /\ new >= pedalSignal THEN StrainLong
               ELSE IF new > PedalKeep THEN StrainShort ELSE strainCnt

Highest(new) == IF new > pedalSignal THEN new ELSE pedalSignal

Pedal ==
    /\ Step("pedal", "tick")
    /\ \E new \in 0 .. PedalMax :
           /\ pedalNew' = new
           /\ \/ /\ Strain(new) > 0 /\ strainCnt' = Strain(new) - 1
                 /\ pedalSignal' = Highest(new)
              \/ /\ Strain(new) = 0 /\ strainCnt' = 0
                 /\ pedalSignal' = IF Highest(new) > 0 THEN Highest(new) - 1 ELSE 0
    /\ IF pedalSignal' > PedalUse /\ strainCnt' > 0 THEN Regulate ELSE UNCHANGED calls
    /\ UNCHANGED <<pwm, pwmSetMax, functionVal2>>

-----------------------------------------------------------------------------
(* A tick, about every 14 ms                                               *)

\* The limit from the menu; without a mode the duty cycle drops.
Tick ==
    /\ Step("tick", "estimate")
    /\ pwmSetMax' = Limit(functionVal2)
    /\ calls' \in {<<>>, <<PwmLess(Drop)>>}
    /\ UNCHANGED <<pwm, functionVal2, pedal>>

NoTick == Step("tick", "clamp") /\ UNCHANGED <<pwm, pwmSetMax, functionVal2, calls, pedal>>

\* estimate_pwm_byspeed, when the wheel turns without throttle or pedalling.
Estimate ==
    /\ Step("estimate", "message")
    /\ \/ UNCHANGED pwm
       \/ pedalSignal = 0 /\ \E est \in PwmSetMin .. pwmSetMax : Write(est)
    /\ UNCHANGED <<pwmSetMax, functionVal2, calls, pedal>>

\* The rider changes the setting, or the display falls silent; and when old
\* faults are forgotten the duty cycle drops once more.
Message ==
    /\ Step("message", "clamp")
    /\ \/ functionVal2' \in 0 .. Levels - 1 /\ UNCHANGED pedal
       \/ pedalSignal' = 0 /\ strainCnt' = 0 /\ UNCHANGED <<functionVal2, pedalNew>>
    /\ calls' \in {<<>>, <<PwmLess(Nudge)>>}
    /\ UNCHANGED <<pwm, pwmSetMax>>

-----------------------------------------------------------------------------
Next == Call \/ Clamp \/ JustStarted \/ Measure \/ Throttle \/ Pedal
        \/ Tick \/ NoTick \/ Estimate \/ Message

Spec == Init /\ [][Next]_vars

(* The main loop goes on, and the control loop runs again and again.       *)
FairSpec == Spec /\ WF_vars(Next) /\ SF_vars(Throttle /\ pc' = "pedal")

-----------------------------------------------------------------------------
CallType == [up : BOOLEAN, by : Nat]

(* Between the rounds of the loop pwm is never too low, and too high by at   *)
(* most what the interrupt puts in place of a low byte.                      *)
TypeOK ==
    /\ pwm \in PwmSetMin .. PwmSetMax + PwmSetMin /\ pwmSetMax \in PwmSetMin .. PwmSetMax
    /\ functionVal2 \in 0 .. Levels - 1 /\ calls \in Seq(CallType)
    /\ pedalSignal \in 0 .. PedalMax /\ strainCnt \in 0 .. StrainLong
    /\ pedalNew \in 0 .. PedalMax
    /\ pc \in {"first", "start", "clamp", "measure", "throttle", "pedal", "tick", "estimate",
               "message"}

(* What pwm_update hands to the timer is within the limits in force, though  *)
(* a limit may have come down since, and the interrupt may have come between *)
(* two bytes.                                                                *)
AppliedInLimits == pc \in {"start", "measure"} => pwm >= PwmSetMin /\ pwm <= pwmSetMax

(* pwm_less never raises the duty cycle, whenever the interrupt comes.       *)
LessNeverRaises == [][Call /\ ~Head(calls).up => pwm' <= pwm]_vars

(* Once the rider stops pedalling the pedal signal dies away.                *)
PedalEnds == <>[](pedalNew = 0) => <>[](pedalSignal = 0)
=============================================================================
