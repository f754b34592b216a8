----------------------------- MODULE PwmProofs -----------------------------
(* The duty cycle stays in its limits, for bytes and limits of any size.    *)
EXTENDS PwmControl, TLAPS

(* A number is its high byte and its low byte, and a high byte that is not   *)
(* zero is a byte's worth at least.                                          *)
LEMMA ByteParts ==
    ASSUME NEW n \in Nat
    PROVE  /\ Low(n) \in Nat /\ Low(n) < Base
           /\ High(n) \in Nat /\ n = High(n) + Low(n)
           /\ High(n) = 0 \/ High(n) >= Base
<1> USE PwmAssumption
<1>0. Base \in Nat /\ Base > 0
  OBVIOUS
<1> DEFINE q == n \div Base
           r == n % Base
<1>1. q \in Nat /\ r \in Nat /\ r < Base /\ n = Base * q + r
  BY <1>0
<1> HIDE DEF q, r
<1>2. High(n) = Base * q /\ Low(n) = r
  BY <1>0, <1>1 DEF High, Low, q, r
<1>3. CASE q = 0
  BY <1>0, <1>1, <1>2, <1>3
<1>4. CASE q >= 1
  <2>1. Base * q = Base + Base * (q - 1)
    BY <1>0, <1>1, <1>4
  <2>2. Base * (q - 1) \in Nat
    BY <1>0, <1>1, <1>4
  <2> QED BY <1>0, <1>1, <1>2, <2>1, <2>2
<1> QED BY <1>1, <1>3, <1>4

(* Whenever the interrupt comes, a new value that is not too low is raised   *)
(* by PwmSetMin at most.                                                     *)
LEMMA WriteBounds ==
    ASSUME pwm \in Nat, NEW new \in Nat, new >= PwmSetMin, Write(new)
    PROVE  pwm' \in Nat /\ pwm' >= PwmSetMin /\ pwm' <= new + PwmSetMin
<1>1. High(new) \in Nat /\ High(new) <= new
  BY ByteParts
<1>2. PwmSetMin \in Nat
  BY PwmAssumption
<1> QED BY <1>1, <1>2 DEF Write, Interrupted

(* One that is not above the old value is not raised at all: the interrupt   *)
(* sees a low value only if the old high byte was zero, and then the new one *)
(* is zero as well, so that what it sees is the new value.                   *)
LEMMA WriteLower ==
    ASSUME pwm \in Nat, NEW new \in Nat, new >= PwmSetMin, new <= pwm, Write(new)
    PROVE  pwm' = new
<1>1. SUFFICES ~(High(pwm) + Low(new) < PwmSetMin)
  BY DEF Write, Interrupted
<1>2. SUFFICES ASSUME High(pwm) + Low(new) < PwmSetMin PROVE FALSE
  OBVIOUS
<1>3. PwmSetMin \in Nat /\ Base \in Nat /\ PwmSetMin < Base
  BY PwmAssumption
<1>4. High(pwm) = 0 /\ pwm < Base
  <2>1. Low(new) \in Nat
    BY ByteParts
  <2>2. High(pwm) \in Nat /\ pwm = High(pwm) + Low(pwm)
        /\ Low(pwm) \in Nat /\ Low(pwm) < Base /\ (High(pwm) = 0 \/ High(pwm) >= Base)
    BY ByteParts
  <2> QED BY <1>2, <1>3, <2>1, <2>2
<1>5. High(new) = 0 /\ new = Low(new)
  <2>1. High(new) \in Nat /\ Low(new) \in Nat /\ new = High(new) + Low(new)
        /\ (High(new) = 0 \/ High(new) >= Base)
    BY ByteParts
  <2> QED BY <1>3, <1>4, <2>1
<1> QED BY <1>2, <1>3, <1>4, <1>5

(* The limit that belongs to a setting is between the fixed ones.            *)
LEMMA LimitBounds ==
    ASSUME NEW v \in 0 .. Levels - 1
    PROVE  Limit(v) \in PwmSetMin .. PwmSetMax
<1> USE PwmAssumption
<1> DEFINE w == (v + 1) * LevelStep
<1>1. v \in Nat /\ LevelStep \in Nat
  OBVIOUS
<1>2. v * LevelStep \in Nat /\ w = v * LevelStep + LevelStep
  BY <1>1
<1>3. w \in Nat /\ w >= LevelStep
  BY <1>1, <1>2
<1> HIDE DEF w
<1>4. Limit(v) = IF w > PwmSetMax THEN PwmSetMax ELSE w
  BY DEF Limit, w
<1> QED BY <1>3, <1>4

-----------------------------------------------------------------------------
(* pwm_more stays below the upper limit, pwm_less above the lower one, and   *)
(* it does not raise the duty cycle.                                         *)
LEMMA MoreBounds ==
    ASSUME TypeOK, NEW by \in Nat
    PROVE  More(by) \in PwmSetMin .. PwmSetMax
BY PwmAssumption DEF TypeOK, More

LEMMA LessBounds ==
    ASSUME TypeOK, NEW by \in Nat
    PROVE  Less(by) \in Nat /\ Less(by) >= PwmSetMin /\ Less(by) <= pwm
BY PwmAssumption DEF TypeOK, Less

(* The calls of one round of regulation are calls of pwm_more and pwm_less.  *)
LEMMA CallTypes ==
    /\ \A by \in Nat : PwmMore(by) \in CallType /\ PwmLess(by) \in CallType
    /\ <<>> \in Seq(CallType)
    /\ Regulate => calls' \in Seq(CallType)
<1> USE PwmAssumption
<1>1. \A by \in Nat : PwmMore(by) \in CallType /\ PwmLess(by) \in CallType
  BY DEF PwmMore, PwmLess, CallType
<1>2. SlopeThrottle \in Nat /\ 2 * SlopeThrottle \in Nat /\ SpeedSteps \subseteq Nat
  OBVIOUS
<1>3. Current \subseteq CallType
  BY <1>1, <1>2 DEF Current
<1>4. Voltage \subseteq Seq(CallType)
  <2> DEFINE c == PwmLess(2 * SlopeThrottle)
  <2>1. c \in CallType
    BY <1>1, <1>2
  <2> HIDE DEF c
  <2>2. <<>> \in Seq(CallType) /\ <<c>> \in Seq(CallType) /\ <<c, c>> \in Seq(CallType)
    BY <2>1
  <2> QED BY <2>2 DEF Voltage, c
<1>5. \A v \in Seq(CallType), c \in CallType : v \o <<c>> \in Seq(CallType)
  OBVIOUS
<1>6. ASSUME Regulate PROVE calls' \in Seq(CallType)
  <2>1. PICK v \in Voltage, c \in Current : calls' = v \o <<c>>
    BY <1>6 DEF Regulate
  <2>2. v \in Seq(CallType) /\ c \in CallType
    BY <1>3, <1>4
  <2> QED BY <1>5, <2>1, <2>2
<1>7. <<>> \in Seq(CallType)
  OBVIOUS
<1> QED BY <1>1, <1>6, <1>7

(* The inductive invariant: AppliedInLimits needs to know that no call is    *)
(* made between the clamp and the measurement.                               *)
CallsMade == pc \in {"start", "measure"} => calls = <<>>

PwmInv == TypeOK /\ AppliedInLimits /\ CallsMade

LEMMA InitTypes == Init => PwmInv
BY PwmAssumption DEF Init, PwmInv, TypeOK, AppliedInLimits, CallsMade

(* A call of pwm_more or pwm_less.                                           *)
LEMMA CallKeeps ==
    ASSUME TypeOK, Call
    PROVE  /\ pwm' \in PwmSetMin .. PwmSetMax + PwmSetMin
           /\ ~Head(calls).up => pwm' <= pwm
           /\ calls' \in Seq(CallType)
<1> USE PwmAssumption
<1>1. calls \in Seq(CallType) /\ calls # <<>> /\ calls' = Tail(calls)
  BY DEF TypeOK, Call
<1>2. Head(calls) \in CallType /\ calls' \in Seq(CallType)
  BY <1>1
<1> DEFINE by == Head(calls).by
           up == Head(calls).up
<1>3. by \in Nat /\ up \in BOOLEAN
  BY <1>2 DEF CallType
<1>4. Write(IF up THEN More(by) ELSE Less(by))
  BY DEF Call
<1> HIDE DEF by, up
<1>5. pwm \in Nat /\ pwm <= PwmSetMax + PwmSetMin
  BY DEF TypeOK
<1>6. CASE up
  <2>1. Write(More(by)) /\ More(by) \in Nat /\ More(by) >= PwmSetMin /\ More(by) <= PwmSetMax
    BY <1>3, <1>4, <1>6, MoreBounds
  <2>2. pwm' \in Nat /\ pwm' >= PwmSetMin /\ pwm' <= More(by) + PwmSetMin
    BY <1>5, <2>1, WriteBounds
  <2> QED BY <1>2, <1>6, <2>1, <2>2 DEF up
<1>7. CASE ~up
  <2>1. Write(Less(by)) /\ Less(by) \in Nat /\ Less(by) >= PwmSetMin /\ Less(by) <= pwm
    BY <1>3, <1>4, <1>7, LessBounds
  <2>2. pwm' = Less(by)
    BY <1>5, <2>1, WriteLower
  <2> QED BY <1>2, <1>5, <2>1, <2>2
<1> QED BY <1>3, <1>6, <1>7

(* The other steps, one at a time.                                           *)
LEMMA ClampKeeps ==
    ASSUME TypeOK, Clamp
    PROVE  PwmInv'
<1> USE PwmAssumption
<1> DEFINE new == IF pwm < PwmSetMin THEN PwmSetMin ELSE IF pwm > pwmSetMax THEN pwmSetMax ELSE pwm
<1>1. new \in Nat /\ new >= PwmSetMin /\ new <= pwm /\ new <= pwmSetMax /\ new <= PwmSetMax
  BY DEF TypeOK
<1>2. pwm \in Nat /\ Write(new)
  BY DEF TypeOK, Clamp
<1> HIDE DEF new
<1>3. pwm' = new
  BY <1>1, <1>2, WriteLower
<1>4. UNCHANGED <<pwmSetMax, functionVal2, calls, pedalSignal, strainCnt, pedalNew>>
      /\ pc' \in {"start", "measure"} /\ calls = <<>>
  BY DEF Clamp, FirstRound, Step, pedal
<1>5. pwm' \in PwmSetMin .. PwmSetMax + PwmSetMin /\ pwmSetMax \in Nat
  BY <1>1, <1>3 DEF TypeOK
<1> QED BY <1>1, <1>3, <1>4, <1>5 DEF PwmInv, TypeOK, AppliedInLimits, CallsMade

LEMMA JustStartedKeeps ==
    ASSUME TypeOK, JustStarted
    PROVE  PwmInv'
<1> USE PwmAssumption
<1>1. PwmSetMin \in Nat /\ PwmSetMin <= pwm /\ pwm \in Nat /\ Write(PwmSetMin)
  BY DEF TypeOK, JustStarted
<1>2. pwm' = PwmSetMin
  BY <1>1, WriteLower
<1>3. UNCHANGED <<pwmSetMax, functionVal2, calls, pedalSignal, strainCnt, pedalNew>>
      /\ pc' = "measure" /\ calls = <<>>
  BY DEF JustStarted, Step, pedal
<1> QED BY <1>2, <1>3 DEF PwmInv, TypeOK, AppliedInLimits, CallsMade

LEMMA MeasureKeeps ==
    ASSUME TypeOK, Measure
    PROVE  PwmInv'
<1> USE PwmAssumption
<1>1. calls' \in Seq(CallType)
  <2> DEFINE c == PwmLess(Drop)
  <2>1. c \in CallType
    BY CallTypes
  <2> HIDE DEF c
  <2>2. <<>> \in Seq(CallType) /\ <<c, c>> \in Seq(CallType)
    BY <2>1
  <2> QED BY <2>2 DEF Measure, c
<1>2. pwmSetMax' \in PwmSetMin .. PwmSetMax
  BY DEF TypeOK, Measure
<1> QED BY <1>1, <1>2 DEF PwmInv, TypeOK, AppliedInLimits, CallsMade, Measure, Step, pedal

LEMMA ThrottleKeeps ==
    ASSUME TypeOK, Throttle
    PROVE  PwmInv'
<1>1. calls' \in Seq(CallType)
  BY CallTypes DEF TypeOK, Throttle
<1>2. UNCHANGED <<pwm, pwmSetMax, functionVal2, pedalSignal, strainCnt, pedalNew>>
      /\ pc' \in {"pedal", "tick"}
  BY DEF Throttle, Step, pedal
<1> QED BY <1>1, <1>2 DEF PwmInv, TypeOK, AppliedInLimits, CallsMade

LEMMA PedalKeeps ==
    ASSUME TypeOK, Pedal
    PROVE  PwmInv'
<1> USE PwmAssumption
<1>1. calls' \in Seq(CallType)
  BY CallTypes DEF TypeOK, Pedal
<1>2. PICK new \in 0 .. PedalMax :
        /\ pedalNew' = new
        /\ \/ /\ Strain(new) > 0 /\ strainCnt' = Strain(new) - 1
              /\ pedalSignal' = Highest(new)
           \/ /\ Strain(new) = 0 /\ strainCnt' = 0
              /\ pedalSignal' = IF Highest(new) > 0 THEN Highest(new) - 1 ELSE 0
  BY DEF Pedal
<1>3. Strain(new) \in 0 .. StrainLong /\ Highest(new) \in 0 .. PedalMax
  BY DEF TypeOK, Strain, Highest
<1>4. pedalSignal' \in 0 .. PedalMax /\ strainCnt' \in 0 .. StrainLong
      /\ pedalNew' \in 0 .. PedalMax
  BY <1>2, <1>3
<1>5. UNCHANGED <<pwm, pwmSetMax, functionVal2>> /\ pc' = "tick"
  BY DEF Pedal, Step
<1> QED BY <1>1, <1>4, <1>5 DEF PwmInv, TypeOK, AppliedInLimits, CallsMade

LEMMA TickKeeps ==
    ASSUME TypeOK, Tick \/ NoTick
    PROVE  PwmInv'
<1> USE PwmAssumption
<1>1. CASE Tick
  <2> DEFINE c == PwmLess(Drop)
  <2>1. c \in CallType
    BY CallTypes
  <2> HIDE DEF c
  <2>2. calls' \in Seq(CallType)
    <3>1. <<>> \in Seq(CallType) /\ <<c>> \in Seq(CallType)
      BY <2>1
    <3> QED BY <1>1, <3>1 DEF Tick, c
  <2>3. pwmSetMax' \in PwmSetMin .. PwmSetMax
    BY <1>1, LimitBounds DEF TypeOK, Tick
  <2> QED BY <1>1, <2>2, <2>3 DEF PwmInv, TypeOK, AppliedInLimits, CallsMade, Tick, Step, pedal
<1>2. CASE NoTick
  BY <1>2 DEF PwmInv, TypeOK, AppliedInLimits, CallsMade, NoTick, Step, pedal
<1> QED BY <1>1, <1>2

LEMMA EstimateKeeps ==
    ASSUME TypeOK, Estimate
    PROVE  PwmInv'
<1> USE PwmAssumption
<1>1. pwm' \in PwmSetMin .. PwmSetMax + PwmSetMin
  <2>1. CASE UNCHANGED pwm
    BY <2>1 DEF TypeOK
  <2>2. CASE ~UNCHANGED pwm
    <3>1. PICK est \in PwmSetMin .. pwmSetMax : Write(est)
      BY <2>2 DEF Estimate
    <3>2. est \in Nat /\ est >= PwmSetMin /\ est <= PwmSetMax /\ pwm \in Nat
      BY DEF TypeOK
    <3>3. pwm' \in Nat /\ pwm' >= PwmSetMin /\ pwm' <= est + PwmSetMin
      BY <3>1, <3>2, WriteBounds
    <3> QED BY <3>2, <3>3
  <2> QED BY <2>1, <2>2
<1>2. UNCHANGED <<pwmSetMax, functionVal2, calls, pedalSignal, strainCnt, pedalNew>>
      /\ pc' = "message"
  BY DEF Estimate, Step, pedal
<1> QED BY <1>1, <1>2 DEF PwmInv, TypeOK, AppliedInLimits, CallsMade

LEMMA MessageKeeps ==
    ASSUME TypeOK, Message
    PROVE  PwmInv'
<1> USE PwmAssumption
<1>1. calls' \in Seq(CallType)
  <2> DEFINE c == PwmLess(Nudge)
  <2>1. c \in CallType
    BY CallTypes
  <2> HIDE DEF c
  <2>2. <<>> \in Seq(CallType) /\ <<c>> \in Seq(CallType)
    BY <2>1
  <2> QED BY <2>2 DEF Message, c
<1>2. functionVal2' \in 0 .. Levels - 1 /\ pedalSignal' \in 0 .. PedalMax
      /\ strainCnt' \in 0 .. StrainLong /\ pedalNew' = pedalNew
  BY DEF TypeOK, Message, pedal
<1> QED BY <1>1, <1>2 DEF PwmInv, TypeOK, AppliedInLimits, CallsMade, Message, Step

-----------------------------------------------------------------------------
(* Together: every step, and a step that changes nothing.                    *)
LEMMA StepKeeps ==
    ASSUME PwmInv, [Next]_vars
    PROVE  PwmInv'
<1>1. CASE Call
  <2>1. pwm' \in PwmSetMin .. PwmSetMax + PwmSetMin /\ calls' \in Seq(CallType)
    BY <1>1, CallKeeps DEF PwmInv
  <2>2. UNCHANGED <<pwmSetMax, functionVal2, pedalSignal, strainCnt, pedalNew, pc>>
    BY <1>1 DEF Call, pedal
  <2>3. calls # <<>>
    BY <1>1 DEF Call
  <2> QED BY <2>1, <2>2, <2>3 DEF PwmInv, TypeOK, AppliedInLimits, CallsMade
<1>2. CASE UNCHANGED vars
  BY <1>2 DEF PwmInv, TypeOK, AppliedInLimits, CallsMade, vars, pedal
<1>3. TypeOK
  BY DEF PwmInv
<1> QED BY <1>1, <1>2, <1>3, ClampKeeps, JustStartedKeeps, MeasureKeeps, ThrottleKeeps,
           PedalKeeps, TickKeeps, EstimateKeeps, MessageKeeps DEF Next

(* The duty cycle is never too low, and above the upper limit only by what   *)
(* the interrupt can add: pwm_more, pwm_less and estimate_pwm_byspeed.       *)
THEOREM PwmTypeCorrect == Spec => []TypeOK
<1>1. PwmInv /\ [Next]_vars => PwmInv'
  BY StepKeeps
<1>2. PwmInv => TypeOK
  BY DEF PwmInv
<1> QED BY InitTypes, <1>1, <1>2, PTL DEF Spec

(* What pwm_update hands to the timer is within the limits in force.         *)
THEOREM PwmApplied == Spec => []AppliedInLimits
<1>1. PwmInv /\ [Next]_vars => PwmInv'
  BY StepKeeps
<1>2. PwmInv => AppliedInLimits
  BY DEF PwmInv
<1> QED BY InitTypes, <1>1, <1>2, PTL DEF Spec

(* pwm_less never raises the duty cycle, whenever the interrupt comes.       *)
THEOREM PwmLessLowers == Spec => LessNeverRaises
<1>1. TypeOK /\ [Next]_vars => [Call /\ ~Head(calls).up => pwm' <= pwm]_vars
  BY CallKeeps
<1> QED BY PwmTypeCorrect, <1>1, PTL DEF Spec, LessNeverRaises
=============================================================================
