---------------------------- MODULE MotorProofs ----------------------------
(* When the motor is driven, for any number of Hall states and any times.   *)
EXTENDS MotorControl, TLAPS

(* Without a display, and once a round has begun without a display or a     *)
(* mode, the next round will freewheel.                                     *)
FreewheelDecided ==
    /\ ~online => shouldFreewheel
    /\ stale > 0 => shouldFreewheel

(* From the control loop to the next round a fault that stops the motor has *)
(* been seen.                                                               *)
FaultsStop == pc \in {"tick", "period", "commute"} /\ IsFaultSet => shouldFreewheel

(* Only calm makes a fault be forgotten; the first round, which has not yet *)
(* noticed that there is no display, is the exception.                      *)
FaultsKept ==
    /\ calm >= Startup - startup
    /\ ~IsFaultSet /\ calm # Startup =>
           ~online /\ pc \in {"commute", "measure", "throttle"}

(* A full period is counted only until its end is dealt with.               *)
TickCounted == pc # "period" => cntTm < Period

MotorInv == TypeOK /\ SectorFollowsHall /\ DriveStops /\ FreewheelDecided
            /\ FaultsStop /\ FaultsKept /\ TickCounted

LEMMA SpareIsNat == Spare \in Nat
BY MotorAssumption, PollAssumption DEF Spare

LEMMA InitMotor == Init => MotorInv
<1> USE MotorAssumption
<1> SUFFICES ASSUME Init PROVE MotorInv
  OBVIOUS
<1>1. /\ flagHallChanged \in BOOLEAN /\ shouldFreewheel \in BOOLEAN /\ forceCommute \in BOOLEAN
      /\ pedalSignal \in BOOLEAN /\ online \in BOOLEAN /\ mode \in BOOLEAN
      /\ chosen \in BOOLEAN
  BY DEF Init
<1>2. /\ startup \in 0 .. Startup + 1 /\ cntTm \in 0 .. Period /\ cntTm < Period
      /\ offlineCnt \in 0 .. CountMod - 1 /\ pollCnt \in 0 .. 3
      /\ calm \in 0 .. Startup /\ stale \in 0 .. 2 /\ calm >= Startup - startup
      /\ foreign \in 0 .. Spare + 1
  BY SpareIsNat DEF Init
<1>3. TypeOK
  BY <1>1, <1>2 DEF Init, TypeOK, Throttle, Flag
<1>4. SectorFollowsHall /\ DriveStops /\ FreewheelDecided /\ TickCounted
  BY <1>2 DEF Init, SectorFollowsHall, DriveStops, FreewheelDecided, TickCounted
<1>5. FaultsStop /\ FaultsKept
  BY <1>2 DEF Init, FaultsStop, FaultsKept
<1> QED BY <1>3, <1>4, <1>5 DEF MotorInv

(* What status_set does to the flags and the counts.                        *)
LEMMA StatusSetKeeps ==
    ASSUME TypeOK, FaultsKept, NEW flags \in SUBSET Flag, StatusSet(flags)
    PROVE  /\ status' \subseteq Flag /\ startup' \in 0 .. Startup + 1 /\ calm' \in 0 .. Startup
           /\ calm' >= Startup - startup'
           /\ IsFaultSet => IsFaultSet'
           /\ flags \cap ErrorMask # {} => IsFaultSet'
           /\ flags \cap ErrorMask = {} => calm' = calm /\ (IsFaultSet' => IsFaultSet)
<1> USE MotorAssumption
<1>1. status' = status \cup flags
  BY DEF StatusSet
<1>2. /\ IsFaultSet => IsFaultSet'
      /\ flags \cap ErrorMask # {} => IsFaultSet'
      /\ flags \cap ErrorMask = {} => (IsFaultSet' => IsFaultSet)
  BY <1>1 DEF IsFaultSet
<1>3. status' \subseteq Flag
  BY <1>1 DEF TypeOK
<1>4. /\ startup' \in 0 .. Startup + 1 /\ calm' \in 0 .. Startup
      /\ calm' >= Startup - startup'
      /\ flags \cap ErrorMask = {} => calm' = calm
  <2>1. CASE flags = {}
    BY <2>1 DEF StatusSet, TypeOK, FaultsKept
  <2>2. CASE flags # {}
    BY <2>2 DEF StatusSet, TypeOK
  <2> QED BY <2>1, <2>2
<1> QED BY <1>2, <1>3, <1>4

-----------------------------------------------------------------------------
(* A new round: the motor is driven only with a working sensor, and only if *)
(* the round before did not decide to freewheel.                            *)
LEMMA CommuteKeeps ==
    ASSUME MotorInv, Commute
    PROVE  MotorInv' /\ (stage' # Off => calm = Startup)
<1> USE MotorAssumption DEF MotorInv
<1>1. PICK h \in Hall \cup {BadHall} :
        Switch(h) /\ StatusSet(IF h = BadHall THEN {"hall"} ELSE {})
  BY DEF Commute
<1>2. /\ hallState' = h /\ flagHallChanged' \in BOOLEAN
      /\ stage' \in Hall \cup {Off}
      /\ stage' # Off => stage' = h /\ ~shouldFreewheel
  BY <1>1 DEF Switch, TypeOK, SectorFollowsHall
<1> DEFINE flags == IF h = BadHall THEN {"hall"} ELSE {}
<1>3. flags \in SUBSET Flag /\ flags \cap ErrorMask = {}
  BY DEF Flag, ErrorMask
<1>4. StatusSet(flags)
  BY <1>1
<1> HIDE DEF flags
<1>5. /\ status' \subseteq Flag /\ startup' \in 0 .. Startup + 1 /\ calm' \in 0 .. Startup
      /\ calm' >= Startup - startup' /\ calm' = calm
      /\ IsFaultSet => IsFaultSet'
  BY <1>3, <1>4, StatusSetKeeps
<1>6. /\ pc = "commute" /\ pc' = "measure" /\ shouldFreewheel' = ~Allowed
      /\ stale' = IF online /\ mode THEN 0 ELSE IF stale = 2 THEN 2 ELSE stale + 1
      /\ UNCHANGED <<throttle, pedalSignal, online, offlineCnt, mode, pollCnt, asked, chosen,
                     foreign, forceCommute, cntTm>>
  BY DEF Commute, rider, display
<1>7. stale' \in 0 .. 2 /\ shouldFreewheel' \in BOOLEAN
  BY <1>6 DEF TypeOK, Allowed
<1>8. TypeOK'
  BY <1>2, <1>5, <1>6, <1>7 DEF TypeOK
<1>9. SectorFollowsHall'
  BY <1>2 DEF SectorFollowsHall
<1>10. DriveStops' /\ FreewheelDecided'
  <2>1. stale' > 0 => shouldFreewheel'
    <3>1. Allowed => stale' = 0
      BY <1>6 DEF Allowed
    <3>2. stale' > 0 => ~Allowed
      BY <3>1
    <3> QED BY <1>6, <3>2
  <2>2. ~online' => shouldFreewheel'
    BY <1>6 DEF Allowed
  <2>3. stale' = 2 => stale > 0
    BY <1>6 DEF TypeOK
  <2>4. stale' = 2 => stage' = Off
    BY <1>2, <2>3 DEF FreewheelDecided
  <2>5. ~online' => stage' = Off
    BY <1>2, <1>6 DEF FreewheelDecided
  <2> QED BY <2>1, <2>2, <2>4, <2>5 DEF DriveStops, FreewheelDecided
<1>11. FaultsStop' /\ FaultsKept' /\ TickCounted'
  BY <1>5, <1>6 DEF FaultsStop, FaultsKept, TickCounted
<1>12. stage' # Off => calm = Startup
  BY <1>2, <1>6 DEF FaultsStop, FaultsKept, FreewheelDecided
<1> QED BY <1>8, <1>9, <1>10, <1>11, <1>12

(* The measurements and the throttle: what they change is for the worse.    *)
LEMMA FaultKeeps ==
    ASSUME MotorInv, Measure \/ GetThrottle
    PROVE  MotorInv'
<1> USE MotorAssumption DEF MotorInv
<1>1. CASE Measure
  <2>1. /\ pc = "measure" /\ pc' = "throttle"
        /\ UNCHANGED <<throttle, pedalSignal, online, offlineCnt, mode, pollCnt, asked, hallState,
                       flagHallChanged, forceCommute, cntTm, stale>>
    BY <1>1 DEF Measure, rider, hall
  <2>2. CASE UNCHANGED <<drive, faults, chosen, foreign>>
    BY <2>1, <2>2 DEF drive, faults, TypeOK, SectorFollowsHall, DriveStops, FreewheelDecided,
       FaultsStop, FaultsKept, TickCounted, IsFaultSet
  <2>3. CASE ~UNCHANGED <<drive, faults, chosen, foreign>>
    <3>1. stage' = Off /\ shouldFreewheel' = TRUE /\ StatusSet({"voltage"}) /\ chosen' = FALSE
         /\ foreign' = 0
      BY <1>1, <2>3 DEF Measure
    <3>2. {"voltage"} \in SUBSET Flag /\ {"voltage"} \cap ErrorMask # {}
      BY DEF Flag, ErrorMask
    <3>3. /\ status' \subseteq Flag /\ startup' \in 0 .. Startup + 1 /\ calm' \in 0 .. Startup
          /\ calm' >= Startup - startup' /\ IsFaultSet' /\ foreign' \in 0 .. Spare + 1
      BY <3>1, <3>2, StatusSetKeeps, SpareIsNat
    <3> QED BY <2>1, <3>1, <3>3 DEF TypeOK, SectorFollowsHall, DriveStops, FreewheelDecided,
               FaultsStop, FaultsKept, TickCounted
  <2> QED BY <2>2, <2>3
<1>2. CASE GetThrottle
  <2>1. /\ pc = "throttle" /\ pc' = "control"
        /\ UNCHANGED <<pedalSignal, online, offlineCnt, mode, pollCnt, asked, hallState,
                       flagHallChanged, forceCommute, cntTm, stale>>
    BY <1>2 DEF GetThrottle, hall
  <2>2. CASE online
    <3>1. throttle' \in Throttle /\ UNCHANGED <<drive, faults, chosen, foreign>>
      BY <1>2, <2>2 DEF GetThrottle
    <3> QED BY <2>1, <2>2, <3>1 DEF drive, faults, TypeOK, SectorFollowsHall, DriveStops,
               FreewheelDecided, FaultsStop, FaultsKept, TickCounted, IsFaultSet
  <2>3. CASE ~online
    <3>1. /\ UNCHANGED <<throttle, stage>> /\ shouldFreewheel' = TRUE
          /\ StatusSet({"throttle"}) /\ chosen' = FALSE /\ foreign' = 0
      BY <1>2, <2>3 DEF GetThrottle
    <3>2. {"throttle"} \in SUBSET Flag /\ {"throttle"} \cap ErrorMask # {}
      BY DEF Flag, ErrorMask
    <3>3. /\ status' \subseteq Flag /\ startup' \in 0 .. Startup + 1 /\ calm' \in 0 .. Startup
          /\ calm' >= Startup - startup' /\ IsFaultSet' /\ foreign' \in 0 .. Spare + 1
      BY <3>1, <3>2, StatusSetKeeps, SpareIsNat
    <3> QED BY <2>1, <3>1, <3>3 DEF TypeOK, SectorFollowsHall, DriveStops, FreewheelDecided,
               FaultsStop, FaultsKept, TickCounted
  <2> QED BY <2>2, <2>3
<1> QED BY <1>1, <1>2

(* The control loop sees every fault.                                       *)
LEMMA ControlKeeps ==
    ASSUME MotorInv, Control
    PROVE  MotorInv'
<1> USE MotorAssumption DEF MotorInv
<1>1. /\ pc = "control" /\ pc' = "tick"
      /\ UNCHANGED <<stage, status, startup, calm, throttle, online, offlineCnt, mode, pollCnt,
                     asked, chosen, foreign, hallState, forceCommute, cntTm, stale>>
  BY DEF Control, faults, display
<1>2. flagHallChanged' \in BOOLEAN /\ pedalSignal' \in BOOLEAN /\ shouldFreewheel' \in BOOLEAN
  BY DEF Control, TypeOK
<1>3. (shouldFreewheel \/ IsFaultSet) => shouldFreewheel'
  BY DEF Control
<1>4. TypeOK'
  BY <1>1, <1>2 DEF TypeOK
<1> QED BY <1>1, <1>3, <1>4 DEF SectorFollowsHall, DriveStops, FreewheelDecided, FaultsStop,
           FaultsKept, TickCounted, IsFaultSet

-----------------------------------------------------------------------------
(* A tick: whatever the display says, or does not say.                      *)
LEMMA TickKeeps ==
    ASSUME MotorInv, Tick \/ NoTick
    PROVE  MotorInv'
<1> USE MotorAssumption DEF MotorInv
<1>1. CASE Tick
  <2>1. /\ pc = "tick" /\ pc' = "period"
        /\ UNCHANGED <<stage, status, startup, calm, hallState, flagHallChanged, stale>>
    BY <1>1 DEF Tick, faults, hall
  <2>2. /\ online' \in BOOLEAN /\ mode' \in BOOLEAN /\ chosen' \in BOOLEAN
        /\ pedalSignal' \in BOOLEAN /\ shouldFreewheel' \in BOOLEAN /\ forceCommute' \in BOOLEAN
    BY <1>1 DEF Tick, ButtonReport, UpdateReport, OtherMessage, NoMessage, Answered, TypeOK
  <2>3. /\ offlineCnt' \in 0 .. CountMod - 1 /\ pollCnt' \in 0 .. 3
        /\ asked' \in {"nothing", "buttons", "update"} /\ throttle' \in Throttle
    BY <1>1 DEF Tick, ButtonReport, UpdateReport, OtherMessage, NoMessage, Answered, TypeOK,
       Throttle
  <2>4. shouldFreewheel => shouldFreewheel'
    BY <1>1 DEF Tick, ButtonReport, UpdateReport, OtherMessage, NoMessage, Answered
  <2>5. ~online' => shouldFreewheel'
    BY <1>1 DEF Tick, ButtonReport, UpdateReport, OtherMessage, NoMessage, Answered,
       FreewheelDecided
  <2>6. cntTm' \in 0 .. Period /\ foreign' \in 0 .. Spare + 1
    <3>1. cntTm' \in 0 .. Period
      BY <1>1 DEF Tick, TypeOK, TickCounted
    <3>2. foreign' = foreign \/ (foreign <= Spare /\ foreign' = foreign + 1)
      BY <1>1 DEF Tick, ButtonReport, UpdateReport, OtherMessage, NoMessage, Answered
    <3> QED BY <3>1, <3>2, SpareIsNat DEF TypeOK
  <2>7. TypeOK'
    BY <2>1, <2>2, <2>3, <2>6 DEF TypeOK
  <2> QED BY <2>1, <2>4, <2>5, <2>7 DEF SectorFollowsHall, DriveStops, FreewheelDecided,
             FaultsStop, FaultsKept, TickCounted, IsFaultSet
<1>2. CASE NoTick
  BY <1>2 DEF NoTick, drive, faults, rider, display, hall, TypeOK, SectorFollowsHall, DriveStops,
     FreewheelDecided, FaultsStop, FaultsKept, TickCounted, IsFaultSet
<1> QED BY <1>1, <1>2

(* The end of a period: old faults are forgotten when the count has run out. *)
LEMMA PeriodKeeps ==
    ASSUME MotorInv, EndPeriod
    PROVE  MotorInv'
<1> USE MotorAssumption DEF MotorInv
<1>1. /\ pc = "period" /\ pc' = "commute"
      /\ UNCHANGED <<stage, shouldFreewheel, throttle, pedalSignal, online, offlineCnt, mode,
                     pollCnt, asked, chosen, foreign, hallState, flagHallChanged, forceCommute,
                     stale>>
  BY DEF EndPeriod, drive, rider, display, hall
<1>2. SectorFollowsHall' /\ DriveStops' /\ FreewheelDecided'
  BY <1>1 DEF SectorFollowsHall, DriveStops, FreewheelDecided
<1>3. IsFaultSet \/ calm = Startup
  BY <1>1 DEF FaultsKept
<1>4. CASE cntTm = Period
  <2>1. cntTm' = 0 /\ CountDown
    BY <1>4 DEF EndPeriod
  <2>2. startup' \in 0 .. Startup + 1 /\ calm' \in 0 .. Startup
    BY <2>1 DEF CountDown, TypeOK
  <2>3. calm' >= Startup - startup'
    BY <2>1 DEF CountDown, TypeOK, FaultsKept
  <2>4. status' \subseteq Flag /\ (IsFaultSet' => IsFaultSet)
    BY <2>1 DEF CountDown, TypeOK, IsFaultSet
  <2>5. ~IsFaultSet' => calm' = Startup
    <3>1. startup' = 0 => calm' = Startup
      BY <2>2, <2>3
    <3>2. startup' # 0 => status' = status
      BY <2>1 DEF CountDown
    <3>3. status' = status /\ ~IsFaultSet' => calm = Startup
      BY <1>3 DEF IsFaultSet
    <3>4. calm = Startup => calm' = Startup
      BY <2>1 DEF CountDown
    <3> QED BY <3>1, <3>2, <3>3, <3>4
  <2>6. TypeOK'
    BY <1>1, <2>1, <2>2, <2>4 DEF TypeOK
  <2>7. FaultsStop' /\ FaultsKept'
    BY <1>1, <2>3, <2>4, <2>5 DEF FaultsStop, FaultsKept
  <2>8. TickCounted'
    BY <2>1 DEF TickCounted
  <2> QED BY <1>2, <2>6, <2>7, <2>8
<1>5. CASE cntTm # Period
  <2>1. UNCHANGED <<cntTm, status, startup, calm>>
    BY <1>5 DEF EndPeriod, faults
  <2>2. TypeOK' /\ TickCounted'
    BY <1>1, <1>5, <2>1 DEF TypeOK, TickCounted
  <2>3. FaultsStop' /\ FaultsKept'
    BY <1>1, <1>3, <2>1 DEF FaultsStop, FaultsKept, IsFaultSet
  <2> QED BY <1>2, <2>2, <2>3
<1> QED BY <1>4, <1>5

-----------------------------------------------------------------------------
LEMMA StepKeeps ==
    ASSUME MotorInv, [Next]_vars
    PROVE  MotorInv'
<1>1. CASE UNCHANGED vars
  BY <1>1 DEF vars, drive, faults, rider, display, hall, MotorInv, TypeOK, SectorFollowsHall,
     DriveStops, FreewheelDecided, FaultsStop, FaultsKept, TickCounted, IsFaultSet
<1> QED BY <1>1, CommuteKeeps, FaultKeeps, ControlKeeps, TickKeeps, PeriodKeeps DEF Next

LEMMA MotorInvariant == Spec => []MotorInv
<1>1. MotorInv /\ [Next]_vars => MotorInv'
  BY StepKeeps
<1> QED BY InitMotor, <1>1, PTL DEF Spec

(* The variables of the main loop keep their types: the counts of periods,  *)
(* ticks and unanswered polls stay in their ranges.                         *)
THEOREM MotorTypeCorrect == Spec => []TypeOK
BY MotorInvariant, PTL DEF MotorInv

(* While the motor is driven its sector is that of the last Hall state.     *)
THEOREM DriveSector == Spec => []SectorFollowsHall
BY MotorInvariant, PTL DEF MotorInv

(* The motor is not driven in a round that begins without a display, nor in *)
(* the second one without a mode.                                           *)
THEOREM DriveSafe == Spec => []DriveStops
BY MotorInvariant, PTL DEF MotorInv

(* After a fault that stops the motor it is not driven until Startup        *)
(* periods have ended without another one.                                  *)
THEOREM DriveCalm == Spec => CalmBeforeDrive
<1>1. MotorInv /\ [Next]_vars => [Commute /\ stage' # Off => calm = Startup]_vars
  BY CommuteKeeps
<1> QED BY MotorInvariant, <1>1, PTL DEF Spec, CalmBeforeDrive
-----------------------------------------------------------------------------
(* The mode: after a fault that stops the motor the display puts it back to *)
(* none at its next poll for an update, which comes before the fault is     *)
(* forgotten if other messages do not keep taking the ticks.                *)

\* The ticks it takes at most until that poll has gone unanswered, and those
\* there are at least until the flags can be cleared.
Polls     == (4 - pollCnt) + (IF pollCnt < 2 THEN 1 ELSE 0) + (IF asked = "nothing" THEN 0 ELSE 1)
TicksLeft == (startup - 1) * Period + (Period - cntTm)

\* The same with the messages of others that may still come between.
SpareLeft == Spare - foreign

ModeGoes ==
    mode /\ ~chosen /\ foreign <= Spare => IsFaultSet /\ Polls + SpareLeft <= TicksLeft

(* Whoever decides to drive has found a mode, and the control loop has      *)
(* found no fault.                                                          *)
ModeChosen ==
    /\ pc \in {"measure", "throttle", "control"} /\ ~shouldFreewheel => mode
    /\ pc \in {"tick", "period", "commute"} /\ ~shouldFreewheel => chosen \/ foreign > Spare

ModeInv == ModeGoes /\ ModeChosen

LEMMA PollsBounded == TypeOK => Polls \in 1 .. 6
BY DEF TypeOK, Polls

\* A fault starts the count over, and then there is time enough.
LEMMA TimeEnough == TypeOK /\ startup = Startup => Polls + SpareLeft <= TicksLeft
<1> SUFFICES ASSUME TypeOK, startup = Startup PROVE Polls + SpareLeft <= TicksLeft
  OBVIOUS
<1>1. Polls \in Int /\ Polls <= 6
  BY PollsBounded
<1>2. (Startup - 1) * Period \in Int /\ Period - cntTm \in Nat
  BY MotorAssumption DEF TypeOK
<1>3. foreign >= 0 /\ foreign \in Int
  BY SpareIsNat DEF TypeOK
<1> QED BY <1>1, <1>2, <1>3 DEF TicksLeft, SpareLeft, Spare

LEMMA CommuteMode ==
    ASSUME MotorInv, MotorInv', ModeInv, Commute
    PROVE  ModeInv' /\ (stage' # Off => chosen \/ foreign > Spare)
<1>1. /\ pc = "commute" /\ pc' = "measure" /\ shouldFreewheel' = ~Allowed
      /\ UNCHANGED <<mode, pollCnt, asked, chosen, foreign, cntTm>>
  BY DEF Commute, display
<1>2. PICK h \in Hall \cup {BadHall} :
        Switch(h) /\ StatusSet(IF h = BadHall THEN {"hall"} ELSE {})
  BY DEF Commute
<1>3. stage' # Off => chosen \/ foreign > Spare
  BY <1>1, <1>2 DEF Switch, ModeInv, ModeChosen
<1>4. ModeChosen'
  BY <1>1 DEF ModeChosen, Allowed
<1>5. IsFaultSet => IsFaultSet'
  BY <1>2 DEF StatusSet, IsFaultSet
<1>6. ModeGoes'
  <2> SUFFICES ASSUME mode, ~chosen, foreign <= Spare
               PROVE  IsFaultSet' /\ (Polls + SpareLeft <= TicksLeft)'
    BY <1>1 DEF ModeGoes
  <2>1. IsFaultSet /\ Polls + SpareLeft <= TicksLeft
    BY DEF ModeInv, ModeGoes
  <2>2. CASE startup' = startup
    BY <1>1, <1>5, <2>1, <2>2 DEF Polls, SpareLeft, TicksLeft
  <2>3. CASE startup' = Startup
    <3>1. TypeOK'
      BY DEF MotorInv
    <3>2. (TypeOK /\ startup = Startup => Polls + SpareLeft <= TicksLeft)'
      BY TimeEnough, PTL
    <3> QED BY <1>5, <2>1, <2>3, <3>1, <3>2
  <2> QED BY <1>2, <2>2, <2>3 DEF StatusSet
<1> QED BY <1>3, <1>4, <1>6 DEF ModeInv

LEMMA FaultMode ==
    ASSUME MotorInv, MotorInv', ModeInv, Measure \/ GetThrottle
    PROVE  ModeInv'
<1>1. /\ pc \in {"measure", "throttle"} /\ pc' \in {"throttle", "control"}
      /\ UNCHANGED <<mode, pollCnt, asked, cntTm>>
  BY DEF Measure, GetThrottle
<1>2. \/ UNCHANGED <<shouldFreewheel, faults, chosen, foreign>>
      \/ /\ shouldFreewheel' = TRUE
         /\ StatusSet({"voltage"}) \/ StatusSet({"throttle"})
  BY DEF Measure, GetThrottle, drive
<1>3. CASE UNCHANGED <<shouldFreewheel, faults, chosen, foreign>>
  BY <1>1, <1>3 DEF faults, ModeInv, ModeGoes, ModeChosen, Polls, SpareLeft, TicksLeft,
     IsFaultSet
<1>4. CASE shouldFreewheel' = TRUE /\ (StatusSet({"voltage"}) \/ StatusSet({"throttle"}))
  <2>1. startup' = Startup /\ IsFaultSet'
    BY <1>4 DEF StatusSet, IsFaultSet, ErrorMask
  <2>2. TypeOK'
    BY DEF MotorInv
  <2>3. (TypeOK /\ startup = Startup => Polls + SpareLeft <= TicksLeft)'
    BY TimeEnough, PTL
  <2> QED BY <1>1, <1>4, <2>1, <2>2, <2>3 DEF ModeInv, ModeGoes, ModeChosen
<1> QED BY <1>2, <1>3, <1>4

LEMMA ControlMode ==
    ASSUME MotorInv, ModeInv, Control
    PROVE  ModeInv'
<1>1. /\ pc = "control" /\ pc' = "tick"
      /\ UNCHANGED <<status, startup, mode, pollCnt, asked, chosen, foreign, cntTm>>
  BY DEF Control, faults, display
<1>2. (shouldFreewheel \/ IsFaultSet) => shouldFreewheel'
  BY DEF Control
<1>3. ModeGoes'
  BY <1>1 DEF ModeInv, ModeGoes, Polls, SpareLeft, Spare, TicksLeft, IsFaultSet
<1>4. foreign <= Spare \/ foreign > Spare
  BY SpareIsNat DEF MotorInv, TypeOK
<1>5. (foreign > Spare) => (foreign > Spare)'
  BY <1>1 DEF Spare
<1> QED BY <1>1, <1>2, <1>3, <1>4, <1>5 DEF ModeInv, ModeGoes, ModeChosen

\* A tick brings the poll nearer, or it is another's message and was spared for it.
LEMMA TickMode ==
    ASSUME MotorInv, MotorInv', ModeInv, Tick
    PROVE  ModeInv'
<1>1. /\ pc = "tick" /\ pc' = "period" /\ cntTm' = cntTm + 1
      /\ UNCHANGED <<status, startup>>
  BY DEF Tick, faults
<1>2. shouldFreewheel => shouldFreewheel'
  BY DEF Tick, ButtonReport, UpdateReport, OtherMessage, NoMessage, Answered
<1>3. chosen => chosen'
  BY DEF Tick, ButtonReport, UpdateReport, OtherMessage, NoMessage
<1>4. foreign' = foreign \/ (foreign <= Spare /\ foreign' = foreign + 1)
  BY DEF Tick, ButtonReport, UpdateReport, OtherMessage, NoMessage, Answered
<1>5. foreign \in Int /\ Spare \in Int
  BY SpareIsNat DEF MotorInv, TypeOK
<1>6. ModeChosen'
  BY <1>1, <1>2, <1>3, <1>4, <1>5 DEF ModeInv, ModeChosen, Spare
<1>7. ASSUME mode', ~chosen'
      PROVE  mode /\ ~chosen
  <2>1. CASE ButtonReport
    BY <1>7, <2>1 DEF ButtonReport
  <2>2. CASE UpdateReport
    BY <1>7, <2>2 DEF UpdateReport
  <2>3. CASE OtherMessage
    BY <1>7, <2>3 DEF OtherMessage
  <2>4. CASE NoMessage
    BY <1>7, <2>4 DEF NoMessage
  <2> QED BY <2>1, <2>2, <2>3, <2>4 DEF Tick
<1>8. ModeGoes'
  <2> SUFFICES ASSUME mode', ~chosen', (foreign <= Spare)'
               PROVE  IsFaultSet' /\ (Polls + SpareLeft <= TicksLeft)'
    BY DEF ModeGoes
  <2>1. IsFaultSet /\ Polls + SpareLeft <= TicksLeft
    BY <1>4, <1>5, <1>7 DEF ModeInv, ModeGoes, Spare
  <2>2. IsFaultSet' /\ status # {}
    BY <1>1, <2>1 DEF IsFaultSet
  <2>3. TicksLeft' = TicksLeft - 1 /\ TicksLeft \in Int
    BY <1>1, MotorAssumption DEF MotorInv, TypeOK, TicksLeft
  <2>4. TypeOK
    BY DEF MotorInv
  <2>5. Polls' + SpareLeft' <= (Polls + SpareLeft) - 1
    <3>1. CASE ButtonReport \/ UpdateReport
      <4>1. /\ asked # "nothing" /\ asked' = "nothing" /\ pollCnt' = pollCnt
            /\ foreign' = foreign
        BY <3>1 DEF ButtonReport, UpdateReport, Answered
      <4> QED BY <1>5, <2>4, <4>1 DEF TypeOK, Polls, SpareLeft, Spare
    <3>2. CASE OtherMessage
      <4>1. pollCnt' = pollCnt /\ asked' = asked
        BY <3>2 DEF OtherMessage
      <4>2. foreign' = foreign + 1
        BY <1>4, <1>7, <3>2, <1>5 DEF OtherMessage, ModeInv, ModeGoes, Spare
      <4> QED BY <1>5, <2>4, <4>1, <4>2 DEF TypeOK, Polls, SpareLeft, Spare
    <3>3. CASE NoMessage
      <4>1. pollCnt # 3 /\ foreign' = foreign
        BY <2>2, <3>3 DEF NoMessage
      <4>2. pollCnt' = pollCnt + 1
        BY <2>4, <3>3, <4>1 DEF NoMessage, TypeOK
      <4>3. asked' = IF pollCnt = 1 THEN "buttons" ELSE asked
        BY <3>3, <4>1 DEF NoMessage
      <4> QED BY <1>5, <2>4, <4>1, <4>2, <4>3 DEF TypeOK, Polls, SpareLeft, Spare
    <3> QED BY <3>1, <3>2, <3>3 DEF Tick
  <2>6. Polls \in Int /\ SpareLeft \in Int /\ Polls' \in Int /\ SpareLeft' \in Int
    <3>1. Polls \in Int /\ SpareLeft \in Int
      BY <1>5, <2>4, PollsBounded DEF SpareLeft
    <3>2. pollCnt' \in Int
      BY DEF MotorInv, TypeOK
    <3>3. SpareLeft' \in Int
      BY <1>4, <1>5 DEF SpareLeft, Spare
    <3>4. Polls' \in Int
      BY <3>2 DEF Polls
    <3> QED BY <3>1, <3>3, <3>4
  <2>7. Polls' + SpareLeft' <= TicksLeft'
    <3>1. Polls + SpareLeft \in Int /\ Polls' + SpareLeft' \in Int
      BY <2>6
    <3>2. Polls + SpareLeft <= TicksLeft
      BY <2>1
    <3> QED BY <2>3, <2>5, <3>1, <3>2
  <2> QED BY <2>2, <2>7
<1> QED BY <1>6, <1>8 DEF ModeInv

LEMMA PeriodMode ==
    ASSUME MotorInv, ModeInv, EndPeriod \/ NoTick
    PROVE  ModeInv'
<1>1. /\ pc \in {"tick", "period"} /\ pc' = "commute"
      /\ UNCHANGED <<shouldFreewheel, mode, pollCnt, asked, chosen, foreign>>
  BY DEF EndPeriod, NoTick, drive, display
<1>2. ModeChosen'
  BY <1>1 DEF ModeInv, ModeChosen
<1>3. CASE UNCHANGED <<cntTm, faults>>
  BY <1>1, <1>2, <1>3 DEF faults, ModeInv, ModeGoes, Polls, SpareLeft, TicksLeft, IsFaultSet
<1>4. CASE cntTm = Period /\ cntTm' = 0 /\ CountDown
  <2> SUFFICES ASSUME mode, ~chosen, foreign <= Spare
               PROVE  IsFaultSet' /\ (Polls + SpareLeft <= TicksLeft)'
    BY <1>1, <1>2 DEF ModeInv, ModeGoes
  <2>1. IsFaultSet /\ Polls + SpareLeft <= TicksLeft
    BY DEF ModeInv, ModeGoes
  <2>2. startup \in Nat /\ Period \in Nat /\ Polls + SpareLeft \in Int /\ Polls + SpareLeft >= 1
    <3>1. startup \in Nat /\ Period \in Nat
      BY MotorAssumption DEF MotorInv, TypeOK
    <3>2. foreign \in Int /\ Spare \in Int
      BY SpareIsNat DEF MotorInv, TypeOK
    <3> QED BY <3>1, <3>2, PollsBounded DEF MotorInv, SpareLeft
  <2>3. TicksLeft = (startup - 1) * Period
    BY <1>4, <2>2 DEF TicksLeft
  <2>4. startup > 1
    <3>1. startup = 0 => (startup - 1) * Period = -Period
      BY <2>2
    <3>2. startup = 1 => (startup - 1) * Period = 0
      BY <2>2
    <3> QED BY <2>1, <2>2, <2>3, <3>1, <3>2
  <2>5. startup' = startup - 1 /\ status' = status
    BY <1>4, <2>2, <2>4 DEF CountDown
  <2>6. TicksLeft' = (startup - 2) * Period + Period
    BY <1>4, <2>2, <2>5 DEF TicksLeft
  <2>7. (startup - 2) * Period + Period = (startup - 1) * Period
    BY <2>2
  <2>8. Polls' = Polls /\ SpareLeft' = SpareLeft
    BY <1>1 DEF Polls, SpareLeft, Spare
  <2> QED BY <2>1, <2>3, <2>5, <2>6, <2>7, <2>8 DEF IsFaultSet
<1> QED BY <1>3, <1>4 DEF EndPeriod, NoTick

LEMMA StepMode ==
    ASSUME MotorInv, MotorInv', ModeInv, [Next]_vars
    PROVE  ModeInv'
<1>1. CASE UNCHANGED vars
  BY <1>1 DEF vars, drive, faults, display, ModeInv, ModeGoes, ModeChosen, Polls, SpareLeft,
     TicksLeft, IsFaultSet
<1> QED BY <1>1, CommuteMode, FaultMode, ControlMode, TickMode, PeriodMode DEF Next

(* A fault that stops the motor costs the rider the mode: before the motor  *)
(* is driven again one has been chosen on the display, unless more than     *)
(* Spare ticks were taken by messages that are not the display's.           *)
THEOREM DriveChosen == Spec => ChosenBeforeDrive
<1>1. Init => ModeInv
  BY DEF Init, ModeInv, ModeGoes, ModeChosen
<1>2. MotorInv /\ MotorInv' /\ ModeInv /\ [Next]_vars => ModeInv'
  BY StepMode
<1>3. MotorInv /\ MotorInv' /\ ModeInv /\ [Next]_vars
        => [Commute /\ stage' # Off => chosen \/ foreign > Spare]_vars
  BY CommuteMode
<1> QED BY MotorInvariant, <1>1, <1>2, <1>3, PTL DEF Spec, ChosenBeforeDrive
=============================================================================
