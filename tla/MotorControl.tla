---------------------------- MODULE MotorControl ----------------------------
(***************************************************************************)
(* When the motor is driven: the main loop of ion_firmware/bldcdisp/       *)
(* bldcdisp.c, as far as it decides between commuting and freewheeling.    *)
(* A round reads the Hall sensors and acts on what the round before        *)
(* decided, measures, reads the throttle, runs the control loop, and every *)
(* 14 ms, at a tick, sees to the display; every 16 ticks it counts down to *)
(* forgetting old faults.  No interrupt touches what is modelled here.     *)
(***************************************************************************)
EXTENDS Integers

CONSTANTS
    Hall,           \* Hall states of a working sensor: each has its sector
    BadHall,        \* all signals low, or all high
    Off,            \* no MOSFET conducts
    Startup,        \* periods after a fault until it is forgotten (9)
    Period,         \* ticks in a period (16)
    OfflineMax,     \* ticks without an answer until the display is off line (50)
    CountMod        \* what that count, a uint16_t, wraps around at

ASSUME MotorAssumption ==
    /\ BadHall \notin Hall /\ Off \notin Hall
    /\ Startup \in Nat \ {0} /\ Period \in Nat \ {0}
    /\ OfflineMax \in Nat /\ CountMod \in Nat /\ CountMod > OfflineMax + 1

\* Six ticks without messages of others see the display polled for an update
\* that ends the mode, and a fault is remembered for longer.
ASSUME PollAssumption == (Startup - 1) * Period >= 6

\* What there is to spare: (9 - 1) * 16 - 6 = 122 ticks in the code.
Spare == (Startup - 1) * Period - 6

VARIABLES
    hallState, flagHallChanged,
    stage,                              \* the sector that is switched on, or Off
    shouldFreewheel, forceCommute,
    throttle,                           \* none, up to 4, or 5 and more
    pedalSignal,                        \* is there any?
    status, startup, cntTm,
    online, offlineCnt, mode,           \* display.online, motor.mode (0, or not)
    pollCnt, asked,                     \* poll_cnt; what the display has not answered yet
    pc,
    \* History: periods since the last fault that stops the motor, whether the
    \* rider has chosen a mode since, how many ticks other messages have taken
    \* while the mode from before stood, and rounds begun without a display or a mode.
    calm, chosen, foreign, stale

drive   == <<stage, shouldFreewheel>>
faults  == <<status, startup, calm>>
rider   == <<throttle, pedalSignal>>
display == <<online, offlineCnt, mode, pollCnt, asked, chosen, foreign>>
hall    == <<hallState, flagHallChanged>>
vars    == <<drive, faults, rider, display, hall, forceCommute, cntTm, pc, stale>>

Throttle  == {"none", "little", "enough"}
Flag      == {"hall", "throttle", "voltage"}
ErrorMask == {"throttle", "voltage"}        \* STAT_ERROR_MASK, of those in use

Init == /\ hallState \in Hall \cup {BadHall} /\ flagHallChanged \in BOOLEAN
        /\ stage = Off /\ shouldFreewheel = TRUE /\ forceCommute = FALSE
        /\ throttle = "none" /\ pedalSignal = FALSE
        /\ status = {} /\ startup = Startup + 1 /\ cntTm = 0
        /\ online = FALSE /\ offlineCnt = 0 /\ mode = FALSE
        /\ pollCnt = 0 /\ asked = "nothing"
        /\ pc = "commute"
        /\ calm = 0 /\ chosen = FALSE /\ foreign = 0 /\ stale = 0

-----------------------------------------------------------------------------
\* Slip: the count starts over without a fault.
StatusSetAlways(flags) ==
    /\ status' = status \cup flags
    /\ startup' = Startup
    /\ calm' = IF flags \cap ErrorMask = {} THEN calm ELSE 0

\* status_set
StatusSet(flags) ==
    /\ status' = status \cup flags
    /\ startup' = IF flags = {} THEN startup ELSE Startup
    /\ calm' = IF flags \cap ErrorMask = {} THEN calm ELSE 0

\* Slip: the change that has just been read is acted on in the next round.
CommuteLate(h) ==
    /\ hallState' = h /\ flagHallChanged' = (flagHallChanged \/ h # hallState)
    /\ stage' = IF shouldFreewheel \/ h = BadHall THEN Off
                ELSE IF forceCommute \/ flagHallChanged THEN h ELSE stage

\* get_hall, and to commute or to freewheel
Switch(h) ==
    /\ hallState' = h /\ flagHallChanged' = (flagHallChanged \/ h # hallState)
    /\ stage' = IF shouldFreewheel \/ h = BadHall THEN Off
                ELSE IF forceCommute \/ flagHallChanged' THEN h ELSE stage

\* Slip: the mode is not looked at.
AllowedOnline == online

Allowed == online /\ mode

Commute ==
    /\ pc = "commute" /\ pc' = "measure"
    /\ \E h \in Hall \cup {BadHall} :
           /\ Switch(h)
           /\ StatusSet(IF h = BadHall THEN {"hall"} ELSE {})
    /\ shouldFreewheel' = ~Allowed
    /\ stale' = IF online /\ mode THEN 0 ELSE IF stale = 2 THEN 2 ELSE stale + 1
    /\ UNCHANGED <<rider, display, forceCommute, cntTm>>

\* get_measurements: over- or undervoltage stops the motor at once.
Measure ==
    /\ pc = "measure" /\ pc' = "throttle"
    /\ \/ UNCHANGED <<drive, faults, chosen, foreign>>
       \/ /\ stage' = Off /\ shouldFreewheel' = TRUE
          /\ StatusSet({"voltage"}) /\ chosen' = FALSE /\ foreign' = 0
    /\ UNCHANGED <<rider, online, offlineCnt, mode, pollCnt, asked, hall, forceCommute, cntTm,
                   stale>>

\* get_throttle: without a display its last value stays, with a fault.
GetThrottle ==
    /\ pc = "throttle" /\ pc' = "control"
    /\ \/ /\ online /\ throttle' \in Throttle
          /\ UNCHANGED <<drive, faults, chosen, foreign>>
       \/ /\ ~online /\ shouldFreewheel' = TRUE
          /\ StatusSet({"throttle"}) /\ chosen' = FALSE /\ foreign' = 0
          /\ UNCHANGED <<throttle, stage>>
    /\ UNCHANGED <<pedalSignal, online, offlineCnt, mode, pollCnt, asked, hall, forceCommute,
                   cntTm, stale>>

IsFaultSet == status \cap ErrorMask # {}

\* The control loop runs when the Hall state has changed, or 14 ms have passed.
Control ==
    /\ pc = "control" /\ pc' = "tick"
    /\ \/ /\ flagHallChanged' = FALSE /\ pedalSignal' \in BOOLEAN
       \/ /\ ~flagHallChanged /\ UNCHANGED <<flagHallChanged, pedalSignal>>
    /\ shouldFreewheel' = (shouldFreewheel \/ IsFaultSet \/ (throttle # "enough" /\ ~pedalSignal'))
    /\ UNCHANGED <<stage, faults, throttle, display, hallState, forceCommute, cntTm, stale>>

-----------------------------------------------------------------------------
(* A tick                                                                  *)

Answered == /\ online' = TRUE /\ offlineCnt' = 0 /\ asked' = "nothing"
            /\ UNCHANGED <<pollCnt, throttle, pedalSignal, shouldFreewheel, foreign>>

\* The rider may have pressed the button that selects the mode.
ButtonReport ==
    /\ asked = "buttons" /\ Answered
    /\ mode' \in BOOLEAN
    /\ chosen' = (chosen \/ (mode' /\ ~mode))

UpdateReport == asked = "update" /\ Answered /\ UNCHANGED <<mode, chosen>>

\* Slip: the mode outlives the fault.
NoMessageKeeps ==
    /\ offlineCnt' = (offlineCnt + 1) % CountMod
    /\ pollCnt' = (pollCnt + 1) % 4
    /\ asked' = IF pollCnt = 1 THEN "buttons" ELSE IF pollCnt = 3 THEN "update" ELSE asked
    /\ IF offlineCnt' > OfflineMax
       THEN /\ online' = FALSE /\ mode' = FALSE /\ shouldFreewheel' = TRUE
            /\ throttle' = "none" /\ pedalSignal' = FALSE
       ELSE UNCHANGED <<online, shouldFreewheel, throttle, pedalSignal, mode>>
    /\ UNCHANGED <<chosen, foreign>>

NoMessage ==
    /\ offlineCnt' = (offlineCnt + 1) % CountMod
    /\ pollCnt' = (pollCnt + 1) % 4
    /\ asked' = IF pollCnt = 1 THEN "buttons" ELSE IF pollCnt = 3 THEN "update" ELSE asked
    /\ IF offlineCnt' > OfflineMax
       THEN /\ online' = FALSE /\ mode' = FALSE /\ shouldFreewheel' = TRUE
            /\ throttle' = "none" /\ pedalSignal' = FALSE
       ELSE /\ mode' = (mode /\ ~(pollCnt = 3 /\ status # {}))
            /\ UNCHANGED <<online, shouldFreewheel, throttle, pedalSignal>>
    /\ UNCHANGED <<chosen, foreign>>

\* A right message that is not the display's takes the tick: it is no answer,
\* and neither the silence nor the polls are counted.
OtherMessage ==
    /\ foreign' = IF mode /\ ~chosen /\ foreign <= Spare THEN foreign + 1 ELSE foreign
    /\ UNCHANGED <<online, offlineCnt, mode, pollCnt, asked, chosen, throttle, pedalSignal,
                   shouldFreewheel>>

\* A start from standstill is the one case in which nothing has changed.
Tick ==
    /\ pc = "tick" /\ pc' = "period"
    /\ cntTm' = cntTm + 1
    /\ \E standing \in BOOLEAN : forceCommute' = (throttle # "none" /\ standing)
    /\ ButtonReport \/ UpdateReport \/ OtherMessage \/ NoMessage
    /\ UNCHANGED <<stage, faults, hall, stale>>

NoTick ==
    /\ pc = "tick" /\ pc' = "commute"
    /\ UNCHANGED <<drive, faults, rider, display, hall, forceCommute, cntTm, stale>>

\* Slip: the flags are cleared at the end of every period.
ClearEveryPeriod ==
    /\ startup' = IF startup > 0 THEN startup - 1 ELSE 0
    /\ status' = {}
    /\ calm' = IF calm < Startup THEN calm + 1 ELSE calm

\* status_clear, once the count has run out
CountDown ==
    /\ startup' = IF startup > 0 THEN startup - 1 ELSE 0
    /\ status' = IF startup' = 0 THEN {} ELSE status
    /\ calm' = IF calm < Startup THEN calm + 1 ELSE calm

EndPeriod ==
    /\ pc = "period" /\ pc' = "commute"
    /\ IF cntTm = Period
       THEN cntTm' = 0 /\ CountDown
       ELSE UNCHANGED <<cntTm, faults>>
    /\ UNCHANGED <<drive, rider, display, hall, forceCommute, stale>>

-----------------------------------------------------------------------------
Next == Commute \/ Measure \/ GetThrottle \/ Control \/ Tick \/ NoTick \/ EndPeriod

Spec == Init /\ [][Next]_vars

(* The main loop goes on, and so does the timer.                           *)
FairSpec == Spec /\ WF_vars(Next) /\ SF_vars(Tick)

-----------------------------------------------------------------------------
TypeOK ==
    /\ hallState \in Hall \cup {BadHall} /\ flagHallChanged \in BOOLEAN
    /\ stage \in Hall \cup {Off} /\ shouldFreewheel \in BOOLEAN /\ forceCommute \in BOOLEAN
    /\ throttle \in Throttle /\ pedalSignal \in BOOLEAN
    /\ status \subseteq Flag /\ startup \in 0 .. Startup + 1 /\ cntTm \in 0 .. Period
    /\ online \in BOOLEAN /\ offlineCnt \in 0 .. CountMod - 1 /\ mode \in BOOLEAN
    /\ pollCnt \in 0 .. 3 /\ asked \in {"nothing", "buttons", "update"}
    /\ pc \in {"commute", "measure", "throttle", "control", "tick", "period"}
    /\ calm \in 0 .. Startup /\ chosen \in BOOLEAN
    /\ foreign \in 0 .. Spare + 1 /\ stale \in 0 .. 2

(* While the motor is driven its sector is the one of the Hall state that    *)
(* was read last: no change is missed, whether driven or freewheeling.       *)
SectorFollowsHall == stage # Off => stage = hallState

(* The motor is not driven in a round that begins without a display, nor in  *)
(* the second one that begins without a mode.                                *)
DriveStops ==
    /\ stale = 2 => stage = Off
    /\ pc = "measure" /\ ~online => stage = Off

(* After a fault that stops the motor it is not driven until Startup periods *)
(* have ended without another one.                                           *)
CalmBeforeDrive == [][Commute /\ stage' # Off => calm = Startup]_vars

(* And then the rider has chosen a mode again: the mode from before is taken *)
(* back at a poll before the fault is forgotten, unless messages that are    *)
(* not the display's took more than Spare ticks meanwhile.                   *)
ChosenBeforeDrive == [][Commute /\ stage' # Off => chosen \/ foreign > Spare]_vars

(* A fault flag does not outlast its cause for ever.                         *)
FaultsClear == <>[](calm > 0 /\ hallState # BadHall) => <>[](status = {})
=============================================================================
