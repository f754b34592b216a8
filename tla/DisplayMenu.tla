----------------------------- MODULE DisplayMenu -----------------------------
(***************************************************************************)
(* The display's two buttons and the menu they open, kept by the motor     *)
(* controller (lib_ion/bowbus.c and ion_firmware/bldcdisp/bldcdisp.c).     *)
(* The display only reports, when it is polled, which buttons are pressed; *)
(* a report can be lost, and a display can fall silent altogether.  Every  *)
(* tick of the main loop (14 ms) goes through three steps: the throttle    *)
(* from the menu, bus_tick, and the message that has come in, if any.      *)
(***************************************************************************)
EXTENDS Integers, Digits

CONSTANTS
    Limit,          \* what the setting of menus 1 to 5 stays below
    Initial,        \* and what it starts with
    Modes,          \* the mode stays below it (6)
    HoldOverride, HoldCalibrate, HoldReturn, HoldMenu8,     \* ticks: 30 50 100 200
    Timeout,        \* ticks until the menu closes (200)
    DownMax,        \* where the count of a held button stops (0xFFFF)
    OfflineMax,     \* ticks without an answer until the display is off line (50)
    CountMod,       \* what that count, a uint16_t, wraps around at
    OverrideMax,    \* full throttle (100)
    Currents,       \* currents the motor draws, in hundredths of an ampere
    Thresholds      \* values of strain_th

ASSUME DisplayMenuAssumption ==
    /\ Limit \in [1 .. 5 -> Nat \ {0}] /\ Modes \in Nat \ {0}
    /\ Initial \in [1 .. 5 -> Nat] /\ \A i \in 1 .. 5 : Initial[i] < Limit[i]
    /\ {HoldOverride, HoldCalibrate, HoldReturn, HoldMenu8, DownMax} \subseteq Nat
    /\ HoldOverride < HoldCalibrate /\ HoldCalibrate < HoldReturn
    /\ HoldReturn < HoldMenu8 /\ HoldMenu8 < DownMax
    /\ Timeout \in Nat /\ OfflineMax \in Nat /\ CountMod \in Nat /\ CountMod > OfflineMax + 1
    /\ OverrideMax \in Nat

\* What fits in the four characters of the bar.
ASSUME BarAssumption == Currents \subseteq -9999 .. 9999 /\ Thresholds \subseteq 0 .. 9999

\* What menus 1, 2, 4 and 5 set is shown as one digit (below 8, 10, 4 and 4).
ASSUME DigitAssumption == \A i \in {1, 2, 4, 5} : Limit[i] <= 10

VARIABLES
    buttonState, waitForRelease,    \* the last report; button_waitforrelease
    wasPressed,                     \* a button in the report before (button_state_prev)
    func, val,                      \* the open menu; function_val1 to function_val5
    light, roadLegal,
    menuTimeout, menuDowncnt,
    mode,                           \* motor.mode
    online, offlineCnt,             \* is the display there?
    throttleOverride, flagSave,
    pollCnt, asked,                 \* poll_cnt; what the display has not answered yet
    pc,
    \* History: front presses since the menu was opened, whether all buttons have
    \* been released since the light was switched, and how the strain threshold
    \* was changed since it was saved: by holding a button in menu 3, or "set" by
    \* a short press there or by menu 8.
    fronts, released, unsaved

buttons  == <<buttonState, waitForRelease, wasPressed>>
settings == <<val, light, roadLegal, mode>>
menu     == <<func, menuTimeout, menuDowncnt, fronts>>
display  == <<online, offlineCnt, pollCnt, asked>>
strain   == <<flagSave, unsaved>>
vars     == <<buttons, settings, menu, display, throttleOverride, strain, pc, released>>

Top == "top"
Front == "front"

Init == /\ buttonState = {} /\ waitForRelease = FALSE /\ wasPressed = FALSE
        /\ func = 0 /\ val = Initial /\ light = FALSE /\ roadLegal = TRUE
        /\ menuTimeout = 0 /\ menuDowncnt = 0 /\ mode = 0
        /\ online = FALSE /\ offlineCnt = 0
        /\ throttleOverride = 0 /\ flagSave = FALSE
        /\ pollCnt = 0 /\ asked = "nothing"
        /\ pc = "override" /\ fronts = 0 /\ released = TRUE /\ unsaved = {}

-----------------------------------------------------------------------------
(* Every tick: the throttle from the menu, then bus_tick.                  *)

Override ==
    /\ pc = "override" /\ pc' = "tick"
    /\ throttleOverride' =
           IF online /\ func = 0 /\ ~roadLegal /\ menuDowncnt > HoldOverride
           THEN IF throttleOverride < OverrideMax THEN throttleOverride + 1 ELSE OverrideMax
           ELSE 0
    /\ UNCHANGED <<buttons, settings, menu, display, strain, released>>

\* bus_tick
BusTick ==
    /\ pc = "tick" /\ pc' = "message"
    /\ menuDowncnt' = IF buttonState # {} /\ menuDowncnt < DownMax
                      THEN menuDowncnt + 1 ELSE menuDowncnt
    /\ \/ /\ menuDowncnt' < HoldReturn /\ menuTimeout > 0
          /\ menuTimeout' = menuTimeout - 1 /\ UNCHANGED <<func, fronts>>
       \/ /\ menuDowncnt' < HoldReturn /\ menuTimeout = 0
          /\ func' = 0 /\ fronts' = IF func = 0 THEN fronts ELSE 0
          /\ UNCHANGED menuTimeout
       \/ /\ menuDowncnt' >= HoldReturn
          /\ UNCHANGED <<menuTimeout, func, fronts>>
    /\ UNCHANGED <<buttons, settings, display, throttleOverride, strain, released>>

-----------------------------------------------------------------------------
(* What bus_display_buttonpress makes of a report: nothing yet, or one of  *)
(* three presses, which count once the buttons of the last report change.  *)

Increment(i) == val' = [val EXCEPT ![i] = IF @ + 1 = Limit[i] THEN 0 ELSE @ + 1]

\* Slip: nothing waits for the release.
PressBothOn ==
    /\ buttonState = {Top, Front}
    /\ light' = ~light
    /\ UNCHANGED <<func, val, roadLegal, mode, fronts, waitForRelease>>

\* Both buttons: the light.
PressBoth ==
    /\ buttonState = {Top, Front}
    /\ light' = ~light /\ waitForRelease' = TRUE
    /\ UNCHANGED <<func, val, roadLegal, mode, fronts>>

\* Slip: the count of menu 4 is kept.
PressTopKeeps ==
    /\ buttonState = {Top} /\ buttonState' # {Top, Front}
    /\ func' = (func + 1) % 6 /\ fronts' = 0
    /\ UNCHANGED <<waitForRelease, light, roadLegal, mode, val>>

\* The top button: the next menu, unless the other button is pressed as well.
PressTop ==
    /\ buttonState = {Top} /\ buttonState' # {Top, Front}
    /\ func' = (func + 1) % 6 /\ fronts' = 0
    /\ val' = [val EXCEPT ![4] = 0]
    /\ UNCHANGED <<waitForRelease, light, roadLegal, mode>>

\* The front button: the mode, a setting, or at the fourth press in menu 4
\* the limits that the law asks for.
PressFront ==
    /\ buttonState = {Front}
    /\ fronts' = IF fronts + 1 = Limit[4] THEN 0 ELSE fronts + 1
    /\ \/ /\ func = 0
          /\ mode' = IF ~roadLegal THEN mode ELSE IF mode + 1 = Modes THEN 0 ELSE mode + 1
          /\ UNCHANGED <<val, roadLegal>>
       \/ /\ func \in {1, 2, 3, 5}
          /\ Increment(func)
          /\ UNCHANGED <<mode, roadLegal>>
       \/ /\ func = 4
          /\ Increment(4)
          /\ roadLegal' = IF val'[4] = 0 THEN ~roadLegal ELSE roadLegal
          /\ UNCHANGED mode
       \/ /\ func = 8
          /\ UNCHANGED <<val, mode, roadLegal>>
    /\ UNCHANGED <<func, waitForRelease, light>>

PressNothing ==
    /\ \/ buttonState = {}
       \/ buttonState = {Top} /\ buttonState' = {Top, Front}
    /\ UNCHANGED <<func, waitForRelease, settings, fronts>>

Changed ==
    /\ ~waitForRelease /\ buttonState' # buttonState
    /\ menuTimeout' = Timeout /\ menuDowncnt' = 0
    /\ PressBoth \/ PressTop \/ PressFront \/ PressNothing

\* A long press on the top button opens menu 8.
Held ==
    /\ ~waitForRelease /\ buttonState' = buttonState
    /\ func' = IF buttonState = {Top} /\ menuDowncnt > HoldMenu8 THEN 8 ELSE func
    /\ fronts' = IF func' = func THEN fronts ELSE 0
    /\ UNCHANGED <<waitForRelease, settings, menuTimeout, menuDowncnt>>

\* After the light was switched all buttons must be released.
AwaitRelease ==
    /\ waitForRelease /\ waitForRelease' = (buttonState' # {})
    /\ UNCHANGED <<settings, menu>>

-----------------------------------------------------------------------------
(* The message of this tick: bus_check_for_message, bus_parse_battery      *)

Answered == /\ online' = TRUE /\ offlineCnt' = 0 /\ asked' = "nothing"
            /\ UNCHANGED pollCnt

\* The answer to a poll: the buttons that are pressed.
ButtonReport(pressed) ==
    /\ pc = "message" /\ pc' = "override" /\ asked = "buttons"
    /\ Answered
    /\ buttonState' = pressed /\ wasPressed' = (buttonState # {})
    /\ AwaitRelease \/ Changed \/ Held
    /\ released' = (light' = light /\ (released \/ pressed = {}))
    /\ UNCHANGED <<throttleOverride, strain>>

\* The answer to bus_display_update.
UpdateReport ==
    /\ pc = "message" /\ pc' = "override" /\ asked = "update"
    /\ Answered
    /\ UNCHANGED <<buttons, settings, menu, throttleOverride, strain, released>>

\* A message that is not for us: no answer, but no silence either.
OtherMessage ==
    /\ pc = "message" /\ pc' = "override"
    /\ UNCHANGED <<buttons, settings, menu, display, throttleOverride, strain, released>>

\* Slip: the display stays on line.
SilenceCounts ==
    /\ offlineCnt' = (offlineCnt + 1) % CountMod
    /\ roadLegal' = (roadLegal \/ offlineCnt' > OfflineMax)
    /\ UNCHANGED online

Silence ==
    /\ offlineCnt' = (offlineCnt + 1) % CountMod
    /\ roadLegal' = (roadLegal \/ offlineCnt' > OfflineMax)
    /\ online' = (online /\ offlineCnt' <= OfflineMax)

\* Menu 8 sets the threshold to 200, menu 3 raises it, at each update: by the
\* strain measured while a button is held, by one if the last report was a press.
Raising == func = 3 /\ menuDowncnt > HoldCalibrate

Changes ==
    IF func = 8 /\ menuDowncnt > HoldReturn THEN {{}, {"set"}}
    ELSE IF Raising THEN {{}, {"held"}}
    ELSE IF func = 3 /\ ~wasPressed /\ buttonState = {Front} THEN {{"set"}}
    ELSE {{}}

\* Slip: the strain threshold is saved only in its own menu.
SaveInMenu ==
    \E change \in Changes :
        IF (flagSave \/ Raising) /\ func = 3 /\ menuTimeout = 0
        THEN flagSave' = FALSE /\ unsaved' = {}
        ELSE flagSave' = (flagSave \/ Raising) /\ unsaved' = unsaved \cup change

\* Strain calibration, and the write to the EEPROM once the time of the menu is up:
\* of the threshold as it then is, but only if holding a button asked for it.
Calibrate ==
    \E change \in Changes :
        IF (flagSave \/ Raising) /\ menuTimeout = 0
        THEN flagSave' = FALSE /\ unsaved' = {}
        ELSE flagSave' = (flagSave \/ Raising) /\ unsaved' = unsaved \cup change

\* No message, or one that is not right.  Every second time the display is
\* polled or updated.
NoMessage ==
    /\ pc = "message" /\ pc' = "override"
    /\ Silence
    /\ \E fault \in BOOLEAN :       \* status
           mode' = IF offlineCnt' > OfflineMax \/ (pollCnt = 3 /\ fault) THEN 0 ELSE mode
    /\ pollCnt' = (pollCnt + 1) % 4
    /\ asked' = IF pollCnt = 1 THEN "buttons" ELSE IF pollCnt = 3 THEN "update" ELSE asked
    /\ IF pollCnt = 3 THEN Calibrate ELSE UNCHANGED strain
    /\ UNCHANGED <<buttons, val, light, menu, throttleOverride, released>>

-----------------------------------------------------------------------------
Next == \/ Override \/ BusTick
        \/ \E pressed \in SUBSET {Top, Front} : ButtonReport(pressed)
        \/ UpdateReport \/ OtherMessage \/ NoMessage

Spec == Init /\ [][Next]_vars

(* The main loop goes on; foreign messages do not fill every tick.         *)
FairSpec == Spec /\ WF_vars(Override) /\ WF_vars(BusTick) /\ SF_vars(NoMessage)

-----------------------------------------------------------------------------
TypeOK ==
    /\ buttonState \subseteq {Top, Front} /\ waitForRelease \in BOOLEAN /\ wasPressed \in BOOLEAN
    /\ func \in 0 .. 5 \cup {8}
    /\ val \in [1 .. 5 -> Nat] /\ \A i \in 1 .. 5 : val[i] < Limit[i]
    /\ light \in BOOLEAN /\ roadLegal \in BOOLEAN
    /\ menuTimeout \in 0 .. Timeout /\ menuDowncnt \in 0 .. DownMax
    /\ mode \in 0 .. Modes - 1
    /\ online \in BOOLEAN /\ offlineCnt \in 0 .. CountMod - 1
    /\ throttleOverride \in 0 .. OverrideMax /\ flagSave \in BOOLEAN
    /\ pollCnt \in 0 .. 3 /\ asked \in {"nothing", "buttons", "update"}
    /\ pc \in {"override", "tick", "message"}
    /\ fronts \in 0 .. Limit[4] - 1 /\ released \in BOOLEAN /\ unsaved \subseteq {"held", "set"}

(* No throttle from the menu while the motor keeps to the legal limits, nor  *)
(* on reports older than OfflineMax ticks.  (When the display goes off line  *)
(* the throttle is still there until the next tick; get_throttle does not    *)
(* take it then.)                                                            *)
OverrideUnlocked ==
    throttleOverride > 0 /\ online => ~roadLegal /\ offlineCnt <= OfflineMax

(* It takes four presses in a row in menu 4 to leave or return to the legal  *)
(* limits, however the rider got to that menu; only silence returns to them  *)
(* as well.                                                                  *)
LegalOnPurpose ==
    [][roadLegal' # roadLegal => \/ func = 4 /\ fronts = Limit[4] - 1
                                 \/ roadLegal' /\ ~online']_vars

(* Once the light was switched, it is not switched again before all buttons  *)
(* have been released.                                                       *)
LightOnce == [][light' # light => released]_vars

(* What the bar shows reads as what it is meant to show.                     *)
BarReads ==
    LET Read(c, th) == Characters(BarBytes(Bar(func, val, c, 0, th)))
    IN  /\ func = 0 => \A c \in Currents : Number(Read(c, 0)) = c
        /\ func = 3 => \A th \in Thresholds : Number(Read(0, th)) = th
        /\ func \in {1, 2, 4, 5} => Read(0, 0)[5] = val[func]

(* Left alone, and with the count of a held button below HoldReturn, the     *)
(* menu closes, and a strain threshold that was raised by holding a button   *)
(* has been saved.  A longer count can be left behind with no button pressed *)
(* and keeps the menu open for good (bowbus.c:488); a threshold that was set *)
(* by a short press in menu 3 or in menu 8 need never be saved.              *)
Resting == buttonState = {} /\ menuDowncnt < HoldReturn
MenuCloses == <>[]Resting => <>[](func = 0 /\ ~flagSave /\ "held" \notin unsaved)

(* bldcdisp.c says "Override by pressing button": a tick sets the throttle   *)
(* from the menu only while a button is pressed.                             *)
OverrideByPressing == [][Override /\ throttleOverride' > 0 => buttonState # {}]_vars
=============================================================================
