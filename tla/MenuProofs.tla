----------------------------- MODULE MenuProofs -----------------------------
(* The menu and the legal limits, for settings, times and counts of any size. *)
EXTENDS DisplayMenu, TLAPS

(* In menu 4 the setting counts the presses of the front button.             *)
FrontsCounted == func = 4 => fronts = val[4]

(* A display that is on line has answered lately.                            *)
OnlineFresh == online => offlineCnt <= OfflineMax

(* Until the message of the tick the throttle from the menu is what the menu *)
(* and the display allow.                                                    *)
OverrideJustified ==
    pc # "override" /\ throttleOverride > 0 => online /\ func = 0

(* Who does not wait for a release has seen one.                             *)
ReleaseSeen == ~waitForRelease => released

MenuInv == TypeOK /\ OverrideUnlocked /\ FrontsCounted /\ OnlineFresh
           /\ OverrideJustified /\ ReleaseSeen

(* The facts about the constants that the proofs need.                       *)
LEMMA ConstantTypes ==
    /\ Modes \in Nat /\ Modes > 0 /\ Timeout \in Nat /\ DownMax \in Nat
    /\ OfflineMax \in Nat /\ CountMod \in Nat /\ CountMod > OfflineMax + 1
    /\ OverrideMax \in Nat
BY DisplayMenuAssumption

LEMMA LimitTypes ==
    /\ \A i \in 1 .. 5 : Limit[i] \in Nat /\ Limit[i] > 0
    /\ Limit[4] \in Nat /\ Limit[4] > 0
<1>1. Limit \in [1 .. 5 -> Nat \ {0}]
  BY DisplayMenuAssumption
<1>2. \A i \in 1 .. 5 : Limit[i] \in Nat /\ Limit[i] > 0
  BY <1>1
<1> QED BY <1>2

LEMMA InitMenu == Init => MenuInv
<1> SUFFICES ASSUME Init PROVE MenuInv
  OBVIOUS
<1>1. val \in [1 .. 5 -> Nat] /\ \A i \in 1 .. 5 : val[i] < Limit[i]
  BY DisplayMenuAssumption DEF Init
<1>2. fronts \in 0 .. Limit[4] - 1 /\ mode \in 0 .. Modes - 1 /\ offlineCnt \in 0 .. CountMod - 1
      /\ menuTimeout \in 0 .. Timeout /\ menuDowncnt \in 0 .. DownMax
      /\ throttleOverride \in 0 .. OverrideMax
  BY ConstantTypes, LimitTypes DEF Init
<1>3. /\ buttonState \subseteq {Top, Front} /\ pollCnt \in 0 .. 3 /\ func \in 0 .. 5 \cup {8}
      /\ asked \in {"nothing", "buttons", "update"} /\ pc \in {"override", "tick", "message"}
  BY DEF Init
<1>4. /\ waitForRelease \in BOOLEAN /\ light \in BOOLEAN /\ roadLegal \in BOOLEAN
      /\ online \in BOOLEAN /\ flagSave \in BOOLEAN /\ released \in BOOLEAN
      /\ wasPressed \in BOOLEAN /\ unsaved \subseteq {"held", "set"}
  BY Zenon DEF Init
<1>5. TypeOK
  BY <1>1, <1>2, <1>3, <1>4, Zenon DEF TypeOK
<1> QED BY <1>5 DEF Init, MenuInv, OverrideUnlocked, FrontsCounted, OnlineFresh,
           OverrideJustified, ReleaseSeen

-----------------------------------------------------------------------------
LEMMA OverrideKeeps ==
    ASSUME MenuInv, Override
    PROVE  MenuInv' /\ UNCHANGED <<roadLegal, light>>
<1> USE DEF MenuInv
<1>1. /\ pc = "override" /\ pc' = "tick"
      /\ UNCHANGED <<buttonState, wasPressed, waitForRelease, val, light, roadLegal, mode, func,
                     menuTimeout, menuDowncnt, fronts, online, offlineCnt, pollCnt, asked,
                     flagSave, unsaved, released>>
  BY DEF Override, buttons, settings, menu, display, strain
<1>2. throttleOverride' \in 0 .. OverrideMax
  BY ConstantTypes DEF Override, TypeOK
<1>3. throttleOverride' > 0 => online /\ func = 0 /\ ~roadLegal
  BY DEF Override
<1>4. TypeOK'
  BY <1>1, <1>2 DEF TypeOK
<1> QED BY <1>1, <1>3, <1>4 DEF OverrideUnlocked, FrontsCounted, OnlineFresh,
           OverrideJustified, ReleaseSeen

LEMMA BusTickKeeps ==
    ASSUME MenuInv, BusTick
    PROVE  MenuInv' /\ UNCHANGED <<roadLegal, light>>
<1> USE DEF MenuInv
<1>1. /\ pc = "tick" /\ pc' = "message"
      /\ UNCHANGED <<buttonState, wasPressed, waitForRelease, val, light, roadLegal, mode,
                     online, offlineCnt, pollCnt, asked, throttleOverride, flagSave, unsaved,
                     released>>
  BY DEF BusTick, buttons, settings, display, strain
<1>2. menuDowncnt' \in 0 .. DownMax /\ menuTimeout' \in 0 .. Timeout
  BY ConstantTypes DEF BusTick, TypeOK
<1>3. \/ func' = func /\ fronts' = fronts
      \/ func' = 0 /\ fronts' \in {fronts, 0}
  BY DEF BusTick
<1>4. fronts' \in 0 .. Limit[4] - 1 /\ func' \in 0 .. 5 \cup {8}
  BY <1>3, LimitTypes DEF TypeOK
<1>5. TypeOK'
  BY <1>1, <1>2, <1>4 DEF TypeOK
<1> QED BY <1>1, <1>3, <1>5 DEF OverrideUnlocked, FrontsCounted, OnlineFresh,
           OverrideJustified, ReleaseSeen

-----------------------------------------------------------------------------
(* What a press does, whichever it is.                                       *)
LEMMA IncrementBounds ==
    ASSUME TypeOK, NEW i \in 1 .. 5, Increment(i)
    PROVE  /\ val' \in [1 .. 5 -> Nat] /\ \A j \in 1 .. 5 : val'[j] < Limit[j]
           /\ val'[i] = IF val[i] + 1 = Limit[i] THEN 0 ELSE val[i] + 1
           /\ \A j \in 1 .. 5 : j # i => val'[j] = val[j]
<1>1. val \in [1 .. 5 -> Nat]
  BY DEF TypeOK
<1>6. \A j \in 1 .. 5 : val[j] < Limit[j] /\ Limit[j] \in Nat /\ Limit[j] > 0
  BY LimitTypes DEF TypeOK
<1> DEFINE next == IF val[i] + 1 = Limit[i] THEN 0 ELSE val[i] + 1
<1>2. next \in Nat /\ next < Limit[i]
  BY <1>1, <1>6
<1>3. val' = [val EXCEPT ![i] = next]
  BY DEF Increment
<1> HIDE DEF next
<1>4. /\ val' \in [1 .. 5 -> Nat] /\ val'[i] = next
      /\ \A j \in 1 .. 5 : j # i => val'[j] = val[j]
  BY <1>1, <1>2, <1>3
<1>5. \A j \in 1 .. 5 : val'[j] < Limit[j]
  BY <1>1, <1>2, <1>4, <1>6
<1> QED BY <1>4, <1>5 DEF next

(* A press of the front button leaves the legal limits alone, except in menu *)
(* 4 when the presses counted there are complete.                            *)
LEMMA PressFrontKeeps ==
    ASSUME TypeOK, FrontsCounted, PressFront
    PROVE  /\ val' \in [1 .. 5 -> Nat] /\ \A j \in 1 .. 5 : val'[j] < Limit[j]
           /\ fronts' \in 0 .. Limit[4] - 1 /\ mode' \in 0 .. Modes - 1
           /\ FrontsCounted' /\ roadLegal' \in BOOLEAN
           /\ roadLegal' # roadLegal => func = 4 /\ fronts = Limit[4] - 1
           /\ UNCHANGED <<func, waitForRelease, light>>
<1>1. 4 \in 1 .. 5 /\ Limit[4] \in Nat /\ Limit[4] > 0 /\ fronts \in 0 .. Limit[4] - 1
  BY LimitTypes DEF TypeOK
<1>2. /\ fronts' = IF fronts + 1 = Limit[4] THEN 0 ELSE fronts + 1
      /\ UNCHANGED <<func, waitForRelease, light>>
  BY DEF PressFront
<1>3. fronts' \in 0 .. Limit[4] - 1
  BY <1>1, <1>2
<1>4. CASE func = 0
  <2>1. /\ mode' = IF ~roadLegal THEN mode ELSE IF mode + 1 = Modes THEN 0 ELSE mode + 1
        /\ UNCHANGED <<val, roadLegal>>
    BY <1>4 DEF PressFront
  <2>2. mode' \in 0 .. Modes - 1
    BY <2>1, ConstantTypes DEF TypeOK
  <2> QED BY <1>2, <1>3, <1>4, <2>1, <2>2 DEF TypeOK, FrontsCounted
<1>5. CASE func \in {1, 2, 3, 5}
  <2>1. Increment(func) /\ UNCHANGED <<mode, roadLegal>>
    BY <1>5 DEF PressFront
  <2>2. func \in 1 .. 5
    BY <1>5
  <2>3. val' \in [1 .. 5 -> Nat] /\ \A j \in 1 .. 5 : val'[j] < Limit[j]
    BY <2>1, <2>2, IncrementBounds
  <2> QED BY <1>2, <1>3, <1>5, <2>1, <2>3 DEF TypeOK, FrontsCounted
<1>6. CASE func = 4
  <2>1. /\ Increment(4) /\ UNCHANGED mode
        /\ roadLegal' = IF val'[4] = 0 THEN ~roadLegal ELSE roadLegal
    BY <1>6 DEF PressFront
  <2>2. /\ val' \in [1 .. 5 -> Nat] /\ \A j \in 1 .. 5 : val'[j] < Limit[j]
        /\ val'[4] = IF val[4] + 1 = Limit[4] THEN 0 ELSE val[4] + 1
    BY <1>1, <2>1, IncrementBounds
  <2>3. val[4] = fronts /\ val[4] \in Nat
    BY <1>1, <1>6 DEF FrontsCounted
  <2>4. val'[4] = fronts' /\ (val'[4] = 0 => fronts = Limit[4] - 1)
    BY <1>1, <1>2, <2>2, <2>3
  <2>5. roadLegal' # roadLegal => fronts = Limit[4] - 1
    BY <2>1, <2>4
  <2>6. roadLegal' \in BOOLEAN
    BY <2>1 DEF TypeOK
  <2> QED BY <1>2, <1>3, <1>6, <2>1, <2>2, <2>4, <2>5, <2>6 DEF TypeOK, FrontsCounted
<1>7. CASE func = 8
  <2>1. UNCHANGED <<val, mode, roadLegal>>
    BY <1>7 DEF PressFront
  <2> QED BY <1>2, <1>3, <1>7, <2>1 DEF TypeOK, FrontsCounted
<1> QED BY <1>4, <1>5, <1>6, <1>7 DEF PressFront


LEMMA PressKeeps ==
    ASSUME TypeOK, FrontsCounted, ReleaseSeen, ~waitForRelease,
           PressBoth \/ PressTop \/ PressFront \/ PressNothing
    PROVE  /\ val' \in [1 .. 5 -> Nat] /\ \A j \in 1 .. 5 : val'[j] < Limit[j]
           /\ fronts' \in 0 .. Limit[4] - 1 /\ mode' \in 0 .. Modes - 1
           /\ func' \in 0 .. 5 \cup {8} /\ roadLegal' \in BOOLEAN
           /\ waitForRelease' \in BOOLEAN /\ light' \in BOOLEAN
           /\ FrontsCounted'
           /\ roadLegal' # roadLegal => func = 4 /\ fronts = Limit[4] - 1
           /\ waitForRelease' = FALSE => light' = light
<1>0. /\ val \in [1 .. 5 -> Nat] /\ \A j \in 1 .. 5 : val[j] < Limit[j]
      /\ fronts \in 0 .. Limit[4] - 1 /\ mode \in 0 .. Modes - 1 /\ func \in 0 .. 5 \cup {8}
  BY DEF TypeOK
<1>1. roadLegal \in BOOLEAN /\ light \in BOOLEAN /\ waitForRelease = FALSE
  BY DEF TypeOK
<1>2. CASE PressBoth
  <2>1. /\ UNCHANGED <<func, val, roadLegal, mode, fronts>>
        /\ light' = ~light /\ waitForRelease' = TRUE
    BY <1>2 DEF PressBoth
  <2> QED BY <1>0, <1>1, <2>1 DEF FrontsCounted
<1>3. CASE PressTop
  <2>1. /\ UNCHANGED <<waitForRelease, light, roadLegal, mode>>
        /\ func' = (func + 1) % 6 /\ fronts' = 0 /\ val' = [val EXCEPT ![4] = 0]
    BY <1>3 DEF PressTop
  <2>2. val' \in [1 .. 5 -> Nat] /\ val'[4] = 0 /\ \A j \in 1 .. 5 : val'[j] < Limit[j]
    BY <1>0, <2>1, LimitTypes
  <2>3. func' \in 0 .. 5 \cup {8}
    BY <1>0, <2>1
  <2>4. fronts' \in 0 .. Limit[4] - 1
    BY <2>1, LimitTypes
  <2> QED BY <1>0, <1>1, <2>1, <2>2, <2>3, <2>4 DEF FrontsCounted
<1>4. CASE PressFront
  <2>1. UNCHANGED <<func, waitForRelease, light>>
    BY <1>4, PressFrontKeeps
  <2> QED BY <1>0, <1>1, <1>4, <2>1, PressFrontKeeps
<1>5. CASE PressNothing
  <2>1. UNCHANGED <<func, waitForRelease, settings, fronts>>
    BY <1>5 DEF PressNothing
  <2> QED BY <1>0, <1>1, <2>1 DEF FrontsCounted, settings
<1> QED BY <1>2, <1>3, <1>4, <1>5

-----------------------------------------------------------------------------
(* What a report of the buttons does.                                        *)
LEMMA ReportKeeps ==
    ASSUME MenuInv, NEW pressed \in SUBSET {Top, Front}, ButtonReport(pressed)
    PROVE  /\ MenuInv'
           /\ roadLegal' # roadLegal => func = 4 /\ fronts = Limit[4] - 1
           /\ light' # light => released
<1> USE DEF MenuInv
<1>1. /\ pc = "message" /\ pc' = "override" /\ UNCHANGED throttleOverride
      /\ offlineCnt' = 0 /\ asked' = "nothing" /\ pollCnt' = pollCnt
      /\ buttonState' = pressed
  BY DEF ButtonReport, Answered
<1>2. online' = TRUE /\ flagSave' = flagSave /\ unsaved' = unsaved
      /\ wasPressed' = (buttonState # {})
      /\ released' = (light' = light /\ (released \/ pressed = {}))
  BY DEF ButtonReport, Answered, strain
<1>3. throttleOverride > 0 => online /\ func = 0 /\ ~roadLegal
  BY <1>1 DEF OverrideJustified, OverrideUnlocked
<1>4. /\ val' \in [1 .. 5 -> Nat] /\ \A j \in 1 .. 5 : val'[j] < Limit[j]
      /\ fronts' \in 0 .. Limit[4] - 1 /\ mode' \in 0 .. Modes - 1
      /\ func' \in 0 .. 5 \cup {8} /\ roadLegal' \in BOOLEAN
      /\ waitForRelease' \in BOOLEAN /\ light' \in BOOLEAN
      /\ FrontsCounted'
      /\ roadLegal' # roadLegal => func = 4 /\ fronts = Limit[4] - 1
      /\ menuTimeout' \in 0 .. Timeout /\ menuDowncnt' \in 0 .. DownMax
      /\ light' # light => ~waitForRelease
      /\ ~waitForRelease' => light' = light /\ (~waitForRelease \/ pressed = {})
  <2>0. /\ val \in [1 .. 5 -> Nat] /\ \A j \in 1 .. 5 : val[j] < Limit[j]
        /\ fronts \in 0 .. Limit[4] - 1 /\ mode \in 0 .. Modes - 1 /\ func \in 0 .. 5 \cup {8}
        /\ menuTimeout \in 0 .. Timeout /\ menuDowncnt \in 0 .. DownMax
    BY DEF TypeOK
  <2>1. roadLegal \in BOOLEAN /\ light \in BOOLEAN /\ waitForRelease \in BOOLEAN
    BY DEF TypeOK
  <2>2. CASE AwaitRelease
    <3>1. /\ UNCHANGED <<settings, menu>>
          /\ waitForRelease' = (pressed # {})
      BY <1>1, <2>2 DEF AwaitRelease
    <3>2. UNCHANGED <<val, light, roadLegal, mode, func, menuTimeout, menuDowncnt, fronts>>
      BY <3>1 DEF settings, menu
    <3>3. waitForRelease' \in BOOLEAN /\ (~waitForRelease' => pressed = {})
      BY <3>1
    <3> QED BY <2>0, <2>1, <3>2, <3>3 DEF FrontsCounted
  <2>3. CASE Changed
    <3>1. /\ ~waitForRelease /\ (PressBoth \/ PressTop \/ PressFront \/ PressNothing)
          /\ menuTimeout' = Timeout /\ menuDowncnt' = 0
      BY <2>3 DEF Changed
    <3>2. menuTimeout' \in 0 .. Timeout /\ menuDowncnt' \in 0 .. DownMax
      BY <3>1, ConstantTypes
    <3> QED BY <3>1, <3>2, PressKeeps, Zenon
  <2>4. CASE Held
    <3>1. /\ ~waitForRelease /\ func' \in {func, 8}
          /\ fronts' = IF func' = func THEN fronts ELSE 0
          /\ UNCHANGED <<waitForRelease, settings, menuTimeout, menuDowncnt>>
      BY <2>4 DEF Held
    <3>2. UNCHANGED <<val, light, roadLegal, mode>>
      BY <3>1 DEF settings
    <3>3. fronts' \in 0 .. Limit[4] - 1 /\ func' \in 0 .. 5 \cup {8} /\ FrontsCounted'
      BY <2>0, <3>1, <3>2, LimitTypes DEF FrontsCounted
    <3> QED BY <2>0, <2>1, <3>1, <3>2, <3>3
  <2> QED BY <2>2, <2>3, <2>4 DEF ButtonReport
<1>5. released' \in BOOLEAN /\ (~waitForRelease' => released')
  BY <1>2, <1>4 DEF ReleaseSeen
<1>6. light' # light => released
  BY <1>4 DEF ReleaseSeen
<1>7. throttleOverride' > 0 => roadLegal' = roadLegal
  BY <1>1, <1>3, <1>4
<1>8. online' \in BOOLEAN /\ flagSave' \in BOOLEAN /\ wasPressed' \in BOOLEAN
      /\ unsaved' \subseteq {"held", "set"}
  BY <1>2 DEF TypeOK
<1>9. /\ offlineCnt' \in 0 .. CountMod - 1 /\ offlineCnt' <= OfflineMax
      /\ throttleOverride' \in 0 .. OverrideMax /\ pollCnt' \in 0 .. 3
  BY <1>1, ConstantTypes DEF TypeOK
<1>10. TypeOK'
  BY <1>1, <1>4, <1>5, <1>8, <1>9, Zenon DEF TypeOK
<1>11. OverrideUnlocked'
  BY <1>1, <1>3, <1>7, <1>9 DEF OverrideUnlocked
<1>12. OverrideJustified' /\ OnlineFresh' /\ ReleaseSeen'
  BY <1>1, <1>5, <1>9 DEF OverrideJustified, OnlineFresh, ReleaseSeen
<1> QED BY <1>4, <1>6, <1>10, <1>11, <1>12

LEMMA UpdateKeeps ==
    ASSUME MenuInv, UpdateReport
    PROVE  MenuInv' /\ UNCHANGED <<roadLegal, light>>
<1> USE DEF MenuInv
<1>1. /\ pc = "message" /\ pc' = "override" /\ online' = TRUE /\ offlineCnt' = 0
      /\ asked' = "nothing" /\ pollCnt' = pollCnt
      /\ UNCHANGED <<buttonState, wasPressed, waitForRelease, val, light, roadLegal, mode, func,
                     menuTimeout, menuDowncnt, fronts, throttleOverride, flagSave, unsaved,
                     released>>
  BY DEF UpdateReport, Answered, buttons, settings, menu, strain
<1>2. offlineCnt' \in 0 .. CountMod - 1 /\ offlineCnt' <= OfflineMax
  BY <1>1, ConstantTypes
<1>3. TypeOK'
  BY <1>1, <1>2 DEF TypeOK
<1>4. throttleOverride > 0 => online
  BY <1>1 DEF OverrideJustified
<1>5. OverrideUnlocked'
  BY <1>1, <1>2, <1>4 DEF OverrideUnlocked
<1> QED BY <1>1, <1>2, <1>3, <1>5 DEF FrontsCounted, OnlineFresh, OverrideJustified, ReleaseSeen

LEMMA OtherKeeps ==
    ASSUME MenuInv, OtherMessage
    PROVE  MenuInv' /\ UNCHANGED <<roadLegal, light>>
<1> USE DEF MenuInv
<1>1. /\ pc = "message" /\ pc' = "override"
      /\ UNCHANGED <<buttonState, wasPressed, waitForRelease, val, light, roadLegal, mode, func,
                     menuTimeout, menuDowncnt, fronts, online, offlineCnt, pollCnt, asked,
                     throttleOverride, flagSave, unsaved, released>>
  BY DEF OtherMessage, buttons, settings, menu, display, strain
<1>2. TypeOK'
  BY <1>1 DEF TypeOK
<1> QED BY <1>1, <1>2 DEF OverrideUnlocked, FrontsCounted, OnlineFresh, OverrideJustified,
           ReleaseSeen

(* Silence returns to the legal limits only when it takes the display off    *)
(* line as well.                                                             *)
LEMMA SilentKeeps ==
    ASSUME MenuInv, NoMessage
    PROVE  /\ MenuInv' /\ UNCHANGED light
           /\ roadLegal' # roadLegal => roadLegal' /\ ~online'
<1> USE DEF MenuInv
<1>1. /\ pc = "message" /\ pc' = "override"
      /\ UNCHANGED <<buttonState, wasPressed, waitForRelease, val, light, func, menuTimeout,
                     menuDowncnt, fronts, throttleOverride, released>>
      /\ offlineCnt' = (offlineCnt + 1) % CountMod /\ pollCnt' = (pollCnt + 1) % 4
  BY DEF NoMessage, Silence, buttons, menu
<1>2. /\ roadLegal' = (roadLegal \/ offlineCnt' > OfflineMax)
      /\ online' = (online /\ offlineCnt' <= OfflineMax)
  BY DEF NoMessage, Silence
<1>3. offlineCnt \in Nat /\ offlineCnt < CountMod /\ pollCnt \in 0 .. 3
  BY ConstantTypes DEF TypeOK
<1>4. offlineCnt' \in 0 .. CountMod - 1 /\ pollCnt' \in 0 .. 3
  BY <1>1, <1>3, ConstantTypes
<1>5. mode' \in {0, mode} /\ asked' \in {asked, "buttons", "update"}
  BY DEF NoMessage
<1>6. mode' \in 0 .. Modes - 1 /\ asked' \in {"nothing", "buttons", "update"}
  BY <1>5, ConstantTypes DEF TypeOK
<1>7. flagSave' \in BOOLEAN /\ unsaved' \subseteq {"held", "set"}
  <2>1. CASE pollCnt = 3
    <3>1. PICK change \in Changes :
             IF (flagSave \/ Raising) /\ menuTimeout = 0
             THEN flagSave' = FALSE /\ unsaved' = {}
             ELSE flagSave' = (flagSave \/ Raising) /\ unsaved' = unsaved \cup change
      BY <2>1 DEF NoMessage, Calibrate
    <3>2. change \subseteq {"held", "set"}
      BY DEF Changes
    <3> QED BY <3>1, <3>2 DEF TypeOK
  <2>2. CASE pollCnt # 3
    BY <2>2 DEF NoMessage, strain, TypeOK
  <2> QED BY <2>1, <2>2
<1>8. roadLegal' \in BOOLEAN /\ online' \in BOOLEAN
  BY <1>2
<1>9. TypeOK'
  BY <1>1, <1>4, <1>6, <1>7, <1>8, Zenon DEF TypeOK
<1>10. roadLegal' # roadLegal => roadLegal' /\ ~online'
  <2>1. roadLegal \in BOOLEAN
    BY DEF TypeOK
  <2>2. offlineCnt' > OfflineMax => ~(offlineCnt' <= OfflineMax)
    BY <1>4, ConstantTypes
  <2> QED BY <1>2, <2>1, <2>2, Zenon
<1>11. online' => online /\ offlineCnt' <= OfflineMax
  BY <1>2
<1>12. OverrideUnlocked' /\ OnlineFresh' /\ FrontsCounted' /\ ReleaseSeen' /\ OverrideJustified'
  BY <1>1, <1>10, <1>11 DEF OverrideUnlocked, OnlineFresh, FrontsCounted, ReleaseSeen,
     OverrideJustified
<1> QED BY <1>1, <1>9, <1>10, <1>12

-----------------------------------------------------------------------------
LEMMA MenuStep ==
    ASSUME MenuInv, [Next]_vars
    PROVE  /\ MenuInv'
           /\ roadLegal' # roadLegal => \/ func = 4 /\ fronts = Limit[4] - 1
                                        \/ roadLegal' /\ ~online'
           /\ light' # light => released
<1>1. CASE Override
  BY <1>1, OverrideKeeps
<1>2. CASE BusTick
  BY <1>2, BusTickKeeps
<1>3. CASE \E pressed \in SUBSET {Top, Front} : ButtonReport(pressed)
  BY <1>3, ReportKeeps
<1>4. CASE UpdateReport
  BY <1>4, UpdateKeeps
<1>5. CASE OtherMessage
  BY <1>5, OtherKeeps
<1>6. CASE NoMessage
  BY <1>6, SilentKeeps
<1>7. CASE UNCHANGED vars
  <2>1. UNCHANGED <<buttonState, wasPressed, waitForRelease, val, light, roadLegal, mode, func,
                    menuTimeout, menuDowncnt, fronts, online, offlineCnt, pollCnt, asked,
                    throttleOverride, flagSave, unsaved, pc, released>>
    BY <1>7 DEF vars, buttons, settings, menu, display, strain
  <2> QED BY <2>1 DEF MenuInv, TypeOK, OverrideUnlocked, FrontsCounted, OnlineFresh,
             OverrideJustified, ReleaseSeen
<1> QED BY <1>1, <1>2, <1>3, <1>4, <1>5, <1>6, <1>7 DEF Next

LEMMA MenuInvariant == Spec => []MenuInv
<1>1. Init => MenuInv
  BY InitMenu
<1>2. MenuInv /\ [Next]_vars => MenuInv'
  BY MenuStep
<1> QED BY <1>1, <1>2, PTL DEF Spec

(* Whatever the buttons and the display do, every setting stays below its    *)
(* limit, and every count within its own.                                    *)
THEOREM MenuTypeCorrect == Spec => []TypeOK
<1>1. MenuInv => TypeOK
  BY DEF MenuInv
<1> QED BY <1>1, MenuInvariant, PTL

(* No throttle from the menu within the legal limits, nor on old reports.    *)
THEOREM MenuOverrideUnlocked == Spec => []OverrideUnlocked
<1>1. MenuInv => OverrideUnlocked
  BY DEF MenuInv
<1> QED BY <1>1, MenuInvariant, PTL

(* The legal limits are left, and returned to, by completing the presses in  *)
(* menu 4, or returned to as the display falls silent.                       *)
THEOREM MenuLegalOnPurpose == Spec => LegalOnPurpose
<1>1. MenuInv /\ [Next]_vars =>
          [roadLegal' # roadLegal => \/ func = 4 /\ fronts = Limit[4] - 1
                                     \/ roadLegal' /\ ~online']_vars
  BY MenuStep
<1> QED BY <1>1, MenuInvariant, PTL DEF Spec, LegalOnPurpose

(* The light is not switched again before all buttons have been released.    *)
THEOREM MenuLightOnce == Spec => LightOnce
<1>1. MenuInv /\ [Next]_vars => [light' # light => released]_vars
  BY MenuStep
<1> QED BY <1>1, MenuInvariant, PTL DEF Spec, LightOnce
-----------------------------------------------------------------------------
(* The bar: three bytes carry five characters, and the digits add up.       *)

\* Four bits: a character of the bar.
Nibble == 0 .. 15

LEMMA NibblesRead ==
    ASSUME NEW a \in Nibble, NEW b \in Nibble
    PROVE  /\ (16 * a) % 256 = 16 * a
           /\ (16 * a + b) \div 16 = a
           /\ (16 * a + b) % 16 = b
           /\ (240 + a) % 16 = a
BY DEF Nibble

LEMMA CharactersRead ==
    ASSUME NEW a \in Nibble, NEW b \in Nibble, NEW c \in Nibble, NEW d \in Nibble,
           NEW e \in Nibble
    PROVE  Characters(BarBytes(<<a, b, c, d, e>>)) = <<a, b, c, d, e>>
BY NibblesRead DEF Characters, BarBytes

\* Division by the powers of ten.
LEMMA Tens ==
    ASSUME NEW n \in Nat
    PROVE  n \div 10 \in Nat /\ n % 10 \in 0 .. 9 /\ n = 10 * (n \div 10) + (n % 10)
OBVIOUS

LEMMA Hundreds ==
    ASSUME NEW n \in Nat
    PROVE  n \div 100 \in Nat /\ n % 100 \in 0 .. 99 /\ n = 100 * (n \div 100) + (n % 100)
OBVIOUS

LEMMA Thousands ==
    ASSUME NEW n \in Nat
    PROVE  n \div 1000 \in Nat /\ n % 1000 \in 0 .. 999 /\ n = 1000 * (n \div 1000) + (n % 1000)
OBVIOUS

LEMMA Places3 ==
    ASSUME NEW n \in Nat, n < 1000
    PROVE  /\ n \div 100 \in 0 .. 9 /\ (n % 100) \div 10 \in 0 .. 9 /\ n % 10 \in 0 .. 9
           /\ n = 100 * (n \div 100) + 10 * ((n % 100) \div 10) + (n % 10)
           /\ n < 100 => n \div 100 = 0
           /\ n < 10 => (n % 100) \div 10 = 0
<1> DEFINE h == n \div 100
           m == n % 100
           t == m \div 10
           u == m % 10
           v == n \div 10
           w == n % 10
<1>1. h \in Nat /\ m \in 0 .. 99 /\ n = 100 * h + m
  BY Hundreds
<1>2. m \in Nat
  BY <1>1
<1>3. t \in Nat /\ u \in 0 .. 9 /\ m = 10 * t + u
  BY <1>2, Tens
<1>4. v \in Nat /\ w \in 0 .. 9 /\ n = 10 * v + w
  BY Tens
<1> HIDE DEF h, m, t, u, v, w
<1>5. w = u
  BY <1>1, <1>3, <1>4
<1>6. /\ h \in 0 .. 9 /\ t \in 0 .. 9 /\ w \in 0 .. 9 /\ n = 100 * h + 10 * t + w
      /\ n < 100 => h = 0
      /\ n < 10 => t = 0
  BY <1>1, <1>3, <1>5
<1> QED BY <1>6 DEF h, t, m, w

LEMMA CurrentReads ==
    ASSUME NEW c \in Int, -9999 <= c, c <= 9999
    PROVE  Number(Characters(BarBytes(CurrentDigits(c)))) = c
<1> DEFINE t == IF c < 0 THEN -c ELSE c
           high == IF t < 1000 THEN 0 ELSE t \div 1000
           rest == t - 1000 * high
           sign == IF c < 0 THEN Negative ELSE Clear
           lead == IF t < 1000 THEN Clear ELSE high
           p == rest \div 100
           q == (rest % 100) \div 10
           r == rest % 10
<1>1. CurrentDigits(c) = <<sign, lead, p, q, r>>
  BY DEF CurrentDigits
<1>2. /\ t \in 0 .. 9999 /\ c = (IF c < 0 THEN -t ELSE t)
      /\ sign \in Nibble /\ (sign = Negative <=> c < 0)
  BY DEF Negative, Clear, Nibble
<1> HIDE DEF t, sign
<1>3. high \in 0 .. 9 /\ rest \in 0 .. 999 /\ t = 1000 * high + rest
  <2> DEFINE k == t \div 1000
  <2>1. k \in Nat /\ t % 1000 \in 0 .. 999 /\ t = 1000 * k + (t % 1000)
    BY <1>2, Thousands
  <2> HIDE DEF k
  <2>2. high = IF t < 1000 THEN 0 ELSE k
    BY DEF k
  <2> HIDE DEF high
  <2>3. high \in 0 .. 9 /\ t - 1000 * high \in 0 .. 999
    BY <1>2, <2>1, <2>2
  <2> QED BY <1>2, <2>3
<1> HIDE DEF high
<1>4. lead \in Nibble /\ Digit(lead) = high
  <2>1. CASE t < 1000
    BY <1>2, <1>3, <2>1 DEF Digit, Clear, Nibble
  <2>2. CASE ~(t < 1000)
    BY <1>3, <2>2 DEF Digit, Nibble
  <2> QED BY <2>1, <2>2
<1> HIDE DEF rest
<1>5. p \in 0 .. 9 /\ q \in 0 .. 9 /\ r \in 0 .. 9 /\ rest = 100 * p + 10 * q + r
  <2>1. rest \in Nat /\ rest < 1000
    BY <1>3
  <2> QED BY <2>1, Places3
<1> HIDE DEF lead, p, q, r
<1>6. Characters(BarBytes(<<sign, lead, p, q, r>>)) = <<sign, lead, p, q, r>>
  <2>1. p \in Nibble /\ q \in Nibble /\ r \in Nibble
    BY <1>5 DEF Nibble
  <2> QED BY <1>2, <1>4, <2>1, CharactersRead
<1>7. Digit(p) = p /\ Digit(q) = q /\ Digit(r) = r
  BY <1>5 DEF Digit
<1>8. Number(<<sign, lead, p, q, r>>) = IF sign = Negative THEN -t ELSE t
  <2>1. Number(<<sign, lead, p, q, r>>)
        = IF sign = Negative
          THEN -(1000 * Digit(lead) + 100 * Digit(p) + 10 * Digit(q) + Digit(r))
          ELSE 1000 * Digit(lead) + 100 * Digit(p) + 10 * Digit(q) + Digit(r)
    BY DEF Number
  <2>2. t = 1000 * Digit(lead) + 100 * Digit(p) + 10 * Digit(q) + Digit(r)
    BY <1>2, <1>3, <1>4, <1>5, <1>7
  <2> QED BY <2>1, <2>2
<1> QED BY <1>1, <1>2, <1>6, <1>8

LEMMA StrainReads ==
    ASSUME NEW th \in Nat, th <= 9999
    PROVE  Number(Characters(BarBytes(StrainDigits(th)))) = th
<1> DEFINE k == th \div 1000
           n == th % 1000
           m == th % 100
           u == th % 10
           x == th \div 100
           y == th \div 10
           a == IF th < 1000 THEN Clear ELSE k
           b == IF th < 100 THEN Clear ELSE n \div 100
           c == IF th < 10 THEN Clear ELSE m \div 10
<1>1. StrainDigits(th) = <<Clear, a, b, c, u>>
  BY DEF StrainDigits
<1>2. k \in Nat /\ n \in 0 .. 999 /\ th = 1000 * k + n
  BY Thousands
<1>3. x \in Nat /\ m \in 0 .. 99 /\ th = 100 * x + m
  BY Hundreds
<1>4. y \in Nat /\ u \in 0 .. 9 /\ th = 10 * y + u
  BY Tens
<1> DEFINE p == n \div 100
           s == n % 100
           q == m \div 10
           r == m % 10
<1>5. p \in Nat /\ s \in 0 .. 99 /\ n = 100 * p + s
  BY <1>2, Hundreds
<1>6. q \in Nat /\ r \in 0 .. 9 /\ m = 10 * q + r
  BY <1>3, Tens
<1> HIDE DEF k, n, m, u, p, s, q, r, x, y
<1>7. s = m
  <2> DEFINE z == 10 * k + p - x
  <2>1. z \in Int /\ 100 * z = m - s
    BY <1>2, <1>3, <1>5
  <2> HIDE DEF z
  <2>2. z = 0
    <3>1. m - s < 100 /\ -100 < m - s
      BY <1>3, <1>5
    <3> QED BY <2>1, <3>1
  <2> QED BY <1>3, <1>5, <2>1, <2>2
<1>8. r = u
  <2> DEFINE z == 10 * x + q - y
  <2>1. z \in Int /\ 10 * z = u - r
    BY <1>3, <1>4, <1>6
  <2> HIDE DEF z
  <2>2. z = 0
    <3>1. u - r < 10 /\ -10 < u - r
      BY <1>4, <1>6
    <3> QED BY <2>1, <3>1
  <2> QED BY <1>4, <1>6, <2>1, <2>2
<1>9. /\ k \in 0 .. 9 /\ p \in 0 .. 9 /\ q \in 0 .. 9 /\ u \in 0 .. 9
      /\ th = 1000 * k + 100 * p + 10 * q + u
      /\ th < 1000 => k = 0
      /\ th < 100 => k = 0 /\ p = 0
      /\ th < 10 => k = 0 /\ p = 0 /\ q = 0
  <2>1. k \in 0 .. 9 /\ p \in 0 .. 9
    BY <1>2, <1>5
  <2>2. n = 100 * p + 10 * q + u /\ q \in 0 .. 9 /\ u \in 0 .. 9
    BY <1>4, <1>5, <1>6, <1>7, <1>8
  <2>3. th = 1000 * k + 100 * p + 10 * q + u
    BY <1>2, <2>1, <2>2
  <2> QED BY <2>1, <2>2, <2>3
<1>10. /\ a = IF th < 1000 THEN Clear ELSE k
       /\ b = IF th < 100 THEN Clear ELSE p
       /\ c = IF th < 10 THEN Clear ELSE q
  BY DEF p, q
<1> HIDE DEF a, b, c
<1>11. /\ a \in Nibble /\ b \in Nibble /\ c \in Nibble /\ u \in Nibble
       /\ Digit(a) = k /\ Digit(b) = p /\ Digit(c) = q /\ Digit(u) = u
  BY <1>9, <1>10 DEF Digit, Clear, Nibble
<1>12. Clear \in Nibble /\ Clear # Negative
  BY DEF Clear, Negative, Nibble
<1>13. Characters(BarBytes(<<Clear, a, b, c, u>>)) = <<Clear, a, b, c, u>>
  BY <1>11, <1>12, CharactersRead
<1>14. Number(<<Clear, a, b, c, u>>) = 1000 * Digit(a) + 100 * Digit(b) + 10 * Digit(c) + Digit(u)
  BY <1>12 DEF Number
<1>15. 1000 * Digit(a) + 100 * Digit(b) + 10 * Digit(c) + Digit(u) = 1000 * k + 100 * p + 10 * q + u
  BY <1>11
<1> QED BY <1>1, <1>9, <1>13, <1>14, <1>15

\* A setting below ten is a character of the bar.
LEMMA SettingReads ==
    ASSUME NEW chr \in 0 .. 9, NEW v \in Nat, v < 10
    PROVE  Characters(BarBytes(<<0, Negative, chr, Clear, v>>))[5] = v
<1>1. /\ 0 \in Nibble /\ Negative \in Nibble /\ chr \in Nibble /\ Clear \in Nibble
      /\ v \in Nibble
  BY DEF Nibble, Negative, Clear
<1>2. Characters(BarBytes(<<0, Negative, chr, Clear, v>>)) = <<0, Negative, chr, Clear, v>>
  BY <1>1, CharactersRead
<1> QED BY <1>2

\* The numbers that fit in the bar.
LEMMA CurrentsShown == ASSUME NEW c \in Currents PROVE c \in Int /\ -9999 <= c /\ c <= 9999
<1>1. c \in -9999 .. 9999
  BY BarAssumption
<1> QED BY <1>1

LEMMA ThresholdsShown == ASSUME NEW th \in Thresholds PROVE th \in Nat /\ th <= 9999
<1>1. th \in 0 .. 9999
  BY BarAssumption
<1> QED BY <1>1

(* The bytes sent to the display show the current, the threshold and the     *)
(* settings as they are, for every current and threshold of four digits.     *)
THEOREM MenuBarReads == Spec => []BarReads
<1>1. ASSUME TypeOK PROVE BarReads
  <2> DEFINE Read(c, th) == Characters(BarBytes(Bar(func, val, c, 0, th)))
  <2>1. func = 0 => \A c \in Currents : Number(Read(c, 0)) = c
    <3> SUFFICES ASSUME func = 0, NEW c \in Currents PROVE Number(Read(c, 0)) = c
      OBVIOUS
    <3>1. c \in Int /\ -9999 <= c /\ c <= 9999
      BY CurrentsShown
    <3>2. Bar(func, val, c, 0, 0) = CurrentDigits(c)
      BY DEF Bar
    <3> QED BY <3>1, <3>2, CurrentReads
  <2>2. func = 3 => \A th \in Thresholds : Number(Read(0, th)) = th
    <3> SUFFICES ASSUME func = 3, NEW th \in Thresholds PROVE Number(Read(0, th)) = th
      OBVIOUS
    <3>1. th \in Nat /\ th <= 9999
      BY ThresholdsShown
    <3>2. Bar(func, val, 0, 0, th) = StrainDigits(th)
      BY DEF Bar
    <3> QED BY <3>1, <3>2, StrainReads
  <2>3. func \in {1, 2, 4, 5} => Read(0, 0)[5] = val[func]
    <3> SUFFICES ASSUME func \in {1, 2, 4, 5} PROVE Read(0, 0)[5] = val[func]
      OBVIOUS
    <3> DEFINE v == val[func]
    <3>1. v \in Nat /\ v < 10
      <4>1. v \in Nat /\ v < Limit[func] /\ Limit[func] \in Nat
        BY <1>1, LimitTypes DEF TypeOK
      <4>2. Limit[func] <= 10
        BY DigitAssumption
      <4> QED BY <4>1, <4>2
    <3>2. \E chr \in 0 .. 9 : Bar(func, val, 0, 0, 0) = <<0, Negative, chr, Clear, v>>
      <4>1. CASE func = 1
        BY <4>1 DEF Bar
      <4>2. CASE func = 2
        BY <4>2 DEF Bar
      <4>3. CASE func = 4
        BY <4>3 DEF Bar
      <4>4. CASE func = 5
        BY <4>4 DEF Bar
      <4> QED BY <4>1, <4>2, <4>3, <4>4
    <3> HIDE DEF v
    <3>3. Read(0, 0)[5] = v
      BY <3>1, <3>2, SettingReads
    <3> QED BY <3>3 DEF v
  <2> QED BY <2>1, <2>2, <2>3 DEF BarReads
<1>2. MenuInv => BarReads
  BY <1>1 DEF MenuInv
<1> QED BY <1>2, MenuInvariant, PTL
=============================================================================
