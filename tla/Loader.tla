------------------------------- MODULE Loader -------------------------------
(***************************************************************************)
(* The firmware loader with its terminal: ion_software/ionapps/ionloader.c. *)
(*                                                                         *)
(* Every loop of the program - app_load_firmware, app_get_info,             *)
(* app_get_check and app_prepare_bootload - calls select_term in each pass, *)
(* which runs the commands typed meanwhile from inside the loop.  A command *)
(* that is a loop itself suspends the one it was typed in.  All of them     *)
(* work on the one bootstate, hex file and receive fifo.                    *)
(*                                                                         *)
(* Frames, device and the handling of answers are those of Bootload.  Only  *)
(* the motor is connected; what goes to the button PCB is not answered.     *)
(***************************************************************************)
EXTENDS Bootload

CONSTANTS
    ButtonImage,  \* the firmware in button.hex
    Tries,        \* passes of app_get_info and app_get_check (10)
    MaxCommands,  \* bound on the commands typed
    MaxTroubles   \* bound on commands and lost frames together

ASSUME LoaderAssumption ==
    /\ ButtonImage \in Seq(Page) /\ Len(ButtonImage) \in 1 .. FlashPages
    /\ Tries \in Nat \ {0} /\ {MaxCommands, MaxTroubles} \subseteq Nat

VARIABLES
    line,      \* user_input.buffer
    outer,     \* the loops suspended in select_term, innermost first
    tries,     \* passes left of app_get_info or app_get_check
    waits,     \* the boards app_prepare_bootload has not heard
    commands,  \* bound: commands typed
    meddled    \* history: a command that may disturb an upload was typed in one

terminal == <<line, outer, tries, waits, commands, meddled>>
loaderVars == <<vars, terminal>>

LoaderInit ==
    /\ Init
    /\ line = "" /\ outer = <<>> /\ tries = 0 /\ waits = {}
    /\ commands = 0 /\ meddled = FALSE

-----------------------------------------------------------------------------
(* Commands                                                                *)

Words == {"loadmotor", "loadbutton", "motorhex", "start", "startmotor", "fifoclear",
          "info3", "info4", "check", "other"}

\* term_handle_character: what the line holds at the line break.  It still holds
\* the command of the loop that is running, unless that was erased.
Entered(keys, erased) ==
    IF erased \/ line = "" THEN keys ELSE IF keys = "" THEN line ELSE "other"

\* A loop begins inside the one that is running; the line is kept until it ends.
Suspend(c, loop, n, boards) ==
    /\ outer' = <<[task |-> task, tries |-> tries, waits |-> waits]>> \o outer
    /\ task' = loop /\ tries' = n /\ waits' = boards
    /\ line' = c

Stay == UNCHANGED <<task, outer, tries, waits>> /\ line' = ""

\* fifo_clear(&rxfifo): what has arrived is gone.
ClearRx == \E n \in 0 .. Len(toLoader) : toLoader' = SubSeq(toLoader, n + 1, Len(toLoader))

Progress == <<state, block, offset, firmwareoffs, retries>>

LoadCommand(c, image, to) ==
    /\ StartLoad(image, to) /\ Suspend(c, "load", 0, {})
    /\ UNCHANGED <<Progress, toLoader>>

MotorHex == /\ OpenHex(Image) /\ Stay
            /\ UNCHANGED <<address, Progress, toDevice, toLoader>>

StartCommand(c, first, boards) ==
    /\ address' = first /\ Suspend(c, "prepare", 0, boards)
    /\ UNCHANGED <<filefw, todo, Progress, toDevice, toLoader>>

FifoClear == /\ ClearRx /\ Stay
             /\ UNCHANGED <<filefw, address, todo, Progress, toDevice>>

\* app_get_info
InfoCommand(c, to) ==
    /\ ClearRx /\ Send(to, Info) /\ Suspend(c, "info", Tries, {})
    /\ UNCHANGED <<filefw, address, todo, Progress>>

\* app_get_check: BOOT_CHECK without data.  The device takes for the size what its
\* message buffer held before.
CheckCommand(c) ==
    /\ \E size \in 0 .. FlashPages : Send(address, Check(size))
    /\ Suspend(c, "check", Tries, {})
    /\ UNCHANGED <<filefw, address, todo, Progress, toLoader>>

\* clear, debug, fifo, a word that is unknown, a hex file that is not found.
OtherCommand == Stay /\ UNCHANGED <<filefw, bootstate, toDevice, toLoader>>

\* parse_userinput
ParseUserinput(c) ==
    CASE c = "loadmotor"  -> LoadCommand(c, Image, Motor)
      [] c = "loadbutton" -> LoadCommand(c, ButtonImage, Button)
      [] c = "motorhex"   -> MotorHex
      [] c = "start"      -> StartCommand(c, Button, {Button, Motor})
      [] c = "startmotor" -> StartCommand(c, Motor, {Motor})
      [] c = "fifoclear"  -> FifoClear
      [] c = "info3"      -> InfoCommand(c, Button)
      [] c = "info4"      -> InfoCommand(c, Motor)
      [] c = "check"      -> CheckCommand(c)
      [] OTHER            -> OtherCommand

\* The loop that is running has come to its end.
Ended == \/ task = "idle" /\ outer # <<>>
         \/ task \in {"info", "check"} /\ tries = 0

Loading == task = "load" \/ \E i \in DOMAIN outer : outer[i].task = "load"

\* In an upload: to look at the device, or to drop an answer to a chunk.
Harmless(c) == \/ c \in {"", "other"}
               \/ c \in {"info3", "info4", "fifoclear"} /\ state = "WRITE"

\* A command is typed in the select_term of the loop that is running.
Command ==
    /\ commands < MaxCommands /\ commands + losses < MaxTroubles
    /\ ~Ended /\ ~(task = "load" /\ state = "FINISH")
    /\ commands' = commands + 1
    /\ \E keys \in Words \cup {""}, erased \in BOOLEAN :
           LET c == Entered(keys, erased) IN
           /\ ParseUserinput(c)
           /\ meddled' = (meddled \/ (Loading /\ ~Harmless(c)))
    /\ UNCHANGED <<device, bounds>>

\* parse_userinput returns into term_handle_character, which clears the line, and
\* the loop around it goes on.
Return ==
    /\ Ended
    /\ task' = Head(outer).task /\ tries' = Head(outer).tries /\ waits' = Head(outer).waits
    /\ outer' = Tail(outer) /\ line' = ""
    /\ UNCHANGED <<filefw, bootstate, device, toDevice, toLoader, bounds, commands, meddled>>

-----------------------------------------------------------------------------
(* The loops                                                               *)

\* app_handlemessage outside app_load_firmware: the end of an upload is noted, and
\* the loop goes on.
Heard(m) ==
    \/ m.cmd # "BOOT_CHECK" /\ Answer(m)
    \/ /\ m.cmd = "BOOT_CHECK" /\ CheckAcked(m.crc)
       /\ state' = "FINISH"
       /\ UNCHANGED <<task, filefw, address, todo, block, offset, firmwareoffs, retries>>
    \/ Unexpected(m)

\* Slip: a pass without a message does not count.
ReadUntilHeard ==
    /\ task \in {"info", "check"} /\ tries > 0
    /\ toLoader # <<>> /\ Heard(Head(toLoader)) /\ toLoader' = Tail(toLoader)
    /\ tries' = tries - 1
    /\ UNCHANGED <<device, bounds, line, outer, waits, commands, meddled>>

\* A pass of app_get_info or app_get_check.
ReadPass ==
    /\ task \in {"info", "check"} /\ tries > 0
    /\ IF toLoader # <<>>
       THEN Heard(Head(toLoader)) /\ toLoader' = Tail(toLoader)
       ELSE UNCHANGED <<loader, toDevice, toLoader>>
    /\ tries' = tries - 1
    /\ UNCHANGED <<device, bounds, line, outer, waits, commands, meddled>>

LoadHears == task = "load" /\ state # "FINISH" /\ LoadReceive /\ UNCHANGED terminal
LoadWaits == state # "FINISH" /\ (RetryChunk \/ GiveUp) /\ UNCHANGED terminal

\* The upload came to its end in a loop inside this one.
LoadLate ==
    /\ task = "load" /\ state = "FINISH"
    /\ LoadDone
    /\ toLoader' \in {toLoader, SubSeq(toLoader, 2, Len(toLoader))}
    /\ UNCHANGED <<device, toDevice, bounds, terminal>>

\* app_prepare_bootload: the motor's answer turns it to the button PCB.
PrepareHears ==
    /\ task = "prepare" /\ toLoader # <<>>
    /\ IF Head(toLoader).cmd = "BOOT_INFO"
       THEN /\ address' = Button /\ waits' = waits \ {Motor}
            /\ task' = IF waits' = {} THEN "idle" ELSE "prepare"
       ELSE UNCHANGED <<address, waits, task>>
    /\ toLoader' = Tail(toLoader)
    /\ UNCHANGED <<filefw, state, todo, block, offset, firmwareoffs, retries, device, toDevice,
                   bounds, line, outer, tries, commands, meddled>>

\* The answers it has asked for can still be on their way.
PrepareAsks == (PrepareSend \/ PrepareAgain) /\ UNCHANGED terminal

-----------------------------------------------------------------------------
Program == Command \/ Return \/ ReadPass \/ LoadHears \/ LoadWaits \/ LoadLate
           \/ PrepareHears \/ PrepareAsks
Lose == commands + losses < MaxTroubles /\ LoseFrame
Rest == (Device \/ ApplicationIgnores \/ Lose) /\ UNCHANGED terminal

LoaderNext == Program \/ Rest
LoaderSpec == LoaderInit /\ [][LoaderNext]_loaderVars

(* Loader and device poll in endless loops, and a frame arrives whether or  *)
(* not anything listens.  Nobody is obliged to type.                        *)
LoaderFairSpec ==
    /\ LoaderSpec
    /\ WF_loaderVars(Return) /\ WF_loaderVars(ReadPass)
    /\ WF_loaderVars(LoadHears) /\ WF_loaderVars(LoadWaits) /\ WF_loaderVars(LoadLate)
    /\ WF_loaderVars(DeviceReceive /\ UNCHANGED terminal)
    /\ WF_loaderVars(ApplicationIgnores /\ UNCHANGED terminal)

-----------------------------------------------------------------------------
(* Once nobody types, every loop ends but the one that waits for a board.   *)
LoopsReturn == []<>(task = "prepare" \/ (task = "idle" /\ outer = <<>>))

(* A fresh upload to a device that waits in the bootloader ends with the    *)
(* new firmware running, although answers to chunks are lost and although   *)
(* the user looks at the device meanwhile.                                  *)
UploadSurvives ==
    (/\ task = "load" /\ state = "WAIT_REQ" /\ address = Motor /\ retries = 0
     /\ toDevice = <<Start>> /\ running = "bootloader" /\ bootloading)
        ~> (meddled \/ (running = "application" /\ fwinfo.crc = Image /\ Holds(fwinfo)))
=============================================================================
