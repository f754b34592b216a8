------------------------------ MODULE Bootload ------------------------------
(***************************************************************************)
(* A firmware upload over the one-wire bus: the PC program                 *)
(* ion_software/ionapps/ionloader.c drives the bootloader                  *)
(* ion_firmware/bootloader/ionblapp.c of one device.                       *)
(*                                                                         *)
(* A frame either arrives whole or not at all (its CRC fails), in the      *)
(* order it was sent; the loader gives up waiting for an answer and sends  *)
(* again; the device can lose power at any time, in the middle of a flash  *)
(* page or of the EEPROM block as well; the loader can be killed.          *)
(*                                                                         *)
(* Firmware is counted in chunks of 64 bytes and pages of Chunks chunks.   *)
(* A CRC is the contents it was computed over: CRC-16 without collisions.  *)
(***************************************************************************)
EXTENDS Integers, Sequences, FiniteSets

CONSTANTS
    Chunks,      \* chunks in a flash page (256 / 64 in the code)
    FlashPages,  \* pages of application flash the bootloader writes (57)
    Data,        \* the contents a chunk can have
    Image,       \* the firmware in motor.hex, a sequence of pages
    OldImage,    \* the firmware the device came with
    Zero,        \* a chunk of RAM after reset
    Erased,      \* a chunk of erased flash
    NoCrc,       \* fwinfo.crc when no firmware block could be read
    Invalid,     \* an EEPROM block whose header or CRC is wrong
    \* Bounds on what the environment does.
    MaxRetries,  \* bootstate.retries < 500 in the code
    MaxLoads, MaxQuits, MaxLosses, MaxResets,
    MaxAsked,    \* frames on their way when app_prepare_bootload asks again
    Lossy,       \* the kinds of frames that can be lost
    Premature    \* may the loader give up on an answer that is on its way?

Chunk == 0 .. Chunks - 1
PageNo == 0 .. FlashPages - 1
Page == [Chunk -> Data]
Pages == Len(Image)

ASSUME BootloadAssumption ==
    /\ Chunks \in Nat \ {0} /\ FlashPages \in Nat \ {0}
    /\ {Zero, Erased} \subseteq Data
    /\ Image \in Seq(Page) /\ Len(Image) \in 1 .. FlashPages
    /\ OldImage \in Seq(Page) /\ Len(OldImage) \in 1 .. FlashPages
    /\ {MaxRetries, MaxLoads, MaxQuits, MaxLosses, MaxResets, MaxAsked} \subseteq Nat
    /\ Premature \in BOOLEAN
    /\ NoCrc \notin Seq(Page)

Blank(chunk) == [c \in Chunk |-> chunk]

\* read_app_crc: the CRC over the first size pages of flash.
AppCrc(memory, size) == [p \in 1 .. size |-> memory[p - 1]]

\* What read_app_crc leaves in the page buffer it reads through.
LastRead(memory, size, buffer) == IF size > 0 THEN memory[size - 1] ELSE buffer

VARIABLES
    \* The loader: whether app_prepare_bootload or app_load_firmware is running,
    \* the hex file in memory, and bootstate.
    task, filefw, state, address, todo, block, offset, firmwareoffs, retries,
    \* The device: what survives a reset, then what does not.
    flash, eeprom,
    running, pagebuffer, fwinfo, crcapp, bootloading,
    \* Frames on their way to the device and to the loader.
    toDevice, toLoader,
    \* How often the environment has struck so far.
    loads, quits, losses, resets,
    \* History: was a page flashed after the EEPROM block was written, and did
    \* the loader send a chunk again while an answer was on its way?
    dirty, hasty

bootstate == <<state, address, todo, block, offset, firmwareoffs, retries>>
loader == <<task, filefw, bootstate>>
ram    == <<running, pagebuffer, fwinfo, crcapp, bootloading>>
device == <<flash, eeprom, dirty, ram>>
bounds == <<loads, quits, losses, resets, hasty>>
vars   == <<loader, device, toDevice, toLoader, bounds>>

\* The addresses of the bootloaders.  Only the motor is connected.
Button == 3
Motor == 4

Start        == [cmd |-> "BOOT_START"]
Info         == [cmd |-> "BOOT_INFO"]
Write(b, o, d) == [cmd |-> "BOOT_WRITE", block |-> b, offs |-> o, data |-> d]
Check(n)     == [cmd |-> "BOOT_CHECK", size |-> n]
Finish(c, n) == [cmd |-> "BOOT_FINISH", crc |-> c, size |-> n]
Ack(cmd, c)  == [cmd |-> cmd, crc |-> c]

-----------------------------------------------------------------------------
(* The device starts: main of ionblapp.c up to its loop.                   *)

ReadFirmwareBlock == IF eeprom = Invalid THEN [crc |-> NoCrc, size |-> 0] ELSE eeprom

Boot(memory, info) ==
    /\ running' = "bootloader"
    /\ fwinfo' = info
    /\ crcapp' = IF info.size > 0 THEN AppCrc(memory, info.size) ELSE NoCrc
    /\ pagebuffer' = LastRead(memory, info.size, Blank(Zero))
    /\ bootloading' = (info.size = 0)

NoFile == [size |-> 0, data |-> <<>>]

Init ==
    /\ task = "idle" /\ filefw = NoFile /\ state = "WAIT_REQ" /\ address = Motor
    /\ todo = 0 /\ block = 0 /\ offset = 0 /\ firmwareoffs = 0 /\ retries = 0
    /\ flash = [p \in PageNo |-> IF p < Len(OldImage) THEN OldImage[p + 1]
                                                      ELSE Blank(Erased)]
    /\ eeprom \in {[crc |-> OldImage, size |-> Len(OldImage)], Invalid}
    /\ running = "bootloader"
    /\ fwinfo = ReadFirmwareBlock
    /\ crcapp = IF fwinfo.size > 0 THEN AppCrc(flash, fwinfo.size) ELSE NoCrc
    /\ pagebuffer = LastRead(flash, fwinfo.size, Blank(Zero))
    /\ bootloading = (fwinfo.size = 0)
    /\ toDevice = <<>> /\ toLoader = <<>>
    /\ loads = 0 /\ quits = 0 /\ losses = 0 /\ resets = 0
    /\ dirty = FALSE /\ hasty = FALSE

-----------------------------------------------------------------------------
(* The loader                                                              *)

\* message_append_tofifo and uart_write_start.
Send(to, m) == toDevice' = IF to = Motor THEN Append(toDevice, m) ELSE toDevice

\* hexfile_process: a file leaves behind it what a longer one has left there.
Opened(image) ==
    [size |-> Len(image),
     data |-> image \o SubSeq(filefw.data, Len(image) + 1, Len(filefw.data))]

FileData(p) == IF p < Len(filefw.data) THEN filefw.data[p + 1] ELSE Blank(Zero)
FileCrc == SubSeq(filefw.data, 1, filefw.size)

\* app_init_bootstate
InitBootstate == /\ state' = "WAIT_REQ" /\ address' = Motor
                 /\ todo' = 0 /\ block' = 0 /\ offset' = 0 /\ firmwareoffs' = 0
                 /\ retries' = 0

\* app_write_nextchunk, with the block b and offset o the caller has set,
\* n chunks left to do and the firmware offset f.
WriteNextChunk(n, b, o, f) ==
    /\ block' = b
    /\ IF n > 0
       THEN /\ Send(address, Write(b, o, FileData(f \div Chunks)[f % Chunks]))
            /\ todo' = n - 1
            /\ offset' = o + 1
            /\ firmwareoffs' = b * Chunks + o + 1
       ELSE todo' = n /\ offset' = o /\ firmwareoffs' = f /\ UNCHANGED toDevice

\* startmotor: app_prepare_bootload asks for the boot info until it comes.
StartMotor ==
    /\ task = "idle" /\ loads < MaxLoads
    /\ task' = "prepare" /\ address' = Motor
    /\ UNCHANGED <<filefw, state, todo, block, offset, firmwareoffs, retries, device,
                   toDevice, toLoader, bounds>>

\* The end of a pass of app_prepare_bootload: it asks whatever is on its way.
Ask ==
    /\ task = "prepare"
    /\ Send(address, Info)
    /\ UNCHANGED <<loader, device, toLoader, bounds>>

\* A pass that has waited its 60 ms: what was on its way has come.
PrepareSend == toLoader = <<>> /\ toDevice = <<>> /\ Ask

\* A pass that found a message and did not wait, or a device that is slow.
PrepareAgain == Len(toDevice) + Len(toLoader) \in 1 .. MaxAsked /\ Ask

\* Any other message is dropped.  The last BOOT_INFO goes to the button PCB.
PrepareReceive ==
    /\ task = "prepare" /\ toLoader # <<>>
    /\ IF Head(toLoader).cmd = "BOOT_INFO"
       THEN task' = "idle" /\ address' = Button
       ELSE UNCHANGED <<task, address>>
    /\ toLoader' = Tail(toLoader)
    /\ UNCHANGED <<filefw, state, todo, block, offset, firmwareoffs, retries, device,
                   toDevice, bounds>>

\* The file is read and the whole of it is to do; the rest of bootstate stays as
\* the last upload left it.
OpenHex(image) == filefw' = Opened(image) /\ todo' = Len(image) * Chunks

\* app_load_firmware begins.
StartLoad(image, to) == OpenHex(image) /\ address' = to /\ Send(to, Start)

LoadMotor ==
    /\ task = "idle" /\ loads < MaxLoads
    /\ task' = "load" /\ loads' = loads + 1
    /\ StartLoad(Image, Motor)
    /\ UNCHANGED <<state, block, offset, firmwareoffs, retries, device, toLoader,
                   quits, losses, resets, hasty>>

StartAcked ==
    /\ state = "WAIT_REQ"
    /\ state' = "WRITE"
    /\ WriteNextChunk(todo, block, offset, firmwareoffs)
    /\ UNCHANGED <<task, filefw, address, retries>>

\* In the middle of a block: the next chunk.
ChunkAcked ==
    /\ state = "WRITE" /\ todo > 0 /\ offset < Chunks
    /\ WriteNextChunk(todo, block, offset, firmwareoffs)
    /\ UNCHANGED <<task, filefw, address, state, retries>>

\* At the end of a block: go on only if the device holds the same page.
BlockAcked(crc) ==
    /\ state = "WRITE" /\ todo > 0 /\ offset >= Chunks
    /\ crc = FileData(firmwareoffs \div Chunks - 1)
    /\ WriteNextChunk(todo, block + 1, 0, firmwareoffs)
    /\ UNCHANGED <<task, filefw, address, state, retries>>

\* All chunks are sent: ask for the CRC of the whole.
LastAcked ==
    /\ state = "WRITE" /\ todo = 0
    /\ state' = "CHECK"
    /\ Send(address, Check(filefw.size))
    /\ UNCHANGED <<task, filefw, address, todo, block, offset, firmwareoffs, retries>>

\* Slip: finish whatever the CRC.
CheckUnchecked(crc) ==
    /\ state = "CHECK"
    /\ Send(address, Finish(FileCrc, filefw.size))

\* The CRCs agree: finish.  They do not: BOOT_FINISH is not sent, but the state is
\* the same.
CheckAcked(crc) ==
    /\ state = "CHECK"
    /\ IF crc = FileCrc THEN Send(address, Finish(FileCrc, filefw.size))
                        ELSE UNCHANGED toDevice

\* app_load_firmware returns from the pass that has come to BOOT_FINISH.
LoadDone == InitBootstate /\ task' = "idle" /\ UNCHANGED filefw

\* app_handlemessage: what an answer makes the loader do.
Answer(m) ==
    CASE m.cmd = "BOOT_START" -> StartAcked
      [] m.cmd = "BOOT_WRITE" -> ChunkAcked \/ BlockAcked(m.crc) \/ LastAcked
      [] m.cmd = "BOOT_CHECK" -> CheckAcked(m.crc) /\ LoadDone
      [] OTHER                -> FALSE

\* NET_ERR_STATE, NET_ERR_CRC, or a boot info that is only printed.
Unexpected(m) ==
    /\ CASE m.cmd = "BOOT_START" -> state # "WAIT_REQ"
         [] m.cmd = "BOOT_WRITE" -> \/ state # "WRITE"
                                    \/ /\ todo > 0 /\ offset >= Chunks
                                       /\ m.crc # FileData(firmwareoffs \div Chunks - 1)
         [] m.cmd = "BOOT_CHECK" -> state # "CHECK"
         [] OTHER                -> TRUE
    /\ UNCHANGED <<loader, toDevice>>

LoadReceive ==
    /\ task = "load" /\ toLoader # <<>>
    /\ Answer(Head(toLoader)) \/ Unexpected(Head(toLoader))
    /\ toLoader' = Tail(toLoader)
    /\ UNCHANGED <<device, bounds>>

\* The device has answered everything the loader sent.
Quiet == toDevice = <<>>

\* Slip: the next chunk, not the last one again.
RetryNext ==
    /\ task = "load" /\ toLoader = <<>> /\ (Premature \/ Quiet)
    /\ retries < MaxRetries
    /\ retries' = retries + 1
    /\ IF offset \in 1 .. Chunks - 1
       THEN WriteNextChunk(todo, block, offset, firmwareoffs)
       ELSE UNCHANGED <<todo, block, offset, firmwareoffs, toDevice>>
    /\ hasty' = (hasty \/ ~Quiet)
    /\ UNCHANGED <<task, filefw, address, state, device, toLoader, loads, quits, losses,
                   resets>>

\* Six reads without a message: app_retry_chunk.
RetryChunk ==
    /\ task = "load" /\ toLoader = <<>> /\ (Premature \/ Quiet)
    /\ retries < MaxRetries
    /\ retries' = retries + 1
    /\ IF offset > 0
       THEN WriteNextChunk(todo + 1, block, offset - 1, block * Chunks + offset - 1)
       ELSE UNCHANGED <<todo, block, offset, firmwareoffs, toDevice>>
    /\ hasty' = (hasty \/ ~Quiet)
    /\ UNCHANGED <<task, filefw, address, state, device, toLoader, loads, quits, losses,
                   resets>>

\* No retries left: return, and leave bootstate as it is.  By then the device
\* has long answered what it ever will.
GiveUp ==
    /\ task = "load" /\ toLoader = <<>> /\ Quiet
    /\ retries >= MaxRetries
    /\ task' = "idle"
    /\ UNCHANGED <<filefw, bootstate, device, toDevice, toLoader, bounds>>

\* The program is killed and started again.
Quit ==
    /\ quits < MaxQuits
    /\ quits' = quits + 1
    /\ task' = "idle" /\ filefw' = NoFile /\ InitBootstate
    /\ toLoader' = <<>>
    /\ UNCHANGED <<device, toDevice, loads, losses, resets, hasty>>

-----------------------------------------------------------------------------
(* The device: one pass of the loop in main with a message                 *)

Reply(cmd, crc) == toLoader' = Append(toLoader, Ack(cmd, crc))

\* Slip: the device does not wait for a block.
StartForgotten(m) ==
    /\ m.cmd \in {"BOOT_START", "BOOT_INFO"}
    /\ Reply(m.cmd, NoCrc)
    /\ UNCHANGED <<flash, eeprom, dirty, ram>>

HandleStart(m) ==
    /\ m.cmd \in {"BOOT_START", "BOOT_INFO"}
    /\ Reply(m.cmd, NoCrc)
    /\ bootloading' = TRUE
    /\ UNCHANGED <<flash, eeprom, dirty, running, pagebuffer, fwinfo, crcapp>>

\* Slip: the page is flashed before its last chunk is in the buffer.
FlashedEarly(m) ==
    /\ m.cmd = "BOOT_WRITE"
    /\ pagebuffer' = [pagebuffer EXCEPT ![m.offs] = m.data]
    /\ IF m.block \in PageNo
       THEN /\ Reply(m.cmd, pagebuffer')
            /\ IF m.offs = Chunks - 1
               THEN flash' = [flash EXCEPT ![m.block] = pagebuffer] /\ dirty' = TRUE
               ELSE UNCHANGED <<flash, dirty>>
       ELSE UNCHANGED <<flash, dirty, toLoader>>
    /\ UNCHANGED <<eeprom, running, fwinfo, crcapp, bootloading>>

\* The chunk goes into the page buffer before the block number is looked at;
\* the last chunk of a page flashes it.  The handler does not return
\* NET_ERR_NONE, so main leaves bootloading as it is.
HandleWrite(m) ==
    /\ m.cmd = "BOOT_WRITE"
    /\ pagebuffer' = [pagebuffer EXCEPT ![m.offs] = m.data]
    /\ IF m.block \in PageNo
       THEN /\ Reply(m.cmd, pagebuffer')
            /\ IF m.offs = Chunks - 1
               THEN flash' = [flash EXCEPT ![m.block] = pagebuffer'] /\ dirty' = TRUE
               ELSE UNCHANGED <<flash, dirty>>
       ELSE UNCHANGED <<flash, dirty, toLoader>>
    /\ UNCHANGED <<eeprom, running, fwinfo, crcapp, bootloading>>

HandleCheck(m) ==
    /\ m.cmd = "BOOT_CHECK"
    /\ fwinfo' = [fwinfo EXCEPT !.size = m.size]
    /\ Reply(m.cmd, AppCrc(flash, m.size))
    /\ pagebuffer' = LastRead(flash, m.size, pagebuffer)
    /\ bootloading' = TRUE
    /\ UNCHANGED <<flash, eeprom, dirty, running, crcapp>>

\* Store what the message says and jump to the application.
HandleFinish(m) ==
    /\ m.cmd = "BOOT_FINISH"
    /\ fwinfo' = [crc |-> m.crc, size |-> m.size]
    /\ eeprom' = fwinfo'
    /\ dirty' = FALSE
    /\ running' = "application"
    /\ UNCHANGED <<flash, pagebuffer, crcapp, bootloading, toLoader>>

DeviceReceive ==
    /\ running = "bootloader" /\ toDevice # <<>>
    /\ LET m == Head(toDevice) IN
         HandleStart(m) \/ HandleWrite(m) \/ HandleCheck(m) \/ HandleFinish(m)
    /\ toDevice' = Tail(toDevice)
    /\ UNCHANGED <<loader, bounds>>

\* The time for a message runs out.  If the CRCs differ the loop goes on.
DeviceTimeout ==
    /\ running = "bootloader" /\ ~bootloading
    /\ crcapp = fwinfo.crc
    /\ running' = "application"
    /\ UNCHANGED <<loader, flash, eeprom, dirty, pagebuffer, fwinfo, crcapp, bootloading,
                   toDevice, toLoader, bounds>>

-----------------------------------------------------------------------------
(* The environment                                                         *)

\* The application does not listen to boot messages.
ApplicationIgnores ==
    /\ running = "application" /\ toDevice # <<>>
    /\ toDevice' = Tail(toDevice)
    /\ UNCHANGED <<loader, device, toLoader, bounds>>

LoseFrame ==
    /\ losses < MaxLosses
    /\ \/ /\ toDevice # <<>> /\ Head(toDevice).cmd \in Lossy
          /\ toDevice' = Tail(toDevice) /\ UNCHANGED toLoader
       \/ /\ toLoader # <<>> /\ Head(toLoader).cmd \in Lossy
          /\ toLoader' = Tail(toLoader) /\ UNCHANGED toDevice
    /\ losses' = losses + 1
    /\ UNCHANGED <<loader, device, loads, quits, resets, hasty>>

\* The frames that reached the device before it went down are lost.
ResetWith(memory, block_) ==
    /\ resets < MaxResets
    /\ resets' = resets + 1
    /\ flash' = memory /\ eeprom' = block_
    /\ Boot(memory, IF block_ = Invalid THEN [crc |-> NoCrc, size |-> 0] ELSE block_)
    /\ UNCHANGED <<loader, toLoader, loads, quits, losses, hasty>>

Reset ==
    /\ ResetWith(flash, eeprom)
    /\ \E n \in 0 .. Len(toDevice) : toDevice' = SubSeq(toDevice, n + 1, Len(toDevice))
    /\ UNCHANGED dirty

\* Power fails in EraseWriteAppPage: the page is erased and not written.
CrashInWrite ==
    /\ running = "bootloader" /\ toDevice # <<>>
    /\ LET m == Head(toDevice) IN
         /\ m.cmd = "BOOT_WRITE" /\ m.offs = Chunks - 1 /\ m.block \in PageNo
         /\ ResetWith([flash EXCEPT ![m.block] = Blank(Erased)], eeprom)
    /\ toDevice' = Tail(toDevice)
    /\ dirty' = TRUE

\* Power fails in eemem_write_block: the block does not check any more.
CrashInFinish ==
    /\ running = "bootloader" /\ toDevice # <<>>
    /\ Head(toDevice).cmd = "BOOT_FINISH"
    /\ ResetWith(flash, Invalid)
    /\ toDevice' = Tail(toDevice)
    /\ UNCHANGED dirty

-----------------------------------------------------------------------------
Loader == StartMotor \/ PrepareSend \/ PrepareReceive \/ LoadMotor
          \/ LoadReceive \/ RetryChunk \/ GiveUp
Device == DeviceReceive \/ DeviceTimeout
Environment == Quit \/ ApplicationIgnores \/ LoseFrame
               \/ Reset \/ CrashInWrite \/ CrashInFinish

Next == Loader \/ Device \/ Environment

Spec == Init /\ [][Next]_vars

(* As Spec, but app_prepare_bootload asks while something is on its way.     *)
EagerNext == Next \/ PrepareAgain
EagerSpec == Init /\ [][EagerNext]_vars

-----------------------------------------------------------------------------
Crc == Seq(Page) \cup {NoCrc}
FwInfo == [crc : Crc, size : 0 .. FlashPages]
ToDevice == {Start, Info}
    \cup [cmd : {"BOOT_WRITE"}, block : Nat, offs : Chunk, data : Data]
    \cup [cmd : {"BOOT_CHECK"}, size : 0 .. FlashPages]
    \cup [cmd : {"BOOT_FINISH"}, crc : Seq(Page), size : 0 .. FlashPages]
ToLoader == [cmd : {"BOOT_START", "BOOT_INFO"}, crc : {NoCrc}]
    \cup [cmd : {"BOOT_WRITE"}, crc : Page] \cup [cmd : {"BOOT_CHECK"}, crc : Seq(Page)]

LoaderOK ==
    /\ task \in {"idle", "prepare", "load"}
    /\ filefw \in [size : 0 .. FlashPages, data : Seq(Page)]
    /\ filefw.size <= Len(filefw.data)
    /\ state \in {"WAIT_REQ", "WRITE", "CHECK"} /\ address \in {Button, Motor}
    /\ todo \in Nat /\ block \in Nat /\ offset \in 0 .. Chunks
    /\ state = "WAIT_REQ" => offset = 0
    /\ firmwareoffs = block * Chunks + offset
    /\ retries \in 0 .. MaxRetries

DeviceOK ==
    /\ flash \in [PageNo -> Page] /\ eeprom \in FwInfo \cup {Invalid}
    /\ running \in {"bootloader", "application"}
    /\ pagebuffer \in Page /\ fwinfo \in FwInfo /\ crcapp \in Crc
    /\ bootloading \in BOOLEAN /\ dirty \in BOOLEAN

FramesOK == toDevice \in Seq(ToDevice) /\ toLoader \in Seq(ToLoader)

CountsOK ==
    /\ loads \in 0 .. MaxLoads /\ quits \in 0 .. MaxQuits
    /\ losses \in 0 .. MaxLosses /\ resets \in 0 .. MaxResets
    /\ hasty \in BOOLEAN

TypeOK == LoaderOK /\ DeviceOK /\ FramesOK /\ CountsOK

Holds(info) == AppCrc(flash, info.size) = info.crc

(* ionblapp.c, before it jumps to the application: "Application in memory  *)
(* is valid".  Flash holds the firmware that the firmware block describes. *)
ApplicationValid == running = "application" => Holds(fwinfo)

(* That is so as long as the device is not reset, whatever is lost, late,  *)
(* repeated or broken off: a started upload keeps the bootloader running.  *)
(* One loader may have been killed: what it left on its way does no harm.  *)
(* Several can leave so much that every answer is taken for that of a      *)
(* later frame; nothing is said of that, here or below.                    *)
ValidUnlessReset == resets = 0 /\ quits <= 1 => ApplicationValid

(* The firmware block in EEPROM tells the truth about flash until a page   *)
(* is flashed: BOOT_FINISH is believed without a look at flash, so the     *)
(* loader must not send it early, whatever is lost, repeated or reset.     *)
(* (A chunk sent again while its answer is on the way can come between     *)
(* BOOT_CHECK and BOOT_FINISH; a reset before it is flashed breaks this.)  *)
StoredIsTrue ==
    eeprom # Invalid /\ ~dirty /\ ~(hasty /\ resets > 0) /\ quits <= 1 => Holds(eeprom)

(* The loader leaves a block behind only when the device has flashed it,   *)
(* as long as it has waited for the answers and the device was not reset.  *)
VerifiedIsFlashed ==
    state # "WAIT_REQ" /\ ~hasty /\ resets = 0 /\ quits <= 1
        => \A p \in 0 .. block - 1 : flash[p] = FileData(p)
=============================================================================
