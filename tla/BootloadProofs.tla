--------------------------- MODULE BootloadProofs ---------------------------
(* Proofs about an upload, for any sizes of page, flash and firmware.      *)
EXTENDS Bootload, SequenceTheorems, TLAPS

LEMMA Numbers ==
    /\ Chunks \in Nat /\ Chunks >= 1 /\ FlashPages \in Nat
    /\ MaxRetries \in Nat /\ MaxLoads \in Nat /\ MaxQuits \in Nat
    /\ MaxLosses \in Nat /\ MaxResets \in Nat
BY BootloadAssumption

LEMMA Division ==
    ASSUME NEW n \in Nat PROVE n \div Chunks \in Nat /\ n % Chunks \in Chunk
BY Numbers DEF Chunk

LEMMA BlankPage == ASSUME NEW chunk \in Data PROVE Blank(chunk) \in Page
BY DEF Blank, Page

LEMMA Blanks == Blank(Zero) \in Page /\ Blank(Erased) \in Page
BY BlankPage, BootloadAssumption

LEMMA CrcType ==
    ASSUME NEW memory \in [PageNo -> Page], NEW size \in 0 .. FlashPages
    PROVE  AppCrc(memory, size) \in Seq(Page)
<1>1. \A p \in 1 .. size : memory[p - 1] \in Page
  BY Numbers DEF PageNo
<1> QED BY <1>1, Numbers DEF AppCrc

LEMMA LastReadType ==
    ASSUME NEW memory \in [PageNo -> Page], NEW size \in 0 .. FlashPages, NEW buffer \in Page
    PROVE  LastRead(memory, size, buffer) \in Page
BY Numbers DEF LastRead, PageNo

\* A byte of the file in memory, or the zeros behind it.
LEMMA FileDataType ==
    ASSUME filefw.data \in Seq(Page), NEW n \in Nat
    PROVE  FileData(n) \in Page
<1>1. n < Len(filefw.data) => filefw.data[n + 1] \in Page
  OBVIOUS
<1> QED BY <1>1, Blanks DEF FileData

LEMMA FrontType ==
    ASSUME NEW S, NEW s \in Seq(S), NEW n \in 0 .. Len(s)
    PROVE  SubSeq(s, 1, n) \in Seq(S) /\ Len(SubSeq(s, 1, n)) = n
OBVIOUS

LEMMA RestType ==
    ASSUME NEW S, NEW s \in Seq(S), NEW n \in Nat
    PROVE  SubSeq(s, n + 1, Len(s)) \in Seq(S)
<1>1. \A i \in n + 1 .. Len(s) : s[i] \in S
  OBVIOUS
<1> QED BY <1>1, SubSeqProperties

LEMMA OpenedType ==
    ASSUME filefw.data \in Seq(Page), NEW image \in Seq(Page), Len(image) \in 0 .. FlashPages
    PROVE  /\ Opened(image) \in [size : 0 .. FlashPages, data : Seq(Page)]
           /\ Opened(image).size <= Len(Opened(image).data)
<1> DEFINE rest == SubSeq(filefw.data, Len(image) + 1, Len(filefw.data))
<1>1. rest \in Seq(Page)
  BY RestType
<1> HIDE DEF rest
<1>2. image \o rest \in Seq(Page) /\ Len(image \o rest) = Len(image) + Len(rest)
  BY <1>1, ConcatProperties
<1>3. Opened(image) = [size |-> Len(image), data |-> image \o rest]
  BY DEF Opened, rest
<1> QED BY <1>1, <1>2, <1>3

-----------------------------------------------------------------------------
(* The loader                                                              *)

LEMMA SendType ==
    ASSUME toDevice \in Seq(ToDevice), NEW m \in ToDevice, NEW to, Send(to, m)
    PROVE  toDevice' \in Seq(ToDevice)
BY AppendProperties DEF Send

LEMMA NextChunkType ==
    ASSUME LoaderOK, FramesOK,
           NEW n \in Nat, NEW b \in Nat, NEW o \in 0 .. Chunks, NEW f \in Nat,
           n > 0 => o < Chunks, n = 0 => f = b * Chunks + o,
           WriteNextChunk(n, b, o, f)
    PROVE  /\ todo' \in Nat /\ block' \in Nat /\ offset' \in 0 .. Chunks
           /\ firmwareoffs' = block' * Chunks + offset'
           /\ toDevice' \in Seq(ToDevice)
<1>1. CASE n > 0
  <2>1. /\ todo' = n - 1 /\ block' = b /\ offset' = o + 1 /\ firmwareoffs' = b * Chunks + o + 1
        /\ Send(address, Write(b, o, FileData(f \div Chunks)[f % Chunks]))
    BY <1>1 DEF WriteNextChunk
  <2>2. FileData(f \div Chunks)[f % Chunks] \in Data
    <3>1. FileData(f \div Chunks) \in Page /\ f % Chunks \in Chunk
      BY FileDataType, Division DEF LoaderOK
    <3> QED BY <3>1 DEF Page
  <2>3. Write(b, o, FileData(f \div Chunks)[f % Chunks]) \in ToDevice
    BY <1>1, <2>2, Numbers DEF Write, ToDevice, Chunk
  <2>4. toDevice' \in Seq(ToDevice)
    BY <2>1, <2>3, SendType DEF FramesOK
  <2>5. b * Chunks \in Nat
    BY Numbers
  <2> QED BY <1>1, <2>1, <2>4, <2>5, Numbers
<1>2. CASE n = 0
  <2>1. todo' = n /\ block' = b /\ offset' = o /\ firmwareoffs' = f /\ toDevice' = toDevice
    BY <1>2, Numbers DEF WriteNextChunk
  <2> QED BY <1>2, <2>1 DEF FramesOK
<1> QED BY <1>1, <1>2

\* The fields app_write_nextchunk works on.
LEMMA Offsets ==
    ASSUME LoaderOK
    PROVE  /\ todo \in Nat /\ block \in Nat /\ offset \in 0 .. Chunks /\ firmwareoffs \in Nat
           /\ firmwareoffs = block * Chunks + offset
BY Numbers DEF LoaderOK

LEMMA InitBootstateType ==
    ASSUME FramesOK, InitBootstate
    PROVE  /\ state' = "WAIT_REQ" /\ address' \in {Button, Motor} /\ todo' \in Nat
           /\ block' \in Nat /\ offset' \in 0 .. Chunks /\ offset' = 0
           /\ firmwareoffs' = block' * Chunks + offset' /\ retries' \in 0 .. MaxRetries
<1>1. 0 * Chunks = 0
  BY Numbers
<1> QED BY <1>1, Numbers DEF InitBootstate

\* What an answer makes the loader do.
LEMMA AnswerType ==
    ASSUME LoaderOK, FramesOK, task = "load", NEW m, Answer(m) \/ Unexpected(m)
    PROVE  LoaderOK' /\ toDevice' \in Seq(ToDevice)
<1>1. ASSUME StartAcked PROVE LoaderOK' /\ toDevice' \in Seq(ToDevice)
  <2>1. /\ state = "WAIT_REQ" /\ state' = "WRITE" /\ UNCHANGED <<task, filefw, address, retries>>
        /\ WriteNextChunk(todo, block, offset, firmwareoffs)
    BY <1>1 DEF StartAcked
  <2>2. offset < Chunks
    BY <2>1, Numbers DEF LoaderOK
  <2>3. /\ todo' \in Nat /\ block' \in Nat /\ offset' \in 0 .. Chunks
        /\ firmwareoffs' = block' * Chunks + offset' /\ toDevice' \in Seq(ToDevice)
    BY <2>1, <2>2, Offsets, NextChunkType
  <2> QED BY <2>1, <2>3 DEF LoaderOK
<1>2. ASSUME ChunkAcked PROVE LoaderOK' /\ toDevice' \in Seq(ToDevice)
  <2>1. /\ state = "WRITE" /\ offset < Chunks
        /\ UNCHANGED <<task, filefw, address, state, retries>>
        /\ WriteNextChunk(todo, block, offset, firmwareoffs)
    BY <1>2 DEF ChunkAcked
  <2>2. /\ todo' \in Nat /\ block' \in Nat /\ offset' \in 0 .. Chunks
        /\ firmwareoffs' = block' * Chunks + offset' /\ toDevice' \in Seq(ToDevice)
    BY <2>1, Offsets, NextChunkType
  <2> QED BY <2>1, <2>2 DEF LoaderOK
<1>3. ASSUME BlockAcked(m.crc) PROVE LoaderOK' /\ toDevice' \in Seq(ToDevice)
  <2>1. /\ state = "WRITE" /\ todo > 0 /\ UNCHANGED <<task, filefw, address, state, retries>>
        /\ WriteNextChunk(todo, block + 1, 0, firmwareoffs)
    BY <1>3 DEF BlockAcked
  <2>2. block + 1 \in Nat /\ 0 \in 0 .. Chunks /\ 0 < Chunks /\ todo # 0
    BY <2>1, Offsets, Numbers
  <2>3. /\ todo' \in Nat /\ block' \in Nat /\ offset' \in 0 .. Chunks
        /\ firmwareoffs' = block' * Chunks + offset' /\ toDevice' \in Seq(ToDevice)
    BY <2>1, <2>2, Offsets, NextChunkType
  <2> QED BY <2>1, <2>3 DEF LoaderOK
<1>4. ASSUME LastAcked PROVE LoaderOK' /\ toDevice' \in Seq(ToDevice)
  <2>1. /\ state' = "CHECK" /\ Send(address, Check(filefw.size))
        /\ UNCHANGED <<task, filefw, address, todo, block, offset, firmwareoffs, retries>>
    BY <1>4 DEF LastAcked
  <2>2. Check(filefw.size) \in ToDevice
    BY DEF LoaderOK, Check, ToDevice
  <2>3. toDevice' \in Seq(ToDevice)
    BY <2>1, <2>2, SendType DEF FramesOK
  <2> QED BY <2>1, <2>3 DEF LoaderOK
<1>5. ASSUME CheckAcked(m.crc), LoadDone PROVE LoaderOK' /\ toDevice' \in Seq(ToDevice)
  <2>1. FileCrc \in Seq(Page)
    BY FrontType DEF LoaderOK, FileCrc
  <2>2. Finish(FileCrc, filefw.size) \in ToDevice
    BY <2>1 DEF LoaderOK, Finish, ToDevice
  <2>3. toDevice' \in Seq(ToDevice)
    BY <1>5, <2>2, SendType DEF CheckAcked, FramesOK
  <2>4. task' = "idle" /\ filefw' = filefw /\ InitBootstate
    BY <1>5 DEF LoadDone
  <2> QED BY <2>3, <2>4, InitBootstateType DEF LoaderOK
<1>6. ASSUME Unexpected(m) PROVE LoaderOK' /\ toDevice' \in Seq(ToDevice)
  BY <1>6 DEF Unexpected, loader, bootstate, LoaderOK, FramesOK
<1> QED BY <1>1, <1>2, <1>3, <1>4, <1>5, <1>6 DEF Answer

LEMMA LoaderNext ==
    ASSUME LoaderOK, FramesOK, Loader
    PROVE  LoaderOK' /\ FramesOK' /\ UNCHANGED device
<1>1. CASE StartMotor
  BY <1>1 DEF StartMotor, LoaderOK, FramesOK
<1>2. CASE PrepareSend
  <2>1. UNCHANGED <<loader, device, toLoader>> /\ Send(address, Info)
    BY <1>2 DEF PrepareSend, Ask
  <2>2. toDevice' \in Seq(ToDevice)
    BY <2>1, SendType DEF FramesOK, ToDevice
  <2> QED BY <2>1, <2>2 DEF loader, bootstate, LoaderOK, FramesOK
<1>3. CASE PrepareReceive
  BY <1>3, HeadTailProperties DEF PrepareReceive, LoaderOK, FramesOK
<1>4. CASE LoadMotor
  <2>1. /\ task' = "load" /\ UNCHANGED <<state, block, offset, firmwareoffs, retries>>
        /\ UNCHANGED <<device, toLoader>>
        /\ filefw' = Opened(Image) /\ todo' = Len(Image) * Chunks /\ address' = Motor
        /\ Send(Motor, Start)
    BY <1>4 DEF LoadMotor, StartLoad, OpenHex
  <2>2. /\ Opened(Image) \in [size : 0 .. FlashPages, data : Seq(Page)]
        /\ Opened(Image).size <= Len(Opened(Image).data)
    <3>1. Image \in Seq(Page) /\ Len(Image) \in 0 .. FlashPages
      BY BootloadAssumption
    <3> QED BY <3>1, OpenedType DEF LoaderOK
  <2>3. Len(Image) * Chunks \in Nat
    BY Numbers, BootloadAssumption
  <2>4. toDevice' \in Seq(ToDevice)
    BY <2>1, SendType DEF FramesOK, ToDevice
  <2> QED BY <2>1, <2>2, <2>3, <2>4 DEF LoaderOK, FramesOK
<1>5. CASE LoadReceive
  <2>1. /\ task = "load" /\ toLoader # <<>> /\ toLoader' = Tail(toLoader) /\ UNCHANGED device
        /\ Answer(Head(toLoader)) \/ Unexpected(Head(toLoader))
    BY <1>5 DEF LoadReceive
  <2>2. LoaderOK' /\ toDevice' \in Seq(ToDevice)
    BY <2>1, AnswerType
  <2>3. toLoader' \in Seq(ToLoader)
    BY <2>1, HeadTailProperties DEF FramesOK
  <2> QED BY <2>1, <2>2, <2>3 DEF FramesOK
<1>6. CASE RetryChunk
  <2>1. /\ task = "load" /\ retries < MaxRetries /\ retries' = retries + 1
        /\ UNCHANGED <<task, filefw, address, state>> /\ UNCHANGED <<device, toLoader>>
        /\ IF offset > 0
           THEN WriteNextChunk(todo + 1, block, offset - 1, block * Chunks + offset - 1)
           ELSE UNCHANGED <<todo, block, offset, firmwareoffs, toDevice>>
    BY <1>6 DEF RetryChunk
  <2>2. /\ todo' \in Nat /\ block' \in Nat /\ offset' \in 0 .. Chunks
        /\ firmwareoffs' = block' * Chunks + offset' /\ toDevice' \in Seq(ToDevice)
    <3>1. CASE offset > 0
      <4>1. /\ todo + 1 \in Nat /\ todo + 1 # 0 /\ offset - 1 \in 0 .. Chunks
            /\ offset - 1 < Chunks /\ block * Chunks + offset - 1 \in Nat
        BY <3>1, Offsets, Numbers
      <4> QED BY <2>1, <3>1, <4>1, Offsets, NextChunkType
    <3>2. CASE ~(offset > 0)
      BY <2>1, <3>2, Offsets DEF FramesOK
    <3> QED BY <3>1, <3>2
  <2>3. state' = "WAIT_REQ" => offset' = 0
    BY <2>1, Numbers DEF LoaderOK
  <2>4. retries' \in 0 .. MaxRetries
    BY <2>1, Numbers DEF LoaderOK
  <2> QED BY <2>1, <2>2, <2>3, <2>4 DEF LoaderOK, FramesOK
<1>7. CASE GiveUp
  BY <1>7 DEF GiveUp, bootstate, LoaderOK, FramesOK
<1> QED BY <1>1, <1>2, <1>3, <1>4, <1>5, <1>6, <1>7 DEF Loader

-----------------------------------------------------------------------------
(* The device                                                              *)

\* The frame the device takes.
LEMMA Taken ==
    ASSUME FramesOK, toDevice # <<>>, toDevice' = Tail(toDevice)
    PROVE  Head(toDevice) \in ToDevice /\ toDevice' \in Seq(ToDevice)
BY HeadTailProperties DEF FramesOK

LEMMA FrameTypes ==
    ASSUME NEW m \in ToDevice
    PROVE  /\ m.cmd = "BOOT_WRITE" => m.block \in Nat /\ m.offs \in Chunk /\ m.data \in Data
           /\ m.cmd = "BOOT_CHECK" => m.size \in 0 .. FlashPages
           /\ m.cmd = "BOOT_FINISH" => m.crc \in Seq(Page) /\ m.size \in 0 .. FlashPages
BY DEF ToDevice, Start, Info

LEMMA ReplyType ==
    ASSUME FramesOK, NEW cmd, NEW crc, Reply(cmd, crc), Ack(cmd, crc) \in ToLoader
    PROVE  toLoader' \in Seq(ToLoader)
BY AppendProperties DEF Reply, FramesOK

\* The page buffer with a chunk in it.
LEMMA BufferType ==
    ASSUME DeviceOK, NEW c \in Chunk, NEW d \in Data
    PROVE  [pagebuffer EXCEPT ![c] = d] \in Page
BY DEF DeviceOK, Page

LEMMA HandleType ==
    ASSUME DeviceOK, FramesOK, NEW m \in ToDevice,
           HandleStart(m) \/ HandleWrite(m) \/ HandleCheck(m) \/ HandleFinish(m)
    PROVE  DeviceOK' /\ toLoader' \in Seq(ToLoader)
<1>1. CASE HandleStart(m)
  <2>1. Ack(m.cmd, NoCrc) \in ToLoader
    BY <1>1 DEF HandleStart, Ack, ToLoader
  <2> QED BY <1>1, <2>1, ReplyType DEF HandleStart, DeviceOK
<1>2. CASE HandleWrite(m)
  <2>1. pagebuffer' \in Page
    BY <1>2, FrameTypes, BufferType DEF HandleWrite
  <2>2. flash' \in [PageNo -> Page] /\ dirty' \in BOOLEAN
    BY <1>2, <2>1 DEF HandleWrite, DeviceOK
  <2>3. Ack(m.cmd, pagebuffer') \in ToLoader
    BY <1>2, <2>1 DEF HandleWrite, Ack, ToLoader
  <2>4. toLoader' \in Seq(ToLoader)
    BY <1>2, <2>3, ReplyType DEF HandleWrite, FramesOK
  <2> QED BY <1>2, <2>1, <2>2, <2>4 DEF HandleWrite, DeviceOK
<1>3. CASE HandleCheck(m)
  <2>1. m.size \in 0 .. FlashPages
    BY <1>3, FrameTypes DEF HandleCheck
  <2>2. AppCrc(flash, m.size) \in Seq(Page) /\ LastRead(flash, m.size, pagebuffer) \in Page
    BY <2>1, CrcType, LastReadType DEF DeviceOK
  <2>3. Ack(m.cmd, AppCrc(flash, m.size)) \in ToLoader
    BY <1>3, <2>2 DEF HandleCheck, Ack, ToLoader
  <2>4. toLoader' \in Seq(ToLoader)
    BY <1>3, <2>3, ReplyType DEF HandleCheck
  <2>5. fwinfo' \in FwInfo
    BY <1>3, <2>1 DEF HandleCheck, DeviceOK, FwInfo
  <2> QED BY <1>3, <2>2, <2>4, <2>5 DEF HandleCheck, DeviceOK
<1>4. CASE HandleFinish(m)
  <2>1. [crc |-> m.crc, size |-> m.size] \in FwInfo
    BY <1>4, FrameTypes DEF HandleFinish, FwInfo, Crc
  <2> QED BY <1>4, <2>1 DEF HandleFinish, DeviceOK, FramesOK
<1> QED BY <1>1, <1>2, <1>3, <1>4

LEMMA DeviceNext ==
    ASSUME DeviceOK, FramesOK, Device
    PROVE  DeviceOK' /\ FramesOK' /\ UNCHANGED <<loader, bounds>>
<1>1. CASE DeviceReceive
  <2> DEFINE m == Head(toDevice)
  <2>1. /\ toDevice # <<>> /\ toDevice' = Tail(toDevice) /\ UNCHANGED <<loader, bounds>>
        /\ HandleStart(m) \/ HandleWrite(m) \/ HandleCheck(m) \/ HandleFinish(m)
    BY <1>1 DEF DeviceReceive
  <2>2. m \in ToDevice /\ toDevice' \in Seq(ToDevice)
    BY <2>1, Taken
  <2> HIDE DEF m
  <2>3. DeviceOK' /\ toLoader' \in Seq(ToLoader)
    BY <2>1, <2>2, HandleType
  <2> QED BY <2>1, <2>2, <2>3 DEF FramesOK
<1>2. CASE DeviceTimeout
  BY <1>2 DEF DeviceTimeout, DeviceOK, FramesOK
<1> QED BY <1>1, <1>2 DEF Device

\* After a reset, with the flash and the firmware block it finds.
LEMMA ResetType ==
    ASSUME DeviceOK, FramesOK, CountsOK,
           NEW memory \in [PageNo -> Page], NEW info \in FwInfo \cup {Invalid},
           ResetWith(memory, info), dirty' \in BOOLEAN
    PROVE  DeviceOK' /\ CountsOK' /\ UNCHANGED <<loader, toLoader>>
<1> DEFINE found == IF info = Invalid THEN [crc |-> NoCrc, size |-> 0] ELSE info
<1>1. /\ resets < MaxResets /\ resets' = resets + 1 /\ flash' = memory /\ eeprom' = info
      /\ Boot(memory, found) /\ UNCHANGED <<loader, toLoader, loads, quits, losses, hasty>>
  BY DEF ResetWith
<1>2. found \in FwInfo
  <2>1. [crc |-> NoCrc, size |-> 0] \in FwInfo
    BY Numbers DEF FwInfo, Crc
  <2> QED BY <2>1
<1> HIDE DEF found
<1>3. found.size \in 0 .. FlashPages
  BY <1>2 DEF FwInfo
<1>4. /\ AppCrc(memory, found.size) \in Seq(Page)
      /\ LastRead(memory, found.size, Blank(Zero)) \in Page
  BY <1>3, CrcType, LastReadType, Blanks
<1>5. /\ running' = "bootloader" /\ fwinfo' \in FwInfo /\ crcapp' \in Crc
      /\ pagebuffer' \in Page /\ bootloading' \in BOOLEAN
  BY <1>1, <1>2, <1>4 DEF Boot, Crc
<1>6. DeviceOK'
  BY <1>1, <1>5 DEF DeviceOK
<1>7. CountsOK'
  BY <1>1, Numbers DEF CountsOK
<1> QED BY <1>1, <1>6, <1>7

-----------------------------------------------------------------------------
(* Types                                                                   *)

LEMMA CountsNext == CountsOK /\ (Loader \/ Device) => CountsOK'
<1> SUFFICES ASSUME CountsOK, Loader \/ Device PROVE CountsOK'
  OBVIOUS
<1>1. CASE LoadMotor
  BY <1>1, Numbers DEF LoadMotor, CountsOK
<1>2. CASE RetryChunk
  BY <1>2 DEF RetryChunk, CountsOK
<1>3. CASE StartMotor \/ PrepareSend \/ PrepareReceive \/ LoadReceive \/ GiveUp \/ Device
  <2>1. UNCHANGED bounds
    BY <1>3 DEF StartMotor, PrepareSend, Ask, PrepareReceive, LoadReceive, GiveUp, Device,
                DeviceReceive, DeviceTimeout
  <2> QED BY <2>1 DEF bounds, CountsOK
<1> QED BY <1>1, <1>2, <1>3 DEF Loader

LEMMA EnvironmentNext == TypeOK /\ Environment => TypeOK'
<1> SUFFICES ASSUME LoaderOK, DeviceOK, FramesOK, CountsOK, Environment PROVE TypeOK'
  BY DEF TypeOK
<1>1. CASE Quit
  <2>1. /\ task' = "idle" /\ filefw' = NoFile /\ InitBootstate /\ toLoader' = <<>>
        /\ UNCHANGED device /\ toDevice' = toDevice
        /\ quits < MaxQuits /\ quits' = quits + 1 /\ UNCHANGED <<loads, losses, resets, hasty>>
    BY <1>1 DEF Quit
  <2>2. /\ NoFile \in [size : 0 .. FlashPages, data : Seq(Page)]
        /\ NoFile.size <= Len(NoFile.data)
    BY Numbers DEF NoFile
  <2>3. LoaderOK'
    BY <2>1, <2>2, InitBootstateType DEF LoaderOK
  <2>4. <<>> \in Seq(ToLoader)
    OBVIOUS
  <2>5. FramesOK'
    BY <2>1, <2>4 DEF FramesOK
  <2>6. CountsOK'
    BY <2>1, Numbers DEF CountsOK
  <2>7. DeviceOK'
    BY <2>1 DEF device, ram, DeviceOK
  <2> QED BY <2>3, <2>5, <2>6, <2>7 DEF TypeOK
<1>2. CASE ApplicationIgnores
  <2>1. toDevice # <<>> /\ toDevice' = Tail(toDevice) /\ UNCHANGED <<loader, device, toLoader, bounds>>
    BY <1>2 DEF ApplicationIgnores
  <2>2. FramesOK'
    BY <2>1, Taken DEF FramesOK
  <2> QED BY <2>1, <2>2 DEF loader, bootstate, device, ram, bounds, TypeOK, LoaderOK, DeviceOK, CountsOK
<1>3. CASE LoseFrame
  <2>1. /\ UNCHANGED <<loader, device, loads, quits, resets, hasty>>
        /\ losses < MaxLosses /\ losses' = losses + 1
    BY <1>3 DEF LoseFrame
  <2>2. FramesOK'
    BY <1>3, HeadTailProperties DEF LoseFrame, FramesOK
  <2>3. CountsOK'
    BY <2>1, Numbers DEF CountsOK
  <2> QED BY <2>1, <2>2, <2>3 DEF loader, bootstate, device, ram, TypeOK, LoaderOK, DeviceOK
<1>4. CASE Reset
  <2>1. DeviceOK' /\ CountsOK' /\ UNCHANGED <<loader, toLoader>>
    BY <1>4, ResetType DEF Reset, DeviceOK
  <2>2. toDevice' \in Seq(ToDevice)
    BY <1>4, RestType DEF Reset, FramesOK
  <2> QED BY <2>1, <2>2 DEF loader, bootstate, TypeOK, LoaderOK, FramesOK
<1>5. CASE CrashInWrite
  <2> DEFINE torn == [flash EXCEPT ![Head(toDevice).block] = Blank(Erased)]
  <2>1. torn \in [PageNo -> Page]
    BY Blanks DEF DeviceOK
  <2>2. /\ ResetWith(torn, eeprom) /\ dirty' = TRUE
        /\ toDevice # <<>> /\ toDevice' = Tail(toDevice)
    BY <1>5 DEF CrashInWrite
  <2> HIDE DEF torn
  <2>3. eeprom \in FwInfo \cup {Invalid} /\ dirty' \in BOOLEAN
    BY <2>2 DEF DeviceOK
  <2>4. DeviceOK' /\ CountsOK' /\ UNCHANGED <<loader, toLoader>>
    BY <2>1, <2>2, <2>3, ResetType
  <2>5. FramesOK'
    BY <2>2, <2>4, Taken DEF FramesOK
  <2> QED BY <2>4, <2>5 DEF loader, bootstate, TypeOK, LoaderOK
<1>6. CASE CrashInFinish
  <2>1. /\ ResetWith(flash, Invalid) /\ dirty' = dirty
        /\ toDevice # <<>> /\ toDevice' = Tail(toDevice)
    BY <1>6 DEF CrashInFinish
  <2>2. DeviceOK' /\ CountsOK' /\ UNCHANGED <<loader, toLoader>>
    BY <2>1, ResetType DEF DeviceOK
  <2>3. FramesOK'
    BY <2>1, <2>2, Taken DEF FramesOK
  <2> QED BY <2>2, <2>3 DEF loader, bootstate, TypeOK, LoaderOK
<1> QED BY <1>1, <1>2, <1>3, <1>4, <1>5, <1>6 DEF Environment

LEMMA TypeNext == TypeOK /\ [Next]_vars => TypeOK'
<1> SUFFICES ASSUME LoaderOK, DeviceOK, FramesOK, CountsOK, [Next]_vars PROVE TypeOK'
  BY DEF TypeOK
<1>1. CASE Loader
  <2>1. LoaderOK' /\ FramesOK' /\ UNCHANGED device /\ CountsOK'
    BY <1>1, LoaderNext, CountsNext
  <2> QED BY <2>1 DEF device, ram, DeviceOK, TypeOK
<1>2. CASE Device
  <2>1. DeviceOK' /\ FramesOK' /\ UNCHANGED loader /\ CountsOK'
    BY <1>2, DeviceNext, CountsNext
  <2> QED BY <2>1 DEF loader, bootstate, LoaderOK, TypeOK
<1>3. CASE Environment
  BY <1>3, EnvironmentNext DEF TypeOK
<1>4. CASE UNCHANGED vars
  BY <1>4 DEF vars, loader, bootstate, device, ram, bounds, TypeOK, LoaderOK, DeviceOK,
              FramesOK, CountsOK
<1> QED BY <1>1, <1>2, <1>3, <1>4 DEF Next

LEMMA TypeInit == Init => TypeOK
<1> SUFFICES ASSUME Init PROVE TypeOK
  OBVIOUS
<1>1. /\ OldImage \in Seq(Page) /\ Len(OldImage) \in 1 .. FlashPages
  BY BootloadAssumption
<1>2. flash \in [PageNo -> Page]
  <2>1. \A p \in PageNo : p < Len(OldImage) => OldImage[p + 1] \in Page
    BY <1>1, Numbers DEF PageNo
  <2> QED BY <2>1, Blanks DEF Init
<1>3. eeprom \in FwInfo \cup {Invalid}
  <2>1. [crc |-> OldImage, size |-> Len(OldImage)] \in FwInfo
    BY <1>1, Numbers DEF FwInfo, Crc
  <2> QED BY <2>1 DEF Init
<1>4. fwinfo \in FwInfo
  <2>1. [crc |-> NoCrc, size |-> 0] \in FwInfo
    BY Numbers DEF FwInfo, Crc
  <2> QED BY <1>3, <2>1 DEF Init, ReadFirmwareBlock
<1>5. crcapp \in Crc /\ pagebuffer \in Page
  <2>1. fwinfo.size \in 0 .. FlashPages
    BY <1>4 DEF FwInfo
  <2>2. /\ AppCrc(flash, fwinfo.size) \in Seq(Page)
        /\ LastRead(flash, fwinfo.size, Blank(Zero)) \in Page
    BY <1>2, <2>1, CrcType, LastReadType, Blanks
  <2> QED BY <2>2 DEF Init, Crc
<1>6. DeviceOK
  BY <1>2, <1>3, <1>4, <1>5 DEF Init, DeviceOK
<1>7. LoaderOK
  <2>1. /\ NoFile \in [size : 0 .. FlashPages, data : Seq(Page)]
        /\ NoFile.size <= Len(NoFile.data)
    BY Numbers DEF NoFile
  <2>2. 0 * Chunks = 0
    BY Numbers
  <2> QED BY <2>1, <2>2, Numbers DEF Init, LoaderOK
<1>8. CountsOK
  <2>1. hasty \in BOOLEAN
    BY DEF Init
  <2> QED BY <2>1, Numbers DEF Init, CountsOK
<1>9. <<>> \in Seq(ToDevice) /\ <<>> \in Seq(ToLoader)
  OBVIOUS
<1> QED BY <1>6, <1>7, <1>8, <1>9 DEF Init, TypeOK, FramesOK

(* The variables of loader and device keep their types, whatever is lost,  *)
(* repeated, killed or reset, for any sizes: the loader asks for no chunk  *)
(* behind a page, its offset in the file goes with block and offset, and   *)
(* the size it reports is that of a file it has read.                      *)
THEOREM BootloadTypeCorrect == Spec => []TypeOK
BY TypeInit, TypeNext, PTL DEF Spec

-----------------------------------------------------------------------------
(* What the bootloader starts when its time runs out                       *)

\* Until the first frame of an upload arrives nothing has changed since start-up,
\* and no other kind of frame is on its way.
Untouched ==
    resets = 0 /\ ~bootloading =>
        /\ state = "WAIT_REQ" /\ toLoader = <<>> /\ toDevice \in Seq({Start, Info})
        /\ crcapp = AppCrc(flash, fwinfo.size)

LEMMA UntouchedInit == Init => Untouched
<1> SUFFICES ASSUME Init, ~bootloading PROVE Untouched
  BY DEF Untouched
<1>1. fwinfo.size \in 0 .. FlashPages /\ fwinfo.size # 0
  BY TypeInit DEF TypeOK, DeviceOK, FwInfo, Init
<1>2. crcapp = AppCrc(flash, fwinfo.size)
  BY <1>1, Numbers DEF Init
<1>3. <<>> \in Seq({Start, Info})
  OBVIOUS
<1> QED BY <1>2, <1>3 DEF Init, Untouched

LEMMA UntouchedNext == TypeOK /\ Untouched /\ [Next]_vars => Untouched'
<1> SUFFICES ASSUME TypeOK, Untouched, [Next]_vars, resets' = 0, ~bootloading' PROVE Untouched'
  BY DEF Untouched
<1>1. resets \in Nat
  BY Numbers DEF TypeOK, CountsOK
<1>2. ASSUME UNCHANGED device, resets' = resets, state' = "WAIT_REQ", toLoader' = <<>>,
             toDevice \in Seq({Start, Info}) => toDevice' \in Seq({Start, Info})
      PROVE  Untouched'
  BY <1>2 DEF Untouched, device, ram
<1>3. CASE Loader
  <2>1. resets' = resets /\ UNCHANGED device
    BY <1>3, LoaderNext DEF TypeOK, Loader, StartMotor, PrepareSend, Ask, PrepareReceive, LoadMotor,
                            LoadReceive, RetryChunk, GiveUp, bounds
  <2>2. state = "WAIT_REQ" /\ toLoader = <<>> /\ toDevice \in Seq({Start, Info})
    BY <1>1, <2>1 DEF Untouched, device, ram
  <2>3. ~PrepareReceive /\ ~LoadReceive
    BY <2>2 DEF PrepareReceive, LoadReceive
  <2>4. state' = "WAIT_REQ" /\ toLoader' = <<>>
    BY <1>3, <2>2, <2>3 DEF Loader, StartMotor, PrepareSend, Ask, LoadMotor, RetryChunk, GiveUp,
                            loader, bootstate
  <2>5. toDevice' \in Seq({Start, Info})
    <3>1. CASE PrepareSend
      <4>1. Append(toDevice, Info) \in Seq({Start, Info})
        BY <2>2, AppendProperties
      <4> QED BY <2>2, <3>1, <4>1 DEF PrepareSend, Ask, Send
    <3>2. CASE LoadMotor
      <4>1. Append(toDevice, Start) \in Seq({Start, Info})
        BY <2>2, AppendProperties
      <4> QED BY <2>2, <3>2, <4>1 DEF LoadMotor, StartLoad, Send
    <3>3. CASE RetryChunk
      <4>1. offset = 0
        BY <2>2 DEF TypeOK, LoaderOK
      <4> QED BY <2>2, <3>3, <4>1 DEF RetryChunk
    <3>4. CASE StartMotor \/ GiveUp
      BY <2>2, <3>4 DEF StartMotor, GiveUp
    <3> QED BY <1>3, <2>3, <3>1, <3>2, <3>3, <3>4 DEF Loader
  <2> QED BY <1>2, <2>1, <2>4, <2>5
<1>4. CASE DeviceReceive
  <2>1. /\ resets' = resets /\ UNCHANGED <<loader, bounds>> /\ toDevice # <<>>
        /\ HandleStart(Head(toDevice)) \/ HandleWrite(Head(toDevice))
           \/ HandleCheck(Head(toDevice)) \/ HandleFinish(Head(toDevice))
    BY <1>4 DEF DeviceReceive, bounds
  <2>2. bootloading = FALSE
    BY <2>1 DEF HandleStart, HandleWrite, HandleCheck, HandleFinish, TypeOK, DeviceOK
  <2>3. toDevice \in Seq({Start, Info})
    BY <1>1, <2>1, <2>2 DEF Untouched
  <2>4. Head(toDevice) \in {Start, Info}
    BY <2>1, <2>3, HeadTailProperties
  <2>5. HandleStart(Head(toDevice))
    BY <2>1, <2>4 DEF Start, Info, HandleWrite, HandleCheck, HandleFinish
  <2> QED BY <2>5 DEF HandleStart
<1>5. CASE DeviceTimeout
  BY <1>5 DEF DeviceTimeout, loader, bootstate, bounds, Untouched
<1>6. CASE Quit
  <2>1. /\ UNCHANGED device /\ resets' = resets /\ toDevice' = toDevice
        /\ state' = "WAIT_REQ" /\ toLoader' = <<>>
    BY <1>6 DEF Quit, InitBootstate
  <2> QED BY <1>2, <2>1
<1>7. CASE ApplicationIgnores \/ LoseFrame
  <2>1. UNCHANGED <<loader, device>> /\ resets' = resets
    BY <1>7 DEF ApplicationIgnores, LoseFrame, bounds
  <2>2. state = "WAIT_REQ" /\ toLoader = <<>> /\ toDevice \in Seq({Start, Info})
    BY <2>1 DEF Untouched, device, ram
  <2>3. /\ toLoader' = <<>>
        /\ toDevice' = toDevice \/ (toDevice # <<>> /\ toDevice' = Tail(toDevice))
    BY <1>7, <2>2 DEF ApplicationIgnores, LoseFrame
  <2>4. toDevice' \in Seq({Start, Info})
    BY <2>2, <2>3, HeadTailProperties
  <2> QED BY <1>2, <2>1, <2>2, <2>3, <2>4 DEF loader, bootstate
<1>8. CASE Reset \/ CrashInWrite \/ CrashInFinish
  <2>1. resets' = resets + 1
    BY <1>8 DEF Reset, CrashInWrite, CrashInFinish, ResetWith
  <2> QED BY <1>1, <2>1
<1>9. CASE UNCHANGED vars
  BY <1>9 DEF vars, loader, bootstate, device, ram, bounds, Untouched
<1> QED BY <1>3, <1>4, <1>5, <1>6, <1>7, <1>8, <1>9 DEF Next, Device, Environment

(* When its time runs out the bootloader starts only an application that   *)
(* has the CRC of the firmware block, as long as the device was not reset: *)
(* no page is flashed before a frame has made it stay in bootload mode,    *)
(* whatever is lost, late, repeated or broken off.  (After a reset in the  *)
(* middle of an upload it does start another one: see bootload_stale.)     *)
TimeoutStartsValid == [][DeviceTimeout /\ resets = 0 => Holds(fwinfo)]_vars

THEOREM BootloadTimeoutStartsValid == Spec => TimeoutStartsValid
<1>1. Untouched /\ [Next]_vars => [DeviceTimeout /\ resets = 0 => Holds(fwinfo)]_vars
  BY DEF Untouched, DeviceTimeout, Holds
<1> QED BY <1>1, TypeInit, TypeNext, UntouchedInit, UntouchedNext, PTL
        DEF Spec, TimeoutStartsValid

-----------------------------------------------------------------------------
(* What is on its way: the answers in p, then the requests in q.  R says   *)
(* which commands may come behind a command.                               *)

Follow(p, q, R) ==
    /\ \A i, j \in DOMAIN p : i < j => p[j].cmd \in R[p[i].cmd]
    /\ \A i \in DOMAIN p : \A j \in DOMAIN q : q[j].cmd \in R[p[i].cmd]
    /\ \A i, j \in DOMAIN q : i < j => q[j].cmd \in R[q[i].cmd]

Names(p, q) == {p[i].cmd : i \in DOMAIN p} \cup {q[i].cmd : i \in DOMAIN q}

LEMMA NamesEmpty == Names(<<>>, <<>>) = {} /\ \A R : Follow(<<>>, <<>>, R)
BY DEF Names, Follow

\* Any may come behind any.
LEMMA AnyOrder ==
    ASSUME NEW p, NEW q, NEW R, \A c, d \in Names(p, q) : d \in R[c]
    PROVE  Follow(p, q, R)
<1>1. /\ \A i \in DOMAIN p : p[i].cmd \in Names(p, q)
      /\ \A i \in DOMAIN q : q[i].cmd \in Names(p, q)
  BY DEF Names
<1> QED BY <1>1 DEF Follow

\* A frame is sent.
LEMMA Sent ==
    ASSUME NEW A, NEW B, NEW p \in Seq(A), NEW q \in Seq(B), NEW m, NEW R,
           Follow(p, q, R), \A c \in Names(p, q) : m.cmd \in R[c]
    PROVE  Follow(p, Append(q, m), R)
<1> DEFINE s == Append(q, m)
<1>1. /\ DOMAIN q = 1 .. Len(q) /\ DOMAIN s = 1 .. Len(q) + 1 /\ Len(q) \in Nat
      /\ s[Len(q) + 1] = m /\ \A i \in 1 .. Len(q) : s[i] = q[i]
  BY AppendProperties
<1> HIDE DEF s
<1>2. ASSUME NEW i \in DOMAIN p, NEW j \in DOMAIN s PROVE s[j].cmd \in R[p[i].cmd]
  <2>1. CASE j \in 1 .. Len(q)
    BY <1>1, <2>1 DEF Follow
  <2>2. CASE j = Len(q) + 1
    <3>1. p[i].cmd \in Names(p, q)
      BY DEF Names
    <3> QED BY <1>1, <2>2, <3>1
  <2> QED BY <1>1, <2>1, <2>2
<1>3. ASSUME NEW i \in DOMAIN s, NEW j \in DOMAIN s, i < j PROVE s[j].cmd \in R[s[i].cmd]
  <2>1. i \in 1 .. Len(q)
    BY <1>1, <1>3
  <2>2. CASE j \in 1 .. Len(q)
    BY <1>1, <1>3, <2>1, <2>2 DEF Follow
  <2>3. CASE j = Len(q) + 1
    <3>1. q[i].cmd \in Names(p, q)
      BY <1>1, <2>1 DEF Names
    <3> QED BY <1>1, <2>1, <2>3, <3>1
  <2> QED BY <1>1, <2>2, <2>3
<1> QED BY <1>2, <1>3 DEF Follow, s

LEMMA SentNames ==
    ASSUME NEW B, NEW p, NEW q \in Seq(B), NEW m
    PROVE  Names(p, Append(q, m)) = Names(p, q) \cup {m.cmd}
<1> DEFINE s == Append(q, m)
<1>1. /\ DOMAIN q = 1 .. Len(q) /\ DOMAIN s = 1 .. Len(q) + 1 /\ Len(q) \in Nat
      /\ s[Len(q) + 1] = m /\ \A i \in 1 .. Len(q) : s[i] = q[i]
  BY AppendProperties
<1> HIDE DEF s
<1>2. {s[i].cmd : i \in DOMAIN s} = {q[i].cmd : i \in DOMAIN q} \cup {m.cmd}
  <2>1. ASSUME NEW i \in DOMAIN s PROVE s[i].cmd \in {q[k].cmd : k \in DOMAIN q} \cup {m.cmd}
    BY <1>1
  <2>2. ASSUME NEW k \in DOMAIN q PROVE q[k].cmd \in {s[i].cmd : i \in DOMAIN s}
    <3>1. k \in DOMAIN s /\ s[k] = q[k]
      BY <1>1
    <3> QED BY <3>1
  <2>3. m.cmd \in {s[i].cmd : i \in DOMAIN s}
    <3>1. Len(q) + 1 \in DOMAIN s
      BY <1>1
    <3> QED BY <1>1, <3>1
  <2> QED BY <2>1, <2>2, <2>3
<1> QED BY <1>2 DEF Names, s

\* The loader takes an answer.
LEMMA TailAt ==
    ASSUME NEW A, NEW p \in Seq(A), p # <<>>
    PROVE  /\ Len(p) \in Nat /\ Len(p) >= 1 /\ DOMAIN p = 1 .. Len(p) /\ Head(p) = p[1]
           /\ Tail(p) \in Seq(A) /\ DOMAIN Tail(p) = 1 .. Len(p) - 1
           /\ \A i \in 1 .. Len(p) - 1 : Tail(p)[i] = p[i + 1]
BY HeadTailProperties, EmptySeq

LEMMA Took ==
    ASSUME NEW A, NEW p \in Seq(A), NEW q, p # <<>>
    PROVE  /\ \A R : Follow(p, q, R) => Follow(Tail(p), q, R)
           /\ Names(p, q) = Names(Tail(p), q) \cup {Head(p).cmd}
<1> DEFINE t == Tail(p)
<1>1. /\ Len(p) \in Nat /\ Len(p) >= 1 /\ DOMAIN p = 1 .. Len(p) /\ Head(p) = p[1]
      /\ DOMAIN t = 1 .. Len(p) - 1
      /\ \A i \in 1 .. Len(p) - 1 : t[i] = p[i + 1]
  BY TailAt
<1> HIDE DEF t
<1>2. ASSUME NEW i \in DOMAIN t PROVE i \in Nat /\ i + 1 \in DOMAIN p /\ t[i] = p[i + 1]
  BY <1>1
<1>3. ASSUME NEW R, Follow(p, q, R) PROVE Follow(t, q, R)
  BY <1>2, <1>3 DEF Follow
<1>4. Names(p, q) = Names(t, q) \cup {Head(p).cmd}
  <2>1. ASSUME NEW i \in DOMAIN p PROVE p[i].cmd \in {t[k].cmd : k \in DOMAIN t} \cup {Head(p).cmd}
    <3>1. CASE i = 1
      BY <1>1, <3>1
    <3>2. CASE i # 1
      <4>1. i - 1 \in DOMAIN t /\ t[i - 1] = p[i]
        BY <1>1, <3>2
      <4> QED BY <4>1
    <3> QED BY <3>1, <3>2
  <2>2. Head(p).cmd \in {p[i].cmd : i \in DOMAIN p}
    <3>1. 1 \in DOMAIN p
      BY <1>1
    <3> QED BY <1>1, <3>1
  <2>3. ASSUME NEW k \in DOMAIN t PROVE t[k].cmd \in {p[i].cmd : i \in DOMAIN p}
    BY <1>2
  <2> QED BY <2>1, <2>2, <2>3 DEF Names
<1> QED BY <1>3, <1>4 DEF t

\* What may be behind the answer it takes.
LEMMA Behind ==
    ASSUME NEW A, NEW B, NEW p \in Seq(A), NEW q \in Seq(B), p # <<>>, NEW R, Follow(p, q, R)
    PROVE  \A c \in Names(Tail(p), q) : c \in R[Head(p).cmd]
<1> DEFINE t == Tail(p)
<1>1. /\ Len(p) \in Nat /\ Len(p) >= 1 /\ DOMAIN p = 1 .. Len(p) /\ Head(p) = p[1]
      /\ DOMAIN t = 1 .. Len(p) - 1
      /\ \A i \in 1 .. Len(p) - 1 : t[i] = p[i + 1]
  BY TailAt
<1> HIDE DEF t
<1>2. ASSUME NEW i \in DOMAIN t PROVE t[i].cmd \in R[p[1].cmd]
  <2>1. 1 \in DOMAIN p /\ i + 1 \in DOMAIN p /\ 1 < i + 1 /\ t[i] = p[i + 1]
    BY <1>1
  <2> QED BY <2>1 DEF Follow
<1>3. ASSUME NEW j \in DOMAIN q PROVE q[j].cmd \in R[p[1].cmd]
  <2>1. 1 \in DOMAIN p
    BY <1>1
  <2> QED BY <2>1 DEF Follow
<1> QED BY <1>1, <1>2, <1>3 DEF Names, t

\* Requests at the front get lost.
LEMMA Suffix ==
    ASSUME NEW B, NEW q \in Seq(B), NEW n \in 0 .. Len(q)
    PROVE  /\ SubSeq(q, n + 1, Len(q)) \in Seq(B)
           /\ DOMAIN SubSeq(q, n + 1, Len(q)) = 1 .. Len(q) - n
           /\ \A i \in 1 .. Len(q) - n : SubSeq(q, n + 1, Len(q))[i] = q[n + i]
<1>1. \A i \in n + 1 .. Len(q) : q[i] \in B
  OBVIOUS
<1> QED BY <1>1, SubSeqProperties

\* A part of q in the same order.
LEMMA Dropped ==
    ASSUME NEW p, NEW q, NEW s, NEW n \in Nat,
           DOMAIN s \subseteq Nat, \A i \in DOMAIN s : n + i \in DOMAIN q /\ s[i] = q[n + i]
    PROVE  /\ \A R : Follow(p, q, R) => Follow(p, s, R)
           /\ Names(p, s) \subseteq Names(p, q)
BY DEF Follow, Names

\* The device answers a request.
LEMMA Moved ==
    ASSUME NEW A, NEW B, NEW p \in Seq(A), NEW q \in Seq(B), q # <<>>,
           NEW m, m.cmd = Head(q).cmd
    PROVE  /\ \A R : Follow(p, q, R) => Follow(Append(p, m), Tail(q), R)
           /\ Names(Append(p, m), Tail(q)) \subseteq Names(p, q)
<1> DEFINE s == Append(p, m)
           t == Tail(q)
<1>1. /\ Len(q) \in Nat /\ Len(q) >= 1 /\ DOMAIN q = 1 .. Len(q) /\ Head(q) = q[1]
      /\ DOMAIN t = 1 .. Len(q) - 1
      /\ \A i \in 1 .. Len(q) - 1 : t[i] = q[i + 1]
  BY TailAt
<1>2. /\ DOMAIN p = 1 .. Len(p) /\ DOMAIN s = 1 .. Len(p) + 1 /\ Len(p) \in Nat
      /\ s[Len(p) + 1] = m /\ \A i \in 1 .. Len(p) : s[i] = p[i]
  BY AppendProperties
<1> HIDE DEF s, t
<1>3. ASSUME NEW i \in DOMAIN t PROVE i \in Nat /\ i >= 1 /\ i + 1 \in DOMAIN q /\ t[i] = q[i + 1]
  BY <1>1
<1>4. 1 \in DOMAIN q
  BY <1>1
<1>5. ASSUME NEW i \in DOMAIN s
      PROVE  i \in Nat /\ ((i \in DOMAIN p /\ s[i] = p[i]) \/ (i = Len(p) + 1 /\ s[i].cmd = q[1].cmd))
  BY <1>1, <1>2
<1>6. ASSUME NEW R, Follow(p, q, R) PROVE Follow(s, t, R)
  <2>1. ASSUME NEW i \in DOMAIN s, NEW j \in DOMAIN s, i < j PROVE s[j].cmd \in R[s[i].cmd]
    <3>1. i \in DOMAIN p /\ s[i] = p[i]
      BY <1>2, <2>1
    <3>2. CASE j \in DOMAIN p /\ s[j] = p[j]
      BY <1>6, <2>1, <3>1, <3>2 DEF Follow
    <3>3. CASE s[j].cmd = q[1].cmd
      <4>1. q[1].cmd \in R[p[i].cmd]
        BY <1>4, <1>6, <3>1 DEF Follow
      <4> QED BY <3>1, <3>3, <4>1
    <3> QED BY <1>5, <3>2, <3>3
  <2>2. ASSUME NEW i \in DOMAIN s, NEW j \in DOMAIN t PROVE t[j].cmd \in R[s[i].cmd]
    <3>1. j + 1 \in DOMAIN q /\ t[j] = q[j + 1] /\ 1 < j + 1
      BY <1>3
    <3>2. CASE i \in DOMAIN p /\ s[i] = p[i]
      BY <1>6, <3>1, <3>2 DEF Follow
    <3>3. CASE s[i].cmd = q[1].cmd
      <4>1. q[j + 1].cmd \in R[q[1].cmd]
        BY <1>4, <1>6, <3>1 DEF Follow
      <4> QED BY <3>1, <3>3, <4>1
    <3> QED BY <1>5, <3>2, <3>3
  <2>3. ASSUME NEW i \in DOMAIN t, NEW j \in DOMAIN t, i < j PROVE t[j].cmd \in R[t[i].cmd]
    <3>1. /\ i + 1 \in DOMAIN q /\ j + 1 \in DOMAIN q /\ i + 1 < j + 1
          /\ t[i] = q[i + 1] /\ t[j] = q[j + 1]
      BY <1>3, <2>3
    <3> QED BY <1>6, <3>1 DEF Follow
  <2> QED BY <2>1, <2>2, <2>3 DEF Follow
<1>7. Names(s, t) \subseteq Names(p, q)
  <2>1. ASSUME NEW i \in DOMAIN s PROVE s[i].cmd \in Names(p, q)
    BY <1>4, <1>5 DEF Names
  <2>2. ASSUME NEW i \in DOMAIN t PROVE t[i].cmd \in Names(p, q)
    BY <1>3 DEF Names
  <2> QED BY <2>1, <2>2 DEF Names
<1> QED BY <1>6, <1>7 DEF s, t

Calls == {"BOOT_START", "BOOT_INFO"}
Cmds == Calls \cup {"BOOT_WRITE", "BOOT_CHECK", "BOOT_FINISH"}

Line(R) == Follow(toLoader, toDevice, R)
OnLine == Names(toLoader, toDevice)

\* Before BOOT_START is answered: behind a call, only what a load after another
\* that was given up or killed has sent again; behind BOOT_FINISH, only calls.
Waiting == [c \in Cmds |-> IF c \in Calls \cup {"BOOT_CHECK"} THEN Calls \cup {"BOOT_WRITE"}
                           ELSE IF c = "BOOT_FINISH" THEN Calls ELSE Cmds]
\* Behind BOOT_CHECK, only the last chunk again.
Checking == [c \in Cmds |-> IF c = "BOOT_CHECK" THEN {"BOOT_WRITE"} ELSE Cmds]
\* The first loader calls only when nothing but chunks and BOOT_FINISH is on its way.
Alone == [c \in Cmds |-> IF c \in Calls \cup {"BOOT_CHECK"} THEN {"BOOT_WRITE"}
                         ELSE IF c = "BOOT_FINISH" THEN Calls ELSE Cmds]
Working == [c \in Cmds |-> IF c = "BOOT_WRITE" THEN Cmds \ Calls ELSE Cmds]

Orderly ==
    quits <= 1 =>
        /\ state = "WAIT_REQ" => Line(Waiting)
        /\ state = "WRITE" => OnLine \subseteq Calls \cup {"BOOT_WRITE"}
        /\ state = "CHECK" => "BOOT_FINISH" \notin OnLine /\ Line(Checking)
        /\ task # "load" /\ state # "WAIT_REQ" => OnLine \subseteq Calls
FirstOrderly ==
    quits = 0 =>
        /\ Line(Alone)
        /\ state # "WAIT_REQ" => Line(Working)
        /\ task = "idle" => OnLine \subseteq {"BOOT_WRITE", "BOOT_FINISH"}

\* A loader that waits for answers has one request on its way, and perhaps the
\* BOOT_FINISH of the upload before.
Tidy == [c \in Cmds |-> IF c \in Calls THEN Calls ELSE Cmds \ {"BOOT_FINISH"}]
Led == [c \in Cmds |-> IF c \in Calls THEN Cmds ELSE {}]
Single == [c \in Cmds |-> IF c = "BOOT_FINISH" THEN Cmds \ {"BOOT_FINISH"} ELSE {}]

Patient ==
    quits <= 1 /\ ~hasty =>
        /\ state = "WAIT_REQ" => Line(Tidy)
        /\ state # "WAIT_REQ" => Line(Led)
FirstPatient ==
    quits = 0 /\ ~hasty =>
        /\ Line(Single)
        /\ task = "idle" => OnLine \subseteq {"BOOT_FINISH"}

Shape == Orderly /\ FirstOrderly /\ Patient /\ FirstPatient

LEMMA Commands ==
    FramesOK => /\ \A i \in DOMAIN toLoader : toLoader[i].cmd \in Cmds
                /\ \A i \in DOMAIN toDevice : toDevice[i].cmd \in Cmds
                /\ OnLine \subseteq Cmds
<1> SUFFICES ASSUME FramesOK PROVE /\ \A i \in DOMAIN toLoader : toLoader[i].cmd \in Cmds
                                   /\ \A i \in DOMAIN toDevice : toDevice[i].cmd \in Cmds
  BY DEF OnLine, Names
<1>1. \A m \in ToLoader : m.cmd \in Cmds
  BY DEF ToLoader, Cmds, Calls
<1>2. \A m \in ToDevice : m.cmd \in Cmds
  BY DEF ToDevice, Start, Info, Cmds, Calls
<1>3. /\ \A i \in DOMAIN toLoader : toLoader[i] \in ToLoader
      /\ \A i \in DOMAIN toDevice : toDevice[i] \in ToDevice
  BY DEF FramesOK
<1> QED BY <1>1, <1>2, <1>3

\* Nothing is sent, and perhaps something has arrived or is lost.
Fewer ==
    /\ \A R : Line(R) => Line(R)'
    /\ OnLine' \subseteq OnLine

LEMMA FewerKeeps ==
    ASSUME Shape, Fewer, UNCHANGED <<state, quits, hasty>>,
           task' = task \/ (task = "idle" /\ task' = "prepare")
    PROVE  Shape'
<1>1. Orderly'
  <2>1. Orderly /\ Line(Waiting) => Line(Waiting)'
    BY DEF Fewer, Shape
  <2>2. Line(Checking) => Line(Checking)'
    BY DEF Fewer
  <2> QED BY <2>1, <2>2 DEF Fewer, Shape, Orderly
<1>2. FirstOrderly'
  <2>1. (Line(Alone) => Line(Alone)') /\ (Line(Working) => Line(Working)')
    BY DEF Fewer
  <2> QED BY <2>1 DEF Fewer, Shape, FirstOrderly
<1>3. Patient'
  <2>1. (Line(Tidy) => Line(Tidy)') /\ (Line(Led) => Line(Led)')
    BY DEF Fewer
  <2> QED BY <2>1 DEF Shape, Patient
<1>4. FirstPatient'
  <2>1. Line(Single) => Line(Single)'
    BY DEF Fewer
  <2> QED BY <2>1 DEF Fewer, Shape, FirstPatient
<1> QED BY <1>1, <1>2, <1>3, <1>4 DEF Shape

\* Nothing is on its way.
LEMMA EmptyLine == toLoader = <<>> /\ toDevice = <<>> => OnLine = {} /\ \A R : Line(R)
BY NamesEmpty DEF OnLine, Line

LEMMA EmptyShape == toLoader = <<>> /\ toDevice = <<>> => Shape
BY EmptyLine DEF Shape, Orderly, FirstOrderly, Patient, FirstPatient


\* Of the answers p are left, and perhaps a frame with the command x joins the line.
Joins(p, x) ==
    /\ \A R : /\ Follow(p, toDevice, R)
              /\ \A c \in Names(p, toDevice) : x \in R[c]
              => Line(R)'
    /\ OnLine' \subseteq Names(p, toDevice) \cup {x}

LEMMA SendJoins ==
    ASSUME NEW p \in Seq(ToLoader), toDevice \in Seq(ToDevice), NEW to, NEW m, Send(to, m),
           toLoader' = p
    PROVE  Joins(p, m.cmd)
<1>1. CASE to = Motor
  <2>1. toDevice' = Append(toDevice, m)
    BY <1>1 DEF Send
  <2>2. ASSUME NEW R, Follow(p, toDevice, R), \A c \in Names(p, toDevice) : m.cmd \in R[c]
        PROVE  Line(R)'
    <3>1. Follow(p, Append(toDevice, m), R)
      BY <2>2, Sent
    <3> QED BY <2>1, <3>1 DEF Line
  <2>3. OnLine' = Names(p, toDevice) \cup {m.cmd}
    BY <2>1, SentNames DEF OnLine
  <2> QED BY <2>2, <2>3 DEF Joins
<1>2. CASE to # Motor
  BY <1>2 DEF Send, Line, OnLine, Joins
<1> QED BY <1>1, <1>2

\* What is behind the answer the loader takes.
Left == Names(Tail(toLoader), toDevice)

LEMMA TookLine ==
    ASSUME FramesOK, toLoader # <<>>
    PROVE  /\ Tail(toLoader) \in Seq(ToLoader)
           /\ \A R : Line(R) => /\ Follow(Tail(toLoader), toDevice, R)
                                /\ \A c \in Left : c \in R[Head(toLoader).cmd]
           /\ OnLine = Left \cup {Head(toLoader).cmd}
BY Took, Behind, TailAt DEF FramesOK, Line, OnLine, Left

LEMMA TookFewer ==
    ASSUME FramesOK, toLoader # <<>>, toLoader' = Tail(toLoader), toDevice' = toDevice
    PROVE  Fewer /\ OnLine' = Left
<1>1. ASSUME NEW R, Line(R) PROVE Line(R)'
  BY <1>1, TookLine DEF Line
<1>2. OnLine' = Left /\ Left \subseteq OnLine
  BY TookLine DEF OnLine, Left
<1> QED BY <1>1, <1>2 DEF Fewer

\* app_write_nextchunk sends a chunk or nothing.
LEMMA ChunkJoins ==
    ASSUME NEW p \in Seq(ToLoader), toDevice \in Seq(ToDevice), toLoader' = p,
           NEW n, NEW b, NEW o, NEW f, WriteNextChunk(n, b, o, f)
    PROVE  Joins(p, "BOOT_WRITE")
<1> DEFINE m == Write(b, o, FileData(f \div Chunks)[f % Chunks])
<1>1. m.cmd = "BOOT_WRITE"
  BY DEF Write
<1>2. Send(address, m) \/ toDevice' = toDevice
  BY DEF WriteNextChunk
<1> HIDE DEF m
<1>3. CASE Send(address, m)
  BY <1>1, <1>3, SendJoins
<1>4. CASE toDevice' = toDevice
  BY <1>4 DEF Joins, OnLine, Line
<1> QED BY <1>2, <1>3, <1>4

LEMMA Kinds ==
    /\ Cmds = {"BOOT_START", "BOOT_INFO", "BOOT_WRITE", "BOOT_CHECK", "BOOT_FINISH"}
    /\ Calls = {"BOOT_START", "BOOT_INFO"}
BY DEF Cmds, Calls

\* Which may come behind which.
LEMMA Rules ==
    ASSUME NEW c \in Cmds
    PROVE  /\ Waiting[c] = IF c \in Calls \cup {"BOOT_CHECK"} THEN Calls \cup {"BOOT_WRITE"}
                           ELSE IF c = "BOOT_FINISH" THEN Calls ELSE Cmds
           /\ Checking[c] = IF c = "BOOT_CHECK" THEN {"BOOT_WRITE"} ELSE Cmds
           /\ Alone[c] = IF c \in Calls \cup {"BOOT_CHECK"} THEN {"BOOT_WRITE"}
                         ELSE IF c = "BOOT_FINISH" THEN Calls ELSE Cmds
           /\ Working[c] = IF c = "BOOT_WRITE" THEN Cmds \ Calls ELSE Cmds
           /\ Tidy[c] = IF c \in Calls THEN Calls ELSE Cmds \ {"BOOT_FINISH"}
           /\ Led[c] = IF c \in Calls THEN Cmds ELSE {}
           /\ Single[c] = IF c = "BOOT_FINISH" THEN Cmds \ {"BOOT_FINISH"} ELSE {}
BY DEF Waiting, Checking, Alone, Working, Tidy, Led, Single

LEMMA LineIs == \A R : Line(R) <=> Follow(toLoader, toDevice, R)
BY DEF Line

\* The loader calls the device.
LEMMA CallShape ==
    ASSUME Shape, FramesOK, task = "idle", Joins(toLoader, "BOOT_START"),
           UNCHANGED <<state, quits, hasty>>, task' = "load", state \in {"WAIT_REQ", "WRITE", "CHECK"}
    PROVE  Shape'
<1>0. OnLine \subseteq Cmds
  BY Commands
<1>5. (\A R : Line(R) /\ (\A c \in OnLine : "BOOT_START" \in R[c]) => Line(R)')
      /\ OnLine' \subseteq OnLine \cup {"BOOT_START"}
  BY DEF Joins, Line, OnLine
<1>1. Orderly'
  BY <1>0, <1>5, Kinds, Rules DEF Shape, Orderly
<1>2. FirstOrderly'
  BY <1>0, <1>5, Kinds, Rules DEF Shape, Orderly, FirstOrderly
<1>3. Patient'
  BY <1>0, <1>5, Kinds, Rules DEF Shape, Orderly, Patient
<1>4. FirstPatient'
  BY <1>0, <1>5, Kinds, Rules DEF Shape, FirstPatient
<1> QED BY <1>1, <1>2, <1>3, <1>4 DEF Shape

\* The device has answered BOOT_START, and the first chunk goes out.
LEMMA StartShape ==
    ASSUME Shape, FramesOK, toLoader # <<>>, Head(toLoader).cmd = "BOOT_START",
           Joins(Tail(toLoader), "BOOT_WRITE"),
           state = "WAIT_REQ", state' = "WRITE", task = "load", UNCHANGED <<task, quits, hasty>>
    PROVE  Shape'
<1>0. Left \subseteq Cmds /\ "BOOT_START" \in Cmds
  BY Commands, TookLine, Kinds
<1>1. \A R : Line(R) => \A c \in Left : c \in R["BOOT_START"]
  BY TookLine
<1>2. /\ quits <= 1 => Left \subseteq Calls \cup {"BOOT_WRITE"}
      /\ quits = 0 => Left \subseteq {"BOOT_WRITE"}
      /\ quits <= 1 /\ ~hasty => Left \subseteq Calls
      /\ quits = 0 /\ ~hasty => Left = {}
  BY <1>0, <1>1, Kinds, Rules DEF Shape, Orderly, FirstOrderly, Patient, FirstPatient
<1>3. OnLine' \subseteq Left \cup {"BOOT_WRITE"}
  BY DEF Joins, Left
<1>4. ASSUME NEW R, \A c, d \in Left : d \in R[c], \A c \in Left : "BOOT_WRITE" \in R[c]
      PROVE  Line(R)'
  <2>1. Follow(Tail(toLoader), toDevice, R)
    BY <1>4, AnyOrder DEF Left
  <2> QED BY <1>4, <2>1 DEF Joins, Left
<1>5. Orderly'
  BY <1>2, <1>3 DEF Orderly
<1>6. FirstOrderly'
  <2>1. quits = 0 => Line(Alone)' /\ Line(Working)'
    BY <1>2, <1>4, Kinds, Rules
  <2> QED BY <2>1 DEF FirstOrderly
<1>7. Patient'
  <2>1. quits <= 1 /\ ~hasty => Line(Led)'
    BY <1>0, <1>2, <1>4, Kinds, Rules
  <2> QED BY <2>1 DEF Patient
<1>8. FirstPatient'
  <2>1. quits = 0 /\ ~hasty => Line(Single)'
    BY <1>2, <1>4
  <2> QED BY <2>1 DEF FirstPatient
<1> QED BY <1>5, <1>6, <1>7, <1>8 DEF Shape

\* What is behind an answer, and keeps its order when a frame joins it.
LEMMA TookJoins ==
    ASSUME FramesOK, toLoader # <<>>, NEW x, Joins(Tail(toLoader), x)
    PROVE  /\ \A R : Line(R) => \A c \in Left : c \in R[Head(toLoader).cmd]
           /\ \A R : Line(R) /\ (\A c \in Left : x \in R[c]) => Line(R)'
           /\ OnLine' \subseteq Left \cup {x}
           /\ OnLine = Left \cup {Head(toLoader).cmd} /\ Left \subseteq Cmds
<1>1. ASSUME NEW R, Line(R), \A c \in Left : x \in R[c] PROVE Line(R)'
  BY <1>1, TookLine DEF Joins, Left
<1> QED BY <1>1, TookLine, Commands DEF Joins, Left

\* A chunk is answered, and the next one goes out.
LEMMA ChunkShape ==
    ASSUME Shape, FramesOK, toLoader # <<>>, Head(toLoader).cmd = "BOOT_WRITE",
           Joins(Tail(toLoader), "BOOT_WRITE"),
           state = "WRITE", task = "load", UNCHANGED <<state, task, quits, hasty>>
    PROVE  Shape'
<1>1. /\ \A R : Line(R) => \A c \in Left : c \in R["BOOT_WRITE"]
      /\ \A R : Line(R) /\ (\A c \in Left : "BOOT_WRITE" \in R[c]) => Line(R)'
      /\ OnLine' \subseteq Left \cup {"BOOT_WRITE"}
      /\ OnLine = Left \cup {"BOOT_WRITE"} /\ Left \subseteq Cmds /\ "BOOT_WRITE" \in Cmds
  BY TookJoins, Kinds
<1>2. /\ quits <= 1 => Left \subseteq Calls \cup {"BOOT_WRITE"}
      /\ quits <= 1 /\ ~hasty => Left = {}
  BY <1>1, Kinds, Rules DEF Shape, Orderly, Patient
<1>5. Orderly'
  BY <1>1, <1>2 DEF Orderly
<1>6. FirstOrderly'
  <2>1. quits = 0 => Line(Alone)' /\ Line(Working)'
    BY <1>1, <1>2, Kinds, Rules DEF Shape, FirstOrderly
  <2> QED BY <2>1 DEF FirstOrderly
<1>7. Patient'
  BY <1>1, <1>2 DEF Shape, Patient
<1>8. FirstPatient'
  BY <1>1, <1>2 DEF Shape, FirstPatient
<1> QED BY <1>5, <1>6, <1>7, <1>8 DEF Shape

\* The last chunk is answered, and BOOT_CHECK goes out.
LEMMA LastShape ==
    ASSUME Shape, FramesOK, toLoader # <<>>, Head(toLoader).cmd = "BOOT_WRITE",
           Joins(Tail(toLoader), "BOOT_CHECK"),
           state = "WRITE", state' = "CHECK", task = "load", UNCHANGED <<task, quits, hasty>>
    PROVE  Shape'
<1>1. /\ \A R : Line(R) => \A c \in Left : c \in R["BOOT_WRITE"]
      /\ \A R : Line(R) /\ (\A c \in Left : "BOOT_CHECK" \in R[c]) => Line(R)'
      /\ OnLine' \subseteq Left \cup {"BOOT_CHECK"}
      /\ OnLine = Left \cup {"BOOT_WRITE"} /\ Left \subseteq Cmds /\ "BOOT_WRITE" \in Cmds
  BY TookJoins, Kinds
<1>2. /\ quits <= 1 => Left \subseteq Calls \cup {"BOOT_WRITE"}
      /\ quits = 0 => Left \subseteq {"BOOT_WRITE"}
      /\ quits <= 1 /\ ~hasty => Left = {}
  BY <1>1, Kinds, Rules DEF Shape, Orderly, FirstOrderly, Patient
<1>4. ASSUME NEW R, \A c, d \in Left : d \in R[c], \A c \in Left : "BOOT_CHECK" \in R[c]
      PROVE  Line(R)'
  <2>1. Follow(Tail(toLoader), toDevice, R)
    BY <1>4, AnyOrder DEF Left
  <2> QED BY <1>4, <2>1 DEF Joins, Left
<1>5. Orderly'
  <2>1. quits <= 1 => Line(Checking)'
    BY <1>1, <1>2, <1>4, Kinds, Rules
  <2> QED BY <1>1, <1>2, <2>1, Kinds DEF Orderly
<1>6. FirstOrderly'
  <2>1. quits = 0 => Line(Alone)' /\ Line(Working)'
    BY <1>1, <1>2, Kinds, Rules DEF Shape, FirstOrderly
  <2> QED BY <2>1 DEF FirstOrderly
<1>7. Patient'
  BY <1>1, <1>2 DEF Shape, Patient
<1>8. FirstPatient'
  BY <1>1, <1>2 DEF Shape, FirstPatient
<1> QED BY <1>5, <1>6, <1>7, <1>8 DEF Shape

\* BOOT_CHECK is answered: BOOT_FINISH goes out or not.
LEMMA CheckShape ==
    ASSUME Shape, FramesOK, toLoader # <<>>, Head(toLoader).cmd = "BOOT_CHECK",
           Joins(Tail(toLoader), "BOOT_FINISH"),
           state = "CHECK", state' = "WAIT_REQ", task' = "idle", UNCHANGED <<quits, hasty>>
    PROVE  Shape'
<1>1. /\ \A R : Line(R) => \A c \in Left : c \in R["BOOT_CHECK"]
      /\ \A R : Line(R) /\ (\A c \in Left : "BOOT_FINISH" \in R[c]) => Line(R)'
      /\ OnLine' \subseteq Left \cup {"BOOT_FINISH"}
      /\ OnLine = Left \cup {"BOOT_CHECK"} /\ Left \subseteq Cmds /\ "BOOT_CHECK" \in Cmds
  BY TookJoins, Kinds
<1>2. /\ quits <= 1 => Left \subseteq {"BOOT_WRITE"}
      /\ quits <= 1 /\ ~hasty => Left = {}
  BY <1>1, Kinds, Rules DEF Shape, Orderly, Patient
<1>4. ASSUME NEW R, \A c, d \in Left : d \in R[c], \A c \in Left : "BOOT_FINISH" \in R[c]
      PROVE  Line(R)'
  <2>1. Follow(Tail(toLoader), toDevice, R)
    BY <1>4, AnyOrder DEF Left
  <2> QED BY <1>4, <2>1 DEF Joins, Left
<1>5. Orderly'
  <2>1. quits <= 1 => Line(Waiting)'
    BY <1>2, <1>4, Kinds, Rules
  <2> QED BY <2>1 DEF Orderly
<1>6. FirstOrderly'
  <2>1. quits = 0 => Line(Alone)'
    BY <1>2, <1>4, Kinds, Rules
  <2> QED BY <1>1, <1>2, <2>1 DEF FirstOrderly
<1>7. Patient'
  BY <1>2, <1>4 DEF Patient
<1>8. FirstPatient'
  BY <1>1, <1>2, <1>4 DEF FirstPatient
<1> QED BY <1>5, <1>6, <1>7, <1>8 DEF Shape

\* The loader sends the last chunk again.
LEMMA RetryShape ==
    ASSUME Shape, FramesOK, toLoader = <<>>, Joins(toLoader, "BOOT_WRITE"),
           state \in {"WRITE", "CHECK"}, task = "load", UNCHANGED <<state, task, quits>>,
           hasty' = (hasty \/ ~Quiet)
    PROVE  Shape'
<1>1. OnLine \subseteq Cmds
  BY Commands
<1>2. /\ \A R : Line(R) /\ (\A c \in OnLine : "BOOT_WRITE" \in R[c]) => Line(R)'
      /\ OnLine' \subseteq OnLine \cup {"BOOT_WRITE"}
  BY DEF Joins, Line, OnLine
<1>3. ~hasty' => OnLine = {} /\ \A R : Line(R)
  BY EmptyLine DEF Quiet
<1>5. Orderly'
  BY <1>1, <1>2, Kinds, Rules DEF Shape, Orderly
<1>6. FirstOrderly'
  <2>1. quits = 0 => Line(Alone)'
    BY <1>1, <1>2, Kinds, Rules DEF Shape, Orderly, FirstOrderly
  <2>2. quits = 0 => Line(Working)'
    BY <1>1, <1>2, Kinds, Rules DEF Shape, FirstOrderly
  <2> QED BY <2>1, <2>2 DEF FirstOrderly
<1>7. Patient'
  BY <1>2, <1>3 DEF Patient
<1>8. FirstPatient'
  BY <1>2, <1>3 DEF FirstPatient
<1> QED BY <1>5, <1>6, <1>7, <1>8 DEF Shape

LEMMA Weaken ==
    ASSUME FramesOK, NEW R, NEW R2, \A c \in Cmds : R[c] \subseteq R2[c], Line(R)
    PROVE  Line(R2)
BY Commands DEF Line, Follow

\* Some of the requests at the front are gone, and no more.
LEMMA SuffixFewer ==
    ASSUME FramesOK, NEW n \in 0 .. Len(toDevice), toLoader' = toLoader,
           toDevice' = SubSeq(toDevice, n + 1, Len(toDevice))
    PROVE  Fewer
<1>1. /\ Len(toDevice) \in Nat /\ n \in Nat /\ n <= Len(toDevice)
      /\ DOMAIN toDevice = 1 .. Len(toDevice)
  BY DEF FramesOK
<1>2. /\ DOMAIN toDevice' = 1 .. Len(toDevice) - n
      /\ \A i \in 1 .. Len(toDevice) - n : toDevice'[i] = toDevice[n + i]
  BY Suffix DEF FramesOK
<1>3. /\ DOMAIN toDevice' \subseteq Nat
      /\ \A i \in DOMAIN toDevice' : n + i \in DOMAIN toDevice /\ toDevice'[i] = toDevice[n + i]
  BY <1>1, <1>2
<1>4. /\ \A R : Follow(toLoader, toDevice, R) => Follow(toLoader, toDevice', R)
      /\ Names(toLoader, toDevice') \subseteq Names(toLoader, toDevice)
  <2> DEFINE s == toDevice'
  <2>1. n \in Nat
    BY <1>1
  <2>2. /\ DOMAIN s \subseteq Nat
        /\ \A i \in DOMAIN s : n + i \in DOMAIN toDevice /\ s[i] = toDevice[n + i]
    BY <1>3
  <2> HIDE DEF s
  <2>3. /\ \A R : Follow(toLoader, toDevice, R) => Follow(toLoader, s, R)
        /\ Names(toLoader, s) \subseteq Names(toLoader, toDevice)
    BY <2>1, <2>2, Dropped
  <2> QED BY <2>3 DEF s
<1> QED BY <1>4 DEF Fewer, Line, OnLine

LEMMA TailFewer ==
    ASSUME FramesOK, toDevice # <<>>, toDevice' = Tail(toDevice), toLoader' = toLoader
    PROVE  Fewer
<1>1. /\ Len(toDevice) \in Nat /\ DOMAIN toDevice = 1 .. Len(toDevice)
      /\ DOMAIN toDevice' = 1 .. Len(toDevice) - 1
      /\ \A i \in 1 .. Len(toDevice) - 1 : toDevice'[i] = toDevice[i + 1]
  BY TailAt DEF FramesOK
<1>2. /\ DOMAIN toDevice' \subseteq Nat
      /\ \A i \in DOMAIN toDevice' : 1 + i \in DOMAIN toDevice /\ toDevice'[i] = toDevice[1 + i]
  BY <1>1
<1>3. /\ \A R : Follow(toLoader, toDevice, R) => Follow(toLoader, toDevice', R)
      /\ Names(toLoader, toDevice') \subseteq Names(toLoader, toDevice)
  BY <1>2, Dropped
<1> QED BY <1>3 DEF Fewer, Line, OnLine

\* The device answers a request or passes over it.
LEMMA ReplyFewer ==
    ASSUME FramesOK, toDevice # <<>>, toDevice' = Tail(toDevice),
           NEW crc, Reply(Head(toDevice).cmd, crc) \/ toLoader' = toLoader
    PROVE  Fewer
<1>1. CASE Reply(Head(toDevice).cmd, crc)
  <2> DEFINE m == Ack(Head(toDevice).cmd, crc)
  <2>1. m.cmd = Head(toDevice).cmd
    BY DEF Ack
  <2>2. toLoader' = Append(toLoader, m)
    BY <1>1 DEF Reply
  <2> HIDE DEF m
  <2>3. /\ \A R : Follow(toLoader, toDevice, R) => Follow(Append(toLoader, m), Tail(toDevice), R)
        /\ Names(Append(toLoader, m), Tail(toDevice)) \subseteq Names(toLoader, toDevice)
    BY <2>1, Moved DEF FramesOK
  <2> QED BY <2>2, <2>3 DEF Fewer, Line, OnLine
<1>2. CASE toLoader' = toLoader
  BY <1>2, TailFewer
<1> QED BY <1>1, <1>2

\* The device and the line leave fewer frames on their way.
LEMMA OthersFewer ==
    ASSUME FramesOK, Device \/ (Environment /\ ~Quit)
    PROVE  Fewer /\ UNCHANGED <<state, task, quits, hasty>>
<1>1. CASE DeviceReceive
  <2>1. /\ toDevice # <<>> /\ toDevice' = Tail(toDevice)
        /\ UNCHANGED <<loader, bounds>>
        /\ LET m == Head(toDevice) IN
             HandleStart(m) \/ HandleWrite(m) \/ HandleCheck(m) \/ HandleFinish(m)
    BY <1>1 DEF DeviceReceive
  <2>2. Fewer
    <3>1. CASE HandleStart(Head(toDevice))
      BY <2>1, <3>1, ReplyFewer DEF HandleStart
    <3>2. CASE HandleWrite(Head(toDevice))
      <4>1. Reply(Head(toDevice).cmd, pagebuffer') \/ toLoader' = toLoader
        BY <3>2 DEF HandleWrite
      <4> QED BY <2>1, <4>1, ReplyFewer
    <3>3. CASE HandleCheck(Head(toDevice))
      BY <2>1, <3>3, ReplyFewer DEF HandleCheck
    <3>4. CASE HandleFinish(Head(toDevice))
      BY <2>1, <3>4, TailFewer DEF HandleFinish
    <3> QED BY <2>1, <3>1, <3>2, <3>3, <3>4
  <2> QED BY <2>1, <2>2 DEF loader, bootstate, bounds
<1>2. CASE DeviceTimeout
  BY <1>2 DEF DeviceTimeout, loader, bootstate, bounds, Fewer, Line, OnLine
<1>3. CASE ApplicationIgnores
  BY <1>3, TailFewer DEF ApplicationIgnores, loader, bootstate, bounds
<1>4. CASE LoseFrame
  <2>1. UNCHANGED <<state, task, quits, hasty>>
    BY <1>4 DEF LoseFrame, loader, bootstate
  <2> QED BY <1>4, <2>1, TailFewer, TookFewer DEF LoseFrame
<1>5. CASE Reset
  <2>1. UNCHANGED <<state, task, quits, hasty, toLoader>>
    BY <1>5 DEF Reset, ResetWith, loader, bootstate
  <2> QED BY <1>5, <2>1, SuffixFewer DEF Reset
<1>6. CASE CrashInWrite \/ CrashInFinish
  <2>1. UNCHANGED <<state, task, quits, hasty, toLoader>>
    BY <1>6 DEF CrashInWrite, CrashInFinish, ResetWith, loader, bootstate
  <2> QED BY <1>6, <2>1, TailFewer DEF CrashInWrite, CrashInFinish
<1> QED BY <1>1, <1>2, <1>3, <1>4, <1>5, <1>6 DEF Device, Environment

LEMMA AnswerShape ==
    ASSUME Shape, LoaderOK, FramesOK, task = "load", toLoader # <<>>, UNCHANGED <<quits, hasty>>,
           toLoader' = Tail(toLoader), Answer(Head(toLoader)) \/ Unexpected(Head(toLoader))
    PROVE  Shape'
<1> DEFINE m == Head(toLoader)
<1>0. Tail(toLoader) \in Seq(ToLoader) /\ toDevice \in Seq(ToDevice)
  BY TookLine DEF FramesOK
<1>1. CASE m.cmd = "BOOT_START" /\ StartAcked
  BY <1>0, <1>1, ChunkJoins, StartShape DEF StartAcked
<1>2. CASE m.cmd = "BOOT_WRITE" /\ (ChunkAcked \/ BlockAcked(m.crc))
  <2>1. state = "WRITE" /\ UNCHANGED <<task, state>> /\ Joins(Tail(toLoader), "BOOT_WRITE")
    BY <1>0, <1>2, ChunkJoins DEF ChunkAcked, BlockAcked
  <2> QED BY <1>2, <2>1, ChunkShape
<1>3. CASE m.cmd = "BOOT_WRITE" /\ LastAcked
  <2>1. /\ state = "WRITE" /\ state' = "CHECK" /\ task' = task
        /\ Send(address, Check(filefw.size))
    BY <1>3 DEF LastAcked
  <2>2. Check(filefw.size).cmd = "BOOT_CHECK"
    BY DEF Check
  <2>3. Joins(Tail(toLoader), "BOOT_CHECK")
    BY <1>0, <2>1, <2>2, SendJoins
  <2> QED BY <1>3, <2>1, <2>3, LastShape
<1>4. CASE m.cmd = "BOOT_CHECK" /\ CheckAcked(m.crc) /\ LoadDone
  <2>1. state = "CHECK" /\ state' = "WAIT_REQ" /\ task' = "idle"
    BY <1>4 DEF CheckAcked, LoadDone, InitBootstate
  <2>2. Joins(Tail(toLoader), "BOOT_FINISH")
    <3>1. CASE Send(address, Finish(FileCrc, filefw.size))
      <4>1. Finish(FileCrc, filefw.size).cmd = "BOOT_FINISH"
        BY DEF Finish
      <4> QED BY <1>0, <3>1, <4>1, SendJoins
    <3>2. CASE toDevice' = toDevice
      BY <3>2 DEF Joins, OnLine, Line
    <3> QED BY <1>4, <3>1, <3>2 DEF CheckAcked
  <2> QED BY <1>4, <2>1, <2>2, CheckShape
<1>5. CASE Unexpected(m)
  <2>1. UNCHANGED <<task, state, toDevice>>
    BY <1>5 DEF Unexpected, loader, bootstate
  <2> QED BY <2>1, TookFewer, FewerKeeps
<1> QED BY <1>1, <1>2, <1>3, <1>4, <1>5 DEF Answer

LEMMA ShapeLoader ==
    ASSUME Shape, LoaderOK, FramesOK, Loader PROVE Shape'
<1>0. toLoader \in Seq(ToLoader) /\ toDevice \in Seq(ToDevice)
  BY DEF FramesOK
<1>1. CASE StartMotor
  BY <1>1, FewerKeeps DEF StartMotor, bounds, Fewer, Line, OnLine
<1>2. CASE PrepareSend
  <2>1. /\ task = "prepare" /\ toLoader = <<>> /\ toDevice = <<>> /\ Send(address, Info)
        /\ UNCHANGED <<task, state, quits, hasty, toLoader>>
    BY <1>2 DEF PrepareSend, Ask, loader, bootstate, bounds
  <2>2. Info.cmd = "BOOT_INFO"
    BY DEF Info
  <2>3. Joins(toLoader, "BOOT_INFO")
    BY <1>0, <2>1, <2>2, SendJoins
  <2>4. (\A R : Line(R)') /\ OnLine' \subseteq {"BOOT_INFO"}
    BY <2>1, <2>3, NamesEmpty DEF Joins
  <2> QED BY <2>1, <2>4, Kinds DEF Shape, Orderly, FirstOrderly, Patient, FirstPatient
<1>3. CASE PrepareReceive
  <2>1. /\ task = "prepare" /\ toLoader # <<>> /\ toLoader' = Tail(toLoader)
        /\ UNCHANGED <<state, toDevice, quits, hasty>>
        /\ \/ Head(toLoader).cmd = "BOOT_INFO" /\ task' = "idle"
           \/ task' = task
    BY <1>3 DEF PrepareReceive, bounds
  <2>2. Fewer /\ OnLine' = Left
    BY <2>1, TookFewer
  <2>3. CASE task' = task
    BY <2>1, <2>2, <2>3, FewerKeeps
  <2>4. CASE Head(toLoader).cmd = "BOOT_INFO" /\ task' = "idle"
    <3>1. \A R : Line(R) => \A c \in Left : c \in R["BOOT_INFO"]
      BY <2>1, <2>4, TookLine
    <3>2. Left \subseteq Cmds /\ "BOOT_INFO" \in Cmds
      BY <2>1, TookLine, Commands, Kinds
    <3>3. Orderly'
      BY <2>1, <2>2, <2>4 DEF Shape, Orderly, Fewer
    <3>4. FirstOrderly'
      BY <2>1, <2>2, <2>4, <3>1, <3>2, Rules, Kinds DEF Shape, FirstOrderly, Fewer
    <3>5. Patient'
      BY <2>1, <2>2 DEF Shape, Patient, Fewer
    <3>6. FirstPatient'
      BY <2>1, <2>2, <2>4, <3>1, <3>2, Rules, Kinds DEF Shape, FirstPatient, Fewer
    <3> QED BY <3>3, <3>4, <3>5, <3>6 DEF Shape
  <2> QED BY <2>1, <2>3, <2>4
<1>4. CASE LoadMotor
  <2>1. /\ task = "idle" /\ task' = "load" /\ UNCHANGED <<state, quits, hasty, toLoader>>
        /\ Send(Motor, Start)
    BY <1>4 DEF LoadMotor, StartLoad
  <2>2. Start.cmd = "BOOT_START"
    BY DEF Start
  <2>3. Joins(toLoader, "BOOT_START")
    BY <1>0, <2>1, <2>2, SendJoins
  <2> QED BY <2>1, <2>3, CallShape DEF LoaderOK
<1>5. CASE LoadReceive
  BY <1>5, AnswerShape DEF LoadReceive, bounds
<1>6. CASE RetryChunk
  <2>1. /\ task = "load" /\ toLoader = <<>> /\ UNCHANGED <<task, state, quits, toLoader>>
        /\ hasty' = (hasty \/ ~Quiet)
    BY <1>6 DEF RetryChunk
  <2>2. CASE offset > 0
    <3>1. state \in {"WRITE", "CHECK"}
      BY <2>2, Numbers DEF LoaderOK
    <3>2. WriteNextChunk(todo + 1, block, offset - 1, block * Chunks + offset - 1)
      BY <1>6, <2>2 DEF RetryChunk
    <3>3. Joins(toLoader, "BOOT_WRITE")
      BY <1>0, <2>1, <3>2, ChunkJoins
    <3> QED BY <2>1, <3>1, <3>3, RetryShape
  <2>3. CASE ~(offset > 0)
    <3>1. toDevice' = toDevice
      BY <1>6, <2>3 DEF RetryChunk
    <3> QED BY <2>1, <3>1 DEF Shape, Orderly, FirstOrderly, Patient, FirstPatient, Line, OnLine
  <2> QED BY <2>2, <2>3
<1>7. CASE GiveUp
  <2>1. toLoader' = <<>> /\ toDevice' = <<>>
    BY <1>7 DEF GiveUp, Quiet
  <2>2. (toLoader = <<>> /\ toDevice = <<>> => Shape)'
    BY EmptyShape, PTL
  <2> QED BY <2>1, <2>2
<1> QED BY <1>1, <1>2, <1>3, <1>4, <1>5, <1>6, <1>7 DEF Loader

LEMMA ShapeQuit == ASSUME Shape, FramesOK, CountsOK, Quit PROVE Shape'
<1>1. /\ toLoader' = <<>> /\ toDevice' = toDevice /\ quits' = quits + 1 /\ hasty' = hasty
      /\ state' = "WAIT_REQ" /\ quits \in Nat
  BY Numbers DEF Quit, InitBootstate, CountsOK
<1>2. ASSUME NEW R, Line(R) PROVE Line(R)'
  BY <1>1, <1>2 DEF Line, Follow
<1>3. Line(Alone) => Line(Waiting)
  <2>1. \A c \in Cmds : Alone[c] \subseteq Waiting[c]
    BY Rules, Kinds
  <2> QED BY <2>1, Weaken
<1>4. Line(Single) => Line(Tidy)
  <2>1. \A c \in Cmds : Single[c] \subseteq Tidy[c]
    BY Rules, Kinds
  <2> QED BY <2>1, Weaken
<1>5. Orderly'
  BY <1>1, <1>2, <1>3 DEF Shape, FirstOrderly, Orderly
<1>6. Patient'
  BY <1>1, <1>2, <1>4 DEF Shape, FirstPatient, Patient
<1>7. FirstOrderly' /\ FirstPatient'
  BY <1>1 DEF FirstOrderly, FirstPatient
<1> QED BY <1>5, <1>6, <1>7 DEF Shape

LEMMA ShapeNext == TypeOK /\ Shape /\ [Next]_vars => Shape'
<1> SUFFICES ASSUME LoaderOK, FramesOK, CountsOK, Shape, [Next]_vars PROVE Shape'
  BY DEF TypeOK
<1>1. CASE Device \/ (Environment /\ ~Quit)
  BY <1>1, OthersFewer, FewerKeeps
<1>2. CASE UNCHANGED vars
  <2>1. UNCHANGED <<state, task, quits, hasty, toLoader, toDevice>>
    BY <1>2 DEF vars, loader, bootstate, bounds
  <2>2. Fewer
    BY <2>1 DEF Fewer, Line, OnLine
  <2> QED BY <2>1, <2>2, FewerKeeps
<1> QED BY <1>1, <1>2, ShapeLoader, ShapeQuit DEF Next, Environment

LEMMA ShapeInit == Init => Shape
BY EmptyShape DEF Init

-----------------------------------------------------------------------------
(* How far the loader is                                                   *)

Total == Pages * Chunks
ImageFile == [size |-> Pages, data |-> Image]

\* The file in memory is the image, or nothing has been read.
FileOK == \/ filefw = ImageFile
          \/ filefw = NoFile /\ state = "WAIT_REQ" /\ task # "load"

\* No chunk of the file is passed over.
Positions ==
    /\ state = "WAIT_REQ" => block = 0 /\ offset = 0
    /\ task = "load" /\ state = "WAIT_REQ" => todo = Total
    /\ state # "WAIT_REQ" => todo + firmwareoffs >= Total
    /\ state = "CHECK" => firmwareoffs >= Total

\* The requests that say something of the whole image say the truth.
Known == {m \in ToDevice : /\ m.cmd = "BOOT_CHECK" => m.size = Pages
                           /\ m.cmd = "BOOT_FINISH" => m = Finish(Image, Pages)}

Upload == FileOK /\ Positions /\ toDevice \in Seq(Known)

LEMMA ImageFacts ==
    /\ Image \in Seq(Page) /\ Pages \in Nat /\ Pages >= 1 /\ Pages <= FlashPages
    /\ Total \in Nat /\ Total >= 1
    /\ SubSeq(Image, 1, Len(Image)) = Image
<1>1. Image \in Seq(Page) /\ Len(Image) \in 1 .. FlashPages
  BY BootloadAssumption
<1>2. Pages \in Nat /\ Pages >= 1 /\ Pages <= FlashPages
  BY <1>1, Numbers DEF Pages
<1>3. Total \in Nat /\ Total >= 1
  <2>1. \A m, n \in Nat : m >= 1 /\ n >= 1 => m * n \in Nat /\ m * n >= 1
    OBVIOUS
  <2> QED BY <1>2, <2>1, Numbers DEF Total
<1>4. SubSeq(Image, 1, Len(Image)) = Image
  BY <1>1
<1> QED BY <1>1, <1>2, <1>3, <1>4

\* Reading the image again leaves the file as it is.
LEMMA OpenedImage == FileOK => Opened(Image) = ImageFile
<1> SUFFICES ASSUME FileOK PROVE Opened(Image) = ImageFile
  OBVIOUS
<1>1. SubSeq(filefw.data, Len(Image) + 1, Len(filefw.data)) = <<>>
  <2>1. CASE filefw = ImageFile
    <3>1. filefw.data = Image
      BY <2>1 DEF ImageFile
    <3>2. Len(Image) \in Nat
      BY ImageFacts
    <3>3. SubSeq(Image, Len(Image) + 1, Len(Image)) = <<>>
      BY <3>2, ImageFacts
    <3> QED BY <3>1, <3>3
  <2>2. CASE filefw = NoFile
    <3>1. filefw.data = <<>> /\ Len(filefw.data) = 0 /\ Len(Image) \in Nat /\ Len(Image) >= 1
      BY <2>2, ImageFacts DEF NoFile, Pages
    <3>2. SubSeq(<<>>, Len(Image) + 1, 0) = <<>>
      BY <3>1
    <3> QED BY <3>1, <3>2
  <2> QED BY <2>1, <2>2 DEF FileOK
<1>2. Image \o <<>> = Image
  BY ImageFacts
<1> QED BY <1>1, <1>2 DEF Opened, ImageFile, Pages

LEMMA KnownFrames ==
    /\ Start \in Known /\ Info \in Known
    /\ \A b, o, d : Write(b, o, d) \in ToDevice => Write(b, o, d) \in Known
    /\ filefw = ImageFile => Check(filefw.size) \in Known /\ Finish(FileCrc, filefw.size) \in Known
                             /\ FileCrc = Image
<1>1. Start \in Known /\ Info \in Known
  BY DEF Start, Info, Known, ToDevice
<1>2. \A b, o, d : Write(b, o, d) \in ToDevice => Write(b, o, d) \in Known
  BY DEF Known, Write
<1>3. ASSUME filefw = ImageFile
      PROVE  /\ Check(filefw.size) \in Known /\ Finish(FileCrc, filefw.size) \in Known
             /\ FileCrc = Image
  <2>1. filefw.size = Pages /\ filefw.data = Image
    BY <1>3 DEF ImageFile
  <2>2. FileCrc = Image
    BY <2>1, ImageFacts DEF FileCrc, Pages
  <2>3. Pages \in 0 .. FlashPages
    BY ImageFacts, Numbers
  <2>4. Check(Pages) \in Known
    BY <2>3 DEF Check, Known, ToDevice
  <2>5. Finish(Image, Pages) \in ToDevice
    BY <2>3, ImageFacts DEF Finish, ToDevice
  <2>6. Finish(Image, Pages) \in Known
    BY <2>5 DEF Finish, Known
  <2> QED BY <2>1, <2>2, <2>4, <2>6
<1> QED BY <1>1, <1>2, <1>3

LEMMA SendKnown ==
    ASSUME toDevice \in Seq(Known), NEW m \in Known, NEW to, Send(to, m)
    PROVE  toDevice' \in Seq(Known)
BY AppendProperties DEF Send

\* app_write_nextchunk, with a position before the end of a page.
LEMMA ChunkSends ==
    ASSUME LoaderOK, NEW n \in Nat, NEW b \in Nat, NEW o \in 0 .. Chunks, NEW f \in Nat,
           n > 0 => o < Chunks, n = 0 => f = b * Chunks + o,
           WriteNextChunk(n, b, o, f)
    PROVE  /\ toDevice \in Seq(Known) => toDevice' \in Seq(Known)
           /\ n > 0 => /\ todo' = n - 1 /\ block' = b /\ offset' = o + 1
                       /\ firmwareoffs' = b * Chunks + o + 1
                       /\ \E d \in Data : Send(address, Write(b, o, d))
                                          /\ d = FileData(f \div Chunks)[f % Chunks]
           /\ n = 0 => UNCHANGED toDevice /\ todo' = n /\ block' = b /\ offset' = o /\ firmwareoffs' = f
           /\ todo' + firmwareoffs' = n + b * Chunks + o
<1>1. CASE n > 0
  <2> DEFINE d == FileData(f \div Chunks)[f % Chunks]
  <2>1. /\ todo' = n - 1 /\ block' = b /\ offset' = o + 1 /\ firmwareoffs' = b * Chunks + o + 1
        /\ Send(address, Write(b, o, d))
    BY <1>1 DEF WriteNextChunk
  <2>2. d \in Data
    <3>1. FileData(f \div Chunks) \in Page /\ f % Chunks \in Chunk
      BY FileDataType, Division DEF LoaderOK
    <3> QED BY <3>1 DEF Page
  <2> HIDE DEF d
  <2>3. Write(b, o, d) \in ToDevice
    BY <1>1, <2>2, Numbers DEF Write, ToDevice, Chunk
  <2>4. toDevice \in Seq(Known) => toDevice' \in Seq(Known)
    BY <2>1, <2>3, KnownFrames, SendKnown
  <2>5. b * Chunks \in Nat
    BY Numbers
  <2>6. todo' + firmwareoffs' = n + b * Chunks + o
    BY <2>1, <2>5
  <2>7. \E dd \in Data : Send(address, Write(b, o, dd)) /\ dd = d
    BY <2>1, <2>2
  <2> QED BY <1>1, <2>1, <2>4, <2>6, <2>7 DEF d
<1>2. CASE n = 0
  <2>1. todo' = n /\ block' = b /\ offset' = o /\ firmwareoffs' = f /\ toDevice' = toDevice
    BY <1>2, Numbers DEF WriteNextChunk
  <2>2. b * Chunks \in Nat
    BY Numbers
  <2> QED BY <1>2, <2>1, <2>2
<1> QED BY <1>1, <1>2

LEMMA UploadAnswer ==
    ASSUME LoaderOK, Upload, task = "load", NEW m, Answer(m) \/ Unexpected(m)
    PROVE  Upload'
<1>0. /\ todo \in Nat /\ block \in Nat /\ offset \in 0 .. Chunks /\ firmwareoffs \in Nat
      /\ firmwareoffs = block * Chunks + offset /\ block * Chunks \in Nat /\ Total \in Nat
      /\ Total >= 1 /\ Chunks \in Nat /\ Chunks >= 1
  BY Offsets, Numbers, ImageFacts
<1>1. filefw = ImageFile
  BY DEF Upload, FileOK
<1>2. CASE StartAcked
  <2>1. /\ state = "WAIT_REQ" /\ state' = "WRITE" /\ UNCHANGED <<task, filefw, address, retries>>
        /\ WriteNextChunk(todo, block, offset, firmwareoffs)
    BY <1>2 DEF StartAcked
  <2>2. block = 0 /\ offset = 0 /\ todo = Total
    BY <2>1 DEF Upload, Positions
  <2>3. toDevice' \in Seq(Known) /\ todo' + firmwareoffs' = todo + block * Chunks + offset
    BY <1>0, <2>1, <2>2, ChunkSends DEF Upload
  <2>4. Positions'
    BY <1>0, <2>1, <2>2, <2>3 DEF Positions
  <2> QED BY <1>1, <2>1, <2>3, <2>4 DEF Upload, FileOK, ImageFile
<1>3. CASE ChunkAcked
  <2>1. /\ state = "WRITE" /\ todo > 0 /\ offset < Chunks
        /\ UNCHANGED <<task, filefw, address, state, retries>>
        /\ WriteNextChunk(todo, block, offset, firmwareoffs)
    BY <1>3 DEF ChunkAcked
  <2>3. toDevice' \in Seq(Known) /\ todo' + firmwareoffs' = todo + block * Chunks + offset
    BY <1>0, <2>1, ChunkSends DEF Upload
  <2>4. Positions'
    BY <1>0, <2>1, <2>3 DEF Positions, Upload
  <2> QED BY <1>1, <2>1, <2>3, <2>4 DEF Upload, FileOK, ImageFile
<1>4. CASE BlockAcked(m.crc)
  <2>1. /\ state = "WRITE" /\ todo > 0 /\ offset >= Chunks
        /\ UNCHANGED <<task, filefw, address, state, retries>>
        /\ WriteNextChunk(todo, block + 1, 0, firmwareoffs)
    BY <1>4 DEF BlockAcked
  <2>2. offset = Chunks /\ block + 1 \in Nat /\ 0 \in 0 .. Chunks /\ 0 < Chunks /\ todo # 0
    BY <1>0, <2>1
  <2>3. toDevice' \in Seq(Known) /\ todo' + firmwareoffs' = todo + (block + 1) * Chunks + 0
    BY <1>0, <2>1, <2>2, ChunkSends DEF Upload
  <2>5. (block + 1) * Chunks = block * Chunks + Chunks
    BY <1>0
  <2>4. Positions'
    BY <1>0, <2>1, <2>2, <2>3, <2>5 DEF Positions, Upload
  <2> QED BY <1>1, <2>1, <2>3, <2>4 DEF Upload, FileOK, ImageFile
<1>5. CASE LastAcked
  <2>1. /\ state = "WRITE" /\ todo = 0 /\ state' = "CHECK" /\ Send(address, Check(filefw.size))
        /\ UNCHANGED <<task, filefw, address, todo, block, offset, firmwareoffs, retries>>
    BY <1>5 DEF LastAcked
  <2>2. toDevice' \in Seq(Known)
    BY <1>1, <2>1, KnownFrames, SendKnown DEF Upload
  <2>3. Positions'
    BY <1>0, <2>1 DEF Positions, Upload
  <2> QED BY <1>1, <2>1, <2>2, <2>3 DEF Upload, FileOK, ImageFile
<1>6. CASE CheckAcked(m.crc) /\ LoadDone
  <2>1. /\ state' = "WAIT_REQ" /\ block' = 0 /\ offset' = 0 /\ task' = "idle" /\ filefw' = filefw
    BY <1>6 DEF LoadDone, InitBootstate
  <2>2. toDevice' \in Seq(Known)
    BY <1>1, <1>6, KnownFrames, SendKnown DEF Upload, CheckAcked
  <2> QED BY <1>1, <2>1, <2>2 DEF Upload, FileOK, Positions, ImageFile
<1>7. CASE Unexpected(m)
  BY <1>7 DEF Unexpected, loader, bootstate, Upload, FileOK, Positions, ImageFile, Total
<1> QED BY <1>2, <1>3, <1>4, <1>5, <1>6, <1>7 DEF Answer

LEMMA UploadLoader == ASSUME LoaderOK, Upload, Loader PROVE Upload'
<1>0. /\ todo \in Nat /\ block \in Nat /\ offset \in 0 .. Chunks /\ firmwareoffs \in Nat
      /\ firmwareoffs = block * Chunks + offset /\ block * Chunks \in Nat /\ Total \in Nat
      /\ Chunks \in Nat /\ Chunks >= 1
  BY Offsets, Numbers, ImageFacts
<1>1. CASE StartMotor
  BY <1>1 DEF StartMotor, Upload, FileOK, Positions
<1>2. CASE PrepareSend
  <2>1. UNCHANGED loader /\ Send(address, Info)
    BY <1>2 DEF PrepareSend, Ask
  <2>2. toDevice' \in Seq(Known)
    BY <2>1, KnownFrames, SendKnown DEF Upload
  <2> QED BY <2>1, <2>2 DEF loader, bootstate, Upload, FileOK, Positions
<1>3. CASE PrepareReceive
  BY <1>3 DEF PrepareReceive, Upload, FileOK, Positions
<1>4. CASE LoadMotor
  <2>1. /\ task' = "load" /\ UNCHANGED <<state, block, offset, firmwareoffs>>
        /\ filefw' = Opened(Image) /\ todo' = Total /\ Send(Motor, Start)
    BY <1>4 DEF LoadMotor, StartLoad, OpenHex, Total, Pages
  <2>2. filefw' = ImageFile
    BY <2>1, OpenedImage DEF Upload
  <2>3. toDevice' \in Seq(Known)
    BY <2>1, KnownFrames, SendKnown DEF Upload
  <2>4. Positions'
    BY <1>0, <2>1 DEF Upload, Positions
  <2> QED BY <2>2, <2>3, <2>4 DEF Upload, FileOK, ImageFile
<1>5. CASE LoadReceive
  BY <1>5, UploadAnswer DEF LoadReceive
<1>6. CASE RetryChunk
  <2>1. /\ task = "load" /\ UNCHANGED <<task, filefw, address, state>>
        /\ IF offset > 0
           THEN WriteNextChunk(todo + 1, block, offset - 1, block * Chunks + offset - 1)
           ELSE UNCHANGED <<todo, block, offset, firmwareoffs, toDevice>>
    BY <1>6 DEF RetryChunk
  <2>2. CASE offset > 0
    <3>1. /\ todo + 1 \in Nat /\ todo + 1 # 0 /\ offset - 1 \in 0 .. Chunks /\ todo + 1 > 0
          /\ offset - 1 < Chunks /\ block * Chunks + offset - 1 \in Nat
      BY <1>0, <2>2
    <3>2. WriteNextChunk(todo + 1, block, offset - 1, block * Chunks + offset - 1)
      BY <2>1, <2>2
    <3>3. /\ toDevice' \in Seq(Known) /\ todo' = (todo + 1) - 1 /\ block' = block
          /\ offset' = (offset - 1) + 1 /\ firmwareoffs' = block * Chunks + (offset - 1) + 1
      BY <1>0, <3>1, <3>2, ChunkSends DEF Upload
    <3>4. todo' = todo /\ offset' = offset /\ firmwareoffs' = firmwareoffs
      BY <1>0, <3>3
    <3> QED BY <2>1, <3>3, <3>4 DEF Upload, FileOK, Positions
  <2>3. CASE ~(offset > 0)
    BY <2>1, <2>3 DEF Upload, FileOK, Positions
  <2> QED BY <2>2, <2>3
<1>7. CASE GiveUp
  BY <1>7 DEF GiveUp, bootstate, Upload, FileOK, Positions
<1> QED BY <1>1, <1>2, <1>3, <1>4, <1>5, <1>6, <1>7 DEF Loader

LEMMA UploadNext == TypeOK /\ Upload /\ [Next]_vars => Upload'
<1> SUFFICES ASSUME TypeOK, Upload, [Next]_vars PROVE Upload'
  OBVIOUS
<1>1. CASE Loader
  BY <1>1, UploadLoader DEF TypeOK
<1>2. CASE Quit
  BY <1>2 DEF Quit, InitBootstate, Upload, FileOK, Positions
<1>3. ASSUME UNCHANGED loader, toDevice' \in Seq(Known) PROVE Upload'
  BY <1>3 DEF loader, bootstate, Upload, FileOK, Positions
<1>4. ASSUME toDevice # <<>> PROVE Tail(toDevice) \in Seq(Known)
  BY <1>4, HeadTailProperties DEF Upload
<1>5. CASE Device
  BY <1>3, <1>4, <1>5 DEF Device, DeviceReceive, DeviceTimeout, Upload
<1>6. CASE ApplicationIgnores \/ LoseFrame
  BY <1>3, <1>4, <1>6 DEF ApplicationIgnores, LoseFrame, Upload
<1>7. CASE Reset
  <2>1. toDevice' \in Seq(Known)
    BY <1>7, RestType DEF Reset, Upload
  <2> QED BY <1>3, <1>7, <2>1 DEF Reset, ResetWith
<1>8. CASE CrashInWrite \/ CrashInFinish
  BY <1>3, <1>4, <1>8 DEF CrashInWrite, CrashInFinish, ResetWith
<1>9. CASE UNCHANGED vars
  BY <1>3, <1>9 DEF vars, Upload
<1> QED BY <1>1, <1>2, <1>5, <1>6, <1>7, <1>8, <1>9 DEF Next, Environment

LEMMA UploadInit == Init => Upload
<1> SUFFICES ASSUME Init PROVE Upload
  OBVIOUS
<1>1. <<>> \in Seq(Known)
  OBVIOUS
<1> QED BY <1>1 DEF Init, Upload, FileOK, Positions

-----------------------------------------------------------------------------
(* What the loader has verified                                            *)

Requests == {toDevice[i] : i \in DOMAIN toDevice}
Answers == {toLoader[i] : i \in DOMAIN toLoader}

LEMMA AppendRange ==
    ASSUME NEW S, NEW s \in Seq(S), NEW x
    PROVE  LET t == Append(s, x)
           IN  {t[i] : i \in DOMAIN t} \subseteq {s[i] : i \in DOMAIN s} \cup {x}
<1> DEFINE t == Append(s, x)
<1>1. /\ DOMAIN s = 1 .. Len(s) /\ DOMAIN t = 1 .. Len(s) + 1 /\ Len(s) \in Nat
      /\ t[Len(s) + 1] = x /\ \A i \in 1 .. Len(s) : t[i] = s[i]
  BY AppendProperties
<1> HIDE DEF t
<1>2. ASSUME NEW i \in DOMAIN t PROVE t[i] \in {s[k] : k \in DOMAIN s} \cup {x}
  BY <1>1
<1> QED BY <1>2 DEF t

LEMMA TailRange ==
    ASSUME NEW S, NEW s \in Seq(S), s # <<>>
    PROVE  LET t == Tail(s)
           IN  /\ {t[i] : i \in DOMAIN t} \subseteq {s[i] : i \in DOMAIN s}
               /\ Head(s) \in {s[i] : i \in DOMAIN s}
<1> DEFINE t == Tail(s)
<1>1. /\ Len(s) \in Nat /\ Len(s) >= 1 /\ DOMAIN s = 1 .. Len(s) /\ Head(s) = s[1]
      /\ DOMAIN t = 1 .. Len(s) - 1 /\ \A i \in 1 .. Len(s) - 1 : t[i] = s[i + 1]
  BY TailAt
<1> HIDE DEF t
<1>2. ASSUME NEW i \in DOMAIN t PROVE i + 1 \in DOMAIN s /\ t[i] = s[i + 1]
  BY <1>1
<1>3. 1 \in DOMAIN s
  BY <1>1
<1> QED BY <1>1, <1>2, <1>3 DEF t

\* What a step does to them.
LEMMA SendRange ==
    ASSUME toDevice \in Seq(ToDevice), NEW to, NEW m, Send(to, m)
    PROVE  Requests' \subseteq Requests \cup {m}
BY AppendRange DEF Send, Requests

LEMMA TookRange ==
    ASSUME FramesOK, toLoader # <<>>, toLoader' = Tail(toLoader)
    PROVE  Answers' \subseteq Answers /\ Head(toLoader) \in Answers
BY TailRange DEF FramesOK, Answers

LEMMA HandledRange ==
    ASSUME FramesOK, toDevice # <<>>, toDevice' = Tail(toDevice)
    PROVE  Requests' \subseteq Requests /\ Head(toDevice) \in Requests
BY TailRange DEF FramesOK, Requests

LEMMA ReplyRange ==
    ASSUME FramesOK, NEW cmd, NEW crc, Reply(cmd, crc)
    PROVE  Answers' \subseteq Answers \cup {Ack(cmd, crc)}
BY AppendRange DEF Reply, FramesOK, Answers

LEMMA RangeNames ==
    /\ \A m \in Requests : m.cmd \in OnLine
    /\ \A m \in Answers : m.cmd \in OnLine
BY DEF Requests, Answers, OnLine, Names

LEMMA LeftNames ==
    ASSUME toLoader' = Tail(toLoader)
    PROVE  /\ \A m \in Requests : m.cmd \in Left
           /\ \A m \in Answers' : m.cmd \in Left
BY DEF Requests, Answers, Left, Names

\* A chunk on its way is the last one sent, an answer to the last chunk of a page is
\* the page that has been flashed, and so are the pages before.
Verified ==
    quits <= 1 /\ resets = 0 /\ ~hasty /\ state # "WAIT_REQ" =>
        /\ \A m \in Requests : m.cmd = "BOOT_WRITE" => m.block = block /\ m.offs = offset - 1
        /\ \A m \in Answers : m.cmd = "BOOT_WRITE" /\ offset = Chunks =>
             block \in PageNo /\ flash[block] = m.crc
        /\ \A p \in 0 .. block - 1 : p \in PageNo /\ flash[p] = FileData(p)

\* A step that sends no chunk, answers none and flashes no page.
LEMMA VerifiedStays ==
    ASSUME Verified, FileOK, UNCHANGED <<state, quits, resets, block, offset, flash>>,
           ~hasty' => ~hasty, filefw' = filefw \/ filefw' = Opened(Image),
           \A m \in Requests' : m \in Requests \/ m.cmd # "BOOT_WRITE",
           \A m \in Answers' : m \in Answers \/ m.cmd # "BOOT_WRITE"
    PROVE  Verified'
<1> SUFFICES ASSUME quits <= 1, resets = 0, ~hasty, state # "WAIT_REQ" PROVE Verified'
  BY DEF Verified
<1>1. filefw' = filefw
  <2>1. filefw = ImageFile
    BY DEF FileOK
  <2> QED BY <2>1, OpenedImage
<1>2. \A p : FileData(p)' = FileData(p)
  BY <1>1 DEF FileData
<1>3. /\ \A m \in Requests' : m.cmd = "BOOT_WRITE" => m.block = block /\ m.offs = offset - 1
      /\ \A m \in Answers' : m.cmd = "BOOT_WRITE" /\ offset = Chunks =>
             block \in PageNo /\ flash[block] = m.crc
      /\ \A p \in 0 .. block - 1 : p \in PageNo /\ flash[p] = FileData(p)
  BY DEF Verified
<1> QED BY <1>2, <1>3 DEF Verified

\* The page that ends at an offset.
LEMMA PageOfOffset ==
    ASSUME NEW b \in Nat PROVE (b * Chunks + Chunks) \div Chunks - 1 = b
<1>1. \A c \in Nat : c >= 1 => (b * c + c) \div c = b + 1
  <2>1. ASSUME NEW c \in Nat, c >= 1 PROVE (b * c + c) \div c = b + 1
    <3>1. b * c + c = c * (b + 1)
      OBVIOUS
    <3>2. (c * (b + 1)) \div c = b + 1
      BY <2>1
    <3> QED BY <3>1, <3>2
  <2> QED BY <2>1
<1>2. (b * Chunks + Chunks) \div Chunks = b + 1
  BY <1>1, Numbers
<1> QED BY <1>2

\* Only the chunk just sent is on its way.
LEMMA VerifiedSent ==
    ASSUME NEW X, \A m \in X : m.cmd # "BOOT_WRITE", NEW m0,
           m0.cmd = "BOOT_WRITE" => m0.block = block' /\ m0.offs = offset' - 1,
           Requests' \subseteq X \cup {m0}, Answers' \subseteq X,
           \A p \in 0 .. block' - 1 : p \in PageNo /\ flash'[p] = FileData(p)'
    PROVE  Verified'
BY DEF Verified

LEMMA VerifiedAnswer ==
    ASSUME TypeOK, Shape, Upload, Verified, LoadReceive PROVE Verified'
<1> DEFINE m == Head(toLoader)
<1>1. /\ task = "load" /\ toLoader # <<>> /\ toLoader' = Tail(toLoader)
      /\ UNCHANGED <<flash, quits, resets, hasty>> /\ (Answer(m) \/ Unexpected(m))
  BY DEF LoadReceive, device, bounds
<1>11. ~hasty' => ~hasty
  BY <1>1
<1>2. LoaderOK /\ FramesOK /\ toDevice \in Seq(ToDevice) /\ FileOK
  BY DEF TypeOK, FramesOK, Upload
<1>3. /\ \A x \in Requests : x.cmd \in Left
      /\ \A x \in Answers' : x.cmd \in Left
      /\ Left \subseteq Cmds /\ m.cmd \in Cmds
      /\ \A R : Line(R) => \A c \in Left : c \in R[m.cmd]
      /\ Answers' \subseteq Answers /\ m \in Answers
  BY <1>1, <1>2, LeftNames, TookLine, Commands, TookRange
<1>4. CASE Unexpected(m)
  <2>1. UNCHANGED <<state, block, offset, filefw, toDevice>>
    BY <1>4 DEF Unexpected, loader, bootstate
  <2>2. Requests' = Requests
    BY <2>1 DEF Requests
  <2> QED BY <1>1, <1>2, <1>3, <1>11, <2>1, <2>2, VerifiedStays
<1>5. CASE m.cmd = "BOOT_CHECK" /\ CheckAcked(m.crc) /\ LoadDone
  BY <1>5 DEF LoadDone, InitBootstate, Verified
<1> DEFINE Now == quits <= 1 /\ resets = 0 /\ ~hasty
<1>6. SUFFICES ASSUME Now PROVE Verified'
  BY <1>1, <1>11 DEF Verified
<1>7. filefw' = filefw => \A p \in Int : FileData(p)' = FileData(p)
  BY DEF FileData
<1>8. /\ todo \in Nat /\ block \in Nat /\ offset \in 0 .. Chunks /\ firmwareoffs \in Nat
      /\ firmwareoffs = block * Chunks + offset /\ Chunks \in Nat /\ Chunks >= 1
  BY <1>2, Offsets, Numbers
<1>9. CASE m.cmd = "BOOT_START" /\ StartAcked
  <2>1. /\ state = "WAIT_REQ" /\ filefw' = filefw
        /\ WriteNextChunk(todo, block, offset, firmwareoffs)
    BY <1>9 DEF StartAcked
  <2>2. block = 0 /\ offset = 0 /\ todo >= 1
    BY <1>1, <2>1, ImageFacts DEF Upload, Positions
  <2>3. Left \subseteq Calls
    BY <1>3, <1>6, <1>9, <2>1, Rules, Kinds DEF Shape, Patient
  <2>4. PICK d \in Data : Send(address, Write(block, offset, d))
    BY <1>2, <1>8, <2>1, <2>2, ChunkSends
  <2>5. block' = block /\ offset' = offset + 1
    BY <1>2, <1>8, <2>1, <2>2, ChunkSends
  <2>6. Requests' \subseteq Requests \cup {Write(block, offset, d)}
    BY <1>2, <2>4, SendRange
  <2>7. \A x \in Requests \cup Answers' : x.cmd # "BOOT_WRITE"
    BY <1>3, <2>3, Kinds
  <2>8. \A p \in 0 .. block' - 1 : p \in PageNo /\ flash'[p] = FileData(p)'
    BY <2>2, <2>5
  <2>9. Write(block, offset, d).block = block' /\ Write(block, offset, d).offs = offset' - 1
    BY <1>8, <2>5 DEF Write
  <2> QED BY <2>6, <2>7, <2>8, <2>9, VerifiedSent
<1>10. CASE m.cmd = "BOOT_WRITE" /\ (ChunkAcked \/ BlockAcked(m.crc) \/ LastAcked)
  <2>1. state = "WRITE" /\ filefw' = filefw
    BY <1>10 DEF ChunkAcked, BlockAcked, LastAcked
  <2>2. Left = {}
    BY <1>3, <1>6, <1>10, <2>1, Rules, Kinds DEF Shape, Patient
  <2>3. Requests = {} /\ Answers' = {}
    BY <1>3, <2>2
  <2>4. /\ offset = Chunks => block \in PageNo /\ flash[block] = m.crc
        /\ \A p \in 0 .. block - 1 : p \in PageNo /\ flash[p] = FileData(p)
    BY <1>3, <1>6, <1>10, <2>1 DEF Verified
  <2>5. CASE ChunkAcked
    <3>1. todo > 0 /\ offset < Chunks /\ WriteNextChunk(todo, block, offset, firmwareoffs)
      BY <2>5 DEF ChunkAcked
    <3>2. PICK d \in Data : Send(address, Write(block, offset, d))
      BY <1>2, <1>8, <3>1, ChunkSends
    <3>3. block' = block /\ offset' = offset + 1
      BY <1>2, <1>8, <3>1, ChunkSends
    <3>4. Requests' \subseteq {} \cup {Write(block, offset, d)}
      BY <1>2, <2>3, <3>2, SendRange
    <3>5. \A p \in 0 .. block' - 1 : p \in PageNo /\ flash'[p] = FileData(p)'
      BY <1>1, <1>7, <2>1, <2>4, <3>3
    <3>6. Write(block, offset, d).block = block' /\ Write(block, offset, d).offs = offset' - 1
      BY <1>8, <3>3 DEF Write
    <3> QED BY <2>3, <3>4, <3>5, <3>6, VerifiedSent
  <2>6. CASE BlockAcked(m.crc)
    <3>1. /\ todo > 0 /\ offset >= Chunks /\ WriteNextChunk(todo, block + 1, 0, firmwareoffs)
          /\ m.crc = FileData(firmwareoffs \div Chunks - 1)
      BY <2>6 DEF BlockAcked
    <3>2. offset = Chunks /\ block + 1 \in Nat /\ 0 \in 0 .. Chunks /\ 0 < Chunks /\ todo # 0
      BY <1>8, <3>1
    <3>3. PICK d \in Data : Send(address, Write(block + 1, 0, d))
      BY <1>2, <1>8, <3>1, <3>2, ChunkSends
    <3>4. block' = block + 1 /\ offset' = 0 + 1
      BY <1>2, <1>8, <3>1, <3>2, ChunkSends
    <3>5. Requests' \subseteq {} \cup {Write(block + 1, 0, d)}
      BY <1>2, <2>3, <3>3, SendRange
    <3>6. flash[block] = FileData(block)
      <4>1. firmwareoffs \div Chunks - 1 = block
        BY <1>8, <3>2, PageOfOffset
      <4> QED BY <2>4, <3>1, <3>2, <4>1
    <3>7. \A p \in 0 .. block' - 1 : p \in PageNo /\ flash'[p] = FileData(p)'
      <4>1. \A p \in 0 .. block' - 1 : p \in 0 .. block - 1 \/ p = block
        BY <1>8, <3>4
      <4> QED BY <1>1, <1>7, <2>1, <2>4, <3>2, <3>6, <4>1
    <3>8. Write(block + 1, 0, d).block = block' /\ Write(block + 1, 0, d).offs = offset' - 1
      BY <3>4 DEF Write
    <3> QED BY <2>3, <3>5, <3>7, <3>8, VerifiedSent
  <2>7. CASE LastAcked
    <3>1. block' = block /\ Send(address, Check(filefw.size))
      BY <2>7 DEF LastAcked
    <3>2. Requests' \subseteq {} \cup {Check(filefw.size)}
      BY <1>2, <2>3, <3>1, SendRange
    <3>3. \A p \in 0 .. block' - 1 : p \in PageNo /\ flash'[p] = FileData(p)'
      BY <1>1, <1>7, <2>1, <2>4, <3>1
    <3>4. Check(filefw.size).cmd # "BOOT_WRITE"
      BY DEF Check
    <3> QED BY <2>3, <3>2, <3>3, <3>4, VerifiedSent
  <2> QED BY <1>10, <2>5, <2>6, <2>7
<1> QED BY <1>1, <1>4, <1>5, <1>9, <1>10 DEF Answer

LEMMA VerifiedLoader ==
    ASSUME TypeOK, Shape, Upload, Verified, Loader PROVE Verified'
<1>0. LoaderOK /\ FramesOK /\ toDevice \in Seq(ToDevice) /\ FileOK
  BY DEF TypeOK, FramesOK, Upload
<1>1. CASE StartMotor
  BY <1>0, <1>1, VerifiedStays DEF StartMotor, device, bounds, Requests, Answers
<1>2. CASE PrepareSend
  <2>1. Send(address, Info) /\ UNCHANGED <<loader, device, toLoader, bounds>>
    BY <1>2 DEF PrepareSend, Ask
  <2>2. Requests' \subseteq Requests \cup {Info} /\ Info.cmd # "BOOT_WRITE"
    BY <1>0, <2>1, SendRange DEF Info
  <2>3. Answers' = Answers
    BY <2>1 DEF Answers
  <2> QED BY <1>0, <2>1, <2>2, <2>3, VerifiedStays DEF loader, bootstate, device, bounds
<1>3. CASE PrepareReceive
  <2>1. Answers' \subseteq Answers
    BY <1>0, <1>3, TookRange DEF PrepareReceive
  <2>2. /\ UNCHANGED <<device, toDevice, bounds, filefw, state, block, offset>>
    BY <1>3 DEF PrepareReceive
  <2>3. Requests' = Requests
    BY <2>2 DEF Requests
  <2> QED BY <1>0, <2>1, <2>2, <2>3, VerifiedStays DEF device, bounds
<1>4. CASE LoadMotor
  <2>1. /\ Send(Motor, Start) /\ filefw' = Opened(Image)
        /\ UNCHANGED <<state, block, offset, device, toLoader, quits, resets, hasty>>
    BY <1>4 DEF LoadMotor, StartLoad, OpenHex
  <2>2. Requests' \subseteq Requests \cup {Start} /\ Start.cmd # "BOOT_WRITE"
    BY <1>0, <2>1, SendRange DEF Start
  <2>3. Answers' = Answers
    BY <2>1 DEF Answers
  <2> QED BY <1>0, <2>1, <2>2, <2>3, VerifiedStays DEF device
<1>5. CASE LoadReceive
  BY <1>5, VerifiedAnswer
<1>6. CASE RetryChunk
  <2>1. /\ toLoader = <<>> /\ hasty' = (hasty \/ ~Quiet) /\ toLoader' = toLoader
        /\ UNCHANGED <<filefw, state, flash, quits, resets>>
    BY <1>6 DEF RetryChunk, device
  <2>2. CASE ~(offset > 0)
    <3>1. UNCHANGED <<block, offset, toDevice>>
      BY <1>6, <2>2 DEF RetryChunk
    <3> QED BY <1>0, <2>1, <3>1, VerifiedStays DEF Requests, Answers
  <2>3. CASE offset > 0
    <3> SUFFICES ASSUME quits <= 1, resets = 0, ~hasty', state # "WAIT_REQ" PROVE Verified'
      BY <2>1 DEF Verified
    <3>1. /\ todo \in Nat /\ block \in Nat /\ offset \in 0 .. Chunks /\ Chunks \in Nat
          /\ block * Chunks \in Nat
      BY <1>0, Offsets, Numbers
    <3>2. WriteNextChunk(todo + 1, block, offset - 1, block * Chunks + offset - 1)
      BY <1>6, <2>3 DEF RetryChunk
    <3>3. /\ todo + 1 \in Nat /\ todo + 1 # 0 /\ offset - 1 \in 0 .. Chunks /\ todo + 1 > 0
          /\ offset - 1 < Chunks /\ block * Chunks + offset - 1 \in Nat
      BY <2>3, <3>1
    <3>4. /\ block' = block /\ offset' = (offset - 1) + 1
          /\ \E d \in Data : Send(address, Write(block, offset - 1, d))
      BY <1>0, <3>1, <3>2, <3>3, ChunkSends
    <3>5. PICK d \in Data : Send(address, Write(block, offset - 1, d))
      BY <3>4
    <3>6. offset' = offset
      BY <3>1, <3>4
    <3>7. ~hasty /\ toDevice = <<>>
      BY <2>1 DEF Quiet
    <3>8. Requests = {} /\ Answers' = {}
      BY <2>1, <3>7 DEF Requests, Answers
    <3>9. Requests' \subseteq {} \cup {Write(block, offset - 1, d)}
      BY <1>0, <3>5, <3>8, SendRange
    <3>10. \A p \in 0 .. block' - 1 : p \in PageNo /\ flash'[p] = FileData(p)'
      BY <2>1, <3>4, <3>7 DEF Verified, FileData
    <3>11. /\ Write(block, offset - 1, d).block = block'
           /\ Write(block, offset - 1, d).offs = offset' - 1
      BY <3>4, <3>6 DEF Write
    <3> QED BY <3>8, <3>9, <3>10, <3>11, VerifiedSent
  <2> QED BY <2>2, <2>3
<1>7. CASE GiveUp
  BY <1>0, <1>7, VerifiedStays DEF GiveUp, bootstate, device, bounds, Requests, Answers
<1> QED BY <1>1, <1>2, <1>3, <1>4, <1>5, <1>6, <1>7 DEF Loader

LEMMA VerifiedDevice ==
    ASSUME TypeOK, Shape, Upload, Verified, DeviceReceive PROVE Verified'
<1> DEFINE m == Head(toDevice)
<1>0. FramesOK /\ FileOK
  BY DEF TypeOK, Upload
<1>1. /\ toDevice # <<>> /\ toDevice' = Tail(toDevice)
      /\ UNCHANGED <<state, block, offset, filefw, quits, resets, hasty>>
      /\ HandleStart(m) \/ HandleWrite(m) \/ HandleCheck(m) \/ HandleFinish(m)
  BY DEF DeviceReceive, loader, bootstate, bounds
<1>2. Requests' \subseteq Requests /\ m \in Requests /\ m \in ToDevice
  BY <1>0, <1>1, HandledRange, Taken
<1>3. CASE HandleStart(m) \/ HandleCheck(m) \/ HandleFinish(m)
  <2>1. flash' = flash /\ \A a \in Answers' : a \in Answers \/ a.cmd # "BOOT_WRITE"
    <3>1. CASE HandleStart(m)
      BY <1>0, <3>1, ReplyRange DEF HandleStart, Ack
    <3>2. CASE HandleCheck(m)
      BY <1>0, <3>2, ReplyRange DEF HandleCheck, Ack
    <3>3. CASE HandleFinish(m)
      BY <3>3 DEF HandleFinish, Answers
    <3> QED BY <1>3, <3>1, <3>2, <3>3
  <2> QED BY <1>0, <1>1, <1>2, <2>1, VerifiedStays
<1>4. CASE HandleWrite(m)
  <2> SUFFICES ASSUME quits <= 1, resets = 0, ~hasty, state # "WAIT_REQ" PROVE Verified'
    BY <1>1 DEF Verified
  <2>1. m.cmd = "BOOT_WRITE" /\ m.block = block /\ m.offs = offset - 1
    BY <1>2, <1>4 DEF HandleWrite, Verified
  <2>2. \A a \in Answers : a.cmd # "BOOT_WRITE"
    <3>1. Line(Led)
      BY DEF Shape, Patient
    <3>2. ASSUME NEW i \in DOMAIN toLoader PROVE toLoader[i].cmd # "BOOT_WRITE"
      <4>1. 1 \in DOMAIN toDevice /\ toDevice[1] = m
        BY <1>0, <1>1, TailAt DEF FramesOK
      <4>2. "BOOT_WRITE" \in Led[toLoader[i].cmd]
        BY <2>1, <3>1, <4>1 DEF Line, Follow
      <4>3. toLoader[i].cmd \in Cmds
        BY <1>0, Commands
      <4> QED BY <4>2, <4>3, Rules, Kinds
    <3> QED BY <3>2 DEF Answers
  <2>3. /\ \A x \in Requests' : x.cmd = "BOOT_WRITE" => x.block = block /\ x.offs = offset - 1
        /\ \A p \in 0 .. block - 1 : p \in PageNo /\ flash[p] = FileData(p)
    BY <1>2 DEF Verified
  <2>4. block \in Nat /\ offset \in 0 .. Chunks /\ Chunks \in Nat
    BY Offsets, Numbers DEF TypeOK
  <2>5. flash \in [PageNo -> Page]
    BY DEF TypeOK, DeviceOK
  <2>6. \A p \in 0 .. block - 1 : p \in PageNo /\ flash'[p] = FileData(p)'
    <3>1. \A p : FileData(p)' = FileData(p)
      BY <1>1 DEF FileData
    <3>2. \A p \in 0 .. block - 1 : p # block
      BY <2>4
    <3>3. \A p \in PageNo : p # block => flash'[p] = flash[p]
      BY <1>4, <2>1, <2>5 DEF HandleWrite
    <3> QED BY <2>3, <3>1, <3>2, <3>3
  <2>7. \A a \in Answers' : a.cmd = "BOOT_WRITE" /\ offset = Chunks =>
             block \in PageNo /\ flash'[block] = a.crc
    <3>1. CASE block \in PageNo
      <4>1. Answers' \subseteq Answers \cup {Ack("BOOT_WRITE", pagebuffer')}
        BY <1>0, <1>4, <2>1, <3>1, ReplyRange DEF HandleWrite
      <4>2. offset = Chunks => flash'[block] = pagebuffer'
        BY <1>4, <2>1, <2>5, <3>1 DEF HandleWrite
      <4> QED BY <2>2, <3>1, <4>1, <4>2 DEF Ack
    <3>2. CASE block \notin PageNo
      <4>1. Answers' = Answers
        BY <1>4, <2>1, <3>2 DEF HandleWrite, Answers
      <4> QED BY <2>2, <4>1
    <3> QED BY <3>1, <3>2
  <2> QED BY <1>1, <2>3, <2>6, <2>7 DEF Verified
<1> QED BY <1>1, <1>3, <1>4

LEMMA VerifiedNext == TypeOK /\ Shape /\ Upload /\ Verified /\ [Next]_vars => Verified'
<1> SUFFICES ASSUME TypeOK, Shape, Upload, Verified, [Next]_vars PROVE Verified'
  OBVIOUS
<1>0. FramesOK /\ FileOK /\ resets \in Nat
  BY Numbers DEF TypeOK, Upload, CountsOK
<1>1. CASE DeviceTimeout
  BY <1>0, <1>1, VerifiedStays DEF DeviceTimeout, loader, bootstate, bounds, Requests, Answers
<1>2. CASE ApplicationIgnores
  <2>1. Requests' \subseteq Requests
    BY <1>0, <1>2, HandledRange DEF ApplicationIgnores
  <2> QED BY <1>0, <1>2, <2>1, VerifiedStays
          DEF ApplicationIgnores, loader, bootstate, device, bounds, Answers
<1>3. CASE LoseFrame
  <2>1. UNCHANGED <<loader, device, quits, resets, hasty>>
    BY <1>3 DEF LoseFrame
  <2>2. Requests' \subseteq Requests /\ Answers' \subseteq Answers
    <3>1. CASE toDevice # <<>> /\ toDevice' = Tail(toDevice) /\ UNCHANGED toLoader
      BY <1>0, <3>1, HandledRange DEF Answers
    <3>2. CASE toLoader # <<>> /\ toLoader' = Tail(toLoader) /\ UNCHANGED toDevice
      BY <1>0, <3>2, TookRange DEF Requests
    <3> QED BY <1>3, <3>1, <3>2 DEF LoseFrame
  <2> QED BY <1>0, <2>1, <2>2, VerifiedStays DEF loader, bootstate, device
<1>4. CASE Quit
  BY <1>4 DEF Quit, InitBootstate, Verified
<1>5. CASE Reset \/ CrashInWrite \/ CrashInFinish
  <2>1. resets' = resets + 1
    BY <1>5 DEF Reset, CrashInWrite, CrashInFinish, ResetWith
  <2>2. resets' # 0
    BY <1>0, <2>1
  <2> QED BY <2>2 DEF Verified
<1>6. CASE UNCHANGED vars
  BY <1>0, <1>6, VerifiedStays DEF vars, loader, bootstate, device, bounds, Requests, Answers
<1> QED BY <1>1, <1>2, <1>3, <1>4, <1>5, <1>6, VerifiedLoader, VerifiedDevice
        DEF Next, Device, Environment

(* A block the loader has left behind is in flash, for any image, page and *)
(* number of losses and retries: the answer it compares with its own page  *)
(* is the answer to the last chunk of that page, since only one request    *)
(* is on its way.                                                          *)
THEOREM BootloadVerified == Spec => []VerifiedIsFlashed
<1>1. Init => Verified
  BY DEF Init, Verified
<1>2. Verified => VerifiedIsFlashed
  BY DEF Verified, VerifiedIsFlashed
<1> QED BY <1>1, <1>2, TypeInit, TypeNext, ShapeInit, ShapeNext, UploadInit, UploadNext,
           VerifiedNext, PTL DEF Spec

-----------------------------------------------------------------------------
(* What the firmware block says                                            *)

\* The frame of the last chunk sent.
Again(m) == m = Write(block, offset - 1, FileData(block)[offset - 1])

\* Behind BOOT_CHECK there is only the last chunk again.
Trail ==
    quits <= 1 /\ state = "CHECK" =>
        /\ \A i, j \in DOMAIN toDevice :
             i < j /\ toDevice[i].cmd = "BOOT_CHECK" => Again(toDevice[j])
        /\ (\E m \in Answers : m.cmd = "BOOT_CHECK") => \A m \in Requests : Again(m)

\* Requests at the front are gone, the others are as they were.
Shorter == \E n \in Nat : \A i \in DOMAIN toDevice' :
             i \in Nat /\ n + i \in DOMAIN toDevice /\ toDevice'[i] = toDevice[n + i]

LEMMA ShorterTail ==
    ASSUME FramesOK, toDevice # <<>>, toDevice' = Tail(toDevice) PROVE Shorter
<1>1. /\ Len(toDevice) \in Nat /\ DOMAIN toDevice = 1 .. Len(toDevice)
      /\ DOMAIN toDevice' = 1 .. Len(toDevice) - 1
      /\ \A i \in 1 .. Len(toDevice) - 1 : toDevice'[i] = toDevice[i + 1]
  BY TailAt DEF FramesOK
<1>2. \A i \in DOMAIN toDevice' :
         i \in Nat /\ 1 + i \in DOMAIN toDevice /\ toDevice'[i] = toDevice[1 + i]
  BY <1>1
<1> QED BY <1>2 DEF Shorter

LEMMA ShorterSuffix ==
    ASSUME FramesOK, NEW n \in 0 .. Len(toDevice),
           toDevice' = SubSeq(toDevice, n + 1, Len(toDevice))
    PROVE  Shorter
<1>1. /\ Len(toDevice) \in Nat /\ n \in Nat /\ n <= Len(toDevice)
      /\ DOMAIN toDevice = 1 .. Len(toDevice)
  BY DEF FramesOK
<1>2. /\ DOMAIN toDevice' = 1 .. Len(toDevice) - n
      /\ \A i \in 1 .. Len(toDevice) - n : toDevice'[i] = toDevice[n + i]
  BY Suffix DEF FramesOK
<1>3. \A i \in DOMAIN toDevice' :
         i \in Nat /\ n + i \in DOMAIN toDevice /\ toDevice'[i] = toDevice[n + i]
  BY <1>1, <1>2
<1> QED BY <1>1, <1>3 DEF Shorter

LEMMA ShorterSame == ASSUME FramesOK, toDevice' = toDevice PROVE Shorter
<1>1. \A i \in DOMAIN toDevice' :
         i \in Nat /\ 0 + i \in DOMAIN toDevice /\ toDevice'[i] = toDevice[0 + i]
  BY DEF FramesOK
<1> QED BY <1>1 DEF Shorter

LEMMA ShorterRequests == Shorter => Requests' \subseteq Requests
BY DEF Shorter, Requests

LEMMA TrailShorter ==
    ASSUME FramesOK, Trail, Shorter, UNCHANGED <<quits, state, block, offset, filefw>>,
           \A m \in Answers' : m \in Answers \/ m.cmd # "BOOT_CHECK"
                               \/ (toDevice # <<>> /\ toDevice' = Tail(toDevice)
                                   /\ Head(toDevice).cmd = "BOOT_CHECK")
    PROVE  Trail'
<1> SUFFICES ASSUME quits <= 1, state = "CHECK" PROVE Trail'
  BY DEF Trail
<1>1. \A m : Again(m)' <=> Again(m)
  BY DEF Again, FileData
<1>2. PICK n \in Nat : \A i \in DOMAIN toDevice' :
         i \in Nat /\ n + i \in DOMAIN toDevice /\ toDevice'[i] = toDevice[n + i]
  BY DEF Shorter
<1>3. ASSUME NEW i \in DOMAIN toDevice', NEW j \in DOMAIN toDevice',
             i < j, toDevice'[i].cmd = "BOOT_CHECK"
      PROVE  Again(toDevice'[j])
  <2>1. /\ n + i \in DOMAIN toDevice /\ toDevice'[i] = toDevice[n + i] /\ i \in Nat
        /\ n + j \in DOMAIN toDevice /\ toDevice'[j] = toDevice[n + j] /\ j \in Nat
    BY <1>2
  <2>2. n + i < n + j
    BY <1>3, <2>1
  <2>3. Again(toDevice[n + j])
    BY <1>3, <2>1, <2>2 DEF Trail
  <2> QED BY <2>1, <2>3
<1>4. ASSUME NEW a \in Answers', a.cmd = "BOOT_CHECK", NEW m \in Requests' PROVE Again(m)
  <2>1. CASE a \in Answers
    BY <1>4, <2>1, ShorterRequests DEF Trail
  <2>2. CASE toDevice # <<>> /\ toDevice' = Tail(toDevice) /\ Head(toDevice).cmd = "BOOT_CHECK"
    <3>1. PICK j \in DOMAIN toDevice' : m = toDevice'[j]
      BY <1>4 DEF Requests
    <3>2. /\ Len(toDevice) \in Nat /\ Len(toDevice) >= 1 /\ DOMAIN toDevice = 1 .. Len(toDevice)
          /\ Head(toDevice) = toDevice[1] /\ DOMAIN toDevice' = 1 .. Len(toDevice) - 1
          /\ \A i \in 1 .. Len(toDevice) - 1 : toDevice'[i] = toDevice[i + 1]
      BY <2>2, TailAt DEF FramesOK
    <3>3. /\ 1 \in DOMAIN toDevice /\ j + 1 \in DOMAIN toDevice /\ 1 < j + 1
          /\ toDevice'[j] = toDevice[j + 1]
      BY <3>2
    <3> QED BY <2>2, <3>1, <3>2, <3>3 DEF Trail
  <2> QED BY <1>4, <2>1, <2>2
<1> QED BY <1>1, <1>3, <1>4 DEF Trail

\* No BOOT_CHECK is on its way behind which anything could be.
LEMMA TrailNone ==
    ASSUME \A m \in Answers' \cup Requests' : m.cmd # "BOOT_CHECK" PROVE Trail'
BY DEF Trail, Requests, Answers

\* The frame of an upload's end joins the line.
LEMMA TrailEnds ==
    ASSUME FramesOK, NEW m, NEW to, Send(to, m),
           \A x \in Answers' \cup Requests : x.cmd # "BOOT_CHECK"
    PROVE  Trail'
<1>1. /\ Len(toDevice) \in Nat /\ DOMAIN toDevice = 1 .. Len(toDevice)
  BY DEF FramesOK
<1>2. ASSUME NEW i \in DOMAIN toDevice', NEW j \in DOMAIN toDevice', i < j
      PROVE  toDevice'[i].cmd # "BOOT_CHECK"
  <2>1. i \in DOMAIN toDevice /\ toDevice'[i] = toDevice[i]
    <3>1. CASE to = Motor
      <4>1. /\ DOMAIN toDevice' = 1 .. Len(toDevice) + 1
            /\ \A k \in 1 .. Len(toDevice) : toDevice'[k] = toDevice[k]
        BY <3>1, AppendProperties DEF Send, FramesOK
      <4> QED BY <1>1, <1>2, <4>1
    <3>2. CASE to # Motor
      BY <3>2 DEF Send
    <3> QED BY <3>1, <3>2
  <2>2. toDevice[i] \in Requests
    BY <2>1 DEF Requests
  <2> QED BY <2>1, <2>2
<1> QED BY <1>2 DEF Trail

\* The last chunk again joins the line.
LEMMA TrailAgain ==
    ASSUME FramesOK, Trail, toLoader = <<>>, toLoader' = <<>>, NEW m, NEW to, Send(to, m), Again(m),
           UNCHANGED <<quits, state, block, offset, filefw>>
    PROVE  Trail'
<1> SUFFICES ASSUME quits <= 1, state = "CHECK" PROVE Trail'
  BY DEF Trail
<1>1. /\ Len(toDevice) \in Nat /\ DOMAIN toDevice = 1 .. Len(toDevice)
  BY DEF FramesOK
<1>2. \A x : Again(x)' <=> Again(x)
  BY DEF Again, FileData
<1>3. Answers' = {}
  BY DEF Answers
<1>4. ASSUME NEW i \in DOMAIN toDevice', NEW j \in DOMAIN toDevice',
             i < j, toDevice'[i].cmd = "BOOT_CHECK"
      PROVE  Again(toDevice'[j])
  <2>1. CASE to = Motor
    <3>1. /\ DOMAIN toDevice' = 1 .. Len(toDevice) + 1 /\ toDevice'[Len(toDevice) + 1] = m
          /\ \A k \in 1 .. Len(toDevice) : toDevice'[k] = toDevice[k]
      BY <2>1, AppendProperties DEF Send, FramesOK
    <3>2. i \in DOMAIN toDevice /\ toDevice'[i] = toDevice[i]
      BY <1>1, <1>4, <3>1
    <3>3. CASE j = Len(toDevice) + 1
      BY <3>1, <3>3
    <3>4. CASE j \in 1 .. Len(toDevice)
      BY <1>1, <1>4, <3>1, <3>2, <3>4 DEF Trail
    <3> QED BY <1>1, <3>1, <3>3, <3>4
  <2>2. CASE to # Motor
    BY <1>4, <2>2 DEF Send, Trail
  <2> QED BY <2>1, <2>2
<1> QED BY <1>2, <1>3, <1>4 DEF Trail

\* What a retry in CHECK sends.
LEMMA RetrySends ==
    ASSUME LoaderOK, RetryChunk, offset > 0
    PROVE  /\ UNCHANGED <<block, offset>>
           /\ \E m : Send(address, m) /\ Again(m)
<1>1. /\ todo \in Nat /\ block \in Nat /\ offset \in 1 .. Chunks /\ Chunks \in Nat
      /\ block * Chunks \in Nat
  BY Offsets, Numbers
<1>2. WriteNextChunk(todo + 1, block, offset - 1, block * Chunks + offset - 1)
  BY DEF RetryChunk
<1>3. /\ todo + 1 \in Nat /\ todo + 1 # 0 /\ offset - 1 \in 0 .. Chunks /\ todo + 1 > 0
      /\ offset - 1 < Chunks /\ block * Chunks + offset - 1 \in Nat
  BY <1>1
<1> DEFINE f == block * Chunks + offset - 1
           n == todo + 1
           o == offset - 1
<1>8. /\ WriteNextChunk(n, block, o, f) /\ n \in Nat /\ n # 0 /\ n > 0 /\ o \in 0 .. Chunks
      /\ o < Chunks /\ f \in Nat /\ o = offset - 1
  BY <1>2, <1>3
<1> HIDE DEF f, n, o
<1>9. /\ block' = block /\ offset' = o + 1
      /\ \E d \in Data : Send(address, Write(block, o, d)) /\ d = FileData(f \div Chunks)[f % Chunks]
  BY <1>1, <1>8, ChunkSends
<1>4. /\ block' = block /\ offset' = (offset - 1) + 1
      /\ \E d \in Data : /\ Send(address, Write(block, offset - 1, d))
                         /\ d = FileData(f \div Chunks)[f % Chunks]
  BY <1>8, <1>9
<1>5. f \div Chunks = block /\ f % Chunks = offset - 1
  <2>1. \A b, c, r \in Nat : r < c => (b * c + r) \div c = b /\ (b * c + r) % c = r
    <3>1. ASSUME NEW b \in Nat, NEW c \in Nat, NEW r \in Nat, r < c
          PROVE  (b * c + r) \div c = b /\ (b * c + r) % c = r
      <4>1. b * c = c * b
        OBVIOUS
      <4> QED BY <3>1, <4>1
    <3> QED BY <3>1
  <2>2. offset - 1 \in Nat /\ offset - 1 < Chunks
    BY <1>1, <1>3
  <2>3. f = block * Chunks + (offset - 1)
    BY <1>1 DEF f
  <2> QED BY <1>1, <2>1, <2>2, <2>3
<1>6. offset' = offset
  BY <1>1, <1>4
<1>7. \E m : Send(address, m) /\ Again(m)
  <2>1. PICK d \in Data : /\ Send(address, Write(block, offset - 1, d))
                          /\ d = FileData(f \div Chunks)[f % Chunks]
    BY <1>4
  <2>2. d = FileData(block)[offset - 1]
    BY <1>5, <2>1
  <2> QED BY <2>1, <2>2 DEF Again
<1> QED BY <1>4, <1>6, <1>7

LEMMA ReplyAnswers ==
    ASSUME FramesOK, DeviceReceive
    PROVE  \A m \in Answers' : m \in Answers \/ m.cmd = Head(toDevice).cmd
<1> DEFINE m0 == Head(toDevice)
<1>1. HandleStart(m0) \/ HandleWrite(m0) \/ HandleCheck(m0) \/ HandleFinish(m0)
  BY DEF DeviceReceive
<1>2. \/ \E crc : Reply(m0.cmd, crc)
      \/ toLoader' = toLoader
  BY <1>1 DEF HandleStart, HandleWrite, HandleCheck, HandleFinish
<1>3. ASSUME NEW crc, Reply(m0.cmd, crc) PROVE \A m \in Answers' : m \in Answers \/ m.cmd = m0.cmd
  BY <1>3, ReplyRange DEF Ack
<1>4. CASE toLoader' = toLoader
  BY <1>4 DEF Answers
<1> QED BY <1>2, <1>3, <1>4

\* The state CHECK: no BOOT_FINISH is on its way, and nothing at all of an upload when
\* no loader runs.
LEMMA NotChecked ==
    ASSUME Shape, FramesOK, quits <= 1, state = "WRITE" \/ (state # "WAIT_REQ" /\ task # "load"),
           state \in {"WAIT_REQ", "WRITE", "CHECK"}
    PROVE  \A m \in Requests \cup Answers : m.cmd # "BOOT_CHECK" /\ m.cmd # "BOOT_FINISH"
<1>1. OnLine \subseteq Calls \cup {"BOOT_WRITE"}
  BY DEF Shape, Orderly
<1> QED BY <1>1, RangeNames, Kinds

LEMMA TrailNext == TypeOK /\ Shape /\ Upload /\ Trail /\ [Next]_vars => Trail'
<1> SUFFICES ASSUME TypeOK, Shape, Upload, Trail, [Next]_vars PROVE Trail'
  OBVIOUS
<1>0. /\ LoaderOK /\ FramesOK /\ FileOK /\ toDevice \in Seq(ToDevice)
      /\ state \in {"WAIT_REQ", "WRITE", "CHECK"}
  BY DEF TypeOK, Upload, FramesOK, LoaderOK
<1>1. SUFFICES ASSUME quits' <= 1, state' = "CHECK" PROVE Trail'
  BY DEF Trail
<1>2. ASSUME UNCHANGED <<quits, state, block, offset, filefw, toDevice>>,
             Answers' \subseteq Answers
      PROVE  Trail'
  BY <1>0, <1>2, ShorterSame, TrailShorter
<1>3. CASE StartMotor \/ GiveUp \/ DeviceTimeout \/ UNCHANGED vars
  <2>1. UNCHANGED <<quits, state, block, offset, filefw, toDevice, toLoader>>
    BY <1>3 DEF StartMotor, GiveUp, DeviceTimeout, vars, loader, bootstate, bounds
  <2> QED BY <1>2, <2>1 DEF Answers
<1>4. CASE PrepareSend
  <2>1. toLoader' = <<>> /\ toDevice = <<>> /\ Send(address, Info)
    BY <1>4 DEF PrepareSend, Ask
  <2>2. Answers' = {} /\ Requests = {}
    BY <2>1 DEF Answers, Requests
  <2> QED BY <1>0, <2>1, <2>2, TrailEnds
<1>5. CASE PrepareReceive
  <2>1. UNCHANGED <<quits, state, block, offset, filefw, toDevice>>
    BY <1>5 DEF PrepareReceive, bounds
  <2> QED BY <1>0, <1>2, <1>5, <2>1, TookRange DEF PrepareReceive
<1>6. CASE LoadMotor
  <2>1. /\ task = "idle" /\ UNCHANGED <<quits, state, toLoader>> /\ Send(Motor, Start)
    BY <1>6 DEF LoadMotor, StartLoad
  <2>2. \A m \in Requests \cup Answers : m.cmd # "BOOT_CHECK"
    BY <1>0, <1>1, <2>1, NotChecked
  <2>3. Answers' = Answers
    BY <2>1 DEF Answers
  <2> QED BY <1>0, <2>1, <2>2, <2>3, TrailEnds
<1>7. CASE LoadReceive
  <2>1. /\ task = "load" /\ toLoader # <<>> /\ toLoader' = Tail(toLoader) /\ quits' = quits
        /\ Answer(Head(toLoader)) \/ Unexpected(Head(toLoader))
    BY <1>7 DEF LoadReceive, bounds
  <2>2. Answers' \subseteq Answers
    BY <1>0, <2>1, TookRange
  <2>3. CASE Unexpected(Head(toLoader))
    BY <1>2, <2>1, <2>2, <2>3 DEF Unexpected, loader, bootstate
  <2>4. CASE LastAcked
    <3>1. state = "WRITE" /\ Send(address, Check(filefw.size))
      BY <2>4 DEF LastAcked
    <3>2. \A m \in Requests \cup Answers : m.cmd # "BOOT_CHECK"
      BY <1>0, <1>1, <2>1, <3>1, NotChecked
    <3> QED BY <1>0, <2>2, <3>1, <3>2, TrailEnds
  <2>5. ASSUME Answer(Head(toLoader)), ~LastAcked PROVE FALSE
    BY <1>1, <2>5 DEF Answer, StartAcked, ChunkAcked, BlockAcked, LoadDone, InitBootstate
  <2> QED BY <2>1, <2>3, <2>4, <2>5
<1>8. CASE RetryChunk
  <2>1. toLoader = <<>> /\ toLoader' = <<>> /\ UNCHANGED <<quits, state, filefw>>
    BY <1>8 DEF RetryChunk
  <2>2. CASE offset > 0
    <3>1. UNCHANGED <<block, offset>> /\ \E m : Send(address, m) /\ Again(m)
      BY <1>0, <1>8, <2>2, RetrySends
    <3> QED BY <1>0, <2>1, <3>1, TrailAgain
  <2>3. CASE ~(offset > 0)
    <3>1. UNCHANGED <<block, offset, toDevice>>
      BY <1>8, <2>3 DEF RetryChunk
    <3> QED BY <1>2, <2>1, <3>1 DEF Answers
  <2> QED BY <2>2, <2>3
<1>9. CASE Quit
  BY <1>1, <1>9 DEF Quit, InitBootstate
<1>10. CASE DeviceReceive
  <2>1. /\ toDevice # <<>> /\ toDevice' = Tail(toDevice)
        /\ UNCHANGED <<quits, state, block, offset, filefw>>
    BY <1>10 DEF DeviceReceive, loader, bootstate, bounds
  <2>2. \A m \in Answers' : m \in Answers \/ m.cmd = Head(toDevice).cmd
    BY <1>0, <1>10, ReplyAnswers
  <2>3. \A m \in Answers' : m \in Answers \/ m.cmd # "BOOT_CHECK"
                            \/ (toDevice # <<>> /\ toDevice' = Tail(toDevice)
                                /\ Head(toDevice).cmd = "BOOT_CHECK")
    BY <2>1, <2>2
  <2> QED BY <1>0, <2>1, <2>3, ShorterTail, TrailShorter
<1>11. ASSUME UNCHANGED <<quits, state, block, offset, filefw>>, Shorter, Answers' \subseteq Answers
       PROVE  Trail'
  BY <1>0, <1>11, TrailShorter
<1>12. CASE ApplicationIgnores
  <2>1. UNCHANGED <<quits, state, block, offset, filefw, toLoader>> /\ Shorter
    BY <1>0, <1>12, ShorterTail DEF ApplicationIgnores, loader, bootstate, bounds
  <2> QED BY <1>11, <2>1 DEF Answers
<1>13. CASE LoseFrame
  <2>1. UNCHANGED <<quits, state, block, offset, filefw>>
    BY <1>13 DEF LoseFrame, loader, bootstate
  <2>2. CASE toDevice # <<>> /\ toDevice' = Tail(toDevice) /\ toLoader' = toLoader
    BY <1>0, <1>11, <2>1, <2>2, ShorterTail DEF Answers
  <2>3. CASE toLoader # <<>> /\ toLoader' = Tail(toLoader) /\ toDevice' = toDevice
    BY <1>0, <1>2, <2>1, <2>3, TookRange
  <2> QED BY <1>13, <2>2, <2>3 DEF LoseFrame
<1>14. CASE Reset \/ CrashInWrite \/ CrashInFinish
  <2>1. UNCHANGED <<quits, state, block, offset, filefw, toLoader>>
    BY <1>14 DEF Reset, CrashInWrite, CrashInFinish, ResetWith, loader, bootstate
  <2>2. Shorter
    BY <1>0, <1>14, ShorterTail, ShorterSuffix DEF Reset, CrashInWrite, CrashInFinish
  <2> QED BY <1>11, <2>1, <2>2 DEF Answers
<1> QED BY <1>3, <1>4, <1>5, <1>6, <1>7, <1>8, <1>9, <1>10, <1>12, <1>13, <1>14
        DEF Next, Loader, Device, Environment

LastPage == Image[Pages]
LastChunk == Write(Pages - 1, Chunks - 1, LastPage[Chunks - 1])
FlashIsImage == AppCrc(flash, Pages) = Image

\* The chunks still on their way write the last page as it is, or pages behind it.
Harmless ==
    \/ \A m \in Requests : m.cmd = "BOOT_WRITE" => m.block >= Pages
    \/ /\ \A m \in Requests : m.cmd = "BOOT_WRITE" => m = LastChunk
       /\ \A c \in Chunk : c # Chunks - 1 => pagebuffer[c] = LastPage[c]

\* The CRC of the image is on its way to the loader that waits for it, or BOOT_FINISH
\* is on its way to the device.
Settled ==
    \/ state = "CHECK" /\ \E m \in Answers : m.cmd = "BOOT_CHECK" /\ m.crc = Image
    \/ \E m \in Requests : m.cmd = "BOOT_FINISH"

Ends == quits <= 1 /\ (~hasty \/ resets = 0) /\ Settled => FlashIsImage /\ Harmless

\* The commands on their way after the answer of BOOT_CHECK and ahead of BOOT_FINISH.
LEMMA LineNames ==
    ASSUME FramesOK, NEW R, Line(R)
    PROVE  /\ \A x \in Answers : \A y \in Requests : y.cmd \in R[x.cmd]
           /\ \A x, y \in Requests : x # y => y.cmd \in R[x.cmd] \/ x.cmd \in R[y.cmd]
<1>1. ASSUME NEW x \in Answers, NEW y \in Requests PROVE y.cmd \in R[x.cmd]
  BY DEF Answers, Requests, Line, Follow
<1>2. ASSUME NEW x \in Requests, NEW y \in Requests, x # y
      PROVE  y.cmd \in R[x.cmd] \/ x.cmd \in R[y.cmd]
  <2>1. PICK i \in DOMAIN toDevice : x = toDevice[i]
    BY DEF Requests
  <2>2. PICK j \in DOMAIN toDevice : y = toDevice[j]
    BY DEF Requests
  <2>3. i \in Nat /\ j \in Nat /\ i # j
    BY <1>2, <2>1, <2>2 DEF FramesOK
  <2>4. i < j \/ j < i
    BY <2>3
  <2> QED BY <2>1, <2>2, <2>4 DEF Line, Follow
<1> QED BY <1>1, <1>2

LEMMA NoFinish ==
    ASSUME Shape, FramesOK, LoaderOK, quits <= 1, state # "WAIT_REQ"
    PROVE  \A m \in Requests : m.cmd # "BOOT_FINISH"
<1>1. "BOOT_FINISH" \notin OnLine
  BY Kinds DEF Shape, Orderly, LoaderOK
<1> QED BY <1>1, RangeNames

\* A loader that waits has no chunk on its way then.
LEMMA PatientSettled ==
    ASSUME Shape, FramesOK, LoaderOK, quits <= 1, ~hasty, Settled
    PROVE  \A m \in Requests : m.cmd # "BOOT_WRITE"
<1>0. \A m \in Requests \cup Answers : m.cmd \in Cmds
  BY Commands DEF Requests, Answers
<1>1. ASSUME NEW a \in Answers, state = "CHECK", a.cmd = "BOOT_CHECK",
             NEW m \in Requests
      PROVE  FALSE
  <2>1. Line(Led)
    BY <1>1 DEF Shape, Patient
  <2>2. m.cmd \in Led["BOOT_CHECK"]
    BY <1>1, <2>1, LineNames
  <2> QED BY <2>2, Rules, Kinds
<1>2. ASSUME NEW f \in Requests, f.cmd = "BOOT_FINISH", NEW m \in Requests, m.cmd = "BOOT_WRITE"
      PROVE  FALSE
  <2>1. state = "WAIT_REQ"
    BY <1>2, NoFinish
  <2>2. Line(Tidy) /\ Line(Waiting)
    BY <2>1 DEF Shape, Patient, Orderly
  <2>3. PICK i \in DOMAIN toDevice : f = toDevice[i]
    BY DEF Requests
  <2>4. PICK j \in DOMAIN toDevice : m = toDevice[j]
    BY DEF Requests
  <2>5. i \in Nat /\ j \in Nat /\ i # j
    BY <1>2, <2>3, <2>4 DEF FramesOK
  <2>6. CASE i < j
    <3>1. "BOOT_WRITE" \in Waiting["BOOT_FINISH"]
      BY <1>2, <2>2, <2>3, <2>4, <2>6 DEF Line, Follow
    <3> QED BY <3>1, Rules, Kinds
  <2>7. CASE j < i
    <3>1. "BOOT_FINISH" \in Tidy["BOOT_WRITE"]
      BY <1>2, <2>2, <2>3, <2>4, <2>7 DEF Line, Follow
    <3> QED BY <3>1, Rules, Kinds
  <2> QED BY <2>5, <2>6, <2>7
<1> QED BY <1>1, <1>2 DEF Settled

\* Steps that leave flash, the page buffer and the chunks on their way as they are.
LEMMA EndsStays ==
    ASSUME Ends, UNCHANGED <<flash, pagebuffer, quits>>, resets' = resets, ~hasty' => ~hasty,
           Settled' => Settled, \A m \in Requests' : m \in Requests \/ m.cmd # "BOOT_WRITE"
    PROVE  Ends'
<1> SUFFICES ASSUME quits <= 1, ~hasty' \/ resets = 0, Settled' PROVE FlashIsImage' /\ Harmless'
  BY DEF Ends
<1>1. FlashIsImage /\ Harmless
  BY DEF Ends
<1>2. FlashIsImage'
  BY <1>1 DEF FlashIsImage, AppCrc
<1>3. Harmless'
  BY <1>1 DEF Harmless
<1> QED BY <1>2, <1>3

\* Nothing is settled when the loader goes on writing.
LEMMA EndsNot == ~Settled' => Ends'
BY DEF Ends

LEMMA ImageFlashed ==
    ASSUME FlashIsImage
    PROVE  /\ flash[Pages - 1] = LastPage
           /\ \A other : (\A p \in 0 .. Pages - 1 : other[p] = flash[p]) => AppCrc(other, Pages) = Image
<1>1. Pages \in Nat /\ Pages >= 1
  BY ImageFacts
<1>2. \A p \in 1 .. Pages : Image[p] = flash[p - 1]
  BY DEF FlashIsImage, AppCrc
<1>3. Image = [p \in 1 .. Pages |-> flash[p - 1]]
  BY DEF FlashIsImage, AppCrc
<1>4. ASSUME NEW other, \A p \in 0 .. Pages - 1 : other[p] = flash[p]
      PROVE  AppCrc(other, Pages) = Image
  <2>1. \A p \in 1 .. Pages : other[p - 1] = flash[p - 1]
    BY <1>1, <1>4
  <2> QED BY <1>3, <2>1 DEF AppCrc
<1>5. Pages \in 1 .. Pages /\ Pages - 1 = Pages - 1
  BY <1>1
<1> QED BY <1>2, <1>4, <1>5 DEF LastPage

LEMMA LastPageType == LastPage \in Page /\ Pages - 1 \in PageNo /\ Chunks - 1 \in Chunk
                      /\ Pages - 1 \in 0 .. Pages - 1
<1>1. Pages \in 1 .. Len(Image)
  BY ImageFacts DEF Pages
<1>2. LastPage \in Page
  BY <1>1, ImageFacts DEF LastPage
<1> QED BY <1>2, ImageFacts, Numbers DEF PageNo, Chunk

\* A chunk that is still on its way does no harm.
LEMMA EndsWrite ==
    ASSUME TypeOK, Ends, DeviceReceive, HandleWrite(Head(toDevice)) PROVE Ends'
<1> DEFINE m == Head(toDevice)
<1>0. FramesOK /\ flash \in [PageNo -> Page] /\ pagebuffer \in Page
  BY DEF TypeOK, DeviceOK
<1>1. /\ toDevice # <<>> /\ toDevice' = Tail(toDevice)
      /\ UNCHANGED <<state, quits, resets, hasty>> /\ HandleWrite(m)
  BY DEF DeviceReceive, loader, bootstate, bounds
<1>2. Requests' \subseteq Requests /\ m \in Requests /\ m \in ToDevice /\ m.cmd = "BOOT_WRITE"
  BY <1>0, <1>1, HandledRange, Taken DEF HandleWrite
<1>3. ~hasty' => ~hasty
  BY <1>1
<1>4. \A a \in Answers' : a \in Answers \/ a.cmd = "BOOT_WRITE"
  BY <1>0, <1>2, ReplyAnswers
<1>5. Settled' => Settled
  BY <1>1, <1>2, <1>4 DEF Settled
<1> SUFFICES ASSUME quits <= 1, ~hasty' \/ resets = 0, Settled' PROVE FlashIsImage' /\ Harmless'
  BY <1>1 DEF Ends
<1>6. FlashIsImage /\ Harmless
  BY <1>3, <1>5 DEF Ends
<1>7. /\ pagebuffer' = [pagebuffer EXCEPT ![m.offs] = m.data]
      /\ flash' = flash \/ (m.block \in PageNo /\ flash' = [flash EXCEPT ![m.block] = pagebuffer'])
  BY <1>1 DEF HandleWrite
<1>8. Pages \in Nat /\ m.block \in Nat
  BY <1>2, ImageFacts, FrameTypes
<1>9. CASE \A x \in Requests : x.cmd = "BOOT_WRITE" => x.block >= Pages
  <2>1. m.block >= Pages
    BY <1>2, <1>9
  <2>2. \A p \in 0 .. Pages - 1 : flash'[p] = flash[p]
    <3>1. \A p \in 0 .. Pages - 1 : p # m.block /\ p \in PageNo
      BY <1>8, <2>1, ImageFacts, Numbers DEF PageNo
    <3> QED BY <1>0, <1>7, <3>1
  <2>3. FlashIsImage'
    <3>1. AppCrc(flash', Pages) = Image
      BY <1>6, <2>2, ImageFlashed
    <3> QED BY <3>1 DEF FlashIsImage, AppCrc
  <2>4. Harmless'
    BY <1>2, <1>9 DEF Harmless
  <2> QED BY <2>3, <2>4
<1>10. CASE /\ \A x \in Requests : x.cmd = "BOOT_WRITE" => x = LastChunk
            /\ \A c \in Chunk : c # Chunks - 1 => pagebuffer[c] = LastPage[c]
  <2>1. m = LastChunk
    BY <1>2, <1>10
  <2>2. m.block = Pages - 1 /\ m.offs = Chunks - 1 /\ m.data = LastPage[Chunks - 1]
    BY <2>1 DEF LastChunk, Write
  <2>3. pagebuffer' = LastPage
    <3>1. pagebuffer \in [Chunk -> Data] /\ LastPage \in [Chunk -> Data] /\ Chunks - 1 \in Chunk
      BY <1>0, LastPageType DEF Page
    <3>2. pagebuffer' \in [Chunk -> Data]
      BY <1>7, <2>2, <3>1
    <3>3. \A c \in Chunk : pagebuffer'[c] = LastPage[c]
      BY <1>7, <1>10, <2>2, <3>1
    <3> QED BY <3>1, <3>2, <3>3
  <2>4. \A p \in 0 .. Pages - 1 : flash'[p] = flash[p]
    <3>1. flash[Pages - 1] = LastPage
      BY <1>6, ImageFlashed
    <3>2. \A p \in 0 .. Pages - 1 : p \in PageNo
      BY <1>8, ImageFacts, Numbers DEF PageNo
    <3> QED BY <1>0, <1>7, <2>2, <2>3, <3>1, <3>2
  <2>5. FlashIsImage'
    <3>1. AppCrc(flash', Pages) = Image
      BY <1>6, <2>4, ImageFlashed
    <3> QED BY <3>1 DEF FlashIsImage, AppCrc
  <2>6. Harmless'
    <3>1. \A x \in Requests' : x.cmd = "BOOT_WRITE" => x = LastChunk
      BY <1>2, <1>10
    <3> QED BY <2>3, <3>1 DEF Harmless
  <2> QED BY <2>5, <2>6
<1> QED BY <1>6, <1>9, <1>10 DEF Harmless

\* The device computes the CRC that the loader asks for.
LEMMA EndsCheck ==
    ASSUME TypeOK, Shape, Upload, Trail', Ends, DeviceReceive, HandleCheck(Head(toDevice))
    PROVE  Ends'
<1> DEFINE m == Head(toDevice)
<1>0. /\ FramesOK /\ LoaderOK /\ toDevice \in Seq(Known)
      /\ block \in Nat /\ offset \in 0 .. Chunks /\ Chunks \in Nat
      /\ firmwareoffs = block * Chunks + offset
  BY Offsets, Numbers DEF TypeOK, Upload
<1>1. /\ toDevice # <<>> /\ toDevice' = Tail(toDevice)
      /\ UNCHANGED <<state, block, offset, filefw, task, firmwareoffs, quits, resets, hasty>>
      /\ HandleCheck(m) /\ flash' = flash
  BY DEF DeviceReceive, HandleCheck, loader, bootstate, bounds
<1>2. Requests' \subseteq Requests /\ m \in Requests /\ m.cmd = "BOOT_CHECK"
  BY <1>0, <1>1, HandledRange DEF HandleCheck
<1>3. m.size = Pages
  BY <1>0, <1>1, <1>2, HeadTailProperties DEF Known
<1>4. ~hasty' => ~hasty
  BY <1>1
<1> SUFFICES ASSUME quits <= 1, ~hasty' \/ resets = 0, Settled' PROVE FlashIsImage' /\ Harmless'
  BY <1>1 DEF Ends
<1>5. 1 \in DOMAIN toDevice /\ m = toDevice[1]
  BY <1>0, <1>1, TailAt DEF FramesOK
<1>6. \A f \in Requests' : f.cmd # "BOOT_FINISH"
  <2> SUFFICES ASSUME NEW f \in Requests', f.cmd = "BOOT_FINISH" PROVE FALSE
    OBVIOUS
  <2>1. state = "WAIT_REQ"
    BY <1>0, <1>2, NoFinish
  <2>2. Line(Waiting)
    BY <2>1 DEF Shape, Orderly
  <2>3. PICK j \in DOMAIN toDevice' : f = toDevice'[j]
    BY DEF Requests
  <2>4. j + 1 \in DOMAIN toDevice /\ f = toDevice[j + 1] /\ 1 < j + 1
    <3>1. /\ DOMAIN toDevice = 1 .. Len(toDevice) /\ DOMAIN toDevice' = 1 .. Len(toDevice) - 1
          /\ Len(toDevice) \in Nat
          /\ \A i \in 1 .. Len(toDevice) - 1 : toDevice'[i] = toDevice[i + 1]
      BY <1>0, <1>1, TailAt DEF FramesOK
    <3> QED BY <2>3, <3>1
  <2>5. "BOOT_FINISH" \in Waiting["BOOT_CHECK"]
    BY <1>2, <1>5, <2>2, <2>4 DEF Line, Follow
  <2> QED BY <2>5, Rules, Kinds
<1>7. PICK a \in Answers' : state = "CHECK" /\ a.cmd = "BOOT_CHECK" /\ a.crc = Image
  BY <1>1, <1>6 DEF Settled
<1>8. a \notin Answers
  <2> SUFFICES ASSUME a \in Answers PROVE FALSE
    OBVIOUS
  <2>1. Line(Checking)
    BY <1>7 DEF Shape, Orderly
  <2>2. "BOOT_CHECK" \in Checking["BOOT_CHECK"]
    BY <1>0, <1>2, <1>7, <2>1, LineNames
  <2> QED BY <2>2, Rules, Kinds
<1>9. a = Ack("BOOT_CHECK", AppCrc(flash, Pages))
  BY <1>0, <1>1, <1>2, <1>3, <1>8, ReplyRange DEF HandleCheck
<1>10. FlashIsImage
  BY <1>7, <1>9 DEF Ack, FlashIsImage
<1>11. FlashIsImage'
  BY <1>1, <1>10 DEF FlashIsImage, AppCrc
<1>12. \A x \in Requests' : Again(x)
  <2>1. \A x : Again(x)' <=> Again(x)
    BY <1>1 DEF Again, FileData
  <2> QED BY <1>1, <1>7, <2>1 DEF Trail
<1>13. firmwareoffs >= Total
  BY <1>7 DEF Upload, Positions
<1>14. Harmless'
  <2>1. CASE block >= Pages
    <3>1. \A x \in Requests' : x.block >= Pages
      BY <1>12, <2>1 DEF Again, Write
    <3> QED BY <3>1 DEF Harmless
  <2>2. CASE ~(block >= Pages)
    <3>1. block = Pages - 1 /\ offset = Chunks
      <4>1. \A b, n, c, r \in Nat : b <= n - 1 /\ c >= 1 /\ r <= c /\ b * c + r >= n * c
                                       => b = n - 1 /\ r = c
        <5>1. ASSUME NEW b \in Nat, NEW n \in Nat, NEW c \in Nat, NEW r \in Nat,
                     b <= n - 1, c >= 1, r <= c, b * c + r >= n * c
              PROVE  b = n - 1 /\ r = c
          <6>1. (n - b) * c = n * c - b * c
            OBVIOUS
          <6>2. (n - b) * c <= c
            BY <5>1, <6>1
          <6>3. ASSUME n - b >= 2 PROVE FALSE
            <7>1. (n - b) * c >= 2 * c
              <8>1. \A k, l \in Nat : k >= 2 => k * l >= 2 * l
                OBVIOUS
              <8>2. n - b \in Nat
                BY <5>1
              <8> QED BY <6>3, <8>1, <8>2
            <7> QED BY <5>1, <6>2, <7>1
          <6>4. b = n - 1
            BY <5>1, <6>3
          <6>5. n * c = b * c + c
            <7>1. (n - b) * c = c
              BY <6>4
            <7> QED BY <6>1, <7>1
          <6> QED BY <5>1, <6>4, <6>5
        <5> QED BY <5>1
      <4>2. block <= Pages - 1 /\ Pages \in Nat /\ Chunks >= 1 /\ offset \in Nat /\ offset <= Chunks
        BY <1>0, <2>2, ImageFacts, Numbers
      <4>3. block * Chunks + offset >= Pages * Chunks
        BY <1>0, <1>13 DEF Total
      <4> QED BY <1>0, <4>1, <4>2, <4>3
    <3>2. filefw = ImageFile
      BY <1>7 DEF Upload, FileOK
    <3>3. FileData(block) = LastPage
      <4>1. filefw.data = Image
        BY <3>2 DEF ImageFile
      <4>2. block < Len(Image) /\ block + 1 = Pages
        BY <3>1, ImageFacts DEF Pages
      <4> QED BY <4>1, <4>2 DEF FileData, LastPage
    <3>4. \A x \in Requests' : x = LastChunk
      BY <1>12, <3>1, <3>3 DEF Again, LastChunk
    <3>5. pagebuffer' = LastPage
      <4>1. pagebuffer' = LastRead(flash, Pages, pagebuffer)
        BY <1>1, <1>3 DEF HandleCheck
      <4>2. Pages > 0
        BY ImageFacts
      <4> QED BY <1>10, <4>1, <4>2, ImageFlashed DEF LastRead
    <3> QED BY <3>4, <3>5 DEF Harmless
  <2> QED BY <2>1, <2>2
<1> QED BY <1>11, <1>14

\* After a reset or while power fails nothing is on its way that could still be written.
LEMMA EndsReset ==
    ASSUME TypeOK, Shape, Ends, UNCHANGED <<state, quits, hasty, toLoader>>,
           resets' = resets + 1, Shorter,
           \/ flash' = flash
           \/ toDevice # <<>> /\ Head(toDevice).cmd = "BOOT_WRITE"
    PROVE  Ends'
<1>0. FramesOK /\ LoaderOK /\ resets \in Nat
  BY Numbers DEF TypeOK, CountsOK
<1>1. resets' # 0
  BY <1>0
<1>2. ~hasty' => ~hasty
  OBVIOUS
<1> SUFFICES ASSUME quits <= 1, ~hasty', Settled' PROVE FlashIsImage' /\ Harmless'
  BY <1>1 DEF Ends
<1>3. Requests' \subseteq Requests /\ Answers' = Answers
  BY ShorterRequests DEF Answers
<1>4. Settled
  BY <1>3 DEF Settled
<1>5. FlashIsImage /\ \A m \in Requests : m.cmd # "BOOT_WRITE"
  BY <1>0, <1>2, <1>4, PatientSettled DEF Ends
<1>6. flash' = flash
  <2>1. ASSUME toDevice # <<>> PROVE Head(toDevice) \in Requests
    BY <1>0, <2>1, TailRange DEF FramesOK, Requests
  <2> QED BY <1>5, <2>1
<1>7. FlashIsImage'
  BY <1>5, <1>6 DEF FlashIsImage, AppCrc
<1>8. Harmless'
  BY <1>3, <1>5 DEF Harmless
<1> QED BY <1>7, <1>8

LEMMA EndsAnswer ==
    ASSUME TypeOK, Shape, Upload, Ends, LoadReceive PROVE Ends'
<1> DEFINE m == Head(toLoader)
<1>0. /\ FramesOK /\ LoaderOK /\ FileOK /\ toDevice \in Seq(ToDevice)
      /\ state \in {"WAIT_REQ", "WRITE", "CHECK"}
  BY DEF TypeOK, FramesOK, Upload, LoaderOK
<1>1. /\ task = "load" /\ toLoader # <<>> /\ toLoader' = Tail(toLoader)
      /\ UNCHANGED <<flash, pagebuffer, quits, resets, hasty>>
      /\ (Answer(m) \/ Unexpected(m))
  BY DEF LoadReceive, device, ram, bounds
<1>2. /\ Answers' \subseteq Answers /\ m \in Answers /\ (~hasty' => ~hasty)
      /\ \A x \in Requests : x.cmd \in Left
      /\ \A x \in Answers' : x.cmd \in Left
      /\ Left \subseteq Cmds /\ m.cmd \in Cmds
      /\ \A R : Line(R) => \A c \in Left : c \in R[m.cmd]
  BY <1>0, <1>1, LeftNames, TookLine, Commands, TookRange
<1>3. SUFFICES ASSUME quits <= 1 PROVE Ends'
  BY <1>1 DEF Ends
<1>4. CASE Unexpected(m)
  <2>1. state' = state /\ toDevice' = toDevice
    BY <1>4 DEF Unexpected, loader, bootstate
  <2>2. Requests' = Requests
    BY <2>1 DEF Requests
  <2>3. Settled' => Settled
    BY <1>2, <2>1, <2>2 DEF Settled
  <2> QED BY <1>1, <1>2, <2>2, <2>3, EndsStays
<1>5. CASE StartAcked /\ m.cmd = "BOOT_START"
  <2>1. state = "WAIT_REQ" /\ state' = "WRITE" /\ WriteNextChunk(todo, block, offset, firmwareoffs)
    BY <1>5 DEF StartAcked
  <2>2. Left \subseteq Calls \cup {"BOOT_WRITE"}
    BY <1>2, <1>3, <1>5, <2>1, Rules, Kinds DEF Shape, Orderly
  <2>3. \A x \in Requests' : x \in Requests \/ x.cmd = "BOOT_WRITE"
    <3>1. toDevice' = toDevice \/ \E d : Send(address, Write(block, offset, d))
      BY <2>1 DEF WriteNextChunk
    <3>2. ASSUME NEW d, Send(address, Write(block, offset, d))
          PROVE  \A x \in Requests' : x \in Requests \/ x.cmd = "BOOT_WRITE"
      BY <1>0, <3>2, SendRange DEF Write
    <3> QED BY <3>1, <3>2 DEF Requests
  <2>4. ~Settled'
    BY <1>2, <2>1, <2>2, <2>3, Kinds DEF Settled
  <2> QED BY <2>4, EndsNot
<1>6. CASE ChunkAcked \/ BlockAcked(m.crc)
  <2>1. state = "WRITE" /\ state' = "WRITE"
    BY <1>6 DEF ChunkAcked, BlockAcked
  <2>2. \A x \in Requests : x.cmd # "BOOT_FINISH"
    BY <1>0, <1>3, <2>1, NotChecked
  <2>3. \A x \in Requests' : x \in Requests \/ x.cmd = "BOOT_WRITE"
    <3>1. toDevice' = toDevice \/ \E b, o, d : Send(address, Write(b, o, d))
      BY <1>6 DEF ChunkAcked, BlockAcked, WriteNextChunk
    <3>2. ASSUME NEW b, NEW o, NEW d, Send(address, Write(b, o, d))
          PROVE  \A x \in Requests' : x \in Requests \/ x.cmd = "BOOT_WRITE"
      BY <1>0, <3>2, SendRange DEF Write
    <3> QED BY <3>1, <3>2 DEF Requests
  <2>4. ~Settled'
    BY <2>1, <2>2, <2>3 DEF Settled
  <2> QED BY <2>4, EndsNot
<1>7. CASE LastAcked
  <2>1. state = "WRITE" /\ Send(address, Check(filefw.size))
    BY <1>7 DEF LastAcked
  <2>2. \A x \in Requests \cup Answers : x.cmd # "BOOT_CHECK" /\ x.cmd # "BOOT_FINISH"
    BY <1>0, <1>3, <2>1, NotChecked
  <2>3. \A x \in Requests' : x \in Requests \/ x.cmd = "BOOT_CHECK"
    BY <1>0, <2>1, SendRange DEF Check
  <2>4. ~Settled'
    BY <1>2, <2>2, <2>3 DEF Settled
  <2> QED BY <2>4, EndsNot
<1>8. CASE m.cmd = "BOOT_CHECK" /\ CheckAcked(m.crc) /\ LoadDone
  <2>1. /\ state = "CHECK" /\ filefw = ImageFile
        /\ IF m.crc = FileCrc THEN Send(address, Finish(FileCrc, filefw.size))
                              ELSE UNCHANGED toDevice
    BY <1>1, <1>8 DEF CheckAcked, Upload, FileOK
  <2>2. CASE m.crc = FileCrc
    <3>1. Settled
      BY <1>2, <1>8, <2>1, <2>2, KnownFrames DEF Settled
    <3>2. \A x \in Requests' : x \in Requests \/ x.cmd # "BOOT_WRITE"
      BY <1>0, <2>1, <2>2, SendRange DEF Finish
    <3> QED BY <1>1, <1>2, <3>1, <3>2, EndsStays
  <2>3. CASE m.crc # FileCrc
    <3>1. Requests' = Requests /\ state' = "WAIT_REQ"
      BY <1>8, <2>1, <2>3 DEF Requests, LoadDone, InitBootstate
    <3>2. ~Settled'
      BY <1>0, <1>3, <2>1, <3>1, NoFinish DEF Settled
    <3> QED BY <3>2, EndsNot
  <2> QED BY <2>2, <2>3
<1> QED BY <1>1, <1>4, <1>5, <1>6, <1>7, <1>8 DEF Answer

LEMMA EndsLoader == ASSUME TypeOK, Shape, Upload, Ends, Loader PROVE Ends'
<1>0. FramesOK /\ LoaderOK /\ FileOK /\ toDevice \in Seq(ToDevice)
  BY DEF TypeOK, FramesOK, Upload
<1>1. CASE StartMotor \/ GiveUp
  <2>1. UNCHANGED <<flash, pagebuffer, quits, resets, hasty, state, toLoader, toDevice>>
    BY <1>1 DEF StartMotor, GiveUp, device, ram, bounds, bootstate
  <2>2. Settled' => Settled
    BY <2>1 DEF Settled, Requests, Answers
  <2>3. Requests' = Requests
    BY <2>1 DEF Requests
  <2> QED BY <2>1, <2>2, <2>3, EndsStays
<1>2. CASE PrepareSend \/ LoadMotor
  <2>1. /\ UNCHANGED <<flash, pagebuffer, quits, resets, hasty, state, toLoader>>
        /\ Send(address, Info) \/ Send(Motor, Start)
    BY <1>2 DEF PrepareSend, Ask, LoadMotor, StartLoad, device, ram, bounds, loader, bootstate
  <2>2. \A x \in Requests' : x \in Requests \/ x.cmd \in Calls
    <3>1. Info.cmd \in Calls /\ Start.cmd \in Calls
      BY DEF Info, Start, Calls
    <3>2. CASE Send(address, Info)
      BY <1>0, <3>1, <3>2, SendRange
    <3>3. CASE Send(Motor, Start)
      BY <1>0, <3>1, <3>3, SendRange
    <3> QED BY <2>1, <3>2, <3>3
  <2>3. Answers' = Answers
    BY <2>1 DEF Answers
  <2>4. Settled' => Settled
    BY <2>1, <2>2, <2>3, Kinds DEF Settled
  <2> QED BY <2>1, <2>2, <2>4, Kinds, EndsStays
<1>3. CASE PrepareReceive
  <2>1. /\ UNCHANGED <<flash, pagebuffer, quits, resets, hasty, state, toDevice>>
        /\ toLoader # <<>> /\ toLoader' = Tail(toLoader)
    BY <1>3 DEF PrepareReceive, device, ram, bounds
  <2>2. Requests' = Requests /\ Answers' \subseteq Answers
    BY <1>0, <2>1, TookRange DEF Requests
  <2>3. Settled' => Settled
    BY <2>1, <2>2 DEF Settled
  <2> QED BY <2>1, <2>2, <2>3, EndsStays
<1>4. CASE LoadReceive
  BY <1>4, EndsAnswer
<1>5. CASE RetryChunk
  <2>1. /\ toLoader = <<>> /\ toLoader' = <<>> /\ hasty' = (hasty \/ ~Quiet)
        /\ UNCHANGED <<flash, pagebuffer, quits, resets, state>>
    BY <1>5 DEF RetryChunk, device, ram
  <2>2. CASE offset > 0
    <3>1. PICK x : Send(address, x) /\ Again(x)
      BY <1>0, <1>5, <2>2, RetrySends
    <3>2. Requests' \subseteq Requests \cup {x} /\ x.cmd = "BOOT_WRITE"
      BY <1>0, <3>1, SendRange DEF Again, Write
    <3>3. state # "WAIT_REQ"
      BY <1>0, <2>2 DEF LoaderOK
    <3>4. Answers' = {}
      BY <2>1 DEF Answers
    <3>5. quits <= 1 => ~Settled'
      BY <1>0, <3>2, <3>3, <3>4, NoFinish DEF Settled
    <3> QED BY <2>1, <3>5 DEF Ends
  <2>3. CASE ~(offset > 0)
    <3>1. toDevice' = toDevice
      BY <1>5, <2>3 DEF RetryChunk
    <3>2. Requests' = Requests /\ Answers' = Answers
      BY <2>1, <3>1 DEF Requests, Answers
    <3>3. Settled' => Settled
      BY <2>1, <3>2 DEF Settled
    <3> QED BY <2>1, <3>2, <3>3, EndsStays
  <2> QED BY <2>2, <2>3
<1> QED BY <1>1, <1>2, <1>3, <1>4, <1>5 DEF Loader

LEMMA EndsNext == TypeOK /\ Shape /\ Upload /\ Trail' /\ Ends /\ [Next]_vars => Ends'
<1> SUFFICES ASSUME TypeOK, Shape, Upload, Trail', Ends, [Next]_vars PROVE Ends'
  OBVIOUS
<1>0. FramesOK /\ LoaderOK /\ quits \in Nat
  BY Numbers DEF TypeOK, CountsOK
<1>1. CASE DeviceReceive
  <2> DEFINE m == Head(toDevice)
  <2>1. /\ toDevice # <<>> /\ toDevice' = Tail(toDevice)
        /\ UNCHANGED <<state, quits, resets, hasty>>
        /\ HandleStart(m) \/ HandleWrite(m) \/ HandleCheck(m) \/ HandleFinish(m)
    BY <1>1 DEF DeviceReceive, loader, bootstate, bounds
  <2>2. CASE HandleWrite(m)
    BY <1>1, <2>2, EndsWrite
  <2>3. CASE HandleCheck(m)
    BY <1>1, <2>3, EndsCheck
  <2>4. CASE HandleStart(m) \/ HandleFinish(m)
    <3>1. UNCHANGED <<flash, pagebuffer>> /\ m.cmd # "BOOT_CHECK"
      BY <2>4 DEF HandleStart, HandleFinish
    <3>2. Requests' \subseteq Requests
      BY <1>0, <2>1, HandledRange
    <3>3. \A a \in Answers' : a \in Answers \/ a.cmd = m.cmd
      BY <1>0, <1>1, ReplyAnswers
    <3>4. Settled' => Settled
      BY <2>1, <3>1, <3>2, <3>3 DEF Settled
    <3> QED BY <2>1, <3>1, <3>2, <3>4, EndsStays
  <2> QED BY <2>1, <2>2, <2>3, <2>4
<1>2. ASSUME UNCHANGED <<flash, pagebuffer, quits, resets, hasty>>,
             state' = state \/ Answers' = {}, Answers' \subseteq Answers, Requests' \subseteq Requests
      PROVE  Ends'
  <2>1. Settled' => Settled
    BY <1>2 DEF Settled
  <2> QED BY <1>2, <2>1, EndsStays
<1>3. CASE DeviceTimeout \/ UNCHANGED vars
  BY <1>2, <1>3 DEF DeviceTimeout, vars, loader, bootstate, device, ram, bounds, Requests, Answers
<1>4. CASE ApplicationIgnores
  <2>1. Requests' \subseteq Requests
    BY <1>0, <1>4, HandledRange DEF ApplicationIgnores
  <2> QED BY <1>2, <1>4, <2>1
          DEF ApplicationIgnores, loader, bootstate, device, ram, bounds, Answers
<1>5. CASE LoseFrame
  <2>1. UNCHANGED <<flash, pagebuffer, quits, resets, hasty, state>>
    BY <1>5 DEF LoseFrame, loader, bootstate, device, ram
  <2>2. CASE toDevice # <<>> /\ toDevice' = Tail(toDevice) /\ toLoader' = toLoader
    BY <1>0, <1>2, <2>1, <2>2, HandledRange DEF Answers
  <2>3. CASE toLoader # <<>> /\ toLoader' = Tail(toLoader) /\ toDevice' = toDevice
    BY <1>0, <1>2, <2>1, <2>3, TookRange DEF Requests
  <2> QED BY <1>5, <2>2, <2>3 DEF LoseFrame
<1>6. CASE Quit
  <2>1. /\ quits' = quits + 1 /\ toLoader' = <<>> /\ toDevice' = toDevice /\ state' = "WAIT_REQ"
        /\ UNCHANGED <<flash, pagebuffer, resets, hasty>>
    BY <1>6 DEF Quit, InitBootstate, device, ram
  <2> SUFFICES ASSUME quits' <= 1, ~hasty' \/ resets' = 0, Settled' PROVE FlashIsImage' /\ Harmless'
    BY DEF Ends
  <2>2. Requests' = Requests
    BY <2>1 DEF Requests
  <2>3. Settled
    BY <2>1, <2>2 DEF Settled
  <2>4. quits <= 1 /\ (~hasty \/ resets = 0)
    BY <1>0, <2>1
  <2>5. FlashIsImage /\ Harmless
    BY <2>3, <2>4 DEF Ends
  <2> QED BY <2>1, <2>2, <2>5 DEF FlashIsImage, AppCrc, Harmless
<1>7. CASE Reset \/ CrashInWrite \/ CrashInFinish
  <2>1. UNCHANGED <<state, quits, hasty, toLoader>> /\ resets' = resets + 1
    BY <1>7 DEF Reset, CrashInWrite, CrashInFinish, ResetWith, loader, bootstate
  <2>2. Shorter
    BY <1>0, <1>7, ShorterTail, ShorterSuffix DEF Reset, CrashInWrite, CrashInFinish
  <2>3. flash' = flash \/ (toDevice # <<>> /\ Head(toDevice).cmd = "BOOT_WRITE")
    BY <1>7 DEF Reset, CrashInWrite, CrashInFinish, ResetWith
  <2> QED BY <2>1, <2>2, <2>3, EndsReset
<1> QED BY <1>1, <1>3, <1>4, <1>5, <1>6, <1>7, EndsLoader DEF Next, Device, Environment

-----------------------------------------------------------------------------
(* The block in EEPROM, and the firmware that is started                   *)

Stored ==
    quits <= 1 /\ (~hasty \/ resets = 0) /\ eeprom # Invalid /\ ~dirty => Holds(eeprom)

Started == quits <= 1 /\ resets = 0 /\ running = "application" => Holds(fwinfo)

\* BOOT_FINISH describes the flash.
LEMMA FinishTrue ==
    ASSUME Upload, Ends, quits <= 1, ~hasty \/ resets = 0, DeviceReceive, HandleFinish(Head(toDevice))
    PROVE  eeprom' = fwinfo' /\ Holds(eeprom)' /\ Holds(fwinfo)'
<1>1. toDevice # <<>> /\ toDevice \in Seq(Known) /\ Head(toDevice).cmd = "BOOT_FINISH"
  BY DEF DeviceReceive, HandleFinish, Upload
<1>2. Head(toDevice) \in Known /\ Head(toDevice) \in Requests
  BY <1>1, HeadTailProperties, TailRange DEF Requests
<1>3. Head(toDevice) = Finish(Image, Pages)
  BY <1>1, <1>2 DEF Known
<1>4. FlashIsImage
  BY <1>1, <1>2 DEF Ends, Settled
<1>5. fwinfo' = [crc |-> Image, size |-> Pages] /\ eeprom' = fwinfo' /\ flash' = flash
  BY <1>3 DEF HandleFinish, Finish
<1>6. AppCrc(flash', fwinfo'.size) = fwinfo'.crc
  BY <1>4, <1>5 DEF FlashIsImage
<1> QED BY <1>5, <1>6 DEF Holds, AppCrc

LEMMA StoredNext == TypeOK /\ Upload /\ Ends /\ Stored /\ [Next]_vars => Stored'
<1> SUFFICES ASSUME TypeOK, Upload, Ends, Stored, [Next]_vars PROVE Stored'
  OBVIOUS
<1>0. quits \in Nat /\ resets \in Nat
  BY Numbers DEF TypeOK, CountsOK
<1>1. ASSUME UNCHANGED <<flash, eeprom, dirty>>, quits' = quits \/ quits' = quits + 1,
             resets' = resets \/ resets' = resets + 1, ~hasty' => ~hasty
      PROVE  Stored'
  <2> SUFFICES ASSUME quits' <= 1, ~hasty' \/ resets' = 0, eeprom # Invalid, ~dirty' PROVE Holds(eeprom)'
    BY <1>1 DEF Stored
  <2>1. quits <= 1 /\ (~hasty \/ resets = 0) /\ ~dirty
    BY <1>0, <1>1
  <2>2. AppCrc(flash, eeprom.size) = eeprom.crc
    BY <2>1 DEF Stored, Holds
  <2> QED BY <1>1, <2>2 DEF Holds, AppCrc
<1>2. CASE Loader
  <2>1. UNCHANGED <<flash, eeprom, dirty>>
    BY <1>2, LoaderNext DEF TypeOK, device
  <2>2. UNCHANGED <<quits, resets>>
    BY <1>2 DEF Loader, StartMotor, PrepareSend, Ask, PrepareReceive, LoadMotor, LoadReceive,
                RetryChunk, GiveUp, bounds
  <2>3. CASE RetryChunk
    <3>1. hasty' = (hasty \/ ~Quiet)
      BY <2>3 DEF RetryChunk
    <3>2. hasty \in BOOLEAN
      BY DEF TypeOK, CountsOK
    <3>3. ~hasty' => ~hasty
      BY <3>1, <3>2
    <3> QED BY <1>1, <2>1, <2>2, <3>3
  <2>4. CASE StartMotor \/ PrepareSend \/ PrepareReceive \/ LoadMotor \/ LoadReceive \/ GiveUp
    <3>1. hasty' = hasty
      BY <2>4 DEF StartMotor, PrepareSend, Ask, PrepareReceive, LoadMotor, LoadReceive, GiveUp, bounds
    <3>2. ~hasty' => ~hasty
      BY <3>1
    <3> QED BY <1>1, <2>1, <2>2, <3>2
  <2> QED BY <1>2, <2>3, <2>4 DEF Loader
<1>3. CASE DeviceReceive
  <2> DEFINE m == Head(toDevice)
  <2>1. /\ UNCHANGED <<quits, resets, hasty>>
        /\ HandleStart(m) \/ HandleWrite(m) \/ HandleCheck(m) \/ HandleFinish(m)
    BY <1>3 DEF DeviceReceive, bounds
  <2>2. CASE HandleStart(m) \/ HandleCheck(m)
    <3>1. ~hasty' => ~hasty
      BY <2>1
    <3>2. UNCHANGED <<flash, eeprom, dirty>>
      BY <2>2 DEF HandleStart, HandleCheck
    <3> QED BY <1>1, <2>1, <3>1, <3>2
  <2>3. CASE HandleWrite(m)
    <3>1. eeprom' = eeprom /\ ((flash' = flash /\ dirty' = dirty) \/ dirty' = TRUE)
      BY <2>3 DEF HandleWrite
    <3>2. ~hasty' => ~hasty
      BY <2>1
    <3>3. CASE flash' = flash /\ dirty' = dirty
      BY <1>1, <2>1, <3>1, <3>2, <3>3
    <3>4. CASE dirty' = TRUE
      BY <3>4 DEF Stored
    <3> QED BY <3>1, <3>3, <3>4
  <2>4. CASE HandleFinish(m)
    <3>1. quits <= 1 /\ (~hasty \/ resets = 0) => Holds(eeprom)'
      BY <1>3, <2>4, FinishTrue
    <3> QED BY <2>1, <3>1 DEF Stored
  <2> QED BY <2>1, <2>2, <2>3, <2>4
<1>4. CASE DeviceTimeout
  BY <1>1, <1>4 DEF DeviceTimeout, bounds
<1>5. CASE Quit \/ ApplicationIgnores \/ LoseFrame
  BY <1>1, <1>5 DEF Quit, ApplicationIgnores, LoseFrame, device, bounds
<1>6. CASE Reset
  BY <1>1, <1>6 DEF Reset, ResetWith
<1>7. CASE CrashInWrite
  BY <1>7 DEF CrashInWrite, Stored
<1>8. CASE CrashInFinish
  BY <1>8 DEF CrashInFinish, ResetWith, Stored
<1>9. CASE UNCHANGED vars
  BY <1>1, <1>9 DEF vars, device, bounds
<1> QED BY <1>2, <1>3, <1>4, <1>5, <1>6, <1>7, <1>8, <1>9 DEF Next, Device, Environment

LEMMA StartedNext ==
    TypeOK /\ Untouched /\ Upload /\ Ends /\ Started /\ [Next]_vars => Started'
<1> SUFFICES ASSUME TypeOK, Untouched, Upload, Ends, Started, [Next]_vars,
                    quits' <= 1, resets' = 0, running' = "application"
             PROVE  Holds(fwinfo)'
  BY DEF Started
<1>0. quits \in Nat /\ resets \in Nat
  BY Numbers DEF TypeOK, CountsOK
<1>1. ASSUME UNCHANGED <<flash, fwinfo, running>>, quits' = quits \/ quits' = quits + 1, resets' = resets
      PROVE  Holds(fwinfo)'
  <2>1. Holds(fwinfo)
    BY <1>0, <1>1 DEF Started
  <2> QED BY <1>1, <2>1 DEF Holds, AppCrc
<1>2. CASE Loader
  <2>1. UNCHANGED <<flash, fwinfo, running>>
    BY <1>2, LoaderNext DEF TypeOK, device, ram
  <2>2. UNCHANGED <<quits, resets>>
    BY <1>2 DEF Loader, StartMotor, PrepareSend, Ask, PrepareReceive, LoadMotor, LoadReceive,
                RetryChunk, GiveUp, bounds
  <2> QED BY <1>1, <2>1, <2>2
<1>3. CASE DeviceReceive
  <2> DEFINE m == Head(toDevice)
  <2>1. /\ UNCHANGED <<quits, resets, hasty>> /\ running = "bootloader"
        /\ HandleStart(m) \/ HandleWrite(m) \/ HandleCheck(m) \/ HandleFinish(m)
    BY <1>3 DEF DeviceReceive, bounds
  <2>2. HandleFinish(m)
    BY <2>1 DEF HandleStart, HandleWrite, HandleCheck
  <2> QED BY <1>3, <2>1, <2>2, FinishTrue
<1>4. CASE DeviceTimeout
  <2>1. /\ UNCHANGED <<flash, fwinfo>> /\ resets = 0 /\ ~bootloading /\ crcapp = fwinfo.crc
    BY <1>4 DEF DeviceTimeout, bounds
  <2>2. AppCrc(flash, fwinfo.size) = fwinfo.crc
    BY <2>1 DEF Untouched
  <2> QED BY <2>1, <2>2 DEF Holds, AppCrc
<1>5. CASE Quit \/ ApplicationIgnores \/ LoseFrame
  BY <1>1, <1>5 DEF Quit, ApplicationIgnores, LoseFrame, device, ram, bounds
<1>6. CASE Reset \/ CrashInWrite \/ CrashInFinish
  <2>1. resets' = resets + 1
    BY <1>6 DEF Reset, CrashInWrite, CrashInFinish, ResetWith
  <2> QED BY <1>0, <2>1
<1>7. CASE UNCHANGED vars
  BY <1>1, <1>7 DEF vars, device, ram, bounds
<1> QED BY <1>2, <1>3, <1>4, <1>5, <1>6, <1>7 DEF Next, Device, Environment

LEMMA StoredInit == Init => Trail /\ Ends /\ Stored /\ Started
<1> SUFFICES ASSUME Init PROVE Trail /\ Ends /\ Stored /\ Started
  OBVIOUS
<1>1. Requests = {} /\ Answers = {} /\ state = "WAIT_REQ" /\ running = "bootloader"
  BY DEF Init, Requests, Answers
<1>2. Trail /\ Ends /\ Started
  BY <1>1 DEF Trail, Ends, Settled, Started
<1>3. Stored
  <2> SUFFICES ASSUME eeprom # Invalid PROVE Holds(eeprom)
    BY DEF Stored
  <2>1. eeprom = [crc |-> OldImage, size |-> Len(OldImage)]
    BY DEF Init
  <2>2. /\ OldImage \in Seq(Page) /\ Len(OldImage) \in Nat /\ Len(OldImage) <= FlashPages
    BY BootloadAssumption
  <2>3. \A p \in 1 .. Len(OldImage) : flash[p - 1] = OldImage[p]
    <3>1. \A p \in 1 .. Len(OldImage) :
             p - 1 \in PageNo /\ p - 1 < Len(OldImage) /\ (p - 1) + 1 = p
      BY <2>2, Numbers DEF PageNo
    <3> QED BY <3>1 DEF Init
  <2>4. OldImage = [p \in 1 .. Len(OldImage) |-> OldImage[p]]
    BY <2>2
  <2>5. AppCrc(flash, Len(OldImage)) = OldImage
    BY <2>3, <2>4 DEF AppCrc
  <2> QED BY <2>1, <2>5 DEF Holds
<1> QED BY <1>2, <1>3

(* The firmware block in EEPROM tells the truth until a page is flashed,   *)
(* for any image, number of losses, retries, resets and loads: when the    *)
(* device has sent the CRC of the image, what is still on its way to it    *)
(* can only write the last page once more as it is.                        *)
THEOREM BootloadStored == Spec => []StoredIsTrue
<1>1. TypeOK /\ Stored => StoredIsTrue
  <2>1. resets \in Nat /\ ~(resets > 0) => resets = 0
    BY Numbers
  <2> QED BY <2>1 DEF Stored, StoredIsTrue, TypeOK, CountsOK
<1> QED BY <1>1, TypeInit, TypeNext, ShapeInit, ShapeNext, UploadInit, UploadNext,
           StoredInit, TrailNext, EndsNext, StoredNext, PTL DEF Spec

(* The bootloader jumps only to an application that is what its firmware   *)
(* block says, and it stays so: from BOOT_FINISH by the argument above,    *)
(* when its time runs out because no page is flashed before a frame has    *)
(* made it stay in bootload mode.                                          *)
THEOREM BootloadValid == Spec => []ValidUnlessReset
<1>1. Started => ValidUnlessReset
  BY DEF Started, ValidUnlessReset, ApplicationValid
<1> QED BY <1>1, TypeInit, TypeNext, ShapeInit, ShapeNext, UploadInit, UploadNext,
           UntouchedInit, UntouchedNext, StoredInit, TrailNext, EndsNext, StartedNext, PTL DEF Spec

=============================================================================
