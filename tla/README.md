# Verification of the Sparta Ion replacement firmware

The repository holds the firmware and tools of a do-it-yourself controller for
an electric bicycle: a motor controller and a battery controller on 8-bit AVR
processors, a display, and a one-wire bus between them; a bootloader for the
controllers and a PC program that uploads firmware through it.  This directory
holds TLA+ models of its protocols, TLC runs that check them on small
instances, and TLAPS proofs.

A line that begins with `\* Slip:` introduces a variant of the definition after
it with one plausible programming mistake in it.  Nothing uses these variants in
the specifications; each of them stands for a change of the code that a property
must not survive, and `PROJECT.json` ("mutants") says which.

## Inventory

| Part | State | Operations | Interacts with | Hard parts | Correct when |
|---|---|---|---|---|---|
| **Byte fifo** `lib/network/fifo.c` | head, tail, free, buffer | put, putc, get, peek, clear | interrupts and main loop share one fifo | tests are outside the atomic blocks | counters agree, no byte is lost, made up or reordered |
| **Bootloader port** `bootloader/uarthw.c` | two fifos, `transmitting`, shift register | RXC and TXC interrupts, `uart1_writestart` | fifo, message framing | hand-over of the transmitter between interrupt and main loop | no lost wake-up, one writer of the register |
| **Framing** `lib/network/message.c` | the fifo, a message being read | append, count, parse | fifo, bootloader, loader | lost, spoiled and cut frames, resynchronisation, a full fifo | whole messages are handled, garbage is got rid of |
| **Bootloader** `bootloader/ionblapp.c` | flash, EEPROM block, page buffer, `fwinfo`, `crcapp`, `bootloading` | INFO, START, WRITE, CHECK, FINISH, timeout | loader over the bus, EEPROM | power failure in a write, resets in an upload | it runs only an application that is whole |
| **Loader** `ionapps/ionloader.c` | `bootstate`, image, command line | its commands, four loops, answers, retry | bootloader over the bus | lost, late and repeated answers; giving up; commands typed into a loop run inside it | the device ends with the image; every loop returns |
| **Hex files** `lib/network/file.c` | the image in memory | `hexfile_process` | loader | lines that cannot be read, what an earlier file left | the image is what the file says up to a line that cannot be read |
| **One-wire bus** `lib_ion/bowbus.c`, `bldcdisp/uart.c` | receive and transmit buffers and states, message buffer and flag | `bus_send`, interrupts, `bus_receive`, `bus_endmessage`, `bus_check_for_message` | motor, battery, display | messages have no end mark; the main loop works on what the interrupt writes | each message is acted on once, whole, in order |
| **Messages of the bus** `bowbus.c` `bus_parse_*`, polls | motor, battery and display state | parse, poll, acknowledge | one-wire bus, menu | answers dropped while sending | state follows the last message |
| **Display menu** `bowbus.c` | button states, `func`, five settings, timeouts | `bus_display_buttonpress`, `bus_tick`, `bus_display_update` | bus, motor controller | pairs of button states, missed polls | settings stay in range, presses do one thing |
| **Motor controller** `bldcdisp/bldcdisp.c`, `adc.c` | pwm and its limits, throttle, pedal signal, status, Hall sectors | main loop, overflow interrupt | bus, menu | pwm shared with an interrupt, going off line, faults | pwm within limits; no display, no drive; a fault stops the motor for a time |
| **EEPROM blocks** `fwcommon/eeprom.c` | pages with header and CRC | write, read | bootloader, motor controller | power failure between erase and write | a block reads as it was written or not at all |
| **Battery controller** `nimhbat/*` | as the motor controller | as the motor controller | bus | | its main loop does nothing after line 307 (`continue`) |
| **Streams** `lib/network/stream.c`, PC port `lib/network/uart.c` | two fifos and a port, a pattern being looked for | read, write, putc, forward | fifo, port, `ionapp.c`, `ionloader.c` | full fifos, ports that must be started, a pattern over several calls | bytes go on in order, none stays behind, no call blocks for good |
| **Bus manager, monitor, checksums, debug helpers** | | | | linked into nothing, or system I/O | |
| **Atmel drivers** `sp_driver.S`, `eeprom_driver.c`, examples | | | | vendored | |

`PROJECT.json` lists the same parts with what is modelled of each, and under
"hazards" the places in the code where something can go wrong that a test would
hardly reach, with the properties that watch them.

## Plan

1. `Fifo`, `Uart`, `ByteLink` - the bootloader's port, its abstract
   specification, and proofs.  *Done.*
2. `Framing` - messages in frames on top of the queue of `ByteLink`.  *Done, with
   proofs.*
3. `Bootload` - the upload protocol, on frames that arrive whole or not at all.
   *Done, with proofs.*
4. `Bowbus` - the one-wire bus.  *Done, with proofs.*
5. `DisplayMenu`, `Digits` - buttons, menu, settings and time-outs, driven by
   polls that can stay unanswered; the bar it shows.  *Done, with proofs.*
6. `MotorControl`, `PwmControl` - when the motor is driven, and how hard.
   *Done, with proofs.*
7. `Loader`, `HexFile` - the loader's loops on top of `Bootload`, with commands
   typed into them, and the hex files it reads.  *Done; `HexFile` with a proof.*
8. `Streams`, `Pipe` - byte streams and what they promise.  *Done, with proofs.*
9. `EepromBlock` - erase and write with power failure at every step; to be shown
   to implement the block of `Bootload` that is whole or `Invalid`.

How they compose: `Uart` is proved to implement `ByteLink`; `Framing` uses the
bounded queue `ByteLink` promises; `Framing` shows that a frame is handled whole
or not at all and that the receiver recovers, which is what `Bootload` assumes.
`Loader` runs the handlers of `Bootload` from its own loops and takes its images
from `HexFile`; `Streams` is shown to implement `Pipe` and rests on what `Uart`
shows of a port with interrupts.
`EepromBlock` will justify the EEPROM block of `Bootload`.  `DisplayMenu`,
`MotorControl` and `PwmControl` are three views of one main loop, each with the
variables its properties need; the others reach it as any value they can have.
They share the polls of the display, which `Bowbus` carries as bytes.

## Modules

### Fifo, Uart, ByteLink

`Fifo` has the C struct as a record (`head`, `tail`, `free`, `buffer`) and each
function as an operator.  In `Uart` an interrupt handler or an atomic block is one
step; each test before an atomic block is a step of its own (`pc`):

| Steps | Code |
|---|---|
| `ReceiveInterrupt`, `TransmitInterrupt` | `USARTE0_RXC_vect`, `USARTE0_TXC_vect` |
| `ScanByte`, `ScanDone` | `messages_infifo` over `fifo_peek` |
| `FloodTest`, `ClearGarbage` | `ionblapp.c:320-325` |
| `GetTest`, `GetTake` | the `fifo_get` calls of `parse_message`, as many as it likes |
| `PutTest`, `PutStore` | the `fifo_putc` calls of `message_append_tofifo` |
| `WriteStart`, `FirstTest`, `FirstLoad` | `uart1_writestart` |

`UartProofs` holds the proofs, those about the fifo in front.

### Framing

The receiver's fifo is a bounded sequence; the sender's frame is a sequence of
bytes, escaped by `PutFramechar`; the parser is one step per `fifo_get`, with
every early return.  Noise spoils, loses or makes up bytes and cuts frames short.
The sender begins a frame when the main loop has come to rest: the loader sends
after an answer or after six reads of 20 ms, and a round of the bootloader's loop
takes 25 ms.  A CRC is right only for the messages in use.  `NetworkProofs` holds the
proofs, and that about `HexFile`.

### Bootload

Loader and device with their variables, and a channel each way.  Frames keep their
order, can be lost, and are never spoiled (their CRC sees to that).  Firmware is
counted in chunks and pages; a CRC is the contents it was computed over.  A reset
can come at any time and takes a number of frames in the channel with it; in a
flash write it leaves the page erased, in an EEPROM write the block `Invalid`.
`dirty` and `hasty` are history variables: a page was flashed since the firmware
block was written; the loader repeated a chunk while an answer was on its way.
`app_prepare_bootload` asks for the boot info at the end of every pass (`Ask`).  A pass
that hears nothing waits 60 ms, and an answer takes about 25 ms, so in `Spec` nothing is
on its way by then (`PrepareSend`); in `EagerSpec` and in `Loader` it asks again while
frames are (`PrepareAgain`, up to `MaxAsked` of them).
Commands typed while an upload runs, the button PCB, and the commands `info` and
`check` are in `Loader`.  `BootloadProofs` holds the proofs.

### Loader, HexFile

`select_term` reads the keyboard in every pass of every loop, and a line break runs
the command there and then (`term_handle_character`, `parse_userinput`): a command
that is a loop itself runs inside the one it was typed in.  `task` is the loop that
is running and `outer` the loops it suspends, `line` the text typed so far; a step
of `Command` is a line break with any command, erased before or not.  All loops work
on the one `bootstate`, hex file and receive fifo, and so do the steps: `LoadHears`
and `LoadWaits` are those of `Bootload`, `ReadPass` is a pass of `app_get_info` or
`app_get_check`, `PrepareHears` and `PrepareAsks` one of `app_prepare_bootload`,
`Return` the end of a loop.  `meddled` is a history variable: a command that may well
disturb an upload was typed in one.  What goes to the button PCB is not answered.
`HexFile` is `hexfile_process` as a recursive function over the lines, and `Reads` says
what it must give.  The text of a file is taken to fit the 65536 bytes it is read into
(`file.c:113`), which the code does not check; a file for all of the bootloader's
application flash, 57 pages in lines of 16 bytes, has about 41000 characters.

### Streams, Pipe

One program calls the functions of `stream.c` one after the other, with any
arguments; a step is a call up to the next point at which the port's interrupt
matters.  The port (`port`) has an interrupt, flushes all it has, flushes with writes
that can fail or be short (`uart_write` looks at no result, and `uart_write_start` has
emptied the fifo), or cannot be started.  A failed read stores nothing, and is no step;
a read of up to 512 bytes goes into a buffer of the size of the fifo, 512 in `ionapp.c`
and `ionloader.c`.  `found`, `matched` are the fields of `pattern_state_t`; `wire`, `seen` and
`filled` are history variables.  `Pipe` is three queues: what has arrived, what is
handed over, what has left.  `StreamsProofs` holds the proofs.

### Bowbus

One direction of the bus, byte by byte: `bus_send` and the transmit interrupt with
its escaping; the line; `bus_receive`, in the interrupt; the main loop of
`bldcdisp.c` with one step per statement that touches what the interrupt touches
(`bus_endmessage` is `EndTest`, `EndCopy`, `EndLength`, `EndCount`, `EndState`).
A tick of the main loop takes 14 ms, a byte 1 ms, a round of the main loop less
than a byte: hence at most one byte comes in between the steps of a round, and
while a message is being sent at least one byte comes between two ticks.  A gap
is the number of whole ticks between the end of a message and the start of the
next; the code polls every few ticks.  `owed` and `checked` are history variables: the
messages that went over the line and were not used yet, and the one checked last.
`BowbusProofs` holds the proofs.

### DisplayMenu, Digits

The buttons, settings and time-outs of `display_state_s`, with the steps of a tick
in the order of the main loop: `Override`, `BusTick`, and the message that came in
or `NoMessage`.  The reaction of `bus_display_buttonpress` to a report is split by
what the buttons were before (`PressBoth`, `PressTop`, `PressFront`); a report is
any set of buttons, and an answer comes only if the display was asked, possibly
late.  `NoMessage` is silence, the strain calibration and its save, and the next
poll.  `OtherMessage` is a right message that is not the display's: it takes the tick.
`fronts`, `released` and `unsaved` are history variables, the last for thresholds that
were changed and are not in the EEPROM: raised by holding a button in menu 3 (`"held"`),
which asks for a save, or set by a short press there or by holding one in menu 8
(`"set"`), which does not.  `Digits` is the bar of
`bus_display_update` as a pure function; `Characters` and `Number` read it back.

### MotorControl

The main loop of `bldcdisp.c` as it is built (`HW_CTRL_REV1`, display master,
throttle slave): one step per section of a round.  `stage` is the sector that is
switched on, named by its Hall state: `commute_forward` and `commute_backward` each
give every good Hall state a sector of its own.  Voltage, throttle and pedal signal
are arbitrary.  At a tick the display answers, or it is silent, or a right message that
is not the display's takes the tick (`OtherMessage`): then neither the silence nor the
polls are counted and the mode is not taken back, but the start-up count runs on.
`calm`, `chosen`, `foreign` and `stale` are history variables: periods since the last
fault that stops the motor, a mode chosen since, ticks that messages of others have
taken since while the old mode stood, and rounds begun without display or mode.  Brake and cruise are left out: in this build nothing sets
`use_brake` or `throttle_cruise`.

### PwmControl

`pwm` with its two bytes: each assignment of the main loop (`Write`) ends in the new
value or in what `TCD0_OVF_vect` makes of it when it comes between the bytes
(`Interrupted`).  The first round can apply it twice, the second time as estimated for a
wheel that has not turned (`JustStarted`).  A section of the loop leaves the calls of `pwm_more` and
`pwm_less` it makes in `calls`, and each call is a step of its own.  The pedal signal
is kept as in the code, its sensor is arbitrary.

## Runs

| Run | What it shows | Bounds |
|---|---|---|
| `uart` | `FifosConsistent`, `TestStaysTrue`, `NoLostWakeup`, `FoundIsThere`; that the port implements `ByteLink` (`LinkSpec`); `QueuedBytesLeave`, `FloodEnds` | fifos of 3, replies up to 2 bytes, two byte values: every wrap-around and both limits of a fifo are reached; the theorems cover all sizes |
| `framing` | `TypeOK` (the other modules' type invariants are theorems); `AllHandled` without noise; `Recovers`, `NeverJams` with it | fifo of 17, frames of 8 and 10 (in the code 128, and 76 for a plain chunk), two bytes of noise, four messages in a row: enough to fill the fifo with remains of several frames. |
| `framing_chunk` | violated: a chunk of 0xFF is never received | the code's own numbers |
| `bootload` | `ValidUnlessReset`, `StoredIsTrue`, `VerifiedIsFlashed` | pages of 2 chunks, image of 2 pages whose ends are alike, two uploads, one killed loader, two lost frames, two resets, three retries, boot infos asked for with up to three frames on their way (`EagerSpec`) |
| `loader` | `LoopsReturn`, `UploadSurvives`, `StoredIsTrue`, `HexReads` | one upload to a device with 2 pages, three commands typed into any pass, three lost BOOT_WRITE frames or answers (commands and losses together four), as many retries as there are troubles; two passes of `info` and `check` (10): loops three deep and an answer dropped by a command at every chunk; boot infos asked for with up to two frames on their way; all files of up to three lines of up to two bytes |
| `bootload_stale` | violated: an application that does not match the firmware block is run | one reset |
| `bowbus` | `InOrder`, `MessageUsed` (two ticks, no noise); `UsedWasChecked`, `UsedWasSent` (one tick, no noise); `Recovers` (two ticks, noise) | two messages of four bytes with a 0x10 inside and at the end, a buffer of five (128) that noise fills, three bytes of noise |
| `streams` | `FoundWasThere`, `NothingStranded`; that streams implement `Pipe` (`PipeSpec`); `CallsReturn` | four kinds of port, fifos of 2, five bytes, the pattern a b a: full fifos, a pattern that overlaps itself and one cut by calls; the theorems cover all sizes |
| `menu` | `LegalOnPurpose`, `LightOnce`, `OverrideUnlocked`, `BarReads`, `MenuCloses` | all times shortened in the same order (0, 1, 2, 3 ticks for 30, 50, 100, 200), settings of one or two values, so that a setting wraps around and two presses in menu 4 do what four do; the bar for 14 currents and 11 thresholds around every power of ten |
| `menu_override` | violated: the throttle from the menu without a button pressed | the same |
| `motor` | `SectorFollowsHall`, `DriveStops`, `ChosenBeforeDrive`, `CalmBeforeDrive`, `FaultsClear` | two Hall states and a bad one, 5 periods of 2 ticks until faults are forgotten (in the code 9 of 16), so that two ticks are to spare for messages of others (in the code 122); off line at the third silent tick (the 51st) |
| `pwm` | `AppliedInLimits`, `LessNeverRaises`, `PedalEnds` | a byte of 4 values, limits 2 and 9, so that `pwm` crosses between high bytes; settings that put the limit at 4, 8 and 9 |

`CHECK_DEADLOCK FALSE` in `bootload`, `bootload_stale`, `loader` and `streams`: loader and device stop when the bounds on uploads, losses, resets and
commands are used up, and nobody is obliged to call a stream again.

**Fairness.**  `Uart`, `Framing`, `Bowbus`: the main loop is an endless loop that
never waits on anything (weak fairness of its steps together), and a USART that
shifts a byte finishes it (weak fairness of the interrupt or of the arrival of the
next byte).  Nobody is obliged to send.  `Loader`: loader and device poll in endless loops, so each
goes on when it has a frame to handle, the loader's wait for an answer ends in a retry
or in giving up, and nobody is obliged to type.  There the loader retries only when no
answer is on its way and only BOOT_WRITE frames are lost: a lost BOOT_START or
BOOT_CHECK is never sent again by `ionloader.c`, and the upload then ends unfinished.
`Streams`: a call goes on (weak fairness of `Work`) and the transmit interrupt comes
as long as it is switched on.  `DisplayMenu`: the main loop goes on, and messages that are
not for it do not fill every tick (strong fairness of `NoMessage`: a poll is sent
every other silent tick, and the bus is slower than that).  `MotorControl`: the loop
goes on, and so does the timer that makes a tick (strong fairness of `Tick`).
`PwmControl`: the control loop runs again and again (strong fairness of a `Throttle`
that runs it): it waits for the same 14 ms as the tick and is tested first, so that only
a timer that always crosses its mark between the two tests would keep it out.

## Findings

* **A chunk that cannot be uploaded** (`framing_chunk`).  64 bytes of 0xF8 and
  above become a frame of about 140 bytes; the bootloader parses a frame only when
  it is whole in a fifo of 128.
* **A broken application is run** (`bootload_stale`).  `crcapp` is computed at
  start-up only, and BOOT_WRITE does not keep the bootloader from timing out.
* **Throttle with no button pressed** (`menu_override`).  After the light was
  switched, the menu waits for all buttons to be released and drops every report
  until then, without the reset of `menu_downcnt`.  A button held down in the
  meantime leaves its count, above 30 once it is released; with the legal limits
  off, `throttle_override` then goes up to 100 and stays until the next press.

Seen while modelling or in other instances, and the reason for conditions in the
properties:

* A menu can stay open for good with no button pressed, although `bowbus.c:487` says it goes
  back "when no buttons are pressed": the count of `menu_override`, above 100 once the
  button is released, keeps `bus_tick` from closing it until the next press, and in menu 3
  the threshold goes on rising meanwhile.  Hence the condition on the count in `Resting`:
  with `buttonState = {}` alone TLC finds `MenuCloses` violated.
* A strain threshold need not be saved: a short press in menu 3 raises it and a long one
  in menu 8 resets it, neither sets `flagsave` (`bldcdisp.c:1452-1469`), and the new one is
  lost with the power unless a button is held in menu 3 as well.  Hence `MenuCloses` speaks
  of thresholds raised by holding a button; with `unsaved = {}` TLC finds it violated.
* A frame can be cleared as garbage: its end arrives between the scan for a whole
  message and the test for a full fifo (`ionblapp.c:321-323`), and `fifo_clear` throws
  the whole frame away.  It is one reason why `Recovers` speaks of three messages.
* `StoredIsTrue` needs its exception: a chunk repeated while its answer is on the
  way can trail behind BOOT_CHECK, be flashed again while BOOT_FINISH is on its way,
  and lose power in that.
* An early retry and a loss together can end an upload: a late second answer to one
  chunk passes for the answer to the next, lost one; the CRC of the page does not
  show it when only padding is missing.  The CRC of the whole then differs, and the
  loader stops without a word to the device.
* A parse error in the middle of a frame has eaten the start of the next frame, and
  a frame accepted without its end takes the whole next frame with it
  (`message.c:149` says the fifo is cleared until a new start is found); hence
  `Recovers` speaks of three messages.
* A stray 0x10 on an idle one-wire bus leaves `bus_receive` in ESCAPING with an empty
  buffer, which `bus_endmessage` does not reset: a message can be lost to it.  A
  buffer that noise has filled to its 128 bytes stays full until a message begins, for
  `bus_endmessage` does not reset it either.
* `bus_isbusy` returns true when `tx_state` is NET_STATE_WAITING, that is when the
  bus is not busy (`bowbus.c:434` says the opposite); nothing calls it.
* `ChosenBeforeDrive` needs faults to be kept for longer than a round of polls: the
  mode is taken back only at the fourth silent tick, and a right message that is not the
  display's takes a tick from the polls and not from the start-up count.  A round of
  polls is six ticks at most; what the start-up time has beyond that is `Spare`, in the
  code (9 - 1) * 16 - 6 = 122 ticks.  If more ticks than that go to messages of others
  within the 144 of the start-up time, the motor starts in the old mode: TLC finds it when
  the property allows one such tick more.  A bus with the code's own devices is far from
  it.
* The overflow interrupt can make `pwm` jump by up to 35 when it comes between the
  bytes of 256, say (255 becomes 256: it sees 0 and writes 35, and then the high
  byte comes).  The clamp at the top of the loop, `Clamp`, keeps that from
  exceeding the limits at the timer.
* `power_av` is the product of a signed and an unsigned number: it is wrong for
  currents below zero (`bldcdisp.c:1529`).
* Commands typed into an upload (the reason for `meddled`): `loadmotor` or `motorhex`
  again sets the number of chunks to do back in mid-upload ("Only open the hexfile.",
  `ionloader.c:115`), and chunks behind the image follow; `startmotor` leaves the
  address at 3, so that the rest goes to the button PCB; `check` ends the upload; Enter
  alone runs the command again that the upload itself was started with, because the
  line is cleared only when it returns; `info` or `fifoclear` right after `loadmotor` can drop
  the answer to BOOT_START, which is never sent again.  After a nested upload has ended,
  the outer one is left with nothing to do, and a later `loadmotor` does nothing until
  the program is started again.  Retries used up by an upload that was given up stay
  used up.
* A line that cannot be read ends a hex file without a word: `hexfile_process` always
  returns 1 and "Invalid hex file." is dead code.  A line that is too long counts the
  bytes of the line before once more, extended addresses are taken as data, and a
  file of whole pages is rounded up by one more.
* The matcher of `stream.c` starts over without looking at the byte again: it misses
  "ab" in "aab", against the comment at `stream.c:225`; hence `FoundWasThere` says
  only that what is found was there.  `stream_putc` into a full fifo starts the port
  before it puts its byte, and with a port that flushes the byte stays ("Write a single
  byte out.", `stream.c:164`): the reason for `filled`.  Without `write_start` it
  returns false with the byte queued, and forwarding loses the byte in hand.
* A killed loader leaves its frames on the way: its BOOT_START is answered, and the
  answer passes for that to the BOOT_START of the next one, which then sends a chunk
  before the device has come to its own.  One killed loader does no harm.  With two TLC
  finds a block left behind that is not in flash (`VerifiedIsFlashed` without its
  condition on `quits`), with three a firmware block that is not true (`StoredIsTrue`):
  each answer passes for that to a later frame.  Hence `quits <= 1` in these properties.
* A press of both buttons in which the front one is seen first counts as a press of
  the front button as well (`bowbus.c:536`).

## Proofs

Two assumptions that hold of every theorem: the models are those described above, and the
constants satisfy the `ASSUME` of their module, which TLC evaluates in the runs.

`UartProofs` begins with the fifo: for any size `Store` appends to and `Take` removes
from the sequence of bytes `Contents`, and both keep `head`, `tail` and `free`
consistent.  Then, for every size, set of bytes and length of reply:

* `TypeCorrect`, `FifosSafe`, `TestsHold`: `Spec => []TypeOK`, `Spec => []FifosConsistent`,
  `Spec => []TestStaysTrue`;
* `TransmitterSafe`: `Spec => [](OneFeeder /\ NoLostWakeup)`;
* `CountedIsThere`: `Spec => []FoundIsThere`;
* `UartImplementsLink`: `Spec => LinkSpec`, with `inq`, `outq` and `line` of `ByteLink`
  mapped to the contents of the two fifos and the shift register.

The inductive invariant `UartInv` is the conjunction of the first five: `NoLostWakeup` needs
`OneFeeder` (the flag says whether the interrupt will come again), `OneFeeder` needs
`TestStaysTrue` at the load of the first byte (the interrupt cannot have emptied the
fifo, for it does not run while the register is idle), and that one needs the types and
the consistency of the counters.  The proof goes action by action, the refinement as
well: each step of `Uart` is one step of `ByteLink` or changes none of its variables.
`FoundIsThere` needs `ScanInv` besides: while the main loop looks for a message, what it
has passed is still the front of the fifo, for nothing else takes bytes out.
The only assumptions are `SizeAssumption` and `UartAssumption`.

`PwmProofs` proves for every base of a byte, every pair of limits and every amount by
which the calls move it, from `PwmAssumption` alone (the lower limit fits a byte):

* `PwmTypeCorrect`: `Spec => []TypeOK`, with the bounds of `pwm` in it;
* `PwmApplied`: `Spec => []AppliedInLimits`;
* `PwmLessLowers`: `Spec => LessNeverRaises`.

The argument is in two lemmas: a write is raised by at most the lower limit
(`WriteBounds`), and a write that does not raise `pwm` is not raised at all
(`WriteLower`): what the interrupt sees is the old high byte with the new low byte,
so it steps in only if the old high byte is zero, and then the new one is as well.
The clamp is such a write.  `PwmInv` adds that no call is pending after it.

`MotorProofs` proves for every set of Hall states and all times, from
`MotorAssumption` and, for the last, `PollAssumption` (the start-up time outlasts six
ticks, a round of polls; it is 9 periods of 16 ticks):

* `MotorTypeCorrect`: `Spec => []TypeOK`;
* `DriveSector`, `DriveSafe`: `Spec => []SectorFollowsHall`, `Spec => []DriveStops`;
* `DriveCalm`, `DriveChosen`: `Spec => CalmBeforeDrive`, `Spec => ChosenBeforeDrive`.

`MotorInv` strengthens them: without a display, or after a round begun without one or
without a mode, the decision to freewheel stands until the next round
(`FreewheelDecided`); from the control loop on, a fault has led to that decision
(`FaultsStop`); and a fault is forgotten only when the count has run down, during which
`calm` has run up (`FaultsKept`: `calm >= Startup - startup`).  The first round is the
exception: no fault is set yet, but there is no display either.
`ChosenBeforeDrive` has an argument about time: a fault takes the mode away when the
display is polled next (`ModeGoes`); the ticks to that poll (`Polls`) and those that
messages of others may still take (`SpareLeft`) are no more than those left of the
start-up time (`TicksLeft`); and from then on a mode is one that was chosen since
(`ModeChosen`).  A tick taken by such a message leaves the polls as they are and takes
one from what is to spare; once all of that is gone nothing is claimed.

`MenuProofs` proves for all settings, times and counts, from `DisplayMenuAssumption` and,
for the bar, `BarAssumption` (the values shown have at most four digits) and `DigitAssumption` (settings shown by one digit have at most ten values):

* `MenuTypeCorrect`, `MenuOverrideUnlocked`: `Spec => []TypeOK`, `Spec => []OverrideUnlocked`;
* `MenuLegalOnPurpose`, `MenuLightOnce`: `Spec => LegalOnPurpose`, `Spec => LightOnce`;
* `MenuBarReads`: `Spec => []BarReads`, from lemmas on the decimal digits of a number.

`MenuInv` adds what they need: in menu 4 the setting is the number of presses counted
since the menu was opened (`FrontsCounted`, why leaving the menu has to reset it); a
display on line has answered lately (`OnlineFresh`); between setting the throttle and
the message of the tick nothing has made it stale, and a press that arrives with that
message finds no menu open, so it cannot change the limits (`OverrideJustified`); and
who does not wait for a release has seen one (`ReleaseSeen`).

`StreamsProofs` proves for fifos of any size, any bytes, patterns and ports, from
`StreamsAssumption`:

* `StreamsTypeCorrect`, `StreamsNothingStranded`, `StreamsFoundWasThere`: `Spec => []TypeOK`,
  `Spec => []NothingStranded`, `Spec => []FoundWasThere`;
* `StreamsImplementPipe`: `Spec => PipeSpec`; the byte a call of forward has in hand
  counts as handed over, and a write that fails is a `Lose` of the pipe.

`NothingStranded` is inductive once the type of a call is known (a call that has a byte
to put has it in hand).  `FoundWasThere` needs `Matching`: the bytes matched so far are
the last ones seen.  The refinement maps each step to one of the pipe or to none.

`BowbusProofs` proves for any messages, length of buffer, gaps and noise, from
`BowbusAssumption` (a message begins with one 0x10 and fits the buffer):

* `BowbusTypeCorrect`: `Spec => []TypeOK`;
* `BowbusUsedWasChecked`: `Spec => []UsedWasChecked`, with gaps of one tick or more;
* `BowbusUsedWasSent`: `Spec => []UsedWasSent`, likewise, from `TailAssumption` besides: no
  message in use is the end of another;
* `BowbusInOrder`: `Spec => []InOrder`, with gaps of two ticks or more;
* `BowbusRecovers`: `Spec => []Recovers`, likewise, with any amount of noise.

`QuietInv` is what one tick between messages gives: the receiver sees both bytes of an
escaped 0x10 or neither (`PairsKept`); `bus_endmessage` runs only between messages, and at
most one byte of the next arrives meanwhile (`EndsBetween`), because a tick that finds
`wait_for_last_char` clear is one in which a message has just begun (`FreshBegins`); between the copy of the bytes and that of their number none arrives
(`NoneBefore`, `Copied`); and
what was handed over is used, or its bytes are gone from the buffer, before the second
byte of the next message makes `bus_receive` hand over again (`UsedBefore`).
`SentInv` adds what the receiver holds when messages are lost.  `bus_endmessage` can throw
away the first byte of a message; then the receiver ignores the rest, or takes it for a
message from an escaped 0x10 on (`Collecting`).  With `TailAssumption` that is no message
in use (with the messages 0x10 r 0x10 q and 0x10 q, TLC shows the second used when only
the first was sent), so what it holds whole came last (`HeldIsLast`), and what it has
handed over came before (`HandedIsOwed`).  `OrderInv`
is what two ticks give: the state is one of five, in which the receiver has collected
just what has arrived (`Delivering`), has a message and waits for the silence to show it
is complete (`Arrived`), has it in the message buffer (`HandedOver`), has used it
(`Used`) or has nothing (`Nothing`).
With noise nothing is known of the receiver when a first message begins: the stray byte
before it may have left it in any state, with anything in its buffer.  What noise cannot
touch is the time since the last byte (`Schedule`): of two silent ticks the first has
cleared `wait_for_last_char` and the second has ended what could be ended (`Rested`), also
when the last byte came in the middle of a tick.  `RecoverInv` follows what is owed from
there.  From its second byte on the receiver keeps the pairs of the first message apart
(`Paired`), so it is not left in ESCAPING with nothing to end, whether or not it has taken
the message in; so the second message finds it waiting, or with nothing it would hand
over, and is collected whole (`TakenIn`); and two ticks later it is handed over and used
(`Pending`), before a third begins.  Neither `TailAssumption` nor the messages' likeness
matters here: a message made up by noise can only shorten what is owed.

`BootloadProofs` proves for any sizes of page, flash and image and any number of losses,
kills and resets, from `BootloadAssumption`:

* `BootloadTypeCorrect`: `Spec => []TypeOK`, with `firmwareoffs = block * Chunks + offset`
  and every size within flash in it;
* `BootloadTimeoutStartsValid`: as long as the device was not reset, the bootloader's
  timeout starts only an application with the CRC of the firmware block.  The invariant
  is `Untouched`: until a BOOT_START or BOOT_INFO arrives, no other frame is on its way
  and flash is as it was at start-up.  The run `bootload_stale` shows that the reset has
  to be excluded;
* `BootloadVerified`, `BootloadStored`, `BootloadValid`: `Spec => []VerifiedIsFlashed`,
  `Spec => []StoredIsTrue`, `Spec => []ValidUnlessReset`.

The last three rest on what can be on the way at the same time.  Answers and requests
together are one line of frames, the answers in front; `Follow(p, q, R)` says which
commands may come behind which (`R`).  `Shape` says so for a state of the loader: with one
killed loader at most (`Orderly`), with none (`FirstOrderly`), and if besides the loader
has waited for each answer (`Patient`, `FirstPatient`).  What a first loader leaves behind
when it is killed must be harmless to the second, so `Orderly` needs `FirstOrderly`, and
`Patient` needs `FirstPatient`.  `Upload` adds that no chunk of the file is passed over and
that BOOT_CHECK and BOOT_FINISH say the truth of the image.

* `Verified`: if the loader waits, a chunk on its way is the last one sent, and an answer to
  the last chunk of a page is that page as flashed; the loader goes on only if it equals
  its own.
* `Trail`: behind BOOT_CHECK, and behind its answer, there is only the last chunk again.
  `Ends`: hence, once the device has sent the CRC of the image, flash holds the image and
  what is still on its way writes the last page as it is, or pages behind the image
  (`Harmless`), up to BOOT_FINISH.  A reset at that point
  would leave the page erased, or other data in the rest of the page buffer: the reason
  for `hasty` in `StoredIsTrue`.
* `Stored`: so BOOT_FINISH writes a block that is true.  `Started`: an application is
  started after BOOT_FINISH, or by the timeout (`Untouched`).

`NetworkProofs` is about data of any length, from `FramingAssumption`,
`HeaderAssumption` (address, command and length of a message are below 0xF8, as all in
use are) and `HexFileAssumption`:

* `FramingTypeCorrect`: `Spec => []TypeOK`, with the room `parse_message` needs in it;
* `FramingAllHandled`: `Spec => []AllHandled`, if the frame of every message in use,
  escaped, is smaller than the fifo (`Fits`).  The run `framing_chunk` shows that the
  condition is needed, and that the bootloader's own messages do not meet it;
* `FramingRecovers`: `Spec => []Recovers`, with any amount of noise, if one and a half
  times the frame of a message fits the fifo (`Room`).  With frames of 10 bytes TLC finds
  `Recovers` violated in fifos of 13 and 14 bytes and not in one of 15, where the condition
  begins to hold.  In the code, with a fifo of 128, it holds for frames of up to 85 bytes:
  a chunk in which nothing is escaped has one of 76;
* `HexFilesRead`: `Reads(lines, data)` for every sequence of lines that keep to the
  memory of the file (`Fitting`; `hexfile_process` does not look); `HexFilesInUse`: hence
  none of any set of such files (`FilesAssumption`) is `Misread`, which is what `HexReads`
  of the run `loader` checks for the files of its instance.

Framing and `hexfile_process` are recursive functions, and what they give is proved by induction.  The provers
cannot apply the library's induction theorems to an operator, but they can with a set of
numbers in its place: `SetInduction` says that a set with 0 and the successor of each
member holds every number, `LeastNatural` that a set of numbers has a least one.  `UpToExists` and
`AfterExists` show by it that the recursive functions exist, so that they can be unfolded
(`FramedUnfolds`, `ProcessUnfolds`); `FramedFront` that a frame begins with that of its
first byte; `LinesNext` what one more line adds.  `AllHandled` follows from `QuietInv`:
without noise nothing is under way (`Waiting`), a frame is split between the wire and the
fifo (`Arriving`) and does not look like one before its last byte (`PartIsNoFrame`), or it
is being read (`Arrived`), and the fifo holds the framing of exactly what is still to be
read of it (`Reading`).

`Recovers` has its own `RecoverInv`, which follows what lies in the fifo in front of the
frame of the message that came last.  As long as nothing is owed that can be anything
(`Forgotten`, `First`).  When a message is owed and another comes in (`ComingWhole`), it has
no start (`NoStart`), for with the end of the owed frame every start in the fifo had an end
behind it, and the main loop reads on until no such pair is left (`Remains`); so the next
whole frame is read (`Later`, `Read`), unless the fifo runs full (`Full`).  Then `fifo_clear` drops all of it and the rest of the frame comes
in behind nothing (`ComingPart`).  How much is left in front is what `Bound` keeps account
of: less than two thirds of the fifo with one message owed, and less than a third with two,
so that the third frame fits behind it whole, and is read before a fourth begins.

Model-checked only: everything temporal beyond refinement (`QueuedBytesLeave`,
`FloodEnds`, `NeverJams`, `MessageUsed`, `LoopsReturn`, `UploadSurvives`, `CallsReturn`,
`MenuCloses`, `FaultsClear`, `PedalEnds`): liveness is out of the prover's reach.  Of
`Loader`, also `StoredIsTrue`: it is proved of `Bootload`, whose loader has one loop, while
`Loader` adds commands that meddle with an upload.  And the invariants of `Bootload` under
`EagerSpec`: the theorems are of `Spec`, whose `Prepare` asks with nothing on its way.

## Not modelled, and why

`ionapp.c`, `common.c`, `libdebug.c` (system I/O and printing), and of
`lib/network/uart.c` what opens and sets up the port (termios; its reads, writes and
write_start are in `Streams`); the drivers of Atmel (vendored: their page operations are
steps of `Bootload`); CRC arithmetic (the models take a CRC to tell contents apart);
`nimhbat.c` (see the inventory); `busmanager.c` (linked into nothing); of
`ionloader.c` the command `open` and the terminal's escape sequences.  Of `bldcdisp.c`:
the sampling and scaling of measurements (any value), brake and cruise (off in this
build), the other boards' branches, and `uart_rate_find`.  Of `bowbus.c`:
`bus_parse_motor`, `bus_parse_all` and the functions of the other devices.  The inside
of the EEPROM block is the next module of the plan.
