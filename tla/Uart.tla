-------------------------------- MODULE Uart --------------------------------
(***************************************************************************)
(* The serial port of the bootloader: lib/network/fifo.c used by the       *)
(* receive and transmit interrupts of ion_firmware/bootloader/uarthw.c on  *)
(* one side and by the main loop of ionblapp.c on the other.               *)
(*                                                                         *)
(* Interrupts run to completion, and the ATOMIC_BLOCKs of fifo.c keep them *)
(* out, so a whole interrupt handler is one step and so is an atomic       *)
(* block.  Everything else the main loop does can be interrupted: the test *)
(* for a full or an empty fifo is a step of its own, before the block it   *)
(* guards.  (The counters are 16 bits wide, but with a buffer of 128 bytes *)
(* one byte of them holds the value: they are read in one go.)             *)
(***************************************************************************)
EXTENDS Fifo

CONSTANTS Start, End,   \* FRAME_START and FRAME_END
          Zero,         \* what the static buffers hold at reset
          Idle,         \* no byte in the transmit shift register
          ReplyByte,    \* the bytes replies are made of
          MaxReply      \* bound on the bytes of one reply

ASSUME UartAssumption == /\ Start \in Byte /\ End \in Byte /\ Start # End
                         /\ Zero \in Byte /\ ReplyByte \subseteq Byte
                         /\ Idle \notin Byte
                         /\ MaxReply \in Nat \ {0}

VARIABLES rx, tx,         \* rxfifo1 and txfifo1
          transmitting,   \* uartbus->transmitting
          shifting,       \* the byte USARTE0 is sending, or Idle
          pc,             \* where the main loop is
          offs, inFrame, found,  \* messages_infifo: offs, start, cnt > 0
          left            \* bytes of the reply still to append

rxVars   == <<rx, offs, inFrame, found>>
txVars   == <<tx, transmitting, shifting>>
vars     == <<rx, tx, transmitting, shifting, pc, offs, inFrame, found, left>>

Location == {"scan", "flood", "clear", "get", "take",
             "put", "store", "start", "first", "load"}

Init == /\ rx = FifoInit([i \in Slot |-> Zero])
        /\ tx = FifoInit([i \in Slot |-> Zero])
        /\ transmitting = FALSE /\ shifting = Idle
        /\ pc = "scan"
        /\ offs = 0 /\ inFrame = FALSE /\ found = FALSE
        /\ left = 0

-----------------------------------------------------------------------------
(* Interrupts                                                              *)

\* USARTE0_RXC_vect: a byte for which there is no room is gone.
ReceiveInterrupt ==
    /\ \E b \in Byte : rx' = Put(rx, b)
    /\ UNCHANGED <<txVars, pc, offs, inFrame, found, left>>

\* USARTE0_TXC_vect: the shift register is empty, load the next byte or stop.
TransmitInterrupt ==
    /\ shifting # Idle
    /\ IF IsEmpty(tx)
       THEN /\ transmitting' = FALSE /\ shifting' = Idle
            /\ UNCHANGED tx
       ELSE /\ shifting' = Taken(tx) /\ tx' = Take(tx)
            /\ UNCHANGED transmitting
    /\ UNCHANGED <<rxVars, pc, left>>

-----------------------------------------------------------------------------
(* The main loop: look for a complete message                              *)

\* Leave for the top of the loop, where messages_infifo starts over.
Restart == pc' = "scan" /\ offs' = 0 /\ inFrame' = FALSE /\ found' = FALSE

\* Slip: an end without a start counts.
ScanAnyEnd ==
    /\ pc = "scan" /\ offs < Used(rx)
    /\ LET b == Peek(rx, offs) IN
         inFrame' = (b = Start) /\ found' = (found \/ b = End)
    /\ offs' = offs + 1
    /\ UNCHANGED <<rx, txVars, pc, left>>

ScanByte ==
    /\ pc = "scan" /\ offs < Used(rx)
    /\ LET b == Peek(rx, offs) IN
         /\ inFrame' = (b = Start \/ (inFrame /\ b # End))
         /\ found'   = (found \/ (inFrame /\ b = End))
    /\ offs' = offs + 1
    /\ UNCHANGED <<rx, txVars, pc, left>>

ScanDone ==
    /\ pc = "scan" /\ offs >= Used(rx)
    /\ pc' = IF found THEN "get" ELSE "flood"
    /\ UNCHANGED <<rxVars, txVars, left>>

\* Slip: the garbage stays.
FloodIgnored == pc = "flood" /\ Restart /\ UNCHANGED <<rx, txVars, left>>

\* No message, and the fifo is full: garbage.
FloodTest ==
    /\ pc = "flood"
    /\ IF IsFull(rx)
       THEN pc' = "clear" /\ UNCHANGED <<offs, inFrame, found>>
       ELSE Restart
    /\ UNCHANGED <<rx, txVars, left>>

ClearGarbage ==
    /\ pc = "clear"
    /\ rx' = FifoClear(rx)
    /\ Restart
    /\ UNCHANGED <<txVars, left>>

(* Parse it: fifo_get calls, of which parse_message stops early on an      *)
(* error.  A message that parses may be answered.                          *)
Answer == /\ pc' = "put" /\ left' \in 1 .. MaxReply
          /\ UNCHANGED <<offs, inFrame, found>>

GetTest ==
    /\ pc = "get"
    /\ \/ /\ ~IsEmpty(rx)
          /\ pc' = "take" /\ UNCHANGED <<offs, inFrame, found, left>>
       \/ /\ IsEmpty(rx)
          /\ Restart /\ UNCHANGED left
       \/ IsEmpty(rx) /\ Answer     \* the end of the frame is not insisted on
    /\ UNCHANGED <<rx, txVars>>

GetTake ==
    /\ pc = "take"
    /\ rx' = Take(rx)
    /\ \/ pc' = "get" /\ UNCHANGED <<offs, inFrame, found, left>>
       \/ Restart /\ UNCHANGED left
       \/ Taken(rx) = End /\ Answer
    /\ UNCHANGED txVars

-----------------------------------------------------------------------------
(* The main loop: append the reply byte by byte, then start the transmitter*)

\* Slip: the reply is appended without a call of write_start.
AppendOnly ==
    /\ pc = "put"
    /\ IF left = 0 \/ IsFull(tx)
       THEN Restart /\ left' = 0
       ELSE pc' = "store" /\ UNCHANGED <<left, offs, inFrame, found>>
    /\ UNCHANGED <<rx, txVars>>

\* A full fifo cuts the message short; write_start is called all the same.
PutTest ==
    /\ pc = "put"
    /\ IF left = 0 \/ IsFull(tx)
       THEN pc' = "start" /\ left' = 0
       ELSE pc' = "store" /\ UNCHANGED left
    /\ UNCHANGED <<rxVars, txVars>>

PutStore ==
    /\ pc = "store"
    /\ \E b \in ReplyByte : tx' = Store(tx, b)
    /\ left' = left - 1
    /\ pc' = "put"
    /\ UNCHANGED <<rxVars, transmitting, shifting>>

\* Slip: the first byte is loaded whether the transmitter runs or not.
StartAgain ==
    /\ pc = "start"
    /\ transmitting' = TRUE /\ pc' = "first"
    /\ UNCHANGED <<rxVars, tx, shifting, left>>

\* uart1_writestart: nothing to do when the interrupt keeps itself going.
WriteStart ==
    /\ pc = "start"
    /\ IF transmitting
       THEN Restart /\ UNCHANGED transmitting
       ELSE /\ transmitting' = TRUE
            /\ pc' = "first" /\ UNCHANGED <<offs, inFrame, found>>
    /\ UNCHANGED <<rx, tx, shifting, left>>

FirstTest ==
    /\ pc = "first"
    /\ IF IsEmpty(tx)
       THEN Restart /\ transmitting' = FALSE
       ELSE /\ pc' = "load" /\ UNCHANGED <<offs, inFrame, found, transmitting>>
    /\ UNCHANGED <<rx, tx, shifting, left>>

FirstLoad ==
    /\ pc = "load"
    /\ shifting' = Taken(tx) /\ tx' = Take(tx)
    /\ Restart
    /\ UNCHANGED <<rx, transmitting, left>>

-----------------------------------------------------------------------------
Main == \/ ScanByte \/ ScanDone \/ FloodTest \/ ClearGarbage
        \/ GetTest \/ GetTake \/ PutTest \/ PutStore
        \/ WriteStart \/ FirstTest \/ FirstLoad

Next == ReceiveInterrupt \/ TransmitInterrupt \/ Main

Spec == Init /\ [][Next]_vars

(* The processor keeps running its loop and the USART keeps shifting; no   *)
(* byte needs to arrive.                                                   *)
FairSpec == Spec /\ WF_vars(Main) /\ WF_vars(TransmitInterrupt)

-----------------------------------------------------------------------------
\* A frame mark somewhere behind another.
HoldsFrame(q) == \E i, j \in DOMAIN q : i < j /\ q[i] = Start /\ q[j] = End

TypeOK == /\ rx \in FifoType /\ tx \in FifoType
          /\ transmitting \in BOOLEAN
          /\ shifting \in Byte \cup {Idle}
          /\ pc \in Location
          /\ offs \in 0 .. Size /\ inFrame \in BOOLEAN /\ found \in BOOLEAN
          /\ left \in 0 .. MaxReply

(* head, tail and free of both fifos agree, whatever the interrupts do     *)
(* between the steps of the main loop (fifo.c).                            *)
FifosConsistent == Consistent(rx) /\ Consistent(tx)

(* The test for room or for data is made outside the atomic block of       *)
(* fifo.c: the interrupt that may come in between never makes it false.    *)
TestStaysTrue == /\ pc = "take" => ~IsEmpty(rx)
                 /\ pc = "store" => ~IsFull(tx)
                 /\ pc = "load" => ~IsEmpty(tx)
                 /\ pc = "clear" => IsFull(rx)

(* No lost wake-up: bytes wait with the transmitter stopped only while the *)
(* main loop is on its way to uart1_writestart.                            *)
NoLostWakeup ==
    ~IsEmpty(tx) /\ ~transmitting => pc \in {"put", "store", "start"}

(* uart1_writestart and the transmit interrupt never both feed USARTE0:    *)
(* the flag tells whether a byte is in the register, so the main loop      *)
(* writes the register only when it is idle.                               *)
OneFeeder == /\ pc \in {"first", "load"} => transmitting /\ shifting = Idle
             /\ pc \notin {"first", "load"} => (transmitting <=> shifting # Idle)

(* messages_infifo counts a frame that is in the fifo, as a whole and in    *)
(* order, though bytes arrive while it looks.                              *)
FoundIsThere == pc = "scan" /\ found => HoldsFrame(Contents(rx))

(* Every queued byte gets its turn on the wire.                            *)
QueuedBytesLeave ==
    \A i \in Slot : (~IsEmpty(tx) /\ tx.tail = i) ~> tx.tail # i

(* A receive fifo flooded with garbage, whatever it holds, makes room      *)
(* again.                                                                  *)
FloodEnds == IsFull(rx) ~> ~IsFull(rx)

-----------------------------------------------------------------------------
(* The port implements the byte queues of ByteLink.                        *)
Link == INSTANCE ByteLink WITH inq <- Contents(rx), outq <- Contents(tx),
                               line <- shifting
LinkSpec == Link!Spec
=============================================================================
