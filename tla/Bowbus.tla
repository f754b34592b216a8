------------------------------- MODULE Bowbus -------------------------------
(***************************************************************************)
(* One direction of the one-wire bus of lib_ion/bowbus.c: a node that      *)
(* sends a message with bus_send and the transmit interrupt of             *)
(* ion_firmware/bldcdisp/uart.c, and a node that takes it in with          *)
(* bus_receive in the receive interrupt and, in its main loop, with the    *)
(* timeout and the parsing that bldcdisp.c does about every 14 ms.         *)
(*                                                                         *)
(* A message starts with the byte 0x10; a 0x10 inside it is sent twice.    *)
(* Nothing marks its end but the start of the next one, or silence.  The   *)
(* interrupts run to completion; the main loop can be interrupted between  *)
(* any two of its statements that touch what the interrupts touch.         *)
(***************************************************************************)
EXTENDS Integers, Sequences

CONSTANTS
    Byte, Header,   \* FRAME_HEADER is FRAME_ESCAPE
    Frames,         \* the messages in use, whose CRC is right
    RxMax,          \* what bus_receive collects at most (128)
    None,           \* nothing on the line
    Gaps,           \* ticks of the receiver that can pass between two messages
    \* Bounds: the bytes the line spoils or makes up, for each gap, and the
    \* messages on which the sender stops when none of them is used.
    MaxNoise, MaxOwed

ASSUME BowbusAssumption ==
    /\ Header \in Byte /\ None \notin Byte
    /\ RxMax \in Nat \ {0, 1} /\ Gaps \subseteq Nat /\ MaxNoise \in [Gaps -> Nat] /\ MaxOwed \in Nat
    /\ Frames \subseteq Seq(Byte)
    /\ \A f \in Frames : /\ Len(f) \in 2 .. RxMax - 1
                         /\ f[1] = Header /\ f[2] # Header

\* No message in use is the end of another: they would have to share their CRC.
ASSUME TailAssumption ==
    \A f \in Frames : \A k \in 3 .. Len(f) : f[k] = Header => SubSeq(f, k, Len(f)) \notin Frames

VARIABLES
    \* The sender: bus.tx_buff, tx_buff_cnt and tx_state, and the byte the
    \* USART is sending.
    txBuff, txCnt, txState, line,
    \* The receiver: bus.rx_buff up to rx_buff_cnt, rx_state,
    \* wait_for_last_char, bus.msg_buff up to msg_len, new_mesage, and where
    \* its main loop is.
    rxBuff, rxState, waitForLastChar, msgBuff, newMessage, pc,
    \* Time and noise: the least gap between messages, ticks begun since the last
    \* byte, whether a byte came or a message began since the last tick saw to
    \* wait_for_last_char, spoiled bytes, and whether the message being sent is
    \* spoiled.
    gap, ticks, fresh, noise, damaged,
    \* History: messages that went over the line whole and are not yet used,
    \* and the message whose CRC was checked last.
    owed, checked

sender   == <<txBuff, txCnt, txState, line, damaged>>
receiver == <<rxBuff, rxState, waitForLastChar, msgBuff, newMessage>>
history  == <<owed, checked>>
timing   == <<gap, ticks, fresh>>
vars     == <<sender, receiver, pc, timing, noise, history>>

Init == /\ txBuff = <<>> /\ txCnt = 0 /\ txState = "WAITING" /\ line = None
        /\ rxBuff = <<>> /\ rxState = "WAITING" /\ waitForLastChar = FALSE
        /\ msgBuff = <<>> /\ newMessage = FALSE
        /\ pc = "idle"
        /\ gap \in Gaps /\ ticks = 0 /\ fresh = FALSE /\ noise = 0 /\ damaged = FALSE
        /\ owed = <<>> /\ checked = <<>>

-----------------------------------------------------------------------------
(* The sender                                                              *)

\* Ticks the main loop has dealt with since the last byte.
CompleteTicks == IF pc = "idle" THEN ticks ELSE ticks - 1

\* bus_send and uart0_writestart; while a message is being sent bus_send
\* returns false and nothing happens.
BusSend ==
    /\ txState = "WAITING" /\ Len(owed) < MaxOwed
    /\ CompleteTicks >= gap
    /\ txBuff' \in Frames
    /\ txCnt' = 1 /\ line' = txBuff'[1] /\ txState' = "WRITING"
    /\ ticks' = 0 /\ fresh' = TRUE /\ damaged' = FALSE
    /\ UNCHANGED <<receiver, pc, gap, noise, history>>

\* Slip: no 0x10 is escaped.
TransmitUnescaped ==
    /\ UNCHANGED txBuff
    /\ \/ /\ txCnt < Len(txBuff)
          /\ line' = txBuff[txCnt + 1] /\ txCnt' = txCnt + 1 /\ UNCHANGED txState
       \/ /\ txCnt = Len(txBuff)
          /\ line' = None /\ txState' = "WAITING" /\ UNCHANGED txCnt

\* USARTE0_TXC_vect
TransmitInterrupt ==
    /\ UNCHANGED txBuff
    /\ \/ /\ txState = "ESCAPING"
          /\ line' = Header /\ txState' = "WRITING"
          /\ UNCHANGED txCnt
       \/ /\ txState = "WRITING" /\ txCnt < Len(txBuff)
          /\ line' = txBuff[txCnt + 1] /\ txCnt' = txCnt + 1
          /\ txState' = IF line' = Header THEN "ESCAPING" ELSE "WRITING"
       \/ /\ txState = "WRITING" /\ txCnt = Len(txBuff)
          /\ line' = None /\ txState' = "WAITING"
          /\ UNCHANGED txCnt

-----------------------------------------------------------------------------
(* The receive interrupt: bus_receive                                      *)

Fits == Len(rxBuff) < RxMax
HasMessage == rxBuff # <<>> /\ Fits

Collect(chr) == rxBuff' = IF Fits THEN Append(rxBuff, chr) ELSE rxBuff

HandOver == IF HasMessage
            THEN msgBuff' = rxBuff /\ newMessage' = TRUE
            ELSE UNCHANGED <<msgBuff, newMessage>>

\* Slip: every 0x10 ends the message before it.
HandOverEarly(chr) ==
    /\ waitForLastChar' = TRUE
    /\ IF chr = Header
       THEN /\ HandOver
            /\ rxState' = IF rxState = "ESCAPING" THEN "READING" ELSE "ESCAPING"
            /\ UNCHANGED rxBuff
       ELSE /\ rxBuff' = IF rxState = "ESCAPING" THEN <<Header, chr>>
                                                  ELSE Append(rxBuff, chr)
            /\ rxState' = "READING"
            /\ UNCHANGED <<msgBuff, newMessage>>

BusReceive(chr) ==
    /\ waitForLastChar' = TRUE
    /\ \/ /\ rxState = "WAITING"
          /\ rxState' = IF chr = Header THEN "ESCAPING" ELSE "WAITING"
          /\ UNCHANGED <<rxBuff, msgBuff, newMessage>>
       \/ /\ rxState = "ESCAPING" /\ chr = Header       \* an escaped 0x10
          /\ Collect(chr) /\ rxState' = "READING"
          /\ UNCHANGED <<msgBuff, newMessage>>
       \/ /\ rxState = "ESCAPING" /\ chr # Header       \* a message began
          /\ HandOver
          /\ rxBuff' = <<Header, chr>> /\ rxState' = "READING"
       \/ /\ rxState = "READING" /\ chr = Header
          /\ rxState' = "ESCAPING"
          /\ UNCHANGED <<rxBuff, msgBuff, newMessage>>
       \/ /\ rxState = "READING" /\ chr # Header
          /\ Collect(chr)
          /\ UNCHANGED <<rxState, msgBuff, newMessage>>

\* A byte reaches the receiver.  Its main loop handles a tick in less time
\* than a byte takes (1 ms): at most one comes in between.
Transfer(chr) ==
    /\ pc # "idle" => ticks > 0
    /\ BusReceive(chr)
    /\ ticks' = 0 /\ fresh' = (pc # "clear")
    /\ UNCHANGED <<pc, gap, checked>>

ByteSent(chr) ==
    /\ line # None
    /\ Transfer(chr)
    /\ TransmitInterrupt

ByteArrives ==
    /\ ByteSent(line)
    /\ owed' = IF line' = None /\ ~damaged THEN Append(owed, txBuff) ELSE owed
    /\ UNCHANGED <<damaged, noise>>

\* With the noise the count of what is owed starts over.
ByteSpoiled ==
    /\ noise < MaxNoise[gap] /\ noise' = noise + 1
    /\ \E chr \in Byte \ {line} : ByteSent(chr)
    /\ damaged' = TRUE /\ owed' = <<>>

\* The line is idle and the receiver takes in a byte all the same.  (One that
\* comes before the last message is dealt with would count as spoiling it.)
StrayByte ==
    /\ noise < MaxNoise[gap] /\ noise' = noise + 1
    /\ line = None /\ (owed # <<>> => pc = "idle" /\ ticks >= gap)
    /\ \E chr \in Byte : Transfer(chr)
    /\ owed' = <<>>
    /\ UNCHANGED sender

-----------------------------------------------------------------------------
(* The receiver's main loop                                                *)

\* The timer has run out.  A byte takes a fraction of a tick, so at least one
\* arrives between two ticks while a message is being sent.
Tick ==
    /\ pc = "idle"
    /\ line # None => fresh
    /\ ticks' = IF ticks > gap THEN ticks ELSE ticks + 1
    /\ fresh' = FALSE /\ UNCHANGED gap
    /\ pc' = IF waitForLastChar THEN "clear" ELSE "end"
    /\ UNCHANGED <<sender, receiver, noise, history>>

\* Slip: the flag is not cleared.
FlagStays ==
    /\ pc = "clear" /\ pc' = "check"
    /\ UNCHANGED <<sender, receiver, timing, noise, history>>

ClearFlag ==
    /\ pc = "clear"
    /\ waitForLastChar' = FALSE /\ pc' = "check"
    /\ UNCHANGED <<sender, rxBuff, rxState, msgBuff, newMessage, timing, noise, history>>

\* Slip: no test for an empty buffer.
EndUntested ==
    /\ pc = "end"
    /\ pc' = IF rxState # "WAITING" /\ Fits THEN "copy" ELSE "check"
    /\ UNCHANGED <<sender, receiver, timing, noise, history>>

\* bus_endmessage, which the interrupt may cut in two anywhere.
EndTest ==
    /\ pc = "end"
    /\ pc' = IF rxState # "WAITING" /\ HasMessage THEN "copy" ELSE "check"
    /\ UNCHANGED <<sender, receiver, timing, noise, history>>

EndCopy ==
    /\ pc = "copy" /\ pc' = "length"
    /\ msgBuff' = rxBuff
    /\ UNCHANGED <<sender, rxBuff, rxState, waitForLastChar, newMessage, timing, noise,
                   history>>

\* msg_len is rx_buff_cnt as it is by now: the message is cut to it, or followed
\* by what msg_buff held there before.
EndLength ==
    /\ pc = "length" /\ pc' = "count"
    /\ \/ /\ Len(rxBuff) <= Len(msgBuff)
          /\ msgBuff' = SubSeq(msgBuff, 1, Len(rxBuff))
       \/ /\ Len(rxBuff) > Len(msgBuff)
          /\ \E rest \in [1 .. Len(rxBuff) - Len(msgBuff) -> Byte] : msgBuff' = msgBuff \o rest
    /\ newMessage' = TRUE
    /\ UNCHANGED <<sender, rxBuff, rxState, waitForLastChar, timing, noise, history>>

\* Slip: rx_buff_cnt is not reset.
CountStays ==
    /\ pc = "count" /\ pc' = "state"
    /\ UNCHANGED <<sender, receiver, timing, noise, history>>

EndCount ==
    /\ pc = "count"
    /\ rxBuff' = <<>> /\ pc' = "state"
    /\ UNCHANGED <<sender, rxState, waitForLastChar, msgBuff, newMessage, timing, noise,
                   history>>

EndState ==
    /\ pc = "state"
    /\ rxState' = "WAITING" /\ pc' = "check"
    /\ UNCHANGED <<sender, rxBuff, waitForLastChar, msgBuff, newMessage, timing, noise,
                   history>>

\* bus_check_for_message: the CRC first, then the fields, then the flag.
CheckMessage ==
    /\ pc = "check"
    /\ pc' = IF ~newMessage THEN "idle"
             ELSE IF msgBuff \in Frames THEN "use" ELSE "done"
    /\ checked' = msgBuff
    /\ UNCHANGED <<sender, receiver, timing, noise, owed>>

\* Once the message m is used what is owed is all that came after it.
Settle(m) ==
    \E n \in 0 .. Len(owed) :
        /\ IF n = 0 THEN \A i \in DOMAIN owed : owed[i] # m
                    ELSE owed[n] = m /\ \A i \in 1 .. n - 1 : owed[i] # m
        /\ owed' = SubSeq(owed, n + 1, Len(owed))

UseMessage ==
    /\ pc = "use"
    /\ Settle(msgBuff) /\ pc' = "done"
    /\ UNCHANGED <<sender, receiver, timing, noise, checked>>

MessageDone ==
    /\ pc = "done"
    /\ msgBuff' = <<>> /\ newMessage' = FALSE /\ pc' = "idle"
    /\ UNCHANGED <<sender, rxBuff, rxState, waitForLastChar, timing, noise, history>>

-----------------------------------------------------------------------------
Main == Tick \/ ClearFlag \/ EndTest \/ EndCopy \/ EndLength \/ EndCount \/ EndState
        \/ CheckMessage \/ UseMessage \/ MessageDone

Next == BusSend \/ ByteArrives \/ ByteSpoiled \/ StrayByte \/ Main

Spec == Init /\ [][Next]_vars

(* The timer goes on and so does a transmission; nobody has to send.       *)
FairSpec == Spec /\ WF_vars(Main) /\ WF_vars(ByteArrives)

-----------------------------------------------------------------------------
NetState == {"WAITING", "ESCAPING", "READING", "WRITING"}
Location == {"idle", "clear", "end", "copy", "length", "count", "state", "check", "use",
             "done"}

SenderOK ==
    /\ txBuff \in Seq(Byte) /\ txCnt \in 0 .. Len(txBuff)
    /\ txState \in NetState \ {"READING"} /\ line \in Byte \cup {None}
    /\ damaged \in BOOLEAN

ReceiverOK ==
    /\ rxBuff \in Seq(Byte) /\ Len(rxBuff) <= RxMax
    /\ rxState \in NetState \ {"WRITING"} /\ waitForLastChar \in BOOLEAN
    /\ msgBuff \in Seq(Byte) /\ newMessage \in BOOLEAN
    /\ pc \in Location

TimeOK == /\ gap \in Gaps /\ ticks \in 0 .. gap + 1 /\ fresh \in BOOLEAN
          /\ noise \in 0 .. MaxNoise[gap]

HistoryOK == owed \in Seq(Frames) /\ checked \in Seq(Byte)

TypeOK == SenderOK /\ ReceiverOK /\ TimeOK /\ HistoryOK

(* With a gap of two ticks between messages and no noise: the message the  *)
(* main loop acts on is the one that was sent, unescaped, each once and in *)
(* order, and it has done so before the next one begins.                   *)
Undisturbed == gap >= 2 /\ noise = 0
InOrder == /\ Undisturbed /\ pc = "use" => owed # <<>> /\ msgBuff = Head(owed)
           /\ Undisturbed /\ line # None => owed = <<>>

(* A message is then used in the end even if no other follows.             *)
MessageUsed == (Undisturbed /\ owed # <<>>) ~> (owed = <<>> \/ noise > 0)

(* With a gap of two ticks and noise: of two whole messages in a row, with *)
(* no noise between them, the second is used, whatever noise went before.  *)
(* (The first can be lost: a stray 0x10 leaves bus_receive waiting for the *)
(* byte that follows, where bus_endmessage does not reset it.)             *)
Recovers == gap >= 2 /\ line # None => Len(owed) <= 1

(* With a gap of one tick messages can be lost to bus_endmessage, but the  *)
(* fields bus_parse reads still belong to the message whose CRC it         *)
(* checked: bus_receive does not replace it in between.                    *)
UsedWasChecked == gap >= 1 /\ noise = 0 /\ pc = "use" => msgBuff = checked

(* And what is used was sent, after all that was used before it.           *)
UsedWasSent ==
    gap >= 1 /\ noise = 0 /\ pc = "use" => \E i \in DOMAIN owed : owed[i] = msgBuff
=============================================================================
