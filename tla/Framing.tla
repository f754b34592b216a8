------------------------------- MODULE Framing -------------------------------
(***************************************************************************)
(* Messages in frames: message_append_tofifo, messages_infifo and          *)
(* parse_message of lib/network/message.c, between a sender and the main   *)
(* loop of the bootloader (ionblapp.c).                                    *)
(*                                                                         *)
(* The receive fifo is a bounded queue: UartProofs shows that this is what *)
(* the fifo and its interrupt amount to.  Bytes keep arriving while the    *)
(* main loop looks for a message and while it parses one, fifo_get by      *)
(* fifo_get.  The scan is one step: only the main loop takes bytes out, so *)
(* what messages_infifo has counted stays there, and it stops at the end   *)
(* of the fifo as it is then.                                              *)
(*                                                                         *)
(* A CRC is taken to tell the messages in use from anything else.          *)
(***************************************************************************)
EXTENDS Integers, Sequences

CONSTANTS
    EscapeChr, EscapeMax, \* FRAME_ESCAPE_CHR, FRAME_ESCAPE_MAX
    Version,              \* FRAME_PROT_VER
    DataMax,              \* data_max, the room for data of the caller
    Size,                 \* of the receive fifo
    Messages,             \* the messages in use: address, cmd and data
    Crc,                  \* the two CRC bytes of each of them
    \* Bounds: the bytes the line spoils, loses or makes up and the frames it
    \* cuts short, and the messages on which the sender stops when none of
    \* them is taken in.
    MaxNoise, MaxOwed

Start == EscapeChr + EscapeMax
End   == Start - 1
Byte  == 0 .. Start

ASSUME FramingAssumption ==
    /\ EscapeMax \in Nat \ {0, 1} /\ EscapeChr \in Nat /\ EscapeMax < EscapeChr
    /\ Version \in 0 .. EscapeChr - 1
    /\ {DataMax, Size, MaxNoise, MaxOwed} \subseteq Nat
    /\ Crc \in [Messages -> Byte \X Byte]

\* Parsing undoes the framing of the data only, not that of the header.
ASSUME HeaderAssumption ==
    /\ Messages \subseteq [address : 0 .. EscapeChr - 1, cmd : 0 .. EscapeChr - 1,
                           data : Seq(Byte)]
    /\ \A m \in Messages : Len(m.data) < EscapeChr /\ Len(m.data) <= DataMax

VARIABLES
    wire, msg, whole, \* bytes of the frame still to come, its message, and
                      \* whether none of them was spoiled
    rx,               \* rxfifo1
    pc, got,          \* where the main loop is, and the header, data and CRC
                      \* parse_message has read so far
    noise,
    owed              \* history: messages that arrived whole since the last
                      \* one that was taken in

sender == <<wire, msg, whole>>
vars   == <<sender, rx, pc, got, noise, owed>>

Location == {"scan", "flood", "clear", "seek", "version", "head", "body", "escaped", "end"}

-----------------------------------------------------------------------------
(* The sender                                                              *)

\* Slip: no framing.
PutPlain(data) == <<data>>
PutFramechar(data) == IF data >= EscapeChr THEN <<EscapeChr, data - EscapeChr>>
                                           ELSE <<data>>

Framed(s) == LET upTo[n \in 0 .. Len(s)] ==
                     IF n = 0 THEN <<>> ELSE upTo[n - 1] \o PutFramechar(s[n])
             IN  upTo[Len(s)]

Content(m) == <<m.address, m.cmd, Len(m.data)>> \o m.data \o Crc[m]

\* message_append_tofifo
Frame(m) == <<Start>> \o Framed(<<Version>> \o Content(m)) \o <<End>>

\* messages_infifo, not zero
HoldsFrame(q) == \E i, j \in DOMAIN q : i < j /\ q[i] = Start /\ q[j] = End

Init == /\ wire = <<>> /\ msg \in Messages /\ whole = FALSE
        /\ rx = <<>>
        /\ pc = "scan" /\ got = <<>>
        /\ noise = 0 /\ owed = <<>>

\* The main loop has seen all that came, and nothing makes it do more.
Settled == pc = "scan" /\ ~HoldsFrame(rx) /\ Len(rx) < Size

\* The next message is sent when the last one was answered, or long after.
SendFrame ==
    /\ wire = <<>> /\ Settled /\ Len(owed) < MaxOwed
    /\ msg' \in Messages /\ wire' = Frame(msg') /\ whole' = TRUE
    /\ UNCHANGED <<rx, pc, got, noise, owed>>

-----------------------------------------------------------------------------
(* The receive interrupt: a byte for which there is no room is gone.       *)

\* Slip: no test for room.
ReceivedAlways(q, chr) == Append(q, chr)
Received(q, chr) == IF Len(q) < Size THEN Append(q, chr) ELSE q

ByteArrives ==
    /\ wire # <<>>
    /\ wire' = Tail(wire) /\ rx' = Received(rx, Head(wire))
    /\ owed' = IF wire' = <<>> /\ whole THEN Append(owed, msg) ELSE owed
    /\ UNCHANGED <<msg, whole, pc, got, noise>>

\* With the noise the count of what is owed starts over.
Disturb == noise < MaxNoise /\ noise' = noise + 1 /\ owed' = <<>>

ByteSpoiled ==
    /\ wire # <<>> /\ Disturb
    /\ wire' = Tail(wire) /\ whole' = FALSE
    /\ \/ UNCHANGED rx
       \/ \E chr \in Byte \ {Head(wire)} : rx' = Received(rx, chr)
    /\ UNCHANGED <<msg, pc, got>>

\* The sender is reset, or its own fifo was full.
FrameCut ==
    /\ wire # <<>> /\ Disturb
    /\ wire' = <<>> /\ whole' = FALSE
    /\ UNCHANGED <<msg, rx, pc, got>>

StrayByte ==
    /\ wire = <<>> /\ Disturb
    /\ \E chr \in Byte : rx' = Received(rx, chr)
    /\ UNCHANGED <<sender, pc, got>>

-----------------------------------------------------------------------------
(* The main loop                                                           *)

Idle == UNCHANGED <<sender, noise>>
Restart == pc' = "scan" /\ got' = <<>>

Scan ==
    /\ pc = "scan"
    /\ pc' = IF HoldsFrame(rx) THEN "seek" ELSE "flood"
    /\ Idle /\ UNCHANGED <<rx, got, owed>>

\* Slip: leave the garbage.
FloodIgnored ==
    /\ pc = "flood" /\ pc' = "scan"
    /\ Idle /\ UNCHANGED <<rx, got, owed>>

FloodTest ==
    /\ pc = "flood"
    /\ pc' = IF Len(rx) = Size THEN "clear" ELSE "scan"
    /\ Idle /\ UNCHANGED <<rx, got, owed>>

ClearGarbage ==
    /\ pc = "clear"
    /\ rx' = <<>> /\ Restart
    /\ Idle /\ UNCHANGED owed

(* parse_message, one fifo_get per step                                    *)

\* fifo_get returns false, or the byte chr.
NoData == rx = <<>> /\ UNCHANGED rx
Get(chr) == rx # <<>> /\ chr = Head(rx) /\ rx' = Tail(rx)

\* Everything before the start of a frame goes.
Seek ==
    /\ pc = "seek"
    /\ \/ NoData /\ pc' = "version"
       \/ \E chr \in Byte : Get(chr) /\ pc' = IF chr = Start THEN "version" ELSE "seek"
    /\ Idle /\ UNCHANGED <<got, owed>>

\* The version is not missed.
GetVersion ==
    /\ pc = "version"
    /\ \/ NoData /\ pc' = "head" /\ UNCHANGED got
       \/ Get(Version) /\ pc' = "head" /\ UNCHANGED got
       \/ (\E chr \in Byte \ {Version} : Get(chr)) /\ Restart
    /\ Idle /\ UNCHANGED owed

\* Address, command and length are taken as they come.
GetHead ==
    /\ pc = "head"
    /\ \/ NoData /\ Restart
       \/ \E chr \in Byte : Get(chr) /\
            \/ /\ Len(got) < 2
               /\ got' = Append(got, chr) /\ pc' = "head"
            \/ /\ Len(got) = 2 /\ chr <= DataMax
               /\ got' = Append(got, chr) /\ pc' = "body"
            \/ Len(got) = 2 /\ chr > DataMax /\ Restart
    /\ Idle /\ UNCHANGED owed

\* The CRC is compared when its second byte has come.
Store(chr) ==
    LET read == Append(got, chr) IN
    \/ /\ Len(read) < 5 + got[3]
       /\ got' = read /\ pc' = "body"
    \/ /\ Len(read) = 5 + got[3]
       /\ \E m \in Messages : read = Content(m)
       /\ got' = read /\ pc' = "end"
    \/ /\ Len(read) = 5 + got[3]
       /\ \A m \in Messages : read # Content(m)
       /\ Restart

\* get_framechar
GetBody ==
    /\ pc = "body"
    /\ \/ NoData /\ Restart
       \/ Get(EscapeChr) /\ pc' = "escaped" /\ UNCHANGED got
       \/ \E chr \in 0 .. EscapeChr - 1 : Get(chr) /\ Store(chr)
       \/ (\E chr \in EscapeChr + 1 .. Start : Get(chr)) /\ Restart
    /\ Idle /\ UNCHANGED owed

\* Slip: FRAME_ESCAPE_MAX itself is refused.
GetEscapedBelowMax ==
    /\ pc = "escaped"
    /\ \/ NoData /\ Restart
       \/ \E chr \in 0 .. EscapeMax - 1 : Get(chr) /\ Store(chr + EscapeChr)
       \/ (\E chr \in EscapeMax .. Start : Get(chr)) /\ Restart
    /\ Idle /\ UNCHANGED owed

GetEscaped ==
    /\ pc = "escaped"
    /\ \/ NoData /\ Restart
       \/ \E chr \in 0 .. EscapeMax : Get(chr) /\ Store(chr + EscapeChr)
       \/ (\E chr \in EscapeMax + 1 .. Start : Get(chr)) /\ Restart
    /\ Idle /\ UNCHANGED owed

\* What is owed once m was taken in: all that came after it.
After(m) == IF \E i \in DOMAIN owed : owed[i] = m
            THEN LET i == CHOOSE i \in DOMAIN owed :
                              owed[i] = m /\ \A j \in 1 .. i - 1 : owed[j] # m
                 IN  SubSeq(owed, i + 1, Len(owed))
            ELSE owed

\* The end is looked for and not missed.  The message goes to its handler.
GetEnd ==
    /\ pc = "end"
    /\ \/ /\ NoData \/ Get(End)
          /\ owed' = After(CHOOSE m \in Messages : got = Content(m))
          /\ Restart
       \/ /\ \E chr \in Byte \ {End} : Get(chr)
          /\ UNCHANGED <<pc, got, owed>>
    /\ Idle

-----------------------------------------------------------------------------
Main == Scan \/ FloodTest \/ ClearGarbage \/ Seek \/ GetVersion \/ GetHead
        \/ GetBody \/ GetEscaped \/ GetEnd

Next == SendFrame \/ ByteArrives \/ ByteSpoiled \/ FrameCut \/ StrayByte \/ Main

Spec == Init /\ [][Next]_vars

(* The main loop goes on and so does a transmission.                       *)
FairSpec == Spec /\ WF_vars(Main) /\ WF_vars(ByteArrives)

-----------------------------------------------------------------------------
TypeOK == /\ wire \in Seq(Byte) /\ msg \in Messages /\ whole \in BOOLEAN
          /\ rx \in Seq(Byte) /\ Len(rx) <= Size
          /\ pc \in Location /\ got \in Seq(Byte) /\ Len(got) <= 5 + DataMax
          /\ noise \in 0 .. MaxNoise /\ owed \in Seq(Messages)

(* Without noise a message that was sent is handled: when the main loop    *)
(* has nothing left to do, nothing is owed.                                *)
AllHandled == noise = 0 /\ Settled => owed = <<>>

(* After noise, whatever it left in the fifo, one of three whole messages  *)
(* in a row is handled.  (Two are not enough: what is left of a first one  *)
(* can fill the fifo up as the second ends, which is thrown away then.)    *)
Recovers == wire # <<>> => Len(owed) <= 2

(* No garbage keeps the main loop from coming to rest, ready for the next  *)
(* message.                                                                *)
NeverJams == []<>(wire = <<>> /\ Settled)
=============================================================================
