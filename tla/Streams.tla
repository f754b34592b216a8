------------------------------ MODULE Streams ------------------------------
(***************************************************************************)
(* Byte streams: lib/network/stream.c over the ports it is made for.       *)
(*                                                                         *)
(* One program calls the functions, one at a time; it forwards from the    *)
(* receive fifo of one stream to the transmit fifo of another.  What       *)
(* write_start does depends on the port:                                   *)
(*   "interrupt"  it starts the transmit interrupt, which takes the bytes  *)
(*                one by one; received bytes come by interrupt (AVR);      *)
(*   "flush"      it writes out the whole fifo before it returns, and      *)
(*                received bytes come when the program polls for them      *)
(*                (lib/network/uart.c, or stream_writestart);              *)
(*   "failing"    the same where the system's write can fail or be short:  *)
(*                uart_write looks at no result and what is left is lost;  *)
(*   "none"       there is no write_start: a stream without a uart, whose  *)
(*                fifos the program fills and empties itself.              *)
(* The fifos are bounded queues and write_start loses no wake-up: that is  *)
(* what Uart shows.                                                        *)
(***************************************************************************)
EXTENDS Integers, Sequences, FiniteSets

CONSTANTS
    Byte,            \* the bytes received and written
    RxSize, TxSize,  \* sizes of the fifos
    Pattern,         \* patt->pattern
    None,            \* no byte in hand
    MaxBytes         \* bound on the bytes received and written

ASSUME StreamsAssumption ==
    /\ {RxSize, TxSize} \subseteq Nat \ {0} /\ MaxBytes \in Nat
    /\ Pattern \in Seq(Byte) /\ Pattern # <<>> /\ None \notin Byte

Ports == {"interrupt", "flush", "failing", "none"}

VARIABLES
    port,            \* what write_start does
    rx, tx,          \* the fifos
    sending,         \* is the transmit interrupt running?
    wire,            \* history: what has left through the port
    pc, call,        \* where the program is, and in which function
    ch,              \* the byte in hand
    left,            \* the bytes stream_write has still to put
    matched, found,  \* pattern_state_t
    seen,            \* history: the bytes looked at since pattern_init
    filled,          \* history: has stream_putc met a full fifo since the last start?
    bytes            \* bound: bytes received and written

fifos   == <<rx, tx>>
pattern == <<matched, found, seen>>
vars == <<port, fifos, sending, wire, pc, call, ch, left, pattern, filled, bytes>>

Init ==
    /\ port \in Ports
    /\ rx = <<>> /\ tx = <<>> /\ sending = FALSE /\ wire = <<>>
    /\ pc = "idle" /\ call = "none" /\ ch = None /\ left = <<>>
    /\ matched = 0 /\ found = FALSE /\ seen = <<>>
    /\ filled = FALSE /\ bytes = 0

IsFull == Len(tx) = TxSize
HasStart == port # "none"

\* stream->write_start(stream)
Start ==
    /\ filled' = FALSE
    /\ CASE port = "interrupt" -> sending' = TRUE /\ UNCHANGED <<tx, wire>>
         [] port = "flush"     -> wire' = wire \o tx /\ tx' = <<>> /\ UNCHANGED sending
         [] port = "failing"   -> /\ \E n \in 0 .. Len(tx) : wire' = wire \o SubSeq(tx, 1, n)
                                  /\ tx' = <<>> /\ UNCHANGED sending
         [] OTHER              -> FALSE

NoStart == UNCHANGED <<tx, wire, sending, filled>>

Begin(f) == pc = "idle" /\ call' = f
Return == pc' = "idle" /\ call' = "none" /\ ch' = None /\ left' = <<>>

-----------------------------------------------------------------------------
(* Forwarding: stream_rx_tostream_tx, and with a pattern                   *)

Forward ==
    /\ \E f \in {"forward", "search"} : Begin(f)
    /\ pc' = "get"
    /\ UNCHANGED <<port, fifos, sending, wire, ch, left, pattern, filled, bytes>>

\* Slip: a byte that does not match leaves the match where it is.
MatchGoesOn(c) ==
    LET hit == IF matched < Len(Pattern) THEN c = Pattern[matched + 1] ELSE FALSE IN
    /\ matched' = IF hit THEN matched + 1 ELSE matched
    /\ found' = (found \/ (hit /\ matched' = Len(Pattern)))

\* The byte is compared with the next of the pattern; if it differs, the match
\* starts over with the byte after it.  Beyond its end, the pattern can go on with
\* anything.
Match(c) ==
    \E hit \in IF matched < Len(Pattern) THEN {c = Pattern[matched + 1]} ELSE BOOLEAN :
        /\ matched' = IF hit THEN matched + 1 ELSE 0
        /\ found' = (found \/ (hit /\ matched' = Len(Pattern)))

Get ==
    /\ pc = "get" /\ rx # <<>>
    /\ ch' = Head(rx) /\ rx' = Tail(rx) /\ pc' = "test"
    /\ IF call = "search" THEN Match(Head(rx)) /\ seen' = Append(seen, Head(rx))
                          ELSE UNCHANGED pattern
    /\ UNCHANGED <<port, tx, sending, wire, call, left, filled, bytes>>

NothingToGet ==
    /\ pc = "get" /\ rx = <<>> /\ pc' = "notify"
    /\ UNCHANGED <<port, fifos, sending, wire, call, ch, left, pattern, filled, bytes>>

PatternInit ==
    /\ pc = "idle" /\ matched' = 0 /\ found' = FALSE /\ seen' = <<>>
    /\ UNCHANGED <<port, fifos, sending, wire, pc, call, ch, left, filled, bytes>>

-----------------------------------------------------------------------------
(* Writing: stream_write and stream_putc                                   *)

Spend(n) == bytes + n <= MaxBytes /\ bytes' = bytes + n

Write(data) ==
    /\ Begin("write") /\ Spend(Len(data))
    /\ IF data = <<>> THEN pc' = "notify" /\ UNCHANGED <<ch, left>>
                      ELSE pc' = "test" /\ ch' = Head(data) /\ left' = Tail(data)
    /\ UNCHANGED <<port, fifos, sending, wire, pattern, filled>>

Putc(c) ==
    /\ Begin("putc") /\ Spend(1)
    /\ pc' = "test" /\ ch' = c
    /\ UNCHANGED <<port, fifos, sending, wire, left, pattern, filled>>

\* Slip: a full fifo is waited for, not started.
TestOnly ==
    /\ pc = "test"
    /\ pc' = IF IsFull THEN "block" ELSE "put"
    /\ NoStart
    /\ UNCHANGED <<port, rx, call, ch, left, pattern, bytes>>

\* fifo_isfull, and the port is started when it is.
Test ==
    /\ pc = "test"
    /\ CASE ~IsFull              -> pc' = "put" /\ NoStart /\ UNCHANGED <<call, ch, left>>
         [] IsFull /\ HasStart   -> pc' = "block" /\ Start /\ UNCHANGED <<call, ch, left>>
         [] IsFull /\ ~HasStart  -> NoStart /\ Return
    /\ UNCHANGED <<port, rx, pattern, bytes>>

\* After a byte is put.  stream_putc has started the port when the fifo was full,
\* and returns.
PutDone ==
    /\ CASE call \in {"forward", "search"} -> pc' = "get" /\ ch' = None /\ UNCHANGED <<call, left>>
         [] call = "write" /\ left # <<>>  -> /\ pc' = "test" /\ ch' = Head(left)
                                              /\ left' = Tail(left) /\ UNCHANGED call
         [] call = "putc" /\ pc = "block"  -> Return
         [] OTHER                          -> pc' = "notify" /\ UNCHANGED <<call, ch, left>>
    /\ filled' = (filled \/ (call = "putc" /\ pc = "block"))

\* Slip: nobody waits for room.
PutAtOnce ==
    /\ pc \in {"put", "block"}
    /\ tx' = IF IsFull THEN tx ELSE Append(tx, ch)
    /\ PutDone
    /\ UNCHANGED <<port, rx, sending, wire, pattern, bytes>>

\* fifo_put or fifo_putc; a byte that found the fifo full waits here for room.
Put ==
    /\ pc \in {"put", "block"} /\ ~IsFull
    /\ tx' = Append(tx, ch)
    /\ PutDone
    /\ UNCHANGED <<port, rx, sending, wire, pattern, bytes>>

\* Slip: the port is not started at the end.
NotifyNobody ==
    /\ pc = "notify" /\ NoStart /\ Return
    /\ UNCHANGED <<port, rx, pattern, bytes>>

\* The port is started at the end of every call, if there is a way to.
Notify ==
    /\ pc = "notify"
    /\ IF HasStart THEN Start ELSE NoStart
    /\ Return
    /\ UNCHANGED <<port, rx, pattern, bytes>>

\* stream_read
Read(max) ==
    /\ pc = "idle" /\ rx # <<>>
    /\ rx' = SubSeq(rx, max + 1, Len(rx))
    /\ UNCHANGED <<port, tx, sending, wire, pc, call, ch, left, pattern, filled, bytes>>

-----------------------------------------------------------------------------
(* The ports                                                               *)

ReceiveInterrupt ==
    /\ port = "interrupt" /\ Spend(1)
    /\ \E b \in Byte : rx' = IF Len(rx) < RxSize THEN Append(rx, b) ELSE rx
    /\ UNCHANGED <<port, tx, sending, wire, pc, call, ch, left, pattern, filled>>

\* stream_tofifo: what fits goes in.
Fitting(all) == SubSeq(all, 1, IF Len(all) < RxSize THEN Len(all) ELSE RxSize)

\* uart_read_start, or the program itself where there is no uart.  A read that
\* fails stores nothing.  A read takes up to 512 bytes, and into a buffer of the
\* size of the fifo, which is 512 in both programs: it takes what is given here.
Fill(data) ==
    /\ port # "interrupt" /\ pc = "idle" /\ Spend(Len(data))
    /\ rx' = Fitting(rx \o data)
    /\ UNCHANGED <<port, tx, sending, wire, pc, call, ch, left, pattern, filled>>

TransmitInterrupt ==
    /\ sending
    /\ IF tx = <<>> THEN sending' = FALSE /\ UNCHANGED <<tx, wire>>
                    ELSE wire' = Append(wire, Head(tx)) /\ tx' = Tail(tx) /\ UNCHANGED sending
    /\ UNCHANGED <<port, rx, pc, call, ch, left, pattern, filled, bytes>>

\* fifo_get by the program, from a stream without a uart.
Collect ==
    /\ port = "none" /\ pc = "idle" /\ tx # <<>>
    /\ wire' = Append(wire, Head(tx)) /\ tx' = Tail(tx)
    /\ UNCHANGED <<port, rx, sending, pc, call, ch, left, pattern, filled, bytes>>

-----------------------------------------------------------------------------
\* What one call is given to write, or one uart_read returns.
Pieces == {<<>>} \cup {<<b>> : b \in Byte} \cup {<<b, c>> : b \in Byte, c \in Byte}

Work == Get \/ NothingToGet \/ Test \/ Put \/ Notify
Calls == Forward \/ PatternInit
         \/ (\E data \in Pieces : Write(data)) \/ (\E c \in Byte : Putc(c))
         \/ (\E max \in 1 .. 2 : Read(max))
Port == ReceiveInterrupt \/ TransmitInterrupt \/ Collect
        \/ (\E data \in Pieces \ {<<>>} : Fill(data))

Next == Work \/ Calls \/ Port

(* The program goes on with a call it is in, and the transmit interrupt    *)
(* comes as long as it is switched on.                                     *)
Spec == Init /\ [][Next]_vars /\ WF_vars(Work) /\ WF_vars(TransmitInterrupt)

-----------------------------------------------------------------------------
\* A call that has a byte to put has it in hand, and one that has none has not.
CallOK ==
    /\ pc \in {"idle", "get", "test", "put", "block", "notify"}
    /\ call \in {"none", "forward", "search", "write", "putc"}
    /\ ch \in Byte \cup {None}
    /\ pc \in {"test", "put", "block"} => ch \in Byte
    /\ pc \in {"idle", "get"} => ch = None
    /\ pc = "get" => call \in {"forward", "search"}
    /\ pc = "notify" /\ call \in {"forward", "search"} => ch = None

FlagsOK ==
    /\ sending \in BOOLEAN /\ found \in BOOLEAN /\ filled \in BOOLEAN
    /\ sending => port = "interrupt"

BytesOK ==
    /\ rx \in Seq(Byte) /\ Len(rx) <= RxSize /\ tx \in Seq(Byte) /\ Len(tx) <= TxSize
    /\ wire \in Seq(Byte) /\ left \in Seq(Byte) /\ seen \in Seq(Byte)
    /\ matched \in Nat /\ bytes \in 0 .. MaxBytes

TypeOK == port \in Ports /\ CallOK /\ FlagsOK /\ BytesOK

Occurs(p, s) == \E i \in 0 .. Len(s) - Len(p) : \A k \in 1 .. Len(p) : s[i + k] = p[k]

(* What is reported as found was there: the whole pattern, in one piece,    *)
(* since pattern_init, across any number of calls.                         *)
FoundWasThere == found => Occurs(Pattern, seen)

(* A call leaves nothing behind that waits for another one: what is in the *)
(* fifo is being sent.  (Not so stream_putc into a full fifo, which starts *)
(* the port before it puts its byte.)                                      *)
NothingStranded == pc = "idle" /\ HasStart /\ ~filled => tx = <<>> \/ sending

(* A call that waits for room gets it, and every call returns, once no more *)
(* bytes arrive: forwarding goes on as long as they do.                    *)
CallsReturn == []<>(pc = "idle")

Held == IF call \in {"forward", "search"} /\ ch # None THEN <<ch>> ELSE <<>>
ThePipe == INSTANCE Pipe WITH arrived <- rx, queued <- tx \o Held, out <- wire,
                              stuck <- ~HasStart, unsure <- port = "failing"

(* With a port that can be started, what is received is forwarded and what *)
(* is written is sent in order, and nothing is lost, doubled or made up.   *)
(* Without one, forwarding loses the byte that does not fit; a port that   *)
(* fails loses what it was given.                                          *)
PipeSpec == ThePipe!Spec
=============================================================================
