---------------------------- MODULE BowbusProofs ----------------------------
(* Proofs about the one-wire bus, for any messages, buffer and gaps.        *)
EXTENDS Bowbus, SequenceTheorems, TLAPS

LEMMA FrameShape ==
    ASSUME NEW f \in Frames
    PROVE  /\ f \in Seq(Byte) /\ Len(f) \in Nat /\ Len(f) >= 2 /\ Len(f) < RxMax
           /\ f[1] = Header /\ f[2] # Header
           /\ \A i \in 1 .. Len(f) : f[i] \in Byte
<1>1. f \in Seq(Byte) /\ Len(f) \in 2 .. RxMax - 1 /\ f[1] = Header /\ f[2] # Header /\ RxMax \in Nat
  BY BowbusAssumption
<1> QED BY <1>1

LEMMA Nobody == None \notin Byte /\ Header \in Byte /\ Header # None /\ RxMax \in Nat /\ RxMax >= 2
BY BowbusAssumption

-----------------------------------------------------------------------------
(* The sender                                                              *)

\* While a byte is on the line it is the one of the message the count is at; a
\* 0x10 is escaped behind the second byte only.
Sending ==
    /\ txState \in {"WAITING", "ESCAPING", "WRITING"}
    /\ txBuff = <<>> \/ txBuff \in Frames
    /\ txCnt \in 0 .. Len(txBuff)
    /\ (line = None) <=> (txState = "WAITING")
    /\ line # None => txBuff \in Frames /\ txCnt >= 1 /\ line = txBuff[txCnt]
    /\ txState = "ESCAPING" => line = Header /\ txCnt >= 3

LEMMA SendingInit == Init => Sending
BY DEF Init, Sending

LEMMA SendingInterrupt ==
    ASSUME Sending, line # None, TransmitInterrupt PROVE Sending'
<1>1. txBuff \in Frames /\ txBuff' = txBuff /\ txCnt \in 1 .. Len(txBuff) /\ Len(txBuff) \in Nat
  BY FrameShape DEF Sending, TransmitInterrupt
<1>2. \A i \in 1 .. Len(txBuff) : txBuff[i] \in Byte /\ txBuff[i] # None
  BY <1>1, FrameShape, Nobody
<1>3. CASE txState = "ESCAPING"
  BY <1>1, <1>3, Nobody DEF Sending, TransmitInterrupt
<1>4. CASE txState = "WRITING" /\ txCnt < Len(txBuff)
  <2>1. line' = txBuff[txCnt + 1] /\ txCnt' = txCnt + 1 /\ txCnt' \in 1 .. Len(txBuff)
        /\ txState' = IF line' = Header THEN "ESCAPING" ELSE "WRITING"
    BY <1>1, <1>4 DEF TransmitInterrupt
  <2>2. line' # None
    BY <1>2, <2>1
  <2>3. line' = Header => txCnt' >= 3
    <3>1. txCnt = 1 => line' # Header
      BY <1>1, <2>1, FrameShape
    <3> QED BY <1>1, <2>1, <3>1
  <2> QED BY <1>1, <2>1, <2>2, <2>3 DEF Sending
<1>5. CASE txState = "WRITING" /\ txCnt = Len(txBuff)
  BY <1>1, <1>5 DEF Sending, TransmitInterrupt
<1> QED BY <1>3, <1>4, <1>5 DEF TransmitInterrupt

LEMMA SendingNext == Sending /\ [Next]_vars => Sending'
<1> SUFFICES ASSUME Sending, [Next]_vars PROVE Sending'
  OBVIOUS
<1>1. CASE BusSend
  <2>1. txBuff' \in Frames /\ txCnt' = 1 /\ line' = txBuff'[1] /\ txState' = "WRITING"
    BY <1>1 DEF BusSend
  <2>2. Len(txBuff') \in Nat /\ Len(txBuff') >= 2 /\ line' = Header /\ Header # None
    BY <2>1, FrameShape, Nobody
  <2> QED BY <2>1, <2>2 DEF Sending
<1>2. CASE ByteArrives \/ ByteSpoiled
  BY <1>2, SendingInterrupt DEF ByteArrives, ByteSpoiled, ByteSent
<1>3. CASE StrayByte \/ Main \/ UNCHANGED vars
  <2>1. UNCHANGED sender
    BY <1>3 DEF StrayByte, Main, Tick, ClearFlag, EndTest, EndCopy, EndLength, EndCount, EndState,
                CheckMessage, UseMessage, MessageDone, vars
  <2> QED BY <2>1 DEF sender, Sending
<1> QED BY <1>1, <1>2, <1>3 DEF Next

-----------------------------------------------------------------------------
(* Types                                                                   *)

LEMMA TypeInit == Init => TypeOK
<1> SUFFICES ASSUME Init PROVE TypeOK
  OBVIOUS
<1>1. <<>> \in Seq(Byte) /\ <<>> \in Seq(Frames) /\ Len(<<>>) = 0
  OBVIOUS
<1>2. SenderOK
  <2>1. txBuff \in Seq(Byte) /\ Len(txBuff) = 0
    BY <1>1 DEF Init
  <2>2. txCnt = 0 /\ txState = "WAITING" /\ line = None /\ damaged \in BOOLEAN
    BY DEF Init
  <2> QED BY <2>1, <2>2 DEF SenderOK, NetState
<1>3. ReceiverOK
  <2>1. rxBuff \in Seq(Byte) /\ Len(rxBuff) = 0 /\ msgBuff \in Seq(Byte)
    BY <1>1 DEF Init
  <2>2. /\ rxState = "WAITING" /\ pc = "idle"
        /\ waitForLastChar \in BOOLEAN /\ newMessage \in BOOLEAN
    BY DEF Init
  <2> QED BY <2>1, <2>2, Nobody DEF ReceiverOK, NetState, Location
<1>4. TimeOK
  <2>1. gap \in Gaps /\ ticks = 0 /\ fresh \in BOOLEAN /\ noise = 0
    BY DEF Init
  <2>2. gap \in Nat /\ MaxNoise[gap] \in Nat
    BY <2>1, BowbusAssumption
  <2> QED BY <2>1, <2>2 DEF TimeOK
<1>5. HistoryOK
  BY <1>1 DEF Init, HistoryOK
<1> QED BY <1>2, <1>3, <1>4, <1>5 DEF TypeOK

\* The bytes collected and the message handed over.
Buffers ==
    /\ rxBuff \in Seq(Byte) /\ Len(rxBuff) <= RxMax
    /\ rxState \in {"WAITING", "ESCAPING", "READING"} /\ waitForLastChar \in BOOLEAN
    /\ msgBuff \in Seq(Byte) /\ newMessage \in BOOLEAN

LEMMA BuffersReceive ==
    ASSUME Buffers, NEW chr \in Byte, BusReceive(chr) PROVE Buffers'
<1>1. Append(rxBuff, chr) \in Seq(Byte) /\ Len(Append(rxBuff, chr)) = Len(rxBuff) + 1
      /\ Len(rxBuff) \in Nat
  BY DEF Buffers
<1>2. Collect(chr) => rxBuff' \in Seq(Byte) /\ Len(rxBuff') <= RxMax
  BY <1>1, Nobody DEF Buffers, Collect, Fits
<1>3. HandOver => msgBuff' \in Seq(Byte) /\ newMessage' \in BOOLEAN
  BY DEF Buffers, HandOver
<1>4. CASE rxState = "ESCAPING" /\ chr # Header
  <2>1. rxBuff' = <<Header, chr>> /\ HandOver /\ rxState' = "READING" /\ waitForLastChar' = TRUE
    BY <1>4 DEF BusReceive
  <2>2. <<Header, chr>> \in Seq(Byte) /\ Len(<<Header, chr>>) = 2
    BY Nobody
  <2>3. rxBuff' \in Seq(Byte) /\ Len(rxBuff') <= RxMax
    BY <2>1, <2>2, Nobody
  <2> QED BY <1>3, <2>1, <2>3 DEF Buffers
<1>5. CASE rxState = "WAITING"
  BY <1>5 DEF Buffers, BusReceive
<1>6. CASE rxState = "ESCAPING" /\ chr = Header
  BY <1>2, <1>6 DEF Buffers, BusReceive
<1>7. CASE rxState = "READING"
  <2>1. CASE chr = Header
    BY <1>7, <2>1 DEF Buffers, BusReceive
  <2>2. CASE chr # Header
    BY <1>2, <1>7, <2>2 DEF Buffers, BusReceive
  <2> QED BY <2>1, <2>2
<1> QED BY <1>4, <1>5, <1>6, <1>7 DEF Buffers

LEMMA BuffersMain ==
    ASSUME Buffers, Main PROVE Buffers'
<1>1. <<>> \in Seq(Byte) /\ Len(<<>>) = 0
  OBVIOUS
<1>2. CASE Tick \/ EndTest \/ CheckMessage \/ UseMessage
  <2>1. UNCHANGED receiver
    BY <1>2 DEF Tick, EndTest, CheckMessage, UseMessage
  <2> QED BY <2>1 DEF Buffers, receiver
<1>3. CASE ClearFlag
  BY <1>3 DEF Buffers, ClearFlag
<1>4. CASE EndCopy
  BY <1>4 DEF Buffers, EndCopy
<1>4a. CASE EndLength
  <2>1. newMessage' = TRUE /\ UNCHANGED <<rxBuff, rxState, waitForLastChar>>
        /\ rxBuff \in Seq(Byte) /\ msgBuff \in Seq(Byte)
    BY <1>4a DEF EndLength, Buffers
  <2>2. CASE Len(rxBuff) <= Len(msgBuff) /\ msgBuff' = SubSeq(msgBuff, 1, Len(rxBuff))
    <3>1. \A i \in 1 .. Len(rxBuff) : msgBuff[i] \in Byte
      BY <2>1, <2>2
    <3>2. msgBuff' \in Seq(Byte)
      BY <2>1, <2>2, <3>1, SubSeqProperties
    <3> QED BY <2>1, <3>2 DEF Buffers
  <2>3. ASSUME NEW rest \in [1 .. Len(rxBuff) - Len(msgBuff) -> Byte],
               Len(rxBuff) > Len(msgBuff), msgBuff' = msgBuff \o rest
        PROVE  Buffers'
    <3>1. \A n \in Nat : [1 .. n -> Byte] \subseteq Seq(Byte)
      OBVIOUS
    <3>2. rest \in Seq(Byte)
      <4>1. Len(rxBuff) - Len(msgBuff) \in Nat
        BY <2>1, <2>3
      <4> QED BY <2>3, <3>1, <4>1
    <3>3. msgBuff' \in Seq(Byte)
      BY <2>1, <2>3, <3>2
    <3> QED BY <2>1, <3>3 DEF Buffers
  <2> QED BY <1>4a, <2>2, <2>3 DEF EndLength
<1>5. CASE EndCount
  <2>1. rxBuff' = <<>> /\ UNCHANGED <<rxState, waitForLastChar, msgBuff, newMessage>>
    BY <1>5 DEF EndCount
  <2>2. rxBuff' \in Seq(Byte) /\ Len(rxBuff') <= RxMax
    BY <1>1, <2>1, Nobody
  <2> QED BY <2>1, <2>2 DEF Buffers
<1>6. CASE EndState
  BY <1>6 DEF Buffers, EndState
<1>7. CASE MessageDone
  <2>1. msgBuff' = <<>> /\ newMessage' = FALSE /\ UNCHANGED <<rxBuff, rxState, waitForLastChar>>
    BY <1>7 DEF MessageDone
  <2>2. msgBuff' \in Seq(Byte)
    BY <1>1, <2>1
  <2> QED BY <2>1, <2>2 DEF Buffers
<1> QED BY <1>2, <1>3, <1>4, <1>5, <1>6, <1>7, <1>4a DEF Main

\* msg_len is that of the message copied if no byte came in between.
LEMMA LengthKept ==
    ASSUME Buffers, EndLength, msgBuff = rxBuff PROVE msgBuff' = rxBuff
<1>1. Len(rxBuff) \in Nat /\ ~(Len(rxBuff) > Len(msgBuff)) /\ SubSeq(msgBuff, 1, Len(msgBuff)) = msgBuff
  BY SubSeqFull DEF Buffers
<1> QED BY <1>1 DEF EndLength

\* A byte that reaches the receiver is a byte.
LEMMA Received ==
    ASSUME Sending, Next
    PROVE  \/ Main
           \/ BusSend
           \/ \E chr \in Byte : Transfer(chr)
<1>1. line # None => line \in Byte
  BY FrameShape DEF Sending
<1>2. ByteArrives => line \in Byte /\ Transfer(line)
  BY <1>1 DEF ByteArrives, ByteSent
<1>3. ByteSpoiled \/ StrayByte => \E chr \in Byte : Transfer(chr)
  BY DEF ByteSpoiled, ByteSent, StrayByte
<1> QED BY <1>2, <1>3 DEF Next

LEMMA BuffersNext == Sending /\ Buffers /\ [Next]_vars => Buffers'
<1> SUFFICES ASSUME Sending, Buffers, [Next]_vars PROVE Buffers'
  OBVIOUS
<1>1. CASE UNCHANGED vars
  BY <1>1 DEF vars, receiver, Buffers
<1>2. CASE BusSend
  BY <1>2 DEF BusSend, receiver, Buffers
<1>3. CASE Main
  BY <1>3, BuffersMain
<1>4. ASSUME NEW chr \in Byte, Transfer(chr) PROVE Buffers'
  BY <1>4, BuffersReceive DEF Transfer
<1> QED BY <1>1, <1>2, <1>3, <1>4, Received

Clock == TimeOK /\ pc \in Location

LEMMA ClockNext == Sending /\ Clock /\ [Next]_vars => Clock'
<1> SUFFICES ASSUME Sending, Clock, [Next]_vars PROVE Clock'
  OBVIOUS
<1>1. gap \in Nat /\ ticks \in Nat /\ MaxNoise[gap] \in Nat
  BY BowbusAssumption DEF Clock, TimeOK
<1>2. gap' = gap /\ pc' \in Location /\ fresh' \in BOOLEAN
  <2>1. CASE BusSend \/ UNCHANGED vars
    BY <2>1 DEF BusSend, vars, timing, Clock, TimeOK
  <2>2. CASE Main
    BY <2>2 DEF Main, Tick, ClearFlag, EndTest, EndCopy, EndLength, EndCount, EndState, CheckMessage,
                UseMessage, MessageDone, timing, Clock, TimeOK, Location
  <2>3. CASE \E chr \in Byte : Transfer(chr)
    BY <2>3 DEF Transfer, Clock, TimeOK
  <2> QED BY <2>1, <2>2, <2>3, Received
<1>3. ticks' \in 0 .. gap + 1
  <2>1. CASE BusSend \/ UNCHANGED vars
    BY <1>1, <2>1 DEF BusSend, vars, timing, Clock, TimeOK
  <2>2. CASE Main
    BY <1>1, <2>2 DEF Main, Tick, ClearFlag, EndTest, EndCopy, EndLength, EndCount, EndState,
                      CheckMessage, UseMessage, MessageDone, timing, Clock, TimeOK
  <2>3. CASE \E chr \in Byte : Transfer(chr)
    BY <1>1, <2>3 DEF Transfer
  <2> QED BY <2>1, <2>2, <2>3, Received
<1>4. noise' \in 0 .. MaxNoise[gap]
  <2>1. CASE BusSend \/ UNCHANGED vars \/ Main \/ ByteArrives
    <3>1. noise' = noise
      BY <2>1 DEF BusSend, vars, Main, Tick, ClearFlag, EndTest, EndCopy, EndLength, EndCount, EndState,
                  CheckMessage, UseMessage, MessageDone, ByteArrives
    <3> QED BY <3>1 DEF Clock, TimeOK
  <2>2. CASE ByteSpoiled \/ StrayByte
    <3>1. noise < MaxNoise[gap] /\ noise' = noise + 1 /\ noise \in 0 .. MaxNoise[gap]
      BY <2>2 DEF ByteSpoiled, StrayByte, Clock, TimeOK
    <3> QED BY <1>1, <3>1
  <2> QED BY <2>1, <2>2 DEF Next
<1> QED BY <1>2, <1>3, <1>4 DEF Clock, TimeOK

LEMMA HistoryNext ==
    Sending /\ Buffers /\ HistoryOK /\ [Next]_vars => HistoryOK'
<1> SUFFICES ASSUME Sending, Buffers, HistoryOK, [Next]_vars PROVE HistoryOK'
  OBVIOUS
<1>1. <<>> \in Seq(Frames) /\ owed \in Seq(Frames)
  BY DEF HistoryOK
<1>2. CASE BusSend \/ UNCHANGED vars
  BY <1>2 DEF BusSend, vars, history, HistoryOK
<1>3. CASE ByteSpoiled \/ StrayByte
  <2>1. owed' = <<>> /\ checked' = checked
    BY <1>3 DEF ByteSpoiled, StrayByte, ByteSent, Transfer
  <2> QED BY <1>1, <2>1 DEF HistoryOK
<1>4. CASE ByteArrives
  <2>1. checked' = checked /\ txBuff \in Frames
    BY <1>4 DEF ByteArrives, ByteSent, Transfer, Sending
  <2>2. owed' \in Seq(Frames)
    BY <1>1, <1>4, <2>1, AppendProperties DEF ByteArrives
  <2> QED BY <2>1, <2>2 DEF HistoryOK
<1>5. CASE CheckMessage
  BY <1>5 DEF CheckMessage, Buffers, HistoryOK
<1>6. CASE UseMessage
  <2>1. PICK n \in 0 .. Len(owed) : owed' = SubSeq(owed, n + 1, Len(owed))
    BY <1>6 DEF UseMessage, Settle
  <2>2. owed' \in Seq(Frames)
    <3>1. \A i \in n + 1 .. Len(owed) : owed[i] \in Frames
      BY <1>1
    <3> QED BY <1>1, <2>1, <3>1, SubSeqProperties
  <2> QED BY <1>6, <2>2 DEF UseMessage, HistoryOK
<1>7. CASE Tick \/ ClearFlag \/ EndTest \/ EndCopy \/ EndLength \/ EndCount \/ EndState \/ MessageDone
  BY <1>7 DEF Tick, ClearFlag, EndTest, EndCopy, EndLength, EndCount, EndState, MessageDone, history,
              HistoryOK
<1> QED BY <1>2, <1>3, <1>4, <1>5, <1>6, <1>7 DEF Next, Main

\* The parts make up TypeOK.
TypeParts == Sending /\ Buffers /\ Clock /\ HistoryOK /\ damaged \in BOOLEAN

LEMMA PartsInit == Init => TypeParts
<1> SUFFICES ASSUME Init PROVE TypeParts
  OBVIOUS
<1>1. damaged = FALSE /\ rxState = "WAITING"
  BY DEF Init
<1>2. Buffers
  BY <1>1, TypeInit DEF TypeOK, ReceiverOK, Buffers
<1> QED BY <1>1, <1>2, TypeInit, SendingInit DEF TypeParts, TypeOK, ReceiverOK, Clock

LEMMA PartsNext == TypeParts /\ [Next]_vars => TypeParts'
<1> SUFFICES ASSUME TypeParts, [Next]_vars PROVE TypeParts'
  OBVIOUS
<1>1. Sending' /\ Buffers' /\ Clock' /\ HistoryOK'
  BY SendingNext, BuffersNext, ClockNext, HistoryNext DEF TypeParts
<1>2. damaged' \in BOOLEAN
  BY DEF TypeParts, Next, BusSend, ByteArrives, ByteSpoiled, StrayByte, Main, Tick, ClearFlag,
         EndTest, EndCopy, EndLength, EndCount, EndState, CheckMessage, UseMessage, MessageDone,
         vars, sender
<1> QED BY <1>1, <1>2 DEF TypeParts

LEMMA PartsType == TypeParts => TypeOK
<1> SUFFICES ASSUME TypeParts PROVE TypeOK
  OBVIOUS
<1>1. SenderOK
  <2>1. txBuff \in Seq(Byte)
    <3>1. <<>> \in Seq(Byte)
      OBVIOUS
    <3> QED BY <3>1, FrameShape DEF TypeParts, Sending
  <2>2. line \in Byte \cup {None}
    BY FrameShape DEF TypeParts, Sending
  <2> QED BY <2>1, <2>2 DEF TypeParts, Sending, SenderOK, NetState
<1>2. ReceiverOK
  BY DEF TypeParts, Buffers, Clock, ReceiverOK, NetState
<1> QED BY <1>1, <1>2 DEF TypeParts, Clock, TypeOK

(* The variables of both nodes keep their types, for any messages, length   *)
(* of buffer, gaps and noise: the count of the transmit interrupt stays     *)
(* within the message and bus_receive within its buffer.                    *)
THEOREM BowbusTypeCorrect == Spec => []TypeOK
BY PartsInit, PartsNext, PartsType, PTL DEF Spec

-----------------------------------------------------------------------------
(* What is used was checked                                                *)

Quiet == gap >= 1 /\ noise = 0

\* The receiver sees both bytes of an escaped 0x10, or neither as one.
PairsKept ==
    /\ rxState = "ESCAPING" => /\ line # None /\ txState = "WRITING"
                               /\ txCnt = 2 \/ (txCnt >= 3 /\ line = Header)
    /\ txState = "WRITING" /\ line = Header /\ txCnt >= 3 => rxState = "ESCAPING"

\* bus_endmessage works between two messages; of the second no more than one byte
\* arrives before it has done.
EndsBetween ==
    pc \in {"end", "copy", "length", "count", "state"} =>
        line = None \/ txCnt = 1 \/ (txCnt = 2 /\ ticks = 0)

\* The tick finds wait_for_last_char set, unless a message just began.
FreshBegins ==
    fresh /\ (~waitForLastChar \/ pc = "clear") => line # None /\ txCnt = 1

\* Until its second byte arrives, a message finds the one before it used, or handed
\* over just now and its bytes gone.
Begun == line # None /\ txCnt <= 2
UsedBefore ==
    newMessage /\ (CompleteTicks >= 1 \/ Begun) =>
        pc = "count" \/ (pc \in {"state", "check", "use", "done"} /\ rxBuff = <<>>)

InUse == pc = "use" => newMessage /\ msgBuff = checked

\* bus_endmessage finds no message handed over before, and none of the one it copies
\* arrives before it has taken its length.
NoneBefore ==
    newMessage /\ pc \in {"idle", "end", "copy", "length"} => pc = "idle" /\ waitForLastChar
Copied == pc = "length" => msgBuff = rxBuff

QuietInv == Quiet => /\ PairsKept /\ EndsBetween /\ FreshBegins /\ UsedBefore /\ InUse
                     /\ NoneBefore /\ Copied

LEMMA QuietInit == Init => QuietInv
BY DEF Init, QuietInv, PairsKept, EndsBetween, FreshBegins, UsedBefore, InUse, NoneBefore, Copied

\* A message begins.
LEMMA QuietSend ==
    ASSUME TypeParts, Quiet, QuietInv, BusSend PROVE QuietInv'
<1>1. /\ line' = Header /\ line' # None /\ txCnt' = 1 /\ txState' = "WRITING"
      /\ UNCHANGED <<receiver, pc, checked>> /\ line = None /\ CompleteTicks >= gap
  BY FrameShape, Nobody DEF BusSend, history, TypeParts, Sending
<1>2. CompleteTicks >= 1
  BY <1>1, BowbusAssumption DEF Quiet, TypeParts, Clock, TimeOK, CompleteTicks
<1>3. PairsKept'
  BY <1>1 DEF QuietInv, PairsKept, receiver
<1>4. EndsBetween' /\ FreshBegins'
  BY <1>1 DEF EndsBetween, FreshBegins
<1>5. UsedBefore'
  BY <1>1, <1>2 DEF QuietInv, UsedBefore, receiver
<1>6. InUse' /\ NoneBefore' /\ Copied'
  BY <1>1 DEF QuietInv, InUse, NoneBefore, Copied, receiver
<1> QED BY <1>3, <1>4, <1>5, <1>6 DEF QuietInv

\* A byte arrives: the first, the second, or another one.
LEMMA QuietArrives ==
    ASSUME TypeParts, Quiet, QuietInv, ByteArrives PROVE QuietInv'
<1>1. /\ line # None /\ BusReceive(line) /\ TransmitInterrupt
      /\ pc # "idle" => ticks > 0
      /\ ticks' = 0 /\ fresh' = (pc # "clear") /\ UNCHANGED <<pc, checked, gap>>
      /\ waitForLastChar' = TRUE
  BY DEF ByteArrives, ByteSent, Transfer, BusReceive
<1>2. /\ txBuff \in Frames /\ txCnt \in 1 .. Len(txBuff) /\ Len(txBuff) \in Nat
      /\ line = txBuff[txCnt] /\ txState \in {"ESCAPING", "WRITING"}
      /\ txState = "ESCAPING" => line = Header /\ txCnt >= 3
      /\ txBuff[1] = Header /\ txBuff[2] # Header /\ Len(txBuff) >= 2
  BY <1>1, FrameShape DEF TypeParts, Sending
<1>3. rxState \in {"WAITING", "ESCAPING", "READING"}
  BY DEF TypeParts, Buffers
<1>4. PairsKept /\ EndsBetween /\ UsedBefore /\ InUse /\ NoneBefore /\ Copied
  BY DEF QuietInv
<1>5. ~(CompleteTicks' >= 1)
  BY <1>1 DEF CompleteTicks
<1>6. FreshBegins'
  BY <1>1 DEF FreshBegins
<1>7. CASE txCnt = 1
  <2>1. /\ line = Header /\ txState = "WRITING" /\ rxState # "ESCAPING"
        /\ line' = txBuff[2] /\ txCnt' = 2 /\ txState' = "WRITING" /\ line' # Header
    BY <1>1, <1>2, <1>4, <1>7 DEF TransmitInterrupt, PairsKept
  <2>2. line' # None
    BY <1>2, <2>1, FrameShape, Nobody
  <2>3. rxState' = "ESCAPING" /\ UNCHANGED <<rxBuff, msgBuff, newMessage>>
    BY <1>1, <1>3, <2>1 DEF BusReceive
  <2>4. PairsKept'
    BY <2>1, <2>2, <2>3 DEF PairsKept
  <2>5. EndsBetween'
    BY <1>1, <2>1 DEF EndsBetween
  <2>6. UsedBefore'
    BY <1>1, <1>4, <1>7, <2>3 DEF UsedBefore, Begun
  <2>7. InUse' /\ NoneBefore' /\ Copied'
    BY <1>1, <1>4, <2>3 DEF InUse, NoneBefore, Copied
  <2> QED BY <1>6, <2>4, <2>5, <2>6, <2>7 DEF QuietInv
<1>8. CASE txCnt >= 2
  <2>1. pc \notin {"end", "copy", "length", "count", "state"}
    BY <1>1, <1>2, <1>4, <1>8 DEF EndsBetween, TypeParts, Clock, TimeOK
  <2>2. ~Begun'
    BY <1>1, <1>2, <1>8 DEF Begun, TransmitInterrupt
  <2>3. EndsBetween' /\ UsedBefore' /\ NoneBefore' /\ Copied'
    BY <1>1, <1>5, <2>1, <2>2 DEF EndsBetween, UsedBefore, NoneBefore, Copied
  <2>4. PairsKept'
    <3>1. CASE txState = "ESCAPING"
      <4>1. rxState' = "ESCAPING" /\ txState' = "WRITING" /\ line' = Header /\ txCnt' >= 3
        BY <1>1, <1>2, <1>3, <1>4, <3>1 DEF TransmitInterrupt, PairsKept, BusReceive
      <4> QED BY <4>1, Nobody DEF PairsKept
    <3>2. CASE txState = "WRITING"
      <4>1. rxState' # "ESCAPING"
        BY <1>1, <1>2, <1>3, <1>4, <1>8, <3>2 DEF PairsKept, BusReceive
      <4>2. ~(txState' = "WRITING" /\ line' = Header)
        BY <1>1, <1>2, <3>2, Nobody DEF TransmitInterrupt
      <4> QED BY <4>1, <4>2 DEF PairsKept
    <3> QED BY <1>2, <3>1, <3>2
  <2>5. InUse'
    <3>1. CASE pc = "use"
      <4>1. UNCHANGED <<msgBuff, newMessage>>
        <5>1. CASE rxState = "ESCAPING" /\ line # Header
          <6>1. Begun /\ rxBuff = <<>>
            BY <1>1, <1>4, <3>1, <5>1 DEF PairsKept, UsedBefore, InUse, Begun
          <6> QED BY <1>1, <5>1, <6>1 DEF BusReceive, HandOver, HasMessage
        <5>2. CASE ~(rxState = "ESCAPING" /\ line # Header)
          BY <1>1, <1>3, <5>2 DEF BusReceive
        <5> QED BY <5>1, <5>2
      <4> QED BY <1>1, <1>4, <4>1 DEF InUse
    <3>2. CASE pc # "use"
      BY <1>1, <3>2 DEF InUse
    <3> QED BY <3>1, <3>2
  <2> QED BY <1>6, <2>3, <2>4, <2>5 DEF QuietInv
<1> QED BY <1>2, <1>7, <1>8

\* The main loop.
LEMMA QuietMain ==
    ASSUME TypeParts, Quiet, QuietInv, Main PROVE QuietInv'
<1>1. UNCHANGED sender
  BY DEF Main, Tick, ClearFlag, EndTest, EndCopy, EndLength, EndCount, EndState, CheckMessage,
         UseMessage, MessageDone
<1>2. UNCHANGED <<txBuff, txCnt, txState, line>>
  BY <1>1 DEF sender
<1>3. /\ PairsKept /\ EndsBetween /\ FreshBegins /\ UsedBefore /\ InUse
      /\ NoneBefore /\ Copied
  BY DEF QuietInv
<1>4. ticks \in Nat /\ gap \in Nat /\ gap >= 1
  BY BowbusAssumption DEF TypeParts, Clock, TimeOK, Quiet
<1>5. (Begun' <=> Begun)
  BY <1>2 DEF Begun
<1>6. CASE Tick
  <2>1. /\ pc = "idle" /\ fresh' = FALSE /\ UNCHANGED receiver /\ UNCHANGED history
        /\ (line # None => fresh)
        /\ ticks' = IF ticks > gap THEN ticks ELSE ticks + 1
        /\ pc' = IF waitForLastChar THEN "clear" ELSE "end"
    BY <1>6 DEF Tick
  <2>2. PairsKept' /\ InUse' /\ FreshBegins' /\ NoneBefore' /\ Copied'
    BY <1>2, <1>3, <2>1 DEF PairsKept, InUse, FreshBegins, receiver, NoneBefore, Copied
  <2>3. EndsBetween'
    BY <1>2, <1>3, <2>1 DEF EndsBetween, FreshBegins
  <2>4. UsedBefore'
    <3>1. CompleteTicks' >= 1 => CompleteTicks >= 1
      BY <1>4, <2>1 DEF CompleteTicks
    <3> QED BY <1>3, <1>5, <2>1, <3>1 DEF UsedBefore, receiver
  <2> QED BY <2>2, <2>3, <2>4 DEF QuietInv
<1>7. CASE ClearFlag
  <2>1. /\ pc = "clear" /\ pc' = "check" /\ waitForLastChar' = FALSE
        /\ UNCHANGED <<rxBuff, rxState, msgBuff, newMessage, gap, ticks, fresh>>
    BY <1>7 DEF ClearFlag, timing
  <2>2. PairsKept' /\ InUse' /\ EndsBetween' /\ FreshBegins' /\ NoneBefore' /\ Copied'
    BY <1>2, <1>3, <2>1 DEF PairsKept, InUse, EndsBetween, FreshBegins, NoneBefore, Copied
  <2>3. UsedBefore'
    BY <1>3, <1>5, <2>1 DEF UsedBefore, CompleteTicks
  <2> QED BY <2>2, <2>3 DEF QuietInv
<1>8. CASE EndTest
  <2>1. /\ pc = "end" /\ pc' \in {"copy", "check"}
        /\ UNCHANGED <<rxBuff, rxState, msgBuff, newMessage, waitForLastChar, gap, ticks, fresh>>
    BY <1>8 DEF EndTest, timing, receiver
  <2>2. PairsKept' /\ InUse' /\ EndsBetween' /\ FreshBegins' /\ NoneBefore' /\ Copied'
    BY <1>2, <1>3, <2>1 DEF PairsKept, InUse, EndsBetween, FreshBegins, NoneBefore, Copied
  <2>3. UsedBefore'
    BY <1>3, <1>5, <2>1 DEF UsedBefore, CompleteTicks
  <2> QED BY <2>2, <2>3 DEF QuietInv
<1>9. CASE EndCopy
  <2>1. /\ pc = "copy" /\ pc' = "length" /\ msgBuff' = rxBuff
        /\ UNCHANGED <<rxBuff, rxState, waitForLastChar, newMessage, gap, ticks, fresh>>
    BY <1>9 DEF EndCopy, timing
  <2>2. PairsKept' /\ InUse' /\ EndsBetween' /\ FreshBegins' /\ UsedBefore' /\ NoneBefore' /\ Copied'
    BY <1>2, <1>3, <2>1 DEF PairsKept, InUse, EndsBetween, FreshBegins, UsedBefore, NoneBefore, Copied
  <2> QED BY <2>2 DEF QuietInv
<1>9a. CASE EndLength
  <2>1. /\ pc = "length" /\ pc' = "count"
        /\ UNCHANGED <<rxBuff, rxState, waitForLastChar, gap, ticks, fresh>>
    BY <1>9a DEF EndLength, timing
  <2>2. PairsKept' /\ InUse' /\ EndsBetween' /\ FreshBegins' /\ UsedBefore' /\ NoneBefore' /\ Copied'
    BY <1>2, <1>3, <2>1 DEF PairsKept, InUse, EndsBetween, FreshBegins, UsedBefore, NoneBefore, Copied
  <2> QED BY <2>2 DEF QuietInv
<1>10. CASE EndCount
  <2>1. /\ pc = "count" /\ pc' = "state" /\ rxBuff' = <<>>
        /\ UNCHANGED <<rxState, waitForLastChar, gap, ticks, fresh>>
    BY <1>10 DEF EndCount, timing
  <2>2. PairsKept' /\ InUse' /\ EndsBetween' /\ FreshBegins' /\ UsedBefore' /\ NoneBefore' /\ Copied'
    BY <1>2, <1>3, <2>1 DEF PairsKept, InUse, EndsBetween, FreshBegins, UsedBefore, NoneBefore, Copied
  <2> QED BY <2>2 DEF QuietInv
<1>11. CASE EndState
  <2>1. /\ pc = "state" /\ pc' = "check" /\ rxState' = "WAITING"
        /\ UNCHANGED <<rxBuff, newMessage, waitForLastChar, gap, ticks, fresh>>
    BY <1>11 DEF EndState, timing
  <2>2. ~(txState' = "WRITING" /\ line' = Header /\ txCnt' >= 3)
    BY <1>2, <1>3, <2>1, Nobody DEF EndsBetween
  <2>3. PairsKept' /\ InUse' /\ EndsBetween' /\ FreshBegins' /\ NoneBefore' /\ Copied'
    BY <1>2, <1>3, <2>1, <2>2 DEF PairsKept, InUse, EndsBetween, FreshBegins, NoneBefore, Copied
  <2>4. UsedBefore'
    BY <1>3, <1>5, <2>1 DEF UsedBefore, CompleteTicks
  <2> QED BY <2>3, <2>4 DEF QuietInv
<1>12. CASE CheckMessage
  <2>1. /\ pc = "check" /\ checked' = msgBuff
        /\ pc' = (IF ~newMessage THEN "idle" ELSE IF msgBuff \in Frames THEN "use" ELSE "done")
        /\ UNCHANGED <<rxBuff, rxState, msgBuff, newMessage, waitForLastChar, gap, ticks, fresh>>
    BY <1>12 DEF CheckMessage, timing, receiver
  <2>2. PairsKept' /\ EndsBetween' /\ FreshBegins' /\ NoneBefore' /\ Copied'
    BY <1>2, <1>3, <2>1 DEF PairsKept, EndsBetween, FreshBegins, NoneBefore, Copied
  <2>3. InUse'
    BY <2>1 DEF InUse
  <2>4. UsedBefore'
    BY <1>3, <1>5, <2>1 DEF UsedBefore, CompleteTicks
  <2> QED BY <2>2, <2>3, <2>4 DEF QuietInv
<1>13. CASE UseMessage
  <2>1. /\ pc = "use" /\ pc' = "done"
        /\ UNCHANGED <<rxBuff, rxState, msgBuff, newMessage, waitForLastChar, gap, ticks, fresh>>
    BY <1>13 DEF UseMessage, timing, receiver
  <2>2. PairsKept' /\ InUse' /\ EndsBetween' /\ FreshBegins' /\ NoneBefore' /\ Copied'
    BY <1>2, <1>3, <2>1 DEF PairsKept, InUse, EndsBetween, FreshBegins, NoneBefore, Copied
  <2>3. UsedBefore'
    BY <1>3, <1>5, <2>1 DEF UsedBefore, CompleteTicks
  <2> QED BY <2>2, <2>3 DEF QuietInv
<1>14. CASE MessageDone
  <2>1. /\ pc = "done" /\ pc' = "idle" /\ newMessage' = FALSE
        /\ UNCHANGED <<rxBuff, rxState, waitForLastChar, gap, ticks, fresh>>
    BY <1>14 DEF MessageDone, timing
  <2>2. PairsKept' /\ InUse' /\ EndsBetween' /\ FreshBegins' /\ UsedBefore' /\ NoneBefore' /\ Copied'
    BY <1>2, <1>3, <2>1 DEF PairsKept, InUse, EndsBetween, FreshBegins, UsedBefore, NoneBefore, Copied
  <2> QED BY <2>2 DEF QuietInv
<1> QED BY <1>6, <1>7, <1>8, <1>9, <1>10, <1>11, <1>12, <1>13, <1>14, <1>9a DEF Main

\* While noise is 0 there has been none.
LEMMA StaysQuiet ==
    ASSUME TypeParts, Next, Quiet' PROVE Quiet /\ ~ByteSpoiled /\ ~StrayByte
<1>1. gap' = gap /\ noise \in Nat
  BY BowbusAssumption
     DEF TypeParts, Clock, TimeOK, Next, BusSend, ByteArrives, ByteSpoiled, StrayByte, ByteSent,
         Transfer, Main, Tick, ClearFlag, EndTest, EndCopy, EndLength, EndCount, EndState, CheckMessage,
         UseMessage, MessageDone, vars, timing
<1>2. ~ByteSpoiled /\ ~StrayByte
  BY <1>1 DEF Quiet, ByteSpoiled, StrayByte
<1>3. noise' = noise
  BY <1>2 DEF Next, BusSend, ByteArrives, Main, Tick, ClearFlag, EndTest, EndCopy,
              EndLength, EndCount, EndState, CheckMessage, UseMessage, MessageDone
<1> QED BY <1>1, <1>2, <1>3 DEF Quiet

LEMMA QuietNext == TypeParts /\ QuietInv /\ [Next]_vars => QuietInv'
<1> SUFFICES ASSUME TypeParts, QuietInv, [Next]_vars, Quiet' PROVE QuietInv'
  BY DEF QuietInv
<1>1. CASE UNCHANGED vars
  BY <1>1 DEF vars, sender, receiver, timing, history, QuietInv, Quiet, PairsKept,
              EndsBetween, FreshBegins, UsedBefore, CompleteTicks, Begun, InUse, NoneBefore, Copied
<1>2. CASE Next
  BY <1>2, StaysQuiet, QuietSend, QuietArrives, QuietMain DEF Next
<1> QED BY <1>1, <1>2

(* The fields the main loop reads belong to the message whose CRC it has    *)
(* checked, although the receive interrupt may replace the message at any   *)
(* byte: for any messages and any gap of a tick or more, without noise.     *)
THEOREM BowbusUsedWasChecked == Spec => []UsedWasChecked
<1>1. QuietInv => UsedWasChecked
  BY DEF QuietInv, Quiet, InUse, UsedWasChecked
<1> QED BY <1>1, PartsInit, PartsNext, QuietInit, QuietNext, PTL DEF Spec

-----------------------------------------------------------------------------
(* Each message is used once, and in order                                 *)

\* A message is on its way, and the receiver has collected what has arrived of it.
Delivering ==
    /\ owed = <<>> /\ newMessage = FALSE /\ pc \in {"idle", "clear", "end", "check"}
    /\ txCnt <= 2 => rxBuff = <<>> /\ rxState = (IF txCnt = 1 THEN "WAITING" ELSE "ESCAPING")
    /\ txCnt >= 3 => /\ pc # "end" /\ rxBuff = SubSeq(txBuff, 1, txCnt - 1)
                     /\ rxState = IF line = Header /\ txState = "WRITING" THEN "ESCAPING"
                                                                        ELSE "READING"

Nothing ==
    /\ owed = <<>> /\ newMessage = FALSE /\ pc \in {"idle", "clear", "end", "check"}
    /\ rxBuff = <<>> /\ rxState = "WAITING"

\* It has arrived: the first tick clears the flag, the second ends the message.
Arrived ==
    /\ txBuff \in Frames /\ owed = <<txBuff>> /\ newMessage = FALSE
    /\ pc \in {"idle", "clear", "end", "copy", "length", "check"}
    /\ rxBuff = txBuff /\ rxState = "READING"
    /\ \/ ticks = 0
       \/ ticks = 1 /\ (pc = "clear" \/ waitForLastChar = FALSE)
       \/ ticks = 2 /\ pc \in {"end", "copy", "length"}

HandedOver ==
    /\ msgBuff \in Frames /\ owed = <<msgBuff>> /\ newMessage = TRUE /\ ticks <= 2
    /\ \/ pc = "count"
       \/ pc = "state" /\ rxBuff = <<>>
       \/ pc \in {"check", "use"} /\ rxBuff = <<>> /\ rxState = "WAITING"

Used ==
    /\ pc = "done" /\ owed = <<>> /\ ticks <= 2
    /\ rxBuff = <<>> /\ rxState = "WAITING"

OrderInv ==
    Undisturbed => /\ damaged = FALSE
                   /\ line # None => Delivering
                   /\ line = None => Nothing \/ Arrived \/ HandedOver \/ Used

LEMMA OrderInit == Init => OrderInv
BY DEF Init, OrderInv, Nothing

\* One more element of a sequence.
LEMMA OneMoreFrom ==
    ASSUME NEW s \in Seq(Byte), NEW k \in 1 .. Len(s), NEW n \in k - 1 .. Len(s) - 1
    PROVE  /\ SubSeq(s, k, n) \in Seq(Byte) /\ Len(SubSeq(s, k, n)) = n + 1 - k
           /\ Append(SubSeq(s, k, n), s[n + 1]) = SubSeq(s, k, n + 1)
<1>1. Len(s) \in Nat /\ k \in Nat /\ k >= 1 /\ n \in Nat /\ n + 1 - k \in Nat /\ n + 1 \in 1 .. Len(s)
  OBVIOUS
<1> DEFINE front == SubSeq(s, k, n)
           more == SubSeq(s, k, n + 1)
           m == n + 1 - k
<1>2. front \in Seq(Byte) /\ Len(front) = m /\ \A i \in 1 .. m : front[i] = s[k + i - 1]
  BY <1>1
<1>3. more \in Seq(Byte) /\ Len(more) = m + 1 /\ \A i \in 1 .. m + 1 : more[i] = s[k + i - 1]
  BY <1>1
<1>4. s[n + 1] \in Byte /\ m \in Nat /\ k + (m + 1) - 1 = n + 1
  BY <1>1
<1> HIDE DEF front, more, m
<1>5. /\ Append(front, s[n + 1]) \in Seq(Byte) /\ Len(Append(front, s[n + 1])) = m + 1
      /\ \A i \in 1 .. m : Append(front, s[n + 1])[i] = front[i]
      /\ Append(front, s[n + 1])[m + 1] = s[n + 1]
  BY <1>2, <1>4, AppendProperties
<1>6. \A i \in 1 .. m + 1 : Append(front, s[n + 1])[i] = more[i]
  <2> SUFFICES ASSUME NEW i \in 1 .. m + 1 PROVE Append(front, s[n + 1])[i] = more[i]
    OBVIOUS
  <2>1. CASE i \in 1 .. m
    BY <1>2, <1>3, <1>5, <2>1
  <2>2. CASE i = m + 1
    BY <1>3, <1>4, <1>5, <2>2
  <2>3. i \in 1 .. m \/ i = m + 1
    BY <1>4
  <2> QED BY <2>1, <2>2, <2>3
<1>7. Append(front, s[n + 1]) = more
  BY <1>3, <1>5, <1>6, SeqEqual
<1> QED BY <1>2, <1>7 DEF front, more, m

LEMMA OneMore ==
    ASSUME NEW s \in Seq(Byte), NEW k \in 0 .. Len(s) - 1
    PROVE  /\ SubSeq(s, 1, k) \in Seq(Byte) /\ Len(SubSeq(s, 1, k)) = k
           /\ Append(SubSeq(s, 1, k), s[k + 1]) = SubSeq(s, 1, k + 1)
<1>1. 1 \in 1 .. Len(s) /\ k \in 1 - 1 .. Len(s) - 1 /\ k + 1 - 1 = k
  OBVIOUS
<1> QED BY <1>1, OneMoreFrom

LEMMA OrderSend ==
    ASSUME TypeParts, Undisturbed, OrderInv, BusSend PROVE OrderInv'
<1>1. /\ line' # None /\ txCnt' = 1 /\ damaged' = FALSE
      /\ UNCHANGED <<rxBuff, rxState, newMessage, pc, owed>>
      /\ line = None /\ CompleteTicks >= gap
  BY FrameShape, Nobody DEF BusSend, history, receiver, TypeParts, Sending
<1>2. ticks \in Nat /\ gap \in Nat /\ gap >= 2
  BY BowbusAssumption DEF TypeParts, Clock, TimeOK, Undisturbed
<1>3. Nothing
  <2>1. ~Arrived
    BY <1>1, <1>2 DEF Arrived, CompleteTicks
  <2>2. ~HandedOver /\ ~Used
    BY <1>1, <1>2 DEF HandedOver, Used, CompleteTicks
  <2> QED BY <1>1, <2>1, <2>2 DEF OrderInv
<1>4. Delivering'
  BY <1>1, <1>3 DEF Nothing, Delivering
<1> QED BY <1>1, <1>4 DEF OrderInv

\* The byte on the line is the last of the message, or not.
LEMMA OrderCollect ==
    ASSUME TypeParts, Undisturbed, OrderInv, ByteArrives,
           txState = "WRITING", txCnt >= 2, pc # "end",
           rxBuff' = SubSeq(txBuff, 1, txCnt), rxState' = "READING", newMessage' = FALSE
    PROVE  OrderInv'
<1>1. /\ line # None /\ TransmitInterrupt /\ ticks' = 0 /\ pc' = pc
      /\ owed' = IF line' = None /\ ~damaged THEN Append(owed, txBuff) ELSE owed
      /\ damaged' = damaged
  BY DEF ByteArrives, ByteSent, Transfer
<1>2. damaged = FALSE /\ Delivering
  BY <1>1 DEF OrderInv
<1>3. /\ txBuff \in Frames /\ txBuff' = txBuff /\ txCnt \in 2 .. Len(txBuff)
      /\ Len(txBuff) \in Nat
  BY <1>1, FrameShape DEF TypeParts, Sending, TransmitInterrupt
<1>4. txBuff \in Seq(Byte) /\ \A i \in 1 .. Len(txBuff) : txBuff[i] # None
  BY <1>3, FrameShape, Nobody
<1>5. CASE txCnt < Len(txBuff)
  <2>1. /\ txCnt' = txCnt + 1 /\ line' = txBuff[txCnt + 1]
        /\ txState' = IF line' = Header THEN "ESCAPING" ELSE "WRITING"
    BY <1>1, <1>3, <1>5 DEF TransmitInterrupt
  <2>2. line' # None
    BY <1>3, <1>4, <1>5, <2>1
  <2>3. owed' = <<>>
    BY <1>1, <1>2, <2>2 DEF Delivering
  <2>4. txCnt' >= 3 /\ txCnt' - 1 = txCnt /\ ~(txCnt' <= 2)
    BY <1>3, <2>1
  <2>5. rxBuff' = SubSeq(txBuff', 1, txCnt' - 1)
    BY <1>3, <2>4
  <2>6. rxState' = IF line' = Header /\ txState' = "WRITING" THEN "ESCAPING" ELSE "READING"
    BY <2>1
  <2>7. pc' \in {"idle", "clear", "end", "check"} /\ pc' # "end"
    BY <1>1, <1>2 DEF Delivering
  <2>8. Delivering'
    BY <2>3, <2>4, <2>5, <2>6, <2>7 DEF Delivering
  <2> QED BY <1>1, <1>2, <2>2, <2>8 DEF OrderInv
<1>6. CASE txCnt = Len(txBuff)
  <2>1. line' = None
    BY <1>1, <1>3, <1>6 DEF TransmitInterrupt
  <2>2. owed' = <<txBuff>>
    <3>1. owed' = Append(<<>>, txBuff)
      BY <1>1, <1>2, <2>1 DEF Delivering
    <3> QED BY <3>1
  <2>3. rxBuff' = txBuff
    BY <1>4, <1>6, SubSeqFull
  <2>4. pc' \in {"idle", "clear", "end", "copy", "length", "check"}
    BY <1>1, <1>2 DEF Delivering
  <2>5. Arrived'
    BY <1>1, <1>3, <2>2, <2>3, <2>4 DEF Arrived
  <2> QED BY <1>1, <1>2, <2>1, <2>5 DEF OrderInv
<1> QED BY <1>3, <1>5, <1>6

LEMMA OrderArrives ==
    ASSUME TypeParts, Undisturbed, QuietInv, OrderInv, ByteArrives PROVE OrderInv'
<1>1. /\ line # None /\ BusReceive(line) /\ TransmitInterrupt /\ ticks' = 0 /\ pc' = pc
      /\ (pc # "idle" => ticks > 0)
      /\ owed' = IF line' = None /\ ~damaged THEN Append(owed, txBuff) ELSE owed
      /\ damaged' = damaged
  BY DEF ByteArrives, ByteSent, Transfer
<1>2. damaged = FALSE /\ Delivering
  BY <1>1 DEF OrderInv
<1>3. /\ txBuff \in Frames /\ txBuff \in Seq(Byte) /\ txBuff' = txBuff
      /\ txCnt \in 1 .. Len(txBuff) /\ Len(txBuff) \in Nat
      /\ line = txBuff[txCnt] /\ txState \in {"ESCAPING", "WRITING"}
      /\ txState = "ESCAPING" => line = Header /\ txCnt >= 3
      /\ txBuff[1] = Header /\ txBuff[2] # Header /\ Len(txBuff) >= 2 /\ Len(txBuff) < RxMax
  BY <1>1, FrameShape DEF TypeParts, Sending, TransmitInterrupt
<1>4. RxMax \in Nat
  BY Nobody
<1>5. CASE txCnt = 1
  <2>1. /\ line = Header /\ txState = "WRITING" /\ rxState = "WAITING" /\ rxBuff = <<>>
        /\ line' = txBuff[2] /\ txCnt' = 2 /\ txState' = "WRITING"
    BY <1>1, <1>2, <1>3, <1>5 DEF TransmitInterrupt, Delivering
  <2>2. line' # None
    BY <1>3, <2>1, FrameShape, Nobody
  <2>3. rxState' = "ESCAPING" /\ UNCHANGED <<rxBuff, newMessage>>
    BY <1>1, <2>1 DEF BusReceive
  <2>4. owed' = owed
    BY <1>1, <2>2
  <2>5. Delivering'
    BY <1>1, <1>2, <2>1, <2>3, <2>4 DEF Delivering
  <2> QED BY <1>1, <1>2, <2>2, <2>5 DEF OrderInv
<1>6. pc # "end" \/ txCnt = 1
  <2>1. EndsBetween
    BY BowbusAssumption DEF QuietInv, Quiet, Undisturbed, TypeParts, Clock, TimeOK
  <2> QED BY <1>1, <2>1 DEF EndsBetween
<1>7. CASE txCnt = 2
  <2>1. rxState = "ESCAPING" /\ rxBuff = <<>> /\ line # Header /\ txState = "WRITING"
    BY <1>2, <1>3, <1>7 DEF Delivering
  <2>2. rxBuff' = <<Header, line>> /\ rxState' = "READING" /\ HandOver
    BY <1>1, <2>1 DEF BusReceive
  <2>3. newMessage' = FALSE
    BY <1>2, <2>1, <2>2 DEF HandOver, HasMessage, Delivering
  <2>4. <<Header, line>> = SubSeq(txBuff, 1, 2)
    <3>1. /\ SubSeq(txBuff, 1, 2) \in Seq(Byte) /\ Len(SubSeq(txBuff, 1, 2)) = 2
          /\ SubSeq(txBuff, 1, 2)[1] = Header /\ SubSeq(txBuff, 1, 2)[2] = line
      BY <1>3, <1>7
    <3>2. <<Header, line>> \in Seq(Byte) /\ Len(<<Header, line>>) = 2
      BY <1>3, <1>7, Nobody
    <3>3. \A i \in 1 .. 2 : <<Header, line>>[i] = SubSeq(txBuff, 1, 2)[i]
      BY <3>1
    <3> QED BY <3>1, <3>2, <3>3, SeqEqual
  <2>5. rxBuff' = SubSeq(txBuff, 1, txCnt)
    BY <1>7, <2>2, <2>4
  <2>6. txCnt >= 2 /\ pc # "end" /\ txState = "WRITING" /\ rxState' = "READING"
    BY <1>6, <1>7, <2>1, <2>2
  <2> QED BY <2>3, <2>5, <2>6, OrderCollect
<1>8. CASE txCnt >= 3 /\ txState = "ESCAPING"
  <2>1. /\ line' = Header /\ line' # None /\ txState' = "WRITING" /\ txCnt' = txCnt
        /\ rxState = "READING" /\ line = Header /\ rxBuff = SubSeq(txBuff, 1, txCnt - 1)
    BY <1>1, <1>2, <1>3, <1>8, Nobody DEF TransmitInterrupt, Delivering
  <2>2. rxState' = "ESCAPING" /\ UNCHANGED <<rxBuff, newMessage>>
    BY <1>1, <2>1 DEF BusReceive
  <2>3. owed' = owed
    BY <1>1, <2>1
  <2>4. Delivering'
    BY <1>1, <1>2, <1>3, <1>8, <2>1, <2>2, <2>3 DEF Delivering
  <2> QED BY <1>1, <1>2, <2>1, <2>4 DEF OrderInv
<1>9. CASE txCnt >= 3 /\ txState = "WRITING"
  <2>1. /\ rxBuff = SubSeq(txBuff, 1, txCnt - 1) /\ newMessage = FALSE
        /\ rxState = IF line = Header THEN "ESCAPING" ELSE "READING"
    BY <1>2, <1>9 DEF Delivering
  <2>2. Collect(line) /\ rxState' = "READING" /\ UNCHANGED newMessage
    <3>1. CASE line = Header
      BY <1>1, <2>1, <3>1 DEF BusReceive
    <3>2. CASE line # Header
      BY <1>1, <2>1, <3>2 DEF BusReceive
    <3> QED BY <3>1, <3>2
  <2>3. /\ txCnt - 1 \in 0 .. Len(txBuff) - 1 /\ txCnt - 1 + 1 = txCnt
    BY <1>3
  <2>4. Len(rxBuff) = txCnt - 1 /\ Append(rxBuff, line) = SubSeq(txBuff, 1, txCnt)
    BY <1>3, <2>1, <2>3, OneMore
  <2>5. rxBuff' = SubSeq(txBuff, 1, txCnt)
    <3>1. Fits
      BY <1>3, <1>4, <2>4 DEF Fits
    <3> QED BY <2>2, <2>4, <3>1 DEF Collect
  <2>6. txCnt >= 2 /\ pc # "end" /\ txState = "WRITING"
    BY <1>2, <1>3, <1>9 DEF Delivering
  <2>7. rxState' = "READING" /\ newMessage' = FALSE
    BY <2>1, <2>2
  <2> QED BY <2>5, <2>6, <2>7, OrderCollect
<1> QED BY <1>3, <1>5, <1>7, <1>8, <1>9

\* The main loop deals with a tick.
LEMMA OrderMain ==
    ASSUME TypeParts, Undisturbed, QuietInv, OrderInv, Main PROVE OrderInv'
<1>1. UNCHANGED sender
  BY DEF Main, Tick, ClearFlag, EndTest, EndCopy, EndLength, EndCount, EndState, CheckMessage,
         UseMessage, MessageDone
<1>2. UNCHANGED <<txBuff, txCnt, txState, line, damaged>>
  BY <1>1 DEF sender
<1>3. /\ damaged = FALSE
      /\ line # None => Delivering
      /\ line = None => Nothing \/ Arrived \/ HandedOver \/ Used
  BY DEF OrderInv
<1>4. ticks \in Nat /\ gap \in Nat /\ gap >= 2
  BY BowbusAssumption DEF TypeParts, Clock, TimeOK, Undisturbed
<1>5. line # None => txCnt \in Nat /\ FreshBegins
  BY FrameShape, <1>4 DEF TypeParts, Sending, QuietInv, Quiet, Undisturbed
<1>6. ASSUME \/ line # None /\ Delivering'
             \/ line = None /\ (Nothing' \/ Arrived' \/ HandedOver' \/ Used')
      PROVE  OrderInv'
  BY <1>2, <1>3, <1>6 DEF OrderInv
<1>7. CASE Tick
  <2>1. /\ pc = "idle"
        /\ line # None => fresh
        /\ UNCHANGED <<rxBuff, rxState, waitForLastChar, msgBuff, newMessage, owed>>
        /\ ticks' = (IF ticks > gap THEN ticks ELSE ticks + 1)
        /\ pc' = (IF waitForLastChar THEN "clear" ELSE "end")
    BY <1>7 DEF Tick, receiver, history
  <2>2. CASE line # None
    <3>1. ~waitForLastChar => txCnt = 1
      BY <1>5, <2>1, <2>2 DEF FreshBegins
    <3>2. Delivering'
      BY <1>2, <1>3, <1>5, <2>1, <2>2, <3>1 DEF Delivering
    <3> QED BY <1>6, <2>2, <3>2
  <2>3. CASE line = None
    <3>1. ~HandedOver /\ ~Used
      BY <2>1 DEF HandedOver, Used
    <3>2. CASE Nothing
      <4>1. Nothing'
        BY <2>1, <3>2 DEF Nothing
      <4> QED BY <1>6, <2>3, <4>1
    <3>3. CASE Arrived
      <4>1. ticks <= 1 /\ ticks' = ticks + 1
        BY <1>4, <2>1, <3>3 DEF Arrived
      <4>2. \/ ticks' = 1 /\ (pc' = "clear" \/ waitForLastChar' = FALSE)
            \/ ticks' = 2 /\ pc' = "end"
        BY <1>4, <2>1, <3>3, <4>1 DEF Arrived, TypeParts, Buffers
      <4>3. Arrived'
        BY <1>2, <2>1, <3>3, <4>2 DEF Arrived
      <4> QED BY <1>6, <2>3, <4>3
    <3> QED BY <1>3, <2>3, <3>1, <3>2, <3>3
  <2> QED BY <2>2, <2>3
<1>8. CASE ClearFlag
  <2>1. /\ pc = "clear" /\ pc' = "check" /\ waitForLastChar' = FALSE
        /\ UNCHANGED <<rxBuff, rxState, msgBuff, newMessage, owed, ticks>>
    BY <1>8 DEF ClearFlag, timing, history
  <2>2. Delivering => Delivering'
    BY <1>2, <2>1 DEF Delivering
  <2>3. Nothing => Nothing'
    BY <2>1 DEF Nothing
  <2>4. Arrived => Arrived'
    BY <1>2, <2>1 DEF Arrived
  <2>5. ~HandedOver /\ ~Used
    BY <2>1 DEF HandedOver, Used
  <2> QED BY <1>3, <1>6, <2>2, <2>3, <2>4, <2>5
<1>9. CASE EndTest
  <2>1. /\ pc = "end" /\ pc' = (IF rxState # "WAITING" /\ HasMessage THEN "copy" ELSE "check")
        /\ UNCHANGED <<rxBuff, rxState, waitForLastChar, msgBuff, newMessage, owed, ticks>>
    BY <1>9 DEF EndTest, receiver, timing, history
  <2>2. Delivering /\ line # None => Delivering'
    <3>1. Delivering /\ line # None => pc' = "check"
      BY <1>5, <2>1 DEF Delivering, HasMessage
    <3> QED BY <1>2, <2>1, <3>1 DEF Delivering
  <2>3. Nothing => Nothing'
    BY <2>1 DEF Nothing
  <2>4. Arrived => Arrived'
    <3>1. ASSUME Arrived PROVE pc' = "copy"
      <4>1. rxBuff \in Frames /\ rxState = "READING"
        BY <3>1 DEF Arrived
      <4>2. Fits /\ rxBuff # <<>>
        BY <4>1, FrameShape, Nobody DEF Fits
      <4> QED BY <2>1, <4>1, <4>2 DEF HasMessage
    <3> QED BY <1>2, <2>1, <3>1 DEF Arrived
  <2>5. ~HandedOver /\ ~Used
    BY <2>1 DEF HandedOver, Used
  <2> QED BY <1>3, <1>6, <2>2, <2>3, <2>4, <2>5
<1>10. CASE EndCopy
  <2>1. /\ pc = "copy" /\ pc' = "length"
        /\ UNCHANGED <<rxBuff, rxState, waitForLastChar, newMessage, owed, ticks>>
    BY <1>10 DEF EndCopy, timing, history
  <2>2. ~Delivering /\ ~Nothing /\ ~HandedOver /\ ~Used
    BY <2>1 DEF Delivering, Nothing, HandedOver, Used
  <2>3. Arrived => Arrived'
    BY <1>2, <2>1 DEF Arrived
  <2> QED BY <1>3, <1>6, <2>2, <2>3
<1>10a. CASE EndLength
  <2>1. /\ pc = "length" /\ pc' = "count" /\ newMessage' = TRUE
        /\ UNCHANGED <<rxBuff, rxState, waitForLastChar, owed, ticks>>
    BY <1>10a DEF EndLength, timing, history
  <2>2. ~Delivering /\ ~Nothing /\ ~HandedOver /\ ~Used
    BY <2>1 DEF Delivering, Nothing, HandedOver, Used
  <2>3. msgBuff' = rxBuff
    <3>1. Copied
      BY <1>4 DEF QuietInv, Quiet, Undisturbed
    <3> QED BY <1>10a, <2>1, <3>1, LengthKept DEF TypeParts, Copied
  <2>4. Arrived => HandedOver'
    BY <1>4, <2>1, <2>3 DEF Arrived, HandedOver
  <2> QED BY <1>3, <1>6, <2>2, <2>4
<1>11. CASE EndCount
  <2>1. /\ pc = "count" /\ pc' = "state" /\ rxBuff' = <<>>
        /\ UNCHANGED <<rxState, waitForLastChar, msgBuff, newMessage, owed, ticks>>
    BY <1>11 DEF EndCount, timing, history
  <2>2. ~Delivering /\ ~Nothing /\ ~Arrived /\ ~Used
    BY <2>1 DEF Delivering, Nothing, Arrived, Used
  <2>3. HandedOver => HandedOver'
    BY <2>1 DEF HandedOver
  <2> QED BY <1>3, <1>6, <2>2, <2>3
<1>12. CASE EndState
  <2>1. /\ pc = "state" /\ pc' = "check" /\ rxState' = "WAITING"
        /\ UNCHANGED <<rxBuff, waitForLastChar, msgBuff, newMessage, owed, ticks>>
    BY <1>12 DEF EndState, timing, history
  <2>2. ~Delivering /\ ~Nothing /\ ~Arrived /\ ~Used
    BY <2>1 DEF Delivering, Nothing, Arrived, Used
  <2>3. HandedOver => HandedOver'
    BY <2>1 DEF HandedOver
  <2> QED BY <1>3, <1>6, <2>2, <2>3
<1>13. CASE CheckMessage
  <2>1. /\ pc = "check"
        /\ pc' = (IF ~newMessage THEN "idle" ELSE IF msgBuff \in Frames THEN "use" ELSE "done")
        /\ UNCHANGED <<rxBuff, rxState, waitForLastChar, msgBuff, newMessage, owed, ticks>>
    BY <1>13 DEF CheckMessage, receiver, timing
  <2>2. Delivering => Delivering'
    BY <1>2, <2>1 DEF Delivering
  <2>3. Nothing => Nothing'
    BY <2>1 DEF Nothing
  <2>4. Arrived => Arrived'
    BY <1>2, <2>1 DEF Arrived
  <2>5. HandedOver => HandedOver'
    BY <2>1 DEF HandedOver
  <2>6. ~Used
    BY <2>1 DEF Used
  <2> QED BY <1>3, <1>6, <2>2, <2>3, <2>4, <2>5, <2>6
<1>14. CASE UseMessage
  <2>1. /\ pc = "use" /\ pc' = "done" /\ Settle(msgBuff)
        /\ UNCHANGED <<rxBuff, rxState, waitForLastChar, msgBuff, newMessage, ticks>>
    BY <1>14 DEF UseMessage, receiver, timing
  <2>2. ~Delivering /\ ~Nothing /\ ~Arrived /\ ~Used
    BY <2>1 DEF Delivering, Nothing, Arrived, Used
  <2>3. ASSUME HandedOver PROVE Used'
    <3>1. owed = <<msgBuff>> /\ ticks <= 2 /\ rxBuff = <<>> /\ rxState = "WAITING"
      BY <2>1, <2>3 DEF HandedOver
    <3>2. owed' = <<>>
      <4>1. Len(owed) = 1 /\ owed[1] = msgBuff /\ DOMAIN owed = 1 .. 1
        BY <3>1
      <4>2. PICK n \in 0 .. Len(owed) :
                /\ n = 0 => \A i \in DOMAIN owed : owed[i] # msgBuff
                /\ owed' = SubSeq(owed, n + 1, Len(owed))
        BY <2>1 DEF Settle
      <4>3. n = 1
        BY <4>1, <4>2
      <4>4. owed' = SubSeq(owed, 2, 1)
        BY <4>1, <4>2, <4>3
      <4> QED BY <3>1, <4>4
    <3> QED BY <2>1, <3>1, <3>2 DEF Used
  <2> QED BY <1>3, <1>6, <2>2, <2>3
<1>15. CASE MessageDone
  <2>1. /\ pc = "done" /\ pc' = "idle" /\ newMessage' = FALSE
        /\ UNCHANGED <<rxBuff, rxState, waitForLastChar, owed, ticks>>
    BY <1>15 DEF MessageDone, timing, history
  <2>2. ~Delivering /\ ~Nothing /\ ~Arrived /\ ~HandedOver
    BY <2>1 DEF Delivering, Nothing, Arrived, HandedOver
  <2>3. Used => Nothing'
    BY <2>1 DEF Used, Nothing
  <2> QED BY <1>3, <1>6, <2>2, <2>3
<1> QED BY <1>7, <1>8, <1>9, <1>10, <1>11, <1>12, <1>13, <1>14, <1>15, <1>10a DEF Main

LEMMA OrderNext == TypeParts /\ QuietInv /\ OrderInv /\ [Next]_vars => OrderInv'
<1> SUFFICES ASSUME TypeParts, QuietInv, OrderInv, [Next]_vars, Undisturbed' PROVE OrderInv'
  BY DEF OrderInv
<1>1. gap' = gap /\ noise \in Nat
  BY BowbusAssumption
     DEF TypeParts, Clock, TimeOK, Next, BusSend, ByteArrives, ByteSpoiled, StrayByte, ByteSent,
         Transfer, Main, Tick, ClearFlag, EndTest, EndCopy, EndLength, EndCount, EndState, CheckMessage,
         UseMessage, MessageDone, vars, timing
<1>2. ~ByteSpoiled /\ ~StrayByte
  BY <1>1 DEF Undisturbed, ByteSpoiled, StrayByte
<1>3. CASE UNCHANGED vars
  BY <1>3 DEF vars, sender, receiver, timing, history, OrderInv, Undisturbed, Delivering,
              Nothing, Arrived, HandedOver, Used
<1>4. CASE Next
  <2>1. noise' = noise
    BY <1>2, <1>4 DEF Next, BusSend, ByteArrives, Main, Tick, ClearFlag, EndTest, EndCopy,
                      EndLength, EndCount, EndState, CheckMessage, UseMessage, MessageDone
  <2>2. Undisturbed
    BY <1>1, <2>1 DEF Undisturbed
  <2> QED BY <1>2, <1>4, <2>2, OrderSend, OrderArrives, OrderMain DEF Next
<1> QED BY <1>3, <1>4

(* Messages two ticks apart are used each once and in order, and before the *)
(* next one begins, although nothing but the silence after it tells         *)
(* bus_endmessage that a message is complete: for any messages, without     *)
(* noise.                                                                   *)
THEOREM BowbusInOrder == Spec => []InOrder
<1>1. OrderInv => InOrder
  <2> SUFFICES ASSUME OrderInv PROVE InOrder
    OBVIOUS
  <2>1. ASSUME Undisturbed, pc = "use" PROVE owed # <<>> /\ msgBuff = Head(owed)
    <3>1. HandedOver
      BY <2>1 DEF OrderInv, Delivering, Nothing, Arrived, Used
    <3>2. owed = <<msgBuff>>
      BY <3>1 DEF HandedOver
    <3> QED BY <3>2
  <2>2. ASSUME Undisturbed, line # None PROVE owed = <<>>
    BY <2>2 DEF OrderInv, Delivering
  <2> QED BY <2>1, <2>2 DEF InOrder
<1> QED BY <1>1, PartsInit, PartsNext, QuietInit, QuietNext, OrderInit, OrderNext, PTL DEF Spec

-----------------------------------------------------------------------------
(* What is used was sent                                                   *)

\* While a message is on its way the receiver holds nothing, what has arrived of it,
\* or that from an escaped 0x10 on, if it has missed the first.
Collecting ==
    /\ rxState = "WAITING" \/ pc = "state" => rxBuff = <<>>
    /\ rxState = "READING" => rxBuff # <<>> \/ pc = "state"
    /\ line # None /\ txCnt = 2 => rxState # "READING"
    /\ line # None /\ txCnt >= 3 =>
          \/ rxBuff = <<>>
          \/ \E k \in {1} \cup 3 .. txCnt - 1 :
                txBuff[k] = Header /\ rxBuff = SubSeq(txBuff, k, txCnt - 1)

\* A whole message that is not handed over yet is the one that came last.
Held == (line = None \/ txCnt <= 2) /\ pc # "count" /\ rxBuff \in Frames
HeldIsLast == Held => owed # <<>> /\ owed[Len(owed)] = rxBuff

\* One that is handed over is owed, and came before it.
HandedIsOwed ==
    newMessage /\ pc # "done" /\ msgBuff \in Frames =>
        \E i \in DOMAIN owed : owed[i] = msgBuff /\ (Held => i < Len(owed))

UseIsFrame == pc = "use" => checked \in Frames

SentInv == Quiet => ~damaged /\ Collecting /\ HeldIsLast /\ HandedIsOwed /\ UseIsFrame

LEMMA SentInit == Init => SentInv
<1> SUFFICES ASSUME Init PROVE SentInv
  OBVIOUS
<1>1. rxBuff \notin Frames
  BY FrameShape DEF Init
<1> QED BY <1>1 DEF Init, SentInv, Collecting, Held, HeldIsLast, HandedIsOwed, UseIsFrame

\* What follows when nothing is sent, received or handed over.
LEMMA SentSame ==
    ASSUME SentInv, Quiet, UNCHANGED <<rxBuff, txBuff, txCnt, line, damaged, owed>>,
           rxState' = rxState, {pc, pc'} \cap {"count", "state"} = {},
           newMessage' /\ pc' # "done" => newMessage /\ pc # "done" /\ msgBuff' = msgBuff,
           UseIsFrame'
    PROVE  SentInv'
<1>1. ~damaged' /\ Collecting'
  BY DEF SentInv, Collecting
<1>2. Held' <=> Held
  BY DEF Held
<1>3. HeldIsLast' /\ HandedIsOwed'
  BY <1>2 DEF SentInv, HeldIsLast, HandedIsOwed
<1> QED BY <1>1, <1>3 DEF SentInv

LEMMA SentSend ==
    ASSUME TypeParts, Quiet, SentInv, BusSend PROVE SentInv'
<1>1. /\ line' # None /\ txCnt' = 1 /\ damaged' = FALSE /\ line = None
      /\ UNCHANGED <<rxBuff, rxState, msgBuff, newMessage, pc, owed, checked>>
  BY FrameShape, Nobody DEF BusSend, history, receiver, TypeParts, Sending
<1>2. Held' <=> Held
  BY <1>1 DEF Held
<1>3. Collecting'
  BY <1>1 DEF SentInv, Collecting
<1>4. HeldIsLast' /\ HandedIsOwed' /\ UseIsFrame'
  BY <1>1, <1>2 DEF SentInv, HeldIsLast, HandedIsOwed, UseIsFrame
<1> QED BY <1>1, <1>3, <1>4 DEF SentInv

\* The main loop deals with a tick.
LEMMA SentMain ==
    ASSUME TypeParts, Quiet, QuietInv, SentInv, Main PROVE SentInv'
<1>1. UNCHANGED sender
  BY DEF Main, Tick, ClearFlag, EndTest, EndCopy, EndLength, EndCount, EndState, CheckMessage,
         UseMessage, MessageDone
<1>2. UNCHANGED <<txBuff, txCnt, txState, line, damaged>>
  BY <1>1 DEF sender
<1>3. ~damaged /\ Collecting /\ HeldIsLast /\ HandedIsOwed /\ UseIsFrame
  BY DEF SentInv
<1>4. EndsBetween /\ InUse /\ (line # None => txCnt \in Nat)
  BY FrameShape DEF QuietInv, TypeParts, Sending
<1>5. CASE Tick \/ ClearFlag \/ EndTest
  <2>1. /\ UNCHANGED <<rxBuff, rxState, msgBuff, newMessage, owed, checked>>
        /\ pc \in {"idle", "clear", "end"} /\ pc' \in {"clear", "end", "copy", "check"}
    BY <1>5 DEF Tick, ClearFlag, EndTest, receiver, history
  <2>2. UseIsFrame'
    BY <2>1 DEF UseIsFrame
  <2> QED BY <1>2, <2>1, <2>2, SentSame
<1>5a. CASE EndCopy
  <2>1. /\ pc = "copy" /\ pc' = "length"
        /\ UNCHANGED <<rxBuff, rxState, newMessage, owed, checked>>
    BY <1>5a DEF EndCopy, history
  <2>2. ~newMessage
    BY <2>1 DEF QuietInv, NoneBefore
  <2>3. UseIsFrame'
    BY <2>1 DEF UseIsFrame
  <2> QED BY <1>2, <2>1, <2>2, <2>3, SentSame
<1>6. CASE EndLength
  <2>1. /\ pc = "length" /\ pc' = "count" /\ newMessage' = TRUE
        /\ UNCHANGED <<rxBuff, rxState, owed, checked>>
    BY <1>6 DEF EndLength, history
  <2>6. msgBuff' = rxBuff
    BY <1>6, <2>1, LengthKept DEF QuietInv, Copied, TypeParts
  <2>2. line = None \/ txCnt <= 2
    BY <1>4, <2>1 DEF EndsBetween
  <2>3. ~Held' /\ HeldIsLast' /\ UseIsFrame'
    BY <2>1 DEF Held, HeldIsLast, UseIsFrame
  <2>4. HandedIsOwed'
    <3>1. ASSUME rxBuff \in Frames PROVE \E i \in DOMAIN owed : owed[i] = rxBuff
      <4>1. owed # <<>> /\ owed[Len(owed)] = rxBuff
        BY <1>3, <2>1, <2>2, <3>1 DEF HeldIsLast, Held
      <4>2. Len(owed) \in DOMAIN owed
        BY <4>1 DEF TypeParts, HistoryOK
      <4> QED BY <4>1, <4>2
    <3> QED BY <2>1, <2>3, <2>6, <3>1 DEF HandedIsOwed
  <2>5. Collecting'
    BY <1>2, <1>3, <2>1 DEF Collecting
  <2> QED BY <1>2, <1>3, <2>3, <2>4, <2>5 DEF SentInv
<1>7. CASE EndCount
  <2>1. /\ pc = "count" /\ pc' = "state" /\ rxBuff' = <<>>
        /\ UNCHANGED <<rxState, msgBuff, newMessage, owed, checked>>
    BY <1>7 DEF EndCount, history
  <2>2. rxBuff' \notin Frames
    BY <2>1, FrameShape
  <2>3. ~Held' /\ HeldIsLast' /\ UseIsFrame' /\ Collecting'
    BY <1>2, <1>3, <2>1, <2>2 DEF Held, HeldIsLast, UseIsFrame, Collecting
  <2>4. HandedIsOwed'
    BY <1>3, <2>1, <2>3 DEF HandedIsOwed
  <2> QED BY <1>2, <1>3, <2>3, <2>4 DEF SentInv
<1>8. CASE EndState
  <2>1. /\ pc = "state" /\ pc' = "check" /\ rxState' = "WAITING"
        /\ UNCHANGED <<rxBuff, msgBuff, newMessage, owed, checked>>
    BY <1>8 DEF EndState, history
  <2>2. rxBuff = <<>>
    BY <1>3, <2>1 DEF Collecting
  <2>3. rxBuff \notin Frames
    BY <2>2, FrameShape
  <2>4. ~Held' /\ ~Held /\ HeldIsLast' /\ UseIsFrame' /\ Collecting'
    BY <2>1, <2>2, <2>3 DEF Held, HeldIsLast, UseIsFrame, Collecting
  <2>5. HandedIsOwed'
    BY <1>3, <2>1, <2>4 DEF HandedIsOwed
  <2> QED BY <1>2, <1>3, <2>4, <2>5 DEF SentInv
<1>9. CASE CheckMessage
  <2>1. /\ pc = "check" /\ checked' = msgBuff
        /\ pc' = (IF ~newMessage THEN "idle" ELSE IF msgBuff \in Frames THEN "use" ELSE "done")
        /\ UNCHANGED <<rxBuff, rxState, msgBuff, newMessage, owed>>
    BY <1>9 DEF CheckMessage, receiver
  <2>2. UseIsFrame'
    BY <2>1 DEF UseIsFrame
  <2>3. pc' \notin {"count", "state"}
    BY <2>1
  <2> QED BY <1>2, <2>1, <2>2, <2>3, SentSame
<1>10. CASE UseMessage
  <2>1. /\ pc = "use" /\ pc' = "done" /\ Settle(msgBuff)
        /\ UNCHANGED <<rxBuff, rxState, msgBuff, newMessage, checked>>
    BY <1>10 DEF UseMessage, receiver
  <2>2. Collecting' /\ UseIsFrame' /\ HandedIsOwed'
    BY <1>2, <1>3, <2>1 DEF Collecting, UseIsFrame, HandedIsOwed
  <2>3. HeldIsLast'
    <3> SUFFICES ASSUME Held' PROVE owed' # <<>> /\ owed'[Len(owed')] = rxBuff
      BY <2>1 DEF HeldIsLast
    <3>1. Held
      BY <1>2, <2>1 DEF Held
    <3>2. owed \in Seq(Frames) /\ Len(owed) \in Nat /\ owed[Len(owed)] = rxBuff
      BY <1>3, <3>1 DEF HeldIsLast, TypeParts, HistoryOK
    <3>3. newMessage /\ msgBuff \in Frames
      BY <1>3, <1>4, <2>1 DEF InUse, UseIsFrame
    <3>4. PICK i \in DOMAIN owed : owed[i] = msgBuff /\ i < Len(owed)
      BY <1>3, <2>1, <3>1, <3>3 DEF HandedIsOwed
    <3>5. PICK n \in 0 .. Len(owed) :
              /\ IF n = 0 THEN \A j \in DOMAIN owed : owed[j] # msgBuff
                          ELSE owed[n] = msgBuff /\ \A j \in 1 .. n - 1 : owed[j] # msgBuff
              /\ owed' = SubSeq(owed, n + 1, Len(owed))
      BY <2>1 DEF Settle
    <3>6. i \in 1 .. Len(owed)
      BY <3>2, <3>4
    <3>7. n < Len(owed)
      <4>1. ~(i \in 1 .. n - 1) \/ n = 0
        BY <3>4, <3>5
      <4> QED BY <3>2, <3>4, <3>6, <4>1
    <3>8. /\ Len(owed') = Len(owed) - n /\ Len(owed) - n >= 1
          /\ owed'[Len(owed) - n] = owed[Len(owed)]
      BY <3>2, <3>5, <3>7
    <3> QED BY <3>2, <3>8
  <2> QED BY <1>2, <1>3, <2>2, <2>3 DEF SentInv
<1>11. CASE MessageDone
  <2>1. /\ pc = "done" /\ pc' = "idle" /\ newMessage' = FALSE
        /\ UNCHANGED <<rxBuff, rxState, owed, checked>>
    BY <1>11 DEF MessageDone, history
  <2>2. UseIsFrame'
    BY <2>1 DEF UseIsFrame
  <2> QED BY <1>2, <2>1, <2>2, SentSame
<1> QED BY <1>5, <1>6, <1>7, <1>8, <1>9, <1>10, <1>11, <1>5a DEF Main

\* A byte after the second is taken in, or nothing is collected of the message.
LEMMA SentCollect ==
    ASSUME TypeParts, Quiet, SentInv, ByteArrives,
           txCnt >= 2, txState = "WRITING", pc \notin {"count", "state"},
           \/ rxBuff' = <<>> /\ rxState' = "WAITING"
           \/ /\ rxState' = "READING"
              /\ \E k \in {1} \cup 3 .. txCnt : txBuff[k] = Header /\ rxBuff' = SubSeq(txBuff, k, txCnt),
           \/ UNCHANGED <<msgBuff, newMessage>>
           \/ msgBuff' = rxBuff /\ newMessage' = TRUE /\ txCnt = 2
    PROVE  SentInv'
<1>1. /\ line # None /\ TransmitInterrupt /\ UNCHANGED <<pc, checked, damaged>>
      /\ owed' = IF line' = None /\ ~damaged THEN Append(owed, txBuff) ELSE owed
  BY DEF ByteArrives, ByteSent, Transfer
<1>2. ~damaged /\ HeldIsLast /\ HandedIsOwed /\ UseIsFrame
  BY DEF SentInv
<1>3. /\ txBuff \in Frames /\ txBuff \in Seq(Byte) /\ txBuff' = txBuff
      /\ txCnt \in 2 .. Len(txBuff) /\ Len(txBuff) \in Nat /\ txBuff[1] = Header
      /\ \A i \in 1 .. Len(txBuff) : txBuff[i] # None
  BY <1>1, FrameShape, Nobody DEF TypeParts, Sending, TransmitInterrupt
<1>4. owed \in Seq(Frames) /\ Len(owed) \in Nat
  BY DEF TypeParts, HistoryOK
\* What is handed over was owed before this byte.
<1>5. ASSUME newMessage', pc' # "done", msgBuff' \in Frames
      PROVE  \E i \in DOMAIN owed : owed[i] = msgBuff'
  <2>1. CASE UNCHANGED <<msgBuff, newMessage>>
    BY <1>1, <1>2, <1>5, <2>1 DEF HandedIsOwed
  <2>2. CASE msgBuff' = rxBuff /\ newMessage' = TRUE /\ txCnt = 2
    <3>1. owed # <<>> /\ owed[Len(owed)] = rxBuff
      BY <1>2, <1>5, <2>2 DEF HeldIsLast, Held
    <3>2. Len(owed) \in DOMAIN owed
      BY <1>4, <3>1
    <3> QED BY <2>2, <3>1, <3>2
  <2> QED BY <2>1, <2>2
<1>6. CASE txCnt < Len(txBuff)
  <2>1. /\ txCnt' = txCnt + 1 /\ line' = txBuff[txCnt + 1]
    BY <1>1, <1>3, <1>6 DEF TransmitInterrupt
  <2>2. line' # None /\ txCnt' >= 3 /\ txCnt' - 1 = txCnt /\ ~(txCnt' <= 2)
    BY <1>3, <1>6, <2>1
  <2>3. owed' = owed /\ ~Held'
    BY <1>1, <2>2 DEF Held
  <2>4. HeldIsLast' /\ HandedIsOwed' /\ UseIsFrame'
    BY <1>1, <1>2, <1>5, <2>3 DEF HeldIsLast, HandedIsOwed, UseIsFrame
  <2>5. Collecting'
    <3>1. \/ rxBuff' = <<>>
          \/ \E k \in {1} \cup 3 .. txCnt' - 1 :
                txBuff'[k] = Header /\ rxBuff' = SubSeq(txBuff', k, txCnt' - 1)
      BY <1>3, <2>2
    <3>2. rxState' = "READING" => rxBuff' # <<>>
      BY <1>3, OneMoreFrom
    <3>3. txCnt' # 2 /\ pc' # "state"
      BY <1>1, <2>2
    <3> QED BY <3>1, <3>2, <3>3 DEF Collecting
  <2> QED BY <1>1, <1>2, <2>4, <2>5 DEF SentInv
<1>7. CASE txCnt = Len(txBuff)
  <2>1. line' = None
    BY <1>1, <1>3, <1>7 DEF TransmitInterrupt
  <2>2. owed' = Append(owed, txBuff)
    BY <1>1, <1>2, <2>1
  <2>3. /\ Len(owed') = Len(owed) + 1 /\ owed'[Len(owed) + 1] = txBuff
        /\ \A i \in DOMAIN owed : i \in DOMAIN owed' /\ owed'[i] = owed[i] /\ i < Len(owed')
    BY <1>3, <1>4, <2>2
  <2>4. rxBuff' \in Frames => rxBuff' = txBuff
    <3>1. <<>> \notin Frames
      BY FrameShape
    <3>2. SubSeq(txBuff, 1, Len(txBuff)) = txBuff
      BY <1>3, SubSeqFull
    <3>3. \A k \in 3 .. Len(txBuff) : txBuff[k] = Header => SubSeq(txBuff, k, Len(txBuff)) \notin Frames
      BY <1>3, TailAssumption
    <3> QED BY <1>7, <3>1, <3>2, <3>3
  <2>5. HeldIsLast'
    BY <1>4, <2>2, <2>3, <2>4 DEF HeldIsLast, Held
  <2>6. HandedIsOwed'
    BY <1>5, <2>3 DEF HandedIsOwed
  <2>7. Collecting'
    <3>1. rxState' = "READING" => rxBuff' # <<>>
      BY <1>3, OneMoreFrom
    <3> QED BY <1>1, <2>1, <3>1 DEF Collecting
  <2>8. UseIsFrame'
    BY <1>1, <1>2 DEF UseIsFrame
  <2> QED BY <1>1, <1>2, <2>5, <2>6, <2>7, <2>8 DEF SentInv
<1> QED BY <1>3, <1>6, <1>7

LEMMA SentArrives ==
    ASSUME TypeParts, Quiet, QuietInv, SentInv, ByteArrives PROVE SentInv'
<1>1. /\ line # None /\ BusReceive(line) /\ TransmitInterrupt /\ UNCHANGED <<pc, checked, damaged>>
      /\ (pc # "idle" => ticks > 0)
      /\ owed' = IF line' = None /\ ~damaged THEN Append(owed, txBuff) ELSE owed
  BY DEF ByteArrives, ByteSent, Transfer
<1>2. ~damaged /\ Collecting /\ HeldIsLast /\ HandedIsOwed /\ UseIsFrame /\ PairsKept /\ EndsBetween
  BY DEF SentInv, QuietInv
<1>3. /\ txBuff \in Frames /\ txBuff \in Seq(Byte) /\ txBuff' = txBuff
      /\ txCnt \in 1 .. Len(txBuff) /\ Len(txBuff) \in Nat
      /\ line = txBuff[txCnt] /\ txState \in {"ESCAPING", "WRITING"}
      /\ txState = "ESCAPING" => line = Header /\ txCnt >= 3
      /\ txBuff[1] = Header /\ txBuff[2] # Header /\ Len(txBuff) >= 2 /\ Len(txBuff) < RxMax
  BY <1>1, FrameShape DEF TypeParts, Sending, TransmitInterrupt
<1>4. RxMax \in Nat /\ rxState \in {"WAITING", "ESCAPING", "READING"} /\ ticks \in Nat
  BY Nobody, BowbusAssumption DEF TypeParts, Buffers, Clock, TimeOK
<1>5. txCnt = 1 \/ pc \notin {"end", "copy", "length", "count", "state"}
  BY <1>1, <1>3, <1>4, <1>2 DEF EndsBetween
<1>6. CASE txCnt = 1
  <2>1. /\ line = Header /\ txState = "WRITING" /\ rxState # "ESCAPING"
        /\ line' = txBuff[2] /\ txCnt' = 2
    BY <1>1, <1>2, <1>3, <1>6 DEF TransmitInterrupt, PairsKept
  <2>2. line' # None
    BY <1>3, <2>1, FrameShape, Nobody
  <2>3. rxState' = "ESCAPING" /\ UNCHANGED <<rxBuff, msgBuff, newMessage>>
    BY <1>1, <1>4, <2>1 DEF BusReceive
  <2>4. owed' = owed
    BY <1>1, <2>2
  <2>5. Held' <=> Held
    BY <1>1, <1>6, <2>1, <2>3 DEF Held
  <2>6. HeldIsLast' /\ HandedIsOwed' /\ UseIsFrame'
    BY <1>1, <1>2, <2>3, <2>4, <2>5 DEF HeldIsLast, HandedIsOwed, UseIsFrame
  <2>7. Collecting'
    BY <1>1, <1>2, <2>1, <2>3 DEF Collecting
  <2> QED BY <1>1, <1>2, <2>6, <2>7 DEF SentInv
<1>7. CASE txCnt = 2
  <2>1. line # Header /\ txState = "WRITING" /\ rxState \in {"WAITING", "ESCAPING"}
    BY <1>1, <1>2, <1>3, <1>4, <1>7 DEF Collecting
  <2>2. txCnt >= 2 /\ pc \notin {"count", "state"}
    BY <1>5, <1>7
  <2>3. CASE rxState = "WAITING"
    <3>1. rxBuff' = <<>> /\ rxState' = "WAITING" /\ UNCHANGED <<msgBuff, newMessage>>
      BY <1>1, <1>2, <2>1, <2>3 DEF BusReceive, Collecting
    <3> QED BY <2>1, <2>2, <3>1, SentCollect
  <2>4. CASE rxState = "ESCAPING"
    <3>1. rxBuff' = <<Header, line>> /\ rxState' = "READING" /\ HandOver
      BY <1>1, <2>1, <2>4 DEF BusReceive
    <3>2. <<Header, line>> = SubSeq(txBuff, 1, txCnt)
      <4>1. /\ SubSeq(txBuff, 1, 2) \in Seq(Byte) /\ Len(SubSeq(txBuff, 1, 2)) = 2
            /\ SubSeq(txBuff, 1, 2)[1] = Header /\ SubSeq(txBuff, 1, 2)[2] = line
        BY <1>3, <1>7
      <4>2. <<Header, line>> \in Seq(Byte) /\ Len(<<Header, line>>) = 2
        BY <1>3, <1>7, Nobody
      <4>3. \A i \in 1 .. 2 : <<Header, line>>[i] = SubSeq(txBuff, 1, 2)[i]
        BY <4>1
      <4> QED BY <1>7, <4>1, <4>2, <4>3, SeqEqual
    <3>3. \/ UNCHANGED <<msgBuff, newMessage>>
          \/ msgBuff' = rxBuff /\ newMessage' = TRUE /\ txCnt = 2
      BY <1>7, <3>1 DEF HandOver
    <3>4. \E k \in {1} \cup 3 .. txCnt : txBuff[k] = Header /\ rxBuff' = SubSeq(txBuff, k, txCnt)
      BY <1>3, <3>1, <3>2
    <3> QED BY <2>1, <2>2, <3>1, <3>3, <3>4, SentCollect
  <2> QED BY <2>1, <2>3, <2>4
<1>8. CASE txCnt >= 3 /\ txState = "ESCAPING"
  <2>1. line' = Header /\ line' # None /\ txCnt' = txCnt /\ rxState # "ESCAPING" /\ line = Header
    BY <1>1, <1>2, <1>3, <1>8, Nobody DEF TransmitInterrupt, PairsKept
  <2>2. rxState' = "ESCAPING" /\ UNCHANGED <<rxBuff, msgBuff, newMessage>>
    BY <1>1, <1>4, <2>1 DEF BusReceive
  <2>3. owed' = owed
    BY <1>1, <2>1
  <2>4. ~Held /\ ~Held'
    BY <1>1, <1>3, <1>8, <2>1 DEF Held
  <2>5. HeldIsLast' /\ HandedIsOwed' /\ UseIsFrame'
    BY <1>1, <1>2, <2>2, <2>3, <2>4 DEF HeldIsLast, HandedIsOwed, UseIsFrame
  <2>6. Collecting'
    BY <1>1, <1>2, <1>3, <1>8, <2>1, <2>2 DEF Collecting
  <2> QED BY <1>1, <1>2, <2>5, <2>6 DEF SentInv
<1>9. CASE txCnt >= 3 /\ txState = "WRITING"
  <2>1. IF line = Header THEN rxState = "ESCAPING" ELSE rxState \in {"WAITING", "READING"}
    BY <1>2, <1>3, <1>4, <1>9 DEF PairsKept
  <2>2. /\ txCnt >= 2 /\ pc \notin {"count", "state"}
        /\ \/ rxBuff = <<>>
           \/ \E k \in {1} \cup 3 .. txCnt - 1 :
                 txBuff[k] = Header /\ rxBuff = SubSeq(txBuff, k, txCnt - 1)
    BY <1>1, <1>2, <1>3, <1>5, <1>9 DEF Collecting
  <2>3. CASE rxState = "WAITING"
    <3>1. rxBuff' = <<>> /\ rxState' = "WAITING" /\ UNCHANGED <<msgBuff, newMessage>>
      BY <1>1, <1>2, <2>1, <2>3 DEF BusReceive, Collecting
    <3> QED BY <1>9, <2>2, <3>1, SentCollect
  <2>4. CASE rxState # "WAITING"
    <3>1. Collect(line) /\ rxState' = "READING" /\ UNCHANGED <<msgBuff, newMessage>>
      <4>1. CASE line = Header
        BY <1>1, <2>1, <4>1 DEF BusReceive
      <4>2. CASE line # Header
        BY <1>1, <2>1, <2>4, <4>2 DEF BusReceive
      <4> QED BY <4>1, <4>2
    <3>2. PICK k \in {1} \cup 3 .. txCnt :
              txBuff[k] = Header /\ rxBuff = SubSeq(txBuff, k, txCnt - 1)
      <4>1. CASE rxBuff = <<>>
        <5>1. line = Header
          BY <1>2, <2>1, <2>2, <2>4, <4>1 DEF Collecting
        <5>2. SubSeq(txBuff, txCnt, txCnt - 1) = <<>>
          BY <1>3, <1>9
        <5>3. txCnt \in 3 .. txCnt /\ txBuff[txCnt] = Header
          BY <1>3, <1>9, <5>1
        <5> QED BY <4>1, <5>2, <5>3
      <4>2. CASE rxBuff # <<>>
        BY <1>3, <2>2, <4>2
      <4> QED BY <4>1, <4>2
    <3>3. k \in 1 .. Len(txBuff) /\ txCnt - 1 \in k - 1 .. Len(txBuff) - 1 /\ txCnt - 1 + 1 = txCnt
      BY <1>3, <1>9
    <3>4. Len(rxBuff) = txCnt - k /\ Append(rxBuff, line) = SubSeq(txBuff, k, txCnt)
      BY <1>3, <3>2, <3>3, OneMoreFrom
    <3>5. rxBuff' = SubSeq(txBuff, k, txCnt)
      <4>1. Fits
        BY <1>3, <1>4, <3>3, <3>4 DEF Fits
      <4> QED BY <3>1, <3>4, <4>1 DEF Collect
    <3> QED BY <1>9, <2>2, <3>1, <3>2, <3>5, SentCollect
  <2> QED BY <2>3, <2>4
<1> QED BY <1>3, <1>6, <1>7, <1>8, <1>9

LEMMA SentNext == TypeParts /\ QuietInv /\ SentInv /\ [Next]_vars => SentInv'
<1> SUFFICES ASSUME TypeParts, QuietInv, SentInv, [Next]_vars, Quiet' PROVE SentInv'
  BY DEF SentInv
<1>1. CASE UNCHANGED vars
  BY <1>1 DEF vars, sender, receiver, timing, history, SentInv, Quiet, Collecting, Held,
              HeldIsLast, HandedIsOwed, UseIsFrame
<1>2. CASE Next
  <2>1. Quiet /\ ~ByteSpoiled /\ ~StrayByte
    BY <1>2, StaysQuiet
  <2> QED BY <1>2, <2>1, SentSend, SentArrives, SentMain DEF Next
<1> QED BY <1>1, <1>2

(* What is used was sent, and after all that was used before it, although   *)
(* with one tick between messages bus_endmessage can throw away the first   *)
(* byte of one, and bus_receive then takes the rest for a message: for any  *)
(* messages none of which is the end of another.                            *)
THEOREM BowbusUsedWasSent == Spec => []UsedWasSent
<1>1. QuietInv /\ SentInv => UsedWasSent
  BY DEF QuietInv, SentInv, Quiet, InUse, UseIsFrame, HandedIsOwed, UsedWasSent
<1> QED BY <1>1, PartsInit, PartsNext, QuietInit, QuietNext, SentInit, SentNext, PTL DEF Spec
-----------------------------------------------------------------------------
(* After noise                                                             *)

\* The byte that begins a message is on the line.
Opening == line # None /\ txCnt = 1

\* What the ticks since the last byte have done, with or without noise: the first
\* cleared the flag, the second ended what there was to end.  A message that begins
\* two ticks after the last byte finds it done.
Rested ==
    /\ (ticks >= 1 /\ pc # "clear") \/ Opening => ~waitForLastChar
    /\ ticks >= 2 \/ Opening => pc # "clear"
    /\ \/ CompleteTicks >= 2
       \/ Opening
       \/ ticks >= 2 /\ pc \notin {"end", "copy", "length", "count", "state"}
       => (rxState = "WAITING" \/ ~HasMessage) /\ pc \notin {"copy", "length", "count", "state"}

Schedule == gap >= 2 => EndsBetween /\ FreshBegins /\ Rested

LEMMA ScheduleInit == Init => Schedule
<1> SUFFICES ASSUME Init PROVE EndsBetween /\ FreshBegins /\ Rested
  BY DEF Schedule
<1>1. /\ line = None /\ rxState = "WAITING" /\ waitForLastChar = FALSE /\ pc = "idle"
      /\ ticks = 0 /\ fresh = FALSE
  BY DEF Init
<1> QED BY <1>1 DEF EndsBetween, FreshBegins, Rested, Opening, CompleteTicks

\* The gap between messages leaves time for two ticks.
LEMMA ScheduleSend ==
    ASSUME TypeParts, gap >= 2, EndsBetween, FreshBegins, Rested, BusSend
    PROVE  EndsBetween' /\ FreshBegins' /\ Rested'
<1>1. /\ line' = Header /\ line' # None /\ txCnt' = 1 /\ ticks' = 0 /\ line = None
      /\ UNCHANGED <<rxBuff, rxState, waitForLastChar, pc>> /\ CompleteTicks >= gap
  BY FrameShape, Nobody DEF BusSend, receiver, TypeParts, Sending
<1>2. gap \in Nat /\ ticks \in Nat
  BY BowbusAssumption DEF TypeParts, Clock, TimeOK
<1>3. EndsBetween' /\ FreshBegins'
  BY <1>1 DEF EndsBetween, FreshBegins
<1>4. CompleteTicks >= 2 /\ ticks >= 2
  BY <1>1, <1>2 DEF CompleteTicks
<1>5. /\ ~waitForLastChar /\ pc # "clear" /\ pc \notin {"copy", "length", "count", "state"}
      /\ rxState = "WAITING" \/ ~HasMessage
  BY <1>2, <1>4 DEF Rested
<1>6. rxState' = "WAITING" \/ ~HasMessage'
  BY <1>1, <1>5 DEF HasMessage, Fits
<1>7. Rested'
  BY <1>1, <1>5, <1>6 DEF Rested
<1> QED BY <1>3, <1>7

\* A byte, of a message or a stray one: the ticks count anew.
LEMMA ScheduleByte ==
    ASSUME TypeParts, gap >= 2, EndsBetween, FreshBegins, Rested, NEW chr \in Byte,
           Transfer(chr),
           \/ line = None /\ UNCHANGED sender
           \/ line # None /\ TransmitInterrupt
    PROVE  EndsBetween' /\ FreshBegins' /\ Rested'
<1>1. /\ waitForLastChar' = TRUE /\ ticks' = 0 /\ fresh' = (pc # "clear") /\ pc' = pc
      /\ pc # "idle" => ticks > 0
  BY DEF Transfer, BusReceive
<1>2. FreshBegins'
  BY <1>1 DEF FreshBegins
<1>3. ~(CompleteTicks' >= 1)
  BY <1>1 DEF CompleteTicks
<1>4. CASE line = None
  <2>1. UNCHANGED <<line, txCnt>> /\ line' = None
    BY <1>4 DEF sender
  <2>2. EndsBetween'
    BY <2>1 DEF EndsBetween
  <2>3. Rested'
    BY <1>1, <1>3, <2>1 DEF Rested, Opening, CompleteTicks
  <2> QED BY <1>2, <2>2, <2>3
<1>5. CASE line # None /\ TransmitInterrupt
  <2>1. txCnt \in 1 .. Len(txBuff) /\ Len(txBuff) \in Nat /\ Len(txBuff) >= 2
    BY <1>5, FrameShape DEF TypeParts, Sending
  <2>2. txState = "ESCAPING" => txCnt >= 3
    BY <1>5 DEF TypeParts, Sending
  <2>3. line' = None \/ (txCnt = 1 /\ txCnt' = 2) \/ (txCnt >= 2 /\ txCnt' >= 2)
    BY <1>5, <2>1, <2>2 DEF TransmitInterrupt
  <2>4. txCnt' \in Nat
    BY <1>5, <2>1 DEF TransmitInterrupt
  <2>5. ~Opening'
    BY <2>3, <2>4 DEF Opening
  <2>6. txCnt >= 2 => pc \notin {"end", "copy", "length", "count", "state"}
    BY <1>1, <1>5, <2>1 DEF EndsBetween
  <2>7. EndsBetween'
    BY <1>1, <2>3, <2>6 DEF EndsBetween
  <2>8. Rested'
    BY <1>1, <1>3, <2>5 DEF Rested, CompleteTicks
  <2> QED BY <1>2, <2>7, <2>8
<1> QED BY <1>4, <1>5

\* The main loop.
LEMMA ScheduleMain ==
    ASSUME TypeParts, gap >= 2, EndsBetween, FreshBegins, Rested, Main
    PROVE  EndsBetween' /\ FreshBegins' /\ Rested'
<1>1. UNCHANGED sender
  BY DEF Main, Tick, ClearFlag, EndTest, EndCopy, EndLength, EndCount, EndState, CheckMessage,
         UseMessage, MessageDone
<1>2. UNCHANGED <<txCnt, line>> /\ (Opening' <=> Opening)
  BY <1>1 DEF sender, Opening
<1>3. ticks \in Nat /\ gap \in Nat /\ gap >= 2 /\ ticks <= gap + 1
  BY BowbusAssumption DEF TypeParts, Clock, TimeOK
<1>4. CASE Tick
  <2>1. /\ pc = "idle" /\ fresh' = FALSE
        /\ line # None => fresh
        /\ UNCHANGED <<rxBuff, rxState, waitForLastChar>>
        /\ ticks' = (IF ticks > gap THEN ticks ELSE ticks + 1)
        /\ pc' = (IF waitForLastChar THEN "clear" ELSE "end")
    BY <1>4 DEF Tick, receiver
  <2>2. FreshBegins'
    BY <2>1 DEF FreshBegins
  <2>3. EndsBetween'
    BY <1>2, <2>1 DEF EndsBetween, FreshBegins
  <2>4. (ticks' >= 2 => ticks >= 1) /\ (CompleteTicks' >= 2 => CompleteTicks >= 2)
    BY <1>3, <2>1 DEF CompleteTicks
  <2>5. ticks >= 1 \/ Opening => ~waitForLastChar
    BY <2>1 DEF Rested
  <2>6. pc' = "clear" => ~(ticks' >= 2) /\ ~Opening
    BY <2>1, <2>4, <2>5
  <2>7. pc' = "end" => ~waitForLastChar'
    BY <2>1
  <2>8. pc' \in {"clear", "end"} /\ (HasMessage' <=> HasMessage)
    BY <2>1 DEF HasMessage, Fits
  <2>9. CompleteTicks' >= 2 \/ Opening => rxState' = "WAITING" \/ ~HasMessage'
    BY <2>1, <2>4, <2>8 DEF Rested
  <2>10. Rested'
    BY <1>2, <2>6, <2>7, <2>8, <2>9 DEF Rested
  <2> QED BY <2>2, <2>3, <2>10
<1>5. CASE ClearFlag
  <2>1. /\ pc = "clear" /\ pc' = "check" /\ waitForLastChar' = FALSE
        /\ UNCHANGED <<rxBuff, rxState, ticks, fresh>>
    BY <1>5 DEF ClearFlag, timing
  <2>2. EndsBetween' /\ FreshBegins'
    BY <1>2, <2>1 DEF EndsBetween, FreshBegins
  <2>3. ~(ticks >= 2) /\ ~Opening
    BY <2>1 DEF Rested
  <2>4. ~(CompleteTicks' >= 2)
    BY <1>3, <2>1, <2>3 DEF CompleteTicks
  <2>5. Rested'
    BY <1>2, <2>1, <2>3, <2>4 DEF Rested
  <2> QED BY <2>2, <2>5
<1>6. CASE EndTest
  <2>1. /\ pc = "end" /\ pc' = (IF rxState # "WAITING" /\ HasMessage THEN "copy" ELSE "check")
        /\ UNCHANGED <<rxBuff, rxState, waitForLastChar, ticks, fresh>>
    BY <1>6 DEF EndTest, timing, receiver
  <2>2. EndsBetween' /\ FreshBegins'
    BY <1>2, <2>1 DEF EndsBetween, FreshBegins
  <2>3. (HasMessage' <=> HasMessage) /\ CompleteTicks' = CompleteTicks
    BY <2>1 DEF HasMessage, Fits, CompleteTicks
  <2>4. CompleteTicks >= 2 \/ Opening => rxState = "WAITING" \/ ~HasMessage
    BY DEF Rested
  <2>5. pc' = "check" => rxState = "WAITING" \/ ~HasMessage
    BY <2>1
  <2>6. pc' = "copy" => rxState # "WAITING" /\ HasMessage
    BY <2>1
  <2>7. pc' \in {"copy", "check"} /\ ((ticks >= 1) \/ Opening => ~waitForLastChar)
    BY <2>1 DEF Rested
  <2>8. Rested'
    BY <1>2, <2>1, <2>3, <2>4, <2>5, <2>6, <2>7 DEF Rested
  <2> QED BY <2>2, <2>8
<1>7. CASE EndCopy \/ EndLength \/ EndCount
  <2>1. /\ pc \in {"copy", "length", "count"} /\ pc' \in {"length", "count", "state"}
        /\ UNCHANGED <<rxState, waitForLastChar, ticks, fresh>>
    BY <1>7 DEF EndCopy, EndLength, EndCount, timing
  <2>2. EndsBetween' /\ FreshBegins'
    BY <1>2, <2>1 DEF EndsBetween, FreshBegins
  <2>3. CompleteTicks' = CompleteTicks
    BY <2>1 DEF CompleteTicks
  <2>4. ~(CompleteTicks >= 2) /\ ~Opening
    BY <2>1 DEF Rested
  <2>5. Rested'
    BY <1>2, <2>1, <2>3, <2>4 DEF Rested
  <2> QED BY <2>2, <2>5
<1>8. CASE EndState
  <2>1. /\ pc = "state" /\ pc' = "check" /\ rxState' = "WAITING"
        /\ UNCHANGED <<waitForLastChar, ticks, fresh>>
    BY <1>8 DEF EndState, timing
  <2>2. EndsBetween' /\ FreshBegins'
    BY <1>2, <2>1 DEF EndsBetween, FreshBegins
  <2>3. Rested'
    BY <1>2, <2>1 DEF Rested
  <2> QED BY <2>2, <2>3
<1>9. CASE CheckMessage \/ UseMessage \/ MessageDone
  <2>1. /\ pc \in {"check", "use", "done"} /\ pc' \in {"idle", "use", "done"}
        /\ UNCHANGED <<rxBuff, rxState, waitForLastChar, ticks, fresh>>
    BY <1>9 DEF CheckMessage, UseMessage, MessageDone, timing, receiver
  <2>2. EndsBetween' /\ FreshBegins'
    BY <1>2, <2>1 DEF EndsBetween, FreshBegins
  <2>3. (HasMessage' <=> HasMessage) /\ (CompleteTicks' >= 2 => ticks >= 2)
    BY <1>3, <2>1 DEF HasMessage, Fits, CompleteTicks
  <2>4. ticks >= 2 \/ Opening => rxState = "WAITING" \/ ~HasMessage
    BY <2>1 DEF Rested
  <2>5. ticks >= 1 \/ Opening => ~waitForLastChar
    BY <2>1 DEF Rested
  <2>6. Rested'
    BY <1>2, <2>1, <2>3, <2>4, <2>5 DEF Rested
  <2> QED BY <2>2, <2>6
<1> QED BY <1>4, <1>5, <1>6, <1>7, <1>8, <1>9 DEF Main

LEMMA SameGap == ASSUME [Next]_vars PROVE gap' = gap
BY DEF Next, BusSend, ByteArrives, ByteSpoiled, StrayByte, ByteSent, Transfer, Main, Tick,
       ClearFlag, EndTest, EndCopy, EndLength, EndCount, EndState, CheckMessage, UseMessage,
       MessageDone, vars, timing

LEMMA ScheduleNext == TypeParts /\ Schedule /\ [Next]_vars => Schedule'
<1> SUFFICES ASSUME TypeParts, Schedule, [Next]_vars, gap' >= 2
             PROVE  EndsBetween' /\ FreshBegins' /\ Rested'
  BY DEF Schedule
<1>1. gap >= 2 /\ EndsBetween /\ FreshBegins /\ Rested
  BY SameGap DEF Schedule
<1>2. CASE UNCHANGED vars
  <2>1. UNCHANGED <<txCnt, line, rxBuff, rxState, waitForLastChar, pc, ticks, fresh>>
    BY <1>2 DEF vars, sender, receiver, timing
  <2>2. (HasMessage' <=> HasMessage) /\ CompleteTicks' = CompleteTicks /\ (Opening' <=> Opening)
    BY <2>1 DEF HasMessage, Fits, CompleteTicks, Opening
  <2> QED BY <1>1, <2>1, <2>2 DEF EndsBetween, FreshBegins, Rested
<1>3. CASE ByteArrives \/ ByteSpoiled
  <2>1. line # None => line \in Byte
    BY FrameShape DEF TypeParts, Sending
  <2>2. PICK chr \in Byte : line # None /\ Transfer(chr) /\ TransmitInterrupt
    BY <1>3, <2>1 DEF ByteArrives, ByteSpoiled, ByteSent
  <2> QED BY <1>1, <2>2, ScheduleByte
<1>4. CASE StrayByte
  <2>1. PICK chr \in Byte : line = None /\ Transfer(chr) /\ UNCHANGED sender
    BY <1>4 DEF StrayByte
  <2> QED BY <1>1, <2>1, ScheduleByte
<1> QED BY <1>1, <1>2, <1>3, <1>4, ScheduleSend, ScheduleMain DEF Next

\* Nothing is left in the buffer of a receiver that waits for a message.
Emptied == rxState = "WAITING" \/ pc = "state" => rxBuff = <<>>

\* From the second byte of a message on the receiver sees both bytes of an escaped
\* 0x10, or neither as one, whatever state noise left it in.
Paired ==
    txCnt >= 2 =>
        /\ rxState = "ESCAPING" => /\ txState = "WRITING"
                                   /\ txCnt = 2 \/ (txCnt >= 3 /\ line = Header)
        /\ txState = "WRITING" /\ line = Header /\ txCnt >= 3 => rxState = "ESCAPING"
        /\ Emptied

\* Of a message that follows a whole one the receiver collects all.
TakenIn ==
    /\ txCnt = 1 => rxState # "ESCAPING" /\ ~HasMessage /\ Emptied
    /\ txCnt = 2 => /\ rxState = "ESCAPING" /\ ~HasMessage
                    /\ pc \notin {"copy", "length", "count", "state"}
    /\ txCnt >= 3 => /\ rxBuff = SubSeq(txBuff, 1, txCnt - 1)
                     /\ rxState = IF line = Header /\ txState = "WRITING" THEN "ESCAPING"
                                                                        ELSE "READING"

Coming == Paired /\ Len(owed) <= 1 /\ (owed # <<>> => TakenIn)

\* The message m has arrived and is not used yet, or it is handed over.
Pending(m) ==
    \/ /\ rxBuff = m /\ rxState = "READING" /\ pc \notin {"count", "state"}
       /\ pc = "length" => msgBuff = m
       /\ \/ ticks = 0
          \/ ticks = 1 /\ (pc = "clear" \/ ~waitForLastChar)
          \/ ticks = 2 /\ pc \in {"end", "copy", "length"}
    \/ /\ newMessage /\ msgBuff = m /\ ticks <= 2
       /\ pc \in {"count", "state", "check", "use"}

\* Whole messages have arrived; of two, the second is dealt with in two ticks.
Between ==
    /\ Len(owed) <= 2 /\ rxState # "ESCAPING" /\ Emptied
    /\ Len(owed) = 2 => Pending(owed[2])

RecoverInv ==
    gap >= 2 =>
        /\ line # None => IF damaged THEN owed = <<>> ELSE Coming
        /\ line = None /\ owed # <<>> => Between

LEMMA RecoverInit == Init => RecoverInv
BY DEF Init, RecoverInv

\* A message begins: the one before it is used.
LEMMA RecoverSend ==
    ASSUME TypeParts, gap >= 2, Rested, RecoverInv, BusSend PROVE RecoverInv'
<1>1. /\ line' # None /\ txCnt' = 1 /\ damaged' = FALSE /\ line = None
      /\ UNCHANGED <<rxBuff, rxState, pc, owed>> /\ CompleteTicks >= gap
  BY FrameShape, Nobody DEF BusSend, history, receiver, TypeParts, Sending
<1>2. gap \in Nat /\ ticks \in Nat
  BY BowbusAssumption DEF TypeParts, Clock, TimeOK
<1>3. CompleteTicks >= 2 /\ ticks >= 2 /\ (pc # "idle" => ticks >= 3)
  BY <1>1, <1>2 DEF CompleteTicks
<1>4. rxState = "WAITING" \/ ~HasMessage
  BY <1>3 DEF Rested
<1>5. ASSUME NEW m PROVE ~Pending(m)
  BY <1>2, <1>3 DEF Pending
<1>6. owed = <<>> \/ (Between /\ Len(owed) # 2)
  BY <1>1, <1>5 DEF RecoverInv, Between
<1>7. Len(owed') <= 1
  <2>1. Len(owed) \in Nat /\ (owed = <<>> => Len(owed) = 0)
    BY DEF TypeParts, HistoryOK
  <2> DEFINE n == Len(owed)
  <2>2. n \in Nat /\ (n = 0 \/ (n <= 2 /\ n # 2))
    BY <1>6, <2>1 DEF Between
  <2> HIDE DEF n
  <2>3. n <= 1
    BY <2>2
  <2> QED BY <1>1, <2>3 DEF n
<1>8. owed' # <<>> => TakenIn'
  <2> SUFFICES ASSUME owed # <<>> PROVE TakenIn'
    BY <1>1
  <2>1. rxState # "ESCAPING" /\ Emptied
    BY <1>6 DEF Between
  <2>2. ~HasMessage
    BY <1>4, <2>1 DEF Emptied, HasMessage
  <2>3. ~HasMessage' /\ Emptied' /\ rxState' # "ESCAPING"
    BY <1>1, <2>1, <2>2 DEF HasMessage, Fits, Emptied
  <2> QED BY <1>1, <2>3 DEF TakenIn
<1>9. Paired'
  BY <1>1 DEF Paired
<1>10. Coming'
  BY <1>7, <1>8, <1>9 DEF Coming
<1> QED BY <1>1, <1>10 DEF RecoverInv

\* The receiver has collected a byte after the first, or waits for a message.
LEMMA RecoverCollect ==
    ASSUME TypeParts, gap >= 2, Coming, ~damaged, ByteArrives,
           txState = "WRITING", txCnt >= 2, pc \notin {"end", "copy", "length", "count", "state"},
           rxState' = "READING" \/ (rxState' = "WAITING" /\ rxBuff' = <<>>),
           owed # <<>> => rxState' = "READING" /\ rxBuff' = SubSeq(txBuff, 1, txCnt)
    PROVE  RecoverInv'
<1>1. /\ line # None /\ TransmitInterrupt /\ ticks' = 0 /\ pc' = pc /\ damaged' = damaged
      /\ owed' = IF line' = None THEN Append(owed, txBuff) ELSE owed
  BY DEF ByteArrives, ByteSent, Transfer
<1>2. Len(owed) <= 1
  BY DEF Coming
<1>3. /\ txBuff \in Frames /\ txBuff \in Seq(Byte) /\ txBuff' = txBuff
      /\ txCnt \in 2 .. Len(txBuff) /\ Len(txBuff) \in Nat
      /\ \A i \in 1 .. Len(txBuff) : txBuff[i] # None
  BY <1>1, FrameShape, Nobody DEF TypeParts, Sending, TransmitInterrupt
<1>4. owed \in Seq(Frames) /\ Len(owed) \in Nat
  BY DEF TypeParts, HistoryOK
<1>5. Emptied'
  BY <1>1 DEF Emptied
<1>6. CASE txCnt < Len(txBuff)
  <2>1. /\ txCnt' = txCnt + 1 /\ line' = txBuff[txCnt + 1]
        /\ txState' = IF line' = Header THEN "ESCAPING" ELSE "WRITING"
    BY <1>1, <1>3, <1>6 DEF TransmitInterrupt
  <2>2. line' # None
    BY <1>3, <1>6, <2>1
  <2>3. owed' = owed
    BY <1>1, <2>2
  <2>4. txCnt' >= 3 /\ txCnt' - 1 = txCnt /\ txCnt' # 1 /\ txCnt' # 2
    BY <1>3, <2>1
  <2>5. Paired'
    BY <1>5, <2>1 DEF Paired
  <2>6. owed' # <<>> => TakenIn'
    <3> SUFFICES ASSUME owed # <<>> PROVE TakenIn'
      BY <2>3
    <3>1. rxState' = "READING" /\ rxBuff' = SubSeq(txBuff', 1, txCnt' - 1)
      BY <1>3, <2>4
    <3>2. ~(line' = Header /\ txState' = "WRITING")
      BY <2>1
    <3> QED BY <2>4, <3>1, <3>2 DEF TakenIn
  <2>7. Coming'
    BY <1>2, <2>3, <2>5, <2>6 DEF Coming
  <2> QED BY <1>1, <2>2, <2>7 DEF RecoverInv
<1>7. CASE txCnt = Len(txBuff)
  <2>1. line' = None
    BY <1>1, <1>3, <1>7 DEF TransmitInterrupt
  <2>2. owed' = Append(owed, txBuff)
    BY <1>1, <2>1
  <2>3. Len(owed') = Len(owed) + 1 /\ owed'[Len(owed) + 1] = txBuff
    BY <1>3, <1>4, <2>2
  <2>4. Len(owed') <= 2 /\ (Len(owed') = 2 => Len(owed) = 1)
    <3>1. \A a, b \in Nat : b = a + 1 /\ a <= 1 => b <= 2 /\ (b = 2 => a = 1)
      OBVIOUS
    <3>2. Len(owed') \in Nat
      BY <1>4, <2>3
    <3> QED BY <1>2, <1>4, <2>3, <3>1, <3>2
  <2>5. ASSUME Len(owed') = 2 PROVE Pending(owed[2])'
    <3>1. Len(owed) = 1
      BY <2>4, <2>5
    <3>2. owed'[2] = txBuff /\ owed # <<>>
      BY <2>3, <3>1
    <3>3. rxBuff' = txBuff /\ rxState' = "READING"
      BY <1>3, <1>7, <3>2, SubSeqFull
    <3>4. pc' \notin {"length", "count", "state"} /\ ticks' = 0
      BY <1>1
    <3> QED BY <3>2, <3>3, <3>4 DEF Pending
  <2>6. Between'
    <3>1. rxState' # "ESCAPING"
      OBVIOUS
    <3> QED BY <1>5, <2>4, <2>5, <3>1 DEF Between
  <2> QED BY <2>1, <2>6 DEF RecoverInv
<1> QED BY <1>3, <1>6, <1>7

LEMMA RecoverArrives ==
    ASSUME TypeParts, gap >= 2, EndsBetween, Rested, RecoverInv, ByteArrives PROVE RecoverInv'
<1>1. /\ line # None /\ BusReceive(line) /\ TransmitInterrupt /\ ticks' = 0 /\ pc' = pc
      /\ (pc # "idle" => ticks > 0)
      /\ owed' = IF line' = None /\ ~damaged THEN Append(owed, txBuff) ELSE owed
      /\ damaged' = damaged
  BY DEF ByteArrives, ByteSent, Transfer
<1>2. CASE damaged
  <2>1. owed = <<>> /\ owed' = owed
    BY <1>1, <1>2 DEF RecoverInv
  <2> QED BY <1>1, <1>2, <2>1 DEF RecoverInv
<1>3. CASE ~damaged
  <2>1. Coming /\ Paired
    BY <1>1, <1>3 DEF RecoverInv, Coming
  <2>2. /\ txBuff \in Frames /\ txBuff \in Seq(Byte) /\ txBuff' = txBuff
        /\ txCnt \in 1 .. Len(txBuff) /\ Len(txBuff) \in Nat
        /\ line = txBuff[txCnt] /\ txState \in {"ESCAPING", "WRITING"}
        /\ txState = "ESCAPING" => line = Header /\ txCnt >= 3
        /\ txBuff[1] = Header /\ txBuff[2] # Header /\ Len(txBuff) >= 2 /\ Len(txBuff) < RxMax
    BY <1>1, FrameShape DEF TypeParts, Sending, TransmitInterrupt
  <2>3. RxMax \in Nat /\ rxState \in {"WAITING", "ESCAPING", "READING"} /\ ticks \in Nat
    BY Nobody, BowbusAssumption DEF TypeParts, Buffers, Clock, TimeOK
  <2>4. txCnt = 1 \/ pc \notin {"end", "copy", "length", "count", "state"}
    BY <1>1, <2>2, <2>3 DEF EndsBetween
  <2>5. owed # <<>> => TakenIn
    BY <2>1 DEF Coming
  <2>6. line' # None => owed' = owed
    BY <1>1
  <2>7. ASSUME line' # None, Paired', owed # <<>> => TakenIn' PROVE RecoverInv'
    <3>1. Coming'
      BY <2>1, <2>6, <2>7 DEF Coming
    <3> QED BY <1>1, <1>3, <2>7, <3>1 DEF RecoverInv
  <2>8. CASE txCnt = 1
    <3>1. /\ line = Header /\ txState = "WRITING" /\ line' = txBuff[2] /\ txCnt' = 2
          /\ txState' = "WRITING"
      BY <1>1, <2>2, <2>8 DEF TransmitInterrupt
    <3>2. line' # None
      BY <2>2, <3>1, FrameShape, Nobody
    <3>3. pc \notin {"copy", "length", "count", "state"}
      BY <1>1, <2>8 DEF Rested, Opening
    <3>4. rxState' # "WAITING"
      BY <1>1, <2>3, <3>1 DEF BusReceive
    <3>5. Emptied'
      BY <1>1, <3>3, <3>4 DEF Emptied
    <3>6. Paired'
      BY <3>1, <3>5 DEF Paired
    <3>7. ASSUME owed # <<>> PROVE TakenIn'
      <4>1. rxState # "ESCAPING" /\ ~HasMessage
        BY <2>5, <2>8, <3>7 DEF TakenIn
      <4>2. rxState' = "ESCAPING" /\ UNCHANGED rxBuff
        BY <1>1, <2>3, <3>1, <4>1 DEF BusReceive
      <4>3. ~HasMessage'
        BY <4>1, <4>2 DEF HasMessage, Fits
      <4> QED BY <1>1, <3>1, <3>3, <4>2, <4>3 DEF TakenIn
    <3> QED BY <2>7, <3>2, <3>6, <3>7
  <2>9. CASE txCnt = 2
    <3>1. line # Header /\ txState = "WRITING"
      BY <2>2, <2>9
    <3>2. rxState' = "READING" \/ (rxState' = "WAITING" /\ rxBuff' = <<>>)
      BY <1>1, <2>1, <2>3, <2>9, <3>1 DEF BusReceive, Paired, Emptied
    <3>3. ASSUME owed # <<>> PROVE rxState' = "READING" /\ rxBuff' = SubSeq(txBuff, 1, txCnt)
      <4>1. rxState = "ESCAPING"
        BY <2>5, <2>9, <3>3 DEF TakenIn
      <4>2. rxBuff' = <<Header, line>> /\ rxState' = "READING"
        BY <1>1, <3>1, <4>1 DEF BusReceive
      <4>3. <<Header, line>> = SubSeq(txBuff, 1, 2)
        <5>1. /\ SubSeq(txBuff, 1, 2) \in Seq(Byte) /\ Len(SubSeq(txBuff, 1, 2)) = 2
              /\ SubSeq(txBuff, 1, 2)[1] = Header /\ SubSeq(txBuff, 1, 2)[2] = line
          BY <2>2, <2>9
        <5>2. <<Header, line>> \in Seq(Byte) /\ Len(<<Header, line>>) = 2
          BY <2>2, <2>9, Nobody
        <5>3. \A i \in 1 .. 2 : <<Header, line>>[i] = SubSeq(txBuff, 1, 2)[i]
          BY <5>1
        <5> QED BY <5>1, <5>2, <5>3, SeqEqual
      <4> QED BY <2>9, <4>2, <4>3
    <3>4. txCnt >= 2 /\ pc \notin {"end", "copy", "length", "count", "state"}
      BY <2>4, <2>9
    <3> QED BY <1>3, <2>1, <3>1, <3>2, <3>3, <3>4, RecoverCollect
  <2>10. CASE txCnt >= 3 /\ txState = "ESCAPING"
    <3>1. /\ line' = Header /\ line' # None /\ txState' = "WRITING" /\ txCnt' = txCnt
          /\ line = Header /\ rxState # "ESCAPING"
      BY <1>1, <2>1, <2>2, <2>10, Nobody DEF TransmitInterrupt, Paired
    <3>2. rxState' = "ESCAPING" /\ (rxState = "READING" => UNCHANGED rxBuff)
      BY <1>1, <2>3, <3>1 DEF BusReceive
    <3>3. Emptied'
      BY <1>1, <2>2, <2>4, <2>10, <3>2 DEF Emptied
    <3>4. Paired'
      BY <2>2, <2>10, <3>1, <3>2, <3>3 DEF Paired
    <3>5. ASSUME owed # <<>> PROVE TakenIn'
      <4>1. rxBuff = SubSeq(txBuff, 1, txCnt - 1) /\ rxState = "READING"
        BY <2>5, <2>10, <3>5 DEF TakenIn
      <4>2. rxBuff' = SubSeq(txBuff', 1, txCnt' - 1)
        BY <2>2, <3>1, <3>2, <4>1
      <4>3. txCnt' # 1 /\ txCnt' # 2
        BY <2>2, <2>10, <3>1
      <4> QED BY <3>1, <3>2, <4>2, <4>3 DEF TakenIn
    <3> QED BY <2>7, <3>1, <3>4, <3>5
  <2>11. CASE txCnt >= 3 /\ txState = "WRITING"
    <3>1. IF line = Header THEN rxState = "ESCAPING" ELSE rxState \in {"WAITING", "READING"}
      BY <2>1, <2>2, <2>3, <2>11 DEF Paired
    <3>2. rxState # "WAITING" => Collect(line) /\ rxState' = "READING"
      <4>1. CASE line = Header
        BY <1>1, <3>1, <4>1 DEF BusReceive
      <4>2. CASE line # Header
        BY <1>1, <3>1, <4>2 DEF BusReceive
      <4> QED BY <4>1, <4>2
    <3>3. rxState = "WAITING" => rxState' = "WAITING" /\ rxBuff' = <<>>
      BY <1>1, <2>1, <2>2, <2>11, <3>1 DEF BusReceive, Paired, Emptied
    <3>4. rxState' = "READING" \/ (rxState' = "WAITING" /\ rxBuff' = <<>>)
      BY <3>2, <3>3
    <3>5. ASSUME owed # <<>> PROVE rxState' = "READING" /\ rxBuff' = SubSeq(txBuff, 1, txCnt)
      <4>1. rxBuff = SubSeq(txBuff, 1, txCnt - 1) /\ rxState # "WAITING"
        BY <2>2, <2>5, <2>11, <3>5 DEF TakenIn
      <4>2. txCnt - 1 \in 0 .. Len(txBuff) - 1 /\ txCnt - 1 + 1 = txCnt
        BY <2>2
      <4>3. Len(rxBuff) = txCnt - 1 /\ Append(rxBuff, line) = SubSeq(txBuff, 1, txCnt)
        BY <2>2, <4>1, <4>2, OneMore
      <4>4. Fits
        BY <2>2, <2>3, <4>3 DEF Fits
      <4> QED BY <3>2, <4>1, <4>3, <4>4 DEF Collect
    <3>6. txCnt >= 2 /\ pc \notin {"end", "copy", "length", "count", "state"}
      BY <2>2, <2>4, <2>11
    <3> QED BY <1>3, <2>1, <2>11, <3>4, <3>5, <3>6, RecoverCollect
  <2> QED BY <2>2, <2>8, <2>9, <2>10, <2>11
<1> QED BY <1>2, <1>3

\* What is owed gets shorter when a message that is owed is used, and else stays.
LEMMA SettleShortens ==
    ASSUME owed \in Seq(Frames), NEW m, Settle(m)
    PROVE  /\ owed = <<>> => owed' = <<>>
           /\ Len(owed) \in Nat /\ Len(owed') \in Nat /\ Len(owed') <= Len(owed)
           /\ Len(owed') = Len(owed) => owed' = owed /\ \A i \in DOMAIN owed : owed[i] # m
<1>1. PICK n \in 0 .. Len(owed) :
          /\ IF n = 0 THEN \A j \in DOMAIN owed : owed[j] # m
                      ELSE owed[n] = m /\ \A j \in 1 .. n - 1 : owed[j] # m
          /\ owed' = SubSeq(owed, n + 1, Len(owed))
  BY DEF Settle
<1>2. Len(owed) \in Nat /\ Len(owed') = Len(owed) - n /\ Len(owed) - n \in Nat
  BY <1>1
<1>3. owed = <<>> => owed' = <<>>
  <2> SUFFICES ASSUME owed = <<>> PROVE owed' = <<>>
    OBVIOUS
  <2>1. Len(owed) = 0 /\ n = 0
    BY <1>1
  <2>2. owed' = SubSeq(owed, 1, 0)
    BY <1>1, <2>1
  <2> QED BY <2>2
<1>4. Len(owed') = Len(owed) => n = 0
  BY <1>1, <1>2
<1>5. n = 0 => owed' = owed
  BY <1>1, SubSeqFull
<1> QED BY <1>1, <1>2, <1>3, <1>4, <1>5

\* The main loop deals with a tick.
LEMMA RecoverMain ==
    ASSUME TypeParts, gap >= 2, EndsBetween, RecoverInv, Main PROVE RecoverInv'
<1>1. UNCHANGED sender
  BY DEF Main, Tick, ClearFlag, EndTest, EndCopy, EndLength, EndCount, EndState, CheckMessage,
         UseMessage, MessageDone
<1>2. UNCHANGED <<txBuff, txCnt, txState, line, damaged>>
  BY <1>1 DEF sender
<1>3. ticks \in Nat /\ gap \in Nat /\ (line # None => txCnt \in Nat) /\ owed \in Seq(Frames)
      /\ waitForLastChar \in BOOLEAN
  BY FrameShape, BowbusAssumption DEF TypeParts, Clock, TimeOK, Sending, HistoryOK, Buffers
\* It suffices to look at what it reads and writes.
<1>4. ASSUME owed' = owed, line # None /\ Coming => Coming',
             line = None /\ Between => Between'
      PROVE  RecoverInv'
  BY <1>2, <1>4 DEF RecoverInv
<1>5. ASSUME owed' = owed, Paired => Paired', line # None /\ Coming /\ TakenIn => TakenIn'
      PROVE  line # None /\ Coming => Coming'
  BY <1>5 DEF Coming
<1>6. ASSUME UNCHANGED <<rxBuff, rxState, msgBuff, newMessage, owed>>,
             pc \notin {"copy", "length", "count", "state"}, pc' \notin {"length", "count", "state"},
             line # None /\ txCnt = 2 /\ ~HasMessage => pc' # "copy",
             \A m \in Frames : Pending(m) => Pending(m)'
      PROVE  RecoverInv'
  <2>1. (Emptied <=> Emptied') /\ (HasMessage <=> HasMessage')
    BY <1>6 DEF Emptied, HasMessage, Fits
  <2>2. Paired => Paired'
    BY <1>2, <1>6, <2>1 DEF Paired
  <2>3. line # None /\ TakenIn => TakenIn'
    BY <1>2, <1>6, <2>1 DEF TakenIn
  <2>4. Between => Between'
    <3> SUFFICES ASSUME Between PROVE Between'
      OBVIOUS
    <3>1. ASSUME Len(owed) = 2 PROVE Pending(owed[2])'
      <4>1. owed[2] \in Frames /\ Pending(owed[2])
        BY <1>3, <3>1 DEF Between
      <4> QED BY <1>6, <4>1
    <3> QED BY <1>6, <2>1, <3>1 DEF Between
  <2> QED BY <1>4, <1>5, <1>6, <2>2, <2>3, <2>4
<1>7. CASE Tick
  <2>1. /\ pc = "idle" /\ UNCHANGED <<rxBuff, rxState, waitForLastChar, msgBuff, newMessage, owed>>
        /\ ticks' = (IF ticks > gap THEN ticks ELSE ticks + 1)
        /\ pc' = (IF waitForLastChar THEN "clear" ELSE "end")
    BY <1>7 DEF Tick, receiver, history
  <2>2. pc' \in {"clear", "end"}
    BY <2>1
  <2>3. ASSUME NEW m \in Frames, Pending(m) PROVE Pending(m)'
    <3>1. /\ rxBuff = m /\ rxState = "READING"
          /\ ticks = 0 \/ (ticks = 1 /\ ~waitForLastChar)
      BY <2>1, <2>3 DEF Pending
    <3>2. ticks' = ticks + 1
      BY <1>3, <2>1, <3>1
    <3>3. \/ ticks' = 1 /\ (pc' = "clear" \/ ~waitForLastChar')
          \/ ticks' = 2 /\ pc' = "end"
      BY <1>3, <2>1, <3>1, <3>2
    <3> QED BY <2>1, <2>2, <3>1, <3>3 DEF Pending
  <2> QED BY <1>6, <2>1, <2>2, <2>3
<1>8. CASE ClearFlag
  <2>1. /\ pc = "clear" /\ pc' = "check" /\ waitForLastChar' = FALSE
        /\ UNCHANGED <<rxBuff, rxState, msgBuff, newMessage, owed, ticks>>
    BY <1>8 DEF ClearFlag, timing, history
  <2>2. \A m \in Frames : Pending(m) => Pending(m)'
    BY <2>1 DEF Pending
  <2> QED BY <1>6, <2>1, <2>2
<1>9. CASE EndTest
  <2>1. /\ pc = "end" /\ pc' = (IF rxState # "WAITING" /\ HasMessage THEN "copy" ELSE "check")
        /\ UNCHANGED <<rxBuff, rxState, waitForLastChar, msgBuff, newMessage, owed, ticks>>
    BY <1>9 DEF EndTest, receiver, timing, history
  <2>2. ASSUME NEW m \in Frames, Pending(m) PROVE Pending(m)'
    <3>1. /\ rxBuff = m /\ rxState = "READING"
          /\ ticks = 0 \/ (ticks = 1 /\ ~waitForLastChar) \/ ticks = 2
      BY <2>1, <2>2 DEF Pending
    <3>2. HasMessage
      <4>1. Fits /\ rxBuff # <<>>
        BY <3>1, FrameShape, Nobody DEF Fits
      <4> QED BY <4>1 DEF HasMessage
    <3>3. pc' = "copy"
      BY <2>1, <3>1, <3>2
    <3> QED BY <2>1, <3>1, <3>3 DEF Pending
  <2> QED BY <1>6, <2>1, <2>2
<1>10. CASE EndCopy \/ EndLength
  <2>1. /\ \/ pc = "copy" /\ pc' = "length" /\ msgBuff' = rxBuff
           \/ /\ pc = "length" /\ pc' = "count" /\ newMessage' = TRUE
              /\ msgBuff = rxBuff => msgBuff' = rxBuff
        /\ UNCHANGED <<rxBuff, rxState, waitForLastChar, owed, ticks>>
    BY <1>10, LengthKept DEF EndCopy, EndLength, timing, history, TypeParts
  <2>2. (HasMessage <=> HasMessage') /\ (Emptied => Emptied')
    BY <2>1 DEF HasMessage, Fits, Emptied
  <2>3. Paired => Paired'
    BY <1>2, <2>1, <2>2 DEF Paired
  <2>4. line # None => txCnt <= 2
    BY <1>3, <2>1 DEF EndsBetween
  <2>5. line # None /\ TakenIn => TakenIn'
    BY <1>2, <1>3, <2>1, <2>2, <2>4 DEF TakenIn
  <2>6. \A m : Pending(m) => Pending(m)'
    BY <1>3, <2>1 DEF Pending
  <2>7. Between => Between'
    BY <2>1, <2>2, <2>6 DEF Between
  <2> QED BY <1>4, <1>5, <2>1, <2>3, <2>5, <2>7
<1>11. CASE EndCount
  <2>1. /\ pc = "count" /\ pc' = "state" /\ rxBuff' = <<>>
        /\ UNCHANGED <<rxState, waitForLastChar, msgBuff, newMessage, owed, ticks>>
    BY <1>11 DEF EndCount, timing, history
  <2>2. ~HasMessage' /\ Emptied'
    BY <2>1 DEF HasMessage, Emptied
  <2>3. Paired => Paired'
    BY <1>2, <2>1, <2>2 DEF Paired
  <2>4. line # None => txCnt <= 2
    BY <1>3, <2>1 DEF EndsBetween
  <2>5. line # None /\ TakenIn => TakenIn'
    BY <1>2, <1>3, <2>1, <2>2, <2>4 DEF TakenIn
  <2>6. \A m : Pending(m) => Pending(m)'
    BY <2>1 DEF Pending
  <2>7. Between => Between'
    BY <2>1, <2>2, <2>6 DEF Between
  <2> QED BY <1>4, <1>5, <2>1, <2>3, <2>5, <2>7
<1>12. CASE EndState
  <2>1. /\ pc = "state" /\ pc' = "check" /\ rxState' = "WAITING"
        /\ UNCHANGED <<rxBuff, waitForLastChar, msgBuff, newMessage, owed, ticks>>
    BY <1>12 DEF EndState, timing, history
  <2>2. (HasMessage <=> HasMessage') /\ (Emptied => Emptied')
    BY <2>1 DEF HasMessage, Fits, Emptied
  <2>3. line = None \/ txCnt <= 2
    BY <1>3, <2>1 DEF EndsBetween
  <2>4. line # None /\ Paired => Paired'
    BY <1>2, <1>3, <2>1, <2>2, <2>3 DEF Paired
  <2>5. line # None /\ TakenIn => TakenIn'
    BY <1>2, <1>3, <2>1, <2>2, <2>3 DEF TakenIn
  <2>6. \A m : Pending(m) => Pending(m)'
    BY <2>1 DEF Pending
  <2>7. Between => Between'
    BY <2>1, <2>2, <2>6 DEF Between
  <2>8. line # None /\ Coming => Coming'
    BY <2>1, <2>4, <2>5 DEF Coming
  <2> QED BY <1>4, <2>1, <2>7, <2>8
<1>13. CASE CheckMessage
  <2>1. /\ pc = "check"
        /\ pc' = (IF ~newMessage THEN "idle" ELSE IF msgBuff \in Frames THEN "use" ELSE "done")
        /\ UNCHANGED <<rxBuff, rxState, waitForLastChar, msgBuff, newMessage, owed, ticks>>
    BY <1>13 DEF CheckMessage, receiver, timing
  <2>2. pc' \in {"idle", "use", "done"}
    BY <2>1
  <2>3. \A m \in Frames : Pending(m) => Pending(m)'
    BY <2>1, <2>2 DEF Pending
  <2> QED BY <1>6, <2>1, <2>2, <2>3
<1>14. CASE UseMessage
  <2>1. /\ pc = "use" /\ pc' = "done" /\ Settle(msgBuff)
        /\ UNCHANGED <<rxBuff, rxState, waitForLastChar, msgBuff, newMessage, ticks>>
    BY <1>14 DEF UseMessage, receiver, timing
  <2>2. /\ owed = <<>> => owed' = <<>>
        /\ Len(owed) \in Nat /\ Len(owed') \in Nat /\ Len(owed') <= Len(owed)
        /\ Len(owed') = Len(owed) => owed' = owed /\ \A i \in DOMAIN owed : owed[i] # msgBuff
    BY <1>3, <2>1, SettleShortens
  <2>3. (HasMessage <=> HasMessage') /\ (Emptied => Emptied')
    BY <2>1 DEF HasMessage, Fits, Emptied
  <2>4. Paired => Paired'
    BY <1>2, <2>1, <2>3 DEF Paired
  <2>5. TakenIn => TakenIn'
    BY <1>2, <2>1, <2>3 DEF TakenIn
  <2>6. (Len(owed) <= 1 => Len(owed') <= 1) /\ (Len(owed) <= 2 => Len(owed') <= 2)
    <3>1. \A a, b \in Nat : a <= b => (b <= 1 => a <= 1) /\ (b <= 2 => a <= 2)
      OBVIOUS
    <3> QED BY <2>2, <3>1
  <2>7. Coming => Coming'
    BY <2>2, <2>4, <2>5, <2>6 DEF Coming
  <2>8. ASSUME Between, Len(owed') = 2 PROVE Pending(owed[2])' /\ owed' = owed
    <3>1. Len(owed) = 2
      <4>1. \A a, b \in Nat : a <= b /\ b <= 2 /\ a = 2 => b = 2
        OBVIOUS
      <4> QED BY <2>2, <2>8, <4>1 DEF Between
    <3>2. owed' = owed /\ owed[2] # msgBuff
      BY <1>3, <2>2, <2>8, <3>1
    <3>3. Pending(owed[2])
      BY <2>8, <3>1 DEF Between
    <3> QED BY <2>1, <3>2, <3>3 DEF Pending
  <2>9. Between => Between'
    BY <2>1, <2>3, <2>6, <2>8 DEF Between
  <2> QED BY <1>2, <2>2, <2>7, <2>9 DEF RecoverInv
<1>15. CASE MessageDone
  <2>1. /\ pc = "done" /\ pc' = "idle" /\ newMessage' = FALSE
        /\ UNCHANGED <<rxBuff, rxState, waitForLastChar, owed, ticks>>
    BY <1>15 DEF MessageDone, timing, history
  <2>2. (HasMessage <=> HasMessage') /\ (Emptied => Emptied')
    BY <2>1 DEF HasMessage, Fits, Emptied
  <2>3. Paired => Paired'
    BY <1>2, <2>1, <2>2 DEF Paired
  <2>4. TakenIn => TakenIn'
    BY <1>2, <2>1, <2>2 DEF TakenIn
  <2>5. \A m : Pending(m) => Pending(m)'
    BY <2>1 DEF Pending
  <2>6. Between => Between'
    BY <2>1, <2>2, <2>5 DEF Between
  <2> QED BY <1>4, <1>5, <2>1, <2>3, <2>4, <2>6
<1> QED BY <1>7, <1>8, <1>9, <1>10, <1>11, <1>12, <1>13, <1>14, <1>15 DEF Main

LEMMA RecoverNext == TypeParts /\ Schedule /\ RecoverInv /\ [Next]_vars => RecoverInv'
<1> SUFFICES ASSUME TypeParts, Schedule, RecoverInv, [Next]_vars, gap' >= 2 PROVE RecoverInv'
  BY DEF RecoverInv
<1>1. gap >= 2 /\ EndsBetween /\ Rested
  BY SameGap DEF Schedule
<1>2. CASE UNCHANGED vars
  BY <1>2 DEF vars, sender, receiver, timing, history, RecoverInv, Coming, Paired, TakenIn,
              Emptied, HasMessage, Fits, Between, Pending
<1>3. CASE ByteSpoiled
  BY <1>3 DEF ByteSpoiled, RecoverInv
<1>4. CASE StrayByte
  <2>1. line' = None /\ owed' = <<>>
    BY <1>4 DEF StrayByte, sender
  <2> QED BY <2>1 DEF RecoverInv
<1> QED BY <1>1, <1>2, <1>3, <1>4, RecoverSend, RecoverArrives, RecoverMain DEF Next

(* Of two whole messages in a row, two ticks apart, the second is used      *)
(* before another begins, whatever noise went before them: a receiver that  *)
(* noise left in any state takes the pairs of an escaped 0x10 for what they *)
(* are from the second byte of a message on, and the silence behind that    *)
(* message leaves bus_receive ready for the next.  For any messages, buffer *)
(* and amount of noise.                                                     *)
THEOREM BowbusRecovers == Spec => []Recovers
<1>1. TypeParts /\ RecoverInv => Recovers
  <2> SUFFICES ASSUME TypeParts, RecoverInv, gap >= 2, line # None PROVE Len(owed) <= 1
    BY DEF Recovers
  <2>1. owed = <<>> \/ Coming
    BY DEF RecoverInv
  <2> QED BY <2>1 DEF Coming
<1> QED BY <1>1, PartsInit, PartsNext, ScheduleInit, ScheduleNext, RecoverInit, RecoverNext, PTL
        DEF Spec

=============================================================================
