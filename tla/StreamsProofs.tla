--------------------------- MODULE StreamsProofs ---------------------------
(* What the streams promise, for fifos of any size, any bytes and patterns. *)
EXTENDS Streams, SequenceTheorems, TLAPS

LEMMA SizesType == RxSize \in Nat \ {0} /\ TxSize \in Nat \ {0} /\ MaxBytes \in Nat
BY StreamsAssumption

LEMMA PatternType == Pattern \in Seq(Byte)
BY StreamsAssumption

LEMMA PieceType ==
    ASSUME NEW data \in Pieces
    PROVE  data \in Seq(Byte) /\ Len(data) \in Nat
<1>1. CASE data = <<>>
  BY <1>1
<1>2. ASSUME NEW b \in Byte, data = <<b>> PROVE data \in Seq(Byte) /\ Len(data) \in Nat
  BY <1>2
<1>3. ASSUME NEW b \in Byte, NEW c \in Byte, data = <<b, c>>
      PROVE  data \in Seq(Byte) /\ Len(data) \in Nat
  BY <1>3
<1> QED BY <1>1, <1>2, <1>3 DEF Pieces

(* The front of a sequence is a sequence. *)
LEMMA FrontType ==
    ASSUME NEW s \in Seq(Byte), NEW n \in Nat
    PROVE  /\ SubSeq(s, 1, IF Len(s) < n THEN Len(s) ELSE n) \in Seq(Byte)
           /\ Len(SubSeq(s, 1, IF Len(s) < n THEN Len(s) ELSE n)) <= n
OBVIOUS

LEMMA TypeInit == Init => TypeOK
<1> SUFFICES ASSUME Init PROVE TypeOK
  OBVIOUS
<1>1. port \in Ports /\ CallOK
  BY DEF Init, CallOK
<1>2. FlagsOK
  BY DEF Init, FlagsOK
<1>3. BytesOK
  BY SizesType DEF Init, BytesOK
<1> QED BY <1>1, <1>2, <1>3 DEF TypeOK

LEMMA StartType ==
    ASSUME TypeOK, Start
    PROVE  /\ tx' \in Seq(Byte) /\ Len(tx') <= TxSize /\ wire' \in Seq(Byte)
           /\ sending' \in BOOLEAN /\ (sending' => port = "interrupt") /\ filled' = FALSE
<1>1. CASE port = "interrupt"
  BY <1>1 DEF Start, TypeOK, FlagsOK, BytesOK
<1>2. CASE port = "flush"
  <2>1. wire' = wire \o tx /\ tx' = <<>> /\ sending' = sending /\ filled' = FALSE
    BY <1>2 DEF Start
  <2>2. tx' \in Seq(Byte) /\ Len(tx') <= TxSize
    BY <2>1, SizesType
  <2>3. wire' \in Seq(Byte)
    BY <2>1 DEF TypeOK, BytesOK
  <2> QED BY <2>1, <2>2, <2>3 DEF TypeOK, FlagsOK
<1>3. CASE port = "failing"
  <2>1. PICK n \in 0 .. Len(tx) : wire' = wire \o SubSeq(tx, 1, n)
    BY <1>3 DEF Start
  <2>2. tx' = <<>> /\ sending' = sending /\ filled' = FALSE
    BY <1>3 DEF Start
  <2>3. tx' \in Seq(Byte) /\ Len(tx') <= TxSize
    BY <2>2, SizesType
  <2>4. wire' \in Seq(Byte)
    <3>1. wire \in Seq(Byte) /\ tx \in Seq(Byte) /\ n \in Nat /\ n <= Len(tx)
      BY DEF TypeOK, BytesOK
    <3>2. SubSeq(tx, 1, n) \in Seq(Byte)
      BY <3>1
    <3> QED BY <2>1, <3>1, <3>2
  <2> QED BY <2>2, <2>3, <2>4 DEF TypeOK, FlagsOK
<1> QED BY <1>1, <1>2, <1>3 DEF Start

LEMMA TypeWork == TypeOK /\ Work => TypeOK'
<1> SUFFICES ASSUME TypeOK, Work PROVE TypeOK'
  OBVIOUS
<1>1. CASE Get
  <2>1. port' \in Ports /\ CallOK'
    BY <1>1 DEF TypeOK, CallOK, BytesOK, Get
  <2>2. matched' \in Nat /\ found' \in BOOLEAN /\ seen' \in Seq(Byte)
    <3>1. CASE call = "search"
      <4>1. Match(Head(rx)) /\ seen' = Append(seen, Head(rx)) /\ Head(rx) \in Byte
        BY <1>1, <3>1 DEF Get, TypeOK, BytesOK
      <4>2. PICK hit \in BOOLEAN :
               /\ matched' = (IF hit THEN matched + 1 ELSE 0)
               /\ found' = (found \/ (hit /\ matched' = Len(Pattern)))
        BY <4>1 DEF Match
      <4> QED BY <4>1, <4>2 DEF TypeOK, BytesOK, FlagsOK
    <3>2. CASE call # "search"
      BY <1>1, <3>2 DEF Get, pattern, TypeOK, BytesOK, FlagsOK
    <3> QED BY <3>1, <3>2
  <2>3. FlagsOK'
    BY <1>1, <2>2 DEF TypeOK, FlagsOK, Get
  <2>4. BytesOK'
    BY <1>1, <2>2, SizesType DEF TypeOK, BytesOK, Get
  <2> QED BY <2>1, <2>3, <2>4 DEF TypeOK
<1>2. CASE NothingToGet
  <2>1. port' \in Ports /\ CallOK'
    BY <1>2 DEF TypeOK, CallOK, NothingToGet
  <2>2. FlagsOK' /\ BytesOK'
    BY <1>2 DEF TypeOK, FlagsOK, BytesOK, NothingToGet, fifos, pattern
  <2> QED BY <2>1, <2>2 DEF TypeOK
<1>3. CASE Test
  <2>1. port' \in Ports /\ CallOK'
    BY <1>3 DEF TypeOK, CallOK, Test, Return
  <2>2. /\ tx' \in Seq(Byte) /\ Len(tx') <= TxSize /\ wire' \in Seq(Byte)
        /\ sending' \in BOOLEAN /\ (sending' => port = "interrupt") /\ filled' \in BOOLEAN
    BY <1>3, StartType DEF TypeOK, FlagsOK, BytesOK, Test, NoStart
  <2>3. left' \in Seq(Byte)
    <3>1. left' = left \/ left' = <<>>
      BY <1>3 DEF Test, Return
    <3>2. left \in Seq(Byte) /\ <<>> \in Seq(Byte)
      BY DEF TypeOK, BytesOK
    <3> QED BY <3>1, <3>2
  <2>4. FlagsOK' /\ BytesOK'
    BY <1>3, <2>2, <2>3 DEF TypeOK, FlagsOK, BytesOK, Test, pattern
  <2> QED BY <2>1, <2>4 DEF TypeOK
<1>4. CASE Put
  <2>1. port' \in Ports /\ CallOK'
    <3>1. call = "write" /\ left # <<>> => Head(left) \in Byte
      BY DEF TypeOK, BytesOK
    <3> QED BY <1>4, <3>1 DEF TypeOK, CallOK, Put, PutDone, Return
  <2>2. tx' \in Seq(Byte) /\ Len(tx') <= TxSize
    BY <1>4, SizesType DEF TypeOK, CallOK, BytesOK, Put, IsFull
  <2>3. left' \in Seq(Byte)
    <3>1. left' = left \/ left' = <<>> \/ (left # <<>> /\ left' = Tail(left))
      BY <1>4 DEF Put, PutDone, Return
    <3>2. left \in Seq(Byte) /\ <<>> \in Seq(Byte)
      BY DEF TypeOK, BytesOK
    <3>3. left # <<>> => Tail(left) \in Seq(Byte)
      BY <3>2
    <3> QED BY <3>1, <3>2, <3>3
  <2>4. FlagsOK' /\ BytesOK'
    BY <1>4, <2>2, <2>3 DEF TypeOK, FlagsOK, BytesOK, Put, PutDone, pattern
  <2> QED BY <2>1, <2>4 DEF TypeOK
<1>5. CASE Notify
  <2>1. port' \in Ports /\ CallOK'
    BY <1>5 DEF TypeOK, CallOK, Notify, Return
  <2>2. /\ tx' \in Seq(Byte) /\ Len(tx') <= TxSize /\ wire' \in Seq(Byte)
        /\ sending' \in BOOLEAN /\ (sending' => port = "interrupt") /\ filled' \in BOOLEAN
    BY <1>5, StartType DEF TypeOK, FlagsOK, BytesOK, Notify, NoStart
  <2>3. FlagsOK' /\ BytesOK'
    BY <1>5, <2>2 DEF TypeOK, FlagsOK, BytesOK, Notify, Return, pattern
  <2> QED BY <2>1, <2>3 DEF TypeOK
<1> QED BY <1>1, <1>2, <1>3, <1>4, <1>5 DEF Work

LEMMA TypeCalls == TypeOK /\ Calls => TypeOK'
<1> SUFFICES ASSUME TypeOK, Calls PROVE TypeOK'
  OBVIOUS
<1>1. CASE Forward
  <2>1. port' \in Ports /\ CallOK'
    BY <1>1 DEF TypeOK, CallOK, Forward, Begin
  <2>2. FlagsOK' /\ BytesOK'
    BY <1>1 DEF TypeOK, FlagsOK, BytesOK, Forward, fifos, pattern
  <2> QED BY <2>1, <2>2 DEF TypeOK
<1>2. CASE PatternInit
  <2>1. port' \in Ports /\ CallOK'
    BY <1>2 DEF TypeOK, CallOK, PatternInit
  <2>2. /\ matched' = 0 /\ found' = FALSE /\ seen' \in Seq(Byte)
        /\ UNCHANGED <<port, rx, tx, wire, left, bytes, sending, filled>>
    BY <1>2 DEF PatternInit, fifos
  <2>3. FlagsOK' /\ BytesOK'
    BY <2>2 DEF TypeOK, FlagsOK, BytesOK
  <2> QED BY <2>1, <2>3 DEF TypeOK
<1>3. ASSUME NEW data \in Pieces, Write(data) PROVE TypeOK'
  <2>1. data \in Seq(Byte) /\ Len(data) \in Nat
    BY PieceType
  <2>2. bytes' \in 0 .. MaxBytes
    BY <1>3, <2>1, SizesType DEF TypeOK, BytesOK, Write, Spend
  <2>3. data # <<>> => Head(data) \in Byte /\ Tail(data) \in Seq(Byte)
    BY <2>1
  <2>4. port' \in Ports /\ CallOK'
    BY <1>3, <2>3 DEF TypeOK, CallOK, Write, Begin
  <2>5. left' \in Seq(Byte)
    <3>1. left' = left \/ (data # <<>> /\ left' = Tail(data))
      BY <1>3 DEF Write
    <3> QED BY <2>3, <3>1 DEF TypeOK, BytesOK
  <2>6. UNCHANGED <<port, rx, tx, sending, wire, matched, found, seen, filled>>
    BY <1>3 DEF Write, fifos, pattern
  <2>7. FlagsOK' /\ BytesOK'
    BY <2>2, <2>5, <2>6, SizesType DEF TypeOK, FlagsOK, BytesOK
  <2> QED BY <2>4, <2>7 DEF TypeOK
<1>4. ASSUME NEW c \in Byte, Putc(c) PROVE TypeOK'
  <2>1. port' \in Ports /\ CallOK'
    BY <1>4 DEF TypeOK, CallOK, Putc, Begin
  <2>2. FlagsOK' /\ BytesOK'
    BY <1>4, SizesType DEF TypeOK, FlagsOK, BytesOK, Putc, Spend, fifos, pattern
  <2> QED BY <2>1, <2>2 DEF TypeOK
<1>5. ASSUME NEW max \in 1 .. 2, Read(max) PROVE TypeOK'
  <2>1. port' \in Ports /\ CallOK'
    BY <1>5 DEF TypeOK, CallOK, Read
  <2>2. rx' \in Seq(Byte) /\ Len(rx') <= RxSize
    BY <1>5, SizesType DEF TypeOK, BytesOK, Read
  <2>3. FlagsOK' /\ BytesOK'
    BY <1>5, <2>2 DEF TypeOK, FlagsOK, BytesOK, Read, pattern
  <2> QED BY <2>1, <2>3 DEF TypeOK
<1> QED BY <1>1, <1>2, <1>3, <1>4, <1>5 DEF Calls

LEMMA TypePort == TypeOK /\ Port => TypeOK'
<1> SUFFICES ASSUME TypeOK, Port PROVE TypeOK'
  OBVIOUS
<1>1. CASE ReceiveInterrupt
  <2>1. port' \in Ports /\ CallOK' /\ FlagsOK'
    BY <1>1 DEF TypeOK, CallOK, FlagsOK, ReceiveInterrupt, pattern
  <2>2. BytesOK'
    BY <1>1, SizesType DEF TypeOK, BytesOK, ReceiveInterrupt, Spend, pattern
  <2> QED BY <2>1, <2>2 DEF TypeOK
<1>2. CASE TransmitInterrupt
  <2>1. port' \in Ports /\ CallOK'
    BY <1>2 DEF TypeOK, CallOK, TransmitInterrupt
  <2>2. FlagsOK'
    BY <1>2 DEF TypeOK, FlagsOK, TransmitInterrupt, pattern
  <2>3. tx' \in Seq(Byte) /\ Len(tx') <= TxSize /\ wire' \in Seq(Byte)
    <3>1. CASE tx = <<>>
      <4>1. UNCHANGED <<tx, wire>>
        BY <1>2, <3>1 DEF TransmitInterrupt
      <4> QED BY <4>1 DEF TypeOK, BytesOK
    <3>2. CASE tx # <<>>
      <4>1. wire' = Append(wire, Head(tx)) /\ tx' = Tail(tx)
        BY <1>2, <3>2 DEF TransmitInterrupt
      <4>2. tx \in Seq(Byte) /\ Len(tx) <= TxSize /\ wire \in Seq(Byte)
        BY DEF TypeOK, BytesOK
      <4> QED BY <3>2, <4>1, <4>2, SizesType
    <3> QED BY <3>1, <3>2
  <2>4. UNCHANGED <<rx, left, seen, matched, bytes>>
    BY <1>2 DEF TransmitInterrupt, pattern
  <2>5. BytesOK'
    BY <2>3, <2>4, SizesType DEF TypeOK, BytesOK
  <2> QED BY <2>1, <2>2, <2>5 DEF TypeOK
<1>3. CASE Collect
  <2>1. port' \in Ports /\ CallOK' /\ FlagsOK'
    BY <1>3 DEF TypeOK, CallOK, FlagsOK, Collect, pattern
  <2>2. tx' \in Seq(Byte) /\ Len(tx') <= TxSize /\ wire' \in Seq(Byte)
    BY <1>3, SizesType DEF TypeOK, BytesOK, Collect
  <2>3. UNCHANGED <<rx, left, seen, matched, bytes>>
    BY <1>3 DEF Collect, pattern
  <2>4. BytesOK'
    BY <2>2, <2>3, SizesType DEF TypeOK, BytesOK
  <2> QED BY <2>1, <2>4 DEF TypeOK
<1>4. ASSUME NEW data \in Pieces, Fill(data) PROVE TypeOK'
  <2>1. rx \o data \in Seq(Byte) /\ Len(data) \in Nat
    BY PieceType DEF TypeOK, BytesOK
  <2>2. rx' \in Seq(Byte) /\ Len(rx') <= RxSize
    BY <1>4, <2>1, SizesType, FrontType DEF Fill, Fitting
  <2>3. bytes' \in 0 .. MaxBytes
    BY <1>4, <2>1, SizesType DEF TypeOK, BytesOK, Fill, Fitting, Spend
  <2>4. port' \in Ports /\ CallOK' /\ FlagsOK'
    BY <1>4 DEF TypeOK, CallOK, FlagsOK, Fill, pattern
  <2>5. UNCHANGED <<tx, wire, left, seen, matched>>
    BY <1>4 DEF Fill, pattern
  <2>6. BytesOK'
    BY <2>2, <2>3, <2>5, SizesType DEF TypeOK, BytesOK
  <2> QED BY <2>4, <2>6 DEF TypeOK
<1> QED BY <1>1, <1>2, <1>3, <1>4 DEF Port

LEMMA TypeNext == TypeOK /\ [Next]_vars => TypeOK'
<1> SUFFICES ASSUME TypeOK, [Next]_vars PROVE TypeOK'
  OBVIOUS
<1>1. CASE UNCHANGED vars
  BY <1>1 DEF TypeOK, CallOK, FlagsOK, BytesOK, vars, fifos, pattern
<1> QED BY <1>1, TypeWork, TypeCalls, TypePort DEF Next

(* The types of the streams' variables; a call that has a byte to put has   *)
(* it in hand, and one that has none has not.                              *)
THEOREM StreamsTypeCorrect == Spec => []TypeOK
BY TypeInit, TypeNext, PTL DEF Spec

-----------------------------------------------------------------------------
(* What a call leaves behind                                               *)

LEMMA StrandedInit == Init => NothingStranded
BY DEF Init, NothingStranded

LEMMA StrandedNext == TypeOK /\ NothingStranded /\ [Next]_vars => NothingStranded'
<1> SUFFICES ASSUME TypeOK, NothingStranded, [Next]_vars PROVE NothingStranded'
  OBVIOUS
<1>1. CASE UNCHANGED vars
  BY <1>1 DEF NothingStranded, HasStart, vars, fifos
<1>2. CASE Get \/ NothingToGet \/ Forward \/ (\E data \in Pieces : Write(data))
           \/ (\E c \in Byte : Putc(c))
  BY <1>2 DEF Get, NothingToGet, Forward, Write, Putc, NothingStranded
<1>3. CASE Test
  BY <1>3 DEF Test, Return, NothingStranded, HasStart
<1>4. CASE Put
  <2>1. pc' = "idle" => filled' = TRUE
    BY <1>4 DEF Put, PutDone, Return
  <2> QED BY <2>1 DEF NothingStranded
<1>5. CASE Notify
  <2>1. CASE port = "interrupt"
    BY <1>5, <2>1 DEF Notify, Start, HasStart, NothingStranded
  <2>2. CASE port = "flush"
    BY <1>5, <2>2 DEF Notify, Start, HasStart, NothingStranded
  <2>3. CASE port = "none"
    BY <1>5, <2>3 DEF Notify, HasStart, NothingStranded
  <2>4. CASE port = "failing"
    BY <1>5, <2>4 DEF Notify, Start, HasStart, NothingStranded
  <2> QED BY <2>1, <2>2, <2>3, <2>4 DEF TypeOK, Ports
<1>6. CASE PatternInit \/ (\E max \in 1 .. 2 : Read(max)) \/ ReceiveInterrupt
           \/ (\E data \in Pieces : Fill(data))
  BY <1>6 DEF PatternInit, Read, ReceiveInterrupt, Fill, fifos, NothingStranded, HasStart
<1>7. CASE TransmitInterrupt
  <2>1. CASE tx = <<>>
    BY <1>7, <2>1 DEF TransmitInterrupt, NothingStranded
  <2>2. CASE tx # <<>>
    BY <1>7, <2>2 DEF TransmitInterrupt, NothingStranded
  <2> QED BY <2>1, <2>2
<1>8. CASE Collect
  BY <1>8 DEF Collect, NothingStranded, HasStart
<1> QED BY <1>1, <1>2, <1>3, <1>4, <1>5, <1>6, <1>7, <1>8 DEF Next, Work, Calls, Port

(* Between two calls, what is in the transmit fifo is being sent, unless    *)
(* stream_putc found it full.                                              *)
THEOREM StreamsNothingStranded == Spec => []NothingStranded
BY TypeInit, TypeNext, StrandedInit, StrandedNext, PTL DEF Spec

-----------------------------------------------------------------------------
(* The pattern                                                             *)

\* The bytes matched so far are the last ones seen.
Matching ==
    ~found /\ matched <= Len(Pattern) =>
        /\ matched <= Len(seen)
        /\ \A k \in 1 .. matched : seen[Len(seen) - matched + k] = Pattern[k]

LEMMA PatternInitially == Init => FoundWasThere /\ Matching
BY PatternType DEF Init, FoundWasThere, Matching

LEMMA OccursOn ==
    ASSUME NEW s \in Seq(Byte), NEW c \in Byte, Occurs(Pattern, s)
    PROVE  Occurs(Pattern, Append(s, c))
<1>1. PICK i \in 0 .. Len(s) - Len(Pattern) : \A k \in 1 .. Len(Pattern) : s[i + k] = Pattern[k]
  BY DEF Occurs
<1>2. i \in 0 .. Len(Append(s, c)) - Len(Pattern)
  BY PatternType
<1>3. ASSUME NEW k \in 1 .. Len(Pattern) PROVE Append(s, c)[i + k] = Pattern[k]
  <2>1. i + k \in 1 .. Len(s)
    BY PatternType
  <2> QED BY <1>1, <2>1
<1> QED BY <1>2, <1>3 DEF Occurs

LEMMA PatternGet ==
    ASSUME TypeOK, FoundWasThere, Matching, NEW c \in Byte, Match(c), seen' = Append(seen, c)
    PROVE  FoundWasThere' /\ Matching'
<1>1. PICK hit \in BOOLEAN :
         /\ hit /\ matched < Len(Pattern) => c = Pattern[matched + 1]
         /\ matched' = (IF hit THEN matched + 1 ELSE 0)
         /\ found' = (found \/ (hit /\ matched' = Len(Pattern)))
  BY DEF Match
<1>2. /\ seen \in Seq(Byte) /\ matched \in Nat /\ Len(Pattern) \in Nat /\ Len(seen) \in Nat
      /\ found \in BOOLEAN
  BY PatternType DEF TypeOK, BytesOK, FlagsOK
<1>3. CASE found
  <2>1. found' /\ Occurs(Pattern, seen)
    BY <1>1, <1>3 DEF FoundWasThere
  <2>2. Occurs(Pattern, seen')
    BY <1>2, <2>1, OccursOn
  <2> QED BY <2>1, <2>2 DEF FoundWasThere, Matching
<1>4. CASE ~found /\ ~hit
  BY <1>1, <1>2, <1>4 DEF FoundWasThere, Matching
<1>5. CASE ~found /\ hit /\ matched >= Len(Pattern)
  BY <1>1, <1>2, <1>5 DEF FoundWasThere, Matching
<1>6. CASE ~found /\ hit /\ matched < Len(Pattern)
  <2>1. /\ matched' = matched + 1 /\ c = Pattern[matched + 1] /\ matched <= Len(seen)
        /\ \A k \in 1 .. matched : seen[Len(seen) - matched + k] = Pattern[k]
    BY <1>1, <1>2, <1>6 DEF Matching
  <2>2. Len(seen') = Len(seen) + 1 /\ matched' <= Len(seen')
    BY <1>2, <2>1
  <2>3. ASSUME NEW k \in 1 .. matched'
        PROVE  seen'[Len(seen') - matched' + k] = Pattern[k]
    <3>1. CASE k = matched + 1
      <4>1. Len(seen') - matched' + k = Len(seen) + 1
        BY <1>2, <2>1, <2>2, <3>1
      <4>2. seen'[Len(seen) + 1] = c
        BY <1>2
      <4> QED BY <2>1, <3>1, <4>1, <4>2
    <3>2. CASE k \in 1 .. matched
      <4>1. Len(seen') - matched' + k = Len(seen) - matched + k
        BY <1>2, <2>1, <2>2
      <4>2. Len(seen) - matched + k \in 1 .. Len(seen)
        BY <1>2, <2>1, <3>2
      <4>3. seen'[Len(seen) - matched + k] = seen[Len(seen) - matched + k]
        BY <1>2, <4>2
      <4> QED BY <2>1, <3>2, <4>1, <4>3
    <3>3. k = matched + 1 \/ k \in 1 .. matched
      BY <1>2, <2>1
    <3> QED BY <3>1, <3>2, <3>3
  <2>4. Matching'
    BY <2>2, <2>3 DEF Matching
  <2>5. ASSUME found' PROVE Occurs(Pattern, seen')
    <3>1. matched' = Len(Pattern)
      BY <1>1, <1>6, <2>5
    <3>2. Len(seen') - matched' \in 0 .. Len(seen') - Len(Pattern)
      BY <1>2, <2>1, <2>2, <3>1
    <3> QED BY <2>3, <3>1, <3>2 DEF Occurs
  <2> QED BY <2>4, <2>5 DEF FoundWasThere
<1> QED BY <1>2, <1>3, <1>4, <1>5, <1>6

LEMMA PatternNext ==
    TypeOK /\ FoundWasThere /\ Matching /\ [Next]_vars => FoundWasThere' /\ Matching'
<1> SUFFICES ASSUME TypeOK, FoundWasThere, Matching, [Next]_vars
             PROVE  FoundWasThere' /\ Matching'
  OBVIOUS
<1>1. CASE Get /\ call = "search"
  <2>1. Head(rx) \in Byte /\ Match(Head(rx)) /\ seen' = Append(seen, Head(rx))
    BY <1>1 DEF Get, TypeOK, BytesOK
  <2> QED BY <2>1, PatternGet
<1>2. CASE PatternInit
  BY <1>2, PatternType DEF PatternInit, FoundWasThere, Matching
<1>3. CASE UNCHANGED pattern
  BY <1>3 DEF pattern, FoundWasThere, Matching, Occurs
<1>4. \/ Get /\ call = "search"
      \/ PatternInit
      \/ UNCHANGED pattern
  BY DEF Next, Work, Calls, Port, Get, NothingToGet, Test, Put, Notify, Forward, Write, Putc,
         Read, ReceiveInterrupt, TransmitInterrupt, Collect, Fill, vars
<1> QED BY <1>1, <1>2, <1>3, <1>4

(* A pattern that is reported has been forwarded since pattern_init in one  *)
(* piece, for every pattern, also one with the same byte more than once.    *)
THEOREM StreamsFoundWasThere == Spec => []FoundWasThere
BY TypeInit, TypeNext, PatternInitially, PatternNext, PTL DEF Spec

-----------------------------------------------------------------------------
(* The streams are pipes                                                   *)

P == ThePipe!vars

\* Bytes leave from the front of the fifo; the byte in hand stays behind.
LEMMA FrontLeaves ==
    ASSUME NEW s \in Seq(Byte), NEW h \in Seq(Byte), NEW n \in 1 .. Len(s)
    PROVE  /\ n \in 1 .. Len(s \o h)
           /\ SubSeq(s \o h, 1, n) = SubSeq(s, 1, n)
           /\ SubSeq(s \o h, n + 1, Len(s \o h)) = SubSeq(s, n + 1, Len(s)) \o h
<1>1. /\ s \o h \in Seq(Byte) /\ Len(s \o h) = Len(s) + Len(h)
      /\ \A i \in 1 .. Len(s) + Len(h) :
             (s \o h)[i] = IF i <= Len(s) THEN s[i] ELSE h[i - Len(s)]
  BY ConcatProperties
<1>2. Len(s) \in Nat /\ Len(h) \in Nat /\ n \in 1 .. Len(s \o h)
  BY <1>1
<1>3. SubSeq(s \o h, 1, n) = SubSeq(s, 1, n)
  BY <1>2, SubSeqOfConcat1
<1> DEFINE rest == SubSeq(s, n + 1, Len(s))
           all == SubSeq(s \o h, n + 1, Len(s \o h))
<1>4. /\ rest \in Seq(Byte) /\ Len(rest) = Len(s) - n
      /\ \A i \in 1 .. Len(s) - n : rest[i] = s[n + i]
  BY <1>2
<1>5. /\ all \in Seq(Byte) /\ Len(all) = Len(s) + Len(h) - n
      /\ \A i \in 1 .. Len(s) + Len(h) - n : all[i] = (s \o h)[n + i]
  BY <1>1, <1>2
<1> HIDE DEF rest, all
<1>6. /\ rest \o h \in Seq(Byte) /\ Len(rest \o h) = Len(rest) + Len(h)
      /\ \A i \in 1 .. Len(rest) + Len(h) :
             (rest \o h)[i] = IF i <= Len(rest) THEN rest[i] ELSE h[i - Len(rest)]
  BY <1>4, ConcatProperties
<1>7. ASSUME NEW i \in 1 .. Len(all) PROVE all[i] = (rest \o h)[i]
  <2>1. i \in 1 .. Len(s) + Len(h) - n /\ n + i \in 1 .. Len(s) + Len(h)
    BY <1>2, <1>5
  <2>2. all[i] = IF n + i <= Len(s) THEN s[n + i] ELSE h[n + i - Len(s)]
    BY <1>1, <1>5, <2>1
  <2>3. CASE n + i <= Len(s)
    BY <1>2, <1>4, <1>6, <2>1, <2>2, <2>3
  <2>4. CASE n + i > Len(s)
    <3>1. i - Len(rest) = n + i - Len(s) /\ ~(i <= Len(rest)) /\ i \in 1 .. Len(rest) + Len(h)
      BY <1>2, <1>4, <2>1, <2>4
    <3>2. (rest \o h)[i] = h[n + i - Len(s)]
      BY <1>6, <3>1
    <3> QED BY <1>2, <2>1, <2>2, <2>4, <3>2
  <2>5. n + i <= Len(s) \/ n + i > Len(s)
    BY <1>2, <2>1
  <2> QED BY <2>3, <2>4, <2>5
<1>8. all = rest \o h
  <2>1. all \in Seq(Byte) /\ rest \o h \in Seq(Byte)
    BY <1>5, <1>6
  <2>2. Len(all) = Len(rest \o h)
    BY <1>2, <1>4, <1>5, <1>6
  <2> QED BY <2>1, <2>2, <1>7, SeqEqual
<1> QED BY <1>2, <1>3, <1>8 DEF rest, all

\* One byte, and two.
LEMMA OneByte ==
    ASSUME NEW b \in Byte
    PROVE  <<b>> \in Seq(Byte) /\ Len(<<b>>) = 1
OBVIOUS

LEMMA TwoBytes ==
    ASSUME NEW b \in Byte, NEW c \in Byte
    PROVE  <<b, c>> \in Seq(Byte) /\ Len(<<b, c>>) = 2 /\ <<b, c>> = <<b>> \o <<c>>
<1>1. <<b, c>> \in Seq(Byte) /\ Len(<<b, c>>) = 2
  OBVIOUS
<1>2. <<b>> \in Seq(Byte) /\ <<c>> \in Seq(Byte) /\ Len(<<b>>) = 1 /\ Len(<<c>>) = 1
  BY OneByte
<1>3. <<b>> \o <<c>> = Append(<<b>>, c)
  BY <1>2, AppendIsConcat
<1>4. Append(<<b>>, c) = <<b, c>>
  <2>1. /\ Append(<<b>>, c) \in Seq(Byte) /\ Len(Append(<<b>>, c)) = 2
        /\ Append(<<b>>, c)[1] = b /\ Append(<<b>>, c)[2] = c
    BY <1>2, AppendProperties
  <2>2. \A i \in 1 .. 2 : Append(<<b>>, c)[i] = <<b, c>>[i]
    BY <2>1
  <2> QED BY <1>1, <2>1, <2>2, SeqEqual
<1> QED BY <1>1, <1>3, <1>4

LEMMA TwoBehind ==
    ASSUME NEW s \in Seq(Byte), NEW b \in Byte, NEW c \in Byte
    PROVE  s \o <<b, c>> = (s \o <<b>>) \o <<c>>
<1> DEFINE B == <<b>>
           C == <<c>>
<1>1. B \in Seq(Byte) /\ C \in Seq(Byte)
  BY OneByte
<1>2. <<b, c>> = B \o C
  BY TwoBytes
<1> HIDE DEF B, C
<1>3. s \o (B \o C) = (s \o B) \o C
  BY <1>1, ConcatAssociative
<1> QED BY <1>2, <1>3 DEF B, C

LEMMA HeldType == TypeOK => Held \in Seq(Byte)
BY DEF TypeOK, CallOK, Held

LEMMA PipeInitially == Init => ThePipe!Init
<1> SUFFICES ASSUME Init PROVE ThePipe!Init
  OBVIOUS
<1>1. Held = <<>> /\ tx \o Held = <<>>
  BY DEF Init, Held
<1> QED BY <1>1 DEF Init, ThePipe!Init, HasStart

\* Starting the port: everything leaves at once, or later.
LEMMA StartPipe ==
    ASSUME TypeOK, Start, rx' = rx, Held' = Held, port' = port
    PROVE  [ThePipe!Next]_P
<1>1. CASE port = "flush" /\ tx # <<>>
  <2>1. wire' = wire \o tx /\ tx' = <<>>
    BY <1>1 DEF Start
  <2>2. tx \in Seq(Byte) /\ Held \in Seq(Byte) /\ Len(tx) \in 1 .. Len(tx)
    BY <1>1, HeldType DEF TypeOK, BytesOK
  <2>3. /\ Len(tx) \in 1 .. Len(tx \o Held)
        /\ SubSeq(tx \o Held, 1, Len(tx)) = tx
        /\ SubSeq(tx \o Held, Len(tx) + 1, Len(tx \o Held)) = Held
    <3>1. SubSeq(tx, Len(tx) + 1, Len(tx)) = <<>>
      BY <2>2, SubSeqEmpty
    <3>2. <<>> \o Held = Held
      BY <2>2, ConcatEmptySeq
    <3> QED BY <2>2, <3>1, <3>2, FrontLeaves, SubSeqFull
  <2>4. tx' \o Held' = Held
    BY <2>1, <2>2, ConcatEmptySeq
  <2> QED BY <2>1, <2>3, <2>4 DEF ThePipe!Next, ThePipe!Leave, HasStart
<1>2. CASE port = "flush" /\ tx = <<>>
  <2>1. wire' = wire /\ tx' = tx
    <3>1. wire' = wire \o <<>> /\ tx' = <<>> /\ wire \in Seq(Byte)
      BY <1>2 DEF Start, TypeOK, BytesOK
    <3> QED BY <1>2, <3>1, ConcatEmptySeq
  <2> QED BY <2>1 DEF P, ThePipe!vars, HasStart
<1>3. CASE port = "interrupt"
  <2>1. wire' = wire /\ tx' = tx
    BY <1>3 DEF Start
  <2> QED BY <2>1 DEF P, ThePipe!vars, HasStart
<1>4. CASE port = "failing"
  <2>1. PICK n \in 0 .. Len(tx) : wire' = wire \o SubSeq(tx, 1, n)
    BY <1>4 DEF Start
  <2>2. tx' = <<>> /\ tx \in Seq(Byte) /\ wire \in Seq(Byte) /\ Held \in Seq(Byte)
    BY <1>4, HeldType DEF Start, TypeOK, BytesOK
  <2>3. tx' \o Held' = Held
    BY <2>2, ConcatEmptySeq
  <2>4. CASE tx = <<>>
    <3>1. n = 0 /\ SubSeq(tx, 1, n) = <<>>
      BY <2>2, <2>4, SubSeqEmpty
    <3>2. wire' = wire /\ tx' = tx
      BY <2>1, <2>2, <2>4, <3>1, ConcatEmptySeq
    <3> QED BY <3>2 DEF P, ThePipe!vars, HasStart
  <2>5. CASE tx # <<>>
    <3> DEFINE q == tx \o Held
               m == Len(tx)
    <3>1. m \in 1 .. Len(tx) /\ n \in Nat /\ n <= m
      BY <2>2, <2>5
    <3>2. m \in 1 .. Len(q) /\ SubSeq(q, m + 1, Len(q)) = Held
      <4>1. SubSeq(tx, m + 1, m) = <<>>
        BY <2>2, SubSeqEmpty
      <4> QED BY <2>2, <3>1, <4>1, FrontLeaves, ConcatEmptySeq
    <3>3. SubSeq(q, 1, n) = SubSeq(tx, 1, n)
      <4>1. CASE n = 0
        <5>1. q \in Seq(Byte)
          BY <2>2
        <5> HIDE DEF q
        <5> QED BY <2>2, <4>1, <5>1, SubSeqEmpty
      <4>2. CASE n # 0
        BY <2>2, <3>1, <4>2, FrontLeaves
      <4> QED BY <4>1, <4>2
    <3>4. n \in 0 .. Len(q)
      BY <3>1, <3>2
    <3>5. wire' = wire \o SubSeq(q, 1, n) /\ tx' \o Held' = SubSeq(q, m + 1, Len(q))
      BY <2>1, <2>3, <3>2, <3>3
    <3> HIDE DEF m
    <3> QED BY <1>4, <3>1, <3>2, <3>4, <3>5 DEF ThePipe!Next, ThePipe!Lose, HasStart
  <2> QED BY <2>4, <2>5
<1> QED BY <1>1, <1>2, <1>3, <1>4 DEF Start

\* The head of the fifo leaves.
LEMMA HeadLeaves ==
    ASSUME TypeOK, tx # <<>>, wire' = Append(wire, Head(tx)), tx' = Tail(tx),
           rx' = rx, Held' = Held, port' = port
    PROVE  [ThePipe!Next]_P
<1>1. tx \in Seq(Byte) /\ Held \in Seq(Byte) /\ wire \in Seq(Byte) /\ tx # <<>>
  BY HeldType DEF TypeOK, BytesOK
<1>2. Head(tx) \in Byte /\ Len(tx) \in Nat \ {0} /\ 1 \in 1 .. Len(tx)
  BY <1>1
<1>3. /\ 1 \in 1 .. Len(tx \o Held)
      /\ SubSeq(tx \o Held, 1, 1) = SubSeq(tx, 1, 1)
      /\ SubSeq(tx \o Held, 1 + 1, Len(tx \o Held)) = SubSeq(tx, 1 + 1, Len(tx)) \o Held
  BY <1>1, <1>2, FrontLeaves
<1>4. SubSeq(tx, 1, 1) = <<Head(tx)>>
  <2>1. SubSeq(tx, 1, 1) \in Seq(Byte) /\ Len(SubSeq(tx, 1, 1)) = 1 /\ SubSeq(tx, 1, 1)[1] = tx[1]
    BY <1>1, <1>2
  <2>2. <<Head(tx)>> \in Seq(Byte) /\ Len(<<Head(tx)>>) = 1 /\ <<Head(tx)>>[1] = tx[1]
    BY <1>1, <1>2
  <2>3. \A i \in 1 .. Len(SubSeq(tx, 1, 1)) : SubSeq(tx, 1, 1)[i] = <<Head(tx)>>[i]
    BY <2>1, <2>2
  <2> QED BY <2>1, <2>2, <2>3, SeqEqual
<1>5. SubSeq(tx, 1 + 1, Len(tx)) = Tail(tx)
  BY <1>1, TailIsSubSeq
<1>6. wire' = wire \o <<Head(tx)>>
  BY <1>1, <1>2, AppendIsConcat
<1>7. /\ wire' = wire \o SubSeq(tx \o Held, 1, 1)
      /\ tx' \o Held' = SubSeq(tx \o Held, 1 + 1, Len(tx \o Held))
  BY <1>3, <1>4, <1>5, <1>6
<1> QED BY <1>3, <1>7 DEF ThePipe!Next, ThePipe!Leave, HasStart

LEMMA PipeWork == TypeOK /\ Work => [ThePipe!Next]_P
<1> SUFFICES ASSUME TypeOK, Work PROVE [ThePipe!Next]_P
  OBVIOUS
<1>0. tx \in Seq(Byte) /\ rx \in Seq(Byte) /\ None \notin Byte /\ tx \o <<>> = tx
  BY StreamsAssumption, ConcatEmptySeq DEF TypeOK, BytesOK
<1>1. CASE Get
  <2>1. Held = <<>> /\ Held' = <<Head(rx)>> /\ Head(rx) \in Byte
    <3>1. Head(rx) \in Byte /\ Head(rx) # None
      BY <1>0, <1>1 DEF Get
    <3>2. call \in {"forward", "search"} /\ call' = call /\ ch = None /\ ch' = Head(rx)
      BY <1>1 DEF Get, TypeOK, CallOK
    <3> QED BY <3>1, <3>2 DEF Held
  <2>2. tx' \o Held' = Append(tx \o Held, Head(rx))
    <3>1. tx' = tx
      BY <1>1 DEF Get
    <3> QED BY <1>0, <2>1, <3>1, AppendIsConcat
  <2>3. rx # <<>> /\ rx' = Tail(rx) /\ wire' = wire /\ port' = port
    BY <1>1 DEF Get
  <2> QED BY <2>2, <2>3 DEF ThePipe!Next, ThePipe!Forward, HasStart
<1>2. CASE NothingToGet
  BY <1>2 DEF NothingToGet, fifos, P, ThePipe!vars, Held, HasStart
<1>3. CASE Test
  <2>1. CASE ~IsFull
    BY <1>3, <2>1 DEF Test, NoStart, P, ThePipe!vars, Held, HasStart
  <2>2. CASE IsFull /\ HasStart
    BY <1>3, <2>2, StartPipe DEF Test, Held
  <2>3. CASE IsFull /\ ~HasStart
    <3>1. /\ UNCHANGED <<tx, rx, wire, port>> /\ Held' = <<>>
      BY <1>3, <2>3 DEF Test, NoStart, Return, Held
    <3>2. CASE call \in {"forward", "search"}
      <4>1. ch \in Byte /\ Held = <<ch>>
        BY <1>0, <1>3, <3>2 DEF Test, TypeOK, CallOK, Held
      <4>2. Len(tx) = TxSize /\ TxSize \in Nat \ {0}
        BY <2>3, SizesType DEF IsFull
      <4>3. Len(tx \o Held) = TxSize + 1 /\ SubSeq(tx \o Held, 1, TxSize) = tx
        <5>1. Len(tx \o <<ch>>) = TxSize + 1
          BY <1>0, <4>1, <4>2
        <5>2. SubSeq(tx \o <<ch>>, 1, TxSize) = SubSeq(tx, 1, TxSize)
          <6>1. <<ch>> \in Seq(Byte) /\ TxSize \in 1 .. Len(tx)
            BY <4>1, <4>2
          <6> QED BY <1>0, <6>1, FrontLeaves
        <5> QED BY <1>0, <4>1, <4>2, <5>1, <5>2, SubSeqFull
      <4>4. tx' \o Held' = tx
        BY <1>0, <3>1
      <4> QED BY <2>3, <3>1, <4>2, <4>3, <4>4 DEF ThePipe!Next, ThePipe!Drop, HasStart
    <3>3. CASE call \notin {"forward", "search"}
      BY <3>1, <3>3 DEF Held, P, ThePipe!vars, HasStart
    <3> QED BY <3>2, <3>3
  <2> QED BY <2>1, <2>2, <2>3
<1>4. CASE Put
  <2>1. /\ ch \in Byte /\ ch # None /\ tx' = Append(tx, ch) /\ Len(tx) < TxSize
        /\ rx' = rx /\ wire' = wire /\ port' = port
    <3>1. ch \in Byte /\ Len(tx) <= TxSize /\ Len(tx) # TxSize
      BY <1>4 DEF Put, IsFull, TypeOK, CallOK, BytesOK
    <3>2. Len(tx) \in Nat /\ TxSize \in Nat
      BY <1>0, SizesType
    <3> QED BY <1>0, <1>4, <3>1, <3>2 DEF Put
  <2>2. Held' = <<>>
    BY <1>4 DEF Put, PutDone, Return, Held
  <2>3. tx' \o Held' = Append(tx, ch)
    BY <1>0, <2>1, <2>2, ConcatEmptySeq, AppendProperties
  <2>4. CASE call \in {"forward", "search"}
    <3>1. tx \o Held = Append(tx, ch)
      BY <1>0, <2>1, <2>4, AppendIsConcat DEF Held
    <3> QED BY <2>1, <2>3, <3>1 DEF P, ThePipe!vars, HasStart
  <2>5. CASE call \notin {"forward", "search"}
    <3>1. tx \o Held = tx
      BY <1>0, <2>5 DEF Held
    <3> QED BY <2>1, <2>3, <3>1 DEF ThePipe!Next, ThePipe!Queue, HasStart
  <2> QED BY <2>4, <2>5
<1>5. CASE Notify
  <2>1. Held = <<>> /\ Held' = <<>> /\ rx' = rx /\ port' = port
    BY <1>5 DEF Notify, Return, Held, TypeOK, CallOK
  <2>2. CASE HasStart
    BY <1>5, <2>1, <2>2, StartPipe DEF Notify
  <2>3. CASE ~HasStart
    BY <1>5, <2>1, <2>3 DEF Notify, NoStart, P, ThePipe!vars, HasStart
  <2> QED BY <2>2, <2>3
<1> QED BY <1>1, <1>2, <1>3, <1>4, <1>5 DEF Work

LEMMA PipeCalls == TypeOK /\ Calls => [ThePipe!Next]_P
<1> SUFFICES ASSUME TypeOK, Calls PROVE [ThePipe!Next]_P
  OBVIOUS
<1>1. CASE PatternInit
  BY <1>1 DEF PatternInit, fifos, P, ThePipe!vars, Held, HasStart
<1>2. CASE Forward \/ (\E data \in Pieces : Write(data)) \/ (\E c \in Byte : Putc(c))
  <2>1. UNCHANGED <<rx, tx, wire, port>>
    BY <1>2 DEF Forward, Write, Putc, fifos
  <2>2. Held = <<>> /\ Held' = <<>>
    BY <1>2 DEF Forward, Write, Putc, Begin, Held, TypeOK, CallOK
  <2> QED BY <2>1, <2>2 DEF P, ThePipe!vars, HasStart
<1>3. ASSUME NEW max \in 1 .. 2, Read(max) PROVE [ThePipe!Next]_P
  <2>1. UNCHANGED <<tx, wire, port>> /\ Held' = Held
    BY <1>3 DEF Read, Held
  <2>2. rx \in Seq(Byte) /\ rx # <<>> /\ rx' = SubSeq(rx, max + 1, Len(rx)) /\ Len(rx) \in Nat
    BY <1>3 DEF Read, TypeOK, BytesOK
  <2>3. \E n \in 1 .. Len(rx) : rx' = SubSeq(rx, n + 1, Len(rx))
    <3>1. CASE max <= Len(rx)
      BY <2>2, <3>1
    <3>2. CASE max > Len(rx)
      <4>1. Len(rx) \in 1 .. Len(rx)
        BY <2>2
      <4>2. SubSeq(rx, max + 1, Len(rx)) = <<>> /\ SubSeq(rx, Len(rx) + 1, Len(rx)) = <<>>
        BY <2>2, <3>2, SubSeqEmpty
      <4> QED BY <2>2, <4>1, <4>2
    <3> QED BY <2>2, <3>1, <3>2
  <2> QED BY <2>1, <2>3 DEF ThePipe!Next, ThePipe!Read, HasStart
<1> QED BY <1>1, <1>2, <1>3 DEF Calls

\* What fits of at most two bytes is none, one or both.
LEMMA FillPipe ==
    ASSUME TypeOK, NEW data \in Pieces, Fill(data)
    PROVE  [ThePipe!Next]_P
<1>1. UNCHANGED <<tx, wire, port>> /\ Held' = Held
  BY DEF Fill, Held
<1>2. /\ rx \in Seq(Byte) /\ Len(rx) \in Nat /\ Len(rx) <= RxSize /\ RxSize \in Nat
      /\ rx' = SubSeq(rx \o data, 1, IF Len(rx \o data) < RxSize THEN Len(rx \o data) ELSE RxSize)
  BY SizesType DEF TypeOK, BytesOK, Fill, Fitting
<1>3. data \in Seq(Byte) /\ rx \o data \in Seq(Byte) /\ Len(rx \o data) = Len(rx) + Len(data)
  BY <1>2, PieceType
<1>4. ASSUME rx' = rx PROVE [ThePipe!Next]_P
  BY <1>1, <1>4 DEF P, ThePipe!vars, HasStart
<1>5. ASSUME NEW b \in Byte, NEW more \in {<<>>} \cup {<<c>> : c \in Byte},
             rx' = rx \o <<b>> \o more, Len(rx') <= RxSize
      PROVE  [ThePipe!Next]_P
  BY <1>1, <1>5 DEF ThePipe!Next, ThePipe!Arrive, HasStart
<1>6. CASE Len(rx \o data) <= RxSize
  <2>1. rx' = rx \o data /\ Len(rx') <= RxSize
    <3>1. rx' = SubSeq(rx \o data, 1, Len(rx \o data))
      <4>1. (IF Len(rx \o data) < RxSize THEN Len(rx \o data) ELSE RxSize) = Len(rx \o data)
        BY <1>2, <1>3, <1>6
      <4> QED BY <1>2, <4>1
    <3> QED BY <1>3, <1>6, <3>1, SubSeqFull
  <2>2. CASE data = <<>>
    BY <1>2, <1>4, <2>1, <2>2, ConcatEmptySeq
  <2>3. ASSUME NEW b \in Byte, data = <<b>> PROVE [ThePipe!Next]_P
    <3>1. rx' = rx \o <<b>> \o <<>>
      BY <1>3, <2>1, <2>3, ConcatEmptySeq
    <3> QED BY <1>5, <2>1, <3>1
  <2>4. ASSUME NEW b \in Byte, NEW c \in Byte, data = <<b, c>> PROVE [ThePipe!Next]_P
    <3>1. rx' = rx \o <<b>> \o <<c>>
      <4>1. rx \o <<b, c>> = (rx \o <<b>>) \o <<c>>
        BY <1>2, TwoBehind
      <4> QED BY <2>1, <2>4, <4>1
    <3> QED BY <1>5, <2>1, <3>1
  <2> QED BY <2>2, <2>3, <2>4 DEF Pieces
<1>7. CASE Len(rx \o data) > RxSize
  <2>1. rx' = SubSeq(rx \o data, 1, RxSize)
    BY <1>2, <1>3, <1>7
  <2>2. CASE RxSize = Len(rx)
    <3>1. RxSize \in 1 .. Len(rx)
      BY <1>2, <2>2, SizesType
    <3>2. SubSeq(rx \o data, 1, RxSize) = SubSeq(rx, 1, RxSize)
      BY <1>2, <1>3, <3>1, FrontLeaves
    <3> QED BY <1>2, <1>4, <2>1, <2>2, <3>2, SubSeqFull
  <2>3. CASE Len(rx) < RxSize
    <3>1. PICK b \in Byte, c \in Byte : data = <<b, c>>
      <4>1. Len(data) > 1
        BY <1>2, <1>3, <1>7, <2>3
      <4>2. data # <<>>
        BY <4>1
      <4>3. ASSUME NEW b \in Byte PROVE data # <<b>>
        <5>1. CASE data = <<b>>
          <6>1. Len(data) = 1
            BY <5>1, OneByte
          <6> QED BY <4>1, <6>1
        <5> QED BY <5>1
      <4> QED BY <4>2, <4>3 DEF Pieces
    <3>2. /\ <<b>> \in Seq(Byte) /\ <<c>> \in Seq(Byte) /\ <<b, c>> = <<b>> \o <<c>>
          /\ Len(<<b>>) = 1 /\ Len(data) = 2
      BY <3>1, OneByte, TwoBytes
    <3>3. RxSize = Len(rx) + 1
      BY <1>2, <1>3, <1>7, <2>3, <3>2
    <3>4. rx \o data = (rx \o <<b>>) \o <<c>>
      BY <1>2, <3>1, TwoBehind
    <3>5. rx \o <<b>> \in Seq(Byte) /\ Len(rx \o <<b>>) = RxSize
      BY <1>2, <3>2, <3>3
    <3>6. SubSeq((rx \o <<b>>) \o <<c>>, 1, RxSize) = SubSeq(rx \o <<b>>, 1, RxSize)
      BY <3>2, <3>3, <3>5, <1>2, FrontLeaves
    <3>7. rx' = rx \o <<b>> \o <<>>
      BY <2>1, <3>4, <3>5, <3>6, SubSeqFull, ConcatEmptySeq
    <3>8. Len(rx') <= RxSize
      BY <1>2, <3>5, <3>7, ConcatEmptySeq
    <3> QED BY <1>5, <3>7, <3>8
  <2> QED BY <1>2, <2>2, <2>3
<1> QED BY <1>2, <1>3, <1>6, <1>7, PieceType

LEMMA PipePort == TypeOK /\ Port => [ThePipe!Next]_P
<1> SUFFICES ASSUME TypeOK, Port PROVE [ThePipe!Next]_P
  OBVIOUS
<1>1. CASE ReceiveInterrupt
  <2>1. UNCHANGED <<tx, wire, port>> /\ Held' = Held
    BY <1>1 DEF ReceiveInterrupt, Held
  <2>2. rx \in Seq(Byte) /\ RxSize \in Nat
    BY SizesType DEF TypeOK, BytesOK
  <2>3. PICK b \in Byte : rx' = IF Len(rx) < RxSize THEN Append(rx, b) ELSE rx
    BY <1>1 DEF ReceiveInterrupt
  <2>4. CASE Len(rx) < RxSize
    <3>1. rx' = rx \o <<b>> \o <<>> /\ Len(rx') <= RxSize
      <4>1. rx' = Append(rx, b) /\ Len(rx') <= RxSize
        BY <2>2, <2>3, <2>4
      <4> QED BY <2>2, <4>1, AppendIsConcat, AppendProperties, ConcatEmptySeq
    <3> QED BY <2>1, <3>1 DEF ThePipe!Next, ThePipe!Arrive, HasStart
  <2>5. CASE ~(Len(rx) < RxSize)
    BY <2>1, <2>3, <2>5 DEF P, ThePipe!vars, HasStart
  <2> QED BY <2>4, <2>5
<1>2. CASE TransmitInterrupt
  <2>1. rx' = rx /\ port' = port /\ Held' = Held
    BY <1>2 DEF TransmitInterrupt, Held
  <2>2. CASE tx # <<>>
    BY <1>2, <2>1, <2>2, HeadLeaves DEF TransmitInterrupt
  <2>3. CASE tx = <<>>
    BY <1>2, <2>1, <2>3 DEF TransmitInterrupt, P, ThePipe!vars, HasStart
  <2> QED BY <2>2, <2>3
<1>3. CASE Collect
  BY <1>3, HeadLeaves DEF Collect, Held
<1>4. CASE \E data \in Pieces : Fill(data)
  BY <1>4, FillPipe
<1> QED BY <1>1, <1>2, <1>3, <1>4 DEF Port

LEMMA PipeNext == TypeOK /\ [Next]_vars => [ThePipe!Next]_P
<1>1. TypeOK /\ UNCHANGED vars => UNCHANGED P
  BY DEF vars, fifos, P, ThePipe!vars, Held, HasStart
<1> QED BY <1>1, PipeWork, PipeCalls, PipePort DEF Next

(* Forwarding, writing and reading through fifos of any size implement the  *)
(* pipe: order, and nothing lost, doubled or made up where the port can be *)
(* started.                                                                *)
THEOREM StreamsImplementPipe == Spec => PipeSpec
<1>1. Spec => ThePipe!Init /\ [][ThePipe!Next]_P
  BY TypeInit, TypeNext, PipeInitially, PipeNext, PTL DEF Spec
<1> QED BY <1>1 DEF PipeSpec, ThePipe!Spec, P
=============================================================================
