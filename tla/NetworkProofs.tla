---------------------------- MODULE NetworkProofs ----------------------------
(***************************************************************************)
(* What lib/network makes of data of any length: the frames of message.c   *)
(* and the firmware files of file.c.                                       *)
(***************************************************************************)
EXTENDS Framing, HexFile, WellFoundedInduction, SequenceTheorems, TLAPS

(* Induction.  The provers cannot instantiate a theorem for an operator     *)
(* P(_), but they can for a set of numbers.                                *)
LEMMA LeastNatural ==
    ASSUME NEW T \in SUBSET Nat, T # {}
    PROVE  \E m \in T : \A k \in T : m <= k
<1> DEFINE R == OpToRel(<, Nat)
<1>1. IsWellFoundedOn(R, Nat)
  BY NatLessThanWellFounded
<1>2. \A j, k \in Nat : j < k => <<j, k>> \in R
  BY DEF OpToRel
<1> HIDE DEF R
<1>3. PICK m \in T : \A k \in T : ~ (<<k, m>> \in R)
  BY <1>1, WFMin
<1>4. \A k \in T : ~ (k < m)
  BY <1>2, <1>3
<1>5. \A k \in T : m <= k
  BY <1>4
<1> QED BY <1>5

LEMMA SetInduction ==
    ASSUME NEW S \in SUBSET Nat, 0 \in S, \A n \in S : n + 1 \in S
    PROVE  \A n \in Nat : n \in S
<1> SUFFICES ASSUME NEW n \in Nat, n \notin S PROVE FALSE
  OBVIOUS
<1>1. PICK m \in Nat \ S : \A k \in Nat \ S : m <= k
  BY LeastNatural
<1>2. m - 1 \in Nat /\ m - 1 \in S
  BY <1>1
<1> QED BY <1>1, <1>2

-----------------------------------------------------------------------------
(* Framing.  The bytes of a frame but for the first and the last.          *)
FrameByte == 0 .. EscapeChr

\* The recursive function of Framed, for the first n of its bytes.
IsUpTo(g, s, N) ==
    g = [n \in 0 .. N |-> IF n = 0 THEN <<>> ELSE g[n - 1] \o PutFramechar(s[n])]

LEMMA UpToExists ==
    ASSUME NEW s, NEW N \in Nat
    PROVE  \E g : IsUpTo(g, s, N)
<1> DEFINE S == {n \in Nat : \E g : IsUpTo(g, s, n)}
<1>1. 0 \in S
  <2>1. IsUpTo([n \in 0 .. 0 |-> <<>>], s, 0)
    BY DEF IsUpTo
  <2> QED BY <2>1
<1>2. ASSUME NEW n \in S PROVE n + 1 \in S
  <2>1. PICK g : IsUpTo(g, s, n)
    OBVIOUS
  <2> DEFINE v == g[n] \o PutFramechar(s[n + 1])
             h == [k \in 0 .. n + 1 |-> IF k = n + 1 THEN v ELSE g[k]]
             t == [k \in 0 .. n + 1 |-> IF k = 0 THEN <<>> ELSE h[k - 1] \o PutFramechar(s[k])]
  <2>2. ASSUME NEW k \in 0 .. n + 1 PROVE h[k] = t[k]
    <3>1. CASE k = n + 1
      <4>1. k # 0 /\ k - 1 = n /\ n \in 0 .. n + 1 /\ n # n + 1
        BY <3>1
      <4>2. h[k] = v /\ h[k - 1] = g[n]
        BY <3>1, <4>1
      <4>3. t[k] = h[k - 1] \o PutFramechar(s[k])
        BY <4>1
      <4> QED BY <3>1, <4>2, <4>3
    <3>2. CASE k # n + 1
      <4>1. k \in 0 .. n
        BY <3>2
      <4>2. h[k] = g[k] /\ g[k] = IF k = 0 THEN <<>> ELSE g[k - 1] \o PutFramechar(s[k])
        BY <2>1, <4>1, <3>2 DEF IsUpTo
      <4>3. k # 0 => h[k - 1] = g[k - 1]
        BY <4>1
      <4> QED BY <4>2, <4>3
    <3> QED BY <3>1, <3>2
  <2>3. h = t
    BY <2>2
  <2>4. IsUpTo(h, s, n + 1)
    BY <2>3 DEF IsUpTo
  <2> QED BY <2>4
<1> HIDE DEF S
<1>3. N \in S
  BY <1>1, <1>2, SetInduction DEF S
<1> QED BY <1>3 DEF S

LEMMA FramedUnfolds ==
    ASSUME NEW s, Len(s) \in Nat
    PROVE  \E g : IsUpTo(g, s, Len(s)) /\ Framed(s) = g[Len(s)]
<1> DEFINE u == CHOOSE g : g = [n \in 0 .. Len(s) |->
                                  IF n = 0 THEN <<>> ELSE g[n - 1] \o PutFramechar(s[n])]
<1>1. IsUpTo(u, s, Len(s))
  BY UpToExists DEF IsUpTo
<1>2. Framed(s) = u[Len(s)]
  BY DEF Framed
<1> QED BY <1>1, <1>2

\* One byte becomes one or two, none of which marks a frame.
LEMMA PutType ==
    ASSUME NEW chr \in Byte
    PROVE  PutFramechar(chr) \in Seq(FrameByte) /\ PutFramechar(chr) # <<>>
<1>1. chr \in 0 .. EscapeChr + EscapeMax /\ EscapeChr \in Nat /\ EscapeMax \in Nat
      /\ EscapeMax < EscapeChr
  BY FramingAssumption DEF Byte, Start
<1>2. CASE chr >= EscapeChr
  <2>1. PutFramechar(chr) = <<EscapeChr, chr - EscapeChr>>
    BY <1>2 DEF PutFramechar
  <2>2. EscapeChr \in FrameByte /\ chr - EscapeChr \in FrameByte
    BY <1>1, <1>2 DEF FrameByte
  <2> QED BY <2>1, <2>2
<1>3. CASE ~(chr >= EscapeChr)
  <2>1. PutFramechar(chr) = <<chr>>
    BY <1>3 DEF PutFramechar
  <2>2. chr \in FrameByte
    BY <1>1, <1>3 DEF FrameByte
  <2> QED BY <2>1, <2>2
<1> QED BY <1>2, <1>3

LEMMA MarksApart ==
    /\ Start \notin FrameByte /\ End \notin FrameByte /\ Start # End
    /\ Start \in Byte /\ End \in Byte /\ FrameByte \subseteq Byte
    /\ EscapeChr \in Nat /\ EscapeChr \in FrameByte
BY FramingAssumption DEF FrameByte, Byte, Start, End

\* Concatenation, for three sequences at hand.
LEMMA Assoc ==
    ASSUME NEW T, NEW a \in Seq(T), NEW b \in Seq(T), NEW c \in Seq(T)
    PROVE  (a \o b) \o c = a \o (b \o c)
BY ConcatAssociative

LEMMA UpToType ==
    ASSUME NEW s \in Seq(Byte), NEW g, IsUpTo(g, s, Len(s))
    PROVE  /\ g[0] = <<>>
           /\ \A n \in 0 .. Len(s) : g[n] \in Seq(FrameByte)
           /\ \A n \in 0 .. Len(s) - 1 : g[n + 1] = g[n] \o PutFramechar(s[n + 1])
<1>1. g[0] = <<>>
  BY DEF IsUpTo
<1>2. \A n \in 0 .. Len(s) - 1 : g[n + 1] = g[n] \o PutFramechar(s[n + 1])
  <2> TAKE n \in 0 .. Len(s) - 1
  <2>1. n + 1 \in 0 .. Len(s) /\ n + 1 # 0 /\ (n + 1) - 1 = n
    OBVIOUS
  <2>2. g[n + 1] = g[(n + 1) - 1] \o PutFramechar(s[n + 1])
    BY <2>1 DEF IsUpTo
  <2> QED BY <2>1, <2>2
<1> DEFINE S == {n \in Nat : n <= Len(s) => g[n] \in Seq(FrameByte)}
<1>3. 0 \in S
  BY <1>1, EmptySeq
<1>4. ASSUME NEW n \in S PROVE n + 1 \in S
  <2>1. CASE n + 1 <= Len(s)
    <3>1. n \in 0 .. Len(s) - 1 /\ g[n] \in Seq(FrameByte) /\ n + 1 \in 1 .. Len(s)
      BY <2>1
    <3>2. PutFramechar(s[n + 1]) \in Seq(FrameByte)
      BY <3>1, PutType
    <3>3. g[n + 1] \in Seq(FrameByte)
      BY <1>2, <3>1, <3>2, ConcatProperties
    <3> QED BY <3>3
  <2> QED BY <2>1
<1> HIDE DEF S
<1>5. \A n \in Nat : n \in S
  BY <1>3, <1>4, SetInduction DEF S
<1>6. ASSUME NEW n \in 0 .. Len(s) PROVE g[n] \in Seq(FrameByte)
  <2>1. n \in S /\ n <= Len(s)
    BY <1>5
  <2> QED BY <2>1 DEF S
<1> QED BY <1>1, <1>2, <1>6

LEMMA FramedType ==
    ASSUME NEW s \in Seq(Byte)
    PROVE  /\ Framed(s) \in Seq(FrameByte) /\ Framed(s) \in Seq(Byte)
           /\ s = <<>> => Framed(s) = <<>>
<1>1. Len(s) \in Nat
  OBVIOUS
<1>2. PICK g : IsUpTo(g, s, Len(s)) /\ Framed(s) = g[Len(s)]
  BY <1>1, FramedUnfolds
<1>3. /\ g[0] = <<>>
      /\ \A n \in 0 .. Len(s) : g[n] \in Seq(FrameByte)
  BY <1>2, UpToType
<1>4. s = <<>> => Len(s) = 0
  OBVIOUS
<1>5. ASSUME NEW q \in Seq(FrameByte) PROVE q \in Seq(Byte)
  <2>1. \A i \in 1 .. Len(q) : q[i] \in FrameByte
    OBVIOUS
  <2>2. \A i \in 1 .. Len(q) : q[i] \in Byte
    BY <2>1, MarksApart
  <2> QED BY <2>2
<1>6. Framed(s) \in Seq(FrameByte)
  BY <1>1, <1>2, <1>3
<1>7. Framed(s) \in Seq(Byte)
  BY <1>5, <1>6
<1> QED BY <1>1, <1>2, <1>3, <1>4, <1>6, <1>7

\* The frame of a sequence begins with that of its first byte.
LEMMA FramedFront ==
    ASSUME NEW s \in Seq(Byte), s # <<>>
    PROVE  Framed(s) = PutFramechar(Head(s)) \o Framed(Tail(s))
<1> DEFINE t == Tail(s)
           a == PutFramechar(Head(s))
           N == Len(t)
<1>1. /\ t \in Seq(Byte) /\ N \in Nat /\ Len(s) = N + 1
      /\ Head(s) \in Byte /\ Head(s) = s[1]
      /\ \A i \in 1 .. N : t[i] = s[i + 1] /\ t[i] \in Byte
  BY HeadTailProperties
<1>2. PICK g : IsUpTo(g, s, Len(s)) /\ Framed(s) = g[Len(s)]
  BY <1>1, FramedUnfolds
<1>3. PICK h : IsUpTo(h, t, N) /\ Framed(t) = h[N]
  BY <1>1, FramedUnfolds
<1>4. a \in Seq(FrameByte)
  BY <1>1, PutType
<1>5. /\ h[0] = <<>>
      /\ \A n \in 0 .. N : h[n] \in Seq(FrameByte)
      /\ \A n \in 0 .. N - 1 : h[n + 1] = h[n] \o PutFramechar(t[n + 1])
  BY <1>1, <1>3, UpToType
<1> HIDE DEF t, N
<1>6. /\ g[0] = <<>>
      /\ \A n \in 0 .. Len(s) - 1 : g[n + 1] = g[n] \o PutFramechar(s[n + 1])
  BY <1>2, UpToType
<1>7. /\ g[1] = g[0] \o a
      /\ \A n \in 0 .. N : g[n + 1] = g[n] \o PutFramechar(s[n + 1])
  <2>1. Len(s) - 1 = N /\ 0 \in 0 .. N /\ 0 + 1 = 1
    BY <1>1
  <2>2. \A n \in 0 .. N : g[n + 1] = g[n] \o PutFramechar(s[n + 1])
    BY <1>6, <2>1
  <2>3. g[0 + 1] = g[0] \o PutFramechar(s[0 + 1])
    BY <2>1, <2>2
  <2> QED BY <1>1, <2>1, <2>2, <2>3
<1> HIDE DEF a
<1> DEFINE S == {n \in Nat : n <= N => g[n + 1] = a \o h[n]}
<1>8. 0 \in S
  <2>1. <<>> \o a = a /\ a \o <<>> = a
    BY <1>4, ConcatEmptySeq
  <2>2. g[0 + 1] = a \o h[0]
    BY <1>5, <1>6, <1>7, <2>1
  <2> QED BY <2>2
<1>9. ASSUME NEW n \in S PROVE n + 1 \in S
  <2>1. CASE n + 1 <= N
    <3> DEFINE b == PutFramechar(t[n + 1])
    <3>1. n \in 0 .. N - 1 /\ n + 1 \in 0 .. N /\ n + 1 \in 1 .. N /\ n \in 0 .. N
      BY <1>1, <2>1
    <3>2. n <= N => g[n + 1] = a \o h[n]
      OBVIOUS
    <3>3. g[n + 1] = a \o h[n]
      BY <3>1, <3>2
    <3>4. b = PutFramechar(s[(n + 1) + 1]) /\ b \in Seq(FrameByte)
      BY <1>1, <3>1, PutType
    <3>5. g[(n + 1) + 1] = g[n + 1] \o b
      BY <1>7, <3>1, <3>4
    <3>6. h[n + 1] = h[n] \o b /\ h[n] \in Seq(FrameByte)
      BY <1>5, <3>1
    <3> HIDE DEF b
    <3> DEFINE c == h[n]
    <3>7. c \in Seq(FrameByte)
      BY <3>6
    <3> HIDE DEF c
    <3>8. (a \o c) \o b = a \o (c \o b)
      <4>1. a \in Seq(FrameByte) /\ b \in Seq(FrameByte) /\ c \in Seq(FrameByte)
        BY <1>4, <3>4, <3>7
      <4> HIDE DEF S
      <4> QED BY <4>1, Assoc
    <3>9. g[(n + 1) + 1] = a \o h[n + 1]
      BY <3>3, <3>5, <3>6, <3>8 DEF c
    <3> QED BY <3>9
  <2>2. CASE ~(n + 1 <= N)
    BY <2>2
  <2> QED BY <2>1, <2>2
<1> HIDE DEF S
<1>10. N \in S
  BY <1>1, <1>8, <1>9, SetInduction DEF S
<1>11. g[N + 1] = a \o h[N]
  BY <1>1, <1>10 DEF S
<1>12. Framed(s) = g[N + 1] /\ Framed(t) = h[N]
  BY <1>1, <1>2, <1>3
<1> QED BY <1>11, <1>12 DEF a, t

(* What parse_message finds in the fifo when rest is still to be read.     *)
Unread(rest) == Framed(rest) \o <<End>>

\* A character at the front of a sequence.
LEMMA FrontOf ==
    ASSUME NEW T, NEW c \in T, NEW q \in Seq(T)
    PROVE  <<c>> \o q \in Seq(T) /\ <<c>> \o q # <<>>
           /\ Head(<<c>> \o q) = c /\ Tail(<<c>> \o q) = q
<1> DEFINE p == <<c>> \o q
<1>1. <<c>> \in Seq(T) /\ Len(<<c>>) = 1 /\ <<c>>[1] = c
  OBVIOUS
<1>2. /\ p \in Seq(T) /\ Len(p) = 1 + Len(q)
      /\ \A i \in 1 .. 1 + Len(q) : p[i] = IF i <= 1 THEN c ELSE q[i - 1]
  BY <1>1, ConcatProperties
<1>3. p # <<>> /\ Head(p) = c
  BY <1>2
<1>4. Tail(p) \in Seq(T) /\ Len(Tail(p)) = Len(q) /\ \A i \in 1 .. Len(q) : Tail(p)[i] = p[i + 1]
  BY <1>2, <1>3
<1>5. \A i \in 1 .. Len(q) : Tail(p)[i] = q[i]
  BY <1>2, <1>4
<1>6. Tail(p) = q
  BY <1>4, <1>5, SeqEqual
<1> QED BY <1>2, <1>3, <1>6

\* A character moves from the front of one to the end of another.
LEMMA MovesOver ==
    ASSUME NEW T, NEW p \in Seq(T), NEW q \in Seq(T), q # <<>>
    PROVE  Append(p, Head(q)) \o Tail(q) = p \o q /\ Append(p, Head(q)) \in Seq(T)
<1> DEFINE c == Head(q)
           t == Tail(q)
<1>1. c \in T /\ t \in Seq(T)
  BY HeadTailProperties
<1>2. q = <<c>> \o t
  <2>1. Len(t) = Len(q) - 1 /\ \A i \in 1 .. Len(t) : t[i] = q[i + 1]
    BY HeadTailProperties
  <2>2. <<c>> \in Seq(T) /\ Len(<<c>>) = 1 /\ <<c>>[1] = c
    BY <1>1
  <2>3. c = q[1] /\ Len(q) \in Nat /\ Len(q) > 0
    OBVIOUS
  <2> HIDE DEF c, t
  <2>4. /\ <<c>> \o t \in Seq(T) /\ Len(<<c>> \o t) = Len(q)
        /\ \A i \in 1 .. Len(q) : (<<c>> \o t)[i] = IF i <= 1 THEN c ELSE t[i - 1]
    BY <1>1, <2>1, <2>2, <2>3, ConcatProperties
  <2>5. \A i \in 1 .. Len(q) : (<<c>> \o t)[i] = q[i]
    BY <2>1, <2>3, <2>4
  <2> QED BY <2>3, <2>4, <2>5, SeqEqual
<1>3. Append(p, c) = p \o <<c>> /\ Append(p, c) \in Seq(T)
  BY <1>1, AppendIsConcat
<1>4. <<c>> \in Seq(T)
  BY <1>1
<1> HIDE DEF c, t
<1>5. (p \o <<c>>) \o t = p \o (<<c>> \o t)
  BY <1>1, <1>4, Assoc
<1> QED BY <1>2, <1>3, <1>5 DEF c, t

LEMMA UnreadType ==
    ASSUME NEW rest \in Seq(Byte)
    PROVE  Unread(rest) \in Seq(Byte) /\ Unread(rest) # <<>>
<1>2. Framed(rest) \in Seq(Byte)
  BY FramedType
<1>3. <<End>> \in Seq(Byte)
  BY MarksApart
<1>4. Framed(rest) \o <<End>> \in Seq(Byte) /\ Len(Framed(rest) \o <<End>>) = Len(Framed(rest)) + 1
  BY <1>2, <1>3, ConcatProperties
<1>5. Len(Framed(rest) \o <<End>>) # 0
  BY <1>2, <1>4
<1> QED BY <1>4, <1>5 DEF Unread

\* All was read: what is left is the end of the frame.
LEMMA UnreadEnd == Unread(<<>>) = <<End>>
<1>1. Framed(<<>>) = <<>>
  BY FramedType, EmptySeq
<1>2. <<End>> \in Seq(Byte)
  BY MarksApart
<1> QED BY <1>1, <1>2, ConcatEmptySeq DEF Unread

\* A byte that is sent as it is.
LEMMA UnreadPlain ==
    ASSUME NEW rest \in Seq(Byte), rest # <<>>, Head(rest) < EscapeChr
    PROVE  Unread(rest) = <<Head(rest)>> \o Unread(Tail(rest))
<1> DEFINE c == Head(rest)
           t == Tail(rest)
<1>1. c \in Byte /\ t \in Seq(Byte)
  BY HeadTailProperties
<1>2. PutFramechar(c) = <<c>>
  BY <1>1, FramingAssumption DEF PutFramechar, Byte, Start
<1>3. Framed(rest) = <<c>> \o Framed(t)
  BY <1>2, FramedFront
<1>4. Framed(t) \in Seq(Byte)
  BY <1>1, FramedType
<1>5. <<c>> \in Seq(Byte) /\ <<End>> \in Seq(Byte)
  BY <1>1, MarksApart
<1> HIDE DEF c, t
<1>6. (<<c>> \o Framed(t)) \o <<End>> = <<c>> \o (Framed(t) \o <<End>>)
  BY <1>4, <1>5, Assoc
<1> QED BY <1>3, <1>6 DEF Unread, c, t

\* One that is escaped.
LEMMA UnreadEscaped ==
    ASSUME NEW rest \in Seq(Byte), rest # <<>>, Head(rest) >= EscapeChr
    PROVE  /\ Unread(rest) = <<EscapeChr>> \o (<<Head(rest) - EscapeChr>> \o Unread(Tail(rest)))
           /\ Head(rest) - EscapeChr \in 0 .. EscapeMax
<1> DEFINE c == Head(rest)
           t == Tail(rest)
           e == Head(rest) - EscapeChr
<1>1. c \in Byte /\ t \in Seq(Byte)
  BY HeadTailProperties
<1>2. PutFramechar(c) = <<EscapeChr, e>>
  BY DEF PutFramechar
<1>3. e \in 0 .. EscapeMax /\ e \in Byte /\ EscapeChr \in Byte
  BY <1>1, FramingAssumption DEF Byte, Start
<1>4. <<EscapeChr, e>> = <<EscapeChr>> \o <<e>>
  BY <1>3
<1>5. Framed(rest) = (<<EscapeChr>> \o <<e>>) \o Framed(t)
  BY <1>2, <1>4, FramedFront
<1>6. Framed(t) \in Seq(Byte)
  BY <1>1, FramedType
<1>7. <<EscapeChr>> \in Seq(Byte) /\ <<e>> \in Seq(Byte) /\ <<End>> \in Seq(Byte)
  BY <1>3, MarksApart
<1> HIDE DEF c, t, e
<1> DEFINE q == Framed(t)
<1>8. q \in Seq(Byte) /\ <<e>> \o q \in Seq(Byte) /\ q \o <<End>> \in Seq(Byte)
  BY <1>6, <1>7, ConcatProperties
<1> HIDE DEF q
<1>9. (<<EscapeChr>> \o <<e>>) \o q = <<EscapeChr>> \o (<<e>> \o q)
  BY <1>7, <1>8, Assoc
<1>10. (<<EscapeChr>> \o (<<e>> \o q)) \o <<End>> = <<EscapeChr>> \o ((<<e>> \o q) \o <<End>>)
  BY <1>7, <1>8, Assoc
<1>11. (<<e>> \o q) \o <<End>> = <<e>> \o (q \o <<End>>)
  BY <1>7, <1>8, Assoc
<1> QED BY <1>3, <1>5, <1>9, <1>10, <1>11 DEF Unread, c, t, e, q

-----------------------------------------------------------------------------
(* Messages and their frames.                                              *)

LEMMA MessageType ==
    ASSUME NEW m \in Messages
    PROVE  /\ m.address \in Byte /\ m.cmd \in Byte /\ m.data \in Seq(Byte)
           /\ m.address < EscapeChr /\ m.cmd < EscapeChr
           /\ Len(m.data) \in Byte /\ Len(m.data) < EscapeChr /\ Len(m.data) <= DataMax
           /\ Crc[m] \in Seq(Byte) /\ Len(Crc[m]) = 2
<1> DEFINE R == [address : 0 .. EscapeChr - 1, cmd : 0 .. EscapeChr - 1, data : Seq(Byte)]
<1>1. m \in R /\ Len(m.data) < EscapeChr /\ Len(m.data) <= DataMax
  BY HeaderAssumption
<1>2. m.address \in 0 .. EscapeChr - 1 /\ m.cmd \in 0 .. EscapeChr - 1 /\ m.data \in Seq(Byte)
  BY <1>1
<1>3. EscapeChr \in Nat /\ EscapeMax \in Nat
  BY FramingAssumption
<1>4. m.address \in Byte /\ m.cmd \in Byte
  BY <1>2, <1>3 DEF Byte, Start
<1>5. Len(m.data) \in Nat
  BY <1>2
<1>6. Len(m.data) \in Byte
  BY <1>1, <1>3, <1>5 DEF Byte, Start
<1>7. Crc[m] \in Byte \X Byte
  BY FramingAssumption
<1>8. Crc[m] \in Seq(Byte) /\ Len(Crc[m]) = 2
  <2>1. PICK a \in Byte, b \in Byte : Crc[m] = <<a, b>>
    BY <1>7
  <2>2. <<a, b>> \in Seq(Byte) /\ Len(<<a, b>>) = 2
    BY <2>1
  <2> QED BY <2>1, <2>2
<1> QED BY <1>1, <1>2, <1>3, <1>4, <1>6, <1>8

LEMMA ContentType ==
    ASSUME NEW m \in Messages
    PROVE  /\ Content(m) \in Seq(Byte) /\ Len(Content(m)) = 5 + Len(m.data)
           /\ Content(m)[1] = m.address /\ Content(m)[2] = m.cmd
           /\ Content(m)[3] = Len(m.data)
           /\ \A i \in 1 .. Len(m.data) : Content(m)[3 + i] = m.data[i]
<1> DEFINE h == <<m.address, m.cmd, Len(m.data)>>
           d == m.data
           c == Crc[m]
<1>1. h \in Seq(Byte) /\ Len(h) = 3 /\ d \in Seq(Byte) /\ c \in Seq(Byte) /\ Len(c) = 2
  BY MessageType
<1>2. h[1] = m.address /\ h[2] = m.cmd /\ h[3] = Len(d)
  OBVIOUS
<1>3. Content(m) = (h \o d) \o c
  BY DEF Content
<1> HIDE DEF h, c, d
<1>4. /\ h \o d \in Seq(Byte) /\ Len(h \o d) = 3 + Len(d)
      /\ \A i \in 1 .. 3 + Len(d) : (h \o d)[i] = IF i <= 3 THEN h[i] ELSE d[i - 3]
  <2>1. /\ h \o d \in Seq(Byte) /\ Len(h \o d) = Len(h) + Len(d)
        /\ \A i \in 1 .. Len(h) + Len(d) :
               (h \o d)[i] = IF i <= Len(h) THEN h[i] ELSE d[i - Len(h)]
    BY <1>1, ConcatProperties
  <2> QED BY <1>1, <2>1
<1>5. Len(d) \in Nat
  BY <1>1
<1>6. /\ (h \o d) \o c \in Seq(Byte) /\ Len((h \o d) \o c) = 5 + Len(d)
      /\ \A i \in 1 .. 3 + Len(d) : ((h \o d) \o c)[i] = (h \o d)[i]
  <2> DEFINE q == h \o d
  <2>1. q \in Seq(Byte) /\ Len(q) = 3 + Len(d)
    BY <1>4
  <2> HIDE DEF q
  <2>2. /\ q \o c \in Seq(Byte) /\ Len(q \o c) = Len(q) + Len(c)
        /\ \A i \in 1 .. Len(q) + Len(c) : (q \o c)[i] = IF i <= Len(q) THEN q[i] ELSE c[i - Len(q)]
    BY <1>1, <2>1, ConcatProperties
  <2>3. Len(q) + Len(c) = 5 + Len(d)
    BY <1>1, <1>5, <2>1
  <2>4. \A i \in 1 .. 3 + Len(d) : (q \o c)[i] = q[i]
    BY <1>1, <1>5, <2>1, <2>2
  <2> QED BY <2>2, <2>3, <2>4 DEF q
<1> HIDE DEF d
<1>7. ASSUME NEW i \in 1 .. 3 PROVE Content(m)[i] = h[i]
  BY <1>3, <1>4, <1>5, <1>6
<1>8. ASSUME NEW i \in 1 .. Len(d) PROVE Content(m)[3 + i] = d[i]
  <2>1. 3 + i \in 1 .. 3 + Len(d) /\ ~(3 + i <= 3) /\ (3 + i) - 3 = i
    BY <1>5
  <2> QED BY <1>3, <1>4, <1>6, <2>1
<1>9. Content(m)[1] = m.address /\ Content(m)[2] = m.cmd /\ Content(m)[3] = Len(d)
  BY <1>2, <1>7
<1> QED BY <1>3, <1>6, <1>8, <1>9 DEF d

\* The bytes tell the message.
LEMMA ContentTells ==
    ASSUME NEW m \in Messages, NEW k \in Messages, Content(m) = Content(k)
    PROVE  m = k
<1>1. m.address = k.address /\ m.cmd = k.cmd /\ Len(m.data) = Len(k.data)
  BY ContentType
<1>2. \A i \in 1 .. Len(m.data) : m.data[i] = k.data[i]
  BY <1>1, ContentType
<1>3. m.data = k.data
  BY <1>1, <1>2, MessageType, SeqEqual
<1>4. /\ m \in [address : 0 .. EscapeChr - 1, cmd : 0 .. EscapeChr - 1, data : Seq(Byte)]
      /\ k \in [address : 0 .. EscapeChr - 1, cmd : 0 .. EscapeChr - 1, data : Seq(Byte)]
  BY HeaderAssumption
<1> QED BY <1>1, <1>3, <1>4

LEMMA FrameType ==
    ASSUME NEW m \in Messages
    PROVE  /\ <<Version>> \o Content(m) \in Seq(Byte)
           /\ Frame(m) \in Seq(Byte) /\ Frame(m) # <<>>
           /\ Frame(m) = <<Start>> \o Unread(<<Version>> \o Content(m))
<1> DEFINE s == <<Version>> \o Content(m)
<1>1. Version \in Byte
  BY FramingAssumption DEF Byte, Start
<1>2. s \in Seq(Byte)
  BY <1>1, ContentType, FrontOf
<1> HIDE DEF s
<1> DEFINE q == Framed(s)
<1>3. q \in Seq(Byte) /\ <<Start>> \in Seq(Byte) /\ <<End>> \in Seq(Byte)
  BY <1>2, FramedType, MarksApart
<1>4. Frame(m) = (<<Start>> \o q) \o <<End>>
  BY DEF Frame, s
<1>5. Unread(s) = q \o <<End>>
  BY DEF Unread
<1> HIDE DEF q
<1>6. Frame(m) = <<Start>> \o Unread(s)
  BY <1>3, <1>4, <1>5, Assoc
<1>7. Frame(m) \in Seq(Byte) /\ Frame(m) # <<>>
  BY <1>2, <1>6, UnreadType, MarksApart, FrontOf
<1> QED BY <1>2, <1>6, <1>7 DEF s

\* The marks of a frame are its first and its last byte.
LEMMA FrameMarks ==
    ASSUME NEW m \in Messages
    PROVE  /\ HoldsFrame(Frame(m))
           /\ Len(Frame(m)) >= 2 /\ Frame(m)[1] = Start /\ Frame(m)[Len(Frame(m))] = End
           /\ \A j \in 1 .. Len(Frame(m)) - 1 : Frame(m)[j] # End
           /\ \A j \in 2 .. Len(Frame(m)) : Frame(m)[j] # Start
<1> DEFINE s == <<Version>> \o Content(m)
           f == Frame(m)
<1>1. s \in Seq(Byte) /\ f = <<Start>> \o Unread(s) /\ Unread(s) \in Seq(Byte)
  BY FrameType, UnreadType
<1> HIDE DEF s, f
<1> DEFINE q == Framed(s)
<1>2. q \in Seq(FrameByte) /\ q \in Seq(Byte) /\ Unread(s) = q \o <<End>>
  BY <1>1, FramedType DEF Unread
<1> HIDE DEF q
<1>3. <<End>> \in Seq(Byte) /\ <<Start>> \in Seq(Byte) /\ Len(q) \in Nat
  BY <1>2, MarksApart
<1>4. /\ Len(Unread(s)) = Len(q) + 1
      /\ \A i \in 1 .. Len(q) + 1 : Unread(s)[i] = IF i <= Len(q) THEN q[i] ELSE <<End>>[i - Len(q)]
  BY <1>2, <1>3, ConcatProperties
<1>5. /\ Len(f) = 1 + Len(Unread(s))
      /\ \A i \in 1 .. 1 + Len(Unread(s)) : f[i] = IF i <= 1 THEN <<Start>>[i] ELSE Unread(s)[i - 1]
  BY <1>1, <1>3, ConcatProperties
<1>6. Len(f) = Len(q) + 2 /\ f[1] = Start
  BY <1>3, <1>4, <1>5
<1>7. f[Len(f)] = End
  <2>1. Len(f) \in 1 .. 1 + Len(Unread(s)) /\ ~(Len(f) <= 1) /\ Len(f) - 1 = Len(q) + 1
    BY <1>3, <1>4, <1>5
  <2>2. f[Len(f)] = Unread(s)[Len(q) + 1]
    BY <1>5, <2>1
  <2>3. Len(q) + 1 \in 1 .. Len(q) + 1 /\ ~(Len(q) + 1 <= Len(q)) /\ (Len(q) + 1) - Len(q) = 1
    BY <1>3
  <2> QED BY <1>4, <2>2, <2>3
<1>8. ASSUME NEW j \in 1 .. Len(f) - 1 PROVE f[j] # End
  <2>1. CASE j = 1
    BY <1>6, <2>1, MarksApart
  <2>2. CASE j # 1
    <3>1. j - 1 \in 1 .. Len(q) /\ j - 1 \in 1 .. Len(q) + 1 /\ ~(j <= 1)
          /\ j \in 1 .. 1 + Len(Unread(s))
      BY <1>3, <1>4, <1>5, <1>6, <2>2
    <3>2. f[j] = q[j - 1]
      BY <1>4, <1>5, <3>1
    <3>3. q[j - 1] \in FrameByte
      BY <1>2, <3>1
    <3> QED BY <3>2, <3>3, MarksApart
  <2> QED BY <2>1, <2>2
<1>9. f \in Seq(Byte)
  BY FrameType DEF f
<1>10. 1 \in DOMAIN f /\ Len(f) \in DOMAIN f /\ 1 < Len(f)
  BY <1>3, <1>6, <1>9
<1>11. HoldsFrame(f)
  BY <1>6, <1>7, <1>10 DEF HoldsFrame
<1>12. ASSUME NEW j \in 2 .. Len(f) PROVE f[j] # Start
  <2>1. CASE j = Len(f)
    BY <1>7, <2>1, MarksApart
  <2>2. CASE j # Len(f)
    <3>1. j - 1 \in 1 .. Len(q) /\ j - 1 \in 1 .. Len(q) + 1 /\ ~(j <= 1)
          /\ j \in 1 .. 1 + Len(Unread(s))
      BY <1>3, <1>4, <1>5, <1>6, <2>2
    <3>2. f[j] = q[j - 1]
      BY <1>4, <1>5, <3>1
    <3>3. q[j - 1] \in FrameByte
      BY <1>2, <3>1
    <3> QED BY <3>2, <3>3, MarksApart
  <2> QED BY <2>1, <2>2
<1>13. Len(f) >= 2
  BY <1>3, <1>6
<1> QED BY <1>6, <1>7, <1>8, <1>11, <1>12, <1>13 DEF f

-----------------------------------------------------------------------------
(* Types.  What parse_message has read so far has the length that goes with *)
(* the place where it is: the bound on data[] is that of GetHead.          *)
SenderOK == /\ wire \in Seq(Byte) /\ msg \in Messages /\ whole \in BOOLEAN
            /\ noise \in 0 .. MaxNoise
FifoOK   == rx \in Seq(Byte) /\ Len(rx) <= Size
OwedOK   == owed \in Seq(Messages)
ReadOK   ==
    /\ pc \in Location /\ got \in Seq(Byte)
    /\ pc \in {"scan", "flood", "clear", "seek", "version"} => got = <<>>
    /\ pc = "head" => Len(got) <= 2
    /\ pc \in {"body", "escaped"} =>
           Len(got) >= 3 /\ got[3] \in 0 .. DataMax /\ Len(got) < 5 + got[3]
    /\ pc = "end" => \E m \in Messages : got = Content(m)

TypeInv == SenderOK /\ FifoOK /\ OwedOK /\ ReadOK

LEMMA ReceivedType ==
    ASSUME FifoOK, NEW chr \in Byte
    PROVE  Received(rx, chr) \in Seq(Byte) /\ Len(Received(rx, chr)) <= Size
<1>1. CASE Len(rx) < Size
  <2>1. /\ Append(rx, chr) \in Seq(Byte) /\ Len(Append(rx, chr)) = Len(rx) + 1
        /\ Len(rx) \in Nat /\ Size \in Nat
    BY FramingAssumption DEF FifoOK
  <2> QED BY <1>1, <2>1 DEF Received
<1>2. CASE ~(Len(rx) < Size)
  BY <1>2 DEF Received, FifoOK
<1> QED BY <1>1, <1>2

LEMMA TailType ==
    ASSUME NEW q \in Seq(Byte), q # <<>>
    PROVE  Head(q) \in Byte /\ Tail(q) \in Seq(Byte) /\ Len(Tail(q)) <= Len(q)
<1>1. Head(q) \in Byte /\ Tail(q) \in Seq(Byte) /\ Len(Tail(q)) = Len(q) - 1 /\ Len(q) \in Nat
  BY HeadTailProperties
<1> QED BY <1>1

\* What fifo_get leaves.
LEMMA GetType ==
    ASSUME FifoOK, NoData \/ \E chr : Get(chr)
    PROVE  FifoOK'
<1>1. CASE NoData
  BY <1>1 DEF NoData, FifoOK
<1>2. CASE \E chr : Get(chr)
  <2>1. rx # <<>> /\ rx' = Tail(rx)
    BY <1>2 DEF Get
  <2>2. Tail(rx) \in Seq(Byte) /\ Len(Tail(rx)) <= Len(rx) /\ Len(rx) \in Nat
        /\ Len(Tail(rx)) \in Nat /\ Len(rx) <= Size /\ Size \in Nat
    BY <2>1, TailType, FramingAssumption DEF FifoOK
  <2> QED BY <2>1, <2>2 DEF FifoOK
<1> QED BY <1>1, <1>2

LEMMA IdleType ==
    ASSUME SenderOK, Idle
    PROVE  SenderOK'
BY DEF SenderOK, Idle, sender

LEMMA DisturbType ==
    ASSUME SenderOK, Disturb
    PROVE  noise' \in 0 .. MaxNoise /\ OwedOK'
<1>1. MaxNoise \in Nat /\ noise \in 0 .. MaxNoise /\ noise < MaxNoise /\ noise' = noise + 1
  BY FramingAssumption DEF SenderOK, Disturb
<1>2. owed' = <<>>
  BY DEF Disturb
<1> QED BY <1>1, <1>2, EmptySeq DEF OwedOK

LEMMA RestartType == Restart => ReadOK'
<1>1. <<>> \in Seq(Byte)
  BY EmptySeq
<1> QED BY <1>1 DEF Restart, ReadOK, Location

LEMMA StoreType ==
    ASSUME ReadOK, pc \in {"body", "escaped"}, NEW chr \in Byte, Store(chr)
    PROVE  ReadOK'
<1> DEFINE read == Append(got, chr)
<1>1. /\ got \in Seq(Byte) /\ Len(got) >= 3 /\ got[3] \in 0 .. DataMax
  BY DEF ReadOK
<1>2. Len(got) \in Nat /\ DataMax \in Nat
  BY <1>1, FramingAssumption
<1>3. /\ read \in Seq(Byte) /\ Len(read) = Len(got) + 1 /\ read[3] = got[3]
  BY <1>1, <1>2
<1>4. CASE Len(read) < 5 + got[3] /\ got' = read /\ pc' = "body"
  BY <1>1, <1>2, <1>3, <1>4 DEF ReadOK, Location
<1>5. CASE (\E m \in Messages : read = Content(m)) /\ got' = read /\ pc' = "end"
  BY <1>3, <1>5 DEF ReadOK, Location
<1>6. CASE Restart
  BY <1>6, RestartType
<1> HIDE DEF read
<1> QED BY <1>4, <1>5, <1>6 DEF Store, read

\* A message that is owed is owed for the first time somewhere.
LEMMA AfterType ==
    ASSUME OwedOK, NEW m
    PROVE  After(m) \in Seq(Messages)
<1>1. owed \in Seq(Messages) /\ Len(owed) \in Nat /\ DOMAIN owed = 1 .. Len(owed)
  BY DEF OwedOK
<1>2. CASE \E i \in DOMAIN owed : owed[i] = m
  <2> DEFINE T == {i \in Nat : i \in DOMAIN owed /\ owed[i] = m}
             first == CHOOSE i \in DOMAIN owed :
                          owed[i] = m /\ \A j \in 1 .. i - 1 : owed[j] # m
  <2>1. PICK i \in T : \A k \in T : i <= k
    <3>1. T \in SUBSET Nat /\ T # {}
      BY <1>1, <1>2
    <3> HIDE DEF T
    <3> QED BY <3>1, LeastNatural
  <2>2. i \in DOMAIN owed /\ owed[i] = m /\ \A j \in 1 .. i - 1 : owed[j] # m
    <3>1. ASSUME NEW j \in 1 .. i - 1, owed[j] = m PROVE FALSE
      <4>1. j \in T
        BY <1>1, <2>1, <3>1
      <4> QED BY <2>1, <4>1
    <3> QED BY <2>1, <3>1
  <2>3. first \in DOMAIN owed
    BY <2>2
  <2>4. After(m) = SubSeq(owed, first + 1, Len(owed))
    BY <1>2 DEF After
  <2> HIDE DEF first
  <2>5. first + 1 \in 1 .. Len(owed) + 1
    BY <1>1, <2>3
  <2>6. SubSeq(owed, first + 1, Len(owed)) \in Seq(Messages)
    BY <1>1, <2>5
  <2> QED BY <2>4, <2>6
<1>3. CASE ~ \E i \in DOMAIN owed : owed[i] = m
  BY <1>1, <1>3 DEF After
<1> QED BY <1>2, <1>3

LEMMA TypeInit == Init => TypeInv
<1>1. <<>> \in Seq(Byte) /\ <<>> \in Seq(Messages) /\ Len(<<>>) = 0
  BY EmptySeq
<1>2. Size \in Nat /\ MaxNoise \in Nat
  BY FramingAssumption
<1> SUFFICES ASSUME Init PROVE TypeInv
  OBVIOUS
<1>3. SenderOK
  <2>1. noise \in 0 .. MaxNoise
    BY <1>2 DEF Init
  <2>2. wire \in Seq(Byte) /\ msg \in Messages /\ whole \in BOOLEAN
    BY <1>1 DEF Init
  <2> QED BY <2>1, <2>2 DEF SenderOK
<1>4. FifoOK /\ OwedOK
  BY <1>1, <1>2 DEF Init, FifoOK, OwedOK
<1>5. ReadOK
  BY <1>1 DEF Init, ReadOK, Location
<1> QED BY <1>3, <1>4, <1>5 DEF TypeInv

LEMMA TypeStep == TypeInv /\ [Next]_vars => TypeInv'
<1> SUFFICES ASSUME TypeInv, [Next]_vars PROVE TypeInv'
  OBVIOUS
<1> USE DEF TypeInv
<1>1. CASE SendFrame
  <2>1. Frame(msg') \in Seq(Byte) /\ msg' \in Messages
    BY <1>1, FrameType DEF SendFrame
  <2> QED BY <1>1, <2>1 DEF SendFrame, SenderOK, FifoOK, OwedOK, ReadOK
<1>2. CASE ByteArrives
  <2>1. Head(wire) \in Byte /\ Tail(wire) \in Seq(Byte)
    BY <1>2, TailType DEF ByteArrives, SenderOK
  <2>2. FifoOK'
    BY <1>2, <2>1, ReceivedType DEF ByteArrives, FifoOK
  <2>3. OwedOK'
    BY <1>2, AppendProperties DEF ByteArrives, OwedOK, SenderOK
  <2>4. SenderOK' /\ ReadOK'
    BY <1>2, <2>1 DEF ByteArrives, SenderOK, ReadOK
  <2> QED BY <2>2, <2>3, <2>4
<1>3. CASE ByteSpoiled
  <2>1. Tail(wire) \in Seq(Byte)
    BY <1>3, TailType DEF ByteSpoiled, SenderOK
  <2>2. FifoOK'
    BY <1>3, ReceivedType DEF ByteSpoiled, FifoOK
  <2>3. noise' \in 0 .. MaxNoise /\ OwedOK'
    BY <1>3, DisturbType DEF ByteSpoiled
  <2>4. SenderOK'
    BY <1>3, <2>1, <2>3 DEF ByteSpoiled, SenderOK
  <2>5. ReadOK'
    BY <1>3 DEF ByteSpoiled, ReadOK
  <2> QED BY <2>2, <2>3, <2>4, <2>5
<1>4. CASE FrameCut
  <2>1. noise' \in 0 .. MaxNoise /\ OwedOK'
    BY <1>4, DisturbType DEF FrameCut
  <2>2. wire' \in Seq(Byte)
    BY <1>4, EmptySeq DEF FrameCut
  <2>3. SenderOK'
    BY <1>4, <2>1, <2>2 DEF FrameCut, SenderOK
  <2>4. ReadOK' /\ FifoOK'
    BY <1>4 DEF FrameCut, ReadOK, FifoOK
  <2> QED BY <2>1, <2>3, <2>4
<1>5. CASE StrayByte
  <2>1. FifoOK'
    BY <1>5, ReceivedType DEF StrayByte, FifoOK
  <2>2. noise' \in 0 .. MaxNoise /\ OwedOK'
    BY <1>5, DisturbType DEF StrayByte
  <2>3. SenderOK'
    BY <1>5, <2>2 DEF StrayByte, SenderOK, sender
  <2>4. ReadOK'
    BY <1>5 DEF StrayByte, ReadOK
  <2> QED BY <2>1, <2>2, <2>3, <2>4
<1>6. CASE Scan
  BY <1>6, IdleType DEF Scan, FifoOK, OwedOK, ReadOK, Location
<1>7. CASE FloodTest
  BY <1>7, IdleType DEF FloodTest, FifoOK, OwedOK, ReadOK, Location
<1>8. CASE ClearGarbage
  <2>1. rx' \in Seq(Byte) /\ Len(rx') <= Size
    BY <1>8, EmptySeq, FramingAssumption DEF ClearGarbage
  <2>2. SenderOK' /\ ReadOK'
    BY <1>8, IdleType, RestartType DEF ClearGarbage
  <2>3. OwedOK'
    BY <1>8 DEF ClearGarbage, OwedOK
  <2> QED BY <2>1, <2>2, <2>3 DEF FifoOK
<1>9. CASE Seek
  <2>1. FifoOK'
    BY <1>9, GetType DEF Seek
  <2>2. SenderOK' /\ OwedOK'
    BY <1>9, IdleType DEF Seek, OwedOK
  <2>3. pc' \in {"seek", "version"} /\ got' = got
    BY <1>9 DEF Seek
  <2>4. ReadOK'
    BY <1>9, <2>3 DEF ReadOK, Seek, Location
  <2> QED BY <2>1, <2>2, <2>4
<1>10. CASE GetVersion
  <2>1. FifoOK'
    BY <1>10, GetType DEF GetVersion
  <2>2. SenderOK' /\ OwedOK'
    BY <1>10, IdleType DEF GetVersion, OwedOK
  <2>3. CASE pc' = "head" /\ got' = got
    <3>1. got = <<>> /\ Len(<<>>) = 0
      BY <1>10 DEF GetVersion, ReadOK
    <3> QED BY <2>1, <2>2, <2>3, <3>1 DEF ReadOK, Location
  <2>4. CASE Restart
    BY <2>1, <2>2, <2>4, RestartType
  <2> QED BY <1>10, <2>3, <2>4 DEF GetVersion
<1>11. CASE GetHead
  <2>1. FifoOK'
    BY <1>11, GetType DEF GetHead
  <2>2. SenderOK' /\ OwedOK'
    BY <1>11, IdleType DEF GetHead, OwedOK
  <2>3. CASE Restart
    BY <2>1, <2>2, <2>3, RestartType
  <2>4. ASSUME NEW chr \in Byte, got' = Append(got, chr),
               \/ Len(got) < 2 /\ pc' = "head"
               \/ Len(got) = 2 /\ chr <= DataMax /\ pc' = "body"
        PROVE  TypeInv'
    <3>1. /\ got \in Seq(Byte) /\ Len(got) \in Nat
          /\ got' \in Seq(Byte) /\ Len(got') = Len(got) + 1
          /\ got'[Len(got) + 1] = chr
      BY <2>4 DEF ReadOK
    <3>2. CASE Len(got) < 2 /\ pc' = "head"
      BY <2>1, <2>2, <3>1, <3>2 DEF ReadOK, Location
    <3>3. CASE Len(got) = 2 /\ chr <= DataMax /\ pc' = "body"
      <4>1. got'[3] = chr /\ Len(got') = 3 /\ chr \in 0 .. DataMax
        BY <3>1, <3>3, FramingAssumption DEF Byte
      <4> QED BY <2>1, <2>2, <3>1, <3>3, <4>1 DEF ReadOK, Location
    <3> QED BY <2>4, <3>2, <3>3
  <2> QED BY <1>11, <2>3, <2>4 DEF GetHead
<1>12. CASE GetBody
  <2>1. FifoOK'
    BY <1>12, GetType DEF GetBody
  <2>2. SenderOK' /\ OwedOK' /\ pc = "body"
    BY <1>12, IdleType DEF GetBody, OwedOK
  <2>3. CASE Restart
    BY <2>1, <2>2, <2>3, RestartType
  <2>4. CASE pc' = "escaped" /\ got' = got
    BY <2>1, <2>2, <2>4 DEF ReadOK, Location
  <2>5. ASSUME NEW chr \in 0 .. EscapeChr - 1, Store(chr) PROVE TypeInv'
    <3>1. chr \in Byte
      BY FramingAssumption DEF Byte, Start
    <3> QED BY <2>1, <2>2, <2>5, <3>1, StoreType
  <2> QED BY <1>12, <2>3, <2>4, <2>5 DEF GetBody
<1>13. CASE GetEscaped
  <2>1. FifoOK'
    BY <1>13, GetType DEF GetEscaped
  <2>2. SenderOK' /\ OwedOK' /\ pc = "escaped"
    BY <1>13, IdleType DEF GetEscaped, OwedOK
  <2>3. CASE Restart
    BY <2>1, <2>2, <2>3, RestartType
  <2>4. ASSUME NEW chr \in 0 .. EscapeMax, Store(chr + EscapeChr) PROVE TypeInv'
    <3>1. chr + EscapeChr \in Byte
      BY FramingAssumption DEF Byte, Start
    <3> QED BY <2>1, <2>2, <2>4, <3>1, StoreType
  <2> QED BY <1>13, <2>3, <2>4 DEF GetEscaped
<1>14. CASE GetEnd
  <2>1. FifoOK'
    BY <1>14, GetType DEF GetEnd
  <2>2. SenderOK'
    BY <1>14, IdleType DEF GetEnd
  <2>3. CASE (\E m : owed' = After(m)) /\ Restart
    BY <2>1, <2>2, <2>3, AfterType, RestartType DEF OwedOK
  <2>4. CASE UNCHANGED <<pc, got, owed>>
    BY <2>1, <2>2, <2>4 DEF ReadOK, OwedOK
  <2> QED BY <1>14, <2>3, <2>4 DEF GetEnd
<1>15. CASE UNCHANGED vars
  BY <1>15 DEF vars, sender, SenderOK, FifoOK, OwedOK, ReadOK
<1> QED BY <1>1, <1>2, <1>3, <1>4, <1>5, <1>6, <1>7, <1>8, <1>9, <1>10, <1>11,
           <1>12, <1>13, <1>14, <1>15 DEF Next, Main

LEMMA TypeFollows == TypeInv => TypeOK
<1> SUFFICES ASSUME TypeInv PROVE TypeOK
  OBVIOUS
<1>1. Len(got) <= 5 + DataMax
  <2>1. got \in Seq(Byte) /\ Len(got) \in Nat /\ DataMax \in Nat /\ Len(<<>>) = 0 /\ pc \in Location
    BY FramingAssumption DEF TypeInv, ReadOK
  <2>2. CASE pc = "end"
    <3>1. PICK m \in Messages : got = Content(m)
      BY <2>2 DEF TypeInv, ReadOK
    <3>2. Len(got) = 5 + Len(m.data) /\ Len(m.data) <= DataMax /\ Len(m.data) \in Nat
      BY <3>1, ContentType, MessageType
    <3> QED BY <2>1, <3>2
  <2>3. CASE pc \in {"body", "escaped"}
    BY <2>1, <2>3 DEF TypeInv, ReadOK
  <2>4. CASE pc \in Location \ {"body", "escaped", "end"}
    BY <2>1, <2>4 DEF TypeInv, ReadOK, Location
  <2> QED BY <2>1, <2>2, <2>3, <2>4
<1> QED BY <1>1 DEF TypeInv, SenderOK, FifoOK, OwedOK, ReadOK, TypeOK

THEOREM FramingTypeCorrect == Spec => []TypeOK
<1>1. Spec => []TypeInv
  BY TypeInit, TypeStep, PTL DEF Spec
<1> QED BY <1>1, TypeFollows, PTL

-----------------------------------------------------------------------------
(* Nothing is lost without noise, as long as every frame fits the fifo and  *)
(* leaves room: at any time at most one message is under way, and the fifo  *)
(* holds exactly what parse_message has not read of it.                    *)
Fits == \A m \in Messages : Len(Frame(m)) < Size

Outside == pc \in {"scan", "flood"} /\ got = <<>>

Waiting  == wire = <<>> /\ rx = <<>> /\ owed = <<>> /\ Outside
Arriving == wire # <<>> /\ whole /\ rx \o wire = Frame(msg) /\ owed = <<>> /\ Outside

Reading(rest) ==
    /\ got \o rest = Content(msg)
    /\ \/ pc = "head" /\ Len(got) <= 2 /\ rx = Unread(rest)
       \/ pc = "body" /\ Len(got) >= 3 /\ rest # <<>> /\ rx = Unread(rest)
       \/ /\ pc = "escaped" /\ Len(got) >= 3 /\ rest # <<>> /\ Head(rest) >= EscapeChr
          /\ rx = <<Head(rest) - EscapeChr>> \o Unread(Tail(rest))
       \/ pc = "end" /\ rest = <<>> /\ rx = Unread(rest)

\* parse_message is past the start of the frame of msg.
Parsing ==
    \/ pc = "version" /\ got = <<>> /\ rx = Unread(<<Version>> \o Content(msg))
    \/ \E rest \in Seq(Byte) : Reading(rest)

Arrived ==
    /\ wire = <<>> /\ owed = <<msg>>
    /\ \/ pc \in {"scan", "flood", "seek"} /\ got = <<>> /\ rx = Frame(msg)
       \/ Parsing

QuietInv == noise = 0 => Waiting \/ Arriving \/ Arrived

\* What came of a frame does not look like a frame until all of it is there.
LEMMA PartIsNoFrame ==
    ASSUME TypeInv, Arriving
    PROVE  ~HoldsFrame(rx) /\ Len(rx) < Len(Frame(msg))
<1>1. /\ rx \in Seq(Byte) /\ wire \in Seq(Byte) /\ wire # <<>> /\ msg \in Messages
      /\ rx \o wire = Frame(msg)
  BY DEF TypeInv, SenderOK, FifoOK, Arriving
<1>2. /\ Len(rx \o wire) = Len(rx) + Len(wire)
      /\ \A i \in 1 .. Len(rx) + Len(wire) :
             (rx \o wire)[i] = IF i <= Len(rx) THEN rx[i] ELSE wire[i - Len(rx)]
  BY <1>1, ConcatProperties
<1>3. Len(rx) \in Nat /\ Len(wire) \in Nat /\ Len(wire) > 0
  BY <1>1
<1>4. Len(rx) < Len(Frame(msg))
  BY <1>1, <1>2, <1>3
<1>5. ASSUME NEW j \in DOMAIN rx PROVE rx[j] # End
  <2>1. j \in 1 .. Len(rx) /\ j \in 1 .. Len(rx) + Len(wire) /\ j \in 1 .. Len(Frame(msg)) - 1
    BY <1>1, <1>2, <1>3
  <2>2. Frame(msg)[j] = rx[j]
    BY <1>1, <1>2, <2>1
  <2> QED BY <1>1, <2>1, <2>2, FrameMarks
<1> QED BY <1>4, <1>5 DEF HoldsFrame

LEMMA EmptyIsNoFrame == ~HoldsFrame(<<>>)
BY DEF HoldsFrame

\* One more of the bytes parse_message reads.
LEMMA ReadOn ==
    ASSUME TypeInv, NEW rest \in Seq(Byte), rest # <<>>, got \o rest = Content(msg)
    PROVE  /\ Head(rest) \in Byte /\ Tail(rest) \in Seq(Byte)
           /\ Append(got, Head(rest)) \in Seq(Byte)
           /\ Append(got, Head(rest)) \o Tail(rest) = Content(msg)
<1>1. got \in Seq(Byte)
  BY DEF TypeInv, ReadOK
<1> QED BY <1>1, TailType, MovesOver

\* The first bytes of the content are read as they are.
LEMMA HeadIsPlain ==
    ASSUME TypeInv, NEW rest \in Seq(Byte), got \o rest = Content(msg), Len(got) <= 2
    PROVE  /\ rest # <<>> /\ Head(rest) < EscapeChr
           /\ Len(got) = 2 => Head(rest) <= DataMax
<1>1. msg \in Messages /\ got \in Seq(Byte) /\ Len(got) \in Nat /\ Len(rest) \in Nat
  BY DEF TypeInv, SenderOK, ReadOK
<1>2. /\ Len(got \o rest) = Len(got) + Len(rest)
      /\ \A i \in 1 .. Len(got) + Len(rest) :
             (got \o rest)[i] = IF i <= Len(got) THEN got[i] ELSE rest[i - Len(got)]
  BY <1>1, ConcatProperties
<1> DEFINE n == Len(msg.data)
<1>3. /\ Len(Content(msg)) = 5 + n /\ n \in Byte /\ n < EscapeChr /\ n <= DataMax
      /\ Content(msg)[1] = msg.address /\ Content(msg)[2] = msg.cmd /\ Content(msg)[3] = n
      /\ msg.address < EscapeChr /\ msg.cmd < EscapeChr
  BY <1>1, ContentType, MessageType
<1>4. n \in Nat
  BY <1>1, MessageType
<1> HIDE DEF n
<1>5. Len(got) + Len(rest) = 5 + n
  BY <1>2, <1>3
<1>6. rest # <<>> /\ Len(got) + 1 \in 1 .. Len(got) + Len(rest)
  BY <1>1, <1>4, <1>5
<1>7. Head(rest) = rest[1]
  BY <1>6
<1>8. Content(msg)[Len(got) + 1] = Head(rest)
  <2>1. ~(Len(got) + 1 <= Len(got)) /\ (Len(got) + 1) - Len(got) = 1
    BY <1>1
  <2> QED BY <1>2, <1>6, <1>7, <2>1
<1>9. Len(got) = 0 \/ Len(got) = 1 \/ Len(got) = 2
  <2>1. \A k \in Nat : k <= 2 => k = 0 \/ k = 1 \/ k = 2
    OBVIOUS
  <2> QED BY <1>1, <2>1
<1>10. Head(rest) < EscapeChr /\ (Len(got) = 2 => Head(rest) <= DataMax)
  <2>1. CASE Len(got) = 0
    BY <1>3, <1>8, <2>1
  <2>2. CASE Len(got) = 1
    BY <1>3, <1>8, <2>2
  <2>3. CASE Len(got) = 2
    BY <1>3, <1>8, <2>3
  <2> QED BY <1>9, <2>1, <2>2, <2>3
<1> QED BY <1>6, <1>10

LEMMA StoreReads ==
    ASSUME TypeInv, NEW rest \in Seq(Byte), rest # <<>>, got \o rest = Content(msg),
           Len(got) >= 3, Store(Head(rest)), rx' = Unread(Tail(rest)), msg' = msg
    PROVE  Reading(Tail(rest))'
<1> DEFINE read == Append(got, Head(rest))
           t == Tail(rest)
<1>1. read \in Seq(Byte) /\ t \in Seq(Byte) /\ read \o t = Content(msg)
  BY ReadOn
<1>2. msg \in Messages /\ got \in Seq(Byte) /\ Len(got) \in Nat
  BY DEF TypeInv, SenderOK, ReadOK
<1>3. Len(read) = Len(got) + 1 /\ read[3] = got[3]
  <2>1. Head(rest) \in Byte
    BY TailType
  <2> QED BY <1>2, <2>1
<1>4. Len(read) \in Nat /\ Len(t) \in Nat
  BY <1>1
<1> HIDE DEF read, t
<1>5. /\ Len(read \o t) = Len(read) + Len(t)
      /\ \A i \in 1 .. Len(read) + Len(t) :
             (read \o t)[i] = IF i <= Len(read) THEN read[i] ELSE t[i - Len(read)]
  BY <1>1, ConcatProperties
<1>6. (read \o t)[3] = read[3]
  BY <1>2, <1>3, <1>4, <1>5
<1>7. Len(read) + Len(t) = 5 + got[3]
  BY <1>1, <1>2, <1>3, <1>5, <1>6, ContentType
<1>8. CASE Len(read) < 5 + got[3] /\ got' = read /\ pc' = "body"
  <2>1. t # <<>>
    <3>1. Len(t) # 0
      BY <1>4, <1>7, <1>8
    <3> QED BY <3>1
  <2>2. Len(got') >= 3 /\ got' \o t = Content(msg')
    <3>1. \A k \in Nat : k >= 3 => k + 1 >= 3
      OBVIOUS
    <3>2. Len(read) >= 3
      BY <1>2, <1>3, <3>1
    <3> QED BY <1>1, <1>8, <3>2
  <2>3. rx' = Unread(t)
    BY DEF t
  <2> QED BY <1>8, <2>1, <2>2, <2>3 DEF Reading, t
<1>9. CASE Len(read) = 5 + got[3]
  <2>1. t = <<>>
    <3>1. Len(t) = 0
      BY <1>3, <1>4, <1>7, <1>9, <1>2
    <3> QED BY <1>1, <3>1
  <2>2. read = Content(msg)
    BY <1>1, <2>1, ConcatEmptySeq
  <2>3. got' = read /\ pc' = "end"
    <3>1. ~(Len(read) < 5 + got[3])
      BY <1>4, <1>9
    <3>2. /\ Len(read) < 5 + got[3] => FALSE
          /\ (\A m \in Messages : read # Content(m)) => FALSE
      BY <1>2, <2>2, <3>1
    <3> QED BY <3>2 DEF Store, read
  <2>4. rx' = Unread(t) /\ got' \o t = Content(msg')
    BY <1>1, <2>3 DEF t
  <2> QED BY <2>1, <2>3, <2>4 DEF Reading, t
<1> QED BY <1>8, <1>9 DEF Store, read

\* One lemma for each action of the main loop, and two for the sender.
LEMMA SendQuiet ==
    ASSUME TypeInv, Waiting, SendFrame
    PROVE  Arriving'
<1>1. msg' \in Messages /\ wire' = Frame(msg') /\ whole' = TRUE /\ rx' = <<>> /\ owed' = <<>>
  BY DEF SendFrame, Waiting
<1>2. Frame(msg') \in Seq(Byte) /\ Frame(msg') # <<>>
  BY <1>1, FrameType
<1>3. <<>> \o Frame(msg') = Frame(msg')
  BY <1>2, ConcatEmptySeq
<1>4. Outside'
  BY DEF SendFrame, Waiting, Outside
<1> QED BY <1>1, <1>2, <1>3, <1>4 DEF Arriving

LEMMA ArriveQuiet ==
    ASSUME TypeInv, Fits, Arriving, ByteArrives
    PROVE  Arriving' \/ Arrived'
<1>1. /\ rx \in Seq(Byte) /\ wire \in Seq(Byte) /\ wire # <<>> /\ msg \in Messages
      /\ rx \o wire = Frame(msg) /\ owed = <<>> /\ whole
  BY DEF TypeInv, SenderOK, FifoOK, Arriving
<1>2. Len(rx) < Size
  <2>1. Len(rx) < Len(Frame(msg)) /\ Len(Frame(msg)) < Size
    BY <1>1, PartIsNoFrame DEF Fits
  <2>2. Len(rx) \in Nat /\ Len(Frame(msg)) \in Nat /\ Size \in Nat
    BY <1>1, FrameType, FramingAssumption
  <2> QED BY <2>1, <2>2
<1>3. /\ rx' = Append(rx, Head(wire)) /\ wire' = Tail(wire) /\ msg' = msg /\ whole' = whole
      /\ owed' = IF wire' = <<>> THEN Append(owed, msg) ELSE owed
  BY <1>1, <1>2 DEF ByteArrives, Received
<1>4. rx' \in Seq(Byte) /\ rx' \o wire' = Frame(msg')
  BY <1>1, <1>3, MovesOver
<1>5. Outside'
  BY DEF ByteArrives, Arriving, Outside
<1>6. CASE wire' # <<>>
  BY <1>1, <1>3, <1>4, <1>5, <1>6 DEF Arriving
<1>7. CASE wire' = <<>>
  <2>1. rx' \o wire' = rx'
    BY <1>4, <1>7, ConcatEmptySeq
  <2>2. owed' = <<msg'>>
    <3>1. Append(<<>>, msg) = <<msg>>
      OBVIOUS
    <3> QED BY <1>1, <1>3, <1>7, <3>1
  <2>3. rx' = Frame(msg')
    BY <1>4, <2>1
  <2> QED BY <1>5, <1>7, <2>2, <2>3 DEF Arrived, Outside
<1> QED BY <1>6, <1>7

\* What comes next in the fifo is c, and q is left of it.
LEMMA NextOut ==
    ASSUME NEW c \in Byte, NEW q \in Seq(Byte), rx = <<c>> \o q
    PROVE  ~NoData /\ \A chr : Get(chr) => chr = c /\ rx' = q
<1>1. rx # <<>> /\ Head(rx) = c /\ Tail(rx) = q
  BY FrontOf
<1> QED BY <1>1 DEF NoData, Get

LEMMA ScanQuiet ==
    ASSUME TypeInv, Waiting \/ Arriving \/ Arrived, Scan
    PROVE  Waiting' \/ Arriving' \/ Arrived'
<1>1. UNCHANGED <<wire, msg, whole, rx, got, owed>> /\ pc = "scan"
  BY DEF Scan, Idle, sender
<1>2. CASE Waiting
  <2>1. pc' = "flood"
    BY <1>2, EmptyIsNoFrame DEF Scan, Waiting
  <2> QED BY <1>1, <1>2, <2>1 DEF Waiting, Outside
<1>3. CASE Arriving
  <2>1. pc' = "flood"
    BY <1>3, PartIsNoFrame DEF Scan
  <2> QED BY <1>1, <1>3, <2>1 DEF Arriving, Outside
<1>4. CASE Arrived
  <2>1. rx = Frame(msg) /\ Outside
    BY <1>1, <1>4 DEF Arrived, Parsing, Reading, Outside
  <2>2. pc' = "seek"
    BY <2>1, FrameMarks DEF Scan, TypeInv, SenderOK
  <2> QED BY <1>1, <1>4, <2>1, <2>2 DEF Arrived, Outside
<1> QED BY <1>2, <1>3, <1>4

LEMMA FloodQuiet ==
    ASSUME TypeInv, Fits, Waiting \/ Arriving \/ Arrived, FloodTest
    PROVE  Waiting' \/ Arriving' \/ Arrived'
<1>1. UNCHANGED <<wire, msg, whole, rx, got, owed>> /\ pc = "flood"
  BY DEF FloodTest, Idle, sender
<1>2. msg \in Messages /\ Len(Frame(msg)) < Size /\ Len(Frame(msg)) \in Nat /\ Size \in Nat
  BY FrameType, FramingAssumption DEF TypeInv, SenderOK, Fits
<1>3. Len(rx) < Size
  <2>1. CASE Waiting
    <3>1. Len(rx) = 0
      BY <2>1 DEF Waiting
    <3> QED BY <1>2, <3>1
  <2>2. CASE Arriving
    <3>1. Len(rx) < Len(Frame(msg)) /\ Len(rx) \in Nat
      BY <2>2, PartIsNoFrame DEF TypeInv, FifoOK
    <3> QED BY <1>2, <3>1
  <2>3. CASE Arrived
    <3>1. rx = Frame(msg)
      BY <1>1, <2>3 DEF Arrived, Parsing, Reading, Outside
    <3> QED BY <1>2, <3>1
  <2> QED BY <2>1, <2>2, <2>3
<1>4. pc' = "scan"
  <2>1. Len(rx) # Size
    BY <1>2, <1>3 DEF TypeInv, FifoOK
  <2> QED BY <2>1 DEF FloodTest
<1>5. Outside'
  BY <1>1, <1>4 DEF Waiting, Arriving, Arrived, Parsing, Reading, Outside
<1>6. CASE Waiting
  BY <1>1, <1>5, <1>6 DEF Waiting
<1>7. CASE Arriving
  BY <1>1, <1>5, <1>7 DEF Arriving
<1>8. CASE Arrived
  <2>1. rx = Frame(msg)
    BY <1>1, <1>8 DEF Arrived, Parsing, Reading, Outside
  <2>2. wire' = <<>> /\ owed' = <<msg'>> /\ rx' = Frame(msg')
    BY <1>1, <1>8, <2>1 DEF Arrived
  <2> QED BY <1>5, <2>2 DEF Arrived, Outside
<1> QED BY <1>6, <1>7, <1>8

LEMMA SeekQuiet ==
    ASSUME TypeInv, Arrived, Seek
    PROVE  Arrived'
<1>1. UNCHANGED <<wire, msg, got, owed>> /\ pc = "seek"
  BY DEF Seek, Idle, sender
<1>2. rx = Frame(msg) /\ got = <<>> /\ msg \in Messages
  BY <1>1 DEF Arrived, Parsing, Reading, Outside, TypeInv, SenderOK
<1> DEFINE q == Unread(<<Version>> \o Content(msg))
<1>3. rx = <<Start>> \o q /\ q \in Seq(Byte) /\ Start \in Byte
  BY <1>2, FrameType, UnreadType, MarksApart
<1> HIDE DEF q
<1>4. ~NoData /\ \A chr : Get(chr) => chr = Start /\ rx' = q
  BY <1>3, NextOut
<1>5. pc' = "version" /\ rx' = q
  BY <1>4 DEF Seek
<1> QED BY <1>1, <1>2, <1>5 DEF Arrived, Parsing, q

LEMMA VersionParses ==
    ASSUME TypeInv, Parsing, GetVersion
    PROVE  Parsing' /\ UNCHANGED <<wire, msg, owed>>
<1>1. UNCHANGED <<wire, msg, owed>> /\ pc = "version"
  BY DEF GetVersion, Idle, sender
<1>2. rx = Unread(<<Version>> \o Content(msg)) /\ got = <<>> /\ msg \in Messages
  BY <1>1 DEF Parsing, Reading, TypeInv, SenderOK
<1>3. Content(msg) \in Seq(Byte) /\ Version \in Byte /\ Version < EscapeChr
  BY <1>2, ContentType, FramingAssumption DEF Byte, Start
<1> DEFINE s == <<Version>> \o Content(msg)
<1>4. s \in Seq(Byte) /\ s # <<>> /\ Head(s) = Version /\ Tail(s) = Content(msg)
  BY <1>3, FrontOf
<1> HIDE DEF s
<1>5. Unread(s) = <<Version>> \o Unread(Content(msg)) /\ Unread(Content(msg)) \in Seq(Byte)
  BY <1>3, <1>4, UnreadPlain, UnreadType
<1>6. ~NoData /\ \A chr : Get(chr) => chr = Version /\ rx' = Unread(Content(msg))
  BY <1>2, <1>3, <1>5, NextOut DEF s
<1>7. pc' = "head" /\ got' = <<>> /\ rx' = Unread(Content(msg))
  BY <1>2, <1>6 DEF GetVersion
<1>8. <<>> \o Content(msg) = Content(msg) /\ Len(<<>>) = 0
  BY <1>3, ConcatEmptySeq
<1>9. Reading(Content(msg))'
  BY <1>1, <1>7, <1>8 DEF Reading
<1>10. \E rest \in Seq(Byte) : Reading(rest)'
  BY <1>3, <1>9, <1>1
<1> QED BY <1>1, <1>10 DEF Parsing

LEMMA HeadParses ==
    ASSUME TypeInv, Parsing, GetHead
    PROVE  Parsing' /\ UNCHANGED <<wire, msg, owed>>
<1>1. UNCHANGED <<wire, msg, owed>> /\ pc = "head"
  BY DEF GetHead, Idle, sender
<1>2. PICK rest \in Seq(Byte) : Reading(rest)
  BY <1>1 DEF Parsing
<1>3. got \o rest = Content(msg) /\ Len(got) <= 2 /\ rx = Unread(rest) /\ got \in Seq(Byte)
  BY <1>1, <1>2 DEF Reading, TypeInv, ReadOK
<1>4. rest # <<>> /\ Head(rest) < EscapeChr /\ (Len(got) = 2 => Head(rest) <= DataMax)
  BY <1>3, HeadIsPlain
<1> DEFINE c == Head(rest)
           t == Tail(rest)
<1>5. /\ c \in Byte /\ t \in Seq(Byte) /\ Append(got, c) \in Seq(Byte)
      /\ Append(got, c) \o t = Content(msg)
  BY <1>3, <1>4, ReadOn
<1>6. rx = <<c>> \o Unread(t) /\ Unread(t) \in Seq(Byte)
  BY <1>3, <1>4, <1>5, UnreadPlain, UnreadType
<1> HIDE DEF c, t
<1>7. ~NoData /\ \A chr : Get(chr) => chr = c /\ rx' = Unread(t)
  BY <1>5, <1>6, NextOut
<1>8. Len(Append(got, c)) = Len(got) + 1 /\ Len(got) \in Nat
  BY <1>3, <1>5
<1>9. CASE Len(got) < 2
  <2>1. got' = Append(got, c) /\ pc' = "head" /\ rx' = Unread(t)
    <3>1. Len(got) # 2
      <4>1. \A k \in Nat : k < 2 => k # 2
        OBVIOUS
      <4> QED BY <1>8, <1>9, <4>1
    <3> QED BY <1>7, <3>1 DEF GetHead
  <2>2. Len(got') <= 2
    BY <1>8, <1>9, <2>1
  <2>3. Reading(t)'
    BY <1>1, <1>5, <2>1, <2>2 DEF Reading
  <2> QED BY <1>1, <1>5, <2>3 DEF Parsing
<1>10. CASE Len(got) = 2
  <2>1. c <= DataMax /\ ~(c > DataMax)
    BY <1>4, <1>5, <1>10, FramingAssumption DEF c, Byte
  <2>2. got' = Append(got, c) /\ pc' = "body" /\ rx' = Unread(t)
    BY <1>7, <1>10, <2>1 DEF GetHead
  <2>3. Len(got') = 3
    BY <1>8, <1>10, <2>2
  <2>4. t # <<>>
    <3>1. Append(got, c) \o <<>> = Append(got, c)
      BY <1>5, ConcatEmptySeq
    <3>2. Len(Content(msg)) = 5 + Len(msg.data) /\ Len(msg.data) \in Nat
      BY ContentType, MessageType DEF TypeInv, SenderOK
    <3> QED BY <1>5, <2>2, <2>3, <3>1, <3>2
  <2>5. Reading(t)'
    BY <1>1, <1>5, <2>2, <2>3, <2>4 DEF Reading
  <2> QED BY <1>1, <1>5, <2>5 DEF Parsing
<1>11. Len(got) < 2 \/ Len(got) = 2
  <2>1. \A k \in Nat : k <= 2 => k < 2 \/ k = 2
    OBVIOUS
  <2> QED BY <1>3, <1>8, <2>1
<1> QED BY <1>9, <1>10, <1>11

LEMMA BodyParses ==
    ASSUME TypeInv, Parsing, GetBody
    PROVE  Parsing' /\ UNCHANGED <<wire, msg, owed>>
<1>1. UNCHANGED <<wire, msg, owed>> /\ pc = "body"
  BY DEF GetBody, Idle, sender
<1>2. PICK rest \in Seq(Byte) : Reading(rest)
  BY <1>1 DEF Parsing
<1>3. got \o rest = Content(msg) /\ Len(got) >= 3 /\ rest # <<>> /\ rx = Unread(rest)
  BY <1>1, <1>2 DEF Reading
<1> DEFINE c == Head(rest)
           t == Tail(rest)
<1>4. c \in Byte /\ t \in Seq(Byte) /\ Unread(t) \in Seq(Byte) /\ c \in Int /\ EscapeChr \in Int
  <2>1. c \in Byte /\ t \in Seq(Byte) /\ Unread(t) \in Seq(Byte)
    BY <1>3, TailType, UnreadType
  <2>2. EscapeChr \in Int /\ \A k \in Byte : k \in Int
    BY FramingAssumption DEF Byte
  <2> QED BY <2>1, <2>2
<1>5. CASE c < EscapeChr
  <2>1. rx = <<c>> \o Unread(t)
    BY <1>3, <1>5, UnreadPlain
  <2> HIDE DEF c, t
  <2>2. ~NoData /\ \A chr : Get(chr) => chr = c /\ rx' = Unread(t)
    BY <1>4, <2>1, NextOut
  <2>3. c # EscapeChr /\ c \notin EscapeChr + 1 .. Start
    BY <1>4, <1>5
  <2>4. Store(c) /\ rx' = Unread(t)
    BY <2>2, <2>3 DEF GetBody
  <2>5. Reading(t)'
    BY <1>1, <1>3, <2>4, StoreReads DEF c, t
  <2> QED BY <1>1, <1>4, <2>5 DEF Parsing
<1>6. CASE c >= EscapeChr
  <2> DEFINE q == <<c - EscapeChr>> \o Unread(t)
  <2>1. rx = <<EscapeChr>> \o q /\ c - EscapeChr \in Byte
    <3>1. rx = <<EscapeChr>> \o q /\ c - EscapeChr \in 0 .. EscapeMax
      BY <1>3, <1>6, UnreadEscaped
    <3>2. \A k \in 0 .. EscapeMax : k \in Byte
      BY FramingAssumption DEF Byte, Start
    <3> QED BY <3>1, <3>2
  <2>2. q \in Seq(Byte) /\ EscapeChr \in Byte
    BY <1>4, <2>1, FrontOf, MarksApart
  <2> HIDE DEF q
  <2>3. ~NoData /\ \A chr : Get(chr) => chr = EscapeChr /\ rx' = q
    BY <2>1, <2>2, NextOut
  <2>4. EscapeChr \notin 0 .. EscapeChr - 1 /\ EscapeChr \notin EscapeChr + 1 .. Start
    BY <1>4
  <2>5. pc' = "escaped" /\ got' = got /\ rx' = q
    BY <2>3, <2>4 DEF GetBody
  <2>6. Reading(rest)'
    BY <1>1, <1>3, <1>6, <2>5 DEF Reading, q
  <2> QED BY <1>1, <2>6 DEF Parsing
<1> QED BY <1>4, <1>5, <1>6

LEMMA EscapedParses ==
    ASSUME TypeInv, Parsing, GetEscaped
    PROVE  Parsing' /\ UNCHANGED <<wire, msg, owed>>
<1>1. UNCHANGED <<wire, msg, owed>> /\ pc = "escaped"
  BY DEF GetEscaped, Idle, sender
<1>2. PICK rest \in Seq(Byte) : Reading(rest)
  BY <1>1 DEF Parsing
<1> DEFINE c == Head(rest)
           t == Tail(rest)
           e == Head(rest) - EscapeChr
<1>3. /\ got \o rest = Content(msg) /\ Len(got) >= 3 /\ rest # <<>>
      /\ c >= EscapeChr /\ rx = <<e>> \o Unread(t)
  BY <1>1, <1>2 DEF Reading
<1>4. e \in 0 .. EscapeMax /\ t \in Seq(Byte) /\ c \in Byte
  BY <1>3, UnreadEscaped, TailType
<1>5. e \in Byte /\ Unread(t) \in Seq(Byte) /\ e + EscapeChr = c
      /\ e \notin EscapeMax + 1 .. Start
  <2>1. Unread(t) \in Seq(Byte)
    BY <1>4, UnreadType
  <2>2. e \in Byte /\ e \notin EscapeMax + 1 .. Start
    BY <1>4, FramingAssumption DEF Byte, Start
  <2>3. \A k \in Byte : (k - EscapeChr) + EscapeChr = k
    BY FramingAssumption DEF Byte
  <2> QED BY <1>4, <2>1, <2>2, <2>3
<1> HIDE DEF c, t, e
<1>6. ~NoData /\ \A chr : Get(chr) => chr = e /\ rx' = Unread(t)
  BY <1>3, <1>5, NextOut
<1>7. Store(e + EscapeChr) /\ rx' = Unread(t)
  BY <1>5, <1>6 DEF GetEscaped
<1>8. Store(Head(rest)) /\ rx' = Unread(Tail(rest))
  BY <1>5, <1>7 DEF c, t
<1>9. Reading(Tail(rest))'
  BY <1>1, <1>3, <1>8, StoreReads
<1> QED BY <1>1, <1>4, <1>9 DEF Parsing, t

\* The message goes to its handler.
LEMMA EndParses ==
    ASSUME TypeInv, Parsing, GetEnd
    PROVE  owed' = After(msg) /\ rx' = <<>> /\ Restart /\ UNCHANGED <<wire, msg>>
<1>1. UNCHANGED <<wire, msg>> /\ pc = "end"
  BY DEF GetEnd, Idle, sender
<1>2. PICK rest \in Seq(Byte) : Reading(rest)
  BY <1>1 DEF Parsing
<1>3. got \o rest = Content(msg) /\ rest = <<>> /\ rx = Unread(rest) /\ got \in Seq(Byte)
      /\ msg \in Messages
  BY <1>1, <1>2 DEF Reading, TypeInv, ReadOK, SenderOK
<1>4. got = Content(msg)
  BY <1>3, ConcatEmptySeq
<1>5. rx = <<End>> /\ <<End>> = <<End>> \o <<>> /\ End \in Byte /\ <<>> \in Seq(Byte)
  BY <1>3, UnreadEnd, MarksApart, EmptySeq
<1>6. ~NoData /\ \A chr : Get(chr) => chr = End /\ rx' = <<>>
  BY <1>5, NextOut
<1> DEFINE k == CHOOSE m \in Messages : got = Content(m)
<1>7. k \in Messages /\ got = Content(k)
  BY <1>3, <1>4
<1>8. k = msg
  BY <1>3, <1>4, <1>7, ContentTells
<1> HIDE DEF k
<1>9. owed' = After(k) /\ Restart /\ rx' = <<>>
  BY <1>6 DEF GetEnd, k
<1> QED BY <1>1, <1>8, <1>9

LEMMA AfterOnly ==
    ASSUME owed = <<msg>>
    PROVE  After(msg) = <<>>
<1> DEFINE first == CHOOSE i \in DOMAIN owed :
                        owed[i] = msg /\ \A j \in 1 .. i - 1 : owed[j] # msg
<1>1. DOMAIN owed = {1} /\ Len(owed) = 1 /\ owed[1] = msg
  OBVIOUS
<1>2. 1 \in DOMAIN owed /\ owed[1] = msg /\ \A j \in 1 .. 1 - 1 : owed[j] # msg
  BY <1>1
<1>3. first \in DOMAIN owed
  BY <1>2
<1>4. After(msg) = SubSeq(owed, first + 1, Len(owed))
  BY <1>1 DEF After
<1> HIDE DEF first
<1>5. first + 1 = 2 /\ Len(owed) = 1
  BY <1>1, <1>3
<1>6. SubSeq(owed, 2, 1) = <<>>
  BY SubSeqEmpty
<1> QED BY <1>4, <1>5, <1>6

\* Nothing is owed then.
LEMMA ParsingQuiet ==
    ASSUME TypeInv, Arrived, GetVersion \/ GetHead \/ GetBody \/ GetEscaped \/ GetEnd
    PROVE  Waiting' \/ Arrived'
<1>1. wire = <<>> /\ owed = <<msg>> /\ Parsing
  BY DEF Arrived, GetVersion, GetHead, GetBody, GetEscaped, GetEnd
<1>2. CASE GetVersion \/ GetHead \/ GetBody \/ GetEscaped
  <2>1. Parsing' /\ UNCHANGED <<wire, msg, owed>>
    BY <1>1, <1>2, VersionParses, HeadParses, BodyParses, EscapedParses
  <2> QED BY <1>1, <2>1 DEF Arrived
<1>3. CASE GetEnd
  <2>1. owed' = <<>> /\ rx' = <<>> /\ Restart /\ UNCHANGED <<wire, msg>>
    BY <1>1, <1>3, EndParses, AfterOnly
  <2> QED BY <1>1, <2>1 DEF Waiting, Outside, Restart
<1> QED BY <1>2, <1>3

LEMMA QuietStep == TypeInv /\ Fits /\ QuietInv /\ [Next]_vars => QuietInv'
<1> SUFFICES ASSUME TypeInv, Fits, QuietInv, [Next]_vars, noise' = 0
             PROVE  Waiting' \/ Arriving' \/ Arrived'
  BY DEF QuietInv
<1>1. noise \in Nat
  BY FramingAssumption DEF TypeInv, SenderOK
<1>2. ~Disturb
  BY <1>1 DEF Disturb
<1>3. noise = 0
  <2>1. noise' = noise
    BY <1>2 DEF Next, SendFrame, ByteArrives, ByteSpoiled, FrameCut, StrayByte, Main, Idle,
                Scan, FloodTest, ClearGarbage, Seek, GetVersion, GetHead, GetBody,
                GetEscaped, GetEnd, vars
  <2> QED BY <2>1
<1>4. Waiting \/ Arriving \/ Arrived
  BY <1>3 DEF QuietInv
<1>5. /\ Waiting \/ Arriving => pc \in {"scan", "flood"}
      /\ Waiting \/ Arrived => wire = <<>>
      /\ pc # "clear"
  BY <1>4 DEF Waiting, Arriving, Arrived, Parsing, Outside, Reading
<1>6. CASE SendFrame
  <2>1. Waiting
    <3>1. wire = <<>> /\ pc = "scan" /\ ~HoldsFrame(rx)
      BY <1>6 DEF SendFrame, Settled
    <3>2. ~Arriving
      BY <3>1 DEF Arriving
    <3>3. ~Arrived
      <4>1. HoldsFrame(Frame(msg))
        BY FrameMarks DEF TypeInv, SenderOK
      <4> QED BY <3>1, <4>1 DEF Arrived, Parsing, Reading
    <3> QED BY <1>4, <3>2, <3>3
  <2> QED BY <1>6, <2>1, SendQuiet
<1>7. CASE ByteArrives
  BY <1>4, <1>5, <1>7, ArriveQuiet DEF ByteArrives
<1>8. CASE ByteSpoiled \/ FrameCut \/ StrayByte
  BY <1>2, <1>8 DEF ByteSpoiled, FrameCut, StrayByte
<1>9. CASE Scan
  BY <1>4, <1>9, ScanQuiet
<1>10. CASE FloodTest
  BY <1>4, <1>10, FloodQuiet
<1>11. CASE ClearGarbage
  BY <1>5, <1>11 DEF ClearGarbage
<1>12. CASE Seek
  BY <1>4, <1>5, <1>12, SeekQuiet DEF Seek
<1>13. CASE GetVersion \/ GetHead \/ GetBody \/ GetEscaped \/ GetEnd
  <2>1. Arrived
    BY <1>4, <1>5, <1>13 DEF GetVersion, GetHead, GetBody, GetEscaped, GetEnd
  <2> QED BY <1>13, <2>1, ParsingQuiet
<1>14. CASE UNCHANGED vars
  BY <1>4, <1>14 DEF vars, sender, Waiting, Arriving, Arrived, Parsing, Outside, Reading
<1> QED BY <1>6, <1>7, <1>8, <1>9, <1>10, <1>11, <1>12, <1>13,
           <1>14 DEF Next, Main

LEMMA QuietFollows == TypeInv /\ QuietInv => AllHandled
<1> SUFFICES ASSUME TypeInv, QuietInv, noise = 0, Settled PROVE owed = <<>>
  BY DEF AllHandled
<1>1. Waiting \/ Arriving \/ Arrived
  BY DEF QuietInv
<1>2. pc = "scan" /\ ~HoldsFrame(rx)
  BY DEF Settled
<1>3. HoldsFrame(Frame(msg))
  BY FrameMarks DEF TypeInv, SenderOK
<1>4. ~Arrived
  BY <1>2, <1>3 DEF Arrived, Parsing, Reading
<1> QED BY <1>1, <1>4 DEF Waiting, Arriving

THEOREM FramingAllHandled ==
    ASSUME Fits
    PROVE  Spec => []AllHandled
<1>1. Init => TypeInv /\ QuietInv
  BY TypeInit DEF Init, QuietInv, Waiting, Outside
<1>2. TypeInv /\ QuietInv /\ [Next]_vars => (TypeInv /\ QuietInv)'
  BY TypeStep, QuietStep
<1>3. TypeInv /\ QuietInv => AllHandled
  BY QuietFollows
<1> QED BY <1>1, <1>2, <1>3, PTL DEF Spec

-----------------------------------------------------------------------------
(* Noise is overcome, as long as one and a half times a frame fits the fifo. *)
(* The invariant follows what is left in front of a frame, t, from one      *)
(* message owed to the next.  A fifo that holds no start is forgotten, one   *)
(* that runs full is cleared: what is left of a frame then is without a      *)
(* start, and too short to fill the fifo once more with the next frame.     *)
Room == \A m \in Messages : 3 * Len(Frame(m)) <= 2 * Size

NoStart(q) == \A i \in DOMAIN q : q[i] # Start

\* A third of it bounds the garbage before a frame when n messages are owed.
Bound(n) == IF n <= 1 THEN 2 * Size ELSE Size

Before(t, f, q) == t \in Seq(Byte) /\ q = t \o f

LEMMA SizeHasRoom ==
    ASSUME Room, NEW m \in Messages
    PROVE  /\ Size \in Nat /\ Size > 0 /\ Len(Frame(m)) \in Nat /\ Len(Frame(m)) >= 2
           /\ 3 * Len(Frame(m)) <= 2 * Size
<1>1. Len(Frame(m)) >= 2 /\ Len(Frame(m)) \in Nat
  BY FrameMarks, FrameType
<1>2. 3 * Len(Frame(m)) <= 2 * Size /\ Size \in Nat
  BY FramingAssumption DEF Room
<1> QED BY <1>1, <1>2

\* A sequence behind another.
LEMMA Behind ==
    ASSUME NEW T, NEW t \in Seq(T), NEW f \in Seq(T)
    PROVE  /\ t \o f \in Seq(T) /\ Len(t \o f) = Len(t) + Len(f)
           /\ Len(t) \in Nat /\ Len(f) \in Nat
           /\ \A i \in 1 .. Len(t) : (t \o f)[i] = t[i]
           /\ \A i \in 1 .. Len(f) : (t \o f)[Len(t) + i] = f[i]
<1>1. Len(t) \in Nat /\ Len(f) \in Nat
  OBVIOUS
<1>2. /\ t \o f \in Seq(T) /\ Len(t \o f) = Len(t) + Len(f)
      /\ \A i \in 1 .. Len(t) + Len(f) :
             (t \o f)[i] = IF i <= Len(t) THEN t[i] ELSE f[i - Len(t)]
  BY ConcatProperties
<1>3. ASSUME NEW i \in 1 .. Len(t) PROVE (t \o f)[i] = t[i]
  <2>1. i \in 1 .. Len(t) + Len(f) /\ i <= Len(t)
    BY <1>1
  <2> QED BY <1>2, <2>1
<1>4. ASSUME NEW i \in 1 .. Len(f) PROVE (t \o f)[Len(t) + i] = f[i]
  <2>1. Len(t) + i \in 1 .. Len(t) + Len(f) /\ ~(Len(t) + i <= Len(t)) /\ (Len(t) + i) - Len(t) = i
    BY <1>1
  <2> QED BY <1>2, <2>1
<1> QED BY <1>1, <1>2, <1>3, <1>4

LEMMA BehindTail ==
    ASSUME NEW T, NEW t \in Seq(T), NEW f \in Seq(T), t # <<>>
    PROVE  t \o f # <<>> /\ Head(t \o f) = Head(t) /\ Tail(t \o f) = Tail(t) \o f
<1> DEFINE c == Head(t)
           u == Tail(t)
<1>1. c \in T /\ u \in Seq(T)
  BY HeadTailProperties
<1>2. <<>> \in Seq(T)
  BY EmptySeq
<1>3. Append(<<>>, c) \o u = <<>> \o t
  BY <1>2, MovesOver
<1>4. <<>> \o t = t /\ Append(<<>>, c) = <<c>>
  BY ConcatEmptySeq
<1>5. t = <<c>> \o u
  BY <1>3, <1>4
<1> HIDE DEF c, u
<1>6. <<c>> \in Seq(T) /\ u \o f \in Seq(T)
  BY <1>1, ConcatProperties
<1>7. t \o f = <<c>> \o (u \o f)
  BY <1>1, <1>5, <1>6, Assoc
<1>8. Head(<<c>> \o (u \o f)) = c /\ Tail(<<c>> \o (u \o f)) = u \o f /\ <<c>> \o (u \o f) # <<>>
  BY <1>1, <1>6, FrontOf
<1> QED BY <1>7, <1>8 DEF c, u

\* Looking for a frame.
LEMMA HoldsBehind ==
    ASSUME NEW t \in Seq(Byte), NEW m \in Messages
    PROVE  HoldsFrame(t \o Frame(m))
<1> DEFINE f == Frame(m)
           q == t \o Frame(m)
<1>1. f \in Seq(Byte) /\ Len(f) >= 2 /\ f[1] = Start /\ f[Len(f)] = End
  BY FrameType, FrameMarks
<1>2. /\ q \in Seq(Byte) /\ Len(q) = Len(t) + Len(f) /\ Len(t) \in Nat /\ Len(f) \in Nat
      /\ \A i \in 1 .. Len(f) : q[Len(t) + i] = f[i]
  BY <1>1, Behind
<1> HIDE DEF f, q
<1>3. q[Len(t) + 1] = Start /\ q[Len(t) + Len(f)] = End
  BY <1>1, <1>2
<1>4. Len(t) + 1 \in DOMAIN q /\ Len(t) + Len(f) \in DOMAIN q /\ Len(t) + 1 < Len(t) + Len(f)
  BY <1>1, <1>2
<1> QED BY <1>3, <1>4 DEF HoldsFrame, q

LEMMA HoldsLess ==
    ASSUME NEW q \in Seq(Byte), NEW c \in Byte, c # End, ~HoldsFrame(q)
    PROVE  ~HoldsFrame(Append(q, c))
<1>1. /\ Append(q, c) \in Seq(Byte) /\ Len(Append(q, c)) = Len(q) + 1 /\ Len(q) \in Nat
      /\ Append(q, c)[Len(q) + 1] = c
      /\ \A i \in 1 .. Len(q) : Append(q, c)[i] = q[i]
  OBVIOUS
<1> SUFFICES ASSUME NEW i \in DOMAIN Append(q, c), NEW j \in DOMAIN Append(q, c), i < j,
                    Append(q, c)[i] = Start, Append(q, c)[j] = End
             PROVE  FALSE
  BY DEF HoldsFrame
<1>2. i \in 1 .. Len(q) + 1 /\ j \in 1 .. Len(q) + 1 /\ j # Len(q) + 1
  BY <1>1
<1>3. i \in 1 .. Len(q) /\ j \in 1 .. Len(q)
  BY <1>1, <1>2
<1>4. q[i] = Start /\ q[j] = End /\ i \in DOMAIN q /\ j \in DOMAIN q
  BY <1>1, <1>3
<1> QED BY <1>4 DEF HoldsFrame

\* Sequences without a start.
LEMMA NoStartHolds ==
    ASSUME NEW q, NoStart(q)
    PROVE  ~HoldsFrame(q)
BY DEF NoStart, HoldsFrame

LEMMA NoStartEmpty == NoStart(<<>>)
BY DEF NoStart

LEMMA NoStartTail ==
    ASSUME NEW q \in Seq(Byte), q # <<>>, NoStart(q)
    PROVE  NoStart(Tail(q)) /\ Head(q) # Start
<1>1. /\ Tail(q) \in Seq(Byte) /\ Len(Tail(q)) = Len(q) - 1 /\ Len(q) \in Nat
      /\ Head(q) = q[1] /\ 1 \in DOMAIN q
      /\ \A i \in 1 .. Len(Tail(q)) : Tail(q)[i] = q[i + 1]
  BY HeadTailProperties
<1>2. ASSUME NEW i \in DOMAIN Tail(q) PROVE Tail(q)[i] # Start
  <2>1. i \in 1 .. Len(Tail(q)) /\ i + 1 \in 1 .. Len(q)
    BY <1>1
  <2>2. Tail(q)[i] = q[i + 1] /\ i + 1 \in DOMAIN q
    BY <1>1, <2>1
  <2> QED BY <2>2 DEF NoStart
<1> QED BY <1>1, <1>2 DEF NoStart

LEMMA NoStartAppend ==
    ASSUME NEW q \in Seq(Byte), NoStart(q), NEW c \in Byte, c # Start
    PROVE  NoStart(Append(q, c))
<1>1. /\ Append(q, c) \in Seq(Byte) /\ Len(Append(q, c)) = Len(q) + 1 /\ Len(q) \in Nat
      /\ Append(q, c)[Len(q) + 1] = c
      /\ \A i \in 1 .. Len(q) : Append(q, c)[i] = q[i]
  OBVIOUS
<1>2. ASSUME NEW i \in DOMAIN Append(q, c) PROVE Append(q, c)[i] # Start
  <2>1. i \in 1 .. Len(q) \/ i = Len(q) + 1
    BY <1>1
  <2>2. CASE i \in 1 .. Len(q)
    BY <1>1, <2>2 DEF NoStart
  <2>3. CASE i = Len(q) + 1
    BY <1>1, <2>3
  <2> QED BY <2>1, <2>2, <2>3
<1> QED BY <1>2 DEF NoStart

\* All of a frame but its first byte.
LEMMA FrameRest ==
    ASSUME NEW m \in Messages
    PROVE  /\ Tail(Frame(m)) \in Seq(Byte) /\ NoStart(Tail(Frame(m)))
           /\ Len(Tail(Frame(m))) = Len(Frame(m)) - 1
           /\ Head(Frame(m)) = Start
<1> DEFINE f == Frame(m)
<1>1. /\ f \in Seq(Byte) /\ f # <<>> /\ f[1] = Start
      /\ \A j \in 2 .. Len(f) : f[j] # Start
  BY FrameType, FrameMarks
<1> HIDE DEF f
<1>2. /\ Tail(f) \in Seq(Byte) /\ Len(Tail(f)) = Len(f) - 1 /\ Len(f) \in Nat
      /\ Head(f) = f[1]
      /\ \A i \in 1 .. Len(Tail(f)) : Tail(f)[i] = f[i + 1]
  <2>1. Tail(f) \in Seq(Byte) /\ Len(Tail(f)) = Len(f) - 1 /\ Len(f) \in Nat
    BY <1>1, HeadTailProperties
  <2>2. Head(f) = f[1]
    BY <1>1
  <2>3. \A i \in 1 .. Len(Tail(f)) : Tail(f)[i] = f[i + 1]
    BY <1>1, <2>1
  <2> QED BY <2>1, <2>2, <2>3
<1>3. ASSUME NEW i \in DOMAIN Tail(f) PROVE Tail(f)[i] # Start
  <2>1. i \in 1 .. Len(Tail(f)) /\ i + 1 \in 2 .. Len(f)
    BY <1>2
  <2> QED BY <1>1, <1>2, <2>1
<1> QED BY <1>1, <1>2, <1>3 DEF NoStart, f

LEMMA BehindBytes ==
    ASSUME NEW p \in Seq(Byte), NEW q \in Seq(Byte)
    PROVE  /\ Len(p \o q) = Len(p) + Len(q) /\ Len(p) \in Nat /\ Len(q) \in Nat
           /\ \A i \in 1 .. Len(q) : (p \o q)[Len(p) + i] = q[i]
<1> QED BY Behind

\* The end of a frame that has begun to come.
LEMMA Remainder ==
    ASSUME NEW m \in Messages, NEW t \in Seq(Byte), NEW p \in Seq(Byte), NEW q \in Seq(Byte),
           p \o q = t \o Frame(m), Len(t) <= Len(p)
    PROVE  /\ Len(p) + Len(q) = Len(t) + Len(Frame(m))
           /\ Len(q) >= 1 /\ Len(t) < Len(p) => NoStart(q)
           /\ q # <<>> => NoStart(Tail(q))
           /\ Len(q) >= 2 => Head(q) # End
<1> DEFINE f == Frame(m)
           k == Len(p) - Len(t)
<1>1. /\ f \in Seq(Byte) /\ Len(f) >= 2
      /\ \A j \in 2 .. Len(f) : f[j] # Start
      /\ \A j \in 1 .. Len(f) - 1 : f[j] # End
  BY FrameType, FrameMarks
<1>2. p \o q = t \o f
  OBVIOUS
<1> HIDE DEF f
<1>3. /\ Len(t \o f) = Len(t) + Len(f) /\ Len(t) \in Nat /\ Len(f) \in Nat
      /\ \A i \in 1 .. Len(f) : (t \o f)[Len(t) + i] = f[i]
  BY <1>1, Behind
<1>4. /\ Len(p \o q) = Len(p) + Len(q) /\ Len(p) \in Nat /\ Len(q) \in Nat
      /\ \A i \in 1 .. Len(q) : (p \o q)[Len(p) + i] = q[i]
  BY BehindBytes
<1>5. Len(p) + Len(q) = Len(t) + Len(f) /\ k \in Nat
  BY <1>2, <1>3, <1>4
<1>6. ASSUME NEW i \in 1 .. Len(q) PROVE q[i] = f[k + i] /\ k + i \in 1 .. Len(f)
  <2>1. k + i \in 1 .. Len(f) /\ Len(t) + (k + i) = Len(p) + i
    BY <1>3, <1>4, <1>5
  <2> QED BY <1>2, <1>3, <1>4, <2>1
<1> HIDE DEF k
<1>7. ASSUME Len(t) < Len(p) PROVE NoStart(q)
  <2>1. k >= 1
    BY <1>3, <1>4, <1>7 DEF k
  <2>2. ASSUME NEW i \in DOMAIN q PROVE q[i] # Start
    <3>1. i \in 1 .. Len(q) /\ k + i \in 2 .. Len(f)
      BY <1>3, <1>4, <1>5, <1>6, <2>1
    <3> QED BY <1>1, <1>6, <3>1
  <2> QED BY <2>2 DEF NoStart
<1>8. ASSUME q # <<>> PROVE NoStart(Tail(q))
  <2>1. /\ Tail(q) \in Seq(Byte) /\ Len(Tail(q)) = Len(q) - 1
        /\ \A i \in 1 .. Len(Tail(q)) : Tail(q)[i] = q[i + 1]
    BY <1>8, HeadTailProperties
  <2>2. ASSUME NEW i \in DOMAIN Tail(q) PROVE Tail(q)[i] # Start
    <3>1. i \in 1 .. Len(Tail(q)) /\ i + 1 \in 1 .. Len(q) /\ k + (i + 1) >= 2
      BY <1>4, <1>5, <2>1
    <3>2. q[i + 1] = f[k + (i + 1)] /\ k + (i + 1) \in 1 .. Len(f)
      BY <1>6, <3>1
    <3>3. k + (i + 1) \in 2 .. Len(f)
      BY <1>3, <3>1, <3>2
    <3> QED BY <1>1, <2>1, <3>1, <3>2, <3>3
  <2> QED BY <2>2 DEF NoStart
<1>9. ASSUME Len(q) >= 2 PROVE Head(q) # End
  <2>1. 1 \in 1 .. Len(q) /\ q # <<>> /\ Head(q) = q[1]
    BY <1>4, <1>9
  <2>2. q[1] = f[k + 1] /\ k + 1 \in 1 .. Len(f) - 1
    <3>1. q[1] = f[k + 1]
      BY <1>6, <2>1
    <3>2. k + Len(q) = Len(f)
      BY <1>3, <1>4, <1>5 DEF k
    <3> QED BY <1>3, <1>4, <1>5, <1>9, <3>1, <3>2
  <2> QED BY <1>1, <2>1, <2>2
<1> QED BY <1>5, <1>7, <1>8, <1>9 DEF f

\* Nothing is owed and nothing that counts is under way.
Forgotten == owed = <<>> /\ ~(wire # <<>> /\ whole)

\* A little without a start is left.
Remains == /\ wire = <<>> /\ NoStart(rx)
           /\ Len(owed) <= 2 /\ 3 * Len(rx) < Bound(Len(owed))

\* The main loop finds no frame.
Looking == /\ pc \in {"scan", "flood", "clear"} /\ got = <<>>
           /\ pc = "clear" => Len(rx) = Size
           /\ ~HoldsFrame(rx)

\* A frame comes in behind t ...
ComingBehind(t) ==
    /\ Before(t, Frame(msg), rx \o wire) /\ Len(t) <= Len(rx) /\ Len(t) < Size
    /\ owed # <<>> => NoStart(t) /\ 3 * Len(t) < Bound(Len(owed))

ComingWhole == /\ wire # <<>> /\ whole /\ Len(owed) <= 2 /\ Looking
               /\ \E t \in Seq(Byte) : ComingBehind(t)

\* ... or the rest of one whose start was cleared, or is in a full fifo.
ComingPart ==
    /\ wire # <<>> /\ whole /\ Len(owed) <= 1 /\ Looking /\ NoStart(wire)
    /\ \/ Len(rx) = Size /\ 3 * Len(wire) < Bound(Len(owed) + 1)
       \/ NoStart(rx) /\ 3 * (Len(rx) + Len(wire)) < Bound(Len(owed) + 1)

\* All of it has come: to a full fifo,
Full == wire = <<>> /\ Len(owed) <= 2 /\ Looking /\ Len(rx) = Size

\* as the first that is owed, whatever parse_message was about,
First == wire = <<>> /\ owed = <<msg>> /\ \E t \in Seq(Byte) : Before(t, Frame(msg), rx)

\* as a later one, which is going to be read,
Later == /\ wire = <<>> /\ Len(owed) \in {2, 3} /\ owed[Len(owed)] = msg
         /\ \E t \in Seq(Byte) : Before(t, Frame(msg), rx) /\ NoStart(t)
         /\ pc \in {"scan", "flood", "clear", "seek"} /\ got = <<>>
         /\ Len(owed) = 3 => Len(rx) < Size
         /\ pc = "clear" => Len(rx) = Size

\* and is read.
Read == /\ wire = <<>> /\ Len(owed) <= 3 /\ (\E i \in DOMAIN owed : owed[i] = msg)
        /\ Parsing

RecoverInv == \/ Forgotten \/ Remains \/ ComingWhole \/ ComingPart
              \/ Full \/ First \/ Later \/ Read

\* What is owed gets less when a message that is owed is taken in.
LEMMA AfterLen ==
    ASSUME OwedOK, NEW m
    PROVE  /\ Len(After(m)) \in Nat /\ Len(owed) \in Nat /\ Len(After(m)) <= Len(owed)
           /\ (\E i \in DOMAIN owed : owed[i] = m) => Len(After(m)) < Len(owed)
           /\ (~ \E i \in DOMAIN owed : owed[i] = m) => After(m) = owed
<1>1. owed \in Seq(Messages) /\ Len(owed) \in Nat /\ DOMAIN owed = 1 .. Len(owed)
  BY DEF OwedOK
<1>2. CASE \E i \in DOMAIN owed : owed[i] = m
  <2> DEFINE T == {i \in Nat : i \in DOMAIN owed /\ owed[i] = m}
             first == CHOOSE i \in DOMAIN owed :
                          owed[i] = m /\ \A j \in 1 .. i - 1 : owed[j] # m
  <2>1. PICK i \in T : \A k \in T : i <= k
    <3>1. T \in SUBSET Nat /\ T # {}
      BY <1>1, <1>2
    <3> HIDE DEF T
    <3> QED BY <3>1, LeastNatural
  <2>2. i \in DOMAIN owed /\ owed[i] = m /\ \A j \in 1 .. i - 1 : owed[j] # m
    <3>1. ASSUME NEW j \in 1 .. i - 1, owed[j] = m PROVE FALSE
      <4>1. j \in T
        BY <1>1, <2>1, <3>1
      <4> QED BY <2>1, <4>1
    <3> QED BY <2>1, <3>1
  <2>3. first \in DOMAIN owed
    BY <2>2
  <2>4. After(m) = SubSeq(owed, first + 1, Len(owed))
    BY <1>2 DEF After
  <2> HIDE DEF first
  <2>5. first \in 1 .. Len(owed)
    BY <1>1, <2>3
  <2> DEFINE n == first + 1
  <2>6. n \in 1 .. Len(owed) + 1 /\ Len(owed) \in n - 1 .. Len(owed)
    BY <1>1, <2>5
  <2> HIDE DEF n
  <2>7. Len(SubSeq(owed, n, Len(owed))) = IF n <= Len(owed) THEN Len(owed) - n + 1 ELSE 0
    BY <1>1, <2>6, SubSeqProperties
  <2>8. Len(After(m)) \in Nat /\ Len(After(m)) < Len(owed)
    BY <1>1, <2>4, <2>5, <2>7 DEF n
  <2> QED BY <1>1, <1>2, <2>8
<1>3. CASE ~ \E i \in DOMAIN owed : owed[i] = m
  BY <1>1, <1>3 DEF After
<1> QED BY <1>2, <1>3

\* What a step of the main loop can do to the fifo and to what is owed.
Shrinks == /\ UNCHANGED sender
           /\ owed' = owed \/ \E k \in Messages : owed' = After(k)
           /\ \/ rx' = rx \/ (rx # <<>> /\ rx' = Tail(rx))
              \/ pc = "clear" /\ rx' = <<>>

LEMMA MainShrinks ==
    ASSUME TypeInv, Main
    PROVE  Shrinks
<1>1. UNCHANGED sender
  BY DEF Main, Idle, Scan, FloodTest, ClearGarbage, Seek, GetVersion, GetHead, GetBody,
         GetEscaped, GetEnd
<1>2. NoData \/ (\E chr : Get(chr)) => rx' = rx \/ (rx # <<>> /\ rx' = Tail(rx))
  BY DEF NoData, Get
<1>3. CASE Scan \/ FloodTest \/ ClearGarbage
  BY <1>1, <1>3 DEF Scan, FloodTest, ClearGarbage, Shrinks
<1>4. CASE Seek \/ GetVersion \/ GetHead \/ GetBody \/ GetEscaped
  <2>1. owed' = owed
    BY <1>4 DEF Seek, GetVersion, GetHead, GetBody, GetEscaped
  <2>2. NoData \/ (\E chr : Get(chr))
    <3>1. CASE Seek
      BY <3>1 DEF Seek
    <3>2. CASE GetVersion
      BY <3>2 DEF GetVersion
    <3>3. CASE GetHead
      BY <3>3 DEF GetHead
    <3>4. CASE GetBody
      BY <3>4 DEF GetBody
    <3>5. CASE GetEscaped
      BY <3>5 DEF GetEscaped
    <3> QED BY <1>4, <3>1, <3>2, <3>3, <3>4, <3>5
  <2> QED BY <1>1, <1>2, <2>1, <2>2 DEF Shrinks
<1>5. CASE GetEnd
  <2>1. NoData \/ (\E chr : Get(chr))
    BY <1>5 DEF GetEnd
  <2>2. owed' = owed \/ \E k \in Messages : owed' = After(k)
    <3>1. PICK m \in Messages : got = Content(m)
      BY <1>5 DEF GetEnd, TypeInv, ReadOK
    <3>2. (CHOOSE k \in Messages : got = Content(k)) \in Messages
      BY <3>1
    <3> QED BY <1>5, <3>2 DEF GetEnd
  <2> QED BY <1>1, <1>2, <2>1, <2>2 DEF Shrinks
<1> QED BY <1>3, <1>4, <1>5 DEF Main

LEMMA ShrinkOwed ==
    ASSUME TypeInv, Shrinks
    PROVE  Len(owed) \in Nat /\ Len(owed') \in Nat /\ Len(owed') <= Len(owed)
<1>1. OwedOK /\ Len(owed) \in Nat
  BY DEF TypeInv, OwedOK
<1>2. CASE owed' = owed
  BY <1>1, <1>2
<1>3. CASE \E k \in Messages : owed' = After(k)
  <2>1. PICK k \in Messages : owed' = After(k)
    BY <1>3
  <2> QED BY <1>1, <2>1, AfterLen
<1> QED BY <1>2, <1>3 DEF Shrinks

LEMMA ShrinkRx ==
    ASSUME TypeInv, Shrinks
    PROVE  /\ Len(rx) \in Nat /\ Len(rx') \in Nat /\ Len(rx') <= Len(rx)
           /\ NoStart(rx) => NoStart(rx')
<1>1. rx \in Seq(Byte) /\ Len(rx) \in Nat
  BY DEF TypeInv, FifoOK
<1>2. CASE rx' = rx
  BY <1>1, <1>2
<1>3. CASE rx # <<>> /\ rx' = Tail(rx)
  <2>1. Tail(rx) \in Seq(Byte) /\ Len(Tail(rx)) <= Len(rx) /\ (NoStart(rx) => NoStart(Tail(rx)))
    BY <1>1, <1>3, TailType, NoStartTail
  <2>2. Len(Tail(rx)) \in Nat
    BY <2>1
  <2> QED BY <1>1, <1>3, <2>1, <2>2
<1>4. CASE rx' = <<>>
  <2>1. Len(<<>>) = 0 /\ NoStart(<<>>)
    BY NoStartEmpty
  <2> QED BY <1>1, <1>4, <2>1
<1> QED BY <1>2, <1>3, <1>4 DEF Shrinks

LEMMA BoundLess ==
    ASSUME Room, NEW n \in Nat, NEW k \in Nat, k <= n
    PROVE  Bound(n) <= Bound(k) /\ Bound(n) \in Nat
BY FramingAssumption DEF Bound

\* Noise: the count starts over.
LEMMA DisturbForgets ==
    ASSUME ByteSpoiled \/ FrameCut \/ StrayByte
    PROVE  Forgotten'
BY DEF ByteSpoiled, FrameCut, StrayByte, Disturb, Forgotten, sender

\* A message is sent only when nothing is left to do.
LEMMA SendFrom ==
    ASSUME TypeInv, RecoverInv, SendFrame
    PROVE  Forgotten \/ Remains
<1>1. wire = <<>> /\ pc = "scan" /\ ~HoldsFrame(rx) /\ Len(rx) < Size
  BY DEF SendFrame, Settled
<1>2. Len(rx) # Size /\ msg \in Messages
  BY <1>1, FramingAssumption DEF TypeInv, FifoOK, SenderOK
<1>3. ~ComingWhole /\ ~ComingPart
  BY <1>1 DEF ComingWhole, ComingPart
<1>4. ~Full
  BY <1>2 DEF Full
<1>5. ASSUME NEW t \in Seq(Byte), rx = t \o Frame(msg) PROVE FALSE
  BY <1>1, <1>2, <1>5, HoldsBehind
<1>6. ~First /\ ~Later
  BY <1>5 DEF First, Later, Before
<1>7. ~Read
  BY <1>1 DEF Read, Parsing, Reading
<1> QED BY <1>3, <1>4, <1>6, <1>7 DEF RecoverInv

LEMMA SendRecovers ==
    ASSUME TypeInv, Room, Forgotten \/ Remains, SendFrame
    PROVE  ComingWhole'
<1>1. /\ wire' = Frame(msg') /\ whole' = TRUE /\ msg' \in Messages
      /\ UNCHANGED <<rx, pc, got, owed>>
      /\ pc = "scan" /\ ~HoldsFrame(rx) /\ Len(rx) < Size
  BY DEF SendFrame, Settled
<1>2. rx \in Seq(Byte) /\ got = <<>> /\ Len(rx) \in Nat
  BY <1>1 DEF TypeInv, FifoOK, ReadOK
<1>3. Frame(msg') # <<>>
  BY <1>1, FrameType
<1>4. Len(owed) <= 2
  <2>1. CASE Forgotten
    BY <2>1 DEF Forgotten
  <2>2. CASE Remains
    BY <2>2 DEF Remains
  <2> QED BY <2>1, <2>2
<1>5. owed # <<>> => NoStart(rx) /\ 3 * Len(rx) < Bound(Len(owed))
  BY DEF Forgotten, Remains
<1>6. Looking'
  BY <1>1, <1>2 DEF Looking
<1>7. Len(rx) <= Len(rx)
  BY <1>2
<1>8. Before(rx, Frame(msg'), rx' \o wire')
  BY <1>1, <1>2 DEF Before
<1>9. ComingBehind(rx)'
  BY <1>1, <1>5, <1>7, <1>8 DEF ComingBehind, Before
<1>10. \E t \in Seq(Byte) : ComingBehind(t)'
  BY <1>1, <1>2, <1>9
<1> QED BY <1>1, <1>3, <1>4, <1>6, <1>10 DEF ComingWhole

\* The main loop while it finds no frame.
LEMMA LookingOn ==
    ASSUME TypeInv, Looking, Main
    PROVE  /\ UNCHANGED <<sender, owed>> /\ Looking'
           /\ rx' = rx \/ (Len(rx) = Size /\ rx' = <<>>)
<1>1. Scan \/ FloodTest \/ ClearGarbage
  BY DEF Looking, Main, Seek, GetVersion, GetHead, GetBody, GetEscaped, GetEnd
<1>2. CASE Scan
  BY <1>2 DEF Scan, Looking, Idle
<1>3. CASE FloodTest
  BY <1>3 DEF FloodTest, Looking, Idle
<1>4. CASE ClearGarbage
  BY <1>4, EmptyIsNoFrame DEF ClearGarbage, Looking, Idle, Restart
<1> QED BY <1>1, <1>2, <1>3, <1>4

\* What arrives meanwhile.
LEMMA LookingReceives ==
    ASSUME TypeInv, Looking, ByteArrives, Head(wire) # End \/ NoStart(rx') \/ Len(rx) = Size
    PROVE  Looking'
<1>1. /\ rx' = Received(rx, Head(wire)) /\ pc' = pc /\ got' = got /\ wire # <<>>
      /\ rx \in Seq(Byte) /\ wire \in Seq(Byte)
  BY DEF ByteArrives, TypeInv, FifoOK, SenderOK
<1>2. CASE Len(rx) < Size
  <2>1. rx' = Append(rx, Head(wire)) /\ Head(wire) \in Byte
    BY <1>1, <1>2, TailType DEF Received
  <2>2. ~HoldsFrame(rx')
    <3>1. CASE Head(wire) # End
      BY <1>1, <2>1, <3>1, HoldsLess DEF Looking
    <3>2. CASE NoStart(rx')
      BY <3>2, NoStartHolds
    <3>3. Len(rx) # Size
      BY <1>1, <1>2, FramingAssumption
    <3> QED BY <3>1, <3>2, <3>3
  <2>3. pc # "clear"
    BY <1>1, <1>2, FramingAssumption DEF Looking
  <2> QED BY <1>1, <2>2, <2>3 DEF Looking
<1>3. CASE ~(Len(rx) < Size)
  BY <1>1, <1>3 DEF Received, Looking
<1> QED BY <1>2, <1>3

\* What is received, and what is owed then.
LEMMA ArriveOwed ==
    ASSUME TypeInv, ByteArrives, whole
    PROVE  /\ rx \in Seq(Byte) /\ wire \in Seq(Byte) /\ wire # <<>>
           /\ Head(wire) \in Byte /\ wire' = Tail(wire) /\ wire' \in Seq(Byte)
           /\ Len(rx) \in Nat /\ Len(rx) <= Size /\ Size \in Nat
           /\ Len(wire) \in Nat /\ Len(wire') = Len(wire) - 1
           /\ UNCHANGED <<msg, whole, pc, got>>
           /\ Len(rx) < Size => rx' = Append(rx, Head(wire)) /\ Len(rx') = Len(rx) + 1
                                /\ rx' \in Seq(Byte)
           /\ Len(rx) = Size => rx' = rx
           /\ wire' # <<>> => owed' = owed /\ Len(wire) >= 2
           /\ wire' = <<>> => /\ owed' = Append(owed, msg)
                              /\ Len(owed') = Len(owed) + 1 /\ owed'[Len(owed')] = msg
           /\ Len(owed) \in Nat
<1>1. rx \in Seq(Byte) /\ wire \in Seq(Byte) /\ wire # <<>> /\ wire' = Tail(wire)
      /\ Len(rx) \in Nat /\ Len(rx) <= Size /\ Size \in Nat /\ msg \in Messages
  BY FramingAssumption DEF ByteArrives, TypeInv, SenderOK, FifoOK
<1>2. Head(wire) \in Byte /\ wire' \in Seq(Byte) /\ Len(wire) \in Nat /\ Len(wire') = Len(wire) - 1
  BY <1>1, HeadTailProperties
<1>3. Len(rx) < Size => rx' = Append(rx, Head(wire)) /\ Len(rx') = Len(rx) + 1 /\ rx' \in Seq(Byte)
  <2> HAVE Len(rx) < Size
  <2>1. rx' = Append(rx, Head(wire))
    BY DEF ByteArrives, Received
  <2> QED BY <1>1, <1>2, <2>1, AppendProperties
<1>4. Len(rx) = Size => rx' = rx
  BY <1>1 DEF ByteArrives, Received
<1>5. wire' # <<>> => owed' = owed /\ Len(wire) >= 2
  <2> HAVE wire' # <<>>
  <2>1. Len(wire') # 0
    BY <1>2
  <2> QED BY <1>2, <2>1 DEF ByteArrives
<1>6. owed \in Seq(Messages) /\ Len(owed) \in Nat
  BY DEF TypeInv, OwedOK
<1>7. wire' = <<>> => /\ owed' = Append(owed, msg)
                      /\ Len(owed') = Len(owed) + 1 /\ owed'[Len(owed')] = msg
  <2> HAVE wire' = <<>>
  <2>1. owed' = Append(owed, msg)
    BY DEF ByteArrives
  <2>2. Len(Append(owed, msg)) = Len(owed) + 1 /\ Append(owed, msg)[Len(owed) + 1] = msg
    BY <1>1, <1>6, AppendProperties
  <2> QED BY <2>1, <2>2
<1> QED BY <1>1, <1>2, <1>3, <1>4, <1>5, <1>6, <1>7 DEF ByteArrives

\* When the fifo is full behind the start of a frame, the rest of it is short.
LEMMA FullBehind ==
    ASSUME TypeInv, Room, NEW t \in Seq(Byte), ComingBehind(t), wire # <<>>,
           Len(owed) <= 2, Len(rx) = Size
    PROVE  Len(owed) <= 1 /\ NoStart(wire) /\ 3 * Len(wire) < Bound(Len(owed) + 1)
<1> DEFINE f == Len(Frame(msg))
           a == Len(t)
           b == Len(wire)
           n == Len(owed)
<1>1. /\ rx \in Seq(Byte) /\ wire \in Seq(Byte) /\ msg \in Messages
      /\ n \in Nat /\ b \in Nat /\ a \in Nat
  BY DEF TypeInv, SenderOK, FifoOK, OwedOK
<1>2. Size \in Nat /\ Size > 0 /\ f \in Nat /\ f >= 2 /\ 3 * f <= 2 * Size
  BY <1>1, SizeHasRoom
<1>3. rx \o wire = t \o Frame(msg) /\ a < Size /\ (n # 0 => NoStart(t) /\ 3 * a < Bound(n))
  <2>1. owed = <<>> => n = 0
    OBVIOUS
  <2> QED BY <2>1 DEF ComingBehind, Before
<1>4. Size + b = a + f /\ (b >= 1 /\ a < Size => NoStart(wire))
  <2>1. a <= Len(rx)
    BY DEF ComingBehind
  <2> QED BY <1>1, <1>3, <2>1, Remainder
<1>5. b >= 1
  <2>1. b # 0
    BY <1>1
  <2> QED BY <1>1, <2>1
<1> HIDE DEF f, a, b, n
<1>6. NoStart(wire)
  BY <1>3, <1>4, <1>5
<1>7. n <= 2
  BY DEF n
<1>8. n = 0 \/ n = 1 \/ n = 2
  BY <1>1, <1>7
<1>9. ASSUME n = 0 PROVE n <= 1 /\ 3 * b < Bound(n + 1)
  <2>1. Bound(n + 1) = 2 * Size
    BY <1>9 DEF Bound
  <2>2. 3 * b < 2 * Size
    BY <1>1, <1>2, <1>3, <1>4
  <2> QED BY <1>9, <2>1, <2>2
<1>10. ASSUME n = 1 PROVE n <= 1 /\ 3 * b < Bound(n + 1)
  <2>1. Bound(n) = 2 * Size /\ Bound(n + 1) = Size
    BY <1>10 DEF Bound
  <2>2. 3 * a < 2 * Size
    BY <1>3, <1>10, <2>1
  <2>3. 3 * b < Size
    BY <1>1, <1>2, <1>4, <2>2
  <2> QED BY <1>10, <2>1, <2>3
<1>11. CASE n = 2
  BY <1>1, <1>2, <1>3, <1>4, <1>5, <1>11 DEF Bound
<1> QED BY <1>6, <1>8, <1>9, <1>10, <1>11 DEF b, n

LEMMA ForgottenStep ==
    ASSUME TypeInv, Forgotten, ByteArrives \/ Main
    PROVE  Forgotten'
<1>1. CASE ByteArrives
  BY <1>1 DEF ByteArrives, Forgotten
<1>2. CASE Main
  <2>1. UNCHANGED sender /\ (owed' = owed \/ \E k \in Messages : owed' = After(k))
    BY <1>2, MainShrinks DEF Shrinks
  <2>2. \A k : After(k) = owed
    BY DEF Forgotten, After
  <2> QED BY <2>1, <2>2 DEF Forgotten, sender
<1> QED BY <1>1, <1>2

LEMMA RemainsStep ==
    ASSUME TypeInv, Room, Remains, ByteArrives \/ Main
    PROVE  Remains'
<1>1. ~ByteArrives
  BY DEF ByteArrives, Remains
<1>2. Shrinks
  BY <1>1, MainShrinks
<1>3. /\ Len(owed) \in Nat /\ Len(owed') \in Nat /\ Len(owed') <= Len(owed)
      /\ Len(rx) \in Nat /\ Len(rx') \in Nat /\ Len(rx') <= Len(rx) /\ NoStart(rx')
  BY <1>2, ShrinkOwed, ShrinkRx DEF Remains
<1>4. Bound(Len(owed)) <= Bound(Len(owed')) /\ Bound(Len(owed)) \in Nat /\ Bound(Len(owed')) \in Nat
  BY <1>3, BoundLess
<1>5. 3 * Len(rx) < Bound(Len(owed)) /\ Len(owed) <= 2
  BY DEF Remains
<1>6. 3 * Len(rx') < Bound(Len(owed')) /\ Len(owed') <= 2
  BY <1>3, <1>4, <1>5
<1> QED BY <1>2, <1>3, <1>6 DEF Remains, Shrinks, sender

LEMMA WholeOn ==
    ASSUME TypeInv, Room, ComingWhole, Main
    PROVE  ComingWhole' \/ ComingPart'
<1>1. UNCHANGED <<sender, owed>> /\ Looking' /\ (rx' = rx \/ (Len(rx) = Size /\ rx' = <<>>))
  BY LookingOn DEF ComingWhole
<1>2. PICK t \in Seq(Byte) : ComingBehind(t)
  BY DEF ComingWhole
<1>3. CASE rx' = rx
  <2>1. ComingBehind(t)'
    BY <1>1, <1>2, <1>3 DEF ComingBehind, Before, sender
  <2>2. \E u \in Seq(Byte) : ComingBehind(u)'
    BY <2>1
  <2> QED BY <1>1, <2>2 DEF ComingWhole, sender
<1>4. CASE Len(rx) = Size /\ rx' = <<>>
  <2>1. Len(owed) <= 1 /\ NoStart(wire) /\ 3 * Len(wire) < Bound(Len(owed) + 1)
    BY <1>2, <1>4, FullBehind DEF ComingWhole
  <2>2. Len(rx') = 0 /\ NoStart(rx') /\ Len(wire) \in Nat
    BY <1>4, NoStartEmpty DEF TypeInv, SenderOK
  <2>3. Len(rx') + Len(wire) = Len(wire)
    BY <2>2
  <2> QED BY <1>1, <2>1, <2>2, <2>3 DEF ComingWhole, ComingPart, sender
<1> QED BY <1>1, <1>3, <1>4

LEMMA WholeArrives ==
    ASSUME TypeInv, Room, ComingWhole, ByteArrives
    PROVE  ComingWhole' \/ ComingPart' \/ Full' \/ First' \/ Later'
<1>1. /\ rx \in Seq(Byte) /\ wire \in Seq(Byte) /\ wire # <<>>
      /\ Head(wire) \in Byte /\ wire' = Tail(wire) /\ wire' \in Seq(Byte)
      /\ Len(rx) \in Nat /\ Len(rx) <= Size /\ Size \in Nat
      /\ Len(wire) \in Nat /\ Len(wire') = Len(wire) - 1
      /\ UNCHANGED <<msg, whole, pc, got>>
      /\ Len(owed) \in Nat
  BY ArriveOwed DEF ComingWhole
<1>2. /\ Len(rx) < Size => rx' = Append(rx, Head(wire)) /\ Len(rx') = Len(rx) + 1
                           /\ rx' \in Seq(Byte)
      /\ Len(rx) = Size => rx' = rx
      /\ wire' # <<>> => owed' = owed /\ Len(wire) >= 2
      /\ wire' = <<>> => /\ owed' = Append(owed, msg)
                         /\ Len(owed') = Len(owed) + 1 /\ owed'[Len(owed')] = msg
  BY ArriveOwed DEF ComingWhole
<1>3. PICK t \in Seq(Byte) : ComingBehind(t)
  BY DEF ComingWhole
<1>4. whole /\ Len(owed) <= 2 /\ Looking /\ msg \in Messages
  BY DEF ComingWhole, TypeInv, SenderOK
<1>5. /\ rx \o wire = t \o Frame(msg) /\ Len(t) <= Len(rx) /\ Len(t) < Size
      /\ owed # <<>> => NoStart(t) /\ 3 * Len(t) < Bound(Len(owed))
  BY <1>3 DEF ComingBehind, Before
<1>6. CASE Len(rx) = Size
  <2>1. Len(owed) <= 1 /\ NoStart(wire) /\ 3 * Len(wire) < Bound(Len(owed) + 1)
    BY <1>1, <1>3, <1>4, <1>6, FullBehind
  <2>2. Looking'
    BY <1>6, LookingReceives DEF ComingWhole
  <2>3. Bound(Len(owed) + 1) \in Nat
    BY <1>1 DEF Bound
  <2>4. CASE wire' # <<>>
    <3>1. NoStart(wire')
      BY <1>1, <2>1, NoStartTail
    <3>2. 3 * Len(wire') < Bound(Len(owed') + 1) /\ Len(owed') <= 1
      BY <1>1, <1>2, <2>1, <2>3, <2>4
    <3>3. Len(rx') = Size
      BY <1>2, <1>6
    <3> QED BY <1>1, <1>4, <2>2, <2>4, <3>1, <3>2, <3>3 DEF ComingPart
  <2>5. CASE wire' = <<>>
    <3>1. Len(owed') <= 2
      BY <1>1, <1>2, <2>1, <2>5
    <3> QED BY <1>2, <1>6, <2>2, <2>5, <3>1 DEF Full
  <2> QED BY <2>4, <2>5
<1>7. CASE Len(rx) < Size
  <2>1. rx' \o wire' = t \o Frame(msg) /\ Len(t) <= Len(rx')
    <3>1. rx' \o wire' = rx \o wire
      BY <1>1, <1>2, <1>7, MovesOver
    <3>2. \A a, b \in Nat : a <= b => a <= b + 1
      OBVIOUS
    <3>3. Len(t) \in Nat /\ Len(rx') = Len(rx) + 1
      BY <1>2, <1>7
    <3>4. Len(t) <= Len(rx')
      BY <1>1, <1>5, <3>2, <3>3
    <3> QED BY <1>5, <3>1, <3>4
  <2>2. CASE wire' # <<>>
    <3>1. Head(wire) # End
      BY <1>1, <1>2, <1>4, <1>5, <2>2, Remainder
    <3>2. Looking'
      BY <3>1, LookingReceives DEF ComingWhole
    <3>3. ComingBehind(t)'
      BY <1>1, <1>2, <1>5, <2>1, <2>2 DEF ComingBehind, Before
    <3>4. \E u \in Seq(Byte) : ComingBehind(u)'
      BY <3>3
    <3> QED BY <1>1, <1>2, <1>4, <2>2, <3>2, <3>4 DEF ComingWhole
  <2>3. CASE wire' = <<>>
    <3>1. rx' = t \o Frame(msg')
      <4>1. rx' \o <<>> = rx'
        BY <1>2, <1>7, ConcatEmptySeq
      <4> QED BY <1>1, <2>1, <2>3, <4>1
    <3>2. CASE owed = <<>>
      <4>1. owed' = <<msg'>>
        <5>1. Append(<<>>, msg) = <<msg>>
          OBVIOUS
        <5> QED BY <1>1, <1>2, <2>3, <3>2, <5>1
      <4>2. Before(t, Frame(msg'), rx')
        BY <3>1 DEF Before
      <4>3. \E u \in Seq(Byte) : Before(u, Frame(msg'), rx')
        BY <4>2
      <4> QED BY <2>3, <4>1, <4>3 DEF First, Before
    <3>3. CASE owed # <<>>
      <4>1. NoStart(t) /\ 3 * Len(t) < Bound(Len(owed))
        BY <1>5, <3>3
      <4>2. Len(owed) = 1 \/ Len(owed) = 2
        <5>1. Len(owed) # 0
          BY <3>3 DEF TypeInv, OwedOK
        <5>2. \A k \in Nat : k <= 2 /\ k # 0 => k = 1 \/ k = 2
          OBVIOUS
        <5> QED BY <1>1, <1>4, <5>1, <5>2
      <4>3. Len(owed') \in {2, 3} /\ owed'[Len(owed')] = msg'
        <5>1. Len(owed') = Len(owed) + 1 /\ owed'[Len(owed')] = msg'
          BY <1>1, <1>2, <2>3
        <5> DEFINE n == Len(owed)
                   k == Len(owed')
        <5>2. n = 1 \/ n = 2
          BY <4>2
        <5>3. k = n + 1
          BY <5>1
        <5> HIDE DEF n, k
        <5>4. k = 2 \/ k = 3
          BY <5>2, <5>3
        <5> QED BY <5>1, <5>4 DEF k
      <4>4. \E u \in Seq(Byte) : Before(u, Frame(msg'), rx') /\ NoStart(u)
        BY <3>1, <4>1 DEF Before
      <4>5. ASSUME Len(owed') = 3 PROVE Len(rx') < Size
        <5>1. Len(owed) = 2
          <6> DEFINE n == Len(owed)
                     k == Len(owed')
          <6>1. k = n + 1
            BY <1>2, <2>3
          <6>2. (n = 1 \/ n = 2) /\ k = 3
            BY <4>2, <4>5
          <6> HIDE DEF n, k
          <6>3. n = 2
            BY <6>1, <6>2
          <6> QED BY <6>3 DEF n
        <5>2. 3 * Len(t) < Size
          BY <4>1, <5>1 DEF Bound
        <5>3. Len(rx') = Len(t) + Len(Frame(msg)) /\ Len(t) \in Nat /\ Len(Frame(msg)) \in Nat
          <6>1. Frame(msg) \in Seq(Byte)
            BY <1>4, FrameType
          <6> QED BY <1>1, <3>1, <6>1, BehindBytes
        <5>4. 3 * Len(Frame(msg)) <= 2 * Size
          BY <1>4, SizeHasRoom
        <5>5. \A a, b, c \in Nat : 3 * a < c /\ 3 * b <= 2 * c => a + b < c
          OBVIOUS
        <5>6. Size \in Nat
          BY <1>1
        <5> QED BY <5>2, <5>3, <5>4, <5>5, <5>6
      <4>6. pc' \in {"scan", "flood"} /\ got' = <<>>
        <5>1. Len(rx) # Size
          BY <1>1, <1>7
        <5> QED BY <1>1, <1>4, <5>1 DEF Looking
      <4> QED BY <2>3, <4>3, <4>4, <4>5, <4>6 DEF Later, Before
    <3> QED BY <3>2, <3>3
  <2> QED BY <2>2, <2>3
<1> QED BY <1>1, <1>6, <1>7

LEMMA PartStep ==
    ASSUME TypeInv, Room, ComingPart, ByteArrives \/ Main
    PROVE  ComingPart' \/ Full' \/ Remains'
<1> DEFINE B(n) == Bound(n + 1)
<1>1. /\ wire # <<>> /\ whole /\ Len(owed) <= 1 /\ Looking /\ NoStart(wire)
      /\ \/ Len(rx) = Size /\ 3 * Len(wire) < B(Len(owed))
         \/ NoStart(rx) /\ 3 * (Len(rx) + Len(wire)) < B(Len(owed))
  BY DEF ComingPart
<1>2. /\ Len(wire) \in Nat /\ Len(rx) \in Nat /\ Len(owed) \in Nat /\ B(Len(owed)) \in Nat
      /\ wire \in Seq(Byte) /\ rx \in Seq(Byte)
  <2>1. Len(owed) \in Nat /\ Size \in Nat
    BY FramingAssumption DEF TypeInv, OwedOK
  <2> QED BY <2>1 DEF TypeInv, SenderOK, FifoOK, Bound
<1>3. CASE Main
  <2>1. UNCHANGED <<sender, owed>> /\ Looking' /\ (rx' = rx \/ (Len(rx) = Size /\ rx' = <<>>))
    BY <1>1, <1>3, LookingOn
  <2>2. CASE rx' = rx
    BY <1>1, <2>1, <2>2 DEF ComingPart, sender
  <2>3. CASE rx' = <<>>
    <3>1. 3 * Len(wire) < B(Len(owed))
      <4> DEFINE r == Len(rx)
                 w == Len(wire)
                 b == B(Len(owed))
      <4>1. (3 * w < b \/ 3 * (r + w) < b) /\ r \in Nat /\ w \in Nat /\ b \in Nat
        BY <1>1, <1>2
      <4> HIDE DEF r, w, b
      <4>2. 3 * w < b
        BY <4>1
      <4> QED BY <4>2 DEF w, b
    <3>2. NoStart(rx') /\ Len(rx') + Len(wire) = Len(wire)
      BY <1>2, <2>3, NoStartEmpty
    <3> QED BY <1>1, <2>1, <3>1, <3>2 DEF ComingPart, sender
  <2> QED BY <2>1, <2>2, <2>3
<1>4. CASE ByteArrives
  <2>1. /\ Head(wire) \in Byte /\ wire' = Tail(wire) /\ wire' \in Seq(Byte)
        /\ Len(rx) <= Size /\ Size \in Nat /\ Len(wire') = Len(wire) - 1
        /\ UNCHANGED <<msg, whole, pc, got>>
    BY <1>1, <1>4, ArriveOwed
  <2>2. /\ Len(rx) < Size => rx' = Append(rx, Head(wire)) /\ Len(rx') = Len(rx) + 1
                             /\ rx' \in Seq(Byte)
        /\ Len(rx) = Size => rx' = rx
        /\ wire' # <<>> => owed' = owed
        /\ wire' = <<>> => Len(owed') = Len(owed) + 1
    BY <1>1, <1>4, ArriveOwed
  <2>3. NoStart(wire') /\ Head(wire) # Start
    BY <1>1, <1>2, <2>1, NoStartTail
  <2>4. Len(wire') \in Nat
    BY <2>1
  <2>5. CASE Len(rx) = Size
    <3>1. Looking' /\ Len(rx') = Size
      BY <1>1, <1>4, <2>2, <2>5, LookingReceives
    <3>2. CASE wire' # <<>>
      <4>1. 3 * Len(wire') < B(Len(owed))
        <5> DEFINE r == Len(rx)
                   w == Len(wire)
                   v == Len(wire')
                   b == B(Len(owed))
        <5>1. /\ 3 * w < b \/ 3 * (r + w) < b
              /\ r \in Nat /\ w \in Nat /\ b \in Nat /\ v \in Nat /\ v = w - 1
          BY <1>1, <1>2, <2>1, <2>4
        <5> HIDE DEF r, w, v, b
        <5>2. 3 * v < b
          BY <5>1
        <5> QED BY <5>2 DEF v, b
      <4> QED BY <1>1, <2>1, <2>2, <2>3, <3>1, <3>2, <4>1 DEF ComingPart
    <3>3. CASE wire' = <<>>
      <4>1. Len(owed') <= 2
        BY <1>1, <1>2, <2>2, <3>3
      <4> QED BY <3>1, <3>3, <4>1 DEF Full
    <3> QED BY <3>2, <3>3
  <2>6. CASE Len(rx) < Size
    <3>1. NoStart(rx) /\ 3 * (Len(rx) + Len(wire)) < B(Len(owed))
      BY <1>1, <1>2, <2>1, <2>6
    <3>2. rx' = Append(rx, Head(wire)) /\ Len(rx') = Len(rx) + 1 /\ rx' \in Seq(Byte)
      BY <2>2, <2>6
    <3>3. NoStart(rx')
      BY <1>2, <2>1, <2>3, <3>1, <3>2, NoStartAppend
    <3>4. Looking'
      BY <1>1, <1>4, <3>3, LookingReceives
    <3>5. Len(rx') + Len(wire') = Len(rx) + Len(wire)
      BY <1>2, <2>1, <3>2
    <3>6. CASE wire' # <<>>
      BY <1>1, <2>1, <2>2, <2>3, <3>1, <3>3, <3>4, <3>5, <3>6 DEF ComingPart
    <3>7. CASE wire' = <<>>
      <4>1. Len(wire') = 0 /\ Len(rx') \in Nat
        BY <3>2, <3>7
      <4>2. 3 * Len(rx') < Bound(Len(owed'))
        BY <2>2, <3>1, <3>5, <3>7, <4>1
      <4>3. Len(owed') <= 2
        BY <1>1, <1>2, <2>2, <3>7
      <4> QED BY <3>3, <3>7, <4>2, <4>3 DEF Remains
    <3> QED BY <3>6, <3>7
  <2> QED BY <2>1, <2>5, <2>6, <1>2
<1> QED BY <1>3, <1>4

LEMMA FullStep ==
    ASSUME TypeInv, Room, Full, ByteArrives \/ Main
    PROVE  Full' \/ Remains'
<1>1. ~ByteArrives
  BY DEF ByteArrives, Full
<1>2. UNCHANGED <<sender, owed>> /\ Looking' /\ (rx' = rx \/ (Len(rx) = Size /\ rx' = <<>>))
  BY <1>1, LookingOn DEF Full
<1>3. CASE rx' = rx
  BY <1>2, <1>3 DEF Full, sender
<1>4. CASE rx' = <<>>
  <2>1. Size > 0 /\ Size \in Nat
    BY SizeHasRoom DEF TypeInv, SenderOK
  <2>2. Len(rx') = 0 /\ NoStart(rx') /\ 3 * Len(rx') < Bound(Len(owed))
    <3>1. Len(rx') = 0 /\ NoStart(rx')
      BY <1>4, NoStartEmpty
    <3>2. 0 < Bound(Len(owed)) /\ 3 * 0 = 0
      BY <2>1 DEF Bound
    <3> QED BY <3>1, <3>2
  <2> QED BY <1>2, <2>2 DEF Full, Remains, sender
<1> QED BY <1>2, <1>3, <1>4

LEMMA FirstStep ==
    ASSUME TypeInv, Room, First, ByteArrives \/ Main
    PROVE  First' \/ Remains' \/ Forgotten'
<1>1. ~ByteArrives
  BY DEF ByteArrives, First
<1>2. Shrinks
  BY <1>1, MainShrinks
<1>3. UNCHANGED <<wire, msg>> /\ wire = <<>> /\ owed = <<msg>> /\ msg \in Messages
  BY <1>2 DEF Shrinks, sender, First, TypeInv, SenderOK
<1>4. owed' = owed \/ owed' = <<>>
  <2>1. \A k : (\E i \in DOMAIN owed : owed[i] = k) => k = msg
    BY <1>3
  <2>2. ASSUME NEW k \in Messages PROVE After(k) = owed \/ After(k) = <<>>
    <3>1. CASE k = msg
      BY <1>3, <3>1, AfterOnly
    <3>2. CASE k # msg
      BY <2>1, <3>2 DEF After
    <3> QED BY <3>1, <3>2
  <2> QED BY <1>2, <2>2 DEF Shrinks
<1>5. CASE owed' = <<>>
  BY <1>3, <1>5 DEF Forgotten
<1>6. CASE owed' = owed
  <2>1. PICK t \in Seq(Byte) : rx = t \o Frame(msg)
    BY DEF First, Before
  <2>2. CASE rx' = rx
    BY <1>3, <1>6, <2>2 DEF First
  <2>3. Len(owed') = 1 /\ Bound(1) = 2 * Size /\ Size \in Nat /\ Size > 0
        /\ 3 * Len(Frame(msg)) <= 2 * Size /\ Len(Frame(msg)) \in Nat
    <3>1. Len(owed') = 1 /\ Bound(1) = 2 * Size
      BY <1>3, <1>6 DEF Bound
    <3> QED BY <1>3, <3>1, SizeHasRoom
  <2>4. CASE rx' = <<>>
    <3>1. Len(rx') = 0 /\ NoStart(rx')
      BY <2>4, NoStartEmpty
    <3>2. 3 * Len(rx') < Bound(Len(owed')) /\ Len(owed') <= 2
      BY <2>3, <3>1
    <3> QED BY <1>3, <3>1, <3>2 DEF Remains
  <2>5. CASE rx # <<>> /\ rx' = Tail(rx)
    <3>1. CASE t = <<>>
      <4>1. rx = Frame(msg)
        <5>1. Frame(msg) \in Seq(Byte)
          BY <1>3, FrameType
        <5> QED BY <2>1, <3>1, <5>1, ConcatEmptySeq
      <4>2. NoStart(rx') /\ Len(rx') = Len(Frame(msg)) - 1
        BY <1>3, <2>5, <4>1, FrameRest
      <4>3. 3 * Len(rx') < Bound(Len(owed')) /\ Len(owed') <= 2
        BY <2>3, <4>2
      <4> QED BY <1>3, <4>2, <4>3 DEF Remains
    <3>2. CASE t # <<>>
      <4>1. Frame(msg) \in Seq(Byte)
        BY <1>3, FrameType
      <4>2. rx' = Tail(t) \o Frame(msg) /\ Tail(t) \in Seq(Byte)
        BY <2>1, <2>5, <3>2, <4>1, BehindTail, TailType
      <4>3. \E u \in Seq(Byte) : Before(u, Frame(msg'), rx')
        BY <1>3, <4>2 DEF Before
      <4> QED BY <1>3, <1>6, <4>3 DEF First, Before
    <3> QED BY <3>1, <3>2
  <2> QED BY <1>2, <2>2, <2>4, <2>5 DEF Shrinks
<1> QED BY <1>4, <1>5, <1>6

LEMMA LaterStep ==
    ASSUME TypeInv, Room, Later, ByteArrives \/ Main
    PROVE  Later' \/ Remains' \/ Read'
<1>1. ~ByteArrives
  BY DEF ByteArrives, Later
<1>2. PICK t \in Seq(Byte) : rx = t \o Frame(msg) /\ NoStart(t)
  BY DEF Later, Before
<1>3. /\ wire = <<>> /\ Len(owed) \in {2, 3} /\ owed[Len(owed)] = msg /\ got = <<>>
      /\ Len(owed) = 3 => Len(rx) < Size
      /\ pc = "clear" => Len(rx) = Size
      /\ pc \in {"scan", "flood", "clear", "seek"}
      /\ msg \in Messages /\ Frame(msg) \in Seq(Byte) /\ rx \in Seq(Byte) /\ Size \in Nat
      /\ owed \in Seq(Messages)
  BY FrameType, FramingAssumption DEF Later, TypeInv, SenderOK, FifoOK, OwedOK
<1>4. HoldsFrame(rx)
  BY <1>2, <1>3, HoldsBehind
<1>5. Scan \/ FloodTest \/ ClearGarbage \/ Seek
  BY <1>1, <1>3 DEF Main, GetVersion, GetHead, GetBody, GetEscaped, GetEnd
<1>6. UNCHANGED <<sender, owed>>
  BY <1>5 DEF Scan, FloodTest, ClearGarbage, Seek, Idle
<1>7. CASE Scan
  <2>1. rx' = rx /\ got' = got /\ pc' = "seek"
    BY <1>4, <1>7 DEF Scan
  <2> QED BY <1>6, <2>1 DEF Later, sender
<1>8. CASE FloodTest
  <2>1. rx' = rx /\ got' = got /\ pc' \in {"scan", "clear"} /\ (pc' = "clear" => Len(rx) = Size)
    BY <1>8 DEF FloodTest
  <2> QED BY <1>6, <2>1 DEF Later, sender
<1>9. CASE ClearGarbage
  <2>1. Len(rx) = Size /\ rx' = <<>>
    BY <1>3, <1>9 DEF ClearGarbage
  <2>2. Len(owed) = 2
    <3>1. Len(owed) # 3
      BY <1>3, <2>1
    <3> QED BY <1>3, <3>1
  <2>3. Len(rx') = 0 /\ NoStart(rx')
    BY <2>1, NoStartEmpty
  <2>4. 3 * Len(rx') < Bound(Len(owed)) /\ Len(owed) <= 2
    <3>1. Bound(2) = Size /\ Size > 0
      BY <1>3, SizeHasRoom DEF Bound
    <3> QED BY <2>2, <2>3, <3>1
  <2> QED BY <1>3, <1>6, <2>3, <2>4 DEF Remains, sender
<1>10. CASE Seek
  <2>1. CASE t = <<>>
    <3> DEFINE q == Unread(<<Version>> \o Content(msg))
    <3>1. rx = <<Start>> \o q /\ q \in Seq(Byte) /\ Start \in Byte
      <4>1. rx = Frame(msg)
        <5>1. <<>> \o Frame(msg) = Frame(msg)
          BY <1>3, ConcatEmptySeq
        <5> QED BY <1>2, <2>1, <5>1
      <4> QED BY <1>3, <4>1, FrameType, UnreadType, MarksApart
    <3> HIDE DEF q
    <3>2. ~NoData /\ \A chr : Get(chr) => chr = Start /\ rx' = q
      BY <3>1, NextOut
    <3>3. pc' = "version" /\ rx' = q /\ got' = <<>>
      BY <1>3, <1>10, <3>2 DEF Seek
    <3>4. Parsing'
      BY <1>6, <3>3 DEF Parsing, q, sender
    <3>5. (\E i \in DOMAIN owed : owed[i] = msg) /\ Len(owed) <= 3
      <4>1. Len(owed) \in DOMAIN owed
        <5>1. DOMAIN owed = 1 .. Len(owed) /\ Len(owed) \in {2, 3}
          BY <1>3
        <5>2. \A k \in {2, 3} : k \in 1 .. k
          OBVIOUS
        <5> QED BY <5>1, <5>2
      <4> QED BY <1>3, <4>1
    <3> QED BY <1>3, <1>6, <3>4, <3>5 DEF Read, sender
  <2>2. CASE t # <<>>
    <3>1. /\ rx # <<>> /\ Head(rx) = Head(t) /\ Tail(rx) = Tail(t) \o Frame(msg)
          /\ Tail(t) \in Seq(Byte) /\ NoStart(Tail(t)) /\ Head(t) # Start
      BY <1>2, <1>3, <2>2, BehindTail, TailType, NoStartTail
    <3>2. pc' = "seek" /\ rx' = Tail(rx) /\ got' = got
      BY <1>10, <3>1 DEF Seek, NoData, Get
    <3>3. Len(rx') < Len(rx) /\ Len(rx') \in Nat /\ Len(rx) \in Nat /\ Len(rx) <= Size
      <4>1. Len(Tail(rx)) = Len(rx) - 1 /\ Len(rx) \in Nat /\ Tail(rx) \in Seq(Byte)
        BY <1>3, <3>1, HeadTailProperties
      <4>2. Len(Tail(rx)) \in Nat /\ Len(Tail(rx)) < Len(rx)
        BY <4>1
      <4> QED BY <3>2, <4>1, <4>2 DEF TypeInv, FifoOK
    <3>4. \E u \in Seq(Byte) : Before(u, Frame(msg'), rx') /\ NoStart(u)
      BY <1>6, <3>1, <3>2 DEF Before, sender
    <3>5. Len(rx') < Size
      BY <1>3, <3>3
    <3> QED BY <1>3, <1>6, <3>2, <3>4, <3>5 DEF Later, Before, sender
  <2> QED BY <2>1, <2>2
<1> QED BY <1>5, <1>7, <1>8, <1>9, <1>10

LEMMA ReadStep ==
    ASSUME TypeInv, Room, Read, ByteArrives \/ Main
    PROVE  Read' \/ Remains'
<1>1. wire = <<>> /\ Len(owed) <= 3 /\ (\E i \in DOMAIN owed : owed[i] = msg) /\ Parsing
  BY DEF Read
<1>2. GetVersion \/ GetHead \/ GetBody \/ GetEscaped \/ GetEnd
  <2>1. pc \in {"version", "head", "body", "escaped", "end"}
    BY <1>1 DEF Parsing, Reading
  <2> QED BY <1>1, <2>1 DEF ByteArrives, Main, Scan, FloodTest, ClearGarbage, Seek
<1>3. CASE GetVersion \/ GetHead \/ GetBody \/ GetEscaped
  <2>1. Parsing' /\ UNCHANGED <<wire, msg, owed>>
    BY <1>1, <1>3, VersionParses, HeadParses, BodyParses, EscapedParses
  <2> QED BY <1>1, <2>1 DEF Read
<1>4. CASE GetEnd
  <2>1. owed' = After(msg) /\ rx' = <<>> /\ UNCHANGED <<wire, msg>>
    BY <1>1, <1>4, EndParses
  <2>2. Len(owed') <= 2
    <3> DEFINE n == Len(owed)
               k == Len(owed')
    <3>1. k \in Nat /\ n \in Nat /\ k < n /\ n <= 3
      BY <1>1, <2>1, AfterLen DEF TypeInv
    <3> HIDE DEF n, k
    <3>2. k <= 2
      BY <3>1
    <3> QED BY <3>2 DEF k
  <2>3. Len(rx') = 0 /\ NoStart(rx')
    BY <2>1, NoStartEmpty
  <2>4. 3 * Len(rx') < Bound(Len(owed'))
    <3>1. Size \in Nat /\ Size > 0
      BY SizeHasRoom DEF TypeInv, SenderOK
    <3>2. 0 < Bound(Len(owed')) /\ 3 * 0 = 0
      BY <3>1 DEF Bound
    <3> QED BY <2>3, <3>2
  <2> QED BY <1>1, <2>1, <2>2, <2>3, <2>4 DEF Remains
<1> QED BY <1>2, <1>3, <1>4

LEMMA RecoverStep == TypeInv /\ Room /\ RecoverInv /\ [Next]_vars => RecoverInv'
<1> SUFFICES ASSUME TypeInv, Room, RecoverInv, [Next]_vars PROVE RecoverInv'
  OBVIOUS
<1>1. CASE SendFrame
  BY <1>1, SendFrom, SendRecovers DEF RecoverInv
<1>2. CASE ByteSpoiled \/ FrameCut \/ StrayByte
  BY <1>2, DisturbForgets DEF RecoverInv
<1>3. CASE ByteArrives \/ Main
  <2>1. CASE Forgotten
    BY <1>3, <2>1, ForgottenStep DEF RecoverInv
  <2>2. CASE Remains
    BY <1>3, <2>2, RemainsStep DEF RecoverInv
  <2>3. CASE ComingWhole
    BY <1>3, <2>3, WholeOn, WholeArrives DEF RecoverInv
  <2>4. CASE ComingPart
    BY <1>3, <2>4, PartStep DEF RecoverInv
  <2>5. CASE Full
    BY <1>3, <2>5, FullStep DEF RecoverInv
  <2>6. CASE First
    BY <1>3, <2>6, FirstStep DEF RecoverInv
  <2>7. CASE Later
    BY <1>3, <2>7, LaterStep DEF RecoverInv
  <2>8. CASE Read
    BY <1>3, <2>8, ReadStep DEF RecoverInv
  <2> QED BY <2>1, <2>2, <2>3, <2>4, <2>5, <2>6, <2>7, <2>8 DEF RecoverInv
<1>4. CASE UNCHANGED vars
  <2>1. UNCHANGED <<wire, msg, whole, rx, pc, got, noise, owed>>
    BY <1>4 DEF vars, sender
  <2>2. UNCHANGED <<Forgotten, Remains, Looking>>
    BY <2>1 DEF Forgotten, Remains, Looking
  <2>3. UNCHANGED <<ComingWhole, ComingPart>>
    BY <2>1, <2>2 DEF ComingWhole, ComingPart, ComingBehind, Before, Looking
  <2>4. UNCHANGED <<Full, First, Later>>
    BY <2>1, <2>2 DEF Full, First, Later, Before, Looking
  <2>5. UNCHANGED Read
    BY <2>1 DEF Read, Parsing, Reading
  <2> QED BY <2>2, <2>3, <2>4, <2>5 DEF RecoverInv
<1> QED BY <1>1, <1>2, <1>3, <1>4 DEF Next

LEMMA RecoverFollows == TypeInv /\ RecoverInv => Recovers
<1> SUFFICES ASSUME RecoverInv, wire # <<>>, OwedOK PROVE Len(owed) <= 2
  BY DEF Recovers, TypeInv
<1>1. Forgotten \/ ComingWhole \/ ComingPart
  BY DEF RecoverInv, Remains, Full, First, Later, Read
<1>2. Len(owed) \in Nat /\ (owed = <<>> => Len(owed) = 0)
  BY DEF OwedOK
<1>3. CASE Forgotten
  BY <1>2, <1>3 DEF Forgotten
<1>4. CASE ComingWhole \/ ComingPart
  BY <1>2, <1>4 DEF ComingWhole, ComingPart
<1> QED BY <1>1, <1>3, <1>4

\* What is left of earlier bytes costs two whole messages at most: the third
\* in a row is taken in, if one and a half times a frame fits the fifo.
THEOREM FramingRecovers ==
    ASSUME Room
    PROVE  Spec => []Recovers
<1>1. Init => TypeInv /\ RecoverInv
  <2>1. Init => RecoverInv
    BY DEF Init, RecoverInv, Forgotten
  <2> QED BY <2>1, TypeInit
<1>2. TypeInv /\ RecoverInv /\ [Next]_vars => (TypeInv /\ RecoverInv)'
  BY TypeStep, RecoverStep
<1>3. TypeInv /\ RecoverInv => Recovers
  BY RecoverFollows
<1> QED BY <1>1, <1>2, <1>3, PTL DEF Spec

-----------------------------------------------------------------------------
(* The firmware file.                                                      *)
HexState(V) == [data : Seq(V), offset : Nat, size : Nat, parsed : Nat, ok : BOOLEAN]

LEMMA CopiedType ==
    ASSUME NEW V, NEW data \in Seq(V), NEW offset \in Nat, NEW bytes \in Seq(V),
           offset + Len(bytes) <= Len(data)
    PROVE  /\ Copied(data, offset, bytes) \in Seq(V)
           /\ Len(Copied(data, offset, bytes)) = Len(data)
           /\ \A i \in 1 .. Len(data) :
                  Copied(data, offset, bytes)[i] =
                      IF i <= offset \/ i > offset + Len(bytes) THEN data[i] ELSE bytes[i - offset]
<1> DEFINE a == SubSeq(data, 1, offset)
           n == Len(bytes)
           c == SubSeq(data, offset + Len(bytes) + 1, Len(data))
           L == Len(data)
<1>1. n \in Nat /\ L \in Nat /\ offset + n <= L
  OBVIOUS
<1>2. a \in Seq(V) /\ Len(a) = offset /\ \A i \in 1 .. offset : a[i] = data[i]
  BY <1>1
<1>3. c \in Seq(V) /\ Len(c) = L - (offset + n)
      /\ \A i \in 1 .. L - (offset + n) : c[i] = data[offset + n + i]
  BY <1>1
<1> HIDE DEF a, c, n
<1>4. /\ a \o bytes \in Seq(V) /\ Len(a \o bytes) = offset + n
      /\ \A i \in 1 .. offset + n :
             (a \o bytes)[i] = IF i <= offset THEN data[i] ELSE bytes[i - offset]
  <2>1. /\ a \o bytes \in Seq(V) /\ Len(a \o bytes) = Len(a) + Len(bytes)
        /\ \A i \in 1 .. Len(a) + Len(bytes) :
               (a \o bytes)[i] = IF i <= Len(a) THEN a[i] ELSE bytes[i - Len(a)]
    BY <1>2, ConcatProperties
  <2> QED BY <1>1, <1>2, <2>1 DEF n
<1> DEFINE q == a \o bytes
<1>5. q \in Seq(V) /\ Len(q) = offset + n
      /\ \A i \in 1 .. offset + n : q[i] = IF i <= offset THEN data[i] ELSE bytes[i - offset]
  BY <1>4
<1> HIDE DEF q
<1>6. /\ q \o c \in Seq(V) /\ Len(q \o c) = Len(q) + Len(c)
      /\ \A i \in 1 .. Len(q) + Len(c) : (q \o c)[i] = IF i <= Len(q) THEN q[i] ELSE c[i - Len(q)]
  BY <1>3, <1>5, ConcatProperties
<1> HIDE DEF L
<1>7. Len(q) + Len(c) = L
  BY <1>1, <1>3, <1>5
<1>8. ASSUME NEW i \in 1 .. L
      PROVE  (q \o c)[i] = IF i <= offset \/ i > offset + n THEN data[i] ELSE bytes[i - offset]
  <2>1. CASE i <= offset + n
    <3>1. i \in 1 .. offset + n /\ i <= Len(q) /\ ~(i > offset + n) /\ i \in 1 .. Len(q) + Len(c)
      BY <1>1, <1>5, <1>7, <2>1
    <3>2. (q \o c)[i] = q[i]
      BY <1>6, <3>1
    <3> QED BY <1>5, <3>1, <3>2
  <2>2. CASE i > offset + n
    <3>1. /\ i - (offset + n) \in 1 .. L - (offset + n) /\ ~(i <= Len(q))
          /\ offset + n + (i - (offset + n)) = i /\ i \in 1 .. Len(q) + Len(c)
      BY <1>1, <1>5, <1>7, <2>2
    <3>2. (q \o c)[i] = c[i - (offset + n)]
      BY <1>5, <1>6, <3>1
    <3> QED BY <1>3, <2>2, <3>1, <3>2
  <2>3. i <= offset + n \/ i > offset + n
    BY <1>1
  <2> QED BY <2>1, <2>2, <2>3
<1>9. Copied(data, offset, bytes) = q \o c
  BY DEF Copied, q, a, c
<1> QED BY <1>6, <1>7, <1>8, <1>9 DEF L, n

LEMMA LineStep ==
    ASSUME NEW V, NEW line \in HexLine(V), NEW file \in HexState(V)
    PROVE  /\ GoodLine(line) =>
                 Step(line, file) =
                     [data |-> Copied(file.data, file.offset, SubSeq(line.pairs, 1, line.count)),
                      offset |-> file.offset + line.count, size |-> file.size + line.count,
                      parsed |-> line.count, ok |-> file.ok]
           /\ ~GoodLine(line) =>
                 /\ ~Step(line, file).ok /\ Step(line, file).data = file.data
                 /\ Step(line, file).size \in Nat /\ Step(line, file).size >= file.size
<1> DEFINE read == ParseHexline(line, file)
           bytes == SubSeq(line.pairs, 1, line.count)
           copy == Copied(file.data, file.offset, bytes)
<1>1. line.count \in Nat /\ LineMax \in Nat /\ file.size \in Nat /\ file.parsed \in Nat
  BY HexFileAssumption DEF HexLine, HexState
<1>2. file = [data |-> file.data, offset |-> file.offset, size |-> file.size,
              parsed |-> file.parsed, ok |-> file.ok]
  BY DEF HexState
<1>3. Step(line, file) = [read EXCEPT !.offset = @ + read.parsed, !.size = @ + read.parsed]
  BY DEF Step
<1>4. CASE GoodLine(line)
  <2>1. read = [file EXCEPT !.data = copy, !.parsed = line.count]
    BY <1>1, <1>4 DEF GoodLine, ParseHexline
  <2> HIDE DEF copy, read
  <2>2. read = [data |-> copy, offset |-> file.offset, size |-> file.size,
                parsed |-> line.count, ok |-> file.ok]
    BY <1>2, <2>1
  <2>3. Step(line, file) = [data |-> copy, offset |-> file.offset + line.count,
                            size |-> file.size + line.count,
                            parsed |-> line.count, ok |-> file.ok]
    BY <1>3, <2>2
  <2> QED BY <1>4, <2>3 DEF copy
<1>5. CASE ~GoodLine(line)
  <2>1. \/ line.count > LineMax /\ read = [file EXCEPT !.ok = FALSE]
        \/ line.count <= LineMax /\ ~Readable(line) /\ read = [file EXCEPT !.ok = FALSE, !.parsed = 0]
    <3>1. CASE line.count > LineMax
      <4>1. ~(line.count <= LineMax)
        BY <1>1, <3>1
      <4>2. read = [file EXCEPT !.ok = FALSE]
        BY <3>1, <4>1 DEF ParseHexline
      <4> QED BY <3>1, <4>2
    <3>2. CASE ~(line.count > LineMax)
      <4>1. line.count <= LineMax /\ ~Readable(line)
        BY <1>1, <1>5, <3>2 DEF GoodLine
      <4>2. read = [file EXCEPT !.ok = FALSE, !.parsed = 0]
        BY <3>2, <4>1 DEF ParseHexline
      <4> QED BY <4>1, <4>2
    <3> QED BY <3>1, <3>2
  <2> HIDE DEF read
  <2>2. PICK p \in Nat : read = [data |-> file.data, offset |-> file.offset, size |-> file.size,
                                 parsed |-> p, ok |-> FALSE]
    <3>1. CASE read = [file EXCEPT !.ok = FALSE]
      BY <1>1, <1>2, <3>1
    <3>2. CASE read = [file EXCEPT !.ok = FALSE, !.parsed = 0]
      BY <1>2, <3>2
    <3> QED BY <2>1, <3>1, <3>2
  <2>3. Step(line, file) = [data |-> file.data, offset |-> file.offset + p,
                            size |-> file.size + p, parsed |-> p, ok |-> FALSE]
    BY <1>3, <2>2
  <2>4. /\ ~Step(line, file).ok /\ Step(line, file).data = file.data
        /\ Step(line, file).size = file.size + p
    BY <2>3
  <2>5. file.size + p \in Nat /\ file.size + p >= file.size
    BY <1>1, <2>2
  <2> QED BY <1>5, <2>4, <2>5
<1> QED BY <1>4, <1>5

\* The recursive function of HexfileProcess, for the first N lines.
IsAfter(g, lines, data, N) ==
    g = [n \in 0 .. N |->
            IF n = 0 THEN [data |-> data, offset |-> 0, size |-> 0, parsed |-> 0, ok |-> TRUE]
            ELSE IF g[n - 1].ok THEN Step(lines[n], g[n - 1]) ELSE g[n - 1]]

LEMMA AfterExists ==
    ASSUME NEW lines, NEW data, NEW N \in Nat
    PROVE  \E g : IsAfter(g, lines, data, N)
<1> DEFINE S == {n \in Nat : \E g : IsAfter(g, lines, data, n)}
           first == [data |-> data, offset |-> 0, size |-> 0, parsed |-> 0, ok |-> TRUE]
<1>1. 0 \in S
  <2>1. IsAfter([n \in 0 .. 0 |-> first], lines, data, 0)
    BY DEF IsAfter
  <2> QED BY <2>1
<1>2. ASSUME NEW n \in S PROVE n + 1 \in S
  <2>1. PICK g : IsAfter(g, lines, data, n)
    OBVIOUS
  <2> DEFINE Following(k, f) == IF f.ok THEN Step(lines[k], f) ELSE f
             v == Following(n + 1, g[n])
             h == [k \in 0 .. n + 1 |-> IF k = n + 1 THEN v ELSE g[k]]
             t == [k \in 0 .. n + 1 |-> IF k = 0 THEN first ELSE Following(k, h[k - 1])]
  <2>2. ASSUME NEW k \in 0 .. n + 1 PROVE h[k] = t[k]
    <3>1. CASE k = n + 1
      <4>1. k # 0 /\ k - 1 = n /\ n \in 0 .. n + 1 /\ n # n + 1
        BY <3>1
      <4>2. h[k] = v /\ h[k - 1] = g[n]
        BY <3>1, <4>1
      <4>3. t[k] = Following(k, h[k - 1])
        BY <4>1
      <4> HIDE DEF h, t
      <4> QED BY <3>1, <4>2, <4>3
    <3>2. CASE k # n + 1
      <4>1. k \in 0 .. n
        BY <3>2
      <4>2. h[k] = g[k] /\ g[k] = IF k = 0 THEN first ELSE Following(k, g[k - 1])
        BY <2>1, <4>1, <3>2 DEF IsAfter
      <4>3. k # 0 => h[k - 1] = g[k - 1]
        BY <4>1
      <4>4. t[k] = IF k = 0 THEN first ELSE Following(k, h[k - 1])
        OBVIOUS
      <4> HIDE DEF h, t, first
      <4> QED BY <4>2, <4>3, <4>4
    <3> QED BY <3>1, <3>2
  <2>3. h = t
    BY <2>2
  <2>4. IsAfter(h, lines, data, n + 1)
    BY <2>3 DEF IsAfter
  <2> QED BY <2>4
<1> HIDE DEF S
<1>3. N \in S
  BY <1>1, <1>2, SetInduction DEF S
<1> QED BY <1>3 DEF S

LEMMA ProcessUnfolds ==
    ASSUME NEW lines, NEW data, Len(lines) \in Nat
    PROVE  \E g : /\ IsAfter(g, lines, data, Len(lines))
                  /\ HexfileProcess(lines, data).data = g[Len(lines)].data
                  /\ HexfileProcess(lines, data).size =
                         (g[Len(lines)].size \div PageBytes + 1) * PageBytes
<1> DEFINE u == CHOOSE g : g =
                    [n \in 0 .. Len(lines) |->
                        IF n = 0 THEN [data |-> data, offset |-> 0, size |-> 0, parsed |-> 0, ok |-> TRUE]
                        ELSE IF g[n - 1].ok THEN Step(lines[n], g[n - 1]) ELSE g[n - 1]]
<1>1. IsAfter(u, lines, data, Len(lines))
  <2>1. PICK g : IsAfter(g, lines, data, Len(lines))
    BY AfterExists
  <2>2. IsAfter(CHOOSE f : IsAfter(f, lines, data, Len(lines)), lines, data, Len(lines))
    BY <2>1, Zenon
  <2>3. (CHOOSE f : IsAfter(f, lines, data, Len(lines))) = u
    BY DEF IsAfter
  <2> HIDE DEF u
  <2> QED BY <2>2, <2>3
<1>2. HexfileProcess(lines, data) =
          [data |-> u[Len(lines)].data, size |-> (u[Len(lines)].size \div PageBytes + 1) * PageBytes]
  BY DEF HexfileProcess
<1> HIDE DEF u
<1> QED BY <1>1, <1>2

\* The good part is where the first bad line is.
LEMMA GoodPartIs ==
    ASSUME NEW T, NEW lines \in Seq(T)
    PROVE  \E G \in 0 .. Len(lines) :
              /\ GoodPart(lines) = SubSeq(lines, 1, G)
              /\ \A k \in 1 .. G : GoodLine(lines[k])
              /\ G < Len(lines) => ~GoodLine(lines[G + 1])
<1> DEFINE N == Len(lines)
           bad == {n \in 1 .. N : ~GoodLine(lines[n])}
<1>1. N \in Nat
  OBVIOUS
<1>2. CASE bad = {}
  <2>1. GoodPart(lines) = lines
    BY <1>2 DEF GoodPart
  <2>2. SubSeq(lines, 1, N) = lines
    BY SubSeqFull
  <2>3. \A k \in 1 .. N : GoodLine(lines[k])
    BY <1>2
  <2> HIDE DEF N
  <2>4. N \in 0 .. N /\ ~(N < N)
    BY <1>1
  <2> QED BY <2>1, <2>2, <2>3, <2>4 DEF N
<1>3. CASE bad # {}
  <2>1. PICK m \in bad : \A k \in bad : m <= k
    <3>1. bad \in SUBSET Nat
      OBVIOUS
    <3> HIDE DEF bad
    <3> QED BY <1>3, <3>1, LeastNatural
  <2> DEFINE first == CHOOSE n \in bad : \A k \in bad : n <= k
  <2>2. first \in bad /\ \A k \in bad : first <= k
    BY <2>1
  <2>3. GoodPart(lines) = SubSeq(lines, 1, first - 1)
    BY <1>3 DEF GoodPart
  <2> HIDE DEF first
  <2>4. first \in 1 .. N /\ ~GoodLine(lines[first])
    BY <2>2
  <2>5. ASSUME NEW k \in 1 .. first - 1 PROVE GoodLine(lines[k])
    <3>1. k \in 1 .. N /\ ~(first <= k)
      BY <1>1, <2>4
    <3> QED BY <2>2, <3>1
  <2> DEFINE G == first - 1
  <2>6. G \in 0 .. N /\ G + 1 = first
    BY <1>1, <2>4
  <2> QED BY <2>3, <2>4, <2>5, <2>6
<1> QED BY <1>2, <1>3

\* The file as it is after the first n lines, all of them good.
LinesRead(V, lines, data, n, f) ==
    /\ f \in HexState(V) /\ f.ok /\ f.size = f.offset /\ Len(f.data) = Len(data)
    /\ n < Len(lines) => lines[n + 1].address = f.offset
    /\ f.offset <= LineMax * n
    /\ \A k \in 1 .. n :
           /\ lines[k].address + lines[k].count <= f.offset
           /\ \A i \in 1 .. lines[k].count : f.data[lines[k].address + i] = lines[k].pairs[i]
    /\ \A i \in 1 .. Len(data) : i > f.offset => f.data[i] = data[i]
    /\ \A a \in 0 .. f.offset - 1 : \E k \in 1 .. n : Covers(lines[k], a)

LEMMA LinesStart ==
    ASSUME NEW V, NEW lines \in Seq(HexLine(V)), NEW data \in Seq(V), Consecutive(lines)
    PROVE  LinesRead(V, lines, data, 0,
               [data |-> data, offset |-> 0, size |-> 0, parsed |-> 0, ok |-> TRUE])
<1> DEFINE f == [data |-> data, offset |-> 0, size |-> 0, parsed |-> 0, ok |-> TRUE]
<1>1. f \in HexState(V)
  BY DEF HexState
<1>2. f.ok /\ f.size = 0 /\ f.offset = 0 /\ f.data = data
  OBVIOUS
<1>3. Len(lines) \in Nat /\ LineMax * 0 = 0
  BY HexFileAssumption
<1>4. 0 < Len(lines) => lines[0 + 1].address = 0
  BY <1>3 DEF Consecutive
<1> HIDE DEF f
<1>5. f.offset <= LineMax * 0
  BY <1>2, <1>3
<1>6. \A a \in 0 .. f.offset - 1 : FALSE
  BY <1>2
<1> QED BY <1>1, <1>2, <1>4, <1>5, <1>6 DEF LinesRead, f

LEMMA LinesNext ==
    ASSUME NEW V, NEW lines \in Seq(HexLine(V)), NEW data \in Seq(V), Consecutive(lines),
           NEW n \in Nat, n < Len(lines), NEW f, LinesRead(V, lines, data, n, f),
           GoodLine(lines[n + 1]),
           lines[n + 1].address + lines[n + 1].count <= Len(data)
    PROVE  LinesRead(V, lines, data, n + 1, Step(lines[n + 1], f))
<1> DEFINE line == lines[n + 1]
           c == line.count
           o == f.offset
           bytes == SubSeq(line.pairs, 1, line.count)
           new == Copied(f.data, f.offset, bytes)
           h == Step(line, f)
<1>1. /\ line \in HexLine(V) /\ c \in Nat /\ line.count = c /\ line.address = o /\ o \in Nat
      /\ line.pairs \in Seq(V) /\ c <= LineMax /\ c <= Len(line.pairs)
  <2>1. n + 1 \in 1 .. Len(lines)
    OBVIOUS
  <2>2. line \in HexLine(V)
    BY <2>1
  <2> QED BY <2>2 DEF HexLine, HexState, LinesRead, GoodLine, Readable
<1>2. bytes \in Seq(V) /\ Len(bytes) = c /\ \A i \in 1 .. c : bytes[i] = line.pairs[i]
  BY <1>1
<1>3. f \in HexState(V) /\ f.data \in Seq(V) /\ Len(f.data) = Len(data) /\ f.ok /\ f.size = o
  BY DEF LinesRead, HexState
<1>4. o + c <= Len(data) /\ Len(data) \in Nat
  BY <1>1
<1> HIDE DEF line, c, o, bytes, new, h
<1>5. /\ new \in Seq(V) /\ Len(new) = Len(data)
      /\ \A i \in 1 .. Len(data) :
             new[i] = IF i <= o \/ i > o + c THEN f.data[i] ELSE bytes[i - o]
  <2>1. o + Len(bytes) <= Len(f.data) /\ new = Copied(f.data, o, bytes)
    BY <1>2, <1>3, <1>4 DEF new, o
  <2>2. /\ new \in Seq(V) /\ Len(new) = Len(f.data)
        /\ \A i \in 1 .. Len(f.data) :
               new[i] = IF i <= o \/ i > o + Len(bytes) THEN f.data[i] ELSE bytes[i - o]
    <3> DEFINE d == f.data
    <3>1. d \in Seq(V) /\ o \in Nat /\ bytes \in Seq(V) /\ o + Len(bytes) <= Len(d)
      BY <1>1, <1>2, <1>3, <2>1
    <3> HIDE DEF d
    <3>2. /\ Copied(d, o, bytes) \in Seq(V)
          /\ Len(Copied(d, o, bytes)) = Len(d)
          /\ \A i \in 1 .. Len(d) :
                 Copied(d, o, bytes)[i] =
                     IF i <= o \/ i > o + Len(bytes) THEN d[i] ELSE bytes[i - o]
      BY <3>1, CopiedType
    <3> QED BY <2>1, <3>2 DEF d
  <2> QED BY <1>2, <1>3, <2>2
<1>6. h = [data |-> new, offset |-> o + c, size |-> o + c, parsed |-> c, ok |-> f.ok]
  <2>1. GoodLine(line)
    BY DEF line
  <2>2. h = [data |-> Copied(f.data, f.offset, SubSeq(line.pairs, 1, line.count)),
             offset |-> f.offset + line.count, size |-> f.size + line.count,
             parsed |-> line.count, ok |-> f.ok]
    BY <1>1, <1>3, <2>1, LineStep DEF h
  <2>3. f.offset = o /\ line.count = c /\ Copied(f.data, f.offset, SubSeq(line.pairs, 1, line.count)) = new
    BY DEF o, c, new, bytes
  <2> QED BY <1>3, <2>2, <2>3
<1>7. h.data = new /\ h.offset = o + c /\ h.size = o + c /\ h.ok /\ h \in HexState(V)
  BY <1>1, <1>3, <1>5, <1>6 DEF HexState
<1>8. n + 1 < Len(lines) => lines[(n + 1) + 1].address = o + c
  <2>1. n + 1 < Len(lines) => n + 1 \in 1 .. Len(lines) - 1
    OBVIOUS
  <2> QED BY <1>1, <2>1 DEF Consecutive, line
<1>9. o + c <= LineMax * (n + 1)
  <2>1. LineMax * (n + 1) = LineMax * n + LineMax /\ LineMax * n \in Nat /\ LineMax \in Nat
    BY HexFileAssumption
  <2>2. o <= LineMax * n
    BY DEF LinesRead, o
  <2> QED BY <1>1, <2>1, <2>2
<1>10. ASSUME NEW k \in 1 .. n + 1
       PROVE  /\ lines[k].address + lines[k].count <= o + c
              /\ \A i \in 1 .. lines[k].count : new[lines[k].address + i] = lines[k].pairs[i]
  <2>1. lines[k].address \in Nat /\ lines[k].count \in Nat
    <3>1. k \in 1 .. Len(lines)
      OBVIOUS
    <3>2. lines[k] \in HexLine(V)
      BY <3>1
    <3> QED BY <3>2 DEF HexLine
  <2>2. CASE k = n + 1
    <3>1. ASSUME NEW i \in 1 .. c PROVE new[o + i] = line.pairs[i]
      <4>1. o + i \in 1 .. Len(data) /\ ~(o + i <= o) /\ ~(o + i > o + c) /\ (o + i) - o = i
        BY <1>1, <1>4
      <4> QED BY <1>2, <1>5, <4>1
    <3> QED BY <1>1, <2>2, <3>1 DEF line
  <2>3. CASE k # n + 1
    <3>1. k \in 1 .. n
      BY <2>3
    <3>2. /\ lines[k].address + lines[k].count <= o
          /\ \A i \in 1 .. lines[k].count : f.data[lines[k].address + i] = lines[k].pairs[i]
      BY <3>1 DEF LinesRead, o
    <3>3. ASSUME NEW i \in 1 .. lines[k].count
          PROVE  new[lines[k].address + i] = lines[k].pairs[i]
      <4> DEFINE b == lines[k].address
                 m == lines[k].count
                 L == Len(data)
      <4>1. b + i \in 1 .. L /\ b + i <= o
        <5>1. b \in Nat /\ m \in Nat /\ b + m <= o /\ o + c <= L /\ L \in Nat /\ i \in 1 .. m
          BY <1>4, <2>1, <3>2
        <5>2. o \in Nat /\ c \in Nat
          BY <1>1
        <5>3. \A x, y, u, v, w \in Nat :
                 w \in 1 .. y /\ x + y <= u /\ u + v <= L => x + w \in 1 .. L /\ x + w <= u
          BY <5>1
        <5> HIDE DEF b, m, L
        <5> QED BY <5>1, <5>2, <5>3
      <4> QED BY <1>5, <3>2, <4>1
    <3>4. lines[k].address + lines[k].count <= o + c
      BY <1>1, <2>1, <3>2
    <3> QED BY <3>3, <3>4
  <2> QED BY <2>2, <2>3
<1>11. ASSUME NEW i \in 1 .. Len(data), i > o + c PROVE new[i] = data[i]
  <2>1. i > o
    BY <1>1, <1>11
  <2> QED BY <1>5, <1>11, <2>1 DEF LinesRead, o
<1>12. ASSUME NEW a \in 0 .. (o + c) - 1 PROVE \E k \in 1 .. n + 1 : Covers(lines[k], a)
  <2>1. CASE a < o
    <3>1. a \in 0 .. o - 1
      BY <1>1, <2>1
    <3>2. PICK k \in 1 .. n : Covers(lines[k], a)
      BY <3>1 DEF LinesRead, o
    <3> QED BY <3>2
  <2>2. CASE ~(a < o)
    <3>1. a \in o .. o + c - 1
      BY <1>1, <2>2
    <3>2. Covers(lines[n + 1], a)
      BY <1>1, <3>1 DEF Covers, line
    <3> QED BY <3>2
  <2> QED BY <2>1, <2>2
<1>13. LinesRead(V, lines, data, n + 1, h)
  BY <1>5, <1>7, <1>8, <1>9, <1>10, <1>11, <1>12 DEF LinesRead
<1> QED BY <1>13 DEF h, line

\* What is left of the lines when the file is read: the good part, and the rest of the
\* file changes nothing but the size.
LEMMA FileRead ==
    ASSUME NEW V, NEW lines \in Seq(HexLine(V)), NEW data \in Seq(V),
           Consecutive(lines), Fitting(lines, data),
           NEW G \in 0 .. Len(lines), GoodPart(lines) = SubSeq(lines, 1, G),
           \A k \in 1 .. G : GoodLine(lines[k]),
           G < Len(lines) => ~GoodLine(lines[G + 1]),
           NEW g, IsAfter(g, lines, data, Len(lines))
    PROVE  /\ LinesRead(V, lines, data, G, g[G])
           /\ g[Len(lines)].data = g[G].data
           /\ g[Len(lines)].size \in Nat /\ g[Len(lines)].size >= g[G].size
<1> DEFINE N == Len(lines)
           S == {n \in Nat : n <= G => LinesRead(V, lines, data, n, g[n])}
           R == {j \in Nat : G + 1 + j <= N =>
                    /\ ~g[G + 1 + j].ok /\ g[G + 1 + j].data = g[G].data
                    /\ g[G + 1 + j].size \in Nat /\ g[G + 1 + j].size >= g[G].size}
<1>1. N \in Nat /\ G \in Nat /\ G <= N
  OBVIOUS
<1>2. g[0] = [data |-> data, offset |-> 0, size |-> 0, parsed |-> 0, ok |-> TRUE]
  BY <1>1 DEF IsAfter
<1>3. ASSUME NEW n \in 0 .. N - 1
      PROVE  g[n + 1] = IF g[n].ok THEN Step(lines[n + 1], g[n]) ELSE g[n]
  <2>1. n + 1 \in 0 .. N /\ n + 1 # 0 /\ (n + 1) - 1 = n
    BY <1>1
  <2>2. g[n + 1] = IF g[(n + 1) - 1].ok THEN Step(lines[n + 1], g[(n + 1) - 1]) ELSE g[(n + 1) - 1]
    BY <2>1 DEF IsAfter
  <2> QED BY <2>1, <2>2
<1>4. 0 \in S
  BY <1>2, LinesStart
<1>5. ASSUME NEW n \in S PROVE n + 1 \in S
  <2>1. CASE n + 1 <= G
    <3>1. n <= G /\ n < Len(lines) /\ n \in 0 .. N - 1 /\ n + 1 \in 1 .. G
      BY <1>1, <2>1
    <3>2. LinesRead(V, lines, data, n, g[n])
      BY <3>1
    <3>3. GoodLine(lines[n + 1])
      BY <3>1
    <3>4. lines[n + 1].address + lines[n + 1].count <= Len(data)
      <4>1. DOMAIN SubSeq(lines, 1, G) = 1 .. G
        BY <1>1
      <4> QED BY <3>1, <4>1 DEF Fitting
    <3>5. g[n + 1] = Step(lines[n + 1], g[n])
      BY <1>3, <3>1, <3>2 DEF LinesRead
    <3>6. LinesRead(V, lines, data, n + 1, Step(lines[n + 1], g[n]))
      BY <3>1, <3>2, <3>3, <3>4, LinesNext
    <3> QED BY <3>5, <3>6
  <2>2. CASE ~(n + 1 <= G)
    BY <2>2
  <2> QED BY <2>1, <2>2
<1> HIDE DEF S
<1>6. G \in S
  <2>1. S \in SUBSET Nat
    BY DEF S
  <2> QED BY <1>1, <1>4, <1>5, <2>1, SetInduction
<1>7. LinesRead(V, lines, data, G, g[G])
  BY <1>1, <1>6 DEF S
<1>8. g[G] \in HexState(V) /\ g[G].ok /\ g[G].size \in Nat
  BY <1>7 DEF LinesRead, HexState
<1>9. 0 \in R
  <2>1. CASE G + 1 <= N
    <3>1. G \in 0 .. N - 1 /\ G < Len(lines) /\ G + 1 \in 1 .. Len(lines)
      BY <1>1, <2>1
    <3>2. g[G + 1] = Step(lines[G + 1], g[G]) /\ ~GoodLine(lines[G + 1])
      BY <1>3, <1>8, <3>1
    <3>3. lines[G + 1] \in HexLine(V)
      BY <3>1
    <3>4. /\ ~Step(lines[G + 1], g[G]).ok /\ Step(lines[G + 1], g[G]).data = g[G].data
          /\ Step(lines[G + 1], g[G]).size \in Nat /\ Step(lines[G + 1], g[G]).size >= g[G].size
      BY <1>8, <3>2, <3>3, LineStep
    <3>5. G + 1 + 0 = G + 1
      BY <1>1
    <3> QED BY <3>2, <3>4, <3>5
  <2>2. CASE ~(G + 1 <= N)
    <3>1. G + 1 + 0 = G + 1
      BY <1>1
    <3> QED BY <2>2, <3>1
  <2> QED BY <2>1, <2>2
<1>10. ASSUME NEW j \in R PROVE j + 1 \in R
  <2>1. CASE G + 1 + (j + 1) <= N
    <3>1. G + 1 + j <= N /\ G + 1 + j \in 0 .. N - 1 /\ G + 1 + (j + 1) = (G + 1 + j) + 1
      BY <1>1, <2>1
    <3>2. /\ ~g[G + 1 + j].ok /\ g[G + 1 + j].data = g[G].data
          /\ g[G + 1 + j].size \in Nat /\ g[G + 1 + j].size >= g[G].size
      BY <3>1
    <3>3. g[(G + 1 + j) + 1] = g[G + 1 + j]
      BY <1>3, <3>1, <3>2
    <3>4. g[G + 1 + (j + 1)] = g[G + 1 + j]
      BY <3>1, <3>3
    <3> QED BY <3>2, <3>4
  <2>2. CASE ~(G + 1 + (j + 1) <= N)
    BY <2>2
  <2> QED BY <2>1, <2>2
<1> HIDE DEF R
<1>11. \A j \in Nat : j \in R
  <2>1. R \in SUBSET Nat
    BY DEF R
  <2> QED BY <1>9, <1>10, <2>1, SetInduction
<1>12. g[N].data = g[G].data /\ g[N].size \in Nat /\ g[N].size >= g[G].size
  <2>1. CASE G = N
    BY <1>8, <2>1
  <2>2. CASE G # N
    <3>1. N - G - 1 \in Nat /\ G + 1 + (N - G - 1) = N
      BY <1>1, <2>2
    <3>2. N - G - 1 \in R
      BY <1>11, <3>1
    <3> HIDE DEF N
    <3>3. G + 1 + (N - G - 1) <= N
      BY <1>1, <3>1
    <3>4. g[G + 1 + (N - G - 1)].data = g[G].data
          /\ g[G + 1 + (N - G - 1)].size \in Nat /\ g[G + 1 + (N - G - 1)].size >= g[G].size
      BY <3>2, <3>3 DEF R
    <3> QED BY <3>1, <3>4
  <2> QED BY <2>1, <2>2
<1> QED BY <1>7, <1>12

\* A whole number of pages, with room to spare.
LEMMA Pages ==
    ASSUME NEW size \in Nat
    PROVE  /\ ((size \div PageBytes + 1) * PageBytes) % PageBytes = 0
           /\ size < (size \div PageBytes + 1) * PageBytes
<1> DEFINE P == PageBytes
           q == size \div PageBytes
           x == (q + 1) * P
           d == x \div P
           m == x % P
<1>1. P \in Nat /\ P > 0
  BY HexFileAssumption
<1>2. q \in Nat /\ q * P <= size /\ size < q * P + P
  BY <1>1
<1> HIDE DEF q
<1>3. x \in Nat /\ x = q * P + P
  BY <1>1, <1>2
<1>4. size < x
  <2>1. q * P \in Nat
    BY <1>1, <1>2
  <2> HIDE DEF P
  <2> QED BY <1>1, <1>2, <1>3, <2>1
<1>5. d \in Int /\ m \in 0 .. P - 1 /\ x = P * d + m
  <2> HIDE DEF x
  <2>1. x \in Int
    BY <1>3
  <2> QED BY <1>1, <2>1
<1> HIDE DEF d, m
<1>6. m = P * ((q + 1) - d)
  <2>1. P * ((q + 1) - d) = (q + 1) * P - P * d
    BY <1>1, <1>2, <1>5
  <2> QED BY <1>1, <1>2, <1>3, <1>5, <2>1
<1>7. (q + 1) - d = 0
  <2> DEFINE e == (q + 1) - d
  <2>1. e \in Int /\ m = P * e
    BY <1>2, <1>5, <1>6
  <2> HIDE DEF e
  <2>2. ASSUME e >= 1 PROVE FALSE
    <3>1. P * e >= P
      BY <1>1, <2>1, <2>2
    <3> QED BY <1>1, <1>5, <2>1, <3>1
  <2>3. ASSUME e <= -1 PROVE FALSE
    <3>1. P * e <= 0 - P
      BY <1>1, <2>1, <2>3
    <3> QED BY <1>1, <1>5, <2>1, <3>1
  <2>4. e = 0
    BY <2>1, <2>2, <2>3
  <2> QED BY <2>4 DEF e
<1>8. m = 0
  BY <1>1, <1>6, <1>7
<1> QED BY <1>4, <1>8 DEF q, m

(* Of a file whose addresses are consecutive hexfile_process has every byte  *)
(* of the readable part at its address, nothing else, and a whole number of  *)
(* pages: for lines of any number and length that keep to the memory.       *)
THEOREM HexFilesRead ==
    ASSUME NEW V, NEW lines \in Seq(HexLine(V)), NEW data \in Seq(V), Fitting(lines, data)
    PROVE  Reads(lines, data)
<1> SUFFICES ASSUME Consecutive(lines) PROVE Reads(lines, data)
  BY DEF Reads
<1> DEFINE file == HexfileProcess(lines, data)
           good == GoodPart(lines)
<1>1. PICK G \in 0 .. Len(lines) :
         /\ good = SubSeq(lines, 1, G)
         /\ \A k \in 1 .. G : GoodLine(lines[k])
         /\ G < Len(lines) => ~GoodLine(lines[G + 1])
  BY GoodPartIs
<1>2. PICK g : /\ IsAfter(g, lines, data, Len(lines))
               /\ file.data = g[Len(lines)].data
               /\ file.size = (g[Len(lines)].size \div PageBytes + 1) * PageBytes
  BY ProcessUnfolds
<1> DEFINE f == g[G]
           last == g[Len(lines)]
<1>3. LinesRead(V, lines, data, G, f) /\ last.data = f.data /\ last.size \in Nat /\ last.size >= f.size
  BY <1>1, <1>2, FileRead
<1> HIDE DEF file, f, last
<1>4. /\ f \in HexState(V) /\ f.size = f.offset /\ f.offset \in Nat /\ Len(f.data) = Len(data)
      /\ f.offset <= LineMax * G
  BY <1>3 DEF LinesRead, HexState
<1>5. /\ Len(good) = G /\ DOMAIN good = 1 .. G
      /\ \A k \in 1 .. G : good[k] = lines[k]
  BY <1>1
<1> HIDE DEF good
<1>6. ASSUME NEW k \in 1 .. G
      PROVE  /\ lines[k].address \in Nat /\ lines[k].count \in Nat
             /\ lines[k].address + lines[k].count <= f.offset
             /\ \A i \in 1 .. lines[k].count : f.data[lines[k].address + i] = lines[k].pairs[i]
  <2>1. lines[k] \in HexLine(V)
    OBVIOUS
  <2> QED BY <1>3, <2>1 DEF LinesRead, HexLine
<1>7. file.data = f.data
  BY <1>2, <1>3 DEF last
<1>8. ASSUME NEW a \in Bytes(good) PROVE a \in Nat /\ a < f.offset
  <2>1. PICK k \in 1 .. G : Covers(lines[k], a)
    BY <1>5 DEF Bytes
  <2>2. a \in lines[k].address .. lines[k].address + lines[k].count - 1
    BY <2>1 DEF Covers
  <2> DEFINE b == lines[k].address
             c == lines[k].count
  <2>3. b \in Nat /\ c \in Nat /\ b + c <= f.offset /\ a \in b .. b + c - 1
    BY <1>6, <2>2
  <2> HIDE DEF b, c
  <2> QED BY <1>4, <2>3
<1>9. ASSUME NEW a \in 0 .. Len(data) - 1
      PROVE  file.data[a + 1] = IF a \in Bytes(good) THEN ByteAt(good, a) ELSE data[a + 1]
  <2>1. CASE a \in Bytes(good)
    <3> DEFINE k == CHOOSE n \in DOMAIN good : Covers(good[n], a)
    <3>1. k \in DOMAIN good /\ Covers(good[k], a)
      BY <2>1 DEF Bytes
    <3>2. ByteAt(good, a) = good[k].pairs[a - good[k].address + 1]
      BY DEF ByteAt
    <3> HIDE DEF k
    <3>3. k \in 1 .. G /\ Covers(lines[k], a) /\ ByteAt(good, a) = lines[k].pairs[a - lines[k].address + 1]
      BY <1>5, <3>1, <3>2
    <3> DEFINE b == lines[k].address
               c == lines[k].count
    <3>4. b \in Nat /\ c \in Nat /\ a \in b .. b + c - 1
          /\ \A i \in 1 .. c : f.data[b + i] = lines[k].pairs[i]
      BY <1>6, <3>3 DEF Covers
    <3>5. ByteAt(good, a) = lines[k].pairs[a - b + 1]
      BY <3>3
    <3> HIDE DEF b, c
    <3>6. a - b + 1 \in 1 .. c /\ b + (a - b + 1) = a + 1
      BY <3>4
    <3>7. f.data[b + (a - b + 1)] = lines[k].pairs[a - b + 1]
      BY <3>4, <3>6
    <3> QED BY <1>7, <2>1, <3>5, <3>6, <3>7
  <2>2. CASE a \notin Bytes(good)
    <3>1. ~(a < f.offset)
      <4> SUFFICES ASSUME a < f.offset PROVE FALSE
        OBVIOUS
      <4>1. a \in 0 .. f.offset - 1
        BY <1>4
      <4>2. PICK k \in 1 .. G : Covers(lines[k], a)
        BY <1>3, <4>1 DEF LinesRead
      <4>3. a \in 0 .. LineMax * Len(good)
        <5>1. LineMax * G \in Nat
          BY HexFileAssumption
        <5> HIDE DEF f
        <5> QED BY <1>4, <1>5, <4>1, <5>1
      <4>4. \E n \in DOMAIN good : Covers(good[n], a)
        BY <1>5, <4>2
      <4> QED BY <2>2, <4>3, <4>4 DEF Bytes
    <3>2. a + 1 \in 1 .. Len(data) /\ a + 1 > f.offset
      BY <1>4, <3>1
    <3>3. f.data[a + 1] = data[a + 1]
      BY <1>3, <3>2 DEF LinesRead
    <3> QED BY <1>7, <2>2, <3>3
  <2> QED BY <2>1, <2>2
<1>10. file.size % PageBytes = 0 /\ \A a \in Bytes(good) : a < file.size
  <2>1. last.size \in Nat /\ file.size = (last.size \div PageBytes + 1) * PageBytes
    BY <1>2, <1>3 DEF last
  <2>2. file.size % PageBytes = 0 /\ last.size < file.size
    BY <2>1, Pages
  <2>3. file.size \in Int
    BY <2>1, HexFileAssumption
  <2>4. ASSUME NEW a \in Bytes(good) PROVE a < file.size
    BY <1>3, <1>4, <1>8, <2>1, <2>2, <2>3
  <2> QED BY <2>2, <2>4
<1>11. Len(file.data) = Len(data)
  BY <1>4, <1>7
<1> QED BY <1>9, <1>10, <1>11 DEF Reads, file, good

(* hexfile_process reads every file in use as Reads asks for: for any files  *)
(* whose readable part fits the memory, lengths of line and sizes of page.   *)
THEOREM HexFilesInUse == Misread = {}
<1> SUFFICES ASSUME NEW lines \in Files PROVE Reads(lines, Left)
  BY DEF Misread
<1>1. lines \in Seq(HexLine(Pairs)) /\ Left \in Seq(Pairs) /\ Fitting(lines, Left)
  BY FilesAssumption
<1> QED BY <1>1, HexFilesRead
=============================================================================
