----------------------------- MODULE UartProofs -----------------------------
(***************************************************************************)
(* What the operators of Fifo do to the queue a fifo stands for, the       *)
(* invariants of Uart and its refinement of ByteLink, for every buffer     *)
(* length, set of bytes and bound on the reply.                            *)
(***************************************************************************)
EXTENDS Uart, TLAPS

(* The fifo.                                                               *)

\* Stepping the index or the distance by one is the same move round the buffer.
LEMMA SlotSteps ==
    ASSUME NEW i \in Slot, NEW k \in 0 .. Size - 1
    PROVE  /\ SlotOf(i, k) \in Slot
           /\ SlotOf(i, k + 1) = Advance(SlotOf(i, k))
           /\ SlotOf(Advance(i), k) = SlotOf(i, k + 1)
           /\ Advance(i) \in Slot
BY SizeAssumption DEF SlotOf, Advance, Slot

\* The contents of a consistent fifo are a sequence of Used(f) bytes.
LEMMA ContentsType ==
    ASSUME NEW f, FifoOK(f)
    PROVE  /\ Contents(f) \in Seq(Byte)
           /\ Len(Contents(f)) = Used(f)
           /\ Used(f) \in 0 .. Size
           /\ \A k \in 1 .. Used(f) : Contents(f)[k] = f.buffer[SlotOf(f.tail, k - 1)]
           /\ \A k \in 0 .. Used(f) : SlotOf(f.tail, k) \in Slot
<1>1. Used(f) \in 0 .. Size
  BY SizeAssumption DEF FifoOK, FifoType, Used
<1>2. \A k \in 0 .. Used(f) : SlotOf(f.tail, k) \in Slot
  BY <1>1, SizeAssumption DEF FifoOK, FifoType, Used, Slot, SlotOf
<1>3. \A k \in 1 .. Used(f) : Peek(f, k - 1) \in Byte
  BY <1>1, <1>2, SizeAssumption DEF FifoOK, FifoType, Peek
<1>4. Contents(f) \in [1 .. Used(f) -> Byte]
  BY <1>3 DEF Contents
<1>5. QED
  BY <1>1, <1>2, <1>4 DEF Contents, Peek

\* fifo_init and fifo_clear leave an empty queue.
LEMMA InitEmpty ==
    ASSUME NEW memory \in [Slot -> Byte]
    PROVE  FifoOK(FifoInit(memory)) /\ Contents(FifoInit(memory)) = <<>>
<1>1. FifoOK(FifoInit(memory))
  BY SizeAssumption DEF FifoOK, FifoInit, FifoType, Consistent, SlotOf, Used, Slot
<1>2. Used(FifoInit(memory)) = 0
  BY SizeAssumption DEF FifoInit, Used
<1>3. QED
  BY <1>1, <1>2, ContentsType

LEMMA ClearEmpties ==
    ASSUME NEW f, FifoOK(f)
    PROVE  FifoOK(FifoClear(f)) /\ Contents(FifoClear(f)) = <<>>
BY InitEmpty DEF FifoClear, FifoOK, FifoType

\* The atomic block of fifo_put, entered with room, appends the byte.
LEMMA StoreAppends ==
    ASSUME NEW f, FifoOK(f), ~IsFull(f), NEW b \in Byte
    PROVE  FifoOK(Store(f, b)) /\ Contents(Store(f, b)) = Append(Contents(f), b)
<1> DEFINE g == Store(f, b)
<1> USE SizeAssumption
<1>1. /\ f.head \in Slot /\ f.tail \in Slot /\ f.free \in 1 .. Size
      /\ f.buffer \in [Slot -> Byte]
      /\ f.head = SlotOf(f.tail, Used(f))
  BY DEF FifoOK, FifoType, IsFull, Consistent
<1>2. /\ g.head = Advance(f.head) /\ g.tail = f.tail /\ g.free = f.free - 1
      /\ g.buffer = [f.buffer EXCEPT ![f.head] = b]
      /\ g \in FifoType
  BY <1>1 DEF Store, FifoOK, FifoType, Advance, Slot
<1> HIDE DEF g
<1>3. Used(g) = Used(f) + 1
  BY <1>1, <1>2 DEF Used
<1>4. FifoOK(g)
  <2>1. Used(f) \in 0 .. Size - 1
    BY <1>1 DEF Used
  <2>2. SlotOf(f.tail, Used(f) + 1) = Advance(SlotOf(f.tail, Used(f)))
    BY <1>1, <2>1, SlotSteps
  <2>3. QED
    BY <1>1, <1>2, <1>3, <2>2 DEF FifoOK, Consistent
<1>5. \A k \in 0 .. Used(f) : SlotOf(g.tail, k) = SlotOf(f.tail, k)
  BY <1>2 DEF SlotOf
<1>6. \A k \in 0 .. Used(f) - 1 : SlotOf(f.tail, k) # f.head
  BY <1>1 DEF SlotOf, Used, Slot
<1>7. \A k \in 1 .. Used(f) : Contents(g)[k] = Contents(f)[k]
  <2> TAKE k \in 1 .. Used(f)
  <2>1. Used(f) \in 0 .. Size - 1 /\ k - 1 \in 0 .. Used(f) - 1
    BY <1>1 DEF Used
  <2>2. Contents(g)[k] = g.buffer[SlotOf(g.tail, k - 1)]
    BY <1>3, <1>4, <2>1, ContentsType
  <2>3. /\ Contents(f)[k] = f.buffer[SlotOf(f.tail, k - 1)]
        /\ SlotOf(f.tail, k - 1) \in Slot
    BY <2>1, ContentsType
  <2>4. SlotOf(g.tail, k - 1) = SlotOf(f.tail, k - 1) /\ SlotOf(f.tail, k - 1) # f.head
    BY <1>5, <1>6, <2>1
  <2>5. QED
    BY <1>1, <1>2, <2>2, <2>3, <2>4
<1>8. Contents(g)[Used(f) + 1] = b
  BY <1>1, <1>2, <1>3, <1>4, <1>5, ContentsType
<1>9. Contents(g) = Append(Contents(f), b)
  <2>1. /\ Contents(g) \in Seq(Byte) /\ Append(Contents(f), b) \in Seq(Byte)
        /\ Len(Contents(g)) = Used(f) + 1 /\ Len(Append(Contents(f), b)) = Used(f) + 1
    BY <1>3, <1>4, ContentsType
  <2>2. \A k \in 1 .. Used(f) + 1 : Contents(g)[k] = Append(Contents(f), b)[k]
    BY <1>7, <1>8, ContentsType
  <2>3. QED
    BY <2>1, <2>2
<1>10. QED
  BY <1>4, <1>9 DEF g

\* The atomic block of fifo_get, entered with data, removes the oldest byte.
LEMMA TakeRemoves ==
    ASSUME NEW f, FifoOK(f), ~IsEmpty(f)
    PROVE  /\ FifoOK(Take(f))
           /\ Contents(f) # <<>>
           /\ Contents(Take(f)) = Tail(Contents(f))
           /\ Taken(f) = Head(Contents(f))
           /\ Taken(f) \in Byte
<1> DEFINE g == Take(f)
<1> USE SizeAssumption
<1>1. /\ f.head \in Slot /\ f.tail \in Slot /\ f.free \in 0 .. Size - 1
      /\ f.buffer \in [Slot -> Byte]
      /\ f.head = SlotOf(f.tail, Used(f))
  BY DEF FifoOK, FifoType, IsEmpty, Consistent
<1>2. /\ g.head = f.head /\ g.tail = Advance(f.tail) /\ g.free = f.free + 1
      /\ g.buffer = f.buffer
      /\ g \in FifoType
  BY <1>1 DEF Take, FifoOK, FifoType, Advance, Slot
<1> HIDE DEF g
<1>3. Used(g) = Used(f) - 1 /\ Used(f) \in 1 .. Size
  BY <1>1, <1>2 DEF Used
<1>4. FifoOK(g)
  <2>1. Used(f) - 1 \in 0 .. Size - 1 /\ (Used(f) - 1) + 1 = Used(f)
    BY <1>3
  <2>2. SlotOf(g.tail, Used(f) - 1) = SlotOf(f.tail, Used(f))
    BY <1>1, <1>2, <2>1, SlotSteps
  <2>3. QED
    BY <1>1, <1>2, <1>3, <2>2 DEF FifoOK, Consistent
<1>5. \A k \in 0 .. Used(g) : SlotOf(g.tail, k) = SlotOf(f.tail, k + 1)
  BY <1>1, <1>2, <1>3, SlotSteps
<1>6. \A k \in 1 .. Used(g) : Contents(g)[k] = Contents(f)[k + 1]
  <2> TAKE k \in 1 .. Used(g)
  <2>1. /\ Contents(g)[k] = g.buffer[SlotOf(g.tail, k - 1)]
        /\ Contents(f)[k + 1] = f.buffer[SlotOf(f.tail, (k + 1) - 1)]
    BY <1>3, <1>4, ContentsType
  <2>2. SlotOf(g.tail, k - 1) = SlotOf(f.tail, (k - 1) + 1)
    BY <1>3, <1>5
  <2>3. (k - 1) + 1 = (k + 1) - 1
    BY <1>3
  <2>4. QED
    BY <1>2, <2>1, <2>2, <2>3
<1>7. Contents(f) # <<>> /\ Contents(f) \in Seq(Byte) /\ Contents(g) \in Seq(Byte)
  BY <1>3, <1>4, ContentsType
<1>8. Contents(g) = Tail(Contents(f))
  <2>1. Len(Contents(g)) = Len(Tail(Contents(f))) /\ Len(Contents(g)) = Used(g)
    BY <1>3, <1>4, <1>7, ContentsType
  <2>2. \A k \in 1 .. Used(g) : Contents(g)[k] = Tail(Contents(f))[k]
    BY <1>3, <1>6, <1>7, ContentsType
  <2>3. QED
    BY <1>7, <2>1, <2>2
<1>9. Taken(f) = Head(Contents(f)) /\ Taken(f) \in Byte
  <2>1. Contents(f)[1] = f.buffer[SlotOf(f.tail, 0)]
    BY <1>3, ContentsType
  <2>2. SlotOf(f.tail, 0) = f.tail
    BY <1>1 DEF SlotOf, Slot
  <2>3. QED
    BY <1>1, <1>7, <2>1, <2>2 DEF Taken
<1>10. QED
  BY <1>4, <1>7, <1>8, <1>9 DEF g

-----------------------------------------------------------------------------

(* The inductive invariant: the conjuncts need one another.  OneFeeder     *)
(* keeps the transmit interrupt away while the main loop feeds the         *)
(* register, which is what keeps the fifo from running empty under         *)
(* FirstLoad (TestStaysTrue); NoLostWakeup needs both.                     *)
UartInv == /\ TypeOK /\ FifosConsistent
           /\ TestStaysTrue /\ OneFeeder /\ NoLostWakeup
           /\ pc = "store" => left > 0

\* UartInv says of both fifos that the lemmas of the fifo apply to them.
LEMMA UartInvFifoOK == UartInv => FifoOK(rx) /\ FifoOK(tx)
BY DEF UartInv, TypeOK, FifosConsistent, FifoOK

LEMMA InitInv == Init => UartInv
<1> SUFFICES ASSUME Init PROVE UartInv
  OBVIOUS
<1>1. FifoOK(rx) /\ FifoOK(tx)
  BY UartAssumption, InitEmpty DEF Init
<1>2. TypeOK
  <2>1. transmitting \in BOOLEAN /\ inFrame \in BOOLEAN /\ found \in BOOLEAN
    BY DEF Init
  <2>2. QED
    BY <1>1, <2>1, UartAssumption, SizeAssumption DEF Init, TypeOK, Location, FifoOK
<1>3. IsEmpty(tx)
  BY DEF Init, FifoInit, IsEmpty
<1>4. QED
  BY <1>1, <1>2, <1>3 DEF Init, UartInv, FifosConsistent, FifoOK,
                          TestStaysTrue, OneFeeder, NoLostWakeup

\* What the full and empty tests say after a byte went in or came out.
LEMMA RoomAndData ==
    ASSUME NEW f, FifoOK(f)
    PROVE  /\ ~IsEmpty(f) => ~IsFull(Take(f))
           /\ \A b : ~IsFull(f) => ~IsEmpty(Store(f, b))
           /\ \A b \in Byte : FifoOK(Put(f, b)) /\ ~IsEmpty(Put(f, b))
           /\ IsFull(f) => \A b : Put(f, b) = f
<1>1. f.free \in 0 .. Size
  BY DEF FifoOK, FifoType
<1>2. ~IsEmpty(f) => ~IsFull(Take(f))
  BY <1>1, SizeAssumption DEF IsEmpty, IsFull, Take
<1>3. \A b : ~IsFull(f) => ~IsEmpty(Store(f, b))
  BY <1>1, SizeAssumption DEF IsEmpty, IsFull, Store
<1>4. IsFull(f) => ~IsEmpty(f)
  BY SizeAssumption DEF IsEmpty, IsFull
<1>5. QED
  BY <1>2, <1>3, <1>4, StoreAppends DEF Put

\* The flags hold Booleans after any step.
LEMMA FlagsBoolean ==
    TypeOK /\ [Next]_vars =>
        transmitting' \in BOOLEAN /\ inFrame' \in BOOLEAN /\ found' \in BOOLEAN
BY DEF TypeOK, vars, Next, Main, txVars, rxVars, Restart, Answer,
       ReceiveInterrupt, TransmitInterrupt, ScanByte, ScanDone, FloodTest, ClearGarbage,
       GetTest, GetTake, PutTest, PutStore, WriteStart, FirstTest, FirstLoad

LEMMA InvInductive == UartInv /\ [Next]_vars => UartInv'
<1> SUFFICES ASSUME UartInv, [Next]_vars PROVE UartInv'
  OBVIOUS
<1> USE UartAssumption, SizeAssumption
<1> USE DEF UartInv, TypeOK, FifosConsistent, TestStaysTrue, OneFeeder, NoLostWakeup
<1>0. /\ FifoOK(rx) /\ FifoOK(tx)
      /\ FifoOK(rx') => rx' \in FifoType /\ Consistent(rx')
      /\ FifoOK(tx') => tx' \in FifoType /\ Consistent(tx')
      /\ transmitting' \in BOOLEAN /\ inFrame' \in BOOLEAN /\ found' \in BOOLEAN
  BY UartInvFifoOK, FlagsBoolean DEF FifoOK
<1>1. CASE ReceiveInterrupt
  <2>1. PICK b \in Byte : rx' = Put(rx, b)
    BY <1>1 DEF ReceiveInterrupt
  <2>2. FifoOK(rx') /\ ~IsEmpty(rx') /\ (IsFull(rx) => IsFull(rx'))
    BY <1>0, <2>1, RoomAndData
  <2>3. UNCHANGED <<txVars, pc, offs, inFrame, found, left>>
    BY <1>1 DEF ReceiveInterrupt
  <2>4. TypeOK' /\ FifosConsistent'
    BY <1>0, <2>2, <2>3 DEF txVars
  <2>5. TestStaysTrue' /\ OneFeeder' /\ NoLostWakeup' /\ (pc = "store" => left > 0)'
    BY <2>2, <2>3 DEF txVars
  <2>6. QED
    BY <2>4, <2>5
<1>2. CASE TransmitInterrupt
  <2>1. pc \notin {"first", "load"}
    BY <1>2 DEF TransmitInterrupt
  <2>2. CASE IsEmpty(tx)
    BY <1>0, <1>2, <2>1, <2>2 DEF TransmitInterrupt, rxVars
  <2>3. CASE ~IsEmpty(tx)
    <3>1. FifoOK(tx') /\ ~IsFull(tx') /\ shifting' \in Byte
      BY <1>0, <1>2, <2>3, TakeRemoves, RoomAndData DEF TransmitInterrupt
    <3>2. QED
      BY <1>0, <1>2, <2>1, <2>3, <3>1 DEF TransmitInterrupt, rxVars
  <2>4. QED
    BY <2>2, <2>3
<1>3. CASE ScanByte
  BY <1>0, <1>3 DEF ScanByte, txVars, Used, FifoOK, FifoType
<1>4. CASE ScanDone
  BY <1>0, <1>4 DEF ScanDone, txVars, rxVars, Location
<1>5. CASE FloodTest
  <2>1. TypeOK'
    BY <1>0, <1>5 DEF FloodTest, Restart, txVars, Location
  <2>2. FifosConsistent'
    BY <1>0, <1>5 DEF FloodTest, Restart, txVars, Location
  <2>3. TestStaysTrue' /\ (pc = "store" => left > 0)'
    BY <1>0, <1>5 DEF FloodTest, Restart, txVars, Location
  <2>4. OneFeeder'
    BY <1>0, <1>5 DEF FloodTest, Restart, txVars, Location
  <2>5. NoLostWakeup'
    BY <1>0, <1>5 DEF FloodTest, Restart, txVars, Location
  <2>6. QED
    BY <2>1, <2>2, <2>3, <2>4, <2>5
<1>6. CASE ClearGarbage
  <2>1. TypeOK'
    BY <1>0, <1>6, ClearEmpties DEF ClearGarbage, Restart, txVars, Location
  <2>2. FifosConsistent'
    BY <1>0, <1>6, ClearEmpties DEF ClearGarbage, Restart, txVars, Location
  <2>3. TestStaysTrue' /\ (pc = "store" => left > 0)'
    BY <1>0, <1>6, ClearEmpties DEF ClearGarbage, Restart, txVars, Location
  <2>4. OneFeeder'
    BY <1>0, <1>6, ClearEmpties DEF ClearGarbage, Restart, txVars, Location
  <2>5. NoLostWakeup'
    BY <1>0, <1>6, ClearEmpties DEF ClearGarbage, Restart, txVars, Location
  <2>6. QED
    BY <2>1, <2>2, <2>3, <2>4, <2>5
<1>7. CASE GetTest
  <2>1. TypeOK'
    BY <1>0, <1>7 DEF GetTest, Answer, Restart, txVars, Location
  <2>2. FifosConsistent'
    BY <1>0, <1>7 DEF GetTest, Answer, Restart, txVars, Location
  <2>3. TestStaysTrue' /\ (pc = "store" => left > 0)'
    BY <1>0, <1>7 DEF GetTest, Answer, Restart, txVars, Location
  <2>4. OneFeeder'
    BY <1>0, <1>7 DEF GetTest, Answer, Restart, txVars, Location
  <2>5. NoLostWakeup'
    BY <1>0, <1>7 DEF GetTest, Answer, Restart, txVars, Location
  <2>6. QED
    BY <2>1, <2>2, <2>3, <2>4, <2>5
<1>8. CASE GetTake
  <2>1. FifoOK(rx')
    BY <1>0, <1>8, TakeRemoves DEF GetTake
  <2>2. TypeOK'
    BY <1>0, <1>8, <2>1 DEF GetTake, Answer, Restart, txVars, Location
  <2>3. FifosConsistent'
    BY <1>0, <1>8, <2>1 DEF GetTake, Answer, Restart, txVars, Location
  <2>4. TestStaysTrue' /\ (pc = "store" => left > 0)'
    BY <1>0, <1>8, <2>1 DEF GetTake, Answer, Restart, txVars, Location
  <2>5. OneFeeder'
    BY <1>0, <1>8, <2>1 DEF GetTake, Answer, Restart, txVars, Location
  <2>6. NoLostWakeup'
    BY <1>0, <1>8, <2>1 DEF GetTake, Answer, Restart, txVars, Location
  <2>7. QED
    BY <2>2, <2>3, <2>4, <2>5, <2>6
<1>9. CASE PutTest
  <2>1. TypeOK'
    BY <1>0, <1>9 DEF PutTest, txVars, rxVars, Location
  <2>2. FifosConsistent'
    BY <1>0, <1>9 DEF PutTest, txVars, rxVars, Location
  <2>3. TestStaysTrue' /\ (pc = "store" => left > 0)'
    BY <1>0, <1>9 DEF PutTest, txVars, rxVars, Location
  <2>4. OneFeeder'
    BY <1>0, <1>9 DEF PutTest, txVars, rxVars, Location
  <2>5. NoLostWakeup'
    BY <1>0, <1>9 DEF PutTest, txVars, rxVars, Location
  <2>6. QED
    BY <2>1, <2>2, <2>3, <2>4, <2>5
<1>10. CASE PutStore
  <2>1. FifoOK(tx') /\ ~IsEmpty(tx')
    BY <1>0, <1>10, StoreAppends, RoomAndData DEF PutStore
  <2>2. TypeOK'
    BY <1>0, <1>10, <2>1 DEF PutStore, rxVars, Location
  <2>3. FifosConsistent'
    BY <1>0, <1>10, <2>1 DEF PutStore, rxVars, Location
  <2>4. TestStaysTrue' /\ (pc = "store" => left > 0)'
    BY <1>0, <1>10, <2>1 DEF PutStore, rxVars, Location
  <2>5. OneFeeder'
    BY <1>0, <1>10, <2>1 DEF PutStore, rxVars, Location
  <2>6. NoLostWakeup'
    BY <1>0, <1>10, <2>1 DEF PutStore, rxVars, Location
  <2>7. QED
    BY <2>2, <2>3, <2>4, <2>5, <2>6
<1>11. CASE WriteStart
  <2>1. TypeOK'
    BY <1>0, <1>11 DEF WriteStart, Restart, Location
  <2>2. FifosConsistent'
    BY <1>0, <1>11 DEF WriteStart, Restart, Location
  <2>3. TestStaysTrue' /\ (pc = "store" => left > 0)'
    BY <1>0, <1>11 DEF WriteStart, Restart, Location
  <2>4. OneFeeder'
    BY <1>0, <1>11 DEF WriteStart, Restart, Location
  <2>5. NoLostWakeup'
    BY <1>0, <1>11 DEF WriteStart, Restart, Location
  <2>6. QED
    BY <2>1, <2>2, <2>3, <2>4, <2>5
<1>12. CASE FirstTest
  <2>1. TypeOK'
    <3>1. pc' \in Location /\ offs' \in 0 .. Size
      <4>1. CASE IsEmpty(tx)
        BY <1>12, <4>1 DEF FirstTest, Restart, Location
      <4>2. CASE ~IsEmpty(tx)
        BY <1>12, <4>2 DEF FirstTest, Location
      <4>3. QED
        BY <4>1, <4>2
    <3>2. UNCHANGED <<rx, tx, shifting, left>>
      BY <1>12 DEF FirstTest
    <3>3. QED
      BY <1>0, <3>1, <3>2
  <2>2. FifosConsistent'
    BY <1>0, <1>12 DEF FirstTest, Restart, Location
  <2>3. TestStaysTrue' /\ (pc = "store" => left > 0)'
    BY <1>0, <1>12 DEF FirstTest, Restart, Location
  <2>4. OneFeeder'
    BY <1>0, <1>12 DEF FirstTest, Restart, Location
  <2>5. NoLostWakeup'
    BY <1>0, <1>12 DEF FirstTest, Restart, Location
  <2>6. QED
    BY <2>1, <2>2, <2>3, <2>4, <2>5
<1>13. CASE FirstLoad
  <2>1. FifoOK(tx') /\ ~IsFull(tx') /\ shifting' \in Byte
    BY <1>0, <1>13, TakeRemoves, RoomAndData DEF FirstLoad
  <2>2. TypeOK'
    BY <1>0, <1>13, <2>1 DEF FirstLoad, Restart, Location
  <2>3. FifosConsistent'
    BY <1>0, <1>13, <2>1 DEF FirstLoad, Restart, Location
  <2>4. TestStaysTrue' /\ (pc = "store" => left > 0)'
    BY <1>0, <1>13, <2>1 DEF FirstLoad, Restart, Location
  <2>5. OneFeeder'
    BY <1>0, <1>13, <2>1 DEF FirstLoad, Restart, Location
  <2>6. NoLostWakeup'
    BY <1>0, <1>13, <2>1 DEF FirstLoad, Restart, Location
  <2>7. QED
    BY <2>2, <2>3, <2>4, <2>5, <2>6
<1>14. CASE UNCHANGED vars
  BY <1>14 DEF vars
<1>15. QED
  BY <1>1, <1>2, <1>3, <1>4, <1>5, <1>6, <1>7, <1>8, <1>9, <1>10, <1>11,
     <1>12, <1>13, <1>14 DEF Next, Main

(* The state of the port is well typed in every reachable state.           *)
THEOREM TypeCorrect == Spec => []TypeOK
BY InitInv, InvInductive, PTL DEF Spec, UartInv

(* fifo.c writes head, tail and free from two sides, in atomic blocks of   *)
(* its own: the three never disagree.                                      *)
THEOREM FifosSafe == Spec => []FifosConsistent
BY InitInv, InvInductive, PTL DEF Spec, UartInv

(* fifo.c tests for room and for data outside its atomic blocks: what it   *)
(* found is still so when the block is entered.                            *)
THEOREM TestsHold == Spec => []TestStaysTrue
BY InitInv, InvInductive, PTL DEF Spec, UartInv

(* uart1_writestart and the transmit interrupt hand the transmitter over   *)
(* without a byte overwritten or left behind.                              *)
THEOREM TransmitterSafe == Spec => [](OneFeeder /\ NoLostWakeup)
BY InitInv, InvInductive, PTL DEF Spec, UartInv
-----------------------------------------------------------------------------
(* The scan of messages_infifo: what it has counted is among the bytes it  *)
(* has passed, and an interrupt adds bytes only behind those.              *)
Passed(q, n) == /\ n <= Len(q)
                /\ inFrame => \E i \in 1 .. n : q[i] = Start
                /\ found => \E i, j \in 1 .. n : i < j /\ q[i] = Start /\ q[j] = End

ScanInv == pc = "scan" => Passed(Contents(rx), offs)

\* Where messages_infifo starts over, nothing has been passed.
LEMMA RestartScans == TypeOK' /\ FifoOK(rx') /\ Restart => ScanInv'
<1> SUFFICES ASSUME TypeOK', FifoOK(rx'), Restart PROVE ScanInv'
  OBVIOUS
<1>1. 0 <= Len(Contents(rx'))
  BY ContentsType
<1>2. offs' = 0 /\ inFrame' = FALSE /\ found' = FALSE
  BY DEF Restart
<1>3. QED
  BY <1>1, <1>2 DEF ScanInv, Passed

LEMMA ScanInductive == UartInv /\ UartInv' /\ ScanInv /\ [Next]_vars => ScanInv'
<1> SUFFICES ASSUME UartInv, UartInv', ScanInv, [Next]_vars PROVE ScanInv'
  OBVIOUS
<1>0. /\ FifoOK(rx) /\ FifoOK(rx') /\ TypeOK' /\ offs \in Nat
      /\ Len(Contents(rx)) = Used(rx) /\ Contents(rx) \in Seq(Byte)
      /\ Used(rx) \in 0 .. Size
  <2>1. FifoOK(rx) /\ FifoOK(rx') /\ TypeOK /\ TypeOK'
    BY UartInvFifoOK DEF UartInv, TypeOK, FifosConsistent, FifoOK
  <2>2. offs \in Nat
    BY <2>1, SizeAssumption DEF TypeOK
  <2>3. QED
    BY <2>1, <2>2, ContentsType
<1>1. CASE ReceiveInterrupt
  <2>1. PICK b \in Byte : rx' = Put(rx, b)
    BY <1>1 DEF ReceiveInterrupt
  <2>2. UNCHANGED <<pc, offs, inFrame, found>>
    BY <1>1 DEF ReceiveInterrupt
  <2>3. CASE IsFull(rx)
    BY <2>1, <2>2, <2>3 DEF Put, ScanInv, Passed
  <2>4. CASE ~IsFull(rx)
    <3>1. Contents(rx') = Append(Contents(rx), b)
      BY <1>0, <2>1, <2>4, StoreAppends DEF Put
    <3> DEFINE q == Contents(rx)
    <3>2. q \in Seq(Byte) /\ Contents(rx') = Append(q, b)
      BY <1>0, <3>1
    <3>3. ScanInv <=> (pc = "scan" => Passed(q, offs))
      BY DEF ScanInv
    <3> HIDE DEF q
    <3>4. pc = "scan" => Passed(Append(q, b), offs)
      BY <1>0, <3>2, <3>3 DEF Passed
    <3>5. QED
      BY <2>2, <3>2, <3>4 DEF ScanInv, Passed
  <2>5. QED
    BY <2>3, <2>4
<1>2. CASE ScanByte
  <2> DEFINE q == Contents(rx)
             b == Peek(rx, offs)
  <2>1. /\ pc = "scan" /\ pc' = "scan" /\ offs' = offs + 1 /\ rx' = rx
        /\ inFrame' = (b = Start \/ (inFrame /\ b # End))
        /\ found' = (found \/ (inFrame /\ b = End))
        /\ offs < Used(rx)
    BY <1>2 DEF ScanByte
  <2>2. b = q[offs + 1]
    <3>1. offs + 1 \in 1 .. Used(rx) /\ (offs + 1) - 1 = offs
      BY <1>0, <2>1
    <3>2. q[offs + 1] = Peek(rx, (offs + 1) - 1)
      BY <3>1 DEF Contents
    <3>3. QED
      BY <3>1, <3>2
  <2>3. Passed(q, offs) /\ Len(q) = Used(rx) /\ Used(rx) \in Nat
    BY <1>0, <2>1, SizeAssumption DEF ScanInv
  <2>4. Contents(rx') = q
    BY <2>1
  <2> HIDE DEF q, b
  <2>5. offs + 1 <= Len(q)
    BY <1>0, <2>1, <2>3
  <2>6. inFrame' => \E i \in 1 .. offs + 1 : q[i] = Start
    <3> SUFFICES ASSUME inFrame' PROVE \E i \in 1 .. offs + 1 : q[i] = Start
      OBVIOUS
    <3>1. CASE b = Start
      <4>1. offs + 1 \in 1 .. offs + 1 /\ q[offs + 1] = Start
        BY <1>0, <2>2, <3>1
      <4>2. QED
        BY <4>1
    <3>2. CASE inFrame
      BY <1>0, <2>3, <3>2 DEF Passed
    <3>3. b = Start \/ inFrame
      <4>1. inFrame' = (b = Start \/ (inFrame /\ b # End))
        BY <2>1
      <4>2. QED
        BY <4>1, Zenon
    <3>4. QED
      BY <3>1, <3>2, <3>3
  <2>7. found' => \E i, j \in 1 .. offs + 1 : i < j /\ q[i] = Start /\ q[j] = End
    <3> SUFFICES ASSUME found'
                 PROVE  \E i, j \in 1 .. offs + 1 : i < j /\ q[i] = Start /\ q[j] = End
      OBVIOUS
    <3>1. CASE found
      BY <1>0, <2>3, <3>1 DEF Passed
    <3>2. CASE inFrame /\ b = End
      <4>1. PICK i \in 1 .. offs : q[i] = Start
        BY <2>3, <3>2 DEF Passed
      <4>2. i \in 1 .. offs + 1 /\ offs + 1 \in 1 .. offs + 1 /\ i < offs + 1
        BY <1>0, <4>1
      <4>3. q[offs + 1] = End
        BY <2>2, <3>2
      <4>4. QED
        BY <4>1, <4>2, <4>3
    <3>3. found \/ (inFrame /\ b = End)
      <4>1. found' = (found \/ (inFrame /\ b = End))
        BY <2>1
      <4>2. QED
        BY <4>1, Zenon
    <3>4. QED
      BY <3>1, <3>2, <3>3
  <2>8. QED
    BY <2>1, <2>4, <2>5, <2>6, <2>7 DEF ScanInv, Passed
<1>3. CASE TransmitInterrupt
  BY <1>3 DEF TransmitInterrupt, rxVars, ScanInv, Passed
<1>4. CASE Restart
  BY <1>0, <1>4, RestartScans
<1>5. CASE ScanDone \/ FloodTest \/ ClearGarbage \/ GetTest \/ GetTake \/ PutTest
           \/ PutStore \/ WriteStart \/ FirstTest \/ FirstLoad
  <2>1. pc' # "scan" \/ Restart
    BY <1>5 DEF ScanDone, FloodTest, ClearGarbage, GetTest, GetTake, Answer, PutTest,
                PutStore, WriteStart, FirstTest, FirstLoad
  <2>2. QED
    BY <1>4, <2>1 DEF ScanInv
<1>6. CASE UNCHANGED vars
  BY <1>6 DEF vars, ScanInv, Passed
<1>7. QED
  BY <1>1, <1>2, <1>3, <1>5, <1>6 DEF Next, Main

(* A frame that messages_infifo has counted is in the fifo, though the     *)
(* receive interrupt puts bytes there while it looks.                      *)
THEOREM CountedIsThere == Spec => []FoundIsThere
<1>1. Init => ScanInv
  <2> SUFFICES ASSUME Init PROVE ScanInv
    OBVIOUS
  <2>1. FifoOK(rx)
    BY InitInv, UartInvFifoOK
  <2>2. 0 <= Len(Contents(rx)) /\ offs = 0 /\ inFrame = FALSE /\ found = FALSE
    BY <2>1, ContentsType DEF Init
  <2>3. QED
    BY <2>2 DEF ScanInv, Passed
<1>2. UartInv /\ ScanInv => FoundIsThere
  <2> SUFFICES ASSUME UartInv, ScanInv, pc = "scan", found PROVE HoldsFrame(Contents(rx))
    BY DEF FoundIsThere
  <2>1. Contents(rx) \in Seq(Byte) /\ offs \in Nat
    BY UartInvFifoOK, ContentsType, SizeAssumption DEF UartInv, TypeOK
  <2>2. QED
    BY <2>1 DEF ScanInv, Passed, HoldsFrame
<1>3. QED
  BY <1>1, <1>2, InitInv, InvInductive, ScanInductive, PTL DEF Spec
-----------------------------------------------------------------------------
(* Refinement: the initial state maps to the initial state of ByteLink,    *)
(* every step to a step or to a stutter.                                   *)
LEMMA InitRefines == Init => Link!Init
BY UartAssumption, InitEmpty DEF Init, Link!Init

LEMMA StepRefines == UartInv /\ [Next]_vars => [Link!Next]_(Link!vars)
<1> SUFFICES ASSUME UartInv, [Next]_vars PROVE [Link!Next]_(Link!vars)
  OBVIOUS
<1> USE DEF Link!Next, Link!vars
<1>0. /\ FifoOK(rx) /\ FifoOK(tx)
      /\ Len(Contents(rx)) = Used(rx) /\ Len(Contents(tx)) = Used(tx)
      /\ Used(rx) \in 0 .. Size /\ Used(tx) \in 0 .. Size
      /\ Contents(tx) \in Seq(Byte)
  BY UartInvFifoOK, ContentsType
<1>1. CASE ReceiveInterrupt
  <2>1. PICK b \in Byte : rx' = Put(rx, b)
    BY <1>1 DEF ReceiveInterrupt
  <2>2. UNCHANGED <<tx, shifting>>
    BY <1>1 DEF ReceiveInterrupt, txVars
  <2>3. CASE IsFull(rx)
    BY <2>1, <2>2, <2>3 DEF Put
  <2>4. CASE ~IsFull(rx)
    <3>1. Len(Contents(rx)) < Size
      BY <1>0, <2>4, SizeAssumption DEF IsFull, Used, FifoOK, FifoType
    <3>2. Contents(rx') = Append(Contents(rx), b)
      BY <1>0, <2>1, <2>4, StoreAppends DEF Put
    <3>3. Link!Receive
      BY <2>2, <3>1, <3>2 DEF Link!Receive
    <3>4. QED
      BY <3>3
  <2>5. QED
    BY <2>3, <2>4
<1>2. CASE TransmitInterrupt
  <2>1. CASE IsEmpty(tx)
    <3>1. Contents(tx) = <<>>
      BY <1>0, <2>1, SizeAssumption DEF IsEmpty, Used
    <3>2. Link!GoIdle
      BY <1>2, <2>1, <3>1 DEF TransmitInterrupt, rxVars, Link!GoIdle
    <3>3. QED
      BY <3>2
  <2>2. CASE ~IsEmpty(tx)
    <3>1. Link!Send
      BY <1>0, <1>2, <2>2, TakeRemoves DEF TransmitInterrupt, rxVars, Link!Send
    <3>2. QED
      BY <3>1
  <2>3. QED
    BY <2>1, <2>2
<1>3. CASE ClearGarbage
  <2>1. CASE IsFull(rx)
    <3>1. Len(Contents(rx)) = Size
      BY <1>0, <2>1, SizeAssumption DEF IsFull, Used
    <3>2. Link!Discard
      BY <1>0, <1>3, <3>1, ClearEmpties DEF ClearGarbage, txVars, Link!Discard
    <3>3. QED
      BY <3>2
  <2>2. QED
    BY <1>3, <2>1 DEF ClearGarbage, UartInv, TestStaysTrue
<1>4. CASE GetTake
  <2>1. Link!Read
    BY <1>0, <1>4, TakeRemoves DEF GetTake, txVars, UartInv, TestStaysTrue, Link!Read
  <2>2. QED
    BY <2>1
<1>5. CASE PutStore
  <2>1. PICK b \in ReplyByte : tx' = Store(tx, b)
    BY <1>5 DEF PutStore
  <2>2. ~IsFull(tx) /\ b \in Byte
    BY <1>5, UartAssumption DEF PutStore, UartInv, TestStaysTrue
  <2>3. Len(Contents(tx)) < Size
    BY <1>0, <2>2, SizeAssumption DEF IsFull, Used, FifoOK, FifoType
  <2>4. Contents(tx') = Append(Contents(tx), b)
    BY <1>0, <2>1, <2>2, StoreAppends
  <2>5. Link!Queue
    BY <1>5, <2>2, <2>3, <2>4 DEF PutStore, rxVars, Link!Queue
  <2>6. QED
    BY <2>5
<1>6. CASE FirstLoad
  <2>1. Link!Send
    BY <1>0, <1>6, TakeRemoves DEF FirstLoad, UartInv, TestStaysTrue, Link!Send
  <2>2. QED
    BY <2>1
<1>7. CASE \/ ScanByte \/ ScanDone \/ FloodTest \/ GetTest \/ PutTest
           \/ WriteStart \/ FirstTest \/ UNCHANGED vars
  BY <1>7 DEF ScanByte, ScanDone, FloodTest, GetTest, PutTest, WriteStart, FirstTest,
              rxVars, txVars, vars
<1>8. QED
  BY <1>1, <1>2, <1>3, <1>4, <1>5, <1>6, <1>7 DEF Next, Main

(* fifo.c under the interrupts of uarthw.c is the byte queue its callers   *)
(* take it for.                                                            *)
THEOREM UartImplementsLink == Spec => LinkSpec
<1>1. Spec => []UartInv
  BY InitInv, InvInductive, PTL DEF Spec
<1>2. QED
  BY <1>1, InitRefines, StepRefines, PTL DEF Spec, LinkSpec, Link!Spec
=============================================================================
