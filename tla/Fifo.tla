-------------------------------- MODULE Fifo --------------------------------
(***************************************************************************)
(* The cyclic byte buffer of lib/network/fifo.c, as values and operators:  *)
(* a fifo is a record, each function of the file is an operator that       *)
(* returns the fifo (or the data) it leaves.  The interleaving of the      *)
(* callers is in module Uart.                                              *)
(***************************************************************************)
EXTENDS Integers, Sequences

CONSTANTS Byte,   \* the bytes that travel through a fifo
          Size    \* the length of the buffer handed to fifo_init

ASSUME SizeAssumption == Size \in Nat \ {0}

Slot == 0 .. Size - 1

(* What the C struct can hold.                                             *)
FifoType == [head : Slot, tail : Slot, free : 0 .. Size, buffer : [Slot -> Byte]]

FifoInit(memory) == [head |-> 0, tail |-> 0, free |-> Size, buffer |-> memory]

IsFull(f)  == f.free = 0
IsEmpty(f) == f.free = Size
Used(f)    == Size - f.free

\* Move an index one slot on, wrapping at the end of the buffer.
Advance(i) == IF i + 1 = Size THEN 0 ELSE i + 1

\* The slot that is k places behind slot i, for k up to Size.
SlotOf(i, k) == IF i + k >= Size THEN i + k - Size ELSE i + k

\* Slip: the tail stays where it was.
ClearKeepsTail(f) == [head |-> 0, tail |-> f.tail, free |-> Size, buffer |-> f.buffer]
FifoClear(f) == FifoInit(f.buffer)

\* The part of fifo_put and fifo_putc inside the atomic block.
Store(f, b) == [head |-> Advance(f.head), tail |-> f.tail, free |-> f.free - 1,
                buffer |-> [f.buffer EXCEPT ![f.head] = b]]

\* The part of fifo_get inside the atomic block, and the byte it returns.
Take(f)  == [head |-> f.head, tail |-> Advance(f.tail), free |-> f.free + 1,
             buffer |-> f.buffer]
\* Slip: the tail moves before the byte is read.
TakenAfterMove(f) == f.buffer[Advance(f.tail)]
Taken(f) == f.buffer[f.tail]

\* fifo_put and fifo_putc as one undisturbed call.
Put(f, b) == IF IsFull(f) THEN f ELSE Store(f, b)

\* What fifo_peek reads at offset k, for k < Used(f).
Peek(f, k) == f.buffer[SlotOf(f.tail, k)]

-----------------------------------------------------------------------------
(* The queue of bytes a fifo stands for, oldest first.                     *)
Contents(f) == [k \in 1 .. Used(f) |-> Peek(f, k - 1)]

(* head, tail and free are three counters for two unknowns: head is where  *)
(* tail and free say it is.                                                *)
Consistent(f) == f.head = SlotOf(f.tail, Used(f))

FifoOK(f) == f \in FifoType /\ Consistent(f)
=============================================================================
