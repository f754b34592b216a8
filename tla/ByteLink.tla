------------------------------ MODULE ByteLink ------------------------------
(***************************************************************************)
(* What a UART with its two fifos promises to the code above it: a bounded *)
(* queue of received bytes, a bounded queue of bytes to send, both in      *)
(* order and without a byte made up, and a transmitter that goes idle only *)
(* when nothing is left to send.                                           *)
(***************************************************************************)
EXTENDS Naturals, Sequences

CONSTANTS Byte, Size, Idle

VARIABLES inq,    \* received, not yet read
          outq,   \* queued by the program, not yet on the wire
          line    \* the byte being sent, or Idle

vars == <<inq, outq, line>>

Init == inq = <<>> /\ outq = <<>> /\ line = Idle

Receive == /\ Len(inq) < Size
           /\ \E b \in Byte : inq' = Append(inq, b)
           /\ UNCHANGED <<outq, line>>

Read == /\ inq # <<>>
        /\ inq' = Tail(inq)
        /\ UNCHANGED <<outq, line>>

\* Only a receive queue that is full may be thrown away.
Discard == /\ Len(inq) = Size
           /\ inq' = <<>>
           /\ UNCHANGED <<outq, line>>

Queue == /\ Len(outq) < Size
         /\ \E b \in Byte : outq' = Append(outq, b)
         /\ UNCHANGED <<inq, line>>

Send == /\ outq # <<>>
        /\ line' = Head(outq)
        /\ outq' = Tail(outq)
        /\ UNCHANGED inq

GoIdle == /\ outq = <<>>
          /\ line' = Idle
          /\ UNCHANGED <<inq, outq>>

Next == Receive \/ Read \/ Discard \/ Queue \/ Send \/ GoIdle

Spec == Init /\ [][Next]_vars
=============================================================================
