-------------------------------- MODULE Pipe --------------------------------
(***************************************************************************)
(* What a stream promises to the program that forwards, writes and reads   *)
(* through it: bytes go on in the order they came, whatever the size of    *)
(* the fifos and however often a call had to wait.  A stream that cannot   *)
(* be started can lose the byte that found no room, and one whose port can *)
(* fail the end of what it sent.                                           *)
(***************************************************************************)
EXTENDS Naturals, Sequences

CONSTANTS Byte, RxSize, TxSize

VARIABLES arrived,   \* received and not yet taken
          queued,    \* handed over and not yet out
          out,       \* everything that has left
          stuck,     \* is there no way to make room for a byte?
          unsure     \* can the port fail?

vars == <<arrived, queued, out, stuck, unsure>>

Init == arrived = <<>> /\ queued = <<>> /\ out = <<>> /\ {stuck, unsure} \subseteq BOOLEAN

\* Bytes that do not fit are lost before they are in.
Arrive == \E b \in Byte, more \in {<<>>} \cup {<<c>> : c \in Byte} :
              /\ arrived' = arrived \o <<b>> \o more /\ Len(arrived') <= RxSize
              /\ UNCHANGED <<queued, out>>

Read == \E n \in 1 .. Len(arrived) :
            /\ arrived' = SubSeq(arrived, n + 1, Len(arrived))
            /\ UNCHANGED <<queued, out>>

Forward == /\ arrived # <<>>
           /\ arrived' = Tail(arrived) /\ queued' = Append(queued, Head(arrived))
           /\ UNCHANGED out

Queue == /\ Len(queued) < TxSize
         /\ \E b \in Byte : queued' = Append(queued, b)
         /\ UNCHANGED <<arrived, out>>

Leave == \E n \in 1 .. Len(queued) :
             /\ out' = out \o SubSeq(queued, 1, n)
             /\ queued' = SubSeq(queued, n + 1, Len(queued))
             /\ UNCHANGED arrived

\* A byte was taken that does not fit.
Drop == /\ stuck /\ Len(queued) > TxSize
        /\ queued' = SubSeq(queued, 1, TxSize)
        /\ UNCHANGED <<arrived, out>>

\* Of what leaves, only the first part comes out.
Lose == /\ unsure
        /\ \E m \in 1 .. Len(queued), n \in 0 .. Len(queued) :
               /\ n <= m
               /\ out' = out \o SubSeq(queued, 1, n)
               /\ queued' = SubSeq(queued, m + 1, Len(queued))
        /\ UNCHANGED arrived

Next == /\ Arrive \/ Read \/ Forward \/ Queue \/ Leave \/ Drop \/ Lose
        /\ UNCHANGED <<stuck, unsure>>

Spec == Init /\ [][Next]_vars
=============================================================================
