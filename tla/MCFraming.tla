------------------------------ MODULE MCFraming ------------------------------
(* Framing with eight byte values and a fifo of 17 bytes, which holds a     *)
(* frame of ten as the fifo of 128 holds a chunk of 64.                     *)
EXTENDS Framing
Short == [address |-> 3, cmd |-> 2, data |-> <<>>]
Long  == [address |-> 3, cmd |-> 4, data |-> <<7>>]
MCMessages == {Short, Long}
MCCrc == [m \in {Short, Long} |-> IF m = Short THEN <<0, 4>> ELSE <<4, 2>>]
=============================================================================
