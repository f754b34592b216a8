------------------------------ MODULE MCBowbus ------------------------------
(* Bowbus with two messages, one of them with a 0x10 inside and one at its *)
(* end.  They differ so much that three spoiled bytes are needed to make   *)
(* one of the other or of a part of itself.                                *)
EXTENDS Bowbus
CONSTANTS p, q, r
MCByte == {Header, p, q, r}
MCFrames == {<<Header, p, q, p>>, <<Header, r, Header, Header>>}
MCMaxNoise == [g \in {1, 2} |-> IF g = 1 THEN 0 ELSE 3]
MCQuiet == [g \in {1, 2} |-> 0]
=============================================================================
