--------------------------- MODULE MCFramingChunk ---------------------------
(* Framing with the numbers of the bootloader and one BOOT_WRITE message:  *)
(* block 0, offset 0, and a chunk of erased flash.                         *)
EXTENDS Framing
Chunk == [address |-> 4, cmd |-> 12,
          data |-> [i \in 1 .. 68 |-> IF i <= 4 THEN 0 ELSE 255]]
MCMessages == {Chunk}
MCCrc == [m \in {Chunk} |-> <<18, 52>>]
=============================================================================
