------------------------------- MODULE MCUart -------------------------------
(* Uart with the two frame marks as its bytes; the buffers start out full  *)
(* of one of them.  To the main loop any other byte is as good as a Start  *)
(* inside a frame and as an End outside.                                   *)
EXTENDS Uart
MCByte == {Start, End}
MCReplyByte == {Start}
=============================================================================
