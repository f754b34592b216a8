---------------------------- MODULE MCPwmControl ----------------------------
(* PwmControl with bytes of four values: the duty cycle crosses from one     *)
(* value of the high byte to the next, as between 255 and 256.               *)
EXTENDS PwmControl
MCSpeedSteps == {0, 1, 5}
=============================================================================
