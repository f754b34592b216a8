--------------------------- MODULE MCMotorControl ---------------------------
EXTENDS MotorControl
CONSTANTS h1, h2
=============================================================================
