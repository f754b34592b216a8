------------------------------- MODULE Digits -------------------------------
(***************************************************************************)
(* What bus_display_update (lib_ion/bowbus.c) puts into the bar of five    *)
(* characters on the display, depending on the open menu.  A character is  *)
(* a digit or one of the special characters above 9; two share a byte.     *)
(***************************************************************************)
EXTENDS Integers

Negative == 10      \* DISP_CHAR_NEGATIVE
Clear    == 12      \* DISP_CHAR_CLEAR
E        == 14      \* DISP_CHAR_E_UP

\* Slip: the thousands are not taken off.
CurrentDigitsWhole(c) ==
    LET t == IF c < 0 THEN -c ELSE c
    IN  <<IF c < 0 THEN Negative ELSE Clear,
          IF t < 1000 THEN Clear ELSE t \div 1000,
          (t \div 100) % 16, (t % 100) \div 10, t % 10>>

\* The current, with a decimal point behind the third character.
CurrentDigits(c) ==
    LET t    == IF c < 0 THEN -c ELSE c
        high == IF t < 1000 THEN 0 ELSE t \div 1000
        rest == t - 1000 * high
    IN  <<IF c < 0 THEN Negative ELSE Clear,
          IF t < 1000 THEN Clear ELSE high,
          rest \div 100, (rest % 100) \div 10, rest % 10>>

\* The strain threshold, without leading zeros.
StrainDigits(th) ==
    <<Clear,
      IF th < 1000 THEN Clear ELSE th \div 1000,
      IF th < 100 THEN Clear ELSE (th % 1000) \div 100,
      IF th < 10 THEN Clear ELSE (th % 100) \div 10,
      th % 10>>

Bar(func, val, current, error, th) ==
    CASE func = 0 -> IF error = 0 THEN CurrentDigits(current) ELSE <<E, 0, 0, 0, error>>
      [] func = 1 -> <<0, Negative, 6, Clear, val[1]>>
      [] func = 2 -> <<0, Negative, 9, Clear, val[2]>>
      [] func = 3 -> StrainDigits(th)
      [] func = 4 -> <<0, Negative, 9, Clear, val[4]>>
      [] func = 5 -> <<0, Negative, 3, Clear, val[5]>>
      [] func = 8 -> [i \in 1 .. 5 |-> Clear]

\* Bytes 10 to 12 of the message; uint8_t, so a shift drops what is too high.
BarBytes(d) == <<240 + d[1], ((16 * d[2]) % 256) + d[3], ((16 * d[4]) % 256) + d[5]>>

-----------------------------------------------------------------------------
(* Reference: what a rider reads from these bytes.                         *)
Characters(b) == <<b[1] % 16, b[2] \div 16, b[2] % 16, b[3] \div 16, b[3] % 16>>

Digit(chr) == IF chr < 10 THEN chr ELSE 0

Number(chars) ==
    LET n == 1000 * Digit(chars[2]) + 100 * Digit(chars[3])
             + 10 * Digit(chars[4]) + Digit(chars[5])
    IN  IF chars[1] = Negative THEN -n ELSE n
=============================================================================
