----------------------------- MODULE MCBootload -----------------------------
(* Bootload with pages of two chunks and images of two pages.  The pages   *)
(* of the new image end alike, as the zeros or 0xFF behind a program do.   *)
EXTENDS Bootload
CONSTANTS a, b
MCData == {a, b, Zero, Erased}
PageOf(x, y) == [c \in {0, 1} |-> IF c = 0 THEN x ELSE y]
MCImage == <<PageOf(a, Zero), PageOf(b, Zero)>>
MCOldImage == <<PageOf(a, Zero), PageOf(b, a)>>
MCAllFrames == {"BOOT_INFO", "BOOT_START", "BOOT_WRITE", "BOOT_CHECK", "BOOT_FINISH"}
=============================================================================
