------------------------------ MODULE MCLoader ------------------------------
(* Loader with the images read from two small hex files: lines of two       *)
(* bytes, chunks of two bytes, pages of two chunks.                         *)
EXTENDS Loader, HexFile
MCZero == <<0, 0>>
MCErased == <<255, 255>>
MCData == {0, 1, 255} \X {0, 1, 255}
MCMemory == [i \in 1 .. 12 |-> 0]
Line(a, bytes) == [count |-> Len(bytes), address |-> a, pairs |-> Append(bytes, 7)]
MCMotorHex == <<Line(0, <<1, 0>>), Line(2, <<1>>), Line(3, <<0, 1>>), Line(0, <<>>)>>
MCButtonHex == <<Line(0, <<0, 1>>), Line(0, <<>>)>>
PagesOf(file) ==
    [p \in 1 .. file.size \div 4 |->
        [c \in {0, 1} |-> LET at == 4 * (p - 1) + 2 * c
                          IN  <<file.data[at + 1], file.data[at + 2]>>]]
MCImage == PagesOf(HexfileProcess(MCMotorHex, MCMemory))
MCButtonImage == PagesOf(HexfileProcess(MCButtonHex, MCMemory))
MCOldImage == <<[c \in {0, 1} |-> <<1, 1>>]>>
MCWrites == {"BOOT_WRITE"}

\* Every file of up to three lines; the last line may be too long, cut off or
\* spoiled, or end the file.
Pieces == {<<>>, <<0>>, <<1>>, <<0, 1>>, <<1, 1>>}
Placed(s) == [n \in DOMAIN s |->
    [count |-> Len(s[n]), pairs |-> Append(s[n], 7),
     address |-> IF n = 1 THEN 0 ELSE IF n = 2 THEN Len(s[1]) ELSE Len(s[1]) + Len(s[2])]]
Spoiled(f, n, how) ==
    [f EXCEPT ![n] = CASE how = "long"  -> [@ EXCEPT !.count = LineMax + 1]
                       [] how = "cut"   -> [@ EXCEPT !.pairs = SubSeq(@, 1, f[n].count - 1)]
                       [] how = "wrong" -> [@ EXCEPT !.pairs = [@ EXCEPT ![1] = Bad]]
                       [] OTHER         -> @]
MCFiles == {Spoiled(Placed(s), n, how) :
             s \in Pieces \X Pieces \X Pieces, n \in 1 .. 3, how \in {"long", "cut", "wrong", "not"}}
MCPairs == 0 .. 255 \cup {Bad}
MCLeft == [i \in 1 .. 10 |-> 9]

(* hexfile_process reads every file in use as Reads asks for: each byte of   *)
(* the readable part at its address, the rest of the memory untouched, whole *)
(* pages.  What a file says does not change, so one state is enough.         *)
HexReads == commands = 0 => Misread = {}
=============================================================================
