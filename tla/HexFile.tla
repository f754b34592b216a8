------------------------------ MODULE HexFile ------------------------------
(***************************************************************************)
(* The firmware file of the loader, lib/network/file.c: what                *)
(* hexfile_process makes of the lines of an Intel HEX file.                 *)
(*                                                                         *)
(* A line, or record, is its byte count, its address and the pairs of hex   *)
(* digits that follow (Bad where they are not digits); a count larger than  *)
(* the number of pairs runs into the ':' of the next line.  The record type *)
(* and the address are skipped by the code.                                 *)
(*                                                                         *)
(* Files in use are taken to fit the buffer of 65536 characters they are    *)
(* read into, which hexfile_process does not look at: the 57 pages the      *)
(* bootloader writes are about 41000 characters.                            *)
(***************************************************************************)
EXTENDS Integers, Sequences

CONSTANTS
    LineMax,    \* bytes in a line (16)
    PageBytes,  \* bytes in a flash page (256)
    Bad,        \* characters that are no hex digits
    Pairs,      \* what two characters can stand for: bytes, or Bad
    Files,      \* the hex files in use
    Left        \* the memory for a file, as the last one has left it

ASSUME HexFileAssumption == LineMax \in Nat \ {0} /\ PageBytes \in Nat \ {0}

Readable(record) == /\ record.count <= Len(record.pairs)
                    /\ \A i \in 1 .. record.count : record.pairs[i] # Bad

\* memcpy(&data[offset], bytes)
Copied(data, at, bytes) ==
    SubSeq(data, 1, at) \o bytes \o SubSeq(data, at + Len(bytes) + 1, Len(data))

\* Slip: a line that cannot be parsed is passed over.
SkipSpoiled(record, file) ==
    IF record.count > LineMax \/ ~Readable(record)
    THEN [file EXCEPT !.parsed = 0]
    ELSE [file EXCEPT !.data = Copied(@, file.offset, SubSeq(record.pairs, 1, record.count)),
                      !.parsed = record.count]

\* parse_hexline: a line that is too long leaves the parsed length as the line
\* before has left it.
ParseHexline(record, file) ==
    CASE record.count > LineMax -> [file EXCEPT !.ok = FALSE]
      [] record.count <= LineMax /\ ~Readable(record) -> [file EXCEPT !.ok = FALSE, !.parsed = 0]
      [] OTHER -> [file EXCEPT
                     !.data = Copied(@, file.offset, SubSeq(record.pairs, 1, record.count)),
                     !.parsed = record.count]

\* One ':' of the file.
Step(record, file) ==
    LET read == ParseHexline(record, file)
    IN  [read EXCEPT !.offset = @ + read.parsed, !.size = @ + read.parsed]

\* hexfile_process over memory that holds what the last file has left there.  The
\* first line that cannot be parsed ends it, and that is no error.  The size is
\* rounded up to the next page, also from a whole page.
HexfileProcess(lines, data) ==
    LET After[n \in 0 .. Len(lines)] ==
            IF n = 0 THEN [data |-> data, offset |-> 0, size |-> 0, parsed |-> 0, ok |-> TRUE]
            ELSE IF After[n - 1].ok THEN Step(lines[n], After[n - 1]) ELSE After[n - 1]
        file == After[Len(lines)]
    IN  [data |-> file.data, size |-> (file.size \div PageBytes + 1) * PageBytes]

-----------------------------------------------------------------------------
(* What the file means: every byte at the address of its line.              *)

GoodLine(record) == record.count <= LineMax /\ Readable(record)

\* The lines before the first that cannot be parsed.
GoodPart(lines) ==
    LET bad == {n \in 1 .. Len(lines) : ~GoodLine(lines[n])}
    IN  IF bad = {} THEN lines
        ELSE SubSeq(lines, 1, (CHOOSE n \in bad : \A k \in bad : n <= k) - 1)

Covers(record, a) == a \in record.address .. record.address + record.count - 1
Bytes(lines) == {a \in 0 .. LineMax * Len(lines) : \E n \in DOMAIN lines : Covers(lines[n], a)}
ByteAt(lines, a) ==
    LET record == lines[CHOOSE n \in DOMAIN lines : Covers(lines[n], a)]
    IN  record.pairs[a - record.address + 1]

\* "Assume ascending, consecutive addresses."
Consecutive(lines) ==
    /\ Len(lines) > 0 => lines[1].address = 0
    /\ \A n \in 1 .. Len(lines) - 1 :
           lines[n + 1].address = lines[n].address + lines[n].count

\* The readable part keeps to the memory; hexfile_process does not look.
Fitting(lines, data) ==
    \A n \in DOMAIN GoodPart(lines) : lines[n].address + lines[n].count <= Len(data)

HexLine(V) == [count : Nat, address : Nat, pairs : Seq(V)]

ASSUME FilesAssumption ==
    /\ Left \in Seq(Pairs)
    /\ \A lines \in Files : lines \in Seq(HexLine(Pairs)) /\ Fitting(lines, Left)

(* Of a file whose lines are consecutive, whatever their lengths, the loader *)
(* has every byte of the readable part at its address, nothing else, and a   *)
(* whole number of pages that holds them all.                                *)
Reads(lines, data) ==
    Consecutive(lines) =>
        LET file == HexfileProcess(lines, data)
            good == GoodPart(lines)
        IN  /\ Len(file.data) = Len(data)
            /\ \A a \in 0 .. Len(data) - 1 :
                   file.data[a + 1] = IF a \in Bytes(good) THEN ByteAt(good, a) ELSE data[a + 1]
            /\ file.size % PageBytes = 0
            /\ \A a \in Bytes(good) : a < file.size

\* The files in use that hexfile_process gets wrong.
Misread == {lines \in Files : ~Reads(lines, Left)}
=============================================================================
