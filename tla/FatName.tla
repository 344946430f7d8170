------------------------------- MODULE FatName -------------------------------
(***************************************************************************)
(* From the number of an image to the drive and the directory entry it is  *)
(* in: the sketch writes two digits into the path of the drive, and FatFs  *)
(* makes a drive number and an entry name of 11 characters of the path.    *)
(*                                                                         *)
(* Characters are their codes; a path ends in code 0.  No path of the      *)
(* sketch has codes of 128 or more, which FatFs would translate by a       *)
(* table, or more than one segment.                                        *)
(***************************************************************************)
EXTENDS Naturals, Sequences

FF_VOLUMES == 2
Invalid == <<>>              \* FR_INVALID_NAME, no drive
Digit0 == 48
Colon  == 58
Dot    == 46
Space  == 32
DDEM   == 229
RDDEM  == 5

Small(c)        == 97 <= c /\ c <= 122
IsDigit(c)      == 48 <= c /\ c <= 57
IsSeparator(c)  == c \in {47, 92}
IsTerminator(c) == c < 33
\* * + , : ; < = > [ ] | " ? and DEL
Illegal == {42, 43, 44, 58, 59, 60, 61, 62, 91, 93, 124, 34, 63, 127}

-----------------------------------------------------------------------------
(* The sketch. *)

\* "d:BLKDEVXX.PO"
blockdev_filename(d) == <<Digit0 + d, Colon, 66, 76, 75, 68, 69, 86, 88, 88, Dot, 80, 79, 0>>

\* Wrong on purpose: one too many decimal digits.
hex_digitLate(ch) == IF ch <= 10 THEN ch + Digit0 ELSE ch - 10 + 65

hex_digit(ch) == IF ch < 10 THEN ch + Digit0 ELSE ch - 10 + 65

\* The digits of the last image are written over.
set_blockdev_filename(p, n) ==
    [p EXCEPT ![9] = hex_digit(n \div 16), ![10] = hex_digit(n % 16)]

-----------------------------------------------------------------------------
(* FatFs. *)

\* get_ldnumber(): the digit before a colon; drive 0 without one; <<>> if it is no drive.
get_ldnumber(p) ==
    LET ends(c) == IsTerminator(c) \/ c = Colon
        at == CHOOSE i \in 1..Len(p) : ends(p[i]) /\ \A j \in 1..i - 1 : ~ends(p[j])
    IN IF p[at] # Colon THEN <<0, p>>
       ELSE IF at = 2 /\ IsDigit(p[1]) /\ p[1] - Digit0 < FF_VOLUMES
       THEN <<p[1] - Digit0, SubSeq(p, 3, Len(p))>>
       ELSE Invalid

\* The place of the first character of s that is in a set, behind the end if there is none.
First(s, S) ==
    CHOOSE i \in 1..Len(s) + 1 : (i <= Len(s) => s[i] \in S) /\ \A j \in 1..i - 1 : s[j] \notin S

Padded(s, n) == [i \in 1..n |-> IF i <= Len(s) THEN s[i] ELSE Space]
Upper(s) == [i \in 1..Len(s) |-> IF Small(s[i]) THEN s[i] - 32 ELSE s[i]]

\* create_name(): the segment of a path as body and extension of a directory entry.
create_name(p) ==
    LET ends   == {c \in 0..127 : c <= Space \/ IsSeparator(c)}
        seg    == SubSeq(p, 1, First(p, ends) - 1)
        body   == SubSeq(seg, 1, First(seg, {Dot}) - 1)
        ext    == SubSeq(seg, First(seg, {Dot}) + 1, Len(seg))
        fn     == Padded(Upper(body), 8) \o Padded(Upper(ext), 3)
        bad(s) == \E i \in 1..Len(s) : s[i] \in Illegal \cup {Dot}
    IN IF seg = <<>> \/ Len(body) > 8 \/ Len(ext) > 3 \/ bad(body) \/ bad(ext)
         THEN Invalid
         ELSE IF fn[1] = DDEM THEN [fn EXCEPT ![1] = RDDEM] ELSE fn

\* follow_path() strips the separators before the name.
Stripped(p) == SubSeq(p, First(p, {c \in 0..127 : ~IsSeparator(c)}), Len(p))

\* The entry name FatFs looks for when it is given path p.
EntryName(p) == create_name(Stripped(get_ldnumber(p)[2]))
=============================================================================
