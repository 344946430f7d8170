---------------------------- MODULE MCCommandLink ---------------------------
(* Values of the constants of CommandLink for TLC: pages of two bytes, and   *)
(* bytes that are 0 (the status "ok") or $AC (the magic byte) wherever a byte *)
(* is data, so that a byte taken for what it is not would be noticed.         *)
EXTENDS CommandLink

MCBlock(a, b, c, d) == [i \in 0..3 |-> <<a, b, c, d>>[i + 1]]
MCContents  == {MCBlock(0, 172, 172, 0), MCBlock(172, 0, 1, 172)}

\* A program of three bytes, a block of four, and the flash behind it.
MCBootblocks == <<234, 169, 172>>
MCFlash      == [i \in 0..15 |-> IF i < 3 THEN MCBootblocks[i + 1] ELSE 0]

MCVol(a, b) == [d \in {0, 1} |-> IF d = 0 THEN a ELSE b]
MCVolumes   == {MCVol(0, 172), MCVol(172, 0), MCVol(1, 2)}

MCReq(c, u, v) == [cmd |-> c, unit |-> u, vol |-> v]
MCRequests == {MCReq(c, u, MCVol(172, 0)) : c \in {1, 2}, u \in {0, 128}}
         \cup {MCReq(c, 0, MCVol(0, 172)) : c \in {0, 3, 4, 5, 6}}
         \cup {MCReq(7, 128, MCVol(172, 0)), MCReq(9, 0, MCVol(1, 2)),
              MCReq(160, 0, MCVol(1, 2))}
=============================================================================
