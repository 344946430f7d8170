----------------------------- MODULE MCBlockMap -----------------------------
(* Values of the constants of SlotManager and BlockMap for TLC: one image    *)
(* number besides the default one, two cards that hold both images (f_open() *)
(* may fail for other reasons, so a card without an image adds nothing), the *)
(* units of two slots on both drives, the first and the last block number.   *)
EXTENDS BlockMap, TLC

CONSTANTS c1, c2

MCCards  == {c1, c2}
MCFiles  == {1, 18}
MCImages == [c \in MCCards |-> {<<0, 1>>, <<1, 2>>}]
MCUnits  == {16, 112, 144, 240}
MCBlks   == {0, 65535}

\* The two cards are alike.
MCSymmetry == Permutations(MCCards)
=============================================================================
