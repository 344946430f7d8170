------------------------------ MODULE MCSdCard ------------------------------
(* Values of the constants of SdCard for TLC: two cards of two sectors, of kinds *)
(* that the configuration chooses.                                              *)
EXTENDS SdCard

CONSTANTS c1, c2, kind1, kind2

MCKind == [c \in Cards |-> IF c = c1 THEN kind1 ELSE kind2]
\* One card is moved from socket to socket, the other stays with the first.
MCGiven == [d \in {0, 1} |-> IF d = 0 THEN Cards ELSE {c2}]
MCContents == {[s \in 0..Size - 1 |-> s % 2]}
=============================================================================
