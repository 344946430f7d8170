----------------------------- MODULE MCEthernet -----------------------------
(* Values of the constants of Ethernet for TLC: bytes of four values, so       *)
(* pointers are modulo 16, and ring buffers of 8 bytes.                        *)
EXTENDS Ethernet

Short == <<3>>
Long  == <<2, 1, 3>>
TwoFrames == {Short, Long}
UpToFull  == {<<1, 2, 3, 1>>, <<1, 2, 3, 1, 1, 2, 3, 2>>}
=============================================================================
