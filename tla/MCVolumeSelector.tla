-------------------------- MODULE MCVolumeSelector --------------------------
(* Values of the constants of VolumeSelector for TLC: the file numbers 0 and 1 *)
(* are tried, and ESC, "!", "0", "a", "A" and "G" are the keys.                *)
EXTENDS VolumeSelector, TLC

CONSTANTS c1, c2

MCCards  == {c1, c2}
MCFiles  == {1, 10}
MCImages == [c \in MCCards |-> {<<0, 1>>, <<0, 10>>}]
MCKeys   == {155, 161, 176, 193, 225, 199}
=============================================================================
