------------------------------ MODULE BlockMap ------------------------------
(***************************************************************************)
(* Where a block of a ProDOS volume is kept: do_read() and do_write() turn *)
(* the unit, the block number and the mode of the drive into a socket and  *)
(* a sector, or into an offset in an image.  The unit byte is %DSSS0000:   *)
(* the drive and the slot ProDOS believes the volume to be in, which       *)
(* ALLVOLS uses to reach eight volumes per drive.                          *)
(*                                                                         *)
(* The modes are those of SlotManager, at any moment of any of its         *)
(* behaviours.  The two functions that compute an address are declared to  *)
(* return a value and do not; the caller takes the address from "blockloc" *)
(* and the compiler of the Arduino core returns from them all the same.    *)
(***************************************************************************)
EXTENDS SlotManager

CONSTANTS Units,   \* the unit bytes the Apple uses
          Blks     \* the block numbers it asks for

ASSUME UnitsAssumption == Units \subseteq {16 * n : n \in 0..15}
ASSUME BlksAssumption  == Blks \subseteq {b \in Nat : b < 65536}

DriveOf(unit) == unit \div 128

\* Wrong on purpose: the bit of the drive is masked in every mode.
VolumeNoDrive(unit, mode) == (unit \div 16) % 8

\* unitshift: with both drives on one card, the drive is a part of the address.
Volume(unit, mode) == IF mode = "WIDE" THEN unit \div 16 ELSE (unit \div 16) % 8

\* calculate_block_location(): the block number fills the low 16 bits.
BlockLocation(unit, b, mode) == 65536 * Volume(unit, mode) + b

\* calculate_file_location().
FileLocation(b) == 512 * b

\* Two wide drives are both in socket 0.
Socket(d) == IF state[d] = "WIDE" THEN 0 ELSE d

\* The place of a block: a sector of the card in a socket, or of its image.
Place(unit, b) ==
    LET d == DriveOf(unit)
    IN  [socket |-> Socket(d),
         image  |-> IF state[d] = "FILE" THEN <<name[d]>> ELSE <<>>,
         at     |-> IF state[d] = "FILE" THEN FileLocation(b)
                                         ELSE BlockLocation(unit, b, state[d])]

Served(unit) == state[DriveOf(unit)] # "NODEV"

\* The volumes behind two units are the same: the same unit, or two units of a
\* drive in file mode, which has one image whatever slot the unit names.
SameVolume(u, v) ==
    \/ u = v
    \/ DriveOf(u) = DriveOf(v) /\ state[DriveOf(u)] = "FILE"

\* Two blocks never share a sector: not two blocks of a volume, not two volumes
\* of a drive, not the two drives, while the configuration changes, after a
\* drive has failed to come up, or with both drives in one socket.
BlocksApart ==
    \A u, v \in Units, b, c \in Blks :
        Served(u) /\ Served(v) /\ Place(u, b) = Place(v, c)
            => SameVolume(u, v) /\ b = c
=============================================================================
