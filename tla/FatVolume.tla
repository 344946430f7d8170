------------------------------ MODULE FatVolume ------------------------------
(***************************************************************************)
(* What FatFs makes of the boot sector of a volume: whether it takes the   *)
(* sector for a FAT boot record, whether it accepts the volume, and where  *)
(* it then looks for the FAT, the root directory and the clusters.         *)
(*                                                                         *)
(* A boot sector is a record of the fields that are looked at.  Sectors    *)
(* and sizes are 32-bit numbers.                                           *)
(***************************************************************************)
EXTENDS Naturals

CONSTANTS WORD, DWORD,       \* 2^16 and 2^32
          SS, SZDIRE,        \* the bytes of a sector and of a directory entry
          MIN_SECTORS,       \* fewest sectors of a volume without signature
          MAX_FAT12, MAX_FAT16, MAX_FAT32   \* most clusters of each type

PerSector == SS \div SZDIRE  \* directory entries per sector

ASSUME SizeAssumption ==
    /\ WORD \in Nat /\ DWORD \in Nat /\ WORD <= DWORD /\ MIN_SECTORS \in Nat
    /\ SS \in Nat \ {0} /\ SZDIRE \in Nat \ {0} /\ SS \div SZDIRE \in Nat \ {0}
    /\ SS = (SS \div SZDIRE) * SZDIRE
ASSUME TypeAssumption ==
    /\ MAX_FAT12 \in Nat /\ MAX_FAT16 \in Nat /\ MAX_FAT32 \in Nat
    /\ MAX_FAT12 <= MAX_FAT16 /\ MAX_FAT16 <= MAX_FAT32
    /\ 4 * (MAX_FAT32 + 2) + SS < DWORD

\* The fields of a sector read as a boot record, and as a partition table.
BootSectors ==
    [jump : BOOLEAN, sign : BOOLEAN, fat32 : BOOLEAN,
     bps : {n \in Nat : n < WORD}, spc : Nat, rsvd : {n \in Nat : n < WORD}, nfats : Nat,
     rootent : {n \in Nat : n < WORD},
     tot16 : {n \in Nat : n < WORD}, tot32 : {n \in Nat : n < DWORD},
     fatsz16 : {n \in Nat : n < WORD}, fatsz32 : {n \in Nat : n < DWORD},
     fsver : Nat, rootclus : {n \in Nat : n < DWORD}, fsinfo : BOOLEAN,
     part : [1..4 -> {n \in Nat : n < DWORD}]]

\* A byte of which at most one bit is set.
PowerOfTwo(n) == n \in {1, 2, 4, 8, 16, 32, 64, 128}

-----------------------------------------------------------------------------
(* check_fs(): what a sector is. *)

\* Volumes of early MS-DOS have neither signature nor type, only fields that fit.
LooksLikeFat(b) ==
    /\ b.bps = SS
    /\ PowerOfTwo(b.spc)
    /\ b.rsvd # 0
    /\ b.nfats \in {1, 2}
    /\ b.rootent # 0
    /\ b.tot16 >= MIN_SECTORS \/ b.tot32 >= WORD
    /\ b.fatsz16 # 0

Status(b) ==
    IF b.jump /\ ((b.sign /\ b.fat32) \/ LooksLikeFat(b)) THEN "fat"
    ELSE IF b.sign THEN "table" ELSE "nothing"

-----------------------------------------------------------------------------
(* mount_volume(): the analysis of the boot record. *)

FatSize(b)  == IF b.fatsz16 # 0 THEN b.fatsz16 ELSE b.fatsz32
Total(b)    == IF b.tot16 # 0 THEN b.tot16 ELSE b.tot32
FatArea(b)  == (FatSize(b) * b.nfats) % DWORD
RootArea(b) == b.rootent \div PerSector
System(b)   == (b.rsvd + FatArea(b) + RootArea(b)) % DWORD
NClst(b)    == (Total(b) - System(b)) \div b.spc

SubType(n) == IF n <= MAX_FAT12 THEN "fat12"
              ELSE IF n <= MAX_FAT16 THEN "fat16"
              ELSE IF n <= MAX_FAT32 THEN "fat32" ELSE "none"

\* The bytes of a FAT of n entries.
Needed(t, n) ==
    IF t = "fat32" THEN n * 4
    ELSE IF t = "fat16" THEN n * 2
    ELSE (n * 3) \div 2 + (n % 2)

FieldsFit(b) ==
    /\ b.bps = SS
    /\ b.nfats \in {1, 2}
    /\ PowerOfTwo(b.spc)
    /\ b.rootent % PerSector = 0
    /\ b.rsvd # 0

RootFits(b, t) == IF t = "fat32" THEN b.fsver = 0 /\ b.rootent = 0 ELSE b.rootent # 0

\* Wrong on purpose: part of a sector is not counted.
FatFitsAbout(b, t) == FatSize(b) >= Needed(t, NClst(b) + 2) \div SS

FatFits(b, t) == FatSize(b) >= (Needed(t, NClst(b) + 2) + (SS - 1)) \div SS

Accepts(b) ==
    /\ FieldsFit(b)
    /\ Total(b) >= System(b)
    /\ NClst(b) # 0
    /\ SubType(NClst(b)) # "none"
    /\ RootFits(b, SubType(NClst(b)))
    /\ FatFits(b, SubType(NClst(b)))

\* FATFS: where the parts of the volume that begins at bsect are.
Layout(b, bsect) ==
    LET t == SubType(NClst(b)) IN
    [type |-> t, n_fats |-> b.nfats, csize |-> b.spc, n_rootdir |-> b.rootent,
     n_fatent |-> NClst(b) + 2, fsize |-> FatSize(b),
     volbase  |-> bsect,
     fatbase  |-> (bsect + b.rsvd) % DWORD,
     dirbase  |-> IF t = "fat32" THEN b.rootclus
                  ELSE (((bsect + b.rsvd) % DWORD) + FatArea(b)) % DWORD,
     database |-> (bsect + System(b)) % DWORD]

-----------------------------------------------------------------------------
(* Where an accepted volume is looked at. *)

\* The first sector of a cluster; 0 of a number that is no cluster.
clst2sect(v, clst) ==
    IF clst < 2 \/ clst >= v.n_fatent THEN 0
    ELSE (v.database + v.csize * (clst - 2)) % DWORD

\* The first and the last byte of an entry in the FAT.
FirstByte(v, clst) ==
    IF v.type = "fat32" THEN clst * 4
    ELSE IF v.type = "fat16" THEN clst * 2
    ELSE clst + clst \div 2
LastByte(v, clst) ==
    FirstByte(v, clst) + (IF v.type = "fat32" THEN 3 ELSE 1)

\* The sectors get_fat() reads for the entry of a cluster, the last one last.
EntrySectors(v, clst) ==
    IF v.type = "fat12"
      THEN <<(v.fatbase + FirstByte(v, clst) \div SS) % DWORD,
             (v.fatbase + LastByte(v, clst) \div SS) % DWORD>>
      ELSE <<(v.fatbase + FirstByte(v, clst) \div SS) % DWORD>>

-----------------------------------------------------------------------------
(* What a volume that is used must be like. *)

\* The volume lies on a card, which has less than 2^32 sectors, and so do its FATs.
\* No line checks either: it is so on every card that was formatted.
OnCard(b, bsect) ==
    /\ bsect + Total(b) < DWORD
    /\ b.rsvd + FatSize(b) * b.nfats + RootArea(b) < DWORD

\* The boot sector, the FATs, the root directory and the clusters follow each other.
AreasApart(v) ==
    /\ v.volbase < v.fatbase
    /\ IF v.type = "fat32"
         THEN v.fatbase + v.fsize * v.n_fats <= v.database
         ELSE /\ v.fatbase + v.fsize * v.n_fats <= v.dirbase
              /\ v.dirbase + v.n_rootdir \div PerSector <= v.database

\* Every entry that is looked up is in the first FAT.
EntriesInFat(v) ==
    \A c \in 2..v.n_fatent - 1 :
       \A i \in DOMAIN EntrySectors(v, c) :
          /\ v.fatbase <= EntrySectors(v, c)[i]
          /\ EntrySectors(v, c)[i] < v.fatbase + v.fsize

\* Every cluster is in the volume of the given size, behind its system areas.
ClustersInside(v, size) ==
    \A c \in 2..v.n_fatent - 1 :
       /\ v.database <= clst2sect(v, c)
       /\ clst2sect(v, c) + v.csize <= v.volbase + size

\* No sector belongs to two clusters.
ClustersApart(v) ==
    \A c, d \in 2..v.n_fatent - 1 :
       c < d => clst2sect(v, c) + v.csize <= clst2sect(v, d)
=============================================================================
