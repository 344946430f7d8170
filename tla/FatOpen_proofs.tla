---------------------------- MODULE FatOpen_proofs ----------------------------
(*****************************************************************************)
(* Proofs about FatVolume and FatOpen.  First, an accepted volume is laid    *)
(* out soundly, for every boot sector and every size of sectors, entries and *)
(* numbers.  Then, whatever cards are exchanged and whatever accesses fail,  *)
(* a volume that is mounted is sound: the analysis was made of the card that *)
(* is still in the drive; the search of the root directory stays inside it;  *)
(* and the file that is open is the one the image number names.              *)
(*****************************************************************************)
EXTENDS FatOpen, Integers, WellFoundedInduction, SequenceTheorems, TLAPS

-----------------------------------------------------------------------------
(* The layout of a volume (FatVolume). *)

\* A quotient times its divisor is not more than the dividend.
LEMMA Quotient ==
    ASSUME NEW a \in Nat, NEW b \in Nat \ {0}
    PROVE  a \div b \in Nat /\ b * (a \div b) <= a /\ a < b * (a \div b) + b
OBVIOUS

\* A product of numbers grows with either.
LEMMA Product ==
    ASSUME NEW a \in Nat, NEW b \in Nat, NEW c \in Nat, a <= b
    PROVE  c * a <= c * b /\ c * a \in Nat
OBVIOUS

\* What lies in the first bytes of a FAT lies in its first sectors.
LEMMA SectorOfByte ==
    ASSUME NEW s \in Nat \ {0}, NEW k \in Nat, NEW need \in Nat, NEW n \in Nat,
           k < need, n >= (need + (s - 1)) \div s
    PROVE  k \div s < n /\ k \div s \in Nat
<1>1. need + (s - 1) < s * ((need + (s - 1)) \div s) + s  BY Quotient
<1>2. s * (k \div s) <= k /\ k \div s \in Nat  BY Quotient
<1>3. s * ((need + (s - 1)) \div s) <= s * n
  BY Product, Quotient
<1>4. s * (k \div s) < s * n
  <2> DEFINE q == (need + (s - 1)) \div s
  <2>1. q \in Nat  BY Quotient
  <2>2. need - 1 < s * q  BY <1>1, <2>1
  <2> HIDE DEF q
  <2>3. s * q <= s * n  BY <1>3 DEF q
  <2>4. s * n \in Int /\ s * q \in Int  BY <2>1
  <2> QED BY <2>2, <2>3, <2>4, <1>2
<1>5. SUFFICES ASSUME k \div s >= n PROVE FALSE  BY <1>2
<1>6. s * n <= s * (k \div s)  BY <1>5, <1>2, Product
<1>7. s * n \in Int /\ s * (k \div s) \in Int  BY <1>2
<1> QED BY <1>4, <1>6, <1>7

\* A number that fits in 32 bits is not cut.
LEMMA Fits ==
    ASSUME NEW a \in Nat, NEW m \in Nat, a < m
    PROVE  a % m = a
OBVIOUS

\* The numbers an analysis begins with.
LEMMA Numbers ==
    ASSUME NEW b \in BootSectors
    PROVE  /\ FatSize(b) \in Nat /\ Total(b) \in Nat /\ RootArea(b) \in Nat
           /\ b.rsvd \in Nat /\ b.nfats \in Nat /\ b.spc \in Nat /\ b.rootent \in Nat
           /\ FatSize(b) * b.nfats \in Nat /\ PerSector \in Nat \ {0} /\ DWORD \in Nat
<1>1. /\ b.rsvd \in Nat /\ b.nfats \in Nat /\ b.spc \in Nat /\ b.rootent \in Nat
      /\ b.tot16 \in Nat /\ b.tot32 \in Nat /\ b.fatsz16 \in Nat /\ b.fatsz32 \in Nat
  BY DEF BootSectors
<1>2. FatSize(b) \in Nat /\ Total(b) \in Nat  BY <1>1 DEF FatSize, Total
<1>3. PerSector \in Nat \ {0} /\ DWORD \in Nat  BY SizeAssumption DEF PerSector
<1>4. RootArea(b) \in Nat  BY <1>1, <1>3, Quotient DEF RootArea
<1>5. FatSize(b) * b.nfats \in Nat  BY <1>1, <1>2
<1> QED BY <1>1, <1>2, <1>3, <1>4, <1>5

\* What an accepted volume's boot sector says, with nothing cut to 32 bits.
LEMMA Analysis ==
    ASSUME NEW b \in BootSectors, NEW bsect \in Nat, Accepts(b), OnCard(b, bsect)
    PROVE  /\ FatArea(b) = FatSize(b) * b.nfats
           /\ System(b) = b.rsvd + FatSize(b) * b.nfats + RootArea(b)
           /\ b.rsvd > 0 /\ b.nfats \in {1, 2} /\ b.spc \in Nat \ {0}
           /\ NClst(b) \in Nat \ {0} /\ b.spc * NClst(b) \in Nat
           /\ System(b) + b.spc * NClst(b) <= Total(b)
           /\ bsect + Total(b) < DWORD
<1> DEFINE sys == b.rsvd + FatSize(b) * b.nfats + RootArea(b)
<1>1. FatSize(b) * b.nfats < DWORD /\ sys \in Nat /\ sys < DWORD
  BY Numbers DEF OnCard
<1>2. FatArea(b) = FatSize(b) * b.nfats  BY <1>1, Numbers, Fits DEF FatArea
<1>3. System(b) = sys  BY <1>1, <1>2, Numbers, Fits DEF System
<1>4. b.rsvd > 0 /\ b.nfats \in {1, 2} /\ b.spc \in Nat \ {0}
  BY Numbers DEF Accepts, FieldsFit, PowerOfTwo
<1>5. Total(b) - System(b) \in Nat
  <2> HIDE DEF sys
  <2> QED BY <1>1, <1>3, Numbers DEF Accepts
<1>6. /\ NClst(b) \in Nat
      /\ b.spc * NClst(b) <= Total(b) - System(b)
  BY <1>4, <1>5, Quotient DEF NClst
<1>7. NClst(b) # 0  BY DEF Accepts
<1>8. b.spc * NClst(b) \in Nat  BY <1>4, <1>6
<1>9. System(b) + b.spc * NClst(b) <= Total(b)
  <2> HIDE DEF sys
  <2> QED BY <1>1, <1>3, <1>6, <1>8, Numbers
<1>10. bsect + Total(b) < DWORD  BY DEF OnCard
<1> QED BY <1>2, <1>3, <1>4, <1>6, <1>7, <1>8, <1>9, <1>10

\* Where the parts are.
LEMMA AreaStarts ==
    ASSUME NEW b \in BootSectors, NEW bsect \in Nat, Accepts(b), OnCard(b, bsect)
    PROVE  LET v == Layout(b, bsect) IN
           /\ v.type \in {"fat12", "fat16", "fat32"} /\ v.type = SubType(NClst(b))
           /\ v.volbase = bsect /\ v.fatbase = bsect + b.rsvd
           /\ v.fsize = FatSize(b) /\ v.n_fats = b.nfats /\ v.csize = b.spc
           /\ v.n_rootdir = b.rootent /\ v.n_fatent = NClst(b) + 2
           /\ v.database = bsect + System(b)
           /\ v.type # "fat32" => v.dirbase = bsect + b.rsvd + FatSize(b) * b.nfats
<1> DEFINE v == Layout(b, bsect)
           fats == FatSize(b) * b.nfats
           clusters == b.spc * NClst(b)
<1>1. /\ fats \in Nat /\ clusters \in Nat /\ DWORD \in Nat /\ b.rsvd \in Nat
      /\ RootArea(b) \in Nat /\ Total(b) \in Nat
  BY Numbers, Analysis
<1>2. /\ FatArea(b) = fats /\ System(b) = b.rsvd + fats + RootArea(b)
      /\ System(b) + clusters <= Total(b) /\ bsect + Total(b) < DWORD
  BY Analysis
<1>3. /\ v.type = SubType(NClst(b)) /\ v.volbase = bsect /\ v.fsize = FatSize(b)
      /\ v.n_fats = b.nfats /\ v.csize = b.spc
      /\ v.n_rootdir = b.rootent /\ v.n_fatent = NClst(b) + 2
      /\ v.fatbase = (bsect + b.rsvd) % DWORD
      /\ v.database = (bsect + System(b)) % DWORD
      /\ v.type # "fat32" => v.dirbase = (((bsect + b.rsvd) % DWORD) + fats) % DWORD
  BY <1>2 DEF Layout
<1>4. v.type \in {"fat12", "fat16", "fat32"}  BY <1>3 DEF Accepts, SubType
<1> HIDE DEF v, fats, clusters
<1>5. /\ bsect + b.rsvd \in Nat /\ bsect + b.rsvd < DWORD
      /\ bsect + System(b) \in Nat /\ bsect + System(b) < DWORD
      /\ bsect + b.rsvd + fats \in Nat /\ bsect + b.rsvd + fats < DWORD
  BY <1>1, <1>2
<1>6. v.fatbase = bsect + b.rsvd /\ v.database = bsect + System(b)
  BY <1>3, <1>5, <1>1, Fits
<1>7. v.type # "fat32" => v.dirbase = bsect + b.rsvd + fats
  BY <1>3, <1>5, <1>6, <1>1, Fits
<1> QED BY <1>3, <1>4, <1>6, <1>7 DEF v, fats

-----------------------------------------------------------------------------
\* THEOREM: the boot sector, the FATs, the root directory and the clusters of an accepted
\* volume follow each other.
THEOREM AcceptedApart ==
    ASSUME NEW b \in BootSectors, NEW bsect \in Nat, Accepts(b), OnCard(b, bsect)
    PROVE  AreasApart(Layout(b, bsect))
<1> DEFINE v == Layout(b, bsect)
           fats == FatSize(b) * b.nfats
<1>1. fats \in Nat /\ RootArea(b) \in Nat /\ b.rsvd \in Nat  BY Numbers
<1>2. System(b) = b.rsvd + fats + RootArea(b) /\ b.rsvd > 0  BY Analysis
<1>3. /\ v.volbase = bsect /\ v.fatbase = bsect + b.rsvd /\ v.fsize * v.n_fats = fats
      /\ v.database = bsect + System(b) /\ v.n_rootdir \div PerSector = RootArea(b)
      /\ v.type # "fat32" => v.dirbase = bsect + b.rsvd + fats
  BY AreaStarts DEF RootArea
<1> HIDE DEF v, fats
<1>4. /\ v.volbase < v.fatbase
      /\ v.fatbase + v.fsize * v.n_fats <= v.database
      /\ v.type # "fat32" => /\ v.fatbase + v.fsize * v.n_fats <= v.dirbase
                             /\ v.dirbase + v.n_rootdir \div PerSector <= v.database
  BY <1>1, <1>2, <1>3
<1>5. AreasApart(v)  BY <1>4 DEF AreasApart
<1> QED BY <1>5 DEF v

\* A FAT of n entries has room for every one of them.
LEMMA ByteNeeded ==
    ASSUME NEW v, v.type \in {"fat12", "fat16", "fat32"}, v.n_fatent \in Nat,
           NEW c \in Nat, 2 <= c, c < v.n_fatent
    PROVE  /\ FirstByte(v, c) \in Nat /\ LastByte(v, c) \in Nat
           /\ FirstByte(v, c) <= LastByte(v, c)
           /\ Needed(v.type, v.n_fatent) \in Nat
           /\ LastByte(v, c) < Needed(v.type, v.n_fatent)
<1>1. CASE v.type = "fat32"
  BY <1>1 DEF FirstByte, LastByte, Needed
<1>2. CASE v.type = "fat16"
  BY <1>2 DEF FirstByte, LastByte, Needed
<1>3. CASE v.type = "fat12"
  <2> DEFINE n == v.n_fatent
  <2>1. FirstByte(v, c) = c + c \div 2 /\ LastByte(v, c) = c + c \div 2 + 1
        /\ Needed(v.type, n) = (n * 3) \div 2 + (n % 2)
    BY <1>3 DEF FirstByte, LastByte, Needed
  <2> HIDE DEF n
  <2>2. n \in Nat /\ c < n  BY DEF n
  <2>3. c + c \div 2 + 1 < (n * 3) \div 2 + (n % 2)
    BY <2>2
  <2>4. c \div 2 \in Nat /\ (n * 3) \div 2 + (n % 2) \in Nat
    BY <2>2
  <2> QED BY <2>1, <2>3, <2>4 DEF n
<1> QED BY <1>1, <1>2, <1>3

\* THEOREM: every entry that is looked up in the FAT of an accepted volume is in its first FAT.
THEOREM AcceptedEntries ==
    ASSUME NEW b \in BootSectors, NEW bsect \in Nat, Accepts(b), OnCard(b, bsect)
    PROVE  EntriesInFat(Layout(b, bsect))
<1> DEFINE v == Layout(b, bsect)
<1>1. SUFFICES ASSUME NEW c \in 2..v.n_fatent - 1, NEW i \in DOMAIN EntrySectors(v, c)
               PROVE  /\ v.fatbase <= EntrySectors(v, c)[i]
                      /\ EntrySectors(v, c)[i] < v.fatbase + v.fsize
  BY DEF EntriesInFat
<1>2. /\ FirstByte(v, c) \in Nat /\ LastByte(v, c) \in Nat
      /\ FirstByte(v, c) <= LastByte(v, c)
      /\ Needed(v.type, v.n_fatent) \in Nat
      /\ LastByte(v, c) < Needed(v.type, v.n_fatent)
  <2>1. v.type \in {"fat12", "fat16", "fat32"} /\ v.n_fatent \in Nat
    BY AreaStarts, Analysis
  <2> HIDE DEF v
  <2>2. c \in Nat /\ 2 <= c /\ c < v.n_fatent  BY <2>1
  <2> QED BY <2>1, <2>2, ByteNeeded
<1>3. v.fsize = FatSize(b) /\ v.fsize \in Nat /\ v.fsize >= (Needed(v.type, v.n_fatent) + (SS - 1)) \div SS
  BY AreaStarts, Numbers DEF Accepts, FatFits
<1>4. SS \in Nat \ {0}  BY SizeAssumption
<1>5. /\ FirstByte(v, c) \div SS \in Nat /\ FirstByte(v, c) \div SS < v.fsize
      /\ LastByte(v, c) \div SS \in Nat /\ LastByte(v, c) \div SS < v.fsize
  <2> DEFINE need == Needed(v.type, v.n_fatent)
             lo == FirstByte(v, c)
             hi == LastByte(v, c)
             size == v.fsize
  <2>1. need \in Nat /\ lo \in Nat /\ hi \in Nat /\ lo < need /\ hi < need /\ size \in Nat
        /\ size >= (need + (SS - 1)) \div SS
    BY <1>2, <1>3
  <2> HIDE DEF need, lo, hi, size
  <2>2. lo \div SS < size /\ lo \div SS \in Nat  BY <2>1, <1>4, SectorOfByte
  <2>3. hi \div SS < size /\ hi \div SS \in Nat  BY <2>1, <1>4, SectorOfByte
  <2> QED BY <2>2, <2>3 DEF need, lo, hi, size
<1>6. v.fatbase \in Nat /\ v.fatbase + v.fsize < DWORD /\ DWORD \in Nat
  <2> DEFINE fats == FatSize(b) * b.nfats
             all  == b.spc * NClst(b)
  <2>1. v.fatbase = bsect + b.rsvd /\ v.fsize = FatSize(b) /\ b.nfats \in {1, 2}
    BY AreaStarts, Analysis
  <2>2. FatSize(b) <= fats  BY <2>1, Numbers
  <2>3. /\ System(b) = b.rsvd + fats + RootArea(b) /\ System(b) + all <= Total(b)
        /\ bsect + Total(b) < DWORD /\ all \in Nat
    BY Analysis
  <2>4. /\ fats \in Nat /\ RootArea(b) \in Nat /\ b.rsvd \in Nat /\ FatSize(b) \in Nat
        /\ Total(b) \in Nat /\ DWORD \in Nat
    BY Numbers
  <2> HIDE DEF fats, all, v
  <2> QED BY <2>1, <2>2, <2>3, <2>4
<1>7. \A k \in Nat : k < v.fsize => (v.fatbase + k) % DWORD = v.fatbase + k
  BY <1>3, <1>6, Fits
<1>8. EntrySectors(v, c)[i] \in {v.fatbase + FirstByte(v, c) \div SS,
                                 v.fatbase + LastByte(v, c) \div SS}
  <2> DEFINE lo == (v.fatbase + FirstByte(v, c) \div SS) % DWORD
             hi == (v.fatbase + LastByte(v, c) \div SS) % DWORD
  <2>1. lo = v.fatbase + FirstByte(v, c) \div SS /\ hi = v.fatbase + LastByte(v, c) \div SS
    BY <1>5, <1>7
  <2>2. EntrySectors(v, c) = IF v.type = "fat12" THEN <<lo, hi>> ELSE <<lo>>
    BY DEF EntrySectors
  <2> HIDE DEF lo, hi, v
  <2>3. EntrySectors(v, c)[i] \in {lo, hi}  BY <2>2
  <2> QED BY <2>1, <2>3
<1> HIDE DEF v
<1> QED BY <1>3, <1>5, <1>6, <1>8

\* One cluster more.
LEMMA OneMore ==
    ASSUME NEW size \in Nat, NEW k \in Int, k - 1 \in Nat
    PROVE  size * k = size * (k - 1) + size
<1>1. \A n \in Nat : size * (n + 1) = size * n + size  BY SMT
<1>2. size * ((k - 1) + 1) = size * (k - 1) + size  BY <1>1
<1>3. (k - 1) + 1 = k  OBVIOUS
<1> QED BY <1>2, <1>3

\* A cluster begins where clst2sect() says, and nothing is cut.
LEMMA ClusterAt ==
    ASSUME NEW b \in BootSectors, NEW bsect \in Nat, Accepts(b), OnCard(b, bsect),
           NEW c \in 2..Layout(b, bsect).n_fatent - 1
    PROVE  /\ clst2sect(Layout(b, bsect), c) = bsect + System(b) + b.spc * (c - 2)
           /\ b.spc * (c - 2) \in Nat
           /\ b.spc * (c - 2) + b.spc <= b.spc * NClst(b)
<1> DEFINE v == Layout(b, bsect)
           before == b.spc * (c - 2)
           all == b.spc * NClst(b)
<1>1. /\ v.n_fatent = NClst(b) + 2 /\ v.database = bsect + System(b) /\ v.csize = b.spc
      /\ NClst(b) \in Nat /\ b.spc \in Nat \ {0} /\ all \in Nat
  BY AreaStarts, Analysis
<1>2. c - 2 \in Nat /\ c - 2 < NClst(b) /\ c \in Int  BY <1>1
<1>3. before \in Nat  BY <1>1, <1>2
<1>4. b.spc * (c - 1) <= all
  <2>1. c - 1 \in Nat /\ c - 1 <= NClst(b)  BY <1>1, <1>2
  <2> QED BY <2>1, <1>1, Product
<1>5. b.spc * (c - 1) = before + b.spc
  <2>1. c - 1 \in Int /\ (c - 1) - 1 \in Nat /\ (c - 1) - 1 = c - 2 /\ b.spc \in Nat
    BY <1>1, <1>2
  <2> QED BY <2>1, OneMore
<1>6. /\ System(b) \in Nat /\ System(b) + all <= Total(b) /\ bsect + Total(b) < DWORD
      /\ Total(b) \in Nat /\ DWORD \in Nat
  BY Analysis, Numbers
<1>7. bsect + System(b) + before \in Nat /\ bsect + System(b) + before < DWORD
  <2> HIDE DEF before, all
  <2> QED BY <1>1, <1>3, <1>4, <1>5, <1>6
<1>8. clst2sect(v, c) = (bsect + System(b) + before) % DWORD
  <2>1. ~(c < 2 \/ c >= v.n_fatent)  BY <1>1, <1>2
  <2> QED BY <2>1, <1>1 DEF clst2sect
<1>9. clst2sect(v, c) = bsect + System(b) + before
  <2> HIDE DEF before, v
  <2> QED BY <1>6, <1>7, <1>8, Fits
<1> QED BY <1>3, <1>4, <1>5, <1>9

\* THEOREM: every cluster of an accepted volume is inside it, and no two share a sector.
THEOREM AcceptedClusters ==
    ASSUME NEW b \in BootSectors, NEW bsect \in Nat, Accepts(b), OnCard(b, bsect)
    PROVE  /\ ClustersInside(Layout(b, bsect), Total(b))
           /\ ClustersApart(Layout(b, bsect))
<1> DEFINE v == Layout(b, bsect)
           all == b.spc * NClst(b)
<1>1. /\ v.volbase = bsect /\ v.database = bsect + System(b) /\ v.csize = b.spc
      /\ v.n_fatent = NClst(b) + 2 /\ NClst(b) \in Nat /\ b.spc \in Nat \ {0}
      /\ System(b) \in Nat /\ System(b) + all <= Total(b) /\ all \in Nat /\ Total(b) \in Nat
  BY AreaStarts, Analysis, Numbers
<1>2. ClustersInside(v, Total(b))
  <2>1. SUFFICES ASSUME NEW c \in 2..v.n_fatent - 1
                 PROVE  /\ v.database <= clst2sect(v, c)
                        /\ clst2sect(v, c) + v.csize <= v.volbase + Total(b)
    BY DEF ClustersInside
  <2> DEFINE before == b.spc * (c - 2)
  <2>2. clst2sect(v, c) = bsect + System(b) + before /\ before \in Nat /\ before + b.spc <= all
    BY ClusterAt
  <2> HIDE DEF before, v, all
  <2> QED BY <1>1, <2>2
<1>3. ClustersApart(v)
  <2>1. SUFFICES ASSUME NEW c \in 2..v.n_fatent - 1, NEW d \in 2..v.n_fatent - 1, c < d
                 PROVE  clst2sect(v, c) + v.csize <= clst2sect(v, d)
    BY DEF ClustersApart
  <2> DEFINE first == b.spc * (c - 2)
             second == b.spc * (d - 2)
  <2>2. clst2sect(v, c) = bsect + System(b) + first /\ first \in Nat
    BY ClusterAt
  <2>3. clst2sect(v, d) = bsect + System(b) + second /\ second \in Nat
    BY ClusterAt
  <2>4. first + b.spc <= second
    <3>1. c - 1 \in Nat /\ d - 2 \in Nat /\ c - 1 <= d - 2 /\ (c - 1) - 1 \in Nat
          /\ (c - 1) - 1 = c - 2
      <4>1. v.n_fatent \in Nat  BY <1>1
      <4> HIDE DEF v
      <4>2. c \in Nat /\ d \in Nat /\ 2 <= c /\ 2 <= d  BY <4>1
      <4> QED BY <4>2, <2>1
    <3>2. b.spc \in Nat  BY <1>1
    <3>3. b.spc * (c - 1) <= second  BY <3>1, <3>2, Product
    <3>4. c - 1 \in Int  BY <3>1
    <3>5. b.spc * (c - 1) = b.spc * ((c - 1) - 1) + b.spc  BY <3>1, <3>2, <3>4, OneMore
    <3>6. b.spc * (c - 1) = first + b.spc  BY <3>1, <3>5
    <3> QED BY <3>3, <3>6
  <2> HIDE DEF first, second, v
  <2> QED BY <1>1, <2>2, <2>3, <2>4
<1> QED BY <1>2, <1>3

-----------------------------------------------------------------------------
(* Mounting and opening (FatOpen). *)

Boot(s) == BootAt(card[pdrv], s)

\* The card of the volume is there as long as the volume is mounted.
Bound ==
    /\ card \in [Drives -> Cards] /\ name \in [Drives -> Images \cup {None}]
    /\ pc # "idle" => drive \in Drives /\ name[drive] \in Images
    /\ pc \notin {"idle", "mount"} => pdrv = drive
    /\ fs_type # "none" => pc \notin {"mount", "check", "analyse", "info"}
    /\ pc = "idle" /\ fs_type # "none" => last_drive = pdrv /\ pdrv \in Drives

\* What is searched and analysed was read from that card.
Searched ==
    /\ part # 0 => pc \in {"check", "analyse", "info"}
    /\ pc = "check" /\ part # 0 => win.card \in {card[pdrv], NoCard}
    /\ pc = "analyse" => win.card \in {card[pdrv], NoCard}

\* The FATFS is what mount_volume() makes of a boot sector it accepts.
Analysed ==
    fs_type # "none" \/ pc = "info" =>
       Accepts(Boot(vol.volbase)) /\ vol = Layout(Boot(vol.volbase), vol.volbase)

IInv == Bound /\ Searched /\ Analysed

\* A sector that is not on the card is no boot sector of a volume.
LEMMA BootOf ==
    ASSUME NEW k \in Cards \cup {NoCard}, NEW s, Accepts(BootAt(k, s))
    PROVE  k \in Cards /\ s \in Nat /\ BootAt(k, s) \in BootSectors /\ OnCard(BootAt(k, s), s)
<1>1. ~Accepts(Blank)  BY DEF Accepts, FieldsFit, Blank
<1>2. k # NoCard /\ s \in DOMAIN Content[k].boot /\ BootAt(k, s) = Content[k].boot[s]
  BY <1>1 DEF BootAt
<1> QED BY <1>2, CardAssumption

LEMMA LayoutBase ==
    ASSUME NEW b, NEW s PROVE Layout(b, s).volbase = s
BY DEF Layout

\* The path of an image in drive d begins with the digit of d and a colon, so FatFs takes
\* it for that drive.
LEMMA PathDrive ==
    ASSUME NEW d \in Drives, NEW n \in Images
    PROVE  get_ldnumber(Path(d, n)) = <<d, SubSeq(Path(d, n), 3, 14)>>
<1> DEFINE p == Path(d, n)
           ends(c) == IsTerminator(c) \/ c = Colon
           at == CHOOSE i \in 1..Len(p) : ends(p[i]) /\ \A j \in 1..i - 1 : ~ends(p[j])
<1>1. d \in {0, 1}  BY BoundAssumption
<1>2. Len(p) = 14 /\ p[1] = 48 + d /\ p[2] = 58
  <2>1. /\ blockdev_filename(d) = <<48 + d, 58, 66, 76, 75, 68, 69, 86, 88, 88, 46, 80, 79, 0>>
    BY DEF blockdev_filename, Digit0, Colon, Dot
  <2>2. /\ Len(blockdev_filename(d)) = 14
        /\ blockdev_filename(d)[1] = 48 + d /\ blockdev_filename(d)[2] = 58
        /\ DOMAIN blockdev_filename(d) = 1..14
    BY <2>1, <1>1
  <2> QED BY <2>2 DEF Path, set_blockdev_filename
<1>3. ends(p[2]) /\ ~ends(p[1])
  BY <1>1, <1>2 DEF IsTerminator, Colon
<1>4. at = 2
  <2> HIDE DEF p, ends
  <2>1. 2 \in 1..Len(p) /\ \A j \in 1..2 - 1 : ~ends(p[j])  BY <1>2, <1>3
  <2>2. ASSUME NEW i \in 1..Len(p), ends(p[i]), \A j \in 1..i - 1 : ~ends(p[j])
        PROVE  i = 2
    BY <1>2, <1>3, <2>2
  <2> QED BY <1>3, <2>1, <2>2
<1>5. p[at] = Colon /\ IsDigit(p[1]) /\ p[1] - Digit0 = d /\ d < FF_VOLUMES
  BY <1>1, <1>2, <1>4 DEF Colon, IsDigit, Digit0, FF_VOLUMES
<1>6. get_ldnumber(p) =
        IF p[at] # Colon THEN <<0, p>>
        ELSE IF at = 2 /\ IsDigit(p[1]) /\ p[1] - Digit0 < FF_VOLUMES
        THEN <<p[1] - Digit0, SubSeq(p, 3, Len(p))>> ELSE Invalid
  BY DEF get_ldnumber
<1>7. get_ldnumber(p) = <<d, SubSeq(p, 3, Len(p))>>
  <2> HIDE DEF p, at
  <2> QED BY <1>4, <1>5, <1>6
<1> QED BY <1>2, <1>7

LEMMA LookupDrive ==
    ASSUME drive \in Drives, name[drive] \in Images PROVE Lookup.ldnumber = drive
<1> DEFINE l == [drive |-> drive, image |-> name[drive],
                 ldnumber |-> get_ldnumber(Path(drive, name[drive]))[1],
                 fn |-> EntryName(Path(drive, name[drive]))]
<1>1. l \in Lookups /\ l.drive = drive /\ l.image = name[drive]  BY DEF Lookups
<1>2. Lookup \in Lookups /\ Lookup.drive = drive /\ Lookup.image = name[drive]
  <2> HIDE DEF l
  <2> QED BY <1>1 DEF Lookup
<1>3. PICK d \in Drives, n \in Images :
        Lookup = [drive |-> d, image |-> n, ldnumber |-> get_ldnumber(Path(d, n))[1],
                  fn |-> EntryName(Path(d, n))]
  BY <1>2 DEF Lookups
<1>4. d = drive /\ Lookup.ldnumber = get_ldnumber(Path(d, n))[1]  BY <1>2, <1>3
<1> QED BY <1>4, PathDrive

LEMMA InvInit == Init => IInv
BY DEF Init, IInv, Bound, Searched, Analysed

\* Between the calls: the card that is exchanged is not that of the volume.
LEMMA InvSwap == ASSUME IInv, NEW d \in Drives, Swap(d) PROVE IInv'
<1>1. Bound'
  <2>1. card' \in [Drives -> Cards]
    <3>1. Given[d] \subseteq Cards  BY BoundAssumption
    <3>2. PICK k \in Given[d] : card' = [card EXCEPT ![d] = k]  BY DEF Swap
    <3>3. card \in [Drives -> Cards] /\ k \in Cards  BY <3>1 DEF IInv, Bound
    <3> QED BY <3>2, <3>3
  <2>2. UNCHANGED <<name, pc, pdrv, fs_type, drive, last_drive>> /\ pc = "idle"
    BY DEF Swap, disk, call
  <2> QED BY <2>1, <2>2 DEF IInv, Bound
<1>2. Searched'
  BY DEF IInv, Searched, Swap, call
<1>3. Analysed'
  <2>1. fs_type # "none" => card'[pdrv] = card[pdrv]
    BY DEF IInv, Bound, Swap
  <2>2. UNCHANGED <<fs_type, pc, vol, pdrv>> /\ pc = "idle"
    BY DEF Swap, disk, volume
  <2> QED BY <2>1, <2>2 DEF IInv, Analysed, Boot
<1> QED BY <1>1, <1>2, <1>3 DEF IInv

LEMMA InvMountLater ==
    ASSUME IInv, pc = "idle", NEW d \in Drives, MountLater(d),
           name' \in [Drives -> Images \cup {None}], name'[d] \in Images
    PROVE  IInv'
BY DEF IInv, Bound, Searched, Analysed, MountLater, Closed, f_mount

LEMMA InvAccess == ASSUME IInv, NEW d \in Drives, Access(d) PROVE IInv'
<1>1. CASE last_drive = d
  <2>1. UNCHANGED <<card, name, pc, drive, pdrv, fs_type, last_drive, part, win, vol>>
    BY <1>1 DEF Access, sketch, disk, volume, call
  <2> QED BY <2>1 DEF IInv, Bound, Searched, Analysed, Boot
<1>2. CASE last_drive # d
  BY <1>2, InvMountLater DEF Access, IInv, Bound
<1> QED BY <1>1, <1>2

LEMMA InvUnmount == ASSUME IInv, Unmount PROVE IInv'
BY DEF IInv, Bound, Searched, Analysed, Unmount, Closed, f_mount, disk, call

\* A call that fails leaves nothing mounted.
LEMMA InvRefused == ASSUME IInv, NEW f, Refused(f) PROVE IInv'
BY DEF IInv, Bound, Searched, Analysed, Refused, f_mount

\* find_volume(): what is taken was read from the card of the drive.
LEMMA InvTried ==
    ASSUME IInv, NEW st, NEW table, NEW f, pc = "check", Tried(st, table, f),
           win'.card \in {card[pdrv], NoCard}
    PROVE  IInv'
<1>1. CASE st = "fat"
  BY <1>1 DEF IInv, Bound, Searched, Analysed, Tried, Goto, sketch, disk, volume
<1>2. CASE st # "fat" /\ (part = 4 \/ (part = 0 /\ st # "table"))
  BY <1>2, InvRefused DEF Tried
<1>3. CASE st # "fat" /\ ~(part = 4 \/ (part = 0 /\ st # "table"))
  BY <1>3 DEF IInv, Bound, Searched, Analysed, Tried, Goto, sketch, disk, volume
<1> QED BY <1>1, <1>2, <1>3

LEMMA InvMountVolume == ASSUME IInv, MountVolume PROVE IInv'
<1>1. fs_type = "none"  BY DEF IInv, Bound, MountVolume
<1>2. Lookup.ldnumber = drive  BY LookupDrive DEF IInv, Bound, MountVolume
<1>6. fs_type' = "none" /\ pdrv' = drive /\ pc' = "check" /\ pc = "mount"
      /\ UNCHANGED <<card, name, last_drive, drive, part, win>>
  BY <1>1, <1>2 DEF MountVolume, Goto, sketch
<1>3. Bound'  BY <1>6 DEF IInv, Bound
<1>4. Searched'  BY <1>6 DEF IInv, Searched
<1>5. Analysed'  BY <1>6 DEF Analysed
<1> QED BY <1>3, <1>4, <1>5 DEF IInv

LEMMA InvNotReady == ASSUME IInv, NotReady PROVE IInv'
BY InvRefused DEF NotReady

LEMMA InvCheckSector == ASSUME IInv, CheckSector PROVE IInv'
<1>1. win'.card \in {card[pdrv], NoCard}
  <2>1. CASE Invalidated.sect = Candidate
    <3>1. part # 0
      <4>1. DWORD - 1 # 0
        <5>1. DWORD \in Nat /\ MAX_FAT32 \in Nat /\ SS \in Nat /\ 4 * (MAX_FAT32 + 2) + SS < DWORD
          BY SizeAssumption, TypeAssumption
        <5> QED BY <5>1
      <4> QED BY <2>1, <4>1 DEF Candidate, Invalidated, NoSector
    <3>2. win'.card = win.card  BY <2>1 DEF CheckSector, Loaded, Invalidated
    <3> QED BY <3>1, <3>2 DEF CheckSector, IInv, Searched
  <2>2. CASE Invalidated.sect # Candidate
    BY <2>2 DEF CheckSector, Loaded
  <2> QED BY <2>1, <2>2
<1>2. PICK st, table : Tried(st, table, FALSE)  BY DEF CheckSector
<1> QED BY <1>1, <1>2, InvTried DEF CheckSector

LEMMA InvCheckFails == ASSUME IInv, CheckFails PROVE IInv'
BY InvTried DEF CheckFails, NotLoaded, NoWindow

LEMMA InvNoPartition == ASSUME IInv, NoPartition PROVE IInv'
BY InvTried DEF NoPartition, IInv, Searched

\* mount_volume() keeps what it makes of the boot sector, if it accepts it.
LEMMA InvAnalyse == ASSUME IInv, Analyse PROVE IInv'
<1> DEFINE b == BootAt(win.card, win.sect)
           v == Layout(b, win.sect)
<1>1. CASE ~Accepts(b)
  BY <1>1, InvRefused DEF Analyse
<1>2. CASE Accepts(b)
  <2>1. drive \in Drives /\ pdrv = drive /\ card \in [Drives -> Cards] /\ fs_type = "none"
        /\ win.card \in {card[pdrv], NoCard}
    BY DEF IInv, Bound, Searched, Analyse
  <2>2. win.card \in Cards \cup {NoCard}  BY <2>1
  <2>3. win.card = card[pdrv]
    <3> HIDE DEF v
    <3>1. win.card \in Cards  BY <1>2, <2>2, BootOf
    <3> QED BY <2>1, <3>1, BoundAssumption
  <2>4. vol' = v /\ pdrv' = pdrv /\ UNCHANGED <<card, name, drive, last_drive>>
        /\ \/ pc' = "info" /\ fs_type' = fs_type /\ part' = part
           \/ pc' = "rewind" /\ part' = 0
    BY <1>2 DEF Analyse, Goto, Mounted, sketch, disk
  <2>5. v.volbase = win.sect  BY LayoutBase
  <2> HIDE DEF v
  <2>6. Bound'
    <3>1. name \in [Drives -> Images \cup {None}] /\ name[drive] \in Images
      BY DEF IInv, Bound, Analyse
    <3> QED BY <2>1, <2>4, <3>1 DEF Bound
  <2>7. Searched'  BY <2>4 DEF Searched, IInv, Analyse
  <2>8. Boot(vol.volbase)' = b  BY <2>3, <2>4, <2>5 DEF Boot
  <2>9. Analysed'  BY <1>2, <2>4, <2>5, <2>8 DEF Analysed, v
  <2> QED BY <2>6, <2>7, <2>9 DEF IInv
<1> QED BY <1>1, <1>2

LEMMA InvReadInfo == ASSUME IInv, ReadInfo PROVE IInv'
<1>1. pc = "info" /\ pc' = "rewind" /\ part' = 0
      /\ UNCHANGED <<card, name, drive, last_drive, pdrv, vol>>
  BY DEF ReadInfo, Goto, Mounted, sketch
<1>2. Bound'  BY <1>1 DEF IInv, Bound
<1>3. Searched'  BY <1>1 DEF Searched
<1>4. Analysed'  BY <1>1 DEF IInv, Analysed, Boot
<1> QED BY <1>2, <1>3, <1>4 DEF IInv

\* A step of the search leaves the volume as it is, or unmounts it.
Searching ==
    /\ pc \in {"rewind", "look", "link"}
    /\ pdrv' = pdrv /\ UNCHANGED <<card, name>>
    /\ \/ \E f : Refused(f)
       \/ /\ UNCHANGED <<vol, fs_type, part>>
          /\ \/ pc' \in {"look", "link"} /\ UNCHANGED <<drive, last_drive>>
             \/ pc' = "idle" /\ last_drive' = drive

LEMMA InvSearching == ASSUME IInv, Searching PROVE IInv'
<1>1. CASE \E f : Refused(f)
  BY <1>1, InvRefused
<1>2. CASE ~\E f : Refused(f)
  BY <1>2 DEF Searching, IInv, Bound, Searched, Analysed, Boot
<1> QED BY <1>1, <1>2

LEMMA RewindSearches == ASSUME Rewind PROVE Searching
BY DEF Rewind, Searching, Goto, Refused, disk, volume, sketch

LEMMA LookSearches == ASSUME Look PROVE Searching
<1>1. pc = "look" /\ pdrv' = pdrv
  BY DEF Look, disk
<1>2. CASE Refused(FALSE)
  BY <1>1, <1>2 DEF Searching, Refused
<1>3. CASE Opened /\ ~Refused(FALSE)
  BY <1>1, <1>3 DEF Searching, Opened, volume
<1>4. CASE NextEntry /\ ~Refused(FALSE)
  BY <1>1, <1>4 DEF Searching, NextEntry, Goto, volume, sketch
<1> QED BY <1>2, <1>3, <1>4 DEF Look

LEMMA FollowSearches == ASSUME Follow PROVE Searching
BY DEF Follow, Searching, Goto, Refused, disk, volume, sketch

LEMMA FailureSearches == ASSUME LookFails \/ FollowFails PROVE Searching
BY DEF LookFails, FollowFails, Searching, Refused, disk

LEMMA InvNext == ASSUME IInv, [Next]_vars PROVE IInv'
<1>1. ASSUME NEW d \in Drives, Swap(d) PROVE IInv'  BY <1>1, InvSwap
<1>2. ASSUME NEW d \in Drives, Access(d) PROVE IInv'  BY <1>2, InvAccess
<1>3. ASSUME NEW d \in Drives, NEW n \in Images, Initialize(d, n) PROVE IInv'
  BY <1>3, InvMountLater DEF Initialize, IInv, Bound
<1>4. CASE Unmount  BY <1>4, InvUnmount
<1>5. CASE MountVolume \/ NotReady  BY <1>5, InvMountVolume, InvNotReady
<1>6. CASE CheckSector \/ CheckFails \/ NoPartition
  BY <1>6, InvCheckSector, InvCheckFails, InvNoPartition
<1>7. CASE Analyse \/ ReadInfo  BY <1>7, InvAnalyse, InvReadInfo
<1>8. CASE Rewind \/ Look \/ LookFails \/ Follow \/ FollowFails
  BY <1>8, InvSearching, RewindSearches, LookSearches, FollowSearches, FailureSearches
<1>9. CASE UNCHANGED vars
  BY <1>9 DEF vars, IInv, Bound, Searched, Analysed, Boot
<1> QED BY <1>1, <1>2, <1>3, <1>4, <1>5, <1>6, <1>7, <1>8, <1>9 DEF Next, Step

LEMMA InvSound == IInv => VolumeSound
<1>1. SUFFICES ASSUME IInv, fs_type # "none"
               PROVE  /\ AreasApart(vol) /\ EntriesInFat(vol) /\ ClustersApart(vol)
                      /\ ClustersInside(vol, Total(Boot(vol.volbase)))
  BY DEF VolumeSound, Boot
<1> DEFINE base == vol.volbase
           b == Boot(base)
<1>2. Accepts(b) /\ vol = Layout(b, base)  BY <1>1 DEF IInv, Analysed
<1>3. card[pdrv] \in Cards  BY <1>1 DEF IInv, Bound
<1>4. base \in Nat /\ b \in BootSectors /\ OnCard(b, base)
  <2>1. BootAt(card[pdrv], base) = b  BY DEF Boot
  <2> HIDE DEF base
  <2> QED BY <1>2, <1>3, <2>1, BootOf
<1>5. /\ AreasApart(Layout(b, base)) /\ EntriesInFat(Layout(b, base))
      /\ ClustersInside(Layout(b, base), Total(b)) /\ ClustersApart(Layout(b, base))
  <2> HIDE DEF b, base
  <2> QED BY <1>2, <1>4, AcceptedApart, AcceptedEntries, AcceptedClusters
<1> QED BY <1>2, <1>5

\* THEOREM: as long as a volume is mounted, no entry of its FAT, no sector of its root
\* directory and none of its clusters is looked for outside the place it has on the card.
THEOREM MountedVolumeSound == Spec => []VolumeSound
<1> QED BY InvInit, InvNext, InvSound, PTL DEF Spec

-----------------------------------------------------------------------------
(* The FATFS is registered for one drive, and the volume is that drive's. *)

OneDrive ==
    /\ pc = "idle" => /\ FatFs = {last_drive} \cap Drives
                      /\ fs_type # "none" <=> last_drive \in Drives
    /\ pc # "idle" => FatFs = {drive} /\ last_drive = None
    /\ pc \in {"rewind", "look", "link"} => fs_type # "none"

VInv == IInv /\ OneDrive

LEMMA NoDrive == None \notin Drives
BY BoundAssumption DEF None

LEMMA DriveInit == Init => OneDrive
BY NoDrive DEF Init, OneDrive

LEMMA DriveMountLater ==
    ASSUME OneDrive, pc = "idle", NEW d \in Drives, MountLater(d) PROVE OneDrive'
<1>1. FatFs \ {last_drive} = {}  BY DEF OneDrive
<1>2. FatFs' = {d} /\ pc' = "mount" /\ drive' = d /\ last_drive' = None
  BY <1>1 DEF MountLater, Closed, f_mount
<1> QED BY <1>2 DEF OneDrive

LEMMA DriveAccess == ASSUME OneDrive, NEW d \in Drives, Access(d) PROVE OneDrive'
<1>1. CASE last_drive = d
  <2>1. UNCHANGED <<FatFs, pc, drive, fs_type, last_drive>>
    BY <1>1 DEF Access, sketch, call
  <2> QED BY <2>1 DEF OneDrive
<1>2. CASE last_drive # d
  BY <1>2, DriveMountLater DEF Access
<1> QED BY <1>1, <1>2

LEMMA DriveUnmount == ASSUME OneDrive, Unmount PROVE OneDrive'
<1>1. FatFs' = {}  BY DEF OneDrive, Unmount, f_mount
<1>2. pc' = "idle" /\ last_drive' = None /\ fs_type' = "none"
  BY DEF Unmount, Closed, f_mount
<1> QED BY <1>1, <1>2, NoDrive DEF OneDrive

LEMMA DriveRefused == ASSUME OneDrive, pc # "idle", NEW f, Refused(f) PROVE OneDrive'
<1>1. FatFs' = {} /\ last_drive' = None  BY DEF OneDrive, Refused, f_mount
<1>2. pc' = "idle" /\ fs_type' = "none"  BY DEF Refused, f_mount
<1> QED BY <1>1, <1>2, NoDrive DEF OneDrive

\* The rest of a call that goes on: what is registered stays, and a volume is mounted
\* before its root directory is searched.
Continues ==
    /\ UNCHANGED FatFs
    /\ \/ pc' # "idle" /\ UNCHANGED <<drive, last_drive>>
          /\ (pc' \in {"rewind", "look", "link"} => fs_type' # "none")
       \/ pc' = "idle" /\ last_drive' = drive /\ fs_type' # "none"

LEMMA DriveContinues == ASSUME VInv, pc # "idle", Continues PROVE OneDrive'
BY DEF VInv, IInv, Bound, OneDrive, Continues

LEMMA DriveTried ==
    ASSUME VInv, NEW st, NEW table, NEW f, pc = "check", Tried(st, table, f)
    PROVE  OneDrive'
<1>1. CASE Refused(f)
  BY <1>1, DriveRefused DEF VInv
<1>2. CASE ~Refused(f)
  BY <1>2, DriveContinues DEF Tried, Goto, sketch, Continues
<1> QED BY <1>1, <1>2

LEMMA AcceptedType == ASSUME NEW b, NEW s, Accepts(b) PROVE Layout(b, s).type # "none"
BY DEF Accepts, Layout

LEMMA DriveAnalyse == ASSUME VInv, Analyse PROVE OneDrive'
<1> DEFINE b == BootAt(win.card, win.sect)
           v == Layout(b, win.sect)
<1>1. CASE ~Accepts(b)
  BY <1>1, DriveRefused DEF Analyse, VInv
<1>2. CASE Accepts(b)
  <2>1. v.type # "none"  BY <1>2, AcceptedType
  <2> HIDE DEF v
  <2>2. Continues  BY <1>2, <2>1 DEF Analyse, Goto, Mounted, sketch, Continues, v
  <2> QED BY <2>2, DriveContinues DEF Analyse
<1> QED BY <1>1, <1>2

LEMMA DriveReadInfo == ASSUME VInv, ReadInfo PROVE OneDrive'
<1>1. vol.type # "none"  BY AcceptedType DEF VInv, IInv, Analysed, ReadInfo
<1>2. Continues  BY <1>1 DEF ReadInfo, Goto, Mounted, sketch, Continues
<1> QED BY <1>2, DriveContinues DEF ReadInfo

LEMMA DriveSearching ==
    ASSUME VInv, Searching, UNCHANGED FatFs \/ \E f : Refused(f) PROVE OneDrive'
<1>1. CASE \E f : Refused(f)
  BY <1>1, DriveRefused DEF VInv, Searching
<1>2. CASE ~\E f : Refused(f)
  BY <1>2 DEF Searching, VInv, IInv, Bound, OneDrive
<1> QED BY <1>1, <1>2

LEMMA DriveNext == ASSUME VInv, [Next]_vars PROVE OneDrive'
<1>1. ASSUME NEW d \in Drives, Swap(d) PROVE OneDrive'
  <2>1. UNCHANGED <<FatFs, pc, drive, fs_type, last_drive>>
    BY <1>1 DEF Swap, call
  <2> QED BY <2>1 DEF VInv, OneDrive
<1>2. ASSUME NEW d \in Drives, Access(d) PROVE OneDrive'
  BY <1>2, DriveAccess DEF VInv
<1>3. ASSUME NEW d \in Drives, NEW n \in Images, Initialize(d, n) PROVE OneDrive'
  BY <1>3, DriveMountLater DEF Initialize, VInv
<1>4. CASE Unmount  BY <1>4, DriveUnmount DEF VInv
<1>5. CASE MountVolume
  <2>1. fs_type = "none"  BY <1>5 DEF VInv, IInv, Bound, MountVolume
  <2>2. Continues  BY <1>5, <2>1 DEF MountVolume, Goto, sketch, Continues
  <2> QED BY <1>5, <2>2, DriveContinues DEF MountVolume
<1>6. CASE NotReady  BY <1>6, DriveRefused DEF NotReady, VInv
<1>7. CASE CheckSector
  <2>1. pc = "check" /\ \E st, table : Tried(st, table, FALSE)  BY <1>7 DEF CheckSector
  <2> QED BY <2>1, DriveTried
<1>8. CASE CheckFails \/ NoPartition
  BY <1>8, DriveTried DEF CheckFails, NoPartition
<1>9. CASE Analyse \/ ReadInfo  BY <1>9, DriveAnalyse, DriveReadInfo
<1>10. CASE Rewind \/ Look \/ LookFails \/ Follow \/ FollowFails
  <2>1. Searching
    BY <1>10, RewindSearches, LookSearches, FollowSearches, FailureSearches
  <2>2. UNCHANGED FatFs \/ \E f : Refused(f)
    BY <1>10 DEF Rewind, Look, LookFails, Follow, FollowFails, Goto, Opened, NextEntry
  <2> QED BY <2>1, <2>2, DriveSearching
<1>11. CASE UNCHANGED vars
  <2>1. UNCHANGED <<FatFs, pc, drive, fs_type, last_drive>>
    BY <1>11 DEF vars
  <2> QED BY <2>1 DEF VInv, OneDrive
<1> QED BY <1>1, <1>2, <1>3, <1>4, <1>5, <1>6, <1>7, <1>8, <1>9, <1>10, <1>11 DEF Next, Step

LEMMA DriveOne == VInv => OneVolume
BY DEF VInv, IInv, Bound, OneDrive, OneVolume

\* THEOREM: one FATFS serves both drives, yet between calls it is registered for the
\* drive whose image is open and for no other, and what it says is of that drive.
THEOREM OneVolumeForTwoDrives == Spec => []OneVolume
<1>1. Init => VInv  BY InvInit, DriveInit DEF VInv
<1>2. VInv /\ [Next]_vars => VInv'  BY InvNext, DriveNext DEF VInv
<1> QED BY <1>1, <1>2, DriveOne, PTL DEF Spec

-----------------------------------------------------------------------------
(* The search of the root directory never leaves the volume. *)

Inside(s) == vol.volbase <= s /\ s < vol.volbase + Total(Boot(vol.volbase))

\* What is in the window is of the volume that is mounted, or about to be.
Window ==
    (fs_type # "none" \/ pc = "info") /\ win.sect # NoSector =>
        win.card = card[pdrv] /\ Inside(win.sect)

\* The search is at entry e of the q-th sector of the directory, and dj.sect is that
\* sector: of the area a FAT12 or FAT16 volume has for it, or of the cluster dj.clust.
EntryAt(q, e) ==
    /\ e < PerSector /\ dj.dptr = SS * q + SZDIRE * e
    /\ \/ /\ dj.clust = 0 /\ vol.type # "fat32"
          /\ dj.sect = vol.dirbase + q /\ q < vol.n_rootdir \div PerSector
       \/ /\ dj.clust \in 2..vol.n_fatent - 1 /\ vol.type = "fat32"
          /\ dj.sect = clst2sect(vol, dj.clust) + (q % vol.csize)
AtEntry ==
    /\ DOMAIN dj = {"clust", "sect", "dptr"}
    /\ \E q, e \in 0..dj.dptr : EntryAt(q, e)

WInv == /\ VInv /\ Window
        /\ pc \in {"look", "link"} => AtEntry
        /\ pc = "link" => NewClust

\* What a number is divided into.
LEMMA Divided ==
    ASSUME NEW n \in Nat \ {0}, NEW q \in Nat, NEW r \in Nat, r < n
    PROVE  n * q + r \in Nat /\ (n * q + r) \div n = q /\ (n * q + r) % n = r
<1> DEFINE a == n * q + r
<1>1. n * q \in Nat /\ a \in Nat /\ a = n * q + r
  OBVIOUS
<1> HIDE DEF a
<1>2. a \div n \in Nat /\ n * (a \div n) <= a /\ a < n * (a \div n) + n
  BY <1>1, Quotient
<1> DEFINE p == a \div n
<1>3. p \in Nat /\ n * p <= a /\ a < n * p + n /\ n * p \in Nat
  BY <1>2
<1>4. a % n = a - n * p
  BY <1>1
<1> HIDE DEF p
<1>5. ~(p < q)
  <2>1. SUFFICES ASSUME p + 1 <= q PROVE FALSE
    BY <1>3
  <2>2. n * (p + 1) <= n * q
    BY <1>3, <2>1, Product
  <2>3. n * (p + 1) = n * p + n
    BY <1>3
  <2> QED BY <1>1, <1>3, <2>2, <2>3
<1>6. ~(q < p)
  <2>1. SUFFICES ASSUME q + 1 <= p PROVE FALSE
    BY <1>3
  <2>2. n * (q + 1) <= n * p
    BY <1>3, <2>1, Product
  <2>3. n * (q + 1) = n * q + n
    OBVIOUS
  <2> QED BY <1>1, <1>3, <2>2, <2>3
<1>7. p = q
  BY <1>3, <1>5, <1>6
<1> QED BY <1>1, <1>4, <1>7 DEF a, p

\* Counting on: the remainder goes up by one, or begins again.
LEMMA NextRemainder ==
    ASSUME NEW n \in Nat \ {0}, NEW q \in Nat
    PROVE  /\ q % n \in 0..n - 1
           /\ (q + 1) % n = 0 \/ (q + 1) % n = (q % n) + 1
<1> DEFINE p == q \div n
           r == q % n
<1>1. p \in Nat /\ r \in 0..n - 1 /\ q = n * p + r
  OBVIOUS
<1>2. n * p \in Nat /\ n * (p + 1) = n * p + n
  BY <1>1
<1> HIDE DEF p, r
<1>3. CASE r + 1 < n
  <2>1. q + 1 = n * p + (r + 1) /\ r + 1 \in Nat
    BY <1>1, <1>2
  <2>2. (n * p + (r + 1)) % n = r + 1
    BY <1>1, <1>3, <2>1, Divided, Zenon
  <2> QED BY <1>1, <2>1, <2>2 DEF r
<1>4. CASE r + 1 = n
  <2>1. q + 1 = n * (p + 1) + 0 /\ p + 1 \in Nat
    BY <1>1, <1>2, <1>4
  <2>2. (n * (p + 1) + 0) % n = 0
    <3>1. 0 < n /\ 0 \in Nat
      OBVIOUS
    <3> QED BY <2>1, <3>1, Divided, Zenon
  <2> QED BY <1>1, <2>1, <2>2 DEF r
<1> QED BY <1>1, <1>3, <1>4

\* The next entry is in the same sector, or the first of the next one.
LEMMA NextOffset ==
    ASSUME NEW q \in Nat, NEW e \in Nat, e < PerSector, NEW a, a = SS * q + SZDIRE * e
    PROVE  /\ a \in Nat /\ q \in 0..a /\ e \in 0..a
           /\ e + 1 < PerSector => /\ a + SZDIRE = SS * q + SZDIRE * (e + 1)
                                   /\ (a + SZDIRE) % SS # 0
           /\ e + 1 = PerSector => /\ a + SZDIRE = SS * (q + 1) + SZDIRE * 0
                                   /\ (a + SZDIRE) % SS = 0
                                   /\ (a + SZDIRE) \div SS = q + 1
                                   /\ (a + SZDIRE) \div SZDIRE = PerSector * (q + 1)
<1>1. /\ SS \in Nat \ {0} /\ SZDIRE \in Nat \ {0} /\ PerSector \in Nat \ {0}
      /\ SS = PerSector * SZDIRE
  BY SizeAssumption DEF PerSector
<1>2. /\ SS * q \in Nat /\ SZDIRE * e \in Nat /\ SZDIRE * (e + 1) = SZDIRE * e + SZDIRE
      /\ SS * (q + 1) = SS * q + SS /\ SZDIRE * 0 = 0 /\ SZDIRE * PerSector = SS
      /\ SZDIRE * (e + 1) \in Nat /\ SS * (q + 1) \in Nat
  BY <1>1
<1>3. q <= SS * q /\ e <= SZDIRE * e
  BY <1>1
<1>4. CASE e + 1 < PerSector
  <2>1. SZDIRE * (e + 1) < SS
    <3>1. SZDIRE * ((e + 1) + 1) <= SZDIRE * PerSector
      BY <1>1, <1>4, Product
    <3>2. SZDIRE * ((e + 1) + 1) = SZDIRE * (e + 1) + SZDIRE
      BY <1>1
    <3> QED BY <1>1, <1>2, <3>1, <3>2
  <2>2. a + SZDIRE = SS * q + SZDIRE * (e + 1)
    BY <1>1, <1>2
  <2>3. (SS * q + SZDIRE * (e + 1)) % SS = SZDIRE * (e + 1)
    <3> DEFINE k == SZDIRE * (e + 1)
    <3>1. k \in Nat /\ k < SS
      BY <1>2, <2>1
    <3> HIDE DEF k
    <3>2. (SS * q + k) % SS = k
      BY <1>1, <3>1, Divided, Zenon
    <3> QED BY <3>2 DEF k
  <2>4. SZDIRE * (e + 1) # 0
    BY <1>1, <1>2
  <2> QED BY <1>1, <1>2, <1>3, <1>4, <2>2, <2>3, <2>4
<1>5. CASE e + 1 = PerSector
  <2>1. SZDIRE * (e + 1) = SS
    BY <1>2, <1>5
  <2>2. a + SZDIRE = SS * (q + 1) + 0
    BY <1>1, <1>2, <2>1
  <2>3. (a + SZDIRE) % SS = 0 /\ (a + SZDIRE) \div SS = q + 1
    <3>1. 0 < SS /\ 0 \in Nat /\ q + 1 \in Nat
      BY <1>1
    <3>2. (SS * (q + 1) + 0) % SS = 0 /\ (SS * (q + 1) + 0) \div SS = q + 1
      BY <1>1, <3>1, Divided, Zenon
    <3> QED BY <2>2, <3>2, Zenon
  <2>4. SS * (q + 1) = SZDIRE * (PerSector * (q + 1)) /\ PerSector * (q + 1) \in Nat
    BY <1>1
  <2>5. (a + SZDIRE) \div SZDIRE = PerSector * (q + 1)
    <3> DEFINE m == PerSector * (q + 1)
    <3>1. 0 < SZDIRE /\ 0 \in Nat /\ m \in Nat /\ a + SZDIRE = SZDIRE * m + 0
      BY <1>1, <1>2, <2>2, <2>4
    <3> HIDE DEF m
    <3>2. (SZDIRE * m + 0) \div SZDIRE = m
      BY <1>1, <3>1, Divided, Zenon
    <3> QED BY <3>1, <3>2 DEF m
  <2> QED BY <1>1, <1>2, <1>3, <1>5, <2>2, <2>3, <2>5
<1> QED BY <1>1, <1>2, <1>3, <1>4, <1>5

-----------------------------------------------------------------------------
\* What is known of the volume from its boot sector on.
LEMMA VolumeFacts ==
    ASSUME IInv, fs_type # "none" \/ pc = "info"
    PROVE  /\ card[pdrv] \in Cards
           /\ vol.volbase \in Nat /\ Boot(vol.volbase) \in BootSectors
           /\ Accepts(Boot(vol.volbase)) /\ OnCard(Boot(vol.volbase), vol.volbase)
           /\ vol = Layout(Boot(vol.volbase), vol.volbase)
<1> DEFINE base == vol.volbase
           b == Boot(base)
<1>1. Accepts(b) /\ vol = Layout(b, base)
  BY DEF IInv, Analysed
<1>2. card[pdrv] \in Cards
  BY DEF IInv, Bound
<1>3. base \in Nat /\ b \in BootSectors /\ OnCard(b, base)
  <2>1. BootAt(card[pdrv], base) = b  BY DEF Boot
  <2> HIDE DEF base
  <2> QED BY <1>1, <1>2, <2>1, BootOf
<1> QED BY <1>1, <1>2, <1>3

\* The boot sector and the one after it, the FAT, the root directory of FAT12 and FAT16
\* and every cluster are inside the volume, which ends before NoSector.
LEMMA PartsInside ==
    ASSUME NEW b \in BootSectors, NEW base \in Nat, Accepts(b), OnCard(b, base)
    PROVE  LET v == Layout(b, base)
               end == base + Total(b)
           IN /\ end \in Nat /\ base + 1 < end /\ end < DWORD
              /\ base = v.volbase
              /\ v.type # "fat32" =>
                    /\ v.dirbase \in Nat /\ base <= v.dirbase
                    /\ v.dirbase + v.n_rootdir \div PerSector <= end
              /\ v.type = "fat32" => v.n_rootdir = 0 /\ v.dirbase \in Nat
              /\ v.n_rootdir \in Nat /\ v.n_rootdir % PerSector = 0
              /\ v.csize \in Nat \ {0} /\ v.n_fatent \in Nat
              /\ \A c \in 2..v.n_fatent - 1 :
                    /\ clst2sect(v, c) \in Nat /\ base <= clst2sect(v, c)
                    /\ clst2sect(v, c) + v.csize <= end
                    /\ base <= EntrySectors(v, c)[1] /\ EntrySectors(v, c)[1] < end
<1> DEFINE v == Layout(b, base)
           end == base + Total(b)
           fats == FatSize(b) * b.nfats
           all == b.spc * NClst(b)
<1>1. /\ Total(b) \in Nat /\ RootArea(b) \in Nat /\ b.rsvd \in Nat /\ b.rootent \in Nat
      /\ fats \in Nat /\ FatSize(b) \in Nat /\ PerSector \in Nat \ {0} /\ DWORD \in Nat
  BY Numbers
<1>2. /\ System(b) = b.rsvd + fats + RootArea(b) /\ b.rsvd > 0 /\ b.nfats \in {1, 2}
      /\ b.spc \in Nat \ {0} /\ NClst(b) \in Nat \ {0} /\ all \in Nat
      /\ System(b) + all <= Total(b) /\ end < DWORD
  BY Analysis
<1>3. /\ v.volbase = base /\ v.fatbase = base + b.rsvd /\ v.fsize = FatSize(b)
      /\ v.csize = b.spc /\ v.n_rootdir = b.rootent /\ v.n_fatent = NClst(b) + 2
      /\ v.database = base + System(b)
      /\ v.type = SubType(NClst(b)) /\ (v.type # "fat32" => v.dirbase = base + b.rsvd + fats)
  BY AreaStarts
<1>4. all >= 1
  <2>1. b.spc * 1 <= b.spc * NClst(b)  BY <1>2, Product
  <2> QED BY <1>2, <2>1
<1>5. FatSize(b) <= fats
  BY <1>1, <1>2
<1>6. b.rootent % PerSector = 0 /\ (v.type = "fat32" => b.rootent = 0)
  BY <1>3 DEF Accepts, FieldsFit, RootFits
<1>7. RootArea(b) = b.rootent \div PerSector
  BY DEF RootArea
<1>8. ASSUME NEW c \in 2..v.n_fatent - 1
      PROVE  /\ clst2sect(v, c) \in Nat /\ base <= clst2sect(v, c)
             /\ clst2sect(v, c) + v.csize <= end
  <2> DEFINE before == b.spc * (c - 2)
  <2>1. clst2sect(v, c) = base + System(b) + before /\ before \in Nat /\ before + b.spc <= all
    BY <1>8, ClusterAt
  <2> HIDE DEF before, all, v, fats
  <2> QED BY <1>1, <1>2, <1>3, <2>1
<1>9. ASSUME NEW c \in 2..v.n_fatent - 1
      PROVE  base <= EntrySectors(v, c)[1] /\ EntrySectors(v, c)[1] < end
  <2>1. EntriesInFat(v)
    BY AcceptedEntries
  <2>2. 1 \in DOMAIN EntrySectors(v, c)
    BY DEF EntrySectors
  <2> DEFINE s == EntrySectors(v, c)[1]
  <2>3. v.fatbase <= s /\ s < v.fatbase + v.fsize
    BY <2>1, <2>2, <1>9 DEF EntriesInFat
  <2>4. s \in Nat
    <3>1. \A n \in Nat : n % DWORD \in Nat
      BY <1>1, <1>2
    <3>2. c \in Nat /\ v.fatbase \in Nat /\ SS \in Nat \ {0}
      <4>1. v.n_fatent \in Nat /\ v.fatbase \in Nat  BY <1>1, <1>2, <1>3
      <4> HIDE DEF v
      <4> QED BY <4>1, SizeAssumption
    <3> HIDE DEF v
    <3>3. FirstByte(v, c) \in Nat
      BY <3>2 DEF FirstByte
    <3>4. v.fatbase + FirstByte(v, c) \div SS \in Nat
      BY <3>2, <3>3, Quotient
    <3>5. s = (v.fatbase + FirstByte(v, c) \div SS) % DWORD
      BY DEF EntrySectors
    <3> QED BY <3>1, <3>4, <3>5
  <2> HIDE DEF s, v, fats, all
  <2>5. base <= s /\ s < end
    BY <1>1, <1>2, <1>3, <1>4, <1>5, <2>3, <2>4
  <2> QED BY <2>5 DEF s
<1>10. /\ end \in Nat /\ base + 1 < end /\ end < DWORD
  <2> HIDE DEF all, v, fats
  <2> QED BY <1>1, <1>2, <1>4
<1>11. v.type # "fat32" =>
          /\ v.dirbase \in Nat /\ base <= v.dirbase
          /\ v.dirbase + v.n_rootdir \div PerSector <= end
  <2> HIDE DEF all, v, fats
  <2> QED BY <1>1, <1>2, <1>3, <1>4, <1>7
<1>12. /\ v.type = "fat32" => v.n_rootdir = 0 /\ v.dirbase \in Nat
       /\ v.n_rootdir \in Nat /\ v.n_rootdir % PerSector = 0
       /\ v.csize \in Nat \ {0} /\ v.n_fatent \in Nat
  <2>1. v.type = "fat32" => v.dirbase \in Nat
    BY <1>3 DEF Layout, BootSectors
  <2> HIDE DEF v
  <2> QED BY <1>1, <1>2, <1>3, <1>6, <2>1
<1> QED BY <1>3, <1>8, <1>9, <1>10, <1>11, <1>12

\* The same of the volume that is mounted.
LEMMA VolumeInside ==
    ASSUME IInv, fs_type # "none" \/ pc = "info"
    PROVE  LET end == vol.volbase + Total(Boot(vol.volbase)) IN
           /\ vol.volbase \in Nat /\ end \in Nat /\ vol.volbase + 1 < end /\ end < DWORD
           /\ vol.type # "fat32" =>
                 /\ vol.dirbase \in Nat /\ vol.volbase <= vol.dirbase
                 /\ vol.dirbase + vol.n_rootdir \div PerSector <= end
           /\ vol.type = "fat32" => vol.n_rootdir = 0 /\ vol.dirbase \in Nat
           /\ vol.n_rootdir \in Nat /\ vol.n_rootdir % PerSector = 0
           /\ vol.csize \in Nat \ {0} /\ vol.n_fatent \in Nat
           /\ \A c \in 2..vol.n_fatent - 1 :
                 /\ clst2sect(vol, c) \in Nat /\ vol.volbase <= clst2sect(vol, c)
                 /\ clst2sect(vol, c) + vol.csize <= end
                 /\ vol.volbase <= EntrySectors(vol, c)[1] /\ EntrySectors(vol, c)[1] < end
<1> DEFINE base == vol.volbase
           b == Boot(base)
<1>1. /\ base \in Nat /\ b \in BootSectors /\ Accepts(b) /\ OnCard(b, base)
      /\ vol = Layout(b, base)
  BY VolumeFacts
<1> HIDE DEF base, b
<1>2. /\ base + Total(b) \in Nat /\ base + 1 < base + Total(b) /\ base + Total(b) < DWORD
      /\ vol.type # "fat32" =>
            /\ vol.dirbase \in Nat /\ base <= vol.dirbase
            /\ vol.dirbase + vol.n_rootdir \div PerSector <= base + Total(b)
      /\ vol.type = "fat32" => vol.n_rootdir = 0 /\ vol.dirbase \in Nat
      /\ vol.n_rootdir \in Nat /\ vol.n_rootdir % PerSector = 0
      /\ vol.csize \in Nat \ {0} /\ vol.n_fatent \in Nat
      /\ \A c \in 2..vol.n_fatent - 1 :
            /\ clst2sect(vol, c) \in Nat /\ base <= clst2sect(vol, c)
            /\ clst2sect(vol, c) + vol.csize <= base + Total(b)
            /\ base <= EntrySectors(vol, c)[1] /\ EntrySectors(vol, c)[1] < base + Total(b)
  BY <1>1, PartsInside, Zenon
<1> QED BY <1>1, <1>2 DEF base, b

\* A sector of the volume that is loaded is read from its card, or was.
LEMMA LoadedInside ==
    ASSUME Window, fs_type # "none" \/ pc = "info", NEW s, Inside(s), s # NoSector, Loaded(win, s)
    PROVE  win'.card = card[pdrv] /\ win'.sect = s
BY DEF Window, Loaded

\* No sector of the volume is taken for none.
LEMMA InsideSector ==
    ASSUME IInv, fs_type # "none" \/ pc = "info", NEW s \in Int, Inside(s)
    PROVE  s # NoSector
<1> DEFINE end == vol.volbase + Total(Boot(vol.volbase))
<1>1. end \in Nat /\ end < DWORD /\ DWORD \in Nat
  BY VolumeInside, SizeAssumption
<1>2. s < end
  BY DEF Inside
<1> HIDE DEF end
<1> QED BY <1>1, <1>2 DEF NoSector

-----------------------------------------------------------------------------
Walk == /\ pc \in {"look", "link"} => AtEntry
        /\ pc = "link" => NewClust

LEMMA NothingMounted ==
    ASSUME fs_type' = "none", pc' \notin {"info", "look", "link"}
    PROVE  Window' /\ Walk'
BY DEF Window, Walk

LEMMA WindowRefused == ASSUME NEW f, Refused(f) PROVE Window' /\ Walk'
BY NothingMounted DEF Refused, f_mount

LEMMA WindowTried ==
    ASSUME IInv, pc = "check", NEW st, NEW table, NEW f, Tried(st, table, f)
    PROVE  Window' /\ Walk'
<1>1. CASE Refused(f)
  BY <1>1, WindowRefused
<1>2. CASE ~Refused(f)
  <2>1. fs_type = "none"  BY DEF IInv, Bound
  <2>2. fs_type' = "none" /\ pc' \in {"analyse", "check"}
    BY <1>2, <2>1 DEF Tried, Goto
  <2> QED BY <2>2, NothingMounted
<1> QED BY <1>1, <1>2

\* Between the calls the window stays what it is, and so does the card it is of.
LEMMA WindowBetween ==
    ASSUME WInv, pc = "idle", pc' = "idle", UNCHANGED <<fs_type, pdrv, vol, win>>,
           fs_type # "none" => card'[pdrv] = card[pdrv]
    PROVE  Window' /\ Walk'
BY DEF WInv, Window, Walk, Inside, Boot

LEMMA WindowSwap == ASSUME WInv, NEW d \in Drives, Swap(d) PROVE Window' /\ Walk'
<1>1. pc = "idle" /\ pc' = "idle" /\ UNCHANGED <<fs_type, pdrv, vol, win>>
  BY DEF Swap, disk, volume
<1>2. fs_type # "none" => card'[pdrv] = card[pdrv]
  BY <1>1 DEF WInv, VInv, IInv, Bound, Swap
<1> QED BY <1>1, <1>2, WindowBetween

LEMMA WindowAccess == ASSUME WInv, NEW d \in Drives, Access(d) PROVE Window' /\ Walk'
<1>1. CASE last_drive = d
  <2>1. pc = "idle" /\ pc' = "idle" /\ UNCHANGED <<fs_type, pdrv, vol, win, card>>
    BY <1>1 DEF Access, disk, volume
  <2> QED BY <2>1, WindowBetween
<1>2. CASE last_drive # d
  BY <1>2, NothingMounted DEF Access, MountLater, f_mount
<1> QED BY <1>1, <1>2

\* The boot sector that is analysed is the first sector of the volume.
LEMMA WindowAnalyse == ASSUME WInv, Analyse PROVE Window' /\ Walk'
<1> DEFINE b == BootAt(win.card, win.sect)
           v == Layout(b, win.sect)
<1>1. CASE ~Accepts(b)
  BY <1>1, WindowRefused DEF Analyse
<1>2. CASE Accepts(b)
  <2>1. /\ vol' = v /\ UNCHANGED <<card, pdrv, win>>
        /\ \/ pc' = "info"
           \/ pc' = "rewind"
    BY <1>2 DEF Analyse, Goto, Mounted, sketch, disk
  <2>2. IInv' /\ (fs_type' # "none" \/ pc' = "info")
    <3>1. v.type # "none"  BY <1>2, AcceptedType
    <3> HIDE DEF v
    <3>2. fs_type' # "none" \/ pc' = "info"
      BY <1>2, <3>1 DEF Analyse, Goto, Mounted, v
    <3> QED BY <3>2, InvAnalyse DEF WInv, VInv
  <2>3. win.card = card[pdrv] /\ win.sect \in Nat /\ b \in BootSectors /\ OnCard(b, win.sect)
    <3>1. card[pdrv] \in Cards /\ win.card \in {card[pdrv], NoCard}
      BY DEF WInv, VInv, IInv, Bound, Searched, Analyse
    <3> HIDE DEF v
    <3>2. win.card \in Cards /\ win.sect \in Nat /\ b \in BootSectors /\ OnCard(b, win.sect)
      BY <1>2, <3>1, BootOf
    <3> QED BY <3>1, <3>2, BoundAssumption
  <2>4. vol'.volbase = win.sect
    BY <2>1, LayoutBase
  <2>5. win.sect < win.sect + Total(b)
    <3>1. win.sect + Total(b) \in Nat /\ win.sect + 1 < win.sect + Total(b)
      BY <1>2, <2>3, PartsInside
    <3> QED BY <2>3, <3>1
  <2>6. (Inside(win.sect) /\ win.card = card[pdrv])'
    <3> HIDE DEF v
    <3>1. Boot(vol.volbase)' = b
      BY <2>1, <2>3, <2>4 DEF Boot
    <3>2. win'.sect = win.sect /\ (win.card = card[pdrv])' /\ win.sect <= win.sect
      BY <2>1, <2>3
    <3> HIDE DEF b
    <3> QED BY <2>4, <2>5, <3>1, <3>2 DEF Inside
  <2> QED BY <2>1, <2>6 DEF Window, Walk
<1> QED BY <1>1, <1>2

\* FSINFO is the second sector of the volume.
LEMMA WindowReadInfo == ASSUME WInv, ReadInfo PROVE Window' /\ Walk'
<1> DEFINE s == (vol.volbase + 1) % DWORD
<1>1. pc = "info" /\ pc' = "rewind" /\ UNCHANGED <<card, pdrv, vol>>
      /\ (Loaded(win, s) \/ win' = NoWindow)
  BY DEF ReadInfo, Goto, Mounted, sketch, NotLoaded
<1>2. s = vol.volbase + 1 /\ s \in Nat /\ Inside(s)
  <2> DEFINE end == vol.volbase + Total(Boot(vol.volbase))
  <2>1. vol.volbase \in Nat /\ end \in Nat /\ vol.volbase + 1 < end /\ end < DWORD
    BY <1>1, VolumeInside DEF WInv, VInv
  <2>2. DWORD \in Nat  BY SizeAssumption
  <2> DEFINE base == vol.volbase
  <2> HIDE DEF end
  <2>3. (vol.volbase + 1) % DWORD = vol.volbase + 1
    BY <2>1, <2>2, Fits
  <2> QED BY <2>1, <2>3 DEF Inside, end
<1> HIDE DEF s
<1>3. s # NoSector
  BY <1>1, <1>2, InsideSector DEF WInv, VInv
<1>4. CASE Loaded(win, s)
  <2>1. win'.card = card[pdrv] /\ win'.sect = s
    BY <1>1, <1>2, <1>3, <1>4, LoadedInside DEF WInv
  <2> QED BY <1>1, <1>2, <2>1 DEF Window, Walk, Inside, Boot
<1>5. CASE win' = NoWindow
  BY <1>1, <1>5 DEF Window, Walk, NoWindow
<1> QED BY <1>1, <1>4, <1>5

\* Where the root directory begins.
LEMMA WindowRewind == ASSUME WInv, Rewind PROVE Window' /\ Walk'
<1>1. CASE Refused(FALSE)
  BY <1>1, WindowRefused
<1>2. CASE ~Refused(FALSE)
  <2>1. /\ pc = "rewind" /\ pc' = "look" /\ RootSector # 0
        /\ dj' = [clust |-> RootClust, sect |-> RootSector, dptr |-> 0]
        /\ UNCHANGED <<card, pdrv, vol, win, fs_type>>
    BY <1>2 DEF Rewind, Goto, sketch, disk, volume
  <2>2. fs_type # "none"
    BY <2>1 DEF WInv, VInv, OneDrive
  <2>3. Window'
    BY <2>1, <2>2 DEF WInv, Window, Inside, Boot
  <2>4. /\ vol.type = "fat32" => vol.n_rootdir = 0 /\ vol.dirbase \in Nat
        /\ vol.type # "fat32" => vol.dirbase \in Nat
        /\ vol.n_rootdir \in Nat /\ vol.n_rootdir % PerSector = 0
        /\ vol.csize \in Nat \ {0} /\ vol.n_fatent \in Nat
    BY <2>2, VolumeInside DEF WInv, VInv
  <2>5. PerSector \in Nat \ {0} /\ SS \in Nat /\ SZDIRE \in Nat
    BY SizeAssumption DEF PerSector
  <2>6. \/ dj'.clust = 0 /\ vol.type # "fat32" /\ dj'.sect = vol.dirbase
           /\ 0 < vol.n_rootdir \div PerSector
        \/ dj'.clust \in 2..vol.n_fatent - 1 /\ vol.type = "fat32"
           /\ dj'.sect = clst2sect(vol, dj'.clust)
    <3>1. CASE RootClust # 0
      <4>1. vol.type = "fat32" /\ RootClust = vol.dirbase /\ RootSector = clst2sect(vol, RootClust)
        BY <3>1 DEF RootClust, RootSector
      <4>2. ~(RootClust < 2 \/ RootClust >= vol.n_fatent)
        BY <2>1, <4>1 DEF clst2sect
      <4>3. RootClust \in 2..vol.n_fatent - 1
        BY <2>4, <4>1, <4>2
      <4> QED BY <2>1, <4>1, <4>3
    <3>2. CASE RootClust = 0
      <4>1. vol.n_rootdir > 0 /\ RootSector = vol.dirbase
        BY <2>1, <3>2 DEF RootSector
      <4>2. vol.type # "fat32"
        BY <2>4, <4>1
      <4>3. 0 < vol.n_rootdir \div PerSector
        <5> DEFINE n == vol.n_rootdir
        <5>1. n \in Nat /\ n > 0 /\ n % PerSector = 0
          BY <2>4, <4>1
        <5> HIDE DEF n
        <5>2. n \div PerSector \in Nat /\ n < PerSector * (n \div PerSector) + PerSector
          BY <2>5, <5>1, Quotient
        <5>3. n = PerSector * (n \div PerSector) + (n % PerSector)
          BY <2>5, <5>1
        <5>4. CASE n \div PerSector = 0
          <6>1. PerSector * (n \div PerSector) = 0
            BY <2>5, <5>4
          <6> QED BY <5>1, <5>3, <6>1
        <5> QED BY <5>2, <5>4 DEF n
      <4> QED BY <2>1, <3>2, <4>1, <4>2, <4>3
    <3> QED BY <3>1, <3>2
  <2>7. AtEntry'
    <3>1. dj'.dptr = 0 /\ 0 = SS * 0 + SZDIRE * 0 /\ 0 \in 0..0 /\ 0 < PerSector
          /\ 0 % vol.csize = 0
      BY <2>1, <2>4, <2>5
    <3>2. vol.dirbase + 0 = vol.dirbase
      BY <2>4
    <3>3. dj'.clust \in 2..vol.n_fatent - 1 => clst2sect(vol, dj'.clust) + 0 = clst2sect(vol, dj'.clust)
      BY <2>2, VolumeInside DEF WInv, VInv
    <3> QED BY <2>1, <2>6, <3>1, <3>2, <3>3 DEF AtEntry, EntryAt
  <2> QED BY <2>1, <2>3, <2>7 DEF Walk
<1> QED BY <1>1, <1>2

\* The entry the search is at is in a sector of the volume.
LEMMA EntryInside ==
    ASSUME WInv, pc \in {"look", "link"}
    PROVE  dj.sect \in Int /\ Inside(dj.sect) /\ dj.sect # NoSector
<1>1. fs_type # "none"
  BY DEF WInv, VInv, OneDrive
<1> DEFINE end == vol.volbase + Total(Boot(vol.volbase))
<1>2. /\ vol.volbase \in Nat /\ end \in Nat
      /\ vol.type # "fat32" =>
            /\ vol.dirbase \in Nat /\ vol.volbase <= vol.dirbase
            /\ vol.dirbase + vol.n_rootdir \div PerSector <= end
      /\ vol.n_rootdir \in Nat /\ vol.csize \in Nat \ {0} /\ vol.n_fatent \in Nat
      /\ \A c \in 2..vol.n_fatent - 1 :
            /\ clst2sect(vol, c) \in Nat /\ vol.volbase <= clst2sect(vol, c)
            /\ clst2sect(vol, c) + vol.csize <= end
  BY <1>1, VolumeInside DEF WInv, VInv
<1>3. PICK q, e \in 0..dj.dptr : EntryAt(q, e)
  BY DEF WInv, AtEntry
<1>4. q \in Nat
  BY <1>3
<1>5. PerSector \in Nat \ {0}
  BY SizeAssumption DEF PerSector
<1> HIDE DEF end
<1>6. dj.sect \in Int /\ vol.volbase <= dj.sect /\ dj.sect < end
  <2>1. CASE dj.clust = 0 /\ vol.type # "fat32"
    <3>1. vol.n_rootdir \div PerSector \in Nat
      BY <1>2, <1>5, Quotient
    <3>2. dj.sect = vol.dirbase + q /\ q < vol.n_rootdir \div PerSector
      BY <1>3, <2>1 DEF EntryAt
    <3> QED BY <1>2, <1>4, <2>1, <3>1, <3>2
  <2>2. CASE ~(dj.clust = 0 /\ vol.type # "fat32")
    <3>1. dj.clust \in 2..vol.n_fatent - 1 /\ dj.sect = clst2sect(vol, dj.clust) + (q % vol.csize)
      BY <1>3, <2>2 DEF EntryAt
    <3>2. q % vol.csize \in 0..vol.csize - 1
      BY <1>2, <1>4, NextRemainder
    <3> DEFINE first == clst2sect(vol, dj.clust)
               r == q % vol.csize
    <3>3. first \in Nat /\ vol.volbase <= first /\ first + vol.csize <= end /\ dj.sect = first + r
      BY <1>2, <3>1
    <3>4. r \in 0..vol.csize - 1
      BY <3>2
    <3> HIDE DEF first, r
    <3> QED BY <1>2, <3>3, <3>4
  <2> QED BY <2>1, <2>2
<1>7. Inside(dj.sect)
  BY <1>6 DEF Inside, end
<1> QED BY <1>1, <1>6, <1>7, InsideSector DEF WInv, VInv

\* A search that goes on with the sector it has read.
LEMMA WindowRead ==
    ASSUME WInv, pc \in {"look", "link"}, NEW s \in Int, Inside(s), Loaded(win, s),
           UNCHANGED <<card, pdrv, vol>>
    PROVE  Window'
<1>1. fs_type # "none" /\ s # NoSector
  BY InsideSector DEF WInv, VInv, OneDrive
<1>2. win'.card = card[pdrv] /\ win'.sect = s
  BY <1>1, LoadedInside DEF WInv
<1> QED BY <1>1, <1>2 DEF Window, Inside, Boot

\* dir_next(): the entry after is in the same sector, or the first of the next sector of
\* the area or of the cluster; behind the last sector of a cluster the link is followed.
LEMMA WindowNextEntry ==
    ASSUME WInv, pc = "look", NextEntry, ~Exhausted, UNCHANGED pdrv
    PROVE  Walk' /\ pc' \in {"look", "link"} /\ UNCHANGED <<card, vol, fs_type>>
<1>1. UNCHANGED <<card, vol, fs_type>>
  BY DEF NextEntry, Goto, sketch, volume
<1>2. PICK q, e \in 0..dj.dptr : EntryAt(q, e)
  BY DEF WInv, AtEntry
<1>3. /\ q \in Nat /\ e \in Nat /\ e < PerSector /\ dj.dptr = SS * q + SZDIRE * e
      /\ PerSector \in Nat \ {0}
  BY <1>2, SizeAssumption DEF EntryAt, PerSector
<1>4. fs_type # "none"
  BY DEF WInv, VInv, OneDrive
<1>5. CASE NewClust
  <2>1. pc' = "link" /\ UNCHANGED dj
    BY <1>5 DEF NextEntry, Goto
  <2>2. AtEntry'
    BY <1>1, <2>1 DEF WInv, AtEntry, EntryAt
  <2>3. NewClust'
    BY <1>1, <1>5, <2>1 DEF NewClust, NewSector, Offset
  <2> QED BY <1>1, <2>1, <2>2, <2>3 DEF Walk
<1>6. CASE ~NewClust
  <2>1. pc' = "look" /\ dj' = [dj EXCEPT !.dptr = Offset,
                                         !.sect = IF NewSector THEN dj.sect + 1 ELSE dj.sect]
    BY <1>6 DEF NextEntry, Goto
  <2>2. /\ DOMAIN dj' = {"clust", "sect", "dptr"} /\ dj'.clust = dj.clust
        /\ dj'.dptr = Offset /\ dj'.sect = IF NewSector THEN dj.sect + 1 ELSE dj.sect
    BY <2>1 DEF WInv, AtEntry
  <2>3. CASE e + 1 < PerSector
    <3>1. Offset = SS * q + SZDIRE * (e + 1) /\ ~NewSector
      BY <1>3, <2>3, NextOffset DEF Offset, NewSector
    <3>2. q \in 0..Offset /\ e + 1 \in 0..Offset
      BY <1>3, <2>3, <3>1, NextOffset
    <3>3. dj'.clust = dj.clust /\ dj'.sect = dj.sect /\ dj'.dptr = Offset
      BY <2>2, <3>1
    <3>4. EntryAt(q, e + 1)'
      BY <1>1, <1>2, <2>3, <3>1, <3>3 DEF EntryAt
    <3>5. \E q1, e1 \in 0..dj'.dptr : EntryAt(q1, e1)'
      BY <3>2, <3>3, <3>4
    <3>6. AtEntry'
      BY <2>2, <3>5 DEF AtEntry, EntryAt
    <3> QED BY <1>1, <2>1, <3>6 DEF Walk
  <2>4. CASE e + 1 = PerSector
    <3>1. /\ Offset = SS * (q + 1) + SZDIRE * 0 /\ NewSector
          /\ Offset \div SS = q + 1 /\ Offset \div SZDIRE = PerSector * (q + 1)
      BY <1>3, <2>4, NextOffset DEF Offset, NewSector
    <3>2. q + 1 \in 0..Offset /\ 0 \in 0..Offset /\ 0 < PerSector
      BY <1>3, <3>1, NextOffset
    <3>3. dj'.clust = dj.clust /\ dj'.sect = dj.sect + 1 /\ dj'.dptr = Offset
      BY <2>2, <3>1
    <3>4. EntryAt(q + 1, 0)'
      <4>1. CASE dj.clust = 0 /\ vol.type # "fat32"
        <5>1. dj.sect = vol.dirbase + q
          BY <1>2, <4>1 DEF EntryAt
        <5>3. vol.n_rootdir \in Nat /\ vol.dirbase \in Nat
          BY <1>4, <4>1, VolumeInside DEF WInv, VInv
        <5>2. PerSector * (q + 1) < vol.n_rootdir
          BY <1>3, <3>1, <4>1, <5>3 DEF Exhausted
        <5>4. q + 1 < vol.n_rootdir \div PerSector
          BY <1>3, <1>4, <5>2, VolumeInside DEF WInv, VInv
        <5>5. dj'.sect = vol.dirbase + (q + 1)
          BY <1>3, <3>3, <5>1, <5>3
        <5> QED BY <1>1, <3>1, <3>2, <3>3, <4>1, <5>4, <5>5 DEF EntryAt
      <4>2. CASE ~(dj.clust = 0 /\ vol.type # "fat32")
        <5>1. /\ dj.clust \in 2..vol.n_fatent - 1 /\ vol.type = "fat32"
              /\ dj.sect = clst2sect(vol, dj.clust) + (q % vol.csize)
          BY <1>2, <4>2 DEF EntryAt
        <5>2. vol.csize \in Nat \ {0} /\ clst2sect(vol, dj.clust) \in Nat
          BY <1>4, <5>1, VolumeInside DEF WInv, VInv
        <5>3. (q + 1) % vol.csize # 0
          BY <1>6, <3>1, <5>1 DEF NewClust
        <5>4. q % vol.csize \in 0..vol.csize - 1 /\ (q + 1) % vol.csize = (q % vol.csize) + 1
          BY <1>3, <5>2, <5>3, NextRemainder
        <5> DEFINE first == clst2sect(vol, dj.clust)
                   r == q % vol.csize
                   r1 == (q + 1) % vol.csize
        <5>5. first \in Nat /\ r \in Int /\ r1 = r + 1 /\ dj.sect = first + r
          BY <5>1, <5>2, <5>4
        <5> HIDE DEF first, r, r1
        <5>6. dj'.sect = first + r1
          BY <3>3, <5>5
        <5>7. dj'.sect = clst2sect(vol, dj.clust) + ((q + 1) % vol.csize)
          BY <5>6 DEF first, r1
        <5> QED BY <1>1, <3>1, <3>2, <3>3, <5>1, <5>7 DEF EntryAt
      <4> QED BY <4>1, <4>2
    <3>5. \E q1, e1 \in 0..dj'.dptr : EntryAt(q1, e1)'
      BY <3>2, <3>3, <3>4
    <3>6. AtEntry'
      BY <2>2, <3>5 DEF AtEntry, EntryAt
    <3> QED BY <1>1, <2>1, <3>6 DEF Walk
  <2> QED BY <1>3, <2>3, <2>4
<1> QED BY <1>5, <1>6

LEMMA WindowLook == ASSUME WInv, Look PROVE Window' /\ Walk'
<1>1. CASE Refused(FALSE)
  BY <1>1, WindowRefused
<1>2. CASE ~Refused(FALSE)
  <2>1. pc = "look" /\ Loaded(win, dj.sect) /\ UNCHANGED pdrv /\ (Opened \/ NextEntry)
    BY <1>2 DEF Look, disk
  <2>2. Inside(dj.sect) /\ dj.sect \in Int
    BY <2>1, EntryInside
  <2>3. CASE NextEntry
    <3>1. ~Exhausted
      BY <1>2, <2>3 DEF NextEntry
    <3>2. Walk' /\ UNCHANGED <<card, vol>>
      BY <2>1, <2>3, <3>1, WindowNextEntry
    <3> QED BY <2>1, <2>2, <3>2, WindowRead
  <2>4. CASE Opened
    <3>1. pc' = "idle" /\ UNCHANGED <<card, vol>>
      BY <1>2, <2>4 DEF Opened, volume
    <3>2. Walk'
      BY <3>1 DEF Walk
    <3> QED BY <2>1, <2>2, <3>1, <3>2, WindowRead
  <2> QED BY <2>1, <2>3, <2>4
<1> QED BY <1>1, <1>2

\* The sector of a link and what it says are numbers.
LEMMA LinkIsSector ==
    ASSUME IInv, fs_type # "none", dj.clust \in 2..vol.n_fatent - 1, vol.type = "fat32"
    PROVE  LinkSector \in Int
<1>1. vol.n_fatent \in Nat /\ vol.fatbase \in Nat
  <2> DEFINE base == vol.volbase
             b == Boot(base)
  <2>1. /\ base \in Nat /\ b \in BootSectors /\ Accepts(b) /\ OnCard(b, base)
        /\ vol = Layout(b, base)
    BY VolumeFacts
  <2> HIDE DEF base, b
  <2>2. Layout(b, base).fatbase = base + b.rsvd /\ b.rsvd \in Nat
    BY <2>1, AreaStarts, Numbers
  <2>3. vol.n_fatent \in Nat
    BY VolumeInside
  <2>4. vol.fatbase = base + b.rsvd
    BY <2>1, <2>2, Zenon
  <2>5. base + b.rsvd \in Nat
    BY <2>1, <2>2
  <2> QED BY <2>3, <2>4, <2>5
<1>2. DWORD \in Nat \ {0} /\ SS \in Nat \ {0}
  BY SizeAssumption, TypeAssumption
<1>3. FirstByte(vol, dj.clust) \in Nat
  BY <1>1 DEF FirstByte
<1> DEFINE s == vol.fatbase + FirstByte(vol, dj.clust) \div SS
<1>4. s \in Nat
  BY <1>1, <1>2, <1>3, Quotient
<1>5. LinkSector = s % DWORD
  BY DEF LinkSector, EntrySectors
<1> HIDE DEF s
<1> QED BY <1>2, <1>4, <1>5

LEMMA LinkIsNumber ==
    ASSUME IInv, pc = "link", NEW s, NEW c PROVE LinkAt(card[pdrv], s, c) \in Nat
<1>1. card[pdrv] \in Cards
  BY DEF IInv, Bound
<1> QED BY <1>1, CardAssumption DEF LinkAt

LEMMA WindowFollow == ASSUME WInv, Follow PROVE Window' /\ Walk'
<1> DEFINE next == LinkAt(card[pdrv], vol.volbase, dj.clust)
<1>1. CASE Refused(FALSE)
  BY <1>1, WindowRefused
<1>2. CASE ~Refused(FALSE)
  <2>1. /\ pc = "link" /\ Loaded(win, LinkSector) /\ UNCHANGED <<card, pdrv, vol>>
        /\ ~(next <= 1 \/ next >= vol.n_fatent) /\ pc' = "look"
        /\ dj' = [clust |-> next, sect |-> clst2sect(vol, next), dptr |-> Offset]
    BY <1>2 DEF Follow, Goto, sketch, volume, disk
  <2>2. fs_type # "none"
    BY <2>1 DEF WInv, VInv, OneDrive
  <2>3. NewSector /\ dj.clust # 0 /\ (Offset \div SS) % vol.csize = 0
    BY <2>1 DEF WInv, NewClust
  <2>4. PICK q, e \in 0..dj.dptr : EntryAt(q, e)
    BY <2>1 DEF WInv, AtEntry
  <2>5. dj.clust \in 2..vol.n_fatent - 1 /\ vol.type = "fat32"
    BY <2>3, <2>4 DEF EntryAt
  <2>6. /\ q \in Nat /\ e \in Nat /\ e < PerSector /\ dj.dptr = SS * q + SZDIRE * e
        /\ PerSector \in Nat \ {0}
    BY <2>4, SizeAssumption DEF EntryAt, PerSector
  <2>7. Window'
    <3>1. /\ vol.volbase \in Nat /\ vol.volbase <= LinkSector
          /\ LinkSector < vol.volbase + Total(Boot(vol.volbase))
      BY <2>2, <2>5, VolumeInside DEF WInv, VInv, LinkSector
    <3>2. LinkSector \in Int
      BY <2>1, <2>2, <2>5, LinkIsSector DEF WInv, VInv
    <3>3. Inside(LinkSector)
      BY <3>1 DEF Inside
    <3> QED BY <2>1, <3>2, <3>3, WindowRead
  <2>8. e + 1 = PerSector
    <3>1. CASE e + 1 < PerSector
      BY <2>3, <2>6, <3>1, NextOffset DEF NewSector, Offset
    <3> QED BY <2>6, <3>1
  <2>9. /\ Offset = SS * (q + 1) + SZDIRE * 0 /\ Offset \div SS = q + 1
        /\ q \in 0..dj.dptr /\ dj.dptr \in Nat
    BY <2>6, <2>8, NextOffset DEF Offset
  <2>10. q + 1 \in 0..Offset /\ 0 \in 0..Offset
    <3>1. SZDIRE \in Nat \ {0}
      BY SizeAssumption
    <3> QED BY <2>6, <2>9, <3>1 DEF Offset
  <2>11. next \in 2..vol.n_fatent - 1 /\ clst2sect(vol, next) \in Nat
    <3>1. next \in Nat
      BY <2>1, LinkIsNumber DEF WInv, VInv
    <3>2. vol.n_fatent \in Nat
      BY <2>2, VolumeInside DEF WInv, VInv
    <3> HIDE DEF next
    <3>3. next \in 2..vol.n_fatent - 1
      BY <2>1, <3>1, <3>2
    <3> QED BY <2>2, <3>3, VolumeInside DEF WInv, VInv
  <2>12. EntryAt(q + 1, 0)'
    <3>1. (q + 1) % vol.csize = 0 /\ 0 < PerSector
      BY <2>3, <2>6, <2>9
    <3>2. dj'.sect = clst2sect(vol, next) + 0 /\ dj'.clust = next /\ dj'.dptr = Offset
      <4> HIDE DEF next
      <4> QED BY <2>1, <2>11
    <3> HIDE DEF next
    <3> QED BY <2>1, <2>5, <2>9, <2>11, <3>1, <3>2 DEF EntryAt
  <2>13. \E q1, e1 \in 0..dj'.dptr : EntryAt(q1, e1)'
    <3>1. dj'.dptr = Offset
      BY <2>1
    <3> QED BY <2>10, <2>12, <3>1
  <2>14. AtEntry'
    BY <2>1, <2>13 DEF AtEntry, EntryAt
  <2> QED BY <2>1, <2>7, <2>14 DEF Walk
<1> QED BY <1>1, <1>2

\* A call that has no volume yet has nothing of one in the window.
LEMMA WindowMountVolume == ASSUME WInv, MountVolume PROVE Window' /\ Walk'
<1>1. fs_type' = "none" /\ pc' = "check"
  BY DEF MountVolume, WInv, VInv, IInv, Bound, Goto
<1> QED BY <1>1, NothingMounted

LEMMA WindowNext == ASSUME WInv, [Next]_vars PROVE Window' /\ Walk'
<1>1. ASSUME NEW d \in Drives, Swap(d) PROVE Window' /\ Walk'  BY <1>1, WindowSwap
<1>2. ASSUME NEW d \in Drives, Access(d) PROVE Window' /\ Walk'  BY <1>2, WindowAccess
<1>3. ASSUME NEW d \in Drives, NEW n \in Images, Initialize(d, n) PROVE Window' /\ Walk'
  BY <1>3, NothingMounted DEF Initialize, MountLater, f_mount
<1>4. CASE Unmount
  BY <1>4, NothingMounted DEF Unmount, f_mount
<1>5. CASE MountVolume  BY <1>5, WindowMountVolume
<1>6. CASE NotReady  BY <1>6, WindowRefused DEF NotReady
<1>7. CASE CheckSector \/ CheckFails \/ NoPartition
  <2>1. pc = "check" /\ \E st, table, f : Tried(st, table, f)
    BY <1>7 DEF CheckSector, CheckFails, NoPartition
  <2> QED BY <2>1, WindowTried DEF WInv, VInv
<1>8. CASE Analyse  BY <1>8, WindowAnalyse
<1>9. CASE ReadInfo  BY <1>9, WindowReadInfo
<1>10. CASE Rewind  BY <1>10, WindowRewind
<1>11. CASE Look  BY <1>11, WindowLook
<1>12. CASE Follow  BY <1>12, WindowFollow
<1>13. CASE LookFails \/ FollowFails
  BY <1>13, WindowRefused DEF LookFails, FollowFails
<1>14. CASE UNCHANGED vars
  <2>1. UNCHANGED <<card, fs_type, pc, pdrv, vol, win>> /\ UNCHANGED dj
    BY <1>14 DEF vars
  <2>2. Window'
    BY <2>1 DEF WInv, Window, Inside, Boot
  <2>3. Walk'
    BY <2>1 DEF WInv, Walk, AtEntry, EntryAt, NewClust, NewSector, Offset
  <2> QED BY <2>2, <2>3
<1> QED BY <1>1, <1>2, <1>3, <1>4, <1>5, <1>6, <1>7, <1>8, <1>9, <1>10, <1>11, <1>12, <1>13, <1>14
        DEF Next, Step

LEMMA WindowInit == Init => Window /\ Walk
BY DEF Init, Window, Walk

LEMMA WindowIs == WInv => WindowInside
BY DEF WInv, Window, WindowInside, Inside, Boot

\* THEOREM: whatever the chain of the root directory is, a loop or a link to nowhere, the
\* search reads sectors of the volume that is mounted and no others, and the window it
\* compares with is of the card that is in use.
THEOREM SearchStaysInside == Spec => []WindowInside
<1>1. Init => WInv
  BY InvInit, DriveInit, WindowInit DEF WInv, VInv, Walk
<1>2. WInv /\ [Next]_vars => WInv'
  BY InvNext, DriveNext, WindowNext DEF WInv, VInv, Walk
<1> QED BY <1>1, <1>2, WindowIs, PTL DEF Spec

-----------------------------------------------------------------------------
(* The image that is open is the one of that number, and it is not missed. *)

\* What can be wrong with card k when image n is not opened.
Unusable(k, n) ==
    LET s == FirstVolume(k) IN
    \/ s = NoSector \/ ~Accepts(BootAt(k, s))
    \/ \A p \in Places : ~Holds(k, s, n, p)

\* Place r of a root directory is in use, and not by image n.
Named(k, s, n, r) ==
    LET e == DirAt(k, PlaceSector(k, s, r))[PlaceIndex(r)] IN
    e.name = ImageName(n) /\ e.attr # "label"
Used(k, s, r) ==
    /\ PlaceSector(k, s, r) # 0
    /\ PlaceIndex(r) <= Len(DirAt(k, PlaceSector(k, s, r)))
Passes(k, s, n, r) == Used(k, s, r) /\ ~Named(k, s, n, r)

\* The variables of a call that its steps compute with.
Kept ==
    /\ TypeOK
    /\ mbr \in [1..4 -> Nat]
    /\ fs_type # "none" => fs_type = vol.type
    /\ pc # "idle" => result = "none"
    /\ pc \notin {"idle", "mount"} => pdrv \notin noinit
    /\ last_drive \in Drives => name[last_drive] \in Images

\* find_volume(): no partition before this one is a volume, and what is taken is the first.
Volumes(k) == {i \in 1..4 : BootAt(k, 0).part[i] # 0 /\ Status(BootAt(k, BootAt(k, 0).part[i])) = "fat"}
Found ==
    ~failed =>
       /\ pc = "check" /\ part # 0 =>
             /\ Status(BootAt(card[pdrv], 0)) = "table" /\ mbr = BootAt(card[pdrv], 0).part
             /\ \A i \in Volumes(card[pdrv]) : i >= part
       /\ pc = "analyse" => win.card = card[pdrv] /\ win.sect = FirstVolume(card[pdrv])
       /\ pc \in {"info", "rewind", "look", "link"} \/ last_drive \in Drives =>
             vol.volbase = FirstVolume(card[pdrv])

\* The place of the entry the search is at.  No entry before it is the image's.
Here   == dj.dptr \div SZDIRE
Passed(n) == \A r \in 0..n - 1 : Passes(card[pdrv], vol.volbase, name[drive], r)
Sought ==
    pc \in {"look", "link"} =>
       /\ vol.type = "fat32" =>
             dj.clust = RootCluster(card[pdrv], vol.volbase)[(dj.dptr \div SS) \div vol.csize]
       /\ Passed(Here)
       /\ pc = "link" => Passed(Here + 1) /\ Offset < MAX_DIR

Right == Kept /\ Found /\ Sought /\ OpenedIsRight /\ ErrorIsRight
RInv == WInv /\ Right

-----------------------------------------------------------------------------
(* The clusters of a root directory, by induction along its chain. *)

\* A set of numbers that holds 0 and with each its successor holds all.
LEMMA Induction ==
    ASSUME NEW T, 0 \in T, \A n \in Nat : n \in T => n + 1 \in T
    PROVE  Nat \subseteq T
<1> DEFINE R == OpToRel(<, Nat)
<1>1. IsWellFoundedOn(R, Nat)
  BY NatLessThanWellFounded
<1>2. \A x, y \in Nat : x < y => <<x, y>> \in R
  BY DEF OpToRel
<1> HIDE DEF R
<1>3. SUFFICES ASSUME Nat \ T # {} PROVE FALSE
  OBVIOUS
<1>4. PICK x \in Nat \ T : \A y \in Nat \ T : ~(<<y, x>> \in R)
  <2>1. Nat \ T \subseteq Nat
    OBVIOUS
  <2> QED BY <1>1, <1>3, <2>1, WFMin, Zenon
<1>5. x \in Nat \ {0} /\ x - 1 \in Nat /\ x - 1 < x /\ (x - 1) + 1 = x
  BY <1>4
<1>6. x - 1 \in T
  BY <1>2, <1>4, <1>5
<1> QED BY <1>4, <1>5, <1>6

\* A function of the numbers can be defined by what it is at 0 and what follows what.
LEMMA Iterated ==
    ASSUME NEW a \in Nat, NEW G \in [Nat -> Nat]
    PROVE  \E f \in [Nat -> Nat] : \A n \in Nat : f[n] = IF n = 0 THEN a ELSE G[f[n - 1]]
<1> DEFINE Upto(n) == {g \in [0..n -> Nat] : g[0] = a /\ \A i \in 1..n : g[i] = G[g[i - 1]]}
           T == {n \in Nat : Upto(n) # {}}
<1>1. Nat \subseteq T
  <2>1. 0 \in T
    <3>1. [i \in 0..0 |-> a] \in Upto(0)
      OBVIOUS
    <3> QED BY <3>1
  <2>2. ASSUME NEW n \in Nat, n \in T PROVE n + 1 \in T
    <3>1. PICK g \in [0..n -> Nat] : g[0] = a /\ \A i \in 1..n : g[i] = G[g[i - 1]]
      BY <2>2
    <3> DEFINE h == [i \in 0..n + 1 |-> IF i <= n THEN g[i] ELSE G[g[n]]]
    <3>2. h \in [0..n + 1 -> Nat]
      <4>1. n \in 0..n /\ g[n] \in Nat /\ G[g[n]] \in Nat
        BY <3>1
      <4>2. ASSUME NEW i \in 0..n + 1 PROVE (IF i <= n THEN g[i] ELSE G[g[n]]) \in Nat
        <5>1. i <= n => i \in 0..n
          OBVIOUS
        <5> QED BY <3>1, <4>1, <5>1
      <4> QED BY <4>2, Zenon
    <3>3. h[0] = a
      BY <3>1
    <3>4. ASSUME NEW i \in 1..n + 1 PROVE h[i] = G[h[i - 1]]
      <4>1. CASE i <= n
        <5>1. i \in 1..n /\ i \in 0..n + 1 /\ i - 1 \in 0..n + 1 /\ i - 1 <= n
          BY <4>1
        <5>2. h[i] = g[i] /\ h[i - 1] = g[i - 1]
          BY <4>1, <5>1
        <5> QED BY <3>1, <5>1, <5>2
      <4>2. CASE ~(i <= n)
        <5>1. i = n + 1 /\ i - 1 = n
          BY <4>2
        <5> QED BY <3>1, <5>1
      <4> QED BY <4>1, <4>2
    <3> HIDE DEF h
    <3>5. h \in Upto(n + 1)
      BY <3>2, <3>3, <3>4
    <3> HIDE DEF Upto
    <3>6. Upto(n + 1) # {} /\ n + 1 \in Nat
      BY <3>5
    <3> QED BY <3>6
  <2> HIDE DEF T
  <2> QED BY <2>1, <2>2, Induction
<1> DEFINE g(n) == CHOOSE h : h \in Upto(n)
<1>2. ASSUME NEW n \in Nat
      PROVE  g(n) \in [0..n -> Nat] /\ g(n)[0] = a /\ \A i \in 1..n : g(n)[i] = G[g(n)[i - 1]]
  <2>1. Upto(n) # {}
    BY <1>1
  <2>2. g(n) \in Upto(n)
    <3> HIDE DEF Upto
    <3> QED BY <2>1
  <2> QED BY <2>2
<1> HIDE DEF g
<1> DEFINE Agree == {i \in Nat : \A n, m \in Nat : i <= n /\ i <= m => g(n)[i] = g(m)[i]}
<1>3. Nat \subseteq Agree
  <2>1. 0 \in Agree
    BY <1>2
  <2>2. ASSUME NEW i \in Nat, i \in Agree PROVE i + 1 \in Agree
    <3>1. SUFFICES ASSUME NEW n \in Nat, NEW m \in Nat, i + 1 <= n, i + 1 <= m
                   PROVE  g(n)[i + 1] = g(m)[i + 1]
      OBVIOUS
    <3>2. i + 1 \in 1..n /\ i + 1 \in 1..m /\ (i + 1) - 1 = i /\ i <= n /\ i <= m
      BY <3>1
    <3>3. g(n)[i] = g(m)[i]
      BY <2>2, <3>2
    <3>4. g(n)[i + 1] = G[g(n)[i]] /\ g(m)[i + 1] = G[g(m)[i]]
      BY <1>2, <3>2
    <3> QED BY <3>3, <3>4
  <2> HIDE DEF Agree
  <2> QED BY <2>1, <2>2, Induction
<1> DEFINE f == [n \in Nat |-> g(n)[n]]
<1>4. f \in [Nat -> Nat]
  BY <1>2
<1>5. ASSUME NEW n \in Nat PROVE f[n] = IF n = 0 THEN a ELSE G[f[n - 1]]
  <2>1. CASE n = 0
    BY <1>2, <2>1
  <2>2. CASE n # 0
    <3>1. n - 1 \in Nat /\ n \in 1..n /\ n - 1 <= n
      BY <2>2
    <3>2. g(n)[n] = G[g(n)[n - 1]]
      BY <1>2, <3>1
    <3>3. n - 1 \in Agree
      BY <1>3, <3>1
    <3>4. g(n)[n - 1] = g(n - 1)[n - 1]
      BY <3>1, <3>3
    <3> QED BY <2>2, <3>1, <3>2, <3>4
  <2> QED BY <2>1, <2>2
<1> HIDE DEF f
<1> QED BY <1>4, <1>5

\* The clusters of the root directory of the volume at s.
LEMMA RootClusters ==
    ASSUME NEW k \in Cards, NEW s, NEW f, f = RootCluster(k, s),
           Layout(BootAt(k, s), s).n_fatent \in Nat
    PROVE  LET v == Layout(BootAt(k, s), s)
               Valid1(c) == IF c \in 2..v.n_fatent - 1 THEN c ELSE 0
           IN /\ f[0] = Valid1(v.dirbase)
              /\ \A n \in Nat : f[n + 1] = Valid1(LinkAt(k, s, f[n])) /\ f[n] \in Nat
<1> DEFINE v == Layout(BootAt(k, s), s)
           valid(c) == IF c \in 2..v.n_fatent - 1 THEN c ELSE 0
           a == valid(v.dirbase)
           G == [c \in Nat |-> valid(LinkAt(k, s, c))]
           Def(h) == [n \in Nat |-> IF n = 0 THEN valid(v.dirbase) ELSE valid(LinkAt(k, s, h[n - 1]))]
<1>1. f = CHOOSE h : h = Def(h)
  BY DEF RootCluster
<1>2. \A c : valid(c) \in Nat
  <2> HIDE DEF v
  <2> QED OBVIOUS
<1>3. PICK h \in [Nat -> Nat] : \A n \in Nat : h[n] = IF n = 0 THEN a ELSE G[h[n - 1]]
  <2>1. a \in Nat /\ G \in [Nat -> Nat]
    BY <1>2
  <2> HIDE DEF a, G
  <2> QED BY <2>1, Iterated
<1>4. ASSUME NEW e PROVE e = Def(e) =>
         e[0] = valid(v.dirbase) /\ \A n \in Nat : e[n + 1] = valid(LinkAt(k, s, e[n])) /\ e[n] \in Nat
  <2> HAVE e = Def(e)
  <2>1. \A n \in Nat : e[n] = IF n = 0 THEN valid(v.dirbase) ELSE valid(LinkAt(k, s, e[n - 1]))
    <3> HIDE DEF valid, v
    <3> QED OBVIOUS
  <2> HIDE DEF valid, v
  <2>2. e[0] = valid(v.dirbase)
    BY <2>1
  <2>3. ASSUME NEW n \in Nat PROVE e[n + 1] = valid(LinkAt(k, s, e[n])) /\ e[n] \in Nat
    <3>1. n + 1 \in Nat /\ n + 1 # 0 /\ (n + 1) - 1 = n
      OBVIOUS
    <3> QED BY <1>2, <2>1, <3>1
  <2> QED BY <2>2, <2>3
<1>5. h = Def(h)
  <2>1. \A n \in Nat : h[n] = Def(h)[n]
    <3> HIDE DEF valid, v
    <3>1. ASSUME NEW n \in Nat PROVE h[n] = Def(h)[n]
      <4>1. h[n] = IF n = 0 THEN a ELSE G[h[n - 1]]
        BY <1>3
      <4>2. CASE n = 0
        BY <4>1, <4>2
      <4>3. CASE n # 0
        <5>1. n - 1 \in Nat
          BY <4>3
        <5>2. h[n - 1] \in Nat
          BY <1>3, <5>1
        <5> QED BY <4>1, <4>3, <5>2
      <4> QED BY <4>2, <4>3
    <3> QED BY <3>1
  <2>2. DOMAIN h = Nat /\ DOMAIN Def(h) = Nat /\ h = [n \in Nat |-> h[n]]
        /\ Def(h) = [n \in Nat |-> Def(h)[n]]
    BY Zenon
  <2> HIDE DEF Def
  <2> QED BY <2>1, <2>2, Zenon
<1>6. f = Def(f)
  <2> HIDE DEF Def
  <2> QED BY <1>1, <1>5
<1> QED BY <1>4, <1>6

-----------------------------------------------------------------------------
(* The names of images: from a number to a path to the name of an entry. *)

\* A string of n characters.  (A definition of its own, so that the provers look at
\* the characters without the sequences.)
Word(s, n) == s \in Seq(Nat) /\ Len(s) = n

\* A part of a string.
LEMMA PartOf ==
    ASSUME NEW n \in Nat, NEW s, Word(s, n), NEW a \in 1..n, NEW b \in a..n
    PROVE  Word(SubSeq(s, a, b), b - a + 1) /\ \A i \in 1..b - a + 1 : SubSeq(s, a, b)[i] = s[a + i - 1]
<1>1. \A i \in a..b : s[i] \in Nat
  BY DEF Word
<1>2. a \in Int /\ b \in Int /\ a <= b
  OBVIOUS
<1>3. /\ SubSeq(s, a, b) \in Seq(Nat) /\ Len(SubSeq(s, a, b)) = IF a <= b THEN b - a + 1 ELSE 0
      /\ \A i \in 1..b - a + 1 : SubSeq(s, a, b)[i] = s[a + i - 1]
  BY <1>1, <1>2, SubSeqProperties
<1> QED BY <1>2, <1>3, Zenon DEF Word

\* The place of the first character of a set.
LEMMA FirstIs ==
    ASSUME NEW n \in Nat, NEW s, Word(s, n), NEW S, NEW i \in 1..n, s[i] \in S,
           \A j \in 1..i - 1 : s[j] \notin S
    PROVE  First(s, S) = i
<1>1. Len(s) = n
  BY DEF Word
<1>2. ASSUME NEW m \in 1..n + 1, m <= n => s[m] \in S, \A j \in 1..m - 1 : s[j] \notin S
      PROVE  m = i
  <2>1. ~(m < i)
    BY <1>2
  <2>2. ~(i < m)
    BY <1>2
  <2> QED BY <2>1, <2>2
<1>3. i \in 1..n + 1 /\ (i <= n => s[i] \in S)
  OBVIOUS
<1> QED BY <1>1, <1>2, <1>3 DEF First

\* The digits of the number of an image.
LEMMA HexDigit ==
    ASSUME NEW x \in 0..15
    PROVE  hex_digit(x) = Digits[x + 1] /\ hex_digit(x) \in (48..57) \cup (65..70)
<1>1. x \in {0, 1, 2, 3, 4, 5, 6, 7, 8, 9, 10, 11, 12, 13, 14, 15}
  OBVIOUS
<1> QED BY <1>1 DEF hex_digit, Digits, Digit0

\* The two digits of an image in its name are what the sketch writes for its number.
LEMMA NameDigits ==
    ASSUME NEW n \in Images
    PROVE  n \div 16 \in 0..15 /\ n % 16 \in 0..15
<1>1. n \in 1..254
  BY BoundAssumption
<1> QED BY <1>1

\* A capital or a digit.
Plain(c) == c \in (65..90) \cup (48..57)

\* The characters behind the colon of a path with the digits h and l.
Chars(s, h, l) ==
    /\ s[1] = 66 /\ s[2] = 76 /\ s[3] = 75 /\ s[4] = 68 /\ s[5] = 69 /\ s[6] = 86
    /\ s[7] = h /\ s[8] = l /\ s[9] = 46 /\ s[10] = 80 /\ s[11] = 79 /\ s[12] = 0

\* The characters of an image's path are plain ones.
LEMMA CharsPlain ==
    ASSUME NEW h, NEW l, Plain(h), Plain(l), NEW s, Chars(s, h, l)
    PROVE  (\A i \in 1..8 : Plain(s[i])) /\ \A i \in 1..11 : s[i] \in 46..90 /\ s[i] # 47
<1>1. \A i \in 1..11 : i \in {1, 2, 3, 4, 5, 6, 7, 8, 9, 10, 11}
  OBVIOUS
<1>2. \A i \in 1..8 : i \in {1, 2, 3, 4, 5, 6, 7, 8}
  OBVIOUS
<1>3. \A i \in {1, 2, 3, 4, 5, 6, 7, 8} : Plain(s[i])
  BY DEF Plain, Chars
<1>4. \A i \in {1, 2, 3, 4, 5, 6, 7, 8, 9, 10, 11} : s[i] \in 46..90 /\ s[i] # 47
  BY DEF Plain, Chars
<1> QED BY <1>1, <1>2, <1>3, <1>4

\* Capitals and digits stay as they are in an entry.
LEMMA PaddedUpper ==
    ASSUME NEW n \in Nat, NEW m \in Nat, NEW s, Word(s, n), \A i \in 1..n : Plain(s[i])
    PROVE  Padded(Upper(s), m) = [i \in 1..m |-> IF i <= n THEN s[i] ELSE 32]
<1>1. Len(s) = n
  BY DEF Word
<1>2. \A i \in 1..n : ~Small(s[i])
  BY DEF Plain, Small
<1>3. Upper(s) = [i \in 1..n |-> s[i]]
  BY <1>1, <1>2 DEF Upper
<1>4. Len([i \in 1..n |-> s[i]]) = n
  OBVIOUS
<1> QED BY <1>3, <1>4 DEF Padded, Space

\* Strings of the same characters are the same.
LEMMA SameWord ==
    ASSUME NEW n \in Nat, NEW s, NEW t, Word(s, n), Word(t, n), \A i \in 1..n : s[i] = t[i]
    PROVE  s = t
BY SeqEqual, Zenon DEF Word

\* Two words joined are the word whose two parts they are.
LEMMA JoinedIs ==
    ASSUME NEW n \in Nat, NEW m \in Nat, NEW s, NEW t, NEW w, Word(s, n), Word(t, m), Word(w, n + m),
           \A i \in 1..n : s[i] = w[i], \A i \in 1..m : t[i] = w[n + i]
    PROVE  s \o t = w
<1>1. s \in Seq(Nat) /\ Len(s) = n /\ t \in Seq(Nat) /\ Len(t) = m
  BY DEF Word
<1>2. /\ s \o t \in Seq(Nat) /\ Len(s \o t) = Len(s) + Len(t)
      /\ \A i \in 1..Len(s) + Len(t) : (s \o t)[i] = IF i <= Len(s) THEN s[i] ELSE t[i - Len(s)]
  BY <1>1, ConcatProperties, Zenon
<1> DEFINE x == s \o t
<1>3. x \in Seq(Nat) /\ Len(x) = n + m /\ \A i \in 1..n + m : x[i] = IF i <= n THEN s[i] ELSE t[i - n]
  BY <1>1, <1>2, Zenon
<1> HIDE DEF x
<1>4. Word(x, n + m)
  BY <1>3 DEF Word
<1>5. \A i \in 1..n + m : x[i] = IF i <= n THEN s[i] ELSE t[i - n]
  BY <1>3, Zenon
<1>6. ASSUME NEW i \in 1..n + m PROVE x[i] = w[i]
  <2>1. CASE i <= n
    <3>1. i \in 1..n
      BY <2>1
    <3> QED BY <1>5, <2>1, <3>1
  <2>2. CASE ~(i <= n)
    <3>1. i - n \in 1..m /\ n + (i - n) = i
      BY <2>2
    <3> QED BY <1>5, <3>1, <2>2
  <2> QED BY <2>1, <2>2
<1>7. n + m \in Nat
  OBVIOUS
<1> QED BY <1>4, <1>6, <1>7, SameWord, Zenon DEF x

\* What stands in the entry for the characters a of the body and b of the extension.
LEMMA EntryChars ==
    ASSUME NEW h \in Nat, NEW l \in Nat, NEW a, NEW b,
           a[1] = 66 /\ a[2] = 76 /\ a[3] = 75 /\ a[4] = 68 /\ a[5] = 69 /\ a[6] = 86 /\ a[7] = h /\ a[8] = l,
           b[1] = 80 /\ b[2] = 79
    PROVE  [i \in 1..8 |-> IF i <= 8 THEN a[i] ELSE 32] \o [i \in 1..3 |-> IF i <= 2 THEN b[i] ELSE 32]
             = <<66, 76, 75, 68, 69, 86, h, l, 80, 79, 32>>
<1> DEFINE u == [i \in 1..8 |-> IF i <= 8 THEN a[i] ELSE 32]
           v == [i \in 1..3 |-> IF i <= 2 THEN b[i] ELSE 32]
           w == <<66, 76, 75, 68, 69, 86, h, l, 80, 79, 32>>
<1>1. u = <<66, 76, 75, 68, 69, 86, h, l>>
  <2>1. \A i \in 1..8 : i \in {1, 2, 3, 4, 5, 6, 7, 8}
    OBVIOUS
  <2> QED BY <2>1
<1>2. v = <<80, 79, 32>>
  <2>1. \A i \in 1..3 : i \in {1, 2, 3}
    OBVIOUS
  <2> QED BY <2>1
<1> HIDE DEF u, v
<1>3. Word(u, 8)
  BY <1>1 DEF Word
<1>4. Word(v, 3)
  BY <1>2 DEF Word
<1>5. Word(w, 8 + 3)
  BY DEF Word
<1>6. \A i \in 1..8 : u[i] = w[i]
  <2>1. \A i \in {1, 2, 3, 4, 5, 6, 7, 8} : u[i] = w[i]
    BY <1>1
  <2>2. \A i \in 1..8 : i \in {1, 2, 3, 4, 5, 6, 7, 8}
    OBVIOUS
  <2> HIDE DEF w
  <2> QED BY <2>1, <2>2, Zenon
<1>7. \A i \in 1..3 : v[i] = w[8 + i]
  <2>1. \A i \in {1, 2, 3} : v[i] = w[8 + i]
    BY <1>2
  <2>2. \A i \in 1..3 : i \in {1, 2, 3}
    OBVIOUS
  <2> HIDE DEF w
  <2> QED BY <2>1, <2>2, Zenon
<1> HIDE DEF w
<1>8. 8 \in Nat /\ 3 \in Nat
  OBVIOUS
<1> DEFINE n == 8
           m == 3
<1>9. /\ n \in Nat /\ m \in Nat /\ Word(u, n) /\ Word(v, m) /\ Word(w, n + m)
      /\ (\A i \in 1..n : u[i] = w[i]) /\ \A i \in 1..m : v[i] = w[n + i]
  BY <1>3, <1>4, <1>5, <1>6, <1>7, <1>8, Zenon
<1> HIDE DEF n, m
<1>10. u \o v = w
  BY <1>9, JoinedIs, Zenon
<1> QED BY <1>10, Zenon DEF u, v, w

\* create_name() of what is behind the colon.
LEMMA Created ==
    ASSUME NEW h \in Nat, NEW l \in Nat, Plain(h), Plain(l), NEW s, Word(s, 12), Chars(s, h, l)
    PROVE  create_name(s) = <<66, 76, 75, 68, 69, 86, h, l, 80, 79, 32>>
<1> DEFINE ends == {c \in 0..127 : c <= Space \/ IsSeparator(c)}
           seg  == SubSeq(s, 1, First(s, ends) - 1)
           body == SubSeq(seg, 1, First(seg, {Dot}) - 1)
           ext  == SubSeq(seg, First(seg, {Dot}) + 1, Len(seg))
           fn   == Padded(Upper(body), 8) \o Padded(Upper(ext), 3)
           bad(x) == \E i \in 1..Len(x) : x[i] \in Illegal \cup {Dot}
<1>0. create_name(s) =
         IF seg = <<>> \/ Len(body) > 8 \/ Len(ext) > 3 \/ bad(body) \/ bad(ext)
         THEN Invalid ELSE IF fn[1] = DDEM THEN [fn EXCEPT ![1] = RDDEM] ELSE fn
  BY DEF create_name
<1>1. (\A i \in 1..8 : Plain(s[i])) /\ \A i \in 1..11 : s[i] \in 46..90 /\ s[i] # 47
  BY CharsPlain
<1>2. First(s, ends) = 12
  <2>1. s[12] \in ends
    BY DEF Space, Chars
  <2>2. \A j \in 1..12 - 1 : s[j] \notin ends
    BY <1>1 DEF Space, IsSeparator
  <2>3. 12 \in Nat /\ 12 \in 1..12
    OBVIOUS
  <2> HIDE DEF ends
  <2> QED BY <2>1, <2>2, <2>3, FirstIs, Zenon
<1> HIDE DEF ends
<1>3. Word(seg, 11) /\ \A i \in 1..11 : seg[i] = s[i]
  <2>1. 12 \in Nat /\ 1 \in 1..12 /\ 11 \in 1..12 /\ 12 - 1 = 11 /\ 11 - 1 + 1 = 11
    OBVIOUS
  <2>2. Word(SubSeq(s, 1, 11), 11 - 1 + 1) /\ \A i \in 1..11 - 1 + 1 : SubSeq(s, 1, 11)[i] = s[1 + i - 1]
    BY <2>1, PartOf
  <2>3. \A i \in 1..11 : 1 + i - 1 = i
    OBVIOUS
  <2> QED BY <1>2, <2>1, <2>2, <2>3
<1> HIDE DEF seg
<1>4. First(seg, {Dot}) = 9
  <2>1. seg[9] \in {Dot} /\ \A j \in 1..9 - 1 : seg[j] \notin {Dot}
    BY <1>1, <1>3 DEF Dot, Plain, Chars
  <2>2. 11 \in Nat /\ 9 \in 1..11
    OBVIOUS
  <2> QED BY <1>3, <2>1, <2>2, FirstIs
<1>5. Word(body, 8) /\ \A i \in 1..8 : body[i] = s[i]
  <2>1. 11 \in Nat /\ 1 \in 1..11 /\ 8 \in 1..11 /\ 9 - 1 = 8 /\ 8 - 1 + 1 = 8
    OBVIOUS
  <2>2. Word(SubSeq(seg, 1, 8), 8 - 1 + 1) /\ \A i \in 1..8 - 1 + 1 : SubSeq(seg, 1, 8)[i] = seg[1 + i - 1]
    BY <1>3, <2>1, PartOf
  <2>3. \A i \in 1..8 : 1 + i - 1 = i /\ i \in 1..11
    OBVIOUS
  <2> QED BY <1>3, <1>4, <2>1, <2>2, <2>3
<1>6. Word(ext, 2) /\ ext[1] = 80 /\ ext[2] = 79
  <2>1. 11 \in Nat /\ 10 \in 1..11 /\ 11 \in 10..11 /\ 9 + 1 = 10 /\ 11 - 10 + 1 = 2
    OBVIOUS
  <2>2. Word(SubSeq(seg, 10, 11), 11 - 10 + 1) /\ \A i \in 1..11 - 10 + 1 : SubSeq(seg, 10, 11)[i] = seg[10 + i - 1]
    BY <1>3, <2>1, PartOf
  <2>3. Len(seg) = 11
    BY <1>3 DEF Word
  <2>4. 10 + 1 - 1 = 10 /\ 10 + 2 - 1 = 11 /\ 1 \in 1..2 /\ 2 \in 1..2 /\ 10 \in 1..11 /\ 11 \in 1..11
    OBVIOUS
  <2>5. ext = SubSeq(seg, 10, 11)
    BY <1>4, <2>1, <2>3, Zenon
  <2> HIDE DEF ext
  <2> QED BY <1>3, <2>1, <2>2, <2>4, <2>5 DEF Chars
<1> HIDE DEF body, ext
<1>7. Len(body) = 8 /\ Len(ext) = 2 /\ Len(seg) = 11
  BY <1>3, <1>5, <1>6 DEF Word
<1>8. ~bad(body) /\ ~bad(ext)
  <2>1. \A i \in 1..8 : body[i] \notin Illegal \cup {Dot}
    BY <1>1, <1>5 DEF Plain, Illegal, Dot
  <2>2. \A i \in 1..2 : ext[i] \notin Illegal \cup {Dot}
    <3>1. \A i \in 1..2 : i = 1 \/ i = 2
      OBVIOUS
    <3> QED BY <1>6, <3>1 DEF Illegal, Dot
  <2> QED BY <1>7, <2>1, <2>2, Zenon
<1> HIDE DEF bad
<1>9. fn = <<66, 76, 75, 68, 69, 86, h, l, 80, 79, 32>>
  <2>1. Padded(Upper(body), 8) = [i \in 1..8 |-> IF i <= 8 THEN body[i] ELSE 32]
    <3> DEFINE n == 8
               m == 8
    <3>1. n \in Nat /\ m \in Nat /\ Word(body, n) /\ \A i \in 1..n : Plain(body[i])
      BY <1>1, <1>5
    <3> HIDE DEF n, m
    <3>2. Padded(Upper(body), m) = [i \in 1..m |-> IF i <= n THEN body[i] ELSE 32]
      BY <3>1, PaddedUpper
    <3> QED BY <3>2, Zenon DEF n, m
  <2>2. Padded(Upper(ext), 3) = [i \in 1..3 |-> IF i <= 2 THEN ext[i] ELSE 32]
    <3> DEFINE n == 2
               m == 3
    <3>1. \A i \in 1..2 : i = 1 \/ i = 2
      OBVIOUS
    <3>2. n \in Nat /\ m \in Nat /\ Word(ext, n) /\ \A i \in 1..n : Plain(ext[i])
      BY <1>6, <3>1 DEF Plain
    <3> HIDE DEF n, m
    <3>3. Padded(Upper(ext), m) = [i \in 1..m |-> IF i <= n THEN ext[i] ELSE 32]
      BY <3>2, PaddedUpper
    <3> QED BY <3>3, Zenon DEF n, m
  <2>3. /\ body[1] = 66 /\ body[2] = 76 /\ body[3] = 75 /\ body[4] = 68 /\ body[5] = 69 /\ body[6] = 86
        /\ body[7] = h /\ body[8] = l
    BY <1>5 DEF Chars
  <2>4. [i \in 1..8 |-> IF i <= 8 THEN body[i] ELSE 32] \o [i \in 1..3 |-> IF i <= 2 THEN ext[i] ELSE 32]
          = <<66, 76, 75, 68, 69, 86, h, l, 80, 79, 32>>
    BY <1>6, <2>3, EntryChars
  <2> QED BY <2>1, <2>2, <2>4, Zenon
<1>11. fn[1] = 66
  <2>1. <<66, 76, 75, 68, 69, 86, h, l, 80, 79, 32>>[1] = 66
    OBVIOUS
  <2> QED BY <1>9, <2>1, Zenon
<1> HIDE DEF fn
<1>12. seg # <<>> /\ ~(Len(body) > 8) /\ ~(Len(ext) > 3)
  BY <1>7
<1> QED BY <1>8, <1>9, <1>0, <1>11, <1>12 DEF DDEM

\* The path of an image: two of its characters are digits of its number.
LEMMA PathWord ==
    ASSUME NEW d \in Drives, NEW n \in Images
    PROVE  /\ Word(Path(d, n), 14)
           /\ \A i \in 1..14 : i \notin {9, 10} => Path(d, n)[i] = blockdev_filename(d)[i]
           /\ Path(d, n)[9] = hex_digit(n \div 16) /\ Path(d, n)[10] = hex_digit(n % 16)
<1> DEFINE b == blockdev_filename(d)
           h == hex_digit(n \div 16)
           l == hex_digit(n % 16)
<1>1. b = <<48 + d, 58, 66, 76, 75, 68, 69, 86, 88, 88, 46, 80, 79, 0>> /\ d \in {0, 1}
  BY BoundAssumption DEF blockdev_filename, Digit0, Colon, Dot
<1>2. b \in [1..14 -> Nat]
  <2>1. b \in Seq(Nat)
    BY <1>1
  <2>2. Len(b) = 14
    BY <1>1
  <2> HIDE DEF b
  <2> QED BY <2>1, <2>2, LenProperties, Zenon
<1>3. h \in Nat /\ l \in Nat
  <2>1. \A x \in (48..57) \cup (65..70) : x \in Nat
    OBVIOUS
  <2> QED BY HexDigit, NameDigits, <2>1
<1>4. Path(d, n) = [b EXCEPT ![9] = h, ![10] = l]
  BY DEF Path, set_blockdev_filename
<1> HIDE DEF b, h, l
<1>5. /\ Path(d, n) \in [1..14 -> Nat]
      /\ \A i \in 1..14 : i \notin {9, 10} => Path(d, n)[i] = b[i]
      /\ Path(d, n)[9] = h /\ Path(d, n)[10] = l
  BY <1>2, <1>3, <1>4
<1>6. Word(Path(d, n), 14)
  <2> DEFINE p == Path(d, n)
  <2>1. p \in [1..14 -> Nat]
    BY <1>5
  <2>2. 14 \in Nat
    OBVIOUS
  <2> HIDE DEF p
  <2>3. p \in Seq(Nat)
    BY <2>1, <2>2, SeqDef, Zenon
  <2>4. Len(p) \in Nat /\ 1..Len(p) = 1..14
    <3>1. DOMAIN p = 1..14
      BY <2>1
    <3> QED BY <2>3, <3>1, LenProperties, Zenon
  <2>5. Len(p) = 14
    <3> DEFINE x == Len(p)
    <3>1. x \in Nat /\ 1..x = 1..14
      BY <2>4
    <3> HIDE DEF x
    <3>2. 14 \in 1..x
      BY <3>1
    <3>3. x \in 1..14
      BY <3>1, <3>2
    <3>4. x = 14
      BY <3>1, <3>2, <3>3
    <3> QED BY <3>4 DEF x
  <2> QED BY <2>3, <2>5 DEF Word, p
<1> QED BY <1>5, <1>6 DEF b, h, l

\* What is behind the colon of a path.
LEMMA PathChars ==
    ASSUME NEW d, NEW p, NEW s, NEW h, NEW l,
           \A i \in 1..14 : i \notin {9, 10} => p[i] = blockdev_filename(d)[i],
           p[9] = h, p[10] = l, \A i \in 1..12 : s[i] = p[3 + i - 1]
    PROVE  Chars(s, h, l)
<1> DEFINE b == blockdev_filename(d)
<1>1. b = <<48 + d, 58, 66, 76, 75, 68, 69, 86, 88, 88, 46, 80, 79, 0>>
  BY DEF blockdev_filename, Digit0, Colon, Dot
<1>2. /\ b[3] = 66 /\ b[4] = 76 /\ b[5] = 75 /\ b[6] = 68 /\ b[7] = 69 /\ b[8] = 86
      /\ b[11] = 46 /\ b[12] = 80 /\ b[13] = 79 /\ b[14] = 0
  BY <1>1
<1> HIDE DEF b
<1>3. \A i \in {3, 4, 5, 6, 7, 8, 11, 12, 13, 14} : p[i] = b[i]
  BY DEF b
<1>4. /\ s[1] = p[3] /\ s[2] = p[4] /\ s[3] = p[5] /\ s[4] = p[6] /\ s[5] = p[7] /\ s[6] = p[8]
      /\ s[7] = p[9] /\ s[8] = p[10] /\ s[9] = p[11] /\ s[10] = p[12] /\ s[11] = p[13] /\ s[12] = p[14]
  OBVIOUS
<1> QED BY <1>2, <1>3, <1>4 DEF Chars

\* Nothing is stripped of it.
LEMMA StrippedIs ==
    ASSUME NEW s, NEW h, NEW l, Word(s, 12), Chars(s, h, l)
    PROVE  Stripped(s) = s
<1> DEFINE others == {c \in 0..127 : ~IsSeparator(c)}
<1>1. s[1] \in others /\ \A j \in 1..1 - 1 : s[j] \notin others
  BY DEF IsSeparator, Chars
<1>2. 12 \in Nat /\ 1 \in 1..12 /\ 12 \in 1..12 /\ 12 - 1 + 1 = 12
  OBVIOUS
<1> HIDE DEF others
<1>3. First(s, others) = 1
  BY <1>1, <1>2, FirstIs
<1>4. Len(s) = 12
  BY DEF Word
<1>5. Word(SubSeq(s, 1, 12), 12) /\ \A i \in 1..12 : SubSeq(s, 1, 12)[i] = s[i]
  <2>1. Word(SubSeq(s, 1, 12), 12 - 1 + 1) /\ \A i \in 1..12 - 1 + 1 : SubSeq(s, 1, 12)[i] = s[1 + i - 1]
    BY <1>2, PartOf
  <2>2. \A i \in 1..12 : 1 + i - 1 = i
    OBVIOUS
  <2> QED BY <1>2, <2>1, <2>2
<1>6. SubSeq(s, 1, 12) = s
  BY <1>2, <1>5, SameWord
<1> QED BY <1>3, <1>4, <1>6 DEF Stripped, others

\* The sketch's number of an image and FatFs's name of an entry agree.
LEMMA EntryIsImage ==
    ASSUME NEW d \in Drives, NEW n \in Images
    PROVE  EntryName(Path(d, n)) = ImageName(n) /\ ImageName(n) # Invalid
<1> DEFINE p == Path(d, n)
           s == SubSeq(p, 3, 14)
           h == hex_digit(n \div 16)
           l == hex_digit(n % 16)
<1>1. /\ Word(p, 14) /\ get_ldnumber(p) = <<d, s>>
      /\ \A i \in 1..14 : i \notin {9, 10} => p[i] = blockdev_filename(d)[i]
      /\ p[9] = h /\ p[10] = l
  BY PathWord, PathDrive
<1>2. /\ h = Digits[(n \div 16) + 1] /\ l = Digits[(n % 16) + 1]
      /\ h \in (48..57) \cup (65..70) /\ l \in (48..57) \cup (65..70)
  BY HexDigit, NameDigits
<1>3. Plain(h) /\ Plain(l) /\ h \in Nat /\ l \in Nat
  <2> HIDE DEF h, l
  <2> QED BY <1>2 DEF Plain
<1> HIDE DEF p, h, l
<1>4. Word(s, 12) /\ \A i \in 1..12 : s[i] = p[3 + i - 1]
  <2>1. 14 \in Nat /\ 3 \in 1..14 /\ 14 \in 3..14 /\ 14 - 3 + 1 = 12
    OBVIOUS
  <2>2. Word(SubSeq(p, 3, 14), 14 - 3 + 1) /\ \A i \in 1..14 - 3 + 1 : SubSeq(p, 3, 14)[i] = p[3 + i - 1]
    BY <1>1, <2>1, PartOf
  <2> QED BY <2>1, <2>2
<1> HIDE DEF s
<1>5. Chars(s, h, l)
  BY <1>1, <1>4, PathChars
<1>6. Stripped(s) = s
  BY <1>4, <1>5, StrippedIs
<1>7. create_name(s) = <<66, 76, 75, 68, 69, 86, h, l, 80, 79, 32>>
  BY <1>3, <1>4, <1>5, Created
<1>8. ImageName(n) = <<66, 76, 75, 68, 69, 86, h, l, 80, 79, 32>>
  BY <1>2 DEF ImageName
<1>9. ImageName(n) # Invalid
  BY <1>8 DEF Invalid
<1>10. get_ldnumber(p)[2] = s
  BY <1>1
<1> QED BY <1>10, <1>6, <1>7, <1>8, <1>9 DEF EntryName, p

\* What a call looks up is the drive it is for and the name of the drive's image.
LEMMA LookupIs ==
    ASSUME drive \in Drives, name[drive] \in Images
    PROVE  Lookup.ldnumber = drive /\ Lookup.fn = ImageName(name[drive]) /\ Lookup.fn # Invalid
<1> DEFINE l == [drive |-> drive, image |-> name[drive],
                 ldnumber |-> get_ldnumber(Path(drive, name[drive]))[1],
                 fn |-> EntryName(Path(drive, name[drive]))]
<1>1. l \in Lookups /\ l.drive = drive /\ l.image = name[drive]  BY DEF Lookups
<1>2. Lookup \in Lookups /\ Lookup.drive = drive /\ Lookup.image = name[drive]
  <2> HIDE DEF l
  <2> QED BY <1>1 DEF Lookup
<1>3. PICK d \in Drives, n \in Images :
        Lookup = [drive |-> d, image |-> n, ldnumber |-> get_ldnumber(Path(d, n))[1],
                  fn |-> EntryName(Path(d, n))]
  BY <1>2 DEF Lookups
<1>4. /\ d = drive /\ n = name[drive] /\ Lookup.ldnumber = get_ldnumber(Path(d, n))[1]
      /\ Lookup.fn = EntryName(Path(d, n))
  BY <1>2, <1>3
<1>5. get_ldnumber(Path(d, n))[1] = d
  BY <1>3, PathDrive
<1>6. EntryName(Path(d, n)) = ImageName(n) /\ ImageName(n) # Invalid
  BY <1>3, EntryIsImage
<1> QED BY <1>4, <1>5, <1>6

\* Where the e-th entry of the q-th sector is.
LEMMA EntryIs ==
    ASSUME NEW q \in Nat, NEW e \in Nat, e < PerSector, NEW a, a = SS * q + SZDIRE * e
    PROVE  a \div SS = q /\ (a % SS) \div SZDIRE = e /\ a \div SZDIRE = PerSector * q + e
<1>1. /\ SS \in Nat \ {0} /\ SZDIRE \in Nat \ {0} /\ PerSector \in Nat \ {0}
      /\ SS = PerSector * SZDIRE
  BY SizeAssumption DEF PerSector
<1> DEFINE r == SZDIRE * e
           m == PerSector * q + e
<1>2. r \in Nat /\ r < SS /\ r = SZDIRE * e
  <2>1. SZDIRE * (e + 1) <= SZDIRE * PerSector
    BY <1>1, Product
  <2>2. SZDIRE * (e + 1) = SZDIRE * e + SZDIRE /\ SZDIRE * e \in Nat /\ SZDIRE * PerSector = SS
    BY <1>1
  <2> QED BY <1>1, <2>1, <2>2
<1>3. m \in Nat /\ SZDIRE * m = SS * q + r
  <2>1. PerSector * q \in Nat
    BY <1>1
  <2>2. SZDIRE * (PerSector * q + e) = SZDIRE * (PerSector * q) + SZDIRE * e
    BY <1>1, <2>1
  <2>3. SZDIRE * (PerSector * q) = SS * q
    BY <1>1
  <2> QED BY <2>1, <2>2, <2>3
<1>4. a = SS * q + r
  OBVIOUS
<1> HIDE DEF r, m
<1>5. (SS * q + r) \div SS = q /\ (SS * q + r) % SS = r
  BY <1>1, <1>2, Divided, Zenon
<1>6. 0 < SZDIRE /\ 0 \in Nat /\ SZDIRE * e + 0 = r /\ SZDIRE * m + 0 = SS * q + r
  BY <1>1, <1>2, <1>3
<1>7. (SZDIRE * e + 0) \div SZDIRE = e /\ (SZDIRE * m + 0) \div SZDIRE = m
  BY <1>1, <1>3, <1>6, Divided, Zenon
<1> QED BY <1>4, <1>5, <1>6, <1>7 DEF m

\* The place with that number.
LEMMA PlaceIs ==
    ASSUME NEW k, NEW s, NEW q \in Nat, NEW e \in Nat, e < PerSector
    PROVE  /\ PerSector * q + e \in Nat
           /\ PlaceSector(k, s, PerSector * q + e) = RootSectorAt(k, s, q)
           /\ PlaceIndex(PerSector * q + e) = e + 1
<1>1. PerSector \in Nat \ {0}
  BY SizeAssumption DEF PerSector
<1>2. /\ PerSector * q + e \in Nat /\ (PerSector * q + e) \div PerSector = q
      /\ (PerSector * q + e) % PerSector = e
  BY <1>1, Divided, Zenon
<1> QED BY <1>2 DEF PlaceSector, PlaceIndex

-----------------------------------------------------------------------------
(* The searches, for the first volume and for the entry, and the FAT they read. *)

\* A search that ends at place r, with nothing found before it, was in vain.
LEMMA SearchedInVain ==
    ASSUME NEW k, NEW n, FirstVolume(k) # NoSector => \E r \in Nat :
             /\ \A i \in 0..r - 1 : Passes(k, FirstVolume(k), n, i)
             /\ \/ ~Used(k, FirstVolume(k), r) \/ r * SZDIRE >= MAX_DIR
                \/ /\ Named(k, FirstVolume(k), n, r)
                   /\ DirAt(k, PlaceSector(k, FirstVolume(k), r))[PlaceIndex(r)].attr # "file"
    PROVE  Unusable(k, n)
<1> DEFINE s == FirstVolume(k)
<1>1. SUFFICES ASSUME s # NoSector, NEW p \in Places, Holds(k, s, n, p) PROVE FALSE
  BY DEF Unusable
<1>2. PICK r \in Nat : /\ \A i \in 0..r - 1 : Passes(k, s, n, i)
                       /\ \/ ~Used(k, s, r) \/ r * SZDIRE >= MAX_DIR
                          \/ Named(k, s, n, r) /\ DirAt(k, PlaceSector(k, s, r))[PlaceIndex(r)].attr # "file"
  BY <1>1
<1> HIDE DEF s
<1>3. /\ \A q \in 0..p : Used(k, s, q)
      /\ Named(k, s, n, p) /\ DirAt(k, PlaceSector(k, s, p))[PlaceIndex(p)].attr = "file"
      /\ \A q \in 0..p - 1 : ~Named(k, s, n, q)
  BY <1>1 DEF Holds, InUse, Used, Named
<1>4. p \in Nat /\ p * SZDIRE < MAX_DIR /\ ~(p * SZDIRE >= MAX_DIR)
  <2>1. MAX_DIR - 1 \in Nat /\ SZDIRE \in Nat \ {0} /\ MAX_DIR \in Nat
    BY BoundAssumption, SizeAssumption
  <2>2. (MAX_DIR - 1) \div SZDIRE \in Nat /\ SZDIRE * ((MAX_DIR - 1) \div SZDIRE) <= MAX_DIR - 1
    BY <2>1, Quotient
  <2> DEFINE last == (MAX_DIR - 1) \div SZDIRE
  <2>3. last \in Nat /\ SZDIRE * last <= MAX_DIR - 1 /\ p \in 0..last
    BY <2>2 DEF Places
  <2> HIDE DEF last
  <2>4. p \in Nat /\ p <= last
    BY <2>3
  <2>5. SZDIRE * p <= SZDIRE * last /\ SZDIRE * p \in Nat /\ SZDIRE * p = p * SZDIRE
    BY <2>1, <2>3, <2>4, Product
  <2>6. SZDIRE * last \in Nat
    BY <2>1, <2>3
  <2> QED BY <2>1, <2>3, <2>4, <2>5, <2>6
<1>5. CASE p < r
  <2>1. p \in 0..r - 1
    BY <1>4, <1>5
  <2> QED BY <1>2, <1>3, <2>1 DEF Passes
<1>6. CASE p = r
  <2>1. p \in 0..p
    BY <1>4
  <2> QED BY <1>2, <1>3, <1>4, <1>6, <2>1, Zenon
<1>7. CASE r < p
  <2>1. r \in 0..p - 1 /\ r \in 0..p
    BY <1>4, <1>7
  <2>2. Used(k, s, r) /\ ~Named(k, s, n, r)
    BY <1>3, <2>1
  <2>3. ~(r * SZDIRE >= MAX_DIR)
    <3>1. SZDIRE \in Nat /\ MAX_DIR \in Nat
      BY BoundAssumption, SizeAssumption
    <3>2. SZDIRE * r <= SZDIRE * p /\ SZDIRE * r \in Nat /\ SZDIRE * p \in Nat
      BY <1>4, <1>7, <3>1, Product
    <3>3. SZDIRE * r = r * SZDIRE /\ SZDIRE * p = p * SZDIRE
      BY <1>4, <3>1
    <3> QED BY <1>4, <3>1, <3>2, <3>3
  <2> QED BY <1>2, <2>2, <2>3, Zenon
<1> QED BY <1>4, <1>5, <1>6, <1>7

\* Which volume of a card is the first.
LEMMA FirstVolumeIs ==
    ASSUME NEW k
    PROVE  /\ Status(BootAt(k, 0)) = "fat" => FirstVolume(k) = 0
           /\ Status(BootAt(k, 0)) \notin {"fat", "table"} => FirstVolume(k) = NoSector
           /\ Status(BootAt(k, 0)) = "table" /\ Volumes(k) = {} => FirstVolume(k) = NoSector
           /\ \A i \in Volumes(k) :
                 Status(BootAt(k, 0)) = "table" /\ (\A j \in Volumes(k) : j >= i) =>
                    FirstVolume(k) = BootAt(k, 0).part[i]
<1> DEFINE table == BootAt(k, 0).part
           IsVolume(i) == table[i] # 0 /\ Status(BootAt(k, table[i])) = "fat"
<1>1. \A i : i \in Volumes(k) <=> i \in 1..4 /\ IsVolume(i)
  BY DEF Volumes
<1>2. FirstVolume(k) =
        IF Status(BootAt(k, 0)) = "fat" THEN 0
        ELSE IF Status(BootAt(k, 0)) = "table" /\ \E i \in 1..4 : IsVolume(i)
        THEN table[CHOOSE i \in 1..4 : IsVolume(i) /\ \A j \in 1..i - 1 : ~IsVolume(j)]
        ELSE NoSector
  BY DEF FirstVolume
<1> HIDE DEF IsVolume
<1>3. ASSUME NEW i \in Volumes(k), \A j \in Volumes(k) : j >= i, Status(BootAt(k, 0)) = "table"
      PROVE  FirstVolume(k) = BootAt(k, 0).part[i]
  <2> DEFINE First1(n) == n \in 1..4 /\ IsVolume(n) /\ \A j \in 1..n - 1 : ~IsVolume(j)
  <2>1. i \in 1..4 /\ IsVolume(i)
    BY <1>1, <1>3
  <2>2. \A j \in 1..i - 1 : ~IsVolume(j)
    <3>1. SUFFICES ASSUME NEW j \in 1..i - 1, IsVolume(j) PROVE FALSE
      OBVIOUS
    <3>2. j \in 1..4
      BY <2>1
    <3>3. j >= i
      BY <1>1, <1>3, <3>1, <3>2
    <3> QED BY <2>1, <3>3
  <2>3. ASSUME NEW n \in 1..4, IsVolume(n), \A j \in 1..n - 1 : ~IsVolume(j) PROVE n = i
    <3>1. ~(n < i)
      BY <2>1, <2>2, <2>3
    <3>2. ~(i < n)
      BY <2>1, <2>3
    <3> QED BY <2>1, <3>1, <3>2
  <2>4. (CHOOSE n \in 1..4 : IsVolume(n) /\ \A j \in 1..n - 1 : ~IsVolume(j)) = i
    BY <2>1, <2>2, <2>3
  <2>5. Status(BootAt(k, 0)) # "fat" /\ \E n \in 1..4 : IsVolume(n)
    BY <1>3, <2>1
  <2> QED BY <1>2, <1>3, <2>4, <2>5
<1> QED BY <1>1, <1>2, <1>3

\* The sectors and the clusters of the root directory of the volume that is mounted.
LEMMA SectorAt ==
    ASSUME IInv, fs_type # "none", NEW q \in Nat
    PROVE  LET c == RootCluster(card[pdrv], vol.volbase)[q \div vol.csize] IN
           RootSectorAt(card[pdrv], vol.volbase, q) =
             IF vol.type # "fat32"
               THEN IF q < vol.n_rootdir \div PerSector THEN vol.dirbase + q ELSE 0
               ELSE IF c = 0 THEN 0 ELSE clst2sect(vol, c) + (q % vol.csize)
<1>1. vol = Layout(BootAt(card[pdrv], vol.volbase), vol.volbase)
  BY VolumeFacts DEF Boot
<1> QED BY <1>1, Zenon DEF RootSectorAt

\* The clusters of the root directory of the volume that is mounted.
LEMMA ClusterOf ==
    ASSUME IInv, fs_type # "none", NEW f, f = RootCluster(card[pdrv], vol.volbase)
    PROVE  LET Valid1(c) == IF c \in 2..vol.n_fatent - 1 THEN c ELSE 0 IN
           /\ f[0] = Valid1(vol.dirbase)
           /\ \A n \in Nat : f[n + 1] = Valid1(LinkAt(card[pdrv], vol.volbase, f[n]))
<1> DEFINE k == card[pdrv]
           s == vol.volbase
           v == Layout(BootAt(k, s), s)
<1>1. vol = v /\ k \in Cards
  BY VolumeFacts DEF Boot
<1>2. v.n_fatent \in Nat
  <2>1. vol.n_fatent \in Nat
    BY VolumeInside
  <2> HIDE DEF v
  <2> QED BY <1>1, <2>1
<1> HIDE DEF k, s
<1>3. LET Valid1(c) == IF c \in 2..v.n_fatent - 1 THEN c ELSE 0
      IN /\ f[0] = Valid1(v.dirbase)
         /\ \A n \in Nat : f[n + 1] = Valid1(LinkAt(k, s, f[n])) /\ f[n] \in Nat
  BY <1>1, <1>2, RootClusters DEF k, s
<1> HIDE DEF v
<1> QED BY <1>1, <1>3 DEF k, s

\* None of them is the boot sector of the card.
LEMMA SectorNotZero ==
    ASSUME IInv, fs_type # "none"
    PROVE  /\ vol.type # "fat32" => vol.dirbase \in Nat \ {0}
           /\ \A c \in 2..vol.n_fatent - 1 : clst2sect(vol, c) \in Nat \ {0}
<1> DEFINE s == vol.volbase
           b == Boot(s)
           fats == FatSize(b) * b.nfats
<1>1. /\ s \in Nat /\ b \in BootSectors /\ Accepts(b) /\ OnCard(b, s)
      /\ vol = Layout(b, s)
  BY VolumeFacts
<1> HIDE DEF s, b
<1>2. /\ RootArea(b) \in Nat /\ b.rsvd \in Nat /\ fats \in Nat /\ b.rsvd > 0
      /\ System(b) = b.rsvd + fats + RootArea(b)
  BY <1>1, Numbers, Analysis
<1>3. Layout(b, s).type # "fat32" => Layout(b, s).dirbase = s + b.rsvd + fats
  BY <1>1, AreaStarts
<1> HIDE DEF fats
<1>4. vol.type # "fat32" => vol.dirbase \in Nat \ {0}
  <2> DEFINE v == Layout(b, s)
  <2>1. v.type # "fat32" => v.dirbase \in Nat \ {0}
    <3> HIDE DEF v
    <3>1. s + b.rsvd + fats \in Nat \ {0}
      BY <1>1, <1>2
    <3> QED BY <1>3, <3>1 DEF v
  <2> HIDE DEF v
  <2> QED BY <1>1, <2>1 DEF v
<1>5. ASSUME NEW c \in 2..vol.n_fatent - 1 PROVE clst2sect(vol, c) \in Nat \ {0}
  <2> DEFINE before == b.spc * (c - 2)
  <2>1. clst2sect(Layout(b, s), c) = s + System(b) + before /\ before \in Nat
    BY <1>1, <1>5, ClusterAt
  <2> HIDE DEF before
  <2>2. s + System(b) + before \in Nat \ {0}
    BY <1>1, <1>2, <2>1
  <2> QED BY <1>1, <2>1, <2>2, Zenon
<1> QED BY <1>4, <1>5

\* The entry the search is at is the one of its place.
LEMMA HereIs ==
    ASSUME RInv, pc \in {"look", "link"}
    PROVE  /\ Here \in Nat /\ dj.sect = PlaceSector(card[pdrv], vol.volbase, Here)
           /\ Index = PlaceIndex(Here) /\ dj.sect # 0
           /\ \E q, e \in Nat : EntryAt(q, e) /\ Here = PerSector * q + e
<1>1. fs_type # "none" /\ IInv
  BY DEF RInv, WInv, VInv, OneDrive
<1>2. PICK q, e \in 0..dj.dptr : EntryAt(q, e)
  BY DEF RInv, WInv, AtEntry
<1>3. q \in Nat /\ e \in Nat /\ e < PerSector /\ dj.dptr = SS * q + SZDIRE * e
  BY <1>2 DEF EntryAt
<1>4. /\ dj.dptr \div SS = q /\ (dj.dptr % SS) \div SZDIRE = e
      /\ dj.dptr \div SZDIRE = PerSector * q + e
  BY <1>3, EntryIs
<1>5. /\ PerSector * q + e \in Nat
      /\ PlaceSector(card[pdrv], vol.volbase, PerSector * q + e) = RootSectorAt(card[pdrv], vol.volbase, q)
      /\ PlaceIndex(PerSector * q + e) = e + 1
  BY <1>3, PlaceIs
<1>6. dj.sect = RootSectorAt(card[pdrv], vol.volbase, q) /\ dj.sect # 0
  <2> DEFINE c == RootCluster(card[pdrv], vol.volbase)[q \div vol.csize]
  <2>1. RootSectorAt(card[pdrv], vol.volbase, q) =
          IF vol.type # "fat32"
            THEN IF q < vol.n_rootdir \div PerSector THEN vol.dirbase + q ELSE 0
            ELSE IF c = 0 THEN 0 ELSE clst2sect(vol, c) + (q % vol.csize)
    BY <1>1, <1>3, SectorAt
  <2>2. vol.type = "fat32" => dj.clust = c
    BY <1>4 DEF RInv, Right, Sought
  <2> HIDE DEF c
  <2>3. CASE vol.type # "fat32"
    <3>1. dj.sect = vol.dirbase + q /\ q < vol.n_rootdir \div PerSector
      BY <1>2, <2>3 DEF EntryAt
    <3>2. vol.dirbase \in Nat \ {0}
      BY <1>1, <2>3, SectorNotZero
    <3>3. vol.dirbase + q # 0
      BY <1>3, <3>2
    <3> QED BY <2>1, <2>3, <3>1, <3>3
  <2>4. CASE vol.type = "fat32"
    <3>1. c \in 2..vol.n_fatent - 1 /\ dj.sect = clst2sect(vol, c) + (q % vol.csize)
      BY <1>2, <2>2, <2>4 DEF EntryAt
    <3>2. clst2sect(vol, c) \in Nat \ {0} /\ vol.csize \in Nat \ {0} /\ vol.n_fatent \in Nat
      BY <1>1, <3>1, SectorNotZero, VolumeInside
    <3>3. q % vol.csize \in Nat
      <4>1. q % vol.csize \in 0..vol.csize - 1
        BY <1>3, <3>2, NextRemainder
      <4> QED BY <3>2, <4>1
    <3>4. c # 0
      BY <3>1, <3>2
    <3> DEFINE x == clst2sect(vol, c)
               y == q % vol.csize
    <3>5. x \in Nat \ {0} /\ y \in Nat
      BY <3>2, <3>3
    <3> HIDE DEF x, y
    <3>6. x + y # 0
      BY <3>5
    <3> QED BY <2>1, <2>4, <3>1, <3>4, <3>6 DEF x, y
  <2> QED BY <2>3, <2>4
<1> QED BY <1>2, <1>3, <1>4, <1>5, <1>6 DEF Here, Index

\* Of the entry read: there is one where its place is used, and it may be the image's.
LEMMA EntryRead ==
    ASSUME RInv, pc = "look", Loaded(win, dj.sect)
    PROVE  /\ win'.card = card[pdrv] /\ win'.sect = dj.sect
           /\ AtEnd <=> ~Used(card[pdrv], vol.volbase, Here)
           /\ IsFile <=> Named(card[pdrv], vol.volbase, name[drive], Here)
           /\ Entry = DirAt(card[pdrv], PlaceSector(card[pdrv], vol.volbase, Here))[PlaceIndex(Here)]
<1>1. /\ dj.sect = PlaceSector(card[pdrv], vol.volbase, Here) /\ Index = PlaceIndex(Here)
      /\ dj.sect # 0 /\ Here \in Nat
  BY HereIs
<1>2. win'.card = card[pdrv] /\ win'.sect = dj.sect
  <2>1. Inside(dj.sect) /\ dj.sect # NoSector
    BY EntryInside DEF RInv
  <2>2. fs_type # "none" /\ Window
    BY DEF RInv, WInv, VInv, OneDrive
  <2> QED BY <2>1, <2>2, LoadedInside
<1>3. Lookup.fn = ImageName(name[drive])
  BY LookupIs DEF RInv, WInv, VInv, IInv, Bound
<1>4. PlaceIndex(Here) \in Int /\ Len(DirAt(card[pdrv], dj.sect)) \in Int
  <2>1. PlaceIndex(Here) \in Int
    BY <1>1, SizeAssumption DEF PlaceIndex, PerSector
  <2>2. DirAt(card[pdrv], dj.sect) \in Seq(Entries)
    <3>1. card[pdrv] \in Cards
      BY DEF RInv, WInv, VInv, IInv, Bound
    <3>2. <<>> \in Seq(Entries)
      OBVIOUS
    <3> QED BY <3>1, <3>2, CardAssumption DEF DirAt
  <2>3. Len(DirAt(card[pdrv], dj.sect)) \in Nat
    BY <2>2, LenProperties
  <2> QED BY <2>1, <2>3
<1>5. AtEnd <=> ~Used(card[pdrv], vol.volbase, Here)
  BY <1>1, <1>2, <1>4 DEF AtEnd, Used
<1>6. Entry = DirAt(card[pdrv], PlaceSector(card[pdrv], vol.volbase, Here))[PlaceIndex(Here)]
  BY <1>1, <1>2 DEF Entry
<1>7. IsFile <=> Named(card[pdrv], vol.volbase, name[drive], Here)
  BY <1>3, <1>6 DEF IsFile, Named
<1> QED BY <1>2, <1>5, <1>6, <1>7

-----------------------------------------------------------------------------
(* Each step keeps what is known of the volume and of the entries passed. *)

\* The types of what a step has of the disk.
DiskTypes ==
    /\ pdrv \in Drives \cup {0} /\ noinit \subseteq Drives /\ Fsid \in 0..Mounts - 1
    /\ win.card \in Cards \cup {NoCard} /\ win.sect \in Nat

\* A call may fail where it cannot succeed.
LEMMA RightRefused ==
    ASSUME RInv, pc # "idle", NEW f \in BOOLEAN, Refused(f), DiskTypes',
           f \/ failed \/ Unusable(card[drive], name[drive])
    PROVE  Right'
<1>1. last_drive = None /\ None \notin Drives /\ drive \in Drives
  BY NoDrive DEF RInv, WInv, VInv, OneDrive, IInv, Bound
<1>2. /\ pc' = "idle" /\ last_drive' = None /\ result' = "error" /\ asked' = drive
      /\ failed' = (failed \/ f) /\ card' = card /\ name' = name /\ fs_type' = "none"
      /\ fil' = NoFile /\ drive' = None /\ part' = 0 /\ mbr' = NoTable /\ dj' = NoDir
      /\ id' = 0 /\ fsi' = FALSE /\ FatFs' \subseteq Drives
  BY <1>1 DEF Refused, f_mount, RInv, Right, Kept, TypeOK
<1>3. TypeOK
  BY DEF RInv, Right, Kept
<1>4. TypeOK'
  <2>1. 0 \in 0..Mounts - 1 /\ 0 < MAX_DIR /\ failed' \in BOOLEAN
    BY <1>2, <1>3, BoundAssumption DEF TypeOK
  <2>2. fil'.fs = FALSE /\ fil'.id = 0 /\ dj'.sect = 0 /\ dj'.dptr = 0
    BY <1>2 DEF NoFile, NoDir
  <2>3. /\ card' \in [Drives -> Cards] /\ name' \in [Drives -> Images \cup {None}]
        /\ FatFs' \subseteq Drives /\ last_drive' \in Drives \cup {None}
    BY <1>2, <1>3 DEF TypeOK
  <2>4. /\ pdrv' \in Drives \cup {0} /\ noinit' \subseteq Drives /\ Fsid' \in 0..Mounts - 1
        /\ win'.card \in Cards \cup {NoCard} /\ win'.sect \in Nat
    BY DEF DiskTypes
  <2>5. fs_type' = "none" /\ fsi' \in BOOLEAN /\ id' = 0 /\ part' = 0
    BY <1>2
  <2>6. dj'.sect = 0 /\ dj'.dptr = 0 /\ fil'.fs \in BOOLEAN /\ fil'.id = 0
    BY <2>2
  <2>7. /\ pc' = "idle" /\ drive' = None /\ asked' \in Drives \cup {None} /\ failed' \in BOOLEAN
        /\ result' = "error"
    BY <1>1, <1>2, <2>1
  <2> QED BY <1>1, <2>1, <2>3, <2>4, <2>5, <2>6, <2>7 DEF TypeOK
<1>5. Kept'
  <2>1. NoTable \in [1..4 -> Nat]
    BY DEF NoTable
  <2> QED BY <1>1, <1>2, <1>4, <2>1 DEF Kept
<1>6. Found' /\ Sought' /\ OpenedIsRight'
  BY <1>1, <1>2 DEF Found, Sought, OpenedIsRight
<1>7. ErrorIsRight'
  <2>1. ~failed' => Unusable(card[drive], name[drive])
    BY <1>2
  <2> QED BY <1>2, <2>1 DEF ErrorIsRight, Unusable
<1> QED BY <1>5, <1>6, <1>7 DEF Right

\* What a call leaves alone while it goes on.
LEMMA GoesOn ==
    ASSUME RInv, pc # "idle", NEW p, Goto(p), p \notin {"idle", "mount"}, DiskTypes', Found', Sought',
           mbr' \in [1..4 -> Nat], fs_type' # "none" => fs_type' = vol'.type,
           pdrv' \notin noinit', part' \in 0..4, dj'.sect \in Nat, dj'.dptr < MAX_DIR,
           fs_type' \in {"none", "fat12", "fat16", "fat32"}, fsi' \in BOOLEAN,
           id' \in 0..Mounts - 1, failed' \in BOOLEAN,
           p \in {"check", "analyse", "info", "rewind", "look", "link"}
    PROVE  Right'
<1>1. last_drive = None /\ None \notin Drives /\ drive \in Drives
  BY NoDrive DEF RInv, WInv, VInv, OneDrive, IInv, Bound
<1>2. /\ pc' = p /\ UNCHANGED <<card, last_drive, name, fil, asked, FatFs, drive, result>>
  BY DEF Goto, sketch
<1>3. TypeOK /\ result = "none"
  BY DEF RInv, Right, Kept
<1>4. TypeOK'
  BY <1>1, <1>2, <1>3 DEF TypeOK, DiskTypes
<1>5. Kept'
  BY <1>1, <1>2, <1>3, <1>4 DEF Kept
<1>6. OpenedIsRight' /\ ErrorIsRight'
  BY <1>1, <1>2, <1>3 DEF OpenedIsRight, ErrorIsRight
<1> QED BY <1>5, <1>6 DEF Right

\* The other card is exchanged.
LEMMA RightSwap == ASSUME RInv, NEW d \in Drives, Swap(d) PROVE Right'
<1>1. /\ pc = "idle" /\ last_drive # d /\ result' = "none" /\ asked' = None
      /\ UNCHANGED <<last_drive, name, fil, FatFs, fs_type, id, vol, fsi, pdrv, Fsid, noinit,
                     win, pc, drive, part, mbr, dj, failed>>
  BY DEF Swap, volume, disk, call
<1>2. card' \in [Drives -> Cards] /\ \A c \in Drives \ {d} : card'[c] = card[c]
  <2>1. Given[d] \subseteq Cards
    BY BoundAssumption
  <2>2. PICK k \in Given[d] \ {card[d]} : card' = [card EXCEPT ![d] = k]
    BY DEF Swap
  <2>3. k \in Cards /\ card \in [Drives -> Cards]
    BY <2>1, <2>2 DEF RInv, WInv, VInv, IInv, Bound
  <2> QED BY <2>2, <2>3
<1>3. TypeOK
  BY DEF RInv, Right, Kept
<1>4. TypeOK'
  BY <1>1, <1>2, <1>3 DEF TypeOK
<1>5. Kept'
  BY <1>1, <1>4 DEF RInv, Right, Kept
<1>6. last_drive \in Drives => /\ pdrv = last_drive /\ card'[last_drive] = card[last_drive]
  <2>1. last_drive \in Drives => fs_type # "none"
    BY <1>1 DEF RInv, WInv, VInv, OneDrive
  <2> QED BY <1>1, <1>2, <2>1 DEF RInv, WInv, VInv, IInv, Bound
<1>7. Found'
  BY <1>1, <1>6 DEF RInv, Right, Found
<1>8. Sought'
  BY <1>1 DEF Sought
<1>9. OpenedIsRight'
  BY <1>1, <1>6 DEF RInv, Right, OpenedIsRight
<1>10. ErrorIsRight'
  BY <1>1 DEF ErrorIsRight
<1> QED BY <1>5, <1>7, <1>8, <1>9, <1>10 DEF Right

\* A call begins: nothing is open, nothing found and nothing wrong yet.
LEMMA RightMountLater ==
    ASSUME RInv, pc = "idle", NEW d \in Drives, MountLater(d),
           name' \in [Drives -> Images \cup {None}]
    PROVE  Right'
<1>1. /\ pc' = "mount" /\ last_drive' = None /\ drive' = d /\ fs_type' = "none"
      /\ id' = 0 /\ fsi' = FALSE /\ FatFs' \subseteq Drives /\ fil' \in {NoFile, fil}
      /\ result' = "none" /\ asked' = None /\ failed' = FALSE
      /\ UNCHANGED <<card, pdrv, Fsid, noinit, win, part, mbr, dj>>
  BY DEF MountLater, Closed, f_mount, disk, RInv, Right, Kept, TypeOK
<1>2. None \notin Drives
  BY NoDrive
<1>3. TypeOK /\ mbr \in [1..4 -> Nat]
  BY DEF RInv, Right, Kept
<1>4. TypeOK'
  <2>1. 0 \in 0..Mounts - 1
    BY BoundAssumption
  <2>2. fil'.fs \in BOOLEAN /\ fil'.id \in 0..Mounts - 1
    <3>1. NoFile.fs = FALSE /\ NoFile.id = 0
      BY DEF NoFile
    <3>2. fil' = NoFile \/ fil' = fil
      BY <1>1
    <3> QED BY <1>3, <2>1, <3>1, <3>2 DEF TypeOK
  <2> QED BY <1>1, <1>2, <1>3, <2>1, <2>2 DEF TypeOK
<1>5. Kept'
  BY <1>1, <1>2, <1>3, <1>4 DEF Kept
<1>6. Found'
  <2>1. pc' = "mount" /\ last_drive' \notin Drives
    BY <1>1, <1>2
  <2> QED BY <2>1 DEF Found
<1>7. Sought' /\ OpenedIsRight' /\ ErrorIsRight'
  BY <1>1, <1>2 DEF Sought, OpenedIsRight, ErrorIsRight
<1> QED BY <1>5, <1>6, <1>7 DEF Right

\* An image is named and is to be opened.
LEMMA RightInitialize == ASSUME RInv, NEW d \in Drives, NEW n \in Images, Initialize(d, n) PROVE Right'
<1>1. name' \in [Drives -> Images \cup {None}]
  BY DEF Initialize, RInv, WInv, VInv, IInv, Bound
<1> QED BY <1>1, RightMountLater DEF Initialize

\* The image of the drive is open still, or is to be opened.
LEMMA RightAccess == ASSUME RInv, NEW d \in Drives, Access(d) PROVE Right'
<1>1. CASE last_drive = d
  <2>1. Valid
    <3>1. fil.fs /\ fil.id = id /\ pdrv \notin noinit
      BY <1>1 DEF RInv, Right, OpenedIsRight
    <3>2. fs_type # "none"
      BY <1>1 DEF RInv, WInv, VInv, OneDrive, Access
    <3> QED BY <3>1, <3>2 DEF Valid
  <2>2. /\ pc = "idle" /\ result' = "ok"
        /\ UNCHANGED <<card, last_drive, name, fil, FatFs, fs_type, id, vol, fsi, pdrv, Fsid, noinit,
                       win, pc, drive, part, mbr, dj, failed, asked>>
    BY <1>1, <2>1 DEF Access, volume, disk, call
  <2>3. TypeOK'
    BY <2>2 DEF RInv, Right, Kept, TypeOK
  <2>4. Kept'
    BY <2>2, <2>3 DEF RInv, Right, Kept
  <2>5. Found' /\ Sought' /\ OpenedIsRight'
    BY <2>2 DEF RInv, Right, Found, Sought, OpenedIsRight
  <2>6. ErrorIsRight'
    BY <2>2 DEF ErrorIsRight
  <2> QED BY <2>4, <2>5, <2>6 DEF Right
<1>2. CASE last_drive # d
  <2>1. name' \in [Drives -> Images \cup {None}]
    BY <1>2 DEF Access, RInv, WInv, VInv, IInv, Bound
  <2> QED BY <1>2, <2>1, RightMountLater DEF Access
<1> QED BY <1>1, <1>2

\* Nothing is open, and nothing is asked for.
LEMMA RightUnmount == ASSUME RInv, Unmount PROVE Right'
<1>1. /\ pc = "idle" /\ last_drive' = None /\ fs_type' = "none"
      /\ id' = 0 /\ fsi' = FALSE /\ FatFs' \subseteq Drives /\ fil' \in {NoFile, fil}
      /\ result' = "none" /\ asked' = None /\ failed' = FALSE
      /\ UNCHANGED <<card, name, pc, pdrv, Fsid, noinit, win, drive, part, mbr, dj>>
  BY DEF Unmount, Closed, f_mount, disk, call, RInv, Right, Kept, TypeOK
<1>2. None \notin Drives
  BY NoDrive
<1>3. TypeOK /\ mbr \in [1..4 -> Nat]
  BY DEF RInv, Right, Kept
<1>4. TypeOK'
  <2>1. 0 \in 0..Mounts - 1
    BY BoundAssumption
  <2>2. fil'.fs \in BOOLEAN /\ fil'.id \in 0..Mounts - 1
    <3>1. NoFile.fs = FALSE /\ NoFile.id = 0
      BY DEF NoFile
    <3>2. fil' = NoFile \/ fil' = fil
      BY <1>1
    <3> QED BY <1>3, <2>1, <3>1, <3>2 DEF TypeOK
  <2> QED BY <1>1, <1>2, <1>3, <2>1, <2>2 DEF TypeOK
<1>5. Kept'
  BY <1>1, <1>2, <1>3, <1>4 DEF Kept
<1>6. Found'
  <2>1. pc' = "idle" /\ last_drive' \notin Drives
    BY <1>1, <1>2
  <2> QED BY <2>1 DEF Found
<1>7. Sought' /\ OpenedIsRight' /\ ErrorIsRight'
  BY <1>1, <1>2 DEF Sought, OpenedIsRight, ErrorIsRight
<1> QED BY <1>5, <1>6, <1>7 DEF Right

\* The call that goes on is that of a drive, on the card in it.
LEMMA CallIs ==
    ASSUME RInv, pc # "idle"
    PROVE  /\ drive \in Drives /\ name[drive] \in Images /\ last_drive = None /\ None \notin Drives
           /\ pc # "mount" => pdrv = drive
           /\ pc # "mount" => card[pdrv] \in Cards /\ pdrv \notin noinit
           /\ pc \in {"mount", "check", "analyse", "info"} => fs_type = "none"
           /\ TypeOK /\ 0 \in 0..Mounts - 1
<1>1. 0 \in 0..Mounts - 1
  BY BoundAssumption
<1> QED BY <1>1, NoDrive DEF RInv, WInv, VInv, OneDrive, IInv, Bound, Right, Kept

\* The card that is initialised is the one in the drive of the call.
LEMMA RightMountVolume == ASSUME RInv, MountVolume PROVE Right'
<1>1. /\ pc = "mount" /\ fs_type = "none" /\ drive \in Drives /\ last_drive = None
      /\ None \notin Drives /\ TypeOK /\ name[drive] \in Images
  BY CallIs DEF MountVolume
<1>2. /\ Goto("check") /\ fs_type' = "none" /\ pdrv' = drive /\ noinit' = noinit \ {drive}
      /\ UNCHANGED <<id, vol, fsi, Fsid, win, part, mbr, dj, failed>>
  BY <1>1, LookupDrive DEF MountVolume, volume
<1>3. part = 0
  BY <1>1 DEF RInv, WInv, VInv, IInv, Searched
<1>4. Found' /\ Sought'
  BY <1>1, <1>2, <1>3 DEF Found, Sought, Goto, sketch
<1>5. DiskTypes'
  BY <1>1, <1>2 DEF DiskTypes, TypeOK
<1>6. mbr \in [1..4 -> Nat]
  BY DEF RInv, Right, Kept
<1> QED BY <1>1, <1>2, <1>3, <1>4, <1>5, <1>6, GoesOn DEF TypeOK

\* A card that does not answer is a failing access.
LEMMA RightNotReady == ASSUME RInv, NotReady PROVE Right'
<1>1. pc = "mount" /\ drive \in Drives /\ TypeOK /\ name[drive] \in Images
  BY CallIs DEF NotReady
<1>2. pdrv' = drive /\ noinit' = noinit \cup {drive} /\ Refused(TRUE) /\ UNCHANGED <<Fsid, win>>
  BY <1>1, LookupDrive DEF NotReady
<1>3. DiskTypes'
  BY <1>1, <1>2 DEF DiskTypes, TypeOK
<1> QED BY <1>1, <1>2, <1>3, RightRefused

\* What is not read as a boot sector has a partition table of zeroes.
LEMMA TableIs ==
    ASSUME NEW k \in Cards \cup {NoCard}, NEW s PROVE BootAt(k, s).part \in [1..4 -> Nat]
<1>1. Blank.part \in [1..4 -> Nat]
  BY DEF Blank, NoTable
<1>2. ASSUME NEW b \in BootSectors PROVE b.part \in [1..4 -> Nat]
  BY <1>2 DEF BootSectors
<1>3. BootAt(k, s) = Blank \/ BootAt(k, s) \in BootSectors
  BY CardAssumption DEF BootAt
<1> QED BY <1>1, <1>2, <1>3

\* The sector that is checked is the candidate of the card in the drive, and one that is
\* taken for the window's no sector holds nothing.
LEMMA CandidateRead ==
    ASSUME RInv, pc = "check", Loaded(Invalidated, Candidate)
    PROVE  /\ win'.card \in Cards \cup {NoCard} /\ win'.sect = Candidate /\ Candidate \in Nat
           /\ BootAt(win'.card, win'.sect) = BootAt(card[pdrv], Candidate)
           /\ Status(BootAt(card[pdrv], Candidate)) = "fat" => win'.card = card[pdrv]
<1>1. card[pdrv] \in Cards /\ TypeOK /\ mbr \in [1..4 -> Nat]
  BY CallIs DEF RInv, Right, Kept
<1>2. Candidate \in Nat
  <2>1. part \in 0..4
    BY <1>1 DEF TypeOK
  <2> QED BY <1>1, <2>1 DEF Candidate
<1>3. CASE Candidate = NoSector
  <2>1. win'.card = win.card /\ win'.sect = Candidate /\ win.card \in Cards \cup {NoCard}
    BY <1>1, <1>3 DEF Loaded, Invalidated, TypeOK
  <2>2. ASSUME NEW k \in Cards \cup {NoCard} PROVE BootAt(k, NoSector) = Blank
    <3>1. NoSector \in Int
      BY SizeAssumption DEF NoSector
    <3>2. k # NoCard => NoSector \notin DOMAIN Content[k].boot
      BY <3>1, <2>2, CardAssumption
    <3> QED BY <3>2 DEF BootAt
  <2>3. Status(Blank) # "fat"
    BY DEF Status, Blank
  <2> QED BY <1>1, <1>2, <1>3, <2>1, <2>2, <2>3
<1>4. CASE Candidate # NoSector
  <2>1. win'.card = card[pdrv] /\ win'.sect = Candidate
    BY <1>4 DEF Loaded, Invalidated
  <2> QED BY <1>1, <1>2, <2>1
<1> QED BY <1>3, <1>4

\* find_volume(): what is not a volume is passed by, and after the last there is none.
LEMMA RightPassedBy ==
    ASSUME RInv, pc = "check", NEW st, NEW table \in [1..4 -> Nat], NEW f \in BOOLEAN,
           st # "fat", Tried(st, table, f),
           win'.card \in Cards \cup {NoCard}, win'.sect \in Nat,
           ~f /\ ~failed =>
                 /\ part = 0 => /\ st = Status(BootAt(card[pdrv], 0))
                                /\ table = BootAt(card[pdrv], 0).part
                 /\ part # 0 => table = mbr /\ part \notin Volumes(card[pdrv])
    PROVE  Right'
<1> DEFINE k == card[pdrv]
<1>1. /\ drive \in Drives /\ name[drive] \in Images /\ last_drive = None /\ None \notin Drives
      /\ pdrv = drive /\ k \in Cards /\ pdrv \notin noinit /\ fs_type = "none" /\ TypeOK
  BY CallIs
<1>2. DiskTypes'
  BY <1>1 DEF DiskTypes, TypeOK, Tried, disk
<1>3. part \in 0..4 /\ failed \in BOOLEAN
  BY <1>1 DEF TypeOK
<1>4. Volumes(k) \subseteq 1..4
  BY DEF Volumes
<1>5. ~failed /\ part # 0 =>
         /\ Status(BootAt(k, 0)) = "table" /\ mbr = BootAt(k, 0).part
         /\ \A i \in Volumes(k) : i >= part
  BY DEF RInv, Right, Found
<1>6. CASE Refused(f)
  <2>1. ~f /\ ~failed => FirstVolume(k) = NoSector
    <3>1. SUFFICES ASSUME ~f, ~failed PROVE FirstVolume(k) = NoSector
      OBVIOUS
    <3>2. CASE part = 0 /\ st # "table"
      BY <3>1, <3>2, FirstVolumeIs
    <3>3. CASE part = 4
      <4>1. Volumes(k) = {}
        BY <1>4, <1>5, <3>1, <3>3
      <4> QED BY <1>5, <3>1, <3>3, <4>1, FirstVolumeIs
    <3>4. CASE ~(part = 4 \/ (part = 0 /\ st # "table"))
      <4>1. pc' = "check" /\ pc' = "idle"
        BY <1>6, <3>4 DEF Tried, Goto, Refused
      <4> QED BY <4>1
    <3> QED BY <3>2, <3>3, <3>4
  <2>2. f \/ failed \/ Unusable(card[drive], name[drive])
    BY <1>1, <2>1 DEF Unusable
  <2> QED BY <1>2, <1>6, <2>2, RightRefused
<1>7. CASE ~Refused(f)
  <2>1. /\ ~(part = 4 \/ (part = 0 /\ st # "table"))
        /\ Goto("check") /\ part' = part + 1 /\ mbr' = table
        /\ failed' = (failed \/ f) /\ UNCHANGED <<fs_type, id, vol, fsi, dj, pdrv, Fsid, noinit>>
    BY <1>7 DEF Tried, volume, disk
  <2>2. card' = card /\ last_drive' = None /\ pc' = "check"
    BY <1>1, <2>1 DEF Goto, sketch
  <2>3. ~failed' => /\ Status(BootAt(k, 0)) = "table" /\ mbr' = BootAt(k, 0).part
                    /\ \A i \in Volumes(k) : i >= part'
    <3>1. SUFFICES ASSUME ~f, ~failed
                   PROVE  /\ Status(BootAt(k, 0)) = "table" /\ mbr' = BootAt(k, 0).part
                          /\ \A i \in Volumes(k) : i >= part'
      BY <2>1
    <3>2. CASE part = 0
      BY <1>4, <2>1, <3>1, <3>2
    <3>3. CASE part # 0
      <4>1. ASSUME NEW i \in Volumes(k) PROVE i >= part'
        BY <1>3, <1>4, <1>5, <2>1, <3>1, <3>3
      <4> QED BY <1>5, <2>1, <3>1, <3>3, <4>1
    <3> QED BY <3>2, <3>3
  <2>4. Found' /\ Sought'
    <3>1. card'[pdrv'] = k
      BY <2>1, <2>2
    <3> HIDE DEF k
    <3> QED BY <1>1, <2>2, <2>3, <3>1 DEF Found, Sought
  <2>5. part' \in 0..4
    BY <1>3, <2>1
  <2> QED BY <1>1, <1>2, <1>3, <2>1, <2>4, <2>5, GoesOn DEF TypeOK
<1> QED BY <1>6, <1>7

\* The sector that is taken for a boot sector is that of the first volume.
LEMMA RightCheckSector == ASSUME RInv, CheckSector PROVE Right'
<1> DEFINE k == card[pdrv]
           b == BootAt(k, Candidate)
<1>1. pc = "check" /\ (part = 0 \/ Candidate # 0) /\ Loaded(Invalidated, Candidate)
  BY DEF CheckSector
<1>2. /\ win'.card \in Cards \cup {NoCard} /\ win'.sect = Candidate /\ Candidate \in Nat
      /\ BootAt(win'.card, win'.sect) = b
      /\ Status(b) = "fat" => win'.card = k
  BY <1>1, CandidateRead
<1>3. Tried(Status(b), IF part = 0 THEN b.part ELSE mbr, FALSE)
  BY <1>2 DEF CheckSector
<1>4. /\ drive \in Drives /\ name[drive] \in Images /\ last_drive = None /\ None \notin Drives
      /\ pdrv = drive /\ k \in Cards /\ pdrv \notin noinit /\ fs_type = "none" /\ TypeOK
      /\ mbr \in [1..4 -> Nat] /\ part \in 0..4
  BY <1>1, CallIs DEF TypeOK, RInv, Right, Kept
<1>5. part # 0 => Candidate = mbr[part]
  BY DEF Candidate
<1>6. part = 0 => Candidate = 0
  BY DEF Candidate
<1>7. ~failed /\ part # 0 =>
         /\ Status(BootAt(k, 0)) = "table" /\ mbr = BootAt(k, 0).part
         /\ \A i \in Volumes(k) : i >= part
  BY <1>1 DEF RInv, Right, Found
<1>8. CASE Status(b) = "fat"
  <2>1. /\ Goto("analyse")
        /\ UNCHANGED <<pdrv, Fsid, noinit, fs_type, id, vol, fsi, part, mbr, dj, failed>>
    BY <1>3, <1>8 DEF Tried, disk, volume
  <2>2. ~failed => Candidate = FirstVolume(k)
    <3>1. CASE part = 0
      BY <1>6, <1>8, <3>1, FirstVolumeIs
    <3>2. CASE part # 0 /\ ~failed
      <4>1. part \in Volumes(k)
        BY <1>1, <1>4, <1>5, <1>7, <1>8, <3>2 DEF Volumes
      <4> HIDE DEF k
      <4> QED BY <1>5, <1>7, <3>2, <4>1, FirstVolumeIs
    <3> QED BY <3>1, <3>2
  <2>3. card' = card /\ last_drive' = None /\ pc' = "analyse"
    BY <1>4, <2>1 DEF Goto, sketch
  <2>4. Found' /\ Sought'
    <3>1. card'[pdrv'] = k /\ win'.card = k /\ win'.sect = Candidate /\ failed' = failed
      BY <1>2, <1>8, <2>1, <2>3
    <3> HIDE DEF k
    <3> QED BY <1>4, <2>2, <2>3, <3>1 DEF Found, Sought
  <2>5. DiskTypes'
    BY <1>2, <1>4, <2>1 DEF DiskTypes, TypeOK
  <2> HIDE DEF k, b
  <2> QED BY <1>1, <1>4, <2>1, <2>4, <2>5, GoesOn DEF TypeOK
<1>9. CASE Status(b) # "fat"
  <2> DEFINE table == IF part = 0 THEN b.part ELSE mbr
  <2>1. table \in [1..4 -> Nat]
    BY <1>4, TableIs
  <2>2. part = 0 => b = BootAt(k, 0)
    BY <1>6
  <2>3. part # 0 => part \notin Volumes(k) \/ failed
    BY <1>5, <1>7, <1>9 DEF Volumes
  <2>4. win'.card \in Cards \cup {NoCard} /\ win'.sect \in Nat
    BY <1>2
  <2>5. Tried(Status(b), table, FALSE)
    BY <1>3
  <2>6. ~FALSE /\ ~failed =>
           /\ part = 0 => Status(b) = Status(BootAt(card[pdrv], 0)) /\ table = BootAt(card[pdrv], 0).part
           /\ part # 0 => table = mbr /\ part \notin Volumes(card[pdrv])
    BY <2>2, <2>3
  <2> HIDE DEF table, b, k
  <2> QED BY <1>1, <1>9, <2>1, <2>4, <2>5, <2>6, RightPassedBy
<1> QED BY <1>8, <1>9

\* A sector that cannot be read is passed by, and remembered as a failing access.
LEMMA RightCheckFails == ASSUME RInv, CheckFails PROVE Right'
<1>1. pc = "check" /\ Tried("error", mbr, TRUE) /\ win' = NoWindow
  BY DEF CheckFails, NotLoaded
<1>2. mbr \in [1..4 -> Nat]
  BY DEF RInv, Right, Kept
<1>3. win'.card \in Cards \cup {NoCard} /\ win'.sect \in Nat
  BY <1>1, SizeAssumption, TypeAssumption DEF NoWindow, NoSector
<1> QED BY <1>1, <1>2, <1>3, RightPassedBy

\* An entry of the table that is empty is no volume.
LEMMA RightNoPartition == ASSUME RInv, NoPartition PROVE Right'
<1>1. pc = "check" /\ part # 0 /\ mbr[part] = 0 /\ Tried("nothing", mbr, FALSE) /\ win' = win
  BY DEF NoPartition, Candidate
<1>2. mbr \in [1..4 -> Nat] /\ win'.card \in Cards \cup {NoCard} /\ win'.sect \in Nat
  BY <1>1 DEF RInv, Right, Kept, TypeOK
<1>3. ~failed => part \notin Volumes(card[pdrv])
  BY <1>1 DEF RInv, Right, Found, Volumes
<1> QED BY <1>1, <1>2, <1>3, RightPassedBy

\* A volume is mounted with a type and a mount ID.
LEMMA MountedIs ==
    ASSUME TypeOK, NEW b, NEW s, Accepts(b), NEW v, v = Layout(b, s), Mounted(v)
    PROVE  /\ Goto("rewind") /\ part' = 0 /\ mbr' \in [1..4 -> Nat] /\ fs_type' = v.type
           /\ v.type \in {"fat12", "fat16", "fat32"}
           /\ id' \in 0..Mounts - 1 /\ Fsid' \in 0..Mounts - 1
           /\ UNCHANGED <<pdrv, noinit, dj, failed>>
<1>1. v.type = SubType(NClst(b)) /\ v.type # "none"
  <2>1. Layout(b, s).type = SubType(NClst(b))
    BY DEF Layout
  <2>2. Layout(b, s).type # "none"
    BY AcceptedType
  <2> QED BY <2>1, <2>2
<1>2. v.type \in {"fat12", "fat16", "fat32"}
  BY <1>1 DEF SubType
<1>3. (Fsid + 1) % Mounts \in 0..Mounts - 1
  BY BoundAssumption DEF TypeOK
<1>4. NoTable \in [1..4 -> Nat]
  BY DEF NoTable
<1> QED BY <1>2, <1>3, <1>4 DEF Mounted

\* The volume found is mounted, or it is not acceptable.
LEMMA RightAnalyse == ASSUME RInv, Analyse PROVE Right'
<1> DEFINE k == card[pdrv]
           b == BootAt(win.card, win.sect)
           v == Layout(b, win.sect)
<1>1. pc = "analyse" /\ UNCHANGED win
  BY DEF Analyse
<1>2. /\ drive \in Drives /\ name[drive] \in Images /\ last_drive = None /\ None \notin Drives
      /\ pdrv = drive /\ k \in Cards /\ pdrv \notin noinit /\ fs_type = "none" /\ TypeOK
      /\ mbr \in [1..4 -> Nat]
  BY <1>1, CallIs DEF RInv, Right, Kept
<1>3. ~failed => win.card = k /\ win.sect = FirstVolume(k)
  BY <1>1 DEF RInv, Right, Found
<1>4. CASE ~Accepts(b)
  <2>1. Refused(FALSE) /\ UNCHANGED <<pdrv, Fsid, noinit>>
    BY <1>4 DEF Analyse, disk
  <2>2. DiskTypes'
    BY <1>1, <1>2, <2>1 DEF DiskTypes, TypeOK
  <2>3. failed \/ Unusable(card[drive], name[drive])
    BY <1>2, <1>3, <1>4 DEF Unusable
  <2> QED BY <1>1, <2>1, <2>2, <2>3, RightRefused
<1>5. CASE Accepts(b)
  <2>1. v.volbase = win.sect /\ vol' = v /\ fsi' = FALSE
    BY <1>5, LayoutBase DEF Analyse
  <2>2. CASE v.type = "fat32" /\ b.fsinfo
    <3>1. Goto("info") /\ UNCHANGED <<fs_type, id, pdrv, Fsid, noinit, part, mbr, dj, failed>>
      BY <1>5, <2>2 DEF Analyse, disk
    <3>2. DiskTypes'
      BY <1>1, <1>2, <3>1 DEF DiskTypes, TypeOK
    <3>3. card'[pdrv'] = k /\ pc' = "info" /\ vol'.volbase = win.sect /\ last_drive' = None
      BY <1>2, <2>1, <3>1 DEF Goto, sketch
    <3> HIDE DEF k, v, b
    <3>4. Found' /\ Sought'
      BY <1>2, <1>3, <3>1, <3>3 DEF Found, Sought
    <3> QED BY <1>1, <1>2, <2>1, <3>1, <3>2, <3>4, GoesOn DEF TypeOK
  <2>3. CASE ~(v.type = "fat32" /\ b.fsinfo)
    <3>1. Mounted(v)
      BY <1>5, <2>3 DEF Analyse
    <3>2. /\ Goto("rewind") /\ part' = 0 /\ mbr' \in [1..4 -> Nat] /\ fs_type' = v.type
          /\ v.type \in {"fat12", "fat16", "fat32"}
          /\ id' \in 0..Mounts - 1 /\ Fsid' \in 0..Mounts - 1
          /\ UNCHANGED <<pdrv, noinit, dj, failed>>
      <4>1. \A w : w = Layout(b, win.sect) /\ Mounted(w) =>
               /\ Goto("rewind") /\ part' = 0 /\ mbr' \in [1..4 -> Nat] /\ fs_type' = w.type
               /\ w.type \in {"fat12", "fat16", "fat32"}
               /\ id' \in 0..Mounts - 1 /\ Fsid' \in 0..Mounts - 1
               /\ UNCHANGED <<pdrv, noinit, dj, failed>>
        BY <1>2, <1>5, MountedIs
      <4> QED BY <3>1, <4>1
    <3>3. DiskTypes'
      BY <1>1, <1>2, <3>2 DEF DiskTypes, TypeOK
    <3>4. card'[pdrv'] = k /\ pc' = "rewind" /\ vol'.volbase = win.sect /\ last_drive' = None
      BY <1>2, <2>1, <3>2 DEF Goto, sketch
    <3> HIDE DEF k, v, b
    <3>5. Found' /\ Sought'
      BY <1>2, <1>3, <3>2, <3>4 DEF Found, Sought
    <3>6. /\ pdrv' \notin noinit' /\ part' \in 0..4 /\ dj'.sect \in Nat /\ dj'.dptr < MAX_DIR
          /\ failed' \in BOOLEAN
      BY <1>2, <3>2 DEF TypeOK
    <3>7. fs_type' = vol'.type /\ fs_type' \in {"none", "fat12", "fat16", "fat32"} /\ fsi' \in BOOLEAN
      BY <2>1, <3>2
    <3> QED BY <1>1, <3>2, <3>3, <3>5, <3>6, <3>7, GoesOn
  <2> QED BY <2>2, <2>3
<1> QED BY <1>4, <1>5

\* What is read of FSINFO does not change where the volume is.
LEMMA RightReadInfo == ASSUME RInv, ReadInfo PROVE Right'
<1> DEFINE k == card[pdrv]
           s == (vol.volbase + 1) % DWORD
<1>1. /\ pc = "info" /\ Mounted(vol) /\ UNCHANGED vol
      /\ Loaded(win, s) \/ NotLoaded(win, s)
      /\ fsi' \in BOOLEAN
  BY Zenon DEF ReadInfo
<1>2. /\ drive \in Drives /\ name[drive] \in Images /\ last_drive = None /\ None \notin Drives
      /\ pdrv = drive /\ k \in Cards /\ pdrv \notin noinit /\ fs_type = "none" /\ TypeOK
  BY <1>1, CallIs
<1>3. ~failed => vol.volbase = FirstVolume(k)
  BY <1>1 DEF RInv, Right, Found
<1>4. vol.volbase \in Nat /\ Accepts(Boot(vol.volbase)) /\ vol = Layout(Boot(vol.volbase), vol.volbase)
  BY <1>1, VolumeFacts DEF RInv, WInv, VInv
<1>5. /\ Goto("rewind") /\ part' = 0 /\ mbr' \in [1..4 -> Nat] /\ fs_type' = vol.type
      /\ vol.type \in {"fat12", "fat16", "fat32"}
      /\ id' \in 0..Mounts - 1 /\ Fsid' \in 0..Mounts - 1
      /\ UNCHANGED <<pdrv, noinit, dj, failed>>
  <2> DEFINE w == vol
             base == vol.volbase
             b == Boot(base)
  <2>1. Mounted(w) /\ Accepts(b) /\ w = Layout(b, base)
    BY <1>1, <1>4
  <2>2. w = vol
    OBVIOUS
  <2> HIDE DEF w, base, b
  <2>3. \A x : x = Layout(b, base) /\ Mounted(x) =>
               /\ Goto("rewind") /\ part' = 0 /\ mbr' \in [1..4 -> Nat] /\ fs_type' = x.type
               /\ x.type \in {"fat12", "fat16", "fat32"}
               /\ id' \in 0..Mounts - 1 /\ Fsid' \in 0..Mounts - 1
               /\ UNCHANGED <<pdrv, noinit, dj, failed>>
    BY <1>2, <2>1, MountedIs
  <2> QED BY <2>1, <2>2, <2>3
<1>6. s \in Nat
  BY <1>4, SizeAssumption, TypeAssumption
<1>7. win'.card \in Cards \cup {NoCard} /\ win'.sect \in Nat
  <2>1. NoSector \in Nat
    BY SizeAssumption, TypeAssumption DEF NoSector
  <2> HIDE DEF s
  <2>2. win'.card \in {win.card, NoCard, card[pdrv]} /\ win'.sect \in {win.sect, NoSector, s}
    BY <1>1 DEF Loaded, NotLoaded, NoWindow
  <2> QED BY <1>2, <1>6, <2>1, <2>2 DEF TypeOK
<1>8. DiskTypes'
  BY <1>2, <1>5, <1>7 DEF DiskTypes, TypeOK
<1>9. card'[pdrv'] = k /\ pc' = "rewind" /\ vol' = vol /\ last_drive' = None
  BY <1>1, <1>2, <1>5 DEF Goto, sketch
<1> HIDE DEF k, s
<1>10. Found' /\ Sought'
  BY <1>2, <1>3, <1>5, <1>9 DEF Found, Sought
<1>11. /\ pdrv' \notin noinit' /\ part' \in 0..4 /\ dj'.sect \in Nat /\ dj'.dptr < MAX_DIR
       /\ failed' \in BOOLEAN
  BY <1>2, <1>5 DEF TypeOK
<1>12. fs_type' = vol'.type /\ fs_type' \in {"none", "fat12", "fat16", "fat32"}
  BY <1>1, <1>5
<1> QED BY <1>1, <1>5, <1>8, <1>10, <1>11, <1>12, GoesOn

\* The search begins in the sector of place 0.
LEMMA RootSectorIs ==
    ASSUME RInv, pc = "rewind"
    PROVE  /\ RootSector = PlaceSector(card[pdrv], vol.volbase, 0) /\ RootSector \in Nat
           /\ RootSector # 0 /\ vol.type = "fat32" =>
                 RootClust = RootCluster(card[pdrv], vol.volbase)[0]
<1>1. fs_type # "none" /\ fs_type = vol.type
  BY DEF RInv, WInv, VInv, OneDrive, Right, Kept
<1>2. PerSector \in Nat \ {0}
  BY SizeAssumption DEF PerSector
<1>3. /\ vol.n_rootdir \in Nat /\ vol.n_rootdir % PerSector = 0
      /\ vol.type = "fat32" => vol.n_rootdir = 0 /\ vol.dirbase \in Nat
      /\ vol.csize \in Nat \ {0} /\ vol.n_fatent \in Nat
  BY <1>1, VolumeInside DEF RInv, WInv, VInv
<1>4. /\ vol.type # "fat32" => vol.dirbase \in Nat \ {0}
      /\ \A c \in 2..vol.n_fatent - 1 : clst2sect(vol, c) \in Nat \ {0}
  BY <1>1, SectorNotZero DEF RInv, WInv, VInv
<1> DEFINE root == RootCluster(card[pdrv], vol.volbase)
<1>5. root[0] = IF vol.dirbase \in 2..vol.n_fatent - 1 THEN vol.dirbase ELSE 0
  BY <1>1, ClusterOf DEF RInv, WInv, VInv
<1>6. PlaceSector(card[pdrv], vol.volbase, 0) = RootSectorAt(card[pdrv], vol.volbase, 0)
  <2>1. 0 \div PerSector = 0
    BY <1>2
  <2> QED BY <2>1 DEF PlaceSector
<1>7. RootSectorAt(card[pdrv], vol.volbase, 0) =
         IF vol.type # "fat32"
           THEN IF 0 < vol.n_rootdir \div PerSector THEN vol.dirbase + 0 ELSE 0
           ELSE IF root[0] = 0 THEN 0 ELSE clst2sect(vol, root[0]) + 0
  <2>1. 0 \div vol.csize = 0 /\ 0 % vol.csize = 0 /\ 0 \in Nat
    BY <1>3
  <2>2. RootSectorAt(card[pdrv], vol.volbase, 0) =
          LET c == RootCluster(card[pdrv], vol.volbase)[0 \div vol.csize] IN
             IF vol.type # "fat32"
               THEN IF 0 < vol.n_rootdir \div PerSector THEN vol.dirbase + 0 ELSE 0
               ELSE IF c = 0 THEN 0 ELSE clst2sect(vol, c) + (0 % vol.csize)
    BY <1>1, <2>1, SectorAt DEF RInv, WInv, VInv
  <2> QED BY <2>1, <2>2
<1> HIDE DEF root
<1>8. CASE vol.type = "fat32"
  <2>1. vol.n_rootdir = 0 /\ RootClust = vol.dirbase /\ vol.dirbase \in Nat
    BY <1>3, <1>8 DEF RootClust
  <2>2. CASE vol.dirbase \in 2..vol.n_fatent - 1
    <3>1. root[0] = vol.dirbase /\ root[0] # 0 /\ RootSector = clst2sect(vol, vol.dirbase)
      BY <1>5, <2>1, <2>2 DEF RootSector
    <3> DEFINE c == clst2sect(vol, vol.dirbase)
    <3>2. c \in Nat /\ c + 0 = c
      BY <1>4, <2>2
    <3> HIDE DEF c
    <3>3. RootSector = c /\ RootSectorAt(card[pdrv], vol.volbase, 0) = c + 0
      BY <1>7, <1>8, <3>1 DEF c
    <3> QED BY <1>6, <2>1, <3>1, <3>2, <3>3 DEF root
  <2>3. CASE vol.dirbase \notin 2..vol.n_fatent - 1
    <3>1. root[0] = 0
      BY <1>5, <2>3
    <3>2. RootSector = 0
      <4>1. CASE vol.dirbase = 0
        BY <2>1, <4>1 DEF RootSector
      <4>2. CASE vol.dirbase # 0
        BY <1>3, <2>1, <2>3, <4>2 DEF RootSector, clst2sect
      <4> QED BY <4>1, <4>2
    <3> QED BY <1>6, <1>7, <1>8, <3>1, <3>2
  <2> QED BY <2>2, <2>3
<1>9. CASE vol.type # "fat32"
  <2>1. RootSector = IF vol.n_rootdir > 0 THEN vol.dirbase ELSE 0
    BY <1>9 DEF RootSector, RootClust
  <2>2. 0 < vol.n_rootdir \div PerSector <=> vol.n_rootdir > 0
    <3> DEFINE n == vol.n_rootdir
    <3>1. n \in Nat /\ n % PerSector = 0
      BY <1>3
    <3> HIDE DEF n
    <3>2. n \div PerSector \in Nat /\ n = PerSector * (n \div PerSector) + (n % PerSector)
      BY <1>2, <3>1, Quotient
    <3>3. CASE n \div PerSector = 0
      <4>1. PerSector * (n \div PerSector) = 0
        BY <1>2, <3>3
      <4> QED BY <3>1, <3>2, <3>3, <4>1 DEF n
    <3>4. CASE n = 0
      <4>1. 0 \div PerSector = 0
        BY <1>2
      <4> QED BY <3>4, <4>1 DEF n
    <3> QED BY <3>1, <3>2, <3>3, <3>4 DEF n
  <2>3. vol.dirbase + 0 = vol.dirbase /\ vol.dirbase \in Nat
    BY <1>4, <1>9
  <2> QED BY <1>6, <1>7, <1>9, <2>1, <2>2, <2>3
<1> QED BY <1>8, <1>9

\* A root directory begins at place 0, or there is none.
LEMMA RightRewind == ASSUME RInv, Rewind PROVE Right'
<1> DEFINE k == card[pdrv]
<1>1. pc = "rewind" /\ UNCHANGED <<pdrv, Fsid, noinit, win>>
  BY DEF Rewind, disk
<1>2. /\ drive \in Drives /\ name[drive] \in Images /\ last_drive = None /\ None \notin Drives
      /\ pdrv = drive /\ pdrv \notin noinit /\ TypeOK /\ mbr \in [1..4 -> Nat]
      /\ fs_type # "none" => fs_type = vol.type
  BY <1>1, CallIs DEF RInv, Right, Kept
<1>3. ~failed => vol.volbase = FirstVolume(k)
  BY <1>1 DEF RInv, Right, Found
<1>4. Lookup.fn # Invalid
  BY <1>2, LookupIs
<1>5. /\ RootSector = PlaceSector(k, vol.volbase, 0) /\ RootSector \in Nat
      /\ RootSector # 0 /\ vol.type = "fat32" => RootClust = RootCluster(k, vol.volbase)[0]
  BY <1>1, RootSectorIs
<1>6. DiskTypes'
  BY <1>1, <1>2 DEF DiskTypes, TypeOK
<1>7. CASE RootSector = 0
  <2>1. Refused(FALSE)
    BY <1>7 DEF Rewind
  <2>2. ~failed => Unusable(k, name[drive])
    <3>1. SUFFICES ASSUME ~failed PROVE Unusable(k, name[drive])
      OBVIOUS
    <3>2. ~Used(k, FirstVolume(k), 0)
      BY <1>3, <1>5, <1>7, <3>1 DEF Used
    <3>3. \A i \in 0..0 - 1 : Passes(k, FirstVolume(k), name[drive], i)
      OBVIOUS
    <3> HIDE DEF k
    <3> QED BY <3>2, <3>3, SearchedInVain
  <2> QED BY <1>1, <1>2, <1>6, <2>1, <2>2, RightRefused
<1>8. CASE RootSector # 0
  <2>1. /\ Goto("look") /\ UNCHANGED <<fs_type, id, vol, fsi, part, mbr, failed>>
        /\ dj' = [clust |-> RootClust, sect |-> RootSector, dptr |-> 0]
    BY <1>4, <1>8 DEF Rewind, volume
  <2>2. dj'.clust = RootClust /\ dj'.sect = RootSector /\ dj'.dptr = 0
    BY <2>1
  <2>3. card'[pdrv'] = k /\ pc' = "look" /\ last_drive' = None /\ drive' = drive /\ name' = name
    BY <1>1, <1>2, <2>1 DEF Goto, sketch
  <2>4. Found'
    <3> HIDE DEF k
    <3> QED BY <1>2, <1>3, <2>1, <2>3 DEF Found
  <2>5. Here' = 0 /\ (dj'.dptr \div SS) \div vol.csize = 0
    <3>1. SZDIRE \in Nat \ {0} /\ SS \in Nat \ {0}
      BY SizeAssumption
    <3>2. vol.csize \in Nat \ {0}
      <4>1. fs_type # "none"
        BY <1>1 DEF RInv, WInv, VInv, OneDrive
      <4> QED BY <4>1, VolumeInside DEF RInv, WInv, VInv
    <3>3. 0 \div SZDIRE = 0 /\ 0 \div SS = 0 /\ 0 \div vol.csize = 0
      BY <3>1, <3>2
    <3> QED BY <2>2, <3>3 DEF Here
  <2>6. Passed(Here)'
    BY <2>5 DEF Passed
  <2>7. Sought'
    <3>1. vol'.type = "fat32" =>
             dj'.clust = RootCluster(card'[pdrv'], vol'.volbase)[(dj'.dptr \div SS) \div vol'.csize]
      BY <1>5, <1>8, <2>1, <2>2, <2>3, <2>5
    <3> QED BY <2>3, <2>6, <3>1 DEF Sought
  <2>8. dj'.sect \in Nat /\ dj'.dptr < MAX_DIR
    BY <1>5, <2>2, BoundAssumption
  <2> QED BY <1>1, <1>2, <1>6, <2>1, <2>4, <2>7, <2>8, GoesOn DEF TypeOK
<1> QED BY <1>7, <1>8

\* Counting on: the quotient goes up where the remainder begins again.
LEMMA NextQuotient ==
    ASSUME NEW n \in Nat \ {0}, NEW q \in Nat
    PROVE  (q + 1) \div n = IF (q + 1) % n = 0 THEN (q \div n) + 1 ELSE q \div n
<1> DEFINE p == q \div n
           r == q % n
<1>1. p \in Nat /\ r \in 0..n - 1 /\ q = n * p + r
  OBVIOUS
<1>2. n * p \in Nat /\ n * (p + 1) = n * p + n
  BY <1>1
<1> HIDE DEF p, r
<1>3. CASE r + 1 < n
  <2>1. q + 1 = n * p + (r + 1) /\ r + 1 \in Nat /\ r + 1 # 0
    BY <1>1, <1>2
  <2>2. (n * p + (r + 1)) % n = r + 1 /\ (n * p + (r + 1)) \div n = p
    BY <1>1, <1>3, <2>1, Divided, Zenon
  <2> QED BY <2>1, <2>2, Zenon DEF p
<1>4. CASE r + 1 = n
  <2>1. q + 1 = n * (p + 1) + 0 /\ p + 1 \in Nat
    BY <1>1, <1>2, <1>4
  <2>2. (n * (p + 1) + 0) % n = 0 /\ (n * (p + 1) + 0) \div n = p + 1
    <3>1. 0 < n /\ 0 \in Nat
      OBVIOUS
    <3> QED BY <2>1, <3>1, Divided, Zenon
  <2> QED BY <2>1, <2>2, Zenon DEF p
<1> QED BY <1>1, <1>3, <1>4

\* The place after that of the entry the search is at.
LEMMA NextPlace ==
    ASSUME RInv, pc \in {"look", "link"}, NEW q \in Nat, NEW e \in Nat, EntryAt(q, e),
           Here = PerSector * q + e
    PROVE  /\ Offset \in Nat /\ Offset = (Here + 1) * SZDIRE /\ Offset \div SZDIRE = Here + 1
           /\ dj.dptr \div SS = q /\ PerSector \in Nat \ {0}
           /\ ~NewSector => Offset \div SS = q
           /\ NewSector => /\ Offset \div SS = q + 1 /\ Here + 1 = PerSector * (q + 1) + 0
                           /\ PlaceSector(card[pdrv], vol.volbase, Here + 1) =
                                 RootSectorAt(card[pdrv], vol.volbase, q + 1)
<1>1. /\ SS \in Nat \ {0} /\ SZDIRE \in Nat \ {0} /\ PerSector \in Nat \ {0}
      /\ SS = PerSector * SZDIRE
  BY SizeAssumption DEF PerSector
<1>2. e < PerSector /\ dj.dptr = SS * q + SZDIRE * e
  BY DEF EntryAt
<1>3. dj.dptr \div SS = q
  BY <1>2, EntryIs
<1>4. Here \in Nat
  BY HereIs
<1>5. SZDIRE * e \in Nat /\ SS * q \in Nat /\ SZDIRE * (e + 1) = SZDIRE * e + SZDIRE
  BY <1>1
<1>6. SS * q = SZDIRE * (PerSector * q) /\ PerSector * q \in Nat
  BY <1>1
<1>7. Offset = (Here + 1) * SZDIRE /\ Offset \in Nat
  <2> DEFINE m == PerSector * q
  <2>1. m \in Nat /\ Here = m + e /\ dj.dptr = SZDIRE * m + SZDIRE * e
    BY <1>2, <1>6
  <2> HIDE DEF m
  <2>2. (Here + 1) * SZDIRE = SZDIRE * m + (SZDIRE * e + SZDIRE)
    BY <1>1, <2>1
  <2>3. Offset = SZDIRE * m + (SZDIRE * e + SZDIRE)
    BY <1>1, <2>1 DEF Offset
  <2>4. SZDIRE * m + (SZDIRE * e + SZDIRE) \in Nat
    BY <1>1, <2>1
  <2> QED BY <2>2, <2>3, <2>4
<1>8. Offset \div SZDIRE = Here + 1
  <2> DEFINE h == Here + 1
  <2>1. h \in Nat /\ 0 \in Nat /\ 0 < SZDIRE /\ Offset = SZDIRE * h + 0
    BY <1>1, <1>4, <1>7
  <2> HIDE DEF h
  <2>2. (SZDIRE * h + 0) \div SZDIRE = h
    BY <1>1, <2>1, Divided, Zenon
  <2> QED BY <2>1, <2>2 DEF h
<1>9. ~NewSector => Offset \div SS = q
  <2>1. SUFFICES ASSUME ~NewSector PROVE Offset \div SS = q
    OBVIOUS
  <2>2. e + 1 < PerSector
    <3>1. CASE e + 1 = PerSector
      BY <1>2, <2>1, <3>1, NextOffset DEF NewSector, Offset
    <3> QED BY <1>1, <1>2, <3>1
  <2>3. Offset = SS * q + SZDIRE * (e + 1) /\ e + 1 \in Nat
    BY <1>2, <2>2, NextOffset DEF Offset
  <2> DEFINE e1 == e + 1
  <2>4. e1 \in Nat /\ e1 < PerSector /\ Offset = SS * q + SZDIRE * e1
    BY <2>2, <2>3
  <2> HIDE DEF e1
  <2> QED BY <2>4, EntryIs
<1>10. NewSector => Offset \div SS = q + 1 /\ Here + 1 = PerSector * (q + 1) + 0
  <2>1. SUFFICES ASSUME NewSector PROVE Offset \div SS = q + 1 /\ Here + 1 = PerSector * (q + 1) + 0
    OBVIOUS
  <2>2. e + 1 = PerSector
    <3>1. CASE e + 1 < PerSector
      BY <1>2, <2>1, <3>1, NextOffset DEF NewSector, Offset
    <3> QED BY <1>1, <1>2, <3>1
  <2>3. Offset \div SS = q + 1
    BY <1>2, <2>2, NextOffset DEF Offset
  <2>4. PerSector * (q + 1) = PerSector * q + PerSector
    BY <1>1
  <2> QED BY <1>1, <1>6, <2>2, <2>3, <2>4
<1>11. PlaceSector(card[pdrv], vol.volbase, PerSector * (q + 1) + 0) =
          RootSectorAt(card[pdrv], vol.volbase, q + 1)
  <2> DEFINE q1 == q + 1
  <2>1. q1 \in Nat /\ 0 \in Nat /\ 0 < PerSector
    BY <1>1
  <2> HIDE DEF q1
  <2>2. PlaceSector(card[pdrv], vol.volbase, PerSector * q1 + 0) = RootSectorAt(card[pdrv], vol.volbase, q1)
    BY <2>1, PlaceIs
  <2> QED BY <2>2 DEF q1
<1> QED BY <1>1, <1>3, <1>7, <1>8, <1>9, <1>10, <1>11

\* What is known while the root directory is searched.
LEMMA SearchIs ==
    ASSUME RInv, pc \in {"look", "link"}
    PROVE  /\ drive \in Drives /\ name[drive] \in Images /\ last_drive = None /\ None \notin Drives
           /\ pdrv = drive /\ card[pdrv] \in Cards /\ pdrv \notin noinit /\ TypeOK
           /\ mbr \in [1..4 -> Nat] /\ fs_type # "none" /\ fs_type = vol.type
           /\ ~failed => vol.volbase = FirstVolume(card[pdrv])
           /\ Passed(Here) /\ Here \in Nat
           /\ vol.csize \in Nat \ {0} /\ vol.n_rootdir \in Nat
           /\ vol.type = "fat32" => dj.clust =
                 RootCluster(card[pdrv], vol.volbase)[(dj.dptr \div SS) \div vol.csize]
<1>1. fs_type # "none"
  BY DEF RInv, WInv, VInv, OneDrive
<1>2. vol.csize \in Nat \ {0} /\ vol.n_rootdir \in Nat
  BY <1>1, VolumeInside DEF RInv, WInv, VInv
<1>3. Here \in Nat
  BY HereIs
<1>4. /\ drive \in Drives /\ name[drive] \in Images /\ last_drive = None /\ None \notin Drives
      /\ pdrv = drive /\ card[pdrv] \in Cards /\ pdrv \notin noinit /\ TypeOK
  BY CallIs
<1>5. Found /\ Sought /\ Kept
  BY DEF RInv, Right
<1> QED BY <1>1, <1>2, <1>3, <1>4, <1>5 DEF Found, Sought, Kept

\* A search that ends without the image, at a place before which it is not.
LEMMA RightNotFound ==
    ASSUME RInv, pc \in {"look", "link"}, Refused(FALSE), DiskTypes', NEW r \in Nat, Passed(r),
           LET k == card[pdrv] s == vol.volbase IN
           \/ ~Used(k, s, r) \/ r * SZDIRE >= MAX_DIR
           \/ /\ Named(k, s, name[drive], r)
              /\ DirAt(k, PlaceSector(k, s, r))[PlaceIndex(r)].attr # "file"
    PROVE  Right'
<1> DEFINE k == card[pdrv]
           n == name[drive]
           s == vol.volbase
<1>1. pdrv = drive /\ (~failed => s = FirstVolume(k))
  BY SearchIs
<1>2. \A i \in 0..r - 1 : Passes(k, s, n, i)
  BY DEF Passed
<1>3. \/ ~Used(k, s, r) \/ r * SZDIRE >= MAX_DIR
      \/ /\ Named(k, s, n, r)
         /\ DirAt(k, PlaceSector(k, s, r))[PlaceIndex(r)].attr # "file"
  OBVIOUS
<1>4. card[pdrv] = k /\ name[drive] = n
  OBVIOUS
<1> HIDE DEF k, n, s
<1>5. ~failed => Unusable(k, n)
  <2>1. SUFFICES ASSUME s = FirstVolume(k) PROVE Unusable(k, n)
    BY <1>1
  <2>2. /\ \A i \in 0..r - 1 : Passes(k, FirstVolume(k), n, i)
        /\ \/ ~Used(k, FirstVolume(k), r) \/ r * SZDIRE >= MAX_DIR
           \/ /\ Named(k, FirstVolume(k), n, r)
              /\ DirAt(k, PlaceSector(k, FirstVolume(k), r))[PlaceIndex(r)].attr # "file"
    BY <1>2, <1>3, <2>1
  <2> QED BY <2>2, SearchedInVain
<1>6. FALSE \/ failed \/ Unusable(card[drive], name[drive])
  BY <1>1, <1>4, <1>5
<1> QED BY <1>6, RightRefused

\* The window while the directory is searched.
LEMMA LookTypes ==
    ASSUME RInv, pc = "look", Loaded(win, dj.sect), UNCHANGED <<pdrv, Fsid, noinit>>
    PROVE  DiskTypes'
<1>1. card[pdrv] \in Cards /\ TypeOK
  BY SearchIs
<1>2. win'.card = card[pdrv] /\ win'.sect = dj.sect
  BY EntryRead
<1> QED BY <1>1, <1>2 DEF DiskTypes, TypeOK

\* Where one place more is passed, all before the next are.
LEMMA OneMorePassed ==
    ASSUME RInv, pc \in {"look", "link"}, Passes(card[pdrv], vol.volbase, name[drive], Here)
    PROVE  Passed(Here + 1)
<1>1. Here \in Nat /\ Passed(Here)
  BY SearchIs
<1> DEFINE h == Here
           P(i) == Passes(card[pdrv], vol.volbase, name[drive], i)
<1>2. h \in Nat /\ P(h) /\ \A i \in 0..h - 1 : P(i)
  BY <1>1 DEF Passed
<1>3. \A i \in 0..(h + 1) - 1 : P(i)
  <2> HIDE DEF h, P
  <2>1. ASSUME NEW i \in 0..(h + 1) - 1 PROVE P(i)
    <3>1. i \in 0..h - 1 \/ i = h
      BY <1>2
    <3> QED BY <1>2, <3>1
  <2> QED BY <2>1
<1> QED BY <1>3 DEF Passed

\* An entry of the image that is neither a directory nor protected is that of a file.
LEMMA NamedFile ==
    ASSUME NEW k \in Cards, NEW s, NEW n, NEW r, Used(k, s, r), PlaceIndex(r) \in Nat \ {0}, Named(k, s, n, r),
           DirAt(k, PlaceSector(k, s, r))[PlaceIndex(r)].attr \notin {"directory", "readonly"}
    PROVE  DirAt(k, PlaceSector(k, s, r))[PlaceIndex(r)].attr = "file"
<1> DEFINE d == DirAt(k, PlaceSector(k, s, r))
           i == PlaceIndex(r)
<1>1. d \in Seq(Entries)
  <2>1. <<>> \in Seq(Entries)
    OBVIOUS
  <2> QED BY <2>1, CardAssumption DEF DirAt
<1>2. i \in 1..Len(d) /\ d[i].attr # "label" /\ d[i].attr \notin {"directory", "readonly"}
  <2>1. Len(d) \in Nat
    BY <1>1
  <2>2. i <= Len(d) /\ i \in Nat \ {0}
    BY DEF Used
  <2>3. d[i].attr # "label" /\ d[i].attr \notin {"directory", "readonly"}
    BY DEF Named
  <2> HIDE DEF d, i
  <2> QED BY <2>1, <2>2, <2>3
<1> HIDE DEF d, i
<1>3. d[i] \in Entries
  BY <1>1, <1>2
<1>4. d[i].attr \in {"file", "readonly", "directory", "label"}
  BY <1>3 DEF Entries
<1>5. d[i].attr = "file"
  BY <1>2, <1>4
<1> QED BY <1>5 DEF d, i

\* The place of the entry is among those that are searched.
LEMMA HereIsPlace == ASSUME RInv, pc \in {"look", "link"} PROVE Here \in Places
<1>1. PICK q, e \in Nat : EntryAt(q, e) /\ Here = PerSector * q + e
  BY HereIs
<1>2. Here \in Nat /\ dj.dptr < MAX_DIR /\ MAX_DIR \in Nat \ {0}
  BY SearchIs, BoundAssumption DEF TypeOK
<1>3. SZDIRE \in Nat \ {0} /\ Offset = (Here + 1) * SZDIRE
  BY <1>1, NextPlace, SizeAssumption
<1> DEFINE h == Here
           m == (MAX_DIR - 1) \div SZDIRE
<1>4. m \in Nat /\ MAX_DIR - 1 < SZDIRE * m + SZDIRE
  <2>1. MAX_DIR - 1 \in Nat
    BY <1>2
  <2> QED BY <1>3, <2>1, Quotient
<1>5. dj.dptr = SZDIRE * h /\ h \in Nat /\ SZDIRE * h \in Nat
  <2>1. (h + 1) * SZDIRE = SZDIRE * h + SZDIRE /\ SZDIRE * h \in Nat /\ h \in Nat
    BY <1>2, <1>3
  <2>2. dj.dptr + SZDIRE = SZDIRE * h + SZDIRE
    BY <1>3, <2>1 DEF Offset
  <2>3. dj.dptr \in Int
    <3>1. SS * q \in Int /\ SZDIRE * e \in Int
      BY <1>1, SizeAssumption
    <3> QED BY <1>1, <3>1 DEF EntryAt
  <2> HIDE DEF h
  <2> QED BY <1>3, <2>1, <2>2, <2>3
<1> HIDE DEF h, m
<1>6. h <= m
  <2>1. SUFFICES ASSUME m + 1 <= h PROVE FALSE
    BY <1>4, <1>5
  <2>2. SZDIRE * (m + 1) <= SZDIRE * h
    BY <1>3, <1>4, <1>5, <2>1, Product
  <2>3. SZDIRE * (m + 1) = SZDIRE * m + SZDIRE /\ SZDIRE * m \in Nat
    BY <1>3, <1>4
  <2> QED BY <1>2, <1>3, <1>4, <1>5, <2>2, <2>3
<1> QED BY <1>4, <1>5, <1>6 DEF Places, h, m

\* The image is found and opened: what is open is the image of the drive.
LEMMA RightOpened ==
    ASSUME RInv, pc = "look", Loaded(win, dj.sect), UNCHANGED <<pdrv, Fsid, noinit>>,
           ~AtEnd, IsFile, Opened, ~Refused(FALSE)
    PROVE  Right'
<1> DEFINE k == card[pdrv]
           s == vol.volbase
           n == name[drive]
           e == DirAt(k, PlaceSector(k, s, Here))[PlaceIndex(Here)]
<1>1. /\ drive \in Drives /\ n \in Images /\ last_drive = None /\ None \notin Drives
      /\ pdrv = drive /\ k \in Cards /\ pdrv \notin noinit /\ TypeOK
      /\ mbr \in [1..4 -> Nat] /\ fs_type # "none" /\ fs_type = vol.type
      /\ (~failed => s = FirstVolume(k))
      /\ Passed(Here) /\ Here \in Nat
  BY SearchIs
<1>2. /\ win'.card = k /\ win'.sect = PlaceSector(k, s, Here) /\ Index = PlaceIndex(Here)
      /\ Used(k, s, Here) /\ Named(k, s, n, Here) /\ Entry = e
  BY EntryRead, HereIs
<1>3. /\ e.attr \notin {"directory", "readonly"}
      /\ fil' = [fs |-> TRUE, id |-> id, dir_sect |-> win'.sect, dir_ptr |-> Index,
                 sclust |-> ld_clust(Entry), objsize |-> Entry.size]
      /\ last_drive' = drive /\ pc' = "idle" /\ drive' = None /\ dj' = NoDir /\ result' = "ok"
      /\ UNCHANGED <<card, name, asked, FatFs, fs_type, id, vol, fsi, part, mbr, failed>>
  <2>1. Entry.attr \notin {"directory", "readonly"}
    BY DEF Opened
  <2> HIDE DEF k, s, e
  <2> QED BY <1>2, <2>1 DEF Opened, volume
<1>4. /\ fil'.fs = TRUE /\ fil'.id = id /\ fil'.dir_sect = PlaceSector(k, s, Here)
      /\ fil'.dir_ptr = PlaceIndex(Here) /\ fil'.sclust = ld_clust(e) /\ fil'.objsize = e.size
  <2> HIDE DEF k, s, e
  <2> QED BY <1>2, <1>3
<1>5. DiskTypes'
  BY LookTypes
<1>6. TypeOK'
  <2>1. dj'.sect = 0 /\ dj'.dptr = 0 /\ 0 < MAX_DIR
    BY <1>3, BoundAssumption DEF NoDir
  <2> HIDE DEF k, s, e
  <2> QED BY <1>1, <1>3, <1>4, <1>5, <2>1 DEF TypeOK, DiskTypes
<1>7. Kept'
  <2> HIDE DEF k, s, e
  <2> QED BY <1>1, <1>3, <1>6 DEF Kept
<1>8. card'[pdrv'] = k /\ card'[last_drive'] = k /\ vol'.volbase = s /\ name'[last_drive'] = n
      /\ pdrv' = drive
  BY <1>1, <1>3
<1>9. Found'
  <2> HIDE DEF k, s, e
  <2> QED BY <1>1, <1>3, <1>8 DEF Found
<1>10. Sought' /\ ErrorIsRight'
  BY <1>3 DEF Sought, ErrorIsRight
<1>11. Accepts(BootAt(k, s))
  BY <1>1 DEF RInv, WInv, VInv, IInv, Analysed, Boot
<1>12. Holds(k, s, n, Here)
  <2>1. \A i \in 0..Here - 1 : Used(k, s, i) /\ ~Named(k, s, n, i)
    BY <1>1 DEF Passed, Passes
  <2>2. e.attr = "file"
    <3>1. PlaceIndex(Here) \in Nat \ {0}
      <4>1. PICK q1, e1 \in Nat : EntryAt(q1, e1) /\ Here = PerSector * q1 + e1
        BY HereIs
      <4>2. PlaceIndex(Here) = e1 + 1
        BY <4>1, PlaceIs DEF EntryAt
      <4> QED BY <4>1, <4>2
    <3> QED BY <1>1, <1>2, <1>3, <3>1, NamedFile
  <2> DEFINE h == Here
  <2>3. h \in Nat /\ Used(k, s, h) /\ \A i \in 0..h - 1 : Used(k, s, i) /\ ~Named(k, s, n, i)
    BY <1>1, <1>2, <2>1
  <2>4. \A i \in 0..h : Used(k, s, i)
    <3> HIDE DEF h, k, s, n
    <3> QED BY <2>3
  <2>5. Named(k, s, n, h) /\ DirAt(k, PlaceSector(k, s, h))[PlaceIndex(h)].attr = "file"
    BY <1>2, <2>2
  <2> HIDE DEF h, k, s, n
  <2>6. InUse(k, s, h)
    BY <2>4 DEF InUse, Used
  <2>7. Holds(k, s, n, h)
    BY <2>3, <2>5, <2>6 DEF Holds, Named
  <2> QED BY <2>7 DEF h
<1>13. fil'.sclust = IF vol.type = "fat32" THEN e.clust ELSE e.clust % WORD
  <2> HIDE DEF e
  <2> QED BY <1>1, <1>4 DEF ld_clust
<1>14. Here \in Places
  BY HereIsPlace
<1>15. \E p \in Places :
          /\ Holds(k, s, n, p)
          /\ fil'.dir_sect = PlaceSector(k, s, p) /\ fil'.dir_ptr = PlaceIndex(p)
          /\ LET x == DirAt(k, fil'.dir_sect)[fil'.dir_ptr] IN
             /\ fil'.sclust = IF vol.type = "fat32" THEN x.clust ELSE x.clust % WORD
             /\ fil'.objsize = x.size
  <2> DEFINE x == DirAt(k, fil'.dir_sect)[fil'.dir_ptr]
  <2>1. x = e
    BY <1>4
  <2> HIDE DEF x, e, k, s, n
  <2>2. /\ fil'.sclust = IF vol.type = "fat32" THEN x.clust ELSE x.clust % WORD
        /\ fil'.objsize = x.size
    BY <1>4, <1>13, <2>1
  <2> QED BY <1>4, <1>12, <1>14, <2>2 DEF x
<1>16. OpenedIsRight'
  <2> HIDE DEF k, s, n, e
  <2>1. vol' = vol /\ fil'.fs /\ fil'.id = id' /\ pdrv' = last_drive' /\ pdrv' \notin noinit'
        /\ (~failed' => s = FirstVolume(k))
    BY <1>1, <1>3, <1>4, <1>8
  <2> QED BY <1>8, <1>11, <1>15, <2>1 DEF OpenedIsRight
<1> QED BY <1>7, <1>9, <1>10, <1>16 DEF Right

\* dir_next(): the next place is that of the next entry, and there is none behind the end.
LEMMA RightNextEntry ==
    ASSUME RInv, pc = "look", Loaded(win, dj.sect), UNCHANGED <<pdrv, Fsid, noinit>>,
           Passed(Here + 1), NextEntry
    PROVE  Right'
<1> DEFINE k == card[pdrv]
           s == vol.volbase
           root == RootCluster(k, s)
<1>1. /\ drive \in Drives /\ name[drive] \in Images /\ last_drive = None /\ None \notin Drives
      /\ pdrv = drive /\ k \in Cards /\ pdrv \notin noinit /\ TypeOK
      /\ mbr \in [1..4 -> Nat] /\ fs_type # "none" /\ fs_type = vol.type
      /\ (~failed => s = FirstVolume(k))
      /\ Passed(Here) /\ Here \in Nat /\ vol.csize \in Nat \ {0} /\ vol.n_rootdir \in Nat
      /\ (vol.type = "fat32" => dj.clust = root[(dj.dptr \div SS) \div vol.csize])
  BY SearchIs
<1>2. PICK q, e \in Nat : EntryAt(q, e) /\ Here = PerSector * q + e
  BY HereIs
<1>3. /\ Offset \in Nat /\ Offset = (Here + 1) * SZDIRE /\ Offset \div SZDIRE = Here + 1
      /\ dj.dptr \div SS = q /\ PerSector \in Nat \ {0}
      /\ (~NewSector => Offset \div SS = q)
      /\ (NewSector => /\ Offset \div SS = q + 1 /\ Here + 1 = PerSector * (q + 1) + 0
                       /\ PlaceSector(k, s, Here + 1) = RootSectorAt(k, s, q + 1))
  BY <1>2, NextPlace
<1>4. DiskTypes'
  BY LookTypes
<1>5. CASE Exhausted
  <2>1. Refused(FALSE)
    BY <1>5 DEF NextEntry
  <2>2. CASE Offset >= MAX_DIR
    <3>1. (Here + 1) * SZDIRE >= MAX_DIR /\ Here + 1 \in Nat
      BY <1>1, <1>3, <2>2
    <3> QED BY <1>4, <2>1, <3>1, RightNotFound
  <2>3. CASE NewSector /\ dj.clust = 0 /\ Offset \div SZDIRE >= vol.n_rootdir
    <3>1. vol.type # "fat32"
      <4>1. vol.n_fatent \in Nat
        BY <1>1, VolumeInside DEF RInv, WInv, VInv
      <4> QED BY <1>2, <2>3, <4>1 DEF EntryAt
    <3>2. ~(q + 1 < vol.n_rootdir \div PerSector)
      <4> DEFINE m == vol.n_rootdir \div PerSector
      <4>1. PerSector * (q + 1) >= vol.n_rootdir
        <5> DEFINE x == PerSector * (q + 1)
        <5>1. x \in Int
          BY <1>2, <1>3
        <5> HIDE DEF x
        <5>2. Here + 1 = x + 0 /\ Here + 1 >= vol.n_rootdir
          BY <1>3, <2>3 DEF x
        <5> QED BY <1>1, <5>1, <5>2 DEF x
      <4>2. m \in Nat /\ PerSector * m <= vol.n_rootdir
        BY <1>1, <1>3, Quotient
      <4> HIDE DEF m
      <4>3. SUFFICES ASSUME (q + 1) + 1 <= m PROVE FALSE
        BY <1>2, <4>2 DEF m
      <4>4. PerSector * ((q + 1) + 1) <= PerSector * m
        BY <1>2, <1>3, <4>2, <4>3, Product
      <4>5. PerSector * ((q + 1) + 1) = PerSector * (q + 1) + PerSector /\ PerSector * (q + 1) \in Nat
            /\ PerSector * m \in Nat
        BY <1>2, <1>3, <4>2
      <4> QED BY <1>1, <1>3, <4>1, <4>2, <4>4, <4>5
    <3>3. RootSectorAt(k, s, q + 1) = 0
      <4> DEFINE q1 == q + 1
                 c == RootCluster(card[pdrv], vol.volbase)[q1 \div vol.csize]
      <4>1. q1 \in Nat
        BY <1>2
      <4> HIDE DEF q1
      <4>2. RootSectorAt(card[pdrv], vol.volbase, q1) =
               IF vol.type # "fat32"
                 THEN IF q1 < vol.n_rootdir \div PerSector THEN vol.dirbase + q1 ELSE 0
                 ELSE IF c = 0 THEN 0 ELSE clst2sect(vol, c) + (q1 % vol.csize)
        BY <1>1, <4>1, SectorAt DEF RInv, WInv, VInv
      <4>3. ~(q1 < vol.n_rootdir \div PerSector)
        BY <3>2 DEF q1
      <4> HIDE DEF c
      <4>4. RootSectorAt(card[pdrv], vol.volbase, q1) = 0
        BY <3>1, <4>2, <4>3
      <4> QED BY <4>4 DEF q1
    <3>4. ~Used(k, s, Here + 1) /\ Here + 1 \in Nat
      BY <1>1, <1>3, <2>3, <3>3 DEF Used
    <3> QED BY <1>4, <2>1, <3>4, RightNotFound
  <2> QED BY <1>5, <2>2, <2>3 DEF Exhausted
<1>6. CASE ~Exhausted
  <2>1. Offset < MAX_DIR
    BY <1>3, <1>6, BoundAssumption DEF Exhausted
  <2>2. /\ UNCHANGED <<fs_type, id, vol, fsi, part, mbr, failed>>
        /\ pc' \in {"look", "link"} /\ Goto(pc')
    BY <1>6 DEF NextEntry, volume, Goto
  <2>3. card' = card /\ name' = name /\ drive' = drive /\ last_drive' = None
    BY <1>1, <2>2 DEF Goto, sketch
  <2>4. card'[pdrv'] = k /\ vol'.volbase = s /\ name'[drive'] = name[drive]
    BY <1>1, <2>2, <2>3
  <2>5. Found'
    <3> HIDE DEF k, s, root
    <3> QED BY <1>1, <2>2, <2>3, <2>4 DEF Found
  <2>6. CASE NewClust
    <3>1. pc' = "link" /\ dj' = dj
      BY <1>6, <2>6 DEF NextEntry, Goto
    <3>2. Here' = Here /\ Offset' = Offset
      BY <3>1 DEF Here, Offset
    <3>3. Passed(Here)' /\ Passed(Here + 1)'
      <4> HIDE DEF Here
      <4>1. (\A r \in 0..Here - 1 : Passes(k, s, name[drive], r))
            /\ \A r \in 0..(Here + 1) - 1 : Passes(k, s, name[drive], r)
        BY <1>1 DEF Passed
      <4> HIDE DEF k, s, root
      <4> QED BY <2>4, <3>2, <4>1 DEF Passed
    <3>4. Sought'
      <4>1. vol'.type = "fat32" =>
              dj'.clust = RootCluster(card'[pdrv'], vol'.volbase)[(dj'.dptr \div SS) \div vol'.csize]
        BY <1>1, <2>2, <2>4, <3>1
      <4> QED BY <2>1, <3>1, <3>2, <3>3, <4>1 DEF Sought
    <3>5. dj'.sect \in Nat /\ dj'.dptr < MAX_DIR
      BY <1>1, <3>1 DEF TypeOK
    <3> HIDE DEF k, s, root
    <3> QED BY <1>1, <1>4, <2>2, <2>5, <3>1, <3>4, <3>5, GoesOn DEF TypeOK
  <2>7. CASE ~NewClust
    <3>1. pc' = "look" /\ dj' = [dj EXCEPT !.dptr = Offset,
                                           !.sect = IF NewSector THEN dj.sect + 1 ELSE dj.sect]
      BY <1>6, <2>7 DEF NextEntry, Goto
    <3>2. dj'.clust = dj.clust /\ dj'.dptr = Offset /\ dj'.sect \in Nat
      <4>1. DOMAIN dj = {"clust", "sect", "dptr"}
        BY DEF RInv, WInv, AtEntry
      <4> QED BY <1>1, <3>1, <4>1 DEF TypeOK
    <3>3. Here' = Here + 1
      BY <1>3, <3>2 DEF Here
    <3>4. Passed(Here)'
      <4> DEFINE h == Here + 1
      <4>1. \A r \in 0..h - 1 : Passes(k, s, name[drive], r)
        BY DEF Passed
      <4>2. Here' = h
        BY <3>3
      <4> HIDE DEF k, s, root, h
      <4> QED BY <2>4, <4>1, <4>2 DEF Passed
    <3>5. vol.type = "fat32" => (Offset \div SS) \div vol.csize = q \div vol.csize
      <4>1. SUFFICES ASSUME vol.type = "fat32", NewSector
                     PROVE  (q + 1) \div vol.csize = q \div vol.csize
        BY <1>3
      <4>2. dj.clust # 0
        <5>1. vol.n_fatent \in Nat
          BY <1>1, VolumeInside DEF RInv, WInv, VInv
        <5> QED BY <1>2, <4>1, <5>1 DEF EntryAt
      <4>3. (q + 1) % vol.csize # 0
        BY <1>3, <2>7, <4>1, <4>2 DEF NewClust
      <4> QED BY <1>1, <1>2, <4>3, NextQuotient
    <3>6. Sought'
      <4>1. vol'.type = "fat32" =>
              dj'.clust = RootCluster(card'[pdrv'], vol'.volbase)[(dj'.dptr \div SS) \div vol'.csize]
        BY <1>1, <1>3, <2>2, <2>4, <3>2, <3>5
      <4> QED BY <3>1, <3>4, <4>1 DEF Sought
    <3> HIDE DEF k, s, root
    <3> QED BY <1>1, <1>4, <2>1, <2>2, <2>5, <3>1, <3>2, <3>6, GoesOn DEF TypeOK
  <2> QED BY <2>6, <2>7
<1> QED BY <1>5, <1>6

\* The entry at a place: the end, the image, or one to pass.
LEMMA RightLook == ASSUME RInv, Look PROVE Right'
<1>1. pc = "look" /\ Loaded(win, dj.sect) /\ UNCHANGED <<pdrv, Fsid, noinit>>
  BY DEF Look, disk
<1>2. DiskTypes'
  BY <1>1, LookTypes
<1>3. /\ AtEnd <=> ~Used(card[pdrv], vol.volbase, Here)
      /\ IsFile <=> Named(card[pdrv], vol.volbase, name[drive], Here)
      /\ Entry = DirAt(card[pdrv], PlaceSector(card[pdrv], vol.volbase, Here))[PlaceIndex(Here)]
  BY <1>1, EntryRead
<1>4. Passed(Here) /\ Here \in Nat
  BY <1>1, SearchIs
<1>5. CASE AtEnd
  <2>1. Refused(FALSE)
    BY <1>5 DEF Look
  <2> HIDE DEF Here
  <2> QED BY <1>1, <1>2, <1>3, <1>4, <1>5, <2>1, RightNotFound
<1>6. CASE ~AtEnd /\ IsFile
  <2>1. Opened
    BY <1>6 DEF Look
  <2>2. CASE Refused(FALSE)
    <3>1. Entry.attr \in {"directory", "readonly"}
      BY <1>1, <2>1, <2>2, CallIs DEF Opened, Refused
    <3>2. Entry.attr # "file"
      BY <3>1
    <3> HIDE DEF Here
    <3> QED BY <1>1, <1>2, <1>3, <1>4, <1>6, <2>2, <3>2, RightNotFound
  <2>3. CASE ~Refused(FALSE)
    BY <1>1, <1>6, <2>1, <2>3, RightOpened
  <2> QED BY <2>2, <2>3
<1>7. CASE ~AtEnd /\ ~IsFile
  <2>1. NextEntry
    BY <1>7 DEF Look
  <2>2. Passed(Here + 1)
    BY <1>1, <1>3, <1>7, OneMorePassed DEF Passes
  <2> QED BY <1>1, <2>1, <2>2, RightNextEntry
<1> QED BY <1>5, <1>6, <1>7

\* Every failure leaves the disk as it is, and nothing in the window.
LEMMA RightFailure == ASSUME RInv, LookFails \/ FollowFails PROVE Right'
<1>1. pc # "idle" /\ win' = NoWindow /\ Refused(TRUE) /\ UNCHANGED <<pdrv, Fsid, noinit>>
  BY DEF LookFails, FollowFails, NotLoaded, disk
<1>2. NoSector \in Nat /\ TypeOK
  BY <1>1, CallIs, SizeAssumption, TypeAssumption DEF NoSector
<1>3. DiskTypes'
  BY <1>1, <1>2 DEF DiskTypes, NoWindow, TypeOK
<1> QED BY <1>1, <1>3, RightRefused

\* The cluster behind a link is the next of the directory; where there is none it ends.
LEMMA RightFollow == ASSUME RInv, Follow PROVE Right'
<1> DEFINE k == card[pdrv]
           s == vol.volbase
           root == RootCluster(k, s)
           next == LinkAt(k, s, dj.clust)
<1>1. pc = "link" /\ Loaded(win, LinkSector) /\ UNCHANGED <<pdrv, Fsid, noinit>>
  BY DEF Follow, disk
<1>2. /\ drive \in Drives /\ name[drive] \in Images /\ last_drive = None /\ None \notin Drives
      /\ pdrv = drive /\ k \in Cards /\ pdrv \notin noinit /\ TypeOK
      /\ mbr \in [1..4 -> Nat] /\ fs_type # "none" /\ fs_type = vol.type
      /\ (~failed => s = FirstVolume(k))
      /\ Here \in Nat /\ vol.csize \in Nat \ {0}
      /\ (vol.type = "fat32" => dj.clust = root[(dj.dptr \div SS) \div vol.csize])
  BY <1>1, SearchIs
<1>3. PICK q, e \in Nat : EntryAt(q, e) /\ Here = PerSector * q + e
  BY <1>1, HereIs
<1>4. NewSector /\ dj.clust # 0 /\ (Offset \div SS) % vol.csize = 0
  BY <1>1 DEF RInv, WInv, NewClust
<1>5. /\ Offset \in Nat /\ Offset \div SZDIRE = Here + 1 /\ dj.dptr \div SS = q
      /\ Offset \div SS = q + 1
      /\ PlaceSector(k, s, Here + 1) = RootSectorAt(k, s, q + 1)
  BY <1>1, <1>3, <1>4, NextPlace
<1>6. dj.clust \in 2..vol.n_fatent - 1 /\ vol.type = "fat32"
  BY <1>3, <1>4 DEF EntryAt
<1>7. Passed(Here + 1) /\ Offset < MAX_DIR
  BY <1>1 DEF RInv, Right, Sought
<1>8. vol.n_fatent \in Nat
  BY <1>2, VolumeInside DEF RInv, WInv, VInv
<1>9. next \in Nat
  BY <1>1, LinkIsNumber DEF RInv, WInv, VInv
<1>10. root[(q + 1) \div vol.csize] = IF next \in 2..vol.n_fatent - 1 THEN next ELSE 0
  <2>1. (q + 1) \div vol.csize = (q \div vol.csize) + 1 /\ q \div vol.csize \in Nat
    <3> DEFINE n == vol.csize
    <3>1. n \in Nat \ {0} /\ q \in Nat /\ (q + 1) % n = 0
      BY <1>2, <1>3, <1>4, <1>5
    <3> HIDE DEF n
    <3>2. (q + 1) \div n = (q \div n) + 1
      BY <3>1, NextQuotient
    <3>3. q \div n \in Nat
      BY <3>1, Quotient
    <3> QED BY <3>2, <3>3 DEF n
  <2> DEFINE m == q \div vol.csize
  <2>2. m \in Nat /\ dj.clust = root[m] /\ (q + 1) \div vol.csize = m + 1
    BY <1>2, <1>5, <1>6, <2>1
  <2> HIDE DEF m
  <2>3. root[m + 1] = LET c == LinkAt(k, s, root[m]) IN
                      IF c \in 2..vol.n_fatent - 1 THEN c ELSE 0
    BY <1>2, <2>2, ClusterOf DEF RInv, WInv, VInv
  <2> HIDE DEF root
  <2> QED BY <2>2, <2>3
<1>11. DiskTypes'
  <2>1. LinkSector \in Nat
    <3>1. vol.volbase \in Nat /\ vol.volbase <= LinkSector
      BY <1>2, <1>6, VolumeInside DEF RInv, WInv, VInv, LinkSector
    <3>2. LinkSector \in Int
      BY <1>2, <1>6, LinkIsSector DEF RInv, WInv, VInv
    <3> QED BY <3>1, <3>2
  <2>2. win'.card \in {win.card, k} /\ win'.sect \in {win.sect, LinkSector}
    BY <1>1 DEF Loaded
  <2> HIDE DEF k, s, root, next
  <2>3. k \in Cards /\ win.card \in Cards \cup {NoCard} /\ win.sect \in Nat
    BY <1>2 DEF TypeOK
  <2>4. win'.card \in Cards \cup {NoCard} /\ win'.sect \in Nat
    BY <2>1, <2>2, <2>3
  <2> QED BY <1>1, <1>2, <2>4 DEF DiskTypes, TypeOK
<1> HIDE DEF next
<1>12. CASE next <= 1 \/ next >= vol.n_fatent
  <2>1. Refused(FALSE)
    BY <1>12 DEF Follow, next
  <2>2. root[(q + 1) \div vol.csize] = 0
    BY <1>8, <1>9, <1>10, <1>12
  <2>3. RootSectorAt(k, s, q + 1) = 0
    <3> DEFINE q1 == q + 1
               c == RootCluster(card[pdrv], vol.volbase)[q1 \div vol.csize]
    <3>1. q1 \in Nat /\ c = 0
      BY <1>3, <2>2
    <3> HIDE DEF q1
    <3>2. RootSectorAt(card[pdrv], vol.volbase, q1) =
             IF vol.type # "fat32"
               THEN IF q1 < vol.n_rootdir \div PerSector THEN vol.dirbase + q1 ELSE 0
               ELSE IF c = 0 THEN 0 ELSE clst2sect(vol, c) + (q1 % vol.csize)
      BY <1>2, <3>1, SectorAt DEF RInv, WInv, VInv
    <3> HIDE DEF c
    <3>3. RootSectorAt(card[pdrv], vol.volbase, q1) = 0
      BY <1>6, <3>1, <3>2
    <3> QED BY <3>3 DEF q1
  <2>4. ~Used(k, s, Here + 1) /\ Here + 1 \in Nat
    BY <1>2, <1>5, <2>3 DEF Used
  <2> HIDE DEF Here
  <2> QED BY <1>1, <1>7, <1>11, <2>1, <2>4, RightNotFound
<1>13. CASE ~(next <= 1 \/ next >= vol.n_fatent)
  <2>1. /\ Goto("look") /\ UNCHANGED <<fs_type, id, vol, fsi, part, mbr, failed>>
        /\ dj' = [clust |-> next, sect |-> clst2sect(vol, next), dptr |-> Offset]
    BY <1>13 DEF Follow, volume, next
  <2>2. dj'.clust = next /\ dj'.sect = clst2sect(vol, next) /\ dj'.dptr = Offset
    BY <2>1
  <2>3. next \in 2..vol.n_fatent - 1 /\ clst2sect(vol, next) \in Nat
    <3>1. next \in 2..vol.n_fatent - 1
      BY <1>8, <1>9, <1>13
    <3> QED BY <1>2, <3>1, VolumeInside DEF RInv, WInv, VInv
  <2>4. card' = card /\ name' = name /\ drive' = drive /\ last_drive' = None /\ pc' = "look"
    BY <1>2, <2>1 DEF Goto, sketch
  <2>5. card'[pdrv'] = k /\ vol'.volbase = s /\ name'[drive'] = name[drive]
    BY <1>1, <2>1, <2>4
  <2>6. Found'
    <3> HIDE DEF k, s, root
    <3> QED BY <1>2, <2>1, <2>4, <2>5 DEF Found
  <2>7. Here' = Here + 1
    BY <1>5, <2>2 DEF Here
  <2>8. Passed(Here)'
    <3> DEFINE h == Here + 1
    <3>1. \A r \in 0..h - 1 : Passes(k, s, name[drive], r)
      BY <1>7 DEF Passed
    <3>2. Here' = h
      BY <2>7
    <3> HIDE DEF k, s, root, h
    <3> QED BY <2>5, <3>1, <3>2 DEF Passed
  <2>9. Sought'
    <3>1. root[(Offset \div SS) \div vol.csize] = next
      BY <1>5, <1>10, <2>3
    <3>2. vol'.type = "fat32" =>
            dj'.clust = RootCluster(card'[pdrv'], vol'.volbase)[(dj'.dptr \div SS) \div vol'.csize]
      BY <2>1, <2>2, <2>5, <3>1
    <3> QED BY <2>4, <2>8, <3>2 DEF Sought
  <2>10. dj'.sect \in Nat /\ dj'.dptr < MAX_DIR
    BY <1>7, <2>2, <2>3
  <2> HIDE DEF k, s, root
  <2> QED BY <1>1, <1>2, <1>11, <2>1, <2>6, <2>9, <2>10, GoesOn DEF TypeOK
<1> QED BY <1>12, <1>13

\* Nothing changes.
LEMMA RightStutter == ASSUME RInv, UNCHANGED vars PROVE Right'
<1>1. /\ UNCHANGED <<card, last_drive, name, FatFs, fs_type, pdrv, id, vol, fsi, win, Fsid, noinit>>
      /\ UNCHANGED <<fil, pc, drive, part, mbr, dj, asked, failed, result>>
  BY DEF vars
<1>2. Kept' /\ Found'
  BY <1>1 DEF RInv, Right, Kept, TypeOK, Found
<1>3. Sought'
  BY <1>1 DEF RInv, Right, Sought, Here, Passed, Offset
<1>4. OpenedIsRight' /\ ErrorIsRight'
  BY <1>1 DEF RInv, Right, OpenedIsRight, ErrorIsRight
<1> QED BY <1>2, <1>3, <1>4 DEF Right

\* Every step.
LEMMA RightNext == ASSUME RInv, [Next]_vars PROVE Right'
<1>1. ASSUME NEW d \in Drives, Swap(d) PROVE Right'  BY <1>1, RightSwap
<1>2. ASSUME NEW d \in Drives, Access(d) PROVE Right'  BY <1>2, RightAccess
<1>3. ASSUME NEW d \in Drives, NEW n \in Images, Initialize(d, n) PROVE Right'
  BY <1>3, RightInitialize
<1>4. CASE Unmount  BY <1>4, RightUnmount
<1>5. CASE MountVolume  BY <1>5, RightMountVolume
<1>6. CASE NotReady  BY <1>6, RightNotReady
<1>7. CASE CheckSector  BY <1>7, RightCheckSector
<1>8. CASE CheckFails  BY <1>8, RightCheckFails
<1>9. CASE NoPartition  BY <1>9, RightNoPartition
<1>10. CASE Analyse  BY <1>10, RightAnalyse
<1>11. CASE ReadInfo  BY <1>11, RightReadInfo
<1>12. CASE Rewind  BY <1>12, RightRewind
<1>13. CASE Look  BY <1>13, RightLook
<1>14. CASE Follow  BY <1>14, RightFollow
<1>15. CASE LookFails \/ FollowFails  BY <1>15, RightFailure
<1>16. CASE UNCHANGED vars  BY <1>16, RightStutter
<1> QED BY <1>1, <1>2, <1>3, <1>4, <1>5, <1>6, <1>7, <1>8, <1>9, <1>10, <1>11, <1>12, <1>13,
           <1>14, <1>15, <1>16 DEF Next, Step

\* At the start nothing is open and nothing failed.
LEMMA RightInit == Init => Right
<1> SUFFICES ASSUME Init PROVE Right
  OBVIOUS
<1>1. 0 \in 0..Mounts - 1 /\ 0 < MAX_DIR /\ None \notin Drives
  BY NoDrive, BoundAssumption
<1>2. fil.fs = FALSE /\ fil.id = 0 /\ dj.sect = 0 /\ dj.dptr = 0 /\ NoTable \in [1..4 -> Nat]
  BY DEF Init, NoFile, NoDir, NoTable
<1>3. win.card = NoCard /\ win.sect = 0
  BY DEF Init
<1>4. TypeOK
  <2>1. /\ card \in [Drives -> Cards] /\ name \in [Drives -> Images \cup {None}]
        /\ last_drive = None /\ FatFs = {} /\ noinit = Drives /\ pdrv = 0 /\ fs_type = "none"
        /\ fsi = FALSE
    BY DEF Init
  <2>2. /\ id = 0 /\ Fsid = 0 /\ pc = "idle" /\ drive = None /\ part = 0
        /\ asked = None /\ failed = FALSE /\ result = "none"
    BY DEF Init
  <2>3. /\ last_drive \in Drives \cup {None} /\ FatFs \subseteq Drives /\ noinit \subseteq Drives
        /\ pdrv \in Drives \cup {0} /\ fs_type \in {"none", "fat12", "fat16", "fat32"} /\ fsi \in BOOLEAN
    BY <2>1
  <2>4. /\ id \in 0..Mounts - 1 /\ Fsid \in 0..Mounts - 1 /\ drive \in Drives \cup {None}
        /\ (drive = None <=> pc = "idle") /\ part \in 0..4
        /\ pc \in {"idle", "mount", "check", "analyse", "info", "rewind", "look", "link"}
        /\ asked \in Drives \cup {None} /\ failed \in BOOLEAN /\ result \in {"none", "ok", "error"}
    <3>1. id \in 0..Mounts - 1 /\ Fsid \in 0..Mounts - 1
      BY <2>2, BoundAssumption
    <3>2. drive \in Drives \cup {None} /\ (drive = None <=> pc = "idle") /\ part \in 0..4
      BY <2>2
    <3>3. pc \in {"idle", "mount", "check", "analyse", "info", "rewind", "look", "link"}
      BY <2>2
    <3>4. asked \in Drives \cup {None} /\ failed \in BOOLEAN
      BY <2>2
    <3>5. result \in {"none", "ok", "error"}
      BY <2>2
    <3> QED BY <3>1, <3>2, <3>3, <3>4, <3>5
  <2>5. /\ win.card \in Cards \cup {NoCard} /\ win.sect \in Nat /\ fil.fs \in BOOLEAN
        /\ fil.id \in 0..Mounts - 1 /\ dj.sect \in Nat /\ dj.dptr < MAX_DIR
    <3>1. win.card \in Cards \cup {NoCard} /\ win.sect \in Nat
      BY <1>3
    <3>2. fil.fs \in BOOLEAN
      BY <1>2
    <3>3. fil.id \in 0..Mounts - 1
      BY <1>2, BoundAssumption
    <3>4. dj.sect \in Nat /\ dj.dptr < MAX_DIR
      BY <1>2, BoundAssumption
    <3> QED BY <3>1, <3>2, <3>3, <3>4
  <2> QED BY <2>1, <2>3, <2>4, <2>5 DEF TypeOK
<1>5. Kept
  BY <1>1, <1>2, <1>4 DEF Init, Kept
<1> QED BY <1>1, <1>5 DEF Init, Right, Found, Sought, OpenedIsRight, ErrorIsRight

\* THEOREM: what a drive has open is the file its image number names, the first of that
\* name in the root of the card in it, on the first volume unless an access failed; and a
\* call that fails with no failing access was for a card without such a file.
THEOREM OpenedRight == Spec => []OpenIsRight
<1>1. Init => RInv
  BY InvInit, DriveInit, WindowInit, RightInit DEF RInv, WInv, VInv, Walk
<1>2. RInv /\ [Next]_vars => RInv'
  BY InvNext, DriveNext, WindowNext, RightNext DEF RInv, WInv, VInv, Walk
<1>3. RInv => OpenIsRight
  BY DEF RInv, Right, Kept, OpenIsRight
<1> QED BY <1>1, <1>2, <1>3, PTL DEF Spec
===============================================================================
