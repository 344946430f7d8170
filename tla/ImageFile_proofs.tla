-------------------------- MODULE ImageFile_proofs --------------------------
(***************************************************************************)
(* Proofs about the image file: what the card holds is sound at every      *)
(* moment, the FIL knows where it is, an access that succeeds transfers    *)
(* the block asked for, and nothing but a write of a block changes it.     *)
(***************************************************************************)
EXTENDS ImageFile, SequenceTheorems, FiniteSetTheorems, WellFoundedInduction, TLAPS

-----------------------------------------------------------------------------
(* Numbers. *)

LEMMA Quotient ==
    ASSUME NEW a \in Nat, NEW b \in Nat \ {0}
    PROVE  /\ a \div b \in Nat /\ a % b \in 0..b - 1 /\ a = b * (a \div b) + (a % b)
           /\ b * (a \div b) \in Nat /\ b * (a \div b) <= a
OBVIOUS

LEMMA Product ==
    ASSUME NEW a \in Nat, NEW b \in Nat, NEW c \in Nat, a <= b
    PROVE  c * a <= c * b /\ c * a \in Nat /\ c * b \in Nat
OBVIOUS

LEMMA Succeeds ==
    ASSUME NEW a \in Nat, NEW c \in Nat
    PROVE  c * (a + 1) = c * a + c /\ c * a \in Nat /\ c * (a + 1) \in Nat
OBVIOUS

LEMMA Divided ==
    ASSUME NEW n \in Nat \ {0}, NEW q \in Nat, NEW r \in Nat, r < n
    PROVE  (n * q + r) \div n = q /\ (n * q + r) % n = r
<1> DEFINE a == n * q + r
           p == a \div n
<1>1. n * q \in Nat /\ a \in Nat /\ a = n * q + r
  OBVIOUS
<1> HIDE DEF a
<1>2. p \in Nat /\ a % n \in 0..n - 1 /\ a = n * p + (a % n) /\ n * p \in Nat
  BY <1>1, Quotient
<1> HIDE DEF p
<1>3. ~(p < q)
  <2>1. SUFFICES ASSUME p + 1 <= q PROVE FALSE  BY <1>2
  <2>2. n * (p + 1) <= n * q /\ n * (p + 1) = n * p + n  BY <1>2, <2>1, Product, Succeeds
  <2> QED BY <1>1, <1>2, <2>2
<1>4. ~(q < p)
  <2>1. SUFFICES ASSUME q + 1 <= p PROVE FALSE  BY <1>2
  <2>2. n * (q + 1) <= n * p /\ n * (q + 1) = n * q + n  BY <1>2, <2>1, Product, Succeeds
  <2> QED BY <1>1, <1>2, <2>2
<1>5. p = q  BY <1>2, <1>3, <1>4
<1> QED BY <1>1, <1>2, <1>5 DEF a, p

\* The last sector of the r that follow j clusters is in the next cluster.
LEMMA InNext ==
    ASSUME NEW j \in Nat, NEW r \in 1..C
    PROVE  /\ C * j + (r - 1) = (C * j + r) - 1 /\ (C * j + (r - 1)) \div C = j
           /\ C * j + r \in Nat /\ C * j + r > 0
<1>1. C \in Nat \ {0} /\ C * j \in Nat /\ r - 1 \in Nat /\ r - 1 < C
  BY SizesAssumption
<1>2. (C * j + (r - 1)) \div C = j
  BY <1>1, Divided, Zenon
<1>3. C * j + (r - 1) = (C * j + r) - 1
  BY <1>1
<1> QED BY <1>1, <1>2, <1>3

\* The sector before the boundary behind j clusters is in the j-th of them.
LEMMA AtBoundary ==
    ASSUME NEW j \in Nat
    PROVE  /\ (C * j) % C = 0 /\ (C * j) \div C = j /\ C * j \in Nat
           /\ j > 0 => C * j > 0 /\ (C * j - 1) \div C + 1 = j
           /\ j = 0 => C * j = 0
<1>1. C \in Nat \ {0} /\ C * j \in Nat /\ 0 \in Nat /\ 0 < C /\ C * j + 0 = C * j
  BY SizesAssumption
<1>2. (C * j + 0) % C = 0 /\ (C * j + 0) \div C = j
  BY <1>1, Divided, Zenon
<1>3. CASE j > 0
  <2>1. j - 1 \in Nat /\ C * ((j - 1) + 1) = C * (j - 1) + C /\ (j - 1) + 1 = j
    BY <1>1, <1>3, Succeeds
  <2>2. (C * (j - 1) + C - 1) \div C = j - 1
    BY <1>1, <2>1, InNext
  <2>3. C * j = C * (j - 1) + C /\ C * (j - 1) \in Nat
    BY <1>1, <2>1, Succeeds
  <2>4. C * j > 0
    BY <1>1, <2>3
  <2> QED BY <1>1, <1>2, <1>3, <2>1, <2>2, <2>3, <2>4
<1>4. CASE j = 0
  BY <1>1, <1>2, <1>4
<1> QED BY <1>3, <1>4

\* The sector p of a file, and the one before it.
LEMMA InCluster ==
    ASSUME NEW p \in Nat, NEW l \in Nat
    PROVE  /\ p \div C \in Nat /\ p % C \in 0..C - 1 /\ p = C * (p \div C) + (p % C)
           /\ p % C = 0 => p = C * (p \div C)
           /\ p % C # 0 => p > 0 /\ (p - 1) \div C = p \div C
           /\ p < C * l => p \div C < l
           /\ p <= C * l /\ p % C # 0 => p \div C < l
           /\ p > 0 /\ p <= C * l => (p - 1) \div C \in 0..l - 1
           /\ p \div C < l => p + 1 <= C * l
<1> DEFINE q == p \div C
           r == p % C
<1>1. C \in Nat \ {0} /\ q \in Nat /\ r \in 0..C - 1 /\ p = C * q + r /\ C * q \in Nat
  BY SizesAssumption, Quotient
<1> HIDE DEF q, r
<1>2. r # 0 => (p - 1) \div C = q
  <2>1. SUFFICES ASSUME r # 0 PROVE (p - 1) \div C = q  OBVIOUS
  <2>2. r - 1 \in Nat /\ r - 1 < C /\ p - 1 = C * q + (r - 1)  BY <1>1, <2>1
  <2>3. (C * q + (r - 1)) \div C = q  BY <1>1, <2>2, Divided, Zenon
  <2> QED BY <2>2, <2>3
<1>3. p < C * l => q < l
  <2>1. l <= q => C * l <= C * q  BY <1>1, Product
  <2> QED BY <1>1, <2>1
<1>4. p <= C * l /\ r # 0 => q < l
  <2>1. l <= q => C * l <= C * q  BY <1>1, Product
  <2> QED BY <1>1, <2>1
<1>5. p > 0 /\ p <= C * l => (p - 1) \div C \in 0..l - 1
  <2>1. SUFFICES ASSUME p > 0, p <= C * l PROVE (p - 1) \div C \in 0..l - 1  OBVIOUS
  <2> DEFINE s == (p - 1) \div C
  <2>2. p - 1 \in Nat  BY <2>1
  <2>3. s \in Nat /\ C * s <= p - 1 /\ C * s \in Nat  BY <1>1, <2>2, Quotient
  <2> HIDE DEF s
  <2>4. l <= s => C * l <= C * s  BY <1>1, <2>3, Product
  <2>5. s < l  BY <1>1, <2>1, <2>3, <2>4
  <2> QED BY <2>3, <2>5 DEF s
<1>6. q < l => p + 1 <= C * l
  <2>1. q < l => C * (q + 1) <= C * l /\ C * (q + 1) = C * q + C
    BY <1>1, Product, Succeeds
  <2> QED BY <1>1, <2>1
<1> QED BY <1>1, <1>2, <1>3, <1>4, <1>5, <1>6 DEF q, r

\* A set of numbers has a smallest one.
LEMMA Smallest ==
    ASSUME NEW T, T \subseteq Nat, T # {}
    PROVE  \E x \in T : \A y \in T : x <= y
<1> DEFINE R == {ss \in Nat \X Nat : ss[1] < ss[2]}
<1>1. IsWellFoundedOn(R, Nat)
  BY NatLessThanWellFounded DEF OpToRel
<1>2. \A x, y \in Nat : <<y, x>> \in R <=> y < x
  OBVIOUS
<1> HIDE DEF R
<1>3. PICK x \in T : \A y \in T : ~(<<y, x>> \in R)
  BY <1>1, WFMin, Zenon
<1>4. \A y \in T : x \in Nat /\ y \in Nat /\ ~(y < x)
  BY <1>2, <1>3
<1> QED BY <1>3, <1>4

\* The numbers of clusters, of sectors, and what is none.
LEMMA Numbers ==
    /\ N \in Nat \ {0} /\ C \in Nat \ {0} /\ E \in Nat \ {0}
    /\ Free = 0 /\ EOC = N + 2 /\ Unknown = N + 2 /\ DirSector = N + 3 /\ NoSector = N + 4
    /\ Free \notin Clusters /\ EOC \notin Clusters /\ Free # EOC /\ Clusters \subseteq Nat
    /\ \A c \in Clusters \cup {0} : FatSector(c) \in 0..N + 1
<1>1. N \in Nat \ {0} /\ C \in Nat \ {0} /\ E \in Nat \ {0}
  BY SizesAssumption
<1>2. ASSUME NEW c \in Clusters \cup {0} PROVE FatSector(c) \in 0..N + 1
  <2>1. c \in Nat /\ c <= N + 1  BY <1>1 DEF Clusters
  <2> DEFINE q == c \div E
  <2>2. q \in Nat /\ E * q <= c  BY <1>1, <2>1, Quotient
  <2> HIDE DEF q
  <2>3. q <= E * q  BY <1>1, <2>2
  <2>4. q \in 0..N + 1  BY <1>1, <2>1, <2>2, <2>3
  <2> QED BY <2>4 DEF q, FatSector
<1> QED BY <1>1, <1>2 DEF Free, EOC, Unknown, DirSector, NoSector, Clusters

-----------------------------------------------------------------------------
(* What holds at every moment. *)

\* The types of the card and the FATFS, and of the FIL and the access.
CardTypes ==
    /\ dfat \in [Clusters -> Entries] /\ fat \in [Clusters -> Entries]
    /\ dir \in [sclust : Clusters \cup {0}, size : Nat]
    /\ info \in [free : 0..N \cup {Unknown}, last : Clusters \cup {Unknown}]
    /\ data \in [Clusters -> [0..C - 1 -> Values]]
    /\ win \in 0..NoSector /\ wflag \in BOOLEAN /\ fsi \in BOOLEAN
    /\ free \in 0..N \cup {Unknown} /\ last \in Clusters \cup {Unknown}
    /\ chain \in Seq(Clusters)
FileTypes ==
    /\ fptr \in Nat /\ objsize \in Nat /\ ofs \in Nat /\ blk \in Blocks \cup {0}
    /\ clust \in Clusters \cup {0} /\ sclust \in Clusters \cup {0}
    /\ clst \in Clusters \cup {0} /\ got \in Clusters \cup {0}
    /\ modified \in BOOLEAN /\ err \in {"none", "disk", "int"}
    /\ pc \in {"closed", "ready", "seek", "chain", "link", "first", "next", "grown", "loop",
               "xfer", "put", "sync", "entry", "fsinfo"}
    /\ op \in {"none", "read", "write"} /\ buf \in Values
    /\ ret \in {"none", "first", "next", "grown"}
    /\ result \in {"none", "ok", "error", "closed"}

\* The first cluster of the file, 0 if it has none.
First(ch) == IF ch = <<>> THEN 0 ELSE ch[1]

\* In the FAT f the first k clusters of the file are a chain.
Ends(f, ch, k) == /\ \A i \in 1..k - 1 : f[ch[i]] = ch[i + 1]
                  /\ f[ch[k]] = EOC

NoDangling(f) == \A c \in Clusters : f[c] \in Clusters => f[f[c]] # Free

\* The FAT on the card is the FAT in memory as it was: nothing in it is newer.
Snapshot ==
    /\ ~wflag => dfat = fat
    /\ win = DirSector \/ pc = "closed" => ~wflag
    /\ pc \in {"closed", "entry", "fsinfo"} => dfat = fat
    /\ FreeIn(fat) \subseteq FreeIn(dfat)
    /\ NoDangling(fat) /\ NoDangling(dfat)

\* The file is a chain in memory, and long enough a part of it is one on the card.
Backed(f, d, ch) ==
    IF d.sclust = 0 THEN d.size = 0
    ELSE /\ ch # <<>> /\ d.sclust = ch[1]
         /\ \E k \in 1..Len(ch) : Ends(f, ch, k) /\ d.size <= C * k
Chained ==
    /\ IsChain(fat, chain)
    /\ Backed(dfat, dir, chain)
    /\ pc = "closed" => dir.sclust = First(chain)

\* What is of other files is used, is not of this one, and is as it was.
Owned ==
    \A c \in DOMAIN theirs :
       /\ c \in Clusters /\ \A i \in 1..Len(chain) : chain[i] # c
       /\ theirs[c].link # Free /\ fat[c] = theirs[c].link
       /\ dfat[c] = theirs[c].link /\ data[c] = theirs[c].data

\* The counts of free clusters are never too low.
Counted ==
    /\ Cardinality(FreeIn(fat)) <= free /\ Cardinality(FreeIn(dfat)) <= info.free
    /\ pc = "link" => Cardinality(FreeIn(fat)) < free

Full == free = 0 \/ FreeIn(fat) = {}

\* The size: the chain has room for it, the card has at most that much.
Sized ==
    pc # "closed" =>
       /\ dir.size <= objsize /\ objsize <= C * Len(chain)
       /\ sclust = 0 => objsize = 0

Calm == {"closed", "ready", "seek", "sync", "entry", "fsinfo"}

\* The FIL knows the first cluster, but for the moment in which there is a new one.
Started ==
    /\ err # "int" /\ (pc \notin Calm => err = "none") /\ (pc = "closed" => err = "none")
    /\ pc # "closed" => \/ sclust = First(chain)
                        \/ pc \in {"first", "grown"} /\ sclust = 0 /\ chain = <<got>>

\* The FIL is at the sector fptr, which is not beyond the end.
There == fptr <= objsize /\ (fptr > 0 => clust = chain[(fptr - 1) \div C + 1])

\* f_lseek() counts clusters from the j-th on; it stops where the disk is full.
Looping(j) ==
    /\ fptr = C * j /\ clst = clust
    /\ IF ofs = 0 THEN j = Len(chain) /\ j > 0 /\ clst = chain[j] /\ Full
       ELSE j < Len(chain) /\ clst = chain[j + 1] /\ fptr + ofs = blk

\* create_chain() is asked for the cluster behind the j-th.
Asking(j) ==
    /\ fptr = C * j /\ ret \in {"first", "next", "grown"}
    /\ j = 0 => sclust = 0 /\ clst = 0
    /\ j > 0 => clst = chain[j] /\ clust = chain[j]
    /\ ret = "first" => j = 0 /\ ofs = blk /\ ofs > 0
    /\ ret = "next" => j > 0 /\ ofs > 0 /\ fptr + ofs = blk
    /\ ret = "grown" => fptr <= objsize /\ (fptr # blk => Full /\ j = Len(chain))
    /\ pc = "link" =>
          /\ j = Len(chain) /\ j > 0 /\ got \in Clusters /\ fat[got] = EOC
          /\ \A i \in 1..Len(chain) : chain[i] # got
          /\ got \notin DOMAIN theirs /\ (ret = "grown" => fptr = blk)
    /\ pc \in {"first", "next", "grown"} =>
          /\ ret = pc
          /\ IF got = 0 THEN j = Len(chain) /\ Full
             ELSE j < Len(chain) /\ got = chain[j + 1] /\ (ret = "grown" => fptr = blk)

Positioned ==
    /\ pc = "closed" => fptr = 0
    /\ pc \in {"ready", "seek", "xfer"} /\ err = "none" => There
    /\ pc = "seek" => ofs = blk
    /\ pc = "xfer" => (fptr # blk => Full /\ fptr = C * Len(chain))
    /\ pc = "loop" => \E j \in 0..Len(chain) : Looping(j)
    /\ pc \in {"chain", "link", "first", "next", "grown"} => \E j \in 0..Len(chain) : Asking(j)
    /\ pc = "put" => /\ fptr = blk /\ fptr <= objsize
                     /\ fptr \div C < Len(chain) /\ clust = chain[fptr \div C + 1]

\* What the card has not is marked as modified, or is about to be.
Marked ==
    /\ pc = "closed" => ~modified
    /\ pc # "closed" =>
          /\ modified \/ objsize = dir.size
          /\ \/ modified \/ err # "none" \/ sclust = dir.sclust \/ pc = "put"
             \/ objsize = 0 /\ pc = "loop" /\ fptr + ofs > 0
             \/ objsize = 0 /\ pc \in {"chain", "link", "next"} /\ ret = "next"
    /\ pc = "fsinfo" => dir = [sclust |-> sclust, size |-> objsize]

Volume == CardTypes /\ Snapshot /\ Chained /\ Owned /\ Counted
File   == FileTypes /\ Sized /\ Started /\ Positioned /\ Marked
IInv   == Volume /\ File

-----------------------------------------------------------------------------
(* Chains. *)

Distinct(ch) == \A i, j \in 1..Len(ch) : ch[i] = ch[j] => i = j

LEMMA InChain ==
    ASSUME NEW ch \in Seq(Clusters)
    PROVE  /\ Len(ch) \in Nat /\ (ch = <<>> <=> Len(ch) = 0)
           /\ \A i \in 1..Len(ch) : ch[i] \in Clusters
           /\ First(ch) = IF Len(ch) = 0 THEN 0 ELSE ch[1]
<1>1. Len(ch) \in Nat /\ (ch # <<>> => Len(ch) # 0) /\ Len(<<>>) = 0
  BY EmptySeq, LenProperties
<1> QED BY <1>1, ElementOfSeq DEF First

\* A chain is the longest part of itself that can be followed.
LEMMA EndsChain ==
    ASSUME NEW f, NEW ch \in Seq(Clusters), IsChain(f, ch)
    PROVE  /\ Distinct(ch) /\ (Len(ch) > 0 => Ends(f, ch, Len(ch)))
           /\ \A i \in 1..Len(ch) : f[ch[i]] # Free
<1>1. Len(ch) \in Nat /\ \A i \in 1..Len(ch) : ch[i] \in Clusters
  BY InChain
<1>2. ASSUME NEW i \in 1..Len(ch) PROVE f[ch[i]] # Free
  <2>1. CASE i = Len(ch)
    BY <1>1, <2>1, Numbers DEF IsChain
  <2>2. CASE i # Len(ch)
    <3>1. i \in 1..Len(ch) - 1 /\ i + 1 \in 1..Len(ch)
      BY <1>1, <2>2
    <3> QED BY <1>1, <3>1, Numbers DEF IsChain
  <2> QED BY <2>1, <2>2
<1> QED BY <1>1, <1>2 DEF IsChain, Distinct, Ends

\* Where a chain ends is one place.
LEMMA EndsOnce ==
    ASSUME NEW f, NEW ch \in Seq(Clusters), NEW k \in 1..Len(ch), NEW l \in 1..Len(ch),
           Ends(f, ch, k), \A i \in 1..l - 1 : f[ch[i]] = ch[i + 1],
           l < Len(ch) => f[ch[l]] # ch[l + 1]
    PROVE  l = k
<1>1. Len(ch) \in Nat /\ \A i \in 1..Len(ch) : ch[i] \in Clusters
  BY InChain
<1>2. CASE k < l
  <2>1. k \in 1..l - 1 /\ k + 1 \in 1..Len(ch)  BY <1>1, <1>2
  <2> QED BY <1>1, <2>1, Numbers DEF Ends
<1>3. CASE l < k
  <2>1. l \in 1..k - 1 /\ l < Len(ch)  BY <1>1, <1>3
  <2> QED BY <2>1 DEF Ends
<1> QED BY <1>1, <1>2, <1>3

\* What can be followed on a card, of a file that is backed by it.
LEMMA OnCardIs ==
    ASSUME NEW f, NEW d, NEW ch \in Seq(Clusters), d.sclust # 0,
           NEW k \in 1..Len(ch), Ends(f, ch, k)
    PROVE  OnCard(f, d, ch) = SubSeq(ch, 1, k)
<1> DEFINE Q(l) == /\ \A i \in 1..l - 1 : f[ch[i]] = ch[i + 1]
                   /\ l < Len(ch) => f[ch[l]] # ch[l + 1]
<1>1. Q(k)
  <2>1. Len(ch) \in Nat /\ \A i \in 1..Len(ch) : ch[i] \in Clusters
    BY InChain
  <2>2. k < Len(ch) => k + 1 \in 1..Len(ch)
    BY <2>1
  <2> QED BY <2>1, <2>2, Numbers DEF Ends
<1>2. \A l \in 1..Len(ch) : Q(l) => l = k
  BY EndsOnce
<1>3. OnCard(f, d, ch) = SubSeq(ch, 1, CHOOSE l \in 1..Len(ch) : Q(l))
  BY DEF OnCard
<1> HIDE DEF Q
<1>4. (CHOOSE l \in 1..Len(ch) : Q(l)) = k
  BY <1>1, <1>2
<1> QED BY <1>3, <1>4

\* It is a part of the chain, a chain itself, and long enough for the size.
LEMMA OnCardSound ==
    ASSUME NEW f, NEW d, NEW ch \in Seq(Clusters), Distinct(ch), Backed(f, d, ch),
           d.sclust \in Clusters \cup {0}
    PROVE  LET o == OnCard(f, d, ch) IN
           /\ o \in Seq(Clusters) /\ IsChain(f, o) /\ Backed(f, d, o)
           /\ d.sclust = First(o) /\ d.size <= C * Len(o)
           /\ Len(o) <= Len(ch) /\ \A i \in 1..Len(o) : o[i] = ch[i]
           /\ Len(o) > 0 => Len(o) \in 1..Len(ch) /\ Ends(f, ch, Len(o))
<1> DEFINE o == OnCard(f, d, ch)
<1>0. Len(ch) \in Nat /\ \A i \in 1..Len(ch) : ch[i] \in Clusters
  BY InChain
<1>1. CASE d.sclust = 0
  <2>1. o = <<>> /\ d.size = 0 /\ Len(o) = 0 /\ o \in Seq(Clusters)
    BY <1>1 DEF OnCard, Backed
  <2> HIDE DEF o
  <2>2. C * Len(o) = 0
    BY <2>1, Numbers
  <2> QED BY <1>0, <1>1, <2>1, <2>2 DEF IsChain, Backed, First, o
<1>2. CASE d.sclust # 0
  <2>1. PICK k \in 1..Len(ch) : Ends(f, ch, k) /\ d.size <= C * k
    BY <1>2 DEF Backed
  <2>2. o = SubSeq(ch, 1, k)
    BY <1>2, <2>1, OnCardIs
  <2>3. \A i \in 1..k : ch[i] \in Clusters
    BY <1>0, <2>1
  <2>4. o \in Seq(Clusters) /\ Len(o) = k /\ \A i \in 1..k : o[i] = ch[i]
    <3>1. 1 \in Int /\ k \in Int /\ 1 <= k
      BY <1>0, <2>1
    <3>2. /\ SubSeq(ch, 1, k) \in Seq(Clusters)
          /\ Len(SubSeq(ch, 1, k)) = IF 1 <= k THEN k - 1 + 1 ELSE 0
          /\ \A i \in 1..k - 1 + 1 : SubSeq(ch, 1, k)[i] = ch[1 + i - 1]
      BY <2>3, <3>1, SubSeqProperties
    <3> QED BY <2>2, <3>1, <3>2
  <2> HIDE DEF o
  <2>5. /\ \A i \in 1..k - 1 : f[o[i]] = o[i + 1]
        /\ f[o[k]] = EOC
    BY <1>0, <2>1, <2>4 DEF Ends
  <2>6. IsChain(f, o)
    BY <1>0, <2>1, <2>3, <2>4, <2>5 DEF IsChain, Distinct
  <2>7. o # <<>> /\ d.sclust = o[1]
    BY <1>2, <2>4, InChain DEF Backed
  <2>8. Backed(f, d, o)
    BY <1>0, <1>2, <2>1, <2>4, <2>5, <2>7 DEF Backed, Ends
  <2> QED BY <1>0, <2>1, <2>4, <2>6, <2>7, <2>8 DEF First, o
<1> QED BY <1>1, <1>2

\* The chain in memory is on the card as soon as the FAT is.
LEMMA BackedNow ==
    ASSUME NEW f0, NEW f, NEW d, NEW ch \in Seq(Clusters), Backed(f0, d, ch), IsChain(f, ch),
           d.size <= C * Len(ch)
    PROVE  Backed(f, d, ch)
<1>1. CASE d.sclust = 0
  BY <1>1 DEF Backed
<1>2. CASE d.sclust # 0
  <2>1. ch # <<>> /\ d.sclust = ch[1]
    BY <1>2 DEF Backed
  <2>2. Len(ch) \in 1..Len(ch)
    BY <2>1, InChain
  <2>3. Ends(f, ch, Len(ch))
    BY <2>2, EndsChain
  <2> QED BY <1>2, <2>1, <2>2, <2>3 DEF Backed
<1> QED BY <1>1, <1>2

LEMMA FreeCounts ==
    ASSUME NEW f
    PROVE  /\ IsFiniteSet(FreeIn(f)) /\ Cardinality(FreeIn(f)) \in 0..N
           /\ \A S \in SUBSET FreeIn(f) : Cardinality(S) \in Nat /\ Cardinality(S) <= Cardinality(FreeIn(f))
           /\ \A c \in FreeIn(f) : Cardinality(FreeIn(f) \ {c}) = Cardinality(FreeIn(f)) - 1
<1>1. N \in Nat /\ 2 \in Int /\ N + 1 \in Int
  BY Numbers
<1> DEFINE l == 2
           h == N + 1
<1>2. l \in Int /\ h \in Int
  BY <1>1
<1>3. IsFiniteSet(Clusters) /\ Cardinality(Clusters) = N
  <2>1. Clusters = l..h
    BY DEF Clusters
  <2>2. N = h - l + 1 /\ ~(l > h)
    BY Numbers
  <2> HIDE DEF l, h
  <2>3. IsFiniteSet(l..h) /\ Cardinality(l..h) = IF l > h THEN 0 ELSE h - l + 1
    BY <1>2, FS_Interval, Zenon
  <2> QED BY <2>1, <2>2, <2>3
<1>4. FreeIn(f) \in SUBSET Clusters
  BY DEF FreeIn
<1> HIDE DEF l, h
<1>5. IsFiniteSet(FreeIn(f)) /\ Cardinality(FreeIn(f)) <= N
  BY <1>3, <1>4, FS_Subset
<1>6. Cardinality(FreeIn(f)) \in Nat
  BY <1>5, FS_CardinalityType
<1>7. ASSUME NEW S \in SUBSET FreeIn(f)
      PROVE  Cardinality(S) \in Nat /\ Cardinality(S) <= Cardinality(FreeIn(f))
  BY <1>5, FS_Subset, FS_CardinalityType
<1>8. ASSUME NEW c \in FreeIn(f)
      PROVE  Cardinality(FreeIn(f) \ {c}) = Cardinality(FreeIn(f)) - 1
  BY <1>5, FS_RemoveElement
<1> QED BY <1>1, <1>5, <1>6, <1>7, <1>8

-----------------------------------------------------------------------------
(* Steps that leave the volume as it is, but for the FAT on the card, which *)
(* may become what it is in memory.                                         *)

Looks ==
    /\ UNCHANGED <<dir, info, data, fat, free, last, fsi, chain, theirs>>
    /\ \/ UNCHANGED <<dfat, win, wflag>>
       \/ dfat' = fat /\ wflag' = FALSE /\ win' \in 0..NoSector
       \/ wflag /\ dfat' \in {dfat, fat} /\ UNCHANGED <<win, wflag>>


LEMMA VolumeLooks ==
    ASSUME IInv, Looks, pc = "closed" => UNCHANGED dfat,
           pc' \notin {"closed", "link"}, pc' \in {"entry", "fsinfo"} => dfat' = fat
    PROVE  Volume'
<1>1. dfat' \in {dfat, fat} /\ UNCHANGED <<dir, info, data, fat, free, chain, theirs>>
  BY DEF Looks
<1>6. CardTypes'
  BY <1>1 DEF IInv, Volume, File, CardTypes, Looks
<1>2. Snapshot'
  BY <1>1 DEF Looks, IInv, Volume, Snapshot, NoDangling
<1>3. Chained'
  <2>1. Backed(dfat', dir, chain)
    <3>1. CASE dfat' = dfat
      BY <3>1 DEF IInv, Volume, File, Chained
    <3>2. CASE dfat' = fat /\ pc # "closed"
      <4>1. dir.size <= C * Len(chain)
        <5>1. Len(chain) \in Nat /\ C \in Nat
          BY Numbers, InChain DEF IInv, Volume, File, CardTypes, FileTypes
        <5>2. C * Len(chain) \in Nat
          BY <5>1
        <5>3. dir.size \in Nat /\ objsize \in Nat
          BY DEF IInv, Volume, File, CardTypes, FileTypes
        <5>4. dir.size <= objsize /\ objsize <= C * Len(chain)
          BY <3>2 DEF IInv, Volume, File, Sized
        <5> QED BY <5>2, <5>3, <5>4
      <4> QED BY <3>2, <4>1, BackedNow DEF IInv, Volume, File, Chained, CardTypes, FileTypes
    <3> QED BY <1>1, <3>1, <3>2
  <2> QED BY <1>1, <2>1 DEF IInv, Volume, File, Chained
<1>4. Owned'
  BY <1>1 DEF IInv, Volume, File, Owned
<1>5. Counted'
  <2>1. Cardinality(FreeIn(dfat')) <= info.free
    <3>1. FreeIn(dfat') \in SUBSET FreeIn(dfat)
      BY <1>1 DEF IInv, Volume, File, Snapshot
    <3>2. /\ Cardinality(FreeIn(dfat')) \in Nat /\ Cardinality(FreeIn(dfat)) \in 0..N
          /\ Cardinality(FreeIn(dfat')) <= Cardinality(FreeIn(dfat))
      BY <3>1, FreeCounts
    <3>3. info.free \in Nat /\ Cardinality(FreeIn(dfat)) <= info.free
      BY SMTT(20), Numbers DEF IInv, Volume, File, CardTypes, FileTypes, Counted
    <3> QED BY <3>2, <3>3
  <2> QED BY <1>1, <2>1 DEF IInv, Volume, File, Counted
<1> QED BY <1>2, <1>3, <1>4, <1>5, <1>6 DEF Volume

LEMMA Nats ==
    ASSUME IInv
    PROVE  /\ fptr \in Nat /\ ofs \in Nat /\ blk \in Nat /\ objsize \in Nat
           /\ dir.size \in Nat /\ C \in Nat /\ Len(chain) \in Nat
BY InputsAssumption, Numbers, InChain DEF IInv, Volume, File, CardTypes, FileTypes

LEMMA Facts ==
    ASSUME IInv
    PROVE  /\ chain \in Seq(Clusters) /\ Len(chain) \in Nat /\ C * Len(chain) \in Nat
           /\ \A i \in 1..Len(chain) : chain[i] \in Clusters /\ fat[chain[i]] # Free
           /\ Distinct(chain) /\ (Len(chain) > 0 => fat[chain[Len(chain)]] = EOC)
           /\ \A i \in 1..Len(chain) - 1 : fat[chain[i]] = chain[i + 1]
           /\ First(chain) = IF Len(chain) = 0 THEN 0 ELSE chain[1]
           /\ fptr \in Nat /\ ofs \in Nat /\ blk \in Nat /\ objsize \in Nat
           /\ dir.size \in Nat /\ C \in Nat \ {0}
<1>1. chain \in Seq(Clusters)
  BY DEF IInv, Volume, File, CardTypes, FileTypes
<1>2. Len(chain) \in Nat /\ C \in Nat \ {0}
  BY <1>1, InChain, Numbers
<1>3. C * Len(chain) \in Nat
  BY <1>2
<1>4. IsChain(fat, chain)
  BY DEF IInv, Volume, File, Chained
<1>5. fptr \in Nat /\ ofs \in Nat /\ blk \in Nat /\ objsize \in Nat /\ dir.size \in Nat
  BY InputsAssumption DEF IInv, Volume, File, CardTypes, FileTypes
<1>6. /\ \A i \in 1..Len(chain) : chain[i] \in Clusters /\ fat[chain[i]] # Free
      /\ First(chain) = IF Len(chain) = 0 THEN 0 ELSE chain[1]
  BY <1>1, <1>4, InChain, EndsChain
<1>7. /\ Distinct(chain) /\ (Len(chain) > 0 => fat[chain[Len(chain)]] = EOC)
      /\ \A i \in 1..Len(chain) - 1 : fat[chain[i]] = chain[i + 1]
  BY <1>1, <1>4, EndsChain DEF Ends, IsChain
<1> QED BY <1>1, <1>2, <1>3, <1>5, <1>6, <1>7

-----------------------------------------------------------------------------
(* f_lseek(). *)

LEMMA InvAccess ==
    ASSUME IInv, NEW o \in {"read", "write"}, NEW b \in Blocks, NEW v \in Values, Access(o, b, v)
    PROVE  IInv'
<1>1. Volume'
  BY VolumeLooks DEF Access, Looks, card, fs
<1>2. FileTypes'
  BY InputsAssumption DEF IInv, Volume, File, FileTypes, Access, card, fs, fil
<1>3. Sized' /\ Started' /\ Positioned' /\ Marked'
  BY DEF IInv, Volume, File, Sized, Started, Calm, Positioned, There, Marked, Access, card, fs, fil
<1> QED BY <1>1, <1>2, <1>3 DEF IInv, Volume, File

LEMMA InvSeekRefused == ASSUME IInv, SeekRefused PROVE IInv'
<1>1. Volume'
  BY VolumeLooks DEF SeekRefused, Done, Looks, card, fs
<1>2. FileTypes'
  BY DEF IInv, Volume, File, FileTypes, SeekRefused, Done, card, fs, fil
<1>3. Sized' /\ Started' /\ Positioned' /\ Marked'
  BY DEF IInv, Volume, File, Sized, Started, Calm, Positioned, There, Marked, SeekRefused, Done, card, fs, fil
<1> QED BY <1>1, <1>2, <1>3 DEF IInv, Volume, File

\* The seek goes on from the cluster that holds the sector before fptr.
LEMMA InvSeekForward == ASSUME IInv, SeekForward PROVE IInv'
<1>1. Volume'
  BY VolumeLooks DEF SeekForward, Looks, card, fs
<1>2. /\ pc = "seek" /\ pc' = "loop" /\ err = "none" /\ ofs > 0 /\ fptr > 0
      /\ ofs' = ofs - fptr' /\ clst' = clust /\ ofs = blk /\ fptr <= objsize
      /\ UNCHANGED <<card, fs, clust, sclust, objsize, modified, err,
                     op, blk, buf, got, ret, result, chain, theirs>>
  BY DEF SeekForward, IInv, File, Positioned, There
<1>3. /\ fptr' = C * ((fptr - 1) \div C) /\ clust = chain[((fptr - 1) \div C) + 1]
      /\ (ofs - 1) \div C >= (fptr - 1) \div C
  BY <1>2 DEF SeekForward, IInv, File, Positioned, There
<1>4. PICK j \in 0..Len(chain) - 1 : j = (fptr - 1) \div C
  <2>1. fptr <= C * Len(chain)
    BY <1>2, Facts DEF IInv, Volume, File, Sized
  <2> QED BY <1>2, <2>1, Facts, InCluster
<1>5. C \in Nat /\ j \in Nat /\ ofs - 1 \in Nat /\ ofs \in Nat
  <2>1. j \in Nat  BY Nats
  <2> QED BY <1>2, <2>1, Nats
<1>6. fptr' = C * j /\ C * j \in Nat /\ fptr' \in Nat
  BY <1>3, <1>4, <1>5
<1>7. ofs' \in Nat \ {0} /\ fptr' + ofs' = blk'
  <2>1. PICK q \in Nat : q = (ofs - 1) \div C /\ C * q <= ofs - 1 /\ C * q \in Nat
    BY <1>5, Quotient, Numbers
  <2>2. j <= q
    BY <1>3, <1>4, <1>5, <2>1
  <2>3. C * j <= C * q
    BY <1>5, <2>1, <2>2, Product, Zenon
  <2>4. fptr' <= C * q
    BY <1>6, <2>3
  <2> QED BY <1>2, <1>5, <1>6, <2>1, <2>4
<1>8. FileTypes'
  <2>1. fptr' \in Nat /\ ofs' \in Nat
    BY <1>6, <1>7
  <2>2. FileTypes
    BY DEF IInv, File
  <2>3. /\ pc' = "loop" /\ clst' = clust
        /\ UNCHANGED <<clust, sclust, objsize, modified, err, op, blk, buf, got, ret, result>>
    BY <1>2
  <2> QED BY <2>1, <2>2, <2>3 DEF FileTypes
<1>9. Sized' /\ Started'
  BY <1>2 DEF IInv, Volume, File, Sized, Started, Calm, card, fs
<1>10. Looping(j)'
  <2>1. j < Len(chain) /\ clst' = chain[j + 1]
    BY <1>2, <1>3, <1>4, <1>5, Nats
  <2> QED BY <1>2, <1>6, <1>7, <2>1 DEF Looping
<1>11. Positioned'
  <2>1. (j \in 0..Len(chain))' /\ pc' = "loop"
    BY <1>2, <1>4, <1>5, Nats
  <2> QED BY <1>10, <2>1 DEF Positioned
<1>12. Marked'
  BY <1>2, <1>6, <1>7, Facts DEF IInv, Volume, File, Marked, card, fs
<1> QED BY <1>1, <1>8, <1>9, <1>11, <1>12 DEF IInv, Volume, File

\* From the top: from the first cluster, or to create_chain() for one.
LEMMA InvSeekBack == ASSUME IInv, SeekBack PROVE IInv'
<1>1. Volume'
  BY VolumeLooks DEF SeekBack, ChainCall, Looks, card, fs
<1>2. /\ pc = "seek" /\ err = "none" /\ ofs = blk /\ fptr' = 0 /\ sclust = First(chain)
      /\ UNCHANGED <<card, fs, sclust, objsize, modified, err,
                     op, blk, buf, ofs, got, result, chain, theirs>>
  BY DEF SeekBack, IInv, File, Positioned, Started
<1>3. 0 \in 0..Len(chain) /\ fptr' = C * 0
  BY <1>2, Nats
<1>4. CASE ofs = 0
  <2>1. pc' = "xfer" /\ UNCHANGED <<clust, clst, ret>>
    BY <1>4 DEF SeekBack
  <2>2. FileTypes'
    BY <1>2, <2>1 DEF IInv, File, FileTypes
  <2>3. Sized' /\ Started' /\ Marked'
    BY <1>2, <2>1 DEF IInv, File, Sized, Started, Calm, Marked, card
  <2>4. Positioned'
    BY <1>2, <1>4, <2>1, Nats DEF Positioned, There
  <2> QED BY <1>1, <2>2, <2>3, <2>4 DEF IInv, File
<1>5. CASE ofs # 0 /\ sclust = 0
  <2>1. pc' = "chain" /\ clst' = 0 /\ ret' = "first" /\ UNCHANGED clust
    BY <1>5 DEF SeekBack, ChainCall
  <2>2. FileTypes'
    BY <1>2, <2>1 DEF IInv, File, FileTypes
  <2>3. Sized' /\ Started' /\ Marked'
    BY <1>2, <2>1 DEF IInv, File, Sized, Started, Calm, Marked, card
  <2>4. Asking(0)'
    BY <1>2, <1>3, <1>5, <2>1, Nats DEF Asking
  <2>5. (0 \in 0..Len(chain))'
    BY <1>2, <1>3
  <2>6. Positioned'
    BY <2>1, <2>4, <2>5 DEF Positioned
  <2> QED BY <1>1, <2>2, <2>3, <2>6 DEF IInv, File
<1>6. CASE ofs # 0 /\ sclust # 0
  <2>1. pc' = "loop" /\ clst' = sclust /\ clust' = sclust /\ UNCHANGED ret
    BY <1>6 DEF SeekBack
  <2>2. FileTypes'
    BY <1>2, <2>1 DEF IInv, File, FileTypes
  <2>3. Sized' /\ Started' /\ Marked'
    BY <1>2, <2>1 DEF IInv, File, Sized, Started, Calm, Marked, card
  <2>4. 0 < Len(chain) /\ sclust = chain[0 + 1]
    BY <1>2, <1>6, Facts
  <2>5. Looping(0)'
    BY <1>2, <1>3, <1>6, <2>1, <2>4, Nats DEF Looping
  <2>6. (0 \in 0..Len(chain))'
    BY <1>2, <1>3
  <2>7. Positioned'
    BY <2>1, <2>5, <2>6 DEF Positioned
  <2> QED BY <1>1, <2>2, <2>3, <2>7 DEF IInv, File
<1> QED BY <1>4, <1>5, <1>6

\* The first cluster of the file is known.
LEMMA InvSeekFirst == ASSUME IInv, SeekFirst PROVE IInv'
<1>1. Volume'
  BY VolumeLooks DEF SeekFirst, Looks, card, fs
<1>2. /\ pc = "first" /\ err = "none" /\ sclust' = got /\ clust' = got /\ clst' = got
      /\ pc' = IF got = 0 THEN "xfer" ELSE "loop"
      /\ UNCHANGED <<card, fs, fptr, objsize, modified, err,
                     op, blk, buf, ofs, got, ret, result, chain, theirs>>
  BY DEF SeekFirst, IInv, File, Started, Calm
<1>3. PICK j \in 0..Len(chain) : Asking(j)
  BY <1>2 DEF IInv, File, Positioned
<1>4. /\ ret = "first" /\ j = 0 /\ fptr = C * 0 /\ sclust = 0 /\ ofs = blk /\ ofs > 0
      /\ IF got = 0 THEN Len(chain) = 0 /\ Full ELSE 0 < Len(chain) /\ got = chain[0 + 1]
  BY <1>2, <1>3 DEF Asking
<1>5. objsize = 0 /\ fptr = 0 /\ got = First(chain)
  BY <1>2, <1>4, Facts DEF IInv, File, Sized
<1>6. FileTypes'
  BY <1>2 DEF IInv, File, FileTypes
<1>7. Sized' /\ Started'
  BY <1>2, <1>5 DEF IInv, File, Sized, Started, Calm, card
<1>8. Marked'
  BY <1>2, <1>4, <1>5, Nats DEF IInv, File, Marked, card
<1>9. Positioned'
  <2>1. CASE got = 0
    <3>1. C * Len(chain) = 0 /\ (Full /\ fptr = C * Len(chain))'
      BY <1>2, <1>4, <1>5, <2>1, Nats DEF Full, fs
    <3> QED BY <1>2, <1>5, <2>1, <3>1 DEF Positioned, There
  <2>2. CASE got # 0
    <3>1. Looping(0)'
      BY <1>2, <1>4, <1>5, <2>2, Nats DEF Looping
    <3>2. (0 \in 0..Len(chain))'
      BY <1>2, Nats
    <3> QED BY <1>2, <2>2, <3>1, <3>2 DEF Positioned
  <2> QED BY <2>1, <2>2
<1> QED BY <1>1, <1>6, <1>7, <1>8, <1>9 DEF IInv, File

\* One cluster further.
LEMMA InvSeekLoop == ASSUME IInv, SeekLoop PROVE IInv'
<1>1. Volume'
  BY VolumeLooks DEF SeekLoop, ChainCall, Looks, card, fs
<1>2. /\ pc = "loop" /\ pc' = "chain" /\ ofs > C /\ ofs' = ofs - C /\ fptr' = fptr + C
      /\ clst' = clst /\ ret' = "next" /\ err = "none"
      /\ UNCHANGED <<card, fs, clust, sclust, objsize, modified, err,
                     op, blk, buf, got, result, chain, theirs>>
  BY DEF SeekLoop, ChainCall, IInv, File, Started, Calm
<1>3. PICK j \in 0..Len(chain) : Looping(j)
  BY <1>2 DEF IInv, File, Positioned
<1>4. ofs # 0 /\ j \in Nat /\ Len(chain) \in Nat /\ ofs' \in Nat \ {0}
  BY <1>2, <1>3, Nats
<1>5. /\ fptr = C * j /\ clst = clust /\ j < Len(chain) /\ clst = chain[j + 1]
      /\ fptr + ofs = blk
  BY <1>3, <1>4 DEF Looping
<1>6. fptr' = C * (j + 1) /\ fptr' \in Nat /\ fptr' + ofs' = blk'
  <2>1. C \in Nat
    BY Nats
  <2>2. C * (j + 1) = C * j + C /\ C * j \in Nat /\ C * (j + 1) \in Nat
    BY <1>4, <2>1, Succeeds, Zenon
  <2>3. fptr' = C * (j + 1)
    BY <1>2, <1>5, <2>2
  <2> QED BY <1>2, <1>5, <2>2, <2>3, Nats
<1>7. FileTypes'
  BY <1>2, <1>4, <1>6 DEF IInv, File, FileTypes
<1>8. Sized' /\ Started' /\ Marked'
  BY <1>2 DEF IInv, File, Sized, Started, Calm, Marked, card
<1>9. Asking(j + 1)'
  BY <1>2, <1>4, <1>5, <1>6 DEF Asking
<1>10. Positioned'
  <2>1. (j + 1 \in 0..Len(chain))'
    BY <1>2, <1>4, <1>5
  <2> QED BY <1>2, <1>9, <2>1 DEF Positioned
<1> QED BY <1>1, <1>7, <1>8, <1>10 DEF IInv, File

\* There is a next cluster, or the disk is full and the seek is over.
LEMMA InvSeekNext == ASSUME IInv, SeekNext PROVE IInv'
<1>1. Volume'
  BY VolumeLooks DEF SeekNext, Looks, card, fs
<1>2. /\ pc = "next" /\ pc' = "loop" /\ err = "none"
      /\ IF got = 0 THEN ofs' = 0 /\ UNCHANGED <<clst, clust>>
         ELSE clst' = got /\ clust' = got /\ UNCHANGED ofs
      /\ UNCHANGED <<card, fs, fptr, sclust, objsize, modified, err,
                     op, blk, buf, got, ret, result, chain, theirs>>
  BY DEF SeekNext, IInv, File, Started, Calm
<1>3. PICK j \in 0..Len(chain) : Asking(j)
  BY <1>2 DEF IInv, File, Positioned
<1>4. /\ ret = "next" /\ fptr = C * j /\ j > 0 /\ ofs > 0 /\ fptr + ofs = blk
      /\ clst = chain[j] /\ clust = chain[j]
      /\ IF got = 0 THEN j = Len(chain) /\ Full ELSE j < Len(chain) /\ got = chain[j + 1]
  BY <1>2, <1>3, Nats DEF Asking
<1>5. FileTypes'
  BY <1>2, <1>4 DEF IInv, File, FileTypes
<1>6. Sized' /\ Started'
  BY <1>2 DEF IInv, File, Sized, Started, Calm, card
<1>7. Looping(j)'
  BY SMTT(20), <1>2, <1>4, Nats DEF Looping, Full, fs
<1>8. Positioned'
  <2>1. (j \in 0..Len(chain))'
    BY <1>2, <1>3
  <2> QED BY <1>2, <1>7, <2>1 DEF Positioned
<1>9. Marked'
  <2>1. fptr > 0
    <3>1. C * j > 0
      BY <1>4, AtBoundary
    <3> QED BY <1>4, <3>1
  <2>2. fptr' + ofs' > 0
    BY <1>2, <2>1, Nats
  <2> QED BY <1>2, <1>4, <2>2 DEF IInv, File, Marked, card
<1> QED BY <1>1, <1>5, <1>6, <1>8, <1>9 DEF IInv, File

\* The position is reached, and the file made longer if it was beyond the end.
LEMMA InvSeekEnd == ASSUME IInv, SeekEnd PROVE IInv'
<1>1. Volume'
  BY VolumeLooks DEF SeekEnd, Extend, Looks, card, fs
<1>2. /\ pc = "loop" /\ pc' = "xfer" /\ err = "none" /\ ofs <= C /\ fptr' = fptr + ofs
      /\ objsize' = IF fptr' > objsize THEN fptr' ELSE objsize
      /\ modified' = (modified \/ fptr' > objsize)
      /\ UNCHANGED <<card, fs, clust, sclust, err,
                     op, blk, buf, ofs, clst, got, ret, result, chain, theirs>>
  BY DEF SeekEnd, Extend, IInv, File, Started, Calm
<1>3. PICK j \in 0..Len(chain) : Looping(j)
  BY <1>2 DEF IInv, File, Positioned
<1>4. /\ fptr = C * j /\ clst = clust
      /\ IF ofs = 0 THEN j = Len(chain) /\ j > 0 /\ clst = chain[j] /\ Full
         ELSE j < Len(chain) /\ clst = chain[j + 1] /\ fptr + ofs = blk
  BY <1>3 DEF Looping
<1>5. fptr' \in Nat /\ objsize' \in Nat /\ j \in Nat /\ Len(chain) > 0
  BY <1>2, <1>3, <1>4, Nats
<1>6. fptr' <= C * Len(chain)
  <2>1. CASE ofs = 0
    BY <1>2, <1>4, <2>1, Nats
  <2>2. CASE ofs # 0
    <3>1. C \in Nat /\ j \in Nat /\ j + 1 \in Nat /\ j + 1 <= Len(chain) /\ Len(chain) \in Nat
      BY <1>4, <1>5, <2>2, Nats
    <3>2. /\ C * (j + 1) = C * j + C /\ C * (j + 1) <= C * Len(chain)
          /\ C * j \in Nat /\ C * (j + 1) \in Nat /\ C * Len(chain) \in Nat
      BY <3>1, Succeeds, Product, Zenon
    <3> QED BY <1>2, <1>4, <3>1, <3>2, Nats
  <2> QED BY <2>1, <2>2
<1>7. FileTypes'
  BY <1>2, <1>5 DEF IInv, File, FileTypes
<1>8. sclust = First(chain) /\ sclust # 0
  <2>1. sclust = First(chain)
    BY <1>2 DEF IInv, File, Started, Calm
  <2>2. 1 \in 1..Len(chain)
    BY <1>5, Nats
  <2> QED BY <2>1, <2>2, Facts, Numbers
<1>9. Sized' /\ Started'
  <2>1. dir.size <= objsize /\ objsize <= C * Len(chain)
    BY <1>2 DEF IInv, File, Sized
  <2>2. dir.size <= objsize' /\ objsize' <= C * Len(chain)
    BY SMTT(20), <1>2, <1>5, <1>6, <2>1, Facts
  <2> QED BY <1>2, <1>8, <2>2 DEF IInv, File, Sized, Started, Calm, card
<1>10. There'
  <2>1. fptr' <= objsize'
    BY <1>2, <1>5, Nats
  <2>2. ASSUME fptr' > 0 PROVE clust = chain[((fptr' - 1) \div C) + 1]
    <3>1. CASE ofs = 0
      <4>1. (C * j - 1) \div C + 1 = j
        BY <1>4, <1>5, <3>1, AtBoundary
      <4>2. fptr' = C * j
        BY <1>2, <1>4, <3>1, Nats
      <4> QED BY <1>4, <3>1, <4>1, <4>2
    <3>2. CASE ofs # 0
      <4>1. ofs \in 1..C
        BY <1>2, <3>2, Nats
      <4>0. C * j + ofs \in Nat /\ ((C * j + ofs) - 1) \div C = j
        BY <1>5, <4>1, InNext, Zenon
      <4>2. PICK p \in Nat : p = C * j + ofs /\ (p - 1) \div C = j
        BY <4>0, Zenon
      <4>3. fptr' = p
        BY <1>2, <1>4, <4>2
      <4>4. (fptr' - 1) \div C = j
        BY <4>2, <4>3
      <4> QED BY <1>4, <3>2, <4>4
    <3> QED BY <3>1, <3>2
  <2> QED BY <1>2, <2>1, <2>2 DEF There
<1>11. Positioned'
  <2>1. ofs = 0 => Full' /\ fptr' = C * Len(chain)'
    BY <1>2, <1>4, Nats DEF Full, fs
  <2>2. ofs # 0 => fptr' = blk'
    BY <1>2, <1>4
  <2> QED BY <1>2, <1>10, <2>1, <2>2 DEF Positioned
<1>12. Marked'
  BY <1>2, <1>4, <1>5, Nats DEF IInv, File, Marked, card
<1> QED BY <1>1, <1>7, <1>9, <1>11, <1>12 DEF IInv, File

-----------------------------------------------------------------------------
(* f_read() and f_write(). *)

\* Where the FIL is, within the cluster and at its end.
LEMMA WhereIs ==
    ASSUME IInv, pc = "xfer"
    PROVE  /\ err = "none" /\ fptr <= objsize /\ fptr <= C * Len(chain)
           /\ sclust = First(chain) /\ (Len(chain) = 0 <=> sclust = 0)
           /\ \E q \in Nat :
                 /\ q = fptr \div C /\ (fptr < objsize => q < Len(chain))
                 /\ ~Boundary => q < Len(chain) /\ clust = chain[q + 1]
                 /\ Boundary => fptr = C * q /\ (fptr = 0 <=> q = 0)
                 /\ Boundary /\ fptr # 0 => q \in 1..Len(chain) /\ clust = chain[q]
<1>1. /\ err = "none" /\ fptr <= objsize /\ objsize <= C * Len(chain)
      /\ sclust = First(chain) /\ (fptr > 0 => clust = chain[((fptr - 1) \div C) + 1])
  BY DEF IInv, File, Started, Calm, Sized, Positioned, There
<1>2. fptr <= C * Len(chain) /\ (fptr < objsize => fptr < C * Len(chain))
  BY <1>1, Facts
<1>3. Len(chain) = 0 <=> sclust = 0
  <2>1. Len(chain) # 0 => 1 \in 1..Len(chain)
    BY Facts
  <2> QED BY <1>1, <2>1, Facts, Numbers
<1>4. PICK q \in Nat : q = fptr \div C
  BY Facts, InCluster
<1>5. /\ (fptr < objsize => q < Len(chain)) /\ (fptr % C = 0 => fptr = C * q)
      /\ fptr % C # 0 => fptr > 0 /\ (fptr - 1) \div C = q /\ q < Len(chain)
  BY <1>2, <1>4, Facts, InCluster
<1>6. ~Boundary => q < Len(chain) /\ clust = chain[q + 1]
  BY <1>1, <1>5 DEF Boundary
<1>7. fptr = C * q => (fptr = 0 <=> q = 0) /\ (q > 0 => (fptr - 1) \div C + 1 = q)
  <2>1. C * q \in Nat /\ (q > 0 => C * q > 0 /\ (C * q - 1) \div C + 1 = q) /\ (q = 0 => C * q = 0)
    BY AtBoundary
  <2> QED BY <2>1
<1>8. ASSUME Boundary, fptr # 0
      PROVE  q \in 1..Len(chain) /\ clust = chain[q]
  <2>1. q > 0 /\ (fptr - 1) \div C + 1 = q /\ fptr > 0
    BY <1>5, <1>7, <1>8, Facts DEF Boundary
  <2>2. (fptr - 1) \div C \in 0..Len(chain) - 1
    BY <1>2, <2>1, Facts, InCluster
  <2> QED BY <1>1, <2>1, <2>2, Facts
<1> QED BY <1>1, <1>2, <1>3, <1>4, <1>5, <1>6, <1>7, <1>8 DEF Boundary

\* f_read() finds the cluster of the sector.
LEMMA ReadHere ==
    ASSUME IInv, pc = "xfer", fptr < objsize
    PROVE  \E q \in Nat : /\ q = fptr \div C /\ q \in 0..Len(chain) - 1
                         /\ ReadCluster = chain[q + 1] /\ ReadCluster \in Clusters
<1>1. PICK q \in Nat :
         /\ q = fptr \div C /\ q < Len(chain)
         /\ ~Boundary => clust = chain[q + 1]
         /\ Boundary => (fptr = 0 <=> q = 0)
         /\ Boundary /\ fptr # 0 => q \in 1..Len(chain) /\ clust = chain[q]
  BY WhereIs
<1>2. q \in 0..Len(chain) - 1 /\ q + 1 \in 1..Len(chain)
  <2>1. q < Len(chain)
    BY <1>1
  <2> QED BY <2>1, Nats
<1>3. /\ \A i \in 1..Len(chain) : chain[i] \in Clusters
      /\ \A i \in 1..Len(chain) - 1 : fat[chain[i]] = chain[i + 1]
      /\ Len(chain) # 0 => sclust = chain[1]
  BY WhereIs, Facts
<1>4. ReadCluster = chain[q + 1]
  <2>1. CASE ~Boundary
    <3>1. clust = chain[q + 1]
      BY <1>1, <2>1, Zenon
    <3>2. fptr # 0
      BY <2>1, SizesAssumption DEF Boundary
    <3>3. ReadCluster = clust
      BY <2>1, <3>2 DEF ReadCluster
    <3> QED BY <3>1, <3>3
  <2>2. CASE Boundary /\ fptr = 0
    <3>1. q = 0 /\ Len(chain) # 0
      BY <1>1, <1>2, <2>2, Nats
    <3>2. ReadCluster = sclust
      BY <2>2 DEF ReadCluster
    <3> QED BY <1>3, <3>1, <3>2
  <2>3. CASE Boundary /\ fptr # 0
    <3>1. clust = chain[q] /\ q \in 1..Len(chain)
      BY <1>1, <2>3, Zenon
    <3>2. ReadCluster = fat[clust]
      BY <2>3 DEF ReadCluster
    <3>3. q \in 1..Len(chain) - 1
      BY <1>2, <3>1, Nats
    <3> QED BY <1>3, <3>1, <3>2, <3>3
  <2> QED BY <2>1, <2>2, <2>3
<1>5. q = fptr \div C
  BY <1>1, Zenon
<1> QED BY <1>2, <1>3, <1>4, <1>5, Zenon

LEMMA InvReadNothing == ASSUME IInv, ReadNothing PROVE IInv'
<1>1. Volume'
  BY VolumeLooks DEF ReadNothing, Done, Looks, card, fs
<1>2. /\ pc = "xfer" /\ pc' = "ready" /\ result' = "error" /\ op' = "none" /\ blk' = 0
      /\ ofs' = 0 /\ clst' = 0 /\ got' = 0 /\ ret' = "none"
      /\ UNCHANGED <<card, fs, fil, buf, chain, theirs>>
  BY DEF ReadNothing, Done
<1>3. FileTypes' /\ Sized' /\ Started'
  BY <1>2 DEF IInv, File, FileTypes, Sized, Started, Calm, card, fs, fil
<1>4. Positioned' /\ Marked'
  BY <1>2 DEF IInv, File, Started, Calm, Positioned, There, Marked, card, fs, fil
<1> QED BY <1>1, <1>3, <1>4 DEF IInv, File

\* What f_read() looks at is a sector of the FAT.
LEMMA ReadVisits ==
    ASSUME IInv, pc = "xfer", fptr < objsize, Visit(ReadLooks, FatSector(clust)) \/ VisitFails(ReadLooks)
    PROVE  \/ UNCHANGED <<dfat, win, wflag>>
           \/ dfat' = fat /\ wflag' = FALSE /\ win' \in 0..NoSector
           \/ wflag /\ dfat' \in {dfat, fat} /\ UNCHANGED <<win, wflag>>
<1>1. FatSector(clust) \in 0..NoSector /\ NoSector \in 0..NoSector
  <2>1. clust \in Clusters \cup {0}
    BY DEF IInv, File, FileTypes
  <2>2. FatSector(clust) \in 0..N + 1
    BY <2>1, Numbers
  <2> QED BY <2>2, Numbers
<1> QED BY <1>1 DEF Visit, VisitFails

LEMMA InvReadBlock == ASSUME IInv, ReadBlock PROVE IInv'
<1>1. /\ pc = "xfer" /\ fptr < objsize /\ ReadCluster \in Clusters
      /\ pc' = "ready" /\ result' = "ok" /\ op' = "none" /\ blk' = 0
      /\ ofs' = 0 /\ clst' = 0 /\ got' = 0 /\ ret' = "none"
      /\ clust' = ReadCluster /\ buf' = data[ReadCluster][fptr % C] /\ fptr' = fptr + 1
      /\ Visit(ReadLooks, FatSector(clust)) /\ UNCHANGED err
      /\ UNCHANGED <<dir, info, data, fat, free, last, fsi, sclust, objsize, modified, chain, theirs>>
  BY ReadHere DEF ReadBlock, Done
<1>2. Volume'
  <2>1. Looks
    BY <1>1, ReadVisits DEF Looks
  <2> QED BY <1>1, <2>1, VolumeLooks
<1>3. FileTypes'
  <2>1. fptr % C \in 0..C - 1
    BY Nats, InCluster, Zenon
  <2>0. fptr' \in Nat
    BY <1>1, Nats
  <2>2. data[ReadCluster][fptr % C] \in Values
    <3>1. data \in [Clusters -> [0..C - 1 -> Values]] /\ ReadCluster \in Clusters
      BY <1>1 DEF IInv, Volume, CardTypes
    <3>2. data[ReadCluster] \in [0..C - 1 -> Values]
      BY <3>1, Zenon
    <3> QED BY <2>1, <3>2, Zenon
  <2> QED BY <1>1, <2>0, <2>2 DEF IInv, File, FileTypes
<1>4. Sized' /\ Started' /\ Marked'
  BY <1>1 DEF IInv, File, Sized, Started, Calm, Marked
<1>5. There'
  <2>1. PICK q \in Nat : q = fptr \div C /\ ReadCluster = chain[q + 1]
    BY <1>1, ReadHere
  <2>2. fptr' - 1 = fptr /\ fptr' <= objsize
    BY <1>1, Nats
  <2>3. (fptr' - 1) \div C = q
    BY <2>1, <2>2
  <2> QED BY <1>1, <2>1, <2>2, <2>3 DEF There
<1>6. Positioned'
  BY <1>1, <1>5 DEF Positioned
<1> QED BY <1>2, <1>3, <1>4, <1>6 DEF IInv, File

LEMMA InvReadFails == ASSUME IInv, ReadFails PROVE IInv'
<1>1. /\ pc = "xfer" /\ fptr < objsize /\ ReadCluster \in Clusters
      /\ pc' = "ready" /\ result' = "error" /\ op' = "none" /\ blk' = 0
      /\ ofs' = 0 /\ clst' = 0 /\ got' = 0 /\ ret' = "none" /\ err' = "disk"
      /\ clust' \in {clust, ReadCluster}
      /\ Visit(ReadLooks, FatSector(clust)) \/ VisitFails(ReadLooks)
      /\ UNCHANGED <<dir, info, data, fat, free, last, fsi,
                     fptr, sclust, objsize, modified, buf, chain, theirs>>
  BY ReadHere DEF ReadFails, Abort, Done
<1>2. Volume'
  <2>1. Looks
    BY <1>1, ReadVisits DEF Looks
  <2> QED BY <1>1, <2>1, VolumeLooks
<1>3. FileTypes'
  BY <1>1 DEF IInv, File, FileTypes
<1>4. Sized' /\ Started' /\ Marked' /\ Positioned'
  BY <1>1 DEF IInv, File, Sized, Started, Calm, Marked, Positioned
<1> QED BY <1>2, <1>3, <1>4 DEF IInv, File

\* f_write() writes where it is, or asks create_chain() for the next cluster.
LEMMA InvWriteStart == ASSUME IInv, WriteStart PROVE IInv'
<1>1. Volume'
  BY VolumeLooks DEF WriteStart, ChainCall, Looks, card, fs
<1>2. /\ pc = "xfer" /\ err = "none" /\ sclust = First(chain) /\ fptr <= objsize
      /\ UNCHANGED <<card, fs, fptr, sclust, objsize, modified, err,
                     op, blk, buf, ofs, got, result, chain, theirs>>
  BY WhereIs DEF WriteStart
<1>3. PICK q \in Nat :
         /\ q = fptr \div C
         /\ ~Boundary => q < Len(chain) /\ clust = chain[q + 1]
         /\ Boundary => fptr = C * q /\ (fptr = 0 <=> q = 0)
         /\ Boundary /\ fptr # 0 => q \in 1..Len(chain) /\ clust = chain[q]
  BY <1>2, WhereIs
<1>4. /\ Len(chain) \in Nat /\ (Len(chain) = 0 <=> sclust = 0)
      /\ Len(chain) # 0 => sclust = chain[1]
      /\ fptr # blk => Full /\ fptr = C * Len(chain)
  BY <1>2, WhereIs, Facts DEF IInv, File, Positioned
<1>5. CASE Boundary /\ (fptr # 0 \/ sclust = 0)
  <2>1. pc' = "chain" /\ clst' = (IF fptr = 0 THEN 0 ELSE clust) /\ ret' = "grown" /\ UNCHANGED clust
    BY <1>5 DEF WriteStart, ChainCall
  <2>2. FileTypes'
    BY <1>2, <2>1 DEF IInv, File, FileTypes
  <2>3. Sized' /\ Started' /\ Marked'
    BY <1>2, <2>1 DEF IInv, File, Sized, Started, Calm, Marked, card
  <2>4. q \in 0..Len(chain)
    BY <1>3, <1>4, <1>5
  <2>5. fptr # blk => q = Len(chain)
    <3>1. (C * Len(chain)) \div C = Len(chain)
      BY <1>4, AtBoundary, Zenon
    <3> QED BY <1>3, <1>4, <3>1, Zenon
  <2>6. fptr = C * q /\ (fptr = 0 <=> q = 0) /\ (fptr # 0 => clust = chain[q])
    BY <1>3, <1>5, Zenon
  <2>7. Asking(q)'
    BY <1>2, <1>4, <1>5, <2>1, <2>4, <2>5, <2>6 DEF Asking, Full, fs
  <2>8. (q \in 0..Len(chain))'
    BY <1>2, <2>4
  <2>9. Positioned'
    BY <2>1, <2>7, <2>8 DEF Positioned
  <2> QED BY <1>1, <2>2, <2>3, <2>9 DEF IInv, File
<1>6. CASE ~(Boundary /\ (fptr # 0 \/ sclust = 0))
  <2>1. /\ clust' = IF Boundary THEN sclust ELSE clust
        /\ pc' = "put" /\ UNCHANGED <<clst, ret>>
    BY <1>6 DEF WriteStart
  <2>2. FileTypes'
    BY <1>2, <2>1 DEF IInv, File, FileTypes
  <2>3. Sized' /\ Started' /\ Marked'
    BY <1>2, <2>1 DEF IInv, File, Sized, Started, Calm, Marked, card
  <2>4. q < Len(chain) /\ clust' = chain[q + 1]
    <3>1. CASE Boundary
      <4>1. fptr = 0 /\ sclust # 0
        BY <1>6, <3>1
      <4>2. q = 0
        BY <1>3, <3>1, <4>1, Zenon
      <4> QED BY <1>4, <2>1, <3>1, <4>1, <4>2
    <3>2. CASE ~Boundary
      <4>1. q < Len(chain) /\ clust = chain[q + 1]
        BY <1>3, <3>2, Zenon
      <4> QED BY <2>1, <3>2, <4>1
    <3> QED BY <3>1, <3>2
  <2>5. fptr = blk
    <3>1. (C * Len(chain)) \div C = Len(chain)
      BY <1>4, AtBoundary, Zenon
    <3>2. fptr # blk => q = Len(chain)
      BY <1>3, <1>4, <3>1, Zenon
    <3> QED BY <1>4, <2>4, <3>2
  <2>6. fptr \div C = q
    BY <1>3, Zenon
  <2>7. Positioned'
    <3>1. (fptr \div C < Len(chain) /\ clust = chain[(fptr \div C) + 1])'
      BY <1>2, <2>4, <2>6
    <3> QED BY <1>2, <2>1, <2>5, <3>1 DEF Positioned
  <2> QED BY <1>1, <2>2, <2>3, <2>7 DEF IInv, File
<1> QED BY <1>5, <1>6

\* There is a cluster to write in, or there is none.
LEMMA InvWriteGrown == ASSUME IInv, WriteGrown PROVE IInv'
<1>1. Volume'
  BY VolumeLooks DEF WriteGrown, Done, Looks, card, fs
<1>2. /\ pc = "grown" /\ err = "none"
      /\ UNCHANGED <<card, fs, fptr, objsize, err, buf, chain, theirs>>
  BY DEF WriteGrown, IInv, File, Started, Calm
<1>3. PICK j \in 0..Len(chain) : Asking(j)
  BY <1>2 DEF IInv, File, Positioned
<1>4. /\ fptr = C * j /\ ret = "grown" /\ fptr <= objsize
      /\ IF got = 0 THEN j = Len(chain) /\ Full
         ELSE j < Len(chain) /\ got = chain[j + 1] /\ fptr = blk
      /\ (j = 0 => sclust = 0) /\ (j > 0 => clust = chain[j])
  BY <1>2, <1>3 DEF Asking
<1>5. \/ sclust = First(chain)
      \/ sclust = 0 /\ chain = <<got>>
  BY <1>2 DEF IInv, File, Started, Calm
<1>6. CASE got = 0
  <2>1. /\ pc' = "ready" /\ result' = "error" /\ op' = "none" /\ blk' = 0
        /\ ofs' = 0 /\ clst' = 0 /\ got' = 0 /\ ret' = "none"
        /\ modified' = TRUE /\ UNCHANGED <<clust, sclust>>
    BY <1>6 DEF WriteGrown, Done
  <2>2. FileTypes'
    BY <1>2, <2>1 DEF IInv, File, FileTypes
  <2>3. sclust = First(chain)
    <3>1. chain # <<got>>
      <4>1. \A i \in 1..Len(chain) : chain[i] # 0
        BY Facts, Numbers
      <4>2. Len(<<got>>) = 1 /\ <<got>>[1] = 0
        BY <1>6
      <4> QED BY <4>1, <4>2
    <3> QED BY <1>5, <3>1
  <2>4. Sized' /\ Started' /\ Marked'
    BY <1>2, <2>1, <2>3 DEF IInv, File, Sized, Started, Calm, Marked, card
  <2>5. There'
    <3>1. j > 0 => (C * j - 1) \div C + 1 = j
      BY <1>3, AtBoundary, Nats
    <3>2. fptr > 0 => j > 0 /\ (fptr - 1) \div C + 1 = j
      BY SMTT(20), <1>3, <1>4, <3>1, AtBoundary, Nats
    <3> QED BY <1>2, <1>4, <2>1, <3>2 DEF There
  <2>6. Positioned'
    BY <2>1, <2>5 DEF Positioned
  <2> QED BY <1>1, <2>2, <2>4, <2>6 DEF IInv, File
<1>7. CASE got # 0
  <2>1. /\ clust' = got /\ sclust' = (IF sclust = 0 THEN got ELSE sclust) /\ pc' = "put"
        /\ UNCHANGED <<modified, op, blk, ofs, clst, got, ret, result>>
    BY <1>7 DEF WriteGrown
  <2>2. j < Len(chain) /\ got = chain[j + 1] /\ fptr = blk /\ Len(chain) \in Nat /\ j \in Nat
    BY <1>3, <1>4, <1>7, Nats
  <2>3. FileTypes'
    BY <1>2, <2>1 DEF IInv, File, FileTypes
  <2>4. sclust' = First(chain) /\ sclust' # 0
    <3>1. 1 \in 1..Len(chain) /\ First(chain) = chain[1]
      BY <2>2, Facts
    <3>2. chain[1] # 0
      BY <3>1, Facts, Numbers
    <3>3. chain = <<got>> => chain[1] = got
      OBVIOUS
    <3> QED BY <1>5, <2>1, <3>1, <3>2, <3>3
  <2>5. Sized' /\ Started' /\ Marked'
    BY <1>2, <2>1, <2>4 DEF IInv, File, Sized, Started, Calm, Marked, card
  <2>6. fptr \div C = j
    <3>1. (C * j) \div C = j
      BY <2>2, AtBoundary, Zenon
    <3> QED BY <1>4, <3>1, Zenon
  <2>7. Positioned'
    <3>1. (fptr \div C < Len(chain) /\ clust = chain[(fptr \div C) + 1])'
      BY <1>2, <2>1, <2>2, <2>6
    <3> QED BY <1>2, <1>4, <2>1, <2>2, <3>1 DEF Positioned
  <2> QED BY <1>1, <2>3, <2>5, <2>7 DEF IInv, File
<1> QED BY <1>6, <1>7

\* The block that is written is in a cluster of the file.
LEMMA VolumePuts ==
    ASSUME IInv, pc = "put", pc' = "ready", UNCHANGED data \/ Put(buf),
           UNCHANGED <<dfat, dir, info, fs, chain, theirs>>
    PROVE  Volume' /\ clust \in Clusters /\ (\E i \in 1..Len(chain) : clust = chain[i])
<1>1. PICK i \in 1..Len(chain) : clust = chain[i]
  <2>1. PICK q \in Nat : q = fptr \div C
    BY Nats, InCluster
  <2>2. q < Len(chain) /\ clust = chain[q + 1]
    BY <2>1 DEF IInv, File, Positioned
  <2> QED BY <2>1, <2>2, Nats
<1>2. clust \in Clusters
  BY <1>1, Facts
<1>3. fptr % C \in 0..C - 1 /\ buf \in Values
  <2>1. fptr % C \in 0..C - 1
    BY Nats, InCluster, Zenon
  <2> QED BY <2>1 DEF IInv, File, FileTypes
<1>4. CardTypes'
  <2>1. data' \in [Clusters -> [0..C - 1 -> Values]]
    <3>1. data \in [Clusters -> [0..C - 1 -> Values]]
      BY DEF IInv, Volume, CardTypes
    <3>2. PICK p \in 0..C - 1 : p = fptr % C
      BY <1>3, Zenon
    <3>3. data' = data \/ data' = [data EXCEPT ![clust][p] = buf]
      BY <3>2 DEF Put
    <3>4. [data[clust] EXCEPT ![p] = buf] \in [0..C - 1 -> Values]
      BY <1>2, <1>3, <3>1
    <3> QED BY <1>2, <3>1, <3>3, <3>4
  <2> QED BY <2>1 DEF IInv, Volume, CardTypes, fs
<1>5. Snapshot' /\ Counted'
  BY DEF IInv, Volume, Snapshot, Counted, fs
<1>6. Chained'
  BY DEF IInv, Volume, Chained, fs
<1>7. Owned'
  <2>1. ASSUME NEW c \in DOMAIN theirs PROVE c \in Clusters /\ c # clust
    BY <1>1 DEF IInv, Volume, Owned
  <2>2. data \in [Clusters -> [0..C - 1 -> Values]]
    BY DEF IInv, Volume, CardTypes
  <2>3. ASSUME NEW c \in DOMAIN theirs PROVE data'[c] = data[c]
    BY <2>1, <2>2 DEF Put
  <2> QED BY <2>3 DEF IInv, Volume, Owned, fs
<1> QED BY <1>1, <1>2, <1>4, <1>5, <1>6, <1>7 DEF Volume

LEMMA InvPutBlock == ASSUME IInv, PutBlock PROVE IInv'
<1>1. /\ pc = "put" /\ err = "none" /\ Put(buf) /\ fptr' = fptr + 1
      /\ pc' = "ready" /\ result' = "ok" /\ op' = "none" /\ blk' = 0
      /\ ofs' = 0 /\ clst' = 0 /\ got' = 0 /\ ret' = "none"
      /\ objsize' = (IF fptr' > objsize THEN fptr' ELSE objsize) /\ modified' = TRUE
      /\ UNCHANGED <<dfat, dir, info, fs, clust, sclust, err, buf, chain, theirs>>
  BY DEF PutBlock, Done, Extend, IInv, File, Started, Calm
<1>2. Volume'
  BY <1>1, VolumePuts
<1>3. PICK q \in Nat : q = fptr \div C /\ q < Len(chain) /\ clust = chain[q + 1]
  <2>1. PICK q \in Nat : q = fptr \div C
    BY Nats, InCluster
  <2> QED BY <1>1, <2>1 DEF IInv, File, Positioned
<1>4. FileTypes'
  <2>1. fptr' \in Nat /\ objsize' \in Nat
    BY <1>1, Nats
  <2> QED BY <1>1, <2>1 DEF IInv, File, FileTypes
<1>5. fptr + 1 <= C * Len(chain)
  BY <1>3, InCluster, Nats, Zenon
<1>6. sclust = First(chain) /\ sclust # 0
  <2>1. sclust = First(chain)
    BY <1>1 DEF IInv, File, Started, Calm
  <2>2. 1 \in 1..Len(chain)
    BY <1>3, Nats
  <2> QED BY <2>1, <2>2, Facts, Numbers
<1>7. Sized'
  <2>1. /\ dir.size <= objsize /\ objsize <= C * Len(chain)
    BY <1>1 DEF IInv, File, Sized
  <2>2. dir.size <= objsize' /\ objsize' <= C * Len(chain)
    BY <1>1, <1>5, <2>1, Facts
  <2> QED BY <1>1, <1>6, <2>2 DEF Sized
<1>8. Started' /\ Marked'
  BY <1>1, <1>6 DEF IInv, File, Started, Calm, Marked
<1>9. There'
  <2>1. fptr' - 1 = fptr /\ fptr' <= objsize'
    BY <1>1, Nats
  <2>2. (fptr' - 1) \div C = q
    BY <1>3, <2>1
  <2> QED BY <1>1, <1>3, <2>1, <2>2 DEF There
<1>10. Positioned'
  BY <1>1, <1>9 DEF Positioned
<1> QED BY <1>2, <1>4, <1>7, <1>8, <1>10 DEF IInv, File

LEMMA InvPutFails == ASSUME IInv, PutFails PROVE IInv'
<1>1. /\ pc = "put" /\ (UNCHANGED data \/ Put(buf)) /\ err' = "disk"
      /\ pc' = "ready" /\ result' = "error" /\ op' = "none" /\ blk' = 0
      /\ ofs' = 0 /\ clst' = 0 /\ got' = 0 /\ ret' = "none"
      /\ UNCHANGED <<dfat, dir, info, fs, fptr, clust, sclust, objsize, modified, buf, chain, theirs>>
  BY DEF PutFails, Abort, Done
<1>2. Volume'
  BY <1>1, VolumePuts
<1>3. FileTypes'
  BY <1>1 DEF IInv, File, FileTypes
<1>4. Sized' /\ Started' /\ Positioned' /\ Marked'
  BY <1>1 DEF IInv, File, Sized, Started, Calm, Positioned, Marked
<1> QED BY <1>2, <1>3, <1>4 DEF IInv, File

-----------------------------------------------------------------------------
(* create_chain(). *)

\* Where it looks is in the FAT, and it gives up where the disk is full.
LEMMA ChainAt ==
    ASSUME IInv, pc = "chain"
    PROVE  /\ err = "none" /\ sclust = First(chain) /\ clst \in Clusters \cup {0}
           /\ Len(chain) \in Nat /\ ret \in {"first", "next", "grown"}
           /\ \E j \in 0..Len(chain) :
                 /\ Asking(j) /\ (j = 0 => clst = 0 /\ sclust = 0) /\ (j > 0 => clst = chain[j])
                 /\ (clst = 0 <=> j = 0)
                 /\ Linked <=> j > 0 /\ j < Len(chain)
                 /\ j = 0 => Len(chain) = 0
<1>1. err = "none" /\ sclust = First(chain) /\ clst \in Clusters \cup {0}
  BY DEF IInv, File, Started, Calm, FileTypes
<1>2. PICK j \in 0..Len(chain) : Asking(j)
  BY DEF IInv, File, Positioned
<1>3. ret \in {"first", "next", "grown"} /\ (j = 0 => sclust = 0 /\ clst = 0) /\ (j > 0 => clst = chain[j])
  BY <1>2 DEF Asking
<1>4. Len(chain) \in Nat /\ j \in Nat /\ (j > 0 => j \in 1..Len(chain))
  BY <1>2, Nats
<1>5. j > 0 => clst \in Clusters /\ clst # 0
  BY <1>3, <1>4, Facts, Numbers
<1>6. j = 0 => Len(chain) = 0
  <2>1. Len(chain) # 0 => 1 \in 1..Len(chain)
    BY <1>4
  <2> QED BY <1>1, <1>3, <2>1, Facts, Numbers
<1>7. Linked <=> j > 0 /\ j < Len(chain)
  <2>1. CASE j > 0 /\ j < Len(chain)
    <3>1. j \in 1..Len(chain) - 1 /\ j + 1 \in 1..Len(chain)
      BY <1>4, <2>1
    <3>2. fat[chain[j]] = chain[j + 1] /\ chain[j + 1] \in Clusters
      BY <3>1, Facts
    <3> QED BY <1>3, <1>5, <2>1, <3>2, Numbers DEF Linked
  <2>2. CASE j > 0 /\ j = Len(chain)
    BY <1>3, <1>4, <2>2, Facts DEF Linked
  <2>3. CASE j = 0
    BY <1>3, <2>3 DEF Linked
  <2> QED BY <1>4, <2>1, <2>2, <2>3
<1> QED BY <1>1, <1>2, <1>3, <1>4, <1>5, <1>6, <1>7

\* Whatever of the FAT is on the card, it is sound and counted.
LEMMA EitherFat ==
    ASSUME IInv, pc # "closed"
    PROVE  /\ \A f \in {dfat, fat} :
                 /\ f \in [Clusters -> Entries] /\ FreeIn(fat) \subseteq FreeIn(f) /\ NoDangling(f)
                 /\ Backed(f, dir, chain) /\ Cardinality(FreeIn(f)) <= info.free
                 /\ \A c \in DOMAIN theirs : f[c] = theirs[c].link
           /\ fat \in [Clusters -> Entries] /\ dfat \in [Clusters -> Entries] /\ NoDangling(fat)
<1>1. dir.size <= C * Len(chain)
  <2>1. dir.size <= objsize /\ objsize <= C * Len(chain)
    BY DEF IInv, File, Sized
  <2> QED BY <2>1, Facts
<1>2. Backed(fat, dir, chain)
  BY <1>1, BackedNow DEF IInv, Volume, Chained, CardTypes
<1>3. Cardinality(FreeIn(fat)) <= info.free
  <2>1. FreeIn(fat) \in SUBSET FreeIn(dfat)
    BY DEF IInv, Volume, Snapshot
  <2>2. /\ Cardinality(FreeIn(fat)) \in Nat /\ Cardinality(FreeIn(dfat)) \in 0..N
        /\ Cardinality(FreeIn(fat)) <= Cardinality(FreeIn(dfat))
    BY <2>1, FreeCounts
  <2>3. info.free \in Nat /\ Cardinality(FreeIn(dfat)) <= info.free
    BY Numbers DEF IInv, Volume, CardTypes, Counted
  <2> QED BY <2>2, <2>3
<1> QED BY <1>2, <1>3 DEF IInv, Volume, CardTypes, Snapshot, Chained, Counted, Owned

\* The search passes every cluster, and finds a free one if there is one.
LEMMA SearchIs ==
    ASSUME IInv
    PROVE  /\ FreeIn(fat) # {} => NewCluster \in FreeIn(fat)
           /\ LastLooked \in Clusters
<1>1. N \in Nat \ {0} /\ Clusters = 2..N + 1
  BY Numbers DEF Clusters
<1>2. clst \in Clusters \cup {0} /\ last \in Clusters \cup {Unknown}
  BY DEF IInv, Volume, File, CardTypes, FileTypes
<1>3. Start \in 1..N + 1
  BY <1>1, <1>2 DEF Start
<1>4. PICK a \in 1..N + 1 : a = Start
  BY <1>3
<1>5. \A c \in Clusters : Distance(c) = (c + N - a - 1) % N
  BY <1>4 DEF Distance
<1>6. \A c \in Clusters : Distance(c) \in Nat
  BY <1>1, <1>4, <1>5
<1>7. \E c \in Clusters : Distance(c) = N - 1
  <2>1. CASE a = 1
    <3>1. N + 1 \in Clusters /\ N * 1 = N
      BY <1>1
    <3>0. N \in Nat \ {0} /\ 1 \in Nat /\ N - 1 \in Nat /\ N - 1 < N
      BY <1>1
    <3>2. (N * 1 + (N - 1)) % N = N - 1
      BY <3>0, Divided, Zenon
    <3>3. (N + 1) + N - a - 1 = N + (N - 1)
      BY <1>1, <2>1
    <3>4. (N + (N - 1)) % N = N - 1
      BY <3>1, <3>2, Zenon
    <3> QED BY <1>5, <3>1, <3>3, <3>4, Zenon
  <2>2. CASE a # 1
    <3>1. a \in Clusters
      BY <1>1, <1>4, <2>2
    <3>2. (N * 0 + (N - 1)) % N = N - 1
      BY <1>1, Divided
    <3>3. a + N - a - 1 = N - 1 /\ N * 0 + (N - 1) = N - 1
      BY <1>1, <1>4
    <3>4. (N - 1) % N = N - 1
      BY <3>2, <3>3, Zenon
    <3> QED BY <1>5, <3>1, <3>3, <3>4, Zenon
  <2> QED BY <2>1, <2>2
<1>8. ASSUME FreeIn(fat) # {} PROVE NewCluster \in FreeIn(fat)
  <2> DEFINE T == {Distance(c) : c \in FreeIn(fat)}
  <2>1. FreeIn(fat) \subseteq Clusters
    BY DEF FreeIn
  <2>2. T \subseteq Nat /\ T # {}
    BY <1>6, <1>8, <2>1
  <2>3. PICK x \in T : \A y \in T : x <= y
    BY <2>2, Smallest, Zenon
  <2>4. \E c \in FreeIn(fat) : \A e \in FreeIn(fat) : Distance(c) <= Distance(e)
    BY <2>3, Zenon
  <2> QED BY <2>4 DEF NewCluster
<1>9. LastLooked \in Clusters
  BY <1>7, <1>8 DEF LastLooked, FreeIn
<1> QED BY <1>8, <1>9

\* What create_chain() looks at is a sector of the FAT.
LEMMA ChainVisits ==
    ASSUME IInv,
           \/ Visit(Looked, FatSector(clst)) \/ VisitFails(Looked)
           \/ Visit(Looked, FatSector(IF Sought THEN LastLooked ELSE clst))
           \/ VisitFails({FatSector(clst)})
    PROVE  \/ UNCHANGED <<dfat, win, wflag>>
           \/ dfat' = fat /\ wflag' = FALSE /\ win' \in 0..NoSector
           \/ wflag /\ dfat' \in {dfat, fat} /\ UNCHANGED <<win, wflag>>
<1>1. \A c \in Clusters \cup {0} : FatSector(c) \in 0..NoSector
  <2>1. \A x \in 0..N + 1 : x \in 0..NoSector
    BY Numbers
  <2> QED BY <2>1, Numbers
<1>2. clst \in Clusters \cup {0} /\ LastLooked \in Clusters /\ NoSector \in 0..NoSector
  BY SearchIs, Numbers DEF IInv, File, FileTypes
<1>3. /\ FatSector(clst) \in 0..NoSector
      /\ FatSector(IF Sought THEN LastLooked ELSE clst) \in 0..NoSector
  BY <1>1, <1>2
<1> QED BY <1>2, <1>3 DEF Visit, VisitFails

\* There is a next cluster: it is the next one of the file.
LEMMA InvChainFollow == ASSUME IInv, ChainFollow PROVE IInv'
<1>1. /\ pc = "chain" /\ Linked /\ Visit(Looked, FatSector(clst))
      /\ UNCHANGED <<dir, info, data, fat, free, last, fsi,
                     fptr, clust, sclust, objsize, modified, buf, chain, theirs>>
  BY DEF ChainFollow
<1>2. PICK j \in 0..Len(chain) : Asking(j) /\ j > 0 /\ j < Len(chain) /\ clst = chain[j]
  BY <1>1, ChainAt
<1>3. fat[clst] = chain[j + 1] /\ fat[clst] \in Clusters /\ fat[clst] # Free /\ fat[clst] # 0
  <2>1. j \in 1..Len(chain) - 1 /\ j + 1 \in 1..Len(chain)
    BY <1>2, Nats
  <2> QED BY <1>2, <2>1, Facts, Numbers
<1>4. got' = fat[clst] /\ pc' = ret /\ UNCHANGED <<op, blk, ofs, clst, ret, result, err>>
  BY <1>3 DEF ChainFollow
<1>5. /\ ret \in {"first", "next", "grown"} /\ err = "none" /\ sclust = First(chain)
      /\ ret # "first" /\ (ret = "grown" => fptr = blk)
      /\ Len(chain) \in Nat
  BY <1>1, <1>2, ChainAt DEF Asking
<1>6. Volume'
  <2>1. Looks
    BY <1>1, ChainVisits DEF Looks
  <2> QED BY <1>1, <1>4, <1>5, <2>1, VolumeLooks
<1>7. FileTypes'
  BY <1>1, <1>3, <1>4, <1>5 DEF IInv, File, FileTypes
<1>8. Sized' /\ Started' /\ Marked'
  BY <1>1, <1>4, <1>5 DEF IInv, File, Sized, Started, Calm, Marked
<1>9. Asking(j)'
  BY <1>1, <1>2, <1>3, <1>4, <1>5 DEF Asking
<1>10. Positioned'
  <2>1. (j \in 0..Len(chain))'
    BY <1>1, <1>2
  <2> QED BY <1>4, <1>5, <1>9, <2>1 DEF Positioned
<1> QED BY <1>6, <1>7, <1>8, <1>10 DEF IInv, File

\* The disk is full.
LEMMA InvChainFull == ASSUME IInv, ChainFull PROVE IInv'
<1>1. /\ pc = "chain" /\ ~Linked /\ Full /\ got' = 0 /\ pc' = ret
      /\ Visit(Looked, FatSector(IF Sought THEN LastLooked ELSE clst))
      /\ UNCHANGED <<dir, info, data, fat, free, last, fsi, fil,
                     op, blk, buf, ofs, clst, ret, result, chain, theirs>>
  BY DEF ChainFull, Full
<1>2. PICK j \in 0..Len(chain) : Asking(j) /\ j = Len(chain) /\ (j = 0 => sclust = 0 /\ clst = 0)
  BY <1>1, ChainAt
<1>3. /\ ret \in {"first", "next", "grown"} /\ err = "none" /\ sclust = First(chain)
      /\ Len(chain) \in Nat
  BY <1>1, ChainAt
<1>4. Volume'
  <2>1. Looks
    BY <1>1, ChainVisits DEF Looks
  <2> QED BY <1>1, <1>3, <2>1, VolumeLooks
<1>5. FileTypes'
  BY <1>1, <1>3 DEF IInv, File, FileTypes, fil
<1>6. Sized' /\ Started' /\ Marked'
  BY <1>1, <1>3 DEF IInv, File, Sized, Started, Calm, Marked, fil
<1>7. Asking(j)'
  BY <1>1, <1>2, <1>3 DEF Asking, Full, fil
<1>8. Positioned'
  <2>1. (j \in 0..Len(chain))'
    BY <1>1, <1>2
  <2> QED BY <1>1, <1>3, <1>7, <2>1 DEF Positioned
<1> QED BY <1>4, <1>5, <1>6, <1>8 DEF IInv, File

LEMMA InvChainFails == ASSUME IInv, ChainFails PROVE IInv'
<1>1. /\ pc \in {"chain", "link"} /\ (VisitFails(Looked) \/ VisitFails({FatSector(clst)}))
      /\ pc' = "ready" /\ result' = "error" /\ op' = "none" /\ blk' = 0 /\ err' = "disk"
      /\ ofs' = 0 /\ clst' = 0 /\ got' = 0 /\ ret' = "none"
      /\ UNCHANGED <<dir, info, data, fat, free, last, fsi,
                     fptr, clust, sclust, objsize, modified, buf, chain, theirs>>
  BY DEF ChainFails, Abort, Done
<1>2. Volume'
  <2>1. Looks
    BY <1>1, ChainVisits DEF Looks
  <2> QED BY <1>1, <2>1, VolumeLooks
<1>3. FileTypes'
  BY <1>1 DEF IInv, File, FileTypes
<1>4. Sized' /\ Started' /\ Positioned' /\ Marked'
  BY <1>1 DEF IInv, File, Sized, Started, Calm, Positioned, Marked
<1> QED BY <1>2, <1>3, <1>4 DEF IInv, File

\* A free cluster is taken.
LEMMA TakeFree ==
    ASSUME IInv, NEW c \in FreeIn(fat), NEW f, f = [fat EXCEPT ![c] = EOC]
    PROVE  /\ c \in Clusters /\ c # 0 /\ f \in [Clusters -> Entries] /\ f[c] = EOC
           /\ \A x \in Clusters : x # c => f[x] = fat[x]
           /\ FreeIn(f) = FreeIn(fat) \ {c} /\ NoDangling(f)
           /\ Cardinality(FreeIn(f)) \in Nat
           /\ Cardinality(FreeIn(fat)) = Cardinality(FreeIn(f)) + 1
           /\ \A i \in 1..Len(chain) : chain[i] # c
           /\ IsChain(f, chain)
<1>1. fat \in [Clusters -> Entries] /\ NoDangling(fat)
  BY DEF IInv, Volume, CardTypes, Snapshot
<1>2. c \in Clusters /\ fat[c] = Free /\ c # 0
  BY Numbers DEF FreeIn
<1>3. EOC \in Entries
  BY DEF Entries
<1>4. /\ f \in [Clusters -> Entries] /\ f[c] = EOC
      /\ \A x \in Clusters : x # c => f[x] = fat[x]
  BY <1>1, <1>2, <1>3
<1>5. FreeIn(f) = FreeIn(fat) \ {c}
  BY <1>2, <1>4, Numbers DEF FreeIn
<1>6. NoDangling(f)
  BY <1>1, <1>2, <1>4, Numbers DEF NoDangling
<1>7. /\ Cardinality(FreeIn(f)) = Cardinality(FreeIn(fat)) - 1
      /\ Cardinality(FreeIn(fat)) \in Nat /\ Cardinality(FreeIn(f)) \in Nat
  BY <1>5, FreeCounts
<1>10. Cardinality(FreeIn(fat)) = Cardinality(FreeIn(f)) + 1
  BY <1>7
<1>8. \A i \in 1..Len(chain) : chain[i] \in Clusters /\ chain[i] # c
  BY <1>2, Facts
<1>9. IsChain(f, chain)
  <2>1. IsChain(fat, chain) /\ Len(chain) \in Nat
    BY Facts DEF IInv, Volume, Chained
  <2>2. \A i \in 1..Len(chain) : f[chain[i]] = fat[chain[i]]
    BY <1>4, <1>8
  <2>3. /\ \A i \in 1..Len(chain) - 1 : i \in 1..Len(chain)
        /\ Len(chain) > 0 => Len(chain) \in 1..Len(chain)
    BY <2>1
  <2> QED BY <2>1, <2>2, <2>3 DEF IsChain
<1> QED BY <1>2, <1>4, <1>5, <1>6, <1>7, <1>8, <1>9, <1>10, Zenon

\* A cluster of its own is a chain.
LEMMA OneCluster ==
    ASSUME NEW c \in Clusters, NEW f, f[c] = EOC
    PROVE  /\ <<c>> \in Seq(Clusters) /\ Len(<<c>>) = 1 /\ <<c>>[1] = c
           /\ IsChain(f, <<c>>) /\ First(<<c>>) = c
BY DEF IsChain, First

\* A free cluster is marked: it is the first one of the file, or to be linked.
LEMMA InvChainMark == ASSUME IInv, ChainMark PROVE IInv'
<1>1. PICK c \in FreeIn(fat) : c = NewCluster
  BY SearchIs DEF ChainMark
<1>2. /\ pc = "chain" /\ free # 0 /\ ~Linked /\ FreeIn(fat) # {} /\ ~Full
      /\ dfat' \in {dfat, fat} /\ fat' = [fat EXCEPT ![c] = EOC]
      /\ win' = FatSector(c) /\ wflag' = TRUE /\ got' = c
      /\ UNCHANGED <<dir, info, data, fil, op, blk, buf, ofs, clst, ret, result, theirs>>
  BY <1>1 DEF ChainMark, Sought, Full
<1>3. PICK j \in 0..Len(chain) :
         Asking(j) /\ j = Len(chain) /\ (j = 0 => sclust = 0 /\ clst = 0) /\ (clst = 0 <=> j = 0)
  BY <1>2, ChainAt
<1>4. /\ ret \in {"first", "next", "grown"} /\ err = "none" /\ sclust = First(chain)
      /\ Len(chain) \in Nat /\ (ret = "grown" => fptr = blk)
  BY <1>2, <1>3, ChainAt DEF Asking
<1>5. /\ c \in Clusters /\ c # 0 /\ fat' \in [Clusters -> Entries] /\ fat'[c] = EOC
      /\ FreeIn(fat') = FreeIn(fat) \ {c} /\ NoDangling(fat')
      /\ Cardinality(FreeIn(fat')) \in Nat
      /\ Cardinality(FreeIn(fat)) = Cardinality(FreeIn(fat')) + 1
      /\ \A i \in 1..Len(chain) : chain[i] # c
      /\ IsChain(fat', chain)
      /\ c \notin DOMAIN theirs /\ \A x \in DOMAIN theirs : fat'[x] = theirs[x].link
  <2>1. PICK f : f = fat'
    OBVIOUS
  <2>2. f = [fat EXCEPT ![c] = EOC] /\ c \in FreeIn(fat)
    BY <1>1, <1>2, <2>1
  <2>3. /\ c \in Clusters /\ c # 0 /\ f \in [Clusters -> Entries] /\ f[c] = EOC
        /\ FreeIn(f) = FreeIn(fat) \ {c} /\ NoDangling(f)
        /\ Cardinality(FreeIn(f)) \in Nat
        /\ Cardinality(FreeIn(fat)) = Cardinality(FreeIn(f)) + 1
        /\ \A i \in 1..Len(chain) : chain[i] # c
        /\ IsChain(f, chain)
    BY <2>2, TakeFree, Zenon
  <2>4. \A x \in DOMAIN theirs : x # c /\ fat'[x] = theirs[x].link
    <3>1. fat \in [Clusters -> Entries] /\ c \in Clusters /\ fat[c] = Free
      BY <1>1 DEF IInv, Volume, CardTypes, FreeIn
    <3> QED BY <1>2, <3>1 DEF IInv, Volume, Owned
  <2> QED BY <2>1, <2>3, <2>4
<1>6. /\ dfat' \in [Clusters -> Entries] /\ FreeIn(fat) \subseteq FreeIn(dfat') /\ NoDangling(dfat')
      /\ Backed(dfat', dir, chain) /\ Cardinality(FreeIn(dfat')) <= info.free
      /\ \A x \in DOMAIN theirs : dfat'[x] = theirs[x].link
  BY <1>2, EitherFat
<1>7. pc' # "closed" /\ pc' \notin {"entry", "fsinfo"} /\ win' \in 0..NoSector /\ win' # DirSector
  <2>1. FatSector(c) \in 0..N + 1
    BY <1>5, Numbers
  <2>2. pc' \in {"first", "next", "grown", "link"}
    BY <1>4 DEF ChainMark, Taken
  <2> QED BY <1>2, <2>1, <2>2, Numbers
<1>8. Snapshot'
  BY <1>2, <1>5, <1>6, <1>7 DEF Snapshot
<1>9. /\ Cardinality(FreeIn(fat)) <= free /\ free \in 0..N \cup {Unknown}
      /\ last \in Clusters \cup {Unknown} /\ fsi \in BOOLEAN /\ chain \in Seq(Clusters)
  BY DEF IInv, Volume, CardTypes, Counted
<1>10. CASE clst = 0
  <2>1. /\ last' = c /\ free' = (IF free <= N THEN free - 1 ELSE free) /\ fsi' = FSInfo
        /\ pc' = ret /\ chain' = <<c>>
    BY <1>1, <1>10 DEF ChainMark, Taken
  <2>2. j = 0 /\ Len(chain) = 0 /\ chain = <<>> /\ sclust = 0 /\ ret # "next"
    BY <1>3, <1>10, Facts, InChain DEF Asking
  <2>3. chain' \in Seq(Clusters) /\ Len(chain') = 1 /\ chain'[1] = c /\ IsChain(fat', chain')
    BY <1>5, <2>1, OneCluster
  <2>4. CardTypes'
    <3>1. free' \in 0..N \cup {Unknown}
      BY <1>2, <1>9, <2>1, Numbers
    <3>2. fsi' \in BOOLEAN
      BY <2>1, InputsAssumption
    <3> QED BY <1>2, <1>5, <1>6, <1>7, <2>1, <2>3, <3>1, <3>2 DEF IInv, Volume, CardTypes
  <2>5. Chained'
    <3>1. dir.sclust = 0 /\ dir.size = 0
      BY <2>2 DEF IInv, Volume, Chained, Backed
    <3> QED BY <1>2, <1>7, <2>3, <3>1 DEF Chained, Backed
  <2>6. Owned'
    BY <1>2, <1>5, <1>6, <2>3 DEF IInv, Volume, Owned
  <2>7. Counted'
    <3>1. Cardinality(FreeIn(fat')) <= free'
      BY <1>5, <1>9, <2>1, Numbers
    <3>2. pc' # "link"
      BY <1>4, <2>1
    <3> QED BY <1>2, <1>6, <3>1, <3>2 DEF Counted
  <2>8. FileTypes'
    BY <1>2, <1>4, <1>5, <2>1 DEF IInv, File, FileTypes, fil
  <2>9. Sized'
    <3>1. objsize = 0 /\ dir.size = 0
      <4>1. objsize = 0 /\ dir.size <= objsize
        BY <1>2, <2>2 DEF IInv, File, Sized
      <4> QED BY <4>1, Facts
    <3> QED BY <1>2, <2>3, <3>1, Nats DEF Sized, fil
  <2>10. Started' /\ Marked'
    BY <1>2, <1>4, <2>1, <2>2 DEF IInv, File, Started, Calm, Marked, fil
  <2>11. Asking(0)'
    BY <1>2, <1>3, <1>4, <1>5, <2>1, <2>2, <2>3 DEF Asking, fil
  <2>12. Positioned'
    <3>1. (0 \in 0..Len(chain))'
      BY <2>3
    <3> QED BY <1>4, <2>1, <2>11, <3>1 DEF Positioned
  <2> QED BY <1>8, <2>4, <2>5, <2>6, <2>7, <2>8, <2>9, <2>10, <2>12 DEF IInv, Volume, File
<1>11. CASE clst # 0
  <2>1. pc' = "link" /\ UNCHANGED <<last, free, fsi, chain>>
    BY <1>11 DEF ChainMark
  <2>2. j > 0
    BY <1>3, <1>4, <1>11
  <2>3. CardTypes'
    BY <1>2, <1>5, <1>6, <1>7, <1>9, <2>1 DEF IInv, Volume, CardTypes
  <2>4. Chained'
    BY <1>2, <1>5, <1>6, <1>7, <2>1 DEF Chained
  <2>5. Owned'
    BY <1>2, <1>5, <1>6, <2>1 DEF IInv, Volume, Owned
  <2>6. Counted'
    <3>1. Cardinality(FreeIn(fat')) < free
      BY <1>5, <1>9, Numbers
    <3> QED BY <1>2, <1>6, <2>1, <3>1, <1>5, <1>9, Numbers DEF Counted
  <2>7. FileTypes'
    BY <1>2, <1>5, <2>1 DEF IInv, File, FileTypes, fil
  <2>8. Sized' /\ Started' /\ Marked'
    BY <1>2, <1>4, <2>1 DEF IInv, File, Sized, Started, Calm, Marked, fil
  <2>9. Asking(j)'
    BY <1>2, <1>3, <1>4, <1>5, <2>1, <2>2 DEF Asking, fil
  <2>10. Positioned'
    <3>1. (j \in 0..Len(chain))'
      BY <1>3, <2>1
    <3> QED BY <2>1, <2>9, <3>1 DEF Positioned
  <2> QED BY <1>8, <2>3, <2>4, <2>5, <2>6, <2>7, <2>8, <2>10 DEF IInv, Volume, File
<1> QED BY <1>10, <1>11

\* The taken cluster is linked: the chain is longer by one.
LEMMA Longer ==
    ASSUME NEW ch \in Seq(Clusters), Len(ch) > 0, NEW g \in Clusters, \A i \in 1..Len(ch) : ch[i] # g,
           NEW f \in [Clusters -> Entries], IsChain(f, ch), f[g] = EOC,
           NEW h, h[ch[Len(ch)]] = g, \A x \in Clusters : x # ch[Len(ch)] => h[x] = f[x]
    PROVE  /\ Append(ch, g) \in Seq(Clusters) /\ Len(Append(ch, g)) = Len(ch) + 1
           /\ \A i \in 1..Len(ch) : Append(ch, g)[i] = ch[i]
           /\ Append(ch, g)[Len(ch) + 1] = g
           /\ First(Append(ch, g)) = First(ch)
           /\ IsChain(h, Append(ch, g))
<1> DEFINE a == Append(ch, g)
           l == Len(ch)
<1>1. /\ a \in Seq(Clusters) /\ Len(a) = l + 1 /\ a[l + 1] = g
      /\ \A i \in 1..l : a[i] = ch[i]
  BY AppendProperties
<1>2. l \in Nat /\ l > 0 /\ \A i \in 1..l : ch[i] \in Clusters /\ ch[i] # g
  BY InChain
<1>3. /\ \A i, j \in 1..l : ch[i] = ch[j] => i = j
      /\ \A i \in 1..l - 1 : f[ch[i]] = ch[i + 1]
  BY DEF IsChain
<1> HIDE DEF a, l
<1>4. l \in 1..l /\ h[ch[l]] = g /\ \A x \in Clusters : x # ch[l] => h[x] = f[x]
  BY <1>2 DEF l
<1>5. h[ch[l]] = g /\ h[g] = EOC /\ \A i \in 1..l - 1 : h[ch[i]] = f[ch[i]]
  <2>1. \A i \in 1..l - 1 : i \in 1..l /\ i # l
    BY <1>2
  <2>2. \A i \in 1..l - 1 : ch[i] # ch[l] /\ ch[i] \in Clusters
    BY <1>2, <1>3, <1>4, <2>1
  <2> QED BY <1>2, <1>4, <2>2
<1>6. \A i \in 1..Len(a) : i \in 1..l \/ (i = l + 1 /\ a[i] = g)
  BY <1>1, <1>2
<1>7. \A i \in 1..Len(a) : a[i] \in Clusters
  BY <1>1, <1>2, <1>6
<1>8. ASSUME NEW i \in 1..Len(a), NEW j \in 1..Len(a), a[i] = a[j] PROVE i = j
  BY <1>1, <1>2, <1>3, <1>6, <1>8
<1>9. ASSUME NEW i \in 1..Len(a) - 1 PROVE h[a[i]] = a[i + 1]
  <2>1. i \in 1..l /\ (i = l \/ (i \in 1..l - 1 /\ i + 1 \in 1..l))
    BY <1>1, <1>2
  <2> QED BY <1>1, <1>3, <1>5, <2>1
<1>10. h[a[Len(a)]] = EOC
  BY <1>1, <1>5
<1>11. First(a) = First(ch)
  <2>1. Len(a) # 0 /\ 1 \in 1..l /\ Len(ch) # 0
    BY <1>1, <1>2 DEF l
  <2> QED BY <1>1, <2>1, InChain
<1> QED BY <1>1, <1>7, <1>8, <1>9, <1>10, <1>11 DEF IsChain, a, l

LEMMA InvChainLink == ASSUME IInv, ChainLink PROVE IInv'
<1>1. /\ pc = "link" /\ dfat' \in {dfat, fat} /\ fat' = [fat EXCEPT ![clst] = got]
      /\ win' = FatSector(clst) /\ wflag' = TRUE
      /\ last' = got /\ free' = (IF free <= N THEN free - 1 ELSE free) /\ fsi' = FSInfo
      /\ pc' = ret /\ chain' = Append(chain, got)
      /\ UNCHANGED <<dir, info, data, fil, op, blk, buf, ofs, clst, got, ret, result, theirs>>
  BY DEF ChainLink, Taken
<1>2. PICK j \in 0..Len(chain) : Asking(j)
  BY <1>1 DEF IInv, File, Positioned
<1>3. /\ ret \in {"first", "next", "grown"} /\ j = Len(chain) /\ j > 0
      /\ clst = chain[j] /\ clust = chain[j] /\ fptr = C * j
      /\ got \in Clusters /\ fat[got] = EOC /\ got \notin DOMAIN theirs
      /\ ret # "first" /\ (ret = "next" => ofs > 0 /\ fptr + ofs = blk)
      /\ ret = "grown" => fptr = blk /\ fptr <= objsize
  BY <1>1, <1>2 DEF Asking
<1>4. \A i \in 1..Len(chain) : chain[i] # got
  BY <1>1, <1>2 DEF Asking
<1>5. /\ chain \in Seq(Clusters) /\ Len(chain) \in Nat /\ j \in 1..Len(chain)
      /\ clst \in Clusters /\ fat[clst] = EOC
  <2>1. Len(chain) \in Nat /\ j \in 1..Len(chain)
    BY <1>2, <1>3, Nats
  <2> QED BY <1>3, <2>1, Facts
<1>6. /\ fat \in [Clusters -> Entries] /\ NoDangling(fat)
      /\ dfat' \in [Clusters -> Entries] /\ FreeIn(fat) \subseteq FreeIn(dfat') /\ NoDangling(dfat')
      /\ Backed(dfat', dir, chain) /\ Cardinality(FreeIn(dfat')) <= info.free
      /\ \A x \in DOMAIN theirs : dfat'[x] = theirs[x].link
  BY <1>1, EitherFat
<1>7. /\ fat' \in [Clusters -> Entries] /\ fat'[clst] = got
      /\ \A x \in Clusters : x # clst => fat'[x] = fat[x]
  <2>1. got \in Entries
    BY <1>3 DEF Entries
  <2> QED BY <1>1, <1>5, <1>6, <2>1
<1>8. /\ chain' \in Seq(Clusters) /\ Len(chain') = Len(chain) + 1
      /\ \A i \in 1..Len(chain) : chain'[i] = chain[i]
      /\ chain'[Len(chain) + 1] = got /\ First(chain') = First(chain)
      /\ IsChain(fat', chain')
  <2>1. IsChain(fat, chain)
    BY DEF IInv, Volume, Chained
  <2>2. clst = chain[Len(chain)] /\ Len(chain) > 0
    BY <1>3, <1>5
  <2>3. PICK h : h = fat'
    OBVIOUS
  <2>4. h[chain[Len(chain)]] = got /\ \A x \in Clusters : x # chain[Len(chain)] => h[x] = fat[x]
    BY <1>7, <2>2, <2>3
  <2>5. got \in Clusters /\ fat[got] = EOC /\ fat \in [Clusters -> Entries] /\ chain \in Seq(Clusters)
    BY <1>3, <1>5, <1>6
  <2>6. /\ Append(chain, got) \in Seq(Clusters) /\ Len(Append(chain, got)) = Len(chain) + 1
        /\ \A i \in 1..Len(chain) : Append(chain, got)[i] = chain[i]
        /\ Append(chain, got)[Len(chain) + 1] = got
        /\ First(Append(chain, got)) = First(chain)
        /\ IsChain(h, Append(chain, got))
    BY <1>4, <2>1, <2>2, <2>4, <2>5, Longer
  <2> QED BY <1>1, <2>3, <2>6
<1>9. FreeIn(fat') = FreeIn(fat)
  BY <1>3, <1>5, <1>7, Numbers DEF FreeIn
<1>10. NoDangling(fat')
  <2>1. clst # got /\ fat'[got] = EOC /\ got # Free /\ EOC # Free
    BY <1>3, <1>4, <1>5, <1>7, Numbers
  <2>2. ASSUME NEW c \in Clusters, fat'[c] \in Clusters PROVE fat'[fat'[c]] # Free
    <3>1. CASE c = clst
      BY <1>7, <2>1, <3>1
    <3>2. CASE c # clst
      <4>1. fat'[c] = fat[c] /\ fat[fat[c]] # Free
        BY <1>6, <1>7, <2>2, <3>2 DEF NoDangling
      <4>2. fat'[fat[c]] \in {got, fat[fat[c]]}
        BY <1>7, <2>2, <4>1
      <4> QED BY <2>1, <4>1, <4>2
    <3> QED BY <3>1, <3>2
  <2> QED BY <2>2 DEF NoDangling
<1>11. pc' # "closed" /\ pc' \notin {"entry", "fsinfo", "link"} /\ win' \in 0..NoSector /\ win' # DirSector
  <2>1. FatSector(clst) \in 0..N + 1
    BY <1>5, Numbers
  <2> QED BY <1>1, <1>3, <2>1, Numbers
<1>12. Snapshot'
  BY <1>1, <1>6, <1>9, <1>10, <1>11 DEF Snapshot
<1>13. Cardinality(FreeIn(fat)) < free /\ free \in 0..N \cup {Unknown} /\ Cardinality(FreeIn(fat)) \in Nat
  BY <1>1, FreeCounts DEF IInv, Volume, CardTypes, Counted
<1>14. CardTypes'
  <2>1. free' \in 0..N \cup {Unknown}
    <3>1. free' = IF free <= N THEN free - 1 ELSE free
      BY <1>1
    <3>2. N \in Nat /\ Unknown = N + 2
      BY Numbers
    <3> QED BY <1>13, <3>1, <3>2
  <2>2. fsi' \in BOOLEAN
    BY <1>1, InputsAssumption
  <2> QED BY <1>1, <1>3, <1>6, <1>8, <1>7, <1>11, <2>1, <2>2 DEF IInv, Volume, CardTypes
<1>15. Chained'
  <2>1. Backed(dfat', dir, chain')
    <3>1. CASE dir.sclust = 0
      BY <1>6, <3>1 DEF Backed
    <3>2. CASE dir.sclust # 0
      <4>1. PICK k \in 1..Len(chain) : Ends(dfat', chain, k) /\ dir.size <= C * k
        BY <1>6, <3>2 DEF Backed
      <4>2. dir.sclust = chain[1] /\ 1 \in 1..Len(chain) /\ chain' # <<>>
        BY <1>5, <1>6, <1>8, <3>2, InChain DEF Backed
      <4>3. k \in 1..Len(chain') /\ \A i \in 1..k - 1 : i \in 1..Len(chain) /\ i + 1 \in 1..Len(chain)
        BY <1>5, <1>8, <4>1
      <4>4. Ends(dfat', chain', k)
        BY <1>8, <4>1, <4>3 DEF Ends
      <4>5. chain'[1] = chain[1]
        BY <1>8, <4>2
      <4> QED BY <3>2, <4>1, <4>2, <4>3, <4>4, <4>5 DEF Backed
    <3> QED BY <3>1, <3>2
  <2> QED BY <1>1, <1>8, <1>11, <2>1 DEF Chained
<1>16. Owned'
  <2>1. ASSUME NEW x \in DOMAIN theirs
        PROVE  /\ x \in Clusters /\ x # clst /\ x # got /\ theirs[x].link # Free
               /\ fat[x] = theirs[x].link /\ data[x] = theirs[x].data
               /\ \A i \in 1..Len(chain) : chain[i] # x
    BY <1>3, <1>5 DEF IInv, Volume, Owned
  <2>2. ASSUME NEW x \in DOMAIN theirs, NEW i \in 1..Len(chain') PROVE chain'[i] # x
    <3>1. i \in 1..Len(chain) \/ i = Len(chain) + 1
      BY <1>5, <1>8
    <3> QED BY <1>8, <2>1, <3>1
  <2> QED BY <1>1, <1>6, <1>7, <2>1, <2>2 DEF Owned
<1>17. Counted'
  <2>1. Cardinality(FreeIn(fat')) <= free'
    BY <1>1, <1>9, <1>13, Numbers
  <2> QED BY <1>1, <1>6, <1>11, <2>1 DEF Counted
<1>18. FileTypes'
  BY <1>1, <1>3 DEF IInv, File, FileTypes, fil
<1>19. Sized'
  <2>1. dir.size <= objsize /\ objsize <= C * Len(chain) /\ (sclust = 0 => objsize = 0)
    BY <1>1 DEF IInv, File, Sized
  <2>2. C * (Len(chain) + 1) = C * Len(chain) + C /\ C * Len(chain) \in Nat
    <3>1. C \in Nat
      BY Nats
    <3> QED BY <1>5, <3>1, Succeeds, Zenon
  <2>3. objsize <= C * (Len(chain) + 1)
    BY <2>1, <2>2, Nats
  <2> QED BY <1>1, <1>8, <2>1, <2>3 DEF Sized, fil
<1>20. Started' /\ Marked'
  BY <1>1, <1>3, <1>8 DEF IInv, File, Started, Calm, Marked, fil
<1>21. Asking(j)'
  <2>1. j < Len(chain') /\ got = chain'[j + 1] /\ chain'[j] = chain[j]
    BY <1>3, <1>5, <1>8
  <2> QED BY <1>1, <1>3, <1>11, <2>1, Numbers DEF Asking, fil
<1>22. Positioned'
  <2>1. (j \in 0..Len(chain))'
    BY <1>5, <1>8
  <2> QED BY <1>1, <1>3, <1>21, <2>1 DEF Positioned
<1> QED BY <1>12, <1>14, <1>15, <1>16, <1>17, <1>18, <1>19, <1>20, <1>22 DEF IInv, Volume, File

-----------------------------------------------------------------------------
(* f_open(), f_close() and a reset. *)

\* What is dropped of a file is its end.
Shorter ==
    pc' = "closed" => \A i \in 1..Len(chain') : i \in 1..Len(chain) /\ chain'[i] = chain[i]

\* The volume is dropped: the file is what can be followed on the card.
LEMMA InvDropped ==
    ASSUME IInv, NEW res \in {"none", "closed"}, Dropped(res),
           dfat' \in {dfat, fat}, Backed(dfat', dir', chain), clust' \in Clusters \cup {0},
           dir' \in [sclust : Clusters \cup {0}, size : Nat],
           info' \in [free : 0..N \cup {Unknown}, last : Clusters \cup {Unknown}],
           Cardinality(FreeIn(dfat')) <= info'.free
    PROVE  IInv' /\ Shorter
<1>1. /\ fat' = dfat' /\ win' = NoSector /\ wflag' = FALSE
      /\ free' = Unknown /\ last' = Unknown /\ fsi' = FALSE
      /\ fptr' = 0 /\ sclust' = 0 /\ objsize' = 0 /\ modified' = FALSE /\ err' = "none"
      /\ pc' = "closed" /\ op' = "none" /\ blk' = 0
      /\ ofs' = 0 /\ clst' = 0 /\ got' = 0 /\ ret' = "none" /\ result' = res
      /\ chain' = OnCard(dfat', dir', chain)
      /\ UNCHANGED <<data, buf, theirs>>
  BY DEF Dropped
<1>2. /\ chain' \in Seq(Clusters) /\ IsChain(dfat', chain') /\ Backed(dfat', dir', chain')
      /\ dir'.sclust = First(chain')
      /\ Len(chain') <= Len(chain) /\ Len(chain) \in Nat /\ Len(chain') \in Nat
      /\ \A i \in 1..Len(chain') : chain'[i] = chain[i]
  <2>1. PICK f, d : f = dfat' /\ d = dir'
    OBVIOUS
  <2>2. chain \in Seq(Clusters) /\ Distinct(chain) /\ d.sclust \in Clusters \cup {0} /\ Backed(f, d, chain)
    BY <2>1, Facts
  <2>3. PICK o : o = OnCard(f, d, chain)
    OBVIOUS
  <2>4. /\ o \in Seq(Clusters) /\ IsChain(f, o) /\ Backed(f, d, o)
        /\ d.sclust = First(o) /\ Len(o) <= Len(chain) /\ \A i \in 1..Len(o) : o[i] = chain[i]
    BY <2>2, <2>3, OnCardSound
  <2>5. Len(o) \in Nat /\ Len(chain) \in Nat
    BY <2>2, <2>4, InChain
  <2> QED BY <1>1, <2>1, <2>3, <2>4, <2>5
<1>3. /\ dfat' \in [Clusters -> Entries] /\ NoDangling(dfat')
      /\ \A c \in DOMAIN theirs : dfat'[c] = theirs[c].link
  BY DEF IInv, Volume, CardTypes, Snapshot, Owned
<1>4. CardTypes'
  <2>1. NoSector \in 0..NoSector
    BY Numbers
  <2>2. data \in [Clusters -> [0..C - 1 -> Values]]
    BY DEF IInv, Volume, CardTypes
  <2>3. /\ dir' \in [sclust : Clusters \cup {0}, size : Nat]
        /\ info' \in [free : 0..N \cup {Unknown}, last : Clusters \cup {Unknown}]
    OBVIOUS
  <2> QED BY <1>1, <1>2, <1>3, <2>1, <2>2, <2>3 DEF CardTypes
<1>5. Snapshot' /\ Chained'
  BY <1>1, <1>2, <1>3, Numbers DEF Snapshot, Chained
<1>6. Owned'
  <2>1. \A i \in 1..Len(chain') : i \in 1..Len(chain)
    BY <1>2
  <2> QED BY <1>1, <1>2, <1>3, <2>1 DEF IInv, Volume, Owned
<1>7. Counted'
  <2>1. Cardinality(FreeIn(dfat')) \in 0..N
    BY FreeCounts
  <2> QED BY <1>1, <2>1, Numbers DEF Counted
<1>8. FileTypes'
  BY <1>1 DEF IInv, File, FileTypes
<1>9. Sized' /\ Started' /\ Positioned' /\ Marked'
  BY <1>1 DEF Sized, Started, Calm, Positioned, Marked
<1>10. Shorter
  BY <1>2 DEF Shorter
<1> QED BY <1>4, <1>5, <1>6, <1>7, <1>8, <1>9, <1>10 DEF IInv, Volume, File

\* What f_sync() writes into the directory is backed.
LEMMA EntryBacked ==
    ASSUME IInv, pc \in Calm, pc # "closed"
    PROVE  /\ Backed(fat, [sclust |-> sclust, size |-> objsize], chain)
           /\ [sclust |-> sclust, size |-> objsize] \in [sclust : Clusters \cup {0}, size : Nat]
           /\ sclust = First(chain) /\ objsize <= C * Len(chain)
<1>1. /\ sclust = First(chain) /\ objsize <= C * Len(chain) /\ (sclust = 0 => objsize = 0)
      /\ sclust \in Clusters \cup {0} /\ objsize \in Nat
  BY DEF IInv, File, FileTypes, Sized, Started, Calm
<1>2. sclust # 0 => Len(chain) \in 1..Len(chain) /\ chain # <<>> /\ sclust = chain[1]
  BY <1>1, Facts
<1>3. sclust # 0 => Ends(fat, chain, Len(chain))
  BY <1>2, EndsChain, Facts DEF IInv, Volume, Chained
<1> QED BY <1>1, <1>2, <1>3 DEF Backed

LEMMA InvReset == ASSUME IInv, Reset PROVE IInv' /\ Shorter
<1>1. Dropped("none") /\ UNCHANGED <<dfat, dir, info>> /\ clust' = 0
  BY DEF Reset
<1>2. /\ dir \in [sclust : Clusters \cup {0}, size : Nat]
      /\ info \in [free : 0..N \cup {Unknown}, last : Clusters \cup {Unknown}]
      /\ Backed(dfat, dir, chain) /\ Cardinality(FreeIn(dfat)) <= info.free
  BY DEF IInv, Volume, CardTypes, Chained, Counted
<1> QED BY <1>1, <1>2, InvDropped

LEMMA InvOpen == ASSUME IInv, Open PROVE IInv'
<1>1. /\ pc = "closed" /\ pc' = "ready" /\ win' = DirSector
      /\ free' = (IF FSInfo THEN info.free ELSE Unknown)
      /\ last' = (IF FSInfo THEN info.last ELSE Unknown)
      /\ sclust' = dir.sclust /\ objsize' = dir.size /\ result' = "none"
      /\ UNCHANGED <<card, fat, wflag, fsi, fptr, clust, modified, err,
                     op, blk, buf, ofs, clst, got, ret, chain, theirs>>
  BY DEF Open
<1>2. dfat = fat /\ ~wflag /\ dir.sclust = First(chain) /\ fptr = 0 /\ ~modified /\ err = "none"
  BY <1>1 DEF IInv, Volume, File, Snapshot, Chained, Positioned, Marked, Started
<1>3. /\ dir \in [sclust : Clusters \cup {0}, size : Nat]
      /\ info \in [free : 0..N \cup {Unknown}, last : Clusters \cup {Unknown}]
      /\ Cardinality(FreeIn(fat)) <= info.free /\ Cardinality(FreeIn(fat)) \in 0..N
  BY <1>2, FreeCounts DEF IInv, Volume, CardTypes, Counted
<1>4. dir.size <= C * Len(chain) /\ (dir.sclust = 0 => dir.size = 0)
  <2>1. CASE dir.sclust = 0
    BY <2>1, Facts DEF IInv, Volume, Chained, Backed
  <2>2. CASE dir.sclust # 0
    <3>1. PICK k \in 1..Len(chain) : dir.size <= C * k
      BY <2>2 DEF IInv, Volume, Chained, Backed
    <3>2. k \in Nat /\ k <= Len(chain) /\ C \in Nat /\ Len(chain) \in Nat /\ dir.size \in Nat
      BY <3>1, Nats
    <3>3. C * k <= C * Len(chain) /\ C * k \in Nat /\ C * Len(chain) \in Nat
      BY <3>2, Product, Zenon
    <3> QED BY <2>2, <3>1, <3>2, <3>3
  <2> QED BY <2>1, <2>2
<1>5. CardTypes'
  <2>1. free' \in 0..N \cup {Unknown} /\ last' \in Clusters \cup {Unknown}
    BY <1>1, <1>3
  <2>2. win' \in 0..NoSector
    BY <1>1, Numbers
  <2> QED BY <1>1, <2>1, <2>2 DEF IInv, Volume, CardTypes, card
<1>6. Snapshot' /\ Chained' /\ Owned'
  BY <1>1, <1>2 DEF IInv, Volume, Snapshot, Chained, Owned, card
<1>7. Counted'
  <2>1. Cardinality(FreeIn(fat)) <= free'
    BY <1>1, <1>3, Numbers
  <2> QED BY <1>1, <1>2, <1>3, <2>1 DEF Counted, card
<1>8. FileTypes'
  BY <1>1, <1>3 DEF IInv, File, FileTypes
<1>9. Sized'
  BY <1>1, <1>3, <1>4 DEF Sized, card
<1>10. Started' /\ Positioned' /\ Marked'
  BY <1>1, <1>2, Nats DEF Started, Calm, Positioned, There, Marked, card
<1> QED BY <1>5, <1>6, <1>7, <1>8, <1>9, <1>10 DEF IInv, Volume, File

LEMMA InvClose == ASSUME IInv, Close PROVE IInv' /\ Shorter
<1>1. pc = "ready" /\ UNCHANGED clust
  BY DEF Close
<1>2. CASE modified
  <2>1. /\ pc' = "sync" /\ result' = "none"
        /\ UNCHANGED <<card, fs, fptr, sclust, objsize, modified, err,
                       op, blk, buf, ofs, clst, got, ret, chain, theirs>>
    BY <1>2 DEF Close
  <2>2. Volume'
    BY <1>1, <2>1, VolumeLooks DEF Looks, card, fs
  <2>3. FileTypes'
    BY <1>1, <2>1 DEF IInv, File, FileTypes
  <2>4. Sized' /\ Started' /\ Positioned' /\ Marked'
    BY <1>1, <1>2, <2>1 DEF IInv, File, Sized, Started, Calm, Positioned, Marked, card
  <2> QED BY <2>1, <2>2, <2>3, <2>4 DEF IInv, File, Shorter
<1>3. CASE ~modified
  <2>1. Dropped("closed") /\ UNCHANGED <<dfat, dir, info>>
    BY <1>3 DEF Close
  <2>2. /\ dir \in [sclust : Clusters \cup {0}, size : Nat] /\ clust \in Clusters \cup {0}
        /\ info \in [free : 0..N \cup {Unknown}, last : Clusters \cup {Unknown}]
        /\ Backed(dfat, dir, chain) /\ Cardinality(FreeIn(dfat)) <= info.free
    BY DEF IInv, Volume, File, FileTypes, CardTypes, Chained, Counted
  <2> QED BY <1>1, <2>1, <2>2, InvDropped
<1> QED BY <1>2, <1>3

LEMMA InvSyncFat == ASSUME IInv, SyncFat PROVE IInv'
<1>1. /\ pc = "sync" /\ pc' = "entry" /\ Visit({DirSector}, DirSector)
      /\ UNCHANGED <<dir, info, data, fat, free, last, fsi, fil, acc, chain, theirs>>
  BY DEF SyncFat
<1>2. Volume'
  <2>1. Looks
    BY <1>1, Numbers DEF Visit, Looks
  <2>2. dfat' = fat
    BY <1>1 DEF Visit, IInv, Volume, Snapshot
  <2> QED BY <1>1, <2>1, <2>2, VolumeLooks
<1>3. FileTypes'
  BY <1>1 DEF IInv, File, FileTypes, fil, acc
<1>4. Sized' /\ Started' /\ Positioned' /\ Marked'
  BY <1>1 DEF IInv, File, Sized, Started, Calm, Positioned, Marked, fil, acc
<1> QED BY <1>2, <1>3, <1>4 DEF IInv, File

LEMMA InvSyncEntry == ASSUME IInv, SyncEntry PROVE IInv' /\ Shorter
<1>1. /\ pc = "entry" /\ UNCHANGED <<dfat, info, clust>>
      /\ dir' = [sclust |-> sclust, size |-> objsize]
  BY DEF SyncEntry
<1>2. dfat = fat
  BY <1>1 DEF IInv, Volume, Snapshot
<1>3. /\ Backed(dfat', dir', chain) /\ dir' \in [sclust : Clusters \cup {0}, size : Nat]
      /\ objsize <= C * Len(chain)
  BY <1>1, <1>2, EntryBacked DEF Calm
<1>4. CASE fsi
  <2>1. /\ pc' = "fsinfo"
        /\ UNCHANGED <<data, fs, fptr, sclust, objsize, modified, err,
                       op, blk, buf, ofs, clst, got, ret, result, chain, theirs>>
    BY <1>4 DEF SyncEntry
  <2>2. CardTypes'
    BY <1>1, <1>3, <2>1 DEF IInv, Volume, CardTypes, fs
  <2>3. Snapshot' /\ Chained' /\ Owned' /\ Counted'
    BY <1>1, <1>2, <1>3, <2>1 DEF IInv, Volume, Snapshot, Chained, Owned, Counted, fs
  <2>4. FileTypes'
    BY <1>1, <2>1 DEF IInv, File, FileTypes
  <2>5. Sized'
    BY <1>1, <1>3, <2>1, Nats DEF IInv, File, Sized
  <2>6. Started' /\ Positioned' /\ Marked'
    BY <1>1, <2>1 DEF IInv, File, Started, Calm, Positioned, Marked
  <2> QED BY <2>1, <2>2, <2>3, <2>4, <2>5, <2>6 DEF IInv, Volume, File, Shorter
<1>5. CASE ~fsi
  <2>1. Dropped("closed")
    BY <1>5 DEF SyncEntry
  <2>2. /\ clust \in Clusters \cup {0} /\ Cardinality(FreeIn(dfat)) <= info.free
        /\ info \in [free : 0..N \cup {Unknown}, last : Clusters \cup {Unknown}]
    BY DEF IInv, Volume, File, FileTypes, CardTypes, Counted
  <2> QED BY <1>1, <1>3, <2>1, <2>2, InvDropped
<1> QED BY <1>4, <1>5

LEMMA InvSyncInfo == ASSUME IInv, SyncInfo PROVE IInv' /\ Shorter
<1>1. /\ pc = "fsinfo" /\ info' \in {info, [free |-> free, last |-> last]}
      /\ UNCHANGED <<dfat, dir, clust>>
  BY DEF SyncInfo
<1>2. PICK res \in {"closed", "none"} : Dropped(res)
  BY DEF SyncInfo
<1>3. /\ dfat = fat /\ Cardinality(FreeIn(fat)) <= free /\ Cardinality(FreeIn(dfat)) <= info.free
      /\ free \in 0..N \cup {Unknown} /\ last \in Clusters \cup {Unknown}
      /\ info \in [free : 0..N \cup {Unknown}, last : Clusters \cup {Unknown}]
      /\ dir \in [sclust : Clusters \cup {0}, size : Nat] /\ clust \in Clusters \cup {0}
      /\ Backed(dfat, dir, chain)
  BY <1>1 DEF IInv, Volume, File, FileTypes, CardTypes, Counted, Snapshot, Chained
<1>4. /\ info' \in [free : 0..N \cup {Unknown}, last : Clusters \cup {Unknown}]
      /\ Cardinality(FreeIn(dfat')) <= info'.free
  BY <1>1, <1>3
<1> QED BY <1>1, <1>2, <1>3, <1>4, InvDropped

LEMMA InvSyncFails == ASSUME IInv, SyncFails PROVE IInv' /\ Shorter
<1>1. /\ pc \in {"sync", "entry"} /\ Dropped("none") /\ UNCHANGED <<info, clust>>
      /\ \/ dfat' \in {dfat, fat} /\ UNCHANGED dir
         \/ pc = "entry" /\ dir' \in {dir, [sclust |-> sclust, size |-> objsize]} /\ UNCHANGED dfat
  BY DEF SyncFails
<1>2. /\ \A f \in {dfat, fat} : Backed(f, dir, chain) /\ Cardinality(FreeIn(f)) <= info.free
      /\ clust \in Clusters \cup {0} /\ dir \in [sclust : Clusters \cup {0}, size : Nat]
      /\ info \in [free : 0..N \cup {Unknown}, last : Clusters \cup {Unknown}]
      /\ pc = "entry" => dfat = fat
  BY <1>1, EitherFat DEF IInv, Volume, File, FileTypes, CardTypes, Snapshot
<1>3. /\ Backed(fat, [sclust |-> sclust, size |-> objsize], chain)
      /\ [sclust |-> sclust, size |-> objsize] \in [sclust : Clusters \cup {0}, size : Nat]
  BY <1>1, EntryBacked DEF Calm
<1>4. dfat' \in {dfat, fat} /\ Cardinality(FreeIn(dfat')) <= info'.free
  BY <1>1, <1>2
<1>5. Backed(dfat', dir', chain) /\ dir' \in [sclust : Clusters \cup {0}, size : Nat]
  BY <1>1, <1>2, <1>3
<1> QED BY <1>1, <1>2, <1>4, <1>5, InvDropped

LEMMA InvStutter == ASSUME IInv, UNCHANGED vars PROVE IInv'
<1>1. CardTypes' /\ FileTypes'
  BY DEF IInv, Volume, File, CardTypes, FileTypes, vars
<1>2. Snapshot' /\ Chained' /\ Owned' /\ Counted'
  BY DEF IInv, Volume, Snapshot, Chained, Owned, Counted, vars
<1>3. Sized' /\ Started' /\ Marked'
  BY DEF IInv, File, Sized, Started, Marked, vars
<1>4. Positioned'
  <2>1. There => There'
    BY DEF There, vars
  <2>2. \A j : Looping(j) => Looping(j)'
    BY DEF Looping, Full, vars
  <2>3. \A j : Asking(j) => Asking(j)'
    BY DEF Asking, Full, vars
  <2>4. /\ pc' = pc /\ err' = err /\ ofs' = ofs /\ blk' = blk /\ fptr' = fptr /\ chain' = chain
        /\ objsize' = objsize /\ clust' = clust /\ (Full => Full')
    BY DEF Full, vars
  <2> QED BY <2>1, <2>2, <2>3, <2>4 DEF IInv, File, Positioned
<1> QED BY <1>1, <1>2, <1>3, <1>4 DEF IInv, Volume, File

LEMMA InvNext == ASSUME IInv, [Next]_vars PROVE IInv'
<1>1. CASE \E o \in {"read", "write"}, b \in Blocks, v \in Values : Access(o, b, v)
  BY <1>1, InvAccess
<1>2. CASE Reset \/ Open \/ Close
  BY <1>2, InvReset, InvOpen, InvClose
<1>3. CASE ChainFollow \/ ChainFull \/ ChainMark \/ ChainLink \/ ChainFails
  BY <1>3, InvChainFollow, InvChainFull, InvChainMark, InvChainLink, InvChainFails
<1>4. CASE SeekRefused \/ SeekForward \/ SeekBack \/ SeekFirst \/ SeekLoop \/ SeekNext \/ SeekEnd
  BY <1>4, InvSeekRefused, InvSeekForward, InvSeekBack, InvSeekFirst, InvSeekLoop, InvSeekNext, InvSeekEnd
<1>5. CASE ReadNothing \/ ReadBlock \/ ReadFails
  BY <1>5, InvReadNothing, InvReadBlock, InvReadFails
<1>6. CASE WriteStart \/ WriteGrown \/ PutBlock \/ PutFails
  BY <1>6, InvWriteStart, InvWriteGrown, InvPutBlock, InvPutFails
<1>7. CASE SyncFat \/ SyncEntry \/ SyncInfo \/ SyncFails
  BY <1>7, InvSyncFat, InvSyncEntry, InvSyncInfo, InvSyncFails
<1>8. CASE UNCHANGED vars
  BY <1>8, InvStutter
<1> QED BY <1>1, <1>2, <1>3, <1>4, <1>5, <1>6, <1>7, <1>8 DEF Next

\* Every volume the card may come with.
LEMMA InvInit == ASSUME Init PROVE IInv
<1>1. PICK l \in Layouts :
         /\ dfat = l.fat /\ data = l.data /\ chain = l.chain
         /\ dir = [sclust |-> IF l.chain = <<>> THEN 0 ELSE l.chain[1], size |-> l.size]
         /\ info = [free |-> l.free, last |-> l.last]
  BY DEF Init
<1>2. WellFormed(l)
  BY LayoutsAssumption
<1>3. /\ dfat \in [Clusters -> Entries] /\ NoDangling(dfat)
      /\ chain \in Seq(Clusters) /\ IsChain(dfat, chain)
      /\ dir.sclust = First(chain) /\ dir.size \in 0..C * Len(chain)
      /\ info.free \in Cardinality(FreeIn(dfat))..N \cup {Unknown}
      /\ info.last \in Clusters \cup {Unknown}
      /\ data \in [Clusters -> [0..C - 1 -> Values]]
  BY <1>1, <1>2 DEF WellFormed, NoDangling, First
<1>4. /\ fat = dfat /\ win = NoSector /\ wflag = FALSE
      /\ free = Unknown /\ last = Unknown /\ fsi = FALSE
      /\ fptr = 0 /\ clust = 0 /\ sclust = 0 /\ objsize = 0 /\ modified = FALSE /\ err = "none"
      /\ pc = "closed" /\ ofs = 0 /\ clst = 0 /\ got = 0 /\ ret = "none"
      /\ op = "none" /\ blk = 0 /\ buf \in Values /\ result = "none"
  BY DEF Init
<1>5. theirs = [c \in Clusters \ (FreeIn(dfat) \cup {chain[i] : i \in 1..Len(chain)})
                  |-> [link |-> dfat[c], data |-> data[c]]]
  BY DEF Init
<1>6. /\ Len(chain) \in Nat /\ C \in Nat \ {0} /\ C * Len(chain) \in Nat
      /\ Cardinality(FreeIn(dfat)) \in 0..N
      /\ \A i \in 1..Len(chain) : chain[i] \in Clusters
  <2>1. Len(chain) \in Nat /\ C \in Nat \ {0} /\ \A i \in 1..Len(chain) : chain[i] \in Clusters
    BY <1>3, InChain, Numbers
  <2>2. C * Len(chain) \in Nat
    BY <2>1
  <2> QED BY <2>1, <2>2, FreeCounts
<1>7. CardTypes
  <2>1. NoSector \in 0..NoSector
    BY Numbers
  <2>2. dir \in [sclust : Clusters \cup {0}, size : Nat]
    <3>1. First(chain) \in Clusters \cup {0}
      BY <1>3, <1>6, InChain
    <3> QED BY <1>1, <1>3, <1>6, <3>1
  <2>3. info \in [free : 0..N \cup {Unknown}, last : Clusters \cup {Unknown}]
    <3>1. info.free \in 0..N \cup {Unknown}
      BY <1>3, <1>6, Numbers
    <3> QED BY <1>1, <1>3, <3>1
  <2> QED BY <1>3, <1>4, <2>1, <2>2, <2>3 DEF CardTypes
<1>8. Snapshot
  BY <1>3, <1>4 DEF Snapshot
<1>9. Chained
  <2>1. Backed(dfat, dir, chain)
    <3>1. CASE dir.sclust = 0
      <4>0. Len(chain) # 0 => 1 \in 1..Len(chain) /\ First(chain) = chain[1]
        BY <1>3, <1>6, InChain
      <4>1. Len(chain) = 0
        BY <1>3, <1>6, <3>1, <4>0, Numbers
      <4>2. dir.size = 0
        BY <1>3, <1>6, <4>1
      <4> QED BY <3>1, <4>2 DEF Backed
    <3>2. CASE dir.sclust # 0
      <4>1. Len(chain) \in 1..Len(chain) /\ chain # <<>> /\ dir.sclust = chain[1]
        BY <1>3, <1>6, <3>2, InChain
      <4>2. Ends(dfat, chain, Len(chain))
        BY <1>3, <4>1, EndsChain
      <4>3. dir.size <= C * Len(chain)
        BY <1>3, <1>6
      <4> QED BY <3>2, <4>1, <4>2, <4>3 DEF Backed
    <3> QED BY <3>1, <3>2
  <2> QED BY <1>3, <1>4, <2>1 DEF Chained
<1>10. Owned
  <2>1. ASSUME NEW c \in DOMAIN theirs
        PROVE  /\ c \in Clusters /\ dfat[c] # Free /\ \A i \in 1..Len(chain) : chain[i] # c
               /\ theirs[c].link = dfat[c] /\ theirs[c].data = data[c]
    BY <1>5 DEF FreeIn
  <2> QED BY <1>4, <2>1 DEF Owned
<1>11. Counted
  BY <1>3, <1>4, <1>6, Numbers DEF Counted
<1>12. FileTypes
  BY <1>4 DEF FileTypes
<1>13. Sized /\ Started /\ Positioned /\ Marked
  BY <1>4 DEF Sized, Started, Calm, Positioned, Marked
<1> QED BY <1>7, <1>8, <1>9, <1>10, <1>11, <1>12, <1>13 DEF IInv, Volume, File

\* The inductive invariant.
THEOREM Inductive == Spec => []IInv
BY InvInit, InvNext, PTL DEF Spec

\* What is on the card at every moment, of a reset too, is a sound volume: no
\* link to a free cluster, a directory entry with all the clusters it promises,
\* and the other files as they were (create_chain, f_sync).
THEOREM CardAlwaysSound == Spec => []CardSound
<1>1. ASSUME IInv PROVE TypeOK
  <2>1. CardTypes /\ FileTypes
    BY <1>1 DEF IInv, Volume, File
  <2> QED BY <2>1 DEF TypeOK, CardTypes, FileTypes
<1>2. ASSUME IInv PROVE NoDanglingLink /\ OthersKept
  BY <1>2 DEF IInv, Volume, Snapshot, NoDangling, Owned, NoDanglingLink, OthersKept
<1>3. ASSUME IInv PROVE DirectoryBacked
  <2>1. chain \in Seq(Clusters) /\ Distinct(chain) /\ Backed(dfat, dir, chain) /\ dir.sclust \in Clusters \cup {0}
    BY <1>3, Facts DEF IInv, Volume, CardTypes, Chained
  <2>2. PICK o : o = OnCard(dfat, dir, chain)
    OBVIOUS
  <2>3. /\ o \in Seq(Clusters) /\ IsChain(dfat, o) /\ Backed(dfat, dir, o)
        /\ dir.sclust = First(o) /\ dir.size <= C * Len(o)
    BY <2>1, <2>2, OnCardSound
  <2> QED BY <2>2, <2>3 DEF DirectoryBacked, First
<1>4. IInv => CardSound
  BY <1>1, <1>2, <1>3 DEF CardSound
<1> QED BY <1>4, Inductive, PTL

\* Between two accesses the FIL agrees with itself, also after seeks that failed
\* or were cut short by a full disk: clust is the cluster of the sector before
\* fptr, and the chain is long enough; FatFs never reports FR_INT_ERR.
THEOREM PositionAlwaysKnown == Spec => []PositionKnown
<1>1. ASSUME IInv PROVE PositionKnown
  BY <1>1 DEF IInv, Volume, File, Chained, Sized, Started, Calm, Positioned, There, First, PositionKnown
<1> QED BY <1>1, Inductive, PTL

-----------------------------------------------------------------------------
(* What a step may do to the image. *)

\* The disk is only called full when it is: the count in FSINFO may be too high
\* after a reset, never too low (create_chain).
THEOREM CalledFullWhenFull == Spec => FullMeansFull
<1>1. ASSUME IInv, [Next]_vars PROVE FullStep
  <2>1. SUFFICES ASSUME pc = "chain", pc' \in {"first", "next", "grown"}, got' = 0
                 PROVE  FreeIn(fat) = {}
    BY DEF FullStep
  <2>2. free = 0 => FreeIn(fat) = {}
    <3>1. Cardinality(FreeIn(fat)) <= free /\ Cardinality(FreeIn(fat)) \in 0..N
      BY <1>1, FreeCounts DEF IInv, Volume, Counted
    <3>2. \A c \in FreeIn(fat) : Cardinality(FreeIn(fat) \ {c}) \in Nat
      <4>1. \A c \in FreeIn(fat) : FreeIn(fat) \ {c} \in SUBSET FreeIn(fat)
        OBVIOUS
      <4> QED BY <4>1, FreeCounts
    <3>3. \A c \in FreeIn(fat) : Cardinality(FreeIn(fat) \ {c}) = Cardinality(FreeIn(fat)) - 1
      BY FreeCounts
    <3>4. ASSUME free = 0, NEW c \in FreeIn(fat) PROVE FALSE
      <4>1. Cardinality(FreeIn(fat)) = 0
        BY <3>1, <3>4
      <4>2. Cardinality(FreeIn(fat) \ {c}) \in Nat /\ Cardinality(FreeIn(fat) \ {c}) = Cardinality(FreeIn(fat)) - 1
        BY <3>2, <3>3
      <4> QED BY <4>1, <4>2
    <3> QED BY <3>4
  <2>3. CASE ChainFull
    BY <2>2, <2>3 DEF ChainFull
  <2>4. CASE ChainFollow
    <3>1. got' = fat[clst] \/ pc' = "ready"
      BY <2>4 DEF ChainFollow, Abort, Done
    <3>2. fat[clst] # Free \/ pc' = "ready"
      BY <2>4 DEF ChainFollow, Abort, Done
    <3> QED BY <2>1, <3>1, <3>2, Numbers
  <2>5. CASE ChainMark
    <3>1. got' \in FreeIn(fat)
      BY <1>1, <2>5, SearchIs DEF ChainMark
    <3> QED BY <2>1, <3>1, Numbers DEF FreeIn
  <2>6. CASE ChainFails
    BY <2>1, <2>6 DEF ChainFails, Abort, Done
  <2>7. CASE Reset \/ SyncEntry \/ SyncInfo \/ SyncFails \/ Close
    BY <2>1, <2>7 DEF Reset, SyncEntry, SyncInfo, SyncFails, Close, Dropped
  <2>8. CASE UNCHANGED vars
    BY <2>1, <2>8 DEF vars
  <2>9. Next \/ UNCHANGED vars
    BY <1>1
  <2> QED
    BY <2>1, <2>3, <2>4, <2>5, <2>6, <2>7, <2>8, <2>9
    DEF Next, Open, Access, ChainLink, SeekRefused, SeekForward, SeekBack, SeekFirst, SeekLoop,
        SeekNext, SeekEnd, ReadNothing, ReadBlock, ReadFails, WriteStart, WriteGrown, PutBlock,
        PutFails, SyncFat
<1> QED BY <1>1, Inductive, PTL DEF Spec, FullMeansFull

\* An access or a close that is going on has no result yet.
Pending == pc \notin {"closed", "ready"} => result = "none"

LEMMA AlwaysPending == Spec => []Pending
<1>1. Init => Pending
  BY DEF Init, Pending
<1>2. ASSUME Pending, Next PROVE Pending'
  <2>1. CASE \E o \in {"read", "write"}, b \in Blocks, v \in Values : Access(o, b, v)
    BY <2>1 DEF Pending, Access
  <2>2. CASE Reset \/ Open \/ Close \/ SyncFat \/ SyncEntry \/ SyncInfo \/ SyncFails
    BY <1>2, <2>2
    DEF Pending, Reset, Open, Close, SyncFat, SyncEntry, SyncInfo, SyncFails, Dropped, acc
  <2>3. CASE ChainFollow \/ ChainFull \/ ChainMark \/ ChainLink \/ ChainFails
    BY <1>2, <2>3
    DEF Pending, ChainFollow, ChainFull, ChainMark, ChainLink, ChainFails, Abort, Done
  <2>4. CASE SeekRefused \/ SeekForward \/ SeekBack \/ SeekFirst \/ SeekLoop \/ SeekNext \/ SeekEnd
    BY <1>2, <2>4
    DEF Pending, SeekRefused, SeekForward, SeekBack, SeekFirst, SeekLoop, SeekNext, SeekEnd, Done
  <2>5. CASE ReadNothing \/ ReadBlock \/ ReadFails
    BY <1>2, <2>5 DEF Pending, ReadNothing, ReadBlock, ReadFails, Abort, Done
  <2>6. CASE WriteStart \/ WriteGrown \/ PutBlock \/ PutFails
    BY <1>2, <2>6 DEF Pending, WriteStart, WriteGrown, PutBlock, PutFails, Abort, Done
  <2> QED BY <1>2, <2>1, <2>2, <2>3, <2>4, <2>5, <2>6 DEF Next
<1>3. Pending /\ UNCHANGED vars => Pending'
  BY DEF Pending, vars
<1> QED BY <1>1, <1>2, <1>3, PTL DEF Spec

\* An access that succeeds transfers the block that was asked for, although
\* f_lseek() reports success when it stopped short on a full disk.
THEOREM TheBlockIsTransferred == Spec => TransfersTheBlock
<1>1. ASSUME IInv, Pending, [Next]_vars PROVE BlockStep
  <2>1. SUFFICES ASSUME pc \in {"xfer", "put"}, result' = "ok"
                 PROVE  fptr = blk /\ Holds(data', chain, blk, IF op = "read" THEN buf' ELSE buf)
    BY DEF BlockStep
  <2>2. CASE ReadBlock
    <3>1. pc = "xfer" /\ op = "read" /\ fptr < objsize
      BY <2>2 DEF ReadBlock
    <3>2. PICK q \in Nat :
             /\ q = fptr \div C /\ q \in 0..Len(chain) - 1
             /\ ReadCluster = chain[q + 1] /\ ReadCluster \in Clusters
      BY <1>1, <3>1, ReadHere
    <3>3. fptr = blk
      <4>1. objsize <= C * Len(chain)
        BY <1>1, <3>1 DEF IInv, File, Sized
      <4>2. fptr # C * Len(chain)
        BY <1>1, <3>1, <4>1, Facts
      <4> QED BY <1>1, <3>1, <4>2 DEF IInv, File, Positioned
    <3>4. buf' = data[ReadCluster][fptr % C] /\ UNCHANGED data
      BY <2>2, <3>2 DEF ReadBlock
    <3>5. q < Len(chain)
      BY <1>1, <3>2, Nats
    <3> QED BY <3>1, <3>2, <3>3, <3>4, <3>5 DEF Holds
  <2>3. CASE PutBlock
    <3>1. pc = "put" /\ Put(buf)
      BY <2>3 DEF PutBlock
    <3>2. fptr = blk /\ fptr \div C < Len(chain) /\ clust = chain[(fptr \div C) + 1]
      BY <1>1, <3>1 DEF IInv, File, Positioned
    <3>3. data \in [Clusters -> [0..C - 1 -> Values]] /\ clust \in Clusters
      <4>1. PICK q \in Nat : q = fptr \div C
        BY <1>1, Nats, InCluster
      <4>2. q + 1 \in 1..Len(chain)
        BY <1>1, <3>2, <4>1, Nats
      <4> QED BY <1>1, <3>2, <4>1, <4>2, Facts DEF IInv, Volume, CardTypes
    <3>4. PICK p \in 0..C - 1 : p = fptr % C
      BY <1>1, Nats, InCluster
    <3>5. data'[clust][p] = buf
      BY <3>1, <3>3, <3>4 DEF Put
    <3>6. UNCHANGED buf
      BY <2>3 DEF PutBlock
    <3> QED BY <3>2, <3>4, <3>5, <3>6 DEF Holds
  <2>4. CASE ReadNothing \/ ReadFails \/ WriteStart \/ PutFails \/ Reset
    BY <1>1, <2>1, <2>4
    DEF Pending, ReadNothing, ReadFails, WriteStart, PutFails, Reset, Abort, Done, Dropped
  <2>5. CASE UNCHANGED vars
    BY <1>1, <2>1, <2>5 DEF Pending, vars
  <2>6. Next \/ UNCHANGED vars
    BY <1>1
  <2> QED
    BY <2>1, <2>2, <2>3, <2>4, <2>5, <2>6
    DEF Next, Open, Close, Access, ChainFollow, ChainFull, ChainMark, ChainLink, ChainFails,
        SeekRefused, SeekForward, SeekBack, SeekFirst, SeekLoop, SeekNext, SeekEnd, WriteGrown,
        SyncFat, SyncEntry, SyncInfo, SyncFails
<1> QED BY <1>1, Inductive, AlwaysPending, PTL DEF Spec, TransfersTheBlock

\* When f_close() reports success the card has the file as the sketch had it, unless an
\* earlier disk error had stuck to the FIL.
THEOREM CloseDoesSave == Spec => CloseSaves
<1>1. ASSUME IInv, Pending, [Next]_vars PROVE CloseStep
  <2>1. SUFFICES ASSUME pc # "closed", result' = "closed", pc' = "closed", result # "closed", err = "none"
                 PROVE  dir' = [sclust |-> sclust, size |-> objsize]
    BY DEF CloseStep
  <2>2. CASE Close
    <3>1. pc = "ready" /\ ~modified /\ UNCHANGED dir
      BY <2>1, <2>2 DEF Close
    <3>2. objsize = dir.size /\ sclust = dir.sclust
      BY <1>1, <2>1, <3>1 DEF IInv, File, Marked
    <3>3. dir \in [sclust : Clusters \cup {0}, size : Nat]
      BY <1>1 DEF IInv, Volume, CardTypes
    <3>4. dir = [sclust |-> sclust, size |-> objsize]
      BY <3>2, <3>3
    <3> QED BY <3>1, <3>4
  <2>3. CASE SyncEntry
    BY <2>3 DEF SyncEntry
  <2>4. CASE SyncInfo
    BY <1>1, <2>4 DEF SyncInfo, IInv, File, Marked
  <2>5. CASE Reset \/ SyncFails
    BY <2>1, <2>5 DEF Reset, SyncFails, Dropped
  <2>6. CASE UNCHANGED vars
    BY <2>1, <2>6 DEF vars
  <2>7. CASE ChainFollow \/ ChainFull \/ ChainMark \/ ChainLink \/ ChainFails
    <3>1. pc' # "closed" \/ result' = result
      BY <2>7 DEF ChainFollow, ChainFull, ChainMark, ChainLink, ChainFails, Abort, Done
    <3> QED BY <2>1, <3>1
  <2>8. Next \/ UNCHANGED vars
    BY <1>1
  <2> QED
    BY <2>1, <2>2, <2>3, <2>4, <2>5, <2>6, <2>7, <2>8
    DEF Next, Open, Access, SeekRefused, SeekForward, SeekBack, SeekFirst, SeekLoop, SeekNext,
        SeekEnd, ReadNothing, ReadBlock, ReadFails, WriteStart, WriteGrown, PutBlock, PutFails,
        SyncFat, Abort, Done
<1> QED BY <1>1, Inductive, AlwaysPending, PTL DEF Spec, CloseSaves

\* The clusters of the file stay in their places: a step adds one at the end, or
\* what is dropped is dropped from the end.
LEMMA PlacesKept ==
    ASSUME IInv, [Next]_vars
    PROVE  /\ \A i \in 1..Len(chain) : i \in 1..Len(chain') => chain'[i] = chain[i]
           /\ UNCHANGED data \/ (pc = "put" /\ Put(buf))
           /\ dir'.size >= dir.size
<1>1. chain \in Seq(Clusters) /\ Len(chain) \in Nat /\ dir.size \in Nat
  BY Facts
<1>2. UNCHANGED data \/ (pc = "put" /\ Put(buf))
  <2>1. CASE ChainFollow \/ ChainFull \/ ChainMark \/ ChainLink \/ ChainFails
    BY <2>1 DEF ChainFollow, ChainFull, ChainMark, ChainLink, ChainFails
  <2>2. CASE UNCHANGED vars
    BY <2>2 DEF vars
  <2> QED
    BY <2>1, <2>2
    DEF Next, Reset, Open, Close, Access, SeekRefused, SeekForward, SeekBack, SeekFirst, SeekLoop,
        SeekNext, SeekEnd, ReadNothing, ReadBlock, ReadFails, WriteStart, WriteGrown, PutBlock,
        PutFails, SyncFat, SyncEntry, SyncInfo, SyncFails, Dropped, card
<1>3. CASE Reset \/ SyncEntry \/ SyncInfo \/ SyncFails \/ Close
  <2>1. Shorter /\ (pc' = "closed" \/ UNCHANGED chain)
    BY <1>3, InvReset, InvSyncEntry, InvSyncInfo, InvSyncFails, InvClose
    DEF Reset, SyncEntry, SyncInfo, SyncFails, Close, Dropped
  <2>2. \A i \in 1..Len(chain) : i \in 1..Len(chain') => chain'[i] = chain[i]
    BY <2>1 DEF Shorter
  <2>3. UNCHANGED dir \/ (pc # "closed" /\ dir' = [sclust |-> sclust, size |-> objsize])
    BY <1>3 DEF Reset, SyncEntry, SyncInfo, SyncFails, Close, card
  <2>4. pc # "closed" => dir.size <= objsize /\ objsize \in Nat
    BY DEF IInv, File, Sized, FileTypes
  <2>5. dir'.size >= dir.size
    BY <1>1, <2>3, <2>4
  <2> QED BY <1>2, <2>2, <2>5
<1>4. CASE ChainLink
  <2>1. chain' = Append(chain, got) /\ got \in Clusters /\ UNCHANGED dir
    <3>1. pc = "link"
      BY <1>4 DEF ChainLink
    <3>2. got \in Clusters
      BY <3>1 DEF IInv, File, Positioned, Asking
    <3> QED BY <1>4, <3>2 DEF ChainLink
  <2> QED BY <1>1, <1>2, <2>1, AppendProperties
<1>5. CASE ChainMark
  <2>1. UNCHANGED dir
    BY <1>5 DEF ChainMark
  <2>2. clst = 0 => Len(chain) = 0
    BY <1>1, <1>5, ChainAt DEF ChainMark
  <2>3. clst # 0 => UNCHANGED chain
    BY <1>5 DEF ChainMark
  <2> QED BY <1>1, <1>2, <2>1, <2>2, <2>3
<1>6. CASE UNCHANGED <<dir, chain>>
  BY <1>1, <1>2, <1>6
<1>7. UNCHANGED vars => UNCHANGED <<dir, chain>>
  BY DEF vars
<1>8. ChainFollow \/ ChainFull \/ ChainFails => UNCHANGED <<dir, chain>>
  BY DEF ChainFollow, ChainFull, ChainFails
<1>9. Next \/ UNCHANGED vars
  OBVIOUS
<1> QED
  BY <1>3, <1>4, <1>5, <1>6, <1>7, <1>8, <1>9
  DEF Next, Open, Access, SeekRefused, SeekForward, SeekBack, SeekFirst, SeekLoop,
      SeekNext, SeekEnd, ReadNothing, ReadBlock, ReadFails, WriteStart, WriteGrown, PutBlock,
      PutFails, SyncFat, card

\* What the directory entry promises is in the clusters of the file.
LEMMA Promised ==
    ASSUME NEW f, NEW d, NEW ch \in Seq(Clusters), Distinct(ch), Backed(f, d, ch),
           d.sclust \in Clusters \cup {0}, d.size \in Nat, NEW b \in Nat, b < d.size
    PROVE  /\ b \div C < Len(OnCard(f, d, ch)) /\ (b \div C) + 1 \in 1..Len(ch)
           /\ OnCard(f, d, ch)[(b \div C) + 1] = ch[(b \div C) + 1]
<1>1. PICK o : o = OnCard(f, d, ch)
  OBVIOUS
<1>2. /\ o \in Seq(Clusters) /\ d.size <= C * Len(o) /\ Len(o) <= Len(ch)
      /\ \A i \in 1..Len(o) : o[i] = ch[i]
  BY <1>1, OnCardSound
<1>3. Len(o) \in Nat /\ Len(ch) \in Nat /\ C \in Nat
  BY <1>2, InChain, Numbers
<1>4. PICK m \in Nat : m = C * Len(o)
  BY <1>3
<1>5. b < C * Len(o)
  BY <1>2, <1>4
<1>6. PICK q \in Nat : q = b \div C /\ q < Len(o)
  BY <1>3, <1>5, InCluster
<1>7. q + 1 \in 1..Len(o) /\ q + 1 \in 1..Len(ch)
  BY <1>2, <1>3, <1>6
<1>8. o[q + 1] = ch[q + 1]
  BY <1>2, <1>7
<1> QED BY <1>1, <1>6, <1>7, <1>8

\* What the image on the card holds is never lost, and never changed but by a
\* write of that very block: not by another access, a growing file, a full disk,
\* a disk error, a reset, or closing and opening it.
THEOREM ImageIsKept == Spec => ImageKept
<1>1. ASSUME IInv, IInv', [Next]_vars PROVE KeptStep
  <2>1. /\ \A i \in 1..Len(chain) : i \in 1..Len(chain') => chain'[i] = chain[i]
        /\ UNCHANGED data \/ (pc = "put" /\ Put(buf))
        /\ dir'.size >= dir.size
    BY <1>1, PlacesKept
  <2>2. ASSUME NEW b \in 0..dir.size - 1, NEW v \in Values,
               Holds(data, OnCard(dfat, dir, chain), b, v), ~(pc = "put" /\ blk = b)
        PROVE  Holds(data', OnCard(dfat', dir', chain'), b, v)
    <3>1. b \in Nat /\ b < dir.size /\ dir.size \in Nat
      BY <1>1, Nats
    <3>2. /\ (b \div C) + 1 \in 1..Len(chain)
          /\ OnCard(dfat, dir, chain)[(b \div C) + 1] = chain[(b \div C) + 1]
      <4>1. /\ chain \in Seq(Clusters) /\ Distinct(chain) /\ Backed(dfat, dir, chain)
            /\ dir.sclust \in Clusters \cup {0}
        BY <1>1, Facts DEF IInv, Volume, CardTypes, Chained
      <4> QED BY <3>1, <4>1, Promised
    <3>3. PICK f, d, ch : f = dfat' /\ d = dir' /\ ch = chain'
      OBVIOUS
    <3>4. /\ ch \in Seq(Clusters) /\ Distinct(ch) /\ Backed(f, d, ch)
          /\ d.sclust \in Clusters \cup {0} /\ d.size \in Nat
      <4>1. /\ chain' \in Seq(Clusters) /\ Backed(dfat', dir', chain') /\ IsChain(fat', chain')
            /\ dir' \in [sclust : Clusters \cup {0}, size : Nat]
        BY <1>1 DEF IInv, Volume, CardTypes, Chained
      <4>2. Distinct(chain')
        BY <4>1 DEF IsChain, Distinct
      <4> QED BY <3>3, <4>1, <4>2
    <3>5. b < d.size
      BY <2>1, <3>1, <3>3, <3>4
    <3>6. /\ b \div C < Len(OnCard(f, d, ch)) /\ (b \div C) + 1 \in 1..Len(ch)
          /\ OnCard(f, d, ch)[(b \div C) + 1] = ch[(b \div C) + 1]
      BY <3>1, <3>4, <3>5, Promised
    <3>7. PICK q \in Nat, r \in 0..C - 1 : q = b \div C /\ r = b % C /\ b = C * q + r
      BY <3>1, InCluster, Zenon
    <3>8. /\ q + 1 \in 1..Len(chain) /\ chain[q + 1] \in Clusters
          /\ q < Len(OnCard(f, d, ch)) /\ OnCard(f, d, ch)[q + 1] = chain[q + 1]
      <4>1. q + 1 \in 1..Len(chain) /\ q + 1 \in 1..Len(ch)
        BY <3>2, <3>6, <3>7, Zenon
      <4>2. q < Len(OnCard(f, d, ch)) /\ OnCard(f, d, ch)[q + 1] = ch[q + 1]
        BY <3>6, <3>7, Zenon
      <4>3. ch[q + 1] = chain[q + 1]
        BY <2>1, <3>3, <4>1
      <4> QED BY <1>1, <4>1, <4>2, <4>3, Facts
    <3>9. data[chain[q + 1]][r] = v
      BY <2>2, <3>2, <3>7, Zenon DEF Holds
    <3>10. data'[chain[q + 1]][r] = v
      <4>1. CASE UNCHANGED data
        BY <3>9, <4>1
      <4>2. CASE pc = "put" /\ Put(buf)
        <5>1. fptr = blk /\ fptr \in Nat /\ fptr # b
          BY <1>1, <2>2, <4>2, Nats DEF IInv, File, Positioned
        <5>2. PICK p \in Nat, t \in 0..C - 1 : p = fptr \div C /\ t = fptr % C /\ fptr = C * p + t
          BY <5>1, InCluster, Zenon
        <5>3. p + 1 \in 1..Len(chain) /\ clust = chain[p + 1]
          <6>1. fptr \div C < Len(chain) /\ clust = chain[(fptr \div C) + 1]
            BY <1>1, <4>2 DEF IInv, File, Positioned
          <6>2. p < Len(chain) /\ clust = chain[p + 1] /\ p \in Nat
            BY <5>2, <6>1, Zenon
          <6> QED BY <1>1, <6>2, Nats
        <5>4. data' = [data EXCEPT ![clust][t] = buf]
          BY <4>2, <5>2 DEF Put
        <5>5. data \in [Clusters -> [0..C - 1 -> Values]]
          BY <1>1 DEF IInv, Volume, CardTypes
        <5>6. p # q \/ t # r
          BY <3>7, <5>1, <5>2, Zenon
        <5>7. clust = chain[q + 1] => p = q
          <6>1. clust = chain[q + 1] => p + 1 = q + 1
            BY <1>1, <3>8, <5>3, Facts DEF Distinct
          <6>2. p \in Nat /\ q \in Nat
            BY <3>7, <5>2, Zenon
          <6> QED BY <6>1, <6>2
        <5> QED BY <3>7, <3>8, <3>9, <5>2, <5>4, <5>5, <5>6, <5>7
      <4> QED BY <2>1, <4>1, <4>2
    <3>11. Holds(data', OnCard(f, d, ch), b, v)
      BY <3>7, <3>8, <3>10, Zenon DEF Holds
    <3> QED BY <3>3, <3>11
  <2> QED BY <2>1, <2>2 DEF KeptStep
<1> QED BY <1>1, Inductive, PTL DEF Spec, ImageKept
===============================================================================
