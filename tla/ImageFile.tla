------------------------------ MODULE ImageFile ------------------------------
(***************************************************************************)
(* An image BLKDEVnn.PO served through FatFs, the way the sketch uses it:  *)
(* the file is opened for reading and writing, every access seeks to block *)
(* blk and transfers one block of 512 bytes, and the file is closed only   *)
(* when the other drive or another image takes the mount.  Disk accesses   *)
(* fail, and RESET strikes between any two of them.                        *)
(*                                                                         *)
(* The volume has clusters 2..N+1 of C sectors and a FAT with E entries    *)
(* per sector.  FatFs keeps one sector in memory, the window, written back *)
(* when another sector is wanted.  Positions and sizes are in sectors: the *)
(* sketch only asks for whole blocks and images are whole blocks, so no    *)
(* position is inside a sector and the window never holds a data sector.   *)
(* No FAT entry straddles two sectors (FAT16 and FAT32, not FAT12).        *)
(***************************************************************************)
EXTENDS Naturals, Sequences, FiniteSets

CONSTANTS N, C, E,   \* the clusters, sectors per cluster, FAT entries per sector
          FSInfo,    \* FAT32: there is an FSINFO sector
          Blocks,    \* the block numbers the Apple asks for
          Values,    \* what a sector can hold
          Layouts    \* the volumes the card may come with

Clusters == 2..N + 1
Free     == 0
EOC      == N + 2               \* end of chain: any entry from n_fatent on
Unknown  == N + 2               \* 0xFFFFFFFF in free_clst and last_clst
FatSector(c) == c \div E
DirSector == N + 3              \* the sector of the directory entry
NoSector  == N + 4              \* winsect after a failed read

Entries == {Free, EOC} \cup Clusters
FreeIn(f) == {c \in Clusters : f[c] = Free}

\* "ch" is a chain of clusters in the FAT f.
IsChain(f, ch) ==
    /\ \A i \in 1..Len(ch) : ch[i] \in Clusters
    /\ \A i, j \in 1..Len(ch) : ch[i] = ch[j] => i = j
    /\ \A i \in 1..Len(ch) - 1 : f[ch[i]] = ch[i + 1]
    /\ Len(ch) > 0 => f[ch[Len(ch)]] = EOC

\* A sound volume: no link to a free cluster, a chain long enough for the size.
WellFormed(l) ==
    /\ l.fat \in [Clusters -> Entries]
    /\ \A c \in Clusters : l.fat[c] \in Clusters => l.fat[l.fat[c]] # Free
    /\ l.chain \in Seq(Clusters) /\ IsChain(l.fat, l.chain)
    /\ l.size \in 0..C * Len(l.chain)
    /\ l.free \in Cardinality(FreeIn(l.fat))..N \cup {Unknown}
    /\ l.last \in Clusters \cup {Unknown}
    /\ l.data \in [Clusters -> [0..C - 1 -> Values]]

ASSUME SizesAssumption == N \in Nat \ {0} /\ C \in Nat \ {0} /\ E \in Nat \ {0}
ASSUME InputsAssumption == Blocks \subseteq Nat /\ Values # {} /\ FSInfo \in BOOLEAN
ASSUME LayoutsAssumption == \A l \in Layouts : WellFormed(l)

VARIABLES dfat, dir, info, data,              \* the card: FAT, directory entry, FSINFO, clusters
          fat, win, wflag, free, last, fsi,   \* FATFS; fat is the FAT seen through the window
          fptr, clust, sclust, objsize, modified, err,  \* FIL
          pc, op, blk, buf, ofs, clst, got, ret, result, \* the access in progress
          chain,                              \* history: the clusters of the file
          theirs                              \* history: what other files had at first

card  == <<dfat, dir, info, data>>
fs    == <<fat, win, wflag, free, last, fsi>>
fil   == <<fptr, clust, sclust, objsize, modified, err>>
acc   == <<op, blk, buf, ofs, clst, got, ret, result>>
vars  == <<dfat, dir, info, data, fat, win, wflag, free, last, fsi,
           fptr, clust, sclust, objsize, modified, err,
           pc, op, blk, buf, ofs, clst, got, ret, result, chain, theirs>>

\* The part of the chain ch that can be followed in the FAT f from the entry d.
OnCard(f, d, ch) ==
    IF d.sclust = 0 THEN <<>>
    ELSE SubSeq(ch, 1, CHOOSE k \in 1..Len(ch) :
                          /\ \A i \in 1..k - 1 : f[ch[i]] = ch[i + 1]
                          /\ k < Len(ch) => f[ch[k]] # ch[k + 1])

Init ==
    /\ \E l \in Layouts :
          /\ dfat = l.fat /\ data = l.data /\ chain = l.chain
          /\ dir = [sclust |-> IF l.chain = <<>> THEN 0 ELSE l.chain[1], size |-> l.size]
          /\ info = [free |-> l.free, last |-> l.last]
    /\ fat = dfat /\ win = NoSector /\ wflag = FALSE
    /\ free = Unknown /\ last = Unknown /\ fsi = FALSE
    /\ fptr = 0 /\ clust = 0 /\ sclust = 0 /\ objsize = 0 /\ modified = FALSE /\ err = "none"
    /\ pc = "closed" /\ ofs = 0 /\ clst = 0 /\ got = 0 /\ ret = "none"
    /\ op = "none" /\ blk = 0 /\ buf \in Values /\ result = "none"
    /\ theirs = [c \in Clusters \ (FreeIn(dfat) \cup {chain[i] : i \in 1..Len(chain)})
                   |-> [link |-> dfat[c], data |-> data[c]]]

\* The volume is no longer mounted: what was only in memory is gone.
Dropped(res) ==
    /\ fat' = dfat' /\ win' = NoSector /\ wflag' = FALSE
    /\ free' = Unknown /\ last' = Unknown /\ fsi' = FALSE
    /\ fptr' = 0 /\ sclust' = 0 /\ objsize' = 0 /\ modified' = FALSE /\ err' = "none"
    /\ pc' = "closed" /\ op' = "none" /\ blk' = 0
    /\ ofs' = 0 /\ clst' = 0 /\ got' = 0 /\ ret' = "none"
    /\ result' = res
    /\ chain' = OnCard(dfat', dir', chain)
    /\ UNCHANGED <<data, buf, theirs>>

Reset == UNCHANGED <<dfat, dir, info>> /\ clust' = 0 /\ Dropped("none")

\* f_mount() and f_open(); clust is left as it was.
Open ==
    /\ pc = "closed" /\ pc' = "ready"
    /\ win' = DirSector
    /\ free' = IF FSInfo THEN info.free ELSE Unknown
    /\ last' = IF FSInfo THEN info.last ELSE Unknown
    /\ sclust' = dir.sclust /\ objsize' = dir.size
    /\ result' = "none"
    /\ UNCHANGED <<card, fat, wflag, fsi, fptr, clust, modified, err,
                   op, blk, buf, ofs, clst, got, ret, chain, theirs>>

\* do_read() and do_write() of a drive in file mode; v is the block to write.
Access(o, b, v) ==
    /\ pc = "ready" /\ pc' = "seek"
    /\ op' = o /\ blk' = b /\ ofs' = b
    /\ buf' = IF o = "write" THEN v ELSE buf
    /\ result' = "none"
    /\ UNCHANGED <<card, fs, fil, clst, got, ret, chain, theirs>>

\* The end of an access, and of its local variables.
Done(res) == /\ pc' = "ready" /\ result' = res
             /\ op' = "none" /\ blk' = 0
             /\ ofs' = 0 /\ clst' = 0 /\ got' = 0 /\ ret' = "none"

\* ABORT(): the error stays in the FIL until the file is opened again.
Abort(e) == Done("error") /\ err' = e

-----------------------------------------------------------------------------
(* The window: move_window() and sync_window(). *)

\* The sectors in S are wanted, the last one is s.
Visit(S, s) ==
    IF S \subseteq {win}
      THEN UNCHANGED <<dfat, win, wflag>>
      ELSE dfat' = fat /\ wflag' = FALSE /\ win' = s

\* The write-back fails, or the read that follows it.
VisitFails(S) ==
    /\ ~(S \subseteq {win})
    /\ \/ wflag /\ dfat' \in {dfat, fat} /\ UNCHANGED <<win, wflag>>
       \/ dfat' = fat /\ wflag' = FALSE /\ win' = NoSector

-----------------------------------------------------------------------------
(* create_chain(clst): "got" is the next cluster, a new one, or 0. *)

Succ(c) == IF c = N + 1 THEN 2 ELSE c + 1

\* Where the search for a free cluster starts, and how far it gets.
Start == CASE clst = 0 -> IF last \in Clusters THEN last ELSE 1
           [] clst # 0 /\ fat[Succ(clst)] # Free /\ last \in Clusters -> last
           [] OTHER -> clst
Distance(c) == (c + N - Start - 1) % N
NewCluster == CHOOSE c \in FreeIn(fat) : \A e \in FreeIn(fat) : Distance(c) <= Distance(e)

LastLooked == IF FreeIn(fat) # {} THEN NewCluster
               ELSE CHOOSE c \in Clusters : Distance(c) = N - 1

Linked == clst # 0 /\ fat[clst] # EOC
Sought == free # 0 /\ ~Linked

\* The sectors of the FAT the search reads.
Examined ==
    (IF clst = 0 THEN {} ELSE {clst})
    \cup (IF Sought /\ clst # 0 THEN {Succ(clst)} ELSE {})
    \cup (IF Sought THEN {c \in Clusters : Distance(c) <= Distance(LastLooked)} ELSE {})
Looked == {FatSector(c) : c \in Examined}

ChainCall(c, r) == pc' = "chain" /\ clst' = c /\ ret' = r

\* There is a next cluster.
ChainFollow ==
    /\ pc = "chain" /\ Linked
    /\ Visit(Looked, FatSector(clst))
    /\ IF fat[clst] = Free
         THEN Abort("int")
         ELSE /\ got' = fat[clst] /\ pc' = ret
              /\ UNCHANGED <<op, blk, ofs, clst, ret, result, err>>
    /\ UNCHANGED <<dir, info, data, fat, free, last, fsi,
                   fptr, clust, sclust, objsize, modified, buf, chain, theirs>>

\* Wrong on purpose: the last free cluster is not given out.
ChainFullEarly ==
    /\ pc = "chain" /\ ~Linked
    /\ free <= 1 \/ FreeIn(fat) = {}
    /\ Visit(Looked, FatSector(IF Sought THEN LastLooked ELSE clst))
    /\ got' = 0 /\ pc' = ret
    /\ UNCHANGED <<dir, info, data, fat, free, last, fsi, fil,
                   op, blk, buf, ofs, clst, ret, result, chain, theirs>>

ChainFull ==
    /\ pc = "chain" /\ ~Linked
    /\ free = 0 \/ FreeIn(fat) = {}
    /\ Visit(Looked, FatSector(IF Sought THEN LastLooked ELSE clst))
    /\ got' = 0 /\ pc' = ret
    /\ UNCHANGED <<dir, info, data, fat, free, last, fsi, fil,
                   op, blk, buf, ofs, clst, ret, result, chain, theirs>>

\* The count of free clusters, when it is known, and FSINFO follow.
Taken(c) == /\ last' = c
            /\ free' = IF free <= N THEN free - 1 ELSE free
            /\ fsi' = FSInfo
            /\ pc' = ret

\* A free cluster is marked; one that starts a chain needs no link.
ChainMark ==
    /\ pc = "chain" /\ Sought /\ FreeIn(fat) # {}
    /\ dfat' = IF Looked \subseteq {win} THEN dfat ELSE fat
    /\ fat' = [fat EXCEPT ![NewCluster] = EOC]
    /\ win' = FatSector(NewCluster) /\ wflag' = TRUE
    /\ got' = NewCluster
    /\ IF clst = 0
         THEN Taken(NewCluster) /\ chain' = <<NewCluster>>
         ELSE pc' = "link" /\ UNCHANGED <<last, free, fsi, chain>>
    /\ UNCHANGED <<dir, info, data, fil, op, blk, buf, ofs, clst, ret, result, theirs>>

ChainLink ==
    /\ pc = "link"
    /\ dfat' = IF FatSector(clst) = win THEN dfat ELSE fat
    /\ fat' = [fat EXCEPT ![clst] = got]
    /\ win' = FatSector(clst) /\ wflag' = TRUE
    /\ Taken(got) /\ chain' = Append(chain, got)
    /\ UNCHANGED <<dir, info, data, fil, op, blk, buf, ofs, clst, got, ret, result, theirs>>

ChainFails ==
    /\ \/ pc = "chain" /\ VisitFails(Looked)
       \/ pc = "link" /\ VisitFails({FatSector(clst)})
    /\ fat' = fat
    /\ Abort("disk")
    /\ UNCHANGED <<dir, info, data, free, last, fsi,
                   fptr, clust, sclust, objsize, modified, buf, chain, theirs>>

-----------------------------------------------------------------------------
(* f_lseek(). *)

\* An error of an earlier access is returned again.
SeekRefused ==
    /\ pc = "seek" /\ err # "none"
    /\ Done("error")
    /\ UNCHANGED <<card, fs, fil, buf, chain, theirs>>

\* Wrong on purpose: the position, and not the sector before it, is rounded down.
SeekForwardRounded ==
    /\ pc = "seek" /\ err = "none" /\ ofs > 0
    /\ fptr > 0 /\ (ofs - 1) \div C >= fptr \div C
    /\ fptr' = C * (fptr \div C)
    /\ ofs' = ofs - fptr'
    /\ clst' = clust /\ pc' = "loop"
    /\ UNCHANGED <<card, fs, clust, sclust, objsize, modified, err,
                   op, blk, buf, got, ret, result, chain, theirs>>

\* To the same or a following cluster: from the current one.
SeekForward ==
    /\ pc = "seek" /\ err = "none" /\ ofs > 0
    /\ fptr > 0 /\ (ofs - 1) \div C >= (fptr - 1) \div C
    /\ fptr' = C * ((fptr - 1) \div C)
    /\ ofs' = ofs - fptr'
    /\ clst' = clust /\ pc' = "loop"
    /\ UNCHANGED <<card, fs, clust, sclust, objsize, modified, err,
                   op, blk, buf, got, ret, result, chain, theirs>>

\* To the top of the file, or back: from the first cluster, if there is one.
SeekBack ==
    /\ pc = "seek" /\ err = "none"
    /\ ofs > 0 => fptr = 0 \/ (ofs - 1) \div C < (fptr - 1) \div C
    /\ fptr' = 0
    /\ IF ofs = 0
         THEN pc' = "xfer" /\ UNCHANGED <<clust, clst, ret>>
         ELSE IF sclust = 0
           THEN ChainCall(0, "first") /\ UNCHANGED clust
           ELSE clst' = sclust /\ clust' = sclust /\ pc' = "loop" /\ UNCHANGED ret
    /\ UNCHANGED <<card, fs, sclust, objsize, modified, err,
                   op, blk, buf, ofs, got, result, chain, theirs>>

SeekFirst ==
    /\ pc = "first"
    /\ sclust' = got /\ clust' = got /\ clst' = got
    /\ pc' = IF got = 0 THEN "xfer" ELSE "loop"
    /\ UNCHANGED <<card, fs, fptr, objsize, modified, err,
                   op, blk, buf, ofs, got, ret, result, chain, theirs>>

SeekLoop ==
    /\ pc = "loop" /\ ofs > C
    /\ ofs' = ofs - C /\ fptr' = fptr + C
    /\ ChainCall(clst, "next")
    /\ UNCHANGED <<card, fs, clust, sclust, objsize, modified, err,
                   op, blk, buf, got, result, chain, theirs>>

\* The next cluster; a full disk ends the seek there.
SeekNext ==
    /\ pc = "next" /\ pc' = "loop"
    /\ IF got = 0
         THEN ofs' = 0 /\ UNCHANGED <<clst, clust>>
         ELSE clst' = got /\ clust' = got /\ UNCHANGED ofs
    /\ UNCHANGED <<card, fs, fptr, sclust, objsize, modified, err,
                   op, blk, buf, got, ret, result, chain, theirs>>

\* A seek beyond the end makes the file longer.
Extend(p) == objsize' = IF p > objsize THEN p ELSE objsize

\* Wrong on purpose: the file grows and is not marked as modified.
SeekEndUnmarked ==
    /\ pc = "loop" /\ ofs <= C /\ pc' = "xfer"
    /\ fptr' = fptr + ofs
    /\ Extend(fptr') /\ UNCHANGED modified
    /\ UNCHANGED <<card, fs, clust, sclust, err,
                   op, blk, buf, ofs, clst, got, ret, result, chain, theirs>>

SeekEnd ==
    /\ pc = "loop" /\ ofs <= C /\ pc' = "xfer"
    /\ fptr' = fptr + ofs
    /\ Extend(fptr') /\ modified' = (modified \/ fptr' > objsize)
    /\ UNCHANGED <<card, fs, clust, sclust, err,
                   op, blk, buf, ofs, clst, got, ret, result, chain, theirs>>

-----------------------------------------------------------------------------
(* f_read() and f_write() of one block. *)

\* At the end of the file nothing is read.
ReadNothing ==
    /\ pc = "xfer" /\ op = "read" /\ fptr >= objsize
    /\ Done("error")
    /\ UNCHANGED <<card, fs, fil, buf, chain, theirs>>

Boundary == fptr % C = 0
ReadCluster == CASE ~Boundary  -> clust
                 [] fptr = 0   -> sclust
                 [] OTHER      -> fat[clust]
ReadLooks == IF Boundary /\ fptr # 0 THEN {FatSector(clust)} ELSE {}

ReadBlock ==
    /\ pc = "xfer" /\ op = "read" /\ fptr < objsize
    /\ Visit(ReadLooks, FatSector(clust))
    /\ IF ReadCluster \notin Clusters
         THEN Abort("int") /\ UNCHANGED <<fptr, clust, buf>>
         ELSE /\ Done("ok")
              /\ clust' = ReadCluster /\ buf' = data[ReadCluster][fptr % C]
              /\ fptr' = fptr + 1
              /\ UNCHANGED err
    /\ UNCHANGED <<dir, info, data, fat, free, last, fsi, sclust, objsize, modified, chain, theirs>>

ReadFails ==
    /\ pc = "xfer" /\ op = "read" /\ fptr < objsize
    /\ \/ VisitFails(ReadLooks) /\ UNCHANGED clust
       \/ Visit(ReadLooks, FatSector(clust)) /\ clust' = ReadCluster
    /\ Abort("disk")
    /\ UNCHANGED <<dir, info, data, fat, free, last, fsi,
                   fptr, sclust, objsize, modified, buf, chain, theirs>>

\* Wrong on purpose: the top of the file is written where the FIL happens to be.
WriteStartStale ==
    /\ pc = "xfer" /\ op = "write"
    /\ IF (Boundary /\ fptr # 0) \/ sclust = 0
         THEN ChainCall(IF fptr = 0 THEN 0 ELSE clust, "grown") /\ UNCHANGED clust
         ELSE UNCHANGED clust /\ pc' = "put" /\ UNCHANGED <<clst, ret>>
    /\ UNCHANGED <<card, fs, fptr, sclust, objsize, modified, err,
                   op, blk, buf, ofs, got, result, chain, theirs>>

\* f_write() follows the chain, or stretches it, at a cluster boundary.
WriteStart ==
    /\ pc = "xfer" /\ op = "write"
    /\ IF Boundary /\ (fptr # 0 \/ sclust = 0)
         THEN ChainCall(IF fptr = 0 THEN 0 ELSE clust, "grown") /\ UNCHANGED clust
         ELSE /\ clust' = IF Boundary THEN sclust ELSE clust
              /\ pc' = "put" /\ UNCHANGED <<clst, ret>>
    /\ UNCHANGED <<card, fs, fptr, sclust, objsize, modified, err,
                   op, blk, buf, ofs, got, result, chain, theirs>>

WriteGrown ==
    /\ pc = "grown"
    /\ IF got = 0
         THEN Done("error") /\ modified' = TRUE /\ UNCHANGED <<clust, sclust>>
         ELSE /\ clust' = got /\ sclust' = IF sclust = 0 THEN got ELSE sclust
              /\ pc' = "put"
              /\ UNCHANGED <<modified, op, blk, ofs, clst, got, ret, result>>
    /\ UNCHANGED <<card, fs, fptr, objsize, err, buf, chain, theirs>>

Put(v) == data' = [data EXCEPT ![clust][fptr % C] = v]

PutBlock ==
    /\ pc = "put" /\ Put(buf)
    /\ Done("ok")
    /\ fptr' = fptr + 1 /\ Extend(fptr') /\ modified' = TRUE
    /\ UNCHANGED <<dfat, dir, info, fs, clust, sclust, err, buf, chain, theirs>>

PutFails ==
    /\ pc = "put"
    /\ UNCHANGED data \/ Put(buf)
    /\ Abort("disk")
    /\ UNCHANGED <<dfat, dir, info, fs, fptr, clust, sclust, objsize, modified, buf, chain, theirs>>

-----------------------------------------------------------------------------
(* f_close(), then f_unmount(): the sketch takes no notice of a failure. *)

Close ==
    /\ pc = "ready"
    /\ IF modified
         THEN /\ pc' = "sync" /\ result' = "none"
              /\ UNCHANGED <<card, fs, fptr, sclust, objsize, modified, err,
                             op, blk, buf, ofs, clst, got, ret, chain, theirs>>
         ELSE UNCHANGED <<dfat, dir, info>> /\ Dropped("closed")
    /\ UNCHANGED clust

\* Wrong on purpose: the directory entry is written before the FAT.
SyncEntryFirst ==
    /\ pc = "sync" /\ pc' = "entry"
    /\ dir' = [sclust |-> sclust, size |-> objsize]
    /\ UNCHANGED <<dfat, info, data, fs, fil, acc, chain, theirs>>

\* The window is needed for the directory: the FAT is written first.
SyncFat ==
    /\ pc = "sync" /\ pc' = "entry"
    /\ Visit({DirSector}, DirSector)
    /\ UNCHANGED <<dir, info, data, fat, free, last, fsi, fil, acc, chain, theirs>>

\* The directory entry, then FSINFO when the count has changed.
SyncEntry ==
    /\ pc = "entry" /\ UNCHANGED <<dfat, info, clust>>
    /\ dir' = [sclust |-> sclust, size |-> objsize]
    /\ IF fsi
         THEN pc' = "fsinfo" /\ UNCHANGED <<data, fs, fptr, sclust, objsize, modified, err,
                                            op, blk, buf, ofs, clst, got, ret, result, chain, theirs>>
         ELSE Dropped("closed")

\* A failure to write FSINFO is ignored; a failure of CTRL_SYNC is reported.
SyncInfo ==
    /\ pc = "fsinfo"
    /\ info' \in {info, [free |-> free, last |-> last]}
    /\ UNCHANGED <<dfat, dir, clust>>
    /\ \E res \in {"closed", "none"} : Dropped(res)

SyncFails ==
    /\ \/ pc = "sync" /\ ~({DirSector} \subseteq {win}) /\ dfat' \in {dfat, fat} /\ UNCHANGED dir
       \/ pc = "entry" /\ dir' \in {dir, [sclust |-> sclust, size |-> objsize]} /\ UNCHANGED dfat
    /\ Dropped("none")
    /\ UNCHANGED <<info, clust>>

-----------------------------------------------------------------------------
Next ==
    \/ Reset \/ Open \/ Close
    \/ \E o \in {"read", "write"}, b \in Blocks, v \in Values : Access(o, b, v)
    \/ ChainFollow \/ ChainFull \/ ChainMark \/ ChainLink \/ ChainFails
    \/ SeekRefused \/ SeekForward \/ SeekBack \/ SeekFirst \/ SeekLoop \/ SeekNext \/ SeekEnd
    \/ ReadNothing \/ ReadBlock \/ ReadFails
    \/ WriteStart \/ WriteGrown \/ PutBlock \/ PutFails
    \/ SyncFat \/ SyncEntry \/ SyncInfo \/ SyncFails

Spec == Init /\ [][Next]_vars

-----------------------------------------------------------------------------
\* Every variable has its type.
TypeOK ==
    /\ dfat \in [Clusters -> Entries] /\ fat \in [Clusters -> Entries]
    /\ dir \in [sclust : Clusters \cup {0}, size : Nat]
    /\ info \in [free : 0..N \cup {Unknown}, last : Clusters \cup {Unknown}]
    /\ data \in [Clusters -> [0..C - 1 -> Values]]
    /\ win \in 0..NoSector /\ wflag \in BOOLEAN /\ fsi \in BOOLEAN
    /\ free \in 0..N \cup {Unknown} /\ last \in Clusters \cup {Unknown}
    /\ fptr \in Nat /\ objsize \in Nat /\ ofs \in Nat /\ blk \in Blocks \cup {0}
    /\ {clust, sclust, clst, got} \subseteq Clusters \cup {0}
    /\ modified \in BOOLEAN /\ err \in {"none", "disk", "int"}
    /\ pc \in {"closed", "ready", "seek", "chain", "link", "first", "next", "grown", "loop",
               "xfer", "put", "sync", "entry", "fsinfo"}
    /\ op \in {"none", "read", "write"} /\ buf \in Values
    /\ ret \in {"none", "first", "next", "grown"}
    /\ result \in {"none", "ok", "error", "closed"}
    /\ chain \in Seq(Clusters)

\* At every moment, so after a reset at any moment too, no link of the FAT on
\* the card leads to a cluster the same FAT calls free: create_chain() marks
\* the new cluster, and the window reaches the card in that order.
NoDanglingLink == \A c \in Clusters : dfat[c] \in Clusters => dfat[dfat[c]] # Free

\* At every moment the directory entry on the card can be honoured: its chain
\* ends properly and is long enough for the size (f_sync writes the FAT first).
DirectoryBacked ==
    LET ch == OnCard(dfat, dir, chain)
    IN  /\ IsChain(dfat, ch)
        /\ ch # <<>> => ch[1] = dir.sclust
        /\ dir.size <= C * Len(ch)

\* The clusters of the other files keep their links and their contents, however
\* far the image grows and whatever a disk error or a reset left behind.
OthersKept == \A c \in DOMAIN theirs : dfat[c] = theirs[c].link /\ data[c] = theirs[c].data

\* What is on the card at every moment is a volume somebody could mount: no
\* link into free clusters, a directory entry with the clusters it promises,
\* and the other files untouched (create_chain, f_sync).
CardSound == TypeOK /\ NoDanglingLink /\ DirectoryBacked /\ OthersKept

\* Between two accesses the FIL agrees with itself: clust is the cluster that
\* holds the sector before fptr, so that the next seek may start from it, and
\* the chain is long enough for the size, also after failed and clipped seeks;
\* and FatFs never finds its own structures broken (FR_INT_ERR).
PositionKnown ==
    /\ err # "int"
    /\ pc = "ready" /\ err = "none" =>
        /\ IsChain(fat, chain) /\ sclust = IF chain = <<>> THEN 0 ELSE chain[1]
        /\ fptr <= objsize /\ objsize <= C * Len(chain)
        /\ fptr > 0 => clust = chain[(fptr - 1) \div C + 1]

\* In the contents d of the clusters, block b of a file with chain ch holds v.
Holds(d, ch, b, v) == b \div C < Len(ch) /\ d[ch[b \div C + 1]][b % C] = v

\* An access that succeeds transfers the block that was asked for, although
\* f_lseek() reports success when it stopped short on a full disk.
BlockStep ==
    pc \in {"xfer", "put"} /\ result' = "ok" =>
        /\ fptr = blk
        /\ Holds(data', chain, blk, IF op = "read" THEN buf' ELSE buf)

TransfersTheBlock == [][BlockStep]_vars

\* What the image on the card holds is never lost and never changed but by a
\* write of that very block: not by another access, a growing file, a full disk,
\* a disk error, a reset, or closing and opening it.
KeptStep ==
    /\ dir'.size >= dir.size
    /\ \A b \in 0..dir.size - 1, v \in Values :
          Holds(data, OnCard(dfat, dir, chain), b, v) =>
              \/ Holds(data', OnCard(dfat', dir', chain'), b, v)
              \/ pc = "put" /\ blk = b

ImageKept == [][KeptStep]_vars

\* The disk is only called full when it is: the count in FSINFO may be too high
\* after a reset, never too low.
FullStep ==
    pc = "chain" /\ pc' \in {"first", "next", "grown"} /\ got' = 0 => FreeIn(fat) = {}

FullMeansFull == [][FullStep]_vars

\* When f_close() reports success the card has the file as the sketch had it, unless
\* an earlier disk error had stuck to the FIL: then nothing is promised of the file.
CloseStep ==
    pc # "closed" /\ result' = "closed" /\ pc' = "closed" /\ result # "closed" =>
        dir' = [sclust |-> sclust, size |-> objsize] \/ err # "none"

CloseSaves == [][CloseStep]_vars
=============================================================================
