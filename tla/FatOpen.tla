------------------------------- MODULE FatOpen -------------------------------
(***************************************************************************)
(* From a drive number and the number of an image to an open file: the     *)
(* sketch's check_change_filesystem(), and under it f_mount() and f_open() *)
(* of FatFs.  One FATFS and one FIL serve both drives.  The card is        *)
(* searched for a FAT volume, the volume analysed, its root directory      *)
(* searched for the image.  Every access to the card may fail, cards are   *)
(* exchanged while they are not in use, and what is on them need not be    *)
(* sound: the chain of the root directory may be a loop or leave the FAT.  *)
(*                                                                         *)
(* Nothing is written, so the window, the sector FatFs keeps, is known by  *)
(* the card and the number it was read from.  The sketch gives an image by *)
(* its number, a directory entry has a name (module FatName).              *)
(***************************************************************************)
EXTENDS FatVolume, FatName

CONSTANTS Drives,          \* the drives in use
          Cards, Content,  \* the cards there are, and what is on them
          Given,           \* the cards that are ever put in each drive
          NoCard,
          Images,          \* the numbers of image files, 0 and 255 are none
          MAX_DIR,         \* bytes of a directory that are searched at most
          Mounts           \* the mount ID counts modulo this

None     == 255            \* no drive, no image
NoSector == DWORD - 1      \* winsect after a failed read
NoTable  == [i \in 1..4 |-> 0]
Blank    == [jump |-> FALSE, sign |-> FALSE, fat32 |-> FALSE, bps |-> 0, spc |-> 1,
             rsvd |-> 0, nfats |-> 0, rootent |-> 0, tot16 |-> 0, tot32 |-> 0,
             fatsz16 |-> 0, fatsz32 |-> 0, fsver |-> 0, rootclus |-> 0, fsinfo |-> FALSE,
             part |-> NoTable]
Entries  == [name : Seq(0..255), attr : {"file", "readonly", "directory", "label"},
             clust : Nat, size : Nat]

\* A card: its boot sectors, the FAT of each volume, the sectors of root directories.
BootAt(k, s)    == IF k # NoCard /\ s \in DOMAIN Content[k].boot THEN Content[k].boot[s] ELSE Blank
LinkAt(k, s, c) == IF s \in DOMAIN Content[k].fat /\ c \in DOMAIN Content[k].fat[s]
                     THEN Content[k].fat[s][c] ELSE 0
DirAt(k, s)     == IF k # NoCard /\ s \in DOMAIN Content[k].dir THEN Content[k].dir[s] ELSE <<>>

ASSUME BoundAssumption ==
    /\ Drives \subseteq {0, 1}
    /\ NoCard \notin Cards /\ Given \in [Drives -> SUBSET Cards] /\ Images \subseteq 1..254
    /\ MAX_DIR \in Nat \ {0} /\ Mounts \in Nat \ {0}
\* No card has the sector NoSector, which would be taken for already read.
ASSUME CardAssumption ==
    \A k \in Cards :
       /\ \A s \in DOMAIN Content[k].boot :
             /\ s \in Nat /\ s < NoSector /\ Content[k].boot[s] \in BootSectors
             /\ Accepts(Content[k].boot[s]) => OnCard(Content[k].boot[s], s)
       /\ \A s \in DOMAIN Content[k].fat : \A c \in DOMAIN Content[k].fat[s] :
             Content[k].fat[s][c] \in Nat
       /\ \A s \in DOMAIN Content[k].dir :
             /\ s \in Nat /\ Content[k].dir[s] \in Seq(Entries)
             /\ Len(Content[k].dir[s]) <= PerSector

VARIABLES card,         \* the card in each socket
          last_drive, name,          \* the sketch: the drive whose image is open, the images
          FatFs,        \* the drives fs is registered for
          fs_type, pdrv, id, vol, fsi, win, Fsid,  \* the FATFS and the last mount ID
          noinit,       \* the drives that are not initialised
          fil,          \* the FIL
          pc, drive, part, mbr, dj,  \* the call in progress
          asked, failed, result      \* history: the drive, an access failed, how it ended

sketch == <<card, last_drive, name, fil, asked>>
volume == <<id, vol, fsi>>
disk   == <<pdrv, Fsid, noinit>>
call   == <<drive, part, mbr, dj>>
vars   == <<card, last_drive, name, FatFs, fs_type, pdrv, id, vol, fsi, win, Fsid, noinit,
            fil, pc, drive, part, mbr, dj, asked, failed, result>>

NoVolume == Layout(Blank, 0)
NoWindow == [card |-> NoCard, sect |-> NoSector]
NoFile   == [fs |-> FALSE, id |-> 0, dir_sect |-> 0, dir_ptr |-> 0, sclust |-> 0, objsize |-> 0]
NoDir    == [clust |-> 0, sect |-> 0, dptr |-> 0]

Init ==
    /\ card \in [Drives -> Cards] /\ \A d \in Drives : card[d] \in Given[d]
    /\ last_drive = None /\ name = [d \in Drives |-> None]
    /\ FatFs = {} /\ fs_type = "none" /\ pdrv = 0 /\ id = 0 /\ Fsid = 0
    /\ vol = NoVolume /\ fsi = FALSE /\ win = [card |-> NoCard, sect |-> 0]
    /\ noinit = Drives /\ fil = NoFile
    /\ pc = "idle" /\ drive = None /\ part = 0 /\ mbr = NoTable /\ dj = NoDir
    /\ asked = None /\ failed = FALSE /\ result = "none"

\* Someone exchanges a card that is not in use.
Swap(d) ==
    /\ pc = "idle" /\ last_drive # d
    /\ \E k \in Given[d] \ {card[d]} : card' = [card EXCEPT ![d] = k]
    /\ result' = "none" /\ asked' = None
    /\ UNCHANGED <<last_drive, name, fil, FatFs, fs_type, volume, disk, win, pc, call, failed>>

\* blockdev0_filename or blockdev1_filename, and what FatFs makes of it: a drive and the
\* name of an entry.
Path(d, n) == set_blockdev_filename(blockdev_filename(d), n)
Lookups    == {[drive |-> d, image |-> n, ldnumber |-> get_ldnumber(Path(d, n))[1],
                fn |-> EntryName(Path(d, n))] : d \in Drives, n \in Images}
Lookup     == CHOOSE l \in Lookups : l.drive = drive /\ l.image = name[drive]

-----------------------------------------------------------------------------
(* check_change_filesystem() around f_open(). *)

\* f_mount() and f_unmount(): the FATFS is registered for the drives ds.  Nothing is read,
\* and what it said of a volume is void.
f_mount(ds) ==
    /\ FatFs' = ds
    /\ fs_type' = "none" /\ id' = 0 /\ vol' = NoVolume /\ fsi' = FALSE

\* f_close() of the image that is open, if one is; nobody looks at its result, and it
\* leaves the FIL as it is when it fails.
Closed == /\ fil' \in {NoFile} \cup (IF last_drive \in Drives THEN {fil} ELSE {})
          /\ last_drive' = None

\* The volume of the other drive goes, that of drive d is mounted when the file is opened.
MountLater(d) ==
    /\ Closed
    /\ f_mount((FatFs \ {last_drive}) \cup {d})
    /\ pc' = "mount" /\ drive' = d
    /\ asked' = None /\ failed' = FALSE /\ result' = "none"
    /\ UNCHANGED <<card, disk, win, part, mbr, dj>>

\* initialize_drive(): image n is to be open in drive d.
Initialize(d, n) ==
    /\ pc = "idle"
    /\ name' = [name EXCEPT ![d] = n]
    /\ MountLater(d)

\* validate(): the FIL is of the volume that is mounted, on a card that was initialised.
Valid == fil.fs /\ fs_type # "none" /\ fil.id = id /\ pdrv \notin noinit

\* An access to the image of drive d: the image of the other one may have to go.
Access(d) ==
    /\ pc = "idle" /\ name[d] # None
    /\ IF last_drive = d
         THEN /\ IF Valid THEN result' = "ok" /\ asked' = asked
                          ELSE result' = "error" /\ asked' = d
              /\ UNCHANGED <<card, last_drive, name, fil, FatFs, fs_type, volume, disk, win,
                             pc, call, failed>>
         ELSE MountLater(d) /\ UNCHANGED name

\* unmount_drive().
Unmount ==
    /\ pc = "idle" /\ last_drive # None
    /\ Closed
    /\ f_mount(FatFs \ {last_drive})
    /\ result' = "none" /\ asked' = None /\ failed' = FALSE
    /\ UNCHANGED <<card, name, disk, win, pc, call>>

\* Wrong on purpose: the drive stays registered.
RefusedMounted(f) ==
    /\ fil' = NoFile /\ f_mount(FatFs)
    /\ pc' = "idle" /\ drive' = None /\ part' = 0 /\ mbr' = NoTable /\ dj' = NoDir
    /\ failed' = (failed \/ f) /\ result' = "error" /\ asked' = drive
    /\ UNCHANGED <<card, last_drive, name>>

\* f_open() fails, because of the card or not (f): the FIL is invalid, the drive unmounted.
Refused(f) ==
    /\ fil' = NoFile /\ f_mount(FatFs \ {drive})
    /\ pc' = "idle" /\ drive' = None /\ part' = 0 /\ mbr' = NoTable /\ dj' = NoDir
    /\ failed' = (failed \/ f) /\ result' = "error" /\ asked' = drive
    /\ UNCHANGED <<card, last_drive, name>>

\* The call goes on, at p.
Goto(p) == pc' = p /\ UNCHANGED <<sketch, FatFs, drive, result>>

-----------------------------------------------------------------------------
(* mount_volume(): the card, the boot sector, the volume. *)

\* A volume that is mounted stays so; else the card is initialised.
MountVolume ==
    /\ pc = "mount"
    /\ IF fs_type # "none" /\ pdrv \notin noinit
         THEN Goto("rewind") /\ UNCHANGED <<fs_type, pdrv, noinit>>
         ELSE /\ Goto("check") /\ fs_type' = "none"
              /\ pdrv' = Lookup.ldnumber /\ noinit' = noinit \ {Lookup.ldnumber}
    /\ UNCHANGED <<volume, Fsid, win, part, mbr, dj, failed>>

\* No card answers disk_initialize().
NotReady ==
    /\ pc = "mount"
    /\ pdrv' = Lookup.ldnumber /\ noinit' = noinit \cup {Lookup.ldnumber}
    /\ Refused(TRUE)
    /\ UNCHANGED <<Fsid, win>>

\* move_window(): sector s is in the window w, or is read, or cannot be read.
Loaded(w, s)    == win' = IF w.sect = s THEN w ELSE [card |-> card[pdrv], sect |-> s]
NotLoaded(w, s) == w.sect # s /\ win' = NoWindow

\* check_fs() does not trust the window: it may be of the other drive.
Invalidated == [card |-> win.card, sect |-> NoSector]
Candidate   == IF part = 0 THEN 0 ELSE mbr[part]

\* find_volume(): a FAT volume is taken, else the next partition has its turn.
Tried(st, table, f) ==
    /\ UNCHANGED disk
    /\ IF st = "fat"
         THEN Goto("analyse") /\ UNCHANGED <<fs_type, volume, part, mbr, dj, failed>>
         ELSE IF part = 4 \/ (part = 0 /\ st # "table")
         THEN Refused(f)
         ELSE /\ Goto("check") /\ part' = part + 1 /\ mbr' = table
              /\ failed' = (failed \/ f) /\ UNCHANGED <<fs_type, volume, dj>>

CheckSector ==
    /\ pc = "check" /\ (part = 0 \/ Candidate # 0)
    /\ Loaded(Invalidated, Candidate)
    /\ LET b == BootAt(win'.card, win'.sect) IN
       Tried(Status(b), IF part = 0 THEN b.part ELSE mbr, FALSE)

CheckFails ==
    /\ pc = "check" /\ (part = 0 \/ Candidate # 0)
    /\ NotLoaded(Invalidated, Candidate)
    /\ Tried("error", mbr, TRUE)

NoPartition ==
    /\ pc = "check" /\ part # 0 /\ Candidate = 0
    /\ Tried("nothing", mbr, FALSE)
    /\ UNCHANGED win

\* The volume is mounted, with a new ID; follow_path() will begin at its root.
Mounted(v) ==
    /\ Goto("rewind") /\ part' = 0 /\ mbr' = NoTable
    /\ fs_type' = v.type
    /\ id' = (Fsid + 1) % Mounts /\ Fsid' = (Fsid + 1) % Mounts
    /\ UNCHANGED <<pdrv, noinit, dj, failed>>

\* The analysis of the boot record; a FAT32 volume may have an FSINFO sector.
Analyse ==
    LET b == BootAt(win.card, win.sect)
        v == Layout(b, win.sect)
    IN /\ pc = "analyse" /\ UNCHANGED win
       /\ IF ~Accepts(b) THEN Refused(FALSE) /\ UNCHANGED disk
          ELSE /\ vol' = v /\ fsi' = FALSE
               /\ IF v.type = "fat32" /\ b.fsinfo
                    THEN Goto("info") /\ UNCHANGED <<fs_type, id, disk, part, mbr, dj, failed>>
                    ELSE Mounted(v)

\* The FSINFO sector is used if it can be read; the volume is mounted without it too.
ReadInfo ==
    /\ pc = "info"
    /\ \/ Loaded(win, (vol.volbase + 1) % DWORD) /\ fsi' = TRUE
       \/ NotLoaded(win, (vol.volbase + 1) % DWORD) /\ fsi' = FALSE
    /\ Mounted(vol) /\ UNCHANGED vol

-----------------------------------------------------------------------------
(* follow_path() and dir_find(): the root directory. *)

\* dir_sdi(): where the root directory begins, sector 0 if nowhere.
RootClust  == IF vol.type = "fat32" THEN vol.dirbase ELSE 0
RootSector == IF RootClust # 0 THEN clst2sect(vol, RootClust)
              ELSE IF vol.n_rootdir > 0 THEN vol.dirbase ELSE 0

Rewind ==
    /\ pc = "rewind"
    /\ IF Lookup.fn = Invalid \/ RootSector = 0 THEN Refused(FALSE)
       ELSE /\ Goto("look") /\ UNCHANGED <<fs_type, volume, part, mbr, failed>>
            /\ dj' = [clust |-> RootClust, sect |-> RootSector, dptr |-> 0]
    /\ UNCHANGED <<disk, win>>

\* The directory entry in the window, if there is one.
Index  == (dj.dptr % SS) \div SZDIRE + 1
AtEnd  == Index > Len(DirAt(win'.card, win'.sect))
Entry  == DirAt(win'.card, win'.sect)[Index]
IsFile == Entry.attr # "label" /\ Entry.name = Lookup.fn

\* ld_clust(): the upper word of the number belongs to it on FAT32 only.
ld_clust(e) == IF fs_type = "fat32" THEN e.clust ELSE e.clust % WORD

\* f_open(): the entry that was found must be that of a file that may be written.
Opened ==
    IF Entry.attr \in {"directory", "readonly"} THEN Refused(FALSE)
    ELSE /\ fil' = [fs |-> TRUE, id |-> id, dir_sect |-> win'.sect, dir_ptr |-> Index,
                    sclust |-> ld_clust(Entry), objsize |-> Entry.size]
         /\ last_drive' = drive
         /\ pc' = "idle" /\ drive' = None /\ dj' = NoDir /\ result' = "ok"
         /\ UNCHANGED <<card, name, asked, FatFs, fs_type, volume, part, mbr, failed>>

\* dir_next(): the next entry, in this sector, in the next one, or behind a link.
Offset    == dj.dptr + SZDIRE
NewSector == Offset % SS = 0

Exhausted == \/ Offset >= MAX_DIR
             \/ NewSector /\ dj.clust = 0 /\ Offset \div SZDIRE >= vol.n_rootdir
NewClust  == NewSector /\ dj.clust # 0 /\ (Offset \div SS) % vol.csize = 0

NextEntry ==
    IF Exhausted THEN Refused(FALSE)
    ELSE IF NewClust THEN Goto("link") /\ UNCHANGED <<fs_type, volume, part, mbr, dj, failed>>
    ELSE /\ Goto("look") /\ UNCHANGED <<fs_type, volume, part, mbr, failed>>
         /\ dj' = [dj EXCEPT !.dptr = Offset, !.sect = IF NewSector THEN dj.sect + 1 ELSE dj.sect]

Look ==
    /\ pc = "look"
    /\ Loaded(win, dj.sect)
    /\ IF AtEnd THEN Refused(FALSE) ELSE IF IsFile THEN Opened ELSE NextEntry
    /\ UNCHANGED disk

LookFails ==
    /\ pc = "look" /\ NotLoaded(win, dj.sect)
    /\ Refused(TRUE) /\ UNCHANGED disk

\* get_fat() reads the sector of the entry; only FAT32 has a root directory of clusters.
LinkSector == EntrySectors(vol, dj.clust)[1]

\* Wrong on purpose: the end of a chain is followed.
FollowAnywhere ==
    /\ pc = "link"
    /\ Loaded(win, LinkSector)
    /\ LET next == LinkAt(card[pdrv], vol.volbase, dj.clust) IN
       IF next <= 1 THEN Refused(FALSE)
       ELSE /\ Goto("look") /\ UNCHANGED <<fs_type, volume, part, mbr, failed>>
            /\ dj' = [clust |-> next, sect |-> clst2sect(vol, next), dptr |-> Offset]
    /\ UNCHANGED disk

\* Wrong on purpose: each cluster is counted as the first.
FollowAgain ==
    /\ pc = "link"
    /\ Loaded(win, LinkSector)
    /\ LET next == LinkAt(card[pdrv], vol.volbase, dj.clust) IN
       IF next <= 1 \/ next >= vol.n_fatent THEN Refused(FALSE)
       ELSE /\ Goto("look") /\ UNCHANGED <<fs_type, volume, part, mbr, failed>>
            /\ dj' = [clust |-> next, sect |-> clst2sect(vol, next), dptr |-> 0]
    /\ UNCHANGED disk

\* A link to no cluster ends the directory, a link to a free one is an error.
Follow ==
    /\ pc = "link"
    /\ Loaded(win, LinkSector)
    /\ LET next == LinkAt(card[pdrv], vol.volbase, dj.clust) IN
       IF next <= 1 \/ next >= vol.n_fatent THEN Refused(FALSE)
       ELSE /\ Goto("look") /\ UNCHANGED <<fs_type, volume, part, mbr, failed>>
            /\ dj' = [clust |-> next, sect |-> clst2sect(vol, next), dptr |-> Offset]
    /\ UNCHANGED disk

FollowFails ==
    /\ pc = "link" /\ NotLoaded(win, LinkSector)
    /\ Refused(TRUE) /\ UNCHANGED disk

-----------------------------------------------------------------------------
Step == \/ MountVolume \/ NotReady \/ CheckSector \/ CheckFails \/ NoPartition
        \/ Analyse \/ ReadInfo \/ Rewind \/ Look \/ LookFails \/ Follow \/ FollowFails
Next == \/ \E d \in Drives : \/ Swap(d) \/ Access(d)
                             \/ \E n \in Images : Initialize(d, n)
        \/ Unmount \/ Step

\* The processor runs: a call that has begun is carried on.
Spec == Init /\ [][Next]_vars /\ WF_vars(Step)

-----------------------------------------------------------------------------
(* What the call is for, said without the search. *)

\* The volume of a card: sector 0, or the first partition that looks like one.
FirstVolume(k) ==
    LET table == BootAt(k, 0).part
        IsVolume(i) == table[i] # 0 /\ Status(BootAt(k, table[i])) = "fat"
    IN IF Status(BootAt(k, 0)) = "fat" THEN 0
       ELSE IF Status(BootAt(k, 0)) = "table" /\ \E i \in 1..4 : IsVolume(i)
       THEN table[CHOOSE i \in 1..4 : IsVolume(i) /\ \A j \in 1..i - 1 : ~IsVolume(j)]
       ELSE NoSector

\* The root directory of the volume at s: its n-th cluster, its n-th sector, its p-th place.
RootCluster(k, s) ==
    LET v == Layout(BootAt(k, s), s)
        valid(c) == IF c \in 2..v.n_fatent - 1 THEN c ELSE 0
        f[n \in Nat] == IF n = 0 THEN valid(v.dirbase) ELSE valid(LinkAt(k, s, f[n - 1]))
    IN f
RootSectorAt(k, s, n) ==
    LET v == Layout(BootAt(k, s), s)
        c == RootCluster(k, s)[n \div v.csize]
    IN IF v.type # "fat32"
         THEN IF n < v.n_rootdir \div PerSector THEN v.dirbase + n ELSE 0
         ELSE IF c = 0 THEN 0 ELSE clst2sect(v, c) + (n % v.csize)
Places == 0..(MAX_DIR - 1) \div SZDIRE
PlaceSector(k, s, p) == RootSectorAt(k, s, p \div PerSector)
PlaceIndex(p) == (p % PerSector) + 1
InUse(k, s, p) == \A q \in 0..p : /\ PlaceSector(k, s, q) # 0
                                  /\ PlaceIndex(q) <= Len(DirAt(k, PlaceSector(k, s, q)))

\* "BLKDEVnn" and "PO", as they stand in a directory, with the digits of the number.
Digits == <<48, 49, 50, 51, 52, 53, 54, 55, 56, 57, 65, 66, 67, 68, 69, 70>>
ImageName(n) == <<66, 76, 75, 68, 69, 86, Digits[(n \div 16) + 1], Digits[(n % 16) + 1], 80, 79, 32>>

\* The first entry of image n there, if it is that of a file.
Holds(k, s, n, p) ==
    LET e(q) == DirAt(k, PlaceSector(k, s, q))[PlaceIndex(q)]
        Named(q) == e(q).name = ImageName(n) /\ e(q).attr # "label"
    IN /\ InUse(k, s, p) /\ Named(p) /\ e(p).attr = "file"
       /\ \A q \in 0..p - 1 : ~Named(q)

-----------------------------------------------------------------------------
TypeOK ==
    /\ card \in [Drives -> Cards]
    /\ last_drive \in Drives \cup {None} /\ name \in [Drives -> Images \cup {None}]
    /\ FatFs \subseteq Drives /\ noinit \subseteq Drives /\ pdrv \in Drives \cup {0}
    /\ fs_type \in {"none", "fat12", "fat16", "fat32"} /\ fsi \in BOOLEAN
    /\ id \in 0..Mounts - 1 /\ Fsid \in 0..Mounts - 1
    /\ win.card \in Cards \cup {NoCard} /\ win.sect \in Nat
    /\ fil.fs \in BOOLEAN /\ fil.id \in 0..Mounts - 1
    /\ pc \in {"idle", "mount", "check", "analyse", "info", "rewind", "look", "link"}
    /\ drive \in Drives \cup {None} /\ (drive = None <=> pc = "idle")
    /\ part \in 0..4 /\ dj.sect \in Nat /\ dj.dptr < MAX_DIR
    /\ asked \in Drives \cup {None} /\ failed \in BOOLEAN /\ result \in {"none", "ok", "error"}

\* One FATFS serves two drives.  Between calls it is registered for the drive
\* whose image is open and for no other, and what it says is of that drive.
OneVolume ==
    /\ pc = "idle" => /\ FatFs = {last_drive} \cap Drives
                      /\ fs_type # "none" <=> last_drive \in Drives
    /\ fs_type # "none" => FatFs = {pdrv}

\* The image a drive has open is the one it was given: the first entry of that name in the
\* root directory of a volume of the card in this drive, of a file that may be written, and
\* FatFs will find the FIL valid.  It is on the card's first volume unless an access failed.
OpenedIsRight ==
    last_drive \in Drives =>
       LET k == card[last_drive] s == vol.volbase IN
       /\ fil.fs /\ fil.id = id /\ pdrv = last_drive /\ pdrv \notin noinit
       /\ Accepts(BootAt(k, s)) /\ (~failed => s = FirstVolume(k))
       /\ \E p \in Places :
             /\ Holds(k, s, name[last_drive], p)
             /\ fil.dir_sect = PlaceSector(k, s, p) /\ fil.dir_ptr = PlaceIndex(p)
             /\ LET e == DirAt(k, fil.dir_sect)[fil.dir_ptr] IN
                /\ fil.sclust = IF vol.type = "fat32" THEN e.clust ELSE e.clust % WORD
                /\ fil.objsize = e.size

\* An image that is there is opened: a call that fails without any access having failed
\* was for a card whose first volume is unusable or has no such file in its root.
ErrorIsRight ==
    result = "error" /\ ~failed =>
       LET k == card[asked] s == FirstVolume(k) IN
       \/ s = NoSector \/ ~Accepts(BootAt(k, s))
       \/ \A p \in Places : ~Holds(k, s, name[asked], p)

\* A number of an image, the digits of a path, the name of an entry: what the drive has
\* open is what the number says, and nothing is only where there is no such file.
OpenIsRight == TypeOK /\ OpenedIsRight /\ ErrorIsRight

\* A volume that mount_volume() accepts is laid out so that no entry of the FAT, no
\* directory sector and no cluster is looked for outside the place it has in the volume.
VolumeSound ==
    fs_type # "none" =>
       /\ AreasApart(vol) /\ EntriesInFat(vol) /\ ClustersApart(vol)
       /\ ClustersInside(vol, Total(BootAt(card[pdrv], vol.volbase)))

\* Whatever the FAT says, the search reads only sectors of the volume that is mounted, and
\* the window it compares with is of the card that is in use.
WindowInside ==
    fs_type # "none" /\ win.sect # NoSector =>
       /\ win.card = card[pdrv]
       /\ vol.volbase <= win.sect
       /\ win.sect < vol.volbase + Total(BootAt(card[pdrv], vol.volbase))

\* A call ends even where the root directory is a loop, so the Apple gets its answer.
CallEnds == (pc # "idle") ~> (pc = "idle")
=============================================================================
