------------------------------ MODULE MCFatOpen ------------------------------
(* Sectors of two directory entries, volumes of at most eight clusters, and   *)
(* images whose numbers have a digit on either side of 9 and A.               *)
EXTENDS FatOpen, TLC

\* The upper word of a cluster number is not 0 in any entry.
File(n, a) == [name |-> ImageName(n), attr |-> a, clust |-> WORD + (n % 8), size |-> n]
Table(p) == [Blank EXCEPT !.sign = TRUE, !.part = p]

\* Volumes of 2, 4 and 5 clusters; the last one's root directory begins at cluster r.
Fat12 == [Blank EXCEPT !.jump = TRUE, !.bps = SS, !.rsvd = 1, !.nfats = 2, !.fatsz16 = 2,
                       !.rootent = 2, !.tot16 = 8]
Fat16 == [Blank EXCEPT !.jump = TRUE, !.bps = SS, !.spc = 2, !.rsvd = 1, !.nfats = 2,
                       !.fatsz16 = 3, !.rootent = 4, !.tot32 = 17]
Fat32(r) == [Blank EXCEPT !.jump = TRUE, !.sign = TRUE, !.fat32 = TRUE, !.bps = SS, !.rsvd = 2,
                          !.nfats = 1, !.fatsz32 = 7, !.tot16 = 14, !.rootclus = r,
                          !.fsinfo = TRUE]
\* Its FATs are one sector short.
Short12 == [Fat12 EXCEPT !.fatsz16 = 1, !.tot16 = 6]

\* Any card goes into drive 0, a good one into drive 1.
MCGiven == [d \in Drives |-> IF d = 0 THEN Cards ELSE {"parted", "floppy"}]

None3 == [boot |-> <<>>, fat |-> <<>>, dir |-> <<>>]
Disks == [
    parted |-> [boot |-> (0 :> Table(<<0, 3, 17, 0>>)) @@ (3 :> Fat32(3)) @@ (17 :> Fat12),
                fat  |-> (3 :> (3 :> 5 @@ 5 :> 9)) @@ (17 :> <<>>),
                dir  |-> (13 :> <<File(10, "label"), File(171, "file")>>)
                         @@ (15 :> <<File(10, "file")>>) @@ (22 :> <<File(10, "file")>>)],
    floppy |-> [boot |-> (0 :> Fat16), fat |-> <<>>,
                dir  |-> (7 :> <<File(9, "file"), File(10, "readonly")>>)
                         @@ (8 :> <<File(171, "file"), File(9, "file")>>)],
    loop   |-> [boot |-> (0 :> Fat32(2)), fat |-> (0 :> (2 :> 3 @@ 3 :> 2)),
                dir  |-> (9 :> <<File(9, "file"), File(171, "directory")>>)
                         @@ (10 :> <<File(9, "file"), File(9, "label")>>)],
    astray |-> [boot |-> (0 :> Table(<<20, 4, 3, 0>>)) @@ (4 :> Fat32(2)), fat |-> (4 :> (2 :> 7)),
                dir  |-> (13 :> <<File(171, "file"), File(9, "file")>>)
                         @@ (0 :> <<File(10, "file")>>)],
    free   |-> [boot |-> (0 :> Fat32(4)), fat |-> (0 :> <<>>),
                dir  |-> (11 :> <<File(171, "file"), File(9, "file")>>)],
    noroot |-> [boot |-> (0 :> Fat32(9)), fat |-> <<>>, dir |-> <<>>],
    blank  |-> None3,
    empty  |-> [None3 EXCEPT !.boot = 0 :> Table(NoTable)],
    tight  |-> [None3 EXCEPT !.boot = (0 :> Table(<<3, 12, 0, 0>>)) @@ (3 :> Short12)
                                      @@ (12 :> Fat12)] ]
=============================================================================
