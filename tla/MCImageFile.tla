---------------------------- MODULE MCImageFile -----------------------------
(* Values of the constants of ImageFile for TLC: four clusters of two sectors,  *)
(* three FAT entries per sector, so that the FAT takes two sectors.             *)
EXTENDS ImageFile

MCFat(a, b, c, d) == [x \in 2..5 |-> <<a, b, c, d>>[x - 1]]
MCBlank == [x \in 2..5 |-> [s \in 0..1 |-> 0]]
MCLayout(f, ch, sz, fr, la) ==
    [fat |-> f, chain |-> ch, size |-> sz, free |-> fr, last |-> la, data |-> MCBlank]

\* EOC is 6.  A fragmented image with another file in the way and an exact count
\* of free clusters; an empty image and an unknown count; a full volume with a
\* count that is too high.
MCLayouts ==
    { MCLayout(MCFat(4, 6, 6, 0), <<2, 4>>, 3, 1, 4),
      MCLayout(MCFat(0, 6, 0, 0), <<>>, 0, 6, 5),
      MCLayout(MCFat(6, 5, 6, 6), <<3, 5>>, 3, 1, 6) }
=============================================================================
