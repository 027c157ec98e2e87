--------------------------- MODULE MC_PostProcess ---------------------------
(* Images of a few sectors, extents of four inodes, a stamp ratio of two,  *)
(* chunks of four sectors.                                                *)
EXTENDS PostProcess

MCJunk == 900

Ino(nl, nr, t, s) == [nlink |-> nl, number |-> nr, otime |-> t, stamp |-> s]
Image(d) == d @@ (MCJunk :> Ino(1, 77, 0, 9))

\* Two extents side by side with the same numbers: of two inodes with one
\* number the first is younger, or unallocated, or the second younger, or
\* both as old.
Twice == [n \in 1..8 |-> Ino(IF n = 2 THEN 0 ELSE 1, 11 + ((n - 1) % 4),
                             CASE n = 1 -> 2 [] n = 7 -> 3 [] OTHER -> 1, 1)]

\* A run of two, which is no extent, behind a stray inode.
Short == [n \in 1..3 |-> Ino(1, IF n = 1 THEN 40 ELSE 10 + n, 1, 1)]

\* An extent and inodes of an older file system, whose stamp comes before or
\* behind the extent's in the map's order; an extent that is mixed.
Older == [n \in 1..6 |-> Ino(1, 10 + n, 1, IF n <= 4 THEN 2 ELSE 1)]
Newer == [n \in 1..5 |-> Ino(1, 10 + n, 1, IF n <= 4 THEN 1 ELSE 2)]
Mixed == [n \in 1..5 |-> Ino(1, 10 + n, 1, IF n <= 3 THEN 1 ELSE 2)]

\* A device smaller than a chunk; one whose last sector is an inode.
Tiny == [n \in {1} |-> Ino(1, 11, 1, 1)]
Full == [n \in 1..3 |-> Ino(1, 10 + n, 1, 1)]

MCDisks == {Image(d) : d \in {Twice, Short, Older, Newer, Mixed, Tiny, Full}}

\* Behind the last inode there is another sector, but for the last image.
MCSizes == [d \in MCDisks |-> IF d = Image(Full) THEN 4 ELSE Cardinality(DOMAIN d) + 1]
=============================================================================
