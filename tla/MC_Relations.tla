---------------------------- MODULE MC_Relations ----------------------------
(* Two valid inodes, of which the second may be there twice (a reloaded     *)
(* last record), two invalidated ones with one number, and another one that *)
(* only one of those lists.  The pages of the directory among those may be  *)
(* linked in a circle.                                                      *)
EXTENDS Relations

Node(k, n, dd, t, ls) ==
  [kind |-> k, number |-> n, dotdot |-> dd, otime |-> t, lists |-> ls, circles |-> FALSE]
Entry(n, nm)          == [number |-> n, name |-> nm]

\* Inode 9 was not found.
ListsA == {<< >>, << Entry(3, 100) >>, << Entry(4, NoName) >>, << Entry(4, 101), Entry(3, 102) >>}
ListsB == {<< >>, << Entry(4, 100) >>, << Entry(2, 100), Entry(9, 101) >>}
ListsC == {<< >>, << Entry(3, 103) >>, << Entry(5, 103), Entry(4, 104) >>}

Fourths ==
  {Node(k, 4, p, 1, ls) : k \in {"dir", "file"}, p \in {2, 3}, ls \in ListsC} \cup
  {[Node("dir", 4, p, 1, << >>) EXCEPT !.circles = TRUE] : p \in {2, 3}}

MCWorlds ==
  {[inode   |-> << Node("dir", 2, pa, 1, la), Node(kb, 3, pb, 1, lb),
                   fourth, Node("other", 4, 2, t, << >>),
                   Node(kb, 3, pb, 1, lb), Node("file", 5, 9, 1, << >>) >>,
    valid   |-> v, invalid |-> << 3, 4, 6 >>] :
      pa \in {2, 3, 4, 9}, la \in ListsA,
      kb \in {"dir", "file"}, pb \in {2, 4}, lb \in ListsB,
      fourth \in Fourths, t \in {0, 2}, v \in {<< 1, 2 >>, << 1, 2, 5 >>}}

\* No page is linked in a circle: only the parents are at fault.
MCSoundPages ==
  {w \in MCWorlds : \A o \in DOMAIN w.inode : ~ w.inode[o].circles}
=============================================================================
