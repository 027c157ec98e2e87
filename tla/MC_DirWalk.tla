----------------------------- MODULE MC_DirWalk -----------------------------
(* Directories in the inode, of one level and of two, with names of every  *)
(* number of slots and of the units where UTF-8 changes its length, whole  *)
(* and with one field of one page damaged.                                 *)
EXTENDS DirWalk

MCHeader == 2
MCSlot   == 3
MCHeap   == {0, 77}
Leftover == 66     \* what a slot holds behind its part of the name

Fill(us, n) == [k \in 1..n |-> IF k \in DOMAIN us THEN us[k] ELSE Leftover]

\* JFS: an entry in as few slots as its name needs, from slot h.
Pieces(name) == IF Len(name) <= MCHeader THEN 0 ELSE (Len(name) - MCHeader + MCSlot - 1) \div MCSlot
SlotsOf(e, h) ==
  [k \in 1..(Pieces(e.name) + 1) |->
     [addr |-> 1, len |-> 1, inumber |-> e.di_number, namlen |-> Len(e.name),
      next |-> IF k <= Pieces(e.name) THEN h + k ELSE -1,
      name |-> IF k = 1 THEN Fill(e.name, MCSlot)
               ELSE Fill(SubSeq(e.name, MCHeader + (k - 2) * MCSlot + 1, Len(e.name)), MCSlot)]]

\* The first slot behind the entries of es.
Room(es) == FoldLeft(LAMBDA n, e : n + Pieces(e.name) + 1, 1, es)

\* Entries are sorted by stbl, not by where their slots are.
Leaf(es, next) ==
  LET lain == Reverse(es) IN
  [leaf |-> TRUE, nextindex |-> Len(es), next |-> next,
   stbl |-> [k \in 1..Len(es) |-> Room(SubSeq(lain, 1, Len(es) - k))],
   slot |-> FlattenSeq([k \in DOMAIN es |-> SlotsOf(lain[k], Room(SubSeq(lain, 1, k - 1)))])]

\* Where Leaf puts the entries of es.
Chains(es) ==
  [k \in DOMAIN es |-> LET h == Leaf(es, 0).stbl[k]
                       IN [n \in 1..(Pieces(es[k].name) + 1) |-> h + n - 1]]

Inner(as, next) ==
  [leaf |-> FALSE, nextindex |-> Len(as), next |-> next, stbl |-> [k \in DOMAIN as |-> k],
   slot |-> [k \in DOMAIN as |-> [addr |-> as[k], len |-> 1, inumber |-> 7, namlen |-> 1,
                                  next |-> -1, name |-> Fill(<< >>, MCSlot)]]]

File(n, name) == [di_number |-> n, name |-> name]

\* Names of 0 to 9 units, of the borders of UTF-8 and of half a surrogate.
Border    == << 65535, 2048, 2047, 128, 127, 55296, 1, 56320, 2049 >>
Lengths   == [n \in 1..10 |-> File(n, SubSeq(Border, 1, n - 1))]
A == << File(1, << 128, 127, 65535, 2047 >>), File(2, << 1 >>) >>
B == << File(3, << 2048, 3, 2049, 4, 5, 6 >>) >>
C == << File(4, << 1, 2 >>), File(5, << 1, 2, 3 >>) >>

Whole(b, r, p, spine, leaves, holds) ==
  [blocks |-> b, root |-> r, page |-> p, spine |-> spine, leaves |-> leaves,
   holds |-> holds, chains |-> [a \in DOMAIN holds |-> Chains(holds[a])],
   hit |-> -1, harm |-> "none"]

Small == Whole(2, Leaf(Lengths, 0), << Blank >>, << >>, << 0 >>, 0 :> Lengths)
Empty == Whole(1, Leaf(<< >>, 0), << >>, << >>, << 0 >>, 0 :> << >>)
Flat  == Whole(4, Inner(<< 2, 1, 3 >>, 0), << Leaf(B, 3), Leaf(A, 1), Leaf(C, 0) >>,
               << 0 >>, << 2, 1, 3 >>, << B, A, C >>)
Deep  == Whole(6, Inner(<< 4, 5 >>, 0),
               << Leaf(A, 2), Leaf(B, 3), Leaf(C, 0), Inner(<< 1, 2 >>, 5), Inner(<< 3 >>, 0) >>,
               << 0, 4 >>, << 1, 2, 3 >>, << A, B, C >>)

\* One field of a page overwritten.
Indices  == {-1, -2, 0, 1, 4}
Relinked(p, as) == IF p.leaf THEN {[p EXCEPT !.next = a] : a \in as}
                      ELSE IF p.slot = << >> THEN {}
                      ELSE {[p EXCEPT !.slot[1].addr = a] : a \in as \ {-1}}
Rewritten(p) ==
  {[p EXCEPT !.nextindex = n] : n \in Indices} \cup {[p EXCEPT !.leaf = ~ @]} \cup
  (IF p.stbl = << >> THEN {} ELSE {[p EXCEPT !.stbl[1] = k] : k \in {-1, 0, 2, 99}}) \cup
  (IF p.slot = << >> THEN {} ELSE
     {[p EXCEPT !.slot[k].next = m] : k \in DOMAIN p.slot, m \in {-1, 1, 2, 99}} \cup
     {[p EXCEPT !.slot[1].namlen = n] : n \in {0, 9}} \cup {[p EXCEPT !.slot[1].len = 99]})

Struck(d, a, p, harm) ==
  IF a = 0 THEN [d EXCEPT !.root = [p EXCEPT !.next = 0], !.hit = 0, !.harm = harm]
           ELSE [d EXCEPT !.page[a] = p, !.hit = a, !.harm = harm]

Damaged(d) ==
  LET Links2(a) == {-1, 0} \cup Range(d.leaves) \cup {d.blocks + 1}
  IN UNION {{Struck(d, a, p, "link") : p \in Relinked(PageAt(d, a), Links2(a) \cup {d.blocks})}
             \cup {Struck(d, a, p, "field") : p \in Rewritten(PageAt(d, a)) \cup
                                    Relinked(PageAt(d, a), DOMAIN d.page)} :
             a \in {0} \cup DOMAIN d.page}

MCDirectories == {Small, Empty, Flat, Deep} \cup Damaged(Small) \cup Damaged(Flat) \cup Damaged(Deep)

\* A leaf of another directory, whose sibling is a page here, and a page above.
MCForeign == {Leaf(<< File(6, << 1, 2 >>) >>, 2), Inner(<< 3 >>, 0)}

MCStrays == {[addr |-> a, len |-> 1, inumber |-> 8, namlen |-> 1, next |-> n,
              name |-> Fill(<< >>, MCSlot)] : a \in {0, 1}, n \in {-1, 1}}
=============================================================================
