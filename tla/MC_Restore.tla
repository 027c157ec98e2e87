----------------------------- MODULE MC_Restore -----------------------------
(* A directory in a directory, one file in each, in two orders on the disk; *)
(* what the three expressions match, and the extents the files can have.    *)
EXTENDS Restore

MCToday == 9

Xad(o, a, l) == [off |-> o, addr |-> a, len |-> l]
Leaf(xs)     == [leaf |-> TRUE, xad |-> xs]
Inner(as)    == [leaf |-> FALSE, xad |-> [k \in DOMAIN as |-> Xad(k, as[k], 1)]]

\* Page 9 is its own child; addresses from Blocks on are behind the end.
Blocks == 10
MCDisk ==
  [blocks   |-> Blocks, leftover |-> Leaf(<< Xad(0, 3, 1) >>),
   page     |-> 7 :> Leaf(<< Xad(0, 1, 1) >>) @@ 8 :> Leaf(<< Xad(1, 2, 2) >>)
                @@ 9 :> Inner(<< 8, 9 >>)]

Dir(u)                 == [kind |-> "dir", up |-> u, mtime |-> 5]
File(u, r, sz, mt, ot) ==
  [kind |-> "file", up |-> u, root |-> r, size |-> sz, mtime |-> mt, otime |-> ot]

\* Whole, with a piece at the end that ends with a buffer, is less than one,
\* or leaves a rest of itself there; written backwards, created when it was
\* last changed; the second extent not on the device; over the end of the
\* device; too long for 32 bits; below an inner root.
FileA(u) ==
  {File(u, Leaf(<< Xad(0, 1, 5) >>), 9, 5, 4),
   File(u, Leaf(<< Xad(0, 1, 4) >>), 7, 5, 4),
   File(u, Leaf(<< Xad(0, 1, 3) >>), 5, 5, 4),
   File(u, Leaf(<< Xad(2, 4, 2), Xad(0, 1, 2) >>), 7, 4, 4),
   File(u, Leaf(<< Xad(0, 1, 1), Xad(1, Blocks + 1, 1) >>), 3, 5, 4),
   File(u, Leaf(<< Xad(0, 9, 2), Xad(2, Blocks, 1) >>), 5, 5, 4),
   File(u, Leaf(<< Xad(0, 1, 9) >>), 18, 5, 5),
   File(u, Inner(<< 7, 8 >>), 6, 5, 4)}

\* From the future; shorter than nothing; a hole and nothing else; inner pages
\* that are not on the device, in a circle, and right at its end.
FileB(u) ==
  {File(u, Leaf(<< Xad(0, 5, 2) >>), 4, 5, 20), File(u, Leaf(<< Xad(0, 5, 2) >>), -1, 5, 4),
   File(u, Leaf(<< >>), 3, 5, 4),
   File(u, Inner(<< 8, Blocks + 1 >>), 2, 5, 4), File(u, Inner(<< 9 >>), 2, 5, 4),
   File(u, Inner(<< Blocks >>), 2, 5, 4)}

Forward(a, b)  == << Dir(0), Dir(1), a, b >>
Backward(a, b) == << b, a, Dir(4), Dir(0) >>
Trees == {Forward(a, b) : a \in FileA(1), b \in FileB(2)} \cup
         {Backward(a, b) : a \in FileA(4), b \in FileB(3)}

\* All of them without options, some with every mix of options.
Plain(u) == File(u, Leaf(<< Xad(0, 1, 3) >>), 5, 5, 4)
Optional ==
  {Forward(Plain(1), b) : b \in FileB(2)} \cup {Backward(Plain(4), Plain(3))}

MCJobs ==
  {[inode |-> t, first |-> None, last |-> None, exclude |-> None] : t \in Trees} \cup
  {[inode |-> t, first |-> f, last |-> l, exclude |-> x] :
     t \in Optional, f \in {None, {1, 3}, {4}}, l \in {None, {2, 3}, {1}},
     x \in {None, {1}, {3}, {2, 4}}}
\* Nothing but an inner page that is not on the device.
MCUnreadable ==
  {[inode |-> Forward(Plain(1), File(2, Inner(<< 8, Blocks + 1 >>), 2, 5, 4)),
    first |-> None, last |-> None, exclude |-> None]}
=============================================================================
