----------------------------- MODULE ExtentTree -----------------------------
(***************************************************************************)
(* FileInode: the extents a file's B+-tree lists (get_internal_xtpage,     *)
(* get_leaf_xads), and the pieces write_extent_to_file copies them in.     *)
(*                                                                         *)
(* Offsets, addresses and lengths of extents are in blocks, those of       *)
(* pieces in units, of which a block has BlockSize.  A unit of the device  *)
(* is its address.  A block has the size of a page of the tree.            *)
(***************************************************************************)
EXTENDS Integers, SequencesExt

CONSTANTS
  Disk,         \* its blocks, the pages on it, and one that is left in memory
  BlockSize,    \* device.get_blocksize()
  BuffSize,     \* buffsize_
  Wrap,         \* what a product of 32 bits is taken modulo
  StackDepth    \* the calls of get_internal_xtpage the stack holds

\* xad_t, and xtpage_t with nextindex - 2 of them.
XadType    == [off : Nat, addr : Nat, len : Nat]
XtpageType == [leaf : BOOLEAN, xad : Seq(XadType)]

ASSUME ExtentTreeAssumption ==
  /\ BlockSize \in Nat \ {0} /\ BuffSize \in Nat \ {0} /\ Wrap \in Nat \ {0}
  /\ StackDepth \in Nat
  /\ Disk.blocks \in Nat \ {0} /\ Disk.leftover \in XtpageType
  /\ DOMAIN Disk.page \subseteq 1..(Disk.blocks - 1)
  /\ \A a \in DOMAIN Disk.page : Disk.page[a] \in XtpageType

DeviceSize == Disk.blocks * BlockSize

----------------------------------------------------------------------------
(* The tree                                                                *)

\* The program ends here: read_bytes throws what get_internal_xtpage does
\* not declare, or the stack is taken.
Fatal == [off |-> -1, addr |-> -1, len |-> -1]

\* xtree_area is a new local: a read at the end of the device leaves it as
\* it was.  A block that is no page of a tree holds zeros.
Xtpage(a) ==
  IF a = Disk.blocks           THEN Disk.leftover
  ELSE IF a \in DOMAIN Disk.page THEN Disk.page[a]
  ELSE [leaf |-> FALSE, xad |-> << >>]

\* get_leaf_xads and get_internal_xads.  Every address behind the end is as
\* good as the first one.
FaultyXads(page, below) ==
  IF page.leaf THEN page.xad
  ELSE IF page.xad = << >> THEN << >> ELSE below[Head(page.xad).addr]
Xads(page, below) ==
  IF page.leaf THEN page.xad
  ELSE FlattenSeq([k \in DOMAIN page.xad |->
                     IF page.xad[k].addr > Disk.blocks THEN << Fatal >>
                     ELSE below[page.xad[k].addr]])

get_internal_xtpage[depth \in 0..StackDepth] ==
  [a \in 0..Disk.blocks |->
     IF depth = 0 THEN << Fatal >> ELSE Xads(Xtpage(a), get_internal_xtpage[depth - 1])]

\* The root is in the inode.
Extents(root) == Xads(root, get_internal_xtpage[StackDepth])

----------------------------------------------------------------------------
(* The pieces                                                              *)

\* lengthXAD(x) * get_blocksize() is computed in 32 bits.
Bytes(x) == (x.len * BlockSize) % Wrap

FaultyFrom(x, br) == x.off * BlockSize
From(x, br)       == x.off * BlockSize + br

\* bytes_read goes up by the whole buffer as long as more than that is left.
Piece(x, br) ==
  [from |-> From(x, br), dev |-> x.addr * BlockSize + br,
   n    |-> IF Bytes(x) - br > BuffSize THEN BuffSize ELSE Bytes(x) - br]
Pieces(x) ==
  [k \in 1..((Bytes(x) + BuffSize - 1) \div BuffSize) |-> Piece(x, (k - 1) * BuffSize)]

\* read_bytes refuses what begins behind the end.  What it cannot read is
\* what an earlier read left in the buffer.
Stale        == -1
Refused(p)   == p.dev > DeviceSize
Unit(a)      == IF a < DeviceSize THEN a ELSE Stale
Covers(p)    == p.from..(p.from + p.n - 1)
UnitAt(p, u) == Unit(p.dev + (u - p.from))

----------------------------------------------------------------------------
(* The reference: the extents a file has, and where a unit of it lies by   *)
(* them.                                                                   *)

Pages          == DOMAIN Disk.page
Children(page) == IF page.leaf THEN {} ELSE {x.addr : x \in Range(page.xad)}

\* The pages below one are in every set that has its children and theirs.
Below(page) ==
  {a \in Pages : \A S \in SUBSET Pages :
     /\ Children(page) \cap Pages \subseteq S
     /\ \A b \in S : Children(Disk.page[b]) \cap Pages \subseteq S
     => a \in S}
Reached(page)   == Children(page) \cup UNION {Children(Disk.page[a]) : a \in Below(page)}
Described(page) ==
  UNION {Range(p.xad) : p \in {p \in {page} \cup {Disk.page[a] : a \in Below(page)} : p.leaf}}

Units(x)    == (x.off * BlockSize)..((x.off + x.len) * BlockSize - 1)
Lies(x, u)  == u \in Units(x)
Place(x, u) == (x.addr - x.off) * BlockSize + u

\* Every page and unit is on the device, the tree is not higher than the
\* stack, no extent is too long for 32 bits, and no two are for one unit.
Fits(page, height) ==
  \A a \in Below(page) : \A b \in Children(Disk.page[a]) : height[b] < height[a]
Sound(root) ==
  /\ Reached(root) \subseteq Pages
  /\ \E height \in [Below(root) -> 0..(StackDepth - 1)] : Fits(root, height)
  /\ \A x \in Described(root) :
       /\ x.len * BlockSize < Wrap /\ (x.addr + x.len) * BlockSize <= DeviceSize
       /\ \A y \in Described(root) : x = y \/ Units(x) \cap Units(y) = {}
=============================================================================
