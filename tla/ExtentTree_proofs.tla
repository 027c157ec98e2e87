-------------------------- MODULE ExtentTree_proofs --------------------------
(***************************************************************************)
(* What write_extent_to_file copies, for every extent, block size and size *)
(* of the buffer: the arithmetic of its loop on unbounded numbers, with    *)
(* the product that is taken modulo Wrap.  And what the walk through a     *)
(* tree of extents finds, for every tree: nothing that is not in it, and   *)
(* all that is in a sound one.                                             *)
(***************************************************************************)
EXTENDS ExtentTree, SequenceLemmas

LEMMA Division ==
  ASSUME NEW a \in Nat, NEW b \in Nat \ {0}
  PROVE  /\ a \div b \in Nat
         /\ a % b \in 0..(b - 1)
         /\ a = b * (a \div b) + (a % b)
OBVIOUS

\* Rounding up gives just enough pieces.
LEMMA RoundUp ==
  ASSUME NEW a \in Nat, NEW b \in Nat \ {0}
  PROVE  LET n == (a + b - 1) \div b IN
         /\ n \in Nat /\ a <= n * b
         /\ \A k \in 1..n : (k - 1) * b < a
<1> DEFINE s == a + b - 1
           n == s \div b
           r == s % b
<1>1. s \in Nat OBVIOUS
<1>2. n \in Nat /\ r \in 0..(b - 1) /\ s = b * n + r BY <1>1, Division
<1> HIDE DEF n, r
<1>3. a <= n * b BY <1>2
<1>4. ASSUME NEW k \in 1..n PROVE (k - 1) * b < a
  <2>1. k \in Nat /\ k <= n BY <1>2
  <2>2. k * b <= n * b BY <2>1, <1>2
  <2>3. (k - 1) * b = k * b - b BY <2>1
  <2> QED BY <2>1, <2>2, <2>3, <1>2
<1> QED BY <1>2, <1>3, <1>4 DEF n

\* The wrapped product is never larger than the product.
LEMMA BytesBound ==
  ASSUME NEW x \in XadType
  PROVE  /\ x.len * BlockSize \in Nat /\ x.off * BlockSize \in Nat /\ x.addr * BlockSize \in Nat
         /\ Bytes(x) \in Nat /\ Bytes(x) <= x.len * BlockSize
         /\ x.len * BlockSize < Wrap => Bytes(x) = x.len * BlockSize
<1>1. x.len \in Nat /\ x.off \in Nat /\ x.addr \in Nat BY DEF XadType
<1>2. BlockSize \in Nat /\ Wrap \in Nat \ {0} BY ExtentTreeAssumption
<1> DEFINE p == x.len * BlockSize
<1>3. p \in Nat BY <1>1, <1>2
<1>4. x.off * BlockSize \in Nat /\ x.addr * BlockSize \in Nat BY <1>1, <1>2
<1> HIDE DEF p
<1>5. p \div Wrap \in Nat /\ p % Wrap \in 0..(Wrap - 1) /\ p = Wrap * (p \div Wrap) + (p % Wrap)
  BY <1>2, <1>3, Division
<1>6. Wrap * (p \div Wrap) \in Nat BY <1>2, <1>5
<1>7. p % Wrap \in Nat /\ p % Wrap <= p BY <1>2, <1>3, <1>5, <1>6
<1>8. p < Wrap => p % Wrap = p BY <1>2, <1>3
<1> QED BY <1>3, <1>4, <1>7, <1>8 DEF p, Bytes

\* The number of units in the k-th piece, and where it lies in the extent.
LEMMA PieceBounds ==
  ASSUME NEW x \in XadType, NEW k \in DOMAIN Pieces(x)
  PROVE  LET br == (k - 1) * BuffSize
             n  == Pieces(x)[k].n IN
         /\ br \in Nat /\ n \in 1..BuffSize /\ br + n <= Bytes(x)
         /\ br + n = Bytes(x) \/ n = BuffSize
         /\ Pieces(x)[k].from = x.off * BlockSize + br
         /\ Pieces(x)[k].dev = x.addr * BlockSize + br
<1> DEFINE br == (k - 1) * BuffSize
           b  == Bytes(x)
<1>1. b \in Nat BY BytesBound
<1>2. BuffSize \in Nat \ {0} BY ExtentTreeAssumption
<1>3. k \in 1..((b + BuffSize - 1) \div BuffSize) BY DEF Pieces
<1>4. br < b BY <1>1, <1>2, <1>3, RoundUp
<1>5. br \in Nat
  <2>1. k \in Nat \ {0} BY <1>1, <1>2, <1>3, RoundUp
  <2> QED BY <2>1, <1>2
<1> HIDE DEF br, b
<1>6. Pieces(x)[k] = [from |-> x.off * BlockSize + br, dev |-> x.addr * BlockSize + br,
                      n |-> IF b - br > BuffSize THEN BuffSize ELSE b - br]
  BY DEF Pieces, Piece, From, br, b
<1>7. Pieces(x)[k].n = IF b - br > BuffSize THEN BuffSize ELSE b - br BY <1>6
<1>8. Pieces(x)[k].from = x.off * BlockSize + br /\ Pieces(x)[k].dev = x.addr * BlockSize + br
  BY <1>6
<1>9. CASE b - br > BuffSize BY <1>1, <1>2, <1>4, <1>5, <1>7, <1>8, <1>9 DEF br, b
<1>10. CASE ~ (b - br > BuffSize)
  <2>1. b - br \in Nat \ {0} /\ b - br <= BuffSize BY <1>1, <1>2, <1>4, <1>5, <1>10
  <2>2. Pieces(x)[k].n = b - br BY <1>7, <1>10
  <2>3. br + (b - br) = b BY <1>1, <1>5
  <2> QED BY <2>1, <2>2, <2>3, <1>1, <1>2, <1>5, <1>8 DEF br, b
<1> QED BY <1>9, <1>10

\* Whatever a length wraps to, a piece takes from the device what the extent
\* says of the place it goes to (write_extent_to_file: offset and address are
\* advanced together, and read_bytes fills the buffer from its beginning).
THEOREM NoPieceGoesAstray ==
  ASSUME NEW x \in XadType, NEW k \in DOMAIN Pieces(x), NEW u \in Covers(Pieces(x)[k])
  PROVE  Lies(x, u) /\ UnitAt(Pieces(x)[k], u) = Unit(Place(x, u))
<1> DEFINE br == (k - 1) * BuffSize
           n  == Pieces(x)[k].n
           F  == x.off * BlockSize
           A  == x.addr * BlockSize
           L  == x.len * BlockSize
<1>1. F \in Nat /\ A \in Nat /\ L \in Nat /\ Bytes(x) <= L BY BytesBound
<1>2. /\ br \in Nat /\ n \in Nat /\ br + n <= Bytes(x) /\ Bytes(x) \in Nat
      /\ Pieces(x)[k].from = F + br /\ Pieces(x)[k].dev = A + br
  <2>1. BuffSize \in Nat BY ExtentTreeAssumption
  <2> QED BY <2>1, PieceBounds, BytesBound
<1>3. (x.off + x.len) * BlockSize = F + L /\ (x.addr - x.off) * BlockSize = A - F
  <2>1. x.off \in Nat /\ x.len \in Nat /\ x.addr \in Nat BY DEF XadType
  <2>2. BlockSize \in Nat BY ExtentTreeAssumption
  <2> QED BY <2>1, <2>2
<1> HIDE DEF br, n, F, A, L
<1>4. u \in (F + br)..(F + br + n - 1) BY <1>2 DEF Covers, n
<1>5. u \in F..(F + L - 1) BY <1>1, <1>2, <1>4
<1>6. Lies(x, u) BY <1>1, <1>3, <1>5 DEF Lies, Units, F
<1>7. (A + br) + (u - (F + br)) = (A - F) + u BY <1>1, <1>2, <1>4
<1>8. UnitAt(Pieces(x)[k], u) = Unit((A - F) + u) BY <1>2, <1>7 DEF UnitAt
<1> QED BY <1>3, <1>6, <1>8 DEF Place

\* An extent that is not too long for 32 bits is copied to its last unit,
\* in pieces that fill the buffer and one that takes the rest.
THEOREM EveryUnitIsCopied ==
  ASSUME NEW x \in XadType, x.len * BlockSize < Wrap, NEW u, Lies(x, u)
  PROVE  \E k \in DOMAIN Pieces(x) : u \in Covers(Pieces(x)[k])
<1> DEFINE F == x.off * BlockSize
           L == x.len * BlockSize
           d == u - F
           k == d \div BuffSize + 1
           m == (L + BuffSize - 1) \div BuffSize
<1>1. F \in Nat /\ L \in Nat /\ Bytes(x) = L BY BytesBound
<1>2. BuffSize \in Nat \ {0} BY ExtentTreeAssumption
<1>3. u \in F..(F + L - 1)
  <2>1. x.off \in Nat /\ x.len \in Nat BY DEF XadType
  <2>2. BlockSize \in Nat BY ExtentTreeAssumption
  <2>3. (x.off + x.len) * BlockSize = F + L BY <2>1, <2>2
  <2> QED BY <1>1, <2>3 DEF Lies, Units
<1>4. d \in 0..(L - 1) BY <1>1, <1>3
<1> HIDE DEF F, L, d
<1>5. /\ d \div BuffSize \in Nat /\ d % BuffSize \in 0..(BuffSize - 1)
      /\ d = BuffSize * (d \div BuffSize) + (d % BuffSize)
  <2>1. d \in Nat BY <1>1, <1>4
  <2> QED BY <2>1, <1>2, Division
<1>6. k \in Nat \ {0} /\ (k - 1) * BuffSize <= d /\ d < (k - 1) * BuffSize + BuffSize
  BY <1>1, <1>2, <1>4, <1>5
<1>7. m \in Nat /\ L <= m * BuffSize BY <1>1, <1>2, RoundUp
<1> HIDE DEF k, m
<1>8. k <= m
  <2>1. SUFFICES ASSUME k > m PROVE FALSE BY <1>6, <1>7
  <2>2. m <= k - 1 BY <2>1, <1>6, <1>7
  <2>3. m * BuffSize <= (k - 1) * BuffSize BY <2>2, <1>2, <1>6, <1>7
  <2>4. (k - 1) * BuffSize \in Nat /\ m * BuffSize \in Nat BY <1>2, <1>6, <1>7
  <2> QED BY <2>3, <2>4, <1>1, <1>4, <1>6, <1>7
<1>9. k \in DOMAIN Pieces(x) BY <1>1, <1>6, <1>7, <1>8 DEF Pieces, m
<1>10. LET br == (k - 1) * BuffSize
           n  == Pieces(x)[k].n IN
       /\ br \in Nat /\ n \in 1..BuffSize
       /\ br + n = L \/ n = BuffSize
       /\ Pieces(x)[k].from = F + br
  BY <1>1, <1>9, PieceBounds DEF F
<1>11. u = F + d /\ u \in Int BY <1>1, <1>3 DEF d
<1> DEFINE br == (k - 1) * BuffSize
<1> HIDE DEF br
<1>12. /\ br \in Nat /\ Pieces(x)[k].n \in Nat /\ Pieces(x)[k].from = F + br
       /\ br + Pieces(x)[k].n = L \/ Pieces(x)[k].n = BuffSize
  BY <1>2, <1>10 DEF br
<1>13. br <= d /\ d < br + BuffSize BY <1>6 DEF br
<1>14. d < br + Pieces(x)[k].n BY <1>1, <1>2, <1>4, <1>12, <1>13
<1>15. u \in (F + br)..((F + br) + Pieces(x)[k].n - 1)
  BY <1>1, <1>4, <1>11, <1>12, <1>13, <1>14
<1> QED BY <1>9, <1>12, <1>15 DEF Covers

----------------------------------------------------------------------------
(* What lies below a page.                                                 *)

LEMMA BelowClosed ==
  ASSUME NEW page
  PROVE  /\ Below(page) \subseteq Pages
         /\ Children(page) \cap Pages \subseteq Below(page)
         /\ \A b \in Below(page) : Children(Disk.page[b]) \cap Pages \subseteq Below(page)
BY DEF Below

LEMMA BelowLeast ==
  ASSUME NEW page, NEW S \in SUBSET Pages, Children(page) \cap Pages \subseteq S,
         \A b \in S : Children(Disk.page[b]) \cap Pages \subseteq S
  PROVE  Below(page) \subseteq S
BY DEF Below

\* A page below has nothing below it that is not below the first.
LEMMA BelowBelow ==
  ASSUME NEW page, NEW b \in Below(page)
  PROVE  /\ Below(Disk.page[b]) \subseteq Below(page)
         /\ Reached(Disk.page[b]) \subseteq Reached(page)
         /\ Described(Disk.page[b]) \subseteq Described(page)
<1>1. Below(Disk.page[b]) \subseteq Below(page)
  BY BelowClosed, BelowLeast
<1> QED BY <1>1 DEF Reached, Described

\* A page that is not on the device has nothing below it.
Empty == [leaf |-> FALSE, xad |-> << >>]

LEMMA NothingBelow == Children(Empty) = {} /\ Below(Empty) = {} /\ Described(Empty) = {}
<1>1. Range(Empty.xad) = {} /\ ~ Empty.leaf  BY DEF Range, Empty
<1>2. Children(Empty) = {}  BY <1>1 DEF Children
<1>3. Below(Empty) = {}
  <2>1. {} \in SUBSET Pages  OBVIOUS
  <2> QED BY <1>2, <2>1, BelowLeast
<1> QED BY <1>1, <1>2, <1>3 DEF Described

\* What an inner page describes is what its children do.
LEMMA DescribedByChildren ==
  ASSUME NEW page, ~ page.leaf, Children(page) \subseteq Pages
  PROVE  Described(page) = UNION {Described(Disk.page[b]) : b \in Children(page)}
<1> DEFINE S == Children(page) \cup UNION {Below(Disk.page[b]) : b \in Children(page)}
<1>1. Below(page) \subseteq S
  <2>1. S \in SUBSET Pages
    BY BelowClosed
  <2>2. \A b \in S : Children(Disk.page[b]) \cap Pages \subseteq S
    <3> TAKE b \in S
    <3>1. CASE b \in Children(page)
      BY <3>1, BelowClosed
    <3>2. ASSUME NEW d \in Children(page), b \in Below(Disk.page[d])
          PROVE  Children(Disk.page[b]) \cap Pages \subseteq S
      <4>1. Children(Disk.page[b]) \cap Pages \subseteq Below(Disk.page[d])
        BY <3>2, BelowClosed
      <4> QED BY <4>1
    <3> QED BY <3>1, <3>2
  <2>3. Children(page) \cap Pages \subseteq S  OBVIOUS
  <2> HIDE DEF S
  <2> QED BY <2>1, <2>2, <2>3, BelowLeast
<1>2. \A b \in Children(page) : b \in Below(page)
  BY BelowClosed
<1>3. ASSUME NEW b \in Children(page)
      PROVE  Described(Disk.page[b]) \subseteq Described(page)
  BY <1>2, BelowBelow
<1>4. ASSUME NEW x \in Described(page)
      PROVE  \E b \in Children(page) : x \in Described(Disk.page[b])
  <2>1. PICK a \in Below(page) : Disk.page[a].leaf /\ x \in Range(Disk.page[a].xad)
    BY DEF Described
  <2>2. PICK b \in Children(page) : a = b \/ a \in Below(Disk.page[b])
    BY <1>1
  <2> QED BY <2>1, <2>2 DEF Described
<1> QED BY <1>3, <1>4

----------------------------------------------------------------------------
(* What get_internal_xtpage returns.                                       *)

Xad         == XadType \cup {Fatal}
XadsBelow   == [0..Disk.blocks -> Seq(Xad)]
Found(s, a) == IF a > Disk.blocks THEN {Fatal} ELSE Range(s[a])

LEMMA XtpageOK ==
  ASSUME NEW a \in 0..Disk.blocks
  PROVE  Xtpage(a) \in XtpageType
<1>1. << >> \in Seq(XadType) /\ FALSE \in BOOLEAN  OBVIOUS
<1>2. Empty \in XtpageType  BY <1>1 DEF Empty, XtpageType
<1> QED BY <1>2, ExtentTreeAssumption DEF Xtpage, Empty

LEMMA PageOK ==
  ASSUME NEW page \in XtpageType
  PROVE  /\ page.leaf \in BOOLEAN /\ page.xad \in Seq(XadType)
         /\ \A k \in DOMAIN page.xad : page.xad[k] \in XadType /\ page.xad[k].addr \in Nat
         /\ Children(page) \subseteq Nat
<1>1. page.leaf \in BOOLEAN /\ page.xad \in Seq(XadType)  BY DEF XtpageType
<1>2. \A k \in DOMAIN page.xad : page.xad[k] \in XadType  BY <1>1
<1>3. \A x \in XadType : x.addr \in Nat  BY DEF XadType
<1> QED BY <1>1, <1>2, <1>3 DEF Children, Range

\* What one page adds to what is below it.
LEMMA XadsAre ==
  ASSUME NEW page \in XtpageType, NEW s \in XadsBelow
  PROVE  /\ Xads(page, s) \in Seq(Xad)
         /\ Range(Xads(page, s)) = IF page.leaf THEN Range(page.xad)
                                   ELSE UNION {Found(s, a) : a \in Children(page)}
<1>1. CASE page.leaf
  <2>1. Xads(page, s) = page.xad /\ page.xad \in Seq(XadType)
    BY <1>1, PageOK DEF Xads
  <2>2. page.xad \in Seq(Xad)
    BY <2>1 DEF Xad
  <2> QED BY <1>1, <2>1, <2>2
<1>2. CASE ~ page.leaf
  <2> DEFINE t == [k \in DOMAIN page.xad |-> IF page.xad[k].addr > Disk.blocks THEN << Fatal >>
                                             ELSE s[page.xad[k].addr]]
  <2>1. Xads(page, s) = FlattenSeq(t)
    BY <1>2 DEF Xads
  <2>2. Len(page.xad) \in Nat /\ DOMAIN page.xad = 1..Len(page.xad)
    BY PageOK
  <2>3. \A k \in DOMAIN page.xad : page.xad[k].addr \in Nat  BY PageOK
  <2>4. Disk.blocks \in Nat  BY ExtentTreeAssumption
  <2>5. \A k \in DOMAIN page.xad : t[k] \in Seq(Xad)
    <3> TAKE k \in DOMAIN page.xad
    <3>1. CASE page.xad[k].addr > Disk.blocks
      <4>1. Fatal \in Xad  BY DEF Xad
      <4>2. << Fatal >> \in Seq(Xad)  BY <4>1
      <4> QED BY <3>1, <4>2
    <3>2. CASE ~ (page.xad[k].addr > Disk.blocks)
      <4>1. page.xad[k].addr \in 0..Disk.blocks  BY <2>3, <2>4, <3>2
      <4> QED BY <3>2, <4>1 DEF XadsBelow
    <3> QED BY <3>1, <3>2
  <2>6. \A k \in DOMAIN page.xad : Range(t[k]) = Found(s, page.xad[k].addr)
    <3>1. Range(<< Fatal >>) = {Fatal}  BY DEF Range
    <3> QED BY <3>1 DEF Found
  <2>7. DOMAIN t = DOMAIN page.xad  OBVIOUS
  <2>8. t \in Seq(Seq(Xad))
    <3>1. t = [k \in 1..Len(page.xad) |-> t[k]]  BY <2>2
    <3> HIDE DEF t
    <3> QED BY <2>2, <2>5, <3>1
  <2> HIDE DEF t
  <2>9. /\ FlattenSeq(t) \in Seq(Xad)
        /\ Range(FlattenSeq(t)) = UNION {Range(t[k]) : k \in DOMAIN t}
    BY <2>8, FlattenRange
  <2>10. Children(page) = {page.xad[k].addr : k \in DOMAIN page.xad}
    BY <1>2 DEF Children, Range
  <2>11. UNION {Range(t[k]) : k \in DOMAIN t} = UNION {Found(s, a) : a \in Children(page)}
    BY <2>6, <2>7, <2>10
  <2> QED BY <1>2, <2>1, <2>9, <2>11
<1> QED BY <1>1, <1>2, PageOK

LEMMA WalkExists ==
  ASSUME NEW N \in Nat
  PROVE  \E f : f = [d \in 0..N |-> [a \in 0..Disk.blocks |->
                       IF d = 0 THEN << Fatal >> ELSE Xads(Xtpage(a), f[d - 1])]]
<1> DEFINE Is(f, m) == f = [d \in 0..m |-> [a \in 0..Disk.blocks |->
                              IF d = 0 THEN << Fatal >> ELSE Xads(Xtpage(a), f[d - 1])]]
           Bad == {m \in Nat : ~ \E f : Is(f, m)}
<1>1. Bad = {}
  <2> SUFFICES ASSUME Bad # {} PROVE FALSE  OBVIOUS
  <2>1. PICK m \in Bad : \A k \in Bad : m <= k
    <3>1. Bad \in SUBSET Nat  OBVIOUS
    <3> HIDE DEF Bad
    <3> QED BY <3>1, Least
  <2>2. m # 0
    <3>1. Is([d \in 0..0 |-> [a \in 0..Disk.blocks |-> << Fatal >>]], 0)  OBVIOUS
    <3> QED BY <3>1, <2>1
  <2>3. m \in Nat /\ m - 1 \in Nat /\ m - 1 \notin Bad
    <3>1. m \in Nat  OBVIOUS
    <3> HIDE DEF Bad
    <3> QED BY <2>1, <2>2, <3>1
  <2>4. PICK f : Is(f, m - 1)  BY <2>3
  <2> DEFINE g == [d \in 0..m |-> [a \in 0..Disk.blocks |->
                     IF d = 0 THEN << Fatal >> ELSE Xads(Xtpage(a), f[d - 1])]]
  <2>5. \A d \in 0..(m - 1) : f[d] = g[d]
    <3>1. \A d \in 0..(m - 1) : d \in 0..m  BY <2>3
    <3>2. \A d \in 0..(m - 1) : f[d] = [a \in 0..Disk.blocks |->
                     IF d = 0 THEN << Fatal >> ELSE Xads(Xtpage(a), f[d - 1])]
      BY <2>4
    <3> QED BY <3>1, <3>2
  <2>6. Is(g, m)
    <3>1. \A d \in 0..m : d # 0 => d - 1 \in 0..(m - 1)  BY <2>3
    <3>2. \A d \in 0..m : d # 0 => g[d - 1] = f[d - 1]  BY <2>5, <3>1
    <3>3. \A d \in 0..m : g[d] = [a \in 0..Disk.blocks |->
                     IF d = 0 THEN << Fatal >> ELSE Xads(Xtpage(a), g[d - 1])]
      BY <3>2
    <3>4. g = [d \in 0..m |-> g[d]]  OBVIOUS
    <3> HIDE DEF g
    <3> QED BY <3>3, <3>4
  <2> QED BY <2>1, <2>6
<1> QED BY <1>1

LEMMA WalkIs ==
  ASSUME NEW d \in 0..StackDepth
  PROVE  get_internal_xtpage[d] =
           [a \in 0..Disk.blocks |->
              IF d = 0 THEN << Fatal >> ELSE Xads(Xtpage(a), get_internal_xtpage[d - 1])]
<1> DEFINE gx == get_internal_xtpage
<1>1. gx = [k \in 0..StackDepth |-> [a \in 0..Disk.blocks |->
              IF k = 0 THEN << Fatal >> ELSE Xads(Xtpage(a), gx[k - 1])]]
  <2>1. StackDepth \in Nat  BY ExtentTreeAssumption
  <2>2. \E f : f = [k \in 0..StackDepth |-> [a \in 0..Disk.blocks |->
                      IF k = 0 THEN << Fatal >> ELSE Xads(Xtpage(a), f[k - 1])]]
    BY <2>1, WalkExists
  <2> QED BY <2>2, Zenon DEF get_internal_xtpage
<1> HIDE DEF gx
<1>2. gx[d] = [a \in 0..Disk.blocks |-> IF d = 0 THEN << Fatal >> ELSE Xads(Xtpage(a), gx[d - 1])]
  BY <1>1
<1> QED BY <1>2 DEF gx

LEMMA WalkOK ==
  ASSUME NEW d \in 0..StackDepth
  PROVE  get_internal_xtpage[d] \in XadsBelow
<1> DEFINE gx  == get_internal_xtpage
           Bad == {k \in 0..StackDepth : gx[k] \notin XadsBelow}
<1>1. StackDepth \in Nat  BY ExtentTreeAssumption
<1>2. Bad = {}
  <2> SUFFICES ASSUME Bad # {} PROVE FALSE  OBVIOUS
  <2>1. PICK m \in Bad : \A k \in Bad : m <= k
    <3>1. Bad \in SUBSET Nat  BY <1>1
    <3> HIDE DEF Bad
    <3> QED BY <3>1, Least
  <2>2. m \in 0..StackDepth  OBVIOUS
  <2>3. CASE m = 0
    <3>1. gx[m] = [a \in 0..Disk.blocks |-> << Fatal >>]  BY <2>2, <2>3, WalkIs
    <3>2. Fatal \in Xad  BY DEF Xad
    <3>3. << Fatal >> \in Seq(Xad)  BY <3>2
    <3>4. gx[m] \in XadsBelow  BY <3>1, <3>3 DEF XadsBelow
    <3> QED BY <2>1, <3>4
  <2>4. CASE m # 0
    <3>1. m - 1 \in 0..StackDepth /\ ~ (m <= m - 1)  BY <1>1, <2>2, <2>4
    <3>2. gx[m - 1] \in XadsBelow  BY <2>1, <3>1
    <3>3. gx[m] = [a \in 0..Disk.blocks |-> Xads(Xtpage(a), gx[m - 1])]
      BY <2>2, <2>4, WalkIs
    <3>4. \A a \in 0..Disk.blocks : Xads(Xtpage(a), gx[m - 1]) \in Seq(Xad)
      BY <3>2, XtpageOK, XadsAre
    <3>5. gx[m] \in XadsBelow  BY <3>3, <3>4 DEF XadsBelow
    <3> QED BY <2>1, <3>5
  <2> QED BY <2>3, <2>4
<1> QED BY <1>2

LEMMA ExtentsOK ==
  ASSUME NEW root \in XtpageType
  PROVE  Extents(root) \in Seq(Xad)
<1>1. StackDepth \in 0..StackDepth  BY ExtentTreeAssumption
<1> QED BY <1>1, WalkOK, XadsAre DEF Extents

----------------------------------------------------------------------------
(* Nothing but what the tree describes is found.                           *)

\* What one page adds belongs to it, if that of its children does to them.
Within(s) ==
  \A a \in 0..Disk.blocks :
    a # Disk.blocks /\ Disk.blocks \notin Reached(Xtpage(a)) /\ Fatal \notin Range(s[a])
      => Range(s[a]) \subseteq Described(Xtpage(a))

LEMMA ChildrenWithin ==
  ASSUME NEW page \in XtpageType, NEW s \in XadsBelow, Within(s),
         Disk.blocks \notin Reached(page), Fatal \notin Range(Xads(page, s))
  PROVE  Range(Xads(page, s)) \subseteq Described(page)
<1>1. CASE page.leaf
  BY <1>1, XadsAre DEF Described
<1>2. CASE ~ page.leaf
  <2>1. Range(Xads(page, s)) = UNION {Found(s, a) : a \in Children(page)}
    BY <1>2, XadsAre
  <2>2. ASSUME NEW a \in Children(page) PROVE Found(s, a) \subseteq Described(page)
    <3>1. Fatal \notin Found(s, a) /\ a \in Nat /\ a # Disk.blocks /\ Disk.blocks \in Nat
      BY <2>1, PageOK, ExtentTreeAssumption DEF Reached
    <3>2. a \in 0..Disk.blocks /\ Found(s, a) = Range(s[a])
      BY <3>1 DEF Found
    <3>3. CASE a \in Pages
      <4>1. a \in Below(page) /\ Xtpage(a) = Disk.page[a]
        BY <3>1, <3>3, BelowClosed DEF Xtpage, Pages
      <4>2. Disk.blocks \notin Reached(Xtpage(a))
        BY <4>1, BelowBelow
      <4> QED BY <3>1, <3>2, <4>1, <4>2, BelowBelow DEF Within
    <3>4. CASE a \notin Pages
      <4>1. Xtpage(a) = Empty  BY <3>1, <3>4 DEF Xtpage, Pages, Empty
      <4>2. Disk.blocks \notin Reached(Empty)  BY NothingBelow DEF Reached
      <4>3. Range(s[a]) \subseteq Described(Empty)
        BY <3>1, <3>2, <4>1, <4>2 DEF Within
      <4> QED BY <3>2, <4>3, NothingBelow
    <3> QED BY <3>3, <3>4
  <2> QED BY <2>1, <2>2
<1> QED BY <1>1, <1>2, PageOK

LEMMA WalkWithin ==
  ASSUME NEW d \in 0..StackDepth
  PROVE  Within(get_internal_xtpage[d])
<1> DEFINE gx  == get_internal_xtpage
           Bad == {k \in 0..StackDepth : ~ Within(gx[k])}
<1>1. StackDepth \in Nat  BY ExtentTreeAssumption
<1>2. Bad = {}
  <2> SUFFICES ASSUME Bad # {} PROVE FALSE  OBVIOUS
  <2>1. PICK m \in Bad : \A k \in Bad : m <= k
    <3>1. Bad \in SUBSET Nat  BY <1>1
    <3> HIDE DEF Bad
    <3> QED BY <3>1, Least
  <2>2. m \in 0..StackDepth  OBVIOUS
  <2>3. CASE m = 0
    <3>1. gx[m] = [a \in 0..Disk.blocks |-> << Fatal >>]  BY <2>2, <2>3, WalkIs
    <3>2. Fatal \in Range(<< Fatal >>)  BY DEF Range
    <3>3. Within(gx[m])  BY <3>1, <3>2 DEF Within
    <3> QED BY <2>1, <3>3
  <2>4. CASE m # 0
    <3>1. m - 1 \in 0..StackDepth /\ ~ (m <= m - 1)  BY <1>1, <2>2, <2>4
    <3>2. gx[m - 1] \in XadsBelow /\ Within(gx[m - 1])  BY <2>1, <3>1, WalkOK
    <3>3. gx[m] = [a \in 0..Disk.blocks |-> Xads(Xtpage(a), gx[m - 1])]
      BY <2>2, <2>4, WalkIs
    <3>4. Within(gx[m])
      BY <3>2, <3>3, XtpageOK, ChildrenWithin DEF Within
    <3> QED BY <2>1, <3>4
  <2> QED BY <2>3, <2>4
<1> QED BY <1>2

\* Whatever the pages of the device say, an extent that is found under a root
\* is one the tree below this root has, if the walk does not end the program
\* and reads no page right behind the device.
THEOREM NoForeignExtents ==
  ASSUME NEW root \in XtpageType,
         Disk.blocks \notin Reached(root), Fatal \notin Range(Extents(root))
  PROVE  Range(Extents(root)) \subseteq Described(root)
<1>1. StackDepth \in 0..StackDepth  BY ExtentTreeAssumption
<1> QED BY <1>1, WalkOK, WalkWithin, ChildrenWithin DEF Extents

----------------------------------------------------------------------------
(* Everything a sound tree describes is found.                             *)

LEMMA FatalIsNone == \A page \in XtpageType : Fatal \notin Range(page.xad)
<1>1. Fatal \notin XadType
  <2>1. Fatal.off = -1 /\ -1 \notin Nat  BY DEF Fatal
  <2> QED BY <2>1 DEF XadType
<1> QED BY <1>1, PageOK DEF Range

\* What a page is in whose children are right, up to a height.
LEMMA ChildrenFound ==
  ASSUME NEW page \in XtpageType, NEW s \in XadsBelow, Children(page) \subseteq Pages,
         \A a \in Children(page) : Range(s[a]) = Described(Disk.page[a])
  PROVE  Range(Xads(page, s)) = Described(page)
<1>1. CASE page.leaf
  <2>1. Children(page) = {}  BY <1>1 DEF Children
  <2>2. Below(page) = {}
    <3>1. {} \in SUBSET Pages  OBVIOUS
    <3> QED BY <2>1, <3>1, BelowLeast
  <2>3. Described(page) = Range(page.xad)  BY <1>1, <2>2 DEF Described
  <2> QED BY <1>1, <2>3, XadsAre
<1>2. CASE ~ page.leaf
  <2>1. Range(Xads(page, s)) = UNION {Found(s, a) : a \in Children(page)}
    BY <1>2, XadsAre
  <2>2. \A a \in Pages : ~ (a > Disk.blocks)
    BY ExtentTreeAssumption DEF Pages
  <2>3. \A a \in Children(page) : Found(s, a) = Described(Disk.page[a])
    BY <2>2 DEF Found
  <2>4. Described(page) = UNION {Described(Disk.page[b]) : b \in Children(page)}
    BY <1>2, DescribedByChildren
  <2> QED BY <2>1, <2>3, <2>4
<1> QED BY <1>1, <1>2, PageOK

LEMMA WalkFinds ==
  ASSUME NEW root \in XtpageType, Reached(root) \subseteq Pages,
         NEW height \in [Below(root) -> 0..(StackDepth - 1)], Fits(root, height),
         NEW d \in 0..StackDepth
  PROVE  \A a \in Below(root) :
           height[a] < d => Range(get_internal_xtpage[d][a]) = Described(Disk.page[a])
<1> DEFINE gx    == get_internal_xtpage
           OK(k) == \A a \in Below(root) :
                      height[a] < k => Range(gx[k][a]) = Described(Disk.page[a])
           Bad   == {k \in 0..StackDepth : ~ OK(k)}
<1>1. StackDepth \in Nat  BY ExtentTreeAssumption
<1>2. Bad = {}
  <2> SUFFICES ASSUME Bad # {} PROVE FALSE  OBVIOUS
  <2>1. PICK m \in Bad : \A k \in Bad : m <= k
    <3>1. Bad \in SUBSET Nat  BY <1>1
    <3> HIDE DEF Bad
    <3> QED BY <3>1, Least
  <2>2. m \in 0..StackDepth  OBVIOUS
  <2>3. CASE m = 0
    <3>1. \A a \in Below(root) : ~ (height[a] < 0)  BY <1>1
    <3> QED BY <2>1, <2>3, <3>1
  <2>4. CASE m # 0
    <3>1. m - 1 \in 0..StackDepth /\ ~ (m <= m - 1)  BY <1>1, <2>2, <2>4
    <3>2. gx[m - 1] \in XadsBelow /\ OK(m - 1)  BY <2>1, <3>1, WalkOK
    <3>3. gx[m] = [a \in 0..Disk.blocks |-> Xads(Xtpage(a), gx[m - 1])]
      BY <2>2, <2>4, WalkIs
    <3>4. ASSUME NEW a \in Below(root), height[a] < m
          PROVE  Range(gx[m][a]) = Described(Disk.page[a])
      <4>1. a \in Pages /\ a \in 0..Disk.blocks /\ a # Disk.blocks
        BY BelowClosed, ExtentTreeAssumption DEF Pages
      <4>2. Xtpage(a) = Disk.page[a] /\ Disk.page[a] \in XtpageType
        BY <4>1, XtpageOK DEF Xtpage, Pages
      <4>3. Children(Disk.page[a]) \subseteq Below(root)
        BY BelowClosed DEF Reached
      <4>4. \A b \in Children(Disk.page[a]) : height[b] < m - 1
        <5> TAKE b \in Children(Disk.page[a])
        <5>1. height[b] < height[a]  BY DEF Fits
        <5>2. height[b] \in Nat /\ height[a] \in Nat  BY <1>1, <4>3
        <5> QED BY <2>2, <3>4, <5>1, <5>2
      <4>5. \A b \in Children(Disk.page[a]) : Range(gx[m - 1][b]) = Described(Disk.page[b])
        BY <3>2, <4>3, <4>4
      <4>6. Children(Disk.page[a]) \subseteq Pages  BY <4>3, BelowClosed
      <4>7. Range(Xads(Disk.page[a], gx[m - 1])) = Described(Disk.page[a])
        BY <3>2, <4>2, <4>5, <4>6, ChildrenFound
      <4> QED BY <3>3, <4>1, <4>2, <4>7
    <3> QED BY <2>1, <3>4
  <2> QED BY <2>3, <2>4
<1> QED BY <1>2

\* get_internal_xtpage finds every extent of a sound tree, however many pages
\* it has and in whatever order they lie on the device.
THEOREM EveryExtentIsFound ==
  ASSUME NEW root \in XtpageType, Sound(root)
  PROVE  Range(Extents(root)) = Described(root) /\ Fatal \notin Range(Extents(root))
<1>1. PICK height \in [Below(root) -> 0..(StackDepth - 1)] : Fits(root, height)
  BY DEF Sound
<1>2. Reached(root) \subseteq Pages /\ Children(root) \subseteq Pages
  BY DEF Sound, Reached
<1>3. StackDepth \in 0..StackDepth /\ StackDepth \in Nat  BY ExtentTreeAssumption
<1>4. \A a \in Children(root) : a \in Below(root) /\ height[a] < StackDepth
  BY <1>2, <1>3, BelowClosed
<1>5. \A a \in Children(root) :
        Range(get_internal_xtpage[StackDepth][a]) = Described(Disk.page[a])
  BY <1>1, <1>2, <1>3, <1>4, WalkFinds
<1>6. Range(Extents(root)) = Described(root)
  BY <1>2, <1>3, <1>5, WalkOK, ChildrenFound DEF Extents
<1>7. Fatal \notin Described(root)
  <2>1. \A a \in Below(root) : Disk.page[a] \in XtpageType
    BY BelowClosed, ExtentTreeAssumption DEF Pages
  <2> QED BY <2>1, FatalIsNone DEF Described
<1> QED BY <1>6, <1>7
=============================================================================
