--------------------------- MODULE DirWalk_proofs ---------------------------
(***************************************************************************)
(* Proofs about DirWalk and Unicode, for every directory and all damage:   *)
(* get_direntry stays inside the buffer it makes for a name, whatever the  *)
(* slots say; a unit can be read back from its bytes; what is listed has   *)
(* its type; only circles and long chains of pages take the stack; what is *)
(* listed was written, and once; and damage to a page costs the entries    *)
(* from there on, no others.                                               *)
(***************************************************************************)
EXTENDS DirWalk, SequenceLemmas, SequenceTheorems

----------------------------------------------------------------------------
(* get_direntry                                                            *)

\* The loop keeps `len' as the part of namlen that is copied but not taken
\* off yet, so what is left bounds the next piece.
PieceFits == /\ entry.first.namlen \in Nat /\ entry.rest \in Nat
             /\ entry.len \in 0..entry.rest
             /\ entry.n \in Nat
NameInv   == at = "name" => PieceFits /\ InsideTheBuffer

\* A piece that ends inside an interval adds nothing to it.
LEMMA PieceInside ==
  ASSUME NEW N \in Nat, NEW n \in Nat, NEW len \in Nat, n + len <= N
  PROVE  1..N \cup (n + 1)..(n + len) = 1..N
OBVIOUS

LEMMA LesserBounds ==
  ASSUME NEW a \in Nat, NEW b \in Nat
  PROVE  Lesser(a, b) \in 0..a
BY DEF Lesser

\* The slots that are read have a namlen, those outside of a page too.
PagesOK == /\ page \in PageType
           /\ dir \in Directories

LEMMA EntryIsTyped ==
  ASSUME DirWalkAssumption, NEW p \in PageType, NEW k \in Nat
  PROVE  Entry(p, k) \subseteq SlotType
BY DEF Entry, Slot, PageType, DirWalkAssumption, Range

LEMMA ReadPageType ==
  ASSUME DirWalkAssumption, dir \in Directories,
         NEW a \in 1..dir.blocks, NEW old \in SUBSET PageType
  PROVE  ReadPage(a, old) \subseteq PageType
BY DEF ReadPage, DirWalkAssumption

LEMMA BlankType == Blank \in PageType
<1>1. << 0 >> \in Seq(Int) /\ << >> \in Seq(SlotType)  OBVIOUS
<1> QED BY <1>1 DEF Blank, PageType

\* The program counter is at a page of the right type, on a path through the
\* device.
WalkInv == PagesOK /\ i \in Nat /\ NameInv

LEMMA WalkInit == DirWalkAssumption /\ Init => WalkInv
BY BlankType DEF Init, WalkInv, PagesOK, NameInv

LEMMA ReadInodeInv == DirWalkAssumption /\ WalkInv /\ ReadInode => WalkInv'
BY DEF WalkInv, PagesOK, NameInv, ReadInode, DirWalkAssumption

LEMMA DescendInv == DirWalkAssumption /\ WalkInv /\ Descend => WalkInv'
<1> SUFFICES ASSUME DirWalkAssumption, WalkInv, Descend PROVE WalkInv'
  OBVIOUS
<1> PICK pxd \in Entry(page, 1) :
       IF depth = StackDepth THEN Overflow
       ELSE IF ~ Sane(pxd) THEN GiveUp
       ELSE /\ page' \in ReadPage(pxd.addr, Range(dir.page) \cup {Blank} \cup Foreign)
            /\ at' = IF page'.leaf THEN "leaf" ELSE "descend"
            /\ depth' = depth + 1
            /\ UNCHANGED << dir, i, entry, vin >>
  BY DEF Descend
<1>1. CASE Overflow \/ GiveUp
  BY <1>1 DEF Overflow, GiveUp, WalkInv, PagesOK, NameInv
<1>2. CASE /\ Sane(pxd)
           /\ page' \in ReadPage(pxd.addr, Range(dir.page) \cup {Blank} \cup Foreign)
           /\ at' = IF page'.leaf THEN "leaf" ELSE "descend"
           /\ UNCHANGED << dir, i, entry, vin >>
  <2>1. pxd \in SlotType
    BY EntryIsTyped DEF WalkInv, PagesOK
  <2>2. pxd.addr \in 1..dir.blocks
    BY <1>2, <2>1 DEF Sane, SlotType, WalkInv, PagesOK, DirWalkAssumption
  <2>3. Range(dir.page) \cup {Blank} \cup Foreign \subseteq PageType
    BY BlankType DEF WalkInv, PagesOK, DirWalkAssumption, Range
  <2>4. page' \in PageType
    BY <1>2, <2>2, <2>3, ReadPageType DEF WalkInv, PagesOK
  <2> QED
    BY <1>2, <2>4 DEF WalkInv, PagesOK, NameInv
<1> QED BY <1>1, <1>2

LEMMA StartEntryInv == DirWalkAssumption /\ WalkInv /\ StartEntry => WalkInv'
<1> SUFFICES ASSUME DirWalkAssumption, WalkInv, StartEntry PROVE WalkInv'
  OBVIOUS
<1> PICK slot \in Entry(page, i + 1), g \in Heap : entry' = FirstSlot(slot, g)
  BY DEF StartEntry
<1> DEFINE len == Lesser(slot.namlen, DTLHDRDATALEN)
<1>1. slot \in SlotType
  BY EntryIsTyped DEF WalkInv, PagesOK
<1>2. slot.namlen \in Nat /\ len \in 0..slot.namlen
  BY <1>1, LesserBounds DEF SlotType, DirWalkAssumption
<1>3. DOMAIN UniStrncpy([k \in 1..slot.namlen |-> g], 0, slot.name, len) = 1..slot.namlen
  <2>1. DOMAIN UniStrncpy([k \in 1..slot.namlen |-> g], 0, slot.name, len)
          = 1..slot.namlen \cup (0 + 1)..(0 + len)
    BY DEF UniStrncpy
  <2> HIDE DEF len
  <2>2. 0 + len <= slot.namlen /\ len \in Nat
    BY <1>2
  <2> QED BY <2>1, <2>2, <1>2, PieceInside
<1>4. PieceFits' /\ InsideTheBuffer'
  <2>1. /\ entry'.first.namlen = slot.namlen /\ entry'.rest = slot.namlen
        /\ entry'.len = len /\ entry'.n = len
        /\ entry'.name = UniStrncpy([k \in 1..slot.namlen |-> g], 0, slot.name, len)
    BY DEF FirstSlot
  <2> QED BY <2>1, <1>2, <1>3 DEF PieceFits, InsideTheBuffer
<1> QED BY <1>4 DEF StartEntry, WalkInv, PagesOK, NameInv

LEMMA NextSlotInv == DirWalkAssumption /\ WalkInv /\ NextSlot => WalkInv'
<1> SUFFICES ASSUME DirWalkAssumption, WalkInv, NextSlot PROVE WalkInv'
  OBVIOUS
<1> DEFINE rest == entry.rest - entry.len
           len  == Piece(rest)
<1>1. PICK slot \in Slot(page, entry.next) :
        /\ entry'.first = entry.first /\ entry'.n = entry.n + len
        /\ entry'.rest = rest /\ entry'.len = len
        /\ entry'.name = UniStrncpy(entry.name, entry.n, slot.name, len)
  BY DEF NextSlot
<1>2. PieceFits /\ InsideTheBuffer /\ at = "name"
  BY DEF NextSlot, WalkInv, NameInv
<1>3. rest \in Nat /\ len \in 0..rest
  <2>1. rest \in Nat
    BY <1>2 DEF PieceFits
  <2> QED BY <2>1, LesserBounds DEF Piece, DirWalkAssumption
<1>4. DOMAIN entry'.name = DOMAIN entry.name \cup (entry.n + 1)..(entry.n + len)
  BY <1>1 DEF UniStrncpy
<1> HIDE DEF rest, len
<1>5. rest = entry.rest - entry.len
  BY DEF rest
<1>6. DOMAIN entry'.name = 1..entry.first.namlen
  BY <1>5, <1>2, <1>3, <1>4, SMTT(30) DEF PieceFits, InsideTheBuffer
<1>7. PieceFits'
  BY <1>1, <1>2, <1>3 DEF PieceFits
<1>8. InsideTheBuffer'
  <2>1. /\ entry.n + entry.rest = entry.first.namlen + entry.len
        /\ entry.n \in Nat /\ entry.rest \in Nat /\ entry.len \in Nat /\ len \in Nat
        /\ entry.first.namlen \in Nat
    BY <1>2, <1>3 DEF PieceFits, InsideTheBuffer
  <2>2. entry.n + rest = entry.first.namlen
    BY <2>1, <1>5
  <2>3. (entry.n + len) + rest = entry.first.namlen + len
    BY <2>1, <2>2, <1>3
  <2>4. entry'.n + entry'.rest = entry'.first.namlen + entry'.len
    BY <1>1, <2>3
  <2>5. DOMAIN entry'.name = 1..entry'.first.namlen
    BY <1>1, <1>6
  <2> QED BY <2>4, <2>5 DEF InsideTheBuffer
<1> QED BY <1>7, <1>8 DEF NextSlot, WalkInv, PagesOK, NameInv

LEMMA NextLeafInv == DirWalkAssumption /\ WalkInv /\ NextLeaf => WalkInv'
<1> SUFFICES ASSUME DirWalkAssumption, WalkInv, NextLeaf PROVE WalkInv'
  OBVIOUS
<1>1. CASE GiveUp \/ Overflow
  BY <1>1 DEF Overflow, GiveUp, WalkInv, PagesOK, NameInv
<1>2. CASE ~ (GiveUp \/ Overflow)
  <2>1. /\ page.next # 0 /\ ~ Refused(page.next)
        /\ page' \in ReadPage(page.next, {page}) /\ i' = 0
        /\ UNCHANGED << dir, at, entry >> /\ at = "leaf"
    BY <1>2 DEF NextLeaf
  <2>2. page.next \in 1..dir.blocks
    BY <2>1 DEF Refused, PageType, WalkInv, PagesOK, DirWalkAssumption
  <2>3. page' \in PageType
    BY <2>1, <2>2, ReadPageType DEF WalkInv, PagesOK
  <2> QED BY <2>1, <2>3 DEF WalkInv, PagesOK, NameInv
<1> QED BY <1>1, <1>2

LEMMA WalkStep == DirWalkAssumption /\ WalkInv /\ [Next]_vars => WalkInv'
<1> SUFFICES ASSUME DirWalkAssumption, WalkInv, [Next]_vars PROVE WalkInv'
  OBVIOUS
<1>1. CASE EndEntry
  BY <1>1 DEF EndEntry, WalkInv, PagesOK, NameInv
<1>2. CASE RefuseLeaf
  BY <1>2 DEF RefuseLeaf, GiveUp, WalkInv, PagesOK, NameInv
<1>3. CASE UNCHANGED vars
  BY <1>3 DEF vars, WalkInv, PagesOK, NameInv, PieceFits, InsideTheBuffer
<1> QED
  BY <1>1, <1>2, <1>3, ReadInodeInv, DescendInv, StartEntryInv, NextSlotInv, NextLeafInv
  DEF Next

\* InsideTheBuffer, for every directory, every content of its slots, and
\* every number of units in a slot: get_direntry never copies a unit behind
\* the namlen + 1 it allocated.
THEOREM NamesStayInside == Spec => []InsideTheBuffer
<1>1. WalkInv => InsideTheBuffer
  BY DEF WalkInv, NameInv, InsideTheBuffer
<1> QED BY <1>1, WalkInit, WalkStep, DirWalkAssumption, PTL DEF Spec

----------------------------------------------------------------------------
(* Unicode                                                                 *)

LEMMA UnitsAre ==
  ASSUME NEW u \in Units
  PROVE  u \in Nat /\ u <= 65535
BY SMTT(30) DEF Units

LEMMA Rows ==
  ASSUME NEW u \in Units
  PROVE  Row(u) = IF u <= 127 THEN 1 ELSE IF u <= 2047 THEN 2 ELSE 3
<1> DEFINE Fits(r) == u <= utf8_table[r].lmask /\ \A s \in 1..(r - 1) : u > utf8_table[s].lmask
           row     == IF u <= 127 THEN 1 ELSE IF u <= 2047 THEN 2 ELSE 3
<1>1. DOMAIN utf8_table = 1..3
  BY DEF utf8_table
<1>2. utf8_table[1].lmask = 127 /\ utf8_table[2].lmask = 2047 /\ utf8_table[3].lmask = 65535
  BY DEF utf8_table
<1>3. u \in Int /\ u <= 65535
  BY UnitsAre
<1>4. row \in 1..3 /\ Fits(row)
  BY <1>2, <1>3
<1>5. \A r \in 1..3 : Fits(r) => r = row
  BY <1>2, <1>3
<1>6. Row(u) = CHOOSE r \in 1..3 : Fits(r)
  BY <1>1 DEF Row
<1> HIDE DEF Fits, row
<1>7. Row(u) = row
  BY <1>4, <1>5, <1>6
<1> QED BY <1>7 DEF row

\* The name of every file can be told from its path: a unit is converted to
\* bytes a strict reader takes for that unit, and for no other
\* (Unicode_Character_to_UTF8_Character and utf8_table).
THEOREM UnitsSurvive ==
  ASSUME NEW u \in Units
  PROVE  ReadUnit(Unicode_Character_to_UTF8_Character(u)) = u
<1> DEFINE b == Unicode_Character_to_UTF8_Character(u)
<1>0. PICK v : v = ReadUnit(b)  OBVIOUS
<1>1. /\ utf8_table[1].cval = 0   /\ utf8_table[1].weight = 1
      /\ utf8_table[2].cval = 192 /\ utf8_table[2].weight = 64
      /\ utf8_table[3].cval = 224 /\ utf8_table[3].weight = 4096
  BY DEF utf8_table
<1>2. b \in Seq(Int)
  <2>1. \A r \in 1..3, k \in 1..3 :
          utf8_table[r].cval \in Int /\ (u \div utf8_table[r].weight) \in Int
    BY <1>1, UnitsAre
  <2>2. Row(u) \in 1..3
    BY Rows
  <2>3. b \in [1..Row(u) -> Int]
    BY <2>1, <2>2 DEF Unicode_Character_to_UTF8_Character
  <2> QED BY <2>2, <2>3
<1>3. u \in Nat /\ u <= 65535
  BY UnitsAre
<1>4. ASSUME u <= 127 PROVE v = u
  <2>1. Row(u) = 1
    BY <1>4, Rows
  <2>2. b[1] = 0 + (u \div 1)
    BY <1>1, <2>1 DEF Unicode_Character_to_UTF8_Character
  <2>3. b[1] = u
    BY <1>3, <2>2
  <2> HIDE DEF b
  <2>4. ReadUnit(b) = u
    BY <1>3, <1>4, <2>3 DEF ReadUnit
  <2> QED BY <1>0, <2>4 DEF b
<1>5. ASSUME u > 127 /\ u <= 2047 PROVE v = u
  <2>1. Row(u) = 2
    BY <1>3, <1>5, Rows
  <2>2. b[1] = 192 + (u \div 64) /\ b[2] = 128 + ((u \div 1) % 64) /\ DOMAIN b = 1..2
    BY <1>1, <2>1 DEF Unicode_Character_to_UTF8_Character
  <2>3. Len(b) = 2
    BY <1>2, <2>2, LenProperties
  <2> HIDE DEF b
  <2>4. u \div 64 \in 2..31 /\ u \div 1 = u /\ u % 64 \in 0..63
    BY <1>3, <1>5
  <2>5. u = 64 * (u \div 64) + (u % 64)
    BY <1>3
  <2>6. ReadUnit(b) = u
    BY <1>3, <2>2, <2>3, <2>4, <2>5 DEF ReadUnit
  <2> QED BY <1>0, <2>6 DEF b
<1>6. ASSUME u > 2047 PROVE v = u
  <2>1. u \in Nat /\ u > 2047 /\ u <= 65535
    BY <1>3, <1>6
  <2>2. Row(u) = 3
    BY <2>1, Rows
  <2>3. /\ b[1] = 224 + (u \div 4096) /\ b[2] = 128 + ((u \div 64) % 64)
        /\ b[3] = 128 + ((u \div 1) % 64) /\ DOMAIN b = 1..3
    BY <1>1, <2>2 DEF Unicode_Character_to_UTF8_Character
  <2>4. Len(b) = 3
    BY <1>2, <2>3, LenProperties
  <2> HIDE DEF b
  <2>5. /\ u \div 4096 \in 0..15 /\ u \div 64 \in Nat /\ u \div 1 = u
        /\ u % 64 \in 0..63 /\ (u \div 64) % 64 \in 0..63
    <3>1. u \div 4096 \in 0..15
      BY <2>1
    <3>2. u \div 64 \in Nat /\ u \div 1 = u
      BY <2>1
    <3>3. u % 64 \in 0..63
      BY <2>1
    <3>4. (u \div 64) % 64 \in 0..63
      BY <3>2
    <3> QED BY <3>1, <3>2, <3>3, <3>4
  <2>6. u = 64 * (u \div 64) + (u % 64)
    BY <1>3
  <2>7. u \div 64 = 64 * ((u \div 64) \div 64) + ((u \div 64) % 64)
    BY <1>3
  <2>8. (u \div 64) \div 64 = u \div 4096
    BY <1>3
  <2>9. u = 4096 * (u \div 4096) + 64 * ((u \div 64) % 64) + (u % 64)
    BY <1>3, <2>5, <2>6, <2>7, <2>8
  <2>10. ReadUnit(b) = u
    <3>1. PICK x, y, z : x = u \div 4096 /\ y = (u \div 64) % 64 /\ z = u % 64
      OBVIOUS
    <3>2. x \in 0..15 /\ y \in 0..63 /\ z \in 0..63  BY <2>5, <3>1
    <3>3. u = 4096 * x + 64 * y + z  BY <2>9, <3>1
    <3>4. b[1] = 224 + x /\ b[2] = 128 + y /\ b[3] = 128 + z  BY <2>3, <2>5, <3>1
    <3>5. (b[1] - 224) * 4096 + (b[2] - 128) * 64 + (b[3] - 128) = u  BY <3>2, <3>3, <3>4
    <3>6. ~ (b[1] < 128) /\ b[1] \notin 194..223 /\ b[1] \in 224..239  BY <3>2, <3>4
    <3> QED BY <2>1, <2>4, <3>5, <3>6 DEF ReadUnit
  <2> QED BY <1>0, <2>10 DEF b
<1>7. u <= 127 \/ (u > 127 /\ u <= 2047) \/ u > 2047  BY <1>3
<1>8. v = u  BY <1>4, <1>5, <1>6, <1>7
<1> QED BY <1>0, <1>8

\* The bytes of a unit are bytes.
LEMMA CharacterType ==
  ASSUME NEW u \in Units
  PROVE  Unicode_Character_to_UTF8_Character(u) \in Seq(Bytes)
<1> DEFINE b == Unicode_Character_to_UTF8_Character(u)
<1>1. /\ utf8_table[1].cval = 0   /\ utf8_table[1].weight = 1
      /\ utf8_table[2].cval = 192 /\ utf8_table[2].weight = 64
      /\ utf8_table[3].cval = 224 /\ utf8_table[3].weight = 4096
  BY DEF utf8_table
<1>2. u \in Nat /\ u <= 65535
  BY UnitsAre
<1>3. Row(u) \in 1..3 /\ (Row(u) = 1 => u <= 127) /\ (Row(u) = 2 => u <= 2047)
  BY <1>2, Rows
<1>4. \A x \in Nat : 128 + (x % 64) \in 0..255
  OBVIOUS
<1>5. \A r \in 1..3 : (u \div utf8_table[r].weight) \in Nat
  BY <1>1, <1>2
<1>6. utf8_table[Row(u)].cval + (u \div utf8_table[Row(u)].weight) \in 0..255
  <2>1. CASE Row(u) = 1
    <3>1. 0 + (u \div 1) \in 0..255  BY <1>2, <1>3, <2>1
    <3> QED BY <1>1, <2>1, <3>1
  <2>2. CASE Row(u) = 2
    <3>1. 192 + (u \div 64) \in 0..255  BY <1>2, <1>3, <2>2
    <3> QED BY <1>1, <2>2, <3>1
  <2>3. CASE Row(u) = 3
    <3>1. 224 + (u \div 4096) \in 0..255  BY <1>2
    <3> QED BY <1>1, <2>3, <3>1
  <2>4. Row(u) = 1 \/ Row(u) = 2 \/ Row(u) = 3  BY <1>3
  <2> QED BY <2>1, <2>2, <2>3, <2>4, Zenon
<1>7. \A k \in 1..Row(u) :
        k # 1 => 128 + ((u \div utf8_table[Row(u) - k + 1].weight) % 64) \in 0..255
  <2> SUFFICES ASSUME NEW k \in 1..Row(u), k # 1
               PROVE  128 + ((u \div utf8_table[Row(u) - k + 1].weight) % 64) \in 0..255
    OBVIOUS
  <2>1. Row(u) - k + 1 \in 1..3  BY <1>3
  <2> QED BY <1>4, <1>5, <2>1
<1>8. b \in [1..Row(u) -> Bytes]
  BY <1>6, <1>7 DEF Unicode_Character_to_UTF8_Character, Bytes
<1> QED BY <1>3, <1>8

\* A name ends at its first 0, or where it ends.
LEMMA UpToNulType ==
  ASSUME NEW us \in Seq(Units)
  PROVE  UpToNul(us) \in Seq(Units)
<1> DEFINE Ends(n) == (\A k \in 1..n : us[k] # 0) /\ (n < Len(us) => us[n + 1] = 0)
           Nul == {k \in 1..Len(us) : us[k] = 0}
<1>1. Len(us) \in Nat  OBVIOUS
<1>2. \E n \in 0..Len(us) : Ends(n)
  <2>1. CASE Nul = {}
    <3>1. Ends(Len(us))  BY <1>1, <2>1
    <3> QED BY <1>1, <3>1
  <2>2. CASE Nul # {}
    <3>1. PICK m \in Nul : \A k \in Nul : m <= k
      <4>1. Nul \in SUBSET Nat  BY <1>1
      <4> HIDE DEF Nul
      <4> QED BY <2>2, <4>1, Least
    <3>2. m \in 1..Len(us) /\ us[m] = 0 /\ m - 1 \in 0..Len(us) /\ (m - 1) + 1 = m
      BY <1>1
    <3>3. \A k \in 1..(m - 1) : k \in 1..Len(us) /\ ~ (m <= k)
      BY <1>1, <3>2
    <3>4. Ends(m - 1)  BY <3>1, <3>2, <3>3
    <3> QED BY <3>2, <3>4
  <2> QED BY <2>1, <2>2
<1> DEFINE n == CHOOSE n \in 0..Len(us) : Ends(n)
<1>3. n \in 0..Len(us)
  <2> HIDE DEF Ends
  <2> QED BY <1>2
<1>4. UpToNul(us) = SubSeq(us, 1, n)
  BY DEF UpToNul
<1> HIDE DEF n
<1> QED BY <1>3, <1>4

LEMMA NameType ==
  ASSUME NEW us \in Seq(Units)
  PROVE  Unicode_String_to_UTF8_std_string(us) \in Seq(Bytes)
<1> DEFINE name  == UpToNul(us)
           bytes == [k \in DOMAIN name |-> Unicode_Character_to_UTF8_Character(name[k])]
<1>1. name \in Seq(Units)
  BY UpToNulType
<1> HIDE DEF name
<1>2. DOMAIN name = 1..Len(name) /\ Len(name) \in Nat /\ \A k \in DOMAIN name : name[k] \in Units
  BY <1>1
<1>3. \A k \in DOMAIN name : Unicode_Character_to_UTF8_Character(name[k]) \in Seq(Bytes)
  BY <1>2, CharacterType
<1>4. bytes \in Seq(Seq(Bytes))
  BY <1>2, <1>3
<1>5. Unicode_String_to_UTF8_std_string(us) = FlattenSeq(bytes)
  BY DEF Unicode_String_to_UTF8_std_string, name
<1> HIDE DEF bytes
<1> QED BY <1>4, <1>5, FlattenRange

----------------------------------------------------------------------------
(* Whole names                                                             *)

\* The first byte of a unit is none that continues one, all others are.
LEMMA UnitForm ==
  ASSUME NEW u \in Units
  PROVE  LET b == Unicode_Character_to_UTF8_Character(u) IN
         /\ Len(b) \in 1..3 /\ ~ Continues(b[1])
         /\ \A k \in 2..Len(b) : Continues(b[k])
<1> DEFINE b == Unicode_Character_to_UTF8_Character(u)
<1>1. /\ utf8_table[1].cval = 0   /\ utf8_table[1].weight = 1
      /\ utf8_table[2].cval = 192 /\ utf8_table[2].weight = 64
      /\ utf8_table[3].cval = 224 /\ utf8_table[3].weight = 4096
  BY DEF utf8_table
<1>2. u \in Nat /\ u <= 65535
  BY UnitsAre
<1>3. Row(u) \in 1..3 /\ (Row(u) = 1 => u <= 127)
  BY <1>2, Rows
<1>4. b \in Seq(Bytes) /\ DOMAIN b = 1..Row(u)
  BY CharacterType DEF Unicode_Character_to_UTF8_Character
<1>5. Len(b) = Row(u)
  BY <1>3, <1>4, LenProperties
<1>6. ~ Continues(b[1])
  <2>1. b[1] = utf8_table[Row(u)].cval + (u \div utf8_table[Row(u)].weight)
    BY <1>3 DEF Unicode_Character_to_UTF8_Character
  <2>2. CASE Row(u) = 1
    <3>1. 0 + (u \div 1) \in 0..127  BY <1>2, <1>3, <2>2
    <3>2. b[1] \in 0..127  BY <1>1, <2>1, <2>2, <3>1
    <3> HIDE DEF b
    <3> QED BY <3>2 DEF Continues
  <2>3. CASE Row(u) = 2
    <3>1. u \div 64 \in Nat  BY <1>2
    <3>2. b[1] = 192 + (u \div 64)  BY <1>1, <2>1, <2>3
    <3> HIDE DEF b
    <3> QED BY <3>1, <3>2 DEF Continues
  <2>4. CASE Row(u) = 3
    <3>1. u \div 4096 \in Nat  BY <1>2
    <3>2. b[1] = 224 + (u \div 4096)  BY <1>1, <2>1, <2>4
    <3> HIDE DEF b
    <3> QED BY <3>1, <3>2 DEF Continues
  <2> QED BY <1>3, <2>2, <2>3, <2>4
<1>7. ASSUME NEW k \in 2..Row(u)
      PROVE  Continues(b[k])
  <2>1. k \in 1..Row(u) /\ k # 1 /\ Row(u) - k + 1 \in 1..3
    BY <1>3
  <2>2. b[k] = 128 + ((u \div utf8_table[Row(u) - k + 1].weight) % 64)
    BY <2>1 DEF Unicode_Character_to_UTF8_Character
  <2>3. (u \div utf8_table[Row(u) - k + 1].weight) \in Nat
    BY <1>1, <1>2, <2>1
  <2>4. \A x \in Nat : 128 + (x % 64) \in 128..191
    OBVIOUS
  <2> HIDE DEF b
  <2> QED BY <2>2, <2>3, <2>4 DEF Continues
<1> HIDE DEF b
<1>8. /\ Len(b) \in 1..3 /\ ~ Continues(b[1])
      /\ \A k \in 2..Len(b) : Continues(b[k])
  BY <1>3, <1>5, <1>6, <1>7
<1> QED BY <1>8 DEF b

IsRead(f, b, N) ==
  f = [k \in 0..N |->
         IF k = 0 THEN << >>
         ELSE IF Continues(b[k]) THEN f[k - 1]
         ELSE Append(f[k - 1], ReadUnit(SubSeq(b, k, EndOfUnit(b, k))))]

LEMMA ReadExists ==
  ASSUME NEW b, NEW N \in Nat
  PROVE  \E f : IsRead(f, b, N)
<1> DEFINE Bad == {m \in Nat : ~ \E f : IsRead(f, b, m)}
           Unit(k) == ReadUnit(SubSeq(b, k, EndOfUnit(b, k)))
<1>1. Bad = {}
  <2> SUFFICES ASSUME Bad # {} PROVE FALSE  OBVIOUS
  <2>1. PICK m \in Bad : \A k \in Bad : m <= k
    <3>1. Bad \in SUBSET Nat  OBVIOUS
    <3> HIDE DEF Bad
    <3> QED BY <3>1, Least
  <2>2. m # 0
    <3>1. PICK f : f = [k \in 0..0 |-> << >>]  OBVIOUS
    <3>2. \A k \in 0..0 : k = 0  OBVIOUS
    <3>3. IsRead(f, b, 0)  BY <3>1, <3>2 DEF IsRead
    <3> QED BY <2>1, <3>3
  <2>3. m \in Nat /\ m - 1 \in Nat /\ m - 1 \notin Bad
    <3>1. m \in Nat  OBVIOUS
    <3> HIDE DEF Bad
    <3> QED BY <2>1, <2>2, <3>1
  <2>4. PICK f : IsRead(f, b, m - 1)  BY <2>3
  <2> DEFINE Step(g, k) == IF k = 0 THEN << >>
                           ELSE IF Continues(b[k]) THEN g[k - 1]
                           ELSE Append(g[k - 1], Unit(k))
             g == [k \in 0..m |-> Step(f, k)]
  <2>5. f = [k \in 0..(m - 1) |-> Step(f, k)]  BY <2>4 DEF IsRead
  <2> HIDE DEF Unit
  <2>6. \A k \in 0..(m - 1) : f[k] = g[k]
    <3>1. \A k \in 0..(m - 1) : k \in 0..m  BY <2>3
    <3>2. \A k \in 0..(m - 1) : f[k] = Step(f, k)  BY <2>5
    <3> HIDE DEF Step
    <3> QED BY <3>1, <3>2
  <2>7. \A k \in 0..m : Step(f, k) = Step(g, k)
    <3>1. \A k \in 0..m : k # 0 => k - 1 \in 0..(m - 1)  BY <2>3
    <3>2. \A k \in 0..m : k # 0 => g[k - 1] = f[k - 1]  BY <2>6, <3>1
    <3> HIDE DEF g
    <3> QED BY <3>2
  <2>8. g = [k \in 0..m |-> Step(g, k)]
    <3>1. \A k \in 0..m : g[k] = Step(g, k)
      <4>1. \A k \in 0..m : g[k] = Step(f, k)  OBVIOUS
      <4> HIDE DEF g, Step
      <4> QED BY <2>7, <4>1
    <3>2. g = [k \in 0..m |-> g[k]]  OBVIOUS
    <3> HIDE DEF g, Step
    <3> QED BY <3>1, <3>2
  <2>9. IsRead(g, b, m)
    <3> HIDE DEF g
    <3> QED BY <2>8 DEF IsRead, Unit
  <2> QED BY <2>1, <2>9
<1> QED BY <1>1

LEMMA PartOf ==
  ASSUME NEW b \in Seq(Bytes), NEW p \in 1..Len(b), NEW q \in p..Len(b)
  PROVE  /\ SubSeq(b, p, q) \in Seq(Bytes) /\ Len(SubSeq(b, p, q)) = q - p + 1
         /\ \A k \in 1..(q - p + 1) : SubSeq(b, p, q)[k] = b[p + k - 1]
OBVIOUS

\* A unit ends where the next begins.
LEMMA EndIs ==
  ASSUME NEW b \in Seq(Bytes), NEW p \in 1..Len(b), NEW q \in p..Len(b),
         \A j \in (p + 1)..q : Continues(b[j]),
         q < Len(b) => ~ Continues(b[q + 1])
  PROVE  EndOfUnit(b, p) = q
<1> DEFINE Ends(e) == /\ \A j \in (p + 1)..e : Continues(b[j])
                      /\ e < Len(b) => ~ Continues(b[e + 1])
<1>1. Len(b) \in Nat  OBVIOUS
<1>2. Ends(q)  OBVIOUS
<1>3. ASSUME NEW e \in p..Len(b), Ends(e)
      PROVE  e = q
  <2>1. CASE e < q
    <3>1. e < Len(b) /\ e + 1 \in (p + 1)..q  BY <1>1, <2>1
    <3> QED BY <1>3, <3>1
  <2>2. CASE q < e
    <3>1. q < Len(b) /\ q + 1 \in (p + 1)..e  BY <1>1, <2>2
    <3> QED BY <1>3, <3>1
  <2> QED BY <1>1, <2>1, <2>2
<1>4. EndOfUnit(b, p) = CHOOSE e \in p..Len(b) : Ends(e)
  BY DEF EndOfUnit
<1> HIDE DEF Ends
<1> QED BY <1>2, <1>3, <1>4

\* No two names become one: what Unicode_String_to_UTF8_std_string makes of a
\* name, of any length and with halves of surrogate pairs in it, is read back
\* by a strict reader as the units up to the first 0, and as nothing else.
THEOREM NamesSurvive ==
  ASSUME NEW us \in Seq(Units)
  PROVE  ReadName(Unicode_String_to_UTF8_std_string(us)) = UpToNul(us)
<1> DEFINE name  == UpToNul(us)
           N     == Len(name)
           bytes == [k \in DOMAIN name |-> Unicode_Character_to_UTF8_Character(name[k])]
           b     == FlattenSeq(bytes)
<1>1. name \in Seq(Units)
  BY UpToNulType
<1>2. N \in Nat /\ DOMAIN name = 1..N /\ \A k \in 1..N : name[k] \in Units
  <2> HIDE DEF name
  <2> QED BY <1>1
<1>3. /\ DOMAIN bytes = 1..N
      /\ \A k \in 1..N : bytes[k] = Unicode_Character_to_UTF8_Character(name[k])
  BY <1>2
<1>4. \A k \in 1..N : /\ bytes[k] \in Seq(Bytes) /\ Len(bytes[k]) \in 1..3
                      /\ ~ Continues(bytes[k][1])
                      /\ \A j \in 2..Len(bytes[k]) : Continues(bytes[k][j])
  <2> HIDE DEF bytes, N, name
  <2> QED BY <1>2, <1>3, CharacterType, UnitForm
<1>5. bytes \in Seq(Seq(Bytes)) /\ Len(bytes) = N
  <2>1. bytes \in [1..N -> Seq(Bytes)]
    <3>1. bytes = [k \in 1..N |-> bytes[k]]  BY <1>2
    <3> HIDE DEF bytes, N
    <3> QED BY <1>4, <3>1
  <2> HIDE DEF bytes, N
  <2> QED BY <1>2, <1>3, <2>1, LenProperties
<1>6. Unicode_String_to_UTF8_std_string(us) = b
  BY DEF Unicode_String_to_UTF8_std_string
<1> HIDE DEF bytes, N
<1>7. PICK start \in [1..(N + 1) -> Nat] :
        /\ start[1] = 0
        /\ Len(b) = start[N + 1]
        /\ \A k \in 1..N :
             /\ start[k + 1] = start[k] + Len(bytes[k])
             /\ \A j \in 1..Len(bytes[k]) :
                  /\ start[k] + j \in 1..Len(b)
                  /\ b[start[k] + j] = bytes[k][j]
  <2>1. \E start \in [1..(Len(bytes) + 1) -> Nat] :
          /\ start[1] = 0
          /\ Len(FlattenSeq(bytes)) = start[Len(bytes) + 1]
          /\ \A k \in 1..Len(bytes) :
               /\ start[k + 1] = start[k] + Len(bytes[k])
               /\ \A j \in 1..Len(bytes[k]) :
                    /\ start[k] + j \in 1..Len(FlattenSeq(bytes))
                    /\ FlattenSeq(bytes)[start[k] + j] = bytes[k][j]
    BY <1>5, FlattenPlaces, ZenonT(40)
  <2> QED BY <1>5, <2>1, Zenon
<1>8. b \in Seq(Bytes)
  BY <1>5, FlattenRange
<1> HIDE DEF b
<1>9. ASSUME NEW m \in 1..N
      PROVE  LET p == start[m] + 1
                 q == start[m + 1]
             IN /\ p \in 1..Len(b) /\ q \in p..Len(b) /\ q <= p + 2
                /\ ~ Continues(b[p])
                /\ \A j \in (p + 1)..q : Continues(b[j])
                /\ EndOfUnit(b, p) = q
                /\ ReadUnit(SubSeq(b, p, q)) = name[m]
  <2> DEFINE p == start[m] + 1
             q == start[m + 1]
             L == Len(bytes[m])
  <2>1. /\ start[m] \in Nat /\ L \in 1..3 /\ q = start[m] + L /\ Len(b) \in Nat
        /\ m + 1 \in 1..(N + 1)
    BY <1>2, <1>4, <1>7, <1>8, SMTT(30)
  <2>2. 1 \in 1..L /\ L \in 1..L
    <3> HIDE DEF L
    <3> QED BY <2>1
  <2>3. /\ start[m] + 1 \in 1..Len(b) /\ start[m] + L \in 1..Len(b)
        /\ b[start[m] + 1] = bytes[m][1]
    BY <1>7, <2>2
  <2>4. p \in 1..Len(b) /\ q \in p..Len(b) /\ q <= p + 2
    <3>1. p = start[m] + 1 /\ q \in 1..Len(b)  BY <2>1, <2>3
    <3> HIDE DEF p, q, L
    <3> QED BY <2>1, <2>3, <3>1, SMTT(30)
  <2>5. ~ Continues(b[p])
    BY <1>4, <2>3
  <2>6. ASSUME NEW j \in (p + 1)..q
        PROVE  Continues(b[j])
    <3>1. j - start[m] \in 2..L /\ j - start[m] \in 1..L /\ start[m] + (j - start[m]) = j
      BY <2>1, SMTT(30)
    <3>2. b[j] = bytes[m][j - start[m]]
      BY <1>7, <3>1
    <3> QED BY <1>4, <3>1, <3>2
  <2>7. q < Len(b) => ~ Continues(b[q + 1])
    <3> SUFFICES ASSUME q < Len(b) PROVE ~ Continues(b[q + 1])
      OBVIOUS
    <3>1. m # N
      BY <1>7, <2>1
    <3>2. m + 1 \in 1..N
      BY <1>2, <3>1
    <3>3. 1 \in 1..Len(bytes[m + 1])
      BY <1>4, <3>2
    <3>4. b[start[m + 1] + 1] = bytes[m + 1][1]
      BY <1>7, <3>2, <3>3
    <3> QED BY <1>4, <3>2, <3>4
  <2>8. EndOfUnit(b, p) = q
    <3> HIDE DEF p, q
    <3> QED BY <1>8, <2>4, <2>6, <2>7, EndIs
  <2>9. SubSeq(b, p, q) = bytes[m]
    <3>0. q - p + 1 = L
      <4>1. p = start[m] + 1 /\ q = start[m] + L /\ start[m] \in Nat /\ L \in 1..3
        BY <2>1
      <4> HIDE DEF p, q, L
      <4> QED BY <4>1, SMTT(30)
    <3>1. /\ SubSeq(b, p, q) \in Seq(Bytes) /\ Len(SubSeq(b, p, q)) = L
          /\ \A k \in 1..L : SubSeq(b, p, q)[k] = b[p + k - 1]
      <4> HIDE DEF p, q, L
      <4> QED BY <1>8, <2>4, <3>0, PartOf
    <3>2. \A k \in 1..L : p + k - 1 = start[m] + k
      BY <2>1
    <3>3. ASSUME NEW k \in 1..L
          PROVE  SubSeq(b, p, q)[k] = bytes[m][k]
      <4>1. SubSeq(b, p, q)[k] = b[p + k - 1]  BY <3>1
      <4>2. b[p + k - 1] = b[start[m] + k]  BY <3>2
      <4>3. b[start[m] + k] = bytes[m][k]  BY <1>7
      <4> QED BY <4>1, <4>2, <4>3
    <3>4. bytes[m] \in Seq(Bytes) /\ Len(bytes[m]) = L
      BY <1>4
    <3> HIDE DEF p, q, L
    <3> QED BY <3>1, <3>3, <3>4, SeqEqual
  <2>10. ReadUnit(SubSeq(b, p, q)) = name[m]
    BY <1>2, <1>3, <2>9, UnitsSurvive
  <2> QED BY <2>4, <2>5, <2>6, <2>8, <2>10
<1> DEFINE read == CHOOSE f : IsRead(f, b, Len(b))
<1>10. ReadName(b) = read[Len(b)]
  BY Zenon DEF ReadName, IsRead
<1>11. IsRead(read, b, Len(b))
  <2>0. Len(b) \in Nat  BY <1>8
  <2>1. \E f : IsRead(f, b, Len(b))  BY <2>0, ReadExists, Zenon
  <2> QED BY <2>1, Zenon
<1> HIDE DEF read
<1>12. /\ read[0] = << >>
       /\ \A k \in 1..Len(b) : Continues(b[k]) => read[k] = read[k - 1]
       /\ \A k \in 1..Len(b) : ~ Continues(b[k]) =>
            read[k] = Append(read[k - 1], ReadUnit(SubSeq(b, k, EndOfUnit(b, k))))
  <2>1. Len(b) \in Nat  BY <1>8
  <2>2. 0 \in 0..Len(b) /\ \A k \in 1..Len(b) : k \in 0..Len(b) /\ k # 0  BY <2>1
  <2> QED BY <1>11, <2>2 DEF IsRead
<1> DEFINE OK(m) == read[start[m + 1]] = SubSeq(name, 1, m)
           Bad   == {m \in 0..N : ~ OK(m)}
<1>13. Bad = {}
  <2> SUFFICES ASSUME Bad # {} PROVE FALSE  OBVIOUS
  <2>1. PICK m \in Bad : \A k \in Bad : m <= k
    <3>1. Bad \in SUBSET Nat  BY <1>2
    <3> HIDE DEF Bad
    <3> QED BY <3>1, Least
  <2>2. m \in 0..N /\ m \in Nat  BY <1>2
  <2>3. CASE m = 0
    <3>1. SubSeq(name, 1, 0) = << >>
      <4> HIDE DEF name
      <4> QED BY <1>1
    <3>2. 0 + 1 = 1  OBVIOUS
    <3>3. read[start[0 + 1]] = << >>  BY <1>7, <1>12, <3>2
    <3>4. OK(0)
      <4> HIDE DEF name
      <4> QED BY <3>1, <3>3
    <3> QED BY <2>1, <2>3, <3>4
  <2>4. CASE m # 0
    <3>1. m \in 1..N /\ m - 1 \in 0..N /\ (m - 1) + 1 = m /\ ~ (m <= m - 1)
      BY <1>2, <2>2, <2>4
    <3>2. OK(m - 1)
      BY <2>1, <3>1
    <3> DEFINE p == start[m] + 1
               q == start[m + 1]
    <3>3. /\ p \in 1..Len(b) /\ q \in p..Len(b) /\ q <= p + 2
          /\ ~ Continues(b[p])
          /\ \A j \in (p + 1)..q : Continues(b[j])
          /\ EndOfUnit(b, p) = q
          /\ ReadUnit(SubSeq(b, p, q)) = name[m]
      BY <1>9, <3>1
    <3>4. start[m] \in Nat /\ p - 1 = start[m] /\ Len(b) \in Nat
      <4>1. Len(b) \in Nat  BY <1>8
      <4>2. m \in 1..(N + 1)  BY <1>2, <3>1
      <4>3. start[m] \in Nat  BY <1>7, <4>2
      <4> QED BY <4>1, <4>3
    <3>5. read[p - 1] = SubSeq(name, 1, m - 1)
      BY <3>1, <3>2, <3>4
    <3> HIDE DEF p, q
    <3>6. read[p] = Append(SubSeq(name, 1, m - 1), name[m])
      BY <1>12, <3>3, <3>5
    <3>7. q = p \/ q = p + 1 \/ q = p + 2
      BY <3>3, <3>4
    <3>8. read[q] = read[p]
      <4>1. \A j \in (p + 1)..q : read[j] = read[j - 1]
        BY <1>12, <3>3, <3>4
      <4>2. CASE q = p  BY <4>2
      <4>3. CASE q = p + 1
        <5>1. p + 1 \in (p + 1)..q /\ (p + 1) - 1 = p  BY <3>3, <3>4, <4>3
        <5> QED BY <4>1, <4>3, <5>1
      <4>4. CASE q = p + 2
        <5>1. /\ p + 1 \in (p + 1)..q /\ (p + 1) - 1 = p
              /\ p + 2 \in (p + 1)..q /\ (p + 2) - 1 = p + 1
          BY <3>3, <3>4, <4>4
        <5>2. read[p + 1] = read[p]  BY <4>1, <5>1
        <5>3. read[p + 2] = read[p + 1]  BY <4>1, <5>1
        <5> QED BY <4>4, <5>2, <5>3
      <4> QED BY <3>7, <4>2, <4>3, <4>4
    <3>9. Append(SubSeq(name, 1, m - 1), name[m]) = SubSeq(name, 1, m)
      <4>1. name \in Seq(Units) /\ m \in 1..Len(name)  BY <1>1, <3>1 DEF N
      <4> HIDE DEF name
      <4> QED BY <4>1
    <3>10. OK(m)
      BY <3>6, <3>8, <3>9 DEF q
    <3> QED BY <2>1, <3>10
  <2> QED BY <2>3, <2>4
<1>14. OK(N)
  <2>1. N \in 0..N  BY <1>2
  <2> HIDE DEF OK
  <2> QED BY <1>13, <2>1
<1>15. SubSeq(name, 1, N) = name
  <2>1. N = Len(name)  BY DEF N
  <2> HIDE DEF name
  <2> QED BY <1>1, <2>1
<1> QED BY <1>6, <1>7, <1>10, <1>14, <1>15

----------------------------------------------------------------------------
(* Types                                                                   *)

EntryType == [di_number : Nat, name : Seq(Bytes)]
EntryOK   == /\ entry.first \in SlotType /\ entry.name \in Seq(Units)
             /\ entry.n \in Nat /\ entry.rest \in Nat /\ entry.len \in Nat
             /\ entry.next \in Int /\ entry.rec \subseteq Nat
TypeInv   == WalkInv /\ TypeOK

LEMMA ZeroIsAUnit == 0 \in Units
BY DEF Units

LEMMA ElementType ==
  ASSUME NEW X, NEW s \in Seq(X)
  PROVE  \A k \in DOMAIN s : s[k] \in X
OBVIOUS

\* What is behind the piece in the buffer stays, and the piece fits.
LEMMA CopyType ==
  ASSUME DirWalkAssumption, NEW N \in Nat, NEW buffer, DOMAIN buffer = 1..N,
         \A k \in 1..N : buffer[k] \in Units,
         NEW n \in Nat, NEW len \in 0..DTSLOTDATALEN, n + len <= N,
         NEW name \in [1..DTSLOTDATALEN -> Units]
  PROVE  UniStrncpy(buffer, n, name, len) \in Seq(Units)
<1> DEFINE s == UniStrncpy(buffer, n, name, len)
<1>1. DTSLOTDATALEN \in Nat /\ len \in Nat  BY DEF DirWalkAssumption
<1>2. DOMAIN buffer \cup (n + 1)..(n + len) = 1..N
  BY <1>1, PieceInside
<1>3. \A k \in (n + 1)..(n + len) : k - n \in 1..DTSLOTDATALEN
  BY <1>1
<1>4. 0 \in Units  BY ZeroIsAUnit
<1>5. s = [k \in 1..N |->
             IF k \notin (n + 1)..(n + len)              THEN buffer[k]
             ELSE IF \E m \in 1..(k - n) : name[m] = 0   THEN 0
             ELSE name[k - n]]
  BY <1>2 DEF UniStrncpy
<1>6. s \in [1..N -> Units]
  BY <1>3, <1>4, <1>5
<1> QED BY <1>6

LEMMA SlotIsTyped ==
  ASSUME DirWalkAssumption, page \in PageType, NEW k
  PROVE  Slot(page, k) \subseteq SlotType
BY DEF Slot, PageType, DirWalkAssumption

LEMMA StartEntryType ==
  ASSUME DirWalkAssumption, TypeInv, StartEntry
  PROVE  EntryOK'
<1> PICK slot \in Entry(page, i + 1), g \in Heap : entry' = FirstSlot(slot, g)
  BY DEF StartEntry
<1> DEFINE len    == Lesser(slot.namlen, DTLHDRDATALEN)
           buffer == [k \in 1..slot.namlen |-> g]
<1>1. slot \in SlotType
  BY EntryIsTyped DEF TypeInv, WalkInv, PagesOK
<1>2. /\ slot.namlen \in Nat /\ slot.next \in Int
      /\ slot.name \in [1..DTSLOTDATALEN -> Units] /\ g \in Units
  BY <1>1 DEF SlotType, DirWalkAssumption
<1>3. len \in 0..slot.namlen /\ len \in 0..DTSLOTDATALEN
  BY <1>2 DEF Lesser, DirWalkAssumption
<1>4. DOMAIN buffer = 1..slot.namlen /\ \A k \in 1..slot.namlen : buffer[k] \in Units
  BY <1>2
<1>5. /\ entry'.first = slot /\ entry'.rest = slot.namlen
      /\ entry'.len = len /\ entry'.n = len /\ entry'.next = slot.next /\ entry'.rec = {}
      /\ entry'.name = UniStrncpy(buffer, 0, slot.name, len)
  BY DEF FirstSlot
<1> HIDE DEF buffer, len
<1>6. 0 + len <= slot.namlen  BY <1>2, <1>3
<1>7. entry'.name \in Seq(Units)
  <2>1. PICK N, nm, b, l : N = slot.namlen /\ nm = slot.name /\ b = buffer /\ l = len
    OBVIOUS
  <2>2. /\ N \in Nat /\ nm \in [1..DTSLOTDATALEN -> Units] /\ DOMAIN b = 1..N
        /\ \A k \in 1..N : b[k] \in Units
    BY <1>2, <1>4, <2>1
  <2>3. l \in 0..DTSLOTDATALEN /\ 0 \in Nat /\ 0 + l <= N
    BY <1>3, <1>6, <2>1
  <2>4. UniStrncpy(b, 0, nm, l) \in Seq(Units)
    BY <2>2, <2>3, CopyType
  <2> QED BY <1>5, <2>1, <2>4
<1> QED BY <1>1, <1>2, <1>3, <1>5, <1>7 DEF EntryOK

LEMMA NextSlotType ==
  ASSUME DirWalkAssumption, TypeInv, NextSlot
  PROVE  EntryOK'
<1> DEFINE rest == entry.rest - entry.len
           len  == Piece(rest)
<1>1. PICK slot \in Slot(page, entry.next) :
        /\ entry'.first = entry.first /\ entry'.n = entry.n + len
        /\ entry'.rest = rest /\ entry'.len = len
        /\ entry'.name = UniStrncpy(entry.name, entry.n, slot.name, len)
        /\ entry'.next = Onward(slot, entry.rec \cup {entry.next})
        /\ entry'.rec = entry.rec \cup {entry.next}
  BY DEF NextSlot
<1>2. PieceFits /\ InsideTheBuffer /\ at = "name" /\ entry.next >= 0
  BY DEF NextSlot, TypeInv, WalkInv, NameInv
<1>3. EntryOK
  BY DEF TypeInv, TypeOK, EntryOK
<1>4. slot \in SlotType
  BY <1>1, SlotIsTyped DEF TypeInv, TypeOK
<1>5. slot.next \in Int /\ slot.name \in [1..DTSLOTDATALEN -> Units]
  BY <1>4 DEF SlotType
<1>6. rest \in Nat
  BY <1>2 DEF PieceFits
<1>7. len \in 0..rest /\ len \in 0..DTSLOTDATALEN
  BY <1>6 DEF Piece, Lesser, DirWalkAssumption
<1>8. rest = entry.rest - entry.len  OBVIOUS
<1> HIDE DEF rest, len
<1>9. entry.first.namlen \in Nat /\ entry.n + rest = entry.first.namlen /\ entry.n \in Nat
  BY <1>2, <1>8 DEF PieceFits, InsideTheBuffer
<1>10. entry.n + len <= entry.first.namlen
  BY <1>6, <1>7, <1>9
<1>11. DOMAIN entry.name = 1..entry.first.namlen
  BY <1>2 DEF InsideTheBuffer
<1>12. \A k \in 1..entry.first.namlen : entry.name[k] \in Units
  BY <1>3, <1>11, ElementType DEF EntryOK
<1>13. entry'.name \in Seq(Units)
  <2>1. PICK N, nm, b, m, l : /\ N = entry.first.namlen /\ nm = slot.name /\ b = entry.name
                              /\ m = entry.n /\ l = len
    OBVIOUS
  <2>2. /\ N \in Nat /\ nm \in [1..DTSLOTDATALEN -> Units] /\ DOMAIN b = 1..N
        /\ \A k \in 1..N : b[k] \in Units
    BY <1>5, <1>9, <1>11, <1>12, <2>1
  <2>3. m \in Nat /\ l \in 0..DTSLOTDATALEN /\ m + l <= N
    BY <1>7, <1>9, <1>10, <2>1
  <2>4. UniStrncpy(b, m, nm, l) \in Seq(Units)
    BY <2>2, <2>3, CopyType
  <2> QED BY <1>1, <2>1, <2>4
<1>14. entry'.next \in Int
  BY <1>1, <1>5 DEF Onward
<1>15. entry.next \in Nat  BY <1>2, <1>3 DEF EntryOK
<1>16. entry'.rec \subseteq Nat
  BY <1>1, <1>3, <1>15 DEF EntryOK
<1>17. entry'.n \in Nat /\ entry'.rest \in Nat /\ entry'.len \in Nat
  BY <1>1, <1>6, <1>7, <1>9
<1> QED BY <1>1, <1>3, <1>13, <1>14, <1>16, <1>17 DEF EntryOK

LEMMA TypeInit == DirWalkAssumption /\ Init => TypeInv
<1> SUFFICES ASSUME DirWalkAssumption, Init PROVE TypeInv
  OBVIOUS
<1>1. << >> \in Seq(Units) /\ << >> \in Seq(EntryType)  OBVIOUS
<1>2. NoEntry.first \in SlotType
  <2>1. [k \in 1..DTSLOTDATALEN |-> 0] \in [1..DTSLOTDATALEN -> Units]  BY ZeroIsAUnit
  <2>2. -1 \in Int  OBVIOUS
  <2> QED BY <2>1, <2>2 DEF NoEntry, SlotType
<1>3. EntryOK
  BY <1>1, <1>2 DEF EntryOK, Init, NoEntry
<1>4. WalkInv  BY WalkInit
<1>5. depth \in 0..StackDepth  BY DEF Init, DirWalkAssumption
<1> QED BY <1>1, <1>3, <1>4, <1>5 DEF TypeInv, TypeOK, EntryOK, Init, WalkInv, PagesOK, EntryType

LEMMA TypeStep == DirWalkAssumption /\ TypeInv /\ [Next]_vars => TypeInv'
<1> SUFFICES ASSUME DirWalkAssumption, TypeInv, [Next]_vars PROVE TypeInv'
  OBVIOUS
<1>1. WalkInv'
  BY WalkStep DEF TypeInv
<1>2. page' \in PageType /\ i' \in Nat
  BY <1>1 DEF WalkInv, PagesOK
<1>3. EntryOK /\ vin \in Seq(EntryType) /\ depth \in 0..StackDepth /\ StackDepth \in Nat
  BY DEF TypeInv, TypeOK, EntryOK, EntryType, DirWalkAssumption
<1> DEFINE Places == {"inode", "descend", "leaf", "name", "done", "dead"}
<1>4. at \in Places
  BY DEF TypeInv, TypeOK
<1>5. /\ at' \in Places /\ EntryOK' /\ vin' \in Seq(EntryType) /\ depth' \in 0..StackDepth
  <2>1. CASE ReadInode  BY <2>1, <1>3 DEF ReadInode, EntryOK
  <2>2. CASE Descend
    <3>1. EntryOK' /\ vin' = vin  BY <2>2, <1>3 DEF Descend, EntryOK, GiveUp, Overflow
    <3>2. at' \in Places  BY <2>2 DEF Descend, GiveUp, Overflow
    <3>3. depth' = depth \/ (depth # StackDepth /\ depth' = depth + 1)
      BY <2>2 DEF Descend, GiveUp, Overflow
    <3> QED BY <1>3, <3>1, <3>2, <3>3
  <2>3. CASE StartEntry
    <3>1. EntryOK'  BY <2>3, StartEntryType
    <3> QED BY <1>3, <2>3, <3>1 DEF StartEntry
  <2>4. CASE NextSlot
    <3>1. EntryOK'  BY <2>4, NextSlotType
    <3> QED BY <1>3, <1>4, <2>4, <3>1 DEF NextSlot
  <2>5. CASE EndEntry
    <3>1. entry.first.inumber \in Nat  BY <1>3 DEF EntryOK, SlotType
    <3>2. Unicode_String_to_UTF8_std_string(entry.name) \in Seq(Bytes)
      BY <1>3, NameType DEF EntryOK
    <3>3. vin' \in Seq(EntryType)  BY <1>3, <2>5, <3>1, <3>2 DEF EndEntry, EntryType
    <3> QED BY <1>3, <2>5, <3>3 DEF EndEntry, EntryOK
  <2>6. CASE RefuseLeaf  BY <1>3, <2>6 DEF RefuseLeaf, GiveUp, EntryOK
  <2>7. CASE NextLeaf
    <3>1. EntryOK' /\ vin' = vin  BY <2>7, <1>3 DEF NextLeaf, EntryOK, GiveUp, Overflow
    <3>2. at' \in Places  BY <1>4, <2>7 DEF NextLeaf, GiveUp, Overflow
    <3>3. depth' = depth \/ (depth # StackDepth /\ depth' = depth + 1)
      BY <2>7 DEF NextLeaf, GiveUp, Overflow
    <3> QED BY <1>3, <3>1, <3>2, <3>3
  <2>8. CASE UNCHANGED vars  BY <1>3, <1>4, <2>8 DEF vars, EntryOK
  <2> QED BY <2>1, <2>2, <2>3, <2>4, <2>5, <2>6, <2>7, <2>8 DEF Next
<1> QED BY <1>1, <1>2, <1>5 DEF TypeInv, TypeOK, EntryOK, EntryType

\* TypeOK, for every directory and whatever its pages say: the entry that is
\* being read, slot by slot, and the list have their types, the names in it
\* are bytes.
THEOREM WalkTypeCorrect == Spec => []TypeOK
<1>1. TypeInv => TypeOK
  BY DEF TypeInv
<1> QED BY <1>1, TypeInit, TypeStep, DirWalkAssumption, PTL DEF Spec

----------------------------------------------------------------------------
(* The stack                                                               *)

\* Somewhere there is a link to the block behind the last one.
Foul == \/ dir.blocks \in Links(dir.root)
        \/ \E a \in DOMAIN dir.page : dir.blocks \in Links(dir.page[a])

\* Without one, every call on the stack stands for a page of the device, each
\* linked to the one before: the page in memory is the last of them.
Trail(chain) == /\ chain \in [1..depth -> DOMAIN dir.page]
                /\ Linked(chain)
                /\ page = dir.page[chain[depth]]
Traced ==
  /\ at = "inode" => depth = 0
  /\ at = "descend" => ~ page.leaf
  /\ at = "dead" => depth = StackDepth
  /\ ~ Foul /\ at # "inode" =>
       IF depth = 0 THEN page = dir.root ELSE \E chain : Trail(chain)
StackInv == TypeInv /\ Traced

LEMMA TracedInit == Init => Traced
BY DEF Init, Traced

\* A call that reads a page the one at hand is linked to.
LEMMA TracedCall ==
  ASSUME DirWalkAssumption, StackInv, dir' = dir, depth' = depth + 1, at # "inode",
         NEW a \in 1..dir.blocks, a \in Links(page), ~ Foul,
         NEW old, page' \in ReadPage(a, old)
  PROVE  \E chain : Trail(chain)'
<1>1. depth \in Nat /\ dir.blocks \in Nat /\ DOMAIN dir.page = 1..(dir.blocks - 1)
  BY DEF StackInv, TypeInv, TypeOK, WalkInv, PagesOK, DirWalkAssumption
<1>2. a # dir.blocks
  <2>1. CASE depth = 0
    <3>1. page = dir.root  BY <2>1 DEF StackInv, Traced
    <3> QED BY <3>1 DEF Foul
  <2>2. CASE depth # 0
    <3>1. PICK chain : Trail(chain)  BY <2>2 DEF StackInv, Traced
    <3>2. chain[depth] \in DOMAIN dir.page /\ page = dir.page[chain[depth]]
      BY <1>1, <2>2, <3>1 DEF Trail
    <3> QED BY <3>2 DEF Foul
  <2> QED BY <2>1, <2>2
<1>3. a \in DOMAIN dir.page /\ page' = dir.page[a]
  BY <1>1, <1>2 DEF ReadPage
<1>4. CASE depth = 0
  <2>0. PICK chain : chain = [k \in 1..1 |-> a]  OBVIOUS
  <2>1. DOMAIN chain = 1..1 /\ chain[1] = a /\ \A k \in 1..1 : k = 1  BY <2>0
  <2>2. chain \in [1..depth' -> DOMAIN dir'.page]  BY <1>3, <1>4, <2>0
  <2>3. Linked(chain)'  BY <2>1 DEF Linked
  <2>4. page' = dir'.page[chain[depth']]  BY <1>3, <1>4, <2>1
  <2>5. Trail(chain)'  BY <2>2, <2>3, <2>4 DEF Trail
  <2> QED BY <2>5
<1>5. CASE depth # 0
  <2>1. PICK c : Trail(c)  BY <1>5 DEF StackInv, Traced
  <2>2. PICK chain : chain = [k \in 1..(depth + 1) |-> IF k = depth + 1 THEN a ELSE c[k]]
    OBVIOUS
  <2>3. /\ c \in [1..depth -> DOMAIN dir.page] /\ page = dir.page[c[depth]]
        /\ \A k \in (1..depth) \ {1} : c[k] \in Links(dir.page[c[k - 1]])
    BY <2>1 DEF Trail, Linked
  <2>4. \A k \in 1..(depth + 1) : k # depth + 1 => k \in 1..depth
    BY <1>1
  <2>5. chain \in [1..(depth + 1) -> DOMAIN dir.page]
    BY <1>3, <2>2, <2>3, <2>4
  <2>6. /\ DOMAIN chain = 1..(depth + 1) /\ chain[depth + 1] = a
        /\ \A k \in 1..depth : chain[k] = c[k]
    <3>1. depth + 1 \in 1..(depth + 1) /\ \A k \in 1..depth : k # depth + 1 /\ k \in 1..(depth + 1)
      BY <1>1
    <3> QED BY <2>2, <3>1
  <2>7. ASSUME NEW k \in (1..(depth + 1)) \ {1}
        PROVE  chain[k] \in Links(dir.page[chain[k - 1]])
    <3>1. k \in Int /\ k - 1 \in 1..depth  BY <1>1
    <3>2. chain[k - 1] = c[k - 1]  BY <2>6, <3>1
    <3>3. CASE k = depth + 1
      <4>1. k - 1 = depth  BY <1>1, <3>3
      <4>2. chain[k] = a /\ chain[k - 1] = c[depth]  BY <2>6, <3>2, <3>3, <4>1
      <4> QED BY <2>3, <4>2
    <3>4. CASE k # depth + 1
      <4>1. k \in (1..depth) \ {1}  BY <1>1, <3>4
      <4>2. chain[k] = c[k]  BY <2>6, <4>1
      <4> QED BY <2>3, <3>2, <4>1, <4>2
    <3> QED BY <3>3, <3>4
  <2>8. \A k \in DOMAIN chain \ {1} : chain[k] \in Links(dir.page[chain[k - 1]])
    BY <2>6, <2>7
  <2>9. page' = dir'.page[chain[depth']]  BY <1>3, <2>6
  <2>10. Linked(chain)'  BY <2>8 DEF Linked
  <2>11. Trail(chain)'  BY <2>5, <2>9, <2>10 DEF Trail
  <2> QED BY <2>11
<1> QED BY <1>4, <1>5

\* The steps that neither call nor end keep page and stack.
LEMMA TracedStays ==
  ASSUME StackInv, UNCHANGED << dir, page, depth >>, at # "inode",
         at' \in {"leaf", "name", "done"}
  PROVE  Traced'
<1>1. ~ Foul => IF depth = 0 THEN page = dir.root ELSE \E chain : Trail(chain)
  BY DEF StackInv, Traced
<1>2. Foul' <=> Foul
  BY DEF Foul
<1>3. \A chain : Trail(chain) => Trail(chain)'
  BY DEF Trail, Linked
<1>4. ~ Foul' => (IF depth = 0 THEN page = dir.root ELSE \E chain : Trail(chain))'
  BY <1>1, <1>2, <1>3
<1> QED BY <1>4 DEF Traced

LEMMA TracedOverflow ==
  ASSUME DirWalkAssumption, StackInv, Overflow, depth = StackDepth, at # "inode"
  PROVE  Traced'
<1>1. ~ Foul => IF depth = 0 THEN page = dir.root ELSE \E chain : Trail(chain)
  BY DEF StackInv, Traced
<1>2. at' = "dead" /\ UNCHANGED << dir, page, depth >>
  BY DEF Overflow
<1>3. Foul' <=> Foul
  BY <1>2 DEF Foul
<1>4. \A chain : Trail(chain) => Trail(chain)'
  BY <1>2 DEF Trail, Linked
<1>5. ~ Foul' => (IF depth = 0 THEN page = dir.root ELSE \E chain : Trail(chain))'
  BY <1>1, <1>2, <1>3, <1>4
<1>6. depth' = StackDepth  BY <1>2
<1> QED BY <1>2, <1>5, <1>6 DEF Traced

LEMMA TracedDescend ==
  ASSUME DirWalkAssumption, StackInv, Descend
  PROVE  Traced'
<1> PICK pxd \in Entry(page, 1) :
       IF depth = StackDepth THEN Overflow
       ELSE IF ~ Sane(pxd) THEN GiveUp
       ELSE /\ page' \in ReadPage(pxd.addr, Range(dir.page) \cup {Blank} \cup Foreign)
            /\ at' = IF page'.leaf THEN "leaf" ELSE "descend"
            /\ depth' = depth + 1
            /\ UNCHANGED << dir, i, entry, vin >>
  BY DEF Descend
<1>1. at = "descend" /\ ~ page.leaf
  BY DEF Descend, StackInv, Traced
<1>2. CASE depth = StackDepth
  BY <1>1, <1>2, TracedOverflow
<1>3. CASE depth # StackDepth /\ ~ Sane(pxd)
  BY <1>1, <1>3, TracedStays DEF GiveUp
<1>4. CASE depth # StackDepth /\ Sane(pxd)
  <2>1. /\ page' \in ReadPage(pxd.addr, Range(dir.page) \cup {Blank} \cup Foreign)
        /\ at' = IF page'.leaf THEN "leaf" ELSE "descend"
        /\ depth' = depth + 1 /\ dir' = dir
    BY <1>4
  <2>2. pxd \in SlotType
    BY EntryIsTyped DEF StackInv, TypeInv, WalkInv, PagesOK
  <2>3. pxd.addr \in 1..dir.blocks
    BY <1>4, <2>2 DEF Sane, SlotType, StackInv, TypeInv, WalkInv, PagesOK, DirWalkAssumption
  <2>4. pxd.addr \in Links(page)
    BY <1>1 DEF Links
  <2>5. ~ Foul => \E chain : Trail(chain)'
    BY <1>1, <2>1, <2>3, <2>4, TracedCall
  <2>6. depth' # 0
    BY <2>1 DEF StackInv, TypeInv, TypeOK
  <2>7. Foul' <=> Foul
    BY <2>1 DEF Foul
  <2> QED BY <2>1, <2>5, <2>6, <2>7 DEF Traced
<1> QED BY <1>2, <1>3, <1>4

LEMMA TracedNextLeaf ==
  ASSUME DirWalkAssumption, StackInv, NextLeaf
  PROVE  Traced'
<1>1. at = "leaf"
  BY DEF NextLeaf
<1>2. CASE page.next = 0 \/ Refused(page.next)
  BY <1>1, <1>2, TracedStays DEF NextLeaf, GiveUp
<1>3. CASE ~ (page.next = 0 \/ Refused(page.next)) /\ depth = StackDepth
  BY <1>1, <1>3, TracedOverflow DEF NextLeaf
<1>4. CASE ~ (page.next = 0 \/ Refused(page.next)) /\ depth # StackDepth
  <2>1. /\ page' \in ReadPage(page.next, {page})
        /\ at' = at /\ depth' = depth + 1 /\ dir' = dir
    BY <1>4 DEF NextLeaf
  <2>2. page.next \in 1..dir.blocks
    BY <1>4 DEF Refused, PageType, StackInv, TypeInv, WalkInv, PagesOK, DirWalkAssumption
  <2>3. page.next \in Links(page)
    BY DEF Links
  <2>4. ~ Foul => \E chain : Trail(chain)'
    BY <1>1, <2>1, <2>2, <2>3, TracedCall
  <2>5. depth' # 0
    BY <2>1 DEF StackInv, TypeInv, TypeOK
  <2>6. Foul' <=> Foul
    BY <2>1 DEF Foul
  <2> QED BY <1>1, <2>1, <2>4, <2>5, <2>6 DEF Traced
<1> QED BY <1>2, <1>3, <1>4

LEMMA TracedStep ==
  ASSUME DirWalkAssumption, StackInv, [Next]_vars
  PROVE  Traced'
<1>1. CASE ReadInode
  <2>1. depth = 0 /\ depth' = 0 /\ dir' = dir /\ page' = dir'.root
    BY <1>1 DEF ReadInode, StackInv, Traced
  <2>2. at' = "leaf" \/ (at' = "descend" /\ ~ page'.leaf)
    BY <1>1 DEF ReadInode
  <2> QED BY <2>1, <2>2 DEF Traced
<1>2. CASE StartEntry \/ NextSlot \/ EndEntry \/ RefuseLeaf
  BY <1>2, TracedStays DEF StartEntry, NextSlot, EndEntry, RefuseLeaf, GiveUp
<1>3. CASE UNCHANGED vars
  <2>1. Traced /\ at' = at /\ UNCHANGED << dir, page, depth >>
    BY <1>3 DEF vars, StackInv
  <2>2. Foul' <=> Foul
    BY <2>1 DEF Foul
  <2>3. \A chain : Trail(chain) => Trail(chain)'
    BY <2>1 DEF Trail, Linked
  <2> QED BY <2>1, <2>2, <2>3 DEF Traced
<1> QED BY <1>1, <1>2, <1>3, TracedDescend, TracedNextLeaf DEF Next

\* A chain that comes back to a page is a circle.
LEMMA BackIsCircular ==
  ASSUME NEW N \in Nat, NEW c \in [1..N -> DOMAIN dir.page], Linked(c),
         NEW j \in 1..N, NEW k \in 1..N, j < k, c[j] = c[k]
  PROVE  Circular
<1> DEFINE S == {c[m] : m \in j..(k - 1)}
<1>1. \A m \in j..(k - 1) : m \in 1..N /\ m + 1 \in (1..N) \ {1} /\ (m + 1) - 1 = m
  OBVIOUS
<1>2. S \in SUBSET DOMAIN dir.page
  BY <1>1
<1>3. j \in j..(k - 1)  OBVIOUS
<1>4. S # {}  BY <1>3
<1>5. ASSUME NEW m \in j..(k - 1)
      PROVE  \E b \in Links(dir.page[c[m]]) : b \in S
  <2>1. c[m + 1] \in Links(dir.page[c[m]])
    <3>1. m + 1 \in DOMAIN c \ {1}  BY <1>1
    <3>2. c[m + 1] \in Links(dir.page[c[(m + 1) - 1]])  BY <3>1 DEF Linked
    <3> QED BY <1>1, <3>2
  <2>2. c[m + 1] \in S
    <3>1. CASE m = k - 1
      <4>1. m + 1 = k  BY <3>1
      <4> QED BY <1>3, <4>1
    <3>2. CASE m # k - 1
      <4>1. m + 1 \in j..(k - 1)  BY <3>2
      <4> QED BY <4>1
    <3> QED BY <3>1, <3>2
  <2> QED BY <2>1, <2>2
<1>6. \A a \in S : \E b \in Links(dir.page[a]) : b \in S
  BY <1>5
<1> HIDE DEF S
<1> QED BY <1>2, <1>4, <1>6 DEF Circular

\* DiesOnCirclesOnly, for every directory, every damage and every size of the
\* stack: descend and next_leaf take the stack in a circle of pages, at the
\* block behind the last one, or in a chain as long as the stack.
THEOREM OnlyCirclesKill == Spec => []DiesOnCirclesOnly
<1>1. DirWalkAssumption /\ Init => StackInv
  BY TypeInit, TracedInit DEF StackInv
<1>2. DirWalkAssumption /\ StackInv /\ [Next]_vars => StackInv'
  BY TypeStep, TracedStep DEF StackInv
<1>3. DirWalkAssumption /\ StackInv => DiesOnCirclesOnly
  <2> SUFFICES ASSUME DirWalkAssumption, StackInv, at = "dead",
                      ~ (dir.blocks \in Links(dir.root))
               PROVE  Circular \/ LongChain
    BY DEF DiesOnCirclesOnly
  <2>1. depth = StackDepth /\ StackDepth \in Nat
    BY DEF StackInv, Traced, DirWalkAssumption
  <2>2. CASE Foul
    <3>1. PICK a \in DOMAIN dir.page : dir.blocks \in Links(dir.page[a])
      BY <2>2 DEF Foul
    <3>2. /\ {a} \in SUBSET DOMAIN dir.page /\ {a} # {}
          /\ \A b \in {a} : \E d \in Links(dir.page[b]) : d \in {a} \cup {dir.blocks}
      BY <3>1
    <3> QED BY <3>2 DEF Circular
  <2>3. CASE ~ Foul /\ depth = 0
    <3>1. PICK c : c = [k \in 1..0 |-> k]  OBVIOUS
    <3>2. DOMAIN c = {} /\ 1..StackDepth = {}  BY <2>1, <2>3, <3>1
    <3>3. c \in [1..StackDepth -> DOMAIN dir.page]  BY <2>1, <2>3, <3>1
    <3>4. c \in Injection(1..StackDepth, DOMAIN dir.page)
      BY <3>2, <3>3 DEF Injection, IsInjective
    <3>5. Linked(c)  BY <3>2 DEF Linked
    <3> QED BY <3>4, <3>5 DEF LongChain
  <2>4. CASE ~ Foul /\ depth # 0
    <3>1. PICK c : Trail(c)
      BY <2>4 DEF StackInv, Traced
    <3>2. c \in [1..StackDepth -> DOMAIN dir.page] /\ Linked(c)
      BY <2>1, <3>1 DEF Trail
    <3>3. CASE IsInjective(c)
      BY <3>2, <3>3 DEF LongChain, Injection
    <3>4. CASE ~ IsInjective(c)
      <4>1. PICK j \in 1..StackDepth, k \in 1..StackDepth : c[j] = c[k] /\ j # k
        BY <3>2, <3>4 DEF IsInjective
      <4>2. j < k \/ k < j
        BY <2>1, <4>1
      <4> QED BY <2>1, <3>2, <4>1, <4>2, BackIsCircular
    <3> QED BY <3>3, <3>4
  <2> QED BY <2>2, <2>3, <2>4
<1> QED BY <1>1, <1>2, <1>3, DirWalkAssumption, PTL DEF Spec

----------------------------------------------------------------------------
(* What is listed                                                          *)

Entries == [di_number : Nat, name : Seq(Units \ {0})]

\* The entry e is being read, and j of the slots it is stored in were.
Gathering(chain, e) ==
  \E j \in 1..Len(chain) :
    /\ entry.first = page.slot[chain[1]]
    /\ entry.rec = {chain[m] : m \in 2..j}
    /\ entry.next = IF j < Len(chain) THEN chain[j + 1] ELSE -1
    /\ entry.n = Lesser(Len(e.name), Before(j + 1))
    /\ \A m \in 1..entry.n : entry.name[m] = e.name[m]

LEMMA BeforeGrows ==
  ASSUME DirWalkAssumption, NEW j \in Nat \ {0}
  PROVE  /\ Before(1) = 0
         /\ Before(j) \in Nat
         /\ Before(j + 1) = Before(j) + (IF j = 1 THEN DTLHDRDATALEN ELSE DTSLOTDATALEN)
<1>1. DTLHDRDATALEN \in Nat /\ DTSLOTDATALEN \in Nat  BY DEF DirWalkAssumption
<1>2. Before(1) = 0  BY DEF Before
<1>3. CASE j = 1
  <2>1. Before(2) = DTLHDRDATALEN + (2 - 2) * DTSLOTDATALEN  BY DEF Before
  <2>2. (2 - 2) * DTSLOTDATALEN = 0  BY <1>1
  <2> QED BY <1>1, <1>2, <1>3, <2>1, <2>2
<1>4. CASE j # 1
  <2>1. j - 2 \in Nat /\ (j + 1) - 2 = (j - 2) + 1 /\ j + 1 # 1  BY <1>4
  <2>2. PICK c \in Nat : c = j - 2  BY <2>1
  <2>3. c * DTSLOTDATALEN \in Nat /\ (c + 1) * DTSLOTDATALEN = c * DTSLOTDATALEN + DTSLOTDATALEN
    BY <1>1
  <2>4. Before(j) = DTLHDRDATALEN + c * DTSLOTDATALEN  BY <1>4, <2>2 DEF Before
  <2>5. Before(j + 1) = DTLHDRDATALEN + (c + 1) * DTSLOTDATALEN  BY <2>1, <2>2 DEF Before
  <2> QED BY <1>1, <1>2, <1>4, <2>3, <2>4, <2>5
<1> QED BY <1>3, <1>4

\* What is copied is what the name goes on with.
LEMMA CopyPiece ==
  ASSUME NEW N \in Nat, NEW buffer, DOMAIN buffer = 1..N,
         NEW n \in Nat, NEW len \in Nat, n + len <= N, NEW name, NEW word,
         \A m \in 1..n : buffer[m] = word[m],
         \A m \in 1..len : name[m] = word[n + m] /\ word[n + m] # 0
  PROVE  \A m \in 1..(n + len) : UniStrncpy(buffer, n, name, len)[m] = word[m]
<1>1. DOMAIN buffer \cup (n + 1)..(n + len) = 1..N  BY PieceInside
<1>2. UniStrncpy(buffer, n, name, len)
        = [k \in 1..N |->
             IF k \notin (n + 1)..(n + len)              THEN buffer[k]
             ELSE IF \E m \in 1..(k - n) : name[m] = 0   THEN 0
             ELSE name[k - n]]
  BY <1>1 DEF UniStrncpy
<1>3. ASSUME NEW m \in 1..(n + len)
      PROVE  UniStrncpy(buffer, n, name, len)[m] = word[m]
  <2>0. m \in 1..N  OBVIOUS
  <2>1. CASE m \notin (n + 1)..(n + len)
    <3>1. m \in 1..n  BY <2>1
    <3> QED BY <1>2, <2>0, <2>1, <3>1
  <2>2. CASE m \in (n + 1)..(n + len)
    <3>1. m - n \in 1..len /\ n + (m - n) = m  BY <2>2
    <3>2. name[m - n] = word[m]  BY <3>1
    <3>3. \A k \in 1..(m - n) : k \in 1..len  BY <3>1
    <3>4. ~ \E k \in 1..(m - n) : name[k] = 0  BY <3>3
    <3> QED BY <1>2, <2>0, <2>2, <3>2, <3>4
  <2> QED BY <2>1, <2>2
<1> QED BY <1>3

\* A name and the slots it is stored in.
LEMMA StoredFacts ==
  ASSUME DirWalkAssumption, NEW p, NEW chain, NEW e \in Entries, Stored(p, chain, e)
  PROVE  /\ Len(chain) \in Nat /\ 1 \in 1..Len(chain) /\ DOMAIN chain = 1..Len(chain)
         /\ Len(e.name) \in Nat /\ DOMAIN e.name = 1..Len(e.name)
         /\ \A m \in 1..Len(e.name) : e.name[m] \in Units /\ e.name[m] # 0
         /\ \A j \in 1..Len(chain) : chain[j] \in DOMAIN p.slot
         /\ \A j, k \in 1..Len(chain) : chain[j] = chain[k] => j = k
         /\ p.slot[chain[1]].namlen = Len(e.name)
         /\ p.slot[chain[1]].inumber = e.di_number
<1>1. chain \in Seq(DOMAIN p.slot) /\ chain # << >>  BY DEF Stored
<1>2. Len(chain) \in Nat /\ DOMAIN chain = 1..Len(chain) /\ Len(chain) # 0
  BY <1>1
<1>3. \A j \in 1..Len(chain) : chain[j] \in DOMAIN p.slot
  BY <1>1
<1>4. e.name \in Seq(Units \ {0})  BY DEF Entries
<1>5. /\ Len(e.name) \in Nat /\ DOMAIN e.name = 1..Len(e.name)
      /\ \A m \in 1..Len(e.name) : e.name[m] \in Units \ {0}
  BY <1>4
<1>6. \A j, k \in 1..Len(chain) : chain[j] = chain[k] => j = k
  BY <1>2 DEF Stored, IsInjective
<1>7. /\ p.slot[chain[1]].namlen = Len(e.name)
      /\ p.slot[chain[1]].inumber = e.di_number
  BY DEF Stored
<1>8. 1 \in 1..Len(chain)  BY <1>2
<1> QED BY <1>2, <1>3, <1>5, <1>6, <1>7, <1>8

\* The piece of the j-th slot.
LEMMA StoredPiece ==
  ASSUME DirWalkAssumption, NEW p, NEW chain, NEW e \in Entries, Stored(p, chain, e),
         NEW j \in 1..Len(chain)
  PROVE  /\ p.slot[chain[j]].next = IF j < Len(chain) THEN chain[j + 1] ELSE -1
         /\ \A m \in 1..(Before(j + 1) - Before(j)) :
              Before(j) + m <= Len(e.name) => p.slot[chain[j]].name[m] = e.name[Before(j) + m]
<1>1. j \in Nat \ {0} /\ j \in DOMAIN chain  BY StoredFacts
<1>2. Before(j) \in Nat /\ Before(j + 1) \in Nat
  <2>1. DTLHDRDATALEN \in Nat /\ DTSLOTDATALEN \in Nat  BY DEF DirWalkAssumption
  <2> QED BY <1>1, <2>1, BeforeGrows
<1>3. p.slot[chain[j]].next = IF j < Len(chain) THEN chain[j + 1] ELSE -1
  BY <1>1 DEF Stored
<1>4. \A m \in (Before(j) + 1)..Before(j + 1) :
        m <= Len(e.name) => p.slot[chain[j]].name[m - Before(j)] = e.name[m]
  BY <1>1 DEF Stored
<1>5. ASSUME NEW m \in 1..(Before(j + 1) - Before(j)), Before(j) + m <= Len(e.name)
      PROVE  p.slot[chain[j]].name[m] = e.name[Before(j) + m]
  <2>1. Before(j) + m \in (Before(j) + 1)..Before(j + 1) /\ (Before(j) + m) - Before(j) = m
    BY <1>2
  <2> QED BY <1>4, <1>5, <2>1
<1> QED BY <1>3, <1>5

\* A name without a 0 does not end before its end.
LEMMA WholeName ==
  ASSUME NEW us \in Seq(Units), \A m \in 1..Len(us) : us[m] # 0
  PROVE  UpToNul(us) = us
<1> DEFINE Ends(n) == (\A k \in 1..n : us[k] # 0) /\ (n < Len(us) => us[n + 1] = 0)
<1>1. Len(us) \in Nat  OBVIOUS
<1>2. Ends(Len(us)) /\ Len(us) \in 0..Len(us)  BY <1>1
<1>3. ASSUME NEW n \in 0..Len(us), Ends(n) PROVE n = Len(us)
  <2>1. ASSUME n < Len(us) PROVE FALSE
    <3>1. n + 1 \in 1..Len(us)  BY <1>1, <2>1
    <3> QED BY <1>3, <2>1, <3>1
  <2> QED BY <1>1, <2>1
<1>4. UpToNul(us) = SubSeq(us, 1, CHOOSE n \in 0..Len(us) : Ends(n))
  BY DEF UpToNul
<1> HIDE DEF Ends
<1>5. UpToNul(us) = SubSeq(us, 1, Len(us))
  BY <1>2, <1>3, <1>4
<1> QED BY <1>5

LEMMA StartGathering ==
  ASSUME DirWalkAssumption, page \in PageType, page' = page,
         NEW chain, NEW e \in Entries, Stored(page, chain, e),
         NEW g, entry' = FirstSlot(page.slot[chain[1]], g)
  PROVE  Gathering(chain, e)'
<1>0. PICK slot : slot = page.slot[chain[1]]  OBVIOUS
<1>1. /\ Len(chain) \in Nat /\ 1 \in 1..Len(chain)
      /\ Len(e.name) \in Nat /\ DOMAIN e.name = 1..Len(e.name)
      /\ \A m \in 1..Len(e.name) : e.name[m] # 0
      /\ slot.namlen = Len(e.name)
  BY <1>0, StoredFacts
<1>2. /\ slot.next = IF 1 < Len(chain) THEN chain[2] ELSE -1
      /\ \A m \in 1..(Before(2) - Before(1)) :
           Before(1) + m <= Len(e.name) => slot.name[m] = e.name[Before(1) + m]
  <2>1. 1 + 1 = 2  OBVIOUS
  <2> QED BY <1>0, <1>1, <2>1, StoredPiece
<1>3. Before(1) = 0 /\ Before(2) = DTLHDRDATALEN /\ DTLHDRDATALEN \in Nat
  <2>1. DTLHDRDATALEN \in Nat  BY DEF DirWalkAssumption
  <2>2. 1 \in Nat \ {0} /\ 1 + 1 = 2  OBVIOUS
  <2> QED BY <2>1, <2>2, BeforeGrows
<1> DEFINE buffer == [k \in 1..slot.namlen |-> g]
           len    == Lesser(slot.namlen, DTLHDRDATALEN)
<1>4. /\ entry'.first = slot /\ entry'.n = len /\ entry'.next = slot.next /\ entry'.rec = {}
      /\ entry'.name = UniStrncpy(buffer, 0, slot.name, len)
  BY <1>0 DEF FirstSlot
<1>5. len \in Nat /\ len <= Len(e.name) /\ len <= DTLHDRDATALEN
  BY <1>1, <1>3 DEF Lesser
<1>6. DOMAIN buffer = 1..Len(e.name)  BY <1>1
<1> HIDE DEF buffer
<1>7. len = Lesser(Len(e.name), Before(2))  BY <1>1, <1>3
<1> HIDE DEF len
<1>8. \A m \in 1..len : slot.name[m] = e.name[0 + m] /\ e.name[0 + m] # 0
  <2>1. \A m \in 1..len : /\ m \in 1..(Before(2) - Before(1)) /\ Before(1) + m = m /\ 0 + m = m
                          /\ m <= Len(e.name) /\ m \in 1..Len(e.name)
    BY <1>1, <1>3, <1>5
  <2> QED BY <1>1, <1>2, <2>1
<1>9. \A m \in 1..len : UniStrncpy(buffer, 0, slot.name, len)[m] = e.name[m]
  <2>1. 0 \in Nat /\ 0 + len <= Len(e.name) /\ 0 + len = len  BY <1>1, <1>5
  <2>2. \A m \in 1..0 : buffer[m] = e.name[m]  OBVIOUS
  <2>3. \A m \in 1..(0 + len) : UniStrncpy(buffer, 0, slot.name, len)[m] = e.name[m]
    BY <1>1, <1>5, <1>6, <1>8, <2>1, <2>2, CopyPiece, SMTT(30)
  <2> QED BY <2>1, <2>3
<1>10. {chain[m] : m \in 2..1} = {}  OBVIOUS
<1>11. 1 + 1 = 2  OBVIOUS
<1> QED BY <1>0, <1>1, <1>2, <1>4, <1>7, <1>9, <1>10, <1>11 DEF Gathering

LEMMA NextGathering ==
  ASSUME DirWalkAssumption, TypeInv, NextSlot,
         NEW chain, NEW e \in Entries, Stored(page, chain, e), Gathering(chain, e)
  PROVE  Gathering(chain, e)'
<1>1. PICK j \in 1..Len(chain) :
        /\ entry.first = page.slot[chain[1]]
        /\ entry.rec = {chain[m] : m \in 2..j}
        /\ entry.next = IF j < Len(chain) THEN chain[j + 1] ELSE -1
        /\ entry.n = Lesser(Len(e.name), Before(j + 1))
        /\ \A m \in 1..entry.n : entry.name[m] = e.name[m]
  BY DEF Gathering
<1>2. /\ Len(chain) \in Nat /\ Len(e.name) \in Nat /\ DOMAIN e.name = 1..Len(e.name)
      /\ \A m \in 1..Len(e.name) : e.name[m] # 0
      /\ \A k \in 1..Len(chain) : chain[k] \in DOMAIN page.slot
      /\ \A k, m \in 1..Len(chain) : chain[k] = chain[m] => k = m
      /\ page.slot[chain[1]].namlen = Len(e.name)
  BY StoredFacts
<1>3. j < Len(chain) /\ j + 1 \in 1..Len(chain) /\ entry.next = chain[j + 1]
  BY <1>1, <1>2 DEF NextSlot
<1>4. PICK slot : slot = page.slot[chain[j + 1]]  OBVIOUS
<1>5. /\ slot.next = IF j + 1 < Len(chain) THEN chain[j + 1 + 1] ELSE -1
      /\ \A m \in 1..(Before(j + 1 + 1) - Before(j + 1)) :
           Before(j + 1) + m <= Len(e.name) => slot.name[m] = e.name[Before(j + 1) + m]
  BY <1>3, <1>4, StoredPiece, SMTT(30)
<1>6. /\ Before(j + 1) \in Nat /\ DTSLOTDATALEN \in Nat
      /\ Before(j + 1 + 1) = Before(j + 1) + DTSLOTDATALEN
  <2>1. DTSLOTDATALEN \in Nat /\ DTLHDRDATALEN \in Nat  BY DEF DirWalkAssumption
  <2>2. j + 1 \in Nat \ {0} /\ j + 1 # 1  BY <1>1
  <2> QED BY <2>1, <2>2, BeforeGrows
<1> DEFINE rest == entry.rest - entry.len
           len  == Piece(rest)
           rec  == entry.rec \cup {entry.next}
<1>7. Slot(page, entry.next) = {slot}
  BY <1>2, <1>3, <1>4 DEF Slot
<1>8. /\ entry'.first = entry.first /\ entry'.n = entry.n + len
      /\ entry'.name = UniStrncpy(entry.name, entry.n, slot.name, len)
      /\ entry'.next = Onward(slot, rec) /\ entry'.rec = rec
  BY <1>7 DEF NextSlot
<1>9. PieceFits /\ InsideTheBuffer /\ at = "name"
  BY DEF NextSlot, TypeInv, WalkInv, NameInv
<1>10. rest = Len(e.name) - entry.n /\ rest \in Nat /\ entry.n \in Nat
  <2>1. PICK N, m, r, l : /\ N = Len(e.name) /\ m = entry.n /\ r = entry.rest /\ l = entry.len
    OBVIOUS
  <2>2. entry.first.namlen = N
    BY <1>1, <1>2, <2>1
  <2>3. N \in Nat /\ m \in Nat /\ r \in Nat /\ l \in 0..r /\ m + r = N + l
    BY <1>2, <1>9, <2>1, <2>2 DEF PieceFits, InsideTheBuffer
  <2>4. r - l = N - m /\ r - l \in Nat
    BY <2>3
  <2> QED BY <2>1, <2>3, <2>4
<1>11. len = Lesser(rest, DTSLOTDATALEN)  BY DEF Piece
<1> HIDE DEF rest, len, rec
<1>12. len \in Nat /\ entry.n + len <= Len(e.name) /\ len <= DTSLOTDATALEN
  BY <1>2, <1>6, <1>10, <1>11, SMTT(30) DEF Lesser
<1>13. entry.n + len = Lesser(Len(e.name), Before(j + 1 + 1))
  BY <1>1, <1>2, <1>6, <1>10, <1>11 DEF Lesser
<1>14. \A m \in 1..len : slot.name[m] = e.name[entry.n + m] /\ e.name[entry.n + m] # 0
  <2>1. CASE entry.n = Before(j + 1)
    <3>1. \A m \in 1..len : /\ m \in 1..(Before(j + 1 + 1) - Before(j + 1))
                            /\ Before(j + 1) + m <= Len(e.name)
                            /\ entry.n + m \in 1..Len(e.name)
      BY <1>2, <1>6, <1>10, <1>12, <2>1, SMTT(30)
    <3> QED BY <1>2, <1>5, <2>1, <3>1
  <2>2. CASE entry.n # Before(j + 1)
    <3>1. entry.n = Len(e.name)  BY <1>1, <2>2 DEF Lesser
    <3>2. 1..len = {}  BY <1>2, <1>12, <3>1
    <3> QED BY <3>2
  <2> QED BY <2>1, <2>2
<1>15. DOMAIN entry.name = 1..Len(e.name)
  BY <1>1, <1>2, <1>9 DEF InsideTheBuffer
<1>16. \A m \in 1..(entry.n + len) : entry'.name[m] = e.name[m]
  <2>0. PICK buffer, name, word : buffer = entry.name /\ name = slot.name /\ word = e.name
    OBVIOUS
  <2>1. PICK N \in Nat, n \in Nat, l \in Nat : n = entry.n /\ l = len /\ N = Len(e.name)
    BY <1>2, <1>10, <1>12
  <2>2. DOMAIN buffer = 1..N /\ n + l <= N
    BY <1>12, <1>15, <2>0, <2>1
  <2>3. \A m \in 1..n : buffer[m] = word[m]
    BY <1>1, <2>0, <2>1
  <2>4. \A m \in 1..l : name[m] = word[n + m] /\ word[n + m] # 0
    BY <1>14, <2>0, <2>1
  <2>5. \A m \in 1..(n + l) : UniStrncpy(buffer, n, name, l)[m] = word[m]
    BY <2>2, <2>3, <2>4, CopyPiece, SMTT(60)
  <2> QED BY <1>8, <2>0, <2>1, <2>5
<1>17. rec = {chain[m] : m \in 2..(j + 1)}
  <2>1. rec = {chain[m] : m \in 2..j} \cup {chain[j + 1]}  BY <1>1, <1>3 DEF rec
  <2>2. \A m : m \in 2..(j + 1) <=> m \in 2..j \/ m = j + 1  BY <1>1
  <2> QED BY <2>1, <2>2
<1>18. entry'.next = IF j + 1 < Len(chain) THEN chain[j + 1 + 1] ELSE -1
  <2>1. CASE j + 1 < Len(chain)
    <3>1. j + 1 + 1 \in 1..Len(chain)  BY <1>2, <1>3, <2>1
    <3>2. \A m \in 2..(j + 1) : m \in 1..Len(chain) /\ m # j + 1 + 1  BY <1>2, <1>3, <2>1
    <3>3. chain[j + 1 + 1] \notin rec  BY <1>2, <1>17, <3>1, <3>2
    <3> QED BY <1>5, <1>8, <2>1, <3>3 DEF Onward
  <2>2. CASE ~ (j + 1 < Len(chain))
    BY <1>5, <1>8, <2>2 DEF Onward
  <2> QED BY <2>1, <2>2
<1>19. page' = page  BY DEF NextSlot
<1> QED BY <1>1, <1>3, <1>8, <1>13, <1>16, <1>17, <1>18, <1>19 DEF Gathering

\* An entry is listed with its number and its name.
LEMMA EndGathering ==
  ASSUME DirWalkAssumption, TypeInv, EndEntry,
         NEW chain, NEW e \in Entries, Stored(page, chain, e), Gathering(chain, e)
  PROVE  /\ entry.first.inumber = e.di_number
         /\ ReadName(Unicode_String_to_UTF8_std_string(entry.name)) = e.name
<1>1. PICK j \in 1..Len(chain) :
        /\ entry.first = page.slot[chain[1]]
        /\ entry.next = IF j < Len(chain) THEN chain[j + 1] ELSE -1
        /\ entry.n = Lesser(Len(e.name), Before(j + 1))
        /\ \A m \in 1..entry.n : entry.name[m] = e.name[m]
  BY DEF Gathering
<1>2. /\ Len(chain) \in Nat /\ Len(e.name) \in Nat /\ DOMAIN e.name = 1..Len(e.name)
      /\ \A m \in 1..Len(e.name) : e.name[m] # 0
      /\ \A k \in 1..Len(chain) : chain[k] \in DOMAIN page.slot
      /\ page.slot[chain[1]].namlen = Len(e.name)
      /\ page.slot[chain[1]].inumber = e.di_number
  BY StoredFacts
<1>3. j = Len(chain)
  <2>1. entry.next < 0 /\ page \in PageType  BY DEF EndEntry, TypeInv, TypeOK
  <2>2. CASE j < Len(chain)
    <3>1. chain[j + 1] \in DOMAIN page.slot  BY <1>2, <2>2
    <3>2. chain[j + 1] \in Nat  BY <2>1, <3>1 DEF PageType
    <3> QED BY <1>1, <2>1, <2>2, <3>2
  <2> QED BY <1>2, <2>2
<1>4. entry.n = Len(e.name)
  <2>1. Len(e.name) <= Before(Len(chain) + 1)  BY DEF Stored
  <2>2. Before(j + 1) \in Nat
    <3>1. DTSLOTDATALEN \in Nat /\ DTLHDRDATALEN \in Nat  BY DEF DirWalkAssumption
    <3>2. j \in Nat \ {0}  BY <1>2
    <3> QED BY <3>1, <3>2, BeforeGrows
  <2> QED BY <1>1, <1>2, <1>3, <2>1, <2>2 DEF Lesser
<1>5. entry.name \in Seq(Units) /\ DOMAIN entry.name = 1..Len(e.name)
  BY <1>1, <1>2 DEF EndEntry, TypeInv, TypeOK, WalkInv, NameInv, InsideTheBuffer
<1>6. entry.name = e.name
  <2>1. e.name \in Seq(Units \ {0})  BY DEF Entries
  <2>2. Len(entry.name) = Len(e.name)  BY <1>2, <1>5
  <2> QED BY <1>1, <1>4, <1>5, <2>1, <2>2, SMTT(30)
<1>7. UpToNul(entry.name) = entry.name
  BY <1>2, <1>5, <1>6, WholeName
<1> QED BY <1>1, <1>2, <1>5, <1>6, <1>7, NamesSurvive

\* The page in memory is the leaf a as it was written, its first i entries
\* were read, and the next is on its way.
OnLeaf(a) ==
  /\ page = PageAt(dir, a) /\ i \in 0..Len(dir.holds[a])
  /\ Lists(page, dir.chains[a], dir.holds[a])
  /\ at = "name" => /\ i < Len(dir.holds[a])
                    /\ Gathering(dir.chains[a][i + 1], dir.holds[a][i + 1])

LEMMA LeafHolds ==
  ASSUME WrittenAssumption, dir \in Directories, NEW a \in Range(dir.leaves)
  PROVE  /\ dir.holds[a] \in Seq(Entries)
         /\ Len(dir.holds[a]) \in Nat /\ DOMAIN dir.holds[a] = 1..Len(dir.holds[a])
         /\ \A k \in 1..Len(dir.holds[a]) : dir.holds[a][k] \in Entries
<1>1. dir.holds[a] \in Seq(Entries)  BY DEF WrittenAssumption, Entries
<1> QED BY <1>1

\* The entry with the number i + 1, and where it is.
LEMMA LeafEntry ==
  ASSUME DirWalkAssumption, WrittenAssumption, TypeInv, NEW a \in Range(dir.leaves), OnLeaf(a),
         i < Len(dir.holds[a])
  PROVE  /\ dir.holds[a][i + 1] \in Entries
         /\ Stored(page, dir.chains[a][i + 1], dir.holds[a][i + 1])
         /\ Entry(page, i + 1) = {page.slot[dir.chains[a][i + 1][1]]}
<1>0. dir \in Directories /\ i \in Nat  BY DEF TypeInv, WalkInv, PagesOK
<1>1. i + 1 \in DOMAIN dir.holds[a] /\ dir.holds[a][i + 1] \in Entries
  <2>1. /\ Len(dir.holds[a]) \in Nat /\ DOMAIN dir.holds[a] = 1..Len(dir.holds[a])
        /\ \A k \in 1..Len(dir.holds[a]) : dir.holds[a][k] \in Entries
    BY <1>0, LeafHolds
  <2>2. i + 1 \in 1..Len(dir.holds[a])  BY <1>0, <2>1
  <2> QED BY <2>1, <2>2
<1>2. /\ i + 1 \in DOMAIN page.stbl /\ page.stbl[i + 1] = dir.chains[a][i + 1][1]
      /\ Stored(page, dir.chains[a][i + 1], dir.holds[a][i + 1])
  BY <1>1 DEF OnLeaf, Lists
<1>3. dir.chains[a][i + 1][1] \in DOMAIN page.slot
  BY <1>1, <1>2, StoredFacts
<1> QED BY <1>1, <1>2, <1>3 DEF Entry, Slot

LEMMA LeafStart ==
  ASSUME DirWalkAssumption, WrittenAssumption, TypeInv, NEW a \in Range(dir.leaves), OnLeaf(a),
         StartEntry
  PROVE  OnLeaf(a)' /\ Read' = Read
<1>0. page \in PageType /\ page' = page /\ dir' = dir /\ i' = i /\ at' = "name" /\ vin' = vin
  BY DEF StartEntry, TypeInv, TypeOK
<1>1. i < Len(dir.holds[a])
  BY DEF StartEntry, MoreEntries, OnLeaf, Lists
<1>2. PICK chain, e : chain = dir.chains[a][i + 1] /\ e = dir.holds[a][i + 1]
  OBVIOUS
<1>3. e \in Entries /\ Stored(page, chain, e) /\ Entry(page, i + 1) = {page.slot[chain[1]]}
  BY <1>1, <1>2, LeafEntry
<1>4. PICK g : entry' = FirstSlot(page.slot[chain[1]], g)
  BY <1>3 DEF StartEntry
<1>5. Gathering(chain, e)'
  BY <1>0, <1>3, <1>4, StartGathering
<1> QED BY <1>0, <1>1, <1>2, <1>5 DEF OnLeaf, Read

LEMMA LeafGoesOn ==
  ASSUME DirWalkAssumption, WrittenAssumption, TypeInv, NEW a \in Range(dir.leaves), OnLeaf(a),
         NextSlot
  PROVE  OnLeaf(a)' /\ Read' = Read
<1>0. page' = page /\ dir' = dir /\ i' = i /\ at = "name" /\ at' = at /\ vin' = vin
  BY DEF NextSlot
<1>1. i < Len(dir.holds[a])  BY <1>0 DEF OnLeaf
<1>2. PICK chain, e : chain = dir.chains[a][i + 1] /\ e = dir.holds[a][i + 1]
  OBVIOUS
<1>3. e \in Entries /\ Stored(page, chain, e)
  BY <1>1, <1>2, LeafEntry
<1>4. Gathering(chain, e)  BY <1>0, <1>2 DEF OnLeaf
<1>5. Gathering(chain, e)'
  BY <1>3, <1>4, NextGathering
<1> QED BY <1>0, <1>1, <1>2, <1>5 DEF OnLeaf, Read

LEMMA LeafEnds ==
  ASSUME DirWalkAssumption, WrittenAssumption, TypeInv, NEW a \in Range(dir.leaves), OnLeaf(a),
         EndEntry
  PROVE  OnLeaf(a)' /\ Read' = Append(Read, dir.holds[a][i + 1])
<1>0. /\ page' = page /\ dir' = dir /\ i' = i + 1 /\ at = "name" /\ at' = "leaf" /\ i \in Nat
      /\ vin' = Append(vin, [di_number |-> entry.first.inumber,
                             name |-> Unicode_String_to_UTF8_std_string(entry.name)])
  BY DEF EndEntry, TypeInv, TypeOK
<1>1. i < Len(dir.holds[a])  BY <1>0 DEF OnLeaf
<1>2. PICK chain, e : chain = dir.chains[a][i + 1] /\ e = dir.holds[a][i + 1]
  OBVIOUS
<1>3. e \in Entries /\ Stored(page, chain, e)
  BY <1>1, <1>2, LeafEntry
<1>4. Gathering(chain, e)  BY <1>0, <1>2 DEF OnLeaf
<1>5. /\ entry.first.inumber = e.di_number
      /\ ReadName(Unicode_String_to_UTF8_std_string(entry.name)) = e.name
  BY <1>3, <1>4, EndGathering
<1>6. OnLeaf(a)'
  <2>1. Len(dir.holds[a]) \in Nat  BY LeafHolds DEF TypeInv, WalkInv, PagesOK
  <2>2. i + 1 \in 0..Len(dir.holds[a])  BY <1>0, <1>1, <2>1
  <2> QED BY <1>0, <2>2 DEF OnLeaf
<1>7. Read' = Append(Read, e)
  <2>1. vin \in Seq([di_number : Nat, name : Seq(Bytes)])  BY DEF TypeInv, TypeOK
  <2>2. PICK x : x = [di_number |-> entry.first.inumber,
                      name |-> Unicode_String_to_UTF8_std_string(entry.name)]  OBVIOUS
  <2>3. vin' = Append(vin, x)  BY <1>0, <2>2
  <2>4. [di_number |-> x.di_number, name |-> ReadName(x.name)] = e
    BY <1>3, <1>5, <2>2 DEF Entries
  <2>5. PICK N \in Nat : N = Len(vin) /\ DOMAIN vin = 1..N  BY <2>1
  <2>6. /\ DOMAIN vin' = 1..(N + 1) /\ vin'[N + 1] = x
        /\ \A k \in 1..N : vin'[k] = vin[k]
    BY <2>1, <2>3, <2>5
  <2>7. Read' = [k \in 1..(N + 1) |-> IF k = N + 1 THEN e ELSE Read[k]]
    <3>1. Read' = [k \in 1..(N + 1) |-> [di_number |-> vin'[k].di_number,
                                         name |-> ReadName(vin'[k].name)]]
      BY <2>6 DEF Read
    <3>2. \A k \in 1..N : Read[k] = [di_number |-> vin[k].di_number, name |-> ReadName(vin[k].name)]
      BY <2>5 DEF Read
    <3>3. \A k \in 1..(N + 1) : k # N + 1 => k \in 1..N  BY <2>5
    <3>4. \A k \in 1..(N + 1) :
            [di_number |-> vin'[k].di_number, name |-> ReadName(vin'[k].name)]
              = IF k = N + 1 THEN e ELSE Read[k]
      BY <2>4, <2>6, <3>2, <3>3
    <3> QED BY <3>1, <3>4
  <2>8. Read = [k \in 1..N |-> Read[k]]  BY <2>5 DEF Read
  <2>9. PICK s : s = Read  OBVIOUS
  <2>10. PICK X : s \in Seq(X) /\ e \in X
    <3> DEFINE X == {Read[k] : k \in 1..N} \cup {e}
    <3>1. s \in [1..N -> X]  BY <2>8, <2>9
    <3>2. s \in Seq(X)  BY <2>5, <3>1
    <3>3. e \in X  OBVIOUS
    <3> HIDE DEF X
    <3> QED BY <3>2, <3>3
  <2>11. DOMAIN s = 1..N /\ Len(s) = N
    <3>1. DOMAIN s = 1..N  BY <2>5, <2>9 DEF Read
    <3>2. DOMAIN s = 1..Len(s) /\ Len(s) \in Nat  BY <2>10
    <3> QED BY <2>5, <3>1, <3>2
  <2>12. /\ Append(s, e) \in Seq(X) /\ Len(Append(s, e)) = N + 1
         /\ \A k \in 1..N : Append(s, e)[k] = s[k]
         /\ Append(s, e)[N + 1] = e
    BY <2>11, <2>10, AppendProperties
  <2>13. /\ Append(s, e) \in [1..(N + 1) -> X]
         /\ \A k \in 1..(N + 1) : Append(s, e)[k] = IF k = N + 1 THEN e ELSE s[k]
    <3>1. \A k \in 1..(N + 1) : k # N + 1 => k \in 1..N  BY <2>5
    <3> QED BY <2>12, <3>1, LenProperties
  <2>14. Append(s, e) = [k \in 1..(N + 1) |-> IF k = N + 1 THEN e ELSE s[k]]
    BY <2>13
  <2> QED BY <2>7, <2>14, <2>9
<1> QED BY <1>2, <1>6, <1>7

\* The leaves ls are listed, and of the leaf a the first i entries.
Gathered(ls, a) == Read = Written(ls) \o SubSeq(dir.holds[a], 1, i)

LEMMA WrittenParts ==
  ASSUME WrittenAssumption, dir \in Directories, NEW ls \in Seq(Range(dir.leaves))
  PROVE  /\ [k \in DOMAIN ls |-> dir.holds[ls[k]]] \in Seq(Seq(Entries))
         /\ Len([k \in DOMAIN ls |-> dir.holds[ls[k]]]) = Len(ls)
         /\ Written(ls) \in Seq(Entries)
<1>0. PICK parts : parts = [k \in DOMAIN ls |-> dir.holds[ls[k]]]  OBVIOUS
<1>1. Len(ls) \in Nat /\ DOMAIN ls = 1..Len(ls) /\ \A k \in 1..Len(ls) : ls[k] \in Range(dir.leaves)
  OBVIOUS
<1>2. \A k \in 1..Len(ls) : dir.holds[ls[k]] \in Seq(Entries)
  BY <1>1, LeafHolds
<1>3. parts \in [1..Len(ls) -> Seq(Entries)]
  BY <1>0, <1>1, <1>2
<1>4. parts \in Seq(Seq(Entries)) /\ Len(parts) = Len(ls)
  BY <1>1, <1>3
<1>5. FlattenSeq(parts) \in Seq(Entries)
  BY <1>4, FlattenRange
<1> QED BY <1>0, <1>4, <1>5 DEF Written

LEMMA WrittenNothing == Written(<< >>) = << >>
<1>1. [k \in DOMAIN << >> |-> dir.holds[<< >>[k]]] = << >>  OBVIOUS
<1> QED BY <1>1, FlattenNothing DEF Written

LEMMA WrittenAppend ==
  ASSUME WrittenAssumption, dir \in Directories, NEW ls \in Seq(Range(dir.leaves)),
         NEW a \in Range(dir.leaves)
  PROVE  Written(Append(ls, a)) = Written(ls) \o dir.holds[a]
<1>0. PICK parts : parts = [k \in DOMAIN ls |-> dir.holds[ls[k]]]  OBVIOUS
<1>1. PICK t : t = Append(ls, a)  OBVIOUS
<1>2. /\ parts \in Seq(Seq(Entries)) /\ Len(parts) = Len(ls)
  BY <1>0, WrittenParts
<1>3. dir.holds[a] \in Seq(Entries)  BY LeafHolds
<1>4. PICK x : x = dir.holds[a]  OBVIOUS
<1>5. PICK all : all = [k \in DOMAIN t |-> dir.holds[t[k]]]  OBVIOUS
<1>6. PICK N \in Nat : N = Len(ls) /\ DOMAIN ls = 1..N  OBVIOUS
<1>7. DOMAIN t = 1..(N + 1) /\ t[N + 1] = a /\ \A k \in 1..N : t[k] = ls[k]
  BY <1>1, <1>6
<1>8. DOMAIN all = 1..(N + 1) /\ all[N + 1] = x /\ \A k \in 1..N : all[k] = parts[k]
  <2>1. DOMAIN all = 1..(N + 1)  BY <1>5, <1>7
  <2>2. N + 1 \in 1..(N + 1) /\ \A k \in 1..N : k \in 1..(N + 1)  OBVIOUS
  <2> QED BY <1>0, <1>4, <1>5, <1>6, <1>7, <2>1, <2>2
<1>9. all = Append(parts, x)
  <2>1. /\ Append(parts, x) \in Seq(Seq(Entries)) /\ Len(Append(parts, x)) = N + 1
        /\ \A k \in 1..N : Append(parts, x)[k] = parts[k]
        /\ Append(parts, x)[N + 1] = x
    BY <1>2, <1>3, <1>4, <1>6, AppendProperties
  <2>2. \A k \in 1..(N + 1) : k # N + 1 => k \in 1..N  OBVIOUS
  <2>3. Append(parts, x) \in [1..(N + 1) -> Seq(Entries)]  BY <2>1, LenProperties
  <2>4. \A k \in 1..(N + 1) : all[k] = Append(parts, x)[k]  BY <1>8, <2>1, <2>2
  <2>5. all = [k \in 1..(N + 1) |-> all[k]]  BY <1>5, <1>8
  <2>6. Append(parts, x) = [k \in 1..(N + 1) |-> Append(parts, x)[k]]  BY <2>3
  <2> QED BY <2>4, <2>5, <2>6
<1>10. FlattenSeq(all) = FlattenSeq(parts) \o x
  BY <1>2, <1>3, <1>4, <1>9, FlattenAppend
<1> QED BY <1>0, <1>1, <1>4, <1>5, <1>10 DEF Written

\* One more of a sequence.
LEMMA JoinedNext ==
  ASSUME NEW D, NEW x \in Seq(D), NEW es \in Seq(D), NEW n \in Nat, n < Len(es)
  PROVE  Append(x \o SubSeq(es, 1, n), es[n + 1]) = x \o SubSeq(es, 1, n + 1)
OBVIOUS

LEMMA JoinedFirst ==
  ASSUME NEW D, NEW x \in Seq(D), NEW es \in Seq(D)
  PROVE  x \o SubSeq(es, 1, 0) = x /\ x \o SubSeq(es, 1, Len(es)) = x \o es
OBVIOUS

\* Reading a leaf lists its entries one by one.
LEMMA LeafStep ==
  ASSUME DirWalkAssumption, WrittenAssumption, TypeInv, NEW a \in Range(dir.leaves), OnLeaf(a),
         NEW ls \in Seq(Range(dir.leaves)), Gathered(ls, a),
         StartEntry \/ NextSlot \/ EndEntry
  PROVE  OnLeaf(a)' /\ Gathered(ls, a)' /\ at' \in {"leaf", "name"} /\ dir' = dir
<1>0. dir \in Directories /\ i \in Nat  BY DEF TypeInv, WalkInv, PagesOK
<1>1. CASE StartEntry
  <2>1. dir' = dir /\ i' = i /\ at' = "name"  BY <1>1 DEF StartEntry
  <2> QED BY <1>1, <2>1, LeafStart DEF Gathered, Written
<1>2. CASE NextSlot
  <2>1. dir' = dir /\ i' = i /\ at' = "name"  BY <1>2 DEF NextSlot
  <2> QED BY <1>2, <2>1, LeafGoesOn DEF Gathered, Written
<1>3. CASE EndEntry
  <2>1. dir' = dir /\ i' = i + 1 /\ at = "name" /\ at' = "leaf"  BY <1>3 DEF EndEntry
  <2>2. OnLeaf(a)' /\ Read' = Append(Read, dir.holds[a][i + 1])
    BY <1>3, LeafEnds
  <2>3. PICK x, es : x = Written(ls) /\ es = dir.holds[a]  OBVIOUS
  <2>4. x \in Seq(Entries) /\ es \in Seq(Entries)
    BY <1>0, <2>3, WrittenParts, LeafHolds
  <2>5. i < Len(es)  BY <2>1, <2>3 DEF OnLeaf
  <2>6. Append(x \o SubSeq(es, 1, i), es[i + 1]) = x \o SubSeq(es, 1, i + 1)
    <3>1. PICK n \in Nat : n = i  BY <1>0
    <3>2. Append(x \o SubSeq(es, 1, n), es[n + 1]) = x \o SubSeq(es, 1, n + 1)
      BY <2>4, <2>5, <3>1, JoinedNext
    <3> QED BY <3>1, <3>2
  <2>7. Written(ls)' = x  BY <2>1, <2>3 DEF Written
  <2>8. Gathered(ls, a)'
    BY <2>1, <2>2, <2>3, <2>6, <2>7 DEF Gathered
  <2> QED BY <2>1, <2>2, <2>8
<1> QED BY <1>1, <1>2, <1>3

\* A leaf begins with nothing of it, and ends with all of it.
LEMMA LeafBegun ==
  ASSUME WrittenAssumption, dir \in Directories, NEW a \in Range(dir.leaves),
         NEW ls \in Seq(Range(dir.leaves)), dir' = dir, i' = 0, Read' = Written(ls)
  PROVE  Gathered(ls, a)'
<1>1. Written(ls) \in Seq(Entries) /\ dir.holds[a] \in Seq(Entries)
  BY WrittenParts, LeafHolds
<1>2. Written(ls) \o SubSeq(dir.holds[a], 1, 0) = Written(ls)
  BY <1>1, JoinedFirst
<1>3. Written(ls)' = Written(ls)  BY DEF Written
<1> QED BY <1>2, <1>3 DEF Gathered

LEMMA LeafFinished ==
  ASSUME DirWalkAssumption, WrittenAssumption, TypeInv, NEW a \in Range(dir.leaves), OnLeaf(a),
         NEW ls \in Seq(Range(dir.leaves)), Gathered(ls, a)
  PROVE  /\ ~ Throws
         /\ ~ MoreEntries => Read = Written(Append(ls, a))
<1>0. dir \in Directories /\ i \in Nat  BY DEF TypeInv, WalkInv, PagesOK
<1>1. Len(dir.holds[a]) \in Nat /\ dir.holds[a] \in Seq(Entries) /\ Written(ls) \in Seq(Entries)
  BY <1>0, LeafHolds, WrittenParts
<1>2. page.nextindex = Len(dir.holds[a]) /\ i <= Len(dir.holds[a])
  BY <1>1 DEF OnLeaf, Lists
<1>3. ~ Throws  BY <1>1, <1>2 DEF Throws
<1>4. ASSUME ~ MoreEntries PROVE Read = Written(Append(ls, a))
  <2>1. i = Len(dir.holds[a])  BY <1>0, <1>1, <1>2, <1>4 DEF MoreEntries
  <2>2. Written(ls) \o SubSeq(dir.holds[a], 1, Len(dir.holds[a])) = Written(ls) \o dir.holds[a]
    BY <1>1, JoinedFirst
  <2> QED BY <1>0, <2>1, <2>2, WrittenAppend DEF Gathered
<1> QED BY <1>3, <1>4

LEMMA LeafUnchanged ==
  ASSUME UNCHANGED vars, NEW a, NEW ls, OnLeaf(a), Gathered(ls, a)
  PROVE  OnLeaf(a)' /\ Gathered(ls, a)'
<1>1. /\ dir' = dir /\ at' = at /\ page' = page /\ i' = i /\ entry' = entry /\ vin' = vin
  BY DEF vars
<1>2. Gathered(ls, a)'  BY <1>1 DEF Gathered, Written, Read
<1>3. ASSUME NEW chain, NEW e, Gathering(chain, e) PROVE Gathering(chain, e)'
  BY <1>1, <1>3 DEF Gathering
<1>4. OnLeaf(a)'  BY <1>1, <1>3 DEF OnLeaf
<1> QED BY <1>2, <1>4

----------------------------------------------------------------------------
(* Nothing is invented                                                     *)

\* The leaves ls were left by their links, the last of them to the leaf a; the
\* link to the end of the device leads a page to itself, because nothing is
\* read there.
Final(a)  == PageAt(dir, a).next = 0 \/ Refused(PageAt(dir, a).next)
Linkto(a) == IF PageAt(dir, a).next = dir.blocks THEN a ELSE PageAt(dir, a).next
Walked(ls, a) ==
  \A k \in 1..Len(ls) :
    ~ Final(ls[k]) /\ Linkto(ls[k]) = IF k < Len(ls) THEN ls[k + 1] ELSE a

Harmless == dir.harm \in {"none", "link"} /\ \A p \in PagesHere : ~ LeadsOff(p)

KnownInv ==
  Harmless =>
    /\ at \in {"inode", "descend"} => Read = << >> /\ i = 0
    /\ at = "descend" => page \in PagesHere /\ ~ page.leaf
    /\ at \in {"leaf", "name"} =>
         \E a \in Range(dir.leaves) : \E ls \in Seq(Range(dir.leaves)) :
           OnLeaf(a) /\ Gathered(ls, a) /\ Walked(ls, a)
    /\ at = "done" =>
         \E ls \in Seq(Range(dir.leaves)) : IsInjective(ls) /\ Read = Written(ls)

\* A walk that comes to an end has been nowhere twice: it would have gone on
\* as it did before.
LEMMA EndsOnce ==
  ASSUME NEW X, NEW ls \in Seq(X), NEW a \in X, Walked(ls, a), Final(a)
  PROVE  IsInjective(Append(ls, a))
<1>1. PICK t : t = Append(ls, a)  OBVIOUS
<1>2. PICK n \in Nat : n = Len(ls) + 1  OBVIOUS
<1>3. /\ DOMAIN t = 1..n /\ t[n] = a /\ n # 0
      /\ \A k \in 1..Len(ls) : t[k] = ls[k]
  BY <1>1, <1>2
<1>4. \A k \in 1..n : k # n => ~ Final(t[k]) /\ k + 1 \in 1..n /\ Linkto(t[k]) = t[k + 1]
  <2> TAKE k \in 1..n
  <2> HAVE k # n
  <2>1. k \in 1..Len(ls) /\ k + 1 \in 1..n  BY <1>2
  <2>2. t[k + 1] = IF k < Len(ls) THEN ls[k + 1] ELSE a
    <3>1. CASE k < Len(ls)
      <4>1. k + 1 \in 1..Len(ls)  BY <2>1, <3>1
      <4> QED BY <1>3, <3>1, <4>1
    <3>2. CASE ~ (k < Len(ls))
      <4>1. k + 1 = n  BY <1>2, <2>1, <3>2
      <4> QED BY <1>3, <3>2, <4>1
    <3> QED BY <3>1, <3>2
  <2> QED BY <1>3, <2>1, <2>2 DEF Walked
<1> DEFINE Bad == {d \in Nat : \E p, q \in 1..n : p < q /\ t[p] = t[q] /\ d = n - q}
<1>5. Bad = {}
  <2> SUFFICES ASSUME Bad # {} PROVE FALSE  OBVIOUS
  <2>1. PICK d \in Bad : \A k \in Bad : d <= k
    <3>1. Bad \in SUBSET Nat  OBVIOUS
    <3> HIDE DEF Bad
    <3> QED BY <3>1, Least
  <2>2. PICK p, q \in 1..n : p < q /\ t[p] = t[q] /\ d = n - q
    OBVIOUS
  <2>3. CASE q = n
    <3>1. p # n  BY <2>2, <2>3
    <3> QED BY <1>3, <1>4, <2>2, <2>3, <3>1
  <2>4. CASE q # n
    <3>1. p # n  BY <2>2
    <3>2. t[p + 1] = t[q + 1] /\ p + 1 \in 1..n /\ q + 1 \in 1..n
      BY <1>4, <2>2, <2>4, <3>1
    <3>3. p + 1 < q + 1 /\ n - (q + 1) \in Nat /\ ~ (d <= n - (q + 1))
      BY <2>2, <2>4, <3>2
    <3>4. n - (q + 1) \in Bad  BY <3>2, <3>3
    <3> QED BY <2>1, <3>3, <3>4
  <2> QED BY <2>3, <2>4
<1>6. ASSUME NEW p \in 1..n, NEW q \in 1..n, t[p] = t[q], p # q PROVE FALSE
  <2>1. CASE p < q
    <3>1. n - q \in Nat  OBVIOUS
    <3> QED BY <1>5, <1>6, <2>1, <3>1
  <2>2. CASE q < p
    <3>1. n - p \in Nat  OBVIOUS
    <3> QED BY <1>5, <1>6, <2>2, <3>1
  <2> QED BY <1>6, <2>1, <2>2
<1> QED BY <1>1, <1>3, <1>6 DEF IsInjective

\* What the leaves of a list hold is in the directory, and if no leaf is in it
\* twice, nothing is.
LEMMA WrittenWithin ==
  ASSUME WrittenAssumption, dir \in Directories, NEW ls \in Seq(Range(dir.leaves))
  PROVE  Range(Written(ls)) \subseteq Range(Written(dir.leaves))
<1>1. PICK parts : parts = [k \in DOMAIN ls |-> dir.holds[ls[k]]]  OBVIOUS
<1>2. PICK all : all = [k \in DOMAIN dir.leaves |-> dir.holds[dir.leaves[k]]]  OBVIOUS
<1>3. dir.leaves \in Seq(Range(dir.leaves))
  <2>1. dir.leaves \in Seq(0..(dir.blocks - 1))  BY DEF WrittenAssumption
  <2>2. PICK l : l = dir.leaves  OBVIOUS
  <2>3. l \in Seq(Range(l))  BY <2>1, <2>2, SMTT(30) DEF Range
  <2> QED BY <2>2, <2>3
<1>4. parts \in Seq(Seq(Entries)) /\ all \in Seq(Seq(Entries))
  BY <1>1, <1>2, <1>3, WrittenParts
<1>5. /\ Range(Written(ls)) = UNION {Range(parts[k]) : k \in DOMAIN parts}
      /\ Range(Written(dir.leaves)) = UNION {Range(all[k]) : k \in DOMAIN all}
  <2>1. Written(ls) = FlattenSeq(parts) /\ Written(dir.leaves) = FlattenSeq(all)
    BY <1>1, <1>2 DEF Written
  <2>2. Range(FlattenSeq(parts)) = UNION {Range(parts[k]) : k \in DOMAIN parts}
    BY <1>4, FlattenRange
  <2>3. Range(FlattenSeq(all)) = UNION {Range(all[k]) : k \in DOMAIN all}
    BY <1>4, FlattenRange
  <2> QED BY <2>1, <2>2, <2>3
<1>6. ASSUME NEW k \in DOMAIN parts
      PROVE  \E m \in DOMAIN all : parts[k] = all[m]
  <2>1. k \in DOMAIN ls /\ parts[k] = dir.holds[ls[k]]  BY <1>1
  <2>2. ls[k] \in Range(dir.leaves)  BY <2>1
  <2>3. PICK m \in DOMAIN dir.leaves : dir.leaves[m] = ls[k]  BY <2>2 DEF Range
  <2> QED BY <1>2, <2>1, <2>3
<1> QED BY <1>5, <1>6

LEMMA WrittenOnce ==
  ASSUME WrittenAssumption, dir \in Directories, Harmless,
         NEW ls \in Seq(Range(dir.leaves)), IsInjective(ls)
  PROVE  IsInjective(Written(ls))
<1>1. PICK parts : parts = [k \in DOMAIN ls |-> dir.holds[ls[k]]]  OBVIOUS
<1>2. parts \in Seq(Seq(Entries)) /\ Len(parts) = Len(ls)
  BY <1>1, WrittenParts
<1>3. ASSUME NEW k \in 1..Len(parts), NEW m \in 1..Len(parts),
             NEW j \in 1..Len(parts[k]), NEW l \in 1..Len(parts[m]), parts[k][j] = parts[m][l]
      PROVE  k = m /\ j = l
  <2>1. /\ k \in DOMAIN ls /\ m \in DOMAIN ls
        /\ parts[k] = dir.holds[ls[k]] /\ parts[m] = dir.holds[ls[m]]
    BY <1>1, <1>2
  <2>2. ls[k] \in Range(dir.leaves) /\ ls[m] \in Range(dir.leaves)  BY <2>1
  <2>3. j \in DOMAIN dir.holds[ls[k]] /\ l \in DOMAIN dir.holds[ls[m]]
    BY <2>1, <2>2, LeafHolds
  <2>4. dir.holds[ls[k]][j] = dir.holds[ls[m]][l]  BY <1>3, <2>1
  <2>5. \A a, b \in Range(dir.leaves) : \A x \in DOMAIN dir.holds[a], y \in DOMAIN dir.holds[b] :
          dir.holds[a][x] = dir.holds[b][y] => a = b /\ x = y
    <3>1. ListsAll(dir)  BY DEF WrittenAssumption, Harmless
    <3> QED BY <3>1, Zenon DEF ListsAll
  <2>6. ls[k] = ls[m] /\ j = l  BY <2>2, <2>3, <2>4, <2>5, ZenonT(40)
  <2> QED BY <2>1, <2>6 DEF IsInjective
<1>4. Distinct(parts)  BY <1>3 DEF Distinct
<1>5. IsInjective(FlattenSeq(parts))  BY <1>2, <1>4, FlattenInjective
<1> QED BY <1>1, <1>5 DEF Written

\* Every page that says it is a leaf is one, and its link leads to one.
LEMMA LeavesAreListed ==
  ASSUME DirWalkAssumption, WrittenAssumption, dir \in Directories, Harmless
  PROVE  /\ \A a \in 0..(dir.blocks - 1) : PageAt(dir, a).leaf => a \in Range(dir.leaves)
         /\ \A a \in Range(dir.leaves) :
              /\ Lists(PageAt(dir, a), dir.chains[a], dir.holds[a])
              /\ PageAt(dir, a).next \in DOMAIN dir.page => PageAt(dir, a).next \in Range(dir.leaves)
         /\ \A a \in DOMAIN dir.page : a \in 0..(dir.blocks - 1) /\ PageAt(dir, a) = dir.page[a]
<1>1. ListsAll(dir)  BY DEF WrittenAssumption, Harmless
<1>2. \A a \in 0..(dir.blocks - 1) : PageAt(dir, a).leaf => a \in Range(dir.leaves)
  BY <1>1, Zenon DEF ListsAll
<1>3. \A a \in Range(dir.leaves) :
        /\ Lists(PageAt(dir, a), dir.chains[a], dir.holds[a])
        /\ PageAt(dir, a).next \in DOMAIN dir.page => PageAt(dir, a).next \in Range(dir.leaves)
  BY <1>1, Zenon DEF ListsAll
<1>4. \A a \in DOMAIN dir.page : a \in 0..(dir.blocks - 1) /\ a # 0
  BY DEF DirWalkAssumption
<1>5. \A a \in DOMAIN dir.page : PageAt(dir, a) = dir.page[a]  BY <1>4 DEF PageAt
<1> QED BY <1>2, <1>4, <1>3, <1>5

\* The first leaf of a walk.
LEMMA KnownArrives ==
  ASSUME DirWalkAssumption, WrittenAssumption, dir \in Directories, Harmless,
         NEW a \in 0..(dir.blocks - 1), dir' = dir, page' = PageAt(dir, a), page'.leaf,
         at' = "leaf", i' = 0, Read' = << >>
  PROVE  KnownInv'
<1>1. a \in Range(dir.leaves) /\ Lists(page', dir.chains[a], dir.holds[a])
  BY LeavesAreListed
<1>2. << >> \in Seq(Range(dir.leaves)) /\ Len(<< >>) = 0  OBVIOUS
<1>3. Gathered(<< >>, a)'
  BY <1>1, <1>2, WrittenNothing, LeafBegun
<1>4. Walked(<< >>, a)'  BY <1>2 DEF Walked
<1>5. OnLeaf(a)'
  <2>1. Len(dir.holds[a]) \in Nat  BY <1>1, LeafHolds
  <2> QED BY <1>1, <2>1 DEF OnLeaf
<1> QED BY <1>1, <1>2, <1>3, <1>4, <1>5 DEF KnownInv

LEMMA KnownInit == Init => KnownInv
BY DEF Init, KnownInv, Read

LEMMA KnownReadInode ==
  ASSUME DirWalkAssumption, WrittenAssumption, TypeInv, KnownInv, ReadInode
  PROVE  KnownInv'
<1> SUFFICES ASSUME Harmless' PROVE KnownInv'
  BY DEF KnownInv
<1>0. /\ dir \in Directories /\ dir' = dir /\ page' = dir.root /\ i' = i /\ vin' = vin
      /\ at' = IF dir.root.leaf THEN "leaf" ELSE "descend"
  BY DEF ReadInode, TypeInv, WalkInv, PagesOK
<1>1. Harmless  BY <1>0 DEF Harmless, PagesHere, LeadsOff
<1>2. Read = << >> /\ i = 0  BY <1>1 DEF KnownInv, ReadInode
<1>3. Read' = << >> /\ i' = 0  BY <1>0, <1>2 DEF Read
<1>4. CASE dir.root.leaf
  <2>1. 0 \in 0..(dir.blocks - 1) /\ page' = PageAt(dir, 0)
    BY <1>0 DEF PageAt, DirWalkAssumption
  <2>2. at' = "leaf" /\ page'.leaf  BY <1>0, <1>4
  <2> QED BY <1>0, <1>1, <1>3, <2>1, <2>2, KnownArrives
<1>5. CASE ~ dir.root.leaf
  BY <1>0, <1>3, <1>5 DEF KnownInv, PagesHere
<1> QED BY <1>4, <1>5

LEMMA KnownDescend ==
  ASSUME DirWalkAssumption, WrittenAssumption, TypeInv, KnownInv, Descend
  PROVE  KnownInv'
<1> SUFFICES ASSUME Harmless' PROVE KnownInv'
  BY DEF KnownInv
<1> PICK pxd \in Entry(page, 1) :
       IF depth = StackDepth THEN Overflow
       ELSE IF ~ Sane(pxd) THEN GiveUp
       ELSE /\ page' \in ReadPage(pxd.addr, Range(dir.page) \cup {Blank} \cup Foreign)
            /\ at' = IF page'.leaf THEN "leaf" ELSE "descend"
            /\ depth' = depth + 1
            /\ UNCHANGED << dir, i, entry, vin >>
  BY DEF Descend
<1>0. dir \in Directories /\ page \in PageType /\ dir' = dir /\ i' = i /\ vin' = vin
  BY DEF Descend, Overflow, GiveUp, TypeInv, WalkInv, PagesOK
<1>1. Harmless  BY <1>0 DEF Harmless, PagesHere, LeadsOff
<1>2. Read = << >> /\ i = 0  BY <1>1 DEF KnownInv, Descend
<1>3. Read' = << >> /\ i' = 0  BY <1>0, <1>2 DEF Read
<1>4. CASE Overflow
  BY <1>4 DEF Overflow, KnownInv
<1>5. CASE GiveUp
  <2>1. << >> \in Seq(Range(dir.leaves)) /\ IsInjective(<< >>)  BY DEF IsInjective
  <2>2. Written(<< >>)' = << >>  BY <1>0, WrittenNothing DEF Written
  <2>3. at' = "done"  BY <1>5 DEF GiveUp
  <2> QED BY <1>0, <1>3, <2>1, <2>2, <2>3 DEF KnownInv
<1>6. CASE /\ Sane(pxd)
           /\ page' \in ReadPage(pxd.addr, Range(dir.page) \cup {Blank} \cup Foreign)
           /\ at' = IF page'.leaf THEN "leaf" ELSE "descend"
  <2>1. pxd.addr \in 1..dir.blocks
    <3>1. pxd \in SlotType  BY <1>0, EntryIsTyped
    <3> QED BY <1>0, <1>6, <3>1 DEF Sane, SlotType, DirWalkAssumption
  <2>2. pxd.addr # dir.blocks
    <3>1. at = "descend"  BY DEF Descend
    <3>2. page \in PagesHere /\ ~ page.leaf  BY <1>1, <3>1 DEF KnownInv
    <3> QED BY <1>1, <3>2 DEF Harmless, LeadsOff
  <2>3. DOMAIN dir.page = 1..(dir.blocks - 1) /\ dir.blocks \in Nat \ {0}
    BY <1>0 DEF DirWalkAssumption
  <2>4. PICK a \in DOMAIN dir.page : page' = dir.page[a]
    <3>1. pxd.addr \in DOMAIN dir.page  BY <2>1, <2>2, <2>3
    <3> QED BY <1>6, <2>2, <3>1 DEF ReadPage
  <2>5. CASE page'.leaf
    <3>1. a \in 0..(dir.blocks - 1) /\ page' = PageAt(dir, a)
      BY <1>0, <1>1, <2>4, LeavesAreListed
    <3>2. at' = "leaf"  BY <1>6, <2>5
    <3> QED BY <1>0, <1>1, <1>3, <2>5, <3>1, <3>2, KnownArrives
  <2>6. CASE ~ page'.leaf
    <3>1. page' \in PagesHere'
      BY <1>0, <2>4 DEF PagesHere, Range
    <3> QED BY <1>3, <1>6, <2>6, <3>1 DEF KnownInv
  <2> QED BY <2>5, <2>6
<1> QED BY <1>4, <1>5, <1>6

LEMMA KnownInLeaf ==
  ASSUME DirWalkAssumption, WrittenAssumption, TypeInv, KnownInv,
         StartEntry \/ NextSlot \/ EndEntry
  PROVE  KnownInv'
<1> SUFFICES ASSUME Harmless' PROVE KnownInv'
  BY DEF KnownInv
<1>0. dir' = dir /\ at \in {"leaf", "name"}
  BY DEF StartEntry, NextSlot, EndEntry
<1>1. Harmless  BY <1>0 DEF Harmless, PagesHere, LeadsOff
<1>2. PICK a \in Range(dir.leaves) : \E ls \in Seq(Range(dir.leaves)) :
        OnLeaf(a) /\ Gathered(ls, a) /\ Walked(ls, a)
  BY <1>0, <1>1 DEF KnownInv
<1>3. PICK ls \in Seq(Range(dir.leaves)) : OnLeaf(a) /\ Gathered(ls, a) /\ Walked(ls, a)
  BY <1>2
<1>4. OnLeaf(a)' /\ Gathered(ls, a)' /\ at' \in {"leaf", "name"}
  BY <1>3, LeafStep
<1>5. Walked(ls, a)'  BY <1>0, <1>3 DEF Walked, Final, Linkto, Refused
<1> QED BY <1>0, <1>4, <1>5 DEF KnownInv

LEMMA KnownNextLeaf ==
  ASSUME DirWalkAssumption, WrittenAssumption, TypeInv, KnownInv, NextLeaf \/ RefuseLeaf
  PROVE  KnownInv'
<1> SUFFICES ASSUME Harmless' PROVE KnownInv'
  BY DEF KnownInv
<1>0. /\ dir \in Directories /\ page \in PageType /\ dir' = dir /\ at = "leaf" /\ vin' = vin
  BY DEF NextLeaf, RefuseLeaf, Overflow, GiveUp, TypeInv, WalkInv, PagesOK
<1>1. Harmless  BY <1>0 DEF Harmless, PagesHere, LeadsOff
<1>2. PICK a \in Range(dir.leaves) : \E ls \in Seq(Range(dir.leaves)) :
        OnLeaf(a) /\ Gathered(ls, a) /\ Walked(ls, a)
  BY <1>0, <1>1 DEF KnownInv
<1>3. PICK ls \in Seq(Range(dir.leaves)) : OnLeaf(a) /\ Gathered(ls, a) /\ Walked(ls, a)
  BY <1>2
<1>4. NextLeaf /\ ~ MoreEntries
  BY <1>3, LeafFinished DEF NextLeaf, RefuseLeaf
<1>5. PICK more \in Seq(Range(dir.leaves)) : more = Append(ls, a)
  BY AppendProperties
<1>6. Read = Written(more)
  BY <1>3, <1>4, <1>5, LeafFinished
<1>7. Read' = Written(more) /\ Written(more)' = Written(more)
  BY <1>0, <1>6 DEF Read, Written
<1>8. page = PageAt(dir, a)  BY <1>3 DEF OnLeaf
<1>9. CASE page.next = 0 \/ Refused(page.next)
  <2>1. Final(a)  BY <1>8, <1>9 DEF Final
  <2>2. IsInjective(more)  BY <1>3, <1>5, <2>1, EndsOnce
  <2>3. at' = "done"  BY <1>4, <1>9 DEF NextLeaf, GiveUp
  <2> QED BY <1>0, <1>5, <1>7, <2>2, <2>3 DEF KnownInv
<1>10. CASE ~ (page.next = 0 \/ Refused(page.next))
  <2>1. CASE depth = StackDepth
    BY <1>4, <1>10, <2>1 DEF NextLeaf, Overflow, KnownInv
  <2>2. CASE depth # StackDepth
    <3>1. page' \in ReadPage(page.next, {page}) /\ i' = 0 /\ at' = "leaf"
      BY <1>0, <1>4, <1>10, <2>2 DEF NextLeaf
    <3>2. page.next \in 1..dir.blocks /\ dir.blocks \in Nat
      BY <1>0, <1>10 DEF Refused, PageType, DirWalkAssumption
    <3>3. DOMAIN dir.page = 1..(dir.blocks - 1)  BY <1>0 DEF DirWalkAssumption
    <3>4. PICK b \in Range(dir.leaves) : b = Linkto(a) /\ page' = PageAt(dir, b)
      <4>1. CASE page.next = dir.blocks
        BY <1>8, <3>1, <4>1 DEF ReadPage, Linkto
      <4>2. CASE page.next # dir.blocks
        <5>1. page.next \in DOMAIN dir.page  BY <3>2, <3>3, <4>2
        <5>2. /\ page.next \in Range(dir.leaves)
              /\ PageAt(dir, page.next) = dir.page[page.next]
          BY <1>0, <1>1, <1>8, <5>1, LeavesAreListed
        <5>3. page' = PageAt(dir, page.next)  BY <3>1, <4>2, <5>2 DEF ReadPage
        <5> QED BY <1>8, <4>2, <5>2, <5>3 DEF Linkto
      <4> QED BY <4>1, <4>2
    <3>5. OnLeaf(b)'
      <4>1. Lists(page', dir.chains[b], dir.holds[b])
        BY <1>0, <1>1, <3>4, LeavesAreListed
      <4>2. Len(dir.holds[b]) \in Nat  BY <1>0, LeafHolds
      <4> QED BY <1>0, <3>1, <3>4, <4>1, <4>2 DEF OnLeaf
    <3>6. Gathered(more, b)'
      BY <1>0, <1>7, <3>1, LeafBegun
    <3>7. Walked(more, b)
      <4>0. PICK N \in Nat : N = Len(ls)  OBVIOUS
      <4>1. Len(more) = N + 1 /\ more[N + 1] = a /\ \A k \in 1..N : more[k] = ls[k]
        BY <1>5, <4>0
      <4>2. ~ Final(a)  BY <1>8, <1>10 DEF Final
      <4> SUFFICES ASSUME NEW k \in 1..(N + 1)
                   PROVE  ~ Final(more[k]) /\ Linkto(more[k]) = IF k < N + 1 THEN more[k + 1] ELSE b
        BY <4>1 DEF Walked
      <4>3. CASE k = N + 1
        BY <3>4, <4>1, <4>2, <4>3
      <4>4. CASE k # N + 1
        <5>1. k \in 1..N /\ k < N + 1  BY <4>4
        <5>2. ~ Final(ls[k]) /\ Linkto(ls[k]) = IF k < N THEN ls[k + 1] ELSE a
          BY <1>3, <4>0, <5>1 DEF Walked
        <5>3. more[k + 1] = IF k < N THEN ls[k + 1] ELSE a
          <6>1. CASE k < N
            <7>1. k + 1 \in 1..N  BY <5>1, <6>1
            <7> QED BY <4>1, <6>1, <7>1
          <6>2. CASE ~ (k < N)
            <7>1. k = N  BY <5>1, <6>2
            <7> QED BY <4>1, <6>2, <7>1
          <6> QED BY <6>1, <6>2
        <5> QED BY <4>1, <5>1, <5>2, <5>3
      <4> QED BY <4>3, <4>4
    <3>8. Walked(more, b)'  BY <1>0, <3>7 DEF Walked, Final, Linkto, Refused
    <3> QED BY <1>0, <1>5, <3>1, <3>5, <3>6, <3>8 DEF KnownInv
  <2> QED BY <2>1, <2>2
<1> QED BY <1>9, <1>10

LEMMA KnownStep ==
  DirWalkAssumption /\ WrittenAssumption /\ TypeInv /\ KnownInv /\ [Next]_vars => KnownInv'
<1> SUFFICES ASSUME DirWalkAssumption, WrittenAssumption, TypeInv, KnownInv, [Next]_vars
             PROVE  KnownInv'
  OBVIOUS
<1>1. CASE UNCHANGED vars
  <2> SUFFICES ASSUME Harmless' PROVE KnownInv'
    BY DEF KnownInv
  <2>1. /\ dir' = dir /\ at' = at /\ page' = page /\ i' = i /\ entry' = entry /\ vin' = vin
    BY <1>1 DEF vars
  <2>2. Harmless /\ Read' = Read  BY <2>1 DEF Harmless, PagesHere, LeadsOff, Read
  <2>3. ASSUME NEW a, NEW ls, OnLeaf(a), Gathered(ls, a), Walked(ls, a)
        PROVE  OnLeaf(a)' /\ Gathered(ls, a)' /\ Walked(ls, a)'
    <3>1. Walked(ls, a)'  BY <2>1, <2>3 DEF Walked, Final, Linkto, Refused
    <3> QED BY <1>1, <2>3, <3>1, LeafUnchanged
  <2>4. CASE at \in {"leaf", "name"}
    <3>1. PICK a \in Range(dir.leaves) : \E ls \in Seq(Range(dir.leaves)) :
            OnLeaf(a) /\ Gathered(ls, a) /\ Walked(ls, a)
      BY <2>2, <2>4 DEF KnownInv
    <3>2. PICK ls \in Seq(Range(dir.leaves)) : OnLeaf(a) /\ Gathered(ls, a) /\ Walked(ls, a)
      BY <3>1
    <3> QED BY <2>1, <2>3, <2>4, <3>2 DEF KnownInv
  <2>5. CASE at \notin {"leaf", "name"}
    BY <2>1, <2>2, <2>5 DEF KnownInv, Written, PagesHere
  <2> QED BY <2>4, <2>5
<1> QED
  BY <1>1, KnownReadInode, KnownDescend, KnownInLeaf, KnownNextLeaf DEF Next

\* NothingIsInvented, for every directory that was written like one, whatever
\* link of it was damaged: descend and next_leaf list entries of its leaves
\* only, and each of them once if they come to an end at all.  Left out are the
\* directories where a page leads down to the block behind the last, which is
\* read as what lies on the stack.
THEOREM OnlyWhatIsThere == Spec => []NothingIsInvented
<1>1. WrittenAssumption /\ TypeInv /\ KnownInv => NothingIsInvented
  <2> SUFFICES ASSUME WrittenAssumption, TypeInv, KnownInv, at = "done", Harmless
               PROVE  /\ Range(Read) \subseteq Range(Written(dir.leaves))
                      /\ IsInjective(Read)
    BY DEF NothingIsInvented, Harmless
  <2>1. dir \in Directories  BY DEF TypeInv, WalkInv, PagesOK
  <2>2. PICK ls \in Seq(Range(dir.leaves)) : IsInjective(ls) /\ Read = Written(ls)
    BY DEF KnownInv
  <2> QED BY <2>1, <2>2, WrittenWithin, WrittenOnce
<1>2. Init => KnownInv  BY KnownInit
<1> QED
  BY <1>1, <1>2, TypeInit, TypeStep, KnownStep, DirWalkAssumption, WrittenAssumption, PTL DEF Spec

----------------------------------------------------------------------------
(* Damage costs only what lies behind it                                   *)

LEMMA WayFacts ==
  ASSUME dir \in Directories
  PROVE  /\ dir.blocks \in Nat \ {0}
         /\ dir.leaves \in Seq(0..(dir.blocks - 1)) /\ dir.leaves \in Seq(Range(dir.leaves))
         /\ Len(dir.leaves) \in Nat \ {0} /\ Len(dir.spine) \in Nat
         /\ DOMAIN dir.leaves = 1..Len(dir.leaves) /\ DOMAIN dir.spine = 1..Len(dir.spine)
         /\ DOMAIN Way(dir) = 1..(Len(dir.spine) + Len(dir.leaves))
         /\ Len(Way(dir)) = Len(dir.spine) + Len(dir.leaves)
         /\ \A k \in 1..Len(dir.spine) : Way(dir)[k] = dir.spine[k]
         /\ \A k \in 1..Len(dir.leaves) : Way(dir)[Len(dir.spine) + k] = dir.leaves[k]
         /\ Way(dir)[1] = 0
         /\ \A k \in DOMAIN Way(dir) : /\ Way(dir)[k] \in 0..(dir.blocks - 1)
                                       /\ k # 1 => Way(dir)[k] # 0
<1>1. /\ dir.spine \in Seq(0..(dir.blocks - 1)) /\ dir.leaves \in Seq(0..(dir.blocks - 1))
      /\ dir.leaves # << >> /\ Way(dir)[1] = 0 /\ IsInjective(Way(dir))
  BY WrittenAssumption
<1>2. PICK s, l, D : s = dir.spine /\ l = dir.leaves /\ D = 0..(dir.blocks - 1)  OBVIOUS
<1>3. /\ s \in Seq(D) /\ l \in Seq(D) /\ l # << >>  BY <1>1, <1>2
<1>4. /\ Len(s) \in Nat /\ Len(l) \in Nat /\ DOMAIN s = 1..Len(s) /\ DOMAIN l = 1..Len(l)
      /\ Len(l) # 0 /\ l \in Seq(Range(l))
  BY <1>3 DEF Range
<1>5. /\ Len(s \o l) = Len(s) + Len(l) /\ DOMAIN (s \o l) = 1..(Len(s) + Len(l))
      /\ s \o l \in Seq(D)
      /\ \A k \in 1..Len(s) : (s \o l)[k] = s[k]
      /\ \A k \in 1..Len(l) : (s \o l)[Len(s) + k] = l[k]
  BY <1>3, <1>4
<1>6. Way(dir) = s \o l  BY <1>2 DEF Way
<1>7. 1 \in DOMAIN Way(dir)  BY <1>4, <1>5, <1>6
<1>8. \A k \in DOMAIN Way(dir) : k # 1 => Way(dir)[k] # 0
  BY <1>1, <1>7 DEF IsInjective
<1>9. \A k \in DOMAIN Way(dir) : Way(dir)[k] \in D
  BY <1>5, <1>6
<1>10. dir.blocks \in Nat \ {0}  BY DirWalkAssumption
<1> QED BY <1>1, <1>2, <1>4, <1>5, <1>6, <1>8, <1>9, <1>10

\* The leaves before the damaged one, if the damage is not above them.
LEMMA SparedFacts ==
  ASSUME dir \in Directories
  PROVE  /\ dir.hit \in Range(dir.spine) => Spared = << >> /\ dir.hit # -1
         /\ dir.hit \notin Range(dir.spine) =>
              \E n \in 0..Len(dir.leaves) :
                /\ Spared = SubSeq(dir.leaves, 1, n) /\ Len(Spared) = n
                /\ \A k \in 1..n : dir.leaves[k] # dir.hit
                /\ n < Len(dir.leaves) => dir.leaves[n + 1] = dir.hit /\ dir.hit # -1
<1>1. /\ Len(dir.leaves) \in Nat /\ dir.leaves \in Seq(0..(dir.blocks - 1))
      /\ \A k \in 1..Len(dir.leaves) : dir.leaves[k] # -1
  BY WayFacts
<1>2. ASSUME dir.hit \in Range(dir.spine) PROVE Spared = << >> /\ dir.hit # -1
  <2>1. PICK D, s : D = 0..(dir.blocks - 1) /\ s = dir.spine /\ s \in Seq(D)  BY WrittenAssumption
  <2>2. \A k \in DOMAIN dir.spine : dir.spine[k] \in D  BY <2>1, ElementType
  <2>3. -1 \notin D  BY <2>1, WayFacts
  <2>4. \A k \in DOMAIN dir.spine : dir.spine[k] # -1  BY <2>2, <2>3
  <2> QED BY <1>2, <2>4 DEF Spared, Range
<1>3. ASSUME dir.hit \notin Range(dir.spine)
      PROVE  \E n \in 0..Len(dir.leaves) :
                /\ Spared = SubSeq(dir.leaves, 1, n) /\ Len(Spared) = n
                /\ \A k \in 1..n : dir.leaves[k] # dir.hit
                /\ n < Len(dir.leaves) => dir.leaves[n + 1] = dir.hit /\ dir.hit # -1
  <2> DEFINE Ends(n) == /\ \A k \in 1..n : dir.leaves[k] # dir.hit
                        /\ n < Len(dir.leaves) => dir.leaves[n + 1] = dir.hit
             Hit == {k \in 1..Len(dir.leaves) : dir.leaves[k] = dir.hit}
  <2>1. \E n \in 0..Len(dir.leaves) : Ends(n)
    <3>1. CASE Hit = {}
      <4>1. \A k \in 1..Len(dir.leaves) : dir.leaves[k] # dir.hit  BY <3>1
      <4>2. ~ (Len(dir.leaves) < Len(dir.leaves))  BY <1>1
      <4>3. Ends(Len(dir.leaves))  BY <4>1, <4>2
      <4> QED BY <1>1, <4>3
    <3>2. CASE Hit # {}
      <4>1. PICK m \in Hit : \A k \in Hit : m <= k
        <5>1. Hit \in SUBSET Nat  OBVIOUS
        <5> HIDE DEF Hit
        <5> QED BY <3>2, <5>1, Least
      <4>2. /\ m \in 1..Len(dir.leaves) /\ dir.leaves[m] = dir.hit
            /\ m - 1 \in 0..Len(dir.leaves) /\ (m - 1) + 1 = m
        BY <1>1
      <4>3. \A k \in 1..(m - 1) : k \in 1..Len(dir.leaves) /\ ~ (m <= k)
        BY <1>1, <4>2
      <4>4. Ends(m - 1)  BY <4>1, <4>2, <4>3
      <4> QED BY <4>2, <4>4
    <3> QED BY <3>1, <3>2
  <2> DEFINE n == CHOOSE n \in 0..Len(dir.leaves) : Ends(n)
  <2>2. n \in 0..Len(dir.leaves) /\ Ends(n)
    <3> HIDE DEF Ends
    <3> QED BY <2>1
  <2>3. Spared = SubSeq(dir.leaves, 1, n)
    BY <1>3 DEF Spared
  <2> HIDE DEF n
  <2>4. Len(SubSeq(dir.leaves, 1, n)) = n  BY <1>1, <2>2
  <2>5. n < Len(dir.leaves) => n + 1 \in 1..Len(dir.leaves)  BY <1>1, <2>2
  <2> QED BY <1>1, <2>2, <2>3, <2>4, <2>5
<1> QED BY <1>2, <1>3

\* A sound leaf, and a sound page above the leaves.
LEMMA WayLeaf ==
  ASSUME dir \in Directories,
         NEW k \in 1..Len(dir.leaves), dir.leaves[k] # dir.hit
  PROVE  /\ dir.leaves[k] \in Range(dir.leaves)
         /\ Lists(PageAt(dir, dir.leaves[k]), dir.chains[dir.leaves[k]], dir.holds[dir.leaves[k]])
         /\ PageAt(dir, dir.leaves[k]).next = IF k < Len(dir.leaves) THEN dir.leaves[k + 1] ELSE 0
         /\ k < Len(dir.leaves) => dir.leaves[k + 1] \in 1..(dir.blocks - 1)
<1>1. PICK S \in Nat, L \in Nat : S = Len(dir.spine) /\ L = Len(dir.leaves)
  BY WayFacts
<1>2. /\ S = Len(dir.spine) /\ L = Len(dir.leaves)
      /\ DOMAIN Way(dir) = 1..(S + L) /\ Len(Way(dir)) = S + L
      /\ \A j \in 1..L : Way(dir)[S + j] = dir.leaves[j]
      /\ DOMAIN dir.leaves = 1..L
  BY <1>1, WayFacts
<1>3. k \in 1..L  BY <1>1
<1>4. k \in 1..L /\ S + k \in 1..(S + L) /\ ~ (S + k <= S)  BY <1>3
<1>5. Way(dir)[S + k] = dir.leaves[k] /\ Leads(dir, S + k)
  <2>1. Way(dir)[S + k] = dir.leaves[k]  BY <1>2, <1>4
  <2>2. S + k \in DOMAIN Way(dir)  BY <1>2, <1>4
  <2> QED BY <2>1, <2>2, WrittenAssumption
<1>6. dir.leaves[k] \in Range(dir.leaves)  BY <1>2, <1>4 DEF Range
<1>7. Lists(PageAt(dir, dir.leaves[k]), dir.chains[dir.leaves[k]], dir.holds[dir.leaves[k]])
  BY <1>6, WrittenAssumption
<1>8. PageAt(dir, dir.leaves[k]).next = IF S + k < S + L THEN Way(dir)[(S + k) + 1] ELSE 0
  BY <1>2, <1>4, <1>5 DEF Leads
<1>9. (S + k < S + L) <=> (k < L)  BY <1>3
<1>10. ASSUME k < L
       PROVE  Way(dir)[(S + k) + 1] = dir.leaves[k + 1] /\ dir.leaves[k + 1] \in 1..(dir.blocks - 1)
  <2>1. k + 1 \in 1..L /\ (S + k) + 1 = S + (k + 1) /\ S + (k + 1) # 1 /\ S + (k + 1) \in 1..(S + L)
    BY <1>4, <1>10
  <2>2. Way(dir)[S + (k + 1)] = dir.leaves[k + 1]  BY <1>2, <2>1
  <2>3. Way(dir)[S + (k + 1)] \in 0..(dir.blocks - 1) /\ Way(dir)[S + (k + 1)] # 0
    BY <1>2, <2>1, WayFacts
  <2>4. dir.blocks \in Nat  BY WayFacts
  <2> QED BY <2>1, <2>2, <2>3, <2>4
<1> QED BY <1>2, <1>6, <1>7, <1>8, <1>9, <1>10

LEMMA WaySpine ==
  ASSUME dir \in Directories,
         NEW k \in 1..Len(dir.spine), dir.hit \notin Range(dir.spine)
  PROVE  /\ ~ PageAt(dir, Way(dir)[k]).leaf
         /\ Way(dir)[k + 1] \in 1..(dir.blocks - 1)
         /\ \A pxd \in Entry(PageAt(dir, Way(dir)[k]), 1) :
              pxd.addr = Way(dir)[k + 1] /\ pxd.len <= dir.blocks
<1>1. PICK S \in Nat, L \in Nat \ {0} : S = Len(dir.spine) /\ L = Len(dir.leaves)
  BY WayFacts
<1>2. /\ S = Len(dir.spine)
      /\ DOMAIN Way(dir) = 1..(S + L)
      /\ \A j \in 1..S : Way(dir)[j] = dir.spine[j]
  BY <1>1, WayFacts
<1>3. k \in 1..S  BY <1>1
<1>4. k \in 1..S /\ k \in 1..(S + L) /\ k + 1 \in 1..(S + L) /\ k + 1 # 1 /\ k <= S
  BY <1>3
<1>5. /\ k \in DOMAIN Way(dir) /\ k + 1 \in DOMAIN Way(dir) /\ k + 1 # 1 /\ k <= Len(dir.spine)
      /\ Way(dir)[k] = dir.spine[k]
  BY <1>2, <1>4
<1>6. Way(dir)[k] # dir.hit  BY <1>5, WayFacts DEF Range
<1>7. PICK p : p = PageAt(dir, Way(dir)[k])  OBVIOUS
<1>8. /\ ~ p.leaf /\ 1 \in DOMAIN p.stbl /\ p.stbl[1] \in DOMAIN p.slot
      /\ p.slot[p.stbl[1]].addr = Way(dir)[k + 1] /\ p.slot[p.stbl[1]].len <= dir.blocks
  <2>1. Leads(dir, k)  BY <1>5, <1>6, WrittenAssumption
  <2> QED BY <1>5, <1>7, <2>1 DEF Leads
<1>9. Entry(p, 1) = {p.slot[p.stbl[1]]}  BY <1>8 DEF Entry, Slot
<1>10. Way(dir)[k + 1] \in 1..(dir.blocks - 1)
  <2>1. Way(dir)[k + 1] \in 0..(dir.blocks - 1) /\ Way(dir)[k + 1] # 0
    BY <1>5, WayFacts
  <2>2. dir.blocks \in Nat  BY WayFacts
  <2> QED BY <2>1, <2>2
<1> QED BY <1>7, <1>8, <1>9, <1>10

\* The leaves before the damage are listed, whatever comes behind them.
Behind ==
  /\ dir.hit # -1 /\ Len(Written(Spared)) <= Len(vin)
  /\ \A k \in 1..Len(Written(Spared)) : Read[k] = Written(Spared)[k]

OnWay(k) == /\ OnLeaf(dir.leaves[k])
            /\ Gathered(SubSeq(dir.leaves, 1, k - 1), dir.leaves[k])

\* As long as the walk has not come to the damage, the depth of the recursion
\* says which page above the leaves is in memory.
SpareInv ==
  \/ Behind
  \/ at = "dead"
  \/ at = "inode" /\ Read = << >> /\ i = 0 /\ depth = 0
  \/ /\ at = "descend" /\ Read = << >> /\ i = 0
     /\ depth < Len(dir.spine) /\ page = PageAt(dir, Way(dir)[depth + 1])
  \/ at \in {"leaf", "name"} /\ \E k \in 1..Len(Spared) : OnWay(k)
  \/ at = "done" /\ Spared = dir.leaves /\ Read = Written(dir.leaves)

LEMMA ReadType ==
  ASSUME TypeInv
  PROVE  \E X : Read \in Seq(X) /\ Len(Read) = Len(vin) /\ Len(vin) \in Nat
<1>1. vin \in Seq([di_number : Nat, name : Seq(Bytes)])  BY DEF TypeInv, TypeOK
<1>2. PICK N \in Nat : N = Len(vin) /\ DOMAIN vin = 1..N  BY <1>1
<1>3. PICK s : s = Read  OBVIOUS
<1>4. s = [k \in 1..N |-> s[k]]  BY <1>2, <1>3 DEF Read
<1>5. PICK X : X = {s[k] : k \in 1..N}  OBVIOUS
<1>6. s \in [1..N -> X]  BY <1>4, <1>5
<1>7. s \in Seq(X) /\ Len(s) = N  BY <1>6
<1> QED BY <1>2, <1>3, <1>7

LEMMA SparedType ==
  ASSUME dir \in Directories
  PROVE  /\ Spared \in Seq(Range(dir.leaves)) /\ Len(Spared) \in 0..Len(dir.leaves)
         /\ Written(Spared) \in Seq(Entries) /\ Len(Written(Spared)) \in Nat
<1>1. Spared \in Seq(Range(dir.leaves)) /\ Len(Spared) \in 0..Len(dir.leaves)
  <2>1. dir.leaves \in Seq(Range(dir.leaves)) /\ Len(dir.leaves) \in Nat  BY WayFacts
  <2>2. CASE dir.hit \in Range(dir.spine)
    <3>1. Spared = << >>  BY <2>2, SparedFacts
    <3> QED BY <2>1, <3>1
  <2>3. CASE dir.hit \notin Range(dir.spine)
    <3>1. PICK n \in 0..Len(dir.leaves) : Spared = SubSeq(dir.leaves, 1, n) /\ Len(Spared) = n
      BY <2>3, SparedFacts
    <3>2. PICK X : X = Range(dir.leaves)  OBVIOUS
    <3>3. \A k \in 1..n : k \in 1..Len(dir.leaves)  BY <2>1
    <3>4. SubSeq(dir.leaves, 1, n) \in Seq(X)  BY <2>1, <3>2, <3>3
    <3> QED BY <3>1, <3>2, <3>4
  <2> QED BY <2>2, <2>3
<1>2. Written(Spared) \in Seq(Entries)
  BY <1>1, WrittenAssumption, WrittenParts
<1> QED BY <1>1, <1>2

\* Behind stays, because entries are only added.
LEMMA BehindStays ==
  ASSUME TypeInv, Behind, [Next]_vars
  PROVE  Behind'
<1>0. dir' = dir /\ dir \in Directories
  BY DEF Next, vars, ReadInode, Descend, StartEntry, NextSlot, EndEntry, RefuseLeaf, NextLeaf,
         GiveUp, Overflow, TypeInv, WalkInv, PagesOK
<1>1. vin' = vin \/ \E x : vin' = Append(vin, x)
  BY DEF Next, vars, ReadInode, Descend, StartEntry, NextSlot, EndEntry, RefuseLeaf, NextLeaf,
         GiveUp, Overflow
<1>2. PICK n \in Nat : n = Len(vin) /\ DOMAIN vin = 1..n
  BY DEF TypeInv, TypeOK
<1>3. /\ \A k \in 1..n : k \in DOMAIN vin' /\ vin'[k] = vin[k]
      /\ Len(vin') \in Nat /\ n <= Len(vin')
  <2>1. vin \in Seq([di_number : Nat, name : Seq(Bytes)])  BY DEF TypeInv, TypeOK
  <2>2. CASE vin' = vin  BY <1>2, <2>1, <2>2
  <2>3. CASE \E x : vin' = Append(vin, x)
    <3>1. PICK x : vin' = Append(vin, x)  BY <2>3
    <3> QED BY <1>2, <2>1, <3>1
  <2> QED BY <1>1, <2>2, <2>3
<1>4. \A k \in 1..n : Read'[k] = Read[k]
  BY <1>2, <1>3 DEF Read
<1>5. Spared' = Spared /\ Written(Spared)' = Written(Spared)
  BY <1>0 DEF Spared, Written
<1>6. PICK m \in Nat : m = Len(Written(Spared))  BY <1>0, SparedType
<1>7. m <= n /\ dir.hit # -1 /\ \A k \in 1..m : Read[k] = Written(Spared)[k]
  BY <1>2, <1>6 DEF Behind
<1>8. m <= Len(vin') /\ \A k \in 1..m : k \in 1..n  BY <1>3, <1>7
<1> QED BY <1>0, <1>4, <1>5, <1>6, <1>7, <1>8 DEF Behind

\* Damage above the leaves spares none of them.
LEMMA BehindFromStart ==
  ASSUME TypeInv', dir \in Directories, dir' = dir, Spared = << >>, dir.hit # -1
  PROVE  Behind'
<1>0. Spared' = Spared  BY DEF Spared
<1>1. Written(Spared)' = << >>
  <2>1. Written(Spared)' = Written(Spared)  BY <1>0 DEF Written
  <2> QED BY <2>1, WrittenNothing
<1>2. Len(vin') \in Nat  BY DEF TypeInv, TypeOK
<1> QED BY <1>1, <1>2 DEF Behind

LEMMA Beginning ==
  ASSUME NEW X, NEW s \in Seq(X), NEW k \in 1..Len(s)
  PROVE  /\ SubSeq(s, 1, k - 1) \in Seq(X)
         /\ Append(SubSeq(s, 1, k - 1), s[k]) = SubSeq(s, 1, k)
         /\ SubSeq(s, 1, Len(s)) = s
<1>1. k - 1 \in 0..Len(s) /\ \A j \in 1..(k - 1) : j \in 1..Len(s)  OBVIOUS
<1>2. SubSeq(s, 1, k - 1) \in Seq(X)  BY <1>1
<1>3. Append(SubSeq(s, 1, k - 1), s[k]) = SubSeq(s, 1, k)  BY <1>1
<1> QED BY <1>2, <1>3

\* The walk comes to the k-th leaf, and all before it were sound.
LEMMA SpareArrives ==
  ASSUME TypeInv', dir \in Directories, dir' = dir, dir.hit \notin Range(dir.spine),
         NEW k \in 1..Len(dir.leaves), k - 1 <= Len(Spared),
         page' = PageAt(dir, dir.leaves[k]), i' = 0,
         Read' = Written(SubSeq(dir.leaves, 1, k - 1)), page'.leaf => at' = "leaf"
  PROVE  SpareInv'
<1>0. DirWalkAssumption /\ WrittenAssumption  BY DirWalkAssumption, WrittenAssumption
<1>1. PICK n \in 0..Len(dir.leaves) :
        /\ Spared = SubSeq(dir.leaves, 1, n) /\ Len(Spared) = n
        /\ \A m \in 1..n : dir.leaves[m] # dir.hit
        /\ n < Len(dir.leaves) => dir.leaves[n + 1] = dir.hit /\ dir.hit # -1
  BY SparedFacts
<1>2. Len(dir.leaves) \in Nat /\ dir.leaves \in Seq(Range(dir.leaves))
  BY WayFacts
<1>3. Spared' = Spared /\ \A ls : Written(ls)' = Written(ls)  BY DEF Spared, Written
<1>4. CASE k <= n
  <2>1. k \in 1..n /\ dir.leaves[k] # dir.hit  BY <1>1, <1>4
  <2>2. PICK a : a = dir.leaves[k]  OBVIOUS
  <2>3. a \in Range(dir.leaves) /\ Lists(page', dir.chains[a], dir.holds[a])
    BY <2>1, <2>2, WayLeaf
  <2>4. at' = "leaf"  BY <2>3 DEF Lists
  <2>5. OnLeaf(a)'
    <3>1. Len(dir.holds[a]) \in Nat  BY <1>0, <2>3, LeafHolds
    <3> QED BY <2>2, <2>3, <2>4, <3>1 DEF OnLeaf
  <2>6. PICK ls \in Seq(Range(dir.leaves)) : ls = SubSeq(dir.leaves, 1, k - 1)
    BY <1>2, Beginning
  <2>7. Gathered(ls, a)'  BY <1>0, <2>3, <2>6, LeafBegun
  <2>8. OnWay(k)'  BY <2>2, <2>5, <2>6, <2>7 DEF OnWay
  <2>9. k \in 1..Len(Spared)'  BY <1>1, <1>3, <2>1
  <2> QED BY <2>4, <2>8, <2>9 DEF SpareInv
<1>5. CASE ~ (k <= n)
  <2>1. k - 1 = n /\ n < Len(dir.leaves)  BY <1>1, <1>2, <1>5
  <2>2. Read' = Written(Spared)' /\ dir.hit # -1  BY <1>1, <1>3, <2>1
  <2>3. Len(Read') = Len(vin') /\ Len(vin') \in Nat
    <3>1. (\E X : Read \in Seq(X) /\ Len(Read) = Len(vin) /\ Len(vin) \in Nat)'
      BY ReadType, PTL
    <3> QED BY <3>1
  <2>4. Behind'  BY <2>2, <2>3 DEF Behind
  <2> QED BY <2>4 DEF SpareInv
<1> QED BY <1>4, <1>5

LEMMA SpareReadInode ==
  ASSUME TypeInv, TypeInv', SpareInv, ReadInode
  PROVE  SpareInv'
<1>0. dir' = dir /\ dir \in Directories /\ page' = dir.root /\ at = "inode"
      /\ i' = i /\ depth' = depth /\ Read' = Read
      /\ at' = IF dir.root.leaf THEN "leaf" ELSE "descend"
  BY DEF ReadInode, TypeInv, WalkInv, PagesOK, Read
<1>1. CASE Behind
  BY <1>1, BehindStays DEF Next, SpareInv
<1>2. CASE dir.hit \in Range(dir.spine)
  BY <1>0, <1>2, SparedFacts, BehindFromStart DEF SpareInv
<1>3. CASE ~ Behind /\ dir.hit \notin Range(dir.spine)
  <2>1. Read = << >> /\ i = 0 /\ depth = 0  BY <1>0, <1>3 DEF SpareInv
  <2>2. page' = PageAt(dir, Way(dir)[1])  BY <1>0, WayFacts DEF PageAt
  <2>3. PICK S \in Nat : S = Len(dir.spine)  BY <1>0, WayFacts
  <2>4. CASE S # 0
    <3>1. 1 \in 1..Len(dir.spine) /\ 0 + 1 = 1 /\ 0 < S  BY <2>3, <2>4
    <3>2. ~ page'.leaf  BY <1>0, <1>3, <2>2, <3>1, WaySpine
    <3>3. at' = "descend"  BY <1>0, <3>2
    <3> QED BY <1>0, <2>1, <2>2, <2>3, <3>1, <3>3 DEF SpareInv
  <2>5. CASE S = 0
    <3>1. 1 \in 1..Len(dir.leaves) /\ 0 + 1 = 1 /\ 1 - 1 = 0  BY <1>0, WayFacts
    <3>2. Way(dir)[1] = dir.leaves[1]  BY <1>0, <2>3, <2>5, <3>1, WayFacts
    <3>3. 1 - 1 <= Len(Spared)  BY <1>0, <3>1, SparedType
    <3>4. SubSeq(dir.leaves, 1, 1 - 1) = << >>  BY <1>0, <3>1, WayFacts
    <3>5. Read' = Written(SubSeq(dir.leaves, 1, 1 - 1))
      BY <1>0, <2>1, <3>4, WrittenNothing
    <3> QED BY <1>0, <1>3, <2>1, <2>2, <3>1, <3>2, <3>3, <3>5, SpareArrives
  <2> QED BY <2>4, <2>5
<1> QED BY <1>1, <1>2, <1>3

LEMMA SpareDescend ==
  ASSUME TypeInv, TypeInv', SpareInv, Descend
  PROVE  SpareInv'
<1>0. dir' = dir /\ dir \in Directories /\ at = "descend" /\ Read' = Read /\ i' = i
      /\ depth \in Nat
  BY SMTT(30) DEF Descend, Overflow, GiveUp, TypeInv, TypeOK, WalkInv, PagesOK, Read
<1>1. CASE Behind
  BY <1>1, BehindStays DEF Next, SpareInv
<1>2. CASE dir.hit \in Range(dir.spine)
  BY <1>0, <1>2, SparedFacts, BehindFromStart DEF SpareInv
<1>3. CASE ~ Behind /\ dir.hit \notin Range(dir.spine)
  <2>1. Read = << >> /\ i = 0 /\ depth < Len(dir.spine) /\ page = PageAt(dir, Way(dir)[depth + 1])
    BY <1>0, <1>3 DEF SpareInv
  <2>2. PICK S \in Nat : S = Len(dir.spine)  BY WayFacts, <1>0
  <2>3. PICK k \in 1..Len(dir.spine) : k = depth + 1  BY <1>0, <2>1, <2>2
  <2>4. /\ Way(dir)[k + 1] \in 1..(dir.blocks - 1)
        /\ \A pxd \in Entry(page, 1) : pxd.addr = Way(dir)[k + 1] /\ pxd.len <= dir.blocks
    BY <1>0, <1>3, <2>1, <2>3, WaySpine
  <2>5. PICK a : a = Way(dir)[k + 1]  OBVIOUS
  <2>6. PICK pxd \in Entry(page, 1) :
       IF depth = StackDepth THEN Overflow
       ELSE IF ~ Sane(pxd) THEN GiveUp
       ELSE /\ page' \in ReadPage(pxd.addr, Range(dir.page) \cup {Blank} \cup Foreign)
            /\ at' = IF page'.leaf THEN "leaf" ELSE "descend"
            /\ depth' = depth + 1
            /\ UNCHANGED << dir, i, entry, vin >>
    BY DEF Descend
  <2>7. CASE depth = StackDepth
    BY <2>6, <2>7 DEF Overflow, SpareInv
  <2>8. CASE depth # StackDepth
    <3>1. pxd.addr = a /\ pxd.len <= dir.blocks /\ a \in 1..(dir.blocks - 1) /\ dir.blocks \in Nat
      BY <1>0, <2>4, <2>5, WayFacts
    <3>2. a # 0 /\ a <= dir.blocks /\ a # dir.blocks  BY <3>1
    <3>3. Sane(pxd)  BY <3>1, <3>2 DEF Sane
    <3>4. page' = PageAt(dir, a) /\ depth' = depth + 1
          /\ at' = IF page'.leaf THEN "leaf" ELSE "descend"
      BY <2>6, <2>8, <3>1, <3>2, <3>3 DEF ReadPage, PageAt
    <3>5. CASE k < S
      <4>1. k + 1 \in 1..Len(dir.spine) /\ depth' < S /\ depth' + 1 = k + 1
        BY <1>0, <2>2, <2>3, <3>4, <3>5
      <4>2. ~ page'.leaf  BY <1>0, <1>3, <2>5, <3>4, <4>1, WaySpine
      <4> QED BY <1>0, <2>1, <2>2, <2>5, <3>4, <4>1, <4>2 DEF SpareInv
    <3>6. CASE ~ (k < S)
      <4>1. k = S  BY <2>2, <2>3, <3>6
      <4>2. 1 \in 1..Len(dir.leaves) /\ 1 - 1 = 0  BY <1>0, WayFacts
      <4>3. a = dir.leaves[1]  BY <1>0, <2>2, <2>5, <4>1, <4>2, WayFacts
      <4>4. 1 - 1 <= Len(Spared)  BY <1>0, <4>2, SparedType
      <4>5. SubSeq(dir.leaves, 1, 1 - 1) = << >>  BY <1>0, <4>2, WayFacts
      <4>6. Read' = Written(SubSeq(dir.leaves, 1, 1 - 1))
        BY <1>0, <2>1, <4>5, WrittenNothing
      <4> QED BY <1>0, <1>3, <2>1, <3>4, <4>2, <4>3, <4>4, <4>6, SpareArrives
    <3> QED BY <3>5, <3>6
  <2> QED BY <2>7, <2>8
<1> QED BY <1>1, <1>2, <1>3

LEMMA SpareInLeaf ==
  ASSUME TypeInv, SpareInv, StartEntry \/ NextSlot \/ EndEntry
  PROVE  SpareInv'
<1>0. dir' = dir /\ dir \in Directories /\ at \in {"leaf", "name"}
  BY DEF StartEntry, NextSlot, EndEntry, TypeInv, WalkInv, PagesOK
<1>1. CASE Behind
  BY <1>1, BehindStays DEF Next, SpareInv
<1>2. CASE ~ Behind
  <2>1. PICK k \in 1..Len(Spared) : OnWay(k)  BY <1>0, <1>2 DEF SpareInv
  <2>2. k \in 1..Len(dir.leaves)  BY <1>0, SparedType, WayFacts
  <2>3. PICK a \in Range(dir.leaves) : a = dir.leaves[k]
    BY <1>0, <2>2, WayFacts DEF Range
  <2>4. PICK ls \in Seq(Range(dir.leaves)) : ls = SubSeq(dir.leaves, 1, k - 1)
    BY <1>0, <2>2, WayFacts, Beginning
  <2>5. OnLeaf(a) /\ Gathered(ls, a)  BY <2>1, <2>3, <2>4 DEF OnWay
  <2>6. OnLeaf(a)' /\ Gathered(ls, a)' /\ at' \in {"leaf", "name"}
    BY <2>5, DirWalkAssumption, WrittenAssumption, LeafStep
  <2>7. OnWay(k)' /\ Spared' = Spared  BY <1>0, <2>3, <2>4, <2>6 DEF OnWay, Spared
  <2> QED BY <2>6, <2>7 DEF SpareInv
<1> QED BY <1>1, <1>2

LEMMA SpareNextLeaf ==
  ASSUME TypeInv, TypeInv', SpareInv, NextLeaf \/ RefuseLeaf
  PROVE  SpareInv'
<1>0. dir' = dir /\ dir \in Directories /\ at = "leaf" /\ Read' = Read /\ page \in PageType
  BY DEF NextLeaf, RefuseLeaf, GiveUp, Overflow, TypeInv, WalkInv, PagesOK, Read
<1>1. CASE Behind
  BY <1>1, BehindStays DEF Next, SpareInv
<1>2. CASE dir.hit \in Range(dir.spine)
  BY <1>0, <1>2, SparedFacts, BehindFromStart DEF SpareInv
<1>3. CASE ~ Behind /\ dir.hit \notin Range(dir.spine)
  <2>1. PICK k \in 1..Len(Spared) : OnWay(k)  BY <1>0, <1>3 DEF SpareInv
  <2>2. PICK n \in 0..Len(dir.leaves) :
          /\ Spared = SubSeq(dir.leaves, 1, n) /\ Len(Spared) = n
          /\ \A m \in 1..n : dir.leaves[m] # dir.hit
    BY <1>0, <1>3, SparedFacts
  <2>3. PICK L \in Nat : L = Len(dir.leaves) /\ dir.leaves \in Seq(Range(dir.leaves))
    BY <1>0, WayFacts
  <2>4. k \in 1..n /\ k \in 1..L /\ dir.leaves[k] # dir.hit  BY <2>1, <2>2, <2>3
  <2>5. PICK a \in Range(dir.leaves) : a = dir.leaves[k]
    BY <1>0, <2>3, <2>4, WayFacts DEF Range
  <2>6. PICK ls \in Seq(Range(dir.leaves)) :
          ls = SubSeq(dir.leaves, 1, k - 1) /\ Append(ls, a) = SubSeq(dir.leaves, 1, k)
    BY <2>3, <2>4, <2>5, Beginning
  <2>7. OnLeaf(a) /\ Gathered(ls, a)  BY <2>1, <2>5, <2>6 DEF OnWay
  <2>8. ~ Throws /\ (~ MoreEntries => Read = Written(Append(ls, a)))
    BY <2>7, DirWalkAssumption, WrittenAssumption, LeafFinished
  <2>9. NextLeaf /\ Read = Written(SubSeq(dir.leaves, 1, k))
    BY <2>6, <2>8 DEF NextLeaf, RefuseLeaf
  <2>10. /\ page.next = IF k < L THEN dir.leaves[k + 1] ELSE 0
         /\ k < L => dir.leaves[k + 1] \in 1..(dir.blocks - 1)
    BY <1>0, <2>3, <2>4, <2>5, <2>7, WayLeaf DEF OnLeaf
  <2>11. CASE k < L
    <3>1. PICK b : b = dir.leaves[k + 1]  OBVIOUS
    <3>2. page.next = b /\ b \in 1..(dir.blocks - 1) /\ dir.blocks \in Nat
      BY <1>0, <2>10, <2>11, <3>1, WayFacts
    <3>3. ~ (b = 0 \/ Refused(b)) /\ b # dir.blocks /\ b # 0  BY <3>2 DEF Refused
    <3>4. CASE depth = StackDepth
      BY <2>9, <3>2, <3>3, <3>4 DEF NextLeaf, Overflow, SpareInv
    <3>5. CASE depth # StackDepth
      <4>1. page' = PageAt(dir, b) /\ i' = 0 /\ at' = "leaf"
        BY <1>0, <2>9, <3>2, <3>3, <3>5 DEF NextLeaf, ReadPage, PageAt
      <4>2. PICK m \in 1..Len(dir.leaves) : m = k + 1 /\ m - 1 = k
        BY <2>3, <2>4, <2>11
      <4>3. m - 1 <= Len(Spared)  BY <2>2, <2>4, <4>2
      <4> QED BY <1>0, <1>3, <2>9, <3>1, <4>1, <4>2, <4>3, SpareArrives
    <3> QED BY <3>4, <3>5
  <2>12. CASE ~ (k < L)
    <3>1. k = L /\ n = L  BY <2>2, <2>3, <2>4, <2>12
    <3>2. SubSeq(dir.leaves, 1, L) = dir.leaves  BY <2>3, <2>4, Beginning
    <3>3. Spared = dir.leaves /\ Read = Written(dir.leaves)  BY <2>2, <2>9, <3>1, <3>2
    <3>4. at' = "done"  BY <2>9, <2>10, <2>12 DEF NextLeaf, GiveUp
    <3>5. Spared' = Spared /\ Written(dir.leaves)' = Written(dir.leaves)
      BY <1>0 DEF Spared, Written
    <3> QED BY <1>0, <3>3, <3>4, <3>5 DEF SpareInv
  <2> QED BY <2>11, <2>12
<1> QED BY <1>1, <1>2, <1>3

LEMMA SpareStep == TypeInv /\ TypeInv' /\ SpareInv /\ [Next]_vars => SpareInv'
<1> SUFFICES ASSUME TypeInv, TypeInv', SpareInv, [Next]_vars PROVE SpareInv'
  OBVIOUS
<1>1. CASE UNCHANGED vars
  <2>1. /\ dir' = dir /\ at' = at /\ page' = page /\ i' = i /\ depth' = depth /\ Read' = Read
    BY <1>1 DEF vars, Read
  <2>2. Spared' = Spared /\ \A ls : Written(ls)' = Written(ls)
    BY <2>1 DEF Spared, Written
  <2>3. Behind => Behind'  BY BehindStays
  <2>4. \A k : OnWay(k) => OnWay(k)'
    <3> SUFFICES ASSUME NEW k, OnWay(k) PROVE OnWay(k)'  OBVIOUS
    <3>1. PICK a, ls : a = dir.leaves[k] /\ ls = SubSeq(dir.leaves, 1, k - 1)  OBVIOUS
    <3>2. OnLeaf(a)' /\ Gathered(ls, a)'  BY <1>1, <3>1, LeafUnchanged DEF OnWay
    <3> QED BY <2>1, <3>1, <3>2 DEF OnWay
  <2> QED BY <2>1, <2>2, <2>3, <2>4 DEF SpareInv
<1> QED BY <1>1, SpareReadInode, SpareDescend, SpareInLeaf, SpareNextLeaf DEF Next

\* DamageCostsOnlyTheRest, for every directory that was written like one, with
\* any number of leaves and levels, names of any length in chains of any
\* number of slots, whatever the damaged page says.
THEOREM DamageStaysBehind == Spec => []DamageCostsOnlyTheRest
<1>1. TypeInv /\ SpareInv => DamageCostsOnlyTheRest
  <2> SUFFICES ASSUME TypeInv, SpareInv, at = "done"
               PROVE  /\ IsPrefix(Written(Spared), Read)
                      /\ dir.hit = -1 => Read = Written(dir.leaves)
    BY DEF DamageCostsOnlyTheRest
  <2>1. dir \in Directories  BY DEF TypeInv, WalkInv, PagesOK
  <2>2. PICK w, r : w = Written(Spared) /\ r = Read  OBVIOUS
  <2>3. w \in Seq(Entries)  BY <2>1, <2>2, SparedType
  <2>4. PICK X : r \in Seq(X) /\ Len(r) = Len(vin)  BY <2>2, ReadType
  <2>5. CASE Behind
    <3>1. Len(w) <= Len(r) /\ \A k \in 1..Len(w) : r[k] = w[k]
      BY <2>2, <2>4, <2>5 DEF Behind
    <3>2. SubSeq(w, 1, Len(w)) = SubSeq(r, 1, Len(w))  BY <2>3, <2>4, <3>1
    <3> QED BY <2>2, <2>5, <3>1, <3>2 DEF IsPrefix, Behind
  <2>6. CASE ~ Behind
    <3>1. Spared = dir.leaves /\ Read = Written(dir.leaves)  BY <2>6 DEF SpareInv
    <3>2. w = r /\ Len(w) \in Nat  BY <2>2, <2>3, <3>1
    <3> QED BY <2>2, <3>1, <3>2 DEF IsPrefix
  <2> QED BY <2>5, <2>6
<1>2. Init => SpareInv  BY DEF Init, SpareInv, Read
<1> QED
  BY <1>1, <1>2, TypeInit, TypeStep, SpareStep, DirWalkAssumption, PTL DEF Spec
=============================================================================
