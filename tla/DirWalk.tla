------------------------------ MODULE DirWalk -------------------------------
(***************************************************************************)
(* DirInode::extract_inode_names: what the program reads of a directory.   *)
(* It goes down from the root in the inode by the first entry of every     *)
(* page, and from the leaf it gets to along the siblings; an entry's name  *)
(* is collected from a chain of slots.  Addresses, indices and lengths     *)
(* come from the device as they are.                                       *)
(*                                                                         *)
(* A block has the size of a page.  A slot of the union is a record of the *)
(* fields of all its uses; what a slot says that is used for something     *)
(* else than it was written for is whatever the scenario puts there.       *)
(***************************************************************************)
EXTENDS Unicode

CONSTANTS
  Directories,         \* the directories, and the devices they lie on
  DTLHDRDATALEN,       \* units of a name in the first slot of an entry
  DTSLOTDATALEN,       \* units of a name in every other slot
  Heap,                \* what new memory may hold
  Strays,              \* what a slot outside of its page may look like
  Foreign,             \* pages of other directories, as they lie on the stack
  StackDepth           \* the calls of descend and next_leaf the stack holds

\* A slot: idtentry and ldtentry (the first slot of an entry) and dtslot.
SlotType == [addr : Nat, len : Nat, inumber : Nat, namlen : Nat, next : Int,
             name : [1..DTSLOTDATALEN -> Units]]
\* dtpage_t, and dtroot_t with no sibling.
PageType == [leaf : BOOLEAN, nextindex : Int, stbl : Seq(Int), slot : Seq(SlotType),
             next : Int]

ASSUME DirWalkAssumption ==
  /\ DTLHDRDATALEN \in Nat /\ DTSLOTDATALEN \in Nat /\ DTLHDRDATALEN <= DTSLOTDATALEN
  /\ StackDepth \in Nat
  /\ Heap \subseteq Units /\ Strays \subseteq SlotType /\ Foreign \subseteq PageType
  /\ \A d \in Directories :
       /\ d.blocks \in Nat \ {0}
       /\ d.root \in PageType /\ d.root.next = 0
       /\ d.page \in [1..(d.blocks - 1) -> PageType]

\* A page of zeros.
Blank == [leaf |-> FALSE, nextindex |-> 0, stbl |-> << 0 >>, slot |-> << >>, next |-> 0]

\* A slot that is not in the page is what lies behind it in memory.
Slot(p, k) == IF k \in DOMAIN p.slot THEN {p.slot[k]} ELSE Strays

\* The k-th entry, by the sorted table.  Behind the table of the root there
\* are slots.
Entry(p, k) == IF k \in DOMAIN p.stbl THEN Slot(p, p.stbl[k]) ELSE Range(p.slot) \cup Strays

----------------------------------------------------------------------------
(* A directory also says what JFS wrote: `leaves' are its leaf pages in     *)
(* order, `spine' the pages above the first of them from the root (page 0)  *)
(* on, `holds' the entries of each leaf and `chains' the slots of each      *)
(* entry, `hit' the one page that was damaged since.  The others hold what  *)
(* was written, and if only links were damaged all leaves list what they    *)
(* did.                                                                    *)

PageAt(d, a) == IF a = 0 THEN d.root ELSE d.page[a]
Way(d)       == d.spine \o d.leaves

\* A name begins in the first slot of its entry and goes on in the others.
Before(j) == IF j = 1 THEN 0 ELSE DTLHDRDATALEN + (j - 2) * DTSLOTDATALEN
Stored(p, chain, e) ==
  /\ chain \in Seq(DOMAIN p.slot) /\ chain # << >> /\ IsInjective(chain)
  /\ p.slot[chain[1]].inumber = e.di_number /\ p.slot[chain[1]].namlen = Len(e.name)
  /\ Len(e.name) <= Before(Len(chain) + 1)
  /\ \A j \in DOMAIN chain :
       /\ p.slot[chain[j]].next = IF j < Len(chain) THEN chain[j + 1] ELSE -1
       /\ \A m \in (Before(j) + 1)..Before(j + 1) :
            m <= Len(e.name) => p.slot[chain[j]].name[m - Before(j)] = e.name[m]

Lists(p, chains, es) ==
  /\ p.leaf /\ p.nextindex = Len(es)
  /\ \A k \in DOMAIN es : /\ k \in DOMAIN p.stbl /\ p.stbl[k] = chains[k][1]
                          /\ Stored(p, chains[k], es[k])

\* The page at the k-th place of the way leads to the next.
Leads(d, k) ==
  LET p == PageAt(d, Way(d)[k])
  IN IF k <= Len(d.spine)
     THEN /\ ~ p.leaf /\ 1 \in DOMAIN p.stbl /\ p.stbl[1] \in DOMAIN p.slot
          /\ p.slot[p.stbl[1]].addr = Way(d)[k + 1] /\ p.slot[p.stbl[1]].len <= d.blocks
     ELSE p.next = IF k < Len(Way(d)) THEN Way(d)[k + 1] ELSE 0

ListsAll(d) ==
  /\ \A a \in 0..(d.blocks - 1) : PageAt(d, a).leaf => a \in Range(d.leaves)
  /\ \A a \in Range(d.leaves) :
       /\ Lists(PageAt(d, a), d.chains[a], d.holds[a])
       /\ PageAt(d, a).next \in DOMAIN d.page => PageAt(d, a).next \in Range(d.leaves)
  /\ \A a, b \in Range(d.leaves) : \A j \in DOMAIN d.holds[a], k \in DOMAIN d.holds[b] :
       d.holds[a][j] = d.holds[b][k] => a = b /\ j = k

ASSUME WrittenAssumption ==
  \A d \in Directories :
    /\ d.spine \in Seq(0..(d.blocks - 1)) /\ d.leaves \in Seq(0..(d.blocks - 1))
    /\ d.leaves # << >> /\ Way(d)[1] = 0 /\ IsInjective(Way(d))
    /\ \A a \in Range(d.leaves) : d.holds[a] \in Seq([di_number : Nat, name : Seq(Units \ {0})])
    /\ \A k \in DOMAIN Way(d) : Way(d)[k] # d.hit => Leads(d, k)
    /\ \A a \in Range(d.leaves) \ {d.hit} : Lists(PageAt(d, a), d.chains[a], d.holds[a])
    /\ d.harm \in {"none", "link"} => ListsAll(d)

VARIABLES
  dir,       \* the directory and its device
  at,        \* where the program is
  page, i,   \* the page in memory, and the entries of it that were read
  depth,     \* calls on the stack
  entry,     \* the entry that is read: its first slot and the locals of get_direntry
  vin        \* the entries that were read

vars == << dir, at, page, i, depth, entry, vin >>

NoEntry == [first |-> [addr |-> 0, len |-> 0, inumber |-> 0, namlen |-> 0, next |-> -1,
                       name |-> [k \in 1..DTSLOTDATALEN |-> 0]],
            name |-> << >>, n |-> 0, rest |-> 0, len |-> 0, next |-> -1, rec |-> {}]

TypeOK ==
  /\ at \in {"inode", "descend", "leaf", "name", "done", "dead"}
  /\ page \in PageType /\ i \in Nat /\ depth \in 0..StackDepth
  /\ entry.first \in SlotType /\ entry.name \in Seq(Units)
  /\ entry.n \in Nat /\ entry.rest \in Nat /\ entry.len \in Nat
  /\ entry.next \in Int /\ entry.rec \subseteq Nat
  /\ vin \in Seq([di_number : Nat, name : Seq(Bytes)])

Init ==
  /\ dir \in Directories
  /\ at = "inode" /\ page = Blank /\ i = 0 /\ depth = 0 /\ entry = NoEntry /\ vin = << >>

----------------------------------------------------------------------------
(* Pages                                                                   *)

FaultyReadPage(a, old) == IF a >= dir.blocks - 1 THEN old ELSE {dir.page[a]}

\* read_bytes refuses what lies behind the end, but not the end itself:
\* there it leaves the buffer as it was.
Refused(a)       == a < 0 \/ a > dir.blocks
ReadPage(a, old) == IF a = dir.blocks THEN old ELSE {dir.page[a]}

----------------------------------------------------------------------------
(* extract_inode_names, descend                                            *)

\* The inode is a directory: it was made a DirInode by its mode.
ReadInode ==
  /\ at = "inode"
  /\ page' = dir.root
  /\ at' = IF dir.root.leaf THEN "leaf" ELSE "descend"
  /\ UNCHANGED << dir, i, depth, entry, vin >>

Sane(pxd) == pxd.addr # 0 /\ pxd.addr <= dir.blocks /\ pxd.len <= dir.blocks

\* An exception ends the walk, and what was read until then is returned.
FaultyGiveUp == at' = "done" /\ vin' = << >> /\ UNCHANGED << dir, page, i, depth, entry >>
GiveUp       == at' = "done" /\ UNCHANGED << dir, page, i, depth, entry, vin >>
Overflow     == at' = "dead" /\ UNCHANGED << dir, page, i, depth, entry, vin >>

\* dtree is a new local of every call; at the end of the device it keeps
\* what is on the stack, perhaps a page that an earlier call read there, of
\* this directory or another one.
Descend ==
  /\ at = "descend"
  /\ \E pxd \in Entry(page, 1) :
       IF depth = StackDepth THEN Overflow
       ELSE IF ~ Sane(pxd) THEN GiveUp
       ELSE /\ page' \in ReadPage(pxd.addr, Range(dir.page) \cup {Blank} \cup Foreign)
            /\ at' = IF page'.leaf THEN "leaf" ELSE "descend"
            /\ depth' = depth + 1
            /\ UNCHANGED << dir, i, entry, vin >>

----------------------------------------------------------------------------
(* get_direntry                                                            *)

Lesser(a, b) == IF a < b THEN a ELSE b

\* UniStrncpy: up to a 0, and zeros behind it.
UniStrncpy(buffer, n, name, len) ==
  [k \in DOMAIN buffer \cup (n + 1)..(n + len) |->
     IF k \notin (n + 1)..(n + len)              THEN buffer[k]
     ELSE IF \E m \in 1..(k - n) : name[m] = 0   THEN 0
     ELSE name[k - n]]

\* The entry's own slot.  `rest' and `len' are namlen and len of the code,
\* which takes len off namlen when it goes on.
FirstSlot(slot, g) ==
  LET len == Lesser(slot.namlen, DTLHDRDATALEN)
  IN [first |-> slot,
      name  |-> UniStrncpy([k \in 1..slot.namlen |-> g], 0, slot.name, len),
      n |-> len, rest |-> slot.namlen, len |-> len, next |-> slot.next, rec |-> {}]

Throws == depth > 0 /\ page.nextindex = -1

FaultyMoreEntries == i <= page.nextindex
MoreEntries       == i < page.nextindex

StartEntry ==
  /\ at = "leaf" /\ ~ Throws /\ MoreEntries
  /\ \E slot \in Entry(page, i + 1), g \in Heap : entry' = FirstSlot(slot, g)
  /\ at' = "name"
  /\ UNCHANGED << dir, page, i, depth, vin >>

FaultyPiece(rest) == DTSLOTDATALEN
Piece(rest)       == Lesser(rest, DTSLOTDATALEN)

\* A chain that comes back to one of its slots ends there.
FaultyOnward(slot, rec) == slot.next
Onward(slot, rec)       == IF slot.next \in rec THEN -1 ELSE slot.next

NextSlot ==
  /\ at = "name" /\ entry.next >= 0
  /\ \E slot \in Slot(page, entry.next) :
       LET rest == entry.rest - entry.len
           len  == Piece(rest)
           rec  == entry.rec \cup {entry.next}
       IN entry' = [first |-> entry.first,
                    name  |-> UniStrncpy(entry.name, entry.n, slot.name, len),
                    n |-> entry.n + len, rest |-> rest, len |-> len,
                    next |-> Onward(slot, rec), rec |-> rec]
  /\ UNCHANGED << dir, at, page, i, depth, vin >>

EndEntry ==
  /\ at = "name" /\ entry.next < 0
  /\ vin' = Append(vin, [di_number |-> entry.first.inumber,
                         name |-> Unicode_String_to_UTF8_std_string(entry.name)])
  /\ at' = "leaf" /\ i' = i + 1
  /\ UNCHANGED << dir, page, depth, entry >>

----------------------------------------------------------------------------
(* next_leaf                                                               *)

\* Only a nextindex of -1 is taken for damage, and not in the inode.
RefuseLeaf == at = "leaf" /\ Throws /\ GiveUp

\* The page is read over the one before, whatever it is: the flag that says
\* it is a leaf is not looked at again.  At the end of the device the page
\* before stays.
NextLeaf ==
  /\ at = "leaf" /\ ~ Throws /\ ~ MoreEntries
  /\ IF page.next = 0 \/ Refused(page.next) THEN GiveUp
     ELSE IF depth = StackDepth THEN Overflow
     ELSE /\ page' \in ReadPage(page.next, {page})
          /\ i' = 0 /\ depth' = depth + 1
          /\ UNCHANGED << dir, at, entry, vin >>

Next == ReadInode \/ Descend \/ StartEntry \/ NextSlot \/ EndEntry \/ RefuseLeaf \/ NextLeaf

Spec     == Init /\ [][Next]_vars
FairSpec == Spec /\ WF_vars(Next)

----------------------------------------------------------------------------
(* Properties                                                              *)

Written(leaves) == FlattenSeq([k \in DOMAIN leaves |-> dir.holds[leaves[k]]])

\* The leaves before the damaged page, all of them if it is none the walk needs.
Spared ==
  IF dir.hit \in Range(dir.spine) THEN << >>
  ELSE SubSeq(dir.leaves, 1,
              CHOOSE n \in 0..Len(dir.leaves) :
                /\ \A k \in 1..n : dir.leaves[k] # dir.hit
                /\ n < Len(dir.leaves) => dir.leaves[n + 1] = dir.hit)

Read == [k \in DOMAIN vin |-> [di_number |-> vin[k].di_number, name |-> ReadName(vin[k].name)]]

\* An undamaged directory is listed with every entry once, in order, with
\* its number and its whole name, however many slots and pages it takes
\* (extract_inode_names, descend, next_leaf, get_direntry, and the
\* conversion); a damaged page costs nothing that lies before it.
DamageCostsOnlyTheRest ==
  at = "done" =>
    /\ IsPrefix(Written(Spared), Read)
    /\ dir.hit = -1 => Read = Written(dir.leaves)

PagesHere == {dir.root} \cup Range(dir.page)

\* A page above the leaves whose child is the block behind the last.
LeadsOff(p) == ~ p.leaf /\ \E pxd \in Entry(p, 1) : pxd.addr = dir.blocks

\* A walk that ends has listed nothing that is not in the directory, and
\* nothing twice, wherever a damaged link leads among the leaves, and behind
\* the device.  Only right at its end descend reads nothing, and lists what
\* the stack holds: there it may be another directory's page.
NothingIsInvented ==
  at = "done" /\ dir.harm \in {"none", "link"} /\ (\A p \in PagesHere : ~ LeadsOff(p)) =>
    /\ Range(Read) \subseteq Range(Written(dir.leaves))
    /\ IsInjective(Read)

\* get_direntry copies nothing behind the buffer it made for namlen units,
\* whatever chain of slots it follows, and fills it no further than it has
\* taken off namlen.
InsideTheBuffer ==
  at = "name" => /\ DOMAIN entry.name = 1..entry.first.namlen
                 /\ entry.n + entry.rest = entry.first.namlen + entry.len

\* The recursion takes the stack only where links go round in circles, or
\* lead to the block behind the last one, which is read as nothing at all,
\* or where they lead through as many different pages as the stack has room
\* for calls (descend, next_leaf; the bound of read_bytes).
Links(p) == {p.next} \cup (IF p.leaf THEN {} ELSE {pxd.addr : pxd \in Entry(p, 1)})
Linked(chain) == \A k \in DOMAIN chain \ {1} : chain[k] \in Links(dir.page[chain[k - 1]])
Circular ==
  \E S \in SUBSET DOMAIN dir.page :
    /\ S # {}
    /\ \A a \in S : \E b \in Links(dir.page[a]) : b \in S \cup {dir.blocks}
LongChain == \E chain \in Injection(1..StackDepth, DOMAIN dir.page) : Linked(chain)
DiesOnCirclesOnly ==
  at = "dead" => Circular \/ dir.blocks \in Links(dir.root) \/ LongChain

\* Every chain of slots and every list of pages is left in one way or the
\* other: circles among slots are seen, circles among pages take the stack.
WalkEnds == <>(at \in {"done", "dead"})
=============================================================================
