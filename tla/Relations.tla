----------------------------- MODULE Relations ------------------------------
(***************************************************************************)
(* Recoverer: who is whose parent, and what everything is called.  The     *)
(* loops run over InodeVector while inodes are appended to it, through the *)
(* index of InodeVector by inode number: an invalidated inode is taken     *)
(* back when a valid one refers to it ("sane by association").             *)
(*                                                                         *)
(* Inode objects are numbers, 0 is NULL.  What the walk over a directory's *)
(* pages ends with (DirWalk) is given by `lists', or by `circles' if it    *)
(* does not end but takes the stack.  A name is a number too: the number   *)
(* of the inode where the program falls back on it.                        *)
(***************************************************************************)
EXTENDS Integers, SequencesExt

CONSTANTS
  Worlds   \* what the postprocessing can hand over

NULL         == 0
NoName       == -1   \* empty, or with a line break in it
OriginalRoot == -2   \* "original_root"
Kinds        == {"dir", "file", "other"}   \* "other": links, devices, unallocated

InodeType ==
  [kind : Kinds, number : Nat, otime : Nat, dotdot : Nat, circles : BOOLEAN,
   lists : Seq([number : Nat, name : Nat \cup {NoName}])]

ASSUME RelationsAssumption ==
  \A w \in Worlds :
    /\ DOMAIN w.inode \subseteq Nat \ {NULL}
    /\ \A o \in DOMAIN w.inode : w.inode[o] \in InodeType
    /\ w.valid \in Seq(DOMAIN w.inode) /\ w.invalid \in Seq(DOMAIN w.inode)

VARIABLES
  world,     \* the inodes and where the postprocessing left them
  inodes,    \* InodeVector::inodes_
  index,     \* di_number_index_
  indexOk,   \* di_number_index_ok_
  parent, name,
  roots,     \* roots_
  at, i, j   \* the loop the program is in, and its counters

vars == << world, inodes, index, indexOk, parent, name, roots, at, i, j >>

Objects   == DOMAIN world.inode
Ino(o)    == world.inode[o]
Number(o) == Ino(o).number

TypeOK ==
  /\ inodes \in Seq(Objects)
  /\ DOMAIN index \subseteq Nat /\ \A n \in DOMAIN index : index[n] \in Objects
  /\ indexOk \in BOOLEAN
  /\ parent \in [Objects -> Objects \cup {NULL}]
  /\ name \in [Objects -> Nat \cup {NoName, OriginalRoot}]
  /\ roots \subseteq Objects
  /\ at \in {"parents", "names", "numbers", "root", "roots", "dirs", "done", "dead"}
  /\ i \in 1..(Len(inodes) + 1) /\ j \in Nat

\* remove_unmarked and load_from_positions leave the index to be built.
Init ==
  /\ world \in Worlds
  /\ inodes = world.valid
  /\ index = << >> /\ indexOk = FALSE
  /\ parent = [o \in Objects |-> NULL] /\ name = [o \in Objects |-> NoName]
  /\ roots = {}
  /\ at = "parents" /\ i = 1 /\ j = 1

----------------------------------------------------------------------------
(* InodeVector                                                             *)

\* generate_di_number_index: of two with one number the latest allocated.
Generated ==
  [n \in {Number(o) : o \in Range(inodes)} |->
     LET k == CHOOSE k \in DOMAIN inodes :
                /\ Number(inodes[k]) = n
                /\ \A m \in DOMAIN inodes :
                     Number(inodes[m]) = n =>
                       \/ Ino(inodes[m]).otime < Ino(inodes[k]).otime
                       \/ Ino(inodes[m]).otime = Ino(inodes[k]).otime /\ k <= m
     IN inodes[k]]

\* get_by_di_number looks into Index, and keeps it.
Index   == IF indexOk THEN index ELSE Generated
Has(n)  == n \in DOMAIN Index
LookUp  == index' = Index /\ indexOk' = TRUE /\ UNCHANGED inodes

\* get_invalidated_by_di_number, and the one that is chosen of them.  The
\* comparison with `newest' leaves the one that was allocated first.
Invalidated(n) == {k \in DOMAIN world.invalid : Number(world.invalid[k]) = n}
Chosen(v) ==
  LET otime(k) == Ino(world.invalid[k]).otime
  IN world.invalid[CHOOSE k \in v : \A m \in v :
                     otime(k) < otime(m) \/ (otime(k) = otime(m) /\ k <= m)]

FaultySize == Len(world.valid)

\* size(), which the loops ask in every round.
Size == Len(inodes)

FaultyAddInode(o) ==
  /\ inodes' = Append(inodes, o)
  /\ index' = Index
  /\ indexOk' = TRUE

\* add_inode, behind a look-up.
AddInode(o) ==
  /\ inodes' = Append(inodes, o)
  /\ index' = [n \in DOMAIN Index \cup {Number(o)} |-> IF Has(n) THEN Index[n] ELSE o]
  /\ indexOk' = ~ Has(Number(o))

----------------------------------------------------------------------------
(* find_directory_parents                                                  *)

c == inodes[i]

AtInode(loop) == at = loop /\ i <= Size

\* A parent that is a regular file is not accepted.
Accept(p) == IF Ino(p).kind = "file" THEN UNCHANGED parent
                                     ELSE parent' = [parent EXCEPT ![c] = p]

FindParent ==
  /\ AtInode("parents") /\ Ino(c).kind = "dir"
  /\ LET n == Ino(c).dotdot
         v == Invalidated(n) IN
       \/ Has(n) /\ LookUp /\ Accept(Index[n])
       \/ ~ Has(n) /\ v # {} /\ AddInode(Chosen(v))
                   /\ parent' = [parent EXCEPT ![c] = Chosen(v)]
       \/ ~ Has(n) /\ v = {} /\ LookUp /\ UNCHANGED parent
  /\ i' = i + 1
  /\ UNCHANGED << world, name, roots, at, j >>

NoDirectory ==
  /\ AtInode("parents") /\ Ino(c).kind # "dir"
  /\ i' = i + 1
  /\ UNCHANGED << world, inodes, index, indexOk, parent, name, roots, at, j >>

EndLoop(loop, next) ==
  /\ at = loop /\ i > Size
  /\ at' = next /\ i' = 1 /\ j' = 1
  /\ UNCHANGED << world, inodes, index, indexOk, parent, name, roots >>

----------------------------------------------------------------------------
(* find_file_parents_and_names                                             *)

\* extract_inode_names
Names(o) == IF Ino(o).kind = "dir" THEN Ino(o).lists ELSE << >>

FaultyRelate(o, nm) == name' = [name EXCEPT ![o] = nm] /\ UNCHANGED parent
Relate(o, nm) == name' = [name EXCEPT ![o] = nm] /\ parent' = [parent EXCEPT ![o] = c]

Dies(o) == Ino(o).kind = "dir" /\ Ino(o).circles

WalkDies ==
  /\ AtInode("names") /\ Dies(c)
  /\ at' = "dead"
  /\ UNCHANGED << world, inodes, index, indexOk, parent, name, roots, i, j >>

FindName ==
  /\ AtInode("names") /\ ~ Dies(c) /\ j <= Len(Names(c))
  /\ LET e == Names(c)[j]
         v == Invalidated(e.number) IN
       \/ Has(e.number) /\ LookUp /\ Relate(Index[e.number], e.name)
       \/ ~ Has(e.number) /\ v # {} /\ AddInode(Chosen(v)) /\ Relate(Chosen(v), e.name)
       \/ ~ Has(e.number) /\ v = {} /\ LookUp /\ UNCHANGED << parent, name >>
  /\ j' = j + 1
  /\ UNCHANGED << world, roots, at, i >>

FaultyNextInode == i' = i
NextInode       == i' = i + 1

EndNames ==
  /\ AtInode("names") /\ ~ Dies(c) /\ j > Len(Names(c))
  /\ NextInode /\ j' = 1
  /\ UNCHANGED << world, inodes, index, indexOk, parent, name, roots, at >>

NameByNumber ==
  /\ AtInode("numbers")
  /\ name' = IF name[c] = NoName THEN [name EXCEPT ![c] = Number(c)] ELSE name
  /\ i' = i + 1
  /\ UNCHANGED << world, inodes, index, indexOk, parent, roots, at, j >>

NameRoot ==
  /\ at = "root"
  /\ LookUp
  /\ name' = IF Has(2) THEN [name EXCEPT ![Index[2]] = OriginalRoot] ELSE name
  /\ at' = "roots"
  /\ UNCHANGED << world, parent, roots, i, j >>

----------------------------------------------------------------------------
(* find_roots and recover_dirtree                                          *)

\* The parents of o upwards; there is no use in more steps than inodes.
Up(o) == LET up[n \in 0..(Len(inodes) + 1)] ==
               IF n = 0 THEN o
               ELSE IF up[n - 1] = NULL THEN NULL ELSE parent[up[n - 1]]
         IN up

FaultyRoot(o) == Up(o)[Len(inodes) + 1]

\* get_root stops before it comes to an inode again.
Root(o) ==
  LET up      == Up(o)
      Ends(n) == up[n + 1] = NULL \/ \E m \in 0..n : up[m] = up[n + 1]
  IN up[CHOOSE n \in 0..Len(inodes) : Ends(n) /\ \A m \in 0..(n - 1) : ~ Ends(m)]

FaultyRootsAt(o) == IF parent[o] = NULL THEN {} ELSE {Root(o)}
RootsAt(o)       == IF parent[o] = NULL THEN {o} ELSE {Root(o)}

FindRoot ==
  /\ AtInode("roots")
  /\ roots' = roots \cup RootsAt(c)
  /\ i' = i + 1
  /\ UNCHANGED << world, inodes, index, indexOk, parent, name, at, j >>

\* get_full_path knows an inode that is its own parent, and no other circle.
Top(o)     == parent[o] \in {NULL, o}
HasPath(o) == \E n \in 0..Len(inodes) : Up(o)[n] # NULL /\ Top(Up(o)[n])
Path(o)    ==
  LET up == Up(o)
      n  == CHOOSE n \in 0..Len(inodes) :
              up[n] # NULL /\ Top(up[n]) /\ \A m \in 0..(n - 1) : ~ Top(up[m])
  IN [m \in 0..n |-> name[up[m]]]

\* create_dir.  Without a path the recursion takes the stack, and the
\* program with it.
CreateDir ==
  /\ AtInode("dirs")
  /\ IF Ino(c).kind = "dir" /\ ~ HasPath(c) THEN at' = "dead" /\ UNCHANGED i
                                            ELSE i' = i + 1 /\ UNCHANGED at
  /\ UNCHANGED << world, inodes, index, indexOk, parent, name, roots, j >>

Next ==
  \/ FindParent \/ NoDirectory \/ EndLoop("parents", "names")
  \/ WalkDies \/ FindName \/ EndNames \/ EndLoop("names", "numbers")
  \/ NameByNumber \/ EndLoop("numbers", "root") \/ NameRoot
  \/ FindRoot \/ EndLoop("roots", "dirs")
  \/ CreateDir \/ EndLoop("dirs", "done")

Spec     == Init /\ [][Next]_vars
FairSpec == Spec /\ WF_vars(Next)

----------------------------------------------------------------------------
(* Properties                                                              *)

\* The index that is kept while inodes are appended says what one that is
\* built from the vector would say (InodeVector::add_inode).
IndexIsExact == indexOk => index = Generated

\* No inode is taken back whose number is there already, whoever asks for it
\* however often: the vector holds each number once.
TakenBackOnce ==
  \A m \in (Len(world.valid) + 1)..Len(inodes) :
    \A k \in 1..(m - 1) : Number(inodes[k]) # Number(inodes[m])

\* Everything a valid directory lists is valid in the end if it was found on
\* the device at all, the directories taken back on the way included.
NothingListedIsLeft ==
  at \in {"numbers", "root", "roots", "dirs", "done"} =>
    \A d \in Range(inodes) : \A k \in DOMAIN Names(d) :
      LET n == Names(d)[k].number IN Has(n) \/ Invalidated(n) = {}

\* A name comes with its parent: an inode that is called by a name an entry
\* gave it lies in the directory that has this entry, whatever parent it was
\* given before and whoever else lists it.
NamedWhereItLies ==
  at \in {"roots", "dirs", "done"} =>
    \A o \in Range(inodes) :
      name[o] \notin {Number(o), OriginalRoot} =>
        /\ parent[o] \in Range(inodes)
        /\ \E k \in DOMAIN Names(parent[o]) :
             Names(parent[o])[k] = [number |-> Number(o), name |-> name[o]]

\* Two inodes are never restored to one path, so neither overwrites the
\* other, as long as no directory lists a name twice, itself, or a number as a
\* name, and what the postprocessing leaves twice of one number are copies.
WellFormed(d) ==
  \A k, m \in DOMAIN Names(d) :
    /\ Names(d)[k].name = Names(d)[m].name => k = m
    /\ Names(d)[k].number # Number(d)
    /\ \A o \in Objects : Names(d)[k].name # Number(o)
Copies == \A o, p \in Range(world.valid) : Number(o) = Number(p) => Ino(o) = Ino(p)
PathsDiffer ==
  at = "done" /\ Copies /\ (\A d \in Range(inodes) : WellFormed(d)) =>
    \A o, p \in Range(inodes) :
      HasPath(o) /\ HasPath(p) /\ Path(o) = Path(p) => Number(o) = Number(p)

\* Every inode has one of the roots above it, circles or not.
RootsCover ==
  at \in {"dirs", "done"} =>
    \A o \in Range(inodes) : \E n \in DOMAIN Up(o) : Up(o)[n] \in roots

\* The loops over the growing vector end, and the path walk ends in one way
\* or the other.
LoopsEnd == <>(at \in {"done", "dead"})

----------------------------------------------------------------------------
(* What the documentation says.                                            *)

\* README.md:11: "If an error occurs during the recovery of a file or
\* directory the process skips to the next item."
NextItemIsReached == at # "dead"

\* inodevector.cpp:253: "if two identical di_numbers are found, use the lates
\* allocated", as `newest' in recoverer.cpp:182 means to.
LatestIsTakenBack ==
  \A m \in (Len(world.valid) + 1)..Len(inodes) :
    \A k \in Invalidated(Number(inodes[m])) :
      Ino(world.invalid[k]).otime <= Ino(inodes[m]).otime
=============================================================================
