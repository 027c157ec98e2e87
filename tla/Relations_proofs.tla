-------------------------- MODULE Relations_proofs --------------------------
(***************************************************************************)
(* Proofs about Relations, for every set of inodes the postprocessing can  *)
(* hand over: the index stays exact while inodes are taken back, none is   *)
(* taken back twice, nothing a directory lists is left out, a name that an *)
(* entry gave comes with its parent, every inode has a root, and no two    *)
(* get one path.                                                           *)
(***************************************************************************)
EXTENDS Relations, SequenceLemmas, FiniteSetTheorems, SequenceTheorems

----------------------------------------------------------------------------
(* Least elements, of which both choices in InodeVector are made.          *)

\* The first of the elements of S with the least f.
LEMMA LeastOfAll ==
  ASSUME NEW S \in SUBSET Nat, S # {}, NEW f, \A k \in S : f[k] \in Nat
  PROVE  \E k \in S : \A m \in S : f[k] < f[m] \/ (f[k] = f[m] /\ k <= m)
<1> DEFINE F == {f[k] : k \in S}
<1>1. PICK t \in F : \A u \in F : t <= u
  <2>1. F \in SUBSET Nat /\ F # {}  OBVIOUS
  <2> HIDE DEF F
  <2> QED BY <2>1, Least
<1> DEFINE T == {k \in S : f[k] = t}
<1>2. PICK k \in T : \A m \in T : k <= m
  <2>1. T \in SUBSET Nat /\ T # {}  BY <1>1
  <2> HIDE DEF T
  <2> QED BY <2>1, Least
<1>3. \A m \in S : f[k] < f[m] \/ (f[k] = f[m] /\ k <= m)
  <2> TAKE m \in S
  <2>1. f[m] \in F /\ t <= f[m] /\ f[m] \in Nat /\ t \in Nat  BY <1>1
  <2>2. f[k] = t  BY <1>2
  <2>3. CASE f[m] = t  BY <2>2, <2>3, <1>2
  <2>4. CASE f[m] # t  BY <2>1, <2>2, <2>4
  <2> QED BY <2>3, <2>4
<1> QED BY <1>2, <1>3

\* The last element of the first N with the greatest f is there as well.
LEMMA GreatestOfAll ==
  ASSUME NEW N \in Nat, NEW S \in SUBSET (1..N), S # {},
         NEW f, \A k \in S : f[k] \in Nat
  PROVE  \E k \in S : \A m \in S : f[m] < f[k] \/ (f[m] = f[k] /\ k <= m)
<1> DEFINE Upto(n)  == {m \in S : m <= n}
           Best(n, k) == \A m \in Upto(n) : f[m] < f[k] \/ (f[m] = f[k] /\ k <= m)
           Bad == {n \in 1..N : Upto(n) # {} /\ \A k \in Upto(n) : ~ Best(n, k)}
<1>1. Bad = {}
  <2> SUFFICES ASSUME Bad # {} PROVE FALSE  OBVIOUS
  <2>1. PICK n \in Bad : \A k \in Bad : n <= k
    <3>1. Bad \in SUBSET Nat  OBVIOUS
    <3> HIDE DEF Bad
    <3> QED BY <3>1, Least
  <2>2. n \in 1..N /\ n - 1 \notin Bad  BY <2>1
  <2>3. Upto(n) = Upto(n - 1) \cup (S \cap {n})
    <3>1. \A m \in S : m \in Nat /\ n \in Nat /\ (m <= n <=> m <= n - 1 \/ m = n)
      BY <2>2
    <3> QED BY <3>1
  <2>4. CASE n \notin S
    <3>1. Upto(n) = Upto(n - 1)  BY <2>3, <2>4
    <3>2. Upto(n - 1) # {}  BY <2>1, <3>1
    <3>3. n - 1 \in 1..N
      <4>1. PICK m \in S : m <= n - 1  BY <3>2
      <4> QED BY <4>1, <2>2
    <3>4. PICK k \in Upto(n - 1) : Best(n - 1, k)  BY <3>2, <3>3, <2>2
    <3> QED BY <3>1, <3>4, <2>1
  <2>5. CASE n \in S /\ Upto(n - 1) = {}
    <3>1. Upto(n) = {n}  BY <2>3, <2>5
    <3>2. Best(n, n)  BY <3>1
    <3> QED BY <3>1, <3>2, <2>1
  <2>6. CASE n \in S /\ Upto(n - 1) # {}
    <3>1. n - 1 \in 1..N  BY <2>2, <2>6
    <3>2. PICK k \in Upto(n - 1) : Best(n - 1, k)  BY <3>1, <2>2, <2>6
    <3>3. k \in S /\ k < n /\ f[k] \in Nat /\ f[n] \in Nat  BY <3>2, <2>6, <2>2
    <3>4. CASE f[n] > f[k]
      <4>1. Best(n, n)  
        <5> TAKE m \in Upto(n)
        <5>1. CASE m = n BY <5>1
        <5>2. CASE m \in Upto(n - 1)
          BY <5>2, <3>2, <3>3, <3>4
        <5> QED BY <5>1, <5>2, <2>3
      <4> QED BY <4>1, <2>1, <2>6, <2>3
    <3>5. CASE ~ (f[n] > f[k])
      <4>1. Best(n, k)
        <5> TAKE m \in Upto(n)
        <5>1. CASE m = n BY <5>1, <3>3, <3>5
        <5>2. CASE m \in Upto(n - 1)
          BY <5>2, <3>2
        <5> QED BY <5>1, <5>2, <2>3
      <4> QED BY <4>1, <2>1, <2>3, <3>2
    <3> QED BY <3>4, <3>5
  <2> QED BY <2>4, <2>5, <2>6
<1>2. N \in 1..N /\ Upto(N) = S
  <2>1. PICK m \in S : m \in 1..N  OBVIOUS
  <2>2. N \in 1..N  BY <2>1
  <2>3. \A k \in S : k <= N  OBVIOUS
  <2> QED BY <2>2, <2>3
<1> QED BY <1>1, <1>2

----------------------------------------------------------------------------
(* What the two look-ups of InodeVector return.                            *)

Known == {Number(o) : o \in Range(inodes)}

VectorOK == world \in Worlds /\ inodes \in Seq(Objects)

LEMMA InodeOK ==
  ASSUME RelationsAssumption, world \in Worlds, NEW o \in Objects
  PROVE  /\ Ino(o) \in InodeType /\ Number(o) \in Nat /\ Ino(o).otime \in Nat
         /\ o \in Nat \ {NULL}
BY DEF RelationsAssumption, Objects, Ino, Number, InodeType

LEMMA ListOK ==
  ASSUME RelationsAssumption, world \in Worlds, NEW o \in Objects
  PROVE  /\ Len(Names(o)) \in Nat /\ DOMAIN Names(o) = 1..Len(Names(o))
         /\ \A k \in DOMAIN Names(o) : /\ Names(o)[k].number \in Nat
                                       /\ Names(o)[k].name \in Nat \cup {NoName}
                                       /\ Names(o)[k] = [number |-> Names(o)[k].number,
                                                         name   |-> Names(o)[k].name]
<1> DEFINE E == [number : Nat, name : Nat \cup {NoName}]
<1>1. Ino(o).lists \in Seq(E)
  BY InodeOK DEF InodeType
<1>2. \A e \in E : /\ e.number \in Nat /\ e.name \in Nat \cup {NoName}
                   /\ e = [number |-> e.number, name |-> e.name]
  OBVIOUS
<1> HIDE DEF E
<1>3. Names(o) \in Seq(E)
  BY <1>1 DEF Names
<1>4. /\ Len(Names(o)) \in Nat /\ DOMAIN Names(o) = 1..Len(Names(o))
      /\ \A k \in DOMAIN Names(o) : Names(o)[k] \in E
  BY <1>3
<1> QED BY <1>2, <1>4

\* What get_invalidated_by_di_number finds has the number it looks for.
LEMMA ChosenIsThere ==
  ASSUME RelationsAssumption, world \in Worlds, NEW n, Invalidated(n) # {}
  PROVE  Chosen(Invalidated(n)) \in Objects /\ Number(Chosen(Invalidated(n))) = n
<1> DEFINE S == Invalidated(n)
           f == [k \in DOMAIN world.invalid |-> Ino(world.invalid[k]).otime]
<1>1. world.invalid \in Seq(Objects)
  BY DEF RelationsAssumption, Objects
<1>2. \A k \in DOMAIN world.invalid : world.invalid[k] \in Objects /\ k \in Nat
  BY <1>1
<1>3. \A k \in DOMAIN world.invalid : f[k] \in Nat
  BY <1>2, InodeOK
<1>4. S \in SUBSET Nat /\ S # {} /\ S \subseteq DOMAIN world.invalid
  BY <1>2 DEF Invalidated
<1>5. \A k \in S : f[k] = Ino(world.invalid[k]).otime
  BY <1>4
<1>6. \A k \in S : f[k] \in Nat
  BY <1>3, <1>4
<1>7. \A k \in S : world.invalid[k] \in Objects /\ Number(world.invalid[k]) = n
  BY <1>2 DEF Invalidated
<1> HIDE DEF S, f
<1>8. \E k \in S : \A m \in S : f[k] < f[m] \/ (f[k] = f[m] /\ k <= m)
  BY <1>4, <1>6, LeastOfAll
<1>9. \E k \in S : Chosen(S) = world.invalid[k]
  BY <1>8, <1>5 DEF Chosen
<1> QED BY <1>7, <1>9 DEF S

\* The position in v that generate_di_number_index chooses for n.
Best(v, n, k) ==
  /\ Number(v[k]) = n
  /\ \A m \in DOMAIN v :
       Number(v[m]) = n => \/ Ino(v[m]).otime < Ino(v[k]).otime
                           \/ Ino(v[m]).otime = Ino(v[k]).otime /\ k <= m

LEMMA PositionOfBest ==
  ASSUME RelationsAssumption, VectorOK, NEW n \in Known
  PROVE  \E k \in DOMAIN inodes : Best(inodes, n, k)
<1> DEFINE S == {k \in DOMAIN inodes : Number(inodes[k]) = n}
           f == [k \in DOMAIN inodes |-> Ino(inodes[k]).otime]
<1>1. /\ \A k \in DOMAIN inodes : inodes[k] \in Objects /\ k \in 1..Len(inodes)
      /\ Len(inodes) \in Nat
  BY DEF VectorOK
<1>2. \A k \in DOMAIN inodes : f[k] \in Nat
  BY <1>1, InodeOK DEF VectorOK
<1>3. S \in SUBSET (1..Len(inodes)) /\ S # {}
  BY <1>1 DEF Known, Range
<1>4. \A k \in S : f[k] \in Nat /\ f[k] = Ino(inodes[k]).otime
  BY <1>2
<1>5. \A k : k \in S <=> k \in DOMAIN inodes /\ Number(inodes[k]) = n
  OBVIOUS
<1> HIDE DEF S, f
<1>6. \E k \in S : \A m \in S : f[m] < f[k] \/ (f[m] = f[k] /\ k <= m)
  BY <1>1, <1>3, <1>4, GreatestOfAll
<1> QED BY <1>4, <1>5, <1>6 DEF Best

LEMMA GeneratedByBest ==
  Generated = [n \in Known |-> inodes[CHOOSE k \in DOMAIN inodes : Best(inodes, n, k)]]
BY DEF Generated, Known, Best

\* An index that is built has an inode for each number, with this number.
LEMMA GeneratedIsThere ==
  ASSUME RelationsAssumption, VectorOK
  PROVE  /\ DOMAIN Generated = Known
         /\ \A n \in Known : Generated[n] \in Range(inodes) /\ Number(Generated[n]) = n
<1>1. ASSUME NEW n \in Known
      PROVE  Generated[n] \in Range(inodes) /\ Number(Generated[n]) = n
  <2> DEFINE k == CHOOSE k \in DOMAIN inodes : Best(inodes, n, k)
  <2>1. k \in DOMAIN inodes /\ Best(inodes, n, k)
    BY PositionOfBest
  <2>2. Generated[n] = inodes[k]
    BY GeneratedByBest
  <2> QED BY <2>1, <2>2 DEF Best, Range
<1> QED BY <1>1, GeneratedByBest

----------------------------------------------------------------------------
(* The index while inodes are appended.                                    *)

IndexOK == VectorOK /\ IndexIsExact

LEMMA IndexIsThere ==
  ASSUME RelationsAssumption, IndexOK
  PROVE  /\ Index = Generated
         /\ \A n : Has(n) <=> n \in Known
         /\ \A n : Has(n) => Index[n] \in Range(inodes) /\ Number(Index[n]) = n
BY GeneratedIsThere DEF IndexOK, IndexIsExact, Index, Has

LEMMA LookUpKeepsIt ==
  ASSUME RelationsAssumption, IndexOK, LookUp, UNCHANGED world
  PROVE  IndexOK' /\ Known' = Known
<1>1. Generated' = Generated /\ Known' = Known
  BY DEF LookUp, Generated, Known, Number, Ino
<1>2. VectorOK'
  BY DEF IndexOK, VectorOK, LookUp, Objects
<1> QED BY <1>1, <1>2, IndexIsThere DEF IndexOK, IndexIsExact, LookUp

\* An inode whose number is new is the choice for this number, and changes
\* no other choice.
LEMMA AppendKeepsIt ==
  ASSUME RelationsAssumption, IndexOK, NEW o \in Objects, Number(o) \notin Known,
         AddInode(o), UNCHANGED world
  PROVE  IndexOK' /\ Known' = Known \cup {Number(o)}
<1> DEFINE v == Append(inodes, o)
<1>1. /\ Len(inodes) \in Nat /\ DOMAIN inodes = 1..Len(inodes)
      /\ inodes' = v /\ DOMAIN v = 1..(Len(inodes) + 1)
      /\ \A k \in DOMAIN inodes : v[k] = inodes[k]
      /\ v[Len(inodes) + 1] = o
  BY DEF AddInode, IndexOK, VectorOK
<1>2. VectorOK'
  BY DEF IndexOK, VectorOK, AddInode, Objects
<1> HIDE DEF v
<1>3. Range(v) = Range(inodes) \cup {o}
  BY <1>1 DEF Range
<1>4. Known' = Known \cup {Number(o)} /\ Known' = {Number(p) : p \in Range(v)}
  BY <1>1, <1>3 DEF Known, Number, Ino
<1>5. \A k \in DOMAIN inodes : Number(inodes[k]) \in Known
  BY DEF Known, Range
<1>6. Generated' = [n \in Known' |-> v[CHOOSE k \in DOMAIN v : Best(v, n, k)]]
  BY <1>1, <1>4 DEF Generated, Best, Number, Ino
<1>7. index' = [n \in Known' |-> IF n \in Known THEN Generated[n] ELSE o]
  BY <1>4, IndexIsThere, GeneratedIsThere DEF AddInode, IndexOK
<1>8. ASSUME NEW n \in Known
      PROVE  v[CHOOSE k \in DOMAIN v : Best(v, n, k)] = Generated[n]
  <2>1. \A k : k \in DOMAIN v /\ Best(v, n, k) <=> k \in DOMAIN inodes /\ Best(inodes, n, k)
    <3>1. n # Number(o)
      OBVIOUS
    <3>2. ASSUME NEW k \in DOMAIN inodes PROVE Best(v, n, k) <=> Best(inodes, n, k)
      BY <1>1, <3>1 DEF Best
    <3>3. ~ Best(v, n, Len(inodes) + 1)
      BY <1>1, <3>1 DEF Best
    <3>4. \A k : k \in DOMAIN v <=> k \in DOMAIN inodes \/ k = Len(inodes) + 1
      BY <1>1
    <3> QED BY <3>2, <3>3, <3>4
  <2>2. (CHOOSE k \in DOMAIN v : Best(v, n, k)) = CHOOSE k \in DOMAIN inodes : Best(inodes, n, k)
    BY <2>1, Zenon
  <2>3. \E k \in DOMAIN inodes : Best(inodes, n, k)
    BY PositionOfBest DEF IndexOK
  <2>4. (CHOOSE k \in DOMAIN inodes : Best(inodes, n, k)) \in DOMAIN inodes
    BY <2>3
  <2> QED BY <1>1, <2>2, <2>4, GeneratedByBest
<1>9. v[CHOOSE k \in DOMAIN v : Best(v, Number(o), k)] = o
  <2>1. \A k \in DOMAIN v : Best(v, Number(o), k) => k = Len(inodes) + 1
    BY <1>1, <1>5 DEF Best
  <2>2. Best(v, Number(o), Len(inodes) + 1)
    BY <1>1, <1>5 DEF Best
  <2> QED BY <1>1, <2>1, <2>2
<1>10. index' = Generated'
  BY <1>4, <1>6, <1>7, <1>8, <1>9
<1> QED BY <1>2, <1>4, <1>10 DEF IndexOK, IndexIsExact

----------------------------------------------------------------------------
(* The invariant.                                                          *)

\* While the directories are read, what the entries read so far name is
\* valid, or was never found.
Served(d, k) == LET n == Names(d)[k].number IN n \in Known \/ Invalidated(n) = {}

Listed ==
  /\ at = "names" =>
       /\ \A p \in 1..(i - 1) : \A k \in DOMAIN Names(inodes[p]) : Served(inodes[p], k)
       /\ i <= Len(inodes) => \A k \in DOMAIN Names(c) : k \in 1..(j - 1) => Served(c, k)
  /\ at \in {"numbers", "root", "roots", "dirs", "done"} =>
       \A p \in DOMAIN inodes : \A k \in DOMAIN Names(inodes[p]) : Served(inodes[p], k)

\* The entry an inode has its name from, in the directory that is its parent.
FromEntry(o) ==
  /\ parent[o] \in Range(inodes)
  /\ \E k \in DOMAIN Names(parent[o]) :
       Names(parent[o])[k] = [number |-> Number(o), name |-> name[o]]

Named ==
  /\ at = "parents" => \A o \in Objects : name[o] = NoName
  /\ at = "names" => \A o \in Objects : name[o] # NoName => FromEntry(o)
  /\ at = "numbers" =>
       /\ \A p \in 1..(i - 1) : name[inodes[p]] # NoName
       /\ \A o \in Objects : name[o] \notin {NoName, Number(o)} => FromEntry(o)
  /\ at = "root" => \A o \in Range(inodes) : name[o] # Number(o) => FromEntry(o)
  /\ NamedWhereItLies

Places == {"parents", "names", "numbers", "root", "roots", "dirs", "done", "dead"}

TypesOK ==
  /\ VectorOK
  /\ parent \in [Objects -> Objects \cup {NULL}]
  /\ name \in [Objects -> Nat \cup {NoName, OriginalRoot}]
  /\ at \in Places /\ i \in 1..(Len(inodes) + 1) /\ j \in Nat \ {0}

OnceOK == TakenBackOnce /\ Len(world.valid) <= Len(inodes)

RelationsInv == TypesOK /\ IndexIsExact /\ OnceOK /\ Listed /\ Named

LEMMA InitInv == RelationsAssumption /\ Init => RelationsInv
<1> SUFFICES ASSUME RelationsAssumption, Init PROVE RelationsInv
  OBVIOUS
<1>1. VectorOK /\ inodes = world.valid
  BY DEF Init, VectorOK, RelationsAssumption, Objects
<1>2. TypesOK
  BY <1>1 DEF Init, TypesOK, Places, VectorOK
<1>3. IndexIsExact /\ OnceOK
  BY <1>1 DEF Init, IndexIsExact, OnceOK, TakenBackOnce, VectorOK
<1>4. Listed /\ Named
  BY DEF Init, Listed, Named, NamedWhereItLies
<1> QED BY <1>2, <1>3, <1>4 DEF RelationsInv

\* Steps that change neither the vector nor its index, and neither parents
\* nor names.
LEMMA FrameInv ==
  ASSUME RelationsAssumption, RelationsInv,
         UNCHANGED << world, inodes, index, indexOk >>
  PROVE  IndexIsExact' /\ OnceOK' /\ VectorOK' /\ Known' = Known
<1>1. Known' = Known /\ Generated' = Generated
  BY DEF Known, Generated, Number, Ino
<1>2. IndexIsExact'
  BY <1>1 DEF RelationsInv, IndexIsExact
<1>3. OnceOK'
  BY DEF RelationsInv, OnceOK, TakenBackOnce, Number, Ino
<1>4. VectorOK'
  BY DEF RelationsInv, TypesOK, VectorOK, Objects
<1> QED BY <1>1, <1>2, <1>3, <1>4

\* What a step that asks the index, and may take an inode back, does to the
\* vector.
LEMMA GrowInv ==
  ASSUME RelationsAssumption, RelationsInv, UNCHANGED world,
         LookUp \/ \E o \in Objects : Number(o) \notin Known /\ AddInode(o)
  PROVE  /\ VectorOK' /\ IndexIsExact' /\ OnceOK' /\ Known \subseteq Known'
         /\ Len(inodes) <= Len(inodes') /\ Len(inodes') \in Nat
         /\ \A k \in DOMAIN inodes : k \in DOMAIN inodes' /\ inodes'[k] = inodes[k]
         /\ \A o \in Range(inodes) : o \in Range(inodes')
<1>1. IndexOK /\ VectorOK
  BY DEF RelationsInv, TypesOK, IndexOK
<1>2. CASE LookUp
  <2>1. inodes' = inodes /\ Known' = Known /\ IndexOK'
    BY <1>1, <1>2, LookUpKeepsIt DEF LookUp
  <2>2. OnceOK'
    BY <2>1 DEF RelationsInv, OnceOK, TakenBackOnce, Number, Ino
  <2> QED BY <1>1, <2>1, <2>2 DEF IndexOK, VectorOK
<1>3. ASSUME NEW o \in Objects, Number(o) \notin Known, AddInode(o)
      PROVE  /\ VectorOK' /\ IndexIsExact' /\ OnceOK' /\ Known \subseteq Known'
             /\ Len(inodes) <= Len(inodes') /\ Len(inodes') \in Nat
             /\ \A k \in DOMAIN inodes : k \in DOMAIN inodes' /\ inodes'[k] = inodes[k]
             /\ \A p \in Range(inodes) : p \in Range(inodes')
  <2>1. IndexOK' /\ Known \subseteq Known'
    BY <1>1, <1>3, AppendKeepsIt
  <2>2. /\ Len(inodes) \in Nat /\ DOMAIN inodes = 1..Len(inodes)
        /\ Len(inodes') = Len(inodes) + 1 /\ DOMAIN inodes' = 1..(Len(inodes) + 1)
        /\ \A k \in DOMAIN inodes : inodes'[k] = inodes[k]
        /\ inodes'[Len(inodes) + 1] = o
    BY <1>1, <1>3 DEF AddInode, VectorOK
  <2>3. \A k \in DOMAIN inodes : Number(inodes[k]) \in Known
    BY DEF Known, Range
  <2>4. \A m \in 1..Len(inodes') : m \in 1..Len(inodes) \/ m = Len(inodes) + 1
    BY <2>2
  <2>5. Len(world.valid) \in Nat
    BY <1>1 DEF VectorOK, RelationsAssumption
  <2>6. OnceOK'
    <3>1. \A m \in (Len(world.valid) + 1)..Len(inodes') : \A k \in 1..(m - 1) :
             Number(inodes'[k]) # Number(inodes'[m])
      <4> TAKE m \in (Len(world.valid) + 1)..Len(inodes')
      <4> TAKE k \in 1..(m - 1)
      <4>1. k \in DOMAIN inodes  BY <2>2, <2>5
      <4>2. CASE m \in DOMAIN inodes
        <5>1. Number(inodes[k]) # Number(inodes[m])
          BY <4>2, <2>2, <2>5 DEF RelationsInv, OnceOK, TakenBackOnce
        <5> QED BY <5>1, <4>1, <4>2, <2>2
      <4>3. CASE m = Len(inodes) + 1
        BY <4>1, <4>3, <1>3, <2>2, <2>3
      <4> QED BY <4>2, <4>3, <2>2, <2>5
    <3> QED BY <3>1, <2>2, <2>5 DEF RelationsInv, OnceOK, TakenBackOnce, Number, Ino
  <2> QED BY <2>1, <2>2, <2>6 DEF IndexOK, Range
<1> QED BY <1>2, <1>3

\* The inode that is taken back has the number that was asked for.
LEMMA TakenBack ==
  ASSUME RelationsAssumption, RelationsInv, UNCHANGED world, NEW n,
         ~ Has(n), Invalidated(n) # {}, AddInode(Chosen(Invalidated(n)))
  PROVE  /\ \E o \in Objects : Number(o) \notin Known /\ AddInode(o)
         /\ Chosen(Invalidated(n)) \in Objects
         /\ Chosen(Invalidated(n)) \in Range(inodes')
         /\ Number(Chosen(Invalidated(n))) = n
         /\ n \in Known'
<1> DEFINE o == Chosen(Invalidated(n))
<1>1. VectorOK /\ IndexOK
  BY DEF RelationsInv, TypesOK, IndexOK
<1>2. o \in Objects /\ Number(o) = n
  BY <1>1, ChosenIsThere DEF VectorOK
<1>3. n \notin Known
  BY <1>1, IndexIsThere
<1> HIDE DEF o
<1>4. AddInode(o)
  BY DEF o
<1>5. Known' = Known \cup {Number(o)}
  BY <1>1, <1>2, <1>3, <1>4, AppendKeepsIt
<1>6. o \in Range(inodes')
  <2>1. inodes' = Append(inodes, o) /\ Len(inodes) \in Nat
    BY <1>1, <1>4 DEF AddInode, VectorOK
  <2>2. Len(inodes) + 1 \in DOMAIN inodes' /\ inodes'[Len(inodes) + 1] = o
    BY <1>1, <1>2, <2>1 DEF VectorOK
  <2> QED BY <2>2 DEF Range
<1> QED BY <1>2, <1>3, <1>4, <1>5, <1>6 DEF o

LEMMA AtInodeOK ==
  ASSUME RelationsAssumption, RelationsInv, i <= Size
  PROVE  c \in Objects /\ c \in Range(inodes) /\ i \in DOMAIN inodes /\ Number(c) \in Nat
<1>1. i \in DOMAIN inodes
  BY DEF RelationsInv, TypesOK, VectorOK, Size
<1> QED BY <1>1, InodeOK DEF RelationsInv, TypesOK, VectorOK, c, Range

LEMMA LookedUpOK ==
  ASSUME RelationsAssumption, RelationsInv, NEW n, Has(n)
  PROVE  Index[n] \in Objects /\ Index[n] \in Range(inodes) /\ Number(Index[n]) = n
BY IndexIsThere DEF RelationsInv, TypesOK, IndexOK, VectorOK, Range

LEMMA FindParentInv == RelationsAssumption /\ RelationsInv /\ FindParent => RelationsInv'
<1> SUFFICES ASSUME RelationsAssumption, RelationsInv, FindParent PROVE RelationsInv'
  OBVIOUS
<1>1. c \in Objects /\ i <= Size /\ UNCHANGED world
  BY AtInodeOK DEF FindParent, AtInode
<1> DEFINE n == Ino(c).dotdot
<1>2. /\ LookUp \/ \E o \in Objects : Number(o) \notin Known /\ AddInode(o)
      /\ parent' \in [Objects -> Objects \cup {NULL}]
  <2>1. CASE Has(n) /\ LookUp /\ Accept(Index[n])
    BY <1>1, <2>1, LookedUpOK DEF Accept, RelationsInv, TypesOK
  <2>2. CASE /\ ~ Has(n) /\ Invalidated(n) # {} /\ AddInode(Chosen(Invalidated(n)))
             /\ parent' = [parent EXCEPT ![c] = Chosen(Invalidated(n))]
    <3>1. /\ \E o \in Objects : Number(o) \notin Known /\ AddInode(o)
          /\ Chosen(Invalidated(n)) \in Objects
      BY <1>1, <2>2, TakenBack
    <3> QED BY <1>1, <2>2, <3>1 DEF RelationsInv, TypesOK
  <2>3. CASE ~ Has(n) /\ LookUp /\ UNCHANGED parent
    BY <2>3 DEF RelationsInv, TypesOK
  <2> QED BY <2>1, <2>2, <2>3 DEF FindParent
<1>3. VectorOK' /\ IndexIsExact' /\ OnceOK' /\ Len(inodes) <= Len(inodes') /\ Len(inodes') \in Nat
  BY <1>1, <1>2, GrowInv
<1>4. TypesOK'
  BY <1>1, <1>2, <1>3 DEF FindParent, RelationsInv, TypesOK, Objects, Size, VectorOK
<1>5. Listed' /\ Named'
  BY DEF FindParent, AtInode, RelationsInv, Listed, Named, NamedWhereItLies, Objects
<1> QED BY <1>3, <1>4, <1>5 DEF RelationsInv

\* An entry goes on standing for a name that does not change.
LEMMA FromEntryKept ==
  ASSUME UNCHANGED world, \A p \in Range(inodes) : p \in Range(inodes'),
         NEW o, parent'[o] = parent[o], name'[o] = name[o], FromEntry(o)
  PROVE  FromEntry(o)'
BY DEF FromEntry, Number, Ino, Names

LEMMA ServedKept ==
  ASSUME UNCHANGED world, Known \subseteq Known', NEW d, NEW k, Served(d, k)
  PROVE  Served(d, k)'
BY DEF Served, Number, Ino, Names, Invalidated

LEMMA FindNameInv == RelationsAssumption /\ RelationsInv /\ FindName => RelationsInv'
<1> SUFFICES ASSUME RelationsAssumption, RelationsInv, FindName PROVE RelationsInv'
  OBVIOUS
<1>1. /\ c \in Objects /\ c \in Range(inodes) /\ i \in DOMAIN inodes /\ i <= Size
      /\ UNCHANGED << world, at, i >> /\ at = "names"
      /\ world \in Worlds
  BY AtInodeOK DEF FindName, AtInode, RelationsInv, TypesOK, VectorOK
<1> DEFINE e == Names(c)[j]
           n == e.number
<1>2. /\ j \in DOMAIN Names(c) /\ n \in Nat /\ e.name \in Nat \cup {NoName}
      /\ e = [number |-> n, name |-> e.name] /\ DOMAIN Names(c) = 1..Len(Names(c))
  <2>1. j \in DOMAIN Names(c)
    BY <1>1, ListOK DEF FindName, RelationsInv, TypesOK
  <2> HIDE DEF e
  <2>2. /\ e.number \in Nat /\ e.name \in Nat \cup {NoName}
        /\ e = [number |-> e.number, name |-> e.name]
    BY <1>1, <2>1, ListOK DEF e
  <2> QED BY <1>1, <2>1, <2>2, ListOK
<1>3. /\ LookUp \/ \E o \in Objects : Number(o) \notin Known /\ AddInode(o)
      /\ \/ \E o \in Objects : o \in Range(inodes') /\ Number(o) = n /\ n \in Known'
                               /\ Relate(o, e.name)
         \/ UNCHANGED << parent, name >> /\ Invalidated(n) = {}
  <2>1. CASE Has(n) /\ LookUp /\ Relate(Index[n], e.name)
    <3>1. Index[n] \in Objects /\ Index[n] \in Range(inodes') /\ Number(Index[n]) = n
      BY <2>1, LookedUpOK DEF LookUp
    <3>2. n \in Known'
      BY <3>1 DEF Known, Number, Ino, FindName
    <3> QED BY <2>1, <3>1, <3>2
  <2>2. CASE /\ ~ Has(n) /\ Invalidated(n) # {} /\ AddInode(Chosen(Invalidated(n)))
             /\ Relate(Chosen(Invalidated(n)), e.name)
    BY <1>1, <2>2, TakenBack
  <2>3. CASE ~ Has(n) /\ Invalidated(n) = {} /\ LookUp /\ UNCHANGED << parent, name >>
    BY <2>3
  <2> QED BY <2>1, <2>2, <2>3 DEF FindName
<1>4. /\ VectorOK' /\ IndexIsExact' /\ OnceOK' /\ Known \subseteq Known'
      /\ Len(inodes) <= Len(inodes') /\ Len(inodes') \in Nat
      /\ \A k \in DOMAIN inodes : k \in DOMAIN inodes' /\ inodes'[k] = inodes[k]
      /\ \A p \in Range(inodes) : p \in Range(inodes')
  BY <1>1, <1>3, GrowInv
<1>5. c' = c /\ Names(c)' = Names(c) /\ j' = j + 1 /\ j \in Nat \ {0}
  BY <1>1, <1>4 DEF c, Names, Ino, FindName, RelationsInv, TypesOK
<1> HIDE DEF e
<1>6. TypesOK'
  <2>1. /\ parent' \in [Objects -> Objects \cup {NULL}]
        /\ name' \in [Objects -> Nat \cup {NoName, OriginalRoot}]
    <3>1. CASE UNCHANGED << parent, name >>
      BY <3>1 DEF RelationsInv, TypesOK
    <3>2. ASSUME NEW o \in Objects, Relate(o, e.name)
          PROVE  /\ parent' \in [Objects -> Objects \cup {NULL}]
                 /\ name' \in [Objects -> Nat \cup {NoName, OriginalRoot}]
      BY <1>1, <1>2, <3>2 DEF Relate, RelationsInv, TypesOK
    <3> QED BY <1>3, <3>1, <3>2
  <2>2. i' \in 1..(Len(inodes') + 1)
    BY <1>1, <1>4 DEF RelationsInv, TypesOK, VectorOK
  <2> QED BY <1>1, <1>4, <1>5, <2>1, <2>2 DEF TypesOK, Places, Objects
<1>7. Listed'
  <2>1. \A p \in 1..(i - 1) : p \in DOMAIN inodes /\ inodes'[p] = inodes[p]
    BY <1>1, <1>4 DEF RelationsInv, TypesOK, VectorOK
  <2>2. ASSUME NEW p \in 1..(i - 1), NEW k \in DOMAIN Names(inodes[p])
        PROVE  Served(inodes[p], k)'
    <3>1. PICK q : q = inodes[p] /\ q = inodes'[p]
      BY <2>1
    <3>2. Served(q, k)'
      BY <1>1, <1>4, <3>1, ServedKept DEF RelationsInv, Listed
    <3> QED BY <3>1, <3>2 DEF Served
  <2>3. PICK d : d = c
    OBVIOUS
  <2>4. PICK m : m = n
    OBVIOUS
  <2>5. m \in Known' \/ Invalidated(m)' = {}
    <3>1. Invalidated(m)' = Invalidated(m)
      BY <1>1 DEF Invalidated, Number, Ino
    <3> QED BY <1>3, <2>4, <3>1
  <2>6. ASSUME NEW k \in DOMAIN Names(d), k < j + 1
        PROVE  Served(d, k)'
    <3>1. k \in Nat /\ (k < j \/ k = j)
      BY <1>2, <1>5, <2>3, <2>6
    <3>2. CASE k < j
      <4>1. Served(d, k)
        <5>1. k \in 1..(j - 1)
          BY <1>2, <1>5, <2>3, <2>6, <3>2
        <5> QED BY <1>1, <2>3, <5>1 DEF RelationsInv, Listed, Size
      <4> QED BY <1>1, <1>4, <4>1, ServedKept
    <3>3. CASE k = j
      <4>1. Names(d)'[k].number = m
        BY <1>1, <2>3, <2>4, <3>3 DEF e, Names, Ino
      <4> QED BY <2>5, <4>1 DEF Served
    <3> QED BY <3>1, <3>2, <3>3
  <2>7. \A p : Names(p)' = Names(p)
    BY <1>1 DEF Names, Ino
  <2>8. \A p \in 1..(i' - 1) : \A k \in DOMAIN Names(inodes[p])' : Served(inodes[p], k)'
    <3>1. \A p \in 1..(i - 1) : Names(inodes[p])' = Names(inodes[p])
      BY <1>1, <2>1 DEF Names, Ino
    <3> QED BY <1>1, <2>2, <3>1
  <2>9. \A k \in DOMAIN Names(c)' : k \in 1..(j' - 1) => Served(c, k)'
    <3>1. Names(c)' = Names(d) /\ c' = d
      BY <1>5, <2>3
    <3>2. \A k \in DOMAIN Names(d) : k < j + 1 => Served(c, k)'
      BY <2>6, <3>1 DEF Served
    <3> QED BY <1>5, <3>1, <3>2
  <2> QED BY <1>1, <2>8, <2>9 DEF Listed
<1>8. Named'
  <2>1. ASSUME NEW o \in Objects, name'[o] # NoName PROVE FromEntry(o)'
    <3>1. CASE name'[o] = name[o] /\ parent'[o] = parent[o]
      BY <1>1, <1>4, <2>1, <3>1, FromEntryKept DEF RelationsInv, Named
    <3>2. ASSUME NEW p \in Objects, p \in Range(inodes'), Number(p) = n, Relate(p, e.name)
          PROVE  FromEntry(o)'
      <4>1. CASE o # p
        BY <3>1, <3>2, <4>1 DEF Relate, RelationsInv, TypesOK
      <4>2. CASE o = p
        <5>1. name'[o] = e.name /\ parent'[o] = c
          BY <3>2, <4>2 DEF Relate, RelationsInv, TypesOK
        <5>2. Number(o)' = n /\ Names(c)'[j] = e /\ c \in Range(inodes')
          BY <1>1, <1>4, <1>5, <3>2, <4>2 DEF e, Number, Ino
        <5>3. e = [number |-> Number(o)', name |-> name'[o]] /\ j \in DOMAIN Names(c)'
          BY <1>2, <1>5, <5>1, <5>2
        <5>4. Names(parent[o])' = Names(c)'
          BY <1>5, <5>1 DEF Names, Ino
        <5> QED BY <5>1, <5>2, <5>3, <5>4 DEF FromEntry
      <4> QED BY <4>1, <4>2
    <3> QED BY <1>3, <3>1, <3>2
  <2> QED BY <1>1, <2>1 DEF Named, NamedWhereItLies, Objects
<1> QED BY <1>4, <1>6, <1>7, <1>8 DEF RelationsInv

\* Steps that leave the vector, the parents and the names alone.
Quiet == UNCHANGED << world, inodes, index, indexOk, parent, name >>

LEMMA QuietInv ==
  ASSUME RelationsAssumption, RelationsInv, Quiet,
         at' \in Places, i' \in 1..(Len(inodes) + 1), j' \in Nat \ {0}, Listed', Named'
  PROVE  RelationsInv'
BY FrameInv DEF Quiet, RelationsInv, TypesOK, Objects

LEMMA QuietKept ==
  ASSUME RelationsAssumption, RelationsInv, Quiet
  PROVE  /\ \A o : FromEntry(o)' = FromEntry(o) /\ Names(o)' = Names(o) /\ Number(o)' = Number(o)
         /\ \A d, k : Served(d, k)' = Served(d, k)
<1>1. Known' = Known
  BY FrameInv DEF Quiet
<1> QED BY <1>1 DEF Quiet, FromEntry, Names, Number, Ino, Served, Invalidated

LEMMA ParentsLoopInv ==
  RelationsAssumption /\ RelationsInv /\ (NoDirectory \/ EndLoop("parents", "names"))
    => RelationsInv'
<1> SUFFICES ASSUME RelationsAssumption, RelationsInv,
                    NoDirectory \/ EndLoop("parents", "names")
             PROVE  RelationsInv'
  OBVIOUS
<1>1. Quiet /\ at = "parents" /\ at' \in {"parents", "names"}
  BY DEF NoDirectory, EndLoop, AtInode, Quiet
<1>2. i' \in 1..(Len(inodes) + 1) /\ j' \in Nat \ {0} /\ at' \in Places
  BY DEF NoDirectory, EndLoop, AtInode, Size, RelationsInv, TypesOK, VectorOK, Places
<1>3. Listed'
  BY <1>1 DEF Listed, NoDirectory, EndLoop, Quiet
<1>4. Named'
  BY <1>1, QuietKept DEF Named, NamedWhereItLies, Quiet, RelationsInv, Objects
<1> QED BY <1>1, <1>2, <1>3, <1>4, QuietInv

LEMMA EndNamesInv == RelationsAssumption /\ RelationsInv /\ EndNames => RelationsInv'
<1> SUFFICES ASSUME RelationsAssumption, RelationsInv, EndNames PROVE RelationsInv'
  OBVIOUS
<1>1. Quiet /\ at = "names" /\ at' = "names" /\ i <= Size /\ i' = i + 1 /\ j' = 1
  BY DEF EndNames, NextInode, AtInode, Quiet
<1>2. i' \in 1..(Len(inodes) + 1) /\ j' \in Nat \ {0} /\ at' \in Places
  BY <1>1 DEF Size, RelationsInv, TypesOK, VectorOK, Places
<1>3. /\ c \in Objects /\ world \in Worlds /\ Len(Names(c)) \in Nat
      /\ DOMAIN Names(c) = 1..Len(Names(c)) /\ j \in Nat /\ j > Len(Names(c))
  BY <1>1, AtInodeOK, ListOK DEF RelationsInv, TypesOK, VectorOK, EndNames
<1>4. Listed'
  <2>1. \A p \in 1..i : \A k \in DOMAIN Names(inodes[p]) : Served(inodes[p], k)
    <3>1. \A k \in DOMAIN Names(c) : Served(c, k)
      BY <1>1, <1>3 DEF RelationsInv, Listed, Size
    <3>2. \A p \in 1..(i - 1) : \A k \in DOMAIN Names(inodes[p]) : Served(inodes[p], k)
      BY <1>1 DEF RelationsInv, Listed
    <3>3. \A p \in 1..i : p \in 1..(i - 1) \/ p = i
      BY DEF RelationsInv, TypesOK
    <3> QED BY <3>1, <3>2, <3>3 DEF c
  <2>2. i' - 1 = i
    BY <1>1 DEF RelationsInv, TypesOK
  <2>3. \A p \in 1..(i' - 1) : \A k \in DOMAIN Names(inodes[p])' : Served(inodes[p], k)'
    BY <1>1, <2>1, <2>2, QuietKept DEF Quiet
  <2> QED BY <1>1, <2>3 DEF Listed
<1>5. Named'
  BY <1>1, QuietKept DEF Named, NamedWhereItLies, Quiet, RelationsInv, Objects
<1> QED BY <1>1, <1>2, <1>4, <1>5, QuietInv

LEMMA EndLoopNamesInv ==
  RelationsAssumption /\ RelationsInv /\ EndLoop("names", "numbers") => RelationsInv'
<1> SUFFICES ASSUME RelationsAssumption, RelationsInv, EndLoop("names", "numbers")
             PROVE  RelationsInv'
  OBVIOUS
<1>1. /\ Quiet /\ at = "names" /\ at' = "numbers" /\ i > Len(inodes) /\ i' = 1 /\ j' = 1
      /\ i = Len(inodes) + 1 /\ Len(inodes) \in Nat /\ DOMAIN inodes = 1..Len(inodes)
  BY DEF EndLoop, Quiet, Size, RelationsInv, TypesOK, VectorOK
<1>2. Listed'
  <2>1. \A p \in DOMAIN inodes : \A k \in DOMAIN Names(inodes[p]) : Served(inodes[p], k)
    BY <1>1 DEF RelationsInv, Listed
  <2>2. \A p \in DOMAIN inodes' : \A k \in DOMAIN Names(inodes[p])' : Served(inodes[p], k)'
    BY <1>1, <2>1, QuietKept DEF Quiet
  <2> QED BY <1>1, <2>2 DEF Listed
<1>3. Named'
  <2>1. \A o \in Objects' : name'[o] \notin {NoName, Number(o)'} => FromEntry(o)'
    BY <1>1, QuietKept DEF Quiet, RelationsInv, Named, Objects
  <2> QED BY <1>1, <2>1 DEF Named, NamedWhereItLies
<1> QED BY <1>1, <1>2, <1>3, QuietInv DEF Places

\* After the loop over the directories nothing is served any more.
LEMMA ListedKept ==
  ASSUME RelationsAssumption, RelationsInv,
         UNCHANGED world, inodes' = inodes, Known' = Known,
         at \in {"numbers", "root", "roots", "dirs", "done"}, at' \notin {"parents", "names"}
  PROVE  Listed'
<1>1. \A p : Names(p)' = Names(p)
  BY DEF Names, Ino
<1>2. \A p, k : Served(p, k)' = Served(p, k)
  BY DEF Served, Names, Ino, Invalidated, Number
<1>3. \A p \in DOMAIN inodes : \A k \in DOMAIN Names(inodes[p]) : Served(inodes[p], k)
  BY DEF RelationsInv, Listed
<1>4. \A p \in DOMAIN inodes' : \A k \in DOMAIN Names(inodes[p])' : Served(inodes[p], k)'
  BY <1>1, <1>2, <1>3
<1> QED BY <1>4 DEF Listed

LEMMA NameByNumberInv == RelationsAssumption /\ RelationsInv /\ NameByNumber => RelationsInv'
<1> SUFFICES ASSUME RelationsAssumption, RelationsInv, NameByNumber PROVE RelationsInv'
  OBVIOUS
<1>1. /\ UNCHANGED << world, inodes, index, indexOk, parent, at, j >>
      /\ at = "numbers" /\ i <= Size /\ i' = i + 1
      /\ name' = IF name[c] = NoName THEN [name EXCEPT ![c] = Number(c)] ELSE name
  BY DEF NameByNumber, AtInode
<1>2. IndexIsExact' /\ OnceOK' /\ VectorOK' /\ Known' = Known
  BY <1>1, FrameInv
<1>3. c \in Objects /\ Number(c) \in Nat /\ i \in DOMAIN inodes
  BY <1>1, AtInodeOK
<1>4. i' \in 1..(Len(inodes) + 1)
  BY <1>1 DEF RelationsInv, TypesOK, VectorOK, Size
<1>5. TypesOK'
  BY <1>1, <1>2, <1>3, <1>4 DEF RelationsInv, TypesOK, Objects
<1>6. Listed'
  BY <1>1, <1>2, ListedKept
<1>7. Named'
  <2>1. \A o \in Objects : name'[o] = name[o] \/ (o = c /\ name'[o] = Number(o))
    BY <1>1, <1>3 DEF RelationsInv, TypesOK
  <2>2. \A o : Number(o)' = Number(o) /\ Names(o)' = Names(o)
    BY <1>1 DEF Number, Ino, Names
  <2>3. ASSUME NEW o \in Objects, name'[o] \notin {NoName, Number(o)} PROVE FromEntry(o)'
    BY <1>1, <2>1, <2>3, FromEntryKept DEF RelationsInv, Named
  <2>4. ASSUME NEW p \in 1..i PROVE name'[inodes[p]] # NoName
    <3>1. inodes[p] \in Objects
      BY <1>1, <1>3 DEF RelationsInv, TypesOK, VectorOK
    <3>2. name'[c] # NoName
      BY <1>1, <1>3 DEF RelationsInv, TypesOK, NoName
    <3>3. CASE p = i  BY <3>2, <3>3 DEF c
    <3>4. CASE p # i
      <4>1. p \in 1..(i - 1)
        BY <3>4 DEF RelationsInv, TypesOK
      <4>2. name[inodes[p]] # NoName
        BY <1>1, <4>1 DEF RelationsInv, Named
      <4> QED BY <1>3, <3>1, <3>2, <4>2, <2>1
    <3> QED BY <3>3, <3>4
  <2>5. i' - 1 = i
    BY <1>1 DEF RelationsInv, TypesOK
  <2> QED BY <1>1, <2>2, <2>3, <2>4, <2>5 DEF Named, NamedWhereItLies, Objects
<1> QED BY <1>2, <1>5, <1>6, <1>7 DEF RelationsInv

LEMMA EndLoopNumbersInv ==
  RelationsAssumption /\ RelationsInv /\ EndLoop("numbers", "root") => RelationsInv'
<1> SUFFICES ASSUME RelationsAssumption, RelationsInv, EndLoop("numbers", "root")
             PROVE  RelationsInv'
  OBVIOUS
<1>1. /\ Quiet /\ at = "numbers" /\ at' = "root" /\ i' = 1 /\ j' = 1
      /\ i = Len(inodes) + 1 /\ Len(inodes) \in Nat /\ DOMAIN inodes = 1..Len(inodes)
      /\ \A k \in DOMAIN inodes : inodes[k] \in Objects
  BY DEF EndLoop, Quiet, Size, RelationsInv, TypesOK, VectorOK
<1>2. Listed'
  BY <1>1, FrameInv, ListedKept DEF Quiet
<1>3. Named'
  <2>1. \A p \in DOMAIN inodes : name[inodes[p]] # NoName
    BY <1>1 DEF RelationsInv, Named
  <2>2. \A o \in Range(inodes) : name[o] # Number(o) => FromEntry(o)
    BY <1>1, <2>1 DEF RelationsInv, Named, Range
  <2>3. \A o \in Range(inodes') : name'[o] # Number(o)' => FromEntry(o)'
    BY <1>1, <2>2, QuietKept DEF Quiet
  <2> QED BY <1>1, <2>3 DEF Named, NamedWhereItLies
<1> QED BY <1>1, <1>2, <1>3, QuietInv DEF Places

LEMMA NameRootInv == RelationsAssumption /\ RelationsInv /\ NameRoot => RelationsInv'
<1> SUFFICES ASSUME RelationsAssumption, RelationsInv, NameRoot PROVE RelationsInv'
  OBVIOUS
<1>1. /\ UNCHANGED << world, parent, i, j >> /\ at = "root" /\ at' = "roots" /\ LookUp
      /\ inodes' = inodes
      /\ name' = IF Has(2) THEN [name EXCEPT ![Index[2]] = OriginalRoot] ELSE name
  BY DEF NameRoot, LookUp
<1>2. VectorOK' /\ IndexIsExact' /\ OnceOK'
  BY <1>1, GrowInv
<1>3. Known' = Known
  BY <1>1, LookUpKeepsIt DEF RelationsInv, TypesOK, IndexOK
<1>4. Has(2) => Index[2] \in Objects
  BY LookedUpOK
<1>5. TypesOK'
  BY <1>1, <1>2, <1>4 DEF RelationsInv, TypesOK, Places, Objects
<1>6. Listed'
  BY <1>1, <1>3, ListedKept
<1>7. Named'
  <2>1. ASSUME NEW o \in Range(inodes), name'[o] \notin {Number(o), OriginalRoot}
        PROVE  FromEntry(o)'
    <3>1. name'[o] = name[o]
      BY <1>1, <1>4, <2>1 DEF RelationsInv, TypesOK
    <3>2. FromEntry(o)
      BY <1>1, <2>1, <3>1 DEF RelationsInv, Named
    <3> QED BY <1>1, <3>1, <3>2, FromEntryKept
  <2>2. \A o : Number(o)' = Number(o)
    BY <1>1 DEF Number, Ino
  <2> QED BY <1>1, <2>1, <2>2 DEF Named, NamedWhereItLies, FromEntry
<1> QED BY <1>2, <1>5, <1>6, <1>7 DEF RelationsInv

LEMMA RestInv ==
  ASSUME RelationsAssumption, RelationsInv,
         \/ WalkDies \/ FindRoot \/ EndLoop("roots", "dirs") \/ CreateDir
         \/ EndLoop("dirs", "done") \/ UNCHANGED vars
  PROVE  RelationsInv'
<1>1. CASE UNCHANGED vars
  <2>1. Quiet
    BY <1>1 DEF vars, Quiet
  <2>2. Listed' = Listed /\ Named' = Named
    BY <1>1 DEF vars, Listed, Named, Served, FromEntry, NamedWhereItLies, Names, Number, Ino,
                Known, Invalidated, Objects, c
  <2> QED BY <1>1, <2>1, <2>2, QuietInv DEF vars, RelationsInv, TypesOK
<1>2. CASE \/ WalkDies \/ FindRoot \/ EndLoop("roots", "dirs") \/ CreateDir
           \/ EndLoop("dirs", "done")
  <2>1. /\ Quiet /\ at' \in {"roots", "dirs", "done", "dead"}
        /\ i' \in 1..(Len(inodes) + 1) /\ j' \in Nat \ {0}
        /\ at' = "dead" \/ at \in {"roots", "dirs", "done"}
    BY <1>2 DEF WalkDies, FindRoot, EndLoop, CreateDir, AtInode, Quiet, Size, RelationsInv,
                TypesOK, VectorOK
  <2>2. Listed'
    <3>1. CASE at' = "dead"  BY <3>1 DEF Listed
    <3>2. CASE at' # "dead"
      BY <2>1, <3>2, FrameInv, ListedKept DEF Quiet
    <3> QED BY <3>1, <3>2
  <2>3. Named'
    <3>1. at' = "dead" \/ \A o \in Range(inodes) : name[o] \notin {Number(o), OriginalRoot} => FromEntry(o)
      BY <2>1 DEF RelationsInv, Named, NamedWhereItLies, FromEntry
    <3>2. at' = "dead" \/ \A o \in Range(inodes') : name'[o] \notin {Number(o)', OriginalRoot} => FromEntry(o)'
      BY <2>1, <3>1, QuietKept DEF Quiet
    <3> QED BY <2>1, <3>2 DEF Named, NamedWhereItLies, FromEntry
  <2> QED BY <2>1, <2>2, <2>3, QuietInv DEF Places
<1> QED BY <1>1, <1>2

LEMMA NextInv == RelationsAssumption /\ RelationsInv /\ [Next]_vars => RelationsInv'
BY FindParentInv, ParentsLoopInv, FindNameInv, EndNamesInv, EndLoopNamesInv,
   NameByNumberInv, EndLoopNumbersInv, NameRootInv, RestInv DEF Next

LEMMA RelationsHold == Spec => []RelationsInv
BY InitInv, NextInv, RelationsAssumption, PTL DEF Spec

\* The index of InodeVector that is kept while inodes are taken back says
\* what one built from the vector would say, whatever is handed over.
THEOREM IndexStaysExact == Spec => []IndexIsExact
<1>1. RelationsInv => IndexIsExact  BY DEF RelationsInv
<1> QED BY <1>1, RelationsHold, PTL

\* No inode is taken back whose number is in the vector, however often and
\* by whatever kind of reference it is asked for.
THEOREM EachIsTakenBackOnce == Spec => []TakenBackOnce
<1>1. RelationsInv => TakenBackOnce  BY DEF RelationsInv, OnceOK
<1> QED BY <1>1, RelationsHold, PTL

\* Whatever a valid directory lists, and however long the chain of
\* directories taken back on the way, it is in the vector when
\* find_file_parents_and_names is through, if it was found at all.
THEOREM ListedIsThere == Spec => []NothingListedIsLeft
<1>1. RelationsInv => NothingListedIsLeft
  <2> SUFFICES ASSUME RelationsInv, at \in {"numbers", "root", "roots", "dirs", "done"},
                      NEW d \in Range(inodes), NEW k \in DOMAIN Names(d)
               PROVE  LET n == Names(d)[k].number IN Has(n) \/ Invalidated(n) = {}
    BY DEF NothingListedIsLeft
  <2>1. Served(d, k)
    BY DEF RelationsInv, Listed, Range
  <2>2. \A n : Has(n) <=> n \in Known
    BY RelationsAssumption, IndexIsThere DEF RelationsInv, TypesOK, IndexOK
  <2> QED BY <2>1, <2>2 DEF Served
<1> QED BY <1>1, RelationsHold, PTL

\* An inode with a name from an entry lies in the directory that has this
\* entry, though its parent and its name are set in different loops, and
\* again for each directory that lists it.
THEOREM NamesComeWithParents == Spec => []NamedWhereItLies
<1>1. RelationsInv => NamedWhereItLies  BY DEF RelationsInv, Named
<1> QED BY <1>1, RelationsHold, PTL

----------------------------------------------------------------------------
(* The chain of parents.                                                   *)

LEMMA UpExists ==
  ASSUME NEW o, NEW N \in Nat
  PROVE  \E f : f = [n \in 0..N |-> IF n = 0 THEN o
                                    ELSE IF f[n - 1] = NULL THEN NULL ELSE parent[f[n - 1]]]
<1> DEFINE Is(f, m) == f = [n \in 0..m |-> IF n = 0 THEN o
                                 ELSE IF f[n - 1] = NULL THEN NULL ELSE parent[f[n - 1]]]
           Bad == {m \in Nat : ~ \E f : Is(f, m)}
<1>1. Bad = {}
  <2> SUFFICES ASSUME Bad # {} PROVE FALSE  OBVIOUS
  <2>1. PICK m \in Bad : \A k \in Bad : m <= k
    <3>1. Bad \in SUBSET Nat  OBVIOUS
    <3> HIDE DEF Bad
    <3> QED BY <3>1, Least
  <2>2. m # 0
    <3>1. Is([n \in 0..0 |-> o], 0)  OBVIOUS
    <3> QED BY <3>1, <2>1
  <2>3. m \in Nat /\ m - 1 \in Nat /\ m - 1 \notin Bad  BY <2>1, <2>2
  <2>4. PICK f : Is(f, m - 1)  BY <2>3
  <2> DEFINE g == [n \in 0..m |-> IF n = 0 THEN o
                                  ELSE IF f[n - 1] = NULL THEN NULL ELSE parent[f[n - 1]]]
  <2>5. \A n \in 0..(m - 1) : f[n] = g[n]  BY <2>3, <2>4
  <2>6. Is(g, m)
    <3>1. \A n \in 0..m : n # 0 => n - 1 \in 0..(m - 1)  BY <2>3
    <3>2. \A n \in 0..m : n # 0 => g[n - 1] = f[n - 1]  BY <2>5, <3>1
    <3>3. \A n \in 0..m : g[n] = IF n = 0 THEN o
                                 ELSE IF g[n - 1] = NULL THEN NULL ELSE parent[g[n - 1]]
      BY <3>2
    <3>4. g = [n \in 0..m |-> g[n]]  OBVIOUS
    <3> HIDE DEF g
    <3> QED BY <3>3, <3>4
  <2> QED BY <2>1, <2>6
<1> QED BY <1>1

LEMMA UpIs ==
  ASSUME Len(inodes) \in Nat, NEW o
  PROVE  /\ DOMAIN Up(o) = 0..(Len(inodes) + 1)
         /\ Up(o)[0] = o
         /\ \A n \in 0..Len(inodes) :
              Up(o)[n + 1] = IF Up(o)[n] = NULL THEN NULL ELSE parent[Up(o)[n]]
<1> DEFINE up == Up(o)
<1>1. up = [n \in 0..(Len(inodes) + 1) |-> IF n = 0 THEN o
              ELSE IF up[n - 1] = NULL THEN NULL ELSE parent[up[n - 1]]]
  <2>1. Len(inodes) + 1 \in Nat  OBVIOUS
  <2>2. \E f : f = [n \in 0..(Len(inodes) + 1) |-> IF n = 0 THEN o
                     ELSE IF f[n - 1] = NULL THEN NULL ELSE parent[f[n - 1]]]
    BY <2>1, UpExists, ZenonT(40)
  <2> QED BY <2>2, Zenon DEF Up
<1> HIDE DEF up
<1>2. DOMAIN up = 0..(Len(inodes) + 1) /\ up[0] = o
  BY <1>1
<1>3. ASSUME NEW n \in 0..Len(inodes)
      PROVE  up[n + 1] = IF up[n] = NULL THEN NULL ELSE parent[up[n]]
  <2>1. n + 1 \in 0..(Len(inodes) + 1) /\ n + 1 # 0 /\ (n + 1) - 1 = n  OBVIOUS
  <2> QED BY <1>1, <2>1
<1> QED BY <1>2, <1>3 DEF up

\* Parents are inodes of the vector.
Chained == \A o \in Objects : parent[o] \in Range(inodes) \cup {NULL}

LEMMA UpIsThere ==
  ASSUME TypesOK, Chained, NEW o \in Range(inodes), NEW n \in 0..(Len(inodes) + 1)
  PROVE  Up(o)[n] \in Range(inodes) \cup {NULL}
<1> DEFINE Bad == {m \in 0..(Len(inodes) + 1) : Up(o)[m] \notin Range(inodes) \cup {NULL}}
<1>1. Len(inodes) \in Nat /\ Range(inodes) \subseteq Objects
  BY DEF TypesOK, VectorOK, Range
<1>2. Bad = {}
  <2> SUFFICES ASSUME Bad # {} PROVE FALSE  OBVIOUS
  <2>1. PICK m \in Bad : \A k \in Bad : m <= k
    <3>1. Bad \in SUBSET Nat  OBVIOUS
    <3> HIDE DEF Bad
    <3> QED BY <3>1, Least
  <2>2. m \in 0..(Len(inodes) + 1) /\ m # 0
    BY <1>1, <2>1, UpIs
  <2>3. m - 1 \in 0..Len(inodes) /\ m - 1 \notin Bad /\ (m - 1) + 1 = m
    BY <1>1, <2>1, <2>2
  <2>4. Up(o)[m - 1] \in Range(inodes) \cup {NULL}
    BY <1>1, <2>3
  <2>5. Up(o)[m] = IF Up(o)[m - 1] = NULL THEN NULL ELSE parent[Up(o)[m - 1]]
    BY <1>1, <2>3, UpIs
  <2>6. Up(o)[m] \in Range(inodes) \cup {NULL}
    BY <1>1, <2>4, <2>5 DEF Chained
  <2> QED BY <2>1, <2>6
<1> QED BY <1>2

\* Longer than the vector the chain cannot be without coming back, so
\* get_root ends, at an inode of the vector.
LEMMA RootIsThere ==
  ASSUME TypesOK, Chained, NEW o \in Range(inodes)
  PROVE  \E n \in 0..Len(inodes) : Root(o) = Up(o)[n] /\ Root(o) \in Range(inodes)
<1> DEFINE N       == Len(inodes)
           up      == Up(o)
           Ends(n) == up[n + 1] = NULL \/ \E m \in 0..n : up[m] = up[n + 1]
           S       == {n \in 0..N : Ends(n)}
<1>1. /\ N \in Nat /\ DOMAIN inodes = 1..N
      /\ inodes \in [1..N -> Range(inodes)]
  BY DEF TypesOK, VectorOK, Range
<1>2. IsFiniteSet(Range(inodes)) /\ Cardinality(Range(inodes)) <= N
  <2>1. inodes \in Surjection(1..N, Range(inodes))
    BY <1>1 DEF Surjection, Range
  <2>2. IsFiniteSet(1..N) /\ Cardinality(1..N) = N
    <3>1. 1 \in Int /\ N \in Int  BY <1>1
    <3> HIDE DEF N
    <3>2. IsFiniteSet(1..N) /\ Cardinality(1..N) = IF 1 > N THEN 0 ELSE N - 1 + 1
      BY <3>1, FS_Interval
    <3> QED BY <1>1, <3>2
  <2> QED BY <2>1, <2>2, FS_Surjection
<1>3. S # {}
  <2> SUFFICES ASSUME S = {} PROVE FALSE  OBVIOUS
  <2>1. \A n \in 0..N : up[n + 1] # NULL /\ \A m \in 0..n : up[m] # up[n + 1]
    OBVIOUS
  <2> HIDE DEF up
  <2>2. up[0] \in Range(inodes)
    BY <1>1, UpIs DEF up
  <2>3. \A n \in 0..(N + 1) : up[n] \in Range(inodes)
    <3> TAKE n \in 0..(N + 1)
    <3>1. CASE n = 0  BY <2>2, <3>1
    <3>2. CASE n # 0
      <4>1. n - 1 \in 0..N /\ (n - 1) + 1 = n  BY <1>1, <3>2
      <4>2. up[n] # NULL  BY <2>1, <4>1
      <4> QED BY <4>2, UpIsThere DEF up
    <3> QED BY <3>1, <3>2
  <2> DEFINE f == [n \in 0..(N + 1) |-> up[n]]
  <2>4. f \in [0..(N + 1) -> Range(inodes)]
    BY <2>3
  <2>5. IsFiniteSet(0..(N + 1)) /\ Cardinality(0..(N + 1)) = N + 2
    BY <1>1, FS_Interval
  <2>6. Cardinality(Range(inodes)) < Cardinality(0..(N + 1))
    <3>1. Cardinality(Range(inodes)) \in Nat  BY <1>2, FS_CardinalityType
    <3> QED BY <1>1, <1>2, <2>5, <3>1
  <2>7. PICK m, n \in 0..(N + 1) : m # n /\ f[m] = f[n]
    <3> DEFINE D == 0..(N + 1)
               T == Range(inodes)
    <3>1. /\ IsFiniteSet(D) /\ IsFiniteSet(T) /\ Cardinality(T) < Cardinality(D)
          /\ f \in [D -> T]
      BY <1>2, <2>4, <2>5, <2>6
    <3> HIDE DEF D, T, f
    <3>2. \E m, n \in D : m # n /\ f[m] = f[n]
      BY <3>1, FS_PigeonHole
    <3> QED BY <3>2 DEF D
  <2>8. \A a, b \in 0..(N + 1) : a < b => up[a] # up[b]
    <3> TAKE a, b \in 0..(N + 1)
    <3> HAVE a < b
    <3>1. b - 1 \in 0..N /\ a \in 0..(b - 1) /\ (b - 1) + 1 = b  BY <1>1
    <3> QED BY <2>1, <3>1
  <2> QED BY <1>1, <2>7, <2>8
<1>4. PICK n \in S : \A m \in S : n <= m
  <2>1. S \in SUBSET Nat  OBVIOUS
  <2> HIDE DEF S
  <2> QED BY <1>3, <2>1, Least
<1>5. n \in 0..N /\ Ends(n) /\ \A m \in 0..(n - 1) : ~ Ends(m)
  <2>1. n \in 0..N /\ Ends(n) /\ \A m \in 0..N : Ends(m) => n <= m  BY <1>4
  <2>2. \A m \in 0..(n - 1) : m \in 0..N /\ ~ (n <= m)
    <3> HIDE DEF Ends, S
    <3> QED BY <1>1, <2>1
  <2> HIDE DEF Ends, N, S
  <2> QED BY <2>1, <2>2
<1> DEFINE r == CHOOSE k \in 0..N : Ends(k) /\ \A m \in 0..(k - 1) : ~ Ends(m)
<1>6. r \in 0..N /\ Ends(r) /\ \A m \in 0..(r - 1) : ~ Ends(m)
  <2> HIDE DEF Ends
  <2> QED BY <1>5
<1>7. Root(o) = up[r]
  BY DEF Root
<1>8. up[r] \in Range(inodes)
  <2> HIDE DEF r
  <2>1. CASE r = 0
    <3>1. up[r] = o  BY <2>1, <1>1, UpIs
    <3> QED BY <3>1
  <2>2. CASE r # 0
    <3>0. r \in 0..N  BY <1>6
    <3>1. r - 1 \in 0..(r - 1) /\ (r - 1) + 1 = r /\ r \in 0..(N + 1)
      <4> HIDE DEF N, up
      <4> QED BY <1>1, <2>2, <3>0
    <3>2. up[(r - 1) + 1] # NULL  BY <1>6, <3>1
    <3>3. up[r] # NULL
      <4> HIDE DEF up
      <4> QED BY <3>1, <3>2
    <3> QED BY <3>1, <3>3, UpIsThere
  <2> QED BY <2>1, <2>2
<1> QED BY <1>6, <1>7, <1>8

\* What the steps do to the vector and to the parents.
LEMMA Moves ==
  ASSUME RelationsAssumption, RelationsInv, [Next]_vars
  PROVE  /\ UNCHANGED world
         /\ \/ UNCHANGED << inodes, index, indexOk >>
            \/ LookUp
            \/ \E o \in Objects : Number(o) \notin Known /\ AddInode(o)
         /\ \/ UNCHANGED parent
            \/ \E o \in Objects, p \in Range(inodes') : parent' = [parent EXCEPT ![o] = p]
<1>1. CASE FindParent
  <2> DEFINE n == Ino(c).dotdot
  <2>1. c \in Objects /\ UNCHANGED world
    BY <1>1, AtInodeOK DEF FindParent, AtInode
  <2>2. CASE Has(n) /\ LookUp /\ Accept(Index[n])
    BY <2>1, <2>2, LookedUpOK DEF Accept, LookUp
  <2>3. CASE /\ ~ Has(n) /\ Invalidated(n) # {} /\ AddInode(Chosen(Invalidated(n)))
             /\ parent' = [parent EXCEPT ![c] = Chosen(Invalidated(n))]
    BY <2>1, <2>3, TakenBack
  <2>4. CASE LookUp /\ UNCHANGED parent
    BY <2>1, <2>4
  <2> QED BY <1>1, <2>2, <2>3, <2>4 DEF FindParent
<1>2. CASE FindName
  <2> DEFINE e == Names(c)[j]
             n == e.number
  <2>1. c \in Range(inodes) /\ i <= Size /\ UNCHANGED world
    BY <1>2, AtInodeOK DEF FindName, AtInode
  <2>2. CASE Has(n) /\ LookUp /\ Relate(Index[n], e.name)
    <3>1. Index[n] \in Objects /\ parent' = [parent EXCEPT ![Index[n]] = c]
      BY <2>2, LookedUpOK DEF Relate
    <3> QED BY <2>1, <2>2, <3>1 DEF LookUp
  <2>3. CASE /\ ~ Has(n) /\ Invalidated(n) # {} /\ AddInode(Chosen(Invalidated(n)))
             /\ Relate(Chosen(Invalidated(n)), e.name)
    <3>1. /\ \E o \in Objects : Number(o) \notin Known /\ AddInode(o)
          /\ Chosen(Invalidated(n)) \in Objects
      BY <2>1, <2>3, TakenBack
    <3>2. c \in Range(inodes')
      BY <2>1, <3>1, GrowInv
    <3> QED BY <2>1, <2>3, <3>1, <3>2 DEF Relate
  <2>4. CASE LookUp /\ UNCHANGED << parent, name >>
    BY <2>1, <2>4
  <2> QED BY <1>2, <2>2, <2>3, <2>4 DEF FindName
<1>3. CASE NameRoot
  BY <1>3 DEF NameRoot
<1>4. CASE \/ NoDirectory \/ EndLoop("parents", "names") \/ WalkDies \/ EndNames
           \/ EndLoop("names", "numbers") \/ NameByNumber \/ EndLoop("numbers", "root")
           \/ FindRoot \/ EndLoop("roots", "dirs") \/ CreateDir \/ EndLoop("dirs", "done")
  BY <1>4 DEF NoDirectory, EndLoop, WalkDies, EndNames, NameByNumber, FindRoot, CreateDir
<1>5. CASE UNCHANGED vars
  BY <1>5 DEF vars
<1> QED BY <1>1, <1>2, <1>3, <1>4, <1>5 DEF Next

IndexTyped ==
  /\ DOMAIN index \subseteq Nat /\ \A n \in DOMAIN index : index[n] \in Objects
  /\ indexOk \in BOOLEAN

LEMMA IndexTypedNext ==
  ASSUME RelationsAssumption, RelationsInv, IndexTyped, [Next]_vars
  PROVE  IndexTyped'
<1>1. /\ Objects' = Objects /\ Range(inodes) \subseteq Objects /\ Known \subseteq Nat
      /\ world \in Worlds
  <2>1. UNCHANGED world  BY Moves
  <2>2. Range(inodes) \subseteq Objects /\ world \in Worlds
    BY DEF RelationsInv, TypesOK, VectorOK, Range
  <2>3. Known \subseteq Nat
    BY <2>2, InodeOK DEF Known
  <2> QED BY <2>1, <2>2, <2>3 DEF Objects
<1>2. DOMAIN Index \subseteq Nat /\ \A n \in DOMAIN Index : Index[n] \in Objects
  BY <1>1, IndexIsThere DEF RelationsInv, TypesOK, IndexOK, Has
<1>3. CASE UNCHANGED << inodes, index, indexOk >>
  BY <1>1, <1>3 DEF IndexTyped
<1>4. CASE LookUp
  BY <1>1, <1>2, <1>4 DEF IndexTyped, LookUp
<1>5. ASSUME NEW o \in Objects, AddInode(o) PROVE IndexTyped'
  <2>1. Number(o) \in Nat  BY <1>1, InodeOK
  <2> QED BY <1>1, <1>2, <1>5, <2>1 DEF IndexTyped, AddInode, Has
<1> QED BY <1>3, <1>4, <1>5, Moves

LEMMA ChainedNext ==
  ASSUME RelationsAssumption, RelationsInv, Chained, [Next]_vars
  PROVE  Chained'
<1>1. Objects' = Objects /\ \A o \in Range(inodes) : o \in Range(inodes')
  <2>1. UNCHANGED world /\ Objects' = Objects  BY Moves DEF Objects
  <2>2. CASE UNCHANGED inodes  BY <2>1, <2>2
  <2>3. CASE LookUp \/ \E o \in Objects : Number(o) \notin Known /\ AddInode(o)
    BY <2>1, <2>3, GrowInv
  <2> QED BY <2>1, <2>2, <2>3, Moves
<1>2. CASE UNCHANGED parent
  BY <1>1, <1>2 DEF Chained
<1>3. ASSUME NEW o \in Objects, NEW p \in Range(inodes'), parent' = [parent EXCEPT ![o] = p]
      PROVE  Chained'
  BY <1>1, <1>3 DEF Chained, RelationsInv, TypesOK
<1> QED BY <1>2, <1>3, Moves

\* The roots above the inodes find_roots has been through.
Rooted ==
  /\ roots \subseteq Objects
  /\ at = "root" => i = 1
  /\ at = "roots" => \A k \in 1..(i - 1) : RootsAt(inodes[k]) \subseteq roots
  /\ at \in {"dirs", "done"} => \A k \in DOMAIN inodes : RootsAt(inodes[k]) \subseteq roots

LEMMA RootedNext ==
  ASSUME RelationsAssumption, RelationsInv, Chained, Rooted, [Next]_vars
  PROVE  Rooted'
<1>1. /\ Objects' = Objects /\ Len(inodes) \in Nat /\ DOMAIN inodes = 1..Len(inodes)
      /\ Range(inodes) \subseteq Objects /\ i \in 1..(Len(inodes) + 1)
  BY Moves DEF Objects, RelationsInv, TypesOK, VectorOK, Range
<1>2. CASE FindRoot
  <2>1. /\ at = "roots" /\ at' = "roots" /\ i' = i + 1 /\ UNCHANGED << inodes, parent >>
        /\ roots' = roots \cup RootsAt(c) /\ c = inodes[i] /\ i <= Size
    BY <1>2 DEF FindRoot, AtInode, c
  <2>2. RootsAt(c) \subseteq Objects
    <3>1. c \in Range(inodes)
      BY <2>1, AtInodeOK
    <3> QED BY <1>1, <3>1, RootIsThere DEF RootsAt, RelationsInv
  <2>3. \A k \in 1..(i' - 1) : RootsAt(inodes[k])' \subseteq roots'
    <3> TAKE k \in 1..(i' - 1)
    <3>1. k = i \/ k \in 1..(i - 1)  BY <1>1, <2>1
    <3>2. RootsAt(inodes[k]) \subseteq roots'
      BY <2>1, <3>1 DEF Rooted
    <3>3. RootsAt(inodes[k])' = RootsAt(inodes[k])
      BY <2>1 DEF RootsAt, Root, Up
    <3> QED BY <3>2, <3>3
  <2> QED BY <1>1, <2>1, <2>2, <2>3 DEF Rooted
<1>3. CASE EndLoop("roots", "dirs")
  <2>1. /\ at = "roots" /\ at' = "dirs" /\ i = Len(inodes) + 1
        /\ UNCHANGED << inodes, parent, roots >>
    BY <1>1, <1>3 DEF EndLoop, Size
  <2>2. \A k \in DOMAIN inodes : RootsAt(inodes[k]) \subseteq roots
    BY <1>1, <2>1 DEF Rooted
  <2>3. \A k \in DOMAIN inodes : RootsAt(inodes[k])' = RootsAt(inodes[k])
    BY <2>1 DEF RootsAt, Root, Up
  <2> QED BY <1>1, <2>1, <2>2, <2>3 DEF Rooted
<1>4. CASE CreateDir \/ EndLoop("dirs", "done") \/ UNCHANGED vars
  <2>1. /\ UNCHANGED << inodes, parent, roots >>
        /\ \/ at \in {"dirs", "done"}
           \/ at' = "dead"
           \/ at' = at /\ i' = i
        /\ at' \in {"dirs", "done", "dead"} \/ at' = at
    BY <1>4 DEF CreateDir, AtInode, EndLoop, vars
  <2>2. \A k : RootsAt(inodes[k])' = RootsAt(inodes[k])
    BY <2>1 DEF RootsAt, Root, Up
  <2>3. DOMAIN inodes' = DOMAIN inodes  BY <2>1
  <2>4. CASE at \in {"dirs", "done"}
    BY <1>1, <2>1, <2>2, <2>3, <2>4 DEF Rooted
  <2>5. CASE at' = "dead"
    BY <1>1, <2>1, <2>5 DEF Rooted
  <2>6. CASE at' = at /\ i' = i
    BY <1>1, <2>1, <2>2, <2>3, <2>6 DEF Rooted
  <2> QED BY <2>1, <2>4, <2>5, <2>6
<1>5. CASE NameRoot
  BY <1>1, <1>5 DEF NameRoot, Rooted
<1>6. CASE \/ FindParent \/ NoDirectory \/ EndLoop("parents", "names") \/ WalkDies \/ FindName
           \/ EndNames \/ EndLoop("names", "numbers") \/ NameByNumber
           \/ EndLoop("numbers", "root")
  <2>1. roots' = roots /\ at' \notin {"roots", "dirs", "done"} /\ (at' = "root" => i' = 1)
    BY <1>6 DEF FindParent, NoDirectory, EndLoop, WalkDies, FindName, EndNames, NameByNumber,
                AtInode
  <2> QED BY <1>1, <2>1 DEF Rooted
<1> QED BY <1>2, <1>3, <1>4, <1>5, <1>6 DEF Next

----------------------------------------------------------------------------
(* The names on the way up.                                                *)

\* What was handed over stays in front, and one inode is the original root.
Placed ==
  /\ \A k \in DOMAIN world.valid : k \in DOMAIN inodes /\ inodes[k] = world.valid[k]
  /\ at \in {"parents", "names", "numbers", "root"} =>
       \A o \in Objects : name[o] # OriginalRoot
  /\ at \in {"roots", "dirs", "done"} =>
       \A o, p \in Objects : name[o] = OriginalRoot /\ name[p] = OriginalRoot => o = p

LEMMA FrontKept ==
  ASSUME RelationsAssumption, RelationsInv, Placed, [Next]_vars
  PROVE  \A k \in DOMAIN world.valid' : k \in DOMAIN inodes' /\ inodes'[k] = world.valid'[k]
<1>1. UNCHANGED world  BY Moves
<1>2. CASE UNCHANGED inodes
  BY <1>1, <1>2 DEF Placed
<1>3. CASE LookUp \/ \E o \in Objects : Number(o) \notin Known /\ AddInode(o)
  <2>1. \A k \in DOMAIN inodes : k \in DOMAIN inodes' /\ inodes'[k] = inodes[k]
    BY <1>1, <1>3, GrowInv
  <2> QED BY <1>1, <2>1 DEF Placed
<1> QED BY <1>2, <1>3, Moves

LEMMA PlacedNext ==
  ASSUME RelationsAssumption, RelationsInv, Placed, [Next]_vars
  PROVE  Placed'
<1>1. \A k \in DOMAIN world.valid' : k \in DOMAIN inodes' /\ inodes'[k] = world.valid'[k]
  BY FrontKept
<1>2. Objects' = Objects /\ world \in Worlds
  BY Moves DEF Objects, RelationsInv, TypesOK, VectorOK
<1>3. CASE FindName
  <2>1. at = "names" /\ at' = "names" /\ c \in Objects /\ j \in DOMAIN Names(c)
    BY <1>2, <1>3, AtInodeOK, ListOK DEF FindName, AtInode, RelationsInv, TypesOK
  <2>2. Names(c)[j].name \in Nat \cup {NoName}
    BY <1>2, <2>1, ListOK
  <2>3. \/ UNCHANGED name
        \/ \E o : name' = [name EXCEPT ![o] = Names(c)[j].name]
    BY <1>3 DEF FindName, Relate
  <2>4. \A o \in Objects : name'[o] # OriginalRoot
    BY <2>1, <2>2, <2>3 DEF Placed, RelationsInv, TypesOK, OriginalRoot, NoName
  <2> QED BY <1>1, <1>2, <2>1, <2>4 DEF Placed
<1>4. CASE NameByNumber
  <2>1. at = "numbers" /\ at' = "numbers" /\ c \in Objects /\ Number(c) \in Nat
    BY <1>4, AtInodeOK DEF NameByNumber, AtInode
  <2>2. \A o \in Objects : name'[o] # OriginalRoot
    BY <1>4, <2>1 DEF NameByNumber, Placed, RelationsInv, TypesOK, OriginalRoot
  <2> QED BY <1>1, <1>2, <2>1, <2>2 DEF Placed
<1>5. CASE NameRoot
  <2>1. /\ at = "root" /\ at' = "roots"
        /\ name' = IF Has(2) THEN [name EXCEPT ![Index[2]] = OriginalRoot] ELSE name
    BY <1>5 DEF NameRoot
  <2>2. \A o, p \in Objects : name'[o] = OriginalRoot /\ name'[p] = OriginalRoot => o = p
    BY <2>1 DEF Placed, RelationsInv, TypesOK
  <2> QED BY <1>1, <1>2, <2>1, <2>2 DEF Placed
<1>6. CASE \/ FindParent \/ NoDirectory \/ EndLoop("parents", "names") \/ WalkDies
           \/ EndNames \/ EndLoop("names", "numbers") \/ EndLoop("numbers", "root")
  <2>1. name' = name /\ at \in {"parents", "names", "numbers", "root"}
        /\ at' \notin {"roots", "dirs", "done"}
    BY <1>6 DEF FindParent, NoDirectory, EndLoop, WalkDies, EndNames, AtInode
  <2> QED BY <1>1, <1>2, <2>1 DEF Placed
<1>7. CASE FindRoot \/ EndLoop("roots", "dirs") \/ CreateDir \/ EndLoop("dirs", "done")
  <2>1. /\ name' = name /\ at \in {"roots", "dirs", "done"}
        /\ at' \notin {"parents", "names", "numbers", "root"}
    BY <1>7 DEF FindRoot, EndLoop, CreateDir, AtInode
  <2> QED BY <1>1, <1>2, <2>1 DEF Placed
<1>8. CASE UNCHANGED vars
  BY <1>1, <1>2, <1>8 DEF vars, Placed
<1> QED BY <1>3, <1>4, <1>5, <1>6, <1>7, <1>8 DEF Next

\* Two inodes of one number are copies, since none is taken back twice.
LEMMA CopiesAre ==
  ASSUME RelationsAssumption, RelationsInv, Placed, Copies,
         NEW o \in Range(inodes), NEW p \in Range(inodes), Number(o) = Number(p)
  PROVE  Names(o) = Names(p)
<1> DEFINE V == Len(world.valid)
<1>1. /\ V \in Nat /\ DOMAIN world.valid = 1..V /\ Len(inodes) \in Nat
      /\ DOMAIN inodes = 1..Len(inodes)
  BY DEF RelationsAssumption, RelationsInv, TypesOK, VectorOK
<1>2. PICK a \in DOMAIN inodes : inodes[a] = o  BY DEF Range
<1>3. PICK b \in DOMAIN inodes : inodes[b] = p  BY DEF Range
<1>4. ASSUME NEW k \in DOMAIN inodes, NEW m \in DOMAIN inodes, k < m,
             Number(inodes[k]) = Number(inodes[m])
      PROVE  m \in 1..V
  <2>1. k \in 1..(m - 1)  BY <1>1, <1>4
  <2>2. m \notin (V + 1)..Len(inodes)
    BY <1>4, <2>1 DEF RelationsInv, OnceOK, TakenBackOnce
  <2> QED BY <1>1, <2>2
<1>5. CASE a = b
  BY <1>2, <1>3, <1>5
<1>6. CASE a # b
  <2>1. a \in 1..V /\ b \in 1..V
    BY <1>1, <1>2, <1>3, <1>4, <1>6
  <2>2. o \in Range(world.valid) /\ p \in Range(world.valid)
    BY <1>1, <1>2, <1>3, <2>1 DEF Placed, Range
  <2> QED BY <2>2 DEF Copies, Names
<1> QED BY <1>5, <1>6

\* The way up that get_full_path takes.
LEMMA PathIs ==
  ASSUME TypesOK, Chained, RelationsAssumption, NEW o \in Range(inodes), HasPath(o)
  PROVE  \E n \in 0..Len(inodes) :
           /\ Path(o) = [m \in 0..n |-> name[Up(o)[m]]]
           /\ Top(Up(o)[n])
           /\ \A m \in 0..n : Up(o)[m] \in Range(inodes)
           /\ \A m \in 0..(n - 1) : Up(o)[m + 1] = parent[Up(o)[m]]
<1> DEFINE N     == Len(inodes)
           up    == Up(o)
           At(n) == up[n] # NULL /\ Top(up[n])
           S     == {n \in 0..N : At(n)}
<1>1. N \in Nat  BY DEF TypesOK, VectorOK
<1>2. PICK n \in S : \A m \in S : n <= m
  <2>1. S \in SUBSET Nat /\ S # {}  BY DEF HasPath
  <2> HIDE DEF S
  <2> QED BY <2>1, Least
<1>3. n \in 0..N /\ At(n) /\ \A m \in 0..N : At(m) => n <= m
  BY <1>2
<1> HIDE DEF N, up, S, At
<1>4. \A m \in 0..n : up[m] # NULL
  <2> DEFINE Bad == {m \in 0..n : \E k \in 0..m : up[k] = NULL /\ up[m] # NULL}
  <2>1. Bad = {}
    <3> SUFFICES ASSUME Bad # {} PROVE FALSE  OBVIOUS
    <3>1. PICK m \in Bad : \A k \in Bad : m <= k
      <4>1. Bad \in SUBSET Nat  BY <1>3
      <4> HIDE DEF Bad
      <4> QED BY <4>1, Least
    <3>2. PICK k \in 0..m : up[k] = NULL /\ up[m] # NULL
      BY <3>1
    <3>3. /\ m \in 0..n /\ n \in 0..N /\ k # m /\ m - 1 \in 0..n /\ k \in 0..(m - 1)
          /\ m - 1 \in 0..N /\ (m - 1) + 1 = m
      BY <1>1, <1>3, <3>1, <3>2
    <3>4. up[m - 1] = NULL
      BY <3>1, <3>2, <3>3
    <3>5. up[(m - 1) + 1] = NULL
      BY <1>1, <3>3, <3>4, UpIs DEF up, N
    <3> QED BY <3>2, <3>3, <3>5
  <2>2. n \in 0..n /\ n \in Nat  BY <1>1, <1>3
  <2> QED BY <1>3, <2>1, <2>2 DEF At
<1>5. \A m \in 0..n : up[m] \in Range(inodes)
  <2> TAKE m \in 0..n
  <2>1. m \in 0..(N + 1)  BY <1>1, <1>3
  <2> QED BY <1>4, <2>1, UpIsThere DEF up, N
<1>6. \A m \in 0..(n - 1) : up[m + 1] = parent[up[m]]
  <2> TAKE m \in 0..(n - 1)
  <2>1. m \in 0..N /\ m \in 0..n  BY <1>1, <1>3
  <2> QED BY <1>1, <1>4, <2>1, UpIs DEF up, N
<1> DEFINE First(k) == At(k) /\ \A m \in 0..(k - 1) : ~ Top(up[m])
           r        == CHOOSE k \in 0..N : First(k)
<1>7. First(n)
  <2> SUFFICES ASSUME NEW m \in 0..(n - 1), Top(up[m]) PROVE FALSE  BY <1>3
  <2>1. m \in 0..N /\ m \in 0..n /\ ~ (n <= m)  BY <1>1, <1>3
  <2> QED BY <1>3, <1>4, <2>1 DEF At
<1>8. \A k \in 0..N : First(k) => k = n
  <2> SUFFICES ASSUME NEW k \in 0..N, First(k) PROVE k = n  OBVIOUS
  <2>1. n <= k  BY <1>3
  <2>2. ~ (n < k)
    <3> SUFFICES ASSUME n < k PROVE FALSE  OBVIOUS
    <3>1. n \in 0..(k - 1)  BY <1>3
    <3> QED BY <1>3, <3>1 DEF At
  <2> QED BY <1>3, <2>1, <2>2
<1>9. r = n
  <2> HIDE DEF First
  <2> QED BY <1>3, <1>7, <1>8
<1>10. Path(o) = [m \in 0..r |-> name[up[m]]]
  BY DEF Path, up, N, At
<1> HIDE DEF r
<1> QED BY <1>3, <1>5, <1>6, <1>9, <1>10 DEF up, N, At

\* Where an inode of one name lies, no other lies of this name.
LEMMA NameTells ==
  ASSUME RelationsAssumption, RelationsInv, Placed, Copies, at = "done",
         \A d \in Range(inodes) : WellFormed(d),
         NEW o \in Range(inodes), NEW p \in Range(inodes), name[o] = name[p],
         \/ Top(o) /\ Top(p)
         \/ Number(parent[o]) = Number(parent[p])
  PROVE  Number(o) = Number(p)
<1>1. /\ o \in Objects /\ p \in Objects /\ world \in Worlds
      /\ Number(o) \in Nat /\ Number(p) \in Nat /\ NULL \notin Range(inodes)
  BY InodeOK DEF RelationsInv, TypesOK, VectorOK, Range
<1>2. \A q \in {o, p} : name[q] \in {Number(q), OriginalRoot} \/ FromEntry(q)
  BY DEF RelationsInv, Named, NamedWhereItLies, FromEntry
<1>3. CASE name[o] = OriginalRoot
  BY <1>1, <1>3 DEF Placed
<1>4. ASSUME NEW q \in {o, p}, NEW r \in {o, p}, name[q] = name[r],
             name[q] = Number(q), FromEntry(r)
      PROVE  FALSE
  <2>1. \E k \in DOMAIN Names(parent[r]) : Names(parent[r])[k].name = name[r]
    BY <1>4 DEF FromEntry
  <2> QED BY <1>1, <1>4, <2>1 DEF FromEntry, WellFormed
<1>5. CASE name[o] = Number(o)
  BY <1>1, <1>2, <1>3, <1>4, <1>5
<1>6. CASE name[p] = Number(p)
  BY <1>1, <1>2, <1>3, <1>4, <1>6
<1>7. CASE FromEntry(o) /\ FromEntry(p)
  <2>1. PICK k \in DOMAIN Names(parent[o]) :
               Names(parent[o])[k] = [number |-> Number(o), name |-> name[o]]
    BY <1>7 DEF FromEntry
  <2>2. PICK m \in DOMAIN Names(parent[p]) :
               Names(parent[p])[m] = [number |-> Number(p), name |-> name[p]]
    BY <1>7 DEF FromEntry
  <2>3. parent[o] \in Range(inodes) /\ parent[p] \in Range(inodes)
    BY <1>7 DEF FromEntry
  <2>4. Number(parent[o]) = Number(parent[p])
    <3> SUFFICES ASSUME Top(o), Top(p) PROVE FALSE  OBVIOUS
    <3>1. parent[o] = o  BY <1>1, <2>3 DEF Top
    <3>2. Names(o)[k].number = Number(o)  BY <2>1, <3>1
    <3> QED BY <2>1, <3>1, <3>2 DEF WellFormed
  <2>5. Names(parent[o]) = Names(parent[p])
    BY <2>3, <2>4, CopiesAre
  <2>6. k = m
    <3>1. Names(parent[o])[k].name = Names(parent[o])[m].name  BY <2>1, <2>2, <2>5
    <3> QED BY <2>1, <2>2, <2>3, <2>5, <3>1 DEF WellFormed
  <2> QED BY <2>1, <2>2, <2>5, <2>6
<1> QED BY <1>2, <1>3, <1>5, <1>6, <1>7

LEMMA PathTells ==
  ASSUME RelationsAssumption, RelationsInv, Chained, Placed, Copies, at = "done",
         \A d \in Range(inodes) : WellFormed(d),
         NEW o \in Range(inodes), NEW p \in Range(inodes),
         HasPath(o), HasPath(p), Path(o) = Path(p)
  PROVE  Number(o) = Number(p)
<1>1. PICK n \in 0..Len(inodes) :
        /\ Path(o) = [m \in 0..n |-> name[Up(o)[m]]]
        /\ Top(Up(o)[n])
        /\ \A m \in 0..n : Up(o)[m] \in Range(inodes)
        /\ \A m \in 0..(n - 1) : Up(o)[m + 1] = parent[Up(o)[m]]
  BY PathIs DEF RelationsInv
<1>2. PICK l \in 0..Len(inodes) :
        /\ Path(p) = [m \in 0..l |-> name[Up(p)[m]]]
        /\ Top(Up(p)[l])
        /\ \A m \in 0..l : Up(p)[m] \in Range(inodes)
        /\ \A m \in 0..(l - 1) : Up(p)[m + 1] = parent[Up(p)[m]]
  BY PathIs DEF RelationsInv
<1>3. Len(inodes) \in Nat  BY DEF RelationsInv, TypesOK, VectorOK
<1>4. n = l
  <2>1. DOMAIN Path(o) = 0..n /\ DOMAIN Path(p) = 0..l  BY <1>1, <1>2
  <2>2. n \in 0..n /\ l \in 0..l  BY <1>3
  <2>3. n \in 0..l /\ l \in 0..n  BY <2>1, <2>2
  <2> QED BY <1>3, <2>3
<1>5. \A m \in 0..n : name[Up(o)[m]] = name[Up(p)[m]]
  <2> TAKE m \in 0..n
  <2>1. Path(o)[m] = name[Up(o)[m]] /\ Path(p)[m] = name[Up(p)[m]]  BY <1>1, <1>2, <1>4
  <2> QED BY <2>1
<1> DEFINE Same(m) == Number(Up(o)[m]) = Number(Up(p)[m])
           Good    == {m \in 0..n : Same(m)}
<1>6. n \in Good
  <2>1. n \in 0..n  BY <1>3
  <2> QED BY <1>1, <1>2, <1>4, <1>5, <2>1, NameTells
<1>7. PICK m \in Good : \A k \in Good : m <= k
  <2>1. Good \in SUBSET Nat  OBVIOUS
  <2> HIDE DEF Good
  <2> QED BY <1>6, <2>1, Least
<1>8. m = 0
  <2> SUFFICES ASSUME m # 0 PROVE FALSE  OBVIOUS
  <2>1. /\ m \in 0..n /\ m - 1 \in 0..n /\ m - 1 \in 0..(n - 1) /\ (m - 1) + 1 = m
        /\ ~ (m <= m - 1)
    BY <1>3, <1>7
  <2>2. Up(o)[m] = parent[Up(o)[m - 1]] /\ Up(p)[m] = parent[Up(p)[m - 1]]
    BY <1>1, <1>2, <1>4, <2>1
  <2>3. Number(parent[Up(o)[m - 1]]) = Number(parent[Up(p)[m - 1]])
    BY <1>7, <2>2
  <2>4. Same(m - 1)
    BY <1>1, <1>2, <1>4, <1>5, <2>1, <2>3, NameTells
  <2> QED BY <1>7, <2>1, <2>4
<1> QED BY <1>3, <1>7, <1>8, UpIs

----------------------------------------------------------------------------
(* The whole.                                                              *)

TreeInv == RelationsInv /\ IndexTyped /\ Chained /\ Rooted /\ Placed

LEMMA TreeHolds == Spec => []TreeInv
<1>1. RelationsAssumption /\ Init => TreeInv
  <2> SUFFICES ASSUME RelationsAssumption, Init PROVE TreeInv  OBVIOUS
  <2>1. RelationsInv  BY InitInv
  <2>2. IndexTyped
    <3>1. DOMAIN index = {} /\ indexOk = FALSE  BY DEF Init
    <3> QED BY <3>1 DEF IndexTyped
  <2>3. Chained /\ Rooted
    BY DEF Init, Chained, Rooted, Objects
  <2>4. Placed
    BY DEF Init, Placed, NoName, OriginalRoot
  <2> QED BY <2>1, <2>2, <2>3, <2>4 DEF TreeInv
<1>2. RelationsAssumption /\ TreeInv /\ [Next]_vars => TreeInv'
  BY NextInv, IndexTypedNext, ChainedNext, RootedNext, PlacedNext DEF TreeInv
<1> QED BY <1>1, <1>2, RelationsAssumption, PTL DEF Spec

\* Whatever is appended while the loops run, the vector, its index, the
\* parents, the names and the roots are made of the inodes that were found.
THEOREM RelationsTypeCorrect == Spec => []TypeOK
<1>1. TreeInv => TypeOK
  BY DEF TreeInv, RelationsInv, IndexTyped, Rooted, TypesOK, VectorOK, Places, TypeOK
<1> QED BY <1>1, TreeHolds, PTL

\* Every inode has one of the roots above it or is one, also where the
\* parents go round in a circle and get_root has to stop at some inode of it.
THEOREM EachHasARoot == Spec => []RootsCover
<1>1. TreeInv => RootsCover
  <2> SUFFICES ASSUME TreeInv, at \in {"dirs", "done"}, NEW o \in Range(inodes)
               PROVE  \E n \in DOMAIN Up(o) : Up(o)[n] \in roots
    BY DEF RootsCover
  <2>1. Len(inodes) \in Nat /\ RootsAt(o) \subseteq roots
    BY DEF TreeInv, RelationsInv, TypesOK, VectorOK, Rooted, Range
  <2>2. DOMAIN Up(o) = 0..(Len(inodes) + 1) /\ Up(o)[0] = o
    BY <2>1, UpIs
  <2>3. CASE parent[o] = NULL
    BY <2>1, <2>2, <2>3 DEF RootsAt
  <2>4. CASE parent[o] # NULL
    <3>1. PICK n \in 0..Len(inodes) : Root(o) = Up(o)[n]
      BY RootIsThere DEF TreeInv, RelationsInv
    <3> QED BY <2>1, <2>2, <2>4, <3>1 DEF RootsAt
  <2> QED BY <2>3, <2>4
<1> QED BY <1>1, TreeHolds, PTL

\* No two inodes get one path, however the numbers the nameless fall back on,
\* the circles of parents and the copies of a number come together, unless a
\* directory is damaged in one of three ways.
THEOREM NoneIsOverwritten == Spec => []PathsDiffer
<1>1. RelationsAssumption /\ TreeInv => PathsDiffer
  BY PathTells DEF TreeInv, PathsDiffer
<1> QED BY <1>1, RelationsAssumption, TreeHolds, PTL
=============================================================================
