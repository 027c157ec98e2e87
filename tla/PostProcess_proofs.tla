------------------------- MODULE PostProcess_proofs -------------------------
(***************************************************************************)
(* Proofs about PostProcess, for every image, every number of kills and    *)
(* every use of jfsrec_rm_logged_inode: no inode is forgotten, the         *)
(* recovery is handed one inode per number, what was removed stays away,   *)
(* the filter keeps every full inode extent, and PostProcess implements    *)
(* FilterChain.                                                            *)
(***************************************************************************)
EXTENDS PostProcess, FiniteSetTheorems, SequenceTheorems, TLAPS

----------------------------------------------------------------------------
(* The inductive invariant                                                 *)

\* No position file was damaged, none lost what it was to hold.
Sound == mishaps \cap Damage = {}

\* Which stage files are there depends on the place.
Placed ==
  /\ k # 0
  /\ at = "work" /\ stage = "scan" => invalid = << >>
  /\ at = "work"  => stage # "end"
  /\ at = "sweep" => stage \notin {"scan", "end"}
  /\ at \in {"open"} \cup Saving => stage \in StageFiles
  /\ at \in {"work", "sweep", "open"} =>
       \A f \in StageFiles : Rank(f) >= Rank(stage) => ~ files[f].there
  /\ at \in Saving =>
       files[stage].there /\ \A f \in StageFiles : Rank(f) > Rank(stage) => ~ files[f].there

\* The stage file is there whole while invalidated.txt is saved.
Written == at \in {"invopen", "invwrite"} => files[stage] = File(inodes, << >>)

Scanned == files["inoscan"]

Increasing(s) == \A a, b \in 1..Len(s) : a < b => s[a] < s[b]
TopIsLast(s)  == \A x \in Range(s) : x <= Last(s)

\* Nothing of S is left out up to the last record of ls, and what is behind.
NoGap(ls, S)  == ls # << >> => \A x \in S : x <= Last(ls) => x \in Range(ls)
Rest(ls, S)   == {x \in S : ls = << >> \/ x > Last(ls)}

\* inoscan.txt is increasing.
LogOK ==
  /\ ~ Scanned.there => Scanned.lines = << >>
  /\ Scanned.tail = << >>
  /\ Increasing(Scanned.lines)

\* Nothing is forgotten: not by the log up to its last record, not by the
\* newest stage file with invalidated.txt, not by the process.
Complete ==
  /\ NoGap(Scanned.lines, Sane)
  /\ at \notin Saving /\ Newest # "none" => Sane \subseteq In(files[Newest]) \cup In(files["invalid"])
  /\ Live => Sane \subseteq Known

\* What was removed is nowhere, and a scan resumes behind it.
Clean ==
  /\ \A f \in FileNames : removed \cap In(files[f]) = {}
  /\ Live => removed \cap Known = {}
  /\ Newest = "none" =>
       \A o \in removed : Scanned.lines # << >> /\ o < Last(Scanned.lines)

OneEach(S) == \A x, y \in S : disk[x].number = disk[y].number => x = y

\* Behind remove_dupes there is one inode per number.
Single ==
  /\ OneEach(In(files["dupes"]))
  /\ at \in {"open"} \cup Saving /\ stage = "dupes" => OneEach(Range(inodes))
  /\ at = "done" => OneEach(Range(inodes))
  /\ at = "sweep" /\ stage = "dupes" =>
       /\ keep = KeepLatest(disk, inodes)
       /\ \A x \in Range(kept) : \E n \in keep : x = inodes[n]

PostInv ==
  /\ TypeOK /\ Placed /\ Written
  /\ Sound => LogOK
  /\ Sound /\ removed = {} => Complete
  /\ Sound /\ "removedlast" \notin mishaps => Clean
  /\ Sound => Single

----------------------------------------------------------------------------
(* Sets of numbers in increasing order                                     *)

\* How many elements of S are not above x.
Position(S, x) == Cardinality({y \in S : y <= x})

LEMMA PositionsAreApart ==
  ASSUME NEW S \in SUBSET Nat, IsFiniteSet(S)
  PROVE  /\ \A x, y \in S : x < y => Position(S, x) < Position(S, y)
         /\ \A x \in S : Position(S, x) \in 1..Cardinality(S)
<1> DEFINE B(x) == {y \in S : y <= x}
<1>1. \A x \in S : /\ IsFiniteSet(B(x)) /\ B(x) \subseteq S /\ Cardinality(B(x)) \in Nat
                   /\ Cardinality(B(x)) <= Cardinality(S) /\ Cardinality(B(x)) # 0
  <2> TAKE x \in S
  <2>1. x \in B(x) /\ B(x) \in SUBSET S  OBVIOUS
  <2> HIDE DEF B
  <2>2. IsFiniteSet(B(x)) /\ Cardinality(B(x)) <= Cardinality(S)
    BY <2>1, FS_Subset
  <2> QED BY <2>1, <2>2, FS_CardinalityType, FS_EmptySet
<1>2. ASSUME NEW x \in S, NEW y \in S, x < y
      PROVE  Cardinality(B(x)) < Cardinality(B(y))
  <2>1. B(x) \in SUBSET B(y) /\ y \in B(y) /\ y \notin B(x)
    <3>1. x \in Nat /\ y \in Nat /\ \A z \in S : z \in Nat  OBVIOUS
    <3>2. \A z \in S : z <= x => z <= y  BY <1>2, <3>1
    <3>3. ~ (y <= x) /\ y <= y  BY <1>2, <3>1
    <3>4. \A z \in B(x) : z \in B(y)  BY <3>2
    <3> QED BY <3>3, <3>4, Zenon
  <2>2. IsFiniteSet(B(y)) /\ Cardinality(B(x)) \in Nat /\ Cardinality(B(y)) \in Nat
    BY <1>1
  <2> HIDE DEF B
  <2>3. Cardinality(B(x)) <= Cardinality(B(y)) /\ Cardinality(B(x)) # Cardinality(B(y))
    BY <2>1, <2>2, FS_Subset
  <2> QED BY <2>2, <2>3
<1>3. Cardinality(S) \in Nat  BY FS_CardinalityType
<1>4. \A x \in S : Position(S, x) = Cardinality(B(x))  BY DEF Position
<1> HIDE DEF B
<1> QED BY <1>1, <1>2, <1>3, <1>4

\* Sorted(S) is the increasing enumeration of S.
LEMMA SortedIs ==
  ASSUME NEW S \in SUBSET Nat, IsFiniteSet(S)
  PROVE  /\ Sorted(S) \in Seq(S) /\ Len(Sorted(S)) = Cardinality(S)
         /\ Range(Sorted(S)) = S
         /\ \A a, b \in 1..Len(Sorted(S)) : a < b => Sorted(S)[a] < Sorted(S)[b]
<1> DEFINE N == Cardinality(S)
           f == [x \in S |-> Position(S, x)]
           t == Sorted(S)
<1>1. N \in Nat  BY FS_CardinalityType
<1>2. f \in Injection(S, 1..N)
  <2>1. f \in [S -> 1..N]  BY PositionsAreApart
  <2>2. \A x, y \in S : f[x] = f[y] => x = y
    <3> SUFFICES ASSUME NEW x \in S, NEW y \in S, f[x] = f[y], x # y  PROVE FALSE
      OBVIOUS
    <3>1. x < y \/ y < x  OBVIOUS
    <3>2. f[x] = Position(S, x) /\ f[y] = Position(S, y)  OBVIOUS
    <3>3. f[x] \in Nat /\ f[y] \in Nat  BY <1>1, <2>1
    <3> HIDE DEF f
    <3>4. \A u, v \in S : u < v => Position(S, u) < Position(S, v)
      BY PositionsAreApart
    <3>5. CASE x < y
      <4>1. f[x] < f[y]  BY <3>2, <3>4, <3>5
      <4> QED BY <4>1, <3>3
    <3>6. CASE y < x
      <4>1. f[y] < f[x]  BY <3>2, <3>4, <3>6
      <4> QED BY <4>1, <3>3
    <3> QED BY <3>1, <3>5, <3>6
  <2> HIDE DEF f
  <2> QED BY <2>1, <2>2 DEF Injection, IsInjective
<1>3. \A n \in 1..N : \E x \in S : Position(S, x) = n
  <2>1. IsFiniteSet(1..N) /\ Cardinality(1..N) = N
    BY <1>1, FS_Interval
  <2>2. f \in Surjection(S, 1..N)
    <3> HIDE DEF f, N
    <3> QED BY <1>2, <2>1, FS_Injection DEF N
  <2> QED BY <2>2 DEF Surjection
<1>4. t = [n \in 1..N |-> CHOOSE x \in S : Position(S, x) = n]
  BY DEF Sorted, Position
<1>5. \A n \in 1..N : t[n] \in S /\ Position(S, t[n]) = n
  BY <1>3, <1>4
<1>6. t \in Seq(S) /\ Len(t) = N
  <2>1. DOMAIN t = 1..N /\ t \in [1..N -> S]  BY <1>4, <1>5
  <2> HIDE DEF t, N
  <2> QED BY <1>1, <2>1
<1>7. ASSUME NEW x \in S PROVE x \in Range(t)
  <2>1. Position(S, x) \in 1..N  BY PositionsAreApart
  <2>2. t[Position(S, x)] \in S /\ Position(S, t[Position(S, x)]) = Position(S, x)
    BY <2>1, <1>5
  <2>3. t[Position(S, x)] = x
    <3> DEFINE y == t[Position(S, x)]
    <3>1. y \in S /\ x \in Nat /\ y \in Nat /\ Position(S, y) = Position(S, x)  BY <2>2
    <3> HIDE DEF y
    <3>2. y < x \/ x < y \/ x = y  BY <3>1
    <3>3. Position(S, x) \in Nat  BY <2>1, <1>1
    <3>4. x = y  BY <3>1, <3>2, <3>3, PositionsAreApart
    <3> QED BY <3>4 DEF y
  <2>4. DOMAIN t = 1..N  BY <1>4
  <2> HIDE DEF t
  <2> QED BY <2>1, <2>3, <2>4 DEF Range
<1>8. Range(t) \subseteq S
  <2>1. DOMAIN t = 1..N  BY <1>4
  <2> HIDE DEF t
  <2> QED BY <1>5, <2>1 DEF Range
<1>9. ASSUME NEW a \in 1..N, NEW b \in 1..N, a < b PROVE t[a] < t[b]
  <2> DEFINE x == t[a]  y == t[b]
  <2>1. x \in S /\ y \in S /\ Position(S, x) = a /\ Position(S, y) = b
    BY <1>5
  <2> HIDE DEF x, y
  <2>2. ~ (y <= x)
    <3>1. y \in Nat /\ x \in Nat /\ a \in Nat /\ b \in Nat  BY <2>1, <1>1
    <3>2. y = x \/ y < x \/ x < y  BY <3>1
    <3> QED BY <2>1, <3>1, <3>2, <1>9, PositionsAreApart
  <2>3. x < y  BY <2>1, <2>2
  <2> QED BY <2>3 DEF x, y
<1> HIDE DEF t, N
<1> QED BY <1>6, <1>7, <1>8, <1>9 DEF t, N

\* sed takes o out and leaves the rest in its order.
LEMMA WithoutIs ==
  ASSUME NEW D, NEW s \in Seq(D), NEW o
  PROVE  /\ Without(s, o) \in Seq(D)
         /\ Range(Without(s, o)) = Range(s) \ {o}
         /\ (s # << >> /\ Last(s) # o) => /\ Without(s, o) # << >>
                                          /\ Last(Without(s, o)) = Last(s)
         /\ Increasing(s) => Increasing(Without(s, o))
<1> DEFINE is == {n \in DOMAIN s : s[n] # o}
           t  == Sorted(is)
           w  == Without(s, o)
<1>1. is \in SUBSET Nat /\ IsFiniteSet(is) /\ is \subseteq 1..Len(s)
  <2>1. is \in SUBSET (1..Len(s))  OBVIOUS
  <2>2. Len(s) \in Nat /\ IsFiniteSet(1..Len(s)) /\ 1..Len(s) \subseteq Nat
    BY FS_Interval
  <2> HIDE DEF is
  <2> QED BY <2>1, <2>2, FS_Subset
<1>2. /\ t \in Seq(is) /\ Len(t) = Cardinality(is) /\ Range(t) = is
      /\ \A a, b \in 1..Len(t) : a < b => t[a] < t[b]
  <2> HIDE DEF is
  <2> QED BY <1>1, SortedIs
<1>3. Len(t) \in Nat /\ DOMAIN t = 1..Len(t) /\ \A n \in 1..Len(t) : t[n] \in is
  <2> HIDE DEF is, t
  <2> QED BY <1>2
<1>4. w = [n \in 1..Len(t) |-> s[t[n]]]
  BY <1>2 DEF Without, Pick
<1>5. \A n \in 1..Len(t) : w[n] = s[t[n]] /\ w[n] \in D /\ w[n] # o
  BY <1>3, <1>4
<1>6. w \in Seq(D) /\ Len(w) = Len(t) /\ DOMAIN w = 1..Len(t)
  <2>1. w \in [1..Len(t) -> D] /\ DOMAIN w = 1..Len(t)  BY <1>4, <1>5
  <2> HIDE DEF w, t
  <2> QED BY <1>3, <2>1
<1>7. Range(w) = Range(s) \ {o}
  <2>1. Range(w) \subseteq Range(s) \ {o}
    <3> SUFFICES ASSUME NEW n \in DOMAIN w PROVE w[n] \in Range(s) \ {o}
      BY DEF Range
    <3> QED BY <1>3, <1>5, <1>6 DEF Range
  <2>2. ASSUME NEW m \in DOMAIN s, s[m] # o PROVE s[m] \in Range(w)
    <3>1. m \in Range(t)  BY <1>2, <2>2
    <3>2. PICK n \in 1..Len(t) : t[n] = m  BY <3>1, <1>3 DEF Range
    <3>3. w[n] = s[m]  BY <3>2, <1>5
    <3> HIDE DEF w, t
    <3> QED BY <3>2, <3>3, <1>6 DEF Range
  <2> QED BY <2>1, <2>2 DEF Range
<1>8. ASSUME s # << >>, Last(s) # o
      PROVE  w # << >> /\ Last(w) = Last(s)
  <2>1. Len(s) \in Nat \ {0} /\ Len(s) \in is
    BY <1>8 DEF Last
  <2>2. PICK n \in 1..Len(t) : t[n] = Len(s)
    <3>1. Len(s) \in Range(t)  BY <1>2, <2>1
    <3> HIDE DEF t, is
    <3> QED BY <3>1, <1>3 DEF Range
  <2>3. n = Len(t)
    <3> SUFFICES ASSUME n # Len(t) PROVE FALSE  OBVIOUS
    <3> HIDE DEF t, is
    <3>1. n < Len(t) /\ Len(t) \in 1..Len(t)
      <4> DEFINE N == Len(t)
      <4>1. N \in Nat /\ n \in 1..N /\ n # N  BY <1>3, <2>2
      <4> HIDE DEF N
      <4>2. n < N /\ N \in 1..N  BY <4>1
      <4> QED BY <4>2 DEF N
    <3>2. t[n] < t[Len(t)] /\ t[Len(t)] \in 1..Len(s)
      BY <3>1, <1>1, <1>2, <1>3, <2>2
    <3> QED BY <3>2, <2>1, <2>2
  <2>4. w[Len(t)] = s[Len(s)]  BY <2>2, <2>3, <1>5
  <2> HIDE DEF w, t
  <2> QED BY <2>2, <2>3, <2>4, <1>6 DEF Last
<1>9. ASSUME Increasing(s), NEW a \in 1..Len(t), NEW b \in 1..Len(t), a < b
      PROVE  w[a] < w[b]
  <2>1. t[a] \in 1..Len(s) /\ t[b] \in 1..Len(s) /\ t[a] < t[b]
    <3> HIDE DEF t, is
    <3> QED BY <1>1, <1>2, <1>3, <1>9
  <2> HIDE DEF w, t
  <2>2. s[t[a]] < s[t[b]]  BY <2>1, <1>9 DEF Increasing
  <2> QED BY <2>2, <1>5
<1>10. Increasing(s) => Increasing(w)
  <2> HIDE DEF w, t
  <2> QED BY <1>6, <1>9 DEF Increasing
<1> HIDE DEF w
<1> QED BY <1>6, <1>7, <1>8, <1>10 DEF w

----------------------------------------------------------------------------
(* Files and what is read from them                                        *)

LEMMA DiskOK ==
  ASSUME disk \in Disks
  PROVE  /\ DOMAIN disk \subseteq Nat /\ Junk \in DOMAIN disk
         /\ Sane \subseteq DOMAIN disk /\ Junk \notin Sane
         /\ \A S \in SUBSET Sane : S \in SUBSET Nat /\ IsFiniteSet(S)
         /\ \A o \in DOMAIN disk :
              disk[o].number \in Nat /\ disk[o].otime \in Nat /\ disk[o].stamp \in Nat
<1>1. /\ DOMAIN disk \subseteq Nat /\ IsFiniteSet(DOMAIN disk) /\ Junk \in DOMAIN disk
      /\ \A o \in DOMAIN disk :
           disk[o].number \in Nat /\ disk[o].otime \in Nat /\ disk[o].stamp \in Nat
  BY PostAssumption
<1>2. Sane \subseteq DOMAIN disk /\ Junk \notin Sane
  BY DEF Sane
<1>3. ASSUME NEW S \in SUBSET Sane PROVE S \in SUBSET Nat /\ IsFiniteSet(S)
  <2>1. S \in SUBSET (DOMAIN disk)  BY <1>2
  <2> QED BY <2>1, <1>1, FS_Subset
<1> QED BY <1>1, <1>2, <1>3

LEMMA JoinedIs ==
  ASSUME NEW D, NEW s \in Seq(D), NEW t \in Seq(D)
  PROVE  /\ s \o t \in Seq(D) /\ Range(s \o t) = Range(s) \cup Range(t)
         /\ t # << >> => Last(s \o t) = Last(t)
         /\ t = << >> => s \o t = s
<1>1. s \o t \in Seq(D) /\ Len(s \o t) = Len(s) + Len(t) /\ Len(s) \in Nat /\ Len(t) \in Nat
  OBVIOUS
<1>2. \A n \in 1..Len(s) : (s \o t)[n] = s[n]
  OBVIOUS
<1>3. \A n \in 1..Len(t) : (s \o t)[Len(s) + n] = t[n] /\ Len(s) + n \in DOMAIN (s \o t)
  BY <1>1
<1>4. Range(s \o t) = Range(s) \cup Range(t)
  <2>1. ASSUME NEW n \in DOMAIN (s \o t)
        PROVE (s \o t)[n] \in Range(s) \cup Range(t)
    <3>1. CASE n \in 1..Len(s)  BY <3>1, <1>2 DEF Range
    <3>2. CASE n \notin 1..Len(s)
      <4>1. n - Len(s) \in 1..Len(t) /\ Len(s) + (n - Len(s)) = n  BY <3>2, <1>1
      <4>2. (s \o t)[n] = t[n - Len(s)]  BY <4>1, <1>3
      <4> QED BY <4>1, <4>2 DEF Range
    <3> QED BY <3>1, <3>2
  <2>2. ASSUME NEW n \in DOMAIN s PROVE s[n] \in Range(s \o t)
    <3>1. n \in DOMAIN (s \o t) /\ (s \o t)[n] = s[n]  BY <1>1, <1>2
    <3> QED BY <3>1 DEF Range
  <2>3. ASSUME NEW n \in DOMAIN t PROVE t[n] \in Range(s \o t)
    <3>1. Len(s) + n \in DOMAIN (s \o t) /\ (s \o t)[Len(s) + n] = t[n]  BY <1>3
    <3> QED BY <3>1 DEF Range
  <2> QED BY <2>1, <2>2, <2>3 DEF Range
<1>5. t # << >> => Last(s \o t) = Last(t)
  BY <1>1, <1>3 DEF Last
<1> QED BY <1>1, <1>4, <1>5

LEMMA AppendIs ==
  ASSUME NEW D, NEW s \in Seq(D), NEW x \in D
  PROVE  /\ Append(s, x) \in Seq(D) /\ Append(s, x) # << >>
         /\ Range(Append(s, x)) = Range(s) \cup {x} /\ Last(Append(s, x)) = x
<1>1. /\ Append(s, x) \in Seq(D) /\ Len(Append(s, x)) = Len(s) + 1 /\ Len(s) \in Nat
      /\ DOMAIN Append(s, x) = DOMAIN s \cup {Len(s) + 1}
  OBVIOUS
<1>2. (\A n \in DOMAIN s : Append(s, x)[n] = s[n]) /\ Append(s, x)[Len(s) + 1] = x
  OBVIOUS
<1> QED BY <1>1, <1>2 DEF Range, Last

\* The loop over a file yields its records; only an empty file yields
\* something else.
LEMMA ReadIs ==
  ASSUME NEW D, NEW f, f.lines \in Seq(D), f.tail \in Seq(D), NEW bo \in D
  PROVE  /\ Read(f, bo) \in Seq(D) /\ Read(f, bo) # << >>
         /\ Last(Read(f, bo)) \in Range(Read(f, bo)) /\ Last(Read(f, bo)) \in D
         /\ f.lines # << >> \/ f.tail # << >>
              => Range(Read(f, bo)) = Range(f.lines) \cup Range(f.tail)
         /\ f.lines = << >> /\ f.tail = << >>
              => bo \in Range(Read(f, bo)) /\ Range(f.lines) \cup Range(f.tail) = {}
         /\ Range(Read(f, bo)) \subseteq Range(f.lines) \cup Range(f.tail) \cup {bo}
         /\ f.lines # << >> /\ f.tail = << >> => Last(Read(f, bo)) = Last(f.lines)
<1> DEFINE ls == f.lines  t == f.tail  r == Read(f, bo)
<1>1. r = IF t # << >> THEN ls \o t ELSE Append(ls, IF ls = << >> THEN bo ELSE ls[Len(ls)])
  BY DEF Read, Records
<1>2. ls \in Seq(D) /\ t \in Seq(D)  OBVIOUS
<1> HIDE DEF ls, t, r
<1>3. \A u \in Seq(D) : /\ u # << >> => Last(u) \in Range(u) /\ Last(u) \in D
                        /\ u = << >> => Range(u) = {}
  <2> TAKE u \in Seq(D)
  <2>1. u # << >> => Len(u) \in DOMAIN u  OBVIOUS
  <2> QED BY <2>1 DEF Last, Range
<1>4. CASE t # << >>
  <2>1. r = ls \o t  BY <1>1, <1>4
  <2>2. r \in Seq(D) /\ Range(r) = Range(ls) \cup Range(t) /\ Last(r) = Last(t)
    BY <1>2, <1>4, <2>1, JoinedIs
  <2>3. Last(t) \in Range(t)  BY <1>2, <1>3, <1>4
  <2>4. r # << >>
    <3>1. Range(<< >>) = {}  BY DEF Range
    <3> QED BY <2>2, <2>3, <3>1
  <2> QED BY <1>3, <1>4, <2>2, <2>3, <2>4 DEF ls, t, r
<1>5. CASE t = << >> /\ ls # << >>
  <2>1. r = Append(ls, Last(ls)) /\ Last(ls) \in D /\ Last(ls) \in Range(ls)
    BY <1>1, <1>2, <1>3, <1>5 DEF Last
  <2>2. /\ r \in Seq(D) /\ r # << >> /\ Last(r) = Last(ls)
        /\ Range(r) = Range(ls) \cup {Last(ls)}
    BY <1>2, <2>1, AppendIs
  <2>3. Range(t) = {}  BY <1>3, <1>2, <1>5
  <2> QED BY <1>5, <2>1, <2>2, <2>3 DEF ls, t, r
<1>6. CASE t = << >> /\ ls = << >>
  <2>1. r = Append(ls, bo)  BY <1>1, <1>6
  <2>2. r \in Seq(D) /\ r # << >> /\ Range(r) = Range(ls) \cup {bo} /\ Last(r) = bo
    BY <1>2, <2>1, AppendIs
  <2>3. Range(t) = {} /\ Range(ls) = {}  BY <1>2, <1>3, <1>6
  <2> QED BY <1>6, <2>2, <2>3 DEF ls, t, r
<1> QED BY <1>4, <1>5, <1>6

\* A cut save leaves the file, with no record it was not to hold but Junk.
LEMMA BeginningIs ==
  ASSUME NEW D, Junk \in D, NEW s \in Seq(D), NEW f \in Beginnings(s)
  PROVE  /\ f \in [there : BOOLEAN, lines : Seq(D), tail : Seq(D)]
         /\ f.there
         /\ Whole(f, s) => Range(f.lines) \cup Range(f.tail) = Range(s)
<1>1. /\ f \in [there : BOOLEAN, lines : Seq(D), tail : Seq(D)]
      /\ f.there
  <2>1. CASE \E n \in 0..Len(s) : f = File(SubSeq(s, 1, n), << >>)
    BY <2>1 DEF File
  <2>2. CASE \E n \in DOMAIN s : \E t \in {s[n], Junk} : f = File(SubSeq(s, 1, n - 1), << t >>)
    <3>1. PICK n \in DOMAIN s : \E t \in {s[n], Junk} : f = File(SubSeq(s, 1, n - 1), << t >>)
      BY <2>2
    <3>2. PICK t \in {s[n], Junk} : f = File(SubSeq(s, 1, n - 1), << t >>)
      BY <3>1
    <3>3. SubSeq(s, 1, n - 1) \in Seq(D) /\ << t >> \in Seq(D)
      OBVIOUS
    <3> QED BY <3>2, <3>3 DEF File
  <2> QED BY <2>1, <2>2 DEF Beginnings
<1>2. Whole(f, s) => Range(f.lines) \cup Range(f.tail) = Range(s)
  <2>1. f.lines \in Seq(D) /\ f.tail \in Seq(D)  BY <1>1
  <2>2. Range(f.lines \o f.tail) = Range(f.lines) \cup Range(f.tail)  BY <2>1, JoinedIs
  <2> QED BY <2>2, Zenon DEF Whole
<1> QED BY <1>1, <1>2

----------------------------------------------------------------------------
(* The newest stage file                                                   *)

NewestOf(fs) ==
  IF      fs["dupes"].there   THEN "dupes"
  ELSE IF fs["unalloc"].there THEN "unalloc"
  ELSE IF fs["extents"].there THEN "extents"
  ELSE IF fs["scan"].there    THEN "scan" ELSE "none"

LEMMA NewestIs == Newest = NewestOf(files) /\ Newest' = NewestOf(files')
BY DEF Newest, NewestOf

LEMMA NewestFirst ==
  ASSUME NEW fs
  PROVE  /\ NewestOf(fs) \in StageFiles \cup {"none"}
         /\ NewestOf(fs) # "none" =>
              fs[NewestOf(fs)].there /\
              \A f \in StageFiles : Rank(f) > Rank(NewestOf(fs)) => ~ fs[f].there
         /\ NewestOf(fs) = "none" <=> \A f \in StageFiles : ~ fs[f].there
BY DEF NewestOf, StageFiles, Rank

LEMMA NewestThere ==
  ASSUME NEW fs, NEW s \in StageFiles, fs[s].there,
         \A f \in StageFiles : Rank(f) > Rank(s) => ~ fs[f].there
  PROVE  NewestOf(fs) = s
BY DEF NewestOf, StageFiles, Rank

LEMMA NewestSame ==
  ASSUME NEW fs, NEW gs, \A f \in StageFiles : fs[f].there = gs[f].there
  PROVE  NewestOf(fs) = NewestOf(gs)
BY DEF NewestOf, StageFiles

\* The labels go from one stage to the next, and a stage file stands for its
\* stage.
LEMMA LabelsInOrder ==
  ASSUME NEW s \in Stages
  PROVE  /\ After(s) \in Stages
         /\ s # "end" => Rank(After(s)) > Rank(s)
         /\ s \in StageFiles => After(s) # "scan" /\ (After(s) = "end" <=> s = "dupes")
         /\ Rank(s) \in Nat /\ StageFiles \subseteq Stages \ {"end"}
         /\ StageFiles \subseteq FileNames /\ "inoscan" \notin StageFiles
         /\ "invalid" \notin StageFiles
         /\ "inoscan" \in FileNames /\ "invalid" \in FileNames
BY DEF Stages, StageFiles, FileNames, After, Rank

----------------------------------------------------------------------------
(* Types                                                                   *)

D == DOMAIN disk

LogType == [there : BOOLEAN, lines : Seq(D), tail : Seq(D)]

LEMMA FilesOK ==
  ASSUME TypeOK, NEW f \in FileNames
  PROVE  /\ files[f] \in LogType /\ files[f].there \in BOOLEAN
         /\ files[f].lines \in Seq(D) /\ files[f].tail \in Seq(D)
BY DEF TypeOK, LogType, D

\* Reading a file yields what it holds, and at most what the variable bo
\* held before.
LEMMA ReadAll ==
  ASSUME TypeOK, NEW n \in FileNames, NEW bo \in D
  PROVE  /\ In(files[n]) \subseteq Range(Read(files[n], bo))
         /\ files[n].there => Range(Read(files[n], bo)) \subseteq In(files[n]) \cup {bo}
<1> DEFINE f == files[n]
<1>1. f.lines \in Seq(D) /\ f.tail \in Seq(D)  BY FilesOK
<1> HIDE DEF f
<1>2. /\ Range(Read(f, bo)) \subseteq Range(f.lines) \cup Range(f.tail) \cup {bo}
      /\ Range(f.lines) \cup Range(f.tail) \subseteq Range(Read(f, bo))
  <2>1. Range(Read(f, bo)) \subseteq Range(f.lines) \cup Range(f.tail) \cup {bo}
    BY <1>1, ReadIs
  <2>2. CASE f.lines # << >> \/ f.tail # << >>
    <3>1. Range(Read(f, bo)) = Range(f.lines) \cup Range(f.tail)
      BY <1>1, <2>2, ReadIs
    <3> QED BY <2>1, <3>1
  <2>3. CASE f.lines = << >> /\ f.tail = << >>
    <3>1. Range(f.lines) \cup Range(f.tail) = {}
      BY <1>1, <2>3, ReadIs
    <3> QED BY <2>1, <3>1
  <2> QED BY <2>1, <2>2, <2>3
<1>3. /\ In(f) \subseteq Range(f.lines) \cup Range(f.tail)
      /\ f.there => In(f) = Range(f.lines) \cup Range(f.tail)
  BY DEF In
<1> QED BY <1>2, <1>3 DEF f

\* What a scan finds is an increasing list of sane sectors.
LEMMA BehindIs ==
  ASSUME TypeOK, NEW new \in Behind
  PROVE  /\ \E S \in SUBSET Sane : new = Sorted(S)
         /\ new \in Seq(D) /\ Range(new) \subseteq Sane
         /\ Resumed = << >> => new = Sorted(Sane)
         /\ Resumed # << >> /\ Last(Resumed) # Junk =>
              new = Sorted({x \in Sane : x > Last(Resumed)})
<1>1. /\ \E S \in SUBSET Sane : new = Sorted(S)
      /\ Resumed = << >> => new = Sorted(Sane)
      /\ Resumed # << >> /\ Last(Resumed) # Junk =>
           new = Sorted({x \in Sane : x > Last(Resumed)})
  <2>1. CASE Resumed = << >>  BY <2>1 DEF Behind
  <2>2. CASE Resumed # << >> /\ Last(Resumed) = Junk
    <3>1. PICK n \in Sane : new = Sorted({x \in Sane : x > n})
      BY <2>2 DEF Behind
    <3> QED BY <3>1, <2>2
  <2>3. CASE Resumed # << >> /\ Last(Resumed) # Junk
    <3>1. new = Sorted({x \in Sane : x > Last(Resumed)})
      BY <2>3 DEF Behind
    <3> QED BY <3>1, <2>3
  <2> QED BY <2>1, <2>2, <2>3
<1>2. PICK S \in SUBSET Sane : new = Sorted(S)  BY <1>1
<1>3. S \in SUBSET Nat /\ IsFiniteSet(S) /\ Sane \subseteq D
  BY DiskOK DEF TypeOK, D
<1>4. new \in Seq(S) /\ Range(new) = S
  BY <1>2, <1>3, SortedIs
<1>5. new \in Seq(D)
  <2>1. S \subseteq D  BY <1>3
  <2> QED BY <2>1, <1>4
<1> QED BY <1>1, <1>4, <1>5

LEMMA ResumedIs ==
  ASSUME TypeOK
  PROVE  /\ Resumed \in Seq(D)
         /\ ~ Scanned.there => Resumed = << >>
         /\ Scanned.there => /\ Resumed = Read(Scanned, Junk) /\ Resumed # << >>
                             /\ Last(Resumed) \in Range(Resumed)
<1>1. Junk \in D /\ Scanned.lines \in Seq(D) /\ Scanned.tail \in Seq(D)
  BY DiskOK, FilesOK DEF TypeOK, D, Scanned, FileNames
<1>2. /\ Read(Scanned, Junk) \in Seq(D) /\ Read(Scanned, Junk) # << >>
      /\ Last(Read(Scanned, Junk)) \in Range(Read(Scanned, Junk))
  BY <1>1, ReadIs
<1> QED BY <1>2 DEF Resumed, Scanned

LEMMA NewFile ==
  ASSUME TypeOK, NEW n \in FileNames, NEW f \in LogType,
         files' = [files EXCEPT ![n] = f]
  PROVE  /\ files' \in [FileNames -> LogType]
         /\ files'[n] = f /\ \A m \in FileNames \ {n} : files'[m] = files[m]
BY DEF TypeOK, LogType, D

LEMMA WrittenIs ==
  ASSUME NEW s \in Seq(D), NEW t \in Seq(D)
  PROVE  File(s, t) \in LogType /\ File(s, t).there = TRUE
         /\ File(s, t).lines = s /\ File(s, t).tail = t
BY DEF File, LogType

LEMMA LoadedIs ==
  ASSUME TypeOK, Load
  PROVE  /\ Newest \in StageFiles /\ files[Newest].there
         /\ inodes' = Read(files[Newest], Junk) /\ inodes' \in Seq(D) /\ inodes' # << >>
         /\ Last(inodes') \in Range(inodes') /\ Last(inodes') \in D
         /\ invalid' \in Seq(D)
         /\ invalid' = IF files["invalid"].there THEN Read(files["invalid"], Last(inodes'))
                                                 ELSE << >>
<1>1. Newest \in StageFiles /\ files[Newest].there
  BY NewestIs, NewestFirst DEF Load
<1>2. Junk \in D /\ Newest \in FileNames
  BY <1>1, DiskOK DEF TypeOK, D, StageFiles, FileNames
<1>3. inodes' = Read(files[Newest], Junk)
  BY DEF Load
<1>4. /\ inodes' \in Seq(D) /\ inodes' # << >>
      /\ Last(inodes') \in Range(inodes') /\ Last(inodes') \in D
  BY <1>2, <1>3, FilesOK, ReadIs, SMTT(30)
<1>5. invalid' = IF files["invalid"].there THEN Read(files["invalid"], Last(inodes'))
                                           ELSE << >>
  <2> DEFINE last == Last(inodes')
  <2>1. invalid' = LoadInvalid(last)  BY DEF Load
  <2> HIDE DEF last
  <2>2. invalid' = IF files["invalid"].there THEN Read(files["invalid"], last) ELSE << >>
    BY <2>1 DEF LoadInvalid
  <2> QED BY <2>2 DEF last
<1>6. invalid' \in Seq(D)
  <2>1. Read(files["invalid"], Last(inodes')) \in Seq(D)
    BY <1>4, FilesOK, ReadIs DEF FileNames
  <2> QED BY <2>1, <1>5
<1> QED BY <1>1, <1>3, <1>4, <1>5, <1>6

\* sed leaves a file a file, without the record.
LEMMA StripIs ==
  ASSUME TypeOK, NEW n \in FileNames, NEW o
  PROVE  /\ Strip(n, o) \in LogType /\ Strip(n, o).there = files[n].there
         /\ Strip(n, o).lines = Without(files[n].lines, o)
         /\ Strip(n, o).tail = Without(files[n].tail, o)
         /\ In(Strip(n, o)) = In(files[n]) \ {o}
<1> DEFINE f == files[n]
<1>1. f \in LogType /\ f.lines \in Seq(D) /\ f.tail \in Seq(D)  BY FilesOK
<1>2. /\ Strip(n, o) = [f EXCEPT !.lines = Without(@, o), !.tail = Without(@, o)]
  BY DEF Strip
<1>3. /\ Without(f.lines, o) \in Seq(D) /\ Range(Without(f.lines, o)) = Range(f.lines) \ {o}
      /\ Without(f.tail, o) \in Seq(D) /\ Range(Without(f.tail, o)) = Range(f.tail) \ {o}
  BY <1>1, WithoutIs
<1> HIDE DEF f
<1>4. /\ Strip(n, o) \in LogType /\ Strip(n, o).there = f.there
      /\ Strip(n, o).lines = Without(f.lines, o) /\ Strip(n, o).tail = Without(f.tail, o)
  BY <1>1, <1>2, <1>3 DEF LogType
<1>5. In(Strip(n, o)) = In(f) \ {o}
  BY <1>3, <1>4 DEF In
<1> QED BY <1>4, <1>5 DEF f

\* A filter keeps some of the vector's inodes.
LEMMA KeepIs ==
  ASSUME NEW v, NEW s \in Stages \ {"scan", "end"}
  PROVE  Keep(s, v) \subseteq DOMAIN v /\ (s = "dupes" => Keep(s, v) = KeepLatest(disk, v))
<1>1. CASE s = "stamps"   BY <1>1 DEF Keep, KeepStamps
<1>2. CASE s = "extents"  BY <1>2 DEF Keep, KeepExtents
<1>3. CASE s = "unalloc"  BY <1>3 DEF Keep, KeepAllocated
<1>4. CASE s = "dupes"    BY <1>4 DEF Keep, KeepLatest
<1> QED BY <1>1, <1>2, <1>3, <1>4 DEF Stages

LEMMA TypesStep ==
  ASSUME TypeOK, Placed, Next
  PROVE  TypeOK'
<1>1. disk' = disk /\ D' = D /\ Sane' = Sane
  BY DEF Next, Step, LaunchScan, Load, DoScan, Mark, Sweep, EndSweep, SaveOpen,
         SaveWrite, InvOpen, InvWrite, ScanKilled, ScanExits, Crash, RmLogged, D, Sane
<1> SUFFICES /\ files' \in [FileNames -> LogType]
             /\ at' \in {"down", "work", "sweep", "open", "write", "invopen", "invwrite", "done"}
             /\ stage' \in Stages
             /\ inodes' \in Seq(D) /\ invalid' \in Seq(D) /\ kept' \in Seq(D)
             /\ keep' \subseteq Nat /\ k' \in Nat
             /\ crashes' \in 0..MaxCrashes
             /\ removed' \subseteq Sane /\ Cardinality(removed') <= MaxRemovals
             /\ mishaps' \subseteq {"resumed", "reloaded", "cut", "gap", "cutinvalid",
                                    "junk", "removedlast"}
  BY <1>1 DEF TypeOK, LogType, D
<1>2. /\ files \in [FileNames -> LogType]
      /\ at \in {"down", "work", "sweep", "open", "write", "invopen", "invwrite", "done"}
      /\ stage \in Stages
      /\ inodes \in Seq(D) /\ invalid \in Seq(D) /\ kept \in Seq(D)
      /\ keep \subseteq Nat /\ k \in Nat
      /\ crashes \in 0..MaxCrashes
      /\ removed \subseteq Sane /\ Cardinality(removed) <= MaxRemovals
      /\ mishaps \subseteq {"resumed", "reloaded", "cut", "gap", "cutinvalid",
                            "junk", "removedlast"}
  BY DEF TypeOK, LogType, D
<1>3. << >> \in Seq(D) /\ MaxCrashes \in Nat /\ MaxRemovals \in Nat
  BY PostAssumption
<1>4. After(stage) \in Stages  BY <1>2, LabelsInOrder
<1>5. CASE LaunchScan  BY <1>2, <1>3, <1>5 DEF LaunchScan, Stages
<1>6. CASE Load
  <2>1. inodes' \in Seq(D) /\ invalid' \in Seq(D)  BY <1>6, LoadedIs
  <2>2. stage' \in Stages
    <3>1. Newest \in Stages
      BY <1>6, LoadedIs DEF StageFiles, Stages
    <3> QED BY <3>1, <1>6, LabelsInOrder DEF Load, StageOf
  <2>3. at' \in {"down", "work", "done"}  BY <1>6 DEF Load
  <2>4. mishaps' \subseteq mishaps \cup {"junk", "reloaded"}  BY <1>6 DEF Load
  <2> QED BY <1>2, <1>3, <1>6, <2>1, <2>2, <2>3, <2>4 DEF Load
<1>7. CASE DoScan
  <2>1. PICK new \in Behind :
             /\ inodes' = Resumed \o new
             /\ files' = [files EXCEPT !["inoscan"] = File(@.lines \o new, << >>)]
    BY <1>7 DEF DoScan
  <2>2. new \in Seq(D) /\ Resumed \in Seq(D) /\ Scanned.lines \in Seq(D)
    BY BehindIs, ResumedIs, FilesOK DEF FileNames, Scanned
  <2>3. inodes' \in Seq(D) /\ File(Scanned.lines \o new, << >>) \in LogType
    BY <2>1, <2>2, <1>3, JoinedIs, WrittenIs
  <2>4. files' \in [FileNames -> LogType]
    BY <2>1, <2>3, NewFile DEF Scanned, FileNames
  <2>5. mishaps' \subseteq mishaps \cup {"junk", "resumed"}
    BY <1>7 DEF DoScan, ScanMishaps
  <2> QED BY <1>2, <1>7, <2>3, <2>4, <2>5 DEF DoScan
<1>8. CASE ScanKilled
  <2>1. PICK new \in Behind : \E n \in 0..Len(new) :
             files' = [files EXCEPT !["inoscan"] = File(@.lines \o SubSeq(new, 1, n), << >>)]
    BY <1>8 DEF ScanKilled
  <2>2. PICK n \in 0..Len(new) :
             files' = [files EXCEPT !["inoscan"] = File(@.lines \o SubSeq(new, 1, n), << >>)]
    BY <2>1
  <2>3. new \in Seq(D) /\ SubSeq(new, 1, n) \in Seq(D) /\ Scanned.lines \in Seq(D)
    <3>1. new \in Seq(D)  BY BehindIs
    <3>2. SubSeq(new, 1, n) \in Seq(D)  BY <3>1
    <3>3. Scanned.lines \in Seq(D)  BY FilesOK DEF FileNames, Scanned
    <3> QED BY <3>1, <3>2, <3>3
  <2>4. File(Scanned.lines \o SubSeq(new, 1, n), << >>) \in LogType
    BY <2>3, <1>3, JoinedIs, WrittenIs
  <2>5. files' \in [FileNames -> LogType]
    BY <2>2, <2>4, NewFile DEF Scanned, FileNames
  <2>6. mishaps' \subseteq mishaps \cup {"junk", "resumed"}
    BY <1>8 DEF ScanKilled, ScanMishaps
  <2>7. crashes' \in 0..MaxCrashes  BY <1>2, <1>3, <1>8 DEF ScanKilled
  <2> QED BY <1>2, <1>8, <2>5, <2>6, <2>7 DEF ScanKilled
<1>16. CASE ScanExits
  <2>1. files' \in [FileNames -> LogType]
    <3>1. CASE UNCHANGED files  BY <1>2, <3>1
    <3>2. CASE \E new \in Behind :
                 files' = [files EXCEPT !["inoscan"] = File(@.lines \o new, << >>)]
      <4>1. PICK new \in Behind :
                 files' = [files EXCEPT !["inoscan"] = File(@.lines \o new, << >>)]
        BY <3>2
      <4>2. new \in Seq(D)  BY BehindIs
      <4>3. Scanned.lines \in Seq(D)  BY FilesOK DEF FileNames, Scanned
      <4>4. File(Scanned.lines \o new, << >>) \in LogType
        BY <4>2, <4>3, <1>3, JoinedIs, WrittenIs
      <4> QED BY <4>1, <4>4, NewFile DEF Scanned, FileNames
    <3> QED BY <1>16, <3>1, <3>2 DEF ScanExits
  <2>2. mishaps' \subseteq mishaps \cup {"junk", "resumed"}
    BY <1>16 DEF ScanExits, ScanMishaps
  <2> QED BY <1>2, <1>16, <2>1, <2>2 DEF ScanExits
<1>9. CASE Mark
  <2>1. keep' \subseteq Nat
    <3>1. DOMAIN inodes \subseteq Nat /\ keep' = Keep(stage, inodes)
      BY <1>2, <1>9 DEF Mark
    <3>2. stage \in Stages \ {"scan", "end"}
      BY <1>2, <1>9 DEF Mark, Placed
    <3>3. Keep(stage, inodes) \subseteq DOMAIN inodes  BY <3>2, KeepIs
    <3> QED BY <3>1, <3>3
  <2> QED BY <1>2, <1>3, <1>9, <2>1 DEF Mark
<1>10. CASE Sweep
  <2>1. k \in DOMAIN inodes /\ inodes[k] \in D
    BY <1>2, <1>10 DEF Sweep, Placed
  <2>2. Append(kept, inodes[k]) \in Seq(D) /\ Append(invalid, inodes[k]) \in Seq(D)
    BY <1>2, <2>1
  <2>3. kept' \in Seq(D) /\ invalid' \in Seq(D)
    BY <1>2, <1>10, <2>2 DEF Sweep, Invalidate
  <2>4. k' \in Nat  BY <1>2, <1>10 DEF Sweep
  <2> QED BY <1>2, <1>10, <2>3, <2>4 DEF Sweep
<1>11. CASE EndSweep
  BY <1>2, <1>3, <1>11 DEF EndSweep, Stages
<1>12. ASSUME NEW n \in FileNames, NEW f \in LogType, files' = [files EXCEPT ![n] = f]
       PROVE  files' \in [FileNames -> LogType]
  BY <1>12, NewFile
<1>13. CASE SaveOpen \/ SaveWrite \/ InvOpen \/ InvWrite
  <2>1. /\ File(<< >>, << >>) \in LogType /\ File(inodes, << >>) \in LogType
        /\ File(invalid, << >>) \in LogType
    BY <1>2, <1>3, WrittenIs
  <2>2. files' \in [FileNames -> LogType]
    <3>1. \/ files' = [files EXCEPT ![stage] = File(<< >>, << >>)]
          \/ files' = [files EXCEPT ![stage] = File(inodes, << >>)]
          \/ files' = [files EXCEPT !["invalid"] = File(<< >>, << >>)]
          \/ files' = [files EXCEPT !["invalid"] = File(invalid, << >>)]
      BY <1>13 DEF SaveOpen, SaveWrite, InvOpen, InvWrite, InvWritten
    <3> QED BY <3>1, <2>1, <1>2
  <2>3. at' \in {"down", "work", "sweep", "open", "write", "invopen", "invwrite", "done"}
    BY <1>13 DEF SaveOpen, SaveWrite, InvOpen, InvWrite, Advance
  <2>4. stage' \in Stages
    BY <1>2, <1>4, <1>13 DEF SaveOpen, SaveWrite, InvOpen, InvWrite, Advance
  <2> QED BY <1>2, <1>13, <2>2, <2>3, <2>4 DEF SaveOpen, SaveWrite, InvOpen, InvWrite
<1>14. CASE Crash
  <2>1. files' \in [FileNames -> LogType]
    <3>1. \/ files' = files
          \/ \E f \in Beginnings(inodes) : files' = [files EXCEPT ![stage] = f]
          \/ \E f \in Beginnings(invalid) : files' = [files EXCEPT !["invalid"] = f]
      BY <1>14 DEF Crash
    <3>2. Junk \in D  BY DiskOK DEF TypeOK, D
    <3>3. Beginnings(inodes) \subseteq LogType /\ Beginnings(invalid) \subseteq LogType
      BY <1>2, <3>2, BeginningIs DEF LogType
    <3> QED BY <3>1, <3>3, <1>2
  <2>2. mishaps' \subseteq mishaps \cup {"gap", "cut", "cutinvalid"}
    BY <1>14 DEF Crash
  <2>3. crashes' \in 0..MaxCrashes  BY <1>2, <1>3, <1>14 DEF Crash
  <2> QED BY <1>2, <1>14, <2>1, <2>2, <2>3 DEF Crash
<1>15. CASE \E o \in Sane : RmLogged(o)
  <2>0. PICK o \in Sane : RmLogged(o)  BY <1>15
  <2>1. files' = [n \in FileNames |-> Strip(n, o)]  BY <2>0 DEF RmLogged
  <2>2. files' \in [FileNames -> LogType]
    BY <2>1, StripIs
  <2>3. removed' = removed \cup {o}  BY <2>0 DEF RmLogged
  <2>4. IsFiniteSet(removed)  BY <1>2, DiskOK DEF TypeOK
  <2>5. Cardinality(removed) \in Nat /\ Cardinality(removed) < MaxRemovals
    BY <2>0, <2>4, FS_CardinalityType DEF RmLogged
  <2>6. Cardinality(removed') <= MaxRemovals
    <3>1. Cardinality(removed \cup {o}) =
            IF o \in removed THEN Cardinality(removed) ELSE Cardinality(removed) + 1
      BY <2>4, FS_AddElement
    <3>2. Cardinality(removed \cup {o}) <= MaxRemovals
      BY <3>1, <2>5, <1>3
    <3> QED BY <3>2, <2>3, Zenon
  <2>7. mishaps' \subseteq mishaps \cup {"removedlast"}  BY <2>0 DEF RmLogged
  <2>8. UNCHANGED << at, stage, inodes, invalid, keep, k, kept, crashes >>
    BY <2>0 DEF RmLogged
  <2> QED BY <1>2, <2>2, <2>3, <2>6, <2>7, <2>8
<1> QED
  BY <1>5, <1>6, <1>7, <1>8, <1>9, <1>10, <1>11, <1>13, <1>14, <1>15, <1>16 DEF Next, Step

----------------------------------------------------------------------------
(* The files that are there follow the place                               *)

\* The stage files that are there lie before the stage.
NoneFrom(fs, n)   == \A f \in StageFiles : Rank(f) >= n => ~ fs[f].there
NoneBehind(fs, n) == \A f \in StageFiles : Rank(f) > n => ~ fs[f].there

LEMMA PlacedStep ==
  ASSUME TypeOK, Placed, Next
  PROVE  Placed'
<1>1. /\ k # 0 /\ k \in Nat /\ stage \in Stages
      /\ at = "work"  => stage # "end"
      /\ at = "sweep" => stage \notin {"scan", "end"}
      /\ at \in {"open"} \cup Saving => stage \in StageFiles
      /\ at \in {"work", "sweep", "open"} => NoneFrom(files, Rank(stage))
      /\ at \in Saving => files[stage].there /\ NoneBehind(files, Rank(stage))
  BY DEF Placed, TypeOK, NoneFrom, NoneBehind
<1>2. at' = "work" /\ stage' = "scan" => invalid' = << >>
  <2> SUFFICES ASSUME at' = "work", stage' = "scan" PROVE invalid' = << >>  OBVIOUS
  <2>1. \A s \in Stages : After(s) # "scan"  BY DEF Stages, After
  <2>2. ~ Load
    <3> SUFFICES ASSUME Load PROVE FALSE  OBVIOUS
    <3>1. Newest \in Stages  BY LoadedIs DEF StageFiles, Stages
    <3> QED BY <3>1, <2>1 DEF Load, StageOf
  <2>3. ~ Advance  BY <2>1 DEF Advance, TypeOK
  <2> QED
    BY <2>2, <2>3 DEF Next, Step, LaunchScan, DoScan, Mark, Sweep, EndSweep, SaveOpen,
         SaveWrite, InvOpen, InvWrite, ScanKilled, ScanExits, Crash, RmLogged
<1> SUFFICES /\ k' # 0
             /\ at' = "work"  => stage' # "end"
             /\ at' = "sweep" => stage' \notin {"scan", "end"}
             /\ at' \in {"open"} \cup Saving => stage' \in StageFiles
             /\ at' \in {"work", "sweep", "open"} => NoneFrom(files', Rank(stage'))
             /\ at' \in Saving => files'[stage'].there /\ NoneBehind(files', Rank(stage'))
  BY <1>2 DEF Placed, NoneFrom, NoneBehind
<1>3. \A s \in Stages : \A fs : NoneBehind(fs, Rank(s)) /\ s # "end" => NoneFrom(fs, Rank(After(s)))
  BY DEF Stages, StageFiles, After, Rank, NoneFrom, NoneBehind
<1>4. \A s \in Stages : \A fs : NoneFrom(fs, Rank(s)) => NoneBehind(fs, Rank(s))
  BY DEF Stages, StageFiles, Rank, NoneFrom, NoneBehind
<1>5. CASE LaunchScan
  <2>1. NoneFrom(files, Rank("scan"))
    BY <1>5, NewestIs, NewestFirst DEF LaunchScan, NoneFrom
  <2> QED BY <1>5, <2>1 DEF LaunchScan, Saving
<1>6. CASE Load
  <2>1. /\ at' \in {"down", "done", "work"} /\ (at' = "work" => stage' # "end")
        /\ stage' = After(Newest) /\ files' = files /\ k' = 1
    BY <1>6 DEF Load, StageOf
  <2>2. Newest \in StageFiles /\ NoneBehind(files, Rank(Newest))
    BY <1>6, NewestIs, NewestFirst DEF Load, NoneBehind
  <2>3. NoneFrom(files', Rank(stage'))
    BY <2>1, <2>2, <1>3, LabelsInOrder, <1>1
  <2> QED BY <2>1, <2>3 DEF Saving
<1>7. CASE DoScan
  <2>1. /\ at' = "open" /\ stage' = stage /\ stage = "scan" /\ at = "work" /\ k' = k
        /\ \E f : files' = [files EXCEPT !["inoscan"] = f]
    BY <1>7 DEF DoScan
  <2>2. \A f \in StageFiles : files'[f] = files[f]
    BY <2>1 DEF StageFiles, TypeOK, FileNames
  <2> QED BY <1>1, <2>1, <2>2 DEF StageFiles, NoneFrom, Saving
<1>8. CASE Mark
  BY <1>1, <1>8 DEF Mark, Saving
<1>9. CASE Sweep
  <2>1. k' # 0  BY <1>1, <1>9 DEF Sweep
  <2> QED BY <1>1, <1>9, <2>1 DEF Sweep, Saving
<1>10. CASE EndSweep
  <2>1. at = "sweep" /\ files' = files /\ k' = 1 /\ NoneFrom(files, Rank(stage))
    BY <1>1, <1>10 DEF EndSweep
  <2>2. CASE stage = "stamps"
    <3>1. at' = "work" /\ stage' = "extents"  BY <1>10, <2>2 DEF EndSweep
    <3>2. NoneFrom(files, Rank("extents"))
      BY <2>1, <2>2, <1>3, <1>4 DEF Stages, After
    <3> QED BY <2>1, <3>1, <3>2 DEF Saving
  <2>3. CASE stage # "stamps"
    <3>1. at' = "open" /\ stage' = stage  BY <1>10, <2>3 DEF EndSweep
    <3>2. stage \in StageFiles  BY <1>1, <2>1, <2>3 DEF Stages, StageFiles
    <3> QED BY <2>1, <3>1, <3>2 DEF Saving
  <2> QED BY <2>2, <2>3
<1>11. CASE SaveOpen
  <2>1. /\ at = "open" /\ at' = "write" /\ stage' = stage /\ k' = k
        /\ files' = [files EXCEPT ![stage] = File(<< >>, << >>)]
    BY <1>11 DEF SaveOpen
  <2>2. stage \in StageFiles /\ stage \in FileNames /\ NoneBehind(files, Rank(stage))
    BY <1>1, <1>4, <2>1, LabelsInOrder
  <2>3. files'[stage].there /\ \A f \in StageFiles \ {stage} : files'[f] = files[f]
    BY <2>1, <2>2, LabelsInOrder, <1>1 DEF TypeOK, File
  <2>4. NoneBehind(files', Rank(stage))
    BY <2>2, <2>3, LabelsInOrder, <1>1 DEF NoneBehind
  <2> QED BY <1>1, <2>1, <2>2, <2>3, <2>4 DEF Saving
<1>12. ASSUME at \in Saving, files'[stage].there, NoneBehind(files', Rank(stage)), k' = k,
              \/ at' \in Saving /\ stage' = stage
              \/ Advance
       PROVE  /\ k' # 0
              /\ at' = "work"  => stage' # "end"
              /\ at' = "sweep" => stage' \notin {"scan", "end"}
              /\ at' \in {"open"} \cup Saving => stage' \in StageFiles
              /\ at' \in {"work", "sweep", "open"} => NoneFrom(files', Rank(stage'))
              /\ at' \in Saving => files'[stage'].there /\ NoneBehind(files', Rank(stage'))
  <2>1. CASE at' \in Saving /\ stage' = stage
    BY <1>1, <1>12, <2>1 DEF Saving
  <2>2. CASE Advance
    <3>1. at' \in {"work", "done"} /\ stage' = After(stage) /\ (at' = "work" => stage' # "end")
      BY <2>2 DEF Advance
    <3>2. stage # "end"  BY <1>1, <1>12 DEF StageFiles
    <3>3. NoneFrom(files', Rank(stage'))  BY <1>1, <1>3, <1>12, <3>1, <3>2
    <3> QED BY <1>1, <1>12, <3>1, <3>3 DEF Saving
  <2> QED BY <1>12, <2>1, <2>2
<1>13. CASE SaveWrite \/ InvOpen \/ InvWrite
  <2>1. /\ at \in Saving /\ k' = k
        /\ \/ at' \in Saving /\ stage' = stage
           \/ Advance
    BY <1>13 DEF SaveWrite, InvOpen, InvWrite, Saving
  <2>2. \/ files' = [files EXCEPT ![stage] = File(inodes, << >>)]
        \/ \E f : files' = [files EXCEPT !["invalid"] = f]
    BY <1>13 DEF SaveWrite, InvOpen, InvWrite
  <2>3. stage \in StageFiles /\ files[stage].there /\ NoneBehind(files, Rank(stage))
    BY <1>1, <2>1
  <2>4. files'[stage].there /\ \A f \in StageFiles \ {stage} : files'[f] = files[f]
    <3>1. "invalid" \notin StageFiles /\ StageFiles \subseteq FileNames
      BY DEF StageFiles, FileNames
    <3>2. DOMAIN files = FileNames  BY DEF TypeOK
    <3>3. CASE files' = [files EXCEPT ![stage] = File(inodes, << >>)]
      BY <2>3, <3>1, <3>2, <3>3 DEF File
    <3>4. CASE \E f : files' = [files EXCEPT !["invalid"] = f]
      BY <2>3, <3>1, <3>2, <3>4
    <3> QED BY <2>2, <3>3, <3>4
  <2>5. NoneBehind(files', Rank(stage))
    BY <2>3, <2>4, LabelsInOrder, <1>1 DEF NoneBehind
  <2> QED BY <1>12, <2>1, <2>4, <2>5
<1>14. CASE ScanKilled \/ ScanExits
  <2>1. at' = "down" /\ k' = k  BY <1>14 DEF ScanKilled, ScanExits
  <2> QED BY <1>1, <2>1 DEF Saving
<1>15. CASE Crash
  <2>1. at' = "down" /\ k' = k  BY <1>15 DEF Crash
  <2> QED BY <1>1, <2>1 DEF Saving
<1>16. CASE \E o \in Sane : RmLogged(o)
  <2>1. at' = "down" /\ k' = k  BY <1>16 DEF RmLogged
  <2> QED BY <1>1, <2>1 DEF Saving
<1> QED
  BY <1>5, <1>6, <1>7, <1>8, <1>9, <1>10, <1>11, <1>13, <1>14, <1>15, <1>16 DEF Next, Step

----------------------------------------------------------------------------
(* The log of the surface scan                                             *)

\* Unless a damaged record is read, what is resumed from is the log, and the
\* scan goes on behind its last record.
LEMMA ResumedBehind ==
  ASSUME TypeOK, LogOK, Junk \notin Range(Resumed), NEW new \in Behind
  PROVE  /\ new = Sorted(Rest(Scanned.lines, Sane))
         /\ Range(Resumed) = Range(Scanned.lines)
<1>1. Junk \in D /\ Scanned.lines \in Seq(D) /\ Scanned.tail = << >> /\ Scanned.tail \in Seq(D)
  BY DiskOK, FilesOK DEF TypeOK, D, Scanned, FileNames, LogOK
<1>2. CASE ~ Scanned.there
  <2>1. Scanned.lines = << >> /\ Resumed = << >>  BY <1>2, ResumedIs DEF LogOK
  <2>2. new = Sorted(Sane)  BY <2>1, BehindIs
  <2>3. Rest(Scanned.lines, Sane) = Sane  BY <2>1 DEF Rest
  <2> QED BY <2>1, <2>2, <2>3
<1>3. CASE Scanned.there
  <2>1. Resumed = Read(Scanned, Junk) /\ Resumed # << >> /\ Last(Resumed) # Junk
    BY <1>3, ResumedIs
  <2>2. Scanned.lines # << >>
    BY <1>1, <2>1, ReadIs
  <2>3. /\ Range(Resumed) = Range(Scanned.lines) \cup Range(Scanned.tail)
        /\ Last(Resumed) = Last(Scanned.lines)
    BY <1>1, <2>1, <2>2, ReadIs
  <2>4. Range(Scanned.tail) = {}  BY <1>1 DEF Range
  <2>5. new = Sorted({x \in Sane : x > Last(Scanned.lines)})
    BY <2>1, <2>3, BehindIs
  <2>6. Rest(Scanned.lines, Sane) = {x \in Sane : x > Last(Scanned.lines)}
    BY <2>2 DEF Rest
  <2> QED BY <2>3, <2>4, <2>5, <2>6
<1> QED BY <1>2, <1>3

LEMMA ElementsAre ==
  ASSUME NEW E, NEW R \in SUBSET E, NEW s \in Seq(R)
  PROVE  /\ s \in Seq(E) /\ Len(s) \in Nat /\ DOMAIN s = 1..Len(s)
         /\ \A m \in 1..Len(s) : s[m] \in R /\ s[m] \in E
         /\ \A x \in Range(s) : x \in R /\ x \in E
         /\ s # << >> => Last(s) \in Range(s) /\ Last(s) \in R /\ Last(s) \in E
<1>1. Len(s) \in Nat /\ DOMAIN s = 1..Len(s)  OBVIOUS
<1>2. \A m \in 1..Len(s) : s[m] \in R /\ s[m] \in E  OBVIOUS
<1>3. s \in Seq(E)  BY <1>1, <1>2
<1>4. s # << >> => Len(s) \in DOMAIN s  OBVIOUS
<1> QED BY <1>1, <1>2, <1>3, <1>4 DEF Range, Last


\* The first n of the numbers behind ls, in their order, appended to ls.
Grown(ls, new, n) == ls \o SubSeq(new, 1, n)

LEMMA JoinedAt ==
  ASSUME NEW E, NEW s \in Seq(E), NEW t \in Seq(E), NEW a \in DOMAIN (s \o t)
  PROVE  \/ a \in 1..Len(s) /\ (s \o t)[a] = s[a]
         \/ a - Len(s) \in 1..Len(t) /\ (s \o t)[a] = t[a - Len(s)]
<1>1. Len(s) \in Nat /\ Len(t) \in Nat /\ DOMAIN (s \o t) = 1..(Len(s) + Len(t))
  OBVIOUS
<1>2. a \in 1..(Len(s) + Len(t))  BY <1>1
<1> QED BY <1>1, <1>2

LEMMA IncreasingTop ==
  ASSUME NEW E \in SUBSET Nat, NEW s \in Seq(E), Increasing(s)
  PROVE  TopIsLast(s)
<1>1. /\ Len(s) \in Nat /\ DOMAIN s = 1..Len(s) /\ \A m \in 1..Len(s) : s[m] \in E
  BY ElementsAre
<1>2. ASSUME NEW m \in 1..Len(s)  PROVE s[m] <= s[Len(s)]
  <2>1. m = Len(s) \/ (m < Len(s) /\ Len(s) \in 1..Len(s))
    <3> DEFINE N == Len(s)
    <3>1. N \in Nat /\ m \in 1..N  BY <1>1
    <3> HIDE DEF N
    <3>2. m = N \/ (m < N /\ N \in 1..N)  BY <3>1
    <3> QED BY <3>2 DEF N
  <2>2. s[m] \in Nat  BY <1>1
  <2>3. m < Len(s) /\ Len(s) \in 1..Len(s) => s[m] < s[Len(s)] /\ s[Len(s)] \in Nat
    BY <1>1 DEF Increasing
  <2> QED BY <2>1, <2>2, <2>3
<1> QED BY <1>1, <1>2 DEF TopIsLast, Range, Last

LEMMA ListGrows ==
  ASSUME NEW E \in SUBSET Nat, NEW S \in SUBSET Nat, NEW ls \in Seq(E), Increasing(ls),
         NEW new, new \in Seq(Rest(ls, S)), Rest(ls, S) \subseteq E,
         Range(new) = Rest(ls, S), Increasing(new), NEW n \in 0..Len(new)
  PROVE  /\ Increasing(Grown(ls, new, n)) /\ Grown(ls, new, n) \in Seq(E)
         /\ ls # << >> => Grown(ls, new, n) # << >> /\ Last(ls) <= Last(Grown(ls, new, n))
         /\ NoGap(ls, S) => NoGap(Grown(ls, new, n), S)
<1> DEFINE s == SubSeq(new, 1, n)  ls2 == Grown(ls, new, n)  R == Rest(ls, S)
<1>1. (\A x \in E : x \in Nat) /\ (\A x \in S : x \in Nat)  OBVIOUS
<1>2. /\ Len(new) \in Nat /\ DOMAIN new = 1..Len(new) /\ new \in Seq(E)
      /\ \A m \in 1..Len(new) : new[m] \in R /\ new[m] \in E
  BY ElementsAre
<1>3. /\ n \in Nat /\ n <= Len(new)
      /\ \A m \in 1..Len(new) : new[m] \in R /\ new[m] \in Nat
  <2>1. n \in Nat /\ n <= Len(new)  BY <1>2
  <2> HIDE DEF R
  <2> QED BY <2>1, <1>1, <1>2
<1>4. Len(s) = n /\ s \in Seq(E) /\ DOMAIN s = 1..n /\ \A m \in 1..n : s[m] = new[m]
  BY <1>2, <1>3
<1>5. /\ ls # << >> => Last(ls) \in Nat
      /\ \A x \in Range(ls) : x \in Nat
      /\ TopIsLast(ls)
  BY <1>1, ElementsAre, IncreasingTop
<1>6. /\ ls2 \in Seq(E) /\ Range(ls2) = Range(ls) \cup Range(s)
      /\ s # << >> => Last(ls2) = Last(s)
      /\ s = << >> => ls2 = ls
  <2>1. ls2 = ls \o s  BY DEF Grown
  <2> HIDE DEF s, ls2
  <2> QED BY <2>1, <1>4, JoinedIs
<1>7. ASSUME NEW a \in DOMAIN ls2
      PROVE  \/ a \in 1..Len(ls) /\ ls2[a] = ls[a]
             \/ a - Len(ls) \in 1..n /\ ls2[a] = new[a - Len(ls)]
  <2>1. ls2 = ls \o s  BY DEF Grown
  <2> HIDE DEF s, ls2
  <2>2. \/ a \in 1..Len(ls) /\ ls2[a] = ls[a]
        \/ a - Len(ls) \in 1..Len(s) /\ ls2[a] = s[a - Len(ls)]
    BY <2>1, <1>4, JoinedAt
  <2> QED BY <2>2, <1>4
<1> HIDE DEF s, ls2, R
<1>8. Range(<< >>) = {}  BY DEF Range
<1>9. Increasing(ls2)
  <2> SUFFICES ASSUME NEW a \in 1..Len(ls2), NEW b \in 1..Len(ls2), a < b
               PROVE  ls2[a] < ls2[b]
    BY DEF Increasing
  <2>1. a \in DOMAIN ls2 /\ b \in DOMAIN ls2 /\ a \in Nat /\ b \in Nat /\ Len(ls) \in Nat
    BY <1>6
  <2>2. CASE b \in 1..Len(ls)
    <3>1. a \in 1..Len(ls) /\ ~ (a - Len(ls) \in 1..n) /\ ~ (b - Len(ls) \in 1..n)
      BY <2>1, <2>2, <1>3
    <3>2. ls[a] < ls[b]  BY <2>2, <3>1 DEF Increasing
    <3> QED BY <3>1, <3>2, <2>1, <1>7
  <2>3. CASE b \notin 1..Len(ls)
    <3>1. b - Len(ls) \in 1..n /\ ls2[b] = new[b - Len(ls)]  BY <2>1, <2>3, <1>7
    <3>2. b - Len(ls) \in 1..Len(new)  BY <3>1, <1>2, <1>3
    <3>3. new[b - Len(ls)] \in R /\ new[b - Len(ls)] \in Nat  BY <3>2, <1>3
    <3>4. CASE a \in 1..Len(ls) /\ ls2[a] = ls[a]
      <4>1. ls # << >> /\ ls[a] \in Range(ls)  BY <3>4 DEF Range
      <4>2. ls[a] \in Nat /\ ls[a] <= Last(ls) /\ Last(ls) \in Nat
        BY <4>1, <1>5 DEF TopIsLast
      <4>3. new[b - Len(ls)] > Last(ls)  BY <3>3, <4>1 DEF R, Rest
      <4> QED BY <3>1, <3>3, <3>4, <4>2, <4>3
    <3>5. CASE a - Len(ls) \in 1..n /\ ls2[a] = new[a - Len(ls)]
      <4>1. a - Len(ls) \in 1..Len(new) /\ a - Len(ls) < b - Len(ls)
        BY <3>5, <2>1, <1>2, <1>3
      <4>2. new[a - Len(ls)] < new[b - Len(ls)]  BY <4>1, <3>2 DEF Increasing
      <4> QED BY <3>1, <3>5, <4>2
    <3> QED BY <3>4, <3>5, <2>1, <1>7
  <2> QED BY <2>2, <2>3
<1> SUFFICES /\ Increasing(ls2) /\ ls2 \in Seq(E)
             /\ ls # << >> => ls2 # << >> /\ Last(ls) <= Last(ls2)
             /\ NoGap(ls, S) => NoGap(ls2, S)
  BY DEF ls2
<1>10. CASE n = 0
  <2>1. s = << >>  BY <1>4, <1>10
  <2>2. ls2 = ls  BY <2>1, <1>6
  <2>3. ls # << >> => Last(ls) <= Last(ls)  BY <1>5
  <2> QED BY <2>2, <2>3, <1>6, <1>9, Zenon
<1>11. CASE n # 0
  <2>1. s # << >> /\ n \in 1..Len(new) /\ n \in 1..n  BY <1>2, <1>3, <1>4, <1>11
  <2>2. Last(ls2) = new[n]
    <3>1. Last(ls2) = Last(s)  BY <2>1, <1>6
    <3>2. Last(s) = s[n]  BY <1>4 DEF Last
    <3> QED BY <3>1, <3>2, <2>1, <1>4
  <2>3. new[n] \in R /\ new[n] \in Nat /\ new[n] \in Range(s)
    BY <2>1, <1>3, <1>4 DEF Range
  <2>4. ls # << >> => Last(ls) < new[n]
    BY <1>5, <2>3 DEF R, Rest
  <2>5. ASSUME NoGap(ls, S), NEW x \in S, x <= new[n]
        PROVE  x \in Range(ls2)
    <3>1. x \in Nat  BY <1>1
    <3>2. CASE ls # << >> /\ x <= Last(ls)
      BY <3>2, <2>5, <1>6 DEF NoGap
    <3>3. CASE ~ (ls # << >> /\ x <= Last(ls))
      <4>1. x \in R  BY <3>1, <3>3, <1>5 DEF R, Rest
      <4>2. PICK m \in 1..Len(new) : x = new[m]  BY <4>1, <1>2 DEF Range, R
      <4>3. m <= n
        <5> SUFFICES ASSUME n < m PROVE FALSE  BY <1>2, <1>3
        <5>1. new[n] < new[m]  BY <2>1 DEF Increasing
        <5> QED BY <5>1, <4>2, <2>3, <2>5, <3>1
      <4>4. m \in 1..n /\ s[m] = x  BY <4>2, <4>3, <1>2, <1>4
      <4> QED BY <4>4, <1>4, <1>6 DEF Range
    <3> QED BY <3>2, <3>3
  <2>6. ls2 # << >>  BY <1>8, <2>3, <1>6
  <2>7. ls # << >> => Last(ls) <= new[n]  BY <1>5, <2>3, <2>4
  <2> QED BY <1>6, <1>9, <2>2, <2>5, <2>6, <2>7 DEF NoGap
<1> QED BY <1>3, <1>10, <1>11

\* What a scan appends to the log.
LEMMA LogGrows ==
  ASSUME TypeOK, LogOK, NEW new, new = Sorted(Rest(Scanned.lines, Sane)), NEW n \in 0..Len(new),
         NEW ls, ls = Scanned.lines
  PROVE  /\ Range(new) = Rest(ls, Sane)
         /\ Increasing(Grown(ls, new, n)) /\ Grown(ls, new, n) \in Seq(D)
         /\ ls # << >> => Grown(ls, new, n) # << >> /\ Last(ls) <= Last(Grown(ls, new, n))
         /\ NoGap(ls, Sane) => NoGap(Grown(ls, new, n), Sane)
<1>1. /\ D \in SUBSET Nat /\ Sane \in SUBSET Nat /\ Rest(ls, Sane) \subseteq D
      /\ Rest(ls, Sane) \in SUBSET Nat /\ IsFiniteSet(Rest(ls, Sane))
  <2>1. Rest(ls, Sane) \in SUBSET Sane  BY DEF Rest
  <2> QED BY <2>1, DiskOK DEF D, TypeOK
<1>2. ls \in Seq(D) /\ Increasing(ls)
  BY FilesOK DEF Scanned, FileNames, LogOK
<1>3. new = Sorted(Rest(ls, Sane))  OBVIOUS
<1>4. /\ new \in Seq(Rest(ls, Sane)) /\ Range(new) = Rest(ls, Sane) /\ Increasing(new)
  BY <1>1, <1>3, SortedIs DEF Increasing
<1>5. PICK E \in SUBSET Nat : E = D  BY <1>1
<1>6. PICK S \in SUBSET Nat : S = Sane  BY <1>1
<1>7. /\ ls \in Seq(E) /\ new \in Seq(Rest(ls, S)) /\ Range(new) = Rest(ls, S)
      /\ Rest(ls, S) \subseteq E
  BY <1>1, <1>2, <1>4, <1>5, <1>6
<1>8. /\ Increasing(Grown(ls, new, n)) /\ Grown(ls, new, n) \in Seq(E)
      /\ ls # << >> => Grown(ls, new, n) # << >> /\ Last(ls) <= Last(Grown(ls, new, n))
      /\ NoGap(ls, S) => NoGap(Grown(ls, new, n), S)
  BY <1>2, <1>4, <1>7, ListGrows
<1> QED BY <1>4, <1>5, <1>6, <1>8

----------------------------------------------------------------------------
(* Every step keeps the invariant                                          *)

LEMMA WrittenStep ==
  ASSUME TypeOK, Placed, Written, Next
  PROVE  Written'
<1> SUFFICES ASSUME at' \in {"invopen", "invwrite"}
             PROVE  files'[stage'] = File(inodes', << >>)
  BY DEF Written
<1>1. \/ SaveWrite /\ at' = "invopen" /\ stage' = stage
      \/ InvOpen
  BY DEF Next, Step, LaunchScan, Load, DoScan, Mark, Sweep, EndSweep, SaveOpen,
         SaveWrite, InvOpen, InvWrite, ScanKilled, ScanExits, Crash, RmLogged, Advance
<1>2. stage \in StageFiles /\ stage \in FileNames /\ stage # "invalid"
  <2>1. at \in Saving  BY <1>1 DEF SaveWrite, InvOpen, Saving
  <2> QED BY <2>1 DEF Placed, StageFiles, FileNames
<1>3. DOMAIN files = FileNames  BY DEF TypeOK
<1>4. CASE SaveWrite /\ at' = "invopen" /\ stage' = stage
  BY <1>2, <1>3, <1>4 DEF SaveWrite
<1>5. CASE InvOpen
  BY <1>2, <1>3, <1>5 DEF InvOpen, Written
<1> QED BY <1>1, <1>4, <1>5

\* What went wrong stays on record.
LEMMA SoundBefore ==
  ASSUME Next
  PROVE  mishaps \subseteq mishaps' /\ (Sound' => Sound)
<1>1. mishaps \subseteq mishaps'
  <2>1. ASSUME NEW o \in Sane, RmLogged(o) PROVE mishaps \subseteq mishaps'
    BY <2>1 DEF RmLogged
  <2>2. CASE Crash  BY <2>2 DEF Crash
  <2>3. CASE ScanKilled \/ ScanExits \/ DoScan \/ Load
    BY <2>3 DEF ScanKilled, ScanExits, DoScan, Load
  <2>4. CASE LaunchScan \/ Mark \/ Sweep \/ EndSweep \/ SaveOpen \/ SaveWrite
             \/ InvOpen \/ InvWrite
    BY <2>4 DEF LaunchScan, Mark, Sweep, EndSweep, SaveOpen, SaveWrite, InvOpen, InvWrite
  <2> QED BY <2>1, <2>2, <2>3, <2>4 DEF Next, Step
<1> QED BY <1>1 DEF Sound

\* A scan, killed, given up or finished, appends the first of what it finds to
\* the log.
LEMMA Scanning ==
  ASSUME TypeOK, LogOK, DoScan \/ ScanKilled \/ ScanExits, Sound'
  PROVE  \E new : \E n \in 0..Len(new) :
           /\ new = Sorted(Rest(Scanned.lines, Sane)) /\ new \in Seq(D)
           /\ Range(Resumed) = Range(Scanned.lines)
           /\ files'["inoscan"] = File(Grown(Scanned.lines, new, n), << >>)
           /\ \A f \in FileNames \ {"inoscan"} : files'[f] = files[f]
           /\ DoScan => n = Len(new) /\ inodes' = Resumed \o new
<1>1. PICK new \in Behind : \E n \in 0..Len(new) :
        /\ files' = [files EXCEPT !["inoscan"] = File(Grown(Scanned.lines, new, n), << >>)]
        /\ DoScan => n = Len(new) /\ inodes' = Resumed \o new
  <2>1. CASE DoScan
    <3>1. PICK new \in Behind :
             /\ inodes' = Resumed \o new
             /\ files' = [files EXCEPT !["inoscan"] = File(@.lines \o new, << >>)]
      BY <2>1 DEF DoScan
    <3>2. new \in Seq(D)  BY BehindIs
    <3>3. Len(new) \in 0..Len(new) /\ SubSeq(new, 1, Len(new)) = new  BY <3>2
    <3>4. files' = [files EXCEPT !["inoscan"] = File(Grown(Scanned.lines, new, Len(new)), << >>)]
      BY <3>1, <3>3 DEF Grown, Scanned
    <3> QED BY <3>1, <3>3, <3>4
  <2>2. CASE ScanExits /\ ~ DoScan
    <3>1. Junk \notin Range(Resumed)
      BY <2>2 DEF ScanExits, ScanMishaps, Sound, Damage
    <3>2. PICK new \in Behind :
             files' = [files EXCEPT !["inoscan"] = File(@.lines \o new, << >>)]
      BY <2>2, <3>1 DEF ScanExits
    <3>3. new \in Seq(D)  BY BehindIs
    <3>4. Len(new) \in 0..Len(new) /\ SubSeq(new, 1, Len(new)) = new  BY <3>3
    <3>5. files' = [files EXCEPT !["inoscan"] = File(Grown(Scanned.lines, new, Len(new)), << >>)]
      BY <3>2, <3>4 DEF Grown, Scanned
    <3> QED BY <2>2, <3>4, <3>5
  <2>3. CASE ScanKilled /\ ~ DoScan
    <3>1. PICK new \in Behind : \E n \in 0..Len(new) :
             files' = [files EXCEPT !["inoscan"] = File(@.lines \o SubSeq(new, 1, n), << >>)]
      BY <2>3 DEF ScanKilled
    <3> QED BY <3>1, <2>3 DEF Grown, Scanned
  <2> QED BY <2>1, <2>2, <2>3
<1>2. PICK n \in 0..Len(new) :
        /\ files' = [files EXCEPT !["inoscan"] = File(Grown(Scanned.lines, new, n), << >>)]
        /\ DoScan => n = Len(new) /\ inodes' = Resumed \o new
  BY <1>1
<1>3. Junk \notin Range(Resumed)
  <2>1. mishaps' = mishaps \cup ScanMishaps  BY DEF DoScan, ScanKilled, ScanExits
  <2> QED BY <2>1 DEF ScanMishaps, Sound, Damage
<1>4. /\ new = Sorted(Rest(Scanned.lines, Sane)) /\ new \in Seq(D)
      /\ Range(Resumed) = Range(Scanned.lines)
  BY <1>3, ResumedBehind, BehindIs
<1>5. /\ files'["inoscan"] = File(Grown(Scanned.lines, new, n), << >>)
      /\ \A f \in FileNames \ {"inoscan"} : files'[f] = files[f]
  BY <1>2 DEF TypeOK, FileNames
<1> QED BY <1>2, <1>4, <1>5

\* The filters and the saves lose no inode and take none back.
LEMMA KnownStays ==
  ASSUME TypeOK, Placed,
         Mark \/ Sweep \/ EndSweep \/ SaveOpen \/ SaveWrite \/ InvOpen \/ InvWrite
  PROVE  Live /\ Known' = Known
<1>1. Live
  BY DEF Live, Mark, Sweep, EndSweep, SaveOpen, SaveWrite, InvOpen, InvWrite
<1>2. CASE Mark
  <2>1. /\ at = "work" /\ at' = "sweep" /\ k' = 1 /\ kept' = << >>
        /\ inodes' = inodes /\ invalid' = invalid
    BY <1>2 DEF Mark
  <2>2. Range(kept') = {} /\ Range(inodes) = {inodes[n] : n \in 1..Len(inodes)}
    BY <2>1 DEF Range, TypeOK
  <2>3. Known = Range(invalid) \cup Range(inodes)  BY <2>1 DEF Known, Valid
  <2>4. Known' = Range(invalid) \cup (Range(kept') \cup {inodes[n] : n \in 1..Len(inodes)})
    BY <2>1 DEF Known, Valid
  <2> QED BY <1>1, <2>2, <2>3, <2>4
<1>3. CASE Sweep
  <2>1. /\ at = "sweep" /\ at' = "sweep" /\ k' = k + 1 /\ inodes' = inodes
        /\ k \in Nat \ {0} /\ k <= Len(inodes) /\ Len(inodes) \in Nat
        /\ inodes[k] \in D /\ kept \in Seq(D) /\ invalid \in Seq(D)
    BY <1>3 DEF Sweep, TypeOK, Placed, D
  <2>2. \/ kept' = Append(kept, inodes[k]) /\ invalid' = invalid
        \/ kept' = kept /\ invalid' = Append(invalid, inodes[k])
    BY <1>3 DEF Sweep, Invalidate
  <2>3. Range(kept') \cup Range(invalid') = Range(kept) \cup Range(invalid) \cup {inodes[k]}
    <3>1. /\ Range(Append(kept, inodes[k])) = Range(kept) \cup {inodes[k]}
          /\ Range(Append(invalid, inodes[k])) = Range(invalid) \cup {inodes[k]}
      BY <2>1, AppendIs
    <3>2. CASE kept' = Append(kept, inodes[k]) /\ invalid' = invalid  BY <3>1, <3>2
    <3>3. CASE kept' = kept /\ invalid' = Append(invalid, inodes[k])  BY <3>1, <3>3
    <3> QED BY <2>2, <3>2, <3>3
  <2>4. {inodes[n] : n \in k..Len(inodes)} = {inodes[k]} \cup {inodes[n] : n \in (k + 1)..Len(inodes)}
    <3>1. k..Len(inodes) = {k} \cup ((k + 1)..Len(inodes))  BY <2>1
    <3> QED BY <3>1
  <2>5. Known = Range(invalid) \cup (Range(kept) \cup {inodes[n] : n \in k..Len(inodes)})
    BY <2>1 DEF Known, Valid
  <2>6. Known' = Range(invalid') \cup (Range(kept') \cup {inodes[n] : n \in (k + 1)..Len(inodes)})
    BY <2>1 DEF Known, Valid
  <2> QED BY <1>1, <2>3, <2>4, <2>5, <2>6
<1>4. CASE EndSweep
  <2>1. /\ at = "sweep" /\ at' # "sweep" /\ inodes' = kept /\ invalid' = invalid
        /\ k \in Nat /\ Len(inodes) \in Nat /\ k > Len(inodes)
    BY <1>4 DEF EndSweep, TypeOK
  <2>2. {inodes[n] : n \in k..Len(inodes)} = {}  BY <2>1
  <2>3. Known = Range(invalid) \cup (Range(kept) \cup {inodes[n] : n \in k..Len(inodes)})
    BY <2>1 DEF Known, Valid
  <2>4. Known' = Range(invalid) \cup Range(kept)  BY <2>1 DEF Known, Valid
  <2> QED BY <1>1, <2>2, <2>3, <2>4
<1>5. CASE SaveOpen \/ SaveWrite \/ InvOpen \/ InvWrite
  <2>1. at # "sweep" /\ at' # "sweep" /\ inodes' = inodes /\ invalid' = invalid
    BY <1>5 DEF SaveOpen, SaveWrite, InvOpen, InvWrite, Advance
  <2> QED BY <1>1, <2>1 DEF Known, Valid
<1> QED BY <1>2, <1>3, <1>4, <1>5

\* The steps that do not touch inoscan.txt.
LEMMA ScannedStays ==
  ASSUME TypeOK, Placed, Step \/ Crash, ~ DoScan, ~ ScanExits
  PROVE  Scanned' = Scanned
<1>1. CASE LaunchScan \/ Load \/ Mark \/ Sweep \/ EndSweep
  BY <1>1 DEF LaunchScan, Load, Mark, Sweep, EndSweep, Scanned
<1>2. ASSUME NEW n \in FileNames, n # "inoscan", \E f : files' = [files EXCEPT ![n] = f]
      PROVE  Scanned' = Scanned
  BY <1>2 DEF Scanned, TypeOK, FileNames
<1>3. at \in {"open"} \cup Saving => stage \in FileNames /\ stage # "inoscan"
  BY DEF Placed, StageFiles, FileNames
<1>4. "invalid" \in FileNames  BY DEF FileNames
<1>5. CASE SaveOpen \/ SaveWrite
  <2>1. at \in {"open"} \cup Saving /\ \E f : files' = [files EXCEPT ![stage] = f]
    BY <1>5 DEF SaveOpen, SaveWrite, Saving
  <2> QED BY <1>2, <1>3, <2>1
<1>6. CASE InvOpen \/ InvWrite
  <2>1. \E f : files' = [files EXCEPT !["invalid"] = f]
    BY <1>6 DEF InvOpen, InvWrite
  <2> QED BY <1>2, <1>4, <2>1
<1>7. CASE Crash
  <2>1. CASE at \notin {"write", "invwrite"}
    BY <1>7, <2>1 DEF Crash, Scanned
  <2>2. CASE at = "write"
    <3>1. \E f : files' = [files EXCEPT ![stage] = f]  BY <1>7, <2>2 DEF Crash
    <3> QED BY <1>2, <1>3, <2>2, <3>1 DEF Saving
  <2>3. CASE at = "invwrite"
    <3>1. \E f : files' = [files EXCEPT !["invalid"] = f]  BY <1>7, <2>3 DEF Crash
    <3> QED BY <1>2, <1>4, <3>1
  <2> QED BY <2>1, <2>2, <2>3
<1> QED BY <1>1, <1>5, <1>6, <1>7 DEF Step

LEMMA LogStep ==
  ASSUME TypeOK, Placed, Sound => LogOK, Next, Sound'
  PROVE  LogOK'
<1>1. LogOK  BY SoundBefore
<1>2. CASE DoScan \/ ScanKilled \/ ScanExits
  <2>1. PICK new : \E n \in 0..Len(new) :
           /\ new = Sorted(Rest(Scanned.lines, Sane))
           /\ files'["inoscan"] = File(Grown(Scanned.lines, new, n), << >>)
    BY <1>1, <1>2, Scanning
  <2>2. PICK n \in 0..Len(new) : files'["inoscan"] = File(Grown(Scanned.lines, new, n), << >>)
    BY <2>1
  <2>3. Increasing(Grown(Scanned.lines, new, n))
    BY <1>1, <2>1, LogGrows
  <2>4. Scanned' = File(Grown(Scanned.lines, new, n), << >>)  BY <2>2 DEF Scanned
  <2> QED BY <2>3, <2>4 DEF LogOK, File
<1>3. CASE (Step \/ Crash) /\ ~ DoScan /\ ~ ScanExits
  BY <1>1, <1>3, ScannedStays DEF LogOK
<1>4. ASSUME NEW o \in Sane, RmLogged(o) PROVE LogOK'
  <2>1. Scanned' = Strip("inoscan", o)
    BY <1>4 DEF RmLogged, Scanned, FileNames
  <2>2. /\ Scanned'.there = Scanned.there /\ Scanned'.lines = Without(Scanned.lines, o)
        /\ Scanned'.tail = Without(Scanned.tail, o)
    BY <2>1, StripIs DEF Scanned, FileNames
  <2>3. \A t \in Seq(D) : t = << >> => Without(t, o) = << >>
    <3> TAKE t \in Seq(D)
    <3>1. t = << >> => Range(t) = {}  BY DEF Range
    <3>2. Without(t, o) \in Seq(D) /\ Range(Without(t, o)) = Range(t) \ {o}  BY WithoutIs
    <3>3. Without(t, o) # << >> => Last(Without(t, o)) \in Range(Without(t, o))
      BY <3>2, ElementsAre
    <3> QED BY <3>1, <3>2, <3>3
  <2>4. Scanned.lines \in Seq(D) /\ Scanned.tail \in Seq(D)
    BY FilesOK DEF FileNames, Scanned
  <2>5. Increasing(Without(Scanned.lines, o))  BY <1>1, <2>4, WithoutIs DEF LogOK
  <2> QED BY <1>1, <2>2, <2>3, <2>4, <2>5 DEF LogOK
<1> QED BY <1>2, <1>3, <1>4 DEF Next

\* What a save, finished or killed, leaves of the files.
LEMMA Saved ==
  ASSUME TypeOK, Placed, Written, Sound',
         \/ SaveWrite /\ at' # "invopen"
         \/ InvWrite
         \/ Crash /\ at \in Saving
  PROVE  /\ Newest' = stage /\ stage \in FileNames
         /\ In(files'[stage]) = Range(inodes)
         /\ invalid = << >> \/ In(files'["invalid"]) = Range(invalid)
         /\ In(files'["invalid"]) = Range(invalid) \/ files'["invalid"] = files["invalid"]
         /\ \A f \in FileNames \ {stage, "invalid"} : files'[f] = files[f]
<1>1. /\ at \in Saving /\ stage \in StageFiles /\ stage \in FileNames /\ stage # "invalid"
      /\ DOMAIN files = FileNames /\ "invalid" \in FileNames
      /\ Junk \in D /\ inodes \in Seq(D) /\ invalid \in Seq(D)
  <2>1. at \in Saving  BY DEF SaveWrite, InvWrite, Saving
  <2> QED BY <2>1, DiskOK DEF Placed, StageFiles, FileNames, TypeOK, D
<1>2. \A ls \in Seq(D) : File(ls, << >>).there = TRUE /\ In(File(ls, << >>)) = Range(ls)
  BY DEF File, In, Range
<1>3. /\ files'[stage].there /\ In(files'[stage]) = Range(inodes)
      /\ invalid = << >> \/ In(files'["invalid"]) = Range(invalid)
      /\ In(files'["invalid"]) = Range(invalid) \/ files'["invalid"] = files["invalid"]
      /\ \A f \in FileNames \ {stage, "invalid"} : files'[f] = files[f]
  <2>1. CASE SaveWrite /\ at' # "invopen"
    <3>1. files' = [files EXCEPT ![stage] = File(inodes, << >>)] /\ invalid = << >>
      BY <2>1 DEF SaveWrite
    <3> QED BY <1>1, <1>2, <3>1
  <2>2. CASE InvWrite
    <3>1. /\ files' = [files EXCEPT !["invalid"] = File(invalid, << >>)]
          /\ files[stage] = File(inodes, << >>)
      BY <2>2 DEF InvWrite, InvWritten, Written
    <3> QED BY <1>1, <1>2, <3>1
  <2>3. CASE Crash /\ at = "write"
    <3>1. PICK f \in Beginnings(inodes) :
             /\ files' = [files EXCEPT ![stage] = f]
             /\ mishaps' = mishaps \cup (IF ~ Whole(f, inodes) THEN {"cut"} ELSE {})
                                   \cup (IF invalid # << >> THEN {"gap"} ELSE {})
      BY <2>3 DEF Crash
    <3>2. Whole(f, inodes) /\ invalid = << >>
      BY <3>1 DEF Sound, Damage
    <3>3. f.there /\ In(f) = Range(inodes)
      BY <1>1, <3>2, BeginningIs DEF In
    <3> QED BY <1>1, <3>1, <3>2, <3>3
  <2>4. CASE Crash /\ at = "invopen"
    <3>1. "gap" \in mishaps'  BY <2>4 DEF Crash
    <3> QED BY <3>1 DEF Sound, Damage
  <2>5. CASE Crash /\ at = "invwrite"
    <3>1. PICK f \in Beginnings(invalid) :
             /\ files' = [files EXCEPT !["invalid"] = f]
             /\ mishaps' = mishaps \cup (IF ~ Whole(f, invalid) THEN {"cutinvalid"} ELSE {})
      BY <2>5 DEF Crash
    <3>2. Whole(f, invalid)  BY <3>1 DEF Sound, Damage
    <3>3. In(f) = Range(invalid)  BY <1>1, <3>2, BeginningIs DEF In
    <3>4. files[stage] = File(inodes, << >>)  BY <2>5 DEF Written
    <3> QED BY <1>1, <1>2, <3>1, <3>3, <3>4
  <2> QED BY <1>1, <2>1, <2>2, <2>3, <2>4, <2>5 DEF Saving
<1>4. \A f \in StageFiles : Rank(f) > Rank(stage) => ~ files'[f].there
  <2>1. \A f \in StageFiles : Rank(f) > Rank(stage) => ~ files[f].there
    BY <1>1 DEF Placed
  <2>2. Rank(stage) \in Nat  BY LabelsInOrder DEF TypeOK
  <2>3. \A f \in StageFiles : f # "invalid" /\ f \in FileNames  BY DEF StageFiles, FileNames
  <2>4. \A f \in StageFiles : Rank(f) > Rank(stage) => f # stage  BY <2>2
  <2> QED BY <1>3, <2>1, <2>3, <2>4
<1>5. NewestOf(files') = stage  BY <1>1, <1>3, <1>4, NewestThere
<1> QED BY <1>1, <1>3, <1>5, NewestIs

LEMMA CompleteStep ==
  ASSUME TypeOK, Placed, Written, LogOK, Sound /\ removed = {} => Complete,
         Next, Sound', removed' = {}
  PROVE  Complete'
<1>1. Complete /\ Sound /\ disk' = disk /\ Sane' = Sane
  <2>1. removed = {}
    BY DEF Next, Step, LaunchScan, Load, DoScan, Mark, Sweep, EndSweep, SaveOpen,
         SaveWrite, InvOpen, InvWrite, ScanKilled, ScanExits, Crash, RmLogged
  <2>2. disk' = disk
    BY DEF Next, Step, LaunchScan, Load, DoScan, Mark, Sweep, EndSweep, SaveOpen,
         SaveWrite, InvOpen, InvWrite, ScanKilled, ScanExits, Crash, RmLogged
  <2> QED BY <2>1, <2>2, SoundBefore DEF Sane
<1>2. ~ \E o \in Sane : RmLogged(o)  BY DEF RmLogged
<1>3. CASE DoScan \/ ScanKilled \/ ScanExits
  <2>1. PICK new : \E n \in 0..Len(new) :
           /\ new = Sorted(Rest(Scanned.lines, Sane)) /\ new \in Seq(D)
           /\ Range(Resumed) = Range(Scanned.lines)
           /\ files'["inoscan"] = File(Grown(Scanned.lines, new, n), << >>)
           /\ \A f \in FileNames \ {"inoscan"} : files'[f] = files[f]
           /\ DoScan => n = Len(new) /\ inodes' = Resumed \o new
    BY <1>3, Scanning
  <2>2. PICK n \in 0..Len(new) :
           /\ files'["inoscan"] = File(Grown(Scanned.lines, new, n), << >>)
           /\ \A f \in FileNames \ {"inoscan"} : files'[f] = files[f]
           /\ DoScan => n = Len(new) /\ inodes' = Resumed \o new
    BY <2>1
  <2>3. Scanned'.lines = Grown(Scanned.lines, new, n)
    BY <2>2 DEF Scanned, File
  <2>4. NoGap(Grown(Scanned.lines, new, n), Sane) /\ Range(new) = Rest(Scanned.lines, Sane)
    BY <1>1, <2>1, LogGrows DEF Complete
  <2>5. Newest' = "none"
    <3>1. \A f \in StageFiles : ~ files[f].there /\ f # "inoscan" /\ f \in FileNames
      BY <1>3 DEF DoScan, ScanKilled, ScanExits, Placed, Rank, StageFiles, FileNames
    <3>2. \A f \in StageFiles : ~ files'[f].there  BY <3>1, <2>2
    <3> QED BY <3>2, NewestIs, NewestFirst
  <2>6. Live' => Sane \subseteq Known'
    <3> SUFFICES ASSUME Live' PROVE Sane \subseteq Known'  OBVIOUS
    <3>1. DoScan  BY <1>3 DEF ScanKilled, ScanExits, Live
    <3>2. inodes' = Resumed \o new /\ at' = "open"  BY <2>2, <3>1 DEF DoScan
    <3>3. Range(inodes') = Range(Scanned.lines) \cup Range(new)
      BY <2>1, <3>2, ResumedIs, JoinedIs
    <3>4. Sane \subseteq Range(Scanned.lines) \cup Rest(Scanned.lines, Sane)
      <4> SUFFICES ASSUME NEW x \in Sane, x \notin Rest(Scanned.lines, Sane)
                   PROVE  x \in Range(Scanned.lines)
        OBVIOUS
      <4>1. Scanned.lines # << >> /\ ~ (x > Last(Scanned.lines))  BY DEF Rest
      <4>2. x \in Nat /\ Last(Scanned.lines) \in Nat
        <5>1. Scanned.lines \in Seq(D) /\ D \subseteq Nat /\ Sane \subseteq Nat
          BY FilesOK, DiskOK DEF FileNames, Scanned, D, TypeOK
        <5> QED BY <5>1, <4>1, ElementsAre
      <4>3. x <= Last(Scanned.lines)  BY <4>1, <4>2
      <4> QED BY <4>1, <4>3, <1>1 DEF Complete, NoGap
    <3>5. Known' = Range(invalid') \cup Range(inodes')  BY <3>2 DEF Known, Valid
    <3> QED BY <2>4, <3>3, <3>4, <3>5
  <2> QED BY <1>1, <2>3, <2>4, <2>5, <2>6 DEF Complete
<1>4. CASE (Step \/ Crash) /\ ~ DoScan /\ ~ ScanExits
  <2>1. NoGap(Scanned.lines, Sane)'
    BY <1>1, <1>4, ScannedStays DEF Complete, NoGap
  <2>2. Live' => Sane \subseteq Known'
    <3>1. CASE LaunchScan  BY <3>1 DEF LaunchScan, Live
    <3>2. CASE Load
      <4>1. at \notin Saving /\ Newest # "none"  BY <3>2 DEF Load, Saving
      <4>2. Sane \subseteq In(files[Newest]) \cup In(files["invalid"])
        BY <4>1, <1>1 DEF Complete
      <4>3. /\ Newest \in FileNames /\ inodes' = Read(files[Newest], Junk)
            /\ Last(inodes') \in D /\ Junk \in D /\ "invalid" \in FileNames
        BY <3>2, LoadedIs, DiskOK DEF StageFiles, FileNames, TypeOK, D
      <4>4. In(files[Newest]) \subseteq Range(inodes')
        BY <4>3, ReadAll
      <4>5. In(files["invalid"]) \subseteq Range(invalid')
        <5> DEFINE last == Last(inodes')
        <5>1. files["invalid"].there => invalid' = Read(files["invalid"], last)
          BY <3>2, LoadedIs
        <5>2. last \in D  BY <4>3
        <5> HIDE DEF last
        <5>3. In(files["invalid"]) \subseteq Range(Read(files["invalid"], last))
          BY <4>3, <5>2, ReadAll
        <5>4. ~ files["invalid"].there => In(files["invalid"]) = {}  BY DEF In
        <5> QED BY <5>1, <5>3, <5>4
      <4>6. at' # "sweep"  BY <3>2 DEF Load
      <4>7. Known' = Range(invalid') \cup Range(inodes')  BY <4>6 DEF Known, Valid
      <4> QED BY <4>2, <4>4, <4>5, <4>7
    <3>3. CASE Crash  BY <3>3 DEF Crash, Live
    <3>4. CASE Mark \/ Sweep \/ EndSweep \/ SaveOpen \/ SaveWrite \/ InvOpen \/ InvWrite
      BY <1>1, <3>4, KnownStays DEF Complete
    <3> QED BY <1>4, <3>1, <3>2, <3>3, <3>4 DEF Step
  <2>3. at' \notin Saving /\ Newest' # "none"
          => Sane \subseteq In(files'[Newest']) \cup In(files'["invalid"])
    <3> SUFFICES ASSUME at' \notin Saving, Newest' # "none"
                 PROVE  Sane \subseteq In(files'[Newest']) \cup In(files'["invalid"])
      OBVIOUS
    <3>1. CASE files' = files /\ at \notin Saving
      BY <1>1, <3>1, NewestIs DEF Complete
    <3>2. CASE \/ SaveWrite /\ at' # "invopen"
               \/ InvWrite
               \/ Crash /\ at \in Saving
      <4>1. Live /\ at # "sweep"
        BY <3>2 DEF SaveWrite, InvWrite, Saving, Live
      <4>2. Sane \subseteq Range(invalid) \cup Range(inodes)
        BY <4>1, <1>1 DEF Complete, Known, Valid
      <4>3. Range(invalid) \subseteq In(files'["invalid"])
        <5>1. invalid = << >> => Range(invalid) = {}  BY DEF Range
        <5> QED BY <3>2, <5>1, Saved
      <4>4. Newest' = stage /\ In(files'[stage]) = Range(inodes)
        BY <3>2, Saved
      <4> QED BY <4>2, <4>3, <4>4
    <3>3. \/ files' = files /\ at \notin Saving
          \/ SaveWrite /\ at' # "invopen"
          \/ InvWrite
          \/ Crash /\ at \in Saving
      BY <1>4 DEF Step, LaunchScan, Load, Mark, Sweep, EndSweep, SaveOpen, SaveWrite,
           InvOpen, InvWrite, Crash, Saving
    <3> QED BY <3>1, <3>2, <3>3
  <2> QED BY <1>1, <2>1, <2>2, <2>3 DEF Complete
<1> QED BY <1>2, <1>3, <1>4 DEF Next

LEMMA CleanStep ==
  ASSUME TypeOK, Placed, Written, LogOK, Sound /\ "removedlast" \notin mishaps => Clean,
         Next, Sound', "removedlast" \notin mishaps'
  PROVE  Clean'
<1>1. Clean /\ Sound  BY SoundBefore
<1>2. removed \subseteq Sane /\ Sane \subseteq Nat /\ Junk \notin Sane /\ Junk \in D /\ D \subseteq Nat
  BY DiskOK DEF TypeOK, D
<1>3. "inoscan" \in FileNames /\ "invalid" \in FileNames  BY DEF FileNames
<1>4. ASSUME NEW o \in Sane, RmLogged(o) PROVE Clean'
  <2>1. files' = [n \in FileNames |-> Strip(n, o)] /\ removed' = removed \cup {o} /\ at' = "down"
    BY <1>4 DEF RmLogged
  <2>2. \A f \in FileNames : removed' \cap In(files'[f]) = {}
    <3> TAKE f \in FileNames
    <3>1. In(files'[f]) = In(files[f]) \ {o}  BY <2>1, StripIs
    <3> QED BY <3>1, <2>1, <1>1 DEF Clean
  <2>3. Newest' = Newest
    <3>1. \A f \in StageFiles : files'[f].there = files[f].there
      BY <2>1, StripIs DEF StageFiles, FileNames
    <3> QED BY <3>1, NewestIs, NewestSame
  <2>4. ASSUME Newest = "none", NEW x \in removed'
        PROVE  Scanned'.lines # << >> /\ x < Last(Scanned'.lines)
    <3> DEFINE ls == Scanned.lines
    <3>1. ls \in Seq(D) /\ Increasing(ls) /\ TopIsLast(ls)
      BY FilesOK, <1>2, <1>3, IncreasingTop DEF Scanned, LogOK
    <3>2. o \in Range(ls) /\ ("removedlast" \notin mishaps' => o # Last(ls))
      BY <1>4, <2>4 DEF RmLogged, Scanned
    <3>3. Scanned'.lines = Without(ls, o)
      BY <2>1, <1>3, StripIs DEF Scanned
    <3> HIDE DEF ls
    <3>4. ls # << >>
      <4>1. Range(<< >>) = {}  BY DEF Range
      <4> QED BY <3>2, <4>1
    <3>5. Scanned'.lines # << >> /\ Last(Scanned'.lines) = Last(ls)
      BY <3>1, <3>2, <3>3, <3>4, WithoutIs
    <3>6. Last(ls) \in Nat /\ o \in Nat /\ o <= Last(ls)
      BY <3>1, <3>2, <3>4, <1>2, ElementsAre DEF TopIsLast
    <3>7. x \in removed => x < Last(ls)  BY <1>1, <2>4 DEF Clean, ls
    <3> QED BY <3>2, <3>5, <3>6, <3>7, <2>1
  <2> QED BY <2>1, <2>2, <2>3, <2>4 DEF Clean, Live
<1>5. CASE DoScan \/ ScanKilled \/ ScanExits
  <2>1. PICK new : \E n \in 0..Len(new) :
           /\ new = Sorted(Rest(Scanned.lines, Sane)) /\ new \in Seq(D)
           /\ Range(Resumed) = Range(Scanned.lines)
           /\ files'["inoscan"] = File(Grown(Scanned.lines, new, n), << >>)
           /\ \A f \in FileNames \ {"inoscan"} : files'[f] = files[f]
           /\ DoScan => n = Len(new) /\ inodes' = Resumed \o new
    BY <1>5, Scanning
  <2>2. PICK n \in 0..Len(new) :
           /\ files'["inoscan"] = File(Grown(Scanned.lines, new, n), << >>)
           /\ \A f \in FileNames \ {"inoscan"} : files'[f] = files[f]
           /\ DoScan => n = Len(new) /\ inodes' = Resumed \o new
    BY <2>1
  <2> DEFINE ls == Scanned.lines  ls2 == Grown(ls, new, n)
  <2>3. Scanned' = File(ls2, << >>) /\ removed' = removed
    BY <2>2, <1>5 DEF Scanned, DoScan, ScanKilled, ScanExits
  <2>4. /\ Range(new) = Rest(ls, Sane) /\ ls \in Seq(D) /\ ls2 \in Seq(D)
        /\ ls # << >> => ls2 # << >> /\ Last(ls) <= Last(ls2)
    BY <2>1, <1>3, FilesOK, LogGrows DEF Scanned
  <2>5. \A f \in StageFiles : ~ files[f].there /\ f # "inoscan" /\ f \in FileNames
    BY <1>5 DEF DoScan, ScanKilled, ScanExits, Placed, Rank, StageFiles, FileNames
  <2>6. Newest = "none"  BY <2>5, NewestIs, NewestFirst
  <2>7. \A o \in removed : ls # << >> /\ o < Last(ls)
    BY <1>1, <2>6 DEF Clean
  <2>8. removed \cap Range(ls) = {}
    <3>1. Scanned.there => Range(ls) \subseteq In(Scanned)  BY DEF In
    <3>2. ~ Scanned.there => Range(ls) = {}  BY DEF LogOK, Range
    <3>3. removed \cap In(Scanned) = {}  BY <1>1, <1>3 DEF Clean, Scanned
    <3> QED BY <3>1, <3>2, <3>3
  <2>9. removed \cap Range(new) = {}
    <3> SUFFICES ASSUME NEW o \in removed, o \in Rest(ls, Sane) PROVE FALSE
      BY <2>4
    <3>1. ls # << >> /\ o < Last(ls) /\ o > Last(ls)  BY <2>7 DEF Rest
    <3>2. o \in Nat  BY <1>2
    <3>3. ls # << >> /\ ls \in Seq(D)  BY <3>1, <2>4
    <3> HIDE DEF ls
    <3>4. Last(ls) \in Nat  BY <3>3, <1>2, ElementsAre
    <3> QED BY <3>1, <3>2, <3>4
  <2>10. \A f \in FileNames : removed' \cap In(files'[f]) = {}
    <3>1. Range(ls2) \subseteq Range(ls) \cup Range(new)
      <4>1. SubSeq(new, 1, n) \in Seq(D)  BY <2>1
      <4>2. Range(SubSeq(new, 1, n)) \subseteq Range(new)
        <5>1. \A m \in 1..n : SubSeq(new, 1, n)[m] = new[m] /\ m \in DOMAIN new
          BY <2>1
        <5>2. DOMAIN SubSeq(new, 1, n) = 1..n  BY <2>1
        <5> QED BY <5>1, <5>2 DEF Range
      <4>3. ls2 = ls \o SubSeq(new, 1, n)  BY DEF Grown
      <4> DEFINE added == SubSeq(new, 1, n)
      <4> HIDE DEF ls2, ls, added
      <4>4. Range(ls \o added) = Range(ls) \cup Range(added)
        <5>1. ls \in Seq(D)  BY <2>4
        <5>2. added \in Seq(D)  BY <4>1 DEF added
        <5> QED BY <5>1, <5>2, JoinedIs
      <4>5. Range(ls2) = Range(ls) \cup Range(added)  BY <4>3, <4>4 DEF added
      <4> QED BY <4>2, <4>5 DEF added
    <3>2. In(files'["inoscan"]) = Range(ls2)
      BY <2>2 DEF In, File, Range
    <3>3. removed \cap In(files'["inoscan"]) = {}
      BY <2>8, <2>9, <3>1, <3>2
    <3> QED BY <3>3, <2>2, <2>3, <1>1 DEF Clean
  <2>11. Live' => removed' \cap Known' = {}
    <3> SUFFICES ASSUME Live' PROVE removed \cap Known' = {}  BY <2>3
    <3>1. DoScan  BY <1>5 DEF ScanKilled, ScanExits, Live
    <3>2. /\ inodes' = Resumed \o new /\ at' = "open" /\ invalid' = invalid
      BY <2>2, <3>1 DEF DoScan
    <3>3. invalid = << >>  BY <3>1 DEF DoScan, Placed
    <3>4. Range(inodes') = Range(ls) \cup Range(new)
      BY <2>1, <3>2, ResumedIs, JoinedIs
    <3>5. Known' = Range(inodes')  BY <3>2, <3>3 DEF Known, Valid, Range
    <3> QED BY <2>8, <2>9, <3>4, <3>5
  <2>12. \A o \in removed' : Scanned'.lines # << >> /\ o < Last(Scanned'.lines)
    <3> SUFFICES ASSUME NEW o \in removed PROVE ls2 # << >> /\ o < Last(ls2)
      BY <2>3 DEF File
    <3>1. ls # << >> /\ o < Last(ls) /\ ls2 # << >> /\ Last(ls) <= Last(ls2)
      BY <2>4, <2>7
    <3>2. o \in Nat /\ Last(ls) \in Nat /\ Last(ls2) \in Nat
      <4> HIDE DEF ls, ls2
      <4> QED BY <3>1, <2>4, <1>2, ElementsAre
    <3> QED BY <3>1, <3>2
  <2> QED BY <2>10, <2>11, <2>12 DEF Clean
<1>6. CASE (Step \/ Crash) /\ ~ DoScan /\ ~ ScanExits
  <2>1. removed' = removed /\ Scanned' = Scanned
    BY <1>6, ScannedStays DEF Step, LaunchScan, Load, Mark, Sweep, EndSweep, SaveOpen,
       SaveWrite, InvOpen, InvWrite, Crash
  <2>2. Live' => removed \cap Known' = {}
    <3>1. CASE LaunchScan  BY <3>1 DEF LaunchScan, Live
    <3>2. CASE Load
      <4>1. /\ Newest \in FileNames /\ files[Newest].there /\ inodes' = Read(files[Newest], Junk)
            /\ Last(inodes') \in D /\ Last(inodes') \in Range(inodes')
        BY <3>2, LoadedIs DEF StageFiles, FileNames
      <4>2. Range(inodes') \subseteq In(files[Newest]) \cup {Junk}
        BY <4>1, <1>2, ReadAll
      <4>3. removed \cap Range(inodes') = {}
        BY <4>1, <4>2, <1>1, <1>2 DEF Clean
      <4>4. removed \cap Range(invalid') = {}
        <5> DEFINE last == Last(inodes')
        <5>1. invalid' = IF files["invalid"].there THEN Read(files["invalid"], last) ELSE << >>
          BY <3>2, LoadedIs
        <5>2. last \in D /\ last \in Range(inodes')  BY <4>1
        <5> HIDE DEF last
        <5>3. CASE files["invalid"].there
          <6>1. Range(invalid') \subseteq In(files["invalid"]) \cup {last}
            BY <5>1, <5>2, <5>3, <1>3, ReadAll
          <6> QED BY <6>1, <5>2, <4>3, <1>1, <1>3 DEF Clean
        <5>4. CASE ~ files["invalid"].there
          BY <5>1, <5>4 DEF Range
        <5> QED BY <5>3, <5>4
      <4>5. at' # "sweep"  BY <3>2 DEF Load
      <4>6. Known' = Range(invalid') \cup Range(inodes')  BY <4>5 DEF Known, Valid
      <4> QED BY <4>3, <4>4, <4>6
    <3>3. CASE Crash  BY <3>3 DEF Crash, Live
    <3>4. CASE Mark \/ Sweep \/ EndSweep \/ SaveOpen \/ SaveWrite \/ InvOpen \/ InvWrite
      BY <1>1, <3>4, KnownStays DEF Clean
    <3> QED BY <1>6, <3>1, <3>2, <3>3, <3>4 DEF Step
  <2>3. \A f \in FileNames : removed \cap In(files'[f]) = {}
    <3>1. CASE files' = files  BY <3>1, <1>1 DEF Clean
    <3>2. CASE \/ SaveWrite /\ at' # "invopen"
               \/ InvWrite
               \/ Crash /\ at \in Saving
      <4>1. Live /\ at # "sweep"
        BY <3>2 DEF SaveWrite, InvWrite, Saving, Live
      <4>2. removed \cap (Range(invalid) \cup Range(inodes)) = {}
        BY <4>1, <1>1 DEF Clean, Known, Valid
      <4>3. /\ In(files'[stage]) = Range(inodes)
            /\ In(files'["invalid"]) = Range(invalid) \/ files'["invalid"] = files["invalid"]
            /\ \A f \in FileNames \ {stage, "invalid"} : files'[f] = files[f]
        BY <3>2, Saved
      <4> QED BY <4>2, <4>3, <1>1, <1>3 DEF Clean
    <3>3. CASE SaveOpen \/ InvOpen
      <4>1. \E n : files' = [files EXCEPT ![n] = File(<< >>, << >>)]
        BY <3>3 DEF SaveOpen, InvOpen
      <4>2. In(File(<< >>, << >>)) = {}  BY DEF In, File, Range
      <4>3. \A f \in FileNames : files'[f] = files[f] \/ In(files'[f]) = {}
        BY <4>1, <4>2 DEF TypeOK
      <4> QED BY <4>3, <1>1 DEF Clean
    <3>4. CASE SaveWrite /\ at' = "invopen"
      <4>1. Live /\ at # "sweep" /\ files' = [files EXCEPT ![stage] = File(inodes, << >>)]
        BY <3>4 DEF SaveWrite, Live
      <4>2. removed \cap Range(inodes) = {}  BY <4>1, <1>1 DEF Clean, Known, Valid
      <4>3. In(File(inodes, << >>)) = Range(inodes)  BY DEF In, File, Range
      <4>4. \A f \in FileNames : files'[f] = files[f] \/ In(files'[f]) = Range(inodes)
        BY <4>1, <4>3 DEF TypeOK
      <4> QED BY <4>2, <4>4, <1>1 DEF Clean
    <3>5. \/ files' = files
          \/ SaveWrite
          \/ InvWrite
          \/ Crash /\ at \in Saving
          \/ SaveOpen \/ InvOpen
      BY <1>6 DEF Step, LaunchScan, Load, Mark, Sweep, EndSweep, Crash, Saving
    <3> QED BY <3>1, <3>2, <3>3, <3>4, <3>5
  <2>4. Newest' = "none" => Newest = "none"
    <3> SUFFICES ASSUME Newest' = "none" PROVE Newest = "none"  OBVIOUS
    <3>1. \A f \in StageFiles : ~ files'[f].there  BY NewestIs, NewestFirst
    <3>2. \A f \in StageFiles : files[f].there => files'[f].there
      <4>1. \A f \in StageFiles : f \in FileNames /\ f # "invalid"  BY DEF StageFiles, FileNames
      <4>2. \A ls, t : File(ls, t).there = TRUE  BY DEF File
      <4>3. CASE files' = files  BY <4>3
      <4>4. CASE \/ SaveWrite /\ at' # "invopen"
                 \/ InvWrite
                 \/ Crash /\ at \in Saving
        <5>1. Newest' = stage  BY <4>4, Saved
        <5>2. stage \in StageFiles
          BY <4>4 DEF SaveWrite, InvWrite, Saving, Placed
        <5> QED BY <5>1, <5>2 DEF StageFiles
      <4>5. CASE SaveOpen \/ InvOpen \/ SaveWrite
        <5>1. \E n, ls : files' = [files EXCEPT ![n] = File(ls, << >>)]
          BY <4>5 DEF SaveOpen, InvOpen, SaveWrite
        <5> QED BY <5>1, <4>1, <4>2 DEF TypeOK
      <4>6. \/ files' = files
            \/ SaveWrite
            \/ InvWrite
            \/ Crash /\ at \in Saving
            \/ SaveOpen \/ InvOpen
        BY <1>6 DEF Step, LaunchScan, Load, Mark, Sweep, EndSweep, Crash, Saving
      <4> QED BY <4>3, <4>4, <4>5, <4>6
    <3> QED BY <3>1, <3>2, NewestIs, NewestFirst
  <2> QED BY <1>1, <2>1, <2>2, <2>3, <2>4 DEF Clean
<1> QED BY <1>4, <1>5, <1>6 DEF Next

\* remove_dupes keeps one inode per number.
LEMMA LatestIsOne ==
  ASSUME NEW v, \A n \in DOMAIN v : disk[v[n]].otime \in Nat, DOMAIN v \subseteq Nat,
         NEW n \in KeepLatest(disk, v), NEW m \in KeepLatest(disk, v),
         disk[v[n]].number = disk[v[m]].number
  PROVE  n = m
<1>1. n \in DOMAIN v /\ m \in DOMAIN v  BY DEF KeepLatest
<1>2. \/ disk[v[m]].otime < disk[v[n]].otime
      \/ disk[v[m]].otime = disk[v[n]].otime /\ n <= m
  BY <1>1 DEF KeepLatest
<1>3. \/ disk[v[n]].otime < disk[v[m]].otime
      \/ disk[v[n]].otime = disk[v[m]].otime /\ m <= n
  BY <1>1 DEF KeepLatest
<1>4. disk[v[n]].otime \in Nat /\ disk[v[m]].otime \in Nat /\ n \in Nat /\ m \in Nat
  BY <1>1
<1> QED BY <1>2, <1>3, <1>4

LEMMA SingleStep ==
  ASSUME TypeOK, Placed, Written, Sound => Single, Next, Sound'
  PROVE  Single'
<1>1. Single /\ Sound /\ disk' = disk
  BY SoundBefore DEF Next, Step, LaunchScan, Load, DoScan, Mark, Sweep, EndSweep, SaveOpen,
     SaveWrite, InvOpen, InvWrite, ScanKilled, ScanExits, Crash, RmLogged
<1>2. /\ DOMAIN inodes = 1..Len(inodes) /\ DOMAIN inodes \subseteq Nat
      /\ \A n \in DOMAIN inodes : inodes[n] \in D /\ disk[inodes[n]].otime \in Nat
  BY DiskOK DEF TypeOK, D
<1>3. \A S, T : S \subseteq T /\ OneEach(T) => OneEach(S)  BY DEF OneEach
<1>4. OneEach(In(files'["dupes"]))
  <2>1. "dupes" \in FileNames /\ "dupes" # "inoscan" /\ "dupes" # "invalid"  BY DEF FileNames, StageFiles
  <2>2. ASSUME NEW o \in Sane, RmLogged(o) PROVE In(files'["dupes"]) \subseteq In(files["dupes"])
    BY <2>1, <2>2, StripIs DEF RmLogged
  <2>3. CASE files'["dupes"] = files["dupes"]  BY <2>3, <1>1 DEF Single
  <2>4. CASE \/ SaveWrite /\ at' # "invopen"
             \/ InvWrite
             \/ Crash /\ at \in Saving
    <3>1. at \in Saving  BY <2>4 DEF SaveWrite, InvWrite, Saving
    <3>2. CASE stage = "dupes"
      BY <2>4, <3>1, <3>2, <1>1, Saved DEF Single
    <3>3. CASE stage # "dupes"
      BY <2>1, <2>3, <2>4, <3>3, Saved
    <3> QED BY <3>2, <3>3
  <2>5. CASE SaveOpen
    <3>1. In(File(<< >>, << >>)) = {} /\ OneEach({})  BY DEF In, File, Range, OneEach
    <3>2. files'["dupes"] = files["dupes"] \/ files'["dupes"] = File(<< >>, << >>)
      BY <2>5, <2>1 DEF SaveOpen, TypeOK
    <3> QED BY <2>3, <3>1, <3>2
  <2>6. CASE SaveWrite /\ at' = "invopen"
    <3>1. In(File(inodes, << >>)) = Range(inodes)  BY DEF In, File, Range
    <3>2. stage = "dupes" => OneEach(Range(inodes))
      BY <2>6, <1>1 DEF SaveWrite, Single, Saving
    <3>3. files'["dupes"] = IF stage = "dupes" THEN File(inodes, << >>) ELSE files["dupes"]
      BY <2>6, <2>1 DEF SaveWrite, TypeOK
    <3> QED BY <2>3, <3>1, <3>2, <3>3
  <2>7. CASE DoScan \/ ScanKilled \/ ScanExits \/ InvOpen
    <3>1. \/ files' = files
          \/ \E n \in {"inoscan", "invalid"} : \E f : files' = [files EXCEPT ![n] = f]
      BY <2>7 DEF DoScan, ScanKilled, ScanExits, InvOpen
    <3> QED BY <3>1, <2>1, <2>3 DEF TypeOK
  <2>8. \/ \E o \in Sane : RmLogged(o)
        \/ files' = files
        \/ SaveWrite \/ InvWrite \/ SaveOpen \/ DoScan \/ ScanKilled \/ ScanExits \/ InvOpen
        \/ Crash /\ at \in Saving
    BY DEF Next, Step, LaunchScan, Load, Mark, Sweep, EndSweep, Crash, Saving
  <2>9. (\E o \in Sane : RmLogged(o)) => OneEach(In(files'["dupes"]))
    BY <2>2, <1>1, <1>3 DEF Single
  <2> QED BY <2>3, <2>4, <2>5, <2>6, <2>7, <2>8, <2>9
<1>5. at' \in {"open"} \cup Saving /\ stage' = "dupes" => OneEach(Range(inodes'))
  <2> SUFFICES ASSUME at' \in {"open"} \cup Saving, stage' = "dupes"
               PROVE  OneEach(Range(inodes'))
    OBVIOUS
  <2>1. CASE EndSweep
    <3>1. at = "sweep" /\ stage = "dupes" /\ inodes' = kept
      BY <2>1 DEF EndSweep
    <3>2. /\ keep = KeepLatest(disk, inodes)
          /\ \A x \in Range(kept) : \E n \in keep : x = inodes[n]
      BY <3>1, <1>1 DEF Single
    <3>3. ASSUME NEW x \in Range(kept), NEW y \in Range(kept), disk[x].number = disk[y].number
          PROVE  x = y
      <4>1. PICK n \in keep : x = inodes[n]  BY <3>2
      <4>2. PICK m \in keep : y = inodes[m]  BY <3>2
      <4>3. n = m  BY <3>2, <3>3, <4>1, <4>2, <1>2, LatestIsOne
      <4> QED BY <4>1, <4>2, <4>3
    <3> QED BY <3>1, <3>3 DEF OneEach
  <2>2. CASE at \in {"open"} \cup Saving /\ inodes' = inodes /\ stage' = stage
    BY <2>2, <1>1 DEF Single
  <2>3. \/ EndSweep
        \/ at \in {"open"} \cup Saving /\ inodes' = inodes /\ stage' = stage
    BY DEF Next, Step, LaunchScan, Load, DoScan, Mark, Sweep, EndSweep, SaveOpen,
       SaveWrite, InvOpen, InvWrite, ScanKilled, ScanExits, Crash, RmLogged, Advance, Saving
  <2> QED BY <2>1, <2>2, <2>3
<1>6. at' = "done" => OneEach(Range(inodes'))
  <2> SUFFICES ASSUME at' = "done" PROVE OneEach(Range(inodes'))  OBVIOUS
  <2>1. CASE Load
    <3>1. Junk \notin Range(inodes')
      BY <2>1 DEF Load, Sound, Damage
    <3>2. /\ Newest \in FileNames /\ inodes' = Read(files[Newest], Junk) /\ files[Newest].there
          /\ Newest \in StageFiles
      BY <2>1, LoadedIs DEF StageFiles, FileNames
    <3>3. After(Newest) = "end"
      BY <2>1 DEF Load, StageOf
    <3>4. Newest = "dupes"  BY <3>2, <3>3, LabelsInOrder DEF StageFiles, Stages
    <3>5. Range(inodes') \subseteq In(files[Newest]) \cup {Junk}
      BY <3>2, ReadAll, DiskOK DEF TypeOK, D
    <3>6. Range(inodes') \subseteq In(files["dupes"])  BY <3>1, <3>4, <3>5
    <3> QED BY <3>6, <1>1, <1>3 DEF Single
  <2>2. CASE SaveWrite \/ InvWrite
    <3>1. at \in Saving /\ inodes' = inodes /\ stage \in Stages /\ stage' = "end"
      BY <2>2 DEF SaveWrite, InvWrite, Advance, TypeOK, Saving, Stages, After
    <3>2. stage = "dupes"
      <4>1. stage' = After(stage) /\ stage \in StageFiles
        BY <2>2, <3>1 DEF SaveWrite, InvWrite, Advance, Saving, Placed
      <4> QED BY <4>1, <3>1, LabelsInOrder
    <3> QED BY <3>1, <3>2, <1>1 DEF Single
  <2>3. Load \/ SaveWrite \/ InvWrite
    <3>1. at = "done" => ~ LaunchScan /\ ~ DoScan /\ ~ Mark /\ ~ Sweep
      BY DEF LaunchScan, DoScan, Mark, Sweep
    <3> QED BY DEF Next, Step, LaunchScan, Load, DoScan, Mark, Sweep, EndSweep, SaveOpen,
       SaveWrite, InvOpen, InvWrite, ScanKilled, ScanExits, Crash, RmLogged
  <2> QED BY <2>1, <2>2, <2>3
<1>7. at' = "sweep" /\ stage' = "dupes" =>
        /\ keep' = KeepLatest(disk', inodes')
        /\ \A x \in Range(kept') : \E n \in keep' : x = inodes'[n]
  <2> SUFFICES ASSUME at' = "sweep", stage' = "dupes"
               PROVE  /\ keep' = KeepLatest(disk, inodes')
                      /\ \A x \in Range(kept') : \E n \in keep' : x = inodes'[n]
    BY <1>1
  <2>1. CASE Mark
    <3>1. stage = "dupes" /\ keep' = Keep(stage, inodes) /\ inodes' = inodes /\ kept' = << >>
      BY <2>1 DEF Mark
    <3>2. Range(<< >>) = {}  BY DEF Range
    <3>3. "dupes" \in Stages \ {"scan", "end"}  BY DEF Stages
    <3> QED BY <3>1, <3>2, <3>3, KeepIs
  <2>2. CASE Sweep
    <3>1. /\ at = "sweep" /\ stage = "dupes" /\ keep' = keep /\ inodes' = inodes
          /\ k \in Nat /\ k # 0 /\ k <= Len(inodes)
          /\ k \in keep => kept' = Append(kept, inodes[k])
          /\ k \notin keep => kept' = kept
      BY <2>2 DEF Sweep, Invalidate, TypeOK, Placed
    <3>2. /\ keep = KeepLatest(disk, inodes)
          /\ \A x \in Range(kept) : \E n \in keep : x = inodes[n]
      BY <3>1, <1>1 DEF Single
    <3>3. k \in keep => Range(kept') = Range(kept) \cup {inodes[k]}
      <4>1. kept \in Seq(D)  BY DEF TypeOK, D
      <4>2. k \in DOMAIN inodes  BY <3>1, <1>2
      <4>3. inodes[k] \in D  BY <4>2, <1>2
      <4>4. Range(Append(kept, inodes[k])) = Range(kept) \cup {inodes[k]}
        BY <4>1, <4>3, AppendIs
      <4> QED BY <3>1, <4>4
    <3> QED BY <3>1, <3>2, <3>3
  <2>3. Mark \/ Sweep
    BY DEF Next, Step, LaunchScan, Load, DoScan, Mark, Sweep, EndSweep, SaveOpen,
       SaveWrite, InvOpen, InvWrite, ScanKilled, ScanExits, Crash, RmLogged, Advance
  <2> QED BY <2>1, <2>2, <2>3
<1> QED BY <1>1, <1>4, <1>5, <1>6, <1>7 DEF Single, OneEach, Saving

LEMMA InitInv == Init => PostInv
<1> SUFFICES ASSUME Init PROVE PostInv  OBVIOUS
<1>1. TypeOK
  <2>1. Cardinality({}) = 0  BY FS_EmptySet
  <2> QED BY <2>1, PostAssumption
          DEF Init, TypeOK, Missing, FileNames, StageFiles, Stages, Sane
<1>2. \A f \in FileNames : files[f] = Missing /\ In(files[f]) = {}
  BY DEF Init, In, Missing
<1>3. Newest = "none"
  BY <1>2, NewestIs, NewestFirst DEF Missing, StageFiles, FileNames
<1>4. Scanned = Missing /\ "dupes" \in FileNames
  BY <1>2 DEF Scanned, FileNames, StageFiles
<1>5. Placed /\ Written  BY DEF Init, Placed, Written, Saving
<1>6. LogOK  BY <1>4 DEF LogOK, Missing, Increasing
<1>7. Complete  BY <1>3, <1>4 DEF Complete, NoGap, Missing, Init, Live
<1>8. Clean  BY <1>2 DEF Clean, Init, Live
<1>9. Single  BY <1>2, <1>4 DEF Single, OneEach, Init, Saving
<1> QED BY <1>1, <1>5, <1>6, <1>7, <1>8, <1>9 DEF PostInv

LEMMA StepInv == PostInv /\ [Next]_vars => PostInv'
<1> SUFFICES ASSUME PostInv, [Next]_vars PROVE PostInv'  OBVIOUS
<1> USE DEF PostInv
<1>1. CASE Next
  <2>1. Sound' => Sound  BY <1>1, SoundBefore
  <2>2. TypeOK' /\ Placed' /\ Written'
    BY <1>1, TypesStep, PlacedStep, WrittenStep
  <2>3. Sound' => LogOK'  BY <1>1, LogStep
  <2>4. Sound' /\ removed' = {} => Complete'  BY <1>1, <2>1, CompleteStep
  <2>5. Sound' /\ "removedlast" \notin mishaps' => Clean'  BY <1>1, <2>1, CleanStep
  <2>6. Sound' => Single'  BY <1>1, SingleStep
  <2> QED BY <2>2, <2>3, <2>4, <2>5, <2>6
<1>2. CASE UNCHANGED vars
  BY <1>2 DEF vars, TypeOK, Placed, Written, Sound, LogOK, Complete, Clean, Single, Sane, Live,
     Known, Valid, Newest, Scanned, Saving, OneEach
<1> QED BY <1>1, <1>2

LEMMA AlwaysInv == Spec => []PostInv
BY InitInv, StepInv, PTL DEF Spec

----------------------------------------------------------------------------
(* What the program promises                                               *)

\* Every file, vector, label and index keeps its type, for every image.
THEOREM PostTypeCorrect == Spec => []TypeOK
<1>1. PostInv => TypeOK  BY DEF PostInv
<1> QED BY <1>1, AlwaysInv, PTL

\* Through kills, cut and resumed scans, reloaded stage files and sweeps, an
\* inode the scan found is valid, invalidated or waiting to be swept, as
\* long as no position file was damaged (InodeScanner::scan,
\* InodeVector::save_positions and load_from_positions).
THEOREM NothingIsForgotten == Spec => []NothingForgotten
<1>1. PostInv => NothingForgotten
  BY DEF PostInv, NothingForgotten, Sound, Complete, Live
<1> QED BY <1>1, AlwaysInv, PTL

\* The recovery is never handed two inodes with one number, whatever was
\* killed, resumed or loaded twice (remove_dupes).
THEOREM OneInodePerNumber == Spec => []OnePerNumber
<1>1. PostInv => OnePerNumber
  BY DEF PostInv, OnePerNumber, Sound, Single, OneEach
<1> QED BY <1>1, AlwaysInv, PTL

\* What jfsrec_rm_logged_inode removed is in no vector the recovery is
\* handed, unless it was the record a scan resumes behind.
THEOREM RemovedForGood == Spec => []RemovedStaysAway
<1>1. ASSUME PostInv, at = "done", mishaps \cap (Damage \cup {"removedlast"}) = {}
      PROVE  removed \cap (Range(inodes) \cup Range(invalid)) = {}
  <2>1. Sound /\ "removedlast" \notin mishaps  BY <1>1 DEF Sound
  <2>2. Clean  BY <1>1, <2>1 DEF PostInv
  <2>3. removed \cap Known = {}  BY <1>1, <2>2 DEF Clean, Live
  <2>4. Known = Range(invalid) \cup Range(inodes)  BY <1>1 DEF Known, Valid
  <2> QED BY <2>3, <2>4
<1>2. PostInv => RemovedStaysAway  BY <1>1 DEF RemovedStaysAway
<1> QED BY <1>2, AlwaysInv, PTL

\* detect_ino_extents keeps every inode of ExtentLen neighbours, wherever in
\* the vector they are: the loop that stops short of the vector's first
\* inode (j > 0) costs no full extent its inodes.
THEOREM FullExtentsKept ==
  ASSUME NEW E, NEW v \in Seq(E), NEW a \in 1..Len(v), a + ExtentLen - 1 <= Len(v),
         Joined(disk, v, a, a + ExtentLen - 1), NEW n \in a..(a + ExtentLen - 1)
  PROVE  n \in KeepExtents(disk, v)
<1> DEFINE b == a + ExtentLen - 1
           F == {j \in n..Len(v) : Joined(disk, v, n, j)}
           B == {j \in {n} \cup 2..n : Joined(disk, v, j, n)}
<1>1. /\ Len(v) \in Nat /\ a \in Nat /\ n \in Nat /\ b \in Nat /\ ExtentLen \in Nat
      /\ 1 <= a /\ a <= n /\ n <= b /\ b <= Len(v) /\ DOMAIN v = 1..Len(v)
  BY InodesAssumption
<1>2. \A i, j \in a..b : Joined(disk, v, i, j)
  BY <1>1 DEF Joined
<1>3. F \in SUBSET (n..Len(v)) /\ n..b \in SUBSET F
  BY <1>1, <1>2
<1>4. B \in SUBSET (1..n) /\ (a + 1)..n \in SUBSET B
  BY <1>1, <1>2
<1> HIDE DEF F, B, b
<1>5. /\ IsFiniteSet(n..Len(v)) /\ IsFiniteSet(1..n)
      /\ Cardinality(n..b) = b - n + 1
      /\ Cardinality((a + 1)..n) = n - a
  <2>1. Cardinality((a + 1)..n) = IF a + 1 > n THEN 0 ELSE n - (a + 1) + 1
    BY <1>1, FS_Interval
  <2>2. Cardinality(n..b) = IF n > b THEN 0 ELSE b - n + 1
    BY <1>1, FS_Interval
  <2>3. \A i, j \in Nat : IsFiniteSet(i..j)  BY FS_Interval
  <2> QED BY <2>1, <2>2, <2>3, <1>1
<1>6. /\ IsFiniteSet(F) /\ IsFiniteSet(B)
      /\ Cardinality(F) >= b - n + 1 /\ Cardinality(B) >= n - a
      /\ Cardinality(F) \in Nat /\ Cardinality(B) \in Nat
  <2>1. IsFiniteSet(F) /\ IsFiniteSet(B)  BY <1>3, <1>4, <1>5, FS_Subset
  <2>2. Cardinality(n..b) <= Cardinality(F) /\ Cardinality((a + 1)..n) <= Cardinality(B)
    BY <1>3, <1>4, <2>1, FS_Subset
  <2>3. Cardinality(F) \in Nat /\ Cardinality(B) \in Nat  BY <2>1, FS_CardinalityType
  <2> QED BY <2>1, <2>2, <2>3, <1>1, <1>5
<1>7. Cardinality(F) + Cardinality(B) >= ExtentLen  BY <1>1, <1>6 DEF b
<1> QED BY <1>1, <1>7 DEF KeepExtents, Forward, Backward, F, B

----------------------------------------------------------------------------
(* What the invariant of PostProcess_proofs leaves open                    *)

\* The log misses nothing but what was removed; invalidated.txt does not
\* outlive the stage files nor hold what the process does not know of; and
\* the recovery begins behind the last filter.
Kempt == ~ Spoilt =>
  /\ NoGap(Scanned.lines, Sane \ removed)
  /\ files["invalid"].there => Newest # "none"
  /\ Live => In(files["invalid"]) \subseteq Range(invalid)
  /\ at = "done" => stage = "end"

LEMMA Unspoilt ==
  ASSUME PostInv, ~ Spoilt
  PROVE  TypeOK /\ Placed /\ Written /\ Sound /\ LogOK /\ Clean
<1>1. Sound /\ "removedlast" \notin mishaps  BY DEF Spoilt, Sound
<1> QED BY <1>1 DEF PostInv

\* A scan that is not spoilt finds everything that was not removed.
LEMMA ScanFinds ==
  ASSUME PostInv, Kempt, DoScan \/ ScanKilled \/ ScanExits, ~ Spoilt, Sound'
  PROVE  /\ NoGap(Scanned'.lines, Sane \ removed)
         /\ DoScan => Range(inodes') = Sane \ removed
         /\ \A f \in FileNames \ {"inoscan"} : files'[f] = files[f]
         /\ Newest = "none" /\ Newest' = "none"
<1>1. TypeOK /\ Placed /\ LogOK /\ Clean  BY Unspoilt
<1>2. PICK new : \E n \in 0..Len(new) :
         /\ new = Sorted(Rest(Scanned.lines, Sane)) /\ new \in Seq(D)
         /\ Range(Resumed) = Range(Scanned.lines)
         /\ files'["inoscan"] = File(Grown(Scanned.lines, new, n), << >>)
         /\ \A f \in FileNames \ {"inoscan"} : files'[f] = files[f]
         /\ DoScan => n = Len(new) /\ inodes' = Resumed \o new
  BY <1>1, Scanning
<1>3. PICK n \in 0..Len(new) :
         /\ files'["inoscan"] = File(Grown(Scanned.lines, new, n), << >>)
         /\ \A f \in FileNames \ {"inoscan"} : files'[f] = files[f]
         /\ DoScan => n = Len(new) /\ inodes' = Resumed \o new
  BY <1>2
<1> DEFINE ls == Scanned.lines  S == Sane \ removed
<1>4. /\ Sane \subseteq Nat /\ S \in SUBSET Nat /\ D \in SUBSET Nat /\ D = Sane \cup {Junk}
      /\ S \subseteq D
      /\ "inoscan" \in FileNames
  BY <1>1, DiskOK DEF TypeOK, D, Sane, FileNames
<1>5. ls \in Seq(D) /\ Increasing(ls)
  BY <1>1, <1>4, FilesOK DEF Scanned, LogOK
<1>6. Newest = "none" /\ Newest' = "none"
  <2>1. \A f \in StageFiles : ~ files[f].there /\ f # "inoscan" /\ f \in FileNames
    BY <1>1 DEF DoScan, ScanKilled, ScanExits, Placed, Rank, StageFiles, FileNames
  <2>2. \A f \in StageFiles : ~ files'[f].there  BY <2>1, <1>3
  <2> QED BY <2>1, <2>2, NewestIs, NewestFirst
<1>7. Range(ls) \subseteq S
  <2>1. Junk \notin Range(Resumed)
    <3>1. mishaps' = mishaps \cup ScanMishaps  BY DEF DoScan, ScanKilled, ScanExits
    <3> QED BY <3>1 DEF ScanMishaps, Sound, Damage
  <2>2. Range(ls) \subseteq D
    <3>1. \A x \in Range(ls) : x \in D  BY <1>5, ElementsAre
    <3> QED BY <3>1
  <2>3. removed \cap Range(ls) = {}
    <3>1. Scanned.there => Range(ls) \subseteq In(Scanned)  BY DEF In
    <3>2. ~ Scanned.there => Range(ls) = {}  BY <1>1 DEF LogOK, Range
    <3>3. removed \cap In(Scanned) = {}  BY <1>1, <1>4 DEF Clean, Scanned
    <3> QED BY <3>1, <3>2, <3>3
  <2> QED BY <1>2, <1>4, <2>1, <2>2, <2>3
<1>8. Rest(ls, Sane) = Rest(ls, S)
  <2>1. \A o \in removed : ls # << >> /\ o < Last(ls)  BY <1>1, <1>6 DEF Clean
  <2>2. ls # << >> => Last(ls) \in Nat
    <3> HIDE DEF ls
    <3> QED BY <1>4, <1>5, ElementsAre
  <2> HIDE DEF ls
  <2>3. \A o \in removed : o \in Sane => o \notin Rest(ls, Sane)
    BY <1>4, <2>1, <2>2 DEF Rest
  <2> QED BY <2>3 DEF Rest
<1>9. NoGap(ls, S)  BY DEF Kempt
<1>10. /\ new \in Seq(Rest(ls, S)) /\ Range(new) = Rest(ls, S) /\ Increasing(new)
       /\ Rest(ls, S) \subseteq D
  <2>1. /\ Rest(ls, Sane) \in SUBSET Sane /\ Rest(ls, S) \subseteq S
        /\ new = Sorted(Rest(ls, Sane))
    BY <1>2 DEF Rest
  <2>2. Rest(ls, Sane) \in SUBSET Nat /\ IsFiniteSet(Rest(ls, Sane))
    BY <2>1, <1>1, DiskOK DEF TypeOK
  <2> HIDE DEF ls, S
  <2> QED BY <1>4, <1>8, <2>1, <2>2, SortedIs DEF Increasing
<1> HIDE DEF ls, S
<1>11. NoGap(Grown(ls, new, n), S)
  BY <1>4, <1>5, <1>9, <1>10, ListGrows
<1>12. Scanned'.lines = Grown(ls, new, n)
  BY <1>3 DEF Scanned, File, ls
<1>13. ASSUME DoScan PROVE Range(inodes') = S
  <2>1. inodes' = Resumed \o new /\ Resumed \in Seq(D) /\ new \in Seq(D)
    BY <1>1, <1>2, <1>3, <1>13, ResumedIs
  <2>2. Range(inodes') = Range(ls) \cup Rest(ls, S)
    BY <1>2, <1>10, <2>1, JoinedIs DEF ls
  <2>3. \A x \in S : x \in Range(ls) \/ x \in Rest(ls, S)
    <3> TAKE x \in S
    <3>1. ls # << >> => Last(ls) \in Nat  BY <1>4, <1>5, ElementsAre
    <3>2. x \in Nat  BY <1>4
    <3> QED BY <1>9, <3>1, <3>2 DEF NoGap, Rest
  <2> QED BY <1>7, <2>2, <2>3 DEF Rest
<1> QED BY <1>3, <1>6, <1>11, <1>12, <1>13 DEF S

LEMMA KemptStep ==
  ASSUME PostInv, PostInv', Kempt, Next
  PROVE  Kempt'
<1> SUFFICES ASSUME ~ Spoilt' PROVE Kempt'  BY DEF Kempt
<1>0. ~ Spoilt /\ Sound'
  BY SoundBefore DEF Spoilt, Sound
<1>1. /\ TypeOK /\ Placed /\ Written /\ Sound /\ LogOK /\ Clean
      /\ "invalid" \in FileNames /\ "inoscan" \in FileNames /\ "invalid" # "inoscan"
      /\ DOMAIN files = FileNames /\ StageFiles \subseteq FileNames /\ "invalid" \notin StageFiles
  BY <1>0, Unspoilt DEF FileNames, StageFiles, TypeOK
<1>2. /\ NoGap(Scanned.lines, Sane \ removed)
      /\ files["invalid"].there => Newest # "none"
      /\ Live => In(files["invalid"]) \subseteq Range(invalid)
      /\ at = "done" => stage = "end"
  BY <1>0 DEF Kempt
<1> SUFFICES /\ NoGap(Scanned'.lines, Sane' \ removed')
             /\ files'["invalid"].there => Newest' # "none"
             /\ Live' => In(files'["invalid"]) \subseteq Range(invalid')
             /\ at' = "done" => stage' = "end"
  BY DEF Kempt
<1>3. Sane' = Sane
  BY DEF Next, Step, LaunchScan, Load, DoScan, Mark, Sweep, EndSweep, SaveOpen,
         SaveWrite, InvOpen, InvWrite, ScanKilled, ScanExits, Crash, RmLogged, Sane
<1>4. CASE DoScan \/ ScanKilled \/ ScanExits
  <2>1. /\ NoGap(Scanned'.lines, Sane \ removed) /\ Newest = "none"
        /\ files'["invalid"] = files["invalid"]
    BY <1>0, <1>1, <1>4, ScanFinds
  <2>2. removed' = removed /\ at' # "done"  BY <1>4 DEF DoScan, ScanKilled, ScanExits
  <2>3. ~ files["invalid"].there  BY <1>2, <2>1
  <2> QED BY <1>3, <2>1, <2>2, <2>3 DEF In
<1>5. ASSUME NEW o \in Sane, RmLogged(o) PROVE Kempt'
  <2>1. /\ files' = [n \in FileNames |-> Strip(n, o)] /\ removed' = removed \cup {o}
        /\ at = "down" /\ at' = "down"
    BY <1>5 DEF RmLogged
  <2>2. Newest' = Newest /\ files'["invalid"].there = files["invalid"].there
    <3>1. \A f \in FileNames : files'[f].there = files[f].there
      BY <1>1, <2>1, StripIs
    <3>2. \A f \in StageFiles : files'[f].there = files[f].there
      BY <3>1, <1>1
    <3> QED BY <1>1, <3>1, <3>2, NewestIs, NewestSame
  <2>3. NoGap(Scanned'.lines, Sane \ removed')
    <3> DEFINE ls == Scanned.lines
    <3>1. /\ D \subseteq Nat /\ Sane \subseteq Nat  BY <1>1, DiskOK DEF TypeOK, D
    <3>2. ls \in Seq(D) /\ Increasing(ls)  BY <1>1, FilesOK DEF Scanned, LogOK
    <3>3. Scanned'.lines = Without(ls, o)
      BY <1>1, <2>1, StripIs DEF Scanned
    <3> HIDE DEF ls
    <3>4. /\ Without(ls, o) \in Seq(D) /\ Range(Without(ls, o)) = Range(ls) \ {o}
      BY <3>2, WithoutIs
    <3>5. TopIsLast(ls)  BY <3>1, <3>2, IncreasingTop
    <3> SUFFICES ASSUME Without(ls, o) # << >>, NEW x \in Sane \ removed', x <= Last(Without(ls, o))
                 PROVE  x \in Range(ls) \ {o}
      BY <3>3, <3>4 DEF NoGap
    <3>6. Last(Without(ls, o)) \in Range(ls)
      BY <3>4, ElementsAre
    <3>7. ls # << >>
      <4>1. Range(<< >>) = {}  BY DEF Range
      <4> QED BY <3>6, <4>1
    <3>8. Last(Without(ls, o)) <= Last(ls) /\ Last(ls) \in Nat /\ Last(Without(ls, o)) \in Nat
      BY <3>1, <3>2, <3>4, <3>5, <3>6, <3>7, ElementsAre DEF TopIsLast
    <3>9. x \in Nat /\ x <= Last(ls) /\ x \in Sane \ removed /\ x # o
      BY <3>1, <3>8, <2>1
    <3> QED BY <1>2, <3>7, <3>9 DEF NoGap, ls
  <2> QED BY <1>2, <1>3, <2>1, <2>2, <2>3 DEF Kempt, Live
<1>6. CASE (Step \/ Crash) /\ ~ DoScan /\ ~ ScanExits
  <2>1. NoGap(Scanned'.lines, Sane' \ removed')
    <3>1. Scanned' = Scanned  BY <1>1, <1>6, ScannedStays
    <3>2. removed' = removed
      BY <1>6 DEF Step, LaunchScan, Load, Mark, Sweep, EndSweep, SaveOpen, SaveWrite,
         InvOpen, InvWrite, Crash
    <3> QED BY <1>2, <1>3, <3>1, <3>2
  <2>2. /\ stage \in Stages
        /\ \A s \in StageFiles : s \in FileNames /\ s # "invalid"
        /\ at \in {"open"} \cup Saving => stage \in StageFiles
        /\ at \in Saving => files[stage].there
    BY <1>1 DEF TypeOK, Placed
  <2>3. CASE LaunchScan \/ Load \/ Mark \/ Sweep \/ EndSweep
    <3>1. files' = files /\ Newest' = Newest
      BY <2>3, NewestIs DEF LaunchScan, Load, Mark, Sweep, EndSweep
    <3>2. at' = "done" => stage' = "end"
      BY <2>3 DEF LaunchScan, Load, Mark, Sweep, EndSweep
    <3>3. Live' => In(files["invalid"]) \subseteq Range(invalid')
      <4>1. CASE LaunchScan  BY <4>1 DEF LaunchScan, Live
      <4>2. CASE Load
        <5> DEFINE last == Last(inodes')
        <5>1. /\ files["invalid"].there => invalid' = Read(files["invalid"], last)
              /\ last \in D
          BY <1>1, <4>2, LoadedIs
        <5> HIDE DEF last
        <5>2. In(files["invalid"]) \subseteq Range(Read(files["invalid"], last))
          BY <1>1, <5>1, ReadAll
        <5>3. ~ files["invalid"].there => In(files["invalid"]) = {}  BY DEF In
        <5> QED BY <5>1, <5>2, <5>3
      <4>3. CASE Mark \/ EndSweep
        BY <1>2, <4>3 DEF Mark, EndSweep, Live
      <4>4. CASE Sweep
        <5>1. Live /\ inodes[k] \in D /\ invalid \in Seq(D)
          BY <1>1, <4>4 DEF Sweep, Live, TypeOK, Placed, D
        <5>2. invalid' = invalid \/ invalid' = Append(invalid, inodes[k])
          BY <4>4 DEF Sweep, Invalidate
        <5>3. Range(invalid) \subseteq Range(invalid')
          <6>1. Range(Append(invalid, inodes[k])) = Range(invalid) \cup {inodes[k]}
            BY <5>1, AppendIs
          <6> QED BY <5>2, <6>1
        <5> QED BY <1>2, <5>1, <5>3
      <4> QED BY <2>3, <4>1, <4>2, <4>3, <4>4
    <3> QED BY <1>2, <2>1, <3>1, <3>2, <3>3
  <2>4. \A ls : File(ls, << >>).there = TRUE /\ In(File(ls, << >>)) = Range(ls)
    BY DEF File, In, Range
  <2>5. Range(<< >>) = {}  BY DEF Range
  <2>6. CASE SaveOpen \/ SaveWrite
    <3>1. /\ stage \in StageFiles /\ Live /\ invalid' = invalid
          /\ \E ls : files' = [files EXCEPT ![stage] = File(ls, << >>)]
          /\ at' = "done" => stage' = "end"
      BY <2>2, <2>6 DEF SaveOpen, SaveWrite, Advance, Saving, Live
    <3>2. files'[stage].there /\ files'["invalid"] = files["invalid"]
      BY <1>1, <2>2, <2>4, <3>1
    <3>3. Newest' # "none"  BY <3>1, <3>2, NewestIs, NewestFirst
    <3> QED BY <1>2, <2>1, <3>1, <3>2, <3>3
  <2>7. CASE InvOpen \/ InvWrite
    <3>1. /\ at \in Saving /\ stage \in StageFiles /\ files[stage].there /\ invalid' = invalid
          /\ \E ls : /\ files' = [files EXCEPT !["invalid"] = File(ls, << >>)]
                     /\ ls = << >> \/ ls = invalid
          /\ at' = "done" => stage' = "end"
      BY <2>2, <2>7 DEF InvOpen, InvWrite, InvWritten, Advance, Saving
    <3>2. files'[stage].there /\ In(files'["invalid"]) \subseteq Range(invalid)
      BY <1>1, <2>2, <2>4, <2>5, <3>1
    <3>3. Newest' # "none"  BY <3>1, <3>2, NewestIs, NewestFirst
    <3> QED BY <2>1, <3>1, <3>2, <3>3
  <2>8. CASE Crash
    <3>1. at' = "down"  BY <2>8 DEF Crash
    <3>2. files'["invalid"].there => Newest' # "none"
      <4>1. CASE at \in Saving
        <5>1. Newest' = stage  BY <1>0, <1>1, <2>8, <4>1, Saved
        <5> QED BY <2>2, <4>1, <5>1 DEF StageFiles
      <4>2. CASE at \notin Saving
        BY <1>2, <2>8, <4>2, NewestIs DEF Crash, Saving
      <4> QED BY <4>1, <4>2
    <3> QED BY <2>1, <3>1, <3>2 DEF Live
  <2> QED BY <1>6, <2>3, <2>6, <2>7, <2>8 DEF Step
<1> QED BY <1>4, <1>5, <1>6 DEF Next, Kempt

LEMMA AlwaysKempt == Spec => [](PostInv /\ Kempt)
<1>1. Init => Kempt
  <2> SUFFICES ASSUME Init PROVE Kempt  OBVIOUS
  <2>1. Scanned = Missing /\ ~ files["invalid"].there
    BY DEF Init, Scanned, Missing, FileNames
  <2> QED BY <2>1 DEF Kempt, NoGap, Missing, Init, Live
<1>2. PostInv /\ PostInv' /\ Kempt /\ [Next]_vars => Kempt'
  <2> SUFFICES ASSUME PostInv, PostInv', Kempt, [Next]_vars PROVE Kempt'  OBVIOUS
  <2>1. CASE UNCHANGED vars
    BY <2>1 DEF vars, Kempt, Spoilt, Scanned, Sane, Newest, Live
  <2> QED BY <2>1, KemptStep
<1> QED BY <1>1, <1>2, AlwaysInv, PTL DEF Spec

----------------------------------------------------------------------------
(* The refinement: what FilterChain sees of the postprocessing             *)

Found      == IF Spoilt THEN {} ELSE Sane \ removed
Now        == IF Spoilt \/ ~ Live THEN Nothing ELSE Held
Checkpoint == IF Newest = "none" THEN Nothing
              ELSE [phase |-> Rank(Newest), valid |-> In(files[Newest]), aside |-> In(files["invalid"])]
Stored     == IF Spoilt THEN Nothing ELSE IF at \in Saving THEN Held ELSE Checkpoint

\* FilterChain's actions, on Found, Now, Stored and Spoilt.
LEMMA ChainActions ==
  /\ Chain!Init <=> Found \subseteq Nat /\ Now = Nothing /\ Stored = Nothing /\ Spoilt = FALSE
  /\ Chain!Scan <=>
       /\ Now = Nothing /\ Stored = Nothing
       /\ Now' = [phase |-> 1, valid |-> Found, aside |-> {}]
       /\ UNCHANGED << Found, Stored, Spoilt >>
  /\ Chain!Resume <=>
       /\ Now = Nothing /\ Stored # Nothing
       /\ Now'.phase = Stored.phase /\ Now'.valid = Stored.valid
       /\ Stored.aside \subseteq Now'.aside /\ Now'.aside \subseteq Stored.aside \cup Stored.valid
       /\ UNCHANGED << Found, Stored, Spoilt >>
  /\ Chain!Filter <=>
       /\ Now.phase \in 1..4
       /\ Now'.phase \in {Now.phase, Now.phase + 1}
       /\ Now'.valid \subseteq Now.valid /\ Now.aside \subseteq Now'.aside
       /\ Now'.valid \cup Now'.aside = Now.valid \cup Now.aside
       /\ UNCHANGED << Found, Stored, Spoilt >>
  /\ Chain!Save <=> Now # Nothing /\ Stored' = Now /\ UNCHANGED << Found, Now, Spoilt >>
  /\ Chain!Kill <=> Now # Nothing /\ Now' = Nothing /\ UNCHANGED << Found, Stored, Spoilt >>
  /\ \A o : Chain!Remove(o) <=>
       /\ Now = Nothing /\ Found' = Found \ {o}
       /\ Stored' = [Stored EXCEPT !.valid = @ \ {o}, !.aside = @ \ {o}]
       /\ UNCHANGED << Now, Spoilt >>
  /\ Chain!Spoil <=> Spoilt' = TRUE /\ Now' = Nothing /\ Stored' = Nothing /\ Found' = {}
  /\ UNCHANGED << Found, Now, Stored, Spoilt >> => UNCHANGED Chain!vars
  BY DEF Found, Now, Stored, Checkpoint, Nothing, Chain!Nothing, Chain!Final, Chain!Init,
         Chain!Scan, Chain!Resume, Chain!Filter, Chain!Save, Chain!Kill, Chain!Remove,
         Chain!Spoil, Chain!vars

\* How far a process is: at a filter, or behind it.
LEMMA HowFar ==
  ASSUME TypeOK, Placed, Kempt, ~ Spoilt, Live
  PROVE  /\ Held.phase \in 1..5
         /\ at \in {"work", "sweep"} => Held.phase \in 1..4
         /\ Held # Nothing
<1>1. /\ at \in {"work", "sweep", "open", "done"} \cup Saving
      /\ stage \in Stages
      /\ at \in {"work", "sweep"} => stage \in {"stamps", "extents", "unalloc", "dupes"}
      /\ at \in {"open"} \cup Saving => stage \in StageFiles
      /\ at = "done" => stage = "end"
  BY DEF TypeOK, Placed, Kempt, Live, Stages, Saving
<1>2. /\ Held.phase \in 1..5
      /\ at \in {"work", "sweep"} => Held.phase \in 1..4
  BY <1>1 DEF Held, Rank, StageFiles, Saving
<1>3. Nothing.phase = 0  BY DEF Nothing
<1> QED BY <1>2, <1>3

\* The inodes there are to be found change with the script only, and the
\* checkpoint with the files.
LEMMA FoundStays ==
  ASSUME UNCHANGED << disk, removed >>, ~ Spoilt, ~ Spoilt'
  PROVE  /\ Found' = Found /\ Spoilt' = Spoilt
         /\ files' = files => Checkpoint' = Checkpoint
<1>1. files' = files => Checkpoint' = Checkpoint
  BY DEF Checkpoint, Newest
<1>2. Spoilt' = Spoilt  BY DEF Spoilt
<1> QED BY <1>1, <1>2 DEF Found, Sane

LEMMA ImplScan ==
  ASSUME PostInv, Kempt, ~ Spoilt, ~ Spoilt', Sound', DoScan \/ ScanKilled \/ ScanExits \/ LaunchScan
  PROVE  Chain!Scan \/ UNCHANGED Chain!vars
<1>1. /\ TypeOK /\ Placed
      /\ ~ Live /\ at \notin Saving /\ at' \notin Saving
  BY Unspoilt DEF DoScan, ScanKilled, ScanExits, LaunchScan, Live, Saving
<1>2. Newest = "none" /\ Newest' = "none"
  BY ScanFinds, NewestIs DEF LaunchScan
<1>3. Now = Nothing /\ Stored = Nothing /\ Stored' = Nothing
  BY <1>1, <1>2 DEF Now, Stored, Checkpoint, Nothing
<1>4. Found' = Found /\ Spoilt' = Spoilt
  BY FoundStays DEF DoScan, ScanKilled, ScanExits, LaunchScan
<1>5. CASE ~ DoScan
  <2>1. Now' = Nothing  BY <1>5 DEF Now, Live, ScanKilled, ScanExits, LaunchScan, Nothing
  <2> QED BY <1>3, <1>4, <2>1, ChainActions
<1>6. CASE DoScan
  <2>1. /\ at' = "open" /\ stage' = "scan" /\ invalid' = << >>
    BY <1>1, <1>6 DEF DoScan, Placed
  <2>2. Range(inodes') = Sane \ removed  BY <1>6, ScanFinds
  <2>3. Now' = [phase |-> 1, valid |-> Sane \ removed, aside |-> {}]
    <3>1. Range(invalid') = {}  BY <2>1 DEF Range
    <3>2. Valid' = Sane \ removed  BY <2>1, <2>2 DEF Valid
    <3>3. Held' = [phase |-> 1, valid |-> Sane \ removed, aside |-> {}]
      BY <2>1, <3>1, <3>2 DEF Held, Rank
    <3> QED BY <2>1, <3>3 DEF Now, Live
  <2>4. Found = Sane \ removed  BY DEF Found
  <2> QED BY <1>3, <1>4, <2>3, <2>4, ChainActions
<1> QED BY <1>5, <1>6

LEMMA ImplLoad ==
  ASSUME PostInv, ~ Spoilt, ~ Spoilt', Load
  PROVE  Chain!Resume
<1>1. TypeOK /\ Placed /\ Junk \in D /\ "invalid" \in FileNames
  BY Unspoilt, DiskOK DEF TypeOK, D, FileNames
<1>2. /\ Newest \in StageFiles /\ Newest \in FileNames /\ Newest # "none"
      /\ files[Newest].there
      /\ inodes' = Read(files[Newest], Junk)
      /\ Last(inodes') \in Range(inodes') /\ Last(inodes') \in D
      /\ invalid' = IF files["invalid"].there THEN Read(files["invalid"], Last(inodes'))
                                              ELSE << >>
  BY <1>1, LoadedIs DEF StageFiles, FileNames
<1>3. /\ Junk \notin Range(inodes') /\ Junk \notin Range(invalid')
      /\ at' = IF stage' = "end" THEN "done" ELSE "work"
      /\ stage' = After(Newest) /\ at = "down" /\ files' = files
  <2>1. Junk \notin Range(inodes') \cup Range(invalid')
    BY DEF Load, Spoilt, Damage
  <2> QED BY <2>1 DEF Load, StageOf
<1>4. Range(inodes') = In(files[Newest])
  <2>1. /\ In(files[Newest]) \subseteq Range(inodes')
        /\ Range(inodes') \subseteq In(files[Newest]) \cup {Junk}
    BY <1>1, <1>2, ReadAll
  <2> QED BY <1>3, <2>1
<1>5. /\ In(files["invalid"]) \subseteq Range(invalid')
      /\ Range(invalid') \subseteq In(files["invalid"]) \cup In(files[Newest])
  <2> DEFINE last == Last(inodes')
  <2>1. last \in D /\ last \in Range(inodes')  BY <1>2
  <2>2. invalid' = IF files["invalid"].there THEN Read(files["invalid"], last) ELSE << >>
    BY <1>2
  <2> HIDE DEF last
  <2>3. CASE files["invalid"].there
    <3>1. /\ In(files["invalid"]) \subseteq Range(invalid')
          /\ Range(invalid') \subseteq In(files["invalid"]) \cup {last}
      BY <1>1, <2>1, <2>2, <2>3, ReadAll
    <3> QED BY <1>4, <2>1, <3>1
  <2>4. CASE ~ files["invalid"].there
    BY <2>2, <2>4 DEF In, Range
  <2> QED BY <2>3, <2>4
<1>6. /\ at' \in {"work", "done"} /\ stage' # "scan"
      /\ Rank(stage') - 1 = Rank(Newest) /\ Rank(Newest) \in 1..5
  BY <1>2, <1>3 DEF StageFiles, After, Rank
<1>7. Now' = [phase |-> Rank(Newest), valid |-> In(files[Newest]), aside |-> Range(invalid')]
  BY <1>4, <1>6 DEF Now, Live, Held, Valid
<1>8. Now = Nothing  BY <1>3 DEF Now, Live
<1>9. Stored = [phase |-> Rank(Newest), valid |-> In(files[Newest]), aside |-> In(files["invalid"])]
  BY <1>2, <1>3 DEF Stored, Checkpoint, Saving
<1>10. Stored # Nothing
  <2>1. Stored.phase # 0 /\ Nothing.phase = 0  BY <1>6, <1>9 DEF Nothing
  <2> QED BY <2>1
<1>11. Stored' = Stored
  <2>1. Checkpoint' = Checkpoint  BY <1>3 DEF Checkpoint, Newest
  <2> QED BY <1>3, <2>1 DEF Stored, Saving
<1>12. Found' = Found /\ Spoilt' = Spoilt
  BY FoundStays DEF Load
<1> QED BY <1>5, <1>7, <1>8, <1>9, <1>10, <1>11, <1>12, ChainActions

LEMMA ImplFilter ==
  ASSUME PostInv, Kempt, ~ Spoilt, ~ Spoilt', Mark \/ Sweep \/ EndSweep
  PROVE  Chain!Filter
<1>1. TypeOK /\ Placed  BY Unspoilt
<1>2. /\ Live /\ Live' /\ at \in {"work", "sweep"} /\ at \notin Saving /\ at' \notin Saving
      /\ files' = files
  BY DEF Mark, Sweep, EndSweep, Live, Saving
<1>3. Now = Held /\ Now' = Held' /\ Held.phase \in 1..4
  BY <1>1, <1>2, HowFar DEF Now
<1>4. Stored' = Stored /\ Found' = Found /\ Spoilt' = Spoilt
  <2>1. Found' = Found /\ Spoilt' = Spoilt /\ Checkpoint' = Checkpoint
    BY <1>2, FoundStays DEF Mark, Sweep, EndSweep
  <2> QED BY <1>2, <2>1 DEF Stored
<1>5. Held'.phase \in {Held.phase, Held.phase + 1}
  <2>1. CASE Mark \/ Sweep
    BY <2>1 DEF Mark, Sweep, Held
  <2>2. CASE EndSweep
    BY <1>1, <2>2 DEF EndSweep, Held, Placed, TypeOK, Stages, Rank
  <2> QED BY <2>1, <2>2
<1>6. Known' = Known  BY <1>1, KnownStays
<1>7. Valid' \subseteq Valid /\ Range(invalid) \subseteq Range(invalid')
  <2>1. CASE Mark
    <3>1. /\ at = "work" /\ at' = "sweep" /\ inodes' = inodes /\ k' = 1 /\ kept' = << >>
          /\ invalid' = invalid
      BY <2>1 DEF Mark
    <3>2. Range(inodes) = {inodes[n] : n \in 1..Len(inodes)} /\ Range(<< >>) = {}
      <4>1. \E T : inodes \in Seq(T)  BY <1>1 DEF TypeOK
      <4>2. DOMAIN inodes = 1..Len(inodes)  BY <4>1
      <4> QED BY <4>2 DEF Range
    <3> QED BY <3>1, <3>2 DEF Valid
  <2>2. CASE Sweep
    <3>1. /\ at = "sweep" /\ at' = "sweep" /\ inodes' = inodes /\ k' = k + 1
          /\ k \in Nat /\ k # 0 /\ k <= Len(inodes) /\ Len(inodes) \in Nat
          /\ inodes[k] \in D /\ kept \in Seq(D) /\ invalid \in Seq(D)
      BY <1>1, <2>2 DEF Sweep, TypeOK, Placed, D
    <3>2. \/ kept' = Append(kept, inodes[k]) /\ invalid' = invalid
          \/ kept' = kept /\ invalid' = Append(invalid, inodes[k])
      BY <2>2 DEF Sweep, Invalidate
    <3>3. /\ Range(Append(kept, inodes[k])) = Range(kept) \cup {inodes[k]}
          /\ Range(Append(invalid, inodes[k])) = Range(invalid) \cup {inodes[k]}
      BY <3>1, AppendIs
    <3>4. /\ {inodes[n] : n \in (k + 1)..Len(inodes)} \subseteq {inodes[n] : n \in k..Len(inodes)}
          /\ inodes[k] \in {inodes[n] : n \in k..Len(inodes)}
      <4>1. (k + 1)..Len(inodes) \subseteq k..Len(inodes) /\ k \in k..Len(inodes)
        BY <3>1
      <4> QED BY <4>1
    <3>5. /\ Valid = Range(kept) \cup {inodes[n] : n \in k..Len(inodes)}
          /\ Valid' = Range(kept') \cup {inodes[n] : n \in (k + 1)..Len(inodes)}
      BY <3>1 DEF Valid
    <3>6. /\ Range(kept') \subseteq Range(kept) \cup {inodes[k]}
          /\ Range(invalid) \subseteq Range(invalid')
      BY <3>2, <3>3
    <3> QED BY <3>4, <3>5, <3>6
  <2>3. CASE EndSweep
    BY <2>3 DEF EndSweep, Valid
  <2> QED BY <2>1, <2>2, <2>3
<1>8. /\ Held.valid = Valid /\ Held.aside = Range(invalid)
      /\ Held'.valid = Valid' /\ Held'.aside = Range(invalid')
  BY DEF Held
<1>9. Held'.valid \cup Held'.aside = Held.valid \cup Held.aside
  BY <1>6, <1>8 DEF Known
<1> QED BY <1>3, <1>4, <1>5, <1>7, <1>8, <1>9, ChainActions

\* A stage file and invalidated.txt that were written, or cut behind the last
\* digit, are the checkpoint of what the process had.
LEMMA SavedIsStored ==
  ASSUME PostInv, Kempt, ~ Spoilt, ~ Spoilt', Sound', at' \notin Saving,
         \/ SaveWrite /\ at' # "invopen"
         \/ InvWrite
         \/ Crash /\ at \in Saving
  PROVE  Stored = Held /\ Stored' = Held
<1>1. TypeOK /\ Placed /\ Written  BY Unspoilt
<1>2. at \in Saving /\ Live
  BY DEF SaveWrite, InvWrite, Saving, Live
<1>3. stage \in StageFiles  BY <1>1, <1>2 DEF Placed
<1>4. /\ Newest' = stage /\ stage # "none"
      /\ In(files'[stage]) = Range(inodes)
      /\ In(files'["invalid"]) = Range(invalid)
  <2>1. /\ Newest' = stage /\ In(files'[stage]) = Range(inodes)
        /\ invalid = << >> \/ In(files'["invalid"]) = Range(invalid)
        /\ In(files'["invalid"]) = Range(invalid) \/ files'["invalid"] = files["invalid"]
    BY <1>1, Saved
  <2>2. In(files["invalid"]) \subseteq Range(invalid)  BY <1>2 DEF Kempt
  <2>3. invalid = << >> => Range(invalid) = {}  BY DEF Range
  <2> QED BY <1>3, <2>1, <2>2, <2>3 DEF StageFiles
<1>5. Held = [phase |-> Rank(stage), valid |-> Range(inodes), aside |-> Range(invalid)]
  BY <1>2 DEF Held, Valid, Saving
<1>6. Checkpoint' = Held  BY <1>4, <1>5 DEF Checkpoint
<1> QED BY <1>2, <1>6 DEF Stored

LEMMA ImplSave ==
  ASSUME PostInv, Kempt, ~ Spoilt, ~ Spoilt', Sound',
         SaveOpen \/ SaveWrite \/ InvOpen \/ InvWrite
  PROVE  Chain!Save \/ UNCHANGED Chain!vars
<1>1. TypeOK /\ Placed  BY Unspoilt
<1>2. /\ Live /\ at \in {"open"} \cup Saving
      /\ inodes' = inodes /\ invalid' = invalid
  BY DEF SaveOpen, SaveWrite, InvOpen, InvWrite, Live, Saving
<1>3. stage \in StageFiles  BY <1>1, <1>2 DEF Placed
<1>4. Now = Held /\ Held # Nothing
  BY <1>1, <1>2, HowFar DEF Now
<1>5. Found' = Found /\ Spoilt' = Spoilt
  BY FoundStays DEF SaveOpen, SaveWrite, InvOpen, InvWrite
<1>6. Held = [phase |-> Rank(stage), valid |-> Range(inodes), aside |-> Range(invalid)]
  BY <1>2 DEF Held, Valid, Saving
<1>7. CASE at' \in Saving /\ stage' = stage
  <2>1. Held' = Held  BY <1>2, <1>6, <1>7 DEF Held, Valid, Saving
  <2>2. Now' = Held /\ Stored' = Held  BY <1>7, <2>1 DEF Now, Stored, Live, Saving
  <2>3. at \in Saving => Stored = Held  BY DEF Stored
  <2> QED BY <1>2, <1>4, <1>5, <2>2, <2>3, ChainActions
<1>8. CASE Advance /\ (SaveWrite \/ InvWrite)
  <2>1. /\ at' \in {"work", "done"} /\ stage' = After(stage)
    BY <1>8 DEF Advance
  <2>2. Rank(stage') - 1 = Rank(stage) /\ stage' # "scan"
    BY <1>3, <2>1 DEF StageFiles, After, Rank
  <2>3. Held' = Held
    BY <1>2, <1>6, <2>1, <2>2 DEF Held, Valid
  <2>4. Now' = Held  BY <2>1, <2>2, <2>3 DEF Now, Live
  <2>5. Stored = Held /\ Stored' = Held
    BY <1>8, <2>1, SavedIsStored DEF Saving
  <2> QED BY <1>4, <1>5, <2>4, <2>5, ChainActions
<1>9. \/ at' \in Saving /\ stage' = stage
      \/ Advance /\ (SaveWrite \/ InvWrite)
  BY DEF SaveOpen, SaveWrite, InvOpen, InvWrite, Saving
<1> QED BY <1>7, <1>8, <1>9

LEMMA ImplCrash ==
  ASSUME PostInv, Kempt, ~ Spoilt, ~ Spoilt', Sound', Crash
  PROVE  Chain!Kill
<1>1. TypeOK /\ Placed  BY Unspoilt
<1>2. Live /\ at' = "down"  BY DEF Crash, Live
<1>3. Now = Held /\ Held # Nothing /\ Now' = Nothing
  BY <1>1, <1>2, HowFar DEF Now, Live
<1>4. Found' = Found /\ Spoilt' = Spoilt /\ (files' = files => Checkpoint' = Checkpoint)
  BY FoundStays DEF Crash
<1>5. CASE at \in Saving
  <2>1. Stored' = Stored  BY <1>2, <1>5, SavedIsStored DEF Saving
  <2> QED BY <1>3, <1>4, <2>1, ChainActions
<1>6. CASE at \notin Saving
  <2>1. files' = files  BY <1>6 DEF Crash, Saving
  <2>2. Stored' = Stored  BY <1>2, <1>4, <1>6, <2>1 DEF Stored, Saving
  <2> QED BY <1>3, <1>4, <2>2, ChainActions
<1> QED BY <1>5, <1>6

\* The script's change of the checkpoint, field by field.
LEMMA StoredWithout ==
  ASSUME NEW o, NEW p, NEW v, NEW a, Stored = [phase |-> p, valid |-> v, aside |-> a],
         Stored' = [phase |-> p, valid |-> v \ {o}, aside |-> a \ {o}]
  PROVE  Stored' = [Stored EXCEPT !.valid = @ \ {o}, !.aside = @ \ {o}]
<1> DEFINE c == Stored  w == v \ {o}  b == a \ {o}
           P == {p, v, a, w, b}
           R == [phase : P, valid : P, aside : P]
<1>1. c.valid \ {o} = w /\ c.aside \ {o} = b  OBVIOUS
<1> HIDE DEF w, b
<1>2. c \in R /\ c.phase = p /\ w \in P /\ b \in P  OBVIOUS
<1> HIDE DEF P, c
<1> DEFINE d == [c EXCEPT !.valid = w, !.aside = b]
           e == [phase |-> p, valid |-> w, aside |-> b]
<1>3. d \in R /\ d.phase = p /\ d.valid = w /\ d.aside = b  BY <1>2
<1>4. e \in R /\ e.phase = p /\ e.valid = w /\ e.aside = b  BY <1>2, <1>3
<1>5. d = e
  <2> HIDE DEF d, e
  <2> QED BY <1>3, <1>4
<1> QED BY <1>1, <1>5 DEF c, w, b

LEMMA ImplRemove ==
  ASSUME PostInv, ~ Spoilt, ~ Spoilt', NEW o \in Sane, RmLogged(o)
  PROVE  o \in Found /\ Chain!Remove(o)
<1>1. TypeOK /\ LogOK /\ Clean  BY Unspoilt
<1>2. /\ files' = [n \in FileNames |-> Strip(n, o)] /\ removed' = removed \cup {o}
      /\ at = "down" /\ at' = "down" /\ disk' = disk
      /\ o \in Range(Scanned.lines)
      /\ "invalid" \in FileNames /\ StageFiles \subseteq FileNames
  BY DEF RmLogged, Scanned, FileNames
<1>3. o \notin removed
  <2>1. Scanned.there => Range(Scanned.lines) \subseteq In(Scanned)  BY DEF In
  <2>2. ~ Scanned.there => Range(Scanned.lines) = {}  BY <1>1 DEF LogOK, Range
  <2>3. removed \cap In(Scanned) = {}  BY <1>1 DEF Clean, Scanned, FileNames
  <2> QED BY <1>2, <2>1, <2>2, <2>3
<1>4. o \in Found /\ Found' = Found \ {o}
  BY <1>2, <1>3 DEF Found, Sane
<1>5. Now = Nothing /\ Now' = Nothing  BY <1>2 DEF Now, Live
<1>6. /\ \A f \in FileNames : In(files'[f]) = In(files[f]) \ {o}
      /\ \A f \in FileNames : files'[f].there = files[f].there
  BY <1>1, <1>2, StripIs
<1>7. Newest' = Newest
  <2>1. \A f \in StageFiles : files'[f].there = files[f].there
    BY <1>2, <1>6
  <2> QED BY <2>1, NewestIs, NewestSame
<1>8. Stored' = [Stored EXCEPT !.valid = @ \ {o}, !.aside = @ \ {o}]
  <2>1. Stored = Checkpoint /\ Stored' = Checkpoint'
    BY <1>2 DEF Stored, Saving
  <2>2. CASE Newest = "none"
    <3>1. /\ Stored = [phase |-> 0, valid |-> {}, aside |-> {}]
          /\ Stored' = [phase |-> 0, valid |-> {} \ {o}, aside |-> {} \ {o}]
      BY <1>7, <2>1, <2>2 DEF Checkpoint, Nothing
    <3> QED BY <3>1, StoredWithout
  <2>3. CASE Newest # "none"
    <3>1. Newest \in FileNames  BY <1>2, <2>3, NewestIs, NewestFirst
    <3>2. /\ In(files'[Newest]) = In(files[Newest]) \ {o}
          /\ In(files'["invalid"]) = In(files["invalid"]) \ {o}
      BY <1>2, <1>6, <3>1
    <3>3. /\ Checkpoint = [phase |-> Rank(Newest), valid |-> In(files[Newest]),
                           aside |-> In(files["invalid"])]
          /\ Checkpoint' = [phase |-> Rank(Newest), valid |-> In(files[Newest]) \ {o},
                            aside |-> In(files["invalid"]) \ {o}]
      BY <1>7, <2>3, <3>2 DEF Checkpoint
    <3> QED BY <2>1, <3>3, StoredWithout
  <2> QED BY <2>2, <2>3
<1>9. Spoilt' = Spoilt  BY DEF Spoilt
<1> QED BY <1>4, <1>5, <1>8, <1>9, ChainActions

LEMMA ImplStep ==
  PostInv /\ PostInv' /\ Kempt /\ [Next]_vars => [Chain!Next]_(Chain!vars)
<1> SUFFICES ASSUME PostInv, Kempt, [Next]_vars
             PROVE  Chain!Next \/ UNCHANGED Chain!vars
  OBVIOUS
<1> USE DEF Chain!Next
<1>1. Spoilt \in BOOLEAN /\ Spoilt' \in BOOLEAN  BY DEF Spoilt
<1>2. CASE UNCHANGED vars
  <2>1. UNCHANGED << Found, Now, Stored, Spoilt >>
    <3>1. UNCHANGED << Live, Held, Checkpoint, Spoilt, Sane, at, removed >>
      BY <1>2 DEF vars, Live, Held, Valid, Checkpoint, Newest, Spoilt, Sane
    <3> QED BY <3>1 DEF Found, Now, Stored
  <2> QED BY <2>1, ChainActions
<1>3. CASE Next /\ Spoilt
  <2>1. Spoilt'  BY <1>3, SoundBefore DEF Spoilt
  <2>2. /\ Found = {} /\ Now = Nothing /\ Stored = Nothing
        /\ Found' = {} /\ Now' = Nothing /\ Stored' = Nothing
    BY <1>3, <2>1 DEF Found, Now, Stored, Nothing
  <2> QED BY <1>1, <1>3, <2>1, <2>2, ChainActions
<1>4. CASE Next /\ ~ Spoilt /\ Spoilt'
  <2>1. Found' = {} /\ Now' = Nothing /\ Stored' = Nothing
    BY <1>4 DEF Found, Now, Stored, Nothing
  <2> QED BY <1>1, <1>4, <2>1, ChainActions
<1>5. CASE Next /\ ~ Spoilt /\ ~ Spoilt'
  <2>1. Sound'  BY <1>5 DEF Spoilt, Sound
  <2>2. CASE DoScan \/ ScanKilled \/ ScanExits \/ LaunchScan
    BY <1>5, <2>1, <2>2, ImplScan
  <2>3. CASE Load
    BY <1>5, <2>3, ImplLoad
  <2>4. CASE Mark \/ Sweep \/ EndSweep
    BY <1>5, <2>4, ImplFilter
  <2>5. CASE SaveOpen \/ SaveWrite \/ InvOpen \/ InvWrite
    BY <1>5, <2>1, <2>5, ImplSave
  <2>6. CASE Crash
    BY <1>5, <2>1, <2>6, ImplCrash
  <2>7. ASSUME NEW o \in Sane, RmLogged(o) PROVE Chain!Next
    BY <1>5, <2>7, ImplRemove DEF Found
  <2> QED BY <1>5, <2>2, <2>3, <2>4, <2>5, <2>6, <2>7 DEF Next, Step
<1> QED BY <1>2, <1>3, <1>4, <1>5

\* The postprocessing implements FilterChain: although the files are opened,
\* truncated and written one after the other and may be killed in between,
\* it is a chain of filters that lose no inode, with checkpoints a kill never
\* goes back behind (InodeScanner::scan, InodeVector::save_positions and
\* load_from_positions, jfsrec_rm_logged_inode).
THEOREM PostIsAFilterChain == Spec => IsAFilterChain
<1>1. Init => Chain!Init
  <2> SUFFICES ASSUME Init PROVE Chain!Init  OBVIOUS
  <2>1. TypeOK  BY InitInv DEF PostInv
  <2>2. Sane \subseteq Nat  BY <2>1, DiskOK DEF TypeOK
  <2>3. Spoilt = FALSE /\ ~ Live /\ at \notin Saving /\ removed = {}
    BY DEF Init, Spoilt, Live, Saving
  <2>4. Newest = "none"
    BY NewestIs, NewestFirst DEF Init, Missing, StageFiles, FileNames
  <2>5. Found \subseteq Nat /\ Now = Nothing /\ Stored = Nothing
    BY <2>2, <2>3, <2>4 DEF Found, Now, Stored, Checkpoint
  <2> QED BY <2>3, <2>5, ChainActions
<1> QED BY <1>1, AlwaysKempt, ImplStep, PTL DEF Spec, IsAFilterChain, Chain!Spec
=============================================================================
