------------------------- MODULE PostProcess_restart -------------------------
(***************************************************************************)
(* Proofs about PostProcess: a postprocessing that is killed and resumed   *)
(* from its position files keeps the inodes an uninterrupted one keeps,    *)
(* and among them every full inode extent.                                 *)
(***************************************************************************)
EXTENDS PostProcess_proofs

----------------------------------------------------------------------------
(* Vectors in device order                                                 *)

\* A file whose last record was read twice is in order but for its end; a
\* file that was loaded twice may have several records at its end.
Rising(v)    == \A a, b \in 1..Len(v) : a < b => v[a] <= v[b]
Ascending(v) == Rising(v) /\ \A a, b \in 1..Len(v) : a < b /\ b < Len(v) => v[a] < v[b]

LEMMA SeqFacts ==
  ASSUME NEW E, NEW v \in Seq(E)
  PROVE  /\ Len(v) \in Nat /\ DOMAIN v = 1..Len(v)
         /\ \A n \in 1..Len(v) : v[n] \in E /\ n \in Nat
         /\ Range(v) = {v[n] : n \in 1..Len(v)}
BY DEF Range

\* There is one increasing vector of the elements of a set.
LEMMA IncreasingIsSorted ==
  ASSUME NEW v \in Seq(Nat), Increasing(v)
  PROVE  v = Sorted(Range(v))
<1> DEFINE N == Len(v)  S == Range(v)  t == Sorted(S)
<1>1. N \in Nat /\ DOMAIN v = 1..N /\ (\A n \in 1..N : v[n] \in Nat)
  OBVIOUS
<1>2. S = {v[n] : n \in 1..N}  BY <1>1 DEF Range
<1>3. \A m, n \in 1..N : v[m] <= v[n] <=> m <= n
  <2> SUFFICES ASSUME NEW m \in 1..N, NEW n \in 1..N PROVE v[m] <= v[n] <=> m <= n
    OBVIOUS
  <2>1. m < n => v[m] < v[n]  BY DEF Increasing
  <2>2. n < m => v[n] < v[m]  BY DEF Increasing
  <2>3. v[m] \in Nat /\ v[n] \in Nat /\ m \in Nat /\ n \in Nat  BY <1>1
  <2>4. m = n => v[m] = v[n]  OBVIOUS
  <2> HIDE DEF N
  <2> QED BY <2>1, <2>2, <2>3, <2>4
<1> HIDE DEF N, S, t
<1>4. ASSUME NEW n \in 0..N
      PROVE  /\ IsFiniteSet({v[m] : m \in 1..n})
             /\ Cardinality({v[m] : m \in 1..n}) = n
  <2> DEFINE T == {v[m] : m \in 1..n}  f == [m \in 1..n |-> v[m]]
  <2>1. n \in Nat /\ 1..n \subseteq 1..N  BY <1>1
  <2>2. f \in Surjection(1..n, T)
    <3>1. f \in [1..n -> T]  OBVIOUS
    <3>2. \A x \in T : \E m \in 1..n : f[m] = x  OBVIOUS
    <3> HIDE DEF f, T
    <3> QED BY <3>1, <3>2 DEF Surjection
  <2>3. f \in Injection(1..n, T)
    <3>1. f \in [1..n -> T]  OBVIOUS
    <3>2. \A a, b \in 1..n : f[a] = f[b] => a = b
      <4> SUFFICES ASSUME NEW a \in 1..n, NEW b \in 1..n, v[a] = v[b] PROVE a = b
        OBVIOUS
      <4>1. a \in 1..N /\ b \in 1..N /\ v[a] \in Nat /\ v[b] \in Nat /\ a \in Nat /\ b \in Nat
        BY <1>1, <2>1
      <4>2. a <= b /\ b <= a  BY <1>3, <4>1
      <4> QED BY <4>1, <4>2
    <3> HIDE DEF f, T
    <3> QED BY <3>1, <3>2 DEF Injection, IsInjective
  <2>4. IsFiniteSet(1..n) /\ Cardinality(1..n) = n  BY <2>1, FS_Interval
  <2> HIDE DEF f, T
  <2>5. IsFiniteSet(T) /\ Cardinality(T) = n
    BY <2>2, <2>3, <2>4, FS_Surjection
  <2> QED BY <2>5 DEF T
<1>5. S \in SUBSET Nat /\ IsFiniteSet(S) /\ Cardinality(S) = N
  <2>1. N \in 0..N  BY <1>1
  <2> QED BY <1>1, <1>2, <1>4, <2>1
<1>6. \A n \in 1..N : Position(S, v[n]) = n
  <2> TAKE n \in 1..N
  <2>1. {y \in S : y <= v[n]} = {v[m] : m \in 1..n}
    <3>1. \A m \in 1..N : v[m] <= v[n] <=> m \in 1..n  BY <1>1, <1>3
    <3>2. 1..n \subseteq 1..N  BY <1>1
    <3> QED BY <1>2, <3>1, <3>2
  <2>2. n \in 0..N  BY <1>1
  <2> QED BY <1>4, <2>1, <2>2 DEF Position
<1>7. t = [n \in 1..N |-> CHOOSE x \in S : Position(S, x) = n]
  BY <1>5 DEF Sorted, Position, t
<1>8. \A n \in 1..N : t[n] = v[n]
  <2> TAKE n \in 1..N
  <2>1. v[n] \in S /\ Position(S, v[n]) = n  BY <1>2, <1>6
  <2>2. \A x \in S : Position(S, x) = n => x = v[n]
    <3> TAKE x \in S
    <3>1. PICK m \in 1..N : x = v[m]  BY <1>2
    <3> QED BY <1>6, <3>1
  <2>3. (CHOOSE x \in S : Position(S, x) = n) = v[n]  BY <2>1, <2>2
  <2> QED BY <1>7, <2>3
<1>9. t \in Seq(Nat) /\ Len(t) = N
  <2>1. t \in [1..N -> Nat] /\ DOMAIN t = 1..N  BY <1>1, <1>7, <1>8
  <2> QED BY <1>1, <2>1
<1>10. v = t
  BY <1>8, <1>9, SeqEqual DEF N
<1> QED BY <1>10 DEF t, S

\* What is left of a vector is in the vector's order.
LEMMA PickIs ==
  ASSUME NEW E, NEW v \in Seq(E), NEW is \in SUBSET (DOMAIN v)
  PROVE  /\ Pick(v, is) \in Seq(E)
         /\ Range(Pick(v, is)) = {v[n] : n \in is}
         /\ \E g \in Seq(Nat) :
              /\ Len(g) = Len(Pick(v, is)) /\ Increasing(g) /\ Range(g) = is
              /\ \A a \in 1..Len(g) : g[a] \in 1..Len(v) /\ Pick(v, is)[a] = v[g[a]]
<1> DEFINE g == Sorted(is)  p == Pick(v, is)
<1>1. /\ is \in SUBSET Nat /\ IsFiniteSet(is) /\ is \subseteq 1..Len(v)
  <2>1. DOMAIN v = 1..Len(v) /\ IsFiniteSet(1..Len(v)) /\ 1..Len(v) \subseteq Nat
    BY FS_Interval
  <2> QED BY <2>1, FS_Subset
<1>2. /\ g \in Seq(is) /\ Len(g) = Cardinality(is) /\ Range(g) = is /\ Increasing(g)
  BY <1>1, SortedIs DEF Increasing
<1>3. /\ Len(g) \in Nat /\ DOMAIN g = 1..Len(g) /\ \A a \in 1..Len(g) : g[a] \in is
  <2> HIDE DEF g
  <2> QED BY <1>2
<1>4. p = [a \in 1..Len(g) |-> v[g[a]]]
  BY <1>2 DEF Pick
<1>5. \A a \in 1..Len(g) : p[a] = v[g[a]] /\ g[a] \in 1..Len(v) /\ v[g[a]] \in E /\ g[a] \in Nat
  <2>1. \A n \in 1..Len(v) : v[n] \in E /\ n \in Nat  OBVIOUS
  <2> HIDE DEF g, p
  <2> QED BY <1>1, <1>3, <1>4, <2>1
<1>6. p \in Seq(E) /\ Len(p) = Len(g) /\ DOMAIN p = 1..Len(g) /\ g \in Seq(Nat)
  <2>1. p \in [1..Len(g) -> E] /\ DOMAIN p = 1..Len(g)
    <3> HIDE DEF g, p
    <3> QED BY <1>4, <1>5
  <2> HIDE DEF p, g
  <2>2. g \in Seq(Nat)  BY <1>1, <1>2, ElementsAre
  <2> QED BY <1>3, <2>1, <2>2
<1> HIDE DEF p, g
<1>7. Range(p) = {v[n] : n \in is}
  <2>1. \A n \in is : \E a \in 1..Len(g) : g[a] = n  BY <1>2, <1>3 DEF Range
  <2> QED BY <1>3, <1>5, <1>6, <2>1, SMTT(30) DEF Range
<1> QED BY <1>2, <1>5, <1>6, <1>7 DEF p

LEMMA PickShapes ==
  ASSUME NEW v \in Seq(Nat), NEW is \in SUBSET (DOMAIN v)
  PROVE  /\ Increasing(v) => Increasing(Pick(v, is))
         /\ Rising(v)     => Rising(Pick(v, is))
         /\ Ascending(v)  => Ascending(Pick(v, is))
<1> DEFINE p == Pick(v, is)
<1>1. PICK g \in Seq(Nat) :
        /\ Len(g) = Len(p) /\ Increasing(g)
        /\ \A a \in 1..Len(g) : g[a] \in 1..Len(v) /\ p[a] = v[g[a]]
  BY PickIs
<1> HIDE DEF p
<1>2. Len(v) \in Nat /\ Len(p) \in Nat  BY <1>1
<1>3. ASSUME NEW a \in 1..Len(p), NEW b \in 1..Len(p), a < b
      PROVE  /\ g[a] \in 1..Len(v) /\ g[b] \in 1..Len(v) /\ g[a] < g[b]
             /\ p[a] = v[g[a]] /\ p[b] = v[g[b]]
  BY <1>1, <1>3 DEF Increasing
<1>4. ASSUME NEW b \in 1..Len(p), b < Len(p)
      PROVE  g[b] < Len(v)
  <2>1. Len(p) \in 1..Len(p)  BY <1>2, <1>4
  <2>2. g[b] < g[Len(p)] /\ g[Len(p)] \in 1..Len(v) /\ g[b] \in 1..Len(v)
    BY <1>3, <1>4, <2>1
  <2> QED BY <1>2, <2>2
<1>5. Increasing(v) => Increasing(p)  BY <1>3 DEF Increasing
<1>6. Rising(v) => Rising(p)  BY <1>3 DEF Rising
<1>7. Ascending(v) => Ascending(p)
  <2>1. ASSUME Ascending(v), NEW a \in 1..Len(p), NEW b \in 1..Len(p), a < b, b < Len(p)
        PROVE  p[a] < p[b]
    BY <1>3, <1>4, <2>1 DEF Ascending
  <2> QED BY <1>6, <2>1 DEF Ascending
<1> QED BY <1>5, <1>6, <1>7 DEF p

\* An index behind all the others comes last.
LEMMA PickGrows ==
  ASSUME NEW E, NEW v \in Seq(E), NEW is \in SUBSET (DOMAIN v), NEW n \in DOMAIN v,
         \A m \in is : m < n
  PROVE  Pick(v, is \cup {n}) = Append(Pick(v, is), v[n])
<1> DEFINE js == is \cup {n}  g == Sorted(is)  h == Append(g, n)
<1>1. /\ is \in SUBSET Nat /\ IsFiniteSet(is) /\ n \in Nat
      /\ js \in SUBSET (DOMAIN v) /\ js \in SUBSET Nat /\ IsFiniteSet(js)
  <2>1. /\ DOMAIN v = 1..Len(v) /\ IsFiniteSet(1..Len(v)) /\ 1..Len(v) \subseteq Nat
        /\ js \in SUBSET (DOMAIN v)
    BY FS_Interval
  <2> HIDE DEF js
  <2> QED BY <2>1, FS_Subset
<1>2. /\ g \in Seq(is) /\ g \in Seq(Nat) /\ Len(g) = Cardinality(is) /\ Range(g) = is
      /\ Increasing(g)
  <2>1. g \in Seq(is) /\ Len(g) = Cardinality(is) /\ Range(g) = is /\ Increasing(g)
    BY <1>1, SortedIs DEF Increasing
  <2> HIDE DEF g
  <2> QED BY <1>1, <2>1, ElementsAre
<1> HIDE DEF g, js
<1>3. /\ Len(g) \in Nat /\ DOMAIN g = 1..Len(g)
      /\ \A a \in 1..Len(g) : g[a] \in is /\ g[a] < n
  BY <1>2
<1>4. /\ h \in Seq(Nat) /\ Range(h) = js /\ Len(h) = Len(g) + 1
      /\ h[Len(g) + 1] = n /\ \A a \in 1..Len(g) : h[a] = g[a]
  <2>1. Range(h) = Range(g) \cup {n}  BY <1>1, <1>2, AppendIs
  <2> QED BY <1>1, <1>2, <1>3, <2>1 DEF js
<1> HIDE DEF h
<1>5. Increasing(h)
  <2> SUFFICES ASSUME NEW a \in 1..Len(h), NEW b \in 1..Len(h), a < b
               PROVE  h[a] < h[b]
    BY DEF Increasing
  <2> DEFINE N == Len(g)
  <2>0. N \in Nat /\ a \in 1..(N + 1) /\ b \in 1..(N + 1)  BY <1>3, <1>4
  <2> HIDE DEF N
  <2>1. a \in 1..N /\ (b \in 1..N \/ b = N + 1)  BY <2>0
  <2>2. CASE b \in 1..N  BY <1>2, <1>4, <2>1, <2>2 DEF Increasing, N
  <2>3. CASE b = N + 1  BY <1>3, <1>4, <2>1, <2>3 DEF N
  <2> QED BY <2>1, <2>2, <2>3
<1>6. h = Sorted(js)  BY <1>4, <1>5, IncreasingIsSorted
<1>7. Cardinality(js) = Cardinality(is) + 1
  <2>1. n \notin is
    <3> SUFFICES ASSUME n \in is PROVE FALSE  OBVIOUS
    <3>1. n < n  OBVIOUS
    <3> QED BY <1>1, <3>1
  <2> QED BY <1>1, <2>1, FS_AddElement DEF js
<1> DEFINE p == Pick(v, is)  q == Pick(v, js)
<1>8. /\ p = [a \in 1..Len(g) |-> v[g[a]]]
      /\ q = [a \in 1..(Len(g) + 1) |-> v[h[a]]]
  BY <1>2, <1>6, <1>7 DEF Pick, g
<1>9. p \in Seq(E) /\ q \in Seq(E)
  BY <1>1, PickIs
<1> HIDE DEF p, q
<1>10. /\ Len(p) = Len(g) /\ Len(q) = Len(g) + 1
       /\ \A a \in 1..Len(g) : q[a] = p[a]
       /\ q[Len(g) + 1] = v[n]
  <2>1. DOMAIN p = 1..Len(g) /\ DOMAIN q = 1..(Len(g) + 1)  BY <1>8
  <2>2. Len(p) = Len(g) /\ Len(q) = Len(g) + 1  BY <1>3, <1>9, <2>1
  <2>3. \A a \in 1..Len(g) : q[a] = p[a]  BY <1>3, <1>4, <1>8
  <2>4. q[Len(g) + 1] = v[n]  BY <1>3, <1>4, <1>8
  <2> QED BY <2>2, <2>3, <2>4
<1>11. v[n] \in E  OBVIOUS
<1>12. q = Append(p, v[n])
  <2> DEFINE r == Append(p, v[n])
  <2>1. r \in Seq(E) /\ Len(r) = Len(q) /\ \A a \in 1..Len(q) : q[a] = r[a]
    BY <1>3, <1>9, <1>10, <1>11
  <2> HIDE DEF r
  <2>2. q = r  BY <1>9, <2>1, SeqEqual
  <2> QED BY <2>2 DEF r
<1> QED BY <1>12 DEF p, q, js

\* A vector that is in order but for its end has its last record twice.
LEMMA AscendingIs ==
  ASSUME NEW E \in SUBSET Nat, NEW v \in Seq(E), Ascending(v)
  PROVE  \/ Increasing(v)
         \/ \E w \in Seq(E) : /\ w # << >> /\ Increasing(w) /\ v = Append(w, Last(w))
                              /\ Range(v) = Range(w)
<1> SUFFICES ASSUME ~ Increasing(v)
             PROVE  \E w \in Seq(E) : /\ w # << >> /\ Increasing(w) /\ v = Append(w, Last(w))
                                      /\ Range(v) = Range(w)
  OBVIOUS
<1> DEFINE N == Len(v)
<1>1. N \in Nat /\ \A n \in 1..N : v[n] \in E /\ v[n] \in Nat
  <2>1. N \in Nat /\ \A n \in 1..N : v[n] \in E  OBVIOUS
  <2>2. \A x \in E : x \in Nat  OBVIOUS
  <2> QED BY <2>1, <2>2
<1>2. PICK a \in 1..N : \E b \in 1..N : a < b /\ ~ (v[a] < v[b])
  BY DEF Increasing
<1>3. PICK b \in 1..N : a < b /\ ~ (v[a] < v[b])
  BY <1>2
<1> HIDE DEF N
<1>4. b = N /\ v[a] = v[N]
  <2>1. ~ (b < N) /\ v[a] <= v[b]  BY <1>3 DEF Ascending, Rising, N
  <2> QED BY <1>1, <1>3, <2>1
<1>5. a = N - 1
  <2> SUFFICES ASSUME a < N - 1 PROVE FALSE  BY <1>1, <1>3, <1>4
  <2>1. N - 1 \in 1..N /\ N - 1 < N /\ N \in 1..N  BY <1>1, <1>3
  <2>2. v[a] < v[N - 1] /\ v[N - 1] <= v[N]  BY <2>1 DEF Ascending, Rising, N
  <2> QED BY <1>1, <1>4, <2>1, <2>2
<1> DEFINE w == SubSeq(v, 1, N - 1)
<1>6. /\ w \in Seq(E) /\ Len(w) = N - 1 /\ \A n \in 1..(N - 1) : w[n] = v[n] /\ n \in 1..N
      /\ N - 1 \in 1..(N - 1)
  BY <1>1, <1>5 DEF N
<1> HIDE DEF w
<1>7. Increasing(w)
  <2> SUFFICES ASSUME NEW c \in 1..(N - 1), NEW d \in 1..(N - 1), c < d
               PROVE  w[c] < w[d]
    BY <1>6 DEF Increasing
  <2>1. d < N /\ c \in 1..N /\ d \in 1..N  BY <1>1
  <2> QED BY <1>6, <2>1 DEF Ascending, N
<1>8. w # << >> /\ Last(w) = v[N] /\ Last(w) \in E
  BY <1>1, <1>4, <1>5, <1>6 DEF Last
<1>9. v = Append(w, v[N])
  <2> DEFINE r == Append(w, v[N])
  <2>1. r \in Seq(E) /\ Len(r) = N /\ \A n \in 1..N : v[n] = r[n]
    BY <1>1, <1>6, <1>8
  <2> HIDE DEF r
  <2>2. v = r  BY <2>1, SeqEqual DEF N
  <2> QED BY <2>2 DEF r
<1>10. Range(v) = Range(w)
  <2>1. Range(v) = Range(w) \cup {v[N]}
    <3>1. Range(Append(w, v[N])) = Range(w) \cup {v[N]}  BY <1>6, <1>8, AppendIs
    <3> QED BY <1>9, <3>1
  <2>2. v[N] \in Range(w)  BY <1>6, <1>8, ElementsAre
  <2> QED BY <2>1, <2>2
<1> QED BY <1>6, <1>7, <1>8, <1>9, <1>10

\* Two increasing vectors of the same inodes are one.
LEMMA IncreasingIsOne ==
  ASSUME NEW u \in Seq(Nat), NEW v \in Seq(Nat), Increasing(u), Increasing(v),
         Range(u) = Range(v)
  PROVE  u = v
BY IncreasingIsSorted

----------------------------------------------------------------------------
(* What a filter keeps of vectors of the same inodes                       *)

LEMMA VectorOK ==
  ASSUME disk \in Disks, NEW v \in Seq(D)
  PROVE  /\ v \in Seq(Nat) /\ D \in SUBSET Nat
         /\ Len(v) \in Nat /\ DOMAIN v = 1..Len(v) /\ Range(v) = {v[n] : n \in 1..Len(v)}
         /\ \A n \in 1..Len(v) : v[n] \in D /\ v[n] \in Nat
<1>1. D \in SUBSET Nat  BY DiskOK DEF D
<1>2. v \in Seq(Nat)  BY <1>1, ElementsAre
<1> HIDE DEF D
<1>3. \A n \in 1..Len(v) : v[n] \in D /\ v[n] \in Nat
  BY <1>1, SeqFacts
<1> QED BY <1>1, <1>2, <1>3, SeqFacts

LEMMA FilteredIs ==
  ASSUME disk \in Disks, NEW v \in Seq(D), NEW s \in Stages \ {"scan", "end"}
  PROVE  /\ Filtered(s, v) \in Seq(D)
         /\ Range(Filtered(s, v)) = {v[n] : n \in Keep(s, v)}
         /\ Increasing(v) => Increasing(Filtered(s, v))
         /\ Rising(v)     => Rising(Filtered(s, v))
         /\ Ascending(v)  => Ascending(Filtered(s, v))
<1>1. Keep(s, v) \in SUBSET (DOMAIN v)  BY KeepIs
<1>2. v \in Seq(Nat)  BY VectorOK
<1> QED BY <1>1, <1>2, PickIs, PickShapes DEF Filtered

\* An image with one inostamp loses no inode to filter_inostamps, however
\* often a record was read.
LEMMA OneStamp ==
  ASSUME disk \in Disks, Cardinality(Stamps(disk, Sorted(Sane))) = 1,
         NEW v \in Seq(D), Range(v) \subseteq Sane
  PROVE  KeepStamps(disk, v) = DOMAIN v
<1> DEFINE all == Sorted(Sane)
<1>1. Range(all) = Sane /\ all \in Seq(Sane)
  BY DiskOK, SortedIs
<1> HIDE DEF all
<1>2. Stamps(disk, all) = {disk[x].stamp : x \in Sane}
  BY <1>1 DEF Stamps, Range
<1>3. PICK t : \A x \in Sane : disk[x].stamp = t
  <2>1. IsFiniteSet(Sane)  BY DiskOK
  <2>2. IsFiniteSet({disk[x].stamp : x \in Sane})
    <3> DEFINE T == {disk[x].stamp : x \in Sane}  f == [x \in Sane |-> disk[x].stamp]
    <3>1. f \in [Sane -> T] /\ \A y \in T : \E x \in Sane : f[x] = y  OBVIOUS
    <3> HIDE DEF f, T
    <3>2. f \in Surjection(Sane, T)  BY <3>1 DEF Surjection
    <3>3. IsFiniteSet(T)  BY <2>1, <3>2, FS_Surjection
    <3> QED BY <3>3 DEF T
  <2>3. \E t : {disk[x].stamp : x \in Sane} = {t}
    <3> DEFINE T == {disk[x].stamp : x \in Sane}
    <3>1. IsFiniteSet(T) /\ Cardinality(T) = 1  BY <1>2, <2>2 DEF all
    <3> HIDE DEF T
    <3>2. \E t : T = {t}  BY <3>1, FS_Singleton
    <3> QED BY <3>2 DEF T
  <2> QED BY <2>3
<1>4. SUFFICES ASSUME v # << >> PROVE \A n \in DOMAIN v : disk[v[n]].stamp = MostCommon(disk, v)
  BY DEF KeepStamps, OneStampOnly
<1>5. /\ Len(v) \in Nat /\ DOMAIN v = 1..Len(v) /\ Len(v) # 0
      /\ \A n \in DOMAIN v : v[n] \in Sane /\ disk[v[n]].stamp = t
  <2>1. Len(v) \in Nat /\ DOMAIN v = 1..Len(v) /\ Len(v) # 0  BY <1>4
  <2>2. \A n \in DOMAIN v : v[n] \in Range(v)  BY DEF Range
  <2> QED BY <1>3, <2>1, <2>2
<1>6. 1 \in DOMAIN v  BY <1>5
<1>7. Stamps(disk, v) = {t} /\ t \in Nat
  <2>1. t \in Nat  BY <1>5, <1>6, DiskOK
  <2> QED BY <1>5, <1>6, <2>1 DEF Stamps
<1>8. Count(disk, v, t) \in Nat
  <2>1. {n \in DOMAIN v : disk[v[n]].stamp = t} = 1..Len(v)  BY <1>5
  <2>2. Cardinality(1..Len(v)) \in Nat
    <3>1. IsFiniteSet(1..Len(v))  BY <1>5, FS_Interval
    <3> QED BY <3>1, FS_CardinalityType
  <2> QED BY <2>1, <2>2 DEF Count
<1>9. MostCommon(disk, v) = t
  <2>1. {s \in Stamps(disk, v) :
           \A u \in Stamps(disk, v) : Count(disk, v, u) <= Count(disk, v, s)} = {t}
    BY <1>7, <1>8
  <2>2. Min({t}) = t  BY <1>7 DEF Min
  <2> QED BY <2>1, <2>2 DEF MostCommon
<1> QED BY <1>5, <1>9

LEMMA SameStamps ==
  ASSUME disk \in Disks, NEW v \in Seq(D), Range(v) = Sane,
         Increasing(v) \/ Cardinality(Stamps(disk, Sorted(Sane))) = 1
  PROVE  Range(Filtered("stamps", v)) = Range(Filtered("stamps", Sorted(Sane)))
<1> DEFINE all == Sorted(Sane)
<1>1. all \in Seq(D) /\ Range(all) = Sane /\ Increasing(all)
  <2>1. all \in Seq(Sane) /\ Range(all) = Sane /\ Increasing(all)
    BY DiskOK, SortedIs DEF Increasing
  <2>2. Sane \in SUBSET D  BY DiskOK DEF D
  <2> HIDE DEF all
  <2> QED BY <2>1, <2>2, ElementsAre
<1>2. v \in Seq(Nat) /\ all \in Seq(Nat)
  <2> HIDE DEF all
  <2> QED BY <1>1, VectorOK
<1>3. CASE Increasing(v)
  <2>1. v = Sorted(Range(v))  BY <1>2, <1>3, IncreasingIsSorted
  <2> QED BY <2>1
<1>4. CASE Cardinality(Stamps(disk, Sorted(Sane))) = 1
  <2>1. KeepStamps(disk, v) = DOMAIN v /\ KeepStamps(disk, all) = DOMAIN all
    BY <1>1, <1>4, OneStamp
  <2> HIDE DEF all
  <2>2. "stamps" \in Stages \ {"scan", "end"}  BY DEF Stages
  <2>3. \A u : Keep("stamps", u) = KeepStamps(disk, u)  BY DEF Keep
  <2>4. \A u : Range(u) = {u[n] : n \in DOMAIN u}  BY DEF Range
  <2>5. Range(Filtered("stamps", v)) = Range(v) /\ Range(Filtered("stamps", all)) = Range(all)
    BY <1>1, <2>1, <2>2, <2>3, <2>4, FilteredIs
  <2> QED BY <1>1, <2>5 DEF all
<1> QED BY <1>3, <1>4

LEMMA JoinedSelf ==
  ASSUME NEW v, NEW n \in Nat
  PROVE  Joined(disk, v, n, n)
BY DEF Joined

\* A last record that was read twice neither joins an extent nor is lost by
\* one: detect_ino_extents looks for neighbours 512 bytes apart.
LEMMA ExtentsTwice ==
  ASSUME disk \in Disks, NEW u \in Seq(D), u # << >>, NEW v \in Seq(D), v = Append(u, Last(u))
  PROVE  {v[n] : n \in KeepExtents(disk, v)} = {u[n] : n \in KeepExtents(disk, u)}
<1> DEFINE L == Len(u)
<1>1. /\ L \in Nat /\ L # 0 /\ DOMAIN u = 1..L /\ Len(v) = L + 1 /\ DOMAIN v = 1..(L + 1)
      /\ \A n \in 1..L : v[n] = u[n] /\ u[n] \in Nat
      /\ v[L + 1] = u[L] /\ u[L] \in Nat
  <2>1. \A n \in 1..L : u[n] \in Nat  BY VectorOK
  <2>2. L \in Nat /\ L # 0 /\ DOMAIN u = 1..L /\ Last(u) = u[L] /\ Last(u) \in D
    <3>1. L \in Nat /\ L # 0 /\ DOMAIN u = 1..L  OBVIOUS
    <3>2. L \in 1..L  BY <3>1
    <3> HIDE DEF L
    <3>3. u[L] \in D  BY <3>1, <3>2
    <3> QED BY <3>1, <3>3 DEF Last, L
  <2>3. /\ Len(v) = L + 1 /\ DOMAIN v = 1..(L + 1) /\ v[L + 1] = Last(u)
        /\ \A n \in 1..L : v[n] = u[n]
    BY <2>2
  <2>4. L \in 1..L  BY <2>2
  <2> QED BY <2>1, <2>2, <2>3, <2>4
<1> HIDE DEF L
<1>2. \A n \in 1..(L - 1) : Adjacent(disk, v, n) <=> Adjacent(disk, u, n)
  <2>1. \A n \in 1..(L - 1) : n \in 1..L /\ n + 1 \in 1..L  BY <1>1
  <2> QED BY <1>1, <2>1 DEF Adjacent
<1>3. ~ Adjacent(disk, v, L)
  <2>1. v[L + 1] # v[L] + 1
    <3>1. L \in 1..L  BY <1>1
    <3>2. v[L] = u[L]  BY <1>1, <3>1
    <3> QED BY <1>1, <3>2
  <2> QED BY <2>1 DEF Adjacent
<1>4. \A a, b \in 1..L : Joined(disk, v, a, b) <=> Joined(disk, u, a, b)
  <2>1. \A a, b \in 1..L : a..(b - 1) \subseteq 1..(L - 1)  BY <1>1
  <2> QED BY <1>2, <2>1 DEF Joined
<1>5. \A a \in 1..L : ~ Joined(disk, v, a, L + 1)
  <2>1. \A a \in 1..L : L \in a..(L + 1 - 1)  BY <1>1
  <2> QED BY <1>3, <2>1 DEF Joined
<1>6. \A n \in 1..L : n \in KeepExtents(disk, v) <=> n \in KeepExtents(disk, u)
  <2> TAKE n \in 1..L
  <2>1. {j \in n..(L + 1) : Joined(disk, v, n, j)} = {j \in n..L : Joined(disk, u, n, j)}
    <3>1. \A j : j \in n..(L + 1) <=> j \in n..L \/ j = L + 1  BY <1>1
    <3>2. \A j \in n..L : j \in 1..L  BY <1>1
    <3>3. \A j \in n..L : Joined(disk, v, n, j) <=> Joined(disk, u, n, j)  BY <1>4, <3>2
    <3>4. ~ Joined(disk, v, n, L + 1)  BY <1>5
    <3> QED BY <3>1, <3>3, <3>4
  <2>2. {j \in {n} \cup 2..n : Joined(disk, v, j, n)} = {j \in {n} \cup 2..n : Joined(disk, u, j, n)}
    <3>1. \A j \in {n} \cup 2..n : j \in 1..L  BY <1>1
    <3> QED BY <1>4, <3>1
  <2>3. Forward(disk, v, n) = Forward(disk, u, n)  BY <1>1, <2>1 DEF Forward, L
  <2>4. Backward(disk, v, n) = Backward(disk, u, n)  BY <2>2 DEF Backward
  <2>5. n \in DOMAIN u /\ n \in DOMAIN v  BY <1>1
  <2> QED BY <2>3, <2>4, <2>5 DEF KeepExtents
<1>7. ASSUME L + 1 \in KeepExtents(disk, v)  PROVE L \in KeepExtents(disk, u)
  <2>1. Forward(disk, v, L + 1) = 1
    <3>1. {j \in (L + 1)..Len(v) : Joined(disk, v, L + 1, j)} = {L + 1}
      <4>1. \A j : j \in (L + 1)..Len(v) <=> j = L + 1  BY <1>1
      <4>2. Joined(disk, v, L + 1, L + 1)  BY <1>1, JoinedSelf
      <4> QED BY <4>1, <4>2
    <3> QED BY <3>1, FS_Singleton DEF Forward
  <2>2. Backward(disk, v, L + 1) = 1
    <3>1. {j \in {L + 1} \cup 2..(L + 1) : Joined(disk, v, j, L + 1)} = {L + 1}
      <4>1. \A j : j \in {L + 1} \cup 2..(L + 1) => j = L + 1 \/ j \in 1..L  BY <1>1
      <4>2. Joined(disk, v, L + 1, L + 1)  BY <1>1, JoinedSelf
      <4> QED BY <1>5, <4>1, <4>2
    <3> QED BY <3>1, FS_Singleton DEF Backward
  <2>3. ExtentLen <= 2 /\ ExtentLen \in Nat
    BY <1>7, <2>1, <2>2, InodesAssumption DEF KeepExtents
  <2> DEFINE F == {j \in L..L : Joined(disk, u, L, j)}
             B == {j \in {L} \cup 2..L : Joined(disk, u, j, L)}
  <2>4. Joined(disk, u, L, L)  BY <1>1, JoinedSelf
  <2>5. L \in F /\ L \in B /\ F \subseteq 1..L /\ B \subseteq 1..L
    BY <1>1, <2>4
  <2> HIDE DEF F, B
  <2>6. Cardinality(F) >= 1 /\ Cardinality(B) >= 1 /\ Cardinality(F) \in Nat /\ Cardinality(B) \in Nat
    <3>1. IsFiniteSet(1..L)  BY <1>1, FS_Interval
    <3>2. IsFiniteSet(F) /\ IsFiniteSet(B)  BY <2>5, <3>1, FS_Subset
    <3>3. Cardinality(F) \in Nat /\ Cardinality(B) \in Nat /\ Cardinality(F) # 0 /\ Cardinality(B) # 0
      BY <2>5, <3>2, FS_CardinalityType, FS_EmptySet
    <3> QED BY <3>3
  <2>7. Forward(disk, u, L) + Backward(disk, u, L) >= ExtentLen
    <3>1. Forward(disk, u, L) = Cardinality(F) /\ Backward(disk, u, L) = Cardinality(B)
      BY DEF Forward, Backward, F, B, L
    <3> QED BY <2>3, <2>6, <3>1
  <2>8. L \in DOMAIN u  BY <1>1
  <2> QED BY <2>7, <2>8 DEF KeepExtents
<1>8. /\ KeepExtents(disk, v) \subseteq 1..(L + 1)
      /\ KeepExtents(disk, u) \subseteq 1..L
  BY <1>1 DEF KeepExtents
<1>9. \A n \in 1..(L + 1) : n \in 1..L \/ n = L + 1  BY <1>1
<1>10. \A n \in 1..L : n \in 1..(L + 1) /\ v[n] = u[n]  BY <1>1
<1>11. v[L + 1] = u[L]  BY <1>1
<1>12. ASSUME NEW n \in KeepExtents(disk, v)
       PROVE  \E m \in KeepExtents(disk, u) : v[n] = u[m]
  BY <1>6, <1>7, <1>8, <1>9, <1>10, <1>11, <1>12
<1>13. ASSUME NEW n \in KeepExtents(disk, u)
       PROVE  n \in KeepExtents(disk, v) /\ v[n] = u[n]
  BY <1>6, <1>8, <1>10, <1>13
<1> DEFINE KV == KeepExtents(disk, v)  KU == KeepExtents(disk, u)
<1> HIDE DEF KV, KU
<1>14. (\A n \in KV : \E m \in KU : v[n] = u[m]) /\ (\A n \in KU : n \in KV /\ v[n] = u[n])
  BY <1>12, <1>13 DEF KV, KU
<1>15. {v[n] : n \in KV} = {u[n] : n \in KU}
  <2>1. \A x \in {v[n] : n \in KV} : x \in {u[n] : n \in KU}
    <3> TAKE x \in {v[n] : n \in KV}
    <3>1. PICK n \in KV : x = v[n]  OBVIOUS
    <3>2. PICK m \in KU : v[n] = u[m]  BY <1>14
    <3> QED BY <3>1, <3>2, Zenon
  <2>2. \A x \in {u[n] : n \in KU} : x \in {v[n] : n \in KV}
    <3> TAKE x \in {u[n] : n \in KU}
    <3>1. PICK n \in KU : x = u[n]  OBVIOUS
    <3>2. n \in KV /\ x = v[n]  BY <1>14, <3>1
    <3> QED BY <3>2, Zenon
  <2> QED BY <2>1, <2>2, Zenon
<1> QED BY <1>15 DEF KV, KU

LEMMA SameExtents ==
  ASSUME disk \in Disks, NEW u \in Seq(D), Increasing(u), NEW v \in Seq(D), Ascending(v),
         Range(v) = Range(u)
  PROVE  Range(Filtered("extents", v)) = Range(Filtered("extents", u))
<1>1. u \in Seq(Nat) /\ v \in Seq(Nat) /\ D \in SUBSET Nat
  BY VectorOK
<1>2. "extents" \in Stages \ {"scan", "end"}  BY DEF Stages
<1>3. \A w \in Seq(D) : Range(Filtered("extents", w)) = {w[n] : n \in KeepExtents(disk, w)}
  <2>1. \A w : Keep("extents", w) = KeepExtents(disk, w)  BY DEF Keep
  <2> QED BY <1>2, <2>1, FilteredIs
<1>4. CASE Increasing(v)
  <2>1. u = v  BY <1>1, <1>4, IncreasingIsOne
  <2> QED BY <2>1
<1>5. CASE \E w \in Seq(D) : /\ w # << >> /\ Increasing(w) /\ v = Append(w, Last(w))
                             /\ Range(v) = Range(w)
  <2>1. PICK w \in Seq(D) : /\ w # << >> /\ Increasing(w) /\ v = Append(w, Last(w))
                            /\ Range(v) = Range(w)
    BY <1>5
  <2>2. w \in Seq(Nat)  BY VectorOK
  <2>3. u = w  BY <1>1, <2>1, <2>2, IncreasingIsOne
  <2>4. {v[n] : n \in KeepExtents(disk, v)} = {u[n] : n \in KeepExtents(disk, u)}
    BY <2>1, <2>3, ExtentsTwice
  <2> QED BY <1>3, <2>4
<1>6. Increasing(v) \/ \E w \in Seq(D) : /\ w # << >> /\ Increasing(w) /\ v = Append(w, Last(w))
                                         /\ Range(v) = Range(w)
  <2> HIDE DEF D
  <2> QED BY <1>1, AscendingIs
<1> QED BY <1>4, <1>5, <1>6

LEMMA SameAllocated ==
  ASSUME disk \in Disks, NEW u \in Seq(D), NEW v \in Seq(D), Range(v) = Range(u)
  PROVE  Range(Filtered("unalloc", v)) = Range(Filtered("unalloc", u))
<1>1. "unalloc" \in Stages \ {"scan", "end"}  BY DEF Stages
<1>2. \A w \in Seq(D) : Range(Filtered("unalloc", w)) = {x \in Range(w) : disk[x].nlink # 0}
  <2> TAKE w \in Seq(D)
  <2>1. Range(Filtered("unalloc", w)) = {w[n] : n \in KeepAllocated(disk, w)}
    <3>1. Keep("unalloc", w) = KeepAllocated(disk, w)  BY DEF Keep
    <3> QED BY <1>1, <3>1, FilteredIs
  <2> QED BY <2>1 DEF KeepAllocated, Range
<1> QED BY <1>2

\* The first place of an inode in a vector.
LEMMA FirstPlace ==
  ASSUME NEW v \in Seq(Nat), NEW x \in Range(v)
  PROVE  \E n \in 1..Len(v) : v[n] = x /\ \A m \in 1..Len(v) : v[m] = x => n <= m
<1> DEFINE S == {n \in 1..Len(v) : v[n] = x}  t == Sorted(S)
<1>1. Len(v) \in Nat /\ DOMAIN v = 1..Len(v)  OBVIOUS
<1>2. S \in SUBSET Nat /\ IsFiniteSet(S) /\ S # {}
  <2>1. S # {}  BY <1>1 DEF Range
  <2>2. IsFiniteSet(1..Len(v)) /\ S \in SUBSET (1..Len(v)) /\ 1..Len(v) \subseteq Nat
    BY <1>1, FS_Interval
  <2> HIDE DEF S
  <2> QED BY <2>1, <2>2, FS_Subset
<1> HIDE DEF S
<1>3. t \in Seq(S) /\ Range(t) = S /\ \A a, b \in 1..Len(t) : a < b => t[a] < t[b]
  BY <1>2, SortedIs
<1> HIDE DEF t
<1>4. Len(t) \in Nat /\ DOMAIN t = 1..Len(t) /\ \A a \in 1..Len(t) : t[a] \in S /\ t[a] \in Nat
  <2>1. \A y \in S : y \in Nat  BY <1>2
  <2> QED BY <1>3, <2>1
<1>5. \A m \in S : \E a \in 1..Len(t) : t[a] = m
  BY <1>3, <1>4 DEF Range
<1>6. 1 \in 1..Len(t)
  <2>1. PICK a \in 1..Len(t) : TRUE  BY <1>2, <1>5
  <2> QED BY <1>4, <2>1
<1>7. \A a \in 1..Len(t) : t[1] <= t[a]
  <2> TAKE a \in 1..Len(t)
  <2>1. a = 1 \/ 1 < a  BY <1>4
  <2>2. 1 < a => t[1] < t[a]  BY <1>3, <1>6
  <2> QED BY <1>4, <1>6, <2>1, <2>2
<1>8. t[1] \in S /\ \A m \in S : t[1] <= m
  BY <1>4, <1>5, <1>6, <1>7
<1> QED BY <1>8 DEF S

\* No other inode with its number, of those in S, is to be preferred to x.
LatestIn(S, x) == \A y \in S : disk[y].number = disk[x].number =>
                    \/ disk[y].otime < disk[x].otime
                    \/ disk[y].otime = disk[x].otime /\ x <= y

LEMMA SameLatest ==
  ASSUME disk \in Disks, NEW u \in Seq(D), Rising(u), NEW v \in Seq(D), Rising(v),
         Range(v) = Range(u)
  PROVE  Range(Filtered("dupes", v)) = Range(Filtered("dupes", u))
<1>1. "dupes" \in Stages \ {"scan", "end"}  BY DEF Stages
<1>2. ASSUME NEW w \in Seq(D), Rising(w)
      PROVE  Range(Filtered("dupes", w)) = {x \in Range(w) : LatestIn(Range(w), x)}
  <2>1. Range(Filtered("dupes", w)) = {w[n] : n \in KeepLatest(disk, w)}
    BY <1>1, FilteredIs, KeepIs
  <2>2. /\ w \in Seq(Nat) /\ DOMAIN w = 1..Len(w) /\ Range(w) = {w[n] : n \in 1..Len(w)}
        /\ Len(w) \in Nat /\ \A n \in 1..Len(w) : w[n] \in Nat /\ w[n] \in D
    BY VectorOK
  <2>3. ASSUME NEW n \in KeepLatest(disk, w)
        PROVE  w[n] \in Range(w) /\ LatestIn(Range(w), w[n])
    <3>1. /\ n \in 1..Len(w)
          /\ \A m \in 1..Len(w) : disk[w[m]].number = disk[w[n]].number =>
               \/ disk[w[m]].otime < disk[w[n]].otime
               \/ disk[w[m]].otime = disk[w[n]].otime /\ n <= m
      BY <2>2, <2>3 DEF KeepLatest
    <3>2. \A m \in 1..Len(w) : n <= m => w[n] <= w[m]
      BY <1>2, <2>2, <3>1 DEF Rising
    <3> QED BY <2>2, <3>1, <3>2 DEF LatestIn
  <2>4. ASSUME NEW x \in Range(w), LatestIn(Range(w), x)
        PROVE  \E n \in KeepLatest(disk, w) : w[n] = x
    <3>1. PICK n \in 1..Len(w) : w[n] = x /\ \A m \in 1..Len(w) : w[m] = x => n <= m
      BY <2>2, FirstPlace
    <3>2. ASSUME NEW m \in 1..Len(w), x <= w[m]  PROVE n <= m
      <4>1. CASE w[m] = x  BY <3>1, <4>1
      <4>2. CASE w[m] # x
        <5>1. m < n => w[m] <= w[n]  BY <1>2 DEF Rising
        <5>2. w[m] \in Nat /\ x \in Nat /\ m \in Nat /\ n \in Nat  BY <2>2, <3>1
        <5> QED BY <3>1, <3>2, <4>2, <5>1, <5>2
      <4> QED BY <4>1, <4>2
    <3>3. \A m \in 1..Len(w) : disk[w[m]].number = disk[w[n]].number =>
               \/ disk[w[m]].otime < disk[w[n]].otime
               \/ disk[w[m]].otime = disk[w[n]].otime /\ n <= m
      BY <2>2, <2>4, <3>1, <3>2 DEF LatestIn
    <3>4. n \in KeepLatest(disk, w)  BY <2>2, <3>3 DEF KeepLatest
    <3> QED BY <3>1, <3>4
  <2> DEFINE K == KeepLatest(disk, w)  R == Range(w)
  <2>5. (\A n \in K : w[n] \in R /\ LatestIn(R, w[n])) /\ (\A x \in R : LatestIn(R, x) => \E n \in K : w[n] = x)
    BY <2>3, <2>4
  <2> HIDE DEF K, R
  <2>6. {w[n] : n \in K} = {x \in R : LatestIn(R, x)}
    <3>1. \A x \in {w[n] : n \in K} : x \in {y \in R : LatestIn(R, y)}  BY <2>5, Zenon
    <3>2. \A x \in {y \in R : LatestIn(R, y)} : x \in {w[n] : n \in K}
      <4> TAKE x \in {y \in R : LatestIn(R, y)}
      <4>1. PICK n \in K : w[n] = x  BY <2>5
      <4> QED BY <4>1, Zenon
    <3> QED BY <3>1, <3>2, Zenon
  <2> QED BY <2>1, <2>6 DEF K, R
<1> QED BY <1>2

----------------------------------------------------------------------------
(* The inductive invariant                                                 *)

\* What an uninterrupted run holds behind each of its filters.
All        == Sorted(Sane)
OfOneStamp == Filtered("stamps", All)
InExtents  == Filtered("extents", OfOneStamp)
Allocated  == Filtered("unalloc", InExtents)

Stop(n) == IF      n = 1 THEN All
           ELSE IF n = 2 THEN OfOneStamp
           ELSE IF n = 3 THEN InExtents
           ELSE IF n = 4 THEN Allocated ELSE Fresh

\* remove_marked has come as far as k.
Swept == at = "sweep" =>
  /\ keep = Keep(stage, inodes)
  /\ kept = Pick(inodes, {m \in keep : m < k})

\* The vector holds what an uninterrupted run holds at this place, in device
\* order, and only the vector read from inoscan_positions.txt has a record
\* twice before detect_ino_extents.
InStep == Live =>
  /\ Range(inodes) = Range(Stop(Held.phase)) /\ Rising(inodes)
  /\ Held.phase <= 2 => Ascending(inodes)
  /\ Held.phase <= 2 /\ "reloaded" \notin mishaps => Increasing(inodes)
  /\ Held.phase = 1 /\ at \in {"open"} \cup Saving => Increasing(inodes)

\* So does the newest stage file.
RecordsIn(f) == files[f].lines \o files[f].tail
Resumable == at \notin Saving /\ Newest # "none" =>
  /\ Range(RecordsIn(Newest)) = Range(Stop(Rank(Newest)))
  /\ Rising(RecordsIn(Newest))
  /\ Newest = "scan" => Increasing(RecordsIn(Newest))

Onward == /\ Swept
          /\ at = "done" => stage = "end"
          /\ Undisturbed => InStep /\ Resumable

\* The filters on the way are in order.
LEMMA StopIs ==
  ASSUME disk \in Disks, NEW n \in 1..5
  PROVE  Stop(n) \in Seq(D) /\ Increasing(Stop(n))
<1> DEFINE Good(v) == v \in Seq(D) /\ Increasing(v)
<1>1. Good(All)
  <2>1. All \in Seq(Sane) /\ Increasing(All)
    BY DiskOK, SortedIs DEF Increasing, All
  <2>2. Sane \in SUBSET D  BY DiskOK DEF D
  <2> QED BY <2>1, <2>2, ElementsAre
<1>2. \A s \in Stages \ {"scan", "end"} : \A v : Good(v) => Good(Filtered(s, v))
  BY FilteredIs
<1>3. {"stamps", "extents", "unalloc", "dupes"} \subseteq Stages \ {"scan", "end"}
  BY DEF Stages
<1> HIDE DEF Good
<1>4. Good(OfOneStamp)  BY <1>1, <1>2, <1>3 DEF OfOneStamp
<1>5. Good(InExtents)   BY <1>4, <1>2, <1>3 DEF InExtents
<1>6. Good(Allocated)   BY <1>5, <1>2, <1>3 DEF Allocated
<1>7. Good(Fresh)
  <2>1. Fresh = Filtered("dupes", Allocated)
    BY DEF Fresh, Allocated, InExtents, OfOneStamp, All
  <2> QED BY <1>6, <2>1, <1>2, <1>3
<1>8. n = 1 \/ n = 2 \/ n = 3 \/ n = 4 \/ n = 5  OBVIOUS
<1>9. Good(Stop(n))  BY <1>1, <1>4, <1>5, <1>6, <1>7, <1>8 DEF Stop
<1> QED BY <1>9 DEF Good

\* A filter takes a vector that is in step to the next stop.
LEMMA NextStop ==
  ASSUME disk \in Disks, NEW s \in Stages \ {"scan", "end"}, NEW v \in Seq(D), Rising(v),
         Range(v) = Range(Stop(Rank(s) - 1)),
         Rank(s) - 1 <= 2 => Ascending(v),
         Rank(s) - 1 = 1 => Increasing(v) \/ Cardinality(Stamps(disk, Sorted(Sane))) = 1
  PROVE  /\ Range(Filtered(s, v)) = Range(Stop(Rank(s))) /\ Rising(Filtered(s, v))
         /\ Ascending(v)  => Ascending(Filtered(s, v))
         /\ Increasing(v) => Increasing(Filtered(s, v))
<1>1. s \in {"stamps", "extents", "unalloc", "dupes"}  BY DEF Stages
<1>2. /\ Stop(1) = All /\ Stop(2) = OfOneStamp /\ Stop(3) = InExtents /\ Stop(4) = Allocated
      /\ Stop(5) = Fresh
  BY DEF Stop
<1>3. \A n \in 1..5 : Stop(n) \in Seq(D) /\ Increasing(Stop(n)) /\ Rising(Stop(n))
  <2> TAKE n \in 1..5
  <2>1. Stop(n) \in Seq(D) /\ Increasing(Stop(n))  BY StopIs
  <2>2. Rising(Stop(n))
    <3> DEFINE u == Stop(n)
    <3>1. \A m \in 1..Len(u) : u[m] \in Nat  BY <2>1, VectorOK
    <3> HIDE DEF u
    <3>2. Increasing(u) => Rising(u)  BY <3>1 DEF Increasing, Rising
    <3> QED BY <2>1, <3>2 DEF u
  <2> QED BY <2>1, <2>2
<1>4. Range(Filtered(s, v)) = Range(Stop(Rank(s)))
  <2>1. CASE s = "stamps"
    <3>1. Rank(s) = 2  BY <2>1 DEF Rank
    <3>2. Range(v) = Range(All) /\ (Increasing(v) \/ Cardinality(Stamps(disk, Sorted(Sane))) = 1)
      BY <3>1, <1>2
    <3>3. Range(v) = Sane  BY <3>2, DiskOK, SortedIs DEF All
    <3>4. Range(Filtered("stamps", v)) = Range(Filtered("stamps", Sorted(Sane)))
      BY <3>2, <3>3, SameStamps
    <3> QED BY <2>1, <3>1, <3>4, <1>2 DEF OfOneStamp, All
  <2>2. CASE s = "extents"
    <3>1. Rank(s) = 3  BY <2>2 DEF Rank
    <3>2. Range(v) = Range(OfOneStamp) /\ Ascending(v)
      BY <3>1, <1>2
    <3>3. OfOneStamp \in Seq(D) /\ Increasing(OfOneStamp)  BY <1>2, <1>3
    <3>4. Range(Filtered("extents", v)) = Range(Filtered("extents", OfOneStamp))
      BY <3>2, <3>3, SameExtents
    <3> QED BY <2>2, <3>1, <3>4, <1>2 DEF InExtents
  <2>3. CASE s = "unalloc"
    <3>1. Rank(s) = 4  BY <2>3 DEF Rank
    <3>2. Range(v) = Range(InExtents) /\ InExtents \in Seq(D)
      BY <3>1, <1>2, <1>3
    <3>3. Range(Filtered("unalloc", v)) = Range(Filtered("unalloc", InExtents))
      BY <3>2, SameAllocated
    <3> QED BY <2>3, <3>1, <3>3, <1>2 DEF Allocated
  <2>4. CASE s = "dupes"
    <3>1. Rank(s) = 5  BY <2>4 DEF Rank
    <3>2. Range(v) = Range(Allocated) /\ Allocated \in Seq(D) /\ Rising(Allocated)
      BY <3>1, <1>2, <1>3
    <3>3. Range(Filtered("dupes", v)) = Range(Filtered("dupes", Allocated))
      BY <3>2, SameLatest
    <3>4. Fresh = Filtered("dupes", Allocated)
      BY DEF Fresh, Allocated, InExtents, OfOneStamp, All
    <3> QED BY <2>4, <3>1, <3>3, <3>4, <1>2
  <2> QED BY <1>1, <2>1, <2>2, <2>3, <2>4
<1> QED BY <1>4, FilteredIs

----------------------------------------------------------------------------
(* Every step keeps it                                                     *)

LEMMA EmptyPick ==
  ASSUME NEW E, NEW v \in Seq(E)
  PROVE  Pick(v, {}) = << >>
<1> DEFINE p == Pick(v, {})
<1>1. p \in Seq(E) /\ Range(p) = {v[n] : n \in {}}
  BY PickIs
<1> HIDE DEF p
<1>2. Range(p) = {}  BY <1>1
<1>3. p = << >>  BY <1>1, <1>2, ElementsAre
<1> QED BY <1>3 DEF p

LEMMA ImageStays ==
  ASSUME Next
  PROVE  disk' = disk /\ D' = D /\ Sane' = Sane
BY DEF Next, Step, LaunchScan, Load, DoScan, Mark, Sweep, EndSweep, SaveOpen,
       SaveWrite, InvOpen, InvWrite, ScanKilled, ScanExits, Crash, RmLogged, D, Sane

LEMMA SweptStep ==
  ASSUME TypeOK, Placed, Swept, Next
  PROVE  Swept'
<1> SUFFICES ASSUME at' = "sweep"
             PROVE  keep' = Keep(stage, inodes)' /\ kept' = Pick(inodes', {m \in keep' : m < k'})
  BY DEF Swept
<1>1. Mark \/ Sweep
  BY DEF Next, Step, LaunchScan, Load, DoScan, Mark, Sweep, EndSweep, SaveOpen,
         SaveWrite, InvOpen, InvWrite, ScanKilled, ScanExits, Crash, RmLogged, Advance
<1>2. inodes \in Seq(D) /\ inodes' = inodes /\ stage' = stage /\ stage \in Stages
      /\ DOMAIN inodes = 1..Len(inodes) /\ Len(inodes) \in Nat
  BY <1>1 DEF Mark, Sweep, TypeOK, D
<1>3. Keep(stage, inodes)' = Keep(stage, inodes)
  BY <1>2, ImageStays DEF Keep
<1>4. stage \in Stages \ {"scan", "end"}
  BY <1>1, <1>2 DEF Mark, Sweep, Placed
<1>5. Keep(stage, inodes) \in SUBSET (DOMAIN inodes)  BY <1>4, KeepIs
<1>6. CASE Mark
  <2>1. keep' = Keep(stage, inodes) /\ k' = 1 /\ kept' = << >>  BY <1>6 DEF Mark
  <2>2. {m \in keep' : m < k'} = {}
    <3>1. \A m \in DOMAIN inodes : ~ (m < 1)  BY <1>2
    <3> QED BY <1>5, <2>1, <3>1
  <2>3. Pick(inodes, {}) = << >>  BY <1>2, EmptyPick
  <2> QED BY <1>2, <1>3, <2>1, <2>2, <2>3
<1>7. CASE Sweep
  <2>1. /\ keep = Keep(stage, inodes) /\ kept = Pick(inodes, {m \in keep : m < k})
        /\ keep' = keep /\ k' = k + 1 /\ k \in Nat /\ k # 0 /\ k <= Len(inodes)
        /\ IF k \in keep THEN kept' = Append(kept, inodes[k]) ELSE kept' = kept
    BY <1>7 DEF Sweep, Swept, Placed, TypeOK, Invalidate
  <2>2. k \in DOMAIN inodes /\ keep \in SUBSET (DOMAIN inodes)  BY <1>2, <1>5, <2>1
  <2> DEFINE is == {m \in keep : m < k}
  <2>3. /\ is \in SUBSET (DOMAIN inodes) /\ \A m \in is : m < k
        /\ \A m \in keep : m < k + 1 <=> m < k \/ m = k
    BY <1>2, <2>1, <2>2
  <2>4. {m \in keep : m < k'} = IF k \in keep THEN is \cup {k} ELSE is
    BY <2>1, <2>3
  <2> HIDE DEF is
  <2>5. Pick(inodes, is \cup {k}) = Append(Pick(inodes, is), inodes[k])
    BY <1>2, <2>2, <2>3, PickGrows
  <2> QED BY <1>2, <1>3, <2>1, <2>4, <2>5 DEF is
<1> QED BY <1>1, <1>6, <1>7

\* The filter leaves what it keeps of the vector.
LEMMA SweepEnds ==
  ASSUME TypeOK, Placed, Swept, EndSweep
  PROVE  inodes' = Filtered(stage, inodes) /\ stage \in Stages \ {"scan", "end"}
<1>1. /\ keep = Keep(stage, inodes) /\ kept = Pick(inodes, {m \in keep : m < k})
      /\ k > Len(inodes) /\ inodes' = kept /\ stage \in Stages \ {"scan", "end"}
      /\ inodes \in Seq(D) /\ k \in Nat
  BY DEF EndSweep, Swept, Placed, TypeOK, D
<1>2. keep \in SUBSET (DOMAIN inodes)  BY <1>1, KeepIs
<1>3. \A m \in DOMAIN inodes : m < k
  <2> DEFINE N == Len(inodes)
  <2>1. DOMAIN inodes = 1..N /\ N \in Nat  BY <1>1
  <2>2. k > N  BY <1>1
  <2> HIDE DEF N
  <2> QED BY <1>1, <2>1, <2>2
<1>4. {m \in keep : m < k} = keep  BY <1>2, <1>3
<1> QED BY <1>1, <1>4 DEF Filtered

LEMMA UndisturbedBefore ==
  ASSUME Next, Undisturbed'
  PROVE  /\ Undisturbed /\ Sound /\ Sound' /\ removed' = {} /\ removed = {}
         /\ "junk" \notin mishaps' /\ "cut" \notin mishaps' /\ "gap" \notin mishaps'
         /\ "cutinvalid" \notin mishaps' /\ "resumed" \notin mishaps'
<1>1. mishaps \subseteq mishaps'  BY SoundBefore
<1>2. removed \subseteq removed'
  BY DEF Next, Step, LaunchScan, Load, DoScan, Mark, Sweep, EndSweep, SaveOpen,
         SaveWrite, InvOpen, InvWrite, ScanKilled, ScanExits, Crash, RmLogged
<1>3. Stamps(disk', Sorted(Sane')) = Stamps(disk, Sorted(Sane))
  BY ImageStays
<1>4. /\ mishaps' \cap (Damage \cup {"resumed"}) = {} /\ removed' = {}
      /\ "reloaded" \in mishaps' => Cardinality(Stamps(disk, Sorted(Sane))) = 1
  BY <1>3 DEF Undisturbed
<1>5. Undisturbed  BY <1>1, <1>2, <1>4 DEF Undisturbed
<1> QED BY <1>1, <1>2, <1>4, <1>5 DEF Sound, Damage

LEMMA StopStays ==
  ASSUME Next
  PROVE  \A n : Stop(n)' = Stop(n)
<1>1. disk' = disk /\ Sane' = Sane  BY ImageStays
<1>2. All' = All  BY <1>1 DEF All
<1>3. OfOneStamp' = OfOneStamp  BY <1>1, <1>2 DEF OfOneStamp, Filtered, Keep
<1>4. InExtents' = InExtents    BY <1>1, <1>3 DEF InExtents, Filtered, Keep
<1>5. Allocated' = Allocated    BY <1>1, <1>4 DEF Allocated, Filtered, Keep
<1>6. Fresh = Filtered("dupes", Allocated)
  BY DEF Fresh, Allocated, InExtents, OfOneStamp, All
<1>7. Fresh' = Filtered("dupes", Allocated)'
  BY DEF Fresh, Allocated, InExtents, OfOneStamp, All
<1>8. Fresh' = Fresh  BY <1>1, <1>5, <1>6, <1>7 DEF Filtered, Keep
<1> QED BY <1>2, <1>3, <1>4, <1>5, <1>8 DEF Stop

LEMMA PhaseIs ==
  /\ Held.phase = IF at \in {"work", "sweep", "done"} THEN Rank(stage) - 1 ELSE Rank(stage)
  /\ Held'.phase = IF at' \in {"work", "sweep", "done"} THEN Rank(stage') - 1 ELSE Rank(stage')
BY DEF Held

LEMMA RankIs ==
  ASSUME NEW s \in Stages
  PROVE  /\ Rank(s) \in 1..6
         /\ s # "end" => Rank(After(s)) = Rank(s) + 1
         /\ s \notin {"scan", "end"} => Rank(s) \in 2..5
         /\ Rank(s) = 1 <=> s = "scan"
         /\ Rank(s) = 2 <=> s = "stamps"
BY DEF Stages, Rank, After

\* What a process that reads a stage file goes on with.
LEMMA LoadInStep ==
  ASSUME PostInv, Onward, Load, Next, Undisturbed'
  PROVE  InStep' /\ Resumable'
<1>1. /\ TypeOK /\ InStep /\ Resumable /\ "junk" \notin mishaps' /\ at = "down"
  BY UndisturbedBefore DEF PostInv, Onward, Load
<1>2. /\ Newest \in StageFiles /\ Newest # "none" /\ Newest \in FileNames /\ Newest \in Stages
      /\ inodes' = Read(files[Newest], Junk) /\ inodes' \in Seq(D)
      /\ files' = files /\ Newest' = Newest /\ at' \notin Saving /\ at \notin Saving
      /\ stage' = After(Newest) /\ at' \in {"down", "work", "done"}
  BY <1>1, LoadedIs, NewestIs
     DEF Load, StageOf, StageFiles, FileNames, Saving, Stages
<1> DEFINE f == files[Newest]  w == RecordsIn(Newest)
<1>3. /\ Range(w) = Range(Stop(Rank(Newest))) /\ Rising(w)
      /\ Newest = "scan" => Increasing(w)
  BY <1>1, <1>2 DEF Resumable
<1>4. f.lines \in Seq(D) /\ f.tail \in Seq(D) /\ w = f.lines \o f.tail /\ w \in Seq(D)
  <2>1. f.lines \in Seq(D) /\ f.tail \in Seq(D) /\ w = f.lines \o f.tail
    BY <1>1, <1>2, FilesOK DEF RecordsIn
  <2>2. w \in Seq(D)  BY <2>1, JoinedIs
  <2> QED BY <2>1, <2>2
<1>5. Junk \in D /\ Junk \notin Range(inodes') /\ disk \in Disks
  <2>1. Junk \notin Range(inodes')  BY <1>1 DEF Load
  <2> QED BY <1>1, <2>1, DiskOK DEF TypeOK, D
<1>6. inodes' = w \/ (w # << >> /\ inodes' = Append(w, Last(w)))
  <2>1. CASE f.tail # << >>
    BY <1>2, <1>4, <2>1 DEF Read, Records
  <2>2. CASE f.tail = << >> /\ f.lines # << >>
    <3>1. w = f.lines  BY <1>4, <2>2, JoinedIs
    <3> QED BY <1>2, <2>2, <3>1 DEF Read, Records, Last
  <2>3. CASE f.tail = << >> /\ f.lines = << >>
    <3>1. Junk \in Range(inodes')  BY <1>2, <1>4, <1>5, <2>3, ReadIs
    <3> QED BY <1>5, <3>1
  <2> QED BY <2>1, <2>2, <2>3
<1> HIDE DEF w, f
<1>7. /\ Range(inodes') = Range(w) /\ Rising(inodes')
      /\ Increasing(w) => Ascending(inodes')
  <2>0. /\ Len(w) \in Nat /\ DOMAIN w = 1..Len(w) /\ w \in Seq(Nat)
        /\ \A n \in 1..Len(w) : w[n] \in D /\ w[n] \in Nat
    BY <1>4, <1>5, VectorOK
  <2>1. CASE inodes' = w
    BY <1>3, <2>1 DEF Ascending, Increasing
  <2>2. CASE w # << >> /\ inodes' = Append(w, Last(w))
    <3> DEFINE N == Len(w)  v == Append(w, w[N])
    <3>1. N \in Nat /\ N # 0 /\ N \in 1..N /\ w[N] \in D /\ Last(w) = w[N]
      BY <2>0, <2>2 DEF Last
    <3>2. /\ Len(v) = N + 1 /\ v[N + 1] = w[N] /\ \A n \in 1..N : v[n] = w[n]
      BY <2>0, <3>1
    <3>3. Range(v) = Range(w) \cup {w[N]} /\ w[N] \in Range(w)
      <4> DEFINE x == w[N]
      <4>0. x \in D /\ w \in Seq(D)  BY <1>4, <3>1
      <4> HIDE DEF v, x
      <4>1. Range(Append(w, x)) = Range(w) \cup {x}  BY <4>0, AppendIs
      <4>2. w[N] \in Range(w)  BY <2>0, <3>1 DEF Range
      <4> QED BY <4>1, <4>2 DEF v, x
    <3>4. inodes' = v  BY <2>2, <3>1
    <3> HIDE DEF v, N
    <3>5. \A a, b \in 1..Len(v) : a < b => a \in 1..N /\ (b \in 1..N \/ b = N + 1) /\ (b < Len(v) => b \in 1..N)
      BY <3>1, <3>2
    <3>6. \A a, b \in 1..N : a <= b => w[a] <= w[b]
      <4> TAKE a, b \in 1..N
      <4>1. a = b \/ a < b \/ b < a  BY <3>1
      <4>2. a < b => w[a] <= w[b]  BY <1>3 DEF Rising, N
      <4>3. w[a] <= w[a]  BY <2>0 DEF N
      <4>4. a < b \/ a = b => w[a] <= w[b]  BY <4>2, <4>3
      <4> QED BY <3>1, <4>1, <4>4
    <3>7. \A a \in 1..N : w[a] <= w[N]
      <4> TAKE a \in 1..N
      <4>1. a <= N  BY <3>1
      <4> QED BY <3>1, <3>6, <4>1
    <3>8. Rising(v)
      <4> SUFFICES ASSUME NEW a \in 1..Len(v), NEW b \in 1..Len(v), a < b PROVE v[a] <= v[b]
        BY DEF Rising
      <4>1. a <= b  BY <3>1, <3>2
      <4> QED BY <3>2, <3>5, <3>6, <3>7, <4>1
    <3>9. Increasing(w) => Ascending(v)
      <4> SUFFICES ASSUME Increasing(w), NEW a \in 1..Len(v), NEW b \in 1..Len(v), a < b, b < Len(v)
                   PROVE  v[a] < v[b]
        BY <3>8 DEF Ascending
      <4>1. a \in 1..N /\ b \in 1..N  BY <3>5
      <4> QED BY <3>2, <4>1 DEF Increasing, N
    <3> QED BY <3>3, <3>4, <3>8, <3>9
  <2> QED BY <1>6, <2>1, <2>2
<1>8. Stop(Rank(Newest))' = Stop(Rank(Newest)) /\ Resumable'
  <2>1. RecordsIn(Newest)' = w  BY <1>2 DEF RecordsIn, w
  <2>2. Stop(Rank(Newest))' = Stop(Rank(Newest))  BY <1>2, StopStays DEF Rank
  <2> QED BY <1>2, <1>3, <2>1, <2>2 DEF Resumable
<1>9. Live' => /\ Held'.phase = Rank(Newest)
               /\ Held'.phase <= 2 => Newest = "scan" /\ "reloaded" \in mishaps'
               /\ at' \notin {"open"} \cup Saving
  <2> SUFFICES ASSUME Live' PROVE  /\ Held'.phase = Rank(Newest)
                                   /\ Held'.phase <= 2 => Newest = "scan" /\ "reloaded" \in mishaps'
                                   /\ at' \notin {"open"} \cup Saving
    OBVIOUS
  <2>1. at' \in {"work", "done"}  BY <1>2 DEF Live
  <2>2. Held'.phase = Rank(stage') - 1  BY <2>1, PhaseIs
  <2>3. Newest # "end"  BY <1>2 DEF StageFiles
  <2>4. Held'.phase = Rank(Newest) /\ Rank(Newest) \in 1..6
    BY <1>2, <2>2, <2>3, RankIs
  <2>5. Rank(Newest) <= 2 => Newest = "scan"
    BY <1>2 DEF Rank, StageFiles
  <2>6. Newest = "scan" => "reloaded" \in mishaps'  BY DEF Load
  <2> QED BY <1>2, <2>1, <2>4, <2>5, <2>6 DEF Saving
<1>10. InStep'
  <2> SUFFICES ASSUME Live'
               PROVE  /\ Range(inodes') = Range(Stop(Held.phase)') /\ Rising(inodes')
                      /\ Held'.phase <= 2 => Ascending(inodes')
                      /\ Held'.phase <= 2 /\ "reloaded" \notin mishaps' => Increasing(inodes')
                      /\ Held'.phase = 1 /\ at' \in {"open"} \cup Saving => Increasing(inodes')
    BY DEF InStep
  <2>1. \A n : Stop(n)' = Stop(n)  BY StopStays
  <2>2. Stop(Held.phase)' = Stop(Rank(Newest))
    BY <1>2, <1>9, <2>1 DEF Stop, Rank
  <2> QED BY <1>3, <1>7, <1>9, <2>2
<1> QED BY <1>8, <1>10

\* A save that is finished, and one a kill did not cut short, leaves the
\* vector in the stage file.
LEMMA SavedRecords ==
  ASSUME TypeOK, Placed, Written, Sound',
         \/ SaveWrite /\ at' # "invopen"
         \/ InvWrite
         \/ Crash /\ at \in Saving
  PROVE  /\ files'[stage].lines \o files'[stage].tail = inodes
         /\ stage' \in {stage, After(stage)}
<1>1. /\ at \in Saving /\ stage \in StageFiles /\ stage \in FileNames /\ stage # "invalid"
      /\ DOMAIN files = FileNames /\ inodes \in Seq(D)
  <2>1. at \in Saving  BY DEF SaveWrite, InvWrite, Saving
  <2> QED BY <2>1 DEF Placed, StageFiles, FileNames, TypeOK, D
<1>2. File(inodes, << >>).lines \o File(inodes, << >>).tail = inodes
  BY <1>1 DEF File
<1>3. files'[stage].lines \o files'[stage].tail = inodes
  <2>1. CASE SaveWrite /\ at' # "invopen"
    <3>1. files' = [files EXCEPT ![stage] = File(inodes, << >>)]
      BY <2>1 DEF SaveWrite
    <3> QED BY <1>1, <1>2, <3>1
  <2>2. CASE InvWrite
    <3>1. /\ files' = [files EXCEPT !["invalid"] = File(invalid, << >>)]
          /\ files[stage] = File(inodes, << >>)
      BY <2>2 DEF InvWrite, InvWritten, Written
    <3> QED BY <1>1, <1>2, <3>1
  <2>3. CASE Crash /\ at = "write"
    <3>1. PICK f \in Beginnings(inodes) :
             /\ files' = [files EXCEPT ![stage] = f]
             /\ mishaps' = mishaps \cup (IF ~ Whole(f, inodes) THEN {"cut"} ELSE {})
                                   \cup (IF invalid # << >> THEN {"gap"} ELSE {})
      BY <2>3 DEF Crash
    <3>2. Whole(f, inodes)  BY <3>1 DEF Sound, Damage
    <3> QED BY <1>1, <3>1, <3>2 DEF Whole
  <2>4. CASE Crash /\ at = "invopen"
    <3>1. "gap" \in mishaps'  BY <2>4 DEF Crash
    <3> QED BY <3>1 DEF Sound, Damage
  <2>5. CASE Crash /\ at = "invwrite"
    <3>1. PICK f \in Beginnings(invalid) : files' = [files EXCEPT !["invalid"] = f]
      BY <2>5 DEF Crash
    <3>2. files[stage] = File(inodes, << >>)  BY <2>5 DEF Written
    <3> QED BY <1>1, <1>2, <3>1, <3>2
  <2> QED BY <1>1, <2>1, <2>2, <2>3, <2>4, <2>5 DEF Saving
<1>4. stage' \in {stage, After(stage)}
  BY DEF SaveWrite, InvWrite, Crash, Advance
<1> QED BY <1>3, <1>4

LEMMA InStepStep ==
  ASSUME PostInv, PostInv', Onward, Next, Undisturbed'
  PROVE  InStep' /\ Resumable'
<1>1. /\ TypeOK /\ Placed /\ Written /\ Swept /\ InStep /\ Resumable /\ Sound'
      /\ at = "done" => stage = "end"
  BY UndisturbedBefore DEF PostInv, Onward
<1>2. \A n : Stop(n)' = Stop(n)  BY StopStays
<1>3. /\ stage \in Stages /\ StageFiles \subseteq Stages \ {"end"} /\ inodes \in Seq(D)
      /\ at \in {"work", "sweep"} => stage # "end"
      /\ at \in {"open"} \cup Saving => stage \in StageFiles
      /\ disk \in Disks
  BY <1>1 DEF TypeOK, Placed, StageFiles, Stages, D
<1>4. Undisturbed /\ mishaps \subseteq mishaps' /\ Newest' = NewestOf(files') /\ Newest = NewestOf(files)
  BY UndisturbedBefore, SoundBefore, NewestIs
\* Where the vector and the phase stay, and where no stage file is written.
<1>5. ASSUME Live, inodes' = inodes, Held'.phase = Held.phase,
             Held.phase = 1 /\ at' \in {"open"} \cup Saving => at \in {"open"} \cup Saving
      PROVE  InStep'
  <2>1. Stop(Held.phase)' = Stop(Held.phase)  BY <1>2, <1>5 DEF Stop
  <2> QED BY <1>1, <1>4, <1>5, <2>1 DEF InStep
<1>6. ASSUME \A f \in StageFiles : files'[f] = files[f], at \notin Saving
      PROVE  Resumable'
  <2>1. Newest' = Newest  BY <1>4, <1>6, NewestSame
  <2>2. CASE Newest = "none"  BY <2>1, <2>2 DEF Resumable
  <2>3. CASE Newest # "none"
    <3>1. Newest \in StageFiles  BY <1>4, <2>3, NewestFirst
    <3>2. RecordsIn(Newest)' = RecordsIn(Newest)  BY <1>6, <2>1, <3>1 DEF RecordsIn
    <3>3. Stop(Rank(Newest))' = Stop(Rank(Newest))  BY <1>2, <2>1 DEF Stop, Rank
    <3> QED BY <1>1, <1>6, <2>1, <2>3, <3>2, <3>3 DEF Resumable
  <2> QED BY <2>2, <2>3
\* Where a save has come to its end.
<1>7. ASSUME at \in Saving, Newest' = stage, files'[stage].lines \o files'[stage].tail = inodes
      PROVE  Resumable'
  <2>1. Held.phase = Rank(stage) /\ Live /\ stage \in StageFiles
    BY <1>3, <1>7, PhaseIs DEF Saving, Live
  <2>2. RecordsIn(Newest)' = inodes  BY <1>7 DEF RecordsIn
  <2>3. Stop(Rank(Newest))' = Stop(Rank(stage))  BY <1>2, <1>7 DEF Stop, Rank
  <2>4. stage = "scan" => Rank(stage) = 1  BY DEF Rank
  <2> QED BY <1>1, <1>7, <2>1, <2>2, <2>3, <2>4 DEF Resumable, InStep
<1>8. CASE LaunchScan
  <2>1. ~ Live' /\ files' = files /\ at \notin Saving
    BY <1>8 DEF LaunchScan, Live, Saving
  <2> QED BY <1>6, <2>1 DEF InStep
<1>9. CASE Load
  BY <1>9, LoadInStep
<1>10. CASE DoScan
  <2>1. ~ files["inoscan"].there
    <3>1. "resumed" \notin mishaps'  BY UndisturbedBefore
    <3> QED BY <1>10, <3>1 DEF DoScan, ScanMishaps
  <2>2. Resumed = << >>  BY <2>1 DEF Resumed
  <2>3. PICK new \in Behind : /\ inodes' = Resumed \o new
                              /\ \E f : files' = [files EXCEPT !["inoscan"] = f]
    BY <1>10 DEF DoScan
  <2>4. new = All /\ new \in Seq(D)
    BY <1>1, <2>2, BehindIs DEF All
  <2>5. inodes' = All  BY <2>2, <2>3, <2>4
  <2>6. /\ at' = "open" /\ stage' = "scan" /\ at \notin Saving
        /\ \A f \in StageFiles : files'[f] = files[f]
    BY <1>1, <1>10, <2>3 DEF DoScan, Saving, StageFiles, TypeOK, FileNames
  <2>7. Held'.phase = 1  BY <2>6, PhaseIs DEF Rank
  <2>8. /\ Stop(1) = All /\ Increasing(All) /\ All \in Seq(D)
    <3>1. Stop(1) = All  BY DEF Stop
    <3> QED BY <1>3, <3>1, StopIs
  <2>9. Rising(All) /\ Ascending(All)
    <3>1. \A n \in 1..Len(All) : All[n] \in Nat  BY <1>3, <2>8, VectorOK
    <3> QED BY <2>8, <3>1 DEF Rising, Ascending, Increasing
  <2>10. Stop(Held.phase)' = All
    <3>1. Stop(1)' = All  BY <1>2, <2>8
    <3> QED BY <2>7, <3>1 DEF Stop
  <2>11. InStep'  BY <2>5, <2>8, <2>9, <2>10 DEF InStep
  <2> QED BY <1>6, <2>6, <2>11
<1>11. CASE Mark \/ Sweep \/ SaveOpen \/ InvOpen
  <2>1. /\ Live /\ inodes' = inodes /\ stage' = stage
        /\ \/ at \in {"work", "sweep"} /\ at' = "sweep"
           \/ at \in {"open"} \cup Saving /\ at' \in Saving
    <3>1. CASE Mark \/ Sweep  BY <3>1 DEF Mark, Sweep, Live
    <3>2. CASE SaveOpen \/ InvOpen  BY <3>2 DEF SaveOpen, InvOpen, Live, Saving
    <3> QED BY <1>11, <3>1, <3>2
  <2>2. Held'.phase = Held.phase  BY <2>1, PhaseIs DEF Saving
  <2>3. InStep'  BY <1>5, <2>1, <2>2 DEF Saving
  <2>4. Resumable'
    <3>1. CASE at' \in Saving  BY <3>1 DEF Resumable
    <3>2. CASE at' \notin Saving
      <4>1. files' = files /\ at \notin Saving  BY <1>11, <2>1, <3>2 DEF Mark, Sweep, SaveOpen, InvOpen, Saving
      <4> QED BY <1>6, <4>1
    <3> QED BY <3>1, <3>2
  <2> QED BY <2>3, <2>4
<1>12. CASE EndSweep
  <2>1. /\ Live /\ at = "sweep" /\ files' = files /\ stage \in Stages \ {"scan", "end"}
        /\ inodes' = Filtered(stage, inodes) /\ mishaps' = mishaps
        /\ IF stage = "stamps" THEN at' = "work" /\ stage' = "extents"
                               ELSE at' = "open" /\ stage' = stage
    BY <1>1, <1>12, SweepEnds DEF EndSweep, Live
  <2>2. /\ Held.phase = Rank(stage) - 1 /\ Held'.phase = Rank(stage) /\ Rank(stage) \in 2..5
        /\ Held.phase \in Nat /\ Held'.phase # 1
    <3>1. Rank(stage) \in 2..5  BY <2>1, RankIs
    <3>2. Held.phase = Rank(stage) - 1  BY <2>1, PhaseIs
    <3>3. Held'.phase = Rank(stage)
      <4>1. CASE stage = "stamps"  BY <2>1, <4>1, PhaseIs DEF Rank
      <4>2. CASE stage # "stamps"  BY <2>1, <4>2, PhaseIs
      <4> QED BY <4>1, <4>2
    <3> QED BY <3>1, <3>2, <3>3
  <2>3. /\ Range(inodes) = Range(Stop(Rank(stage) - 1)) /\ Rising(inodes)
        /\ Rank(stage) - 1 <= 2 => Ascending(inodes)
        /\ Rank(stage) - 1 <= 2 /\ "reloaded" \notin mishaps => Increasing(inodes)
    BY <1>1, <2>1, <2>2 DEF InStep
  <2>4. Rank(stage) - 1 = 1 => Increasing(inodes) \/ Cardinality(Stamps(disk, Sorted(Sane))) = 1
    BY <1>4, <2>3 DEF Undisturbed
  <2>5. /\ Range(inodes') = Range(Stop(Rank(stage))) /\ Rising(inodes')
        /\ Ascending(inodes) => Ascending(inodes')
        /\ Increasing(inodes) => Increasing(inodes')
    BY <1>3, <2>1, <2>3, <2>4, NextStop
  <2>6. Stop(Held.phase)' = Stop(Rank(stage))
    BY <1>2, <2>2 DEF Stop
  <2>7. Rank(stage) <= 2 => Rank(stage) - 1 <= 2  BY <2>2
  <2>8. InStep'  BY <2>1, <2>2, <2>3, <2>5, <2>6, <2>7 DEF InStep
  <2>9. at \notin Saving  BY <2>1 DEF Saving
  <2> QED BY <1>6, <2>1, <2>8, <2>9
<1>13. CASE SaveWrite \/ InvWrite
  <2>1. at \in Saving /\ Live /\ inodes' = inodes /\ stage \in StageFiles /\ stage \in Stages \ {"end"}
    BY <1>3, <1>13 DEF SaveWrite, InvWrite, Saving, Live
  <2>2. CASE at' = "invopen"
    <3>1. stage' = stage
      BY <1>13, <2>2 DEF SaveWrite, InvWrite, Advance
    <3>2. Held'.phase = Held.phase  BY <2>1, <2>2, <3>1, PhaseIs DEF Saving
    <3>3. InStep'  BY <1>5, <2>1, <3>2
    <3> QED BY <2>2, <3>3 DEF Resumable, Saving
  <2>3. CASE at' # "invopen"
    <3>1. /\ Newest' = stage /\ files'[stage].lines \o files'[stage].tail = inodes
      BY <1>1, <1>13, <2>3, Saved, SavedRecords
    <3>2. stage' = After(stage) /\ at' \in {"work", "done"}
      BY <1>13, <2>3 DEF SaveWrite, InvWrite, Advance
    <3>3. Held.phase = Rank(stage) /\ Held'.phase = Rank(After(stage)) - 1
      BY <2>1, <3>2, PhaseIs DEF Saving
    <3>4. Held'.phase = Held.phase  BY <2>1, <3>3, RankIs
    <3>5. InStep'  BY <1>5, <2>1, <3>2, <3>4 DEF Saving
    <3> QED BY <1>7, <2>1, <3>1, <3>5
  <2> QED BY <2>2, <2>3
<1>14. CASE ScanKilled \/ ScanExits
  <2>1. /\ ~ Live' /\ at \notin Saving
        /\ files' = files \/ \E f : files' = [files EXCEPT !["inoscan"] = f]
    BY <1>14 DEF ScanKilled, ScanExits, Live, Saving
  <2>2. \A f \in StageFiles : files'[f] = files[f]
    BY <1>1, <2>1 DEF StageFiles, TypeOK, FileNames
  <2> QED BY <1>6, <2>1, <2>2 DEF InStep
<1>15. CASE Crash
  <2>1. ~ Live'  BY <1>15 DEF Crash, Live
  <2>2. CASE at \in Saving
    <3>1. /\ Newest' = stage /\ files'[stage].lines \o files'[stage].tail = inodes
      BY <1>1, <1>15, <2>2, Saved, SavedRecords
    <3> QED BY <1>7, <2>1, <2>2, <3>1 DEF InStep
  <2>3. CASE at \notin Saving
    <3>1. files' = files  BY <1>15, <2>3 DEF Crash, Saving
    <3> QED BY <1>6, <2>1, <2>3, <3>1 DEF InStep
  <2> QED BY <2>2, <2>3
<1>16. CASE \E o \in Sane : RmLogged(o)
  <2>1. removed' # {}  BY <1>16 DEF RmLogged
  <2> QED BY <2>1, UndisturbedBefore
<1> QED
  BY <1>8, <1>9, <1>10, <1>11, <1>12, <1>13, <1>14, <1>15, <1>16 DEF Next, Step

LEMMA OnwardStep ==
  ASSUME PostInv, PostInv', Onward, Next
  PROVE  Onward'
<1>1. TypeOK /\ Placed /\ Swept /\ (at = "done" => stage = "end")
  BY DEF PostInv, Onward
<1>2. Swept'  BY <1>1, SweptStep
<1>3. at' = "done" => stage' = "end"
  BY <1>1 DEF Next, Step, LaunchScan, Load, DoScan, Mark, Sweep, EndSweep, SaveOpen,
       SaveWrite, InvOpen, InvWrite, ScanKilled, ScanExits, Crash, RmLogged, Advance
<1>4. Undisturbed' => InStep' /\ Resumable'
  BY InStepStep
<1> QED BY <1>2, <1>3, <1>4 DEF Onward

LEMMA AlwaysOnward == Spec => [](PostInv /\ Onward)
<1>1. Init => Onward
  <2> SUFFICES ASSUME Init PROVE Onward  OBVIOUS
  <2>1. at = "down"  BY DEF Init
  <2>2. Newest = "none"
    BY NewestIs, NewestFirst DEF Init, Missing, StageFiles, FileNames
  <2> QED BY <2>1, <2>2 DEF Onward, Swept, InStep, Resumable, Live
<1>2. PostInv /\ PostInv' /\ Onward /\ [Next]_vars => Onward'
  <2> SUFFICES ASSUME PostInv, PostInv', Onward, [Next]_vars PROVE Onward'  OBVIOUS
  <2>1. CASE UNCHANGED vars
    <3>1. /\ Sane' = Sane /\ Newest' = Newest /\ Live' = Live /\ Held' = Held
          /\ Swept' = Swept
      BY <2>1 DEF vars, Sane, Newest, Live, Held, Valid, Swept, Keep
    <3>2. Undisturbed' = Undisturbed  BY <2>1, <3>1 DEF vars, Undisturbed
    <3>3. /\ All' = All /\ OfOneStamp' = OfOneStamp /\ InExtents' = InExtents
          /\ Allocated' = Allocated /\ Fresh' = Fresh
      <4>1. disk' = disk  BY <2>1 DEF vars
      <4>2. All' = All  BY <3>1 DEF All
      <4>3. OfOneStamp' = OfOneStamp  BY <4>1, <4>2 DEF OfOneStamp, Filtered, Keep
      <4>4. InExtents' = InExtents    BY <4>1, <4>3 DEF InExtents, Filtered, Keep
      <4>5. Allocated' = Allocated    BY <4>1, <4>4 DEF Allocated, Filtered, Keep
      <4>6. Fresh = Filtered("dupes", Allocated)
        BY DEF Fresh, Allocated, InExtents, OfOneStamp, All
      <4>7. Fresh' = Filtered("dupes", Allocated)'
        BY DEF Fresh, Allocated, InExtents, OfOneStamp, All
      <4>8. Fresh' = Fresh  BY <4>1, <4>5, <4>6, <4>7 DEF Filtered, Keep
      <4> QED BY <4>2, <4>3, <4>4, <4>5, <4>8
    <3>4. Stop(Held.phase)' = Stop(Held.phase) /\ Stop(Rank(Newest))' = Stop(Rank(Newest))
      BY <3>1, <3>3 DEF Stop, Rank
    <3>5. InStep' = InStep
      BY <2>1, <3>1, <3>4 DEF vars, InStep
    <3>6. Resumable' = Resumable
      BY <2>1, <3>1, <3>4 DEF vars, Resumable, RecordsIn
    <3> QED BY <2>1, <3>1, <3>2, <3>5, <3>6 DEF vars, Onward
  <2> QED BY <2>1, OnwardStep
<1> QED BY <1>1, <1>2, AlwaysInv, PTL DEF Spec

----------------------------------------------------------------------------
(* What a killed postprocessing keeps                                      *)

\* Kills at any place, and a resumption from every stage file, leave the
\* recovery the inodes an uninterrupted run leaves it: the position files are
\* written in device order, a record that is read twice is dropped by
\* remove_dupes and joins no extent, and every label of InodeScanner::scan
\* goes on with the filter behind the file it stands for.
THEOREM RestartChangesNothing == Spec => []RestartEquivalence
<1>1. ASSUME PostInv, Onward, at = "done", Undisturbed
      PROVE  Range(inodes) = Range(Fresh)
  <2>1. stage = "end" /\ InStep  BY <1>1 DEF Onward
  <2>2. Live  BY <1>1 DEF Live
  <2>3. Held.phase = 5  BY <1>1, <2>1, PhaseIs DEF Rank
  <2>4. Stop(5) = Fresh  BY DEF Stop
  <2> QED BY <2>1, <2>2, <2>3, <2>4 DEF InStep
<1>2. PostInv /\ Onward => RestartEquivalence
  BY <1>1 DEF RestartEquivalence
<1> QED BY <1>2, AlwaysOnward, PTL

\* Neighbours on the device are neighbours in an increasing vector.
LEMMA NeighboursAre ==
  ASSUME NEW v \in Seq(Nat), Increasing(v), NEW a \in Nat, NEW L \in Nat \ {0},
         \A d \in 0..(L - 1) : a + d \in Range(v)
  PROVE  \E p, q \in 1..Len(v) :
           /\ q = p + L - 1
           /\ \A n \in p..q : v[n] \in a..(a + L - 1)
           /\ \A n \in p..(q - 1) : v[n + 1] = v[n] + 1
           /\ \A y \in a..(a + L - 1) : \E n \in p..q : v[n] = y
<1> DEFINE N == Len(v)  b == a + L - 1
<1>1. N \in Nat /\ DOMAIN v = 1..N /\ (\A n \in 1..N : v[n] \in Nat) /\ b \in Nat /\ a <= b
  OBVIOUS
<1>2. \A m, n \in 1..N : v[m] <= v[n] <=> m <= n
  <2> SUFFICES ASSUME NEW m \in 1..N, NEW n \in 1..N PROVE v[m] <= v[n] <=> m <= n
    OBVIOUS
  <2>1. m < n => v[m] < v[n]  BY DEF Increasing
  <2>2. n < m => v[n] < v[m]  BY DEF Increasing
  <2>3. v[m] \in Nat /\ v[n] \in Nat /\ m \in Nat /\ n \in Nat  BY <1>1
  <2>4. m = n => v[m] = v[n]  OBVIOUS
  <2> HIDE DEF N, b
  <2> QED BY <2>1, <2>2, <2>3, <2>4
<1>3. \A y \in a..b : \E n \in 1..N : v[n] = y
  <2> TAKE y \in a..b
  <2>1. y - a \in 0..(L - 1) /\ a + (y - a) = y  OBVIOUS
  <2>2. y \in Range(v)  BY <2>1
  <2> QED BY <1>1, <2>2 DEF Range
<1> HIDE DEF N, b
<1>4. PICK p \in 1..N : v[p] = a  BY <1>1, <1>3
<1>5. PICK q \in 1..N : v[q] = b  BY <1>1, <1>3
<1>6. p <= q /\ p \in Nat /\ q \in Nat /\ p..q \subseteq 1..N
  <2>1. p <= q  BY <1>1, <1>2, <1>4, <1>5
  <2> QED BY <1>1, <2>1
<1>7. \A n \in 1..N : n \in p..q <=> v[n] \in a..b
  <2> TAKE n \in 1..N
  <2>1. (p <= n <=> a <= v[n]) /\ (n <= q <=> v[n] <= b)  BY <1>2, <1>4, <1>5
  <2>2. n \in Nat /\ v[n] \in Nat  BY <1>1
  <2> QED BY <1>1, <1>6, <2>1, <2>2
<1>8. q - p + 1 = L
  <2> DEFINE f == [n \in p..q |-> v[n]]
  <2>1. f \in [p..q -> a..b] /\ \A n \in p..q : f[n] = v[n]
    BY <1>6, <1>7
  <2>2. \A y \in a..b : \E n \in p..q : f[n] = y
    BY <1>3, <1>7, <2>1
  <2>3. \A m, n \in p..q : f[m] = f[n] => m = n
    <3> SUFFICES ASSUME NEW m \in p..q, NEW n \in p..q, v[m] = v[n] PROVE m = n
      BY <2>1
    <3>1. m \in 1..N /\ n \in 1..N  BY <1>6
    <3>2. v[m] \in Nat /\ m \in Nat /\ n \in Nat /\ v[n] \in Nat  BY <1>1, <3>1
    <3>3. m <= n /\ n <= m  BY <1>2, <3>1, <3>2
    <3> QED BY <3>2, <3>3
  <2> HIDE DEF f
  <2>4. f \in Surjection(p..q, a..b)  BY <2>1, <2>2 DEF Surjection
  <2>5. f \in Injection(p..q, a..b)  BY <2>1, <2>3 DEF Injection, IsInjective
  <2>6. /\ IsFiniteSet(p..q) /\ Cardinality(p..q) = q - p + 1
        /\ IsFiniteSet(a..b) /\ Cardinality(a..b) = b - a + 1
    <3>1. \A i, j \in Int : IsFiniteSet(i..j) /\ Cardinality(i..j) = IF i > j THEN 0 ELSE j - i + 1
      BY FS_Interval
    <3> QED BY <1>1, <1>6, <3>1
  <2>7. Cardinality(p..q) = Cardinality(a..b)
    BY <2>4, <2>5, <2>6, FS_Surjection
  <2> QED BY <1>1, <2>6, <2>7 DEF b
<1>9. q = p + L - 1 /\ q <= N  BY <1>1, <1>6, <1>8
<1>10. \A n \in p..(q - 1) : v[n + 1] = v[n] + 1
  <2> TAKE n \in p..(q - 1)
  <2>1. /\ n \in 1..N /\ n + 1 \in 1..N /\ n \in p..q /\ n + 1 \in p..q /\ n \in Nat
    BY <1>1, <1>6
  <2>2. v[n] \in a..b /\ v[n + 1] \in a..b /\ v[n] \in Nat /\ v[n + 1] \in Nat  BY <1>1, <1>7, <2>1
  <2>3. v[n] < v[n + 1]
    <3>1. v[n] <= v[n + 1] /\ ~ (v[n + 1] <= v[n])  BY <1>2, <2>1
    <3> QED BY <2>2, <3>1
  <2>4. v[n] + 1 \in a..b  BY <1>1, <2>2, <2>3
  <2>5. PICK m \in 1..N : v[m] = v[n] + 1  BY <1>3, <2>4
  <2>6. ~ (m <= n)  BY <1>2, <2>1, <2>2, <2>5
  <2>7. m <= n + 1
    <3>1. v[m] <= v[n + 1]  BY <2>2, <2>3, <2>5
    <3> QED BY <1>2, <2>1, <3>1
  <2>8. m = n + 1  BY <1>1, <2>1, <2>6, <2>7
  <2> QED BY <2>5, <2>8
<1>11. \A y \in a..b : \E n \in p..q : v[n] = y  BY <1>3, <1>7
<1>12. \A n \in p..q : v[n] \in a..b  BY <1>6, <1>7
<1> QED BY <1>9, <1>10, <1>11, <1>12 DEF N, b

\* What filter_inostamps keeps of the extent of one of its inodes.
LEMMA ExtentsStay ==
  ASSUME disk \in Disks, NEW x \in FullExtents, ~ FilteredOut(x)
  PROVE  x \in Range(InExtents)
<1>1. PICK a \in (x - ExtentLen + 1)..x : \A d \in 0..(ExtentLen - 1) :
        /\ a + d \in Sane
        /\ disk[a + d].number = disk[a].number + d
        /\ disk[a + d].stamp = disk[a].stamp
  BY DEF FullExtents
<1>2. x \in Nat /\ ExtentLen \in Nat \ {0} /\ a \in Nat /\ \A y \in Sane : y \in Nat /\ disk[y].number \in Nat
  <2>1. x \in Sane /\ \A y \in Sane : y \in Nat /\ disk[y].number \in Nat
    BY DiskOK DEF FullExtents
  <2>2. ExtentLen \in Nat \ {0}  BY InodesAssumption
  <2>3. a \in Int /\ a + 0 \in Sane  BY <1>1, <2>1, <2>2
  <2> QED BY <2>1, <2>2, <2>3
<1>3. /\ All \in Seq(D) /\ Increasing(All) /\ Range(All) = Sane /\ DOMAIN All = 1..Len(All)
      /\ OfOneStamp \in Seq(D) /\ Increasing(OfOneStamp) /\ OfOneStamp \in Seq(Nat)
  <2>1. Stop(1) = All /\ Stop(2) = OfOneStamp  BY DEF Stop
  <2>2. /\ All \in Seq(D) /\ Increasing(All) /\ OfOneStamp \in Seq(D) /\ Increasing(OfOneStamp)
    BY <2>1, StopIs
  <2>3. Range(All) = Sane  BY DiskOK, SortedIs DEF All
  <2>4. OfOneStamp \in Seq(Nat)  BY <2>2, VectorOK
  <2>5. DOMAIN All = 1..Len(All)  BY <2>2, VectorOK
  <2> QED BY <2>2, <2>3, <2>4, <2>5
<1>4. disk[x].stamp = disk[a].stamp
  <2>1. x - a \in 0..(ExtentLen - 1) /\ a + (x - a) = x  BY <1>2
  <2> QED BY <1>1, <2>1
<1>5. ASSUME NEW d \in 0..(ExtentLen - 1)  PROVE a + d \in Range(OfOneStamp)
  <2>1. PICK n \in DOMAIN All : All[n] = a + d  BY <1>1, <1>3 DEF Range
  <2>2. OneStampOnly(disk, All) => disk[All[n]].stamp = MostCommon(disk, All)
    BY <1>1, <1>4, <2>1 DEF FilteredOut, All
  <2>3. n \in KeepStamps(disk, All)  BY <2>2 DEF KeepStamps
  <2>4. "stamps" \in Stages \ {"scan", "end"} /\ Keep("stamps", All) = KeepStamps(disk, All)
    BY DEF Stages, Keep
  <2>5. Range(OfOneStamp) = {All[m] : m \in Keep("stamps", All)}
    BY <1>3, <2>4, FilteredIs DEF OfOneStamp
  <2> QED BY <2>1, <2>3, <2>4, <2>5
<1> DEFINE v == OfOneStamp  b == a + ExtentLen - 1
<1>6. PICK p \in 1..Len(v), q \in 1..Len(v) :
        /\ q = p + ExtentLen - 1
        /\ \A n \in p..q : v[n] \in a..b
        /\ \A n \in p..(q - 1) : v[n + 1] = v[n] + 1
        /\ \A y \in a..b : \E n \in p..q : v[n] = y
  BY <1>2, <1>3, <1>5, NeighboursAre, ZenonT(40)
<1> HIDE DEF v
<1>7. \A y \in a..b : y \in Sane /\ disk[y].number = disk[a].number + (y - a)
  <2> TAKE y \in a..b
  <2>1. y - a \in 0..(ExtentLen - 1) /\ a + (y - a) = y  BY <1>2
  <2>2. /\ a + (y - a) \in Sane
        /\ disk[a + (y - a)].number = disk[a].number + (y - a)
    BY <1>1, <2>1
  <2> QED BY <2>1, <2>2
<1>8. p \in Nat /\ q \in Nat /\ Len(v) \in Nat /\ a \in Sane /\ disk[a].number \in Nat
  <2>1. a \in a..b  BY <1>2
  <2>2. Len(v) \in Nat  BY <1>3 DEF v
  <2> QED BY <1>2, <1>7, <2>1, <2>2
<1>9. Joined(disk, v, p, q)
  <2> SUFFICES ASSUME NEW n \in p..(q - 1)
               PROVE  Adjacent(disk, v, n)
    BY DEF Joined
  <2>1. n \in p..q /\ n + 1 \in p..q  BY <1>8
  <2>2. v[n] \in a..b /\ v[n + 1] \in a..b /\ v[n + 1] = v[n] + 1  BY <1>6, <2>1
  <2> DEFINE y == v[n]  z == v[n + 1]
  <2>3. disk[y].number = disk[a].number + (y - a) /\ disk[z].number = disk[a].number + (z - a)
        /\ y \in Nat /\ z = y + 1
    BY <1>2, <1>7, <2>2
  <2> HIDE DEF y, z
  <2>4. disk[z].number = disk[y].number + 1  BY <1>2, <1>8, <2>3
  <2> QED BY <2>2, <2>4 DEF Adjacent, y, z
<1>10. x \in a..b  BY <1>2
<1>11. PICK n \in p..q : v[n] = x  BY <1>6, <1>10
<1>12. n \in KeepExtents(disk, v)
  <2>1. v \in Seq(D) /\ q <= Len(v)  BY <1>3, <1>8 DEF v
  <2> QED BY <1>6, <1>9, <2>1, FullExtentsKept
<1>13. "extents" \in Stages \ {"scan", "end"} /\ Keep("extents", v) = KeepExtents(disk, v)
  BY DEF Stages, Keep
<1>14. Range(InExtents) = {v[m] : m \in Keep("extents", v)}
  BY <1>3, <1>13, FilteredIs DEF InExtents, v
<1> QED BY <1>11, <1>12, <1>13, <1>14

\* A full inode extent gets through detect_ino_extents whole, in a vector that
\* filter_inostamps has thinned and a kill may have left twice, unless its
\* inodes have another inostamp than the one that is kept.
THEOREM ExtentsSurvive == Spec => []FullExtentsSurvive
<1>1. ASSUME PostInv, Onward, at = "open", stage = "extents", Undisturbed,
             NEW x \in FullExtents, ~ FilteredOut(x)
      PROVE  x \in Range(inodes)
  <2>1. InStep /\ Live /\ disk \in Disks  BY <1>1 DEF Onward, Live, PostInv, TypeOK
  <2>2. Held.phase = 3  BY <1>1, PhaseIs DEF Rank
  <2>3. Stop(3) = InExtents  BY DEF Stop
  <2>4. x \in Range(InExtents)  BY <1>1, <2>1, ExtentsStay
  <2> QED BY <2>1, <2>2, <2>3, <2>4 DEF InStep
<1>2. PostInv /\ Onward => FullExtentsSurvive
  BY <1>1 DEF FullExtentsSurvive
<1> QED BY <1>2, AlwaysOnward, PTL
=============================================================================
