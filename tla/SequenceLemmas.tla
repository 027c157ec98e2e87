---------------------------- MODULE SequenceLemmas ---------------------------
(***************************************************************************)
(* What the proofs about several modules need of numbers and of sequences  *)
(* of sequences.  A set of numbers has a least one: where a proof would go *)
(* by induction, it takes the least counterexample instead.                *)
(***************************************************************************)
EXTENDS Integers, SequencesExt, WellFoundedInduction, TLAPS

LEMMA Least ==
  ASSUME NEW S \in SUBSET Nat, S # {}
  PROVE  \E m \in S : \A k \in S : m <= k
<1> DEFINE R == OpToRel(<, Nat)
<1>1. S \subseteq Nat /\ IsWellFoundedOn(R, Nat)
  BY NatLessThanWellFounded
<1>2. \A k, m \in Nat : k < m => << k, m >> \in R
  BY DEF OpToRel
<1> HIDE DEF R
<1>3. PICK m \in S : \A k \in S : ~ (<< k, m >> \in R)
  BY <1>1, WFMin
<1>4. \A k \in S : k \in Nat /\ m \in Nat /\ ~ (k < m)
  BY <1>1, <1>2, <1>3
<1> QED BY <1>4

----------------------------------------------------------------------------
(* Sequences of sequences.                                                 *)

LEMMA FlattenExists ==
  ASSUME NEW s, NEW N \in Nat
  PROVE  \E f : f = [k \in 1..N |-> IF k = 1 THEN s[k] ELSE f[k - 1] \o s[k]]
<1> DEFINE Is(f, m) == f = [k \in 1..m |-> IF k = 1 THEN s[k] ELSE f[k - 1] \o s[k]]
           Bad == {m \in Nat : ~ \E f : Is(f, m)}
<1>1. Bad = {}
  <2> SUFFICES ASSUME Bad # {} PROVE FALSE  OBVIOUS
  <2>1. PICK m \in Bad : \A k \in Bad : m <= k
    <3>1. Bad \in SUBSET Nat  OBVIOUS
    <3> HIDE DEF Bad
    <3> QED BY <3>1, Least
  <2>2. m # 0
    <3>1. Is([k \in 1..0 |-> s[k]], 0)  OBVIOUS
    <3> QED BY <3>1, <2>1
  <2>3. m \in Nat /\ m - 1 \in Nat /\ m - 1 \notin Bad
    <3>1. m \in Nat  OBVIOUS
    <3> HIDE DEF Bad
    <3> QED BY <2>1, <2>2, <3>1
  <2>4. PICK f : Is(f, m - 1)  BY <2>3
  <2> DEFINE g == [k \in 1..m |-> IF k = 1 THEN s[k] ELSE f[k - 1] \o s[k]]
  <2>5. \A k \in 1..(m - 1) : f[k] = g[k]
    <3>1. \A k \in 1..(m - 1) : k \in 1..m  BY <2>3
    <3>2. \A k \in 1..(m - 1) : f[k] = IF k = 1 THEN s[k] ELSE f[k - 1] \o s[k]
      BY <2>4
    <3> QED BY <3>1, <3>2
  <2>6. Is(g, m)
    <3>1. \A k \in 1..m : k # 1 => k - 1 \in 1..(m - 1)  BY <2>3
    <3>2. \A k \in 1..m : k # 1 => g[k - 1] = f[k - 1]  BY <2>5, <3>1
    <3>3. \A k \in 1..m : g[k] = IF k = 1 THEN s[k] ELSE g[k - 1] \o s[k]
      BY <3>2
    <3>4. g = [k \in 1..m |-> g[k]]  OBVIOUS
    <3> HIDE DEF g
    <3> QED BY <3>3, <3>4
  <2> QED BY <2>1, <2>6
<1> QED BY <1>1

LEMMA JoinedRange ==
  ASSUME NEW D, NEW a \in Seq(D), NEW b \in Seq(D)
  PROVE  a \o b \in Seq(D) /\ Range(a \o b) = Range(a) \cup Range(b)
<1> DEFINE s == a \o b
<1>1. /\ Len(a) \in Nat /\ Len(b) \in Nat /\ DOMAIN a = 1..Len(a) /\ DOMAIN b = 1..Len(b)
      /\ s \in Seq(D) /\ DOMAIN s = 1..(Len(a) + Len(b))
  OBVIOUS
<1>2. /\ \A k \in 1..Len(a) : s[k] = a[k]
      /\ \A k \in 1..Len(b) : s[k + Len(a)] = b[k]
  OBVIOUS
<1> HIDE DEF s
<1>3. Range(s) \subseteq Range(a) \cup Range(b)
  <2> SUFFICES ASSUME NEW k \in DOMAIN s PROVE s[k] \in Range(a) \cup Range(b)  BY DEF Range
  <2>1. CASE k <= Len(a)  BY <1>1, <1>2, <2>1 DEF Range
  <2>2. CASE ~ (k <= Len(a))
    <3>1. k - Len(a) \in 1..Len(b) /\ (k - Len(a)) + Len(a) = k  BY <1>1, <2>2
    <3> QED BY <1>1, <1>2, <3>1 DEF Range
  <2> QED BY <2>1, <2>2
<1>4. Range(a) \subseteq Range(s)
  <2>1. \A k \in 1..Len(a) : k \in DOMAIN s  BY <1>1
  <2> QED BY <1>1, <1>2, <2>1 DEF Range
<1>5. Range(b) \subseteq Range(s)
  <2>1. \A k \in 1..Len(b) : k + Len(a) \in DOMAIN s  BY <1>1
  <2> QED BY <1>1, <1>2, <2>1 DEF Range
<1> QED BY <1>1, <1>3, <1>4, <1>5 DEF s

\* Flattening loses nothing and adds nothing.
LEMMA FlattenRange ==
  ASSUME NEW D, NEW s \in Seq(Seq(D))
  PROVE  /\ FlattenSeq(s) \in Seq(D)
         /\ Range(FlattenSeq(s)) = UNION {Range(s[k]) : k \in DOMAIN s}
<1> DEFINE N  == Len(s)
           fl == CHOOSE f : f = [k \in 1..N |-> IF k = 1 THEN s[k] ELSE f[k - 1] \o s[k]]
<1>1. N \in Nat /\ DOMAIN s = 1..N /\ \A k \in 1..N : s[k] \in Seq(D)
  OBVIOUS
<1>2. CASE N = 0
  <2>1. s = << >>  BY <1>1, <1>2
  <2>2. FlattenSeq(s) = << >>  BY <2>1 DEF FlattenSeq
  <2>3. DOMAIN s = {} /\ << >> \in Seq(D) /\ Range(<< >>) = {}  BY <2>1 DEF Range
  <2> HIDE DEF N
  <2> QED BY <2>2, <2>3
<1>3. CASE N # 0
  <2>1. FlattenSeq(s) = fl[N]
    BY <1>3, Zenon DEF FlattenSeq
  <2>2. fl = [k \in 1..N |-> IF k = 1 THEN s[k] ELSE fl[k - 1] \o s[k]]
    <3>1. \E f : f = [k \in 1..N |-> IF k = 1 THEN s[k] ELSE f[k - 1] \o s[k]]
      BY <1>1, FlattenExists
    <3> QED BY <3>1, Zenon
  <2> HIDE DEF fl
  <2> DEFINE OK(m) == /\ fl[m] \in Seq(D)
                      /\ Range(fl[m]) = UNION {Range(s[k]) : k \in 1..m}
             Bad   == {m \in 1..N : ~ OK(m)}
  <2>3. Bad = {}
    <3> SUFFICES ASSUME Bad # {} PROVE FALSE  OBVIOUS
    <3>1. PICK m \in Bad : \A k \in Bad : m <= k
      <4>1. Bad \in SUBSET Nat  BY <1>1
      <4> HIDE DEF Bad
      <4> QED BY <4>1, Least
    <3>2. m \in 1..N /\ m \in Nat  BY <1>1, <3>1
    <3>3. CASE m = 1
      <4>1. fl[1] = s[1]  BY <2>2, <3>2, <3>3
      <4>2. {Range(s[k]) : k \in 1..1} = {Range(s[1])}  OBVIOUS
      <4>3. OK(1)  BY <1>1, <3>2, <3>3, <4>1, <4>2
      <4> QED BY <3>1, <3>3, <4>3
    <3>4. CASE m # 1
      <4>1. m - 1 \in 1..N /\ ~ (m <= m - 1)  BY <1>1, <3>2, <3>4
      <4>2. OK(m - 1)  BY <3>1, <4>1
      <4>3. fl[m] = fl[m - 1] \o s[m]  BY <2>2, <3>2, <3>4
      <4>4. fl[m] \in Seq(D) /\ Range(fl[m]) = Range(fl[m - 1]) \cup Range(s[m])
        BY <1>1, <3>2, <4>2, <4>3, JoinedRange
      <4>5. \A k : k \in 1..m <=> k \in 1..(m - 1) \/ k = m  BY <3>2
      <4>6. OK(m)  BY <4>2, <4>4, <4>5
      <4> QED BY <3>1, <4>6
    <3> QED BY <3>3, <3>4
  <2>4. OK(N)
    <3>1. N \in 1..N  BY <1>1, <1>3
    <3> HIDE DEF OK
    <3> QED BY <2>3, <3>1
  <2> QED BY <1>1, <2>1, <2>4
<1> QED BY <1>2, <1>3

LEMMA Joined ==
  ASSUME NEW D, NEW a \in Seq(D), NEW b \in Seq(D)
  PROVE  /\ a \o b \in Seq(D) /\ Len(a \o b) = Len(a) + Len(b)
         /\ Len(a) \in Nat /\ Len(b) \in Nat
         /\ \A k \in 1..Len(a) : (a \o b)[k] = a[k]
         /\ \A k \in 1..Len(b) : (a \o b)[k + Len(a)] = b[k]
OBVIOUS

LEMMA Shifted ==
  ASSUME NEW a \in Nat, NEW c \in Nat, NEW j \in 1..c
  PROVE  a + j = j + a /\ a + j \in 1..(a + c)
OBVIOUS

LEMMA Widened ==
  ASSUME NEW a \in Nat, NEW c \in Nat, NEW j \in 1..a
  PROVE  j \in 1..(a + c)
OBVIOUS

\* Flattening puts one sequence behind the other.
LEMMA FlattenPlaces ==
  ASSUME NEW D, NEW s \in Seq(Seq(D))
  PROVE  \E start \in [1..(Len(s) + 1) -> Nat] :
           /\ start[1] = 0
           /\ Len(FlattenSeq(s)) = start[Len(s) + 1]
           /\ \A k \in 1..Len(s) :
                /\ start[k + 1] = start[k] + Len(s[k])
                /\ \A j \in 1..Len(s[k]) :
                     /\ start[k] + j \in 1..Len(FlattenSeq(s))
                     /\ FlattenSeq(s)[start[k] + j] = s[k][j]
<1> DEFINE N  == Len(s)
           fl == CHOOSE f : f = [k \in 1..N |-> IF k = 1 THEN s[k] ELSE f[k - 1] \o s[k]]
<1>1. N \in Nat /\ DOMAIN s = 1..N /\ \A k \in 1..N : s[k] \in Seq(D)
  OBVIOUS
<1>2. CASE N = 0
  <2>1. s = << >>  BY <1>1, <1>2
  <2>2. FlattenSeq(s) = << >>  BY <2>1 DEF FlattenSeq
  <2>3. PICK start : start = [k \in 1..1 |-> 0]  OBVIOUS
  <2>4. start \in [1..(N + 1) -> Nat] /\ start[1] = 0 /\ start[N + 1] = 0
    BY <1>2, <2>3
  <2>5. Len(FlattenSeq(s)) = 0  BY <2>2
  <2>6. 1..N = {}  BY <1>2
  <2> HIDE DEF N
  <2>7. Len(s) = N  BY DEF N
  <2> QED BY <2>4, <2>5, <2>6, <2>7
<1>3. CASE N # 0
  <2>1. FlattenSeq(s) = fl[N]
    BY <1>3, Zenon DEF FlattenSeq
  <2>2. fl = [k \in 1..N |-> IF k = 1 THEN s[k] ELSE fl[k - 1] \o s[k]]
    <3>1. \E f : f = [k \in 1..N |-> IF k = 1 THEN s[k] ELSE f[k - 1] \o s[k]]
      BY <1>1, FlattenExists
    <3> QED BY <3>1, Zenon
  <2> HIDE DEF fl
  <2> DEFINE start == [k \in 1..(N + 1) |-> IF k = 1 THEN 0 ELSE Len(fl[k - 1])]
             OK(m) == /\ fl[m] \in Seq(D)
                      /\ start[m + 1] = start[m] + Len(s[m])
                      /\ \A k \in 1..m : \A j \in 1..Len(s[k]) :
                           start[k] + j \in 1..Len(fl[m]) /\ fl[m][start[k] + j] = s[k][j]
             Bad   == {m \in 1..N : ~ OK(m)}
  <2>3. \A m \in 1..N : m + 1 \in 1..(N + 1) /\ m + 1 # 1 /\ (m + 1) - 1 = m /\ m \in 1..(N + 1)
    BY <1>1
  <2>4. start[1] = 0 /\ \A m \in 1..N : start[m + 1] = Len(fl[m])
    <3>1. 1 \in 1..(N + 1)  BY <1>1
    <3> QED BY <2>3, <3>1
  <2>5. \A m \in 1..N : m # 1 => start[m] = Len(fl[m - 1])
    BY <2>3
  <2>6. DOMAIN start = 1..(N + 1)  OBVIOUS
  <2> HIDE DEF start
  <2>7. Bad = {}
    <3> SUFFICES ASSUME Bad # {} PROVE FALSE  OBVIOUS
    <3>1. PICK m \in Bad : \A k \in Bad : m <= k
      <4>1. Bad \in SUBSET Nat  BY <1>1
      <4> HIDE DEF Bad
      <4> QED BY <4>1, Least
    <3>2. m \in 1..N /\ m \in Nat  BY <1>1, <3>1
    <3>3. CASE m = 1
      <4>1. fl[1] = s[1]  BY <2>2, <3>2, <3>3
      <4>2. fl[1] \in Seq(D) /\ s[1] \in Seq(D) /\ Len(s[1]) \in Nat  BY <1>1, <3>2, <3>3, <4>1
      <4>3. start[2] = start[1] + Len(s[1])  BY <2>4, <3>2, <3>3, <4>1, <4>2
      <4>4. \A j \in 1..Len(s[1]) : start[1] + j = j /\ j \in 1..Len(fl[1])
        BY <2>4, <4>1, <4>2
      <4>5. \A k \in 1..1 : k = 1  OBVIOUS
      <4>6. \A j \in 1..Len(s[1]) :
              start[1] + j \in 1..Len(fl[1]) /\ fl[1][start[1] + j] = s[1][j]
        BY <4>1, <4>4
      <4>7. \A k \in 1..1 : \A j \in 1..Len(s[k]) :
              start[k] + j \in 1..Len(fl[1]) /\ fl[1][start[k] + j] = s[k][j]
        BY <4>5, <4>6
      <4>8. 1 + 1 = 2  OBVIOUS
      <4>9. OK(1)  BY <4>2, <4>3, <4>7, <4>8
      <4> QED BY <3>1, <3>3, <4>9
    <3>4. CASE m # 1
      <4>1. m - 1 \in 1..N /\ ~ (m <= m - 1) /\ (m - 1) + 1 = m  BY <1>1, <3>2, <3>4
      <4>2. OK(m - 1)  BY <3>1, <4>1
      <4>3. fl[m] = fl[m - 1] \o s[m]  BY <2>2, <3>2, <3>4
      <4>4. fl[m - 1] \in Seq(D) /\ s[m] \in Seq(D)  BY <1>1, <3>2, <4>2
      <4>5. /\ fl[m] \in Seq(D) /\ Len(fl[m]) = Len(fl[m - 1]) + Len(s[m])
            /\ Len(fl[m - 1]) \in Nat /\ Len(s[m]) \in Nat
            /\ \A j \in 1..Len(fl[m - 1]) : fl[m][j] = fl[m - 1][j]
            /\ \A j \in 1..Len(s[m]) : fl[m][j + Len(fl[m - 1])] = s[m][j]
        <5>1. PICK a \in Seq(D), c \in Seq(D) : a = fl[m - 1] /\ c = s[m]
          BY <4>4
        <5>2. /\ a \o c \in Seq(D) /\ Len(a \o c) = Len(a) + Len(c)
              /\ Len(a) \in Nat /\ Len(c) \in Nat
              /\ \A j \in 1..Len(a) : (a \o c)[j] = a[j]
              /\ \A j \in 1..Len(c) : (a \o c)[j + Len(a)] = c[j]
          BY Joined
        <5>3. fl[m] = a \o c  BY <4>3, <5>1, Zenon
        <5> QED BY <5>1, <5>2, <5>3, Zenon
      <4>6. start[m] = Len(fl[m - 1]) /\ start[m + 1] = Len(fl[m])
        BY <2>4, <2>5, <3>2, <3>4
      <4>7. start[m + 1] = start[m] + Len(s[m])
        BY <4>5, <4>6
      <4>8. ASSUME NEW k \in 1..m, NEW j \in 1..Len(s[k])
            PROVE  start[k] + j \in 1..Len(fl[m]) /\ fl[m][start[k] + j] = s[k][j]
        <5> HIDE DEF OK, Bad, N
        <5>1. CASE k = m
          <6>1. j \in 1..Len(s[m])  BY <5>1
          <6>2. /\ Len(fl[m - 1]) + j = j + Len(fl[m - 1])
                /\ Len(fl[m - 1]) + j \in 1..(Len(fl[m - 1]) + Len(s[m]))
            BY <4>5, <6>1, Shifted, Zenon
          <6>3. start[m] + j \in 1..Len(fl[m]) /\ fl[m][start[m] + j] = s[m][j]
            BY <4>5, <4>6, <6>1, <6>2, Zenon
          <6> QED BY <5>1, <6>3, Zenon
        <5>2. CASE k # m
          <6>1. k \in 1..(m - 1)  BY <3>2, <5>2
          <6>2. start[k] + j \in 1..Len(fl[m - 1]) /\ fl[m - 1][start[k] + j] = s[k][j]
            BY <4>2, <6>1 DEF OK
          <6>3. start[k] + j \in 1..Len(fl[m])  BY <4>5, <6>2, Widened, Zenon
          <6> QED BY <4>5, <6>2, <6>3
        <5> QED BY <5>1, <5>2
      <4>9. OK(m)  BY <4>5, <4>7, <4>8
      <4> QED BY <3>1, <4>9
    <3> QED BY <3>3, <3>4
  <2>8. N \in 1..N /\ Len(s) = N  BY <1>1, <1>3
  <2>9. OK(N)
    <3> HIDE DEF OK
    <3> QED BY <2>7, <2>8
  <2>10. \A m \in 1..N : OK(m)
    <3> HIDE DEF OK
    <3> QED BY <2>7
  <2>11. start \in [1..(N + 1) -> Nat]
    <3>1. \A k \in 1..(N + 1) : start[k] \in Nat
      <4> TAKE k \in 1..(N + 1)
      <4>1. CASE k = 1  BY <2>4, <4>1
      <4>2. CASE k # 1
        <5>1. k - 1 \in 1..N /\ (k - 1) + 1 = k  BY <1>1, <4>2
        <5>2. start[k] = Len(fl[k - 1]) /\ fl[k - 1] \in Seq(D)  BY <2>4, <2>10, <5>1
        <5> QED BY <5>2
      <4> QED BY <4>1, <4>2
    <3>2. start = [k \in 1..(N + 1) |-> start[k]]  BY <2>6 DEF start
    <3> QED BY <3>1, <3>2
  <2>12. Len(FlattenSeq(s)) = start[N + 1]  BY <2>1, <2>4, <2>8
  <2>13. \A k \in 1..N :
           /\ start[k + 1] = start[k] + Len(s[k])
           /\ \A j \in 1..Len(s[k]) :
                /\ start[k] + j \in 1..Len(FlattenSeq(s))
                /\ FlattenSeq(s)[start[k] + j] = s[k][j]
    BY <2>1, <2>9, <2>10
  <2> HIDE DEF N
  <2> QED BY <2>4, <2>8, <2>11, <2>12, <2>13
<1> QED BY <1>2, <1>3

\* One more sequence goes to the end.
LEMMA FlattenAppend ==
  ASSUME NEW D, NEW s \in Seq(Seq(D)), NEW x \in Seq(D)
  PROVE  FlattenSeq(Append(s, x)) = FlattenSeq(s) \o x
<1> DEFINE N == Len(s)
<1>0. PICK t : t = Append(s, x)  OBVIOUS
<1>1. /\ N \in Nat /\ t \in Seq(Seq(D)) /\ Len(t) = N + 1
      /\ \A k \in 1..N : t[k] = s[k]
      /\ t[N + 1] = x
  BY <1>0
<1> HIDE DEF N
<1>2. Len(s) = N  BY DEF N
<1> DEFINE fl == CHOOSE f : f = [k \in 1..N |-> IF k = 1 THEN s[k] ELSE f[k - 1] \o s[k]]
           gl == CHOOSE f : f = [k \in 1..(N + 1) |-> IF k = 1 THEN t[k] ELSE f[k - 1] \o t[k]]
<1>3. fl = [k \in 1..N |-> IF k = 1 THEN s[k] ELSE fl[k - 1] \o s[k]]
  <2>1. \E f : f = [k \in 1..N |-> IF k = 1 THEN s[k] ELSE f[k - 1] \o s[k]]
    BY <1>1, FlattenExists
  <2> QED BY <2>1, Zenon
<1>4. gl = [k \in 1..(N + 1) |-> IF k = 1 THEN t[k] ELSE gl[k - 1] \o t[k]]
  <2>0. N + 1 \in Nat  BY <1>1
  <2>1. \E f : f = [k \in 1..(N + 1) |-> IF k = 1 THEN t[k] ELSE f[k - 1] \o t[k]]
    BY <2>0, FlattenExists
  <2> QED BY <2>1, Zenon
<1>5. N # 0 => FlattenSeq(s) = fl[N]
  BY <1>2, Zenon DEF FlattenSeq
<1>6. FlattenSeq(t) = gl[N + 1]
  <2>1. Len(t) # 0  BY <1>1
  <2> QED BY <1>1, <2>1, Zenon DEF FlattenSeq
<1>7. FlattenSeq(t) = FlattenSeq(s) \o x
  <2> HIDE DEF fl, gl
  <2>1. CASE N = 0
    <3>1. s = << >>  BY <1>2, <2>1
    <3>2. FlattenSeq(s) = << >>  BY <3>1 DEF FlattenSeq
    <3>3. gl[1] = x  BY <1>1, <1>4, <2>1
    <3>4. << >> \o x = x  OBVIOUS
    <3> QED BY <1>6, <2>1, <3>2, <3>3, <3>4
  <2>2. CASE N # 0
    <3> DEFINE Bad == {m \in 1..N : fl[m] # gl[m]}
    <3>1. Bad = {}
      <4> SUFFICES ASSUME Bad # {} PROVE FALSE  OBVIOUS
      <4>1. PICK m \in Bad : \A k \in Bad : m <= k
        <5>1. Bad \in SUBSET Nat  BY <1>1
        <5> HIDE DEF Bad
        <5> QED BY <5>1, Least
      <4>2. m \in 1..N /\ m \in 1..(N + 1) /\ t[m] = s[m]  BY <1>1
      <4>3. m # 1 => m - 1 \in 1..N /\ ~ (m <= m - 1)  BY <1>1, <4>2
      <4>4. m # 1 => fl[m - 1] = gl[m - 1]  BY <4>1, <4>3
      <4>5. fl[m] = IF m = 1 THEN s[m] ELSE fl[m - 1] \o s[m]  BY <1>3, <4>2
      <4>6. gl[m] = IF m = 1 THEN t[m] ELSE gl[m - 1] \o t[m]  BY <1>4, <4>2
      <4>7. fl[m] = gl[m]  BY <4>2, <4>4, <4>5, <4>6
      <4> QED BY <4>1, <4>7
    <3>2. N \in 1..N /\ N + 1 \in 1..(N + 1) /\ N + 1 # 1 /\ (N + 1) - 1 = N  BY <1>1, <2>2
    <3>3. gl[N + 1] = gl[N] \o x  BY <1>1, <1>4, <3>2
    <3>4. fl[N] = gl[N]  BY <3>1, <3>2
    <3> QED BY <1>5, <1>6, <2>2, <3>3, <3>4
  <2> QED BY <2>1, <2>2
<1> QED BY <1>0, <1>7

LEMMA FlattenNothing == FlattenSeq(<< >>) = << >>
BY DEF FlattenSeq

\* What is different in its parts is different in the whole.
Distinct(s) ==
  \A k, m \in 1..Len(s) : \A j \in 1..Len(s[k]), l \in 1..Len(s[m]) :
    s[k][j] = s[m][l] => k = m /\ j = l

LEMMA FlattenInjective ==
  ASSUME NEW D, NEW s \in Seq(Seq(D)), Distinct(s)
  PROVE  IsInjective(FlattenSeq(s))
<1> DEFINE N == Len(s)
<1>0. PICK flat : flat = FlattenSeq(s)  OBVIOUS
<1>1. N \in Nat /\ DOMAIN s = 1..N /\ \A k \in 1..N : s[k] \in Seq(D)
  OBVIOUS
<1> HIDE DEF N
<1>2. Len(s) = N  BY DEF N
<1>3. PICK start \in [1..(N + 1) -> Nat] :
        /\ start[1] = 0
        /\ Len(flat) = start[N + 1]
        /\ \A k \in 1..N :
             /\ start[k + 1] = start[k] + Len(s[k])
             /\ \A j \in 1..Len(s[k]) :
                  /\ start[k] + j \in 1..Len(flat)
                  /\ flat[start[k] + j] = s[k][j]
  <2>1. \E start \in [1..(Len(s) + 1) -> Nat] :
          /\ start[1] = 0
          /\ Len(FlattenSeq(s)) = start[Len(s) + 1]
          /\ \A k \in 1..Len(s) :
               /\ start[k + 1] = start[k] + Len(s[k])
               /\ \A j \in 1..Len(s[k]) :
                    /\ start[k] + j \in 1..Len(FlattenSeq(s))
                    /\ FlattenSeq(s)[start[k] + j] = s[k][j]
    BY FlattenPlaces, ZenonT(40)
  <2> QED BY <1>0, <1>2, <2>1, Zenon
<1>4. flat \in Seq(D)
  BY <1>0, FlattenRange
<1>5. Len(flat) \in Nat
  BY <1>4
<1>6. ASSUME NEW p \in 1..Len(flat)
      PROVE  \E k \in 1..N : \E j \in 1..Len(s[k]) : p = start[k] + j /\ flat[p] = s[k][j]
  <2> DEFINE S == {k \in 1..(N + 1) : p <= start[k]}
  <2>1. N + 1 \in S  BY <1>1, <1>3, <1>5
  <2>2. PICK m \in S : \A k \in S : m <= k
    <3>1. S \in SUBSET Nat  BY <1>1
    <3> HIDE DEF S
    <3> QED BY <2>1, <3>1, Least
  <2>3. m \in 1..(N + 1) /\ p <= start[m]  OBVIOUS
  <2>4. m # 1  BY <1>3, <1>5, <2>3
  <2>5. m - 1 \in 1..N /\ m - 1 \in 1..(N + 1) /\ (m - 1) + 1 = m /\ ~ (m <= m - 1)
    BY <1>1, <2>3, <2>4
  <2>6. ~ (p <= start[m - 1])  BY <2>2, <2>5
  <2>7. start[m] = start[m - 1] + Len(s[m - 1])  BY <1>3, <2>5
  <2>8. start[m - 1] \in Nat /\ Len(s[m - 1]) \in Nat /\ p \in Nat  BY <1>1, <1>3, <1>5, <2>5
  <2>9. p - start[m - 1] \in 1..Len(s[m - 1]) /\ p = start[m - 1] + (p - start[m - 1])
    BY <2>3, <2>6, <2>7, <2>8
  <2> QED BY <1>3, <2>5, <2>9
<1>7. ASSUME NEW p \in 1..Len(flat), NEW q \in 1..Len(flat), flat[p] = flat[q]
      PROVE  p = q
  <2>1. PICK k \in 1..N : \E j \in 1..Len(s[k]) : p = start[k] + j /\ flat[p] = s[k][j]
    BY <1>6
  <2>2. PICK j \in 1..Len(s[k]) : p = start[k] + j /\ flat[p] = s[k][j]
    BY <2>1
  <2>3. PICK m \in 1..N : \E l \in 1..Len(s[m]) : q = start[m] + l /\ flat[q] = s[m][l]
    BY <1>6
  <2>4. PICK l \in 1..Len(s[m]) : q = start[m] + l /\ flat[q] = s[m][l]
    BY <2>3
  <2>5. s[k][j] = s[m][l]  BY <1>7, <2>2, <2>4
  <2>6. k = m /\ j = l  BY <1>2, <2>5 DEF Distinct
  <2> QED BY <2>2, <2>4, <2>6
<1>8. DOMAIN flat = 1..Len(flat)  BY <1>4
<1> QED BY <1>0, <1>7, <1>8 DEF IsInjective
=============================================================================
