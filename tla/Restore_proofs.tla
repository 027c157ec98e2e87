--------------------------- MODULE Restore_proofs ---------------------------
(***************************************************************************)
(* Proofs about Restore, for every set of inodes, every mix of the options *)
(* and any number of kills and of calls that fail: the queue is complete   *)
(* and in order, a file that an earlier run restored is left alone, a      *)
(* directory keeps the time it is given, nothing gets into a file that     *)
(* does not belong there, and what can be read is restored.                *)
(***************************************************************************)
EXTENDS Restore, ExtentTree_proofs, FiniteSetTheorems

----------------------------------------------------------------------------
(* A set of positions in their order.                                      *)

Ordered(s, S) ==
  /\ s \in [1..Cardinality(S) -> S]
  /\ Range(s) = S
  /\ \A a, b \in DOMAIN s : a < b => s[a] < s[b]

\* If some set cannot be put in order, take one whose bound is the least:
\* what is below the bound can be, and the bound goes behind it.
LEMMA CanBeOrdered ==
  ASSUME NEW N \in Nat, NEW S \in SUBSET (1..N)
  PROVE  \E s : Ordered(s, S)
<1> DEFINE Bad == {k \in Nat : \E T \in SUBSET (1..k) : \A s : ~ Ordered(s, T)}
<1>1. Bad = {}
  <2> SUFFICES ASSUME Bad # {} PROVE FALSE
    OBVIOUS
  <2>1. PICK k \in Bad : \A m \in Bad : k <= m
    <3>1. Bad \in SUBSET Nat
      OBVIOUS
    <3> HIDE DEF Bad
    <3> QED BY <3>1, Least
  <2>2. PICK T \in SUBSET (1..k) : \A s : ~ Ordered(s, T)
    OBVIOUS
  <2>3. k \in Nat /\ IsFiniteSet(T)
    <3>1. k \in Nat /\ 1 \in Int /\ k \in Int
      BY <2>1
    <3>2. IsFiniteSet(1..k)
      BY <3>1, FS_Interval
    <3> QED BY <3>1, <3>2, <2>2, FS_Subset
  <2>4. CASE k \notin T
    <3>1. CASE k = 0
      <4>0. T = {}
        BY <2>2, <3>1
      <4>1. T = {} /\ Cardinality(T) = 0
        BY <4>0, FS_EmptySet
      <4>2. Ordered(<< >>, T)
        BY <4>1 DEF Ordered, Range
      <4> QED BY <4>2, <2>2
    <3>2. CASE k # 0
      <4>1. T \in SUBSET (1..(k - 1)) /\ k - 1 \in Nat
        BY <2>2, <2>3, <2>4, <3>2
      <4>2. k - 1 \in Bad
        BY <4>1, <2>2
      <4> QED BY <4>2, <2>1, <2>3
    <3> QED BY <3>1, <3>2
  <2>5. CASE k \in T
    <3> DEFINE U == T \ {k}
               c1 == Cardinality(U)
    <3>1. k - 1 \in Nat /\ U \in SUBSET (1..(k - 1)) /\ k - 1 \notin Bad
      BY <2>1, <2>2, <2>3, <2>5
    <3>2. PICK s : Ordered(s, U)
      BY <3>1
    <3>3. IsFiniteSet(U) /\ c1 \in Nat /\ Cardinality(T) = c1 + 1
      <4>1. IsFiniteSet(U) /\ Cardinality(U) = Cardinality(T) - 1
        BY <2>3, <2>5, FS_RemoveElement
      <4>2. Cardinality(U) \in Nat /\ Cardinality(T) \in Nat
        BY <4>1, <2>3, FS_CardinalityType
      <4> QED BY <4>1, <4>2
    <3> HIDE DEF c1
    <3>4. /\ s \in [1..c1 -> U] /\ Range(s) = U
          /\ \A a, b \in 1..c1 : a < b => s[a] < s[b]
      BY <3>2 DEF Ordered, c1
    <3> DEFINE t == [a \in 1..(c1 + 1) |-> IF a = c1 + 1 THEN k ELSE s[a]]
    <3>5. t \in [1..(c1 + 1) -> T]
      BY <3>3, <3>4, <2>5
    <3>6. Range(t) = T
      <4>1. \A x \in U : \E a \in 1..c1 : t[a] = x
        BY <3>3, <3>4 DEF Range
      <4>2. t[c1 + 1] = k /\ c1 + 1 \in DOMAIN t
        BY <3>3
      <4>3. \A a \in 1..c1 : a \in DOMAIN t
        BY <3>3
      <4> QED BY <3>5, <4>1, <4>2, <4>3, <2>5 DEF Range
    <3>7. ASSUME NEW a \in 1..(c1 + 1), NEW b \in 1..(c1 + 1), a < b
          PROVE  t[a] < t[b]
      <4>1. a \in 1..c1 /\ t[a] = s[a] /\ s[a] \in 1..(k - 1)
        <5>1. a \in 1..c1 /\ a # c1 + 1  BY <3>3, <3>7
        <5>2. t[a] = s[a] /\ s[a] \in U  BY <5>1, <3>4
        <5> QED BY <5>1, <5>2, <3>1
      <4>2. CASE b = c1 + 1  BY <4>1, <4>2, <3>1, <2>3
      <4>3. CASE b # c1 + 1  BY <4>1, <4>3, <3>3, <3>4, <3>7
      <4> QED BY <4>2, <4>3
    <3> HIDE DEF t
    <3>8. Ordered(t, T)
      <4>1. DOMAIN t = 1..(c1 + 1)  BY <3>5
      <4> QED BY <4>1, <3>3, <3>5, <3>6, <3>7 DEF Ordered
    <3> QED BY <3>8, <2>2
  <2> QED BY <2>4, <2>5
<1> QED BY <1>1

LEMMA ThoseInOrder ==
  ASSUME RestoreAssumption, job \in Jobs, NEW os \in SUBSET Inodes
  PROVE  /\ Those(os) \in Seq(Inodes)
         /\ Range(Those(os)) = os \ job.exclude
         /\ \A a, b \in DOMAIN Those(os) : a < b => Those(os)[a] < Those(os)[b]
<1> DEFINE S == os \ job.exclude
<1>1. job.inode \in Seq(Range(job.inode))
  BY DEF RestoreAssumption
<1>2. S \in SUBSET (1..Len(job.inode)) /\ Len(job.inode) \in Nat
  BY <1>1 DEF Inodes
<1>3. Cardinality(S) \in Nat
  <2>1. IsFiniteSet(1..Len(job.inode))
    BY <1>2, FS_Interval
  <2> HIDE DEF S
  <2> QED BY <1>2, <2>1, FS_Subset, FS_CardinalityType
<1> HIDE DEF S
<1>4. \E s : Ordered(s, S)
  BY <1>2, CanBeOrdered
<1>5. Those(os) = CHOOSE s \in [1..Cardinality(S) -> S] :
                    Range(s) = S /\ \A a, b \in DOMAIN s : a < b => s[a] < s[b]
  BY DEF Those, S
<1>6. Ordered(Those(os), S)
  BY <1>4, <1>5 DEF Ordered
<1>7. S \subseteq Inodes
  BY DEF S
<1>8. Those(os) \in [1..Cardinality(S) -> Inodes]
  BY <1>6, <1>7 DEF Ordered
<1>9. Those(os) \in Seq(Inodes)
  BY <1>3, <1>8
<1> QED BY <1>6, <1>9 DEF Ordered, S

\* Three increasing sequences of different elements, one behind the other.
LEMMA ThreeInARow ==
  ASSUME NEW S, NEW f \in Seq(S), NEW m \in Seq(S), NEW l \in Seq(S)
  PROVE  LET s == f \o m \o l IN
         /\ s \in Seq(S)
         /\ \A a \in DOMAIN s :
              \/ a \in DOMAIN f /\ s[a] = f[a]
              \/ a - Len(f) \in DOMAIN m /\ s[a] = m[a - Len(f)] /\ a > Len(f)
              \/ /\ a - Len(f) - Len(m) \in DOMAIN l /\ s[a] = l[a - Len(f) - Len(m)]
                 /\ a > Len(f) + Len(m)
         /\ Range(s) = Range(f) \cup Range(m) \cup Range(l)
<1> DEFINE s == f \o m \o l
<1>1. /\ Len(f) \in Nat /\ Len(m) \in Nat /\ Len(l) \in Nat
      /\ DOMAIN f = 1..Len(f) /\ DOMAIN m = 1..Len(m) /\ DOMAIN l = 1..Len(l)
  OBVIOUS
<1>2. s \in Seq(S) /\ DOMAIN s = 1..(Len(f) + Len(m) + Len(l))
  OBVIOUS
<1>3. /\ \A a \in 1..Len(f) : s[a] = f[a]
      /\ \A a \in 1..Len(m) : s[a + Len(f)] = m[a]
      /\ \A a \in 1..Len(l) : s[a + (Len(f) + Len(m))] = l[a]
  OBVIOUS
<1> HIDE DEF s
<1>4. ASSUME NEW a \in DOMAIN s
      PROVE  \/ a \in DOMAIN f /\ s[a] = f[a]
             \/ a - Len(f) \in DOMAIN m /\ s[a] = m[a - Len(f)] /\ a > Len(f)
             \/ /\ a - Len(f) - Len(m) \in DOMAIN l /\ s[a] = l[a - Len(f) - Len(m)]
                /\ a > Len(f) + Len(m)
  <2>1. CASE a <= Len(f)
    BY <1>1, <1>2, <1>3, <2>1
  <2>2. CASE a > Len(f) /\ a <= Len(f) + Len(m)
    <3>1. a - Len(f) \in 1..Len(m) /\ (a - Len(f)) + Len(f) = a
      BY <1>1, <1>2, <2>2
    <3> QED BY <1>1, <1>3, <2>2, <3>1
  <2>3. CASE a > Len(f) + Len(m)
    <3> DEFINE b == a - Len(f) - Len(m)
    <3>1. b \in 1..Len(l) /\ b + (Len(f) + Len(m)) = a
      BY <1>1, <1>2, <2>3
    <3> HIDE DEF b
    <3>2. s[a] = l[b]
      BY <1>3, <3>1
    <3> QED BY <1>1, <2>3, <3>1, <3>2 DEF b
  <2> QED BY <1>1, <1>2, <2>1, <2>2, <2>3
<1>5. Range(s) = Range(f) \cup Range(m) \cup Range(l)
  <2>1. Range(s) \subseteq Range(f) \cup Range(m) \cup Range(l)
    BY <1>4 DEF Range
  <2>2. Range(f) \subseteq Range(s)
    BY <1>1, <1>2, <1>3 DEF Range
  <2>3. Range(m) \subseteq Range(s)
    <3>1. \A a \in 1..Len(m) : a + Len(f) \in DOMAIN s
      BY <1>1, <1>2
    <3> QED BY <1>1, <1>3, <3>1 DEF Range
  <2>4. Range(l) \subseteq Range(s)
    <3>1. \A a \in 1..Len(l) : a + (Len(f) + Len(m)) \in DOMAIN s
      BY <1>1, <1>2
    <3> QED BY <1>1, <1>3, <3>1 DEF Range
  <2> QED BY <2>1, <2>2, <2>3, <2>4
<1> QED BY <1>2, <1>4, <1>5 DEF s

InQueueOrder(s) ==
  /\ s \in Seq(Inodes)
  /\ Range(s) = Inodes \ job.exclude
  /\ \A a, b \in DOMAIN s : a < b =>
       /\ s[a] # s[b]
       /\ s[b] \in job.first => s[a] \in job.first
       /\ s[a] \in job.last \ job.first => s[b] \in job.last \ job.first

LEMMA QueueInOrder ==
  ASSUME RestoreAssumption, job \in Jobs
  PROVE  InQueueOrder(Queue)
<1> DEFINE F == job.first
           M == Inodes \ (job.first \cup job.last)
           L == job.last \ job.first
           f == Those(F)
           m == Those(M)
           l == Those(L)
           s == f \o m \o l
<1>1. /\ F \in SUBSET Inodes /\ M \in SUBSET Inodes /\ L \in SUBSET Inodes
      /\ F \cup M \cup L = Inodes /\ F \cap M = {} /\ F \cap L = {} /\ M \cap L = {}
  BY DEF RestoreAssumption, Inodes
<1> HIDE DEF F, M, L
<1>2. /\ f \in Seq(Inodes) /\ m \in Seq(Inodes) /\ l \in Seq(Inodes)
      /\ Range(f) = F \ job.exclude /\ Range(m) = M \ job.exclude /\ Range(l) = L \ job.exclude
      /\ \A a, b \in DOMAIN f : a < b => f[a] < f[b]
      /\ \A a, b \in DOMAIN m : a < b => m[a] < m[b]
      /\ \A a, b \in DOMAIN l : a < b => l[a] < l[b]
  BY <1>1, ThoseInOrder
<1>3. Inodes \subseteq Nat
  <2>1. job.inode \in Seq(Range(job.inode))
    BY DEF RestoreAssumption
  <2> QED BY <2>1 DEF Inodes
<1> HIDE DEF f, m, l
<1>4. /\ Len(f) \in Nat /\ Len(m) \in Nat /\ Len(l) \in Nat
      /\ DOMAIN f = 1..Len(f) /\ DOMAIN m = 1..Len(m) /\ DOMAIN l = 1..Len(l)
      /\ \A a \in DOMAIN f : f[a] \in F /\ f[a] \in Nat
      /\ \A a \in DOMAIN m : m[a] \in M /\ m[a] \in Nat
      /\ \A a \in DOMAIN l : l[a] \in L /\ l[a] \in Nat
  <2>1. /\ Len(f) \in Nat /\ Len(m) \in Nat /\ Len(l) \in Nat
        /\ DOMAIN f = 1..Len(f) /\ DOMAIN m = 1..Len(m) /\ DOMAIN l = 1..Len(l)
    BY <1>2
  <2>2. F \subseteq Nat /\ M \subseteq Nat /\ L \subseteq Nat
    BY <1>1, <1>3
  <2>3. \A a \in DOMAIN f : f[a] \in F  BY <1>2 DEF Range
  <2>4. \A a \in DOMAIN m : m[a] \in M  BY <1>2 DEF Range
  <2>5. \A a \in DOMAIN l : l[a] \in L  BY <1>2 DEF Range
  <2> QED BY <2>1, <2>2, <2>3, <2>4, <2>5
<1>5. /\ s \in Seq(Inodes)
      /\ \A a \in DOMAIN s :
           \/ a \in DOMAIN f /\ s[a] = f[a]
           \/ a - Len(f) \in DOMAIN m /\ s[a] = m[a - Len(f)] /\ a > Len(f)
           \/ /\ a - Len(f) - Len(m) \in DOMAIN l /\ s[a] = l[a - Len(f) - Len(m)]
              /\ a > Len(f) + Len(m)
      /\ Range(s) = Range(f) \cup Range(m) \cup Range(l)
  BY <1>2, ThreeInARow
<1>6. Queue = s
  BY DEF Queue, f, m, l, F, M, L
<1> HIDE DEF s
<1>7. ASSUME NEW a \in DOMAIN s, NEW b \in DOMAIN s, a < b
      PROVE  /\ s[a] # s[b]
             /\ s[b] \in F => s[a] \in F
             /\ s[a] \in L => s[b] \in L
  <2>0. a \in Nat /\ b \in Nat
    BY <1>5
  <2>1. CASE a \in DOMAIN f /\ s[a] = f[a]
    <3>1. CASE b \in DOMAIN f /\ s[b] = f[b]
      BY <1>1, <1>2, <1>4, <1>7, <2>1, <3>1
    <3>2. CASE s[b] \in M \/ s[b] \in L
      BY <1>1, <1>4, <2>1, <3>2
    <3> QED BY <1>4, <1>5, <3>1, <3>2
  <2>2. CASE a - Len(f) \in DOMAIN m /\ s[a] = m[a - Len(f)] /\ a > Len(f)
    <3>1. CASE b - Len(f) \in DOMAIN m /\ s[b] = m[b - Len(f)]
      <4>1. a - Len(f) < b - Len(f)
        BY <1>4, <1>7, <2>0
      <4>2. m[a - Len(f)] < m[b - Len(f)]
        BY <1>2, <2>2, <3>1, <4>1
      <4> QED BY <1>1, <1>4, <2>2, <3>1, <4>2
    <3>2. CASE s[b] \in L
      BY <1>1, <1>4, <2>2, <3>2
    <3>3. b \notin DOMAIN f
      BY <1>4, <1>7, <2>0, <2>2
    <3> QED BY <1>4, <1>5, <3>1, <3>2, <3>3
  <2>3. CASE /\ a - Len(f) - Len(m) \in DOMAIN l /\ s[a] = l[a - Len(f) - Len(m)]
             /\ a > Len(f) + Len(m)
    <3>1. b \notin DOMAIN f /\ b - Len(f) \notin DOMAIN m
      BY <1>4, <1>7, <2>0, <2>3
    <3>2. b - Len(f) - Len(m) \in DOMAIN l /\ s[b] = l[b - Len(f) - Len(m)]
      BY <1>5, <3>1
    <3>3. a - Len(f) - Len(m) < b - Len(f) - Len(m)
      BY <1>4, <1>7, <2>0
    <3>4. l[a - Len(f) - Len(m)] < l[b - Len(f) - Len(m)]
      BY <1>2, <2>3, <3>2, <3>3
    <3> QED BY <1>1, <1>4, <2>3, <3>2, <3>4
  <2> QED BY <1>5, <2>1, <2>2, <2>3
<1>8. Range(s) = Inodes \ job.exclude
  BY <1>1, <1>2, <1>5
<1> QED BY <1>5, <1>6, <1>7, <1>8 DEF InQueueOrder, F, L

----------------------------------------------------------------------------
(* The output directory.                                                   *)

IsEntry(r)   == r = [there |-> r.there, data |-> r.data, size |-> r.size, time |-> r.time]
IsOutput(fs) == DOMAIN fs = Inodes /\ fs = [o \in Inodes |-> fs[o]]
                /\ \A o \in Inodes : IsEntry(fs[o])

LEMMA PutEntry ==
  ASSUME NEW file, NEW p, IsEntry(file)
  PROVE  IsEntry(Put(file, p)) /\ Put(file, p).time = Today
<1> DEFINE d == [u \in DOMAIN file.data \cup Covers(p) |->
                   IF u \in Covers(p) THEN UnitAt(p, u) ELSE file.data[u]]
           z == Max({file.size, p.from + p.n})
<1>1. Put(file, p) = [file EXCEPT !.data = d, !.size = z, !.time = Today]
  BY DEF Put
<1> HIDE DEF d, z
<1> QED BY <1>1 DEF IsEntry

\* What is written, is written to the current file.
LEMMA WrittenOutput ==
  ASSUME NEW fs, NEW p, IsOutput(fs), c \in Inodes
  PROVE  /\ IsOutput(Written(fs, p)) /\ Written(fs, p)[c].time = Today
         /\ \A o \in Inodes : o # c => Written(fs, p)[o] = fs[o]
<1>1. IsEntry(Put(fs[c], p)) /\ Put(fs[c], p).time = Today
  BY PutEntry DEF IsOutput
<1>2. Written(fs, p) = [fs EXCEPT ![c] = Put(fs[c], p)]
  BY DEF Written
<1> QED BY <1>1, <1>2 DEF IsOutput

LEMMA FlushedOutput ==
  ASSUME IsOutput(out), c \in Inodes
  PROVE  /\ IsOutput(Flushed)
         /\ out[c].time = Today => Flushed[c].time = Today
         /\ \A o \in Inodes : o # c => Flushed[o] = out[o]
BY WrittenOutput DEF Flushed

\* Making directories leaves everything alone that is there, but for the
\* time of what gets a new entry.
LEMMA MadeOutput ==
  ASSUME IsOutput(out), NEW new \in SUBSET Inodes
  PROVE  /\ IsOutput(Made(new))
         /\ \A o \in Inodes :
              (o \in new => out[o].there) /\ (\A p \in new : Ino(p).up # o)
                => Made(new)[o] = out[o]
         /\ \A o \in Inodes :
              out[o].there /\ (\A p \in new : Ino(p).up # o) => Made(new)[o] = out[o]
<1>1. IsEntry(New) /\ \A o \in Inodes : IsEntry([out[o] EXCEPT !.time = Today])
  BY DEF IsEntry, New, IsOutput
<1>2. DOMAIN Made(new) = Inodes /\ Made(new) = [o \in Inodes |-> Made(new)[o]]
  BY DEF Made
<1>3. \A o \in Inodes : IsEntry(Made(new)[o])
  BY <1>1 DEF Made, IsOutput
<1>4. \A o \in Inodes :
        (o \in new => out[o].there) /\ (\A p \in new : Ino(p).up # o) => Made(new)[o] = out[o]
  BY DEF Made
<1> QED BY <1>2, <1>3, <1>4 DEF IsOutput

LEMMA OpenedOutput ==
  ASSUME IsOutput(out), NEW d \in Inodes
  PROVE  /\ IsOutput(Opened(d)) /\ Opened(d)[d].time = Today
         /\ \A o \in Inodes : o # d /\ Ino(d).up # o => Opened(d)[o] = out[o]
<1>1. IsOutput(Made({d})) /\ \A o \in Inodes : o # d /\ Ino(d).up # o => Made({d})[o] = out[o]
  BY MadeOutput
<1>2. IsEntry(New) /\ New.time = Today
  BY DEF IsEntry, New
<1> QED BY <1>1, <1>2 DEF Opened, IsOutput

----------------------------------------------------------------------------
(* The invariant.                                                          *)

OnFile == {"write", "truncate", "close", "times"}
Busy   == OnFile \cup {"items", "blocked"}

\* A file in the making is as new as it can be, and one that cannot be opened
\* was not skipped.
PlaceOK ==
  /\ at \in {"down", "dirs", "done", "dead"} \cup Busy
  /\ at # "down" => InQueueOrder(q)
  /\ n \in Nat \ {0}
  /\ at \in OnFile => n \in DOMAIN q /\ c \in Files /\ out[c].time = Today
  /\ at = "blocked" => n \in DOMAIN q /\ c \in Files /\ ~ Skips(c)

\* Nothing from a on in the queue lies in the directory q[a].
Settled(a) == q[a] \in Dirs /\ \A b \in DOMAIN q : Ino(q[b]).up = q[a] => b < a
TimesOK    ==
  /\ at \in Busy => \A a \in DOMAIN q : a < n /\ Settled(a) => out[q[a]].time = Ino(q[a]).mtime
  /\ DirTimesStay

RestoreInv == job \in Jobs /\ IsOutput(out) /\ PlaceOK /\ TimesOK

LEMMA InitInv == RestoreAssumption /\ Init => RestoreInv
<1> SUFFICES ASSUME RestoreAssumption, Init PROVE RestoreInv
  OBVIOUS
<1>1. IsEntry(Absent)
  BY DEF IsEntry, Absent
<1>2. IsOutput(out)
  BY <1>1 DEF Init, IsOutput
<1> QED BY <1>2 DEF Init, RestoreInv, PlaceOK, TimesOK, DirTimesStay, Busy, OnFile

\* The queue is a sequence of inodes, each of a kind.
LEMMA CurrentItem ==
  ASSUME RestoreInv, at # "down"
  PROVE  /\ DOMAIN q = 1..Len(q) /\ Len(q) \in Nat
         /\ \A a \in DOMAIN q : q[a] \in Inodes /\ a \in Nat
         /\ n <= Len(q) => n \in DOMAIN q /\ c \in Inodes
         /\ Dirs \subseteq Inodes /\ Files \subseteq Inodes /\ Dirs \cap Files = {}
BY DEF RestoreInv, PlaceOK, InQueueOrder, c, Dirs, Files

\* Steps on the way to the next item that touch no entry but that of the
\* current file, or none.
LEMMA FrameInv ==
  ASSUME RestoreInv, UNCHANGED << job, q >>, at # "down", at' # "down"
  PROVE  /\ InQueueOrder(q)' /\ job' \in Jobs
         /\ \A a : Settled(a)' = Settled(a)
         /\ Inodes' = Inodes /\ Dirs' = Dirs /\ Files' = Files
         /\ \A o : Ino(o)' = Ino(o)
<1>1. InQueueOrder(q)' /\ job' \in Jobs
  BY DEF RestoreInv, PlaceOK, InQueueOrder, Inodes
<1> QED BY <1>1 DEF Settled, Dirs, Files, Ino, Inodes

\* What is done about a file changes no other time than that of the directory
\* it lies in, and this one is not settled.
LEMMA FileStepInv ==
  ASSUME RestoreInv, UNCHANGED << job, q >>, at \in Busy, at' \in Busy,
         n \in DOMAIN q, c \in Files, n' \in {n, n + 1}, IsOutput(out)',
         \A d \in Dirs : d # Ino(c).up => out'[d] = out[d],
         at' \in OnFile => n' = n /\ out'[c].time = Today,
         at' = "blocked" => n' = n /\ out' = out /\ ~ Skips(c)
  PROVE  RestoreInv'
<1>1. at # "down" /\ at' # "down" /\ n \in Nat \ {0}
  BY DEF Busy, OnFile, RestoreInv, PlaceOK
<1>2. /\ InQueueOrder(q)' /\ job' \in Jobs
      /\ \A a : Settled(a)' = Settled(a)
      /\ Dirs' = Dirs /\ Files' = Files
      /\ \A o : Ino(o)' = Ino(o)
  BY <1>1, FrameInv
<1>3. n' = n => c' = c /\ n' \in DOMAIN q'
  BY DEF c
<1>4. PlaceOK'
  <2>1. at' \in OnFile => n' \in DOMAIN q' /\ c' \in Files' /\ out'[c'].time = Today
    BY <1>2, <1>3
  <2>2. at' = "blocked" => n' \in DOMAIN q' /\ c' \in Files' /\ ~ Skips(c)'
    BY <1>2, <1>3 DEF Skips, Ino
  <2> QED BY <1>1, <1>2, <2>1, <2>2 DEF PlaceOK, Busy
<1>5. ASSUME NEW a \in DOMAIN q, a < n', Settled(a) PROVE out'[q[a]].time = Ino(q[a]).mtime
  <2>1. a \in Nat /\ q[a] \in Dirs
    BY <1>1, <1>5, CurrentItem DEF Settled
  <2>2. a # n
    BY <1>1, <2>1, CurrentItem DEF c
  <2>3. a < n
    BY <1>1, <1>5, <2>1, <2>2
  <2>4. Ino(c).up # q[a]
    BY <1>1, <1>5, <2>1, <2>3 DEF Settled, c
  <2> QED BY <1>5, <2>1, <2>3, <2>4 DEF RestoreInv, TimesOK
<1>6. TimesOK'
  <2>1. \A a \in DOMAIN q' : a < n' /\ Settled(a)' => out'[q'[a]].time = Ino(q[a])'.mtime
    BY <1>2, <1>5
  <2> QED BY <2>1 DEF TimesOK, DirTimesStay, Busy, OnFile
<1> QED BY <1>2, <1>4, <1>6 DEF RestoreInv

LEMMA DirPhaseInv ==
  ASSUME RestoreAssumption, RestoreInv, Launch \/ CreateDir \/ CreateDirFails
  PROVE  RestoreInv'
<1>1. CASE Launch
  <2>1. InQueueOrder(Queue)
    BY QueueInOrder DEF RestoreInv
  <2>2. InQueueOrder(q)'
    BY <1>1, <2>1 DEF Launch, InQueueOrder, Inodes
  <2>3. IsOutput(out)'
    BY <1>1 DEF Launch, RestoreInv, IsOutput, Inodes
  <2> QED BY <1>1, <2>2, <2>3
      DEF Launch, RestoreInv, PlaceOK, TimesOK, DirTimesStay, Busy, OnFile
<1>2. CASE CreateDir \/ CreateDirFails
  <2>1. /\ at = "dirs" /\ at' \in {"dirs", "dead"} /\ UNCHANGED << job, q >>
        /\ n' \in {n, n + 1} /\ n \in Nat \ {0} /\ n <= Len(q)
    BY <1>2 DEF CreateDir, CreateDirFails, RestoreInv, PlaceOK
  <2>2. {c} \cup Above(c) \in SUBSET Inodes /\ Above(c) \in SUBSET Inodes
    BY <2>1, CurrentItem DEF Above
  <2>3. IsOutput(Made({c} \cup Above(c))) /\ IsOutput(Made(Above(c))) /\ IsOutput(out)
    BY <2>2, MadeOutput DEF RestoreInv
  <2>4. out' \in {out, Made({c} \cup Above(c)), Made(Above(c))}
    BY <1>2 DEF CreateDir, CreateDirFails
  <2>5. IsOutput(out)'
    BY <2>1, <2>3, <2>4 DEF IsOutput, Inodes
  <2>6. InQueueOrder(q)' /\ job' \in Jobs
    BY <2>1, FrameInv
  <2> QED BY <2>1, <2>5, <2>6 DEF RestoreInv, PlaceOK, TimesOK, DirTimesStay, Busy, OnFile
<1> QED BY <1>1, <1>2

LEMMA ItemsInv ==
  ASSUME RestoreAssumption, RestoreInv,
         EndDirs \/ RecoverDir \/ SkipItem \/ SkipFails \/ EndItems
  PROVE  RestoreInv'
<1>0. /\ at # "down" /\ at' # "down" /\ UNCHANGED << job, q >> /\ n \in Nat \ {0}
      /\ DOMAIN q = 1..Len(q) /\ Len(q) \in Nat
      /\ \A a \in DOMAIN q : q[a] \in Inodes /\ a \in Nat
  BY CurrentItem DEF EndDirs, RecoverDir, SkipItem, SkipFails, EndItems, NextItem, RestoreInv,
                     PlaceOK
<1>1. /\ InQueueOrder(q)' /\ job' \in Jobs
      /\ \A a : Settled(a)' = Settled(a)
      /\ Inodes' = Inodes /\ Dirs' = Dirs /\ Files' = Files
      /\ \A o : Ino(o)' = Ino(o)
  BY <1>0, FrameInv
<1>2. CASE EndDirs
  <2>1. IsOutput(out)'
    BY <1>1, <1>2 DEF EndDirs, RestoreInv, IsOutput
  <2>2. \A a \in DOMAIN q' : ~ (a < n')
    BY <1>0, <1>2 DEF EndDirs
  <2> QED BY <1>0, <1>1, <1>2, <2>1, <2>2
      DEF EndDirs, RestoreInv, PlaceOK, TimesOK, DirTimesStay, Busy, OnFile
<1>3. CASE RecoverDir
  <2>1. c \in Inodes /\ c \in Dirs /\ n \in DOMAIN q /\ at = "items"
    BY <1>0, <1>3, CurrentItem DEF RecoverDir
  <2>2. at' = "items" /\ n' = n + 1 /\ out' = [out EXCEPT ![c].time = Ino(c).mtime]
    BY <1>3 DEF RecoverDir, NextItem, DirTime
  <2>3. /\ IsOutput(out)' /\ out'[c].time = Ino(c).mtime
        /\ \A o \in Inodes : o # c => out'[o] = out[o]
    BY <1>1, <2>1, <2>2 DEF RestoreInv, IsOutput, IsEntry
  <2>4. ASSUME NEW a \in DOMAIN q, a < n', Settled(a)
        PROVE  out'[q[a]].time = Ino(q[a]).mtime
    <3>1. a < n \/ a = n
      BY <1>0, <2>2, <2>4
    <3>2. a < n => out[q[a]].time = Ino(q[a]).mtime
      BY <2>1, <2>4 DEF RestoreInv, TimesOK, Busy
    <3> QED BY <1>0, <2>3, <3>1, <3>2 DEF c
  <2>5. TimesOK'
    <3>1. \A a \in DOMAIN q' : a < n' /\ Settled(a)' => out'[q'[a]].time = Ino(q[a])'.mtime
      BY <1>0, <1>1, <2>4
    <3> QED BY <2>2, <3>1 DEF TimesOK, DirTimesStay
  <2> QED BY <1>0, <1>1, <2>2, <2>3, <2>5 DEF RestoreInv, PlaceOK, Busy, OnFile
<1>4. CASE SkipItem \/ SkipFails
  <2>1. at = "items" /\ at' = "items" /\ n' = n + 1 /\ out' = out /\ c \notin Dirs
    BY <1>4 DEF SkipItem, SkipFails, NextItem, Files, Dirs
  <2>2. ASSUME NEW a \in DOMAIN q, a < n', Settled(a)
        PROVE  out'[q[a]].time = Ino(q[a]).mtime
    <3>1. a # n
      BY <2>1, <2>2 DEF Settled, c
    <3>2. a < n
      BY <1>0, <2>1, <2>2, <3>1
    <3> QED BY <2>1, <2>2, <3>2 DEF RestoreInv, TimesOK, Busy
  <2>3. TimesOK'
    <3>1. \A a \in DOMAIN q' : a < n' /\ Settled(a)' => out'[q'[a]].time = Ino(q[a])'.mtime
      BY <1>0, <1>1, <2>2
    <3> QED BY <2>1, <3>1 DEF TimesOK, DirTimesStay
  <2>4. IsOutput(out)'
    BY <1>1, <2>1 DEF RestoreInv, IsOutput
  <2> QED BY <1>0, <1>1, <2>1, <2>3, <2>4 DEF RestoreInv, PlaceOK, Busy, OnFile
<1>5. CASE EndItems
  <2>1. at = "items" /\ at' = "done" /\ n > Len(q) /\ UNCHANGED << out, n >>
    BY <1>5 DEF EndItems
  <2>2. \A a \in DOMAIN q : Settled(a) => out[q[a]].time = Ino(q[a]).mtime
    BY <1>0, <2>1 DEF RestoreInv, TimesOK, Busy
  <2>3. TimesOK'
    <3>1. \A a \in DOMAIN q : Settled(a)' => out'[q'[a]].time = Ino(q[a])'.mtime
      BY <1>0, <1>1, <2>1, <2>2
    <3> QED BY <1>0, <2>1, <3>1 DEF TimesOK, DirTimesStay, Settled, Busy, OnFile
  <2>4. IsOutput(out)'
    BY <1>1, <2>1 DEF RestoreInv, IsOutput
  <2> QED BY <1>0, <1>1, <2>1, <2>3, <2>4 DEF RestoreInv, PlaceOK, Busy, OnFile
<1> QED BY <1>2, <1>3, <1>4, <1>5

\* Opening a file.
LEMMA OpenInv == RestoreAssumption /\ RestoreInv /\ Open => RestoreInv'
<1> SUFFICES ASSUME RestoreAssumption, RestoreInv, Open PROVE RestoreInv'
  OBVIOUS
<1>1. /\ UNCHANGED << job, q, n >> /\ at \in Busy /\ at # "down" /\ n \in DOMAIN q
      /\ c \in Files /\ ~ Skips(c) /\ c \in Inodes /\ n \in Nat
  BY CurrentItem DEF Open, Busy, OnFile, RestoreInv, PlaceOK
<1>2. CASE at' = "blocked" /\ UNCHANGED out
  <2>1. IsOutput(out)'
    BY <1>1, <1>2 DEF RestoreInv, IsOutput, Inodes
  <2> QED BY <1>1, <1>2, <2>1, FileStepInv DEF Busy, OnFile
<1>3. CASE at' \in {"times", "write", "dead"} /\ out' = Opened(c)
  <2>1. /\ IsOutput(Opened(c)) /\ Opened(c)[c].time = Today
        /\ \A o \in Inodes : o # c /\ Ino(c).up # o => Opened(c)[o] = out[o]
    BY <1>1, OpenedOutput DEF RestoreInv
  <2>2. IsOutput(out)' /\ out'[c].time = Today
    BY <1>1, <1>3, <2>1 DEF IsOutput, Inodes
  <2>3. \A d \in Dirs : d # Ino(c).up => out'[d] = out[d]
    BY <1>1, <1>3, <2>1, CurrentItem
  <2>4. CASE at' = "dead"
    BY <1>1, <2>2, <2>4, FrameInv DEF RestoreInv, PlaceOK, TimesOK, DirTimesStay, Busy, OnFile
  <2> QED BY <1>1, <1>3, <2>2, <2>3, <2>4, FileStepInv DEF Busy, OnFile
<1> QED BY <1>2, <1>3 DEF Open

\* Everything that is done with an open file.
WithFile ==
  \/ WriteChunk \/ WriteLost \/ ReadFails \/ EndWrite \/ Truncate \/ Close \/ CloseLost
  \/ SetTimes \/ TimesFail

LEMMA WithFileStep ==
  ASSUME RestoreInv, WithFile
  PROVE  /\ UNCHANGED << job, q >> /\ at \in OnFile /\ at' \in OnFile \cup {"items"}
         /\ n' \in {n, n + 1} /\ (at' \in OnFile => n' = n)
         /\ n \in DOMAIN q /\ c \in Files /\ c \in Inodes /\ IsOutput(out)'
         /\ (at' \in OnFile => out'[c].time = Today)
         /\ \A o \in Inodes : o # c => out'[o] = out[o]
<1>1. /\ UNCHANGED << job, q >> /\ at \in OnFile /\ at' \in OnFile \cup {"items"}
      /\ n' \in {n, n + 1} /\ (at' \in OnFile => n' = n)
  BY DEF WithFile, WriteChunk, WriteLost, ReadFails, EndWrite, Truncate, Close, CloseLost,
         SetTimes, TimesFail, NextItem, OnFile
<1>2. n \in DOMAIN q /\ c \in Files /\ c \in Inodes /\ out[c].time = Today /\ IsOutput(out)
  BY <1>1 DEF RestoreInv, PlaceOK, Files
<1>3. ASSUME NEW fs, IsOutput(fs), out' = fs PROVE IsOutput(out)'
  BY <1>1, <1>3 DEF IsOutput, Inodes
<1>4. CASE out' = out
  BY <1>1, <1>2, <1>3, <1>4
<1>5. CASE out' = Flushed
  <2>1. /\ IsOutput(Flushed) /\ Flushed[c].time = Today
        /\ \A o \in Inodes : o # c => Flushed[o] = out[o]
    BY <1>2, FlushedOutput
  <2> QED BY <1>1, <1>2, <1>3, <1>5, <2>1
<1>6. ASSUME NEW p, out' = Written(Flushed, p)
      PROVE  /\ IsOutput(out)' /\ out'[c].time = Today
             /\ \A o \in Inodes : o # c => out'[o] = out[o]
  <2>1. IsOutput(Flushed) /\ \A o \in Inodes : o # c => Flushed[o] = out[o]
    BY <1>2, FlushedOutput
  <2>2. /\ IsOutput(Written(Flushed, p)) /\ Written(Flushed, p)[c].time = Today
        /\ \A o \in Inodes : o # c => Written(Flushed, p)[o] = Flushed[o]
    BY <1>2, <2>1, WrittenOutput
  <2> QED BY <1>3, <1>6, <2>1, <2>2
<1>7. CASE Truncate
  <2> DEFINE size == Ino(c).size
             d == [u \in DOMAIN out[c].data \cap 0..(size - 1) |-> out[c].data[u]]
             e == [out[c] EXCEPT !.data = d, !.size = size, !.time = Today]
  <2>0. CASE size < 0
    BY <1>4, <1>7, <2>0 DEF Truncate, Cut
  <2> SUFFICES ASSUME ~ (size < 0)
               PROVE  /\ IsOutput(out)' /\ out'[c].time = Today
                      /\ \A o \in Inodes : o # c => out'[o] = out[o]
    BY <1>1, <1>2, <2>0
  <2>1. Cut = [out EXCEPT ![c] = e]
    BY <1>2 DEF Cut, IsOutput
  <2> HIDE DEF d, size
  <2>2. IsEntry(e) /\ e.time = Today
    <3>1. IsEntry(out[c]) /\ e = [out[c] EXCEPT !.data = d, !.size = size, !.time = Today]
      BY <1>2 DEF IsOutput
    <3> HIDE DEF e
    <3> QED BY <3>1 DEF IsEntry
  <2> HIDE DEF e
  <2>3. IsOutput(Cut) /\ Cut[c].time = Today /\ \A o \in Inodes : o # c => Cut[o] = out[o]
    BY <1>2, <2>1, <2>2 DEF IsOutput
  <2> QED BY <1>1, <1>2, <1>3, <1>7, <2>3 DEF Truncate
<1>8. CASE SetTimes
  <2> DEFINE e == [out[c] EXCEPT !.time = Ino(c).mtime]
  <2>1. out' = [out EXCEPT ![c] = e]
    BY <1>2, <1>8 DEF SetTimes, IsOutput
  <2>2. IsEntry(e)
    BY <1>2 DEF IsEntry, IsOutput
  <2> HIDE DEF e
  <2> DEFINE fs == [out EXCEPT ![c] = e]
  <2>3. IsOutput(fs) /\ \A o \in Inodes : o # c => fs[o] = out[o]
    BY <1>2, <2>2 DEF IsOutput
  <2> HIDE DEF fs
  <2>4. at' = "items"
    BY <1>8 DEF SetTimes, NextItem
  <2>5. out' = fs
    BY <2>1 DEF fs
  <2> QED BY <1>1, <1>2, <1>3, <2>3, <2>4, <2>5 DEF OnFile
<1>9. \/ out' = out \/ out' = Flushed \/ (\E p : out' = Written(Flushed, p))
      \/ Truncate \/ SetTimes
  BY DEF WithFile, WriteChunk, WritePiece, WriteLost, ReadFails, EndWrite, Close, CloseLost,
         TimesFail
<1> QED BY <1>1, <1>2, <1>4, <1>5, <1>6, <1>7, <1>8, <1>9

LEMMA WithFileInv == RestoreInv /\ WithFile => RestoreInv'
<1> SUFFICES ASSUME RestoreInv, WithFile PROVE RestoreInv'
  OBVIOUS
<1>1. /\ UNCHANGED << job, q >> /\ at \in OnFile /\ at' \in OnFile \cup {"items"}
      /\ n' \in {n, n + 1} /\ (at' \in OnFile => n' = n)
      /\ n \in DOMAIN q /\ c \in Files /\ IsOutput(out)'
      /\ (at' \in OnFile => out'[c].time = Today)
      /\ \A o \in Inodes : o # c => out'[o] = out[o]
  BY WithFileStep
<1>2. Dirs \subseteq Inodes /\ Dirs \cap Files = {}
  BY <1>1, CurrentItem DEF OnFile
<1>3. at \in Busy /\ at' \in Busy /\ at' # "blocked"
  BY <1>1 DEF Busy, OnFile
<1> QED BY <1>1, <1>2, <1>3, FileStepInv

\* Kills, what nothing catches, and standing still.
LEMMA HaltInv ==
  RestoreInv /\ (Crash \/ DirTimeFails \/ UNCHANGED vars) => RestoreInv'
<1> SUFFICES ASSUME RestoreInv, Crash \/ DirTimeFails \/ UNCHANGED vars PROVE RestoreInv'
  OBVIOUS
<1>1. IsOutput(out)' /\ job' \in Jobs
  BY DEF Crash, DirTimeFails, vars, RestoreInv, IsOutput, Inodes
<1>2. CASE Crash
  BY <1>1, <1>2 DEF Crash, RestoreInv, PlaceOK, TimesOK, DirTimesStay, Busy, OnFile
<1>3. CASE DirTimeFails
  <2>1. InQueueOrder(q)'
    BY <1>3, FrameInv DEF DirTimeFails
  <2> QED BY <1>1, <1>3, <2>1
      DEF DirTimeFails, RestoreInv, PlaceOK, TimesOK, DirTimesStay, Busy, OnFile
<1>4. CASE UNCHANGED vars
  BY <1>1, <1>4 DEF vars, RestoreInv, PlaceOK, TimesOK, DirTimesStay, InQueueOrder, Settled,
                    Inodes, Ino, Dirs, Files, Skips, c
<1> QED BY <1>2, <1>3, <1>4

LEMMA NextInv == RestoreAssumption /\ RestoreInv /\ [Next]_vars => RestoreInv'
BY DirPhaseInv, ItemsInv, OpenInv, WithFileInv, HaltInv DEF Next, Step, Failure, WithFile

LEMMA RestoreHolds == Spec => []RestoreInv
BY InitInv, NextInv, RestoreAssumption, PTL DEF Spec

\* generate_prio_queue puts every inode that is not excluded into the queue
\* once, the first ones before the others and the last ones behind them,
\* whatever the three expressions match.
THEOREM QueueHoldsAll == Spec => []QueueIsComplete
<1>1. RestoreInv => QueueIsComplete
  BY DEF RestoreInv, PlaceOK, InQueueOrder, QueueIsComplete
<1> QED BY <1>1, RestoreHolds, PTL

\* DirInode::recover gives a directory its time for good, if no file or
\* directory behind it in the queue is put into it, whatever fails and
\* however often the program is killed on the way.
THEOREM DirTimesHold == Spec => []DirTimesStay
<1>1. RestoreInv => DirTimesStay  BY DEF RestoreInv, TimesOK
<1> QED BY <1>1, RestoreHolds, PTL

\* The test at the beginning of FileInode::recover skips every file that is
\* restored, and no other step of this or a later run gets at it.
LEMMA RestoredStays ==
  ASSUME RestoreAssumption, RestoreInv, Next, NEW f \in Files, Restored(f)
  PROVE  out'[f] = out[f]
<1>1. /\ f \in Inodes /\ f \notin Dirs /\ IsOutput(out) /\ out[f].there
      /\ out[f].size = Ino(f).size /\ out[f].time = Ino(f).mtime /\ Ino(f).mtime # Today
  BY DEF Files, Dirs, Restored, Whole, RestoreInv, RestoreAssumption, Ino, Inodes
<1>2. Skips(f)
  BY <1>1 DEF Skips
<1>3. \A o \in Inodes : Ino(o).up # f
  BY <1>1 DEF RestoreInv, RestoreAssumption, Ino, Inodes, Files
<1>4. CASE CreateDir \/ CreateDirFails
  <2>1. {c} \cup Above(c) \in SUBSET Inodes /\ Above(c) \in SUBSET Inodes
    BY <1>4, CurrentItem DEF Above, CreateDir, CreateDirFails
  <2>2. Made({c} \cup Above(c))[f] = out[f] /\ Made(Above(c))[f] = out[f]
    BY <1>1, <1>3, <2>1, MadeOutput
  <2> QED BY <1>4, <2>2 DEF CreateDir, CreateDirFails
<1>5. CASE RecoverDir
  BY <1>1, <1>5 DEF RecoverDir, DirTime, IsOutput
<1>6. CASE Open
  <2>1. c \in Files /\ c \in Inodes /\ ~ Skips(c) /\ out' \in {out, Opened(c)}
    BY <1>6 DEF Open, RestoreInv, PlaceOK, Files
  <2>2. f # c /\ Ino(c).up # f
    BY <1>2, <1>3, <2>1
  <2> QED BY <1>1, <2>1, <2>2, OpenedOutput
<1>7. CASE WithFile
  <2>1. at \in OnFile /\ \A o \in Inodes : o # c => out'[o] = out[o]
    BY <1>7, WithFileStep
  <2>2. f # c
    BY <1>1, <2>1 DEF RestoreInv, PlaceOK
  <2> QED BY <1>1, <2>1, <2>2
<1>8. CASE \/ Launch \/ EndDirs \/ SkipItem \/ SkipFails \/ EndItems \/ DirTimeFails \/ Crash
  BY <1>8 DEF Launch, EndDirs, SkipItem, SkipFails, EndItems, DirTimeFails, Crash
<1> QED BY <1>4, <1>5, <1>6, <1>7, <1>8 DEF Next, Step, Failure, WithFile

\* What one run restored no later step of any run changes.
THEOREM RestoredForGood == Spec => RestoredIsKept
<1>1. RestoreInv /\ [Next]_vars => [\A f \in Files : Restored(f) => out'[f] = out[f]]_vars
  BY RestoredStays, RestoreAssumption
<1> QED BY <1>1, RestoreHolds, PTL DEF Spec, RestoredIsKept

----------------------------------------------------------------------------
(* The pieces of a file.                                                   *)

LEMMA PiecesOK ==
  ASSUME NEW x \in XadType
  PROVE  Pieces(x) \in Seq(PieceType)
<1> DEFINE m == (Bytes(x) + BuffSize - 1) \div BuffSize
<1>1. m \in Nat
  <2>1. Bytes(x) \in Nat  BY BytesBound
  <2>2. BuffSize \in Nat \ {0}  BY ExtentTreeAssumption
  <2> QED BY <2>1, <2>2, RoundUp
<1>2. DOMAIN Pieces(x) = 1..m
  BY DEF Pieces
<1>3. \A k \in 1..m : Pieces(x)[k] = Piece(x, (k - 1) * BuffSize)
  BY DEF Pieces
<1>4. Pieces(x) = [k \in 1..m |-> Pieces(x)[k]]
  BY DEF Pieces
<1> HIDE DEF m
<1>5. ASSUME NEW k \in 1..m PROVE Pieces(x)[k] \in PieceType
  <2> DEFINE br == (k - 1) * BuffSize
             p  == Pieces(x)[k]
  <2>1. /\ br \in Nat /\ p.n \in 1..BuffSize
        /\ p.from = x.off * BlockSize + br /\ p.dev = x.addr * BlockSize + br
    BY <1>2, PieceBounds
  <2>2. x.off * BlockSize \in Nat /\ x.addr * BlockSize \in Nat
    BY BytesBound
  <2>3. p = [from |-> p.from, dev |-> p.dev, n |-> p.n]
    <3>1. p = Piece(x, br)
      BY <1>3
    <3> DEFINE fr == From(x, br)
               de == x.addr * BlockSize + br
               nu == IF Bytes(x) - br > BuffSize THEN BuffSize ELSE Bytes(x) - br
    <3>2. p = [from |-> fr, dev |-> de, n |-> nu]
      BY <3>1 DEF Piece
    <3> HIDE DEF fr, de, nu, p
    <3> QED BY <3>2
  <2> HIDE DEF br, p
  <2>4. p.from \in Nat /\ p.dev \in Nat
    BY <2>1, <2>2
  <2>5. p \in PieceType
    BY <2>1, <2>3, <2>4 DEF PieceType
  <2> QED BY <2>5 DEF p
<1> QED BY <1>1, <1>4, <1>5

\* What a file is, by the assumption on the jobs.
LEMMA FileIs ==
  ASSUME RestoreAssumption, job \in Jobs, NEW f \in Files
  PROVE  /\ f \in Inodes /\ Ino(f).root \in XtpageType /\ Ino(f).size \in Int
         /\ Ino(f).mtime \in Nat /\ \A o \in Inodes : Ino(o).up # f
<1>1. f \in Inodes /\ Ino(f).kind = "file"
  BY DEF Files
<1>2. \A o \in Inodes : Ino(o).up = f => f \in DOMAIN job.inode /\ f # 0
  BY <1>1 DEF RestoreAssumption, Ino, Inodes
<1> QED BY <1>1, <1>2 DEF RestoreAssumption, Ino, Inodes

\* The pieces of all its extents, one extent behind the other.
LEMMA ChunksAre ==
  ASSUME RestoreAssumption, job \in Jobs, NEW f \in Files, Fatal \notin Range(FileXads(f))
  PROVE  /\ \A x \in Range(FileXads(f)) : x \in XadType
         /\ Chunks(f) \in Seq(PieceType)
         /\ Range(Chunks(f)) = UNION {Range(Pieces(x)) : x \in Range(FileXads(f))}
<1> DEFINE xs == FileXads(f)
           ps == [k \in DOMAIN xs |-> Pieces(xs[k])]
<1>1. xs \in Seq(Xad)
  BY FileIs, ExtentsOK DEF FileXads
<1>2. \A x \in Range(xs) : x \in XadType
  BY <1>1 DEF Range, Xad
<1>3. Len(xs) \in Nat /\ DOMAIN xs = 1..Len(xs) /\ \A k \in 1..Len(xs) : xs[k] \in XadType
  BY <1>1, <1>2 DEF Range
<1> HIDE DEF xs
<1>4. ps \in Seq(Seq(PieceType))
  BY <1>3, PiecesOK
<1>5. DOMAIN ps = DOMAIN xs /\ \A k \in DOMAIN xs : ps[k] = Pieces(xs[k])
  OBVIOUS
<1>6. Chunks(f) = FlattenSeq(ps)
  BY DEF Chunks, xs
<1> HIDE DEF ps
<1>7. /\ Chunks(f) \in Seq(PieceType)
      /\ Range(Chunks(f)) = UNION {Range(ps[k]) : k \in DOMAIN ps}
  BY <1>4, <1>6, FlattenRange
<1>8. UNION {Range(ps[k]) : k \in DOMAIN ps} = UNION {Range(Pieces(x)) : x \in Range(xs)}
  BY <1>5 DEF Range
<1> QED BY <1>2, <1>7, <1>8 DEF xs

\* A piece covers units that one extent puts where the piece puts them.
LEMMA ChunksInPlace ==
  ASSUME RestoreAssumption, job \in Jobs, NEW f \in Files, Fatal \notin Range(FileXads(f)),
         Disk.blocks \notin Reached(Ino(f).root),
         NEW p \in Range(Chunks(f)), NEW u \in Covers(p)
  PROVE  \E x \in Described(Ino(f).root) : Lies(x, u) /\ UnitAt(p, u) = Unit(Place(x, u))
<1>1. PICK x \in Range(FileXads(f)) : p \in Range(Pieces(x)) /\ x \in XadType
  BY ChunksAre
<1>2. PICK k \in DOMAIN Pieces(x) : p = Pieces(x)[k]
  BY <1>1 DEF Range
<1>3. Lies(x, u) /\ UnitAt(p, u) = Unit(Place(x, u))
  BY <1>1, <1>2, NoPieceGoesAstray
<1>4. x \in Described(Ino(f).root)
  BY <1>1, FileIs, NoForeignExtents DEF FileXads
<1> QED BY <1>3, <1>4

\* All that the extents of a sound tree describe is in some piece, and every
\* piece can be read.
LEMMA ReadableChunks ==
  ASSUME RestoreAssumption, job \in Jobs, NEW f \in Files, Readable(f)
  PROVE  /\ Fatal \notin Range(FileXads(f)) /\ Disk.blocks \notin Reached(Ino(f).root)
         /\ \A x \in Described(Ino(f).root) : x \in XadType
         /\ \A x \in Described(Ino(f).root) : \A u : Lies(x, u) =>
              \E p \in Range(Chunks(f)) : u \in Covers(p)
         /\ \A p \in Range(Chunks(f)) : ~ Refused(p)
<1>0. Ino(f).root \in XtpageType /\ Sound(Ino(f).root)
  BY FileIs DEF Readable
<1>1. Fatal \notin Range(FileXads(f)) /\ Range(FileXads(f)) = Described(Ino(f).root)
  BY <1>0, EveryExtentIsFound DEF FileXads
<1>2. Disk.blocks \notin Reached(Ino(f).root)
  <2>1. Disk.blocks \in Nat /\ Disk.blocks \notin Pages
    BY ExtentTreeAssumption DEF Pages
  <2> QED BY <1>0, <2>1 DEF Sound
<1>3. \A x \in Described(Ino(f).root) : x \in XadType
  BY <1>1, ChunksAre
<1>4. Range(Chunks(f)) = UNION {Range(Pieces(x)) : x \in Described(Ino(f).root)}
  BY <1>1, ChunksAre
<1>5. ASSUME NEW x \in Described(Ino(f).root), NEW u, Lies(x, u)
      PROVE  \E p \in Range(Chunks(f)) : u \in Covers(p)
  <2>1. x \in XadType /\ x.len * BlockSize < Wrap
    BY <1>0, <1>3 DEF Sound
  <2>2. PICK k \in DOMAIN Pieces(x) : u \in Covers(Pieces(x)[k])
    BY <1>5, <2>1, EveryUnitIsCopied
  <2>3. Pieces(x)[k] \in Range(Pieces(x))
    BY DEF Range
  <2> QED BY <1>4, <2>2, <2>3
<1>6. ASSUME NEW p \in Range(Chunks(f)) PROVE ~ Refused(p)
  <2>1. PICK x \in Described(Ino(f).root) : p \in Range(Pieces(x))
    BY <1>4
  <2>2. PICK k \in DOMAIN Pieces(x) : p = Pieces(x)[k]
    BY <2>1 DEF Range
  <2>3. x \in XadType /\ (x.addr + x.len) * BlockSize <= DeviceSize
    BY <1>0, <1>3 DEF Sound
  <2> DEFINE A  == x.addr * BlockSize
             L  == x.len * BlockSize
             br == (k - 1) * BuffSize
  <2>4. A \in Nat /\ L \in Nat /\ Bytes(x) \in Nat /\ Bytes(x) <= L
    BY <2>3, BytesBound
  <2>5. br \in Nat /\ p.n \in 1..BuffSize /\ br + p.n <= Bytes(x) /\ p.dev = A + br
    BY <2>2, <2>3, PieceBounds
  <2>6. (x.addr + x.len) * BlockSize = A + L
    <3>1. x.addr \in Nat /\ x.len \in Nat  BY <2>3 DEF XadType
    <3>2. BlockSize \in Nat  BY ExtentTreeAssumption
    <3> QED BY <3>1, <3>2
  <2>7. DeviceSize \in Nat /\ BuffSize \in Nat
    BY ExtentTreeAssumption DEF DeviceSize
  <2> HIDE DEF A, L, br
  <2>8. p.n \in Nat  BY <2>5, <2>7
  <2>9. p.dev <= DeviceSize
    BY <2>3, <2>4, <2>5, <2>6, <2>7, <2>8
  <2>10. p.dev \in Nat  BY <2>4, <2>5
  <2> QED BY <2>7, <2>9, <2>10 DEF Refused
<1> QED BY <1>1, <1>2, <1>3, <1>5, <1>6

----------------------------------------------------------------------------
(* The entries of the output directory, and their types.                   *)

\* What fwrite hands on of a piece and what it keeps are pieces, and together
\* they are for the units of the whole one.
SameUnits(p, w) == Covers(p) \subseteq Covers(w) /\ \A u \in Covers(p) : UnitAt(p, u) = UnitAt(w, u)

LEMMA PieceSplits ==
  ASSUME NEW p \in PieceType
  PROVE  /\ Rest(p) # 0 => Kept(p) \in PieceType /\ SameUnits(Kept(p), p)
         /\ ~ (p.n < StdioBuffer) => /\ Direct(p) \in PieceType /\ SameUnits(Direct(p), p)
                                     /\ Covers(p) \subseteq Covers(Direct(p)) \cup Covers(Kept(p))
                                     /\ Rest(p) = 0 => Covers(p) \subseteq Covers(Direct(p))
         /\ p.n < StdioBuffer => Rest(p) # 0 /\ Covers(p) \subseteq Covers(Kept(p))
<1> DEFINE f == p.from
           d == p.dev
           m == p.n
           r == Rest(p)
<1>1. f \in Nat /\ d \in Nat /\ m \in Nat \ {0} /\ m <= BuffSize /\ BuffSize \in Nat
  BY ExtentTreeAssumption DEF PieceType
<1>2. StdioBuffer \in Nat \ {0}
  BY RestoreAssumption DEF RestoreAssumption
<1>3. r \in Nat /\ r < StdioBuffer /\ r <= m /\ (m < StdioBuffer => r = m)
  <2>1. /\ m \div StdioBuffer \in Nat /\ m % StdioBuffer \in 0..(StdioBuffer - 1)
        /\ m = StdioBuffer * (m \div StdioBuffer) + (m % StdioBuffer)
    BY <1>1, <1>2, Division
  <2>2. StdioBuffer * (m \div StdioBuffer) \in Nat
    BY <1>2, <2>1
  <2>3. m < StdioBuffer => m % StdioBuffer = m
    BY <1>1, <1>2
  <2>4. r = m % StdioBuffer
    BY DEF Rest
  <2> HIDE DEF m, r
  <2> QED BY <1>1, <1>2, <2>1, <2>2, <2>3, <2>4
<1>4. p = [from |-> f, dev |-> d, n |-> m]
  BY DEF PieceType
<1>5. Direct(p) = [from |-> f, dev |-> d, n |-> m - r]
  BY <1>4 DEF Direct
<1>6. Kept(p) = [from |-> f + (m - r), dev |-> d + (m - r), n |-> r]
  BY DEF Kept
<1>7. /\ Covers(p) = f..(f + m - 1) /\ \A u : UnitAt(p, u) = Unit(d + (u - f))
  BY DEF Covers, UnitAt
<1> HIDE DEF f, d, m, r
<1>8. /\ Covers(Direct(p)) = f..(f + (m - r) - 1)
      /\ \A u : UnitAt(Direct(p), u) = Unit(d + (u - f))
  BY <1>5 DEF Covers, UnitAt
<1>9. /\ Covers(Kept(p)) = (f + (m - r))..(f + (m - r) + r - 1)
      /\ \A u : UnitAt(Kept(p), u) = Unit(d + (m - r) + (u - (f + (m - r))))
  BY <1>6 DEF Covers, UnitAt
<1>10. \A u \in Covers(Kept(p)) : UnitAt(Kept(p), u) = UnitAt(p, u)
  <2> SUFFICES ASSUME NEW u \in Covers(Kept(p))
               PROVE  d + (m - r) + (u - (f + (m - r))) = d + (u - f)
    BY <1>7, <1>9
  <2>1. u \in Int
    BY <1>1, <1>3, <1>9
  <2> QED BY <1>1, <1>3, <2>1
<1>11. SameUnits(Kept(p), p)
  <2>1. Covers(Kept(p)) \subseteq Covers(p)
    BY <1>1, <1>3, <1>7, <1>9
  <2> QED BY <1>10, <2>1 DEF SameUnits
<1>12. SameUnits(Direct(p), p)
  <2>1. Covers(Direct(p)) \subseteq Covers(p)
    BY <1>1, <1>3, <1>7, <1>8
  <2> QED BY <1>7, <1>8, <2>1 DEF SameUnits
<1>13. r # 0 => Kept(p) \in PieceType
  BY <1>1, <1>3, <1>6 DEF PieceType
<1>14. ~ (m < StdioBuffer) => Direct(p) \in PieceType
  BY <1>1, <1>2, <1>3, <1>5 DEF PieceType
<1>15. Covers(p) \subseteq Covers(Direct(p)) \cup Covers(Kept(p))
  BY <1>1, <1>3, <1>7, <1>8, <1>9
<1>16. r = 0 => Covers(p) \subseteq Covers(Direct(p))
  BY <1>1, <1>7, <1>8
<1>17. m < StdioBuffer => r # 0 /\ Covers(p) \subseteq Covers(Kept(p))
  BY <1>1, <1>3, <1>7, <1>9
<1> QED BY <1>11, <1>12, <1>13, <1>14, <1>15, <1>16, <1>17 DEF m, r

LEMMA MaxOfTwo ==
  ASSUME NEW a \in Nat, NEW b \in Nat
  PROVE  Max({a, b}) \in {a, b} /\ Max({a, b}) >= a /\ Max({a, b}) >= b
<1>1. \E x \in {a, b} : \A y \in {a, b} : x >= y
  <2>1. CASE a >= b  BY <2>1
  <2>2. CASE b >= a  BY <2>2
  <2> QED BY <2>1, <2>2
<1>2. Max({a, b}) \in {a, b} /\ \A y \in {a, b} : Max({a, b}) >= y
  BY <1>1 DEF Max
<1> QED BY <1>2

LEMMA PutIs ==
  ASSUME NEW file, NEW p, IsEntry(file)
  PROVE  LET r == Put(file, p) IN
         /\ r.there = file.there /\ r.time = Today
         /\ r.size = Max({file.size, p.from + p.n})
         /\ DOMAIN r.data = DOMAIN file.data \cup Covers(p)
         /\ \A u \in Covers(p) : r.data[u] = UnitAt(p, u)
         /\ \A u \in DOMAIN file.data \ Covers(p) : r.data[u] = file.data[u]
<1> DEFINE d == [u \in DOMAIN file.data \cup Covers(p) |->
                   IF u \in Covers(p) THEN UnitAt(p, u) ELSE file.data[u]]
           z == Max({file.size, p.from + p.n})
<1>1. Put(file, p) = [file EXCEPT !.data = d, !.size = z, !.time = Today]
  BY DEF Put
<1>2. /\ DOMAIN d = DOMAIN file.data \cup Covers(p)
      /\ \A u \in Covers(p) : d[u] = UnitAt(p, u)
      /\ \A u \in DOMAIN file.data \ Covers(p) : d[u] = file.data[u]
  OBVIOUS
<1> HIDE DEF d, z
<1>3. /\ Put(file, p).there = file.there /\ Put(file, p).time = Today
      /\ Put(file, p).size = z /\ Put(file, p).data = d
  BY <1>1 DEF IsEntry
<1> QED BY <1>2, <1>3 DEF z

LEMMA FlushedIs ==
  ASSUME IsOutput(out), c \in Inodes
  PROVE  /\ IsOutput(Flushed)
         /\ Flushed[c] = IF buffer = << >> THEN out[c] ELSE Put(out[c], Head(buffer))
BY FlushedOutput DEF Flushed, Written, IsOutput

LEMMA WrittenIs ==
  ASSUME NEW fs, NEW p, IsOutput(fs), c \in Inodes
  PROVE  Written(fs, p)[c] = Put(fs[c], p)
BY DEF Written, IsOutput

LEMMA CutIs ==
  ASSUME IsOutput(out), c \in Inodes, ~ (Ino(c).size < 0)
  PROVE  /\ Cut[c].there = out[c].there /\ Cut[c].time = Today /\ Cut[c].size = Ino(c).size
         /\ DOMAIN Cut[c].data = DOMAIN out[c].data \cap 0..(Ino(c).size - 1)
         /\ \A u \in DOMAIN Cut[c].data : Cut[c].data[u] = out[c].data[u]
<1> DEFINE size == Ino(c).size
           d == [u \in DOMAIN out[c].data \cap 0..(size - 1) |-> out[c].data[u]]
           e == [out[c] EXCEPT !.data = d, !.size = size, !.time = Today]
<1>1. Cut[c] = e
  BY DEF Cut, IsOutput
<1>2. /\ DOMAIN d = DOMAIN out[c].data \cap 0..(size - 1)
      /\ \A u \in DOMAIN d : d[u] = out[c].data[u]
  OBVIOUS
<1> HIDE DEF d, size
<1>3. e.there = out[c].there /\ e.time = Today /\ e.size = size /\ e.data = d
  <2>1. IsEntry(out[c])  BY DEF IsOutput
  <2> QED BY <2>1 DEF IsEntry
<1> QED BY <1>1, <1>2, <1>3 DEF size

Typed(r) ==
  /\ r.there \in BOOLEAN /\ r.size \in Nat /\ r.time \in Nat
  /\ DOMAIN r.data \subseteq 0..(r.size - 1)
  /\ \A u \in DOMAIN r.data : r.data[u] \in 0..(DeviceSize - 1) \cup {Stale}

LEMMA NewTyped == RestoreAssumption => Typed(New) /\ Typed(Absent)
<1>1. DOMAIN << >> = {}
  OBVIOUS
<1>2. /\ New.there = TRUE /\ New.size = 0 /\ New.time = Today /\ New.data = << >>
      /\ Absent.there = FALSE /\ Absent.size = 0 /\ Absent.time = 0 /\ Absent.data = << >>
  BY DEF New, Absent
<1>3. RestoreAssumption => Today \in Nat
  BY DEF RestoreAssumption
<1>4. /\ New.there \in BOOLEAN /\ DOMAIN New.data = {}
      /\ Absent.there \in BOOLEAN /\ DOMAIN Absent.data = {}
  BY <1>1, <1>2
<1> HIDE DEF New, Absent
<1>5. RestoreAssumption => Typed(New)
  BY <1>2, <1>3, <1>4 DEF Typed
<1>6. Typed(Absent)
  BY <1>2, <1>4 DEF Typed
<1> QED BY <1>5, <1>6

LEMMA PutTyped ==
  ASSUME RestoreAssumption, NEW file, NEW p \in PieceType, IsEntry(file), Typed(file)
  PROVE  Typed(Put(file, p))
<1> DEFINE r == Put(file, p)
<1>1. /\ r.there = file.there /\ r.time = Today
      /\ r.size = Max({file.size, p.from + p.n})
      /\ DOMAIN r.data = DOMAIN file.data \cup Covers(p)
      /\ \A u \in Covers(p) : r.data[u] = UnitAt(p, u)
      /\ \A u \in DOMAIN file.data \ Covers(p) : r.data[u] = file.data[u]
  BY PutIs
<1> HIDE DEF r
<1>2. p.from \in Nat /\ p.dev \in Nat /\ p.n \in Nat \ {0}
  <2>1. BuffSize \in Nat  BY ExtentTreeAssumption
  <2>2. p.from \in Nat /\ p.dev \in Nat /\ p.n \in 1..BuffSize  BY DEF PieceType
  <2> QED BY <2>1, <2>2
<1>3. file.size \in Nat /\ Today \in Nat
  BY DEF Typed, RestoreAssumption
<1>4. r.size \in Nat /\ r.size >= file.size /\ r.size >= p.from + p.n
  <2>1. p.from + p.n \in Nat  BY <1>2
  <2> QED BY <1>1, <1>3, <2>1, MaxOfTwo
<1>5. DOMAIN r.data \subseteq 0..(r.size - 1)
  <2>1. Covers(p) \subseteq 0..(r.size - 1)
    BY <1>2, <1>4 DEF Covers
  <2>2. DOMAIN file.data \subseteq 0..(r.size - 1)
    <3>1. 0..(file.size - 1) \subseteq 0..(r.size - 1)  BY <1>3, <1>4
    <3> QED BY <3>1 DEF Typed
  <2> QED BY <1>1, <2>1, <2>2
<1>6. \A u \in Covers(p) : r.data[u] \in 0..(DeviceSize - 1) \cup {Stale}
  <2> SUFFICES ASSUME NEW u \in Covers(p)
               PROVE  UnitAt(p, u) \in 0..(DeviceSize - 1) \cup {Stale}
    BY <1>1
  <2>1. p.dev + (u - p.from) \in Nat
    BY <1>2 DEF Covers
  <2>2. DeviceSize \in Nat
    BY ExtentTreeAssumption DEF DeviceSize
  <2> QED BY <2>1, <2>2 DEF UnitAt, Unit
<1>7. \A u \in DOMAIN r.data : r.data[u] \in 0..(DeviceSize - 1) \cup {Stale}
  BY <1>1, <1>6 DEF Typed
<1>8. r.there \in BOOLEAN /\ r.time \in Nat
  BY <1>1, <1>3 DEF Typed
<1> QED BY <1>4, <1>5, <1>7, <1>8 DEF Typed, r

LEMMA TimeTyped ==
  ASSUME NEW r, IsEntry(r), Typed(r), NEW t \in Nat
  PROVE  Typed([r EXCEPT !.time = t])
<1> DEFINE e == [r EXCEPT !.time = t]
<1>1. e.there = r.there /\ e.data = r.data /\ e.size = r.size /\ e.time = t
  BY DEF IsEntry
<1> HIDE DEF e
<1>2. Typed(e)  BY <1>1 DEF Typed
<1> QED BY <1>2 DEF e

AllTyped(fs) == \A o \in Inodes : Typed(fs[o])

LEMMA MadeTyped ==
  ASSUME RestoreAssumption, IsOutput(out), AllTyped(out), NEW new
  PROVE  AllTyped(Made(new))
<1>1. Today \in Nat  BY DEF RestoreAssumption
<1>2. \A o \in Inodes : Made(new)[o] \in {New, [out[o] EXCEPT !.time = Today], out[o]}
  BY DEF Made
<1>3. \A o \in Inodes : Typed([out[o] EXCEPT !.time = Today])
  BY <1>1, TimeTyped DEF IsOutput, AllTyped
<1> QED BY <1>2, <1>3, NewTyped DEF AllTyped

LEMMA OpenedTyped ==
  ASSUME RestoreAssumption, IsOutput(out), AllTyped(out), NEW d \in Inodes
  PROVE  AllTyped(Opened(d))
<1>1. AllTyped(Made({d})) /\ IsOutput(Made({d}))
  BY MadeTyped, MadeOutput
<1> QED BY <1>1, NewTyped DEF Opened, AllTyped, IsOutput

----------------------------------------------------------------------------
(* Type correctness.                                                       *)

LEMMA CutTyped ==
  ASSUME RestoreAssumption, RestoreInv, AllTyped(out), c \in Files
  PROVE  AllTyped(Cut)
<1>1. IsOutput(out) /\ job \in Jobs /\ c \in Inodes /\ Ino(c).size \in Int
  BY FileIs DEF RestoreInv
<1>2. CASE Ino(c).size < 0
  BY <1>2 DEF Cut
<1>3. CASE ~ (Ino(c).size < 0)
  <2> DEFINE r == Cut[c]
  <2>1. /\ r.there = out[c].there /\ r.time = Today /\ r.size = Ino(c).size
        /\ DOMAIN r.data = DOMAIN out[c].data \cap 0..(Ino(c).size - 1)
        /\ \A u \in DOMAIN r.data : r.data[u] = out[c].data[u]
    BY <1>1, <1>3, CutIs
  <2>2. Typed(out[c]) /\ Today \in Nat
    BY <1>1 DEF AllTyped, RestoreAssumption
  <2> HIDE DEF r
  <2>3. Typed(r)
    <3>1. r.there \in BOOLEAN /\ r.time \in Nat /\ r.size \in Nat
      BY <1>1, <1>3, <2>1, <2>2 DEF Typed
    <3>2. DOMAIN r.data \subseteq 0..(r.size - 1)
      BY <2>1
    <3>3. \A u \in DOMAIN r.data : r.data[u] \in 0..(DeviceSize - 1) \cup {Stale}
      BY <2>1, <2>2 DEF Typed
    <3> QED BY <3>1, <3>2, <3>3 DEF Typed
  <2>4. \A o \in Inodes : o # c => Cut[o] = out[o]
    BY <1>1 DEF Cut, IsOutput
  <2> QED BY <1>1, <2>3, <2>4 DEF AllTyped, r
<1> QED BY <1>2, <1>3

LEMMA FlushedTyped ==
  ASSUME RestoreAssumption, IsOutput(out), AllTyped(out), c \in Inodes, buffer \in Seq(PieceType)
  PROVE  /\ IsOutput(Flushed) /\ AllTyped(Flushed)
         /\ \A p \in PieceType : AllTyped(Written(Flushed, p))
<1>1. /\ IsOutput(Flushed) /\ \A o \in Inodes : o # c => Flushed[o] = out[o]
      /\ Flushed[c] = IF buffer = << >> THEN out[c] ELSE Put(out[c], Head(buffer))
  BY FlushedOutput, FlushedIs
<1>2. AllTyped(Flushed)
  <2>1. CASE buffer = << >>  BY <1>1, <2>1 DEF AllTyped
  <2>2. CASE buffer # << >>
    <3>1. Head(buffer) \in PieceType  BY <2>2
    <3>2. Typed(Put(out[c], Head(buffer)))
      BY <3>1, PutTyped DEF AllTyped, IsOutput
    <3> QED BY <1>1, <2>2, <3>2 DEF AllTyped
  <2> QED BY <2>1, <2>2
<1>3. ASSUME NEW p \in PieceType PROVE AllTyped(Written(Flushed, p))
  <2>1. /\ \A o \in Inodes : o # c => Written(Flushed, p)[o] = Flushed[o]
        /\ Written(Flushed, p)[c] = Put(Flushed[c], p)
    BY <1>1, WrittenOutput, WrittenIs
  <2>2. Typed(Put(Flushed[c], p))
    BY <1>1, <1>2, PutTyped DEF AllTyped, IsOutput
  <2> QED BY <1>2, <2>1, <2>2 DEF AllTyped
<1> QED BY <1>1, <1>2, <1>3

\* Which inodes there are, and which expressions match them, never changes,
\* and what is torn stays torn.
LEMMA JobStays ==
  ASSUME [Next]_vars
  PROVE  job' = job /\ Inodes' = Inodes /\ Files' = Files /\ torn \subseteq torn'
<1>1. job' = job /\ torn \subseteq torn'
  BY DEF Next, Step, Failure, Launch, CreateDir, CreateDirFails, EndDirs, RecoverDir, DirTimeFails,
         SkipItem, SkipFails, Open, WriteChunk, WriteLost, ReadFails, EndWrite, Truncate, Close, CloseLost,
         SetTimes, TimesFail, EndItems, Crash, vars
<1> QED BY <1>1 DEF Inodes, Files, Ino

LEMMA OutTyped ==
  ASSUME RestoreAssumption, RestoreInv, AllTyped(out), todo \in Seq(PieceType),
         buffer \in Seq(PieceType), [Next]_vars
  PROVE  AllTyped(out)'
<1>0. IsOutput(out) /\ job' = job /\ Inodes' = Inodes /\ job \in Jobs
  BY JobStays DEF RestoreInv
<1>1. ASSUME NEW fs, AllTyped(fs), out' = fs PROVE AllTyped(out)'
  BY <1>0, <1>1 DEF AllTyped
<1>2. CASE out' = out
  BY <1>1, <1>2
<1>3. CASE CreateDir \/ CreateDirFails
  <2>1. AllTyped(Made({c} \cup Above(c))) /\ AllTyped(Made(Above(c)))
    BY <1>0, MadeTyped
  <2>2. out' \in {out, Made({c} \cup Above(c)), Made(Above(c))}
    BY <1>3 DEF CreateDir, CreateDirFails
  <2> QED BY <1>1, <2>1, <2>2
<1>4. CASE RecoverDir
  <2>1. c \in Dirs /\ c \in Inodes /\ Ino(c).mtime \in Nat
    BY <1>0, <1>4 DEF RecoverDir, Dirs, RestoreAssumption, Ino, Inodes
  <2>2. Typed([out[c] EXCEPT !.time = Ino(c).mtime])
    BY <1>0, <2>1, TimeTyped DEF AllTyped, IsOutput
  <2>3. out' = [out EXCEPT ![c] = [out[c] EXCEPT !.time = Ino(c).mtime]]
    BY <1>0, <1>4, <2>1 DEF RecoverDir, DirTime, IsOutput
  <2>4. AllTyped([out EXCEPT ![c] = [out[c] EXCEPT !.time = Ino(c).mtime]])
    BY <1>0, <2>2 DEF AllTyped, IsOutput
  <2> QED BY <1>1, <2>3, <2>4
<1>5. CASE Open
  <2>1. c \in Files /\ c \in Inodes /\ out' \in {out, Opened(c)}
    BY <1>5 DEF Open, RestoreInv, PlaceOK, Files
  <2> QED BY <1>0, <1>1, <2>1, OpenedTyped
<1>6. CASE WithFile
  <2>1. c \in Files /\ c \in Inodes
    BY <1>6, WithFileStep
  <2>2. /\ AllTyped(Flushed) /\ AllTyped(Cut)
        /\ \A p \in PieceType : AllTyped(Written(Flushed, p))
    BY <1>0, <2>1, FlushedTyped, CutTyped
  <2>3. CASE WriteChunk
    <3>1. Head(todo) \in PieceType
      BY <2>3 DEF WriteChunk
    <3>2. CASE Head(todo).n < StdioBuffer
      BY <1>1, <2>2, <2>3, <3>2 DEF WriteChunk, WritePiece
    <3>3. CASE ~ (Head(todo).n < StdioBuffer)
      <4>1. Direct(Head(todo)) \in PieceType
        BY <3>1, <3>3, PieceSplits
      <4>2. out' = Written(Flushed, Direct(Head(todo)))
        BY <2>3, <3>3 DEF WriteChunk, WritePiece
      <4> QED BY <1>1, <2>2, <4>1, <4>2
    <3> QED BY <3>2, <3>3
  <2>4. CASE SetTimes
    <3>1. Ino(c).mtime \in Nat
      BY <1>0, <2>1, FileIs
    <3>2. Typed([out[c] EXCEPT !.time = Ino(c).mtime])
      BY <1>0, <2>1, <3>1, TimeTyped DEF AllTyped, IsOutput
    <3>3. out' = [out EXCEPT ![c] = [out[c] EXCEPT !.time = Ino(c).mtime]]
      BY <1>0, <2>1, <2>4 DEF SetTimes, IsOutput
    <3>4. AllTyped([out EXCEPT ![c] = [out[c] EXCEPT !.time = Ino(c).mtime]])
      BY <1>0, <3>2 DEF AllTyped, IsOutput
    <3> QED BY <1>1, <3>3, <3>4
  <2>5. CASE out' \in {out, Flushed, Cut}
    BY <1>1, <2>2, <2>5
  <2> QED BY <1>6, <2>3, <2>4, <2>5
      DEF WithFile, WriteLost, ReadFails, EndWrite, Truncate, Close, CloseLost, TimesFail
<1>7. \/ out' = out \/ CreateDir \/ CreateDirFails \/ RecoverDir \/ Open \/ WithFile
  BY DEF Next, Step, Failure, Launch, EndDirs, DirTimeFails, SkipItem, SkipFails, EndItems, Crash, vars, WithFile
<1> QED BY <1>2, <1>3, <1>4, <1>5, <1>6, <1>7

\* What is copied is made of pieces, at most one of them is in the buffer,
\* and the position in the queue is at most one behind its end.
Parts ==
  /\ q \in Seq(Inodes) /\ n \in 1..(Len(q) + 1)
  /\ todo \in Seq(PieceType)
  /\ buffer \in Seq(PieceType) /\ Len(buffer) <= 1
  /\ faults \in 0..MaxFaults /\ torn \subseteq Files /\ passed \subseteq Files

LEMMA PartsInit == RestoreAssumption /\ Init => Parts
<1> SUFFICES ASSUME RestoreAssumption, Init PROVE Parts
  OBVIOUS
<1>1. /\ << >> \in Seq(Inodes) /\ << >> \in Seq(PieceType) /\ Len(<< >>) = 0
  OBVIOUS
<1>2. MaxFaults \in Nat
  BY DEF RestoreAssumption
<1> QED BY <1>1, <1>2 DEF Init, Parts

\* One bound at a time.
LEMMA PartsNext ==
  ASSUME RestoreAssumption, RestoreInv, Parts, RestoreInv', [Next]_vars
  PROVE  Parts'
<1>0. job' = job /\ Inodes' = Inodes /\ Files' = Files
  BY JobStays
<1>1. q' \in Seq(Inodes)
  <2>1. CASE at' # "down"
    BY <1>0, <2>1 DEF RestoreInv, PlaceOK, InQueueOrder
  <2>2. CASE at' = "down"
    <3>1. q' = q \/ q' = << >>
      BY <2>2 DEF Next, Step, Failure, Launch, CreateDir, CreateDirFails, EndDirs, RecoverDir,
         DirTimeFails, SkipItem, SkipFails, Open, WriteChunk, WriteLost, ReadFails, EndWrite, Truncate, Close,
         CloseLost, SetTimes, TimesFail, EndItems, Crash, vars
    <3>2. << >> \in Seq(Inodes)  OBVIOUS
    <3>3. q \in Seq(Inodes)  BY DEF Parts
    <3> QED BY <3>1, <3>2, <3>3
  <2> QED BY <2>1, <2>2
<1>2. n' \in 1..(Len(q') + 1)
  <2>0. Len(q) \in Nat /\ Len(q') \in Nat /\ n \in 1..(Len(q) + 1)
    BY <1>1 DEF Parts
  <2>1. CASE n' = 1
    BY <2>0, <2>1
  <2>2. CASE n' = n /\ q' = q
    BY <2>2 DEF Parts
  <2>3. CASE n' = n + 1 /\ q' = q /\ n <= Len(q)
    BY <2>0, <2>3
  <2>4. CASE WithFile
    <3>1. n \in DOMAIN q /\ q' = q /\ n' \in {n, n + 1}
      BY <2>4, WithFileStep
    <3>2. DOMAIN q = 1..Len(q)
      BY DEF Parts
    <3> QED BY <2>0, <3>1, <3>2
  <2>5. \/ n' = 1 \/ (n' = n /\ q' = q) \/ (n' = n + 1 /\ q' = q /\ n <= Len(q)) \/ WithFile
    BY DEF Next, Step, Failure, Launch, CreateDir, CreateDirFails, EndDirs, RecoverDir,
         DirTimeFails, SkipItem, SkipFails, Open, EndItems, Crash, NextItem, vars, WithFile
  <2> QED BY <2>1, <2>2, <2>3, <2>4, <2>5
<1>3. todo' \in Seq(PieceType)
  <2>1. CASE todo' \in {todo, << >>}
    <3>1. << >> \in Seq(PieceType)  OBVIOUS
    <3>2. todo \in Seq(PieceType)  BY DEF Parts
    <3> QED BY <2>1, <3>1, <3>2
  <2>2. CASE todo # << >> /\ todo' = Tail(todo)
    BY <2>2 DEF Parts
  <2>3. CASE Open
    <3>1. c \in Files /\ job \in Jobs
      BY <2>3 DEF Open, RestoreInv, PlaceOK, Files
    <3>2. CASE Fatal \notin Range(FileXads(c))
      <4>1. Chunks(c) \in Seq(PieceType)  BY <3>1, <3>2, ChunksAre
      <4> QED BY <2>3, <4>1 DEF Open, Parts
    <3>3. CASE Fatal \in Range(FileXads(c))
      BY <2>3, <3>3 DEF Open, Parts
    <3> QED BY <3>2, <3>3
  <2>4. \/ todo' \in {todo, << >>} \/ (todo # << >> /\ todo' = Tail(todo)) \/ Open
    BY DEF Next, Step, Failure, Launch, CreateDir, CreateDirFails, EndDirs, RecoverDir,
         DirTimeFails, SkipItem, SkipFails, WriteChunk, WriteLost, ReadFails, EndWrite, Truncate, Close,
         CloseLost, SetTimes, TimesFail, EndItems, Crash, NextItem, vars
  <2> QED BY <2>1, <2>2, <2>3, <2>4
<1>4. buffer' \in Seq(PieceType) /\ Len(buffer') <= 1
  <2>1. CASE buffer' \in {buffer, << >>}
    <3>1. << >> \in Seq(PieceType) /\ Len(<< >>) <= 1  OBVIOUS
    <3>2. buffer \in Seq(PieceType) /\ Len(buffer) <= 1  BY DEF Parts
    <3> QED BY <2>1, <3>1, <3>2
  <2>2. CASE todo # << >> /\ buffer' = << Kept(Head(todo)) >> /\ Rest(Head(todo)) # 0
    <3>1. Kept(Head(todo)) \in PieceType  BY <2>2, PieceSplits DEF Parts
    <3> QED BY <2>2, <3>1
  <2>3. \/ buffer' \in {buffer, << >>}
        \/ todo # << >> /\ buffer' = << Kept(Head(todo)) >> /\ Rest(Head(todo)) # 0
    BY DEF Next, Step, Failure, Launch, CreateDir, CreateDirFails, EndDirs, RecoverDir,
         DirTimeFails, SkipItem, SkipFails, Open, WriteChunk, WritePiece, WriteLost, ReadFails, EndWrite,
         Truncate, Close, CloseLost, SetTimes, TimesFail, EndItems, Crash, NextItem, vars
  <2> QED BY <2>1, <2>2, <2>3
<1>5. faults' \in 0..MaxFaults
  <2>1. faults' = faults \/ Fault
    BY DEF Next, Step, Failure, Launch, CreateDir, CreateDirFails, EndDirs, RecoverDir,
         DirTimeFails, SkipItem, SkipFails, Open, WriteChunk, WriteLost, ReadFails, EndWrite,
         Truncate, Close, CloseLost, SetTimes, TimesFail, EndItems, Crash, vars
  <2>2. MaxFaults \in Nat /\ faults \in 0..MaxFaults
    BY DEF RestoreAssumption, Parts
  <2> QED BY <2>1, <2>2 DEF Fault
<1>6. torn' \subseteq Files
  <2>1. CASE torn' = torn
    BY <2>1 DEF Parts
  <2>2. CASE torn' = torn \cup {c} /\ at \in OnFile
    BY <2>2 DEF Parts, RestoreInv, PlaceOK
  <2>3. torn' = torn \/ (torn' = torn \cup {c} /\ at \in OnFile)
    BY DEF Next, Step, Failure, Launch, CreateDir, CreateDirFails, EndDirs, RecoverDir,
         DirTimeFails, SkipItem, SkipFails, Open, WriteChunk, WriteLost, ReadFails, EndWrite,
         Truncate, Close, CloseLost, SetTimes, TimesFail, EndItems, Crash, vars, OnFile
  <2> QED BY <2>1, <2>2, <2>3
<1>7. passed' \subseteq Files
  <2>1. CASE passed' \in {passed, {}}
    BY <2>1 DEF Parts
  <2>2. CASE SkipFails
    BY <2>2 DEF SkipFails, Parts
  <2>3. passed' \in {passed, {}} \/ SkipFails
    BY DEF Next, Step, Failure, Launch, CreateDir, CreateDirFails, EndDirs, RecoverDir,
         DirTimeFails, SkipItem, Open, WriteChunk, WriteLost, ReadFails, EndWrite,
         Truncate, Close, CloseLost, SetTimes, TimesFail, EndItems, Crash, vars
  <2> QED BY <2>1, <2>2, <2>3
<1> QED BY <1>0, <1>1, <1>2, <1>3, <1>4, <1>5, <1>6, <1>7 DEF Parts

TypeInv == RestoreInv /\ AllTyped(out) /\ Parts

LEMMA TypeInvHolds == Spec => []TypeInv
<1>1. Init => TypeInv
  <2> SUFFICES ASSUME Init PROVE TypeInv
    OBVIOUS
  <2>1. AllTyped(out)
    BY NewTyped, RestoreAssumption DEF Init, AllTyped
  <2> QED BY <2>1, InitInv, PartsInit, RestoreAssumption DEF TypeInv
<1>2. TypeInv /\ [Next]_vars => TypeInv'
  <2> SUFFICES ASSUME TypeInv, [Next]_vars PROVE TypeInv'
    OBVIOUS
  <2>1. RestoreInv' /\ AllTyped(out)'
    BY NextInv, OutTyped, RestoreAssumption DEF TypeInv, Parts
  <2> QED BY <2>1, PartsNext, RestoreAssumption DEF TypeInv
<1> QED BY <1>1, <1>2, PTL DEF Spec

\* Every entry of the output directory is one, no unit of a file is behind
\* its end, and the parts of the process stay in their bounds, whatever
\* write_extent_to_file makes of the extents on the device.
THEOREM RestoreTypeCorrect == Spec => []TypeOK
<1>1. TypeInv => TypeOK
  <2> SUFFICES ASSUME TypeInv PROVE TypeOK
    OBVIOUS
  <2>1. \A o \in Inodes :
          /\ out[o].there \in BOOLEAN /\ out[o].size \in Nat /\ out[o].time \in Nat
          /\ DOMAIN out[o].data \subseteq 0..(out[o].size - 1)
          /\ \A u \in DOMAIN out[o].data : out[o].data[u] \in 0..(DeviceSize - 1) \cup {Stale}
    BY DEF TypeInv, AllTyped, Typed
  <2>2. at \in {"down", "dirs", "items", "write", "truncate", "close", "times", "blocked",
                "done", "dead"}
    BY DEF TypeInv, RestoreInv, PlaceOK, Busy, OnFile
  <2> QED BY <2>1, <2>2 DEF TypeOK, TypeInv, Parts
<1> QED BY <1>1, TypeInvHolds, PTL

----------------------------------------------------------------------------
(* No file is above anything.                                              *)

IsUpward(f, o, N) ==
  f = [k \in 0..N |-> IF k = 0 THEN o ELSE IF f[k - 1] = 0 THEN 0 ELSE Ino(f[k - 1]).up]

LEMMA UpwardExists ==
  ASSUME NEW o, NEW N \in Nat
  PROVE  \E f : IsUpward(f, o, N)
<1> DEFINE Is(f, m) == f = [k \in 0..m |-> IF k = 0 THEN o
                                 ELSE IF f[k - 1] = 0 THEN 0 ELSE Ino(f[k - 1]).up]
           Bad == {m \in Nat : ~ \E f : Is(f, m)}
<1>1. Bad = {}
  <2> SUFFICES ASSUME Bad # {} PROVE FALSE  OBVIOUS
  <2>1. PICK m \in Bad : \A k \in Bad : m <= k
    <3>1. Bad \in SUBSET Nat  OBVIOUS
    <3> HIDE DEF Bad
    <3> QED BY <3>1, Least
  <2>2. m # 0
    <3>1. Is([k \in 0..0 |-> o], 0)  OBVIOUS
    <3> QED BY <3>1, <2>1
  <2>3. m \in Nat /\ m - 1 \in Nat /\ m - 1 \notin Bad
    <3>1. m \in Nat  OBVIOUS
    <3> HIDE DEF Bad
    <3> QED BY <2>1, <2>2, <3>1
  <2>4. PICK f : Is(f, m - 1)  BY <2>3
  <2> DEFINE g == [k \in 0..m |-> IF k = 0 THEN o
                                  ELSE IF f[k - 1] = 0 THEN 0 ELSE Ino(f[k - 1]).up]
  <2>5. \A k \in 0..(m - 1) : f[k] = g[k]
    <3>1. \A k \in 0..(m - 1) : k \in 0..m  BY <2>3
    <3>2. \A k \in 0..(m - 1) : f[k] = IF k = 0 THEN o
                                       ELSE IF f[k - 1] = 0 THEN 0 ELSE Ino(f[k - 1]).up
      BY <2>4
    <3> QED BY <3>1, <3>2
  <2>6. Is(g, m)
    <3>1. \A k \in 0..m : k # 0 => k - 1 \in 0..(m - 1)  BY <2>3
    <3>2. \A k \in 0..m : k # 0 => g[k - 1] = f[k - 1]  BY <2>5, <3>1
    <3>3. \A k \in 0..m : g[k] = IF k = 0 THEN o
                                 ELSE IF g[k - 1] = 0 THEN 0 ELSE Ino(g[k - 1]).up
      BY <3>2
    <3>4. g = [k \in 0..m |-> g[k]]  OBVIOUS
    <3> HIDE DEF g
    <3> QED BY <3>3, <3>4
  <2> QED BY <2>1, <2>6
<1> QED BY <1>1 DEF IsUpward

\* The parent of an inode is none, or an inode that is no file.
LEMMA AboveNoFiles ==
  ASSUME RestoreAssumption, job \in Jobs, NEW o \in Inodes
  PROVE  Above(o) \in SUBSET (Inodes \ Files)
<1> DEFINE N  == Len(job.inode)
           up == CHOOSE f : f = [k \in 0..N |-> IF k = 0 THEN o
                                   ELSE IF f[k - 1] = 0 THEN 0 ELSE Ino(f[k - 1]).up]
<1>1. N \in Nat /\ Inodes = 1..N
  <2>1. job.inode \in Seq(Range(job.inode))  BY DEF RestoreAssumption
  <2> QED BY <2>1 DEF Inodes
<1> HIDE DEF up, N
<1>2. Above(o) = {d \in Inodes : \E k \in 1..N : up[k] = d}
  BY Zenon DEF Above, up, N
<1>3. up = [k \in 0..N |-> IF k = 0 THEN o
                           ELSE IF up[k - 1] = 0 THEN 0 ELSE Ino(up[k - 1]).up]
  <2>1. \E f : IsUpward(f, o, N)
    BY <1>1, UpwardExists
  <2>2. up = CHOOSE f : IsUpward(f, o, N)
    BY Zenon DEF up, IsUpward
  <2>3. IsUpward(up, o, N)
    BY <2>1, <2>2, Zenon
  <2> QED BY <2>3, Zenon DEF IsUpward
<1>4. \A i \in Inodes : Ino(i).up \in (Inodes \ Files) \cup {0}
  BY DEF RestoreAssumption, Ino, Inodes, Files
<1> DEFINE Bad == {k \in 1..N : up[k] \notin (Inodes \ Files) \cup {0}}
<1>5. Bad = {}
  <2> SUFFICES ASSUME Bad # {} PROVE FALSE  OBVIOUS
  <2>1. PICK m \in Bad : \A k \in Bad : m <= k
    <3>1. Bad \in SUBSET Nat  BY <1>1
    <3> HIDE DEF Bad
    <3> QED BY <3>1, Least
  <2>2. m \in 1..N /\ m \in Nat /\ m # 0 /\ m \in 0..N /\ m - 1 \in 0..N  BY <1>1, <2>1
  <2>3. up[m] = IF up[m - 1] = 0 THEN 0 ELSE Ino(up[m - 1]).up
    BY <1>3, <2>2
  <2>4. up[m - 1] \in Inodes \cup {0}
    <3>1. CASE m = 1
      <4>1. 0 \in 0..N /\ m - 1 = 0  BY <1>1, <3>1
      <4> QED BY <1>3, <4>1
    <3>2. CASE m # 1
      <4>1. m - 1 \in 1..N /\ m - 1 \notin Bad  BY <1>1, <2>1, <2>2, <3>2
      <4> QED BY <4>1
    <3> QED BY <3>1, <3>2
  <2>5. up[m] \in (Inodes \ Files) \cup {0}  BY <1>4, <2>3, <2>4
  <2> QED BY <2>1, <2>5
<1>6. 0 \notin Inodes  BY <1>1
<1> QED BY <1>2, <1>5, <1>6

\* Files only change when they are the current one.
LEMMA OthersStay ==
  ASSUME RestoreAssumption, RestoreInv, [Next]_vars, NEW f \in Files
  PROVE  \/ out'[f] = out[f]
         \/ Open /\ out' = Opened(c) /\ f = c
         \/ WithFile /\ f = c
<1>1. f \in Inodes /\ f \notin Dirs /\ job \in Jobs /\ \A o \in Inodes : Ino(o).up # f
  BY FileIs DEF Files, Dirs, RestoreInv
<1>2. CASE CreateDir \/ CreateDirFails
  <2>1. c \in Inodes
    BY <1>2, CurrentItem DEF CreateDir, CreateDirFails
  <2>2. Above(c) \in SUBSET (Inodes \ Files)
    BY <1>1, <2>1, AboveNoFiles
  <2>3. /\ {c} \cup Above(c) \in SUBSET Inodes
        /\ \A p \in {c} \cup Above(c) : Ino(p).up # f
    BY <1>1, <2>1, <2>2
  <2>4. Made(Above(c))[f] = out[f]
    BY <1>1, <2>2, <2>3, MadeOutput DEF RestoreInv
  <2>5. c \in Dirs => Made({c} \cup Above(c))[f] = out[f]
    <3>1. c \in Dirs => f \notin {c} \cup Above(c)
      BY <1>1, <2>2
    <3> QED BY <1>1, <2>3, <3>1, MadeOutput DEF RestoreInv
  <2> QED BY <1>2, <2>4, <2>5 DEF CreateDir, CreateDirFails
<1>3. CASE RecoverDir
  BY <1>1, <1>3 DEF RecoverDir, DirTime, RestoreInv, IsOutput
<1>4. CASE Open
  <2>1. c \in Inodes /\ out' \in {out, Opened(c)}
    BY <1>4 DEF Open, RestoreInv, PlaceOK, Files
  <2>2. f # c => Opened(c)[f] = out[f]
    BY <1>1, <2>1, OpenedOutput DEF RestoreInv
  <2> QED BY <1>4, <2>1, <2>2
<1>5. CASE WithFile
  BY <1>1, <1>5, WithFileStep
<1>6. CASE \/ Launch \/ EndDirs \/ SkipItem \/ SkipFails \/ EndItems \/ DirTimeFails \/ Crash
           \/ UNCHANGED vars
  BY <1>6 DEF Launch, EndDirs, SkipItem, SkipFails, EndItems, DirTimeFails, Crash, vars
<1> QED BY <1>2, <1>3, <1>4, <1>5, <1>6 DEF Next, Step, Failure, WithFile

----------------------------------------------------------------------------
(* What is still to be copied is the rest of the pieces, and what is in    *)
(* the buffer is the end of the last of those before.                      *)

OnBuffer == {"write", "truncate", "close"}

Behind == Len(Chunks(c)) - Len(todo)

Pending ==
  /\ todo # << >> => at = "write"
  /\ buffer # << >> => at \in OnBuffer
  /\ at \in OnBuffer =>
       /\ Fatal \notin Range(FileXads(c))
       /\ Behind \in Nat
       /\ \A k \in DOMAIN todo : todo[k] = Chunks(c)[Behind + k]
       /\ buffer # << >> =>
            Behind # 0 /\ Head(buffer) = Kept(Chunks(c)[Behind]) /\ Rest(Chunks(c)[Behind]) # 0

\* A part of one of a file's pieces.
PartOfPiece(f, p) == \E w \in Range(Chunks(f)) : SameUnits(p, w)

LEMMA PendingPieces ==
  ASSUME RestoreAssumption, TypeInv, Pending, at \in OnBuffer
  PROVE  /\ c \in Files /\ job \in Jobs /\ Chunks(c) \in Seq(PieceType)
         /\ todo # << >> => Head(todo) \in Range(Chunks(c))
         /\ buffer # << >> => PartOfPiece(c, Head(buffer))
<1>1. c \in Files /\ job \in Jobs
  BY DEF TypeInv, RestoreInv, PlaceOK, OnBuffer, OnFile
<1>2. Chunks(c) \in Seq(PieceType)
  BY <1>1, ChunksAre DEF Pending
<1>3. /\ Len(Chunks(c)) \in Nat /\ DOMAIN Chunks(c) = 1..Len(Chunks(c))
      /\ todo \in Seq(PieceType) /\ Len(todo) \in Nat /\ DOMAIN todo = 1..Len(todo)
  BY <1>2 DEF TypeInv, Parts
<1>4. Behind \in Nat /\ Behind + Len(todo) = Len(Chunks(c))
  <2>1. Behind \in Nat  BY DEF Pending
  <2>2. Behind = Len(Chunks(c)) - Len(todo)  BY DEF Behind
  <2> QED BY <1>3, <2>1, <2>2
<1>5. ASSUME todo # << >> PROVE Head(todo) \in Range(Chunks(c))
  <2>1. 1 \in DOMAIN todo /\ Head(todo) = todo[1]
    BY <1>3, <1>5
  <2>2. Head(todo) = Chunks(c)[Behind + 1]
    BY <2>1 DEF Pending
  <2>3. Behind + 1 \in DOMAIN Chunks(c)
    BY <1>3, <1>4, <2>1
  <2> QED BY <2>2, <2>3 DEF Range
<1>6. ASSUME buffer # << >> PROVE PartOfPiece(c, Head(buffer))
  <2>1. Behind # 0 /\ Head(buffer) = Kept(Chunks(c)[Behind]) /\ Rest(Chunks(c)[Behind]) # 0
    BY <1>6 DEF Pending
  <2>2. Behind \in DOMAIN Chunks(c)
    BY <1>3, <1>4, <2>1
  <2>3. Chunks(c)[Behind] \in PieceType /\ Chunks(c)[Behind] \in Range(Chunks(c))
    BY <1>2, <2>2 DEF Range
  <2>4. SameUnits(Head(buffer), Chunks(c)[Behind])
    BY <2>1, <2>3, PieceSplits
  <2> QED BY <2>3, <2>4 DEF PartOfPiece
<1> QED BY <1>1, <1>2, <1>5, <1>6

\* As long as the current file stays, so do its pieces.
LEMMA SameFile ==
  ASSUME UNCHANGED << job, q, n >>
  PROVE  /\ c' = c /\ Chunks(c)' = Chunks(c) /\ FileXads(c)' = FileXads(c)
         /\ Ino(c)' = Ino(c) /\ Inodes' = Inodes /\ Files' = Files
BY DEF c, Chunks, FileXads, Ino, Inodes, Files

\* One piece further.
LEMMA PendingWrite ==
  ASSUME RestoreAssumption, TypeInv, Pending, WriteChunk \/ WriteLost
  PROVE  Pending'
<1>1. /\ UNCHANGED << job, q, n, at >> /\ at = "write" /\ todo # << >> /\ todo' = Tail(todo)
      /\ buffer' = << >> \/ (buffer' = << Kept(Head(todo)) >> /\ Rest(Head(todo)) # 0)
  BY DEF WriteChunk, WritePiece, WriteLost
<1>2. /\ c' = c /\ Chunks(c)' = Chunks(c) /\ FileXads(c)' = FileXads(c)
  BY <1>1, SameFile
<1>3. Chunks(c) \in Seq(PieceType) /\ Len(Chunks(c)) \in Nat
  BY <1>1, PendingPieces DEF OnBuffer
<1>4. /\ todo \in Seq(PieceType) /\ Len(todo) \in Nat \ {0} /\ DOMAIN todo = 1..Len(todo)
      /\ Len(todo') = Len(todo) - 1 /\ DOMAIN todo' = 1..(Len(todo) - 1)
      /\ Head(todo) = todo[1] /\ \A k \in 1..(Len(todo) - 1) : todo'[k] = todo[k + 1]
  <2>1. todo \in Seq(PieceType)
    BY DEF TypeInv, Parts
  <2> QED BY <1>1, <2>1
<1>5. Behind' = Behind + 1 /\ Behind \in Nat
  BY <1>1, <1>2, <1>3, <1>4 DEF Behind, Pending, OnBuffer
<1>6. \A k \in DOMAIN todo' : todo'[k] = Chunks(c)'[Behind' + k]
  <2> SUFFICES ASSUME NEW k \in DOMAIN todo' PROVE todo'[k] = Chunks(c)[Behind' + k]
    BY <1>2
  <2>1. k \in 1..(Len(todo) - 1) /\ k + 1 \in DOMAIN todo /\ k \in Nat
    BY <1>4
  <2>2. todo'[k] = Chunks(c)[Behind + (k + 1)]
    BY <1>1, <1>4, <2>1 DEF Pending, OnBuffer
  <2>3. Behind + (k + 1) = Behind' + k
    BY <1>5, <2>1
  <2> QED BY <2>2, <2>3
<1>7. buffer' # << >> =>
        /\ Behind' # 0 /\ Head(buffer') = Kept(Chunks(c)'[Behind'])
        /\ Rest(Chunks(c)'[Behind']) # 0
  <2> SUFFICES ASSUME buffer' = << Kept(Head(todo)) >>, Rest(Head(todo)) # 0
               PROVE  Behind' # 0 /\ Head(todo) = Chunks(c)[Behind + 1]
    <3>1. Head(<< Kept(Head(todo)) >>) = Kept(Head(todo))  OBVIOUS
    <3> QED BY <1>1, <1>2, <1>5, <3>1
  <2>1. 1 \in DOMAIN todo
    BY <1>4
  <2>2. todo[1] = Chunks(c)[Behind + 1]
    BY <1>1, <2>1 DEF Pending, OnBuffer
  <2> QED BY <1>4, <1>5, <2>2
<1>8. Fatal \notin Range(FileXads(c))'
  BY <1>1, <1>2 DEF Pending, OnBuffer
<1>9. Behind' \in Nat
  BY <1>5
<1> QED BY <1>1, <1>2, <1>6, <1>7, <1>8, <1>9 DEF Pending, OnBuffer, Kept, Rest

LEMMA PendingNext ==
  ASSUME RestoreAssumption, TypeInv, Pending, [Next]_vars
  PROVE  Pending'
<1>1. CASE at' \notin OnBuffer /\ todo' = << >> /\ buffer' = << >>
  BY <1>1 DEF Pending
<1>2. CASE WriteChunk \/ WriteLost
  BY <1>2, PendingWrite
<1>3. CASE Open
  <2>1. /\ todo = << >> /\ buffer = << >> /\ UNCHANGED << job, q, n, buffer >>
    BY <1>3 DEF Open, Pending, OnBuffer
  <2>2. CASE at' = "write"
    <3>1. todo' = Chunks(c) /\ Fatal \notin Range(FileXads(c)) /\ c \in Files /\ job \in Jobs
      BY <1>3, <2>2 DEF Open, TypeInv, RestoreInv, PlaceOK
    <3>2. Chunks(c) \in Seq(PieceType)
      BY <3>1, ChunksAre
    <3>3. c' = c /\ Chunks(c)' = Chunks(c) /\ FileXads(c)' = FileXads(c)
      BY <2>1, SameFile
    <3>4. Len(Chunks(c)) \in Nat /\ DOMAIN Chunks(c) = 1..Len(Chunks(c))
      BY <3>2
    <3>5. Behind' = 0
      BY <3>1, <3>3, <3>4 DEF Behind
    <3>6. \A k \in DOMAIN todo' : todo'[k] = Chunks(c)'[Behind' + k]
      <4>1. \A k \in 1..Len(Chunks(c)) : Behind' + k = k
        BY <3>4, <3>5
      <4> QED BY <3>1, <3>3, <3>4, <4>1
    <3> QED BY <2>1, <2>2, <3>1, <3>3, <3>5, <3>6 DEF Pending, OnBuffer
  <2>3. CASE at' # "write"
    <3>1. at' \notin OnBuffer /\ todo' = todo
      BY <1>3, <2>3 DEF Open, OnBuffer
    <3> QED BY <1>1, <2>1, <3>1
  <2> QED BY <2>2, <2>3
<1>4. CASE EndWrite \/ Truncate \/ UNCHANGED vars
  <2>1. /\ UNCHANGED << job, q, n, todo, buffer >>
        /\ at' \in OnBuffer => at \in OnBuffer
        /\ todo # << >> => at' = "write"
        /\ at \in OnBuffer => at' \in OnBuffer
    BY <1>4 DEF EndWrite, Truncate, vars, OnBuffer, Pending
  <2>2. c' = c /\ Chunks(c)' = Chunks(c) /\ FileXads(c)' = FileXads(c)
    BY <2>1, SameFile
  <2>3. Behind' = Behind
    BY <2>1, <2>2 DEF Behind
  <2> QED BY <2>1, <2>2, <2>3 DEF Pending, Kept, Rest
<1>5. CASE Close \/ CloseLost
  <2>1. todo = << >>
    BY <1>5 DEF Close, CloseLost, Pending
  <2> QED BY <1>1, <1>5, <2>1 DEF Close, CloseLost, OnBuffer
<1>6. CASE \/ Launch \/ ReadFails \/ SetTimes \/ TimesFail \/ RecoverDir \/ SkipItem \/ SkipFails
           \/ Crash
  BY <1>1, <1>6 DEF Launch, ReadFails, SetTimes, TimesFail, RecoverDir, SkipItem, SkipFails, Crash,
                    NextItem, OnBuffer
<1>7. CASE CreateDir \/ CreateDirFails \/ EndDirs \/ DirTimeFails \/ EndItems
  <2>1. at \notin OnBuffer /\ at' \notin OnBuffer /\ UNCHANGED << todo, buffer >>
    BY <1>7 DEF CreateDir, CreateDirFails, EndDirs, DirTimeFails, EndItems, OnBuffer
  <2>2. todo = << >> /\ buffer = << >>
    BY <2>1 DEF Pending, OnBuffer
  <2> QED BY <1>1, <2>1, <2>2
<1> QED BY <1>2, <1>3, <1>4, <1>5, <1>6, <1>7 DEF Next, Step, Failure

----------------------------------------------------------------------------
(* Nothing is misplaced.                                                   *)

Right(f, d) ==
  \A u \in DOMAIN d : \E x \in Described(Ino(f).root) : Lies(x, u) /\ d[u] = Unit(Place(x, u))

InPlace ==
  \A f \in Files :
    /\ f \in job.exclude => out[f].data = << >>
    /\ Disk.blocks \notin Reached(Ino(f).root) => Right(f, out[f].data)

LEMMA PutRight ==
  ASSUME RestoreAssumption, job \in Jobs, NEW f \in Files, Fatal \notin Range(FileXads(f)),
         Disk.blocks \notin Reached(Ino(f).root),
         NEW p, PartOfPiece(f, p), NEW file, IsEntry(file), Right(f, file.data)
  PROVE  Right(f, Put(file, p).data)
<1> DEFINE r == Put(file, p)
           d == r.data
<1>1. /\ DOMAIN d = DOMAIN file.data \cup Covers(p)
      /\ \A u \in Covers(p) : d[u] = UnitAt(p, u)
      /\ \A u \in DOMAIN file.data \ Covers(p) : d[u] = file.data[u]
  <2>1. /\ r.there = file.there /\ r.time = Today
        /\ r.size = Max({file.size, p.from + p.n})
        /\ DOMAIN r.data = DOMAIN file.data \cup Covers(p)
        /\ \A u \in Covers(p) : r.data[u] = UnitAt(p, u)
        /\ \A u \in DOMAIN file.data \ Covers(p) : r.data[u] = file.data[u]
    BY PutIs
  <2> QED BY <2>1
<1> HIDE DEF d, r
<1>2. ASSUME NEW u \in DOMAIN d
      PROVE  \E x \in Described(Ino(f).root) : Lies(x, u) /\ d[u] = Unit(Place(x, u))
  <2>1. CASE u \in Covers(p)
    <3>1. PICK w \in Range(Chunks(f)) : SameUnits(p, w)
      BY DEF PartOfPiece
    <3>2. u \in Covers(w) /\ UnitAt(p, u) = UnitAt(w, u)
      BY <2>1, <3>1 DEF SameUnits
    <3>3. \E x \in Described(Ino(f).root) : Lies(x, u) /\ UnitAt(w, u) = Unit(Place(x, u))
      BY <3>2, ChunksInPlace
    <3> QED BY <1>1, <2>1, <3>2, <3>3
  <2>2. CASE u \notin Covers(p)
    <3>1. u \in DOMAIN file.data /\ d[u] = file.data[u]
      BY <1>1, <2>2
    <3> QED BY <3>1 DEF Right
  <2> QED BY <2>1, <2>2
<1> QED BY <1>2 DEF Right, d, r

\* What the buffer and the next piece add to the current file.
LEMMA FlushedRight ==
  ASSUME RestoreAssumption, TypeInv, Pending, at \in OnBuffer,
         Disk.blocks \notin Reached(Ino(c).root), Right(c, out[c].data)
  PROVE  /\ Right(c, Flushed[c].data)
         /\ \A p : PartOfPiece(c, p) => Right(c, Written(Flushed, p)[c].data)
<1>1. /\ c \in Files /\ c \in Inodes /\ job \in Jobs /\ IsOutput(out)
      /\ Fatal \notin Range(FileXads(c))
      /\ buffer # << >> => PartOfPiece(c, Head(buffer))
  BY PendingPieces DEF Files, TypeInv, RestoreInv, Pending
<1>2. /\ IsOutput(Flushed)
      /\ Flushed[c] = IF buffer = << >> THEN out[c] ELSE Put(out[c], Head(buffer))
  BY <1>1, FlushedIs
<1>3. Right(c, Flushed[c].data)
  <2>1. CASE buffer = << >>  BY <1>2, <2>1
  <2>2. CASE buffer # << >>
    <3>1. Right(c, Put(out[c], Head(buffer)).data)
      BY <1>1, <2>2, PutRight DEF IsOutput
    <3> QED BY <1>2, <2>2, <3>1
  <2> QED BY <2>1, <2>2
<1>4. ASSUME NEW p, PartOfPiece(c, p) PROVE Right(c, Written(Flushed, p)[c].data)
  <2>1. IsEntry(Flushed[c])
    BY <1>1, <1>2 DEF IsOutput
  <2>2. Right(c, Put(Flushed[c], p).data)
    BY <1>1, <1>3, <1>4, <2>1, PutRight
  <2>3. Written(Flushed, p)[c] = Put(Flushed[c], p)
    BY <1>1, <1>2, WrittenIs
  <2> QED BY <2>2, <2>3
<1> QED BY <1>3, <1>4

\* Giving a file its time does nothing else to it.
LEMMA TimeIs ==
  ASSUME IsOutput(out), c \in Inodes, SetTimes
  PROVE  /\ out'[c].there = out[c].there /\ out'[c].data = out[c].data
         /\ out'[c].size = out[c].size
<1>1. out'[c] = [out[c] EXCEPT !.time = Ino(c).mtime]
  BY DEF SetTimes, IsOutput
<1>2. IsEntry(out[c])
  BY DEF IsOutput
<1> QED BY <1>1, <1>2 DEF IsEntry

\* What a step does to the file at hand.
LEMMA WithFileCases ==
  ASSUME TypeInv, Pending, WithFile
  PROVE  \/ /\ at \in OnBuffer /\ todo # << >> /\ ~ (Head(todo).n < StdioBuffer) /\ WriteChunk
            /\ out' = Written(Flushed, Direct(Head(todo)))
         \/ (WriteChunk \/ WriteLost \/ ReadFails \/ Close) /\ at \in OnBuffer /\ out' = Flushed
         \/ (EndWrite \/ CloseLost \/ TimesFail) /\ out' = out
         \/ Truncate /\ at \in OnBuffer /\ out' = Cut
         \/ SetTimes
BY DEF WithFile, WriteChunk, WritePiece, WriteLost, ReadFails, Close, EndWrite, CloseLost,
       TimesFail, Truncate, OnBuffer

LEMMA WithFileRight ==
  ASSUME RestoreAssumption, TypeInv, Pending, WithFile,
         Disk.blocks \notin Reached(Ino(c).root), Right(c, out[c].data)
  PROVE  Right(c, out'[c].data)
<1>1. c \in Files /\ c \in Inodes /\ IsOutput(out)
  BY WithFileStep DEF TypeInv, RestoreInv
<1>2. CASE at \in OnBuffer /\ out' = Flushed
  BY <1>2, FlushedRight
<1>3. CASE /\ at \in OnBuffer /\ todo # << >> /\ ~ (Head(todo).n < StdioBuffer)
           /\ out' = Written(Flushed, Direct(Head(todo)))
  <2>1. Head(todo) \in Range(Chunks(c)) /\ Head(todo) \in PieceType
    BY <1>3, PendingPieces DEF TypeInv, Parts
  <2>2. PartOfPiece(c, Direct(Head(todo)))
    BY <1>3, <2>1, PieceSplits DEF PartOfPiece
  <2> QED BY <1>3, <2>2, FlushedRight
<1>4. CASE out' = out
  BY <1>4
<1>5. CASE out' = Cut
  <2>1. CASE Ino(c).size < 0
    BY <1>5, <2>1 DEF Cut
  <2>2. CASE ~ (Ino(c).size < 0)
    <3>1. /\ DOMAIN Cut[c].data = DOMAIN out[c].data \cap 0..(Ino(c).size - 1)
          /\ \A u \in DOMAIN Cut[c].data : Cut[c].data[u] = out[c].data[u]
      BY <1>1, <2>2, CutIs
    <3>2. \A u \in DOMAIN Cut[c].data : u \in DOMAIN out[c].data
      BY <3>1
    <3>3. Right(c, Cut[c].data)
      BY <3>1, <3>2 DEF Right
    <3> QED BY <1>5, <3>3
  <2> QED BY <2>1, <2>2
<1>6. CASE SetTimes
  <2>1. out'[c].data = out[c].data
    BY <1>1, <1>6, TimeIs
  <2> QED BY <2>1
<1> QED BY <1>2, <1>3, <1>4, <1>5, <1>6, WithFileCases

\* The files in the queue are not excluded.
LEMMA NotExcluded ==
  ASSUME RestoreInv, at \in OnFile \cup {"blocked"}
  PROVE  c \in Files /\ c \notin job.exclude
BY DEF RestoreInv, PlaceOK, InQueueOrder, OnFile, Range, c

LEMMA InPlaceNext ==
  ASSUME RestoreAssumption, TypeInv, Pending, InPlace, [Next]_vars
  PROVE  InPlace'
<1>0. job' = job /\ Files' = Files /\ RestoreInv
  BY JobStays DEF TypeInv
<1>1. ASSUME NEW f \in Files
      PROVE  /\ f \in job.exclude => out'[f].data = << >>
             /\ Disk.blocks \notin Reached(Ino(f).root) => Right(f, out'[f].data)
  <2>1. CASE out'[f] = out[f]
    BY <2>1 DEF InPlace
  <2>2. CASE Open /\ out' = Opened(c) /\ f = c
    <3>1. Opened(c)[c] = New
      <4>1. IsOutput(Made({c})) /\ c \in Inodes
        BY <2>2, MadeOutput DEF Files, TypeInv, RestoreInv
      <4> QED BY <4>1 DEF Opened, IsOutput
    <3>2. out'[f].data = << >>
      BY <2>2, <3>1 DEF New
    <3>3. Right(f, << >>)
      <4>1. DOMAIN << >> = {}  OBVIOUS
      <4> QED BY <4>1 DEF Right
    <3> QED BY <3>2, <3>3
  <2>3. CASE WithFile /\ f = c
    <3>1. f \notin job.exclude
      BY <1>0, <2>3, WithFileStep, NotExcluded
    <3>2. Disk.blocks \notin Reached(Ino(f).root) => Right(f, out'[f].data)
      BY <2>3, WithFileRight DEF InPlace
    <3> QED BY <3>1, <3>2
  <2> QED BY <1>0, <2>1, <2>2, <2>3, OthersStay
<1>2. \A f : Ino(f)' = Ino(f)
  BY <1>0 DEF Ino
<1> QED BY <1>0, <1>1, <1>2 DEF InPlace, Right

CopyInv == TypeInv /\ Pending /\ InPlace

LEMMA CopyInit == Init => Pending /\ InPlace
<1> SUFFICES ASSUME Init PROVE Pending /\ InPlace
  OBVIOUS
<1>1. Pending
  BY DEF Init, Pending, OnBuffer
<1>2. \A f \in Files : out[f].data = << >>
  BY DEF Init, Absent, Files
<1>3. \A f : Right(f, << >>)
  <2>1. DOMAIN << >> = {}  OBVIOUS
  <2> QED BY <2>1 DEF Right
<1> QED BY <1>1, <1>2, <1>3 DEF InPlace

LEMMA CopyHolds == Spec => []CopyInv
<1>1. Init => Pending /\ InPlace
  BY CopyInit
<1>2. TypeInv /\ Pending /\ InPlace /\ [Next]_vars => Pending' /\ InPlace'
  BY PendingNext, InPlaceNext, RestoreAssumption
<1> QED BY <1>1, <1>2, TypeInvHolds, PTL DEF Spec, CopyInv

\* Whatever fails, and whenever the program is killed, what is in a file is
\* what an extent of its tree puts there: no extent of another file, no piece
\* at another place, nothing in a file that is excluded.
THEOREM NothingStray == Spec => []NothingMisplaced
<1>1. CopyInv => NothingMisplaced
  BY DEF CopyInv, InPlace, Right, NothingMisplaced
<1> QED BY <1>1, CopyHolds, PTL

----------------------------------------------------------------------------
(* What can be read is restored.                                           *)

Copied(f) ==
  \A x \in Described(Ino(f).root) : \A u \in 0..(Ino(f).size - 1) :
    Lies(x, u) => u \in DOMAIN out[f].data

SizeOK(f) ==
  \/ out[f].size = Ino(f).size
  \/ Ino(f).size < 0
  \/ Ino(f).root.xad = << >>
  \/ Chunks(f) # << >> /\ Rest(Last(Chunks(f))) # 0

\* No file is there without what can be read of it, but for the one at hand.
Finished ==
  \A f \in Files \ torn :
    Readable(f) /\ out[f].there /\ ~ (at \in OnBuffer /\ f = c) => Copied(f) /\ SizeOK(f)

\* What the one at hand has not got is in a piece that is still to be copied,
\* or in the buffer.
Ahead(u) ==
  \/ \E k \in DOMAIN todo : u \in Covers(todo[k])
  \/ buffer # << >> /\ u \in Covers(Head(buffer))

Coming ==
  at \in OnBuffer /\ c \notin torn /\ Readable(c) =>
    /\ \A x \in Described(Ino(c).root) : \A u \in 0..(Ino(c).size - 1) :
         Lies(x, u) => u \in DOMAIN out[c].data \/ Ahead(u)
    /\ at = "close" => Ino(c).size < 0 \/ out[c].size = Ino(c).size

\* Nothing in the queue is left out but what could not be looked at.
Tried(f) == out[f].there \/ f \in passed
Passed ==
  /\ at \in Busy \cup {"done"} => \A a \in DOMAIN q : a < n /\ q[a] \in Files => Tried(q[a])
  /\ at \in OnFile => out[c].there
  /\ at = "done" => n > Len(q)

\* An extent of a sound tree ends on the device, and no other one is for a
\* unit of it.
LEMMA WholeIs ==
  ASSUME RestoreAssumption, CopyInv, NEW f \in Files, Readable(f), out[f].there, Copied(f)
  PROVE  Whole(f)
<1>1. /\ job \in Jobs /\ Disk.blocks \notin Reached(Ino(f).root)
      /\ \A x \in Described(Ino(f).root) : x \in XadType
  BY ReadableChunks DEF CopyInv, TypeInv, RestoreInv
<1>2. ASSUME NEW x \in Described(Ino(f).root), NEW u \in 0..(Ino(f).size - 1), Lies(x, u)
      PROVE  u \in DOMAIN out[f].data /\ out[f].data[u] = Place(x, u)
  <2>1. u \in DOMAIN out[f].data
    BY <1>2 DEF Copied
  <2>2. PICK y \in Described(Ino(f).root) : Lies(y, u) /\ out[f].data[u] = Unit(Place(y, u))
    BY <1>1, <2>1 DEF CopyInv, InPlace, Right
  <2>3. x = y
    BY <1>2, <2>2 DEF Readable, Sound, Lies
  <2>4. x \in XadType /\ (x.addr + x.len) * BlockSize <= DeviceSize
    BY <1>1 DEF Readable, Sound
  <2>5. Place(x, u) < DeviceSize
    <3> DEFINE A == x.addr * BlockSize
               L == x.len * BlockSize
               F == x.off * BlockSize
               E == (x.off + x.len) * BlockSize
    <3>1. A \in Nat /\ L \in Nat /\ F \in Nat
      BY <2>4, BytesBound
    <3>2. /\ (x.addr + x.len) * BlockSize = A + L /\ E = F + L
          /\ (x.addr - x.off) * BlockSize = A - F
      <4>1. x.addr \in Nat /\ x.len \in Nat /\ x.off \in Nat  BY <2>4 DEF XadType
      <4>2. BlockSize \in Nat  BY ExtentTreeAssumption
      <4> QED BY <4>1, <4>2
    <3>3. u \in F..(E - 1)
      BY <1>2 DEF Lies, Units
    <3>4. DeviceSize \in Nat
      BY ExtentTreeAssumption DEF DeviceSize
    <3>5. Place(x, u) = (A - F) + u
      BY <3>2 DEF Place
    <3> HIDE DEF A, L, F, E
    <3>6. u \in F..(F + L - 1)
      BY <3>1, <3>2, <3>3
    <3> QED BY <2>4, <3>1, <3>2, <3>4, <3>5, <3>6
  <2> QED BY <2>1, <2>2, <2>3, <2>5 DEF Unit
<1> QED BY <1>2 DEF Whole

\* What has no extents has nothing to copy.
LEMMA NoExtents ==
  ASSUME NEW root \in XtpageType, root.xad = << >>
  PROVE  Described(root) = {}
<1>1. Range(root.xad) = {}
  <2>1. DOMAIN << >> = {}  OBVIOUS
  <2> QED BY <2>1 DEF Range
<1>2. Children(root) = {}
  BY <1>1 DEF Children
<1>3. Below(root) = {}
  <2>1. {} \in SUBSET Pages  OBVIOUS
  <2> QED BY <1>2, <2>1 DEF Below
<1> QED BY <1>1, <1>3 DEF Described

\* The data of a file is only ever added to, but for what is cut off.
LEMMA FlushedAdds ==
  ASSUME RestoreAssumption, TypeInv, at \in OnFile
  PROVE  /\ Flushed[c].there = out[c].there
         /\ DOMAIN out[c].data \subseteq DOMAIN Flushed[c].data
         /\ buffer # << >> => Covers(Head(buffer)) \subseteq DOMAIN Flushed[c].data
         /\ buffer = << >> => Flushed[c] = out[c]
         /\ \A p : /\ Written(Flushed, p)[c].there = out[c].there
                   /\ DOMAIN Flushed[c].data \subseteq DOMAIN Written(Flushed, p)[c].data
                   /\ Covers(p) \subseteq DOMAIN Written(Flushed, p)[c].data
<1>1. c \in Inodes /\ IsOutput(out)
  BY DEF TypeInv, RestoreInv, PlaceOK, Files
<1>2. /\ IsOutput(Flushed)
      /\ Flushed[c] = IF buffer = << >> THEN out[c] ELSE Put(out[c], Head(buffer))
  BY <1>1, FlushedIs
<1>3. ASSUME NEW file, NEW p, IsEntry(file)
      PROVE  /\ Put(file, p).there = file.there
             /\ DOMAIN file.data \subseteq DOMAIN Put(file, p).data
             /\ Covers(p) \subseteq DOMAIN Put(file, p).data
  <2> DEFINE r == Put(file, p)
  <2>1. /\ r.there = file.there /\ r.time = Today
        /\ r.size = Max({file.size, p.from + p.n})
        /\ DOMAIN r.data = DOMAIN file.data \cup Covers(p)
        /\ \A u \in Covers(p) : r.data[u] = UnitAt(p, u)
        /\ \A u \in DOMAIN file.data \ Covers(p) : r.data[u] = file.data[u]
    BY <1>3, PutIs
  <2> HIDE DEF r
  <2>2. r.there = file.there /\ DOMAIN r.data = DOMAIN file.data \cup Covers(p)
    BY <2>1
  <2> QED BY <2>2 DEF r
<1>4. IsEntry(out[c]) /\ IsEntry(Flushed[c])
  BY <1>1, <1>2 DEF IsOutput
<1>5. /\ Put(out[c], Head(buffer)).there = out[c].there
      /\ DOMAIN out[c].data \subseteq DOMAIN Put(out[c], Head(buffer)).data
      /\ Covers(Head(buffer)) \subseteq DOMAIN Put(out[c], Head(buffer)).data
  BY <1>3, <1>4
<1>6. /\ Flushed[c].there = out[c].there
      /\ DOMAIN out[c].data \subseteq DOMAIN Flushed[c].data
      /\ buffer # << >> => Covers(Head(buffer)) \subseteq DOMAIN Flushed[c].data
      /\ buffer = << >> => Flushed[c] = out[c]
  BY <1>2, <1>5
<1>7. ASSUME NEW p
      PROVE  /\ Written(Flushed, p)[c].there = out[c].there
             /\ DOMAIN Flushed[c].data \subseteq DOMAIN Written(Flushed, p)[c].data
             /\ Covers(p) \subseteq DOMAIN Written(Flushed, p)[c].data
  <2>1. Written(Flushed, p)[c] = Put(Flushed[c], p)
    BY <1>1, <1>2, WrittenIs
  <2> QED BY <1>3, <1>4, <1>6, <2>1
<1> QED BY <1>6, <1>7

LEMMA ThereStays ==
  ASSUME RestoreAssumption, CopyInv, [Next]_vars, NEW f \in Files, out[f].there
  PROVE  out'[f].there
<1>1. /\ RestoreInv /\ TypeInv /\ Pending /\ IsOutput(out) /\ f \in Inodes
  BY DEF CopyInv, TypeInv, RestoreInv, Files
<1>2. CASE Open /\ out' = Opened(c) /\ f = c
  <2>1. Opened(c)[c] = New
    <3>1. IsOutput(Made({c})) /\ c \in Inodes
      BY <1>1, <1>2, MadeOutput
    <3> QED BY <3>1 DEF Opened, IsOutput
  <2> QED BY <1>2, <2>1 DEF New
<1>3. CASE WithFile /\ f = c
  <2>1. at \in OnFile /\ c \in Inodes
    BY <1>1, <1>3, WithFileStep
  <2>2. CASE out' = out \/ out' = Flushed \/ out' = Written(Flushed, Direct(Head(todo)))
    BY <1>1, <1>3, <2>1, <2>2, FlushedAdds
  <2>3. CASE out' = Cut
    <3>1. CASE Ino(c).size < 0  BY <1>3, <2>3, <3>1 DEF Cut
    <3>2. CASE ~ (Ino(c).size < 0)  BY <1>1, <1>3, <2>1, <2>3, <3>2, CutIs
    <3> QED BY <3>1, <3>2
  <2>4. CASE SetTimes
    BY <1>1, <1>3, <2>1, <2>4, TimeIs
  <2> QED BY <1>1, <1>3, <2>2, <2>3, <2>4, WithFileCases
<1> QED BY <1>1, <1>2, <1>3, OthersStay

\* The step by which a file at hand is finished: fclose.
LEMMA CloseFinishes ==
  ASSUME RestoreAssumption, CopyInv, Coming, Close, c \notin torn, Readable(c)
  PROVE  Copied(c)' /\ SizeOK(c)'
<1>1. /\ at = "close" /\ out' = Flushed /\ UNCHANGED << job, q, n >> /\ todo = << >>
      /\ at \in OnBuffer /\ at \in OnFile /\ TypeInv /\ Pending
  BY DEF Close, CopyInv, Pending, OnBuffer, OnFile
<1>2. /\ c' = c /\ Chunks(c)' = Chunks(c) /\ Ino(c)' = Ino(c)
  BY <1>1, SameFile
<1>3. DOMAIN todo = {}
  BY <1>1
<1>4. Copied(c)'
  <2>1. ASSUME NEW x \in Described(Ino(c).root), NEW u \in 0..(Ino(c).size - 1), Lies(x, u)
        PROVE  u \in DOMAIN Flushed[c].data
    <3>1. u \in DOMAIN out[c].data \/ (buffer # << >> /\ u \in Covers(Head(buffer)))
      BY <1>1, <1>3, <2>1 DEF Coming, Ahead
    <3> QED BY <1>1, <3>1, FlushedAdds
  <2> QED BY <1>1, <1>2, <2>1 DEF Copied
<1>5. SizeOK(c)'
  <2>1. CASE buffer = << >>
    <3>1. Flushed[c] = out[c]
      BY <1>1, <2>1, FlushedAdds
    <3>2. Ino(c).size < 0 \/ out[c].size = Ino(c).size
      BY <1>1 DEF Coming
    <3> QED BY <1>1, <1>2, <3>1, <3>2 DEF SizeOK
  <2>2. CASE buffer # << >>
    <3>1. Chunks(c) \in Seq(PieceType) /\ Len(Chunks(c)) \in Nat
      BY <1>1, PendingPieces
    <3>2. Behind = Len(Chunks(c))
      <4>1. Len(todo) = 0  BY <1>1
      <4> QED BY <3>1, <4>1 DEF Behind
    <3>3. Len(Chunks(c)) # 0 /\ Rest(Chunks(c)[Len(Chunks(c))]) # 0
      BY <1>1, <2>2, <3>2 DEF Pending
    <3>4. Chunks(c) # << >> /\ Last(Chunks(c)) = Chunks(c)[Len(Chunks(c))]
      BY <3>1, <3>3 DEF Last
    <3> QED BY <1>2, <3>3, <3>4 DEF SizeOK, Rest
  <2> QED BY <2>1, <2>2
<1> QED BY <1>4, <1>5

LEMMA FinishedNext ==
  ASSUME RestoreAssumption, CopyInv, Finished, Coming, [Next]_vars
  PROVE  Finished'
<1>0. /\ job' = job /\ Files' = Files /\ torn \subseteq torn'
      /\ TypeInv /\ RestoreInv /\ Pending /\ job \in Jobs
  BY JobStays DEF CopyInv, TypeInv, RestoreInv
<1>1. \A f : Readable(f)' = Readable(f) /\ Ino(f)' = Ino(f) /\ Chunks(f)' = Chunks(f)
  BY <1>0 DEF Readable, Ino, Chunks, FileXads
<1> SUFFICES ASSUME NEW f \in Files, f \notin torn', Readable(f), out'[f].there,
                    ~ (at' \in OnBuffer /\ f = c')
             PROVE  Copied(f)' /\ SizeOK(f)'
  BY <1>0, <1>1 DEF Finished
<1>2. f \notin torn
  BY <1>0
\* It was finished before, and is what it was.
<1>3. ASSUME ~ (at \in OnBuffer /\ f = c), out'[f].there = out[f].there,
             out'[f].data = out[f].data, out'[f].size = out[f].size
      PROVE  Copied(f)' /\ SizeOK(f)'
  <2>1. Copied(f) /\ SizeOK(f)
    BY <1>2, <1>3 DEF Finished
  <2> QED BY <1>1, <1>3, <2>1 DEF Copied, SizeOK, Rest
<1>4. CASE Open /\ f = c
  <2>1. at \notin OnBuffer /\ c' = c
    BY <1>4 DEF Open, OnBuffer, c
  <2>2. CASE out' = out
    BY <1>3, <2>1, <2>2
  <2>3. CASE at' = "times" /\ Ino(f).root.xad = << >>
    <3>1. Ino(f).root \in XtpageType
      BY <1>0, FileIs
    <3>2. Described(Ino(f).root) = {}
      BY <2>3, <3>1, NoExtents
    <3> QED BY <1>1, <2>3, <3>2 DEF Copied, SizeOK
  <2>4. CASE Fatal \in Range(FileXads(f))
    BY <1>0, <2>4, ReadableChunks
  <2>5. CASE at' = "write"
    BY <1>4, <2>1, <2>5 DEF OnBuffer
  <2> QED BY <1>4, <2>2, <2>3, <2>4, <2>5 DEF Open
<1>5. CASE WithFile /\ f = c
  <2>1. c \in Inodes /\ IsOutput(out)
    BY <1>0, <1>5, WithFileStep DEF RestoreInv
  <2>2. CASE WriteChunk \/ EndWrite \/ Truncate
    <3>1. at' \in OnBuffer /\ c' = c
      BY <2>2 DEF WriteChunk, EndWrite, Truncate, OnBuffer, c
    <3> QED BY <1>5, <3>1
  <2>3. CASE WriteLost \/ CloseLost
    BY <1>5, <2>3 DEF WriteLost, CloseLost
  <2>4. CASE ReadFails
    <3>1. at \in OnBuffer /\ todo # << >> /\ Refused(Head(todo))
      BY <2>4 DEF ReadFails, OnBuffer
    <3>2. Head(todo) \in Range(Chunks(c))
      BY <1>0, <3>1, PendingPieces
    <3> QED BY <1>0, <1>5, <3>1, <3>2, ReadableChunks
  <2>5. CASE Close
    <3>1. Copied(c)' /\ SizeOK(c)'
      BY <1>2, <1>5, <2>5, CloseFinishes
    <3>2. c' = c
      BY <2>5 DEF Close, c
    <3> QED BY <1>5, <3>1, <3>2 DEF Copied, SizeOK
  <2>6. CASE SetTimes
    <3>1. at \notin OnBuffer
      BY <2>6 DEF SetTimes, OnBuffer
    <3> QED BY <1>3, <1>5, <2>1, <2>6, <3>1, TimeIs
  <2>7. CASE TimesFail
    BY <1>3, <2>7 DEF TimesFail, OnBuffer
  <2> QED BY <1>5, <2>2, <2>3, <2>4, <2>5, <2>6, <2>7 DEF WithFile
<1>6. CASE ~ (Open /\ f = c) /\ ~ (WithFile /\ f = c)
  <2>1. out'[f] = out[f]
    BY <1>0, <1>6, OthersStay
  <2>2. CASE ~ (at \in OnBuffer /\ f = c)
    BY <1>3, <2>1, <2>2
  <2>3. CASE at \in OnBuffer /\ f = c
    <3>1. Crash \/ UNCHANGED vars
      BY <1>6, <2>3 DEF Next, Step, Failure, WithFile, Launch, CreateDir, CreateDirFails, EndDirs,
         RecoverDir, DirTimeFails, SkipItem, SkipFails, Open, EndItems, OnBuffer
    <3>2. CASE Crash
      BY <2>3, <3>2 DEF Crash, OnBuffer
    <3>3. CASE UNCHANGED vars
      BY <2>3, <3>3 DEF vars, c
    <3> QED BY <3>1, <3>2, <3>3
  <2> QED BY <2>2, <2>3
<1> QED BY <1>4, <1>5, <1>6

LEMMA ComingNext ==
  ASSUME RestoreAssumption, CopyInv, Coming, [Next]_vars
  PROVE  Coming'
<1>0. /\ job' = job /\ torn \subseteq torn' /\ TypeInv /\ RestoreInv /\ Pending /\ job \in Jobs
      /\ todo \in Seq(PieceType) /\ IsOutput(out)
  BY JobStays DEF CopyInv, TypeInv, RestoreInv, Parts
<1> SUFFICES ASSUME at' \in OnBuffer, c' \notin torn', Readable(c)'
             PROVE  /\ \A x \in Described(Ino(c).root)' : \A u \in 0..(Ino(c)'.size - 1) :
                         Lies(x, u) => u \in DOMAIN out'[c'].data \/ Ahead(u)'
                    /\ at' = "close" => Ino(c)'.size < 0 \/ out'[c'].size = Ino(c)'.size
  BY DEF Coming
<1>1. CASE Open
  <2>1. /\ UNCHANGED << job, q, n >> /\ at' = "write" /\ todo' = Chunks(c) /\ c \in Files
    BY <1>1 DEF Open, OnBuffer, RestoreInv, PlaceOK, CopyInv, TypeInv
  <2>2. c' = c /\ Ino(c)' = Ino(c)
    BY <2>1, SameFile
  <2>3. Readable(c)
    BY <2>2 DEF Readable
  <2>4. ASSUME NEW x \in Described(Ino(c).root), NEW u, Lies(x, u) PROVE Ahead(u)'
    <3>1. PICK p \in Range(Chunks(c)) : u \in Covers(p)
      BY <1>0, <2>1, <2>3, <2>4, ReadableChunks
    <3>2. PICK k \in DOMAIN todo' : p = todo'[k]
      BY <2>1, <3>1 DEF Range
    <3> QED BY <3>1, <3>2 DEF Ahead
  <2> QED BY <2>1, <2>2, <2>4
<1>2. CASE WriteChunk
  <2>1. /\ UNCHANGED << job, q, n, at, torn >> /\ at = "write" /\ todo # << >>
        /\ todo' = Tail(todo) /\ at \in OnBuffer /\ at \in OnFile
    BY <1>2 DEF WriteChunk, OnBuffer, OnFile
  <2>2. c' = c /\ Ino(c)' = Ino(c)
    BY <2>1, SameFile
  <2>3. Readable(c) /\ c \notin torn
    BY <2>1, <2>2 DEF Readable
  <2>4. /\ Len(todo) \in Nat /\ DOMAIN todo = 1..Len(todo) /\ DOMAIN todo' = 1..(Len(todo) - 1)
        /\ Head(todo) = todo[1] /\ \A k \in 1..(Len(todo) - 1) : todo'[k] = todo[k + 1]
    BY <1>0, <2>1
  <2>5. /\ DOMAIN out[c].data \subseteq DOMAIN out'[c].data
        /\ buffer # << >> => Covers(Head(buffer)) \subseteq DOMAIN out'[c].data
    BY <1>0, <1>2, <2>1, FlushedAdds DEF WriteChunk, WritePiece
  <2>6. ASSUME NEW u \in Covers(Head(todo))
        PROVE  u \in DOMAIN out'[c].data \/ (buffer' # << >> /\ u \in Covers(Head(buffer')))
    <3> DEFINE p == Head(todo)
    <3>1. p \in PieceType
      BY <1>0, <2>1
    <3>2. Rest(p) # 0 => buffer' # << >> /\ Head(buffer') = Kept(p)
      <4>1. Rest(p) # 0 => buffer' = << Kept(p) >>
        BY <1>2 DEF WriteChunk, WritePiece
      <4>2. << Kept(p) >> # << >> /\ Head(<< Kept(p) >>) = Kept(p)
        OBVIOUS
      <4> QED BY <4>1, <4>2
    <3>3. CASE p.n < StdioBuffer
      <4>1. Rest(p) # 0 /\ Covers(p) \subseteq Covers(Kept(p))
        BY <3>1, <3>3, PieceSplits
      <4> QED BY <2>6, <3>2, <4>1
    <3>4. CASE ~ (p.n < StdioBuffer)
      <4>1. out' = Written(Flushed, Direct(p))
        BY <1>2, <3>4 DEF WriteChunk, WritePiece
      <4>2. Covers(Direct(p)) \subseteq DOMAIN out'[c].data
        BY <1>0, <2>1, <4>1, FlushedAdds
      <4>3. /\ Covers(p) \subseteq Covers(Direct(p)) \cup Covers(Kept(p))
            /\ Rest(p) = 0 => Covers(p) \subseteq Covers(Direct(p))
        BY <3>1, <3>4, PieceSplits
      <4> QED BY <2>6, <3>2, <4>2, <4>3
    <3> QED BY <3>3, <3>4
  <2>7. ASSUME NEW u, u \in DOMAIN out[c].data \/ Ahead(u)
        PROVE  u \in DOMAIN out'[c].data \/ Ahead(u)'
    <3>1. CASE u \in DOMAIN out[c].data \/ (buffer # << >> /\ u \in Covers(Head(buffer)))
      BY <2>5, <3>1
    <3>2. ASSUME NEW k \in DOMAIN todo, u \in Covers(todo[k])
          PROVE  u \in DOMAIN out'[c].data \/ Ahead(u)'
      <4>1. CASE k = 1
        BY <2>4, <2>6, <3>2, <4>1 DEF Ahead
      <4>2. CASE k # 1
        <5>1. k - 1 \in DOMAIN todo' /\ (k - 1) + 1 = k
          BY <2>4, <4>2
        <5>2. todo'[k - 1] = todo[k]
          BY <2>4, <5>1
        <5> QED BY <3>2, <5>1, <5>2 DEF Ahead
      <4> QED BY <4>1, <4>2
    <3> QED BY <2>7, <3>1, <3>2 DEF Ahead
  <2> QED BY <2>1, <2>2, <2>3, <2>7 DEF Coming
<1>3. CASE WriteLost
  <2>1. c' = c /\ c \in torn'
    BY <1>3 DEF WriteLost, c
  <2> QED BY <2>1
<1>4. CASE EndWrite \/ UNCHANGED vars
  <2>1. /\ UNCHANGED << job, out, q, n, todo, buffer, torn >> /\ at \in OnBuffer
        /\ at' = "close" => at = "close"
    BY <1>4 DEF EndWrite, vars, OnBuffer
  <2>2. c' = c /\ Ino(c)' = Ino(c)
    BY <2>1, SameFile
  <2>3. Readable(c) /\ c \notin torn
    BY <2>1, <2>2 DEF Readable
  <2> QED BY <2>1, <2>2, <2>3 DEF Coming, Ahead
<1>5. CASE Truncate
  <2>1. /\ UNCHANGED << job, q, n, todo, buffer, torn >> /\ at \in OnBuffer /\ out' = Cut
    BY <1>5 DEF Truncate, OnBuffer
  <2>2. c' = c /\ Ino(c)' = Ino(c)
    BY <2>1, SameFile
  <2>3. Readable(c) /\ c \notin torn
    BY <2>1, <2>2 DEF Readable
  <2>4. c \in Inodes
    BY <1>0, <2>1, PendingPieces DEF Files, CopyInv, TypeInv
  <2>5. CASE Ino(c).size < 0
    <3>1. out' = out
      BY <2>1, <2>5 DEF Cut
    <3> QED BY <2>1, <2>2, <2>3, <2>5, <3>1 DEF Coming, Ahead
  <2>6. CASE ~ (Ino(c).size < 0)
    <3>1. /\ out'[c].size = Ino(c).size
          /\ DOMAIN out'[c].data = DOMAIN out[c].data \cap 0..(Ino(c).size - 1)
      BY <1>0, <2>1, <2>4, <2>6, CutIs
    <3> QED BY <2>1, <2>2, <2>3, <3>1 DEF Coming, Ahead
  <2> QED BY <2>5, <2>6
<1> QED BY <1>1, <1>2, <1>3, <1>4, <1>5
    DEF Next, Step, Failure, Launch, CreateDir, CreateDirFails, EndDirs, RecoverDir, DirTimeFails,
        SkipItem, SkipFails, ReadFails, Close, CloseLost, SetTimes, TimesFail, EndItems, Crash, NextItem, OnBuffer

LEMMA PassedNext ==
  ASSUME RestoreAssumption, CopyInv, Passed, [Next]_vars
  PROVE  Passed'
<1> DEFINE TriedNow(f) == out'[f].there \/ f \in passed'
<1>1. /\ job' = job /\ Files' = Files /\ TypeInv /\ RestoreInv
  BY JobStays DEF CopyInv, TypeInv
<1>2. \A f \in Files : out[f].there => out'[f].there
  BY ThereStays
<1>3. ~ Launch => passed \subseteq passed'
  BY DEF Next, Step, Failure, CreateDir, CreateDirFails, EndDirs, RecoverDir,
         DirTimeFails, SkipItem, SkipFails, Open, WriteChunk, WriteLost, ReadFails, EndWrite,
         Truncate, Close, CloseLost, SetTimes, TimesFail, EndItems, Crash, vars
<1>4. ASSUME at \in Busy \cup {"done"} PROVE \A f \in Files : Tried(f) => TriedNow(f)
  BY <1>2, <1>3, <1>4 DEF Tried, Launch, Busy, OnFile
<1>5. DOMAIN q \subseteq Nat /\ n \in Nat
  BY <1>1 DEF TypeInv, Parts
\* Up to n, or with the item at hand.
<1>6. ASSUME UNCHANGED q, at \in Busy \cup {"done"}, n' = n
      PROVE  \A a \in DOMAIN q' : a < n' /\ q'[a] \in Files' => TriedNow(q'[a])
  BY <1>1, <1>6, <1>4 DEF Passed
<1>7. ASSUME UNCHANGED q, at \in Busy, n' = n + 1, c \in Files => TriedNow(c)
      PROVE  \A a \in DOMAIN q' : a < n' /\ q'[a] \in Files' => TriedNow(q'[a])
  <2> SUFFICES ASSUME NEW a \in DOMAIN q, a < n + 1, q[a] \in Files PROVE TriedNow(q'[a])
    BY <1>1, <1>7
  <2>1. a < n \/ a = n
    BY <1>5
  <2> QED BY <1>7, <1>4, <2>1 DEF Passed, c
<1>8. CASE at' \notin Busy \cup {"done"}
  BY <1>8 DEF Passed, Busy
<1>9. CASE EndDirs
  <2>1. \A a \in DOMAIN q' : ~ (a < n')
    <3>1. n' = 1 /\ q' = q /\ \A a \in DOMAIN q : a \in Nat \ {0}
      BY <1>1, <1>9 DEF EndDirs, TypeInv, Parts
    <3> QED BY <3>1
  <2> QED BY <1>9, <2>1 DEF EndDirs, Passed, OnFile
<1>10. CASE RecoverDir \/ SkipItem \/ SkipFails
  <2>1. UNCHANGED q /\ at \in Busy /\ n' = n + 1 /\ at' = "items"
    BY <1>10 DEF RecoverDir, SkipItem, SkipFails, NextItem, Busy
  <2>2. c \in Files => TriedNow(c)
    <3>1. c \in Files /\ ~ SkipFails => out[c].there
      BY <1>10 DEF RecoverDir, SkipItem, Skips, Dirs, Files
    <3>2. SkipFails => c \in passed'
      BY DEF SkipFails
    <3>3. c \in Files => out'[c].there \/ c \in passed'
      BY <1>2, <3>1, <3>2
    <3> QED BY <3>3
  <2> QED BY <1>7, <2>1, <2>2 DEF Passed, OnFile, Tried
<1>11. CASE Open
  <2>1. /\ UNCHANGED << q, n >> /\ at \in Busy /\ c' = c
    BY <1>11 DEF Open, Busy, c
  <2>2. at' \in OnFile => out'[c].there
    <3>1. CASE at' \in OnFile
      <4>1. out' = Opened(c) /\ c \in Inodes /\ IsOutput(out)
        BY <1>1, <1>11, <3>1 DEF Open, OnFile, RestoreInv, PlaceOK, Files
      <4>2. IsOutput(Made({c}))
        BY <4>1, MadeOutput
      <4>3. Opened(c)[c] = New
        BY <4>1, <4>2 DEF Opened, IsOutput
      <4> QED BY <4>1, <4>3 DEF New
    <3> QED BY <3>1
  <2>3. at' # "done"
    BY <1>11 DEF Open
  <2> QED BY <1>6, <2>1, <2>2, <2>3 DEF Passed, Tried
<1>12. CASE WithFile
  <2>1. /\ UNCHANGED q /\ at \in OnFile /\ at' \in OnFile \cup {"items"} /\ n' \in {n, n + 1}
        /\ (at' \in OnFile => n' = n) /\ c \in Files
    BY <1>1, <1>12, WithFileStep
  <2>2. out'[c].there /\ at \in Busy
    BY <1>2, <2>1 DEF Passed, Busy
  <2>3. \A a \in DOMAIN q' : a < n' /\ q'[a] \in Files' => TriedNow(q'[a])
    BY <1>6, <1>7, <2>1, <2>2
  <2>4. at' \in OnFile => c' = c
    BY <2>1 DEF c
  <2>5. at' # "done"
    BY <2>1 DEF OnFile
  <2> QED BY <1>2, <2>1, <2>2, <2>3, <2>4, <2>5 DEF Passed, Tried
<1>13. CASE EndItems
  BY <1>6, <1>13 DEF EndItems, Passed, Busy, OnFile, Tried
<1>14. CASE UNCHANGED vars
  BY <1>1, <1>14 DEF vars, Passed, c, Tried
<1>15. \/ at' \notin Busy \cup {"done"} \/ EndDirs \/ RecoverDir \/ SkipItem \/ SkipFails \/ Open
       \/ WithFile \/ EndItems \/ UNCHANGED vars
  BY DEF Next, Step, Failure, Launch, CreateDir, CreateDirFails, DirTimeFails, Crash, WithFile,
         Busy, OnFile
<1> QED BY <1>8, <1>9, <1>10, <1>11, <1>12, <1>13, <1>14, <1>15

FilesInv == CopyInv /\ Finished /\ Coming /\ Passed

LEMMA FilesInit == Init => Finished /\ Coming /\ Passed
<1> SUFFICES ASSUME Init PROVE Finished /\ Coming /\ Passed
  OBVIOUS
<1>1. \A f \in Files : ~ out[f].there
  BY DEF Init, Absent, Files
<1> QED BY <1>1 DEF Init, Finished, Coming, Passed, OnBuffer, OnFile, Busy

LEMMA FilesHold == Spec => []FilesInv
<1>1. Init => Finished /\ Coming /\ Passed
  BY FilesInit
<1>2. CopyInv /\ Finished /\ Coming /\ Passed /\ [Next]_vars => Finished' /\ Coming' /\ Passed'
  BY FinishedNext, ComingNext, PassedNext, RestoreAssumption
<1> QED BY <1>1, <1>2, CopyHolds, PTL DEF Spec, FilesInv

LEMMA DoneIsFinished ==
  ASSUME RestoreAssumption, FilesInv, at = "done",
         NEW f \in Files \ (job.exclude \cup torn \cup passed), Readable(f)
  PROVE  out[f].there /\ Copied(f) /\ SizeOK(f)
<1>1. f \in Range(q)
  BY DEF FilesInv, CopyInv, TypeInv, RestoreInv, PlaceOK, InQueueOrder, Files
<1>2. PICK a \in DOMAIN q : f = q[a]
  BY <1>1 DEF Range
<1>3. a < n
  <2>1. Len(q) \in Nat /\ a \in 1..Len(q) /\ n \in Nat /\ n > Len(q)
    BY DEF FilesInv, CopyInv, TypeInv, Parts, Passed
  <2> QED BY <2>1
<1>4. out[f].there
  BY <1>2, <1>3 DEF FilesInv, Passed, Tried
<1> QED BY <1>4 DEF FilesInv, Finished, OnBuffer

\* FileInode::recover brings back every file that can be read, to its last
\* unit, from where its extents say: over any number of kills and restarts,
\* for all that lies in the output directory from the runs before, and
\* whatever else fails on the way.  Left out are the files a kill or a full
\* device tore, and those the skip test of this run threw on.
THEOREM WhatIsReadableIsRestored == Spec => []ReadableIsRestored
<1>1. FilesInv => ReadableIsRestored
  <2> SUFFICES ASSUME FilesInv, at = "done",
                      NEW f \in Files \ (job.exclude \cup torn \cup passed), Readable(f)
               PROVE  Whole(f)
    BY DEF ReadableIsRestored
  <2> QED BY DoneIsFinished, WholeIs, RestoreAssumption DEF FilesInv
<1> QED BY <1>1, FilesHold, PTL

\* ftruncate gives such a file the length its inode has, but where the code
\* cannot: for a negative one, for a file without extents, and where fclose
\* writes what fwrite kept of the last piece behind it.
THEOREM LengthIsRestored == Spec => []SizeIsExact
<1>1. FilesInv => SizeIsExact
  <2> SUFFICES ASSUME FilesInv, at = "done",
                      NEW f \in Files \ (job.exclude \cup torn \cup passed), Readable(f)
               PROVE  SizeOK(f)
    BY DEF SizeIsExact, SizeOK
  <2> QED BY DoneIsFinished, RestoreAssumption
<1> QED BY <1>1, FilesHold, PTL
=============================================================================
