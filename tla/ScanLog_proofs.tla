--------------------------- MODULE ScanLog_proofs ---------------------------
(***************************************************************************)
(* Proofs about ScanLog: type correctness, and that an undamaged scan is   *)
(* complete, finds nothing that is not there, keeps on file what it has    *)
(* passed, and gives up at the edges only, for every device, chunk size    *)
(* and number of kills; and, built on the invariant of that, the order of  *)
(* the inode vector, that the file never loses a record, and that the scan *)
(* implements ResumableScan.                                               *)
(***************************************************************************)
EXTENDS ScanLog, FiniteSetTheorems, SequenceTheorems, TLAPS

----------------------------------------------------------------------------
(* Operators                                                               *)

\* An interval that is one longer has one more element.
LEMMA OneMore ==
  ASSUME NEW m \in Nat, NEW n \in Nat, n = m + 1
  PROVE  \A k \in 1..n : k \in 1..m \/ k = m + 1
OBVIOUS

LEMMA PowerType == \A d \in 1..9 : PowerOfTen[d] \in Nat \ {0}
  BY DEF PowerOfTen

LEMMA DigitsType == ASSUME NEW n \in Nat PROVE Digits(n) \in 1..9
<1> DEFINE D == {d \in 1..8 : PowerOfTen[d] <= n}
<1>1. /\ IsFiniteSet(1..8)
      /\ Cardinality(1..8) = 8
  <2>1. 1 \in Int /\ 8 \in Int
    OBVIOUS
  <2>2. IsFiniteSet(1..8) /\ Cardinality(1..8) = IF 1 > 8 THEN 0 ELSE 8 - 1 + 1
    BY <2>1, FS_Interval
  <2> QED BY <2>2
<1>2. D \subseteq 1..8
  OBVIOUS
<1>3. /\ IsFiniteSet(D)
      /\ Cardinality(D) <= 8
  BY <1>1, <1>2, FS_Subset
<1>4. Cardinality(D) \in Nat
  BY <1>3, FS_CardinalityType
<1> QED BY <1>3, <1>4 DEF Digits

LEMMA CutsType == ASSUME NEW n \in Nat PROVE Cuts(n) \subseteq Nat
  BY PowerType, DigitsType DEF Cuts

LEMMA GlueType ==
  ASSUME NEW o \in Nat, NEW t \in Seq(Nat), Len(t) <= 1
  PROVE  Glue(t, o) \in Nat
<1>1. CASE t = << >>
  BY <1>1 DEF Glue
<1>2. CASE t # << >>
  <2>1. t[1] \in Nat
    BY <1>2
  <2>2. PowerOfTen[Digits(o)] \in Nat
    BY PowerType, DigitsType
  <2> DEFINE p == PowerOfTen[Digits(o)]
             x == t[1]
  <2> HIDE DEF p, x
  <2>3. x \in Nat /\ p \in Nat => x * p + o \in Nat
    OBVIOUS
  <2> QED BY <1>2, <2>1, <2>2, <2>3 DEF Glue, p, x
<1> QED BY <1>1, <1>2

\* What the parsing loop adds: nothing but the records of the file, and,
\* for a file of whole lines, all of them.
LEMMA RecordsOfLines ==
  ASSUME NEW ls \in Seq(Nat), NEW bo \in Nat, ls # << >>
  PROVE  /\ Records(ls, << >>, bo) = Append(ls, ls[Len(ls)])
         /\ Range(Records(ls, << >>, bo)) = Range(ls)
<1>1. Records(ls, << >>, bo) = Append(ls, ls[Len(ls)])
  BY DEF Records
<1>2. Range(Append(ls, ls[Len(ls)])) = Range(ls)
  BY DEF Range
<1> QED BY <1>1, <1>2

LEMMA RecordsType ==
  ASSUME NEW ls \in Seq(Nat), NEW t \in Seq(Nat), NEW bo \in Nat
  PROVE  /\ Records(ls, t, bo) \in Seq(Nat)
         /\ Len(Records(ls, t, bo)) > 0
<1>1. CASE t # << >>
  BY <1>1 DEF Records
<1>2. CASE t = << >> /\ ls = << >>
  BY <1>2 DEF Records
<1>3. CASE t = << >> /\ ls # << >>
  <2>1. ls[Len(ls)] \in Nat
    BY <1>3
  <2> QED BY <1>3, <2>1 DEF Records
<1> QED BY <1>1, <1>2, <1>3

----------------------------------------------------------------------------
(* Type correctness                                                        *)

LEMMA ChunkType ==
  /\ ChunkInodes \in Nat \ {0}
  /\ ChunkBytes \in Nat \ {0}
  /\ ChunkBytes = ChunkInodes * 512
  /\ Word \in Nat
  /\ \A d \in DevSizes : d \in Nat /\ d % 512 = 0 /\ d + ChunkBytes < Word
  BY ScanAssumption DEF ScanAssumption, ChunkBytes, InodeSize, Sectors

LEMMA LogLineType ==
  ASSUME TypeOK, NEW o \in Nat, LogLine(o)
  PROVE  /\ lines' \in Seq(Nat)
         /\ Len(lines') = Len(lines) + 1
<1>1. (IF flushed = Len(lines) THEN Glue(tail, o) ELSE o) \in Nat
  BY GlueType DEF TypeOK
<1> QED BY <1>1 DEF LogLine, TypeOK

LEMMA TypeInit == Init => TypeOK
<1> SUFFICES ASSUME Init PROVE TypeOK
  OBVIOUS
<1>1. devsize \in Nat /\ devsize % 512 = 0
  BY ChunkType DEF Init
<1>2. sane \subseteq Sectors /\ \A s \in sane : s < devsize
  <2> SUFFICES ASSUME NEW k \in 0..((devsize \div 512) - 1)
               PROVE  512 * k \in Sectors /\ 512 * k < devsize
    BY DEF Init, InodeSize
  <2> QED BY <1>1 DEF Sectors, InodeSize
<1>3. 0 \in 0..MaxCrashes
  BY ScanAssumption DEF ScanAssumption
<1>4. /\ devsize \in DevSizes
      /\ logfile = "missing" /\ lines = << >> /\ flushed = 0 /\ tail = << >>
      /\ pc = "down" /\ i = 0 /\ cur = 0
      /\ found = << >> /\ crashes = 0 /\ spoilt = {}
  BY DEF Init
<1> QED BY <1>2, <1>3, <1>4 DEF TypeOK

LEMMA TypeResume == ASSUME TypeOK, NEW bo \in Garbage, Resume(bo) PROVE TypeOK'
<1> DEFINE r == Records(lines, tail, bo)
<1>1. r \in Seq(Nat) /\ Len(r) > 0
  BY RecordsType, ScanAssumption DEF TypeOK, ScanAssumption
<1> HIDE DEF r
<1>2. r[Len(r)] + 512 \in Nat
  BY <1>1
<1>3. found' = r /\ i' = r[Len(r)] + 512
  BY DEF r, Resume, ResumeAt, InodeSize
<1>4. /\ pc' \in {"exit", "loop"}
      /\ cur' = 0
      /\ spoilt' \subseteq {"empty", "cut"}
      /\ UNCHANGED << devsize, sane, logfile, lines, flushed, tail, crashes >>
  BY DEF Resume, TypeOK, ReopenLog, log, device
<1> QED BY <1>1, <1>2, <1>3, <1>4 DEF TypeOK

LEMMA TypeCrash == ASSUME TypeOK, Crash PROVE TypeOK'
<1>1. PICK k \in flushed..Len(lines) :
        /\ lines' = SubSeq(lines, 1, k)
        /\ flushed' = k
        /\ tail' \in Torn(k)
  BY DEF Crash
<1>2. k \in Nat /\ k <= Len(lines)
  BY <1>1 DEF TypeOK
<1>3. lines' \in Seq(Nat) /\ Len(lines') = k
  BY <1>1, <1>2 DEF TypeOK
<1>4. tail' \in Seq(Nat) /\ Len(tail') <= 1
  <2>1. k # Len(lines) => Cuts(lines[k + 1]) \subseteq Nat
    BY <1>2, CutsType DEF TypeOK
  <2>2. tail' = tail \/ tail' = << >> \/ (k # Len(lines) /\ \E c \in Cuts(lines[k + 1]) : tail' = << c >>)
    BY <1>1 DEF Torn
  <2>3. tail \in Seq(Nat) /\ Len(tail) <= 1
    BY DEF TypeOK
  <2>4. \A c \in Nat : << c >> \in Seq(Nat) /\ Len(<< c >>) <= 1
    OBVIOUS
  <2>5. << >> \in Seq(Nat) /\ Len(<< >>) <= 1
    OBVIOUS
  <2>6. ASSUME k # Len(lines), NEW c \in Cuts(lines[k + 1]), tail' = << c >>
        PROVE  tail' \in Seq(Nat) /\ Len(tail') <= 1
    BY <2>1, <2>4, <2>6
  <2> QED BY <2>2, <2>3, <2>5, <2>6
<1>5. crashes' \in 0..MaxCrashes
  BY ScanAssumption DEF Crash, TypeOK, ScanAssumption
<1> QED BY <1>1, <1>2, <1>3, <1>4, <1>5 DEF Crash, TypeOK, device

LEMMA TypeStep == TypeOK /\ [Next]_vars => TypeOK'
<1> SUFFICES ASSUME TypeOK, [Next]_vars PROVE TypeOK'
  OBVIOUS
<1> USE ChunkType
<1>1. CASE StartFresh
  BY <1>1 DEF StartFresh, TypeOK, device
<1>2. ASSUME NEW bo \in Garbage, Resume(bo) PROVE TypeOK'
  BY <1>2, TypeResume
<1>3. CASE ReadChunk
  BY <1>3 DEF ReadChunk, TypeOK, device, log
<1>4. CASE ScanChunkSector
  <2>1. Position \in Nat
    BY DEF TypeOK, Position, InodeSize
  <2>2. CASE Position \in sane
    <3>1. LogLine(Position) /\ found' = Append(found, Position)
      BY <1>4, <2>2 DEF ScanChunkSector
    <3>2. lines' \in Seq(Nat) /\ Len(lines') = Len(lines) + 1
      BY <2>1, <3>1, LogLineType
    <3>3. found' \in Seq(Nat)
      BY <2>1, <3>1 DEF TypeOK
    <3>4. cur' = cur + 1 /\ UNCHANGED << devsize, sane, logfile, flushed, tail, pc, i, crashes, spoilt >>
      BY <1>4 DEF ScanChunkSector, device
    <3>5. flushed' \in 0..Len(lines')
      BY <3>2, <3>4 DEF TypeOK
    <3>6. cur' \in Nat
      BY <3>4 DEF TypeOK
    <3> QED BY <3>2, <3>3, <3>4, <3>5, <3>6 DEF TypeOK
  <2>3. CASE Position \notin sane
    BY <1>4, <2>3 DEF ScanChunkSector, TypeOK, device
  <2> QED BY <2>2, <2>3
<1>5. CASE EndChunk
  <2>1. i + ChunkBytes \in Nat
    BY DEF TypeOK
  <2> QED BY <1>5, <2>1 DEF EndChunk, FlushLog, NextChunk, TypeOK, device
<1>6. CASE ReadTail
  BY <1>6 DEF ReadTail, TypeOK, device, log
<1>7. CASE ScanTailSector
  <2>1. Position \in Nat
    BY DEF TypeOK, Position, InodeSize
  <2>2. CASE Position \in sane
    <3>1. LogLine(Position) /\ found' = Append(found, Position)
      BY <1>7, <2>2 DEF ScanTailSector
    <3>2. lines' \in Seq(Nat) /\ Len(lines') = Len(lines) + 1
      BY <2>1, <3>1, LogLineType
    <3>3. flushed' = Len(lines) + 1 /\ tail' = << >>
      BY <1>7, <2>2 DEF ScanTailSector
    <3>4. cur' = cur + 1 /\ UNCHANGED << devsize, sane, logfile, pc, i, crashes, spoilt >>
      BY <1>7 DEF ScanTailSector, device
    <3>5. found' \in Seq(Nat)
      BY <2>1, <3>1 DEF TypeOK
    <3>6. flushed' \in 0..Len(lines')
      BY <3>2, <3>3 DEF TypeOK
    <3>7. tail' \in Seq(Nat) /\ Len(tail') <= 1
      BY <3>3
    <3>8. cur' \in Nat
      BY <3>4 DEF TypeOK
    <3> QED BY <3>2, <3>4, <3>5, <3>6, <3>7, <3>8 DEF TypeOK
  <2>3. CASE Position \notin sane
    BY <1>7, <2>3 DEF ScanTailSector, TypeOK, device
  <2> QED BY <2>2, <2>3
<1>8. CASE EndScan
  BY <1>8 DEF EndScan, TypeOK, device, log
<1>9. CASE Crash
  BY <1>9, TypeCrash
<1>10. CASE UNCHANGED vars
  BY <1>10 DEF vars, device, log, TypeOK
<1> QED
  BY <1>1, <1>2, <1>3, <1>4, <1>5, <1>6, <1>7, <1>8, <1>9, <1>10
  DEF Next, Start, Step

\* Every variable of the scan keeps its type, however the log is damaged.
THEOREM ScanTypeCorrect == Spec => []TypeOK
  BY TypeInit, TypeStep, PTL DEF Spec

----------------------------------------------------------------------------
(* The invariant behind the safety properties.  Its parts say what the     *)
(* resume relies on: the log is increasing, holds sane sectors only, and   *)
(* has no gap below its last record; so starting behind the last record    *)
(* skips nothing.                                                          *)

Logged(s) == \E n \in 1..Len(lines) : lines[n] = s

Running == pc \in {"loop", "chunk", "tail", "done"}

LogSorted == \A a, b \in 1..Len(lines) : a < b => lines[a] < lines[b]
LogSane   == \A a \in 1..Len(lines) : lines[a] \in sane
LogNoGap  == \A s \in sane : \A a \in 1..Len(lines) : s < lines[a] => Logged(s)

\* The running scan has looked at every sector before its position, and the
\* vector and the log agree.
Abreast ==
  Running =>
    /\ tail = << >>
    /\ Position \in Sectors /\ i \in Sectors
    /\ \A s \in sane : s < Position => Logged(s)
    /\ \A a \in 1..Len(lines) : lines[a] < Position
    /\ \A n \in 1..Len(found) : Logged(found[n])
    /\ \A a \in 1..Len(lines) : \E n \in 1..Len(found) : found[n] = lines[a]

\* Only records of the current chunk are still in the buffer.
Buffered ==
  /\ pc # "chunk" => flushed = Len(lines)
  /\ pc = "chunk" => \A n \in 1..Len(lines) : n > flushed => lines[n] >= i

\* Where the loops are; outside the small devices no chunk crosses the end,
\* and the end itself is reached only behind a logged last sector.
Places ==
  /\ logfile = "missing" => pc = "down" /\ lines = << >> /\ tail = << >>
  /\ pc = "loop" => cur = 0
  /\ pc = "chunk" => cur <= ChunkInodes
  /\ pc = "tail" => i < devsize /\ cur <= BytesLeft \div 512
  /\ pc = "done" => Position = devsize
  /\ devsize >= ChunkBytes =>
       /\ pc = "chunk" => i + ChunkBytes < devsize
       /\ pc = "loop" => i < devsize \/ (i = devsize /\ Logged(devsize - 512))
       /\ pc = "exit" => Logged(devsize - 512)

ScanInv == Undamaged => LogSorted /\ LogSane /\ LogNoGap /\ Abreast /\ Buffered /\ Places

LEMMA InvInit == Init => ScanInv
  BY DEF Init, ScanInv, LogSorted, LogSane, LogNoGap, Abreast, Running, Buffered, Places

\* The variables the invariant speaks of, typed in the form the steps use.
LEMMA Typed ==
  ASSUME TypeOK
  PROVE  /\ devsize \in Nat /\ devsize \in Sectors
         /\ lines \in Seq(Nat) /\ found \in Seq(Nat) /\ tail \in Seq(Nat)
         /\ Len(lines) \in Nat /\ Len(found) \in Nat
         /\ flushed \in Nat /\ flushed <= Len(lines)
         /\ i \in Nat /\ cur \in Nat /\ Position \in Nat
         /\ Position = i + cur * 512
         /\ \A s \in sane : s \in Nat /\ s \in Sectors /\ s < devsize
         /\ \A n \in 1..Len(lines) : lines[n] \in Nat
         /\ \A n \in 1..Len(found) : found[n] \in Nat
<1>1. /\ devsize \in DevSizes
      /\ sane \subseteq Sectors
      /\ \A s \in sane : s < devsize
      /\ lines \in Seq(Nat) /\ found \in Seq(Nat) /\ tail \in Seq(Nat)
      /\ flushed \in 0..Len(lines)
      /\ i \in Nat /\ cur \in Nat
  BY DEF TypeOK
<1>2. devsize \in Nat /\ devsize \in Sectors
  BY <1>1, ScanAssumption DEF ScanAssumption, Sectors
<1>3. \A s \in sane : s \in Nat /\ s \in Sectors /\ s < devsize
  BY <1>1 DEF Sectors
<1>4. Position \in Nat /\ Position = i + cur * 512
  BY <1>1 DEF Position, InodeSize
<1> QED BY <1>1, <1>2, <1>3, <1>4

\* Sectors lie 512 bytes apart.
LEMMA NextSector ==
  ASSUME NEW a \in Sectors, NEW b \in Sectors
  PROVE  /\ a < b + 512 => a < b \/ a = b
         /\ a < b => a + 512 <= b
         /\ a + 512 \in Sectors
  BY DEF Sectors, InodeSize

\* Nothing but the log matters to the first three parts.
LEMMA LogUnchanged ==
  ASSUME LogSorted, LogSane, LogNoGap, UNCHANGED << lines, sane >>
  PROVE  LogSorted' /\ LogSane' /\ LogNoGap'
  BY DEF LogSorted, LogSane, LogNoGap, Logged

LEMMA InvFresh == ASSUME TypeOK, ScanInv, StartFresh PROVE ScanInv'
<1> SUFFICES ASSUME Undamaged' PROVE ScanInv'
  BY DEF ScanInv
<1>1. /\ pc' = "loop" /\ i' = 0 /\ cur' = 0 /\ found' = << >> /\ logfile' = "there"
      /\ UNCHANGED << devsize, sane, lines, flushed, tail, spoilt >>
  BY DEF StartFresh, device
<1>2. Undamaged /\ logfile = "missing"
  BY <1>1 DEF Undamaged, StartFresh
<1>3. LogSorted /\ LogSane /\ LogNoGap /\ Places /\ Buffered
  BY <1>2 DEF ScanInv
<1>4. lines = << >> /\ tail = << >> /\ pc = "down" /\ flushed = Len(lines)
  BY <1>2, <1>3 DEF Places, Buffered
<1>5. LogSorted' /\ LogSane' /\ LogNoGap'
  BY <1>1, <1>3, LogUnchanged
<1>6. Position' = 0
  BY <1>1 DEF Position, InodeSize
<1>7. Abreast'
  <2>1. 0 \in Sectors
    BY DEF Sectors, InodeSize
  <2>2. \A s \in sane : ~ (s < 0)
    BY Typed
  <2>3. lines' = << >> /\ found' = << >> /\ tail' = << >> /\ sane' = sane
    BY <1>1, <1>4
  <2> QED BY <1>1, <1>6, <2>1, <2>2, <2>3 DEF Abreast, Logged
<1>8. Buffered'
  BY <1>1, <1>4 DEF Buffered
<1>9. Places'
  BY <1>1, Typed, ChunkType DEF Places
<1> QED BY <1>5, <1>7, <1>8, <1>9 DEF ScanInv

LEMMA InvResume ==
  ASSUME TypeOK, TypeOK', ScanInv, NEW bo \in Garbage, Resume(bo)
  PROVE  ScanInv'
<1> SUFFICES ASSUME Undamaged' PROVE ScanInv'
  BY DEF ScanInv
<1> DEFINE r == Records(lines, tail, bo)
<1>1. tail = << >> /\ lines # << >> /\ Undamaged
  BY DEF Resume, Undamaged
<1>2. LogSorted /\ LogSane /\ LogNoGap /\ Buffered /\ Places
  BY <1>1 DEF ScanInv
<1>3. /\ r = Append(lines, lines[Len(lines)])
      /\ Len(lines) \in 1..Len(lines)
  BY <1>1, Typed, RecordsOfLines, ScanAssumption DEF ScanAssumption
<1>4. /\ logfile = "there" /\ pc \in {"down", "exit"}
      /\ found' = r
      /\ i' = r[Len(r)] + 512
      /\ cur' = 0
      /\ pc' \in {"loop", "exit"}
      /\ pc' = "exit" => \E n \in 1..Len(r) : ReadThrows(r[n], 512)
      /\ UNCHANGED << devsize, sane, lines, flushed, tail, logfile >>
  BY DEF Resume, ResumeAt, InodeSize, ReopenLog, log, device
<1>5. PICK last \in sane : last = lines[Len(lines)]
  BY <1>2, <1>3 DEF LogSane
<1>6. last \in Nat /\ last \in Sectors /\ last < devsize
  BY Typed
<1>7. /\ Len(r) = Len(lines) + 1 /\ r[Len(r)] = last
      /\ \A m \in 1..Len(lines) : r[m] = lines[m]
  BY <1>3, <1>5, Typed
<1>8. /\ \A n \in 1..Len(r) : \E m \in 1..Len(lines) : r[n] = lines[m]
      /\ \A m \in 1..Len(lines) : \E n \in 1..Len(r) : r[n] = lines[m]
  <2>1. ASSUME NEW n \in 1..Len(r) PROVE \E m \in 1..Len(lines) : r[n] = lines[m]
    <3>1. n \in 1..Len(lines) \/ n = Len(r)
      BY <1>7, Typed
    <3> QED BY <1>3, <1>5, <1>7, <3>1
  <2>2. ASSUME NEW m \in 1..Len(lines) PROVE \E n \in 1..Len(r) : r[n] = lines[m]
    <3>1. m \in 1..Len(r)
      BY <1>7, Typed
    <3> QED BY <1>7, <3>1
  <2> QED BY <2>1, <2>2
<1>9. \A n \in 1..Len(r) : ~ ReadThrows(r[n], 512)
  <2> SUFFICES ASSUME NEW n \in 1..Len(r) PROVE ~ ReadThrows(r[n], 512)
    OBVIOUS
  <2>1. r[n] \in sane
    BY <1>2, <1>8 DEF LogSane
  <2> QED BY <2>1, Typed DEF ReadThrows
<1>10. pc' = "loop" /\ i' = last + 512
  BY <1>4, <1>7, <1>9
<1>11. found' = r
  BY <1>4
<1> HIDE DEF r
<1>12. LogSorted' /\ LogSane' /\ LogNoGap'
  BY <1>2, <1>4, LogUnchanged
<1>13. Position' = last + 512 /\ last + 512 \in Sectors
  BY <1>4, <1>6, <1>10, NextSector DEF Position, InodeSize
<1>14. \A a \in 1..Len(lines) : lines[a] < last + 512
  <2> SUFFICES ASSUME NEW a \in 1..Len(lines) PROVE lines[a] < last + 512
    OBVIOUS
  <2>1. a = Len(lines) \/ lines[a] < lines[Len(lines)]
    BY <1>2, <1>3, Typed DEF LogSorted
  <2>2. lines[a] \in Nat
    BY Typed
  <2> QED BY <1>5, <1>6, <2>1, <2>2
<1>15. \A s \in sane : s < last + 512 => Logged(s)
  <2> SUFFICES ASSUME NEW s \in sane, s < last + 512 PROVE Logged(s)
    OBVIOUS
  <2>1. s < last \/ s = last
    BY <1>6, NextSector, Typed
  <2> QED BY <1>2, <1>3, <1>5, <2>1 DEF LogNoGap, Logged
<1>16. Abreast'
  <2>1. UNCHANGED << lines, sane, tail >>
    BY <1>4
  <2>2. \A n \in 1..Len(found') : Logged(found'[n])
    BY <1>8, <1>11 DEF Logged
  <2>3. \A a \in 1..Len(lines) : \E n \in 1..Len(found') : found'[n] = lines[a]
    BY <1>8, <1>11
  <2>4. i' \in Sectors
    BY <1>10, <1>13
  <2> QED BY <1>1, <1>13, <1>14, <1>15, <2>1, <2>2, <2>3, <2>4 DEF Abreast, Logged
<1>17. Buffered'
  BY <1>2, <1>4, <1>10 DEF Buffered
<1>18. last + 512 < devsize \/ last + 512 = devsize
  <2>1. last + 512 <= devsize
    BY <1>6, NextSector, Typed
  <2> QED BY <1>6, <2>1, Typed
<1>19. last + 512 = devsize => Logged(devsize - 512)
  <2> SUFFICES ASSUME last + 512 = devsize PROVE Logged(devsize - 512)
    OBVIOUS
  <2>1. devsize - 512 = last
    BY <1>6
  <2> QED BY <1>3, <1>5, <2>1 DEF Logged
<1>20. Places'
  BY <1>4, <1>10, <1>18, <1>19 DEF Places, Logged
<1> QED BY <1>12, <1>16, <1>17, <1>20 DEF ScanInv

\* Looking at one sector, in the chunk or behind the last chunk, keeps the
\* log in order and abreast of the scan.
LEMMA InvSector ==
  ASSUME TypeOK, TypeOK', Undamaged, LogSorted, LogSane, LogNoGap, Abreast,
         pc \in {"chunk", "tail"}, pc' = pc, i' = i, cur' = cur + 1,
         UNCHANGED << devsize, sane >>, tail' = << >>,
         \/ /\ Position \in sane
            /\ found' = Append(found, Position)
            /\ LogLine(Position)
         \/ Position \notin sane /\ UNCHANGED << found, lines >>
  PROVE  /\ LogSorted' /\ LogSane' /\ LogNoGap' /\ Abreast'
         /\ Position' = Position + 512
         /\ \/ lines' = lines
            \/ lines' = Append(lines, Position)
<1>1. /\ tail = << >>
      /\ Position \in Sectors /\ i \in Sectors
      /\ \A s \in sane : s < Position => Logged(s)
      /\ \A a \in 1..Len(lines) : lines[a] < Position
      /\ \A n \in 1..Len(found) : Logged(found[n])
      /\ \A a \in 1..Len(lines) : \E n \in 1..Len(found) : found[n] = lines[a]
  BY DEF Abreast, Running
<1>2. Position' = Position + 512 /\ Position + 512 \in Sectors /\ Position < Position + 512
  BY <1>1, NextSector, Typed DEF Position, InodeSize
<1>3. \A s \in sane : s < Position + 512 => s < Position \/ s = Position
  <2> SUFFICES ASSUME NEW s \in sane, s < Position + 512 PROVE s < Position \/ s = Position
    OBVIOUS
  <2>1. s \in Sectors
    BY Typed
  <2> QED BY <1>1, <2>1, NextSector
<1>4. \A a \in 1..Len(lines) : lines[a] < Position + 512
  <2> SUFFICES ASSUME NEW a \in 1..Len(lines) PROVE lines[a] < Position + 512
    OBVIOUS
  <2>1. lines[a] \in Nat /\ Position \in Nat /\ lines[a] < Position
    BY <1>1, Typed
  <2> QED BY <2>1
<1>5. CASE Position \notin sane /\ UNCHANGED << found, lines >>
  <2>1. \A s \in sane : s < Position + 512 => Logged(s)
    BY <1>1, <1>3, <1>5
  <2>2. LogSorted' /\ LogSane' /\ LogNoGap'
    BY <1>5, LogUnchanged
  <2>3. Abreast'
    BY <1>1, <1>2, <1>4, <1>5, <2>1 DEF Abreast, Logged
  <2> QED BY <1>2, <1>5, <2>2, <2>3
<1> DEFINE Logged1(s) == \E n \in 1..Len(lines') : lines'[n] = s
<1>6. CASE Position \in sane /\ found' = Append(found, Position) /\ LogLine(Position)
  <2>1. lines' = Append(lines, Position)
    BY <1>1, <1>6 DEF LogLine, Glue
  <2>2. /\ Len(lines') = Len(lines) + 1
        /\ lines'[Len(lines) + 1] = Position
        /\ \A a \in 1..Len(lines) : lines'[a] = lines[a]
        /\ Len(found') = Len(found) + 1
        /\ found'[Len(found) + 1] = Position
        /\ \A n \in 1..Len(found) : found'[n] = found[n]
    BY <1>6, <2>1, Typed
  <2>3. \A a \in 1..Len(lines') : a \in 1..Len(lines) \/ a = Len(lines) + 1
    <3>1. Len(lines) \in Nat
      BY Typed
    <3> QED BY <2>2, <3>1, OneMore
  <2>4. \A n \in 1..Len(found') : n \in 1..Len(found) \/ n = Len(found) + 1
    <3>1. Len(found) \in Nat
      BY Typed
    <3> QED BY <2>2, <3>1, OneMore
  <2>5. \A s : Logged(s) \/ s = Position => Logged1(s)
    <3> SUFFICES ASSUME NEW s, Logged(s) \/ s = Position
                 PROVE  \E n \in 1..Len(lines') : lines'[n] = s
      OBVIOUS
    <3>1. CASE Logged(s)
      <4>1. PICK n \in 1..Len(lines) : lines[n] = s
        BY <3>1 DEF Logged
      <4>2. n \in 1..Len(lines')
        BY <2>2, Typed
      <4> QED BY <2>2, <4>1, <4>2
    <3>2. CASE s = Position
      <4>1. Len(lines) + 1 \in 1..Len(lines')
        BY <2>2, Typed
      <4> QED BY <2>2, <3>2, <4>1
    <3> QED BY <3>1, <3>2
  <2>6. LogSorted'
    <3> SUFFICES ASSUME NEW a \in 1..Len(lines'), NEW b \in 1..Len(lines'), a < b
                 PROVE  lines'[a] < lines'[b]
      BY DEF LogSorted
    <3>1. a \in 1..Len(lines)
      BY <2>2, Typed
    <3> QED BY <1>1, <2>2, <2>3, <3>1 DEF LogSorted
  <2>7. LogSane'
    BY <1>6, <2>2, <2>3 DEF LogSane
  <2>8. LogNoGap'
    <3> SUFFICES ASSUME NEW s \in sane, NEW a \in 1..Len(lines'), s < lines'[a]
                 PROVE  Logged1(s)
      BY DEF LogNoGap, Logged
    <3>1. CASE a \in 1..Len(lines)
      BY <2>2, <2>5, <3>1 DEF LogNoGap
    <3>2. CASE a = Len(lines) + 1
      BY <1>1, <2>2, <2>5, <3>2
    <3> QED BY <2>3, <3>1, <3>2
  <2>9. Abreast'
    <3>1. \A s \in sane : s < Position + 512 => Logged1(s)
      <4> SUFFICES ASSUME NEW s \in sane, s < Position + 512 PROVE Logged1(s)
        OBVIOUS
      <4>1. s < Position \/ s = Position
        BY <1>3
      <4> QED BY <1>1, <2>5, <4>1
    <3>2. \A a \in 1..Len(lines') : lines'[a] < Position + 512
      <4> SUFFICES ASSUME NEW a \in 1..Len(lines') PROVE lines'[a] < Position + 512
        OBVIOUS
      <4>1. CASE a \in 1..Len(lines)
        BY <4>1, <1>4, <2>2
      <4>2. CASE a = Len(lines) + 1
        BY <4>2, <1>2, <2>2
      <4> QED BY <2>3, <4>1, <4>2
    <3>3. \A n \in 1..Len(found') : Logged1(found'[n])
      <4> SUFFICES ASSUME NEW n \in 1..Len(found') PROVE Logged1(found'[n])
        OBVIOUS
      <4>1. CASE n \in 1..Len(found)
        <5>1. found'[n] = found[n] /\ Logged(found[n])
          BY <1>1, <2>2, <4>1
        <5> QED BY <2>5, <5>1
      <4>2. CASE n = Len(found) + 1
        BY <2>2, <2>5, <4>2
      <4> QED BY <2>4, <4>1, <4>2
    <3>4. \A a \in 1..Len(lines') : \E n \in 1..Len(found') : found'[n] = lines'[a]
      <4> SUFFICES ASSUME NEW a \in 1..Len(lines') PROVE \E n \in 1..Len(found') : found'[n] = lines'[a]
        OBVIOUS
      <4>1. CASE a \in 1..Len(lines)
        <5>1. PICK n \in 1..Len(found) : found[n] = lines[a]
          BY <1>1, <4>1
        <5>2. n \in 1..Len(found') /\ found'[n] = lines'[a]
          BY <2>2, <4>1, <5>1, Typed
        <5> QED BY <5>2
      <4>2. CASE a = Len(lines) + 1
        <5>1. Len(found) + 1 \in 1..Len(found')
          BY <2>2, Typed
        <5> QED BY <2>2, <4>2, <5>1
      <4> QED BY <2>3, <4>1, <4>2
    <3>5. /\ tail' = << >> /\ i' \in Sectors /\ Position' \in Sectors /\ sane' = sane
          /\ Position' = Position + 512
      BY <1>1, <1>2
    <3> QED BY <3>1, <3>2, <3>3, <3>4, <3>5 DEF Abreast, Logged
  <2> QED BY <1>2, <2>1, <2>6, <2>7, <2>8, <2>9
<1> QED BY <1>5, <1>6

LEMMA InvReadChunk == ASSUME TypeOK, ScanInv, ReadChunk PROVE ScanInv'
<1> SUFFICES ASSUME Undamaged' PROVE ScanInv'
  BY DEF ScanInv
<1>1. /\ pc = "loop" /\ i < Minus(devsize, ChunkBytes)
      /\ pc' = IF ReadThrows(i, ChunkBytes) THEN "exit" ELSE "chunk"
      /\ cur' = 0
      /\ UNCHANGED << devsize, sane, logfile, lines, flushed, tail, i, found, spoilt >>
  BY DEF ReadChunk, MoreChunks, device, log
<1>2. LogSorted /\ LogSane /\ LogNoGap /\ Abreast /\ Buffered /\ Places
  BY <1>1 DEF ScanInv, Undamaged
<1>3. cur = 0 /\ Position' = Position /\ i = Position
  BY <1>1, <1>2, Typed DEF Places, Position, InodeSize
<1>4. devsize >= ChunkBytes => i + ChunkBytes < devsize
  BY <1>1, Typed, ChunkType DEF Minus
<1>5. LogSorted' /\ LogSane' /\ LogNoGap'
  BY <1>1, <1>2, LogUnchanged
<1>6. Abreast'
  BY <1>1, <1>2, <1>3 DEF Abreast, Running, Logged
<1>7. Buffered'
  BY <1>1, <1>2, Typed DEF Buffered
<1>8. devsize >= ChunkBytes => pc' = "chunk"
  BY <1>1, <1>4, Typed, ChunkType DEF ReadThrows
<1>9. Places'
  BY <1>1, <1>2, <1>4, <1>8, ChunkType DEF Places
<1> QED BY <1>5, <1>6, <1>7, <1>9 DEF ScanInv

LEMMA InvScanChunkSector ==
  ASSUME TypeOK, TypeOK', ScanInv, ScanChunkSector PROVE ScanInv'
<1> SUFFICES ASSUME Undamaged' PROVE ScanInv'
  BY DEF ScanInv
<1>1. /\ pc = "chunk" /\ cur < ChunkInodes
      /\ cur' = cur + 1
      /\ UNCHANGED << devsize, sane, logfile, flushed, tail, pc, i, spoilt >>
      /\ \/ /\ Position \in sane
            /\ found' = Append(found, Position)
            /\ LogLine(Position)
         \/ Position \notin sane /\ UNCHANGED << found, lines >>
  BY DEF ScanChunkSector, device
<1>2. LogSorted /\ LogSane /\ LogNoGap /\ Abreast /\ Buffered /\ Places /\ Undamaged
  BY <1>1 DEF ScanInv, Undamaged
<1>3. tail' = << >>
  BY <1>1, <1>2 DEF Abreast, Running
<1>4. /\ LogSorted' /\ LogSane' /\ LogNoGap' /\ Abreast'
      /\ lines' = lines \/ lines' = Append(lines, Position)
  BY <1>1, <1>2, <1>3, InvSector
<1>5. Buffered'
  <2>1. \A n \in 1..Len(lines) : n > flushed => lines[n] >= i
    BY <1>1, <1>2 DEF Buffered
  <2>2. Position >= i
    BY Typed
  <2>3. \A n \in 1..Len(lines') : n > flushed => lines'[n] >= i
    <3>1. CASE lines' = lines
      BY <2>1, <3>1
    <3>2. CASE lines' = Append(lines, Position)
      <4> SUFFICES ASSUME NEW n \in 1..Len(lines'), n > flushed PROVE lines'[n] >= i
        OBVIOUS
      <4>1. /\ Len(lines') = Len(lines) + 1
            /\ lines'[Len(lines) + 1] = Position
            /\ \A m \in 1..Len(lines) : lines'[m] = lines[m]
        BY <3>2, Typed
      <4>2. n \in 1..Len(lines) \/ n = Len(lines) + 1
        BY <4>1, Typed
      <4> QED BY <2>1, <2>2, <4>1, <4>2
    <3> QED BY <1>4, <3>1, <3>2
  <2> QED BY <1>1, <2>3 DEF Buffered
<1>6. Places'
  BY <1>1, <1>2, Typed, ChunkType DEF Places
<1> QED BY <1>4, <1>5, <1>6 DEF ScanInv

LEMMA InvEndChunk == ASSUME TypeOK, ScanInv, EndChunk PROVE ScanInv'
<1> SUFFICES ASSUME Undamaged' PROVE ScanInv'
  BY DEF ScanInv
<1>1. /\ pc = "chunk" /\ cur = ChunkInodes
      /\ pc' = "loop" /\ cur' = 0 /\ i' = i + ChunkBytes
      /\ flushed' = Len(lines)
      /\ tail' = IF flushed < Len(lines) THEN << >> ELSE tail
      /\ UNCHANGED << devsize, sane, logfile, lines, found, spoilt >>
  BY DEF EndChunk, FlushLog, NextChunk, device
<1>2. LogSorted /\ LogSane /\ LogNoGap /\ Abreast /\ Buffered /\ Places
  BY <1>1 DEF ScanInv, Undamaged
<1>3. Position' = Position /\ i' = Position
  BY <1>1, Typed, ChunkType DEF Position, InodeSize
<1>4. LogSorted' /\ LogSane' /\ LogNoGap'
  BY <1>1, <1>2, LogUnchanged
<1>5. tail' = << >>
  BY <1>1, <1>2 DEF Abreast, Running
<1>6. Abreast'
  BY <1>1, <1>2, <1>3, <1>5 DEF Abreast, Running, Logged
<1>7. Buffered'
  BY <1>1 DEF Buffered
<1>8. Places'
  BY <1>1, <1>2 DEF Places
<1> QED BY <1>4, <1>6, <1>7, <1>8 DEF ScanInv

LEMMA InvReadTail == ASSUME TypeOK, ScanInv, ReadTail PROVE ScanInv'
<1> SUFFICES ASSUME Undamaged' PROVE ScanInv'
  BY DEF ScanInv
<1>1. /\ pc = "loop"
      /\ pc' = IF ReadThrows(i, BytesLeft) THEN "exit" ELSE "tail"
      /\ cur' = 0
      /\ UNCHANGED << devsize, sane, logfile, lines, flushed, tail, i, found, spoilt >>
  BY DEF ReadTail, device, log
<1>2. LogSorted /\ LogSane /\ LogNoGap /\ Abreast /\ Buffered /\ Places
  BY <1>1 DEF ScanInv, Undamaged
<1>3. cur = 0 /\ Position' = Position
  BY <1>1, <1>2, Typed DEF Places, Position, InodeSize
<1>4. pc' = "tail" => i < devsize /\ BytesLeft = devsize - i
  BY <1>1, Typed DEF ReadThrows, BytesLeft, Minus
<1>5. i < devsize => pc' = "tail"
  BY <1>1, Typed DEF ReadThrows, BytesLeft, Minus
<1>6. LogSorted' /\ LogSane' /\ LogNoGap'
  BY <1>1, <1>2, LogUnchanged
<1>7. Abreast'
  BY <1>1, <1>2, <1>3 DEF Abreast, Running, Logged
<1>8. Buffered'
  BY <1>1, <1>2 DEF Buffered
<1>9. BytesLeft' = BytesLeft
  BY <1>1 DEF BytesLeft, Minus
<1>10. pc' = "tail" => 0 <= BytesLeft \div 512
  BY <1>4, Typed
<1>11. Places'
  BY <1>1, <1>2, <1>4, <1>5, <1>9, <1>10, Typed DEF Places, Logged
<1> QED BY <1>6, <1>7, <1>8, <1>11 DEF ScanInv

LEMMA InvScanTailSector ==
  ASSUME TypeOK, TypeOK', ScanInv, ScanTailSector PROVE ScanInv'
<1> SUFFICES ASSUME Undamaged' PROVE ScanInv'
  BY DEF ScanInv
<1>1. /\ pc = "tail" /\ cur < BytesLeft \div 512
      /\ cur' = cur + 1
      /\ UNCHANGED << devsize, sane, logfile, pc, i, spoilt >>
      /\ \/ /\ Position \in sane
            /\ found' = Append(found, Position)
            /\ LogLine(Position)
            /\ flushed' = Len(lines) + 1 /\ tail' = << >>
         \/ Position \notin sane /\ UNCHANGED << found, lines, flushed, tail >>
  BY DEF ScanTailSector, device, InodeSize
<1>2. LogSorted /\ LogSane /\ LogNoGap /\ Abreast /\ Buffered /\ Places /\ Undamaged
  BY <1>1 DEF ScanInv, Undamaged
<1>3. tail' = << >>
  BY <1>1, <1>2 DEF Abreast, Running
<1>4. LogSorted' /\ LogSane' /\ LogNoGap' /\ Abreast'
  BY <1>1, <1>2, <1>3, InvSector
<1>5. Buffered'
  BY <1>1, <1>2, Typed DEF Buffered, LogLine
<1>6. BytesLeft' = BytesLeft /\ BytesLeft = devsize - i /\ i < devsize
  BY <1>1, <1>2, Typed DEF BytesLeft, Minus, Places
<1>7. cur' <= BytesLeft' \div 512
  BY <1>1, <1>6, Typed
<1>8. Places'
  BY <1>1, <1>2, <1>6, <1>7 DEF Places
<1> QED BY <1>4, <1>5, <1>8 DEF ScanInv

LEMMA InvEndScan == ASSUME TypeOK, ScanInv, EndScan PROVE ScanInv'
<1> SUFFICES ASSUME Undamaged' PROVE ScanInv'
  BY DEF ScanInv
<1>1. /\ pc = "tail" /\ cur = BytesLeft \div 512 /\ pc' = "done"
      /\ UNCHANGED << devsize, sane, logfile, lines, flushed, tail, i, cur, found, spoilt >>
  BY DEF EndScan, device, log, InodeSize
<1>2. LogSorted /\ LogSane /\ LogNoGap /\ Abreast /\ Buffered /\ Places
  BY <1>1 DEF ScanInv, Undamaged
<1>3. LogSorted' /\ LogSane' /\ LogNoGap'
  BY <1>1, <1>2, LogUnchanged
<1>4. Position' = Position
  BY <1>1 DEF Position
<1>5. Abreast'
  BY <1>1, <1>2, <1>4 DEF Abreast, Running, Logged
<1>6. BytesLeft = devsize - i /\ i < devsize /\ i \in Sectors
  BY <1>1, <1>2, Typed DEF BytesLeft, Minus, Places, Abreast, Running
<1>7. Position = devsize
  <2>1. /\ i \in Nat /\ devsize \in Nat /\ i % 512 = 0 /\ devsize % 512 = 0
        /\ cur = (devsize - i) \div 512 /\ Position = i + cur * 512 /\ i < devsize
    BY <1>1, <1>6, Typed DEF Sectors, InodeSize
  <2>2. \A x, y \in Nat : x % 512 = 0 /\ y % 512 = 0 /\ x < y => x + ((y - x) \div 512) * 512 = y
    OBVIOUS
  <2> QED BY <2>1, <2>2
<1>8. Buffered'
  BY <1>1, <1>2 DEF Buffered
<1>9. Places'
  BY <1>1, <1>2, <1>4, <1>7 DEF Places
<1> QED BY <1>3, <1>5, <1>8, <1>9 DEF ScanInv

\* A kill keeps a beginning of the log, which is as free of gaps as the log.
LEMMA InvCrash == ASSUME TypeOK, ScanInv, Crash PROVE ScanInv'
<1> SUFFICES ASSUME Undamaged' PROVE ScanInv'
  BY DEF ScanInv
<1>1. PICK k \in flushed..Len(lines) : lines' = SubSeq(lines, 1, k) /\ flushed' = k
  BY DEF Crash
<1>2. /\ pc \notin {"down", "exit", "done"} /\ pc' = "down"
      /\ UNCHANGED << devsize, sane, logfile, spoilt >>
  BY DEF Crash, device
<1>3. LogSorted /\ LogSane /\ LogNoGap /\ Places
  BY <1>2 DEF ScanInv, Undamaged
<1>4. /\ k \in Nat /\ k <= Len(lines)
      /\ Len(lines') = k
      /\ \A n \in 1..k : n \in 1..Len(lines) /\ lines'[n] = lines[n]
  BY <1>1, Typed
<1>5. LogSorted'
  BY <1>3, <1>4 DEF LogSorted
<1>6. LogSane'
  BY <1>2, <1>3, <1>4 DEF LogSane
<1>7. LogNoGap'
  <2> SUFFICES ASSUME NEW s \in sane, NEW a \in 1..k, s < lines[a]
               PROVE  \E n \in 1..k : lines[n] = s
    BY <1>2, <1>4 DEF LogNoGap, Logged
  <2>1. PICK n \in 1..Len(lines) : lines[n] = s
    BY <1>3, <1>4 DEF LogNoGap, Logged
  <2>2. lines[n] \in Nat /\ lines[a] \in Nat /\ a \in 1..Len(lines)
    BY <1>4, <2>1, Typed
  <2>3. ~ (a < n) /\ a # n
    BY <1>3, <2>1, <2>2 DEF LogSorted
  <2>4. n \in 1..k
    BY <1>4, <2>1, <2>2, <2>3
  <2> QED BY <2>1, <2>4
<1>8. Abreast' /\ Buffered'
  BY <1>1, <1>2, <1>4 DEF Abreast, Running, Buffered
<1>9. Places'
  BY <1>2, <1>3 DEF Places
<1> QED BY <1>5, <1>6, <1>7, <1>8, <1>9 DEF ScanInv

LEMMA InvStep == TypeOK /\ ScanInv /\ [Next]_vars => ScanInv'
<1> SUFFICES ASSUME TypeOK, ScanInv, [Next]_vars PROVE ScanInv'
  OBVIOUS
<1>1. TypeOK'
  BY TypeStep
<1>2. CASE StartFresh
  BY <1>2, InvFresh
<1>3. ASSUME NEW bo \in Garbage, Resume(bo) PROVE ScanInv'
  BY <1>1, <1>3, InvResume
<1>4. CASE ReadChunk
  BY <1>4, InvReadChunk
<1>5. CASE ScanChunkSector
  BY <1>1, <1>5, InvScanChunkSector
<1>6. CASE EndChunk
  BY <1>6, InvEndChunk
<1>7. CASE ReadTail
  BY <1>7, InvReadTail
<1>8. CASE ScanTailSector
  BY <1>1, <1>8, InvScanTailSector
<1>9. CASE EndScan
  BY <1>9, InvEndScan
<1>10. CASE Crash
  BY <1>10, InvCrash
<1>11. CASE UNCHANGED vars
  BY <1>11 DEF vars, device, log, ScanInv, Undamaged, LogSorted, LogSane, LogNoGap,
               Abreast, Running, Buffered, Places, Logged, Position, BytesLeft, Minus
<1> QED
  BY <1>2, <1>3, <1>4, <1>5, <1>6, <1>7, <1>8, <1>9, <1>10, <1>11
  DEF Next, Start, Step

LEMMA ScanInvariant == Spec => [](TypeOK /\ ScanInv)
<1>1. Init => TypeOK /\ ScanInv
  BY TypeInit, InvInit
<1>2. TypeOK /\ ScanInv /\ [Next]_vars => TypeOK' /\ ScanInv'
  BY TypeStep, InvStep
<1> QED BY <1>1, <1>2, PTL DEF Spec

----------------------------------------------------------------------------
(* The safety properties                                                   *)

\* A finished scan has added every sector that looks like an inode, whatever
\* kills it went through, unless one of them damaged the log.
THEOREM ScanIsComplete == Spec => []ScanComplete
<1>1. TypeOK /\ ScanInv => ScanComplete
  <2> SUFFICES ASSUME TypeOK, ScanInv, pc = "done", Undamaged, NEW s \in sane
               PROVE  s \in Range(found)
    BY DEF ScanComplete
  <2>1. Abreast /\ Position = devsize
    BY DEF ScanInv, Places
  <2>2. Logged(s)
    BY <2>1, Typed DEF Abreast, Running
  <2>3. \E n \in 1..Len(found) : found[n] = s
    BY <2>1, <2>2 DEF Abreast, Running, Logged
  <2>4. Range(found) = {found[n] : n \in 1..Len(found)}
    BY Typed, RangeEquality
  <2> QED BY <2>3, <2>4
<1> QED BY <1>1, ScanInvariant, PTL

\* The vector holds sane sectors only, although the resuming run does not
\* test what it loads.
THEOREM ScanFindsNoPhantom == Spec => []NoPhantom
<1>1. TypeOK /\ ScanInv => NoPhantom
  <2> SUFFICES ASSUME TypeOK, ScanInv, pc \notin {"down", "exit"}, Undamaged,
                      NEW n \in 1..Len(found)
               PROVE  found[n] \in sane
    BY Typed DEF NoPhantom, Range
  <2>1. Running
    BY DEF Running, TypeOK
  <2>2. Logged(found[n]) /\ LogSane
    BY <2>1 DEF ScanInv, Abreast
  <2> QED BY <2>2 DEF Logged, LogSane
<1> QED BY <1>1, ScanInvariant, PTL

\* At most the current chunk's sectors are not yet in the file.
THEOREM ScanKeepsUp == Spec => []ScannedIsLogged
<1>1. TypeOK /\ ScanInv => ScannedIsLogged
  <2> SUFFICES ASSUME TypeOK, ScanInv, pc \in {"loop", "chunk", "tail"}, Undamaged,
                      NEW s \in sane, s < i
               PROVE  \E n \in 1..flushed : lines[n] = s
    BY DEF ScannedIsLogged, InFile
  <2>1. Abreast /\ Buffered
    BY DEF ScanInv
  <2>2. s < Position
    BY Typed
  <2>3. PICK n \in 1..Len(lines) : lines[n] = s
    BY <2>1, <2>2 DEF Abreast, Running, Logged
  <2>4. n <= flushed
    <3>1. CASE pc = "chunk"
      <4>1. n > flushed => lines[n] >= i
        BY <2>1, <2>3, <3>1 DEF Buffered
      <4>2. s \in Nat /\ i \in Nat /\ n \in Nat /\ flushed \in Nat
        BY <2>3, Typed
      <4> QED BY <2>3, <4>1, <4>2
    <3>2. CASE pc # "chunk"
      BY <2>1, <2>3, <3>2, Typed DEF Buffered
    <3> QED BY <3>1, <3>2
  <2>5. n \in 1..flushed
    BY <2>3, <2>4, Typed
  <2> QED BY <2>3, <2>5
<1> QED BY <1>1, ScanInvariant, PTL

\* Unless the log is damaged, exit(1) is taken on devices smaller than a
\* chunk and when the log already holds the last sector, and nowhere else.
THEOREM ScanExitsOnlyAtEdges == Spec => []ExitsOnlyAtEdges
<1>1. TypeOK /\ ScanInv => ExitsOnlyAtEdges
  <2> SUFFICES ASSUME TypeOK, ScanInv, pc = "exit", Undamaged, ~ (devsize < ChunkBytes)
               PROVE  devsize - InodeSize \in InFile
    BY DEF ExitsOnlyAtEdges
  <2>1. Places /\ Buffered
    BY DEF ScanInv
  <2>2. Logged(devsize - 512) /\ flushed = Len(lines)
    BY <2>1, Typed, ChunkType DEF Places, Buffered
  <2> QED BY <2>2 DEF Logged, InFile, InodeSize
<1> QED BY <1>1, ScanInvariant, PTL

----------------------------------------------------------------------------
(* The vector while the scan runs                                          *)

LEMMA RangeAppend ==
  ASSUME NEW s \in Seq(Nat), NEW e \in Nat
  PROVE  Range(Append(s, e)) = Range(s) \cup {e}
<1> DEFINE t == Append(s, e)
<1>1. /\ t \in Seq(Nat) /\ Len(t) = Len(s) + 1 /\ Len(s) \in Nat
      /\ t[Len(s) + 1] = e
      /\ \A n \in 1..Len(s) : t[n] = s[n]
  OBVIOUS
<1>2. /\ Range(s) = {s[n] : n \in 1..Len(s)}
      /\ Range(t) = {t[n] : n \in 1..Len(t)}
  BY <1>1, RangeEquality
<1> HIDE DEF t
<1>3. /\ \A n \in 1..Len(s) : n \in 1..Len(t)
      /\ Len(s) + 1 \in 1..Len(t)
      /\ \A n \in 1..Len(t) : n \in 1..Len(s) \/ n = Len(s) + 1
  BY <1>1, OneMore
<1>4. Range(t) = Range(s) \cup {e}
  <2>1. Range(t) \subseteq Range(s) \cup {e}
    BY <1>1, <1>2, <1>3
  <2>2. Range(s) \subseteq Range(t)
    BY <1>1, <1>2, <1>3
  <2>3. e \in Range(t)
    BY <1>1, <1>2, <1>3
  <2> QED BY <2>1, <2>2, <2>3
<1> QED BY <1>4 DEF t

\* The vector and the log hold the same sectors.
LEMMA FoundIsLogged ==
  ASSUME TypeOK, ScanInv, Undamaged, Running
  PROVE  /\ Range(found) = Range(lines)
         /\ \A s \in Range(found) : s \in sane /\ s < Position
         /\ \A s \in sane : s < Position => s \in Range(found)
<1>1. Abreast /\ LogSane
  BY DEF ScanInv
<1>2. /\ Range(found) = {found[n] : n \in 1..Len(found)}
      /\ Range(lines) = {lines[n] : n \in 1..Len(lines)}
  BY Typed, RangeEquality
<1>3. Range(found) = Range(lines)
  <2>1. \A n \in 1..Len(found) : found[n] \in Range(lines)
    BY <1>1, <1>2 DEF Abreast, Logged
  <2>2. \A n \in 1..Len(lines) : lines[n] \in Range(found)
    BY <1>1, <1>2 DEF Abreast
  <2> QED BY <1>2, <2>1, <2>2
<1>4. \A s \in Range(lines) : s \in sane /\ s < Position
  BY <1>1, <1>2 DEF Abreast, LogSane
<1>5. \A s \in sane : s < Position => s \in Range(lines)
  BY <1>1, <1>2 DEF Abreast, Logged
<1> QED BY <1>3, <1>4, <1>5

\* Each inode of the vector stands behind the one before it, but for one.
InOrder ==
  Undamaged =>
    /\ \A a, b \in 1..Len(found) : a < b => found[a] <= found[b]
    /\ \A a, b \in 1..(Len(found) - 1) :
         found[a] = found[a + 1] /\ found[b] = found[b + 1] => a = b

LEMMA OrderResume ==
  ASSUME TypeOK, ScanInv, NEW bo \in Garbage, Resume(bo) PROVE InOrder'
<1> SUFFICES ASSUME Undamaged' PROVE InOrder'
  BY DEF InOrder
<1>1. tail = << >> /\ lines # << >> /\ Undamaged /\ found' = Records(lines, tail, bo)
  BY DEF Resume, Undamaged
<1>2. found' = Append(lines, lines[Len(lines)])
  BY <1>1, Typed, RecordsOfLines, ScanAssumption DEF ScanAssumption
<1>3. LogSorted
  BY <1>1 DEF ScanInv
<1>4. /\ Len(lines) \in Nat \ {0}
      /\ Len(found') = Len(lines) + 1
      /\ \A n \in 1..Len(lines) : found'[n] = lines[n] /\ lines[n] \in Nat
      /\ found'[Len(lines) + 1] = lines[Len(lines)]
  <2>1. lines \in Seq(Nat) /\ lines # << >>
    BY <1>1, Typed
  <2>2. lines[Len(lines)] \in Nat
    BY <2>1
  <2> QED BY <1>2, <2>1, <2>2
<1>5. \A a, b \in 1..Len(found') : a < b => found'[a] <= found'[b]
  <2> SUFFICES ASSUME NEW a \in 1..Len(found'), NEW b \in 1..Len(found'), a < b
               PROVE  found'[a] <= found'[b]
    OBVIOUS
  <2>1. a \in 1..Len(lines)
    BY <1>4
  <2>2. CASE b \in 1..Len(lines)
    BY <1>3, <1>4, <2>1, <2>2 DEF LogSorted
  <2>3. CASE b = Len(lines) + 1
    <3>1. a = Len(lines) \/ lines[a] < lines[Len(lines)]
      BY <1>3, <1>4, <2>1 DEF LogSorted
    <3>2. lines[a] \in Nat /\ lines[Len(lines)] \in Nat
      BY <1>4, <2>1
    <3> QED BY <1>4, <2>1, <2>3, <3>1, <3>2
  <2> QED BY <1>4, <2>2, <2>3
<1>6. \A a \in 1..(Len(found') - 1) : found'[a] = found'[a + 1] => a = Len(lines)
  <2> SUFFICES ASSUME NEW a \in 1..Len(lines), a # Len(lines), found'[a] = found'[a + 1]
               PROVE  FALSE
    BY <1>4
  <2>1. a + 1 \in 1..Len(lines) /\ a < a + 1
    BY <1>4
  <2>2. lines[a] < lines[a + 1]
    BY <1>3, <2>1 DEF LogSorted
  <2> QED BY <1>4, <2>1, <2>2
<1> QED BY <1>5, <1>6 DEF InOrder

LEMMA OrderSector ==
  ASSUME TypeOK, ScanInv, InOrder, pc \in {"chunk", "tail"}, spoilt' = spoilt,
         found' = Append(found, Position)
  PROVE  InOrder'
<1> SUFFICES ASSUME Undamaged' PROVE InOrder'
  BY DEF InOrder
<1>1. Undamaged /\ Running
  BY DEF Undamaged, Running
<1>2. /\ Len(found) \in Nat
      /\ Len(found') = Len(found) + 1
      /\ \A n \in 1..Len(found) : found'[n] = found[n] /\ found[n] \in Nat
      /\ found'[Len(found) + 1] = Position
      /\ Position \in Nat
  BY Typed
<1>3. \A n \in 1..Len(found) : found[n] < Position
  <2>1. \A n \in 1..Len(found) : found[n] \in Range(found)
    BY Typed DEF Range
  <2> QED BY <1>1, <2>1, FoundIsLogged
<1>4. \A a, b \in 1..Len(found') : a < b => found'[a] <= found'[b]
  <2> SUFFICES ASSUME NEW a \in 1..Len(found'), NEW b \in 1..Len(found'), a < b
               PROVE  found'[a] <= found'[b]
    OBVIOUS
  <2>1. a \in 1..Len(found)
    BY <1>2
  <2>2. CASE b \in 1..Len(found)
    BY <1>1, <1>2, <2>1, <2>2 DEF InOrder
  <2>3. CASE b = Len(found) + 1
    BY <1>2, <1>3, <2>1, <2>3
  <2> QED BY <1>2, <2>2, <2>3
<1>5. \A a \in 1..(Len(found') - 1) :
        found'[a] = found'[a + 1] => a \in 1..(Len(found) - 1) /\ found[a] = found[a + 1]
  <2> SUFFICES ASSUME NEW a \in 1..Len(found), found'[a] = found'[a + 1]
               PROVE  a \in 1..(Len(found) - 1) /\ found[a] = found[a + 1]
    BY <1>2
  <2>1. a # Len(found)
    BY <1>2, <1>3
  <2> QED BY <1>2, <2>1
<1> QED BY <1>1, <1>4, <1>5 DEF InOrder

LEMMA OrderStep == TypeOK /\ ScanInv /\ InOrder /\ [Next]_vars => InOrder'
<1> SUFFICES ASSUME TypeOK, ScanInv, InOrder, [Next]_vars PROVE InOrder'
  OBVIOUS
<1>1. ASSUME found' = << >> PROVE InOrder'
  <2>1. Len(found') = 0
    BY <1>1
  <2> QED BY <2>1 DEF InOrder
<1>2. CASE UNCHANGED << found, spoilt >>
  BY <1>2 DEF InOrder, Undamaged
<1>3. ASSUME NEW bo \in Garbage, Resume(bo) PROVE InOrder'
  BY <1>3, OrderResume
<1>4. CASE ScanChunkSector
  BY <1>2, <1>4, OrderSector DEF ScanChunkSector
<1>5. CASE ScanTailSector
  BY <1>2, <1>5, OrderSector DEF ScanTailSector
<1>6. CASE StartFresh \/ Crash
  BY <1>1, <1>6 DEF StartFresh, Crash
<1>7. CASE ReadChunk \/ EndChunk \/ ReadTail \/ EndScan \/ UNCHANGED vars
  BY <1>2, <1>7 DEF ReadChunk, EndChunk, ReadTail, EndScan, vars
<1> QED
  BY <1>3, <1>4, <1>5, <1>6, <1>7 DEF Next, Start, Step

\* The vector is in device order, with at most one inode twice, whatever the
\* kills and resumptions it came through without damage.
THEOREM FoundStaysInOrder == Spec => []FoundInOrder
<1>1. Init => InOrder
  <2> SUFFICES ASSUME Init PROVE InOrder
    OBVIOUS
  <2>1. Len(found) = 0
    BY DEF Init
  <2> QED BY <2>1 DEF InOrder
<1>2. TypeOK /\ InOrder => FoundInOrder
  <2> SUFFICES ASSUME TypeOK, InOrder, Undamaged
               PROVE  Cardinality({a \in 1..(Len(found) - 1) : found[a] = found[a + 1]}) <= 1
    BY DEF FoundInOrder, InOrder
  <2> DEFINE twice == {a \in 1..(Len(found) - 1) : found[a] = found[a + 1]}
  <2>1. \A a, b \in twice : a = b
    BY DEF InOrder
  <2>2. CASE twice = {}
    BY <2>2, FS_EmptySet
  <2>3. ASSUME NEW a, twice = {a} PROVE Cardinality(twice) <= 1
    <3>1. Cardinality({a}) = 1
      BY FS_Singleton
    <3> HIDE DEF twice
    <3> QED BY <2>3, <3>1
  <2>4. twice = {} \/ \E a : twice = {a}
    <3> HIDE DEF twice
    <3> QED BY <2>1
  <2> QED BY <2>2, <2>3, <2>4
<1> QED BY <1>1, <1>2, OrderStep, ScanInvariant, PTL DEF Spec

----------------------------------------------------------------------------
(* The file                                                                *)

LEMMA Beginning ==
  ASSUME NEW s \in Seq(Nat), NEW n \in Nat, n <= Len(s)
  PROVE  /\ SubSeq(s, 1, n) \in Seq(Nat)
         /\ Len(SubSeq(s, 1, n)) = n
         /\ \A m \in 1..n : SubSeq(s, 1, n)[m] = s[m]
<1>1. \A m \in 1..n : s[m] \in Nat
  OBVIOUS
<1> QED BY <1>1, SubSeqProperties

\* What a step leaves of the records that were in the file.
LEMMA KeptStep == TypeOK /\ TypeOK' /\ [Next]_vars =>
  IsPrefix(SubSeq(lines, 1, flushed), SubSeq(lines', 1, flushed'))
<1> SUFFICES ASSUME TypeOK, TypeOK', [Next]_vars
             PROVE  IsPrefix(SubSeq(lines, 1, flushed), SubSeq(lines', 1, flushed'))
  OBVIOUS
<1>1. ASSUME flushed' >= flushed,
             \A n \in 1..Len(lines) : n <= flushed => lines'[n] = lines[n]
      PROVE  IsPrefix(SubSeq(lines, 1, flushed), SubSeq(lines', 1, flushed'))
  <2>1. /\ lines \in Seq(Nat) /\ lines' \in Seq(Nat)
        /\ flushed \in Nat /\ flushed <= Len(lines) /\ flushed' \in Nat /\ flushed' <= Len(lines')
    BY DEF TypeOK
  <2> DEFINE old == SubSeq(lines, 1, flushed)
             new == SubSeq(lines', 1, flushed')
  <2>2. /\ old \in Seq(Nat) /\ Len(old) = flushed
        /\ \A n \in 1..flushed : old[n] = lines[n]
    BY <2>1, Beginning
  <2>3. /\ new \in Seq(Nat) /\ Len(new) = flushed'
        /\ \A n \in 1..flushed' : new[n] = lines'[n]
    BY <2>1, Beginning
  <2> HIDE DEF old, new
  <2>4. \A n \in 1..flushed : new[n] = old[n]
    <3> SUFFICES ASSUME NEW n \in 1..flushed PROVE new[n] = old[n]
      OBVIOUS
    <3>1. n \in 1..flushed' /\ n \in 1..Len(lines) /\ n <= flushed
      BY <1>1, <2>1
    <3>2. lines'[n] = lines[n]
      BY <1>1, <3>1
    <3> QED BY <2>2, <2>3, <3>1, <3>2
  <2>5. SubSeq(old, 1, Len(old)) = old
    BY <2>2, SubSeqFull
  <2>6. /\ SubSeq(new, 1, flushed) \in Seq(Nat) /\ Len(SubSeq(new, 1, flushed)) = flushed
        /\ \A n \in 1..flushed : SubSeq(new, 1, flushed)[n] = old[n]
    BY <1>1, <2>1, <2>3, <2>4, Beginning
  <2>7. SubSeq(new, 1, Len(old)) = old
    BY <2>2, <2>6, SeqEqual
  <2>8. Len(old) <= Len(new)
    BY <1>1, <2>2, <2>3
  <2>9. IsPrefix(old, new)
    BY <2>5, <2>7, <2>8 DEF IsPrefix
  <2> QED BY <2>9 DEF old, new
<1>2. flushed \in Nat /\ flushed <= Len(lines) /\ lines \in Seq(Nat)
  BY Typed
<1>3. CASE UNCHANGED << lines, flushed >>
  BY <1>1, <1>2, <1>3
<1>4. ASSUME LogLine(Position), flushed' >= flushed
      PROVE  \A n \in 1..Len(lines) : n <= flushed => lines'[n] = lines[n]
  BY <1>2, <1>4 DEF LogLine
<1>5. CASE ScanChunkSector
  BY <1>1, <1>2, <1>3, <1>4, <1>5 DEF ScanChunkSector
<1>6. CASE ScanTailSector
  BY <1>1, <1>2, <1>3, <1>4, <1>6 DEF ScanTailSector
<1>7. CASE EndChunk
  BY <1>1, <1>2, <1>7 DEF EndChunk, FlushLog
<1>8. CASE Crash
  <2>1. PICK k \in flushed..Len(lines) : lines' = SubSeq(lines, 1, k) /\ flushed' = k
    BY <1>8 DEF Crash
  <2>2. k \in Nat /\ flushed <= k /\ k <= Len(lines)
    BY <1>2, <2>1
  <2>3. \A n \in 1..Len(lines) : n <= flushed => lines'[n] = lines[n]
    BY <1>2, <2>1, <2>2
  <2> QED BY <1>1, <2>1, <2>2, <2>3
<1>9. CASE Start \/ ReadChunk \/ ReadTail \/ EndScan \/ UNCHANGED vars
  BY <1>3, <1>9 DEF Start, StartFresh, Resume, ReopenLog, ReadChunk, ReadTail, EndScan, vars, log
<1> QED
  BY <1>5, <1>6, <1>7, <1>8, <1>9 DEF Next, Step

\* No step takes back a record that is in the file: neither a kill nor a run
\* that resumes from a damaged log.
THEOREM RecordsStay == Spec => RecordsAreKept
<1>1. TypeOK /\ TypeOK' /\ [Next]_vars =>
        [IsPrefix(SubSeq(lines, 1, flushed), SubSeq(lines', 1, flushed'))]_vars
  BY KeptStep
<1> QED BY <1>1, ScanTypeCorrect, PTL DEF Spec, RecordsAreKept

----------------------------------------------------------------------------
(* The refinement: what ResumableScan sees of the scan                     *)

Seen  == IF Undamaged /\ pc \notin {"down", "exit"} THEN Range(found) ELSE {}
Kept  == IF Undamaged THEN InFile ELSE {}
Phase == IF ~Undamaged THEN "void"
         ELSE CASE pc = "down" -> "off"
                [] pc = "exit" -> "gaveup"
                [] pc = "done" -> "over"
                [] OTHER       -> "on"

\* ResumableScan's actions, on the sectors, Seen, Kept and Phase.
LEMMA PromisedActions ==
  /\ Promised!Init <=> sane \subseteq Nat /\ Seen = {} /\ Kept = {} /\ Phase = "off"
  /\ Promised!Begin <=>
       /\ Phase \in {"off", "gaveup"} /\ Phase' \in {"on", "gaveup"}
       /\ Seen' = IF Phase' = "on" THEN Kept ELSE {}
       /\ UNCHANGED << sane, Kept >>
  /\ Promised!Find <=>
       /\ Phase = "on" /\ sane \ Seen # {}
       /\ Seen' = Seen \cup {Promised!Min(sane \ Seen)}
       /\ Kept' \in {Kept, Seen'}
       /\ UNCHANGED << sane, Phase >>
  /\ Promised!Keep <=> Phase = "on" /\ Kept' = Seen /\ UNCHANGED << sane, Seen, Phase >>
  /\ Promised!Kill <=>
       /\ Phase = "on" /\ Phase' = "off"
       /\ Kept' \in {b \in Promised!Beginnings(Seen) : Kept \subseteq b}
       /\ Seen' = {} /\ UNCHANGED sane
  /\ Promised!Finish <=>
       Phase = "on" /\ Seen = sane /\ Phase' = "over" /\ UNCHANGED << sane, Seen, Kept >>
  /\ Promised!GiveUp <=>
       Phase = "on" /\ Phase' = "gaveup" /\ Seen' = {} /\ UNCHANGED << sane, Kept >>
  /\ Promised!Spoil <=>
       /\ Phase \in {"off", "gaveup"} /\ Phase' = "void"
       /\ Seen' = {} /\ Kept' = {} /\ UNCHANGED sane
  /\ UNCHANGED << sane, Seen, Kept, Phase >> => UNCHANGED Promised!vars
  BY DEF Seen, Kept, Phase, Promised!Init, Promised!Begin, Promised!Find, Promised!Keep,
         Promised!Kill, Promised!Finish, Promised!GiveUp, Promised!Spoil, Promised!vars

LEMMA InFileIsLog == ASSUME TypeOK, flushed = Len(lines) PROVE InFile = Range(lines)
  BY Typed, RangeEquality DEF InFile

\* What ResumableScan sees, place by place.
Match ==
  /\ ~Undamaged => Phase = "void" /\ Seen = {} /\ Kept = {}
  /\ Undamaged =>
       /\ Kept = InFile
       /\ pc # "chunk" => Kept = Range(lines)
       /\ pc = "down" => Phase = "off" /\ Seen = {}
       /\ pc = "exit" => Phase = "gaveup" /\ Seen = {}
       /\ pc = "done" => Phase = "over"
       /\ pc \in {"loop", "chunk", "tail"} => Phase = "on"
       /\ Running =>
            /\ Seen = Range(found) /\ Seen = Range(lines)
            /\ \A s \in Seen : s \in sane /\ s < Position
            /\ \A s \in sane : s < Position => s \in Seen

LEMMA Matches == TypeOK /\ ScanInv => Match
<1> SUFFICES ASSUME TypeOK, ScanInv PROVE Match
  OBVIOUS
<1>1. CASE ~Undamaged
  BY <1>1 DEF Match, Phase, Seen, Kept
<1>2. CASE Undamaged
  <2>1. /\ Kept = InFile
        /\ pc = "down" => Phase = "off" /\ Seen = {}
        /\ pc = "exit" => Phase = "gaveup" /\ Seen = {}
        /\ pc = "done" => Phase = "over"
        /\ pc \in {"loop", "chunk", "tail"} => Phase = "on"
        /\ Running => Seen = Range(found)
    BY <1>2 DEF Kept, Phase, Seen, Running
  <2>2. pc # "chunk" => InFile = Range(lines)
    BY <1>2, InFileIsLog DEF ScanInv, Buffered
  <2>3. Running =>
          /\ Range(found) = Range(lines)
          /\ \A s \in Range(found) : s \in sane /\ s < Position
          /\ \A s \in sane : s < Position => s \in Range(found)
    BY <1>2, FoundIsLogged
  <2> QED BY <1>2, <2>1, <2>2, <2>3 DEF Match
<1> QED BY <1>1, <1>2

LEMMA ImplInit == Init => Promised!Init
<1> SUFFICES ASSUME Init PROVE Promised!Init
  OBVIOUS
<1>1. TypeOK /\ Match
  BY TypeInit, InvInit, Matches
<1>2. pc = "down" /\ Undamaged /\ flushed = 0
  BY DEF Init, Undamaged
<1>3. InFile = {}
  BY <1>2 DEF InFile
<1>4. sane \subseteq Nat
  BY <1>1, Typed
<1> QED BY <1>1, <1>2, <1>3, <1>4, PromisedActions DEF Match

LEMMA ImplFresh ==
  ASSUME TypeOK, ScanInv, Match, Match', Undamaged, StartFresh PROVE Promised!Begin
<1>1. /\ pc' = "loop" /\ found' = << >> /\ logfile = "missing"
      /\ UNCHANGED << sane, lines, flushed, spoilt >>
  BY DEF StartFresh, device
<1>2. pc = "down" /\ lines = << >> /\ flushed = 0
  BY <1>1, Typed DEF ScanInv, Places
<1>3. InFile = {} /\ InFile' = {}
  BY <1>1, <1>2 DEF InFile
<1>4. Range(found') = {}
  BY <1>1 DEF Range
<1>5. Undamaged'
  BY <1>1 DEF Undamaged
<1> QED BY <1>1, <1>2, <1>3, <1>4, <1>5, PromisedActions DEF Match, Running

LEMMA ImplResume ==
  ASSUME TypeOK, Match, Match', Undamaged, NEW bo \in Garbage, Resume(bo)
  PROVE  Promised!Begin \/ Promised!Spoil
<1>1. /\ pc \in {"down", "exit"} /\ pc' \in {"loop", "exit"}
      /\ UNCHANGED << sane, lines, flushed >>
  BY DEF Resume, ReopenLog, log, device
<1>2. Phase \in {"off", "gaveup"}
  BY <1>1 DEF Match
<1>3. CASE ~Undamaged'
  BY <1>1, <1>2, <1>3, PromisedActions DEF Match
<1>4. CASE Undamaged'
  <2>1. Kept = Range(lines) /\ Kept' = Kept
    BY <1>1, <1>4 DEF Match
  <2>2. \/ Phase' = "on" /\ Seen' = Kept
        \/ Phase' = "gaveup" /\ Seen' = {}
    BY <1>1, <1>4, <2>1 DEF Match, Running
  <2> QED BY <1>1, <1>2, <2>1, <2>2, PromisedActions
<1> QED BY <1>3, <1>4

\* The sector being looked at is the first that was not found yet.
LEMMA NextIsLeast ==
  ASSUME TypeOK, Match, Undamaged, Running, Position \in sane
  PROVE  /\ sane \ Seen # {}
         /\ Promised!Min(sane \ Seen) = Position
<1> DEFINE rest == sane \ Seen
<1>1. Position \in rest
  BY Typed DEF Match
<1>2. \A s \in rest : s \in Nat /\ ~(s < Position)
  BY Typed DEF Match
<1>3. \A s \in rest : Position <= s
  BY <1>2, Typed
<1> HIDE DEF rest
<1>4. \A x \in rest : (\A y \in rest : x <= y) => x = Position
  <2> SUFFICES ASSUME NEW x \in rest, \A y \in rest : x <= y PROVE x = Position
    OBVIOUS
  <2>1. x <= Position /\ Position <= x /\ x \in Nat /\ Position \in Nat
    BY <1>1, <1>2, <1>3
  <2> QED BY <2>1
<1>5. (CHOOSE x \in rest : \A y \in rest : x <= y) = Position
  BY <1>1, <1>3, <1>4
<1> QED BY <1>1, <1>5 DEF Promised!Min, rest

LEMMA ImplChunkSector ==
  ASSUME TypeOK, TypeOK', Match, Match', ScanInv, Undamaged, ScanChunkSector
  PROVE  Promised!Find \/ UNCHANGED Promised!vars
<1>1. /\ pc = "chunk" /\ pc' = "chunk" /\ Undamaged' /\ UNCHANGED << sane, flushed >>
      /\ Phase' = "on" /\ Phase = "on" /\ Running /\ Running'
  BY DEF ScanChunkSector, device, Undamaged, Running, Match
<1>2. CASE Position \notin sane
  <2>1. UNCHANGED << found, lines >>
    BY <1>2 DEF ScanChunkSector
  <2> QED BY <1>1, <2>1, PromisedActions DEF Match, InFile
<1>3. CASE Position \in sane
  <2>1. found' = Append(found, Position) /\ lines' = Append(lines, Position)
    BY <1>1, <1>3 DEF ScanChunkSector, LogLine, ScanInv, Abreast, Glue
  <2>2. Range(found') = Range(found) \cup {Position}
    BY <2>1, Typed, RangeAppend
  <2>3. InFile' = InFile
    <3>1. \A n \in 1..flushed : lines'[n] = lines[n]
      BY <2>1, Typed
    <3> QED BY <1>1, <3>1 DEF InFile
  <2> QED BY <1>1, <1>3, <2>2, <2>3, NextIsLeast, PromisedActions DEF Match
<1> QED BY <1>2, <1>3

LEMMA ImplTailSector ==
  ASSUME TypeOK, TypeOK', Match, Match', Undamaged, ScanTailSector
  PROVE  Promised!Find \/ UNCHANGED Promised!vars
<1>1. /\ pc = "tail" /\ pc' = "tail" /\ Undamaged' /\ sane' = sane
      /\ Phase' = "on" /\ Phase = "on" /\ Running /\ Running'
  BY DEF ScanTailSector, device, Undamaged, Running, Match
<1>2. CASE Position \notin sane
  <2>1. UNCHANGED << found, lines, flushed >>
    BY <1>2 DEF ScanTailSector
  <2> QED BY <1>1, <2>1, PromisedActions DEF Match, InFile
<1>3. CASE Position \in sane
  <2>1. found' = Append(found, Position)
    BY <1>3 DEF ScanTailSector
  <2>2. Range(found') = Range(found) \cup {Position}
    BY <2>1, Typed, RangeAppend
  <2>3. Kept' = Seen'
    BY <1>1 DEF Match
  <2> QED BY <1>1, <1>3, <2>2, <2>3, NextIsLeast, PromisedActions DEF Match
<1> QED BY <1>2, <1>3

\* The other steps of a run that goes on.
LEMMA ImplOther ==
  ASSUME TypeOK, TypeOK', ScanInv', Match, Match', Undamaged,
         ReadChunk \/ EndChunk \/ ReadTail \/ EndScan
  PROVE  Promised!GiveUp \/ Promised!Keep \/ Promised!Finish \/ UNCHANGED Promised!vars
<1>1. /\ Undamaged' /\ pc \in {"loop", "chunk", "tail"} /\ UNCHANGED << sane, lines, found >>
      /\ Phase = "on" /\ Running /\ Seen = Range(found)
  BY DEF ReadChunk, EndChunk, ReadTail, EndScan, device, log, Undamaged, Running, Match
<1>2. CASE EndChunk
  <2>1. pc' = "loop"
    BY <1>2 DEF EndChunk
  <2> QED BY <1>1, <2>1, PromisedActions DEF Match, Running
<1>3. CASE EndScan
  <2>1. pc' = "done" /\ UNCHANGED << flushed, devsize >>
    BY <1>3 DEF EndScan, log, device
  <2>2. InFile' = InFile
    BY <1>1, <2>1 DEF InFile
  <2>3. Position' = devsize
    BY <1>1, <2>1 DEF ScanInv, Places
  <2>4. \A s \in sane : s < devsize
    BY Typed
  <2>5. Seen' = sane
    BY <1>1, <2>1, <2>3, <2>4 DEF Match, Running
  <2> QED BY <1>1, <2>1, <2>2, <2>5, PromisedActions DEF Match, Running
<1>4. CASE ReadChunk \/ ReadTail
  <2>1. pc' \in {"exit", "chunk", "tail"} /\ flushed' = flushed
    BY <1>4 DEF ReadChunk, ReadTail, log
  <2>2. InFile' = InFile
    BY <1>1, <2>1 DEF InFile
  <2> QED BY <1>1, <2>1, <2>2, PromisedActions DEF Match, Running
<1> QED BY <1>2, <1>3, <1>4

\* A kill keeps a beginning of what was found.
LEMMA ImplCrash ==
  ASSUME TypeOK, ScanInv, Match, Match', Undamaged, Crash
  PROVE  Promised!Kill
<1>1. /\ Undamaged' /\ pc \in {"loop", "chunk", "tail"} /\ pc' = "down" /\ sane' = sane
      /\ Running /\ LogSorted
  BY DEF Crash, device, Undamaged, TypeOK, Running, ScanInv
<1>2. PICK k \in flushed..Len(lines) : lines' = SubSeq(lines, 1, k) /\ flushed' = k
  BY DEF Crash
<1>3. k \in Nat /\ flushed <= k /\ k <= Len(lines)
  BY <1>2, Typed
<1>4. \A n \in 1..k : lines'[n] = lines[n]
  BY <1>2, <1>3, Typed, Beginning
<1>5. InFile' = {lines[n] : n \in 1..k}
  BY <1>2, <1>4 DEF InFile
<1>6. Seen = {lines[n] : n \in 1..Len(lines)}
  BY <1>1, Typed, RangeEquality DEF Match
<1>7. InFile \subseteq InFile'
  <2>1. \A n \in 1..flushed : n \in 1..k
    BY <1>3, Typed
  <2> QED BY <1>5, <2>1 DEF InFile
<1>8. InFile' \in Promised!Beginnings(Seen)
  <2>1. CASE k = Len(lines)
    BY <1>5, <1>6, <2>1 DEF Promised!Beginnings
  <2>2. CASE k < Len(lines)
    <3> DEFINE y == lines[k + 1]
    <3>1. y \in Seen
      BY <1>3, <1>6, <2>2, Typed
    <3>2. \A n \in 1..Len(lines) : lines[n] < y <=> n \in 1..k
      <4> SUFFICES ASSUME NEW n \in 1..Len(lines) PROVE lines[n] < y <=> n \in 1..k
        OBVIOUS
      <4>1. k + 1 \in 1..Len(lines) /\ lines[n] \in Nat /\ y \in Nat
        BY <1>3, <2>2, Typed
      <4>2. CASE n < k + 1
        BY <1>1, <1>3, <4>1, <4>2 DEF LogSorted
      <4>3. CASE n > k + 1
        <5>1. y < lines[n]
          BY <1>1, <4>1, <4>3 DEF LogSorted
        <5> QED BY <1>3, <4>1, <4>3, <5>1
      <4>4. CASE n = k + 1
        BY <1>3, <4>1, <4>4
      <4> QED BY <1>3, <4>2, <4>3, <4>4
    <3>3. {lines[n] : n \in 1..k} = {x \in Seen : x < y}
      <4>1. 1..k \subseteq 1..Len(lines)
        BY <1>3, Typed
      <4> HIDE DEF y
      <4> QED BY <1>6, <3>2, <4>1
    <3> QED BY <1>5, <3>1, <3>3 DEF Promised!Beginnings
  <2> QED BY <1>3, <2>1, <2>2, Typed
<1> QED BY <1>1, <1>7, <1>8, PromisedActions DEF Match

LEMMA ImplStep ==
  TypeOK /\ TypeOK' /\ ScanInv /\ ScanInv' /\ Match /\ Match' /\ [Next]_vars
    => [Promised!Next]_(Promised!vars)
<1> SUFFICES ASSUME TypeOK, TypeOK', ScanInv, ScanInv', Match, Match', [Next]_vars
             PROVE  Promised!Next \/ UNCHANGED Promised!vars
  OBVIOUS
<1> USE DEF Promised!Next
<1>1. CASE ~Undamaged
  <2>1. ~Undamaged' /\ sane' = sane
    BY <1>1 DEF Undamaged, Next, Start, Step, StartFresh, Resume, ReadChunk, ScanChunkSector,
                EndChunk, ReadTail, ScanTailSector, EndScan, Crash, device, vars
  <2> QED BY <1>1, <2>1, PromisedActions DEF Match
<1>2. CASE Undamaged
  <2>1. CASE StartFresh
    BY <1>2, <2>1, ImplFresh
  <2>2. ASSUME NEW bo \in Garbage, Resume(bo) PROVE Promised!Next
    BY <1>2, <2>2, ImplResume
  <2>3. CASE ScanChunkSector
    BY <1>2, <2>3, ImplChunkSector
  <2>4. CASE ScanTailSector
    BY <1>2, <2>4, ImplTailSector
  <2>5. CASE ReadChunk \/ EndChunk \/ ReadTail \/ EndScan
    BY <1>2, <2>5, ImplOther
  <2>6. CASE Crash
    BY <1>2, <2>6, ImplCrash
  <2>7. CASE UNCHANGED vars
    <3>1. UNCHANGED << sane, Seen, Kept, Phase >>
      BY <2>7 DEF vars, device, log, Seen, Kept, Phase, Undamaged, InFile
    <3> QED BY <3>1, PromisedActions
  <2> QED BY <2>1, <2>2, <2>3, <2>4, <2>5, <2>6, <2>7 DEF Next, Start, Step
<1> QED BY <1>1, <1>2

\* The scan implements ResumableScan: chunks, buffering, spilling and the
\* record that is read twice are invisible, and a kill costs only what was
\* found last.
THEOREM ScanKeepsItsPromise == Spec => KeepsItsPromise
<1>1. Spec => [](TypeOK /\ ScanInv /\ Match)
  BY ScanInvariant, Matches, PTL
<1> QED BY <1>1, ImplInit, ImplStep, PTL DEF Spec, KeepsItsPromise, Promised!Spec
=============================================================================
