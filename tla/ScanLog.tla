------------------------------ MODULE ScanLog -------------------------------
(***************************************************************************)
(* The surface scan of the device and its progress log, inoscan.txt        *)
(* (InodeScanner::do_scan and InodeScanner::restore).  The scan reads the  *)
(* device chunk by chunk, adds every sector that looks like an inode to    *)
(* the inode vector and writes its byte offset to the log; a run that is   *)
(* killed is started again and resumes behind the last offset it finds in  *)
(* the log.                                                                *)
(*                                                                         *)
(* The log's buffer is written when a chunk ends, but it also spills when  *)
(* it is full, at any byte.  So a kill leaves some prefix of what was      *)
(* written since the last flush, possibly with half a line at its end.     *)
(* Losing data the kernel already has is not modelled, and the device does *)
(* not change between runs.                                                *)
(***************************************************************************)
EXTENDS ProgressLog, SequencesExt

CONSTANTS
  ChunkInodes,   \* inodes per chunk: chunk_bytes / inode_size_
  Word,          \* 2^64, the modulus of uint64_t
  DevSizes,      \* device sizes get_size_bytes() may report
  Garbage,       \* values the uninitialised `bo' of restore() may hold
  MaxCrashes     \* bound on the number of kills

InodeSize  == 512
ChunkBytes == ChunkInodes * InodeSize

\* BLKGETSIZE counts 512-byte sectors and a regular file is rounded down to
\* a multiple of 1024, so a device holds a whole number of sectors.
Sectors == {s \in Nat : s % InodeSize = 0}

ASSUME ScanAssumption ==
  /\ ChunkInodes \in Nat \ {0}
  /\ DevSizes \subseteq Sectors
  /\ Word \in Nat
  /\ \A d \in DevSizes : d + ChunkBytes < Word
  /\ Garbage \subseteq Nat
  /\ MaxCrashes \in Nat

VARIABLES
  devsize,  \* device.get_size_bytes(), the same in every run
  sane,     \* the sectors create_if_sane accepts
  logfile,  \* whether inoscan.txt is there
  lines,    \* the records of inoscan.txt, those still in the buffer included
  flushed,  \* how many of them are in the file
  tail,     \* digits after the file's last newline (see ProgressLog)
  pc,       \* where the process is
  i,        \* do_scan's i: the chunk's offset
  cur,      \* do_scan's curr_ino
  found,    \* the offsets of the inodes added to the InodeVector
  crashes,  \* kills so far
  spoilt    \* history: what damaged log a run has resumed from

device == << devsize, sane >>
log    == << logfile, lines, flushed, tail >>
vars   == << device, log, pc, i, cur, found, crashes, spoilt >>

TypeOK ==
  /\ devsize \in DevSizes
  /\ sane \subseteq Sectors /\ \A s \in sane : s < devsize
  /\ logfile \in {"missing", "there"}
  /\ lines \in Seq(Nat)
  /\ flushed \in 0..Len(lines)
  /\ tail \in Seq(Nat) /\ Len(tail) <= 1
  /\ pc \in {"down", "loop", "chunk", "tail", "done", "exit"}
  /\ i \in Nat
  /\ cur \in Nat
  /\ found \in Seq(Nat)
  /\ crashes \in 0..MaxCrashes
  /\ spoilt \subseteq {"empty", "cut"}

Init ==
  /\ devsize \in DevSizes
  /\ sane \in SUBSET {InodeSize * k : k \in 0..((devsize \div InodeSize) - 1)}
  /\ logfile = "missing" /\ lines = << >> /\ flushed = 0 /\ tail = << >>
  /\ pc = "down" /\ i = 0 /\ cur = 0
  /\ found = << >>
  /\ crashes = 0
  /\ spoilt = {}

\* uint64_t subtraction, for operands below Word.
Minus(a, b) == IF b <= a THEN a - b ELSE a - b + Word

\* Device::read_bytes refuses an offset behind the end (the end itself it
\* accepts) and a count of 0.  A read across the end is only reported.
ReadThrows(offset, count) == offset > devsize \/ count = 0

----------------------------------------------------------------------------
(* restore()                                                               *)

\* No inoscan.txt: create it and scan from byte 0.
StartFresh ==
  /\ pc \in {"down", "exit"}
  /\ logfile = "missing"
  /\ logfile' = "there"
  /\ pc' = "loop" /\ i' = 0 /\ cur' = 0
  /\ found' = << >>
  /\ UNCHANGED << device, lines, flushed, tail, crashes, spoilt >>

FaultySkipsSector(records)    == records[Len(records)] + 2 * InodeSize
FaultyRepeatsSector(records)  == records[Len(records)]

\* The scan goes on one sector behind the last record.
ResumeAt(records) == records[Len(records)] + InodeSize

FaultyTruncates == logfile' = logfile /\ lines' = << >> /\ flushed' = 0 /\ tail' = << >>

\* progress_file_ is opened with ios::app: what is in the file stays.
ReopenLog == UNCHANGED log

\* Load every record, then go on behind the last one, appending to the log.
\* read_from_disk builds an inode from each record without looking whether
\* it is sane; a record behind the end of the device ends the run.
Resume(bo) ==
  LET records == Records(lines, tail, bo)
      throws  == \E n \in 1..Len(records) : ReadThrows(records[n], InodeSize)
  IN  /\ pc \in {"down", "exit"}
      /\ logfile = "there"
      /\ found' = records
      /\ pc' = IF throws THEN "exit" ELSE "loop"
      /\ i' = ResumeAt(records)
      /\ cur' = 0
      /\ spoilt' = spoilt \cup (IF tail # << >> THEN {"cut"}
                                ELSE IF lines = << >> THEN {"empty"} ELSE {})
      /\ ReopenLog
      /\ UNCHANGED << device, crashes >>

Start == StartFresh \/ \E bo \in Garbage : Resume(bo)

----------------------------------------------------------------------------
(* do_scan()                                                               *)

FaultyOneMore == i <= Minus(devsize, ChunkBytes)

MoreChunks == i < Minus(devsize, ChunkBytes)

ReadChunk ==
  /\ pc = "loop" /\ MoreChunks
  /\ pc' = IF ReadThrows(i, ChunkBytes) THEN "exit" ELSE "chunk"
  /\ cur' = 0
  /\ UNCHANGED << device, log, i, found, crashes, spoilt >>

Position == i + cur * InodeSize

FaultyLogsNext(o) == lines' = Append(lines, o + InodeSize)

\* Appending to a file that ends in digits runs the two numbers together.
\* The digits in the file stay what they are until the buffer is written.
LogLine(o) ==
  lines' = Append(lines, IF flushed = Len(lines) THEN Glue(tail, o) ELSE o)

\* One round of the loop over the chunk: "\n", no flush.
ScanChunkSector ==
  /\ pc = "chunk" /\ cur < ChunkInodes
  /\ cur' = cur + 1
  /\ IF Position \in sane
       THEN found' = Append(found, Position) /\ LogLine(Position)
       ELSE UNCHANGED << found, lines >>
  /\ UNCHANGED << device, logfile, flushed, tail, pc, i, crashes, spoilt >>

FaultyNoFlush     == UNCHANGED << flushed, tail >>
FaultyCountsAhead == flushed' = Len(lines) + 1 /\ tail' = << >>

FlushLog ==
  /\ flushed' = Len(lines)
  /\ tail' = IF flushed < Len(lines) THEN << >> ELSE tail

FaultyStays == i

NextChunk == i + ChunkBytes

EndChunk ==
  /\ pc = "chunk" /\ cur = ChunkInodes
  /\ FlushLog
  /\ i' = NextChunk
  /\ cur' = 0
  /\ pc' = "loop"
  /\ UNCHANGED << device, logfile, lines, found, crashes, spoilt >>

BytesLeft == Minus(devsize, i)

ReadTail ==
  /\ pc = "loop" /\ ~MoreChunks
  /\ pc' = IF ReadThrows(i, BytesLeft) THEN "exit" ELSE "tail"
  /\ cur' = 0
  /\ UNCHANGED << device, log, i, found, crashes, spoilt >>

\* One round of the loop over the rest of the device: endl, so each line is
\* in the file before the next sector is looked at.
ScanTailSector ==
  /\ pc = "tail" /\ cur < BytesLeft \div InodeSize
  /\ cur' = cur + 1
  /\ IF Position \in sane
       THEN /\ found' = Append(found, Position)
            /\ LogLine(Position)
            /\ flushed' = Len(lines) + 1
            /\ tail' = << >>
       ELSE UNCHANGED << found, lines, flushed, tail >>
  /\ UNCHANGED << device, logfile, pc, i, crashes, spoilt >>

EndScan ==
  /\ pc = "tail" /\ cur = BytesLeft \div InodeSize
  /\ pc' = "done"
  /\ UNCHANGED << device, log, i, cur, found, crashes, spoilt >>

Step == \/ ReadChunk \/ ScanChunkSector \/ EndChunk
        \/ ReadTail \/ ScanTailSector \/ EndScan

----------------------------------------------------------------------------
(* The process is killed: the first k lines reach the file, and perhaps    *)
(* some digits of the line behind them.                                    *)

Torn(k) ==
  LET kept == IF k = flushed THEN tail ELSE << >>
      cuts == IF k = Len(lines) THEN {}
              ELSE {c \in Cuts(lines[k + 1]) : kept = << >> \/ c > kept[1]}
  IN  {kept} \cup {<< c >> : c \in cuts}

Crash ==
  /\ pc \notin {"down", "exit", "done"}
  /\ crashes < MaxCrashes
  /\ crashes' = crashes + 1
  /\ \E k \in flushed..Len(lines) :
       /\ lines' = SubSeq(lines, 1, k)
       /\ flushed' = k
       /\ tail' \in Torn(k)
  /\ pc' = "down" /\ i' = 0 /\ cur' = 0
  /\ found' = << >>
  /\ UNCHANGED << device, logfile, spoilt >>

Next == Start \/ Step \/ Crash

\* Nothing blocks the process, and the user starts a killed run again.
Fairness == WF_vars(Step) /\ WF_vars(Start)

Spec     == Init /\ [][Next]_vars
FairSpec == Spec /\ Fairness

----------------------------------------------------------------------------
(* Properties.  "Undamaged" behaviours are those in which no run has       *)
(* resumed from an empty log or from a log whose last line was cut.        *)

Undamaged == spoilt = {}

InFile == {lines[n] : n \in 1..flushed}

\* However often the scan is killed and resumed, when it ends every sector
\* that looks like an inode has been added to the inode vector.
ScanComplete ==
  pc = "done" /\ Undamaged => sane \subseteq Range(found)

\* The vector holds nothing create_if_sane would refuse, although the
\* resuming run loads offsets without checking them.
NoPhantom ==
  pc \notin {"down", "exit"} /\ Undamaged => Range(found) \subseteq sane

\* The vector is in device order, which detect_ino_extents relies on, and at
\* most one inode is there twice: the one at which the scan resumed.
FoundInOrder ==
  Undamaged =>
    /\ \A a, b \in 1..Len(found) : a < b => found[a] <= found[b]
    /\ Cardinality({a \in 1..(Len(found) - 1) : found[a] = found[a + 1]}) <= 1

\* A kill costs at most the chunk being scanned: whatever lies before it is
\* in the file, not merely in the buffer.
ScannedIsLogged ==
  pc \in {"loop", "chunk", "tail"} /\ Undamaged =>
    {s \in sane : s < i} \subseteq InFile

\* The scan gives up (exit(1)) on two kinds of device only: one smaller than
\* a chunk, and one whose last sector is an inode the log already holds.
ExitsOnlyAtEdges ==
  pc = "exit" /\ Undamaged =>
    devsize < ChunkBytes \/ devsize - InodeSize \in InFile

\* No run, killed or not, takes back a record that is in the file.
RecordsAreKept ==
  [][IsPrefix(SubSeq(lines, 1, flushed), SubSeq(lines', 1, flushed'))]_vars

\* The program stops in the end, whatever the size of the device and the
\* damage to the log: neither the unsigned comparison nor a resume behind the
\* end of the device makes the loop run on.
RunsEnd == <>(pc \in {"done", "exit"})

\* On a device of at least a chunk whose last sector is no inode, and unless
\* a log is damaged, the scan is finished in the end.
EventuallyScanned ==
  /\ devsize >= ChunkBytes
  /\ devsize - InodeSize \notin sane
  /\ []Undamaged
  => <>(pc = "done")

----------------------------------------------------------------------------
(* The scan implements ResumableScan: what it keeps is what is in the file, *)
(* buffering, spilling and parsing the log twice over notwithstanding.     *)

Promised == INSTANCE ResumableScan WITH
  sectors <- sane,
  seen    <- IF Undamaged /\ pc \notin {"down", "exit"} THEN Range(found) ELSE {},
  kept    <- IF Undamaged THEN InFile ELSE {},
  phase   <- IF ~Undamaged THEN "void"
             ELSE CASE pc = "down" -> "off"
                    [] pc = "exit" -> "gaveup"
                    [] pc = "done" -> "over"
                    [] OTHER       -> "on"

\* Every step of the program, kills included, is a step ResumableScan allows.
KeepsItsPromise == Promised!Spec

----------------------------------------------------------------------------
(* What README.md says of the scan, without the conditions above.          *)

\* README.md:30: "These logs are used to continue the work if the process
\* was interrupted": a scan that is killed, resumed and finished has found
\* what an uninterrupted one finds.
WorkIsContinued == pc = "done" => sane \subseteq Range(found)
=============================================================================
