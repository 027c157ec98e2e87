------------------------------ MODULE Restore -------------------------------
(***************************************************************************)
(* The output side of Recoverer::recover: the queue generate_prio_queue    *)
(* makes of the --first, --last and --exclude expressions, the directories *)
(* (recover_dirtree), and the files and modification times                 *)
(* (recover_iterative), over an output directory that survives a kill.     *)
(*                                                                         *)
(* An inode is its position in InodeVector; Relations gives it a parent    *)
(* and a path of its own.  A file has the extent tree of ExtentTree, and   *)
(* is written in its pieces, what one call of fwrite gets.  Times are in   *)
(* days, and the clock of the output directory says Today all the time.    *)
(***************************************************************************)
EXTENDS ExtentTree

CONSTANTS
  Jobs,           \* what there is to restore, and the options
  Today,
  StdioBuffer,    \* units of the buffer of a FILE
  MaxFaults       \* bound on the number of kills and of calls that fail

None == {}      \* an expression that matches nothing, or was not given

ASSUME RestoreAssumption ==
  /\ Today \in Nat /\ StdioBuffer \in Nat \ {0} /\ MaxFaults \in Nat
  /\ \A w \in Jobs :
       /\ w.inode \in Seq(Range(w.inode))
       /\ w.first \cup w.last \cup w.exclude \subseteq DOMAIN w.inode
       /\ \A o \in DOMAIN w.inode :
            /\ w.inode[o].up # 0 => /\ w.inode[o].up \in DOMAIN w.inode
                                    /\ w.inode[w.inode[o].up].kind # "file"
            /\ w.inode[o].kind = "dir" => w.inode[o].mtime \in Nat
            /\ w.inode[o].kind = "file" => /\ w.inode[o].root \in XtpageType
                                           /\ w.inode[o].size \in Int
                                           /\ w.inode[o].mtime \in Nat \ {Today}

VARIABLES
  job,       \* the inodes, and which the three expressions match
  out,       \* the output directory
  at,        \* where the process is
  q, n,      \* the queue and the position in it
  todo,      \* the pieces of the file that are not copied yet
  buffer,    \* what the stdio buffer of the file holds of a piece, if anything
  faults,
  torn,      \* history: the files that were interrupted, or lost a piece
  passed     \* history: the files this run could not look at

vars == << job, out, at, q, n, todo, buffer, faults, torn, passed >>

Inodes == DOMAIN job.inode
Ino(o) == job.inode[o]
Dirs   == {o \in Inodes : Ino(o).kind = "dir"}
Files  == {o \in Inodes : Ino(o).kind = "file"}

\* What of a file was written, by unit; the rest of its size is a hole.
Absent == [there |-> FALSE, data |-> << >>, size |-> 0, time |-> 0]
New    == [there |-> TRUE, data |-> << >>, size |-> 0, time |-> Today]

PieceType == [from : Nat, dev : Nat, n : 1..BuffSize]

TypeOK ==
  /\ \A o \in Inodes :
       /\ out[o].there \in BOOLEAN /\ out[o].size \in Nat /\ out[o].time \in Nat
       /\ DOMAIN out[o].data \subseteq 0..(out[o].size - 1)
       /\ \A u \in DOMAIN out[o].data : out[o].data[u] \in 0..(DeviceSize - 1) \cup {Stale}
  /\ at \in {"down", "dirs", "items", "write", "truncate", "close", "times", "blocked", "done", "dead"}
  /\ q \in Seq(Inodes) /\ n \in 1..(Len(q) + 1)
  /\ todo \in Seq(PieceType)
  /\ buffer \in Seq(PieceType) /\ Len(buffer) <= 1
  /\ faults \in 0..MaxFaults /\ torn \subseteq Files /\ passed \subseteq Files

Init ==
  /\ job \in Jobs
  /\ out = [o \in Inodes |-> Absent]
  /\ at = "down" /\ q = << >> /\ n = 1 /\ todo = << >> /\ buffer = << >>
  /\ faults = 0 /\ torn = {} /\ passed = {}

----------------------------------------------------------------------------
(* generate_prio_queue                                                     *)

\* In the order of the vector.
Those(os) ==
  LET S == os \ job.exclude
  IN CHOOSE s \in [1..Cardinality(S) -> S] :
       /\ Range(s) = S
       /\ \A a, b \in DOMAIN s : a < b => s[a] < s[b]

FaultyQueue ==
  Those(job.first) \o Those(Inodes \ job.first) \o Those(job.last \ job.first)

\* An inode that both expressions match is one of the first.
Queue ==
  Those(job.first) \o Those(Inodes \ (job.first \cup job.last)) \o Those(job.last \ job.first)

\* A program that died is started again, as one that was killed.
Launch ==
  /\ at \in {"down", "dead"}
  /\ at' = "dirs" /\ q' = Queue /\ n' = 1 /\ todo' = << >> /\ buffer' = << >>
  /\ passed' = {}
  /\ UNCHANGED << job, out, faults, torn >>

----------------------------------------------------------------------------
(* recover_dirtree                                                         *)

c == q[n]

\* The directories above o, which create_directories makes with o.
Above(o) ==
  LET up[k \in 0..Len(job.inode)] ==
        IF k = 0 THEN o ELSE IF up[k - 1] = 0 THEN 0 ELSE Ino(up[k - 1]).up
  IN {d \in Inodes : \E k \in 1..Len(job.inode) : up[k] = d}

\* A new entry in a directory changes its time.
Made(new) == [o \in Inodes |->
  IF o \in new /\ ~ out[o].there THEN New
  ELSE IF \E p \in new : ~ out[p].there /\ Ino(p).up = o THEN [out[o] EXCEPT !.time = Today]
  ELSE out[o]]

CreateDir ==
  /\ at = "dirs" /\ n <= Len(q)
  /\ out' = IF c \in Dirs THEN Made({c} \cup Above(c)) ELSE out
  /\ n' = n + 1
  /\ UNCHANGED << job, at, q, todo, buffer, faults, torn, passed >>

Fault == faults < MaxFaults /\ faults' = faults + 1

\* create_directories throws, before or behind the directories above, and
\* nothing catches it.
CreateDirFails ==
  /\ at = "dirs" /\ n <= Len(q) /\ c \in Dirs
  /\ Fault
  /\ out' \in {out, Made(Above(c))}
  /\ at' = "dead"
  /\ UNCHANGED << job, q, n, todo, buffer, torn, passed >>

EndDirs ==
  /\ at = "dirs" /\ n > Len(q)
  /\ at' = "items" /\ n' = 1
  /\ UNCHANGED << job, out, q, todo, buffer, faults, torn, passed >>

----------------------------------------------------------------------------
(* recover_iterative: DirInode::recover and FileInode::recover             *)

FaultyNextItem == n' = n + 2 /\ at' = "items" /\ todo' = << >> /\ buffer' = << >>
FaultySameItem == n' = n /\ at' = "items" /\ todo' = << >> /\ buffer' = << >>
NextItem       == n' = n + 1 /\ at' = "items" /\ todo' = << >> /\ buffer' = << >>

FaultyDirTime == out
DirTime       == [out EXCEPT ![c].time = Ino(c).mtime]

RecoverDir ==
  /\ at = "items" /\ n <= Len(q) /\ c \in Dirs
  /\ out' = DirTime
  /\ NextItem
  /\ UNCHANGED << job, q, faults, torn, passed >>

\* last_write_time throws, and nothing catches it here.
DirTimeFails ==
  /\ at = "items" /\ n <= Len(q) /\ c \in Dirs
  /\ Fault
  /\ at' = "dead"
  /\ UNCHANGED << job, out, q, n, todo, buffer, torn, passed >>

FaultySkips(o) == out[o].there /\ out[o].time > Ino(o).otime
Skips(o) == out[o].there /\ (out[o].size = Ino(o).size \/ out[o].time > Ino(o).otime)

\* Links and devices have nothing to recover.
SkipItem ==
  /\ at = "items" /\ n <= Len(q) /\ c \notin Dirs
  /\ c \in Files => Skips(c)
  /\ NextItem
  /\ UNCHANGED << job, out, q, faults, torn, passed >>

\* exists, file_size or last_write_time throws, recover catches it, and the
\* file is left as it is.
SkipFails ==
  /\ at = "items" /\ n <= Len(q) /\ c \in Files
  /\ Fault
  /\ NextItem
  /\ passed' = passed \cup {c}
  /\ UNCHANGED << job, out, q, torn >>

DirIsThere(o) == \A d \in Above(o) : out[d].there
Opened(o)     == [Made({o}) EXCEPT ![o] = New]

FileXads(o) == Extents(Ino(o).root)
Chunks(o)   == FlattenSeq([k \in DOMAIN FileXads(o) |-> Pieces(FileXads(o)[k])])

\* fopen is tried again and again, with a key to press in between.  A file
\* whose root lists nothing is left empty, whatever its size is.
Open ==
  /\ \/ at = "items" /\ n <= Len(q) /\ c \in Files /\ ~ Skips(c)
     \/ at = "blocked"
  /\ IF ~ DirIsThere(c) THEN at' = "blocked" /\ UNCHANGED << out, todo >>
     ELSE /\ out' = Opened(c)
          /\ IF Ino(c).root.xad = << >>       THEN at' = "times" /\ UNCHANGED todo
             ELSE IF Fatal \in Range(FileXads(c)) THEN at' = "dead" /\ UNCHANGED todo
             ELSE at' = "write" /\ todo' = Chunks(c)
  /\ UNCHANGED << job, q, n, buffer, faults, torn, passed >>

\* A piece where it belongs in the file.
Put(file, p) ==
  [file EXCEPT !.data = [u \in DOMAIN @ \cup Covers(p) |->
                           IF u \in Covers(p) THEN UnitAt(p, u) ELSE @[u]],
               !.size = Max({@, p.from + p.n}), !.time = Today]

Written(files, p) == [files EXCEPT ![c] = Put(@, p)]
Flushed           == IF buffer = << >> THEN out ELSE Written(out, Head(buffer))

\* The last units of a piece that are less than a buffer, and those before.
Rest(p)   == p.n % StdioBuffer
Direct(p) == [p EXCEPT !.n = p.n - Rest(p)]
Kept(p)   == [from |-> p.from + (p.n - Rest(p)), dev |-> p.dev + (p.n - Rest(p)), n |-> Rest(p)]

\* fseeko64 flushes what the last fwrite kept; fwrite hands on whole buffers
\* and keeps the rest.
WritePiece(p) ==
  /\ out' = IF p.n < StdioBuffer THEN Flushed ELSE Written(Flushed, Direct(p))
  /\ buffer' = IF Rest(p) = 0 THEN << >> ELSE << Kept(p) >>

WriteChunk ==
  /\ at = "write" /\ todo # << >> /\ ~ Refused(Head(todo))
  /\ WritePiece(Head(todo))
  /\ todo' = Tail(todo)
  /\ UNCHANGED << job, at, q, n, faults, torn, passed >>

\* The output device is full, and nobody asks fwrite.
WriteLost ==
  /\ at = "write" /\ todo # << >> /\ ~ Refused(Head(todo)) /\ Head(todo).n >= StdioBuffer
  /\ Fault
  /\ out' = Flushed /\ buffer' = << >> /\ todo' = Tail(todo) /\ torn' = torn \cup {c}
  /\ UNCHANGED << job, at, q, n, passed >>

\* read_bytes throws: save_file closes the file, and recover goes on.
ReadFails ==
  /\ at = "write" /\ todo # << >> /\ Refused(Head(todo))
  /\ out' = Flushed
  /\ NextItem
  /\ UNCHANGED << job, q, faults, torn, passed >>

EndWrite ==
  /\ at = "write" /\ todo = << >>
  /\ at' = "truncate"
  /\ UNCHANGED << job, out, q, n, todo, buffer, faults, torn, passed >>

\* ftruncate knows nothing of the buffer, and does not take less than none.
FaultyCut == [out EXCEPT ![c].time = Today]
Cut       ==
  LET size == Ino(c).size
  IN IF size < 0 THEN out ELSE
     [out EXCEPT ![c].data = [u \in DOMAIN @ \cap 0..(size - 1) |-> @[u]],
                 ![c].size = size, ![c].time = Today]

Truncate ==
  /\ at = "truncate"
  /\ out' = Cut
  /\ at' = "close"
  /\ UNCHANGED << job, q, n, todo, buffer, faults, torn, passed >>

Close ==
  /\ at = "close"
  /\ out' = Flushed
  /\ at' = "times" /\ buffer' = << >>
  /\ UNCHANGED << job, q, n, todo, faults, torn, passed >>

\* Nor fclose.
CloseLost ==
  /\ at = "close" /\ buffer # << >>
  /\ Fault
  /\ at' = "times" /\ buffer' = << >> /\ torn' = torn \cup {c}
  /\ UNCHANGED << job, out, q, n, todo, passed >>

SetTimes ==
  /\ at = "times"
  /\ out' = [out EXCEPT ![c].time = Ino(c).mtime]
  /\ NextItem
  /\ UNCHANGED << job, q, faults, torn, passed >>

\* Here recover catches what last_write_time throws.
TimesFail ==
  /\ at = "times"
  /\ Fault
  /\ NextItem
  /\ UNCHANGED << job, out, q, torn, passed >>

EndItems ==
  /\ at = "items" /\ n > Len(q)
  /\ at' = "done"
  /\ UNCHANGED << job, out, q, n, todo, buffer, faults, torn, passed >>

----------------------------------------------------------------------------

\* A kill takes the buffer with it.  The next run finds the position files
\* of the postprocessing and gets here with the same inodes and options.
Crash ==
  /\ at \notin {"down", "done", "dead"}
  /\ Fault
  /\ torn' = torn \cup (IF at \in {"write", "truncate", "close"} THEN {c} ELSE {})
  /\ at' = "down" /\ q' = << >> /\ n' = 1 /\ todo' = << >> /\ buffer' = << >>
  /\ UNCHANGED << job, out, passed >>

Step == \/ Launch \/ CreateDir \/ EndDirs \/ RecoverDir \/ SkipItem \/ Open \/ WriteChunk
        \/ ReadFails \/ EndWrite \/ Truncate \/ Close \/ SetTimes \/ EndItems

Failure == \/ CreateDirFails \/ DirTimeFails \/ SkipFails
           \/ WriteLost \/ CloseLost \/ TimesFail

Next     == Step \/ Failure \/ Crash
Spec     == Init /\ [][Next]_vars
FairSpec == Spec /\ WF_vars(Step)

----------------------------------------------------------------------------
(* Properties                                                              *)

\* Every inode that is not excluded is in the queue once, the first ones
\* before the others and the last ones behind them.
QueueIsComplete ==
  at \notin {"down"} =>
    /\ Range(q) = Inodes \ job.exclude
    /\ \A a, b \in DOMAIN q : a < b =>
         /\ q[a] # q[b]
         /\ q[b] \in job.first => q[a] \in job.first
         /\ q[a] \in job.last \ job.first => q[b] \in job.last \ job.first

Readable(f) == Sound(Ino(f).root)
Whole(f)    ==
  LET extents == Described(Ino(f).root) IN
    /\ out[f].there
    /\ \A x \in extents : \A u \in 0..(Ino(f).size - 1) :
         Lies(x, u) => u \in DOMAIN out[f].data /\ out[f].data[u] = Place(x, u)

\* A run that gets to its end has restored every file it could read, each
\* unit of it from where the extents say, but for files its skip test threw
\* on, and files an earlier kill or a full device damaged: those look as if
\* they were newer than their inodes, or as long, and are skipped.
ReadableIsRestored ==
  at = "done" => \A f \in Files \ (job.exclude \cup torn \cup passed) : Readable(f) => Whole(f)

\* A restored file is as long as its inode says, unless that cannot be, it has
\* no extents, or its last piece does not end with a buffer: the rest of it
\* is written by fclose, behind ftruncate.
SizeIsExact ==
  at = "done" =>
    \A f \in Files \ (job.exclude \cup torn \cup passed) :
      Readable(f) => \/ out[f].size = Ino(f).size
                     \/ Ino(f).size < 0
                     \/ Ino(f).root.xad = << >>
                     \/ Chunks(f) # << >> /\ Rest(Last(Chunks(f))) # 0

\* Whatever fails, nothing gets into a file that does not belong there: a
\* unit is the one an extent of the file says, or lies behind the end of the
\* device, for which stale units come out of the buffer.  No file that is
\* excluded gets any.  A page of the tree right at the end of the device is
\* the exception: it is read as what the stack holds.
NothingMisplaced ==
  \A f \in {f \in Files : out[f].data # << >>} :
    LET extents == Described(Ino(f).root) IN
      /\ f \notin job.exclude
      /\ \/ Disk.blocks \in Reached(Ino(f).root)
         \/ \A u \in DOMAIN out[f].data : \E x \in extents :
              Lies(x, u) /\ out[f].data[u] = Unit(Place(x, u))

\* No run spoils what an earlier one restored: a file that is whole, and has
\* its length and its time, is not opened again.
Restored(f)    == out[f].time = Ino(f).mtime /\ out[f].size = Ino(f).size /\ Whole(f)
RestoredIsKept == [][\A f \in Files : Restored(f) => out'[f] = out[f]]_vars

\* A directory keeps the time it was given unless an item behind it in the
\* queue lies in it.
DirTimesStay ==
  at = "done" =>
    \A a \in DOMAIN q :
      q[a] \in Dirs /\ (\A b \in DOMAIN q : Ino(q[b]).up = q[a] => b < a) =>
        out[q[a]].time = Ino(q[a]).mtime

\* Started often enough the program gets to its end: a file it died of is
\* skipped the next time, as it was created later than its inode.  Not so if
\* that lies in the future, or if a directory was excluded and a file in it
\* was not.
Curable == /\ \A f \in Files \ job.exclude : Above(f) \cap job.exclude = {}
           /\ \A f \in Files : Fatal \in Range(FileXads(f)) => Ino(f).otime < Today
Ends    == [](Curable) => <>(at = "done")

----------------------------------------------------------------------------
(* What the documentation says.                                            *)

\* README.md:11: "If an error occurs during the recovery of a file or
\* directory the process skips to the next item."
SkipsToNextItem == at \notin {"blocked", "dead"}
=============================================================================
