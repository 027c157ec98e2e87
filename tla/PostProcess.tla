---------------------------- MODULE PostProcess -----------------------------
(***************************************************************************)
(* InodeScanner::scan: the stages between the surface scan and the         *)
(* recovery, the position files they leave in the progress directory       *)
(* (InodeVector::save_positions) and the resumption from the newest of     *)
(* them (load_from_positions).                                             *)
(*                                                                         *)
(* A position file is kept as ProgressLog has it.  A kill during a save    *)
(* leaves a beginning of it; the digits behind the last newline are either *)
(* a whole offset or cut, and a cut offset, like the uninitialised one an  *)
(* empty file is read with, is the sector Junk, where nothing sane lies.   *)
(* The surface scan appears as what ScanLog shows of it.                   *)
(***************************************************************************)
EXTENDS Inodes, ProgressLog, SequencesExt

CONSTANTS
  Disks,        \* functions from sane sectors and Junk to what is read there
  Sizes,        \* the number of sectors of each of them
  Chunk,        \* sectors per chunk of the surface scan
  Junk,         \* the sector a damaged record leads to
  MaxCrashes,   \* bound on the number of kills
  MaxRemovals   \* bound on the uses of jfsrec_rm_logged_inode

ASSUME PostAssumption ==
  /\ Junk \in Nat
  /\ \A d \in Disks : /\ DOMAIN d \subseteq Nat /\ IsFiniteSet(DOMAIN d) /\ Junk \in DOMAIN d
                       /\ \A o \in DOMAIN d : d[o].number \in Nat /\ d[o].otime \in Nat /\ d[o].stamp \in Nat
  /\ Chunk \in Nat /\ Sizes \in [Disks -> Nat]
  /\ \A d \in Disks : Sizes[d] <= Junk /\ \A o \in DOMAIN d \ {Junk} : o < Sizes[d]
  /\ MaxCrashes \in Nat /\ MaxRemovals \in Nat

VARIABLES
  disk,      \* the image
  files,     \* the progress directory
  at,        \* where the process is
  stage,     \* the stage it is in
  inodes,    \* inodes_
  invalid,   \* invalidated_inodes_
  keep,      \* the indices the filter has decided to keep
  k,         \* remove_marked's loop over inodes_
  kept,      \* what it has kept so far
  crashes,
  removed,   \* history: what jfsrec_rm_logged_inode was asked to remove
  mishaps    \* history: what went wrong on the way

vars == << disk, files, at, stage, inodes, invalid, keep, k, kept, crashes, removed, mishaps >>

Sane == DOMAIN disk \ {Junk}
Size == Sizes[disk]

\* inoscan.txt, the four stage files, and invalidated.txt.
StageFiles == {"scan", "extents", "unalloc", "dupes"}
FileNames  == StageFiles \cup {"inoscan", "invalid"}
Stages     == {"scan", "stamps", "extents", "unalloc", "dupes", "end"}

Missing       == [there |-> FALSE, lines |-> << >>, tail |-> << >>]
File(ls, t)   == [there |-> TRUE, lines |-> ls, tail |-> t]
Read(f, bo)   == Records(f.lines, f.tail, bo)

FaultyAfter(s) ==
  IF      s = "scan"    THEN "stamps"
  ELSE IF s = "stamps"  THEN "extents"
  ELSE IF s \in {"extents", "unalloc"} THEN "unalloc" ELSE "end"

\* The labels of scan() in their order.
After(s) ==
  IF      s = "scan"    THEN "stamps"
  ELSE IF s = "stamps"  THEN "extents"
  ELSE IF s = "extents" THEN "unalloc"
  ELSE IF s = "unalloc" THEN "dupes" ELSE "end"

TypeOK ==
  /\ disk \in Disks
  /\ files \in [FileNames -> [there : BOOLEAN, lines : Seq(DOMAIN disk), tail : Seq(DOMAIN disk)]]
  /\ at \in {"down", "work", "sweep", "open", "write", "invopen", "invwrite", "done"}
  /\ stage \in Stages
  /\ inodes \in Seq(DOMAIN disk) /\ invalid \in Seq(DOMAIN disk) /\ kept \in Seq(DOMAIN disk)
  /\ keep \subseteq Nat /\ k \in Nat
  /\ crashes \in 0..MaxCrashes /\ removed \subseteq Sane /\ Cardinality(removed) <= MaxRemovals
  /\ mishaps \subseteq {"resumed", "reloaded", "cut", "gap", "cutinvalid", "junk", "removedlast"}

Init ==
  /\ disk \in Disks
  /\ files = [f \in FileNames |-> Missing]
  /\ at = "down" /\ stage = "scan"
  /\ inodes = << >> /\ invalid = << >> /\ keep = {} /\ k = 1 /\ kept = << >>
  /\ crashes = 0 /\ removed = {}
  /\ mishaps = {}

----------------------------------------------------------------------------
(* Starting: scan() looks for the newest stage file                        *)

Newest ==
  IF      files["dupes"].there   THEN "dupes"
  ELSE IF files["unalloc"].there THEN "unalloc"
  ELSE IF files["extents"].there THEN "extents"
  ELSE IF files["scan"].there    THEN "scan"
                                 ELSE "none"

LaunchScan ==
  /\ at = "down" /\ Newest = "none"
  /\ at' = "work" /\ stage' = "scan"
  /\ inodes' = << >> /\ invalid' = << >> /\ keep' = {} /\ k' = 1 /\ kept' = << >>
  /\ UNCHANGED << disk, files, crashes, removed, mishaps >>

FaultyInvalid(last) == << >>

\* A missing invalidated.txt is not read; an empty one is read with the bo
\* the loop over the stage file left behind.
LoadInvalid(last) ==
  IF files["invalid"].there THEN Read(files["invalid"], last) ELSE << >>

FaultyStageOf(f) == After(After(f))
StageOf(f)       == After(f)

\* load_from_positions.  What lies at Junk may be no inode at all: then
\* read_from_disk throws or returns NULL, and the program dies.
Load ==
  /\ at = "down" /\ Newest # "none"
  /\ inodes' = Read(files[Newest], Junk)
  /\ invalid' = LoadInvalid(Last(inodes'))
  /\ stage' = StageOf(Newest)
  /\ LET junk == Junk \in Range(inodes') \cup Range(invalid') IN
       /\ at' \in (IF junk THEN {"down"} ELSE {})
                    \cup {IF stage' = "end" THEN "done" ELSE "work"}
       /\ mishaps' = mishaps \cup (IF junk THEN {"junk"} ELSE {})
                             \cup (IF Newest = "scan" THEN {"reloaded"} ELSE {})
  /\ keep' = {} /\ k' = 1 /\ kept' = << >>
  /\ UNCHANGED << disk, files, crashes, removed >>

----------------------------------------------------------------------------
(* The stage "scan": do_scan, resumed or not, as ScanLog shows it          *)

\* The elements of a set of numbers in increasing order.
Sorted(s) ==
  [n \in 1..Cardinality(s) |-> CHOOSE x \in s : Cardinality({y \in s : y <= x}) = n]

\* What is left of the vector v at the indices is.
Pick(v, is) == LET order == Sorted(is) IN [n \in 1..Cardinality(is) |-> v[order[n]]]

\* What is loaded from inoscan.txt, and what a scan behind its last record
\* finds.  Behind a damaged record the scan starts anywhere.
Resumed == IF files["inoscan"].there THEN Read(files["inoscan"], Junk) ELSE << >>

Behind ==
  IF Resumed = << >> THEN {Sorted(Sane)}
  ELSE IF Last(Resumed) = Junk THEN {Sorted({s \in Sane : s > n}) : n \in Sane}
  ELSE {Sorted({s \in Sane : s > Last(Resumed)})}

ScanMishaps == (IF files["inoscan"].there THEN {"resumed"} ELSE {})
               \cup (IF Junk \in Range(Resumed) THEN {"junk"} ELSE {})

\* Where do_scan gives up: ScanLog's ExitsOnlyAtEdges.
AtTheEdge == Size < Chunk \/ (Resumed # << >> /\ Last(Resumed) = Size - 1)

DoScan ==
  /\ at = "work" /\ stage = "scan" /\ ~ AtTheEdge
  /\ \E new \in Behind :
       /\ inodes' = Resumed \o new
       /\ files' = [files EXCEPT !["inoscan"] = File(@.lines \o new, << >>)]
  /\ mishaps' = mishaps \cup ScanMishaps
  /\ at' = "open"
  /\ UNCHANGED << disk, stage, invalid, keep, k, kept, crashes, removed >>

\* exit(1): at the edges once everything is logged, and where what a damaged
\* record leads to cannot be read.
ScanExits ==
  /\ at = "work" /\ stage = "scan"
  /\ \/ /\ AtTheEdge
        /\ \E new \in Behind :
             files' = [files EXCEPT !["inoscan"] = File(@.lines \o new, << >>)]
     \/ Junk \in Range(Resumed) /\ UNCHANGED files
  /\ mishaps' = mishaps \cup ScanMishaps
  /\ at' = "down"
  /\ UNCHANGED << disk, stage, inodes, invalid, keep, k, kept, crashes, removed >>

\* A kill leaves the first lines; ScanLog treats a kill that leaves none.
ScanKilled ==
  /\ at = "work" /\ stage = "scan" /\ crashes < MaxCrashes
  /\ \E new \in Behind : \E n \in 0..Len(new) :
       /\ files["inoscan"].lines \o SubSeq(new, 1, n) # << >>
       /\ files' = [files EXCEPT !["inoscan"] = File(@.lines \o SubSeq(new, 1, n), << >>)]
  /\ mishaps' = mishaps \cup ScanMishaps
  /\ crashes' = crashes + 1
  /\ at' = "down"
  /\ UNCHANGED << disk, stage, inodes, invalid, keep, k, kept, removed >>

----------------------------------------------------------------------------
(* The filters: mark, then remove_marked or remove_unmarked                *)

Keep(s, v) ==
  CASE s = "stamps"  -> KeepStamps(disk, v)    [] s = "extents" -> KeepExtents(disk, v)
    [] s = "unalloc" -> KeepAllocated(disk, v) [] s = "dupes"   -> KeepLatest(disk, v)

Mark ==
  /\ at = "work" /\ stage # "scan"
  /\ keep' = Keep(stage, inodes)
  /\ k' = 1 /\ kept' = << >>
  /\ at' = "sweep"
  /\ UNCHANGED << disk, files, stage, inodes, invalid, crashes, removed, mishaps >>

FaultyForgets == kept' = kept /\ invalid' = invalid
FaultyNoErase == kept' = Append(kept, 0) /\ invalid' = Append(invalid, inodes[k])

\* An inode that is not kept is not forgotten: it may be validated later.
Invalidate == kept' = kept /\ invalid' = Append(invalid, inodes[k])

Sweep ==
  /\ at = "sweep" /\ k <= Len(inodes)
  /\ IF k \in keep THEN kept' = Append(kept, inodes[k]) /\ UNCHANGED invalid
                   ELSE Invalidate
  /\ k' = k + 1
  /\ UNCHANGED << disk, files, at, stage, inodes, keep, crashes, removed, mishaps >>

\* The NULLs are erased.  Behind filter_inostamps nothing is saved.
EndSweep ==
  /\ at = "sweep" /\ k > Len(inodes)
  /\ inodes' = kept
  /\ IF stage = "stamps" THEN at' = "work" /\ stage' = "extents"
                         ELSE at' = "open" /\ stage' = stage
  /\ keep' = {} /\ k' = 1 /\ kept' = << >>
  /\ UNCHANGED << disk, files, invalid, crashes, removed, mishaps >>

----------------------------------------------------------------------------
(* save_positions                                                          *)

Advance ==
  /\ stage' = After(stage)
  /\ at' = IF stage' = "end" THEN "done" ELSE "work"

\* open(fn, ios::out) truncates.
SaveOpen ==
  /\ at = "open"
  /\ files' = [files EXCEPT ![stage] = File(<< >>, << >>)]
  /\ at' = "write"
  /\ UNCHANGED << disk, stage, inodes, invalid, keep, k, kept, crashes, removed, mishaps >>

SaveWrite ==
  /\ at = "write"
  /\ files' = [files EXCEPT ![stage] = File(inodes, << >>)]
  /\ IF invalid # << >> THEN at' = "invopen" /\ UNCHANGED stage ELSE Advance
  /\ UNCHANGED << disk, inodes, invalid, keep, k, kept, crashes, removed, mishaps >>

InvOpen ==
  /\ at = "invopen"
  /\ files' = [files EXCEPT !["invalid"] = File(<< >>, << >>)]
  /\ at' = "invwrite"
  /\ UNCHANGED << disk, stage, inodes, invalid, keep, k, kept, crashes, removed, mishaps >>

FaultyWritten == File(<< >>, << >>)
InvWritten    == File(invalid, << >>)

InvWrite ==
  /\ at = "invwrite"
  /\ files' = [files EXCEPT !["invalid"] = InvWritten]
  /\ Advance
  /\ UNCHANGED << disk, inodes, invalid, keep, k, kept, crashes, removed, mishaps >>

----------------------------------------------------------------------------
(* Kills, and jfsrec_rm_logged_inode                                       *)

\* What a save of the sequence s that is cut can leave.
Beginnings(s) ==
  {File(SubSeq(s, 1, n), << >>) : n \in 0..Len(s)} \cup
  UNION {{File(SubSeq(s, 1, n - 1), << t >>) : t \in {s[n], Junk}} : n \in DOMAIN s}

Whole(f, s) == f.lines \o f.tail = s

\* At "done" the process goes on to the recovery, which may be killed too.
Crash ==
  /\ at # "down" /\ ~ (at = "work" /\ stage = "scan")
  /\ crashes < MaxCrashes
  /\ crashes' = crashes + 1
  /\ \/ /\ at \notin {"write", "invwrite"}
        /\ UNCHANGED files
        /\ mishaps' = mishaps \cup (IF at = "invopen" THEN {"gap"} ELSE {})
     \/ /\ at = "write"
        /\ \E f \in Beginnings(inodes) :
             /\ files' = [files EXCEPT ![stage] = f]
             /\ mishaps' = mishaps \cup (IF ~ Whole(f, inodes) THEN {"cut"} ELSE {})
                                   \cup (IF invalid # << >> THEN {"gap"} ELSE {})
     \/ /\ at = "invwrite"
        /\ \E f \in Beginnings(invalid) :
             /\ files' = [files EXCEPT !["invalid"] = f]
             /\ mishaps' = mishaps \cup (IF ~ Whole(f, invalid) THEN {"cutinvalid"} ELSE {})
  /\ at' = "down"
  /\ UNCHANGED << disk, stage, inodes, invalid, keep, k, kept, removed >>

Without(s, o) == Pick(s, {n \in DOMAIN s : s[n] # o})

FaultyStrip(n, o) ==
  IF n = "invalid" THEN files[n]
  ELSE [files[n] EXCEPT !.lines = Without(@, o), !.tail = Without(@, o)]

\* sed -i '/^o$/d' on every file that is there.
Strip(n, o) == [files[n] EXCEPT !.lines = Without(@, o), !.tail = Without(@, o)]

\* The script wants the inode in inoscan.txt.  Without a stage file the
\* scan is resumed, and finds a removed last inode again.
RmLogged(o) ==
  /\ at = "down" /\ Cardinality(removed) < MaxRemovals
  /\ o \in Range(files["inoscan"].lines)
  /\ files' = [n \in FileNames |-> Strip(n, o)]
  /\ removed' = removed \cup {o}
  /\ mishaps' = mishaps \cup
       (IF Newest = "none" /\ o = Last(files["inoscan"].lines) THEN {"removedlast"} ELSE {})
  /\ UNCHANGED << disk, at, stage, inodes, invalid, keep, k, kept, crashes >>

Step == \/ LaunchScan \/ Load \/ DoScan \/ ScanExits \/ Mark \/ Sweep \/ EndSweep
        \/ SaveOpen \/ SaveWrite \/ InvOpen \/ InvWrite

Next == Step \/ ScanKilled \/ Crash \/ \E o \in Sane : RmLogged(o)

Spec     == Init /\ [][Next]_vars
FairSpec == Spec /\ WF_vars(Step)

----------------------------------------------------------------------------
(* Properties                                                              *)

\* What the postprocessing of an uninterrupted run leaves of the scan's vector.
Filtered(s, v) == Pick(v, Keep(s, v))
Fresh ==
  Filtered("dupes", Filtered("unalloc", Filtered("extents", Filtered("stamps", Sorted(Sane)))))

\* Mishaps that damage a position file, or lose what one was to hold.
Damage == {"cut", "gap", "cutinvalid", "junk"}

\* What the process knows of: every inode is valid, invalidated, or waiting
\* to be swept.
Valid == IF at = "sweep" THEN Range(kept) \cup {inodes[n] : n \in k..Len(inodes)}
                         ELSE Range(inodes)
Known == Range(invalid) \cup Valid

\* The vectors have been filled.
Live == at # "down" /\ ~ (at = "work" /\ stage = "scan")

\* No inode the scan found is ever forgotten: through kills and resumptions
\* it stays among the valid or the invalidated ones, from where the recovery
\* can take it back, unless a position file was damaged.
NothingForgotten ==
  Live /\ mishaps \cap Damage = {} /\ removed = {} => Sane \subseteq Known

\* The filters see what an uninterrupted run shows them: a record that was
\* read twice shifts the inostamp counts and tears an extent apart.
Undisturbed ==
  /\ mishaps \cap (Damage \cup {"resumed"}) = {} /\ removed = {}
  /\ "reloaded" \in mishaps => Cardinality(Stamps(disk, Sorted(Sane))) = 1

\* A postprocessing that is killed and resumed from its position files keeps
\* the inodes an uninterrupted one keeps (InodeScanner::scan's labels).
RestartEquivalence == at = "done" /\ Undisturbed => Range(inodes) = Range(Fresh)

\* The recovery is handed one inode per number, whatever was killed, resumed
\* or loaded twice (remove_dupes, which the index of InodeVector relies on).
OnePerNumber ==
  at = "done" /\ mishaps \cap Damage = {} =>
    \A x, y \in Range(inodes) : disk[x].number = disk[y].number => x = y

\* detect_ino_extents invalidates no inode of a full extent that reaches it,
\* the vector's first and last extents and extents side by side included.
FullExtents == {x \in Sane : \E a \in (x - ExtentLen + 1)..x : \A d \in 0..(ExtentLen - 1) :
                  /\ a + d \in Sane
                  /\ disk[a + d].number = disk[a].number + d
                  /\ disk[a + d].stamp = disk[a].stamp}
FilteredOut(x) == LET all == Sorted(Sane) IN
  OneStampOnly(disk, all) /\ disk[x].stamp # MostCommon(disk, all)
FullExtentsSurvive ==
  at = "open" /\ stage = "extents" /\ Undisturbed =>
    \A x \in FullExtents : x \in Range(inodes) \/ FilteredOut(x)

\* An inode taken out of the logs by jfsrec_rm_logged_inode is in neither
\* vector again, unless it was the last record a scan resumes behind.
RemovedStaysAway ==
  at = "done" /\ mishaps \cap (Damage \cup {"removedlast"}) = {} =>
    removed \cap (Range(inodes) \cup Range(invalid)) = {}

\* The postprocessing implements FilterChain: the newest stage file and
\* invalidated.txt are its checkpoint, which counts as there while it is
\* written, and the removal loop goes on inode by inode.
Rank(s) ==
  IF      s = "scan"    THEN 1
  ELSE IF s = "stamps"  THEN 2
  ELSE IF s = "extents" THEN 3
  ELSE IF s = "unalloc" THEN 4
  ELSE IF s = "dupes"   THEN 5 ELSE 6

\* The records a file holds.
In(f) == IF f.there THEN Range(f.lines) \cup Range(f.tail) ELSE {}

Saving  == {"write", "invopen", "invwrite"}
Spoilt  == mishaps \cap (Damage \cup {"removedlast"}) # {}
Nothing == [phase |-> 0, valid |-> {}, aside |-> {}]
Held    == [phase |-> IF at \in {"work", "sweep", "done"} THEN Rank(stage) - 1 ELSE Rank(stage),
            valid |-> Valid, aside |-> Range(invalid)]

Chain == INSTANCE FilterChain WITH
  all   <- IF Spoilt THEN {} ELSE Sane \ removed,
  now   <- IF Spoilt \/ ~ Live THEN Nothing ELSE Held,
  saved <- IF Spoilt THEN Nothing
           ELSE IF at \in Saving THEN Held
           ELSE IF Newest = "none" THEN Nothing
           ELSE [phase |-> Rank(Newest), valid |-> In(files[Newest]), aside |-> In(files["invalid"])],
  void  <- Spoilt

\* Every step, kills, resumptions and the script included, is one FilterChain
\* allows: no run goes back behind a checkpoint or past what it holds, and no
\* filter loses an inode or takes one back.
IsAFilterChain == Chain!Spec

\* On a device of at least a chunk whose last sector is no inode every launch
\* gets through to the recovery in the end, unless a damaged record leads to a
\* sector that holds no inode.  At the edges do_scan exits again and again.
ReachesRecovery ==
  /\ Size >= Chunk /\ Size - 1 \notin Sane
  /\ []("junk" \notin mishaps)
  => <>(at = "done")

----------------------------------------------------------------------------
(* What the documentation and a comment say, without the conditions above. *)

\* README.md:30: "These logs are used to continue the work if the process
\* was interrupted (currently only in the scan and postprocess phases)".
\* The inodes the scan had logged are there for the recovery.
LogsCarryOn == at = "done" /\ removed = {} => Sane \subseteq Known

\* The same claim where every position file was written whole: the work that
\* is continued ends as it would have without the interruption.
WorkIsContinued ==
  at = "done" /\ removed = {} /\ mishaps \cap Damage = {} => Range(inodes) = Range(Fresh)

\* inodescanner.cpp:333: "if the most common inostamp is more than 100 times
\* more common than the second most common inostamp, save only the most
\* common."
StampsFilteredAsCommented ==
  at = "sweep" /\ stage = "stamps" /\ keep # DOMAIN inodes =>
    LET best == MostCommon(disk, inodes) IN
    \A t \in Stamps(disk, inodes) \ {best} :
      Count(disk, inodes, best) > StampRatio * Count(disk, inodes, t)
=============================================================================
