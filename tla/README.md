# jfsrec: models, checks and proofs

jfsrec extracts files from a damaged JFS image without writing to it. It runs
for hours or days and is expected to be killed and started again, so most of
what can go wrong happens between two runs, or where the program follows
something a damaged disk says: logs cut in the middle, records read twice,
stages entered at the wrong place, half-written files, circles of pages. These
modules model the program phase by phase, TLC checks them on small images, and
TLAPS proves the central properties of every phase for images of any size.

File names below are relative to `src/src/` unless they start with `README`
(the program's own `README.md`, at `src/`).

## 1. The system

`main` (`jfsrec.cpp`) is a straight line: parse the options, open the device,
`InodeScanner::scan`, `Recoverer::recover`. There is one thread. The parts
share three things: the **device** (read only, never changes), the
**progress directory** (`--logdir`), which carries work from one run to the
next, and the **output directory** (`--output`), which also survives a kill.
Inside one run the `InodeVector` is handed from part to part by reference.

    device --> InodeScanner --> InodeVector --> Recoverer --> output directory
                  |   ^             |   ^           |
                  v   |             v   |           +-- DirInode (directory trees)
               inoscan.txt      post-*.txt          +-- FileInode (extent trees)
                                invalidated.txt

### Inventory

| component | state | operations | what is hard | what makes it correct |
|---|---|---|---|---|
| Surface scan (`inodescanner.cpp` 35-137) | chunk offset, sector in the chunk, `inoscan.txt` with its buffer | `restore`, the chunk loop, the rest of the device, `exit(1)` | kills between a find and its flush; the eof loop that reads the last record twice; a cut last line; unsigned arithmetic at the edges | a scan that ends has found every sane sector and nothing else, however often it was killed |
| Postprocessing (`inodescanner.cpp` 139-381) | stage, four stage files | `scan` with its labels, `filter_inostamps`, `detect_ino_extents`, `remove_unallocated` | saves that are not atomic; entering at the right label; a stage that saves nothing; duplicates in the vector | a chain of filters with checkpoints: an inode is valid or invalidated, never lost; full extents survive |
| `InodeVector` (`inodevector.cpp`) | `inodes_`, `invalidated_inodes_`, the index by inode number and its flag | `add_inode`, look-ups, `remove_*`, `save_positions`, `load_from_positions` | an index kept up to date by hand; two files per save | the index says what a fresh one would; one inode per number |
| Recoverer, relations (`recoverer.cpp` 148-286) | `parent_`, `name_`, `roots_` | `find_directory_parents`, `find_file_parents_and_names`, `find_roots` | loops over a vector that grows; references from damaged directories, wrong, missing and circular; invalidated inodes taken back | nothing that is listed is left out; name and parent belong together; no two inodes get one path; the walks end |
| Recoverer, output (`recoverer.cpp` 45-145) | the queue | `generate_prio_queue`, `recover_dirtree`, `recover_iterative` | three expressions that overlap; directories before files; a rerun over old output; calls that throw | every inode is queued once; excluded files are not written |
| `FileInode` (`fileinode.cpp`) | the output file and its stdio buffer | `recover`, `save_file`, extent-tree walk, `write_extent_to_file` | the test that skips a file; `ftruncate` past the buffer; exception specifications; 32-bit lengths; results nobody looks at; an endless retry | readable files are restored whole and with their length, every byte from where the extents say; later runs leave them alone |
| `DirInode` (`dirinode.cpp`) | none of its own | `extract_inode_names`, `descend`, `next_leaf`, `get_direntry`, `create_dir`, `recover` | block, slot and sibling indices straight from the disk | a sound directory is listed whole; damage costs what lies behind it and nothing else; no write leaves the name's buffer |
| `Inode` (`inode.cpp`) | offset, number, parent, name, cached dinode | `get_root`, `get_full_path`, `set_mtime` | circles of parents | the walks end |
| `InodeFactory` | none | `create_if_sane`, `read_from_disk` | logged offsets are not tested again; NULL for unknown modes | what is logged is sane |
| `Device` (`device.cpp`) | file, block size, size | `open`, `read_bytes`, `get_size_bytes` | reads at and behind the end, reads of 0 bytes, short reads | refuses what is not there |
| `Options` | directories, block size, three expressions | `init` | `skip-unsane-extents` is stored and read by nothing | |
| `jfsrec_rm_logged_inode` | the progress directory, between runs | remove an offset from every log | the next run may find it again | a removed inode stays away |
| Unicode (`unicode_to_utf8.cpp`) | none | units of a name to UTF-8 | where the number of bytes changes, halves of surrogate pairs, zeros | two names do not become one |
| JFS headers, build | none | field access | widths | |

`PROJECT.json` lists the same components with what is left out of each, and
the hazards with their lines and the properties that cover them.

## 2. The modules

| module | models |
|---|---|
| `ProgressLog` | the text logs: what the `while (!f.eof())` loop makes of a file, what a cut write leaves, how an appended line glues to a cut one |
| `ScanLog` | `InodeScanner::restore` and `do_scan` over the device and `inoscan.txt`, with kills |
| `ResumableScan` | what a surface scan promises, without chunks, buffers or a log; `ScanLog` implements it |
| `Inodes` | the decisions of the filters, as pure operators on a vector |
| `PostProcess` | `InodeScanner::scan`, the filters' removal loops, `save_positions`, `load_from_positions`, kills, `jfsrec_rm_logged_inode` |
| `FilterChain` | what the postprocessing promises, without files or vectors; `PostProcess` implements it |
| `Unicode` | names from 16-bit units to UTF-8, and a strict reader of it as the reference |
| `DirWalk` | what `extract_inode_names` reads of a directory's pages and slots |
| `Relations` | `Recoverer`'s parent, name and root loops with `InodeVector`'s index; `get_root`, `get_full_path` |
| `ExtentTree` | a file's extents: the pages of its tree, the pieces `write_extent_to_file` copies, and a reference for both |
| `Restore` | the queue, the directory tree and `FileInode::recover` over an output directory, with kills and calls that fail |
| `MC_*` | the small images, directories, worlds and jobs TLC runs each module on |
| `*_proofs`, `PostProcess_restart` | theorems about the module of that name |
| `SequenceLemmas` | what those modules share: least numbers, and what flattening a sequence of sequences yields |

How they meet. The scan appears in `PostProcess` as the one action `DoScan`,
which does what `ScanLog` shows the scan to do (all sane sectors, those loaded
from the log first, the last record twice, any starting point behind a damaged
record). `Relations` starts from any pair of vectors the postprocessing can
leave; that includes a vector with its last element twice, because
`load_from_positions` adds it twice and `remove_dupes` does not run behind
`post-remove_dupes.txt`. What a directory lists is given there as what
`DirWalk` shows a walk can end with: a list, perhaps a wrong or short one, or
the death of the program in a circle of pages. `Restore` extends `ExtentTree`,
whose pieces its files are written in, and starts from inodes with parents and
paths of their own, which `Relations` establishes (`PathsDiffer`).

### ScanLog

`devsize` and `sane` are the device; `lines`, `flushed` and `tail` are
`inoscan.txt` (`lines` with what is still in the stream buffer, `flushed` how
many lines have reached the file, `tail` digits without a newline at its end);
`pc`, `i` and `cur` are the place in `do_scan`; `found` is the `InodeVector`;
`spoilt` is a history variable that remembers what kind of damaged log a run
has resumed from.

| action | code |
|---|---|
| `StartFresh`, `Resume` | `restore`: no log; the eof loop, the reopening with `ios::app`, the resume offset |
| `ReadChunk`, `ScanChunkSector`, `EndChunk` | the loop of lines 77-104, one sector at a time, the flush at its end |
| `ReadTail`, `ScanTailSector`, `EndScan` | lines 106-125, flushed line by line (`endl`) |
| `Crash` | a kill: some prefix of the unflushed lines reaches the file, perhaps with a cut line behind it, because a full buffer spills at any byte |

An uninitialised `bo` (an empty log) is a choice from `Garbage`: inside the
device, not on a sector, behind the end. Subtraction wraps at `Word`.

### PostProcess and FilterChain

`files` is the progress directory; `at` and `stage` are the place in `scan`;
`inodes` and `invalid` are the two vectors; `keep`, `k` and `kept` are a filter
between its decision and the end of its removal loop; `removed` and `mishaps`
are history.

| action | code |
|---|---|
| `LaunchScan`, `Load` | the tests for the stage files, newest first, `load_from_positions`, the `goto` |
| `DoScan`, `ScanKilled` | `do_scan`, as shown by `ScanLog` |
| `ScanExits` | its `exit(1)`: at the two edges `ScanLog` shows, and behind a damaged record |
| `Mark`, `Sweep`, `EndSweep` | each filter: its marks (operators of `Inodes`), `remove_marked` or `remove_unmarked` element by element, the erasure |
| `SaveOpen`, `SaveWrite`, `InvOpen`, `InvWrite` | `save_positions`: truncate, write, and the same for `invalidated.txt` if there is anything to write |
| `Crash` | a kill anywhere; inside a write any beginning of the file, the last line cut or not |
| `RmLogged` | one use of `jfsrec_rm_logged_inode` between two runs |

A cut number leads to the sector `Junk`, where nothing sane lies: there the
program either takes something for an inode or dies.

`FilterChain` knows two sets of inodes and a phase, and a checkpoint of the
three. Its steps are a scan that finds everything, a filter that moves inodes
from one set to the other, a checkpoint, a kill that leaves the checkpoint, a
resumption that is where the checkpoint was made, and the removal of an inode
from everything. `PostProcess` maps to it with the newest stage file and
`invalidated.txt` as the checkpoint. The one freedom a reader would not expect
is in `Resume`: when the script has emptied `invalidated.txt`, the loop reads
it with the offset left over from the stage file, and the last valid inode is
invalidated as well.

### DirWalk and Unicode

`dir` is a directory and its device; `page` and `i` are the page in memory and
the entries of it that were read; `entry` holds the locals of `get_direntry`;
`depth` counts the calls on the stack; `vin` is the result. A slot is a record
of the fields of all the uses of the union, and a slot that is not in the page
is what lies behind it in memory (`Strays`). At the end of the device
`read_bytes` reads nothing, and `descend` uses what its local holds: a page of
this directory or, from the walk of another one, of `Foreign`.

| action | code |
|---|---|
| `ReadInode` | `extract_inode_names`: leaf root or inner root |
| `Descend` | `descend`: the first entry, the test of its address, the page |
| `StartEntry`, `NextSlot`, `EndEntry` | `get_direntry`: the buffer for `namlen` units, the chain of slots with the set `rec`, the conversion |
| `RefuseLeaf`, `NextLeaf` | `next_leaf`: the `nextindex` of -1, the sibling, `read_bytes` at and behind the end of the device |

A page that was damaged after JFS wrote it is part of the directory, so each
directory also says what JFS wrote (`spine`, `leaves`, `holds`, `chains`) and
what was done to it (`hit`, `harm`): the properties compare the two.
`WrittenAssumption` ties them to the pages: the pages that are not `hit` lead
down the `spine` and along the `leaves`, each sound leaf has its entries in the
`chains` of slots, and if the harm is to links only, every leaf lists what it
did and links lead to leaves or nowhere. TLC evaluates it on all the
directories of the run.

### Relations

One action per loop round: `FindParent` (with the two ways a parent is found),
`FindName` for one directory entry, `NameByNumber`, `NameRoot`, `FindRoot`,
`CreateDir`. `index` and `indexOk` are `di_number_index_` and its flag; every
look-up goes through them as `get_by_di_number` does. What a directory lists is
given, and can be anything, so a directory page that cannot be read is one of
the cases. `WalkDies` is the walk that does not end (`circles`), and a path
that never ends (`get_full_path` in a circle of parents) is the other death of
the program.

### ExtentTree and Restore

`ExtentTree` has no variables: `Extents` is what `get_leaf_xads`,
`get_internal_xads` and `get_internal_xtpage` make of a root, `Pieces` the
rounds of `write_extent_to_file` with the 32-bit product of length and block
size. `Described`, `Lies`, `Place` and `Sound` are the reference: which extents
the tree has by reachability, and where a unit of the file lies by them.

In `Restore`, `out` is the output directory: for each inode whether it exists,
which units of it were written and from where, its length and its time. `todo`
is what is left of the file's pieces. `buffer` is the stdio buffer: `fwrite`
passes whole buffers on (`Direct`) and keeps the rest of the piece (`Kept`),
`fseeko64` and `fclose` flush, `ftruncate` does not. Time is in days and `Today` is the clock of the output
file system.

| action | code |
|---|---|
| `Launch` | `Recoverer::recover` and `generate_prio_queue`, in the first run and after a kill or a death |
| `CreateDir`, `EndDirs` | `recover_dirtree`, `DirInode::create_dir` with `create_directories` |
| `RecoverDir`, `SkipItem` | `DirInode::recover`; the skip test of `FileInode::recover`, and the inodes that restore nothing |
| `SkipFails` | the skip test throws, `recover` catches it and passes over the file |
| `Open` | `fopen64` and its endless retry; the extent tree, whose unreadable inner page ends the program because `get_internal_xtpage` may throw only `extent_error` |
| `WriteChunk`, `ReadFails`, `EndWrite` | `write_extent_to_file` piece by piece; the exception path through `save_file` and `recover` |
| `Truncate`, `Close`, `SetTimes` | the end of `save_file`, `set_mtime` |
| `CreateDirFails`, `DirTimeFails` | what nothing catches: the program ends |
| `WriteLost`, `CloseLost`, `TimesFail` | `fwrite` and `fclose` whose results nobody looks at; what `recover` catches |
| `Crash` | a kill, which takes the stdio buffer with it |

## 3. What is checked

| run | bounds | distinct states | shows |
|---|---|---|---|
| `scan_log` | devices of 1-6 sectors, any set of sane ones, chunks of 2 sectors, 2 kills, 3 garbage offsets | 34 thousand | the scan's properties below, and that it implements `ResumableScan` |
| `post_process` | 7 images of 1-8 inodes, chunks of 4 sectors, extents of 4 inodes, stamp ratio 2, 2 kills, 1 removal | 840 thousand | the postprocessing's properties, and that it implements `FilterChain` |
| `dir_walk` | a directory in its inode, an empty one, one of three leaves, one of two levels; each whole and with one field of one page damaged; another directory's page on the stack | 21 thousand | the walk's properties |
| `relations` | 10752 hand-overs of up to 5 numbers: two valid inodes, three invalidated ones, every mix of parents, kinds, lists and circles | 249 thousand | the relations' properties |
| `restore` | 342 jobs: two nested directories, two files, two disk orders, fourteen kinds of files, every mix of the expressions, 2 faults | 219 thousand | the output phase's properties |
| `scan_resume`, `post_dup`, `post_cut`, `post_stamps`, `relations_cycle`, `relations_latest`, `restore_skips` | as above | | one disagreement each, section 5 |

Why the bounds are enough. *Scan*: with chunks of two sectors a device of six
has two full chunks and a rest, one of five a rest of one, one of two or fewer
is smaller than a chunk or just as large; two kills give a resumption of a
resumed run, which is where a record that was read twice could be written
twice. *Postprocess*: the images are chosen for the decisions, one each: two
extents side by side with the same numbers (duplicates by time, by order and by
allocation; an extent at index 0), a short run behind a stray inode, an older
generation before and behind the younger one in the map's order, an extent with
mixed stamps, and the two edges of the scan, a device smaller than a chunk and
one whose last sector is an inode. Two kills reach every stage from every stage file, twice. Extents
of four instead of 32 and a ratio of two instead of 100 shift the thresholds
and leave the comparisons as they are. *DirWalk*: two units in a first slot and
three in the others (11 and 15 in JFS) put names of 0 to 9 units through no,
one, two and three further slots, filled and not; the units are those where
UTF-8 changes its length, and halves of surrogate pairs. The damage is every
link to every leaf, to the page itself, to zero, to the end of the device and
behind it, and for every other field a value of each kind: negative, zero, too
small, too large, out of the page. What lies on the stack when nothing is read
is a page of this directory, of another one (`Foreign`), or nothing. Seven calls on the stack are more than the
deepest sound directory needs, and fewer than a circle takes; no directory of
the run has a chain of seven pages, so there the third case of
`DiesOnCirclesOnly` excuses nothing.
*Relations*: two invalidated
inodes share a number, one of them lists a third, so a chain of two is taken
back; the parents make circles of length one and two and point to a number that
is not there. *Restore*: with a block of two units, a buffer of six and a stdio
buffer of four a full piece leaves a rest of two in the buffer, and a last piece
ends with a buffer, is less than one, or is more than one; products wrap at 16,
so that an extent of nine blocks is too long. (In the program a piece has up to
`buffsize_` bytes and `fwrite` hands on multiples of the file system's block.)
The files are whole with each of these last pieces, backwards, unreadable in the second extent,
over the end of the device, too long for 32 bits, below an inner root, without
extents, from the future, of a size below zero, and below pages that are behind the device, right at
its end, and in a circle. Two faults are two kills, or a full device and the
kill in the rerun over what it left.

### Properties

| property | says |
|---|---|
| `ScanComplete` | a finished scan has every sane sector, kills or not |
| `NoPhantom` | it has nothing else, although a resumed run does not test what it loads |
| `FoundInOrder` | it is in device order with at most one duplicate |
| `ScannedIsLogged` | a kill costs at most the current chunk |
| `ExitsOnlyAtEdges` | the scan gives up on two kinds of device only |
| `RecordsAreKept` | no run takes back a record that is in the file |
| `RunsEnd`, `EventuallyScanned` | every run ends; and, outside the edges, with a finished scan |
| `KeepsItsPromise` | every step is a step of `ResumableScan` |
| `NothingForgotten` | every inode is valid or invalidated or about to be swept |
| `RestartEquivalence` | a killed and resumed postprocessing keeps what an uninterrupted one keeps |
| `OnePerNumber` | the recovery is handed one inode per number |
| `FullExtentsSurvive` | no inode of a full extent is invalidated by the extent filter |
| `RemovedStaysAway` | an inode taken out by the script does not come back |
| `ReachesRecovery` | outside the edges of the scan every launch gets to the recovery |
| `IsAFilterChain` | every step is a step of `FilterChain` |
| `DamageCostsOnlyTheRest` | a sound directory is listed whole and in order, a damaged one up to the page that is damaged |
| `NothingIsInvented` | a wrong link costs entries, and adds none and none twice |
| `InsideTheBuffer` | no chain of slots writes outside a name's buffer, which is filled exactly as far as `namlen` was used up |
| `DiesOnCirclesOnly` | only circles of pages, the block behind the last, and chains of as many pages as the stack has room for take the stack |
| `WalkEnds` | every walk ends in one way or the other |
| `IndexIsExact` | the index kept by hand is the one that would be generated |
| `TakenBackOnce` | no number is taken back that is there already |
| `NothingListedIsLeft` | what a valid directory lists is valid, transitively, if it was found at all |
| `NamedWhereItLies` | a name and the parent it belongs to come from one entry |
| `PathsDiffer` | two inodes are not restored to one path |
| `RootsCover` | every inode has one of the roots above it, circles or not |
| `LoopsEnd` | the loops over the growing vector end |
| `QueueIsComplete` | every inode that is not excluded is queued once, in its class |
| `ReadableIsRestored`, `SizeIsExact` | readable files are whole, every unit from where their extents say, and as long as their inodes say |
| `NothingMisplaced` | whatever fails, a unit of a file is the one its extents say or a stale one from behind the end of the device; an excluded file gets none |
| `DirTimesStay` | a directory keeps its time unless something behind it in the queue lies in it |
| `RestoredIsKept` | a later run does not touch what an earlier one restored |
| `Ends` | started often enough, the program gets through |

Several of these are conditional, and the conditions are part of the result.
The scan's properties hold while no run has resumed from an empty or cut log
(`Undamaged`), the postprocessing's while no position file was cut or missing
beside another (`Damage`), `RestartEquivalence` also while the surface scan was
not itself resumed, since the record it then holds twice can tear an extent,
and, if there are several inostamps, while it was not resumed from
`post-scan.txt`, whose last record counts twice. `ReadableIsRestored` and
`SizeIsExact` leave out the files a kill interrupted or a full device tore
(`torn`), and those on which the skip test of this run threw (`passed`), for
instance because of a name that is too long. `SizeIsExact` also leaves out those
whose last piece does not end with a stdio buffer: `fclose` writes the rest of
it behind `ftruncate`, which may be past the size. It leaves out those that are
one hole as well: `save_file` leaves a root without extents before `ftruncate`.
`ftruncate` fails for a size below zero and nobody looks, so a file whose inode
says that keeps the length its extents give it. A tree of extents is `Sound` if
it is not higher than the stack and no two extents are for one unit; without
the first the walk ends the program, without the second a file cannot have both.
`PathsDiffer` is about directories that list no name twice, not themselves, and
no number as a name: of two directories that list themselves under one name each
becomes the root of its own tree, and both get that name as their path.
`NothingMisplaced` leaves out trees with a page right at the end of the device,
which is read as whatever was on the stack; `NothingIsInvented` leaves out
directories with a page that leads down to the block behind the last, for the
same reason. `ReachesRecovery` leaves out the devices smaller than a chunk and
those whose last sector is an inode, on which `do_scan` may exit again and
again, and damaged records. The runs that end in a violation
drop such conditions.

### Fairness

The program is one thread that never waits for anything but a key
(`fileinode.cpp` 192), so an enabled step is taken: `WF` on the program's own
steps. `ScanLog` and `Restore` also assume that a user starts a run that was
killed, or died, again (`WF_vars(Start)`, and `Launch` in `Step`), which is how
`README.md` line 30 means the logs to be used. `PostProcess` has the launch
among its steps for the same reason. Kills, failing calls and the script are
never fair: they may happen or not, up to their bounds. A call that fails in
every run (a directory that can never be made) is beyond the bound. Waiting for a key is a
step that changes nothing, so a file that cannot be opened blocks for ever and
fairness does not hide it.

`CHECK_DEADLOCK FALSE` stands in every configuration because every module stops
when the program has ended.

## 4. What is proved

Every theorem holds for all values of the constants that satisfy the named
assumption of its module, which TLC evaluates in the runs.

| module | theorem | property |
|---|---|---|
| `ScanLog_proofs` | `ScanTypeCorrect` | `TypeOK` |
| | `ScanIsComplete` | `ScanComplete` |
| | `ScanFindsNoPhantom` | `NoPhantom` |
| | `FoundStaysInOrder` | `FoundInOrder` |
| | `ScanKeepsUp` | `ScannedIsLogged` |
| | `ScanExitsOnlyAtEdges` | `ExitsOnlyAtEdges` |
| | `RecordsStay` | `RecordsAreKept` |
| | `ScanKeepsItsPromise` | `KeepsItsPromise`: `ScanLog` implements `ResumableScan` |
| `PostProcess_proofs` | `PostTypeCorrect` | `TypeOK` |
| | `NothingIsForgotten` | `NothingForgotten` |
| | `OneInodePerNumber` | `OnePerNumber` |
| | `RemovedForGood` | `RemovedStaysAway` |
| | `FullExtentsKept` | `KeepExtents` keeps every run of `ExtentLen` neighbours |
| | `PostIsAFilterChain` | `IsAFilterChain`: `PostProcess` implements `FilterChain` |
| `PostProcess_restart` | `RestartChangesNothing` | `RestartEquivalence` |
| | `ExtentsSurvive` | `FullExtentsSurvive` |
| `DirWalk_proofs` | `WalkTypeCorrect` | `TypeOK` |
| | `NamesStayInside` | `InsideTheBuffer` |
| | `OnlyCirclesKill` | `DiesOnCirclesOnly` |
| | `UnitsSurvive` | each of the 65536 units is read back from its bytes |
| | `NamesSurvive` | and so is every name, up to its first 0 |
| | `DamageStaysBehind` | `DamageCostsOnlyTheRest` |
| | `OnlyWhatIsThere` | `NothingIsInvented` |
| `Relations_proofs` | `RelationsTypeCorrect` | `TypeOK` |
| | `IndexStaysExact` | `IndexIsExact` |
| | `EachIsTakenBackOnce` | `TakenBackOnce` |
| | `ListedIsThere` | `NothingListedIsLeft` |
| | `NamesComeWithParents` | `NamedWhereItLies` |
| | `EachHasARoot` | `RootsCover` |
| | `NoneIsOverwritten` | `PathsDiffer` |
| `ExtentTree_proofs` | `NoPieceGoesAstray`, `EveryUnitIsCopied` | the pieces of an extent |
| | `NoForeignExtents`, `EveryExtentIsFound` | the extents of a tree |
| `Restore_proofs` | `RestoreTypeCorrect` | `TypeOK` |
| | `QueueHoldsAll` | `QueueIsComplete` |
| | `NothingStray` | `NothingMisplaced` |
| | `WhatIsReadableIsRestored` | `ReadableIsRestored` |
| | `LengthIsRestored` | `SizeIsExact` |
| | `DirTimesHold` | `DirTimesStay` |
| | `RestoredForGood` | `RestoredIsKept` |

**ScanLog** (`ScanAssumption`: device sizes that fit a 64-bit word together
with a chunk). Hardly any of them is inductive. A scan is complete at its end because
nothing was skipped before, and nothing is skipped by a resumption because the
log has no gap below its last record, which in turn is so because lines reach
the file in order, and a kill keeps a prefix. `ScanInv` says this in six parts:

* `LogSorted`, `LogSane`, `LogNoGap`: the log is increasing, holds sane sectors
  only, and all of them up to its last record;
* `Abreast`: a running scan has logged every sane sector before its position,
  its position is on a sector, and vector and log agree;
* `Buffered`: only records of the current chunk are not in the file;
* `Places`: what the program counter implies about the loop variables, and that
  on a device of at least a chunk no chunk crosses the end.

All of it is under `Undamaged`: from a damaged log the scan may go on anywhere.
There is one lemma per action (`InvFresh` to `InvCrash`); the two sector actions
share `InvSector`, the step from one position to the next. `InvResume` is the
heart: the last record read twice adds nothing to the set, and the resume
offset is the position behind it. `TypeOK` is proved for damaged logs as well.
For the refinement every action is matched with one of `ResumableScan` or a
stutter; the step to the next sane sector is where the abstract scan, which
jumps, and the detailed one, which looks at every sector, have to agree
(`NextIsLeast`).

**PostProcess** (`PostAssumption`: finite images with natural numbers, times
and stamps, which are unsigned on the disk, all of it on the device). Each
property speaks of the moment, while what a resumed run knows was written long
before, so `PostInv` speaks of the files:

* `Placed`, `Written`: which stage files can be there at which place, and that
  the stage file is whole while `invalidated.txt` is saved. From the first
  follows which file a resumption finds (`Newest`), from the second that a kill
  while `invalidated.txt` is written costs nothing of the stage file;
* `LogOK`: `inoscan.txt` is increasing, so that "behind the last record" means
  "everything that is not in it";
* `Complete`: the newest stage file with `invalidated.txt` holds every inode,
  the log every one up to its last record, and so does the process;
* `Clean`: what was removed is in no file and no vector, and below the record a
  scan resumes behind;
* `Single`: `post-remove_dupes.txt` and the vector behind `remove_dupes` hold
  one inode per number.

Each part has a condition on the mishaps of its own, and one lemma that takes
it over a step (`LogStep` to `SingleStep`). `KnownStays` says that marking,
sweeping and saving move inodes and lose none, `Saved` what a save that was not
damaged leaves, `Scanning` and `LogGrows` what a scan adds. The lemmas on
`Sorted` and `Pick` (any finite set of numbers can be put in order, and what is
picked from a sequence in order stays in order) carry all of it.

`PostIsAFilterChain` needs three facts `PostInv` leaves open (`Kempt`): the log
misses nothing but what was removed, `invalidated.txt` neither outlives the
stage files nor holds what the process does not know of, and the recovery
begins behind the last filter.

`RestartChangesNothing` compares a run with one that is not disturbed. `Stop(n)`
is what that one holds behind its n-th filter, and `Onward` says that the vector
(`InStep`) and the newest stage file (`Resumable`) hold the same set, in device
order, with duplicates only where the program can leave them. The filters do
not see the difference: each is shown to keep the same set of a rising vector
with such duplicates as of the increasing one. Increasing vectors of one set
are equal (`IncreasingIsSorted`), which is why sets are enough. `ExtentsSurvive`
follows from it and from `FullExtentsKept`.

**DirWalk** (`DirWalkAssumption`: pages and slots have their fields' types, and
the first slot of an entry has no more room for units than the others).
`PieceFits` is the loop's account: what is not copied yet bounds the next
piece. `UnitsSurvive` is arithmetic, one case per row of `utf8_table`.
`NamesSurvive` needs that the strict reader finds the places where the bytes of
the units begin (`FlattenPlaces` says where the parts of a flattened sequence
lie, `PartOf` that each place belongs to one of them).
`OnlyCirclesKill` follows the stack (`Traced`): unless some page links to the
block behind the last, the calls on it stand for a chain of pages, each linked
to the one before, and the page in memory is the last of them. When the stack
is full the pages of the chain are all different, or one comes twice, and what
lies between is a circle.

The two theorems on what is listed rest on `WrittenAssumption` too. `Gathering`
follows `get_direntry` along the chain of one entry: so many of its slots were
taken, and the buffer begins with as many units of the name. With
`NamesSurvive` a leaf that is read to its end adds its entries to the list and
nothing else (`OnLeaf`, `LeafFinished`). `DamageStaysBehind` then follows the
way from the root: before the damage is reached, `depth` says at which place of
the `spine` the walk is and the list at which leaf, and once the leaves before
the damage are listed, no step takes anything off the list (`Behind`,
`SpareInv`). `OnlyWhatIsThere` is about
directories none of whose pages `LeadsOff`. It cannot use the order of the leaves, because a
wrong link may lead to any of them. `KnownInv` keeps the leaves that were
walked, each with the link to the next. A leaf that came twice would have been
left by the same link twice, and so would all behind it, so that the last leaf
of a walk that ends, which has no successor, would have had one (`EndsOnce`).

**Relations** (`RelationsAssumption`: inodes are not NULL, and what is handed
over consists of inodes). `RelationsInv` adds to the four properties what they
rest on: what the vector holds (`VectorOK`), how far each of the loops has come (`Listed`: all
entries of the directories before `i`, and of this one before `j`, are served),
and at which loop a name can come from what (`Named`). `Least` and its kin show
that the choices `Generated` and `Chosen` make exist. `TreeInv` adds the tree:
parents are inodes of the vector (`Chained`), the roots above every inode
`find_roots` has been through are roots (`Rooted`), and only one inode is named
as the original root (`Placed`). `RootsCover` needs that a walk of as many steps
as there are inodes either ends or comes back to where it was. `PathsDiffer` is
shown from the top down: two equal paths have equal names step by step. Their
tops have one number, and from a step to the one below it the number stays the
same, because one directory lists no name twice.

**ExtentTree** (`ExtentTreeAssumption`). The pieces are arithmetic: `PieceBounds`
and `RoundUp` are the loop of `write_extent_to_file`. The tree is compared with
reachability: by induction on the calls that are left, a walk that does not end
the program yields extents of `Described` only (`WalkWithin`), and in a sound
tree all of them (`WalkFinds`, along the height of a page).

**Restore** (`RestoreAssumption`: the expressions match inodes, what is above an
inode is not a file, roots, sizes and times have their types, and no file was
last changed on the day of the run: such a file looks restored while it is
still being written). `RestoreInv` says that the queue is the one
`generate_prio_queue` makes, that a file that is being written has today's
time, and that the directories behind the current item that are settled have
theirs. `CanBeOrdered` shows that `Those` exists. `RestoredStays` is an action
property: a restored file passes the skip test, and no step but those behind
`Open` gets at it.

What is in the files comes in two more layers. `CopyInv` is about what is
written: `todo` is the rest of the file's pieces and the buffer the piece before
it (`Pending`), and what is in the files is where an extent says (`InPlace`).
`NothingMisplaced` follows with `NoForeignExtents`. `FilesInv` is about what is
not: every unit that is missing from the file at hand is still to be copied or
in the buffer (`Coming`), a file that was begun and is not at hand is complete
unless a kill or a full device tore it (`Finished`), and no file of the queue is
passed over but those whose skip test threw (`Passed`). `PieceSplits` is about
`fwrite`: what it hands on and what it keeps are the piece. `ReadableIsRestored`
and `SizeIsExact` follow with `EveryExtentIsFound`, and with the disjoint extents of `Sound`: a later piece
does not overwrite an earlier one.

Only model-checked is what is out of the provers' reach, liveness (`RunsEnd`,
`EventuallyScanned`, `ReachesRecovery`, `WalkEnds`, `LoopsEnd`, `Ends`). Every
invariant and every action property of the passing runs is proved.

Induction over data is out of reach as a rule of the library, because its
theorems take an operator as a parameter. Where the proofs need it they take a
least counterexample: of the numbers for which a statement fails there is a
smallest (`Least`), and it is not 0 and not the successor of a number for which
the statement holds. In the same way the functions that are defined by recursion
(`Up`, `get_internal_xtpage`, the one inside `FlattenSeq`) are first shown to
exist.

## 5. Where code and documentation disagree

| run | what happens |
|---|---|
| `scan_resume` | `README.md` 30: the logs continue the work. A scan killed before its first flush resumes at an uninitialised offset. |
| `post_dup` | the same sentence: no file is damaged, but the last record is read twice and tears its extent apart. |
| `post_cut` | the same sentence: a kill inside `save_positions` leaves a stage file that is taken for the whole. |
| `post_stamps` | `inodescanner.cpp` 333: only a stamp 100 times more common than the second is kept alone. A runner-up behind it in the map is never seen. |
| `relations_cycle` | `README.md` 11: an error skips to the next item. Two directories that are each other's parent end the program in `get_full_path` (`inode.cpp` 79). The run's directories have sound pages only: pages linked in a circle would end it before, in the walk. |
| `relations_latest` | `inodevector.cpp` 253: the latest allocated is used. `recoverer.cpp` 185 and 227 take the earliest. |
| `restore_skips` | `README.md` 11, again: an unreadable inner page of an extent tree ends the program, because `get_internal_xtpage` (`fileinode.cpp` 108) may throw only `extent_error`. |

Three more are seen without a run of their own. A file that cannot be opened
stops the program until somebody presses a key (`fileinode.cpp` 186-194);
`Curable` names the files this must happen to. On a device smaller than a chunk
(2^15 blocks, 128 MiB by default) `devsize-chunk_bytes` wraps and the program
exits, though `README.md` 11 says that the entire disk is scanned;
`ExitsOnlyAtEdges` states it as one of its two kinds of device, and in
`PostProcess` such a device never gets past the scan (`ScanExits`). A file that is
one hole is restored with length 0 (`fileinode.cpp` 201), the exception in
`SizeIsExact`.

## 6. Plan, and what is not modelled

The plan is carried out but for these:

1. the measures behind the liveness properties, as action properties that can
   be proved (each step of a walk or a loop takes something off what is left),
   with only the fairness argument left to TLC;
2. `Relations` on what a `DirWalk` of the same image lists, and `Restore` on
   what `Relations` leaves, as theorems that the hand-overs one module starts
   from cover what the one before it ends with.

Not modelled, and why:

* one run through all phases in one module. `main` keeps no state between them;
  each module starts from a set of hand-overs that covers what the one before
  it can leave. One thing is lost by that: a vector reloaded from
  `post-remove_dupes.txt` has its last inode twice, `Relations` treats this,
  and in the queue of `Restore` each inode is once. The second turn of a file
  is like its turn in the next run, which `Restore` has;
* what the kernel has accepted and a power failure loses; a device that changes
  between runs or has unreadable sectors inside it (a short read at the end is
  modelled);
* `read_from_disk`'s NULL beyond the death of the program, and the flag of the
  index before its first use;
* a partial `fwrite`, and a flush inside `fseeko64` that fails: `WriteLost` and
  `CloseLost` lose whole pieces;
* blocks that are not as large as a page, `nextindex` beyond the page of an
  extent tree, extents marked as not recorded (`XAD_NOTRECORDED`), which the
  code copies like others, names in OS/2 format;
* how many leaves the recursion of `next_leaf` takes before the stack is gone:
  that depends on the build (`StackDepth`);
* the rounding of the device size (`device.cpp` 260): a size is a multiple of a
  sector;
* the search for the device size on systems other than Linux (not compiled
  there), option parsing (boost's), progress displays and printing, functions
  without a caller (`print_tree`, `xads_sane`, `mark_all`, the UTF-8 to Unicode
  direction), ownership, symbolic links and special files (the program restores
  none of them), the build.
