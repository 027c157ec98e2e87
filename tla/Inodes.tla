------------------------------- MODULE Inodes -------------------------------
(***************************************************************************)
(* The decisions of the postprocessing: which inodes of a vector each      *)
(* filter keeps.  A vector is a sequence of sectors and `disk' gives the   *)
(* on-disk inode read_from_disk finds at each of them (InodeVector and the *)
(* filters of InodeScanner; `inovec_[i].get_dinode()' is disk[v[i]]).      *)
(* Sectors stand for byte offsets: neighbours are 512 bytes apart.         *)
(***************************************************************************)
EXTENDS Integers, Sequences, FiniteSetsExt

CONSTANTS
  ExtentLen,   \* inodes in an inode extent, 32
  StampRatio   \* how much more common the kept inostamp must be, 100

ASSUME InodesAssumption == ExtentLen \in Nat \ {0} /\ StampRatio \in Nat \ {0}

----------------------------------------------------------------------------
(* filter_inostamps *)

Stamps(disk, v)   == {disk[v[n]].stamp : n \in DOMAIN v}
Count(disk, v, s) == Cardinality({n \in DOMAIN v : disk[v[n]].stamp = s})

\* ismi: the first, in the map's order, of the stamps with the largest count.
MostCommon(disk, v) ==
  Min({s \in Stamps(disk, v) :
         \A t \in Stamps(disk, v) : Count(disk, v, t) <= Count(disk, v, s)})

\* issmn: the largest count before it in the map's order, 0 if it is first.
RunnerUp(disk, v) ==
  Max({0} \cup {Count(disk, v, t) :
                  t \in {s \in Stamps(disk, v) : s < MostCommon(disk, v)}})

OneStampOnly(disk, v) ==
  /\ v # << >>
  /\ Count(disk, v, MostCommon(disk, v)) \div StampRatio > RunnerUp(disk, v)

FaultyKeepStamps(disk, v) ==
  {n \in DOMAIN v : disk[v[n]].stamp = MostCommon(disk, v)}

KeepStamps(disk, v) ==
  {n \in DOMAIN v : OneStampOnly(disk, v) => disk[v[n]].stamp = MostCommon(disk, v)}

----------------------------------------------------------------------------
(* detect_ino_extents *)

\* The inode behind n continues the extent n is in.
Adjacent(disk, v, n) ==
  /\ disk[v[n + 1]].number = disk[v[n]].number + 1
  /\ v[n + 1] = v[n] + 1

Joined(disk, v, a, b) == \A n \in a..(b - 1) : Adjacent(disk, v, n)

\* The two loops count inode n each, and the second does not look at the
\* first inode of the vector (j > 0) unless n is that inode.
Forward(disk, v, n)  == Cardinality({j \in n..Len(v) : Joined(disk, v, n, j)})
Backward(disk, v, n) == Cardinality({j \in {n} \cup 2..n : Joined(disk, v, j, n)})

FaultyKeepExtents(disk, v) == {n \in DOMAIN v : Forward(disk, v, n) >= ExtentLen}

KeepExtents(disk, v) ==
  {n \in DOMAIN v : Forward(disk, v, n) + Backward(disk, v, n) >= ExtentLen}

----------------------------------------------------------------------------
(* remove_unallocated, and remove_dupes by way of generate_di_number_index *)

KeepAllocated(disk, v) == {n \in DOMAIN v : disk[v[n]].nlink # 0}

FaultyKeepAllLatest(disk, v) ==
  {n \in DOMAIN v : \A m \in DOMAIN v :
     disk[v[m]].number = disk[v[n]].number => disk[v[m]].otime <= disk[v[n]].otime}

\* Of the inodes with one number the latest allocated, of those the first.
KeepLatest(disk, v) ==
  {n \in DOMAIN v : \A m \in DOMAIN v :
     disk[v[m]].number = disk[v[n]].number =>
       \/ disk[v[m]].otime < disk[v[n]].otime
       \/ disk[v[m]].otime = disk[v[n]].otime /\ n <= m}
=============================================================================
