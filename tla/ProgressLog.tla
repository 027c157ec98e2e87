---------------------------- MODULE ProgressLog -----------------------------
(***************************************************************************)
(* The text logs jfsrec keeps in its progress directory: one decimal byte  *)
(* offset per line.  Two loops of the program parse them with the same     *)
(* idiom                                                                   *)
(*                                                                         *)
(*     while (!f.eof()) { f >> bo; add(read_from_disk(bo)); }              *)
(*                                                                         *)
(* (InodeScanner::restore and InodeVector::load_from_positions).  A file   *)
(* is represented by its newline-terminated records `ls' and by the digits *)
(* `t' that follow the last newline: << >> when the file ends in a         *)
(* newline, << n >> when a write was cut and the digits of n are left.     *)
(***************************************************************************)
EXTENDS Integers, Sequences, FiniteSets

\* Offsets have at most nine digits here; a 64-bit offset has twenty.
PowerOfTen == << 10, 100, 1000, 10000, 100000, 1000000, 10000000, 100000000, 1000000000 >>

\* How many decimal digits operator<< prints for n.
Digits(n) == 1 + Cardinality({d \in 1..8 : PowerOfTen[d] <= n})

(***************************************************************************)
(* What the loop above adds.  When the file ends in a newline, eof() is    *)
(* still false after the last record: one more extraction fails, leaves bo *)
(* as it was, and the last record is added a second time.  When the file   *)
(* ends in digits, eof() is set while they are read and nothing is added   *)
(* twice.  An empty file is read with whatever bo held before.             *)
(***************************************************************************)
Records(ls, t, bo) ==
  IF t # << >> THEN ls \o t
  ELSE Append(ls, IF ls = << >> THEN bo ELSE ls[Len(ls)])

\* The digits a write of the line for offset o can leave without their
\* newline when it is cut: every non-empty prefix of o's decimal digits.
Cuts(o) == {o} \cup {o \div PowerOfTen[k] : k \in 1..(Digits(o) - 1)}

\* The record that results when the line for o is appended to a file that
\* ends in the digits t: the two numbers run together.
Glue(t, o) == IF t = << >> THEN o ELSE t[1] * PowerOfTen[Digits(o)] + o
=============================================================================
