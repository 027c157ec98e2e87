------------------------------ MODULE Unicode -------------------------------
(***************************************************************************)
(* Unicode_String_to_UTF8_std_string: the names of JFS, 16-bit units, as   *)
(* the bytes of a path.  Every unit is converted by itself, the halves of  *)
(* a surrogate pair too.                                                   *)
(*                                                                         *)
(* The buffer of 8 * JFS_PATH_MAX bytes is far longer than any name (255   *)
(* units of three bytes), so `maxlen' never decides anything.              *)
(***************************************************************************)
EXTENDS Integers, SequencesExt

Units == 0..65535
Bytes == 0..255

\* utf8_table: the largest unit of a row, its mark, and 2^shift.  The rows
\* behind the third are for numbers of more than 16 bits.
utf8_table == << [lmask |-> 127,   cval |-> 0,   weight |-> 1],
                 [lmask |-> 2047,  cval |-> 192, weight |-> 64],
                 [lmask |-> 65535, cval |-> 224, weight |-> 4096] >>

\* The first row that is wide enough.
Row(u) ==
  CHOOSE r \in DOMAIN utf8_table :
    u <= utf8_table[r].lmask /\ \A s \in 1..(r - 1) : u > utf8_table[s].lmask

\* The mark and the highest bits, then six bits in each byte.
Unicode_Character_to_UTF8_Character(u) ==
  LET r == Row(u)
  IN [k \in 1..r |->
        IF k = 1 THEN utf8_table[r].cval + (u \div utf8_table[r].weight)
                 ELSE 128 + ((u \div utf8_table[r - k + 1].weight) % 64)]

\* A unit of 0 ends the string.
UpToNul(us) ==
  LET n == CHOOSE n \in 0..Len(us) :
             (\A k \in 1..n : us[k] # 0) /\ (n < Len(us) => us[n + 1] = 0)
  IN SubSeq(us, 1, n)

Unicode_String_to_UTF8_std_string(us) ==
  LET name == UpToNul(us)
  IN FlattenSeq([k \in DOMAIN name |-> Unicode_Character_to_UTF8_Character(name[k])])

----------------------------------------------------------------------------
(* The reference: what a strict reader of UTF-8 makes of the bytes of a     *)
(* unit: the first byte says how many there are, and no form is longer than *)
(* it has to be.                                                           *)

Malformed == -1

ReadUnit(b) ==
  LET two   == (b[1] - 192) * 64 + (b[2] - 128)
      three == (b[1] - 224) * 4096 + (b[2] - 128) * 64 + (b[3] - 128)
  IN IF b[1] < 128                           THEN b[1]
     ELSE IF b[1] \in 194..223 /\ Len(b) = 2 THEN two
     ELSE IF b[1] \in 224..239 /\ Len(b) = 3 /\ three > 2047 THEN three
     ELSE Malformed

\* Every byte that is not a continuation begins a unit, which ends before the
\* next of them.
Continues(x)    == x \in 128..191
EndOfUnit(b, k) ==
  CHOOSE e \in k..Len(b) :
    /\ \A j \in (k + 1)..e : Continues(b[j])
    /\ e < Len(b) => ~ Continues(b[e + 1])
ReadName(b) ==
  LET read[k \in 0..Len(b)] ==
        IF k = 0 THEN << >>
        ELSE IF Continues(b[k]) THEN read[k - 1]
        ELSE Append(read[k - 1], ReadUnit(SubSeq(b, k, EndOfUnit(b, k))))
  IN read[Len(b)]
=============================================================================
