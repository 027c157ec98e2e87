---------------------------- MODULE ResumableScan ---------------------------
(***************************************************************************)
(* What the surface scan promises, without chunks, buffers or a log: it    *)
(* finds the sectors in device order, a kill costs only some of those found *)
(* last, and it is over only when it has found them all.                   *)
(* The two ways the promise is not kept have a phase of their own: the     *)
(* scan may give up, and a damaged log makes everything after it void.     *)
(***************************************************************************)
EXTENDS Integers, FiniteSetsExt

VARIABLES
  sectors,  \* what there is to be found
  seen,     \* what the running scan has found
  kept,     \* what a scan started now would know of
  phase     \* "off", "on", "over", "gaveup" or "void"

vars == << sectors, seen, kept, phase >>

Init ==
  /\ sectors \subseteq Nat
  /\ seen = {} /\ kept = {}
  /\ phase = "off"

\* The sets that hold the first few sectors of s.
Beginnings(s) == {{x \in s : x < y} : y \in s} \cup {s}

Begin ==
  /\ phase \in {"off", "gaveup"}
  /\ phase' \in {"on", "gaveup"}
  /\ seen' = IF phase' = "on" THEN kept ELSE {}
  /\ UNCHANGED << sectors, kept >>

Find ==
  /\ phase = "on" /\ sectors \ seen # {}
  /\ seen' = seen \cup {Min(sectors \ seen)}
  /\ kept' \in {kept, seen'}
  /\ UNCHANGED << sectors, phase >>

Keep ==
  /\ phase = "on"
  /\ kept' = seen
  /\ UNCHANGED << sectors, seen, phase >>

Kill ==
  /\ phase = "on"
  /\ phase' = "off"
  /\ kept' \in {b \in Beginnings(seen) : kept \subseteq b}
  /\ seen' = {}
  /\ UNCHANGED sectors

Finish ==
  /\ phase = "on" /\ seen = sectors
  /\ phase' = "over"
  /\ UNCHANGED << sectors, seen, kept >>

GiveUp ==
  /\ phase = "on"
  /\ phase' = "gaveup"
  /\ seen' = {}
  /\ UNCHANGED << sectors, kept >>

\* A run resumed from a damaged log: nothing more is promised.
Spoil ==
  /\ phase \in {"off", "gaveup"}
  /\ phase' = "void" /\ seen' = {} /\ kept' = {}
  /\ UNCHANGED sectors

Next == Begin \/ Find \/ Keep \/ Kill \/ Finish \/ GiveUp \/ Spoil

Spec == Init /\ [][Next]_vars
=============================================================================
