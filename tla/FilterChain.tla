----------------------------- MODULE FilterChain -----------------------------
(***************************************************************************)
(* What the postprocessing promises, without files, vectors or indices: a  *)
(* chain of filters, each of which only sets inodes aside, with a          *)
(* checkpoint behind most of them.  A kill costs what was done since the   *)
(* last checkpoint and nothing else: the next run is where it was then.    *)
(* A damaged checkpoint makes everything after it void.                    *)
(***************************************************************************)
EXTENDS Integers

VARIABLES
  all,      \* the inodes there are
  now,      \* what the process has: how far it is, and two sets of inodes
  saved,    \* the last checkpoint
  void      \* a checkpoint was damaged

vars == << all, now, saved, void >>

\* No process, no checkpoint.
Nothing == [phase |-> 0, valid |-> {}, aside |-> {}]

\* Behind the scan, the four filters.
Final == 5

Init ==
  /\ all \subseteq Nat
  /\ now = Nothing /\ saved = Nothing /\ void = FALSE

\* Without a checkpoint a run begins with the scan, which finds everything.
Scan ==
  /\ now = Nothing /\ saved = Nothing
  /\ now' = [phase |-> 1, valid |-> all, aside |-> {}]
  /\ UNCHANGED << all, saved, void >>

\* The next run is where the checkpoint was made.  It may take some inode
\* that is valid for one that was set aside as well: a list of those that
\* has become empty is read as the last inode of the other.
Resume ==
  /\ now = Nothing /\ saved # Nothing
  /\ now'.phase = saved.phase /\ now'.valid = saved.valid
  /\ saved.aside \subseteq now'.aside /\ now'.aside \subseteq saved.aside \cup saved.valid
  /\ UNCHANGED << all, saved, void >>

\* Nothing is lost, and nothing that was set aside comes back.
Filter ==
  /\ now.phase \in 1..(Final - 1)
  /\ now'.phase \in {now.phase, now.phase + 1}
  /\ now'.valid \subseteq now.valid /\ now.aside \subseteq now'.aside
  /\ now'.valid \cup now'.aside = now.valid \cup now.aside
  /\ UNCHANGED << all, saved, void >>

Save ==
  /\ now # Nothing
  /\ saved' = now
  /\ UNCHANGED << all, now, void >>

Kill ==
  /\ now # Nothing
  /\ now' = Nothing
  /\ UNCHANGED << all, saved, void >>

\* The user takes an inode out between two runs.
Remove(o) ==
  /\ now = Nothing
  /\ all' = all \ {o}
  /\ saved' = [saved EXCEPT !.valid = @ \ {o}, !.aside = @ \ {o}]
  /\ UNCHANGED << now, void >>

Spoil ==
  /\ void' = TRUE /\ now' = Nothing /\ saved' = Nothing
  /\ all' = {}

Next == Scan \/ Resume \/ Filter \/ Save \/ Kill \/ (\E o \in all : Remove(o)) \/ Spoil

Spec == Init /\ [][Next]_vars
=============================================================================
