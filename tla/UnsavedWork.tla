----------------------------- MODULE UnsavedWork -----------------------------
(***************************************************************************)
(* What a user may rely on, without files, journals and checksums: a       *)
(* database on which one session works at a time, a safe copy of the work  *)
(* that is never behind it, and the contents that were kept last.          *)
(***************************************************************************)
EXTENDS Sequences

CONSTANTS
  Changes,  \* what a change may add
  Original, \* the contents at first
  Closed    \* no session

VARIABLES
  work, \* what the session has before it
  safe, \* what the next session would begin with
  kept  \* what is left when unsaved work is given up

vars == <<work, safe, kept>>

Init == work = Closed /\ safe = Original /\ kept = Original

\* A session begins with everything that was safe.
Open == work = Closed /\ work' = safe /\ UNCHANGED <<safe, kept>>

\* A change is safe as soon as it is made.
Change(c) ==
  /\ work # Closed
  /\ work' = Append(work, c) /\ safe' = work'
  /\ UNCHANGED kept

Save == work # Closed /\ kept' = work /\ UNCHANGED <<work, safe>>

\* A session ends on purpose, giving up what was not saved, or it is killed.
GiveUp == work' = Closed /\ safe' = kept /\ UNCHANGED kept
Crash  == work' = Closed /\ UNCHANGED <<safe, kept>>

Next == Open \/ (\E c \in Changes : Change(c)) \/ Save \/ GiveUp \/ Crash

Spec == Init /\ [][Next]_vars

-----------------------------------------------------------------------------
(* The work is never ahead of what is safe.                                *)
WorkIsSafe == work # Closed => safe = work
=============================================================================
