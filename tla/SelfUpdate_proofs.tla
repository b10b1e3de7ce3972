------------------------- MODULE SelfUpdate_proofs --------------------------
(***************************************************************************)
(* What holds of the self update for any number of releases, processes,    *)
(* crashes and power cuts, as long as the user starts the program only     *)
(* when none is running and no update is under way (Patient).              *)
(*                                                                         *)
(* The invariant relates the processes to one another (Order), to their    *)
(* scripts (Waited), to the manifest they accepted (Offers), to the files  *)
(* (Installed) and to the marker (News); no part of it is inductive alone. *)
(***************************************************************************)
EXTENDS SelfUpdate, TLAPS

(* A process before it hands over to a script, one that has, and the       *)
(* newest.                                                                 *)
Young(p) == at[p] \in {"started", "checking", "asked", "syncing", "copying",
                       "writing", "verifying", "spawning"}
HandedOver(p) == at[p] \in {"marking", "closing", "gone"}
Last(p) == at[p] # "none" /\ \A q \in Pids : q > p => at[q] = "none"

(* One process after the other: who hands over is the newest, and a        *)
(* process begins only behind those that have handed over. A script that   *)
(* has not yet started its program belongs to the newest.                  *)
Order ==
  /\ \A p, q \in Pids : p < q /\ at[q] # "none" => HandedOver(p)
  /\ \A p \in Pids : helper[p] # "none" => HandedOver(p)
  /\ \A p \in Pids :
       helper[p] \in {"wait", "delete", "moveOld", "moveNew", "start"} => Last(p)
  /\ \A p \in Pids : at[p] = "marking" => helper[p] # "none"

(* The build that is installed, also while it is moved aside.              *)
Cur == IF exe \in Versions THEN exe ELSE bak

(* The manifest that a process has accepted was published, is of a newer   *)
(* build, and is what the verified copy is.                                *)
Offers ==
  \A p \in Pids :
    /\ \/ at[p] \in {"asked", "syncing", "copying", "writing", "verifying", "spawning"}
       \/ helper[p] \in {"wait", "delete", "moveOld", "moveNew"}
       => /\ offered[p] \in Versions /\ runs[p] < offered[p]
          /\ offered[p] <= published.manifest
    /\ at[p] = "spawning" \/ helper[p] \in {"wait", "delete", "moveOld", "moveNew"}
       => new = offered[p]

(* What is installed is a whole published build; processes and scripts     *)
(* that have not yet replaced it belong to it.                             *)
Installed ==
  /\ exe # Absent => exe \in Versions /\ exe <= published.manifest
  /\ bak # Absent => bak \in Versions /\ bak <= published.manifest
  /\ SomethingToRun
  /\ \A p \in Pids :
       Young(p) \/ helper[p] \in {"wait", "delete", "moveOld"}
         => exe \in Versions /\ image[p] # "bak"
  /\ \A p \in Pids : at[p] # "none" => runs[p] \in Versions /\ runs[p] <= Cur
  /\ \A p \in Pids :
       Young(p) \/ helper[p] \in {"wait", "delete", "moveOld", "moveNew"}
         => runs[p] = Cur

(* A script goes on when its process has gone, or else it gave up waiting. *)
Waited ==
  /\ \A p \in Pids : /\ helper[p] = "none" => tries[p] = 0
                     /\ helper[p] = "wait" => tries[p] <= MaxTries
  /\ \A p \in Pids :
       helper[p] \in {"delete", "moveOld", "moveNew", "start", "erase"}
         => ~Alive(p) \/ tries[p] > MaxTries
  /\ \A p, q \in Pids : q < p /\ at[p] # "none" /\ Alive(q) => Late(p)
  /\ \A p \in Pids : at[p] = "marking" => runs[p] = Cur \/ GaveUp
  /\ \A p \in Pids : helper[p] = "moveNew" => bak = runs[p] \/ Late(p)

(* The marker names a version that handed over, and no news of it has been *)
(* shown.                                                                  *)
News ==
  /\ marker # Absent => \E q \in Pids : runs[q] = marker /\ helper[q] # "none"
  /\ \A n \in news :
       /\ at[n[1]] # "none" /\ n[2] < n[3] /\ n[3] = runs[n[1]]
       /\ \E p \in Pids : p < n[1] /\ runs[p] = n[2] /\ helper[p] # "none"
       /\ marker # Absent => marker >= n[3] \/ GaveUp
  /\ \A n, m \in news : n[2] = m[2] /\ n[3] = m[3] => n = m \/ GaveUp

(* The inductive invariant.                                                *)
UInv == TypeOK /\ Order /\ Offers /\ Installed /\ Waited /\ News

(* Versions and processes are numbers, and nothing else is a version.      *)
LEMMA Numbers ==
  /\ Versions \subseteq Nat /\ Absent \notin Versions /\ Torn \notin Versions
  /\ 1 \in Versions /\ Pids \subseteq Nat /\ MaxTries \in Nat
  BY UpdateAssumption DEF Versions, Pids

(* The first state is of its type.                                         *)
LEMMA TypesInit == Init => TypeOK
  <1> SUFFICES ASSUME Init PROVE TypeOK
    OBVIOUS
  <1>1. published \in [exe : Versions, res : Versions, manifest : Versions]
    BY Numbers DEF Init
  <1>2. /\ {exe, bak, new} \subseteq Versions \cup {Absent, Torn} /\ bak # Torn
        /\ script \in BOOLEAN
        /\ res \in Versions /\ marker \in Versions \cup {Absent}
    BY Numbers, UpdateAssumption DEF Init
  <1>3. tries \in [Pids -> 0..(MaxTries + 1)] /\ mishaps \in 0..MaxMishaps
    BY UpdateAssumption DEF Init
  <1>4. QED BY <1>1, <1>2, <1>3 DEF Init, TypeOK

(* A step keeps the types. The bounds need the rest: only a script that    *)
(* still waits counts, and only a program file is ever moved aside.        *)
LEMMA TypesNext ==
  ASSUME TypeOK, Installed, Waited, [Next]_vars
  PROVE  TypeOK'
  <1> USE UpdateAssumption DEF files, local, process, swap, Goes, GoesOn, Reads, Ends, Starts, Alive, Active
  <1>1. CASE UNCHANGED vars
    BY <1>1 DEF vars, TypeOK
  <1>2. CASE Publish
    BY <1>2 DEF Publish, TypeOK, Versions
  <1>3. CASE PowerCut
    BY <1>3 DEF PowerCut, TypeOK
  <1>4. CASE Restore
    BY <1>4, Numbers DEF Restore, TypeOK
  <1>5. ASSUME NEW p \in Pids, Launch(p) PROVE TypeOK'
    BY <1>5 DEF Launch, TypeOK
  <1>6. ASSUME NEW p \in Pids, ShowChangelogIfJustUpdated(p) PROVE TypeOK'
    <2>1. {<<p, v, runs[p]>> : v \in {marker} \cap 1..(runs[p] - 1)}
            \subseteq Pids \X Versions \X Versions
      <3>1. ASSUME marker \in 1..(runs[p] - 1)
            PROVE  marker \in Versions /\ runs[p] \in Versions
        <4>1. runs[p] \in Versions
          BY <1>6 DEF ShowChangelogIfJustUpdated, Installed
        <4>2. QED BY <3>1, <4>1, Numbers DEF Versions
      <3>2. QED BY <3>1
    <2>2. news' \subseteq Pids \X Versions \X Versions
      BY <1>6, <2>1 DEF ShowChangelogIfJustUpdated, TypeOK
    <2>3. QED BY <1>6, <2>2 DEF ShowChangelogIfJustUpdated, TypeOK
  <1>7. ASSUME NEW p \in Pids, CheckForUpdate(p) PROVE TypeOK'
    BY <1>7 DEF CheckForUpdate, TypeOK
  <1>8. ASSUME NEW p \in Pids, Answer(p) PROVE TypeOK'
    BY <1>8 DEF Answer, TypeOK
  <1>9. ASSUME NEW p \in Pids, SyncResourceFiles(p) PROVE TypeOK'
    BY <1>9 DEF SyncResourceFiles, TypeOK
  <1>10. ASSUME NEW p \in Pids, CopyBegins(p) PROVE TypeOK'
    BY <1>10 DEF CopyBegins, TypeOK
  <1>11. ASSUME NEW p \in Pids, CopyEnds(p) PROVE TypeOK'
    BY <1>11 DEF CopyEnds, TypeOK
  <1>12. ASSUME NEW p \in Pids, Verify(p) PROVE TypeOK'
    BY <1>12 DEF Verify, TypeOK
  <1>13. ASSUME NEW p \in Pids, Spawn(p) PROVE TypeOK'
    BY <1>13 DEF Spawn, TypeOK
  <1>14. ASSUME NEW p \in Pids, MarkUpdating(p) PROVE TypeOK'
    BY <1>14 DEF MarkUpdating, TypeOK
  <1>15. ASSUME NEW p \in Pids, Exit(p) PROVE TypeOK'
    BY <1>15 DEF Exit, TypeOK
  <1>16. ASSUME NEW p \in Pids, Crash(p) PROVE TypeOK'
    BY <1>16 DEF Crash, TypeOK
  <1>17. ASSUME NEW p \in Pids, Wait(p) PROVE TypeOK'
    <2>1. helper[p] = "wait" /\ tries[p] \in 0..MaxTries
      BY <1>17 DEF Wait, TypeOK, Waited
    <2>2. tries' = [tries EXCEPT ![p] = @ + 1] /\ tries[p] + 1 \in 0..(MaxTries + 1)
      BY <1>17, <2>1 DEF Wait
    <2>3. tries' \in [Pids -> 0..(MaxTries + 1)]
      BY <2>2 DEF TypeOK
    <2>4. helper' \in [Pids -> {"none", "wait", "delete", "moveOld", "moveNew",
                                "start", "erase", "done"}]
      BY <1>17 DEF Wait, TypeOK
    <2>5. QED BY <1>17, <2>3, <2>4 DEF Wait, TypeOK
  <1>18. ASSUME NEW p \in Pids, DeleteBak(p) PROVE TypeOK'
    BY <1>18 DEF DeleteBak, TypeOK
  <1>19. ASSUME NEW p \in Pids, MoveOld(p) PROVE TypeOK'
    BY <1>19, Numbers DEF MoveOld, TypeOK, Installed
  <1>20. ASSUME NEW p \in Pids, MoveNew(p) PROVE TypeOK'
    BY <1>20 DEF MoveNew, TypeOK
  <1>21. ASSUME NEW p \in Pids, StartNew(p) PROVE TypeOK'
    BY <1>21 DEF StartNew, TypeOK
  <1>22. ASSUME NEW p \in Pids, EraseScript(p) PROVE TypeOK'
    BY <1>22 DEF EraseScript, TypeOK
  <1>23. QED BY <1>1, <1>2, <1>3, <1>4, <1>5, <1>6, <1>7, <1>8, <1>9, <1>10,
    <1>11, <1>12, <1>13, <1>14, <1>15, <1>16, <1>17, <1>18, <1>19, <1>20, <1>21,
    <1>22 DEF Next, Program, Script

(* Where a script is while it has yet to start the new program.            *)
Ahead == {"wait", "delete", "moveOld", "moveNew", "start"}

(* A program goes from one place to the next; once it has handed over, it  *)
(* goes on to its end.                                                     *)
LEMMA MoveOrder ==
  ASSUME TypeOK, Order, NEW p \in Pids, NEW w, w \notin {"none", "marking"},
         at' = [at EXCEPT ![p] = w], UNCHANGED helper,
         at[p] # "none", HandedOver(p) => w \in {"closing", "gone"}
  PROVE  Order'
  <1>1. at'[p] = w /\ \A q \in Pids : q # p => at'[q] = at[q]
    BY DEF TypeOK
  <1>2. \A q \in Pids : /\ at[q] = "none" <=> at'[q] = "none"
                        /\ HandedOver(q) => HandedOver(q)'
    BY <1>1 DEF HandedOver
  <1>3. \A q \in Pids : Last(q) => Last(q)'
    BY <1>2 DEF Last
  <1>4. QED BY <1>1, <1>2, <1>3 DEF Order

(* A script goes on.                                                       *)
LEMMA ScriptOrder ==
  ASSUME TypeOK, Order, NEW p \in Pids, NEW w, w # "none",
         helper' = [helper EXCEPT ![p] = w], UNCHANGED at,
         helper[p] # "none", w \in Ahead => helper[p] \in Ahead
  PROVE  Order'
  <1>1. helper'[p] = w /\ \A q \in Pids : q # p => helper'[q] = helper[q]
    BY DEF TypeOK
  <1>2. \A q \in Pids : Last(q)' = Last(q) /\ HandedOver(q)' = HandedOver(q)
    BY DEF Last, HandedOver
  <1>3. \A q \in Pids : helper'[q] \in Ahead => helper[q] \in Ahead
    BY <1>1
  <1>4. \A q \in Pids : helper'[q] # "none" <=> helper[q] # "none"
    BY <1>1
  <1>5. QED BY <1>2, <1>3, <1>4 DEF Order, Ahead

(* What is done while a process has not handed over is done by the last of *)
(* them, and no script has yet come to start another.                      *)
LEMMA NoneAhead ==
  ASSUME Order, NEW p \in Pids, at[p] # "none", ~HandedOver(p)
  PROVE  /\ Last(p) /\ helper[p] = "none"
         /\ \A q \in Pids : helper[q] \notin Ahead
  <1>1. Last(p)
    BY DEF Order, Last, Pids
  <1>2. helper[p] = "none"
    BY DEF Order
  <1>3. ASSUME NEW q \in Pids, helper[q] \in Ahead PROVE FALSE
    <2>1. Last(q) /\ HandedOver(q)
      BY <1>3 DEF Order, Ahead
    <2>2. p = q
      BY <1>1, <2>1 DEF Last, Pids
    <2>3. QED BY <2>1, <2>2
  <1>4. QED BY <1>1, <1>2, <1>3

(* Scripts that are not done with the new program belong to one process.   *)
LEMMA OneAhead ==
  ASSUME Order, NEW p \in Pids, NEW q \in Pids,
         helper[p] \in Ahead, helper[q] \in Ahead
  PROVE  p = q /\ Last(p) /\ HandedOver(p)
  <1>1. Last(p) /\ Last(q) /\ HandedOver(p)
    BY DEF Order, Ahead
  <1>2. QED BY <1>1 DEF Last, Pids

(* The process that begins is behind all others.                           *)
LEMMA StartsLast ==
  ASSUME TypeOK, Order, NEW p \in Pids, Starts(p),
         \A q \in Pids : at[q] # "none" => HandedOver(q),
         \A q \in Pids : helper'[q] \notin Ahead,
         \A q \in Pids : helper'[q] # "none" <=> helper[q] # "none"
  PROVE  Order' /\ Last(p)'
  <1>1. /\ at[p] = "none" /\ at' = [at EXCEPT ![p] = "started"]
        /\ \A q \in Pids : at[q] = "none" => p <= q
    BY DEF Starts, Unused
  <1>2. at'[p] = "started" /\ \A q \in Pids : q # p => at'[q] = at[q]
    BY <1>1 DEF TypeOK
  <1>3. \A q \in Pids : q > p => at[q] = "none"
    BY <1>1 DEF Order, HandedOver
  <1>4. \A q \in Pids : q < p => at[q] # "none"
    BY <1>1 DEF Pids
  <1>5. Last(p)'
    BY <1>2, <1>3 DEF Last, Pids
  <1>6. \A q, r \in Pids : q < r /\ at'[r] # "none" => HandedOver(q)'
    <2> SUFFICES ASSUME NEW q \in Pids, NEW r \in Pids, q < r, at'[r] # "none"
                 PROVE  HandedOver(q)'
      OBVIOUS
    <2>1. ~(r > p) /\ q < p
      BY <1>2, <1>3 DEF Pids
    <2>2. HandedOver(q)
      BY <1>4, <2>1
    <2>3. QED BY <1>2, <2>1, <2>2 DEF HandedOver, Pids
  <1>7. \A q \in Pids : HandedOver(q) => HandedOver(q)' /\ q # p
    BY <1>1, <1>2 DEF HandedOver
  <1>8. \A q \in Pids : at'[q] = "marking" => at[q] = "marking"
    BY <1>2
  <1>9. QED BY <1>5, <1>6, <1>7, <1>8 DEF Order, Ahead

(* A step keeps the order.                                                 *)
LEMMA OrderNext ==
  ASSUME Patient, TypeOK, Order, [Next]_vars
  PROVE  Order'
  <1>1. CASE UNCHANGED <<at, helper>>
    BY <1>1 DEF Order, HandedOver, Last
  <1>2. CASE PowerCut
    <2>1. /\ at' = [p \in Pids |-> IF Alive(p) THEN "gone" ELSE at[p]]
          /\ helper' = [p \in Pids |-> IF Active(p) THEN "done" ELSE helper[p]]
      BY <1>2 DEF PowerCut
    <2>2. \A p \in Pids : /\ at'[p] \in {"none", "gone"}
                          /\ at'[p] = "none" <=> at[p] = "none"
                          /\ helper'[p] \in {"none", "done"}
                          /\ helper'[p] = "none" <=> helper[p] = "none"
      BY <2>1 DEF Alive, Active
    <2>3. QED BY <2>2 DEF Order, HandedOver
  <1>3. ASSUME NEW p \in Pids, Launch(p) PROVE Order'
    <2>1. /\ \A q \in Pids : ~Alive(q) /\ ~Active(q)
          /\ Starts(p) /\ UNCHANGED helper
      BY <1>3 DEF Launch, swap
    <2>2. \A q \in Pids : at[q] # "none" => HandedOver(q)
      BY <2>1 DEF Alive, HandedOver
    <2>3. \A q \in Pids : helper'[q] \notin Ahead
      BY <2>1 DEF Active, Ahead
    <2>4. QED BY <2>1, <2>2, <2>3, StartsLast
  <1>4. ASSUME NEW p \in Pids,
               \/ ShowChangelogIfJustUpdated(p) \/ CheckForUpdate(p) \/ Answer(p)
               \/ SyncResourceFiles(p) \/ CopyBegins(p) \/ CopyEnds(p) \/ Verify(p)
        PROVE  Order'
    <2>1. Young(p) /\ UNCHANGED helper
      BY <1>4 DEF ShowChangelogIfJustUpdated, CheckForUpdate, Answer,
        SyncResourceFiles, CopyBegins, CopyEnds, Verify, Young, swap
    <2>2. \E w : w \notin {"none", "marking"} /\ at' = [at EXCEPT ![p] = w]
      BY <1>4 DEF ShowChangelogIfJustUpdated, CheckForUpdate, Answer,
        SyncResourceFiles, CopyBegins, CopyEnds, Verify, Goes
    <2>3. at[p] # "none" /\ ~HandedOver(p)
      BY <2>1 DEF Young, HandedOver
    <2>4. QED BY <2>1, <2>2, <2>3, MoveOrder
  <1>5. ASSUME NEW p \in Pids, Spawn(p) PROVE Order'
    <2>1. at[p] = "spawning"
      BY <1>5 DEF Spawn
    <2>2. CASE at' = [at EXCEPT ![p] = "up"] /\ UNCHANGED helper
      BY <2>1, <2>2, MoveOrder DEF HandedOver
    <2>3. CASE /\ at' = [at EXCEPT ![p] = "marking"]
               /\ helper' = [helper EXCEPT ![p] = "wait"]
      <3>1. Last(p) /\ \A q \in Pids : helper[q] \notin Ahead
        BY <2>1, NoneAhead DEF HandedOver
      <3>2. /\ at'[p] = "marking" /\ helper'[p] = "wait"
            /\ \A q \in Pids : q # p => at'[q] = at[q] /\ helper'[q] = helper[q]
        BY <2>3 DEF TypeOK
      <3>3. Last(p)'
        BY <3>1, <3>2 DEF Last, Pids
      <3>4. \A q, r \in Pids : q < r /\ at'[r] # "none" => HandedOver(q)'
        BY <2>1, <3>2 DEF Order, HandedOver
      <3>5. \A q \in Pids : q # p /\ HandedOver(q) => HandedOver(q)'
        BY <3>2 DEF HandedOver
      <3>6. HandedOver(p)'
        BY <3>2 DEF HandedOver
      <3>7. QED BY <3>1, <3>2, <3>3, <3>4, <3>5, <3>6 DEF Order, Ahead
    <2>4. QED BY <1>5, <2>2, <2>3 DEF Spawn, Goes
  <1>6. ASSUME NEW p \in Pids, MarkUpdating(p) PROVE Order'
    <2>1. at' = [at EXCEPT ![p] = "closing"] /\ UNCHANGED helper /\ at[p] = "marking"
      BY <1>6 DEF MarkUpdating, Goes, swap
    <2>2. QED BY <2>1, MoveOrder
  <1>7. ASSUME NEW p \in Pids, Exit(p) \/ Crash(p) PROVE Order'
    <2>1. at' = [at EXCEPT ![p] = "gone"] /\ UNCHANGED helper /\ at[p] # "none"
      BY <1>7 DEF Exit, Crash, Ends, Alive, swap
    <2>2. QED BY <2>1, MoveOrder
  <1>8. ASSUME NEW p \in Pids, Wait(p) \/ DeleteBak(p) \/ MoveOld(p) \/ MoveNew(p)
        PROVE  Order'
    <2>1. helper[p] \in Ahead /\ UNCHANGED at
      BY <1>8 DEF Wait, DeleteBak, MoveOld, MoveNew, Reads, Ahead, process
    <2>2. \E w \in Ahead : helper' = [helper EXCEPT ![p] = w]
      BY <1>8 DEF Wait, DeleteBak, MoveOld, MoveNew, GoesOn, Ahead
    <2>3. QED BY <2>1, <2>2, ScriptOrder DEF Ahead
  <1>9. ASSUME NEW p \in Pids, StartNew(p) PROVE Order'
    <2>1. helper[p] = "start" /\ helper' = [helper EXCEPT ![p] = "erase"]
      BY <1>9 DEF StartNew, Reads, GoesOn
    <2>2. CASE UNCHANGED at
      BY <2>1, <2>2, ScriptOrder DEF Ahead
    <2>3. ASSUME NEW q \in Pids, Starts(q) PROVE Order'
      <3>1. Last(p) /\ HandedOver(p) /\ \A r \in Pids : r # p => helper[r] \notin Ahead
        BY <2>1, OneAhead DEF Ahead
      <3>2. \A r \in Pids : at[r] # "none" => HandedOver(r)
        BY <3>1 DEF Order, Last, Pids
      <3>3. /\ \A r \in Pids : helper'[r] \notin Ahead
            /\ \A r \in Pids : helper'[r] # "none" <=> helper[r] # "none"
        BY <2>1, <3>1 DEF TypeOK, Ahead
      <3>4. QED BY <2>3, <3>2, <3>3, StartsLast
    <2>4. QED BY <1>9, <2>2, <2>3 DEF StartNew
  <1>10. ASSUME NEW p \in Pids, EraseScript(p) PROVE Order'
    <2>1. helper' = [helper EXCEPT ![p] = "done"] /\ UNCHANGED at /\ helper[p] # "none"
      BY <1>10 DEF EraseScript, GoesOn, Active, process
    <2>2. QED BY <2>1, ScriptOrder DEF Ahead
  <1>11. CASE Publish \/ Restore \/ UNCHANGED vars
    BY <1>1, <1>11 DEF Publish, Restore, vars, process, swap
  <1>12. QED BY <1>2, <1>3, <1>4, <1>5, <1>6, <1>7, <1>8, <1>9, <1>10, <1>11
    DEF Next, Program, Script

(* Where an offer stands, with the process and with the script.            *)
Asking == {"asked", "syncing", "copying", "writing", "verifying", "spawning"}
Swapping == {"wait", "delete", "moveOld", "moveNew"}

(* An offer that stands is of a build whose manifest was published.        *)
LEMMA OffersStay ==
  ASSUME TypeOK, TypeOK', Offers,
         published'.manifest >= published.manifest,
         \A q \in Pids :
           /\ at'[q] \in Asking \/ helper'[q] \in Swapping =>
                /\ at[q] \in Asking \/ helper[q] \in Swapping
                /\ offered'[q] = offered[q] /\ runs'[q] = runs[q]
           /\ at'[q] = "spawning" \/ helper'[q] \in Swapping =>
                /\ at[q] = "spawning" \/ helper[q] \in Swapping
                /\ new' = new
  PROVE  Offers'
  <1>1. published.manifest \in Nat /\ published'.manifest \in Nat
    BY Numbers DEF TypeOK
  <1>2. ASSUME NEW q \in Pids, at'[q] \in Asking \/ helper'[q] \in Swapping
        PROVE  /\ offered'[q] \in Versions /\ runs'[q] < offered'[q]
               /\ offered'[q] <= published'.manifest
    <2>1. at[q] \in Asking \/ helper[q] \in Swapping
      BY <1>2
    <2>2. /\ offered[q] \in Versions /\ runs[q] < offered[q]
          /\ offered[q] <= published.manifest
      BY <2>1 DEF Offers, Asking, Swapping
    <2>3. offered[q] \in Nat
      BY <2>2, Numbers
    <2>4. offered[q] <= published'.manifest
      BY <1>1, <2>2, <2>3
    <2>5. offered'[q] = offered[q] /\ runs'[q] = runs[q]
      BY <1>2
    <2>6. QED BY <2>2, <2>4, <2>5
  <1>3. ASSUME NEW q \in Pids, at'[q] = "spawning" \/ helper'[q] \in Swapping
        PROVE  new' = offered'[q]
    <2>1. new' = new /\ (at[q] = "spawning" \/ helper[q] \in Swapping)
      BY <1>3
    <2>2. new = offered[q]
      BY <2>1 DEF Offers, Swapping
    <2>3. offered'[q] = offered[q]
      BY <1>3 DEF Asking
    <2>4. QED BY <2>1, <2>2, <2>3
  <1>4. QED BY <1>2, <1>3 DEF Offers, Asking, Swapping

(* A step keeps what is known of the offers.                               *)
LEMMA OffersNext ==
  ASSUME Patient, TypeOK, TypeOK', Order, Offers, Installed, [Next]_vars
  PROVE  Offers'
  <1>1. CASE UNCHANGED <<published, at, helper, runs, offered, new>>
    BY <1>1 DEF Offers
  <1>2. CASE Publish
    <2>1. UNCHANGED <<at, helper, runs, offered, new>>
      BY <1>2 DEF Publish, process, swap, files
    <2>2. published'.manifest >= published.manifest
      <3>1. /\ published.exe \in Nat /\ published.manifest \in Nat
        BY Numbers DEF TypeOK
      <3>2. published'.manifest = published.manifest \/ published'.manifest = published.exe
        BY <1>2 DEF Publish, TypeOK
      <3>3. published'.manifest # published.manifest => published.manifest < published.exe
        BY <1>2 DEF Publish, TypeOK
      <3>4. QED BY <3>1, <3>2, <3>3
    <2>3. QED BY <2>1, <2>2, OffersStay
  <1>3. published.manifest >= published.manifest /\ published.manifest \in Versions
    <2>1. published.manifest \in Versions
      BY DEF TypeOK
    <2>2. published.manifest \in Nat
      BY <2>1, Numbers
    <2>3. QED BY <2>1, <2>2
  <1>4. CASE PowerCut
    <2>1. /\ \A q \in Pids : at'[q] \in {"none", "gone"} /\ helper'[q] \in {"none", "done"}
          /\ UNCHANGED <<published, runs, offered, new>>
      BY <1>4 DEF PowerCut, Alive, Active, files
    <2>2. QED BY <2>1 DEF Offers
  <1>5. ASSUME NEW p \in Pids, Starts(p), UNCHANGED <<published, offered, new>>,
               \A q \in Pids : helper'[q] \in Swapping => helper[q] \in Swapping
        PROVE  Offers'
    <2>1. at[p] = "none" /\ at'[p] = "started"
      BY <1>5 DEF Starts, Unused, TypeOK
    <2>2. \A q \in Pids : q # p => at'[q] = at[q] /\ runs'[q] = runs[q]
      BY <1>5 DEF Starts, TypeOK
    <2>3. helper'[p] \notin Swapping
      BY <1>5, <2>1 DEF Order, HandedOver, Swapping
    <2>4. QED BY <1>3, <1>5, <2>1, <2>2, <2>3, OffersStay DEF Asking
  <1>6. ASSUME NEW p \in Pids, Launch(p) PROVE Offers'
    BY <1>5, <1>6 DEF Launch, files, swap
  <1>7. ASSUME NEW p \in Pids, CheckForUpdate(p) PROVE Offers'
    <2>1. at[p] = "checking" /\ UNCHANGED <<published, helper, runs, new>>
      BY <1>7 DEF CheckForUpdate, swap, files
    <2>2. \A q \in Pids : q # p => at'[q] = at[q] /\ offered'[q] = offered[q]
      BY <1>7 DEF CheckForUpdate, Goes, TypeOK
    <2>3. helper[p] \notin Swapping
      BY <2>1 DEF Order, HandedOver, Swapping
    <2>4. CASE at' = [at EXCEPT ![p] = "up"]
      <3>1. at'[p] = "up"
        BY <2>4 DEF TypeOK
      <3>2. QED BY <1>3, <2>1, <2>2, <2>3, <3>1, OffersStay DEF Asking
    <2>5. CASE /\ runs[p] < published.manifest
               /\ at' = [at EXCEPT ![p] = "asked"]
               /\ offered' = [offered EXCEPT ![p] = published.manifest]
      <3>1. at'[p] = "asked" /\ offered'[p] = published.manifest
        BY <2>5 DEF TypeOK
      <3>2. offered'[p] <= published'.manifest
        BY <1>3, <2>1, <3>1, Numbers
      <3>3. QED BY <1>3, <2>1, <2>2, <2>3, <2>5, <3>1, <3>2 DEF Offers, Swapping
    <2>6. QED BY <1>7, <2>4, <2>5 DEF CheckForUpdate, Goes
  <1>8. ASSUME NEW p \in Pids, Answer(p) PROVE Offers'
    <2>1. at[p] = "asked" /\ UNCHANGED <<published, helper, runs, new>>
      BY <1>8 DEF Answer, swap, files
    <2>2. \A q \in Pids : q # p => at'[q] = at[q] /\ offered'[q] = offered[q]
      BY <1>8 DEF Answer, Goes, TypeOK
    <2>3. helper[p] \notin Swapping
      BY <2>1 DEF Order, HandedOver, Swapping
    <2>4. \/ at'[p] = "syncing" /\ offered'[p] = offered[p]
          \/ at'[p] = "up"
      BY <1>8 DEF Answer, Goes, TypeOK
    <2>5. CASE at'[p] = "up"
      BY <1>3, <2>1, <2>2, <2>3, <2>5, OffersStay DEF Asking
    <2>6. CASE at'[p] = "syncing" /\ offered'[p] = offered[p]
      BY <1>3, <2>1, <2>2, <2>6, OffersStay DEF Asking
    <2>7. QED BY <2>4, <2>5, <2>6
  <1>9. ASSUME NEW p \in Pids, ShowChangelogIfJustUpdated(p) \/ SyncResourceFiles(p)
        PROVE  Offers'
    <2>1. UNCHANGED <<published, helper, runs, offered, new>>
      BY <1>9 DEF ShowChangelogIfJustUpdated, SyncResourceFiles, swap, files
    <2>2. \A q \in Pids : q # p => at'[q] = at[q]
      BY <1>9 DEF ShowChangelogIfJustUpdated, SyncResourceFiles, Goes, TypeOK
    <2>3. \/ at'[p] = "checking"
          \/ at[p] = "syncing" /\ at'[p] = "copying"
      BY <1>9 DEF ShowChangelogIfJustUpdated, SyncResourceFiles, Goes, TypeOK
    <2>4. QED BY <1>3, <2>1, <2>2, <2>3, OffersStay DEF Asking
  <1>10. ASSUME NEW p \in Pids, CopyBegins(p) \/ CopyEnds(p) \/ Verify(p)
         PROVE  Offers'
    <2>1. UNCHANGED <<published, helper, runs, offered>>
      BY <1>10 DEF CopyBegins, CopyEnds, Verify, swap
    <2>2. \A q \in Pids : q # p => at'[q] = at[q]
      BY <1>10 DEF CopyBegins, CopyEnds, Verify, Goes, TypeOK
    <2>3. /\ at[p] \in {"copying", "writing", "verifying"}
          /\ \/ at'[p] \in {"writing", "verifying", "up"}
             \/ at'[p] = "spawning" /\ new' = offered[p]
      BY <1>10 DEF CopyBegins, CopyEnds, Verify, Goes, TypeOK
    <2>4. Last(p) /\ \A q \in Pids : helper[q] \notin Swapping
      BY <2>3, NoneAhead DEF HandedOver, Ahead, Swapping
    <2>5. \A q \in Pids : q # p => at[q] # "spawning"
      BY <2>3, <2>4, NoneAhead DEF Last, HandedOver, Pids
    <2>6. at[p] \in Asking
      BY <2>3 DEF Asking
    <2>7. /\ offered[p] \in Versions /\ runs[p] < offered[p]
          /\ offered[p] <= published.manifest
      BY <2>6 DEF Offers, Asking
    <2>8. \A q \in Pids : q # p =>
            /\ at[q] \in Asking => /\ offered[q] \in Versions /\ runs[q] < offered[q]
                                   /\ offered[q] <= published.manifest
      BY DEF Offers, Asking
    <2>9. QED BY <2>1, <2>2, <2>3, <2>4, <2>5, <2>7, <2>8 DEF Offers, Asking, Swapping
  <1>11. ASSUME NEW p \in Pids, Spawn(p) PROVE Offers'
    <2>1. at[p] = "spawning" /\ UNCHANGED <<published, runs, offered, new>>
      BY <1>11 DEF Spawn
    <2>2. /\ \A q \in Pids : q # p => at'[q] = at[q] /\ helper'[q] = helper[q]
          /\ at'[p] \in {"marking", "up"}
      <3>1. \E w \in {"marking", "up"} : at' = [at EXCEPT ![p] = w]
        BY <1>11 DEF Spawn, Goes
      <3>2. helper' = helper \/ helper' = [helper EXCEPT ![p] = "wait"]
        BY <1>11 DEF Spawn
      <3>3. QED BY <3>1, <3>2 DEF TypeOK
    <2>3. QED BY <1>3, <2>1, <2>2, OffersStay DEF Asking
  <1>12. ASSUME NEW p \in Pids, MarkUpdating(p) \/ Exit(p) \/ Crash(p) PROVE Offers'
    <2>1. UNCHANGED <<published, helper, runs, offered, new>>
      BY <1>12 DEF MarkUpdating, Exit, Crash, swap, files
    <2>2. /\ \A q \in Pids : q # p => at'[q] = at[q]
          /\ at'[p] \in {"closing", "gone"}
      BY <1>12 DEF MarkUpdating, Exit, Crash, Goes, Ends, TypeOK
    <2>3. QED BY <1>3, <2>1, <2>2, OffersStay DEF Asking
  <1>13. ASSUME NEW p \in Pids, Wait(p) \/ DeleteBak(p) \/ MoveOld(p) \/ EraseScript(p)
         PROVE  Offers'
    <2>1. UNCHANGED <<published, at, runs, offered, new>>
      BY <1>13 DEF Wait, DeleteBak, MoveOld, EraseScript, process, files
    <2>2. \/ helper[p] \in Swapping
          \/ helper'[p] = "done"
      BY <1>13 DEF Wait, DeleteBak, MoveOld, EraseScript, Reads, GoesOn, Swapping, TypeOK
    <2>3. \A q \in Pids : q # p => helper'[q] = helper[q]
      BY <1>13 DEF Wait, DeleteBak, MoveOld, EraseScript, GoesOn, TypeOK
    <2>4. QED BY <1>3, <2>1, <2>2, <2>3, OffersStay DEF Swapping
  <1>14. ASSUME NEW p \in Pids, MoveNew(p) PROVE Offers'
    <2>1. UNCHANGED <<published, at, runs, offered>> /\ helper[p] = "moveNew"
      BY <1>14 DEF MoveNew, Reads, process
    <2>2. helper'[p] = "start" /\ \A q \in Pids : q # p => helper'[q] = helper[q]
      BY <1>14 DEF MoveNew, GoesOn, TypeOK
    <2>3. \A q \in Pids : q # p => helper[q] \notin Swapping
      BY <2>1, OneAhead DEF Ahead, Swapping
    <2>4. \A q \in Pids : at[q] # "spawning"
      BY <2>1, NoneAhead DEF Ahead, HandedOver
    <2>5. QED BY <1>3, <2>1, <2>2, <2>3, <2>4, OffersStay DEF Swapping
  <1>15. ASSUME NEW p \in Pids, StartNew(p) PROVE Offers'
    <2>1. UNCHANGED <<published, offered, new>>
      BY <1>15 DEF StartNew, files
    <2>2. \A q \in Pids : helper'[q] \in Swapping => helper[q] \in Swapping
      BY <1>15 DEF StartNew, GoesOn, Swapping, TypeOK
    <2>3. CASE UNCHANGED <<at, runs>>
      BY <1>3, <2>1, <2>2, <2>3, OffersStay
    <2>4. QED BY <1>5, <1>15, <2>1, <2>2, <2>3 DEF StartNew
  <1>16. CASE Restore \/ UNCHANGED vars
    BY <1>1, <1>16 DEF Restore, vars, process, swap, files, local
  <1>17. QED BY <1>2, <1>4, <1>6, <1>7, <1>8, <1>9, <1>10, <1>11, <1>12, <1>13,
    <1>14, <1>15, <1>16 DEF Next, Program, Script

(* The manifest only moves on.                                             *)
LEMMA ManifestGrows ==
  ASSUME TypeOK, [Next]_vars
  PROVE  published'.manifest >= published.manifest /\ published.manifest \in Nat
  <1>1. published.manifest \in Nat /\ published.exe \in Nat
    BY Numbers DEF TypeOK
  <1>2. CASE published' = published
    BY <1>1, <1>2
  <1>3. CASE Publish
    <2>1. published'.manifest = published.manifest \/ published'.manifest = published.exe
      BY <1>3 DEF Publish, TypeOK
    <2>2. published'.manifest # published.manifest => published.manifest < published.exe
      BY <1>3 DEF Publish, TypeOK
    <2>3. QED BY <1>1, <2>1, <2>2
  <1>4. QED BY <1>2, <1>3 DEF Next, vars, PowerCut, Restore, Launch, Program, Exit,
    Crash, Script, ShowChangelogIfJustUpdated, CheckForUpdate, Answer,
    SyncResourceFiles, CopyBegins, CopyEnds, Verify, Spawn, MarkUpdating, Wait,
    DeleteBak, MoveOld, MoveNew, StartNew, EraseScript

(* Where a script is before it moves the installed program.                *)
Waiting == {"wait", "delete", "moveOld"}

(* While no file is touched, nothing of what is installed changes.         *)
LEMMA InstalledStay ==
  ASSUME TypeOK, TypeOK', Installed, UNCHANGED <<exe, bak>>,
         published'.manifest >= published.manifest,
         \A q \in Pids :
           /\ at'[q] # "none" => at[q] # "none" /\ runs'[q] = runs[q]
           /\ Young(q)' \/ helper'[q] \in Swapping =>
                /\ Young(q) \/ helper[q] \in Swapping
                /\ runs'[q] = runs[q]
           /\ Young(q)' \/ helper'[q] \in Waiting =>
                /\ Young(q) \/ helper[q] \in Waiting
                /\ image'[q] \in {image[q], "none"}
  PROVE  Installed'
  <1>1. published.manifest \in Nat /\ published'.manifest \in Nat
    BY Numbers DEF TypeOK
  <1>2. Cur' = Cur
    BY DEF Cur
  <1>3. /\ exe # Absent => exe \in Versions /\ exe <= published'.manifest
        /\ bak # Absent => bak \in Versions /\ bak <= published'.manifest
    <2>1. \A v \in Versions : v <= published.manifest => v <= published'.manifest
      BY <1>1, Numbers
    <2>2. QED BY <2>1 DEF Installed
  <1>4. SomethingToRun'
    BY DEF Installed, SomethingToRun
  <1>5. \A q \in Pids : Young(q)' \/ helper'[q] \in Waiting =>
          exe' \in Versions /\ image'[q] # "bak"
    BY DEF Installed, Waiting
  <1>6. \A q \in Pids : at'[q] # "none" => runs'[q] \in Versions /\ runs'[q] <= Cur'
    BY <1>2 DEF Installed
  <1>7. \A q \in Pids : Young(q)' \/ helper'[q] \in Swapping => runs'[q] = Cur'
    BY <1>2 DEF Installed, Swapping
  <1>8. QED BY <1>3, <1>4, <1>5, <1>6, <1>7 DEF Installed, Waiting, Swapping

(* A process that begins runs what is installed.                           *)
LEMMA StartsInstalled ==
  ASSUME TypeOK, TypeOK', Order, Installed, NEW p \in Pids, Starts(p),
         UNCHANGED <<exe, bak, published>>,
         \A q \in Pids : helper'[q] \notin Ahead,
         \A q \in Pids : at[q] # "none" => HandedOver(q)
  PROVE  Installed'
  <1>1. at[p] = "none" /\ exe \in Versions
    BY DEF Starts, Unused
  <1>2. /\ at'[p] = "started" /\ runs'[p] = exe /\ image'[p] = "exe"
        /\ \A q \in Pids : q # p =>
             /\ at'[q] = at[q] /\ runs'[q] = runs[q] /\ image'[q] = image[q]
    BY DEF Starts, TypeOK
  <1>3. \A q \in Pids : q # p => ~Young(q)'
    BY <1>2 DEF Young, HandedOver
  <1>4. Cur' = Cur /\ Cur = exe /\ exe <= exe
    BY <1>1, Numbers DEF Cur
  <1>5. SomethingToRun'
    BY <1>1 DEF SomethingToRun
  <1>6. QED BY <1>1, <1>2, <1>3, <1>4, <1>5 DEF Installed, Ahead

(* A step keeps what is known of the installed files.                      *)
LEMMA InstalledNext ==
  ASSUME Patient, TypeOK, TypeOK', Order, Offers, Installed, [Next]_vars
  PROVE  Installed'
  <1> USE ManifestGrows
  <1>1. CASE Publish \/ UNCHANGED vars
    <2>1. UNCHANGED <<exe, bak, at, helper, runs, image>>
      BY <1>1 DEF Publish, vars, files, process, swap
    <2>2. \A q \in Pids : Young(q)' = Young(q)
      BY <2>1 DEF Young
    <2>3. QED BY <2>1, <2>2, InstalledStay
  <1>2. CASE PowerCut
    <2>1. /\ \A q \in Pids : /\ at'[q] \in {"none", "gone"}
                             /\ at'[q] = "none" <=> at[q] = "none"
                             /\ helper'[q] \in {"none", "done"}
          /\ UNCHANGED <<exe, bak, runs>>
      BY <1>2 DEF PowerCut, Alive, Active, files
    <2>2. QED BY <2>1, InstalledStay DEF Young, Waiting, Swapping
  <1>3. CASE Restore
    <2>1. /\ exe \notin Versions /\ bak \in Versions /\ exe' = bak /\ bak' = Absent
          /\ UNCHANGED <<published, at, helper, runs, image>>
          /\ \A q \in Pids : ~Alive(q) /\ ~Active(q)
      BY <1>3 DEF Restore, process, swap
    <2>2. Cur' = Cur
      BY <2>1 DEF Cur
    <2>3. \A q \in Pids : ~Young(q)' /\ helper'[q] \notin Swapping \cup Waiting
      BY <2>1 DEF Young, Alive, Active, Swapping, Waiting
    <2>4. SomethingToRun'
      BY <2>1 DEF SomethingToRun
    <2>5. exe' \in Versions /\ exe' <= published'.manifest
      BY <2>1, Numbers DEF Installed
    <2>6. QED BY <2>1, <2>2, <2>3, <2>4, <2>5 DEF Installed, Waiting, Swapping
  <1>4. ASSUME NEW p \in Pids, Launch(p) PROVE Installed'
    <2>1. /\ Starts(p) /\ UNCHANGED <<exe, bak, published, helper>>
          /\ \A q \in Pids : ~Alive(q) /\ ~Active(q)
      BY <1>4 DEF Launch, files, swap
    <2>2. /\ \A q \in Pids : helper'[q] \notin Ahead
          /\ \A q \in Pids : at[q] # "none" => HandedOver(q)
      BY <2>1 DEF Active, Alive, HandedOver, Ahead
    <2>3. QED BY <2>1, <2>2, StartsInstalled
  <1>5. ASSUME NEW p \in Pids,
               \/ ShowChangelogIfJustUpdated(p) \/ CheckForUpdate(p) \/ Answer(p)
               \/ SyncResourceFiles(p) \/ CopyBegins(p) \/ CopyEnds(p) \/ Verify(p)
        PROVE  Installed'
    <2>1. Young(p) /\ UNCHANGED <<exe, bak, helper, runs, image>>
      BY <1>5 DEF ShowChangelogIfJustUpdated, CheckForUpdate, Answer,
        SyncResourceFiles, CopyBegins, CopyEnds, Verify, Young, swap, files
    <2>2. \E w : w # "none" /\ at' = [at EXCEPT ![p] = w]
      BY <1>5 DEF ShowChangelogIfJustUpdated, CheckForUpdate, Answer,
        SyncResourceFiles, CopyBegins, CopyEnds, Verify, Goes
    <2>3. \A q \in Pids : /\ at'[q] # "none" => at[q] # "none"
                          /\ Young(q)' => Young(q)
      BY <2>1, <2>2 DEF Young, TypeOK
    <2>4. QED BY <2>1, <2>3, InstalledStay
  <1>6. ASSUME NEW p \in Pids, Spawn(p) PROVE Installed'
    <2>1. at[p] = "spawning" /\ UNCHANGED <<exe, bak, runs, image>>
      BY <1>6 DEF Spawn
    <2>2. /\ \E w \in {"marking", "up"} : at' = [at EXCEPT ![p] = w]
          /\ helper' = helper \/ helper' = [helper EXCEPT ![p] = "wait"]
      BY <1>6 DEF Spawn, Goes
    <2>3. /\ \A q \in Pids : q # p => at'[q] = at[q] /\ helper'[q] = helper[q]
          /\ at'[p] \in {"marking", "up"}
      BY <2>2 DEF TypeOK
    <2>4. QED BY <2>1, <2>3, InstalledStay DEF Young
  <1>7. ASSUME NEW p \in Pids, MarkUpdating(p) \/ Exit(p) \/ Crash(p)
        PROVE  Installed'
    <2>1. at[p] # "none" /\ UNCHANGED <<exe, bak, helper, runs>>
      BY <1>7 DEF MarkUpdating, Exit, Crash, Alive, files, swap
    <2>2. /\ \E w \in {"closing", "gone"} : at' = [at EXCEPT ![p] = w]
          /\ image' = image \/ image' = [image EXCEPT ![p] = "none"]
      BY <1>7 DEF MarkUpdating, Exit, Crash, Ends, Goes
    <2>3. /\ \A q \in Pids : q # p => at'[q] = at[q]
          /\ at'[p] \in {"closing", "gone"}
          /\ \A q \in Pids : image'[q] \in {image[q], "none"}
      BY <2>2 DEF TypeOK
    <2>4. QED BY <2>1, <2>3, InstalledStay DEF Young
  <1>8. ASSUME NEW p \in Pids, Wait(p) \/ EraseScript(p) PROVE Installed'
    <2>1. UNCHANGED <<exe, bak, at, runs, image>>
      BY <1>8 DEF Wait, EraseScript, files, process
    <2>2. /\ \A q \in Pids : q # p => helper'[q] = helper[q]
          /\ helper[p] = "wait" \/ helper'[p] = "done"
      BY <1>8 DEF Wait, EraseScript, Reads, GoesOn, TypeOK
    <2>3. \A q \in Pids : Young(q)' = Young(q)
      BY <2>1 DEF Young
    <2>4. QED BY <2>1, <2>2, <2>3, InstalledStay DEF Waiting, Swapping
  <1>9. ASSUME NEW p \in Pids, DeleteBak(p) PROVE Installed'
    <2>1. /\ helper[p] = "delete" /\ bak' \in {bak, Absent}
          /\ UNCHANGED <<exe, published, at, runs, image>>
      BY <1>9 DEF DeleteBak, Reads, process
    <2>2. helper'[p] = "moveOld" /\ \A q \in Pids : q # p => helper'[q] = helper[q]
      BY <1>9 DEF DeleteBak, GoesOn, TypeOK
    <2>3. exe \in Versions
      BY <2>1 DEF Installed
    <2>4. Cur' = Cur /\ SomethingToRun'
      BY <2>1, <2>3 DEF Cur, SomethingToRun
    <2>5. \A q \in Pids : Young(q)' = Young(q)
      BY <2>1 DEF Young
    <2>6. /\ \A q \in Pids : helper'[q] \in Waiting => helper[q] \in Waiting
          /\ \A q \in Pids : helper'[q] \in Swapping => helper[q] \in Swapping
      BY <2>1, <2>2 DEF Waiting, Swapping
    <2>7. QED BY <2>1, <2>3, <2>4, <2>5, <2>6 DEF Installed, Waiting, Swapping
  <1>10. ASSUME NEW p \in Pids, MoveOld(p) PROVE Installed'
    <2>1. helper[p] = "moveOld" /\ UNCHANGED <<published, at, runs>>
      BY <1>10 DEF MoveOld, Reads
    <2>2. helper'[p] = "moveNew" /\ \A q \in Pids : q # p => helper'[q] = helper[q]
      BY <1>10 DEF MoveOld, GoesOn, TypeOK
    <2>3. \A q \in Pids : ~Young(q) /\ (q # p => helper[q] \notin Swapping)
      BY <2>1, NoneAhead, OneAhead DEF Young, HandedOver, Ahead, Swapping
    <2>4. \A q \in Pids : ~Young(q)' /\ helper'[q] \notin Waiting
      BY <2>1, <2>2, <2>3 DEF Young, Waiting, Swapping
    <2>5. exe \in Versions /\ runs[p] = Cur
      BY <2>1 DEF Installed
    <2>6. CASE bak' = exe /\ exe' = Absent
      <3>1. Cur' = Cur /\ SomethingToRun'
        BY <2>5, <2>6, Numbers DEF Cur, SomethingToRun
      <3>2. bak' \in Versions /\ bak' <= published'.manifest
        BY <2>1, <2>5, <2>6, Numbers DEF Installed
      <3>3. QED BY <2>1, <2>2, <2>3, <2>4, <2>5, <2>6, <3>1, <3>2
        DEF Installed, Waiting, Swapping
    <2>7. CASE UNCHANGED <<exe, bak, image>>
      BY <2>1, <2>2, <2>3, <2>4, <2>7, InstalledStay DEF Swapping
    <2>8. QED BY <1>10, <2>6, <2>7 DEF MoveOld
  <1>11. ASSUME NEW p \in Pids, MoveNew(p) PROVE Installed'
    <2>1. helper[p] = "moveNew" /\ UNCHANGED <<published, at, runs, image, bak>>
      BY <1>11 DEF MoveNew, Reads, process
    <2>2. helper'[p] = "start" /\ \A q \in Pids : q # p => helper'[q] = helper[q]
      BY <1>11 DEF MoveNew, GoesOn, TypeOK
    <2>3. \A q \in Pids : ~Young(q) /\ (q # p => helper[q] \notin Swapping)
      BY <2>1, NoneAhead, OneAhead DEF Young, HandedOver, Ahead, Swapping
    <2>4. \A q \in Pids : ~Young(q)' /\ helper'[q] \notin Waiting \cup Swapping
      BY <2>1, <2>2, <2>3 DEF Young, Waiting, Swapping
    <2>5. CASE UNCHANGED exe
      BY <2>1, <2>4, <2>5, InstalledStay
    <2>6. CASE exe' = new
      <3>1. /\ new \in Versions /\ new <= published.manifest /\ runs[p] < new
            /\ runs[p] = Cur
        BY <2>1 DEF Offers, Installed
      <3>2. Cur' = new /\ SomethingToRun'
        BY <2>6, <3>1 DEF Cur, SomethingToRun
      <3>3. \A q \in Pids : at[q] # "none" => runs[q] \in Versions /\ runs[q] <= Cur'
        <4>1. \A q \in Pids : at[q] # "none" => runs[q] \in Nat /\ runs[q] <= Cur
          BY Numbers DEF Installed
        <4>2. at[p] # "none"
          BY <2>1 DEF Order, Last
        <4>3. Cur \in Nat /\ new \in Nat /\ Cur < new
          BY <3>1, <4>1, <4>2, Numbers
        <4>4. QED BY <3>2, <4>1, <4>3 DEF Installed
      <3>4. exe' \in Versions /\ exe' <= published'.manifest
        BY <2>1, <2>6, <3>1
      <3>5. QED BY <2>1, <2>4, <3>2, <3>3, <3>4 DEF Installed, Waiting, Swapping
    <2>7. QED BY <1>11, <2>5, <2>6 DEF MoveNew
  <1>12. ASSUME NEW p \in Pids, StartNew(p) PROVE Installed'
    <2>1. helper[p] = "start" /\ UNCHANGED <<published, exe, bak>>
      BY <1>12 DEF StartNew, Reads, files
    <2>2. helper'[p] = "erase" /\ \A q \in Pids : q # p => helper'[q] = helper[q]
      BY <1>12 DEF StartNew, GoesOn, TypeOK
    <2>3. Last(p) /\ HandedOver(p) /\ \A q \in Pids : q # p => helper[q] \notin Ahead
      BY <2>1, OneAhead DEF Ahead
    <2>4. \A q \in Pids : helper'[q] \notin Ahead
      BY <2>2, <2>3 DEF Ahead
    <2>5. \A q \in Pids : at[q] # "none" => HandedOver(q)
      BY <2>3 DEF Order, Last, Pids
    <2>6. CASE UNCHANGED <<at, runs, image>>
      BY <2>1, <2>4, <2>6, InstalledStay DEF Young, Ahead, Waiting, Swapping
    <2>7. QED BY <1>12, <2>1, <2>4, <2>5, <2>6, StartsInstalled DEF StartNew
  <1>13. QED BY <1>1, <1>2, <1>3, <1>4, <1>5, <1>6, <1>7, <1>8, <1>9, <1>10,
    <1>11, <1>12 DEF Next, Program, Script

(* Where a script is that has ended its waiting.                           *)
After == {"delete", "moveOld", "moveNew", "start", "erase"}

(* What a script has given up does not come back.                          *)
LEMMA LateStays ==
  ASSUME TypeOK, TypeOK', \A q \in Pids : tries'[q] >= tries[q]
  PROVE  /\ \A p \in Pids : Late(p) => Late(p)'
         /\ GaveUp => GaveUp'
  <1>1. \A q \in Pids : tries[q] \in Nat /\ tries'[q] \in Nat
    BY Numbers DEF TypeOK
  <1>2. \A q \in Pids : tries[q] > MaxTries => tries'[q] > MaxTries
    BY <1>1, Numbers
  <1>3. QED BY <1>2 DEF Late, GaveUp

(* What was waited for stays so while no process begins.                   *)
LEMMA WaitedStay ==
  ASSUME TypeOK, TypeOK', Waited,
         \A q \in Pids :
           /\ tries'[q] >= tries[q]
           /\ at'[q] # "none" => at[q] # "none"
           /\ Alive(q)' => Alive(q)
           /\ helper'[q] = "none" => tries'[q] = 0
           /\ helper'[q] = "wait" => tries'[q] <= MaxTries
           /\ helper'[q] \in After =>
                helper[q] \in After \/ ~Alive(q)' \/ tries'[q] > MaxTries
           /\ at'[q] = "marking" =>
                \/ at[q] = "marking" /\ runs'[q] = runs[q] /\ Cur' = Cur
                \/ runs'[q] = Cur' \/ GaveUp'
           /\ helper'[q] = "moveNew" =>
                \/ helper[q] = "moveNew" /\ runs'[q] = runs[q] /\ bak' = bak
                \/ bak' = runs'[q] \/ Late(q)'
  PROVE  Waited'
  <1>1. /\ \A q \in Pids : Late(q) => Late(q)'
        /\ GaveUp => GaveUp'
    BY LateStays
  <1>2. \A q \in Pids : tries[q] > MaxTries => tries'[q] > MaxTries
    <2>1. \A q \in Pids : tries[q] \in Nat /\ tries'[q] \in Nat
      BY Numbers DEF TypeOK
    <2>2. QED BY <2>1, Numbers
  <1>3. \A q \in Pids : helper'[q] \in After => ~Alive(q)' \/ tries'[q] > MaxTries
    BY <1>2 DEF Waited, After
  <1>4. \A p, q \in Pids : q < p /\ at'[p] # "none" /\ Alive(q)' => Late(p)'
    BY <1>1 DEF Waited
  <1>5. \A p \in Pids : at'[p] = "marking" => runs'[p] = Cur' \/ GaveUp'
    BY <1>1 DEF Waited
  <1>6. \A p \in Pids : helper'[p] = "moveNew" => bak' = runs'[p] \/ Late(p)'
    BY <1>1 DEF Waited
  <1>7. QED BY <1>3, <1>4, <1>5, <1>6 DEF Waited, After

(* A process may begin while an older one runs only if a script gave up.   *)
LEMMA StartsWaited ==
  ASSUME TypeOK, TypeOK', Order, Waited, NEW p \in Pids, Starts(p),
         UNCHANGED <<exe, bak, tries>>,
         \A q \in Pids : \/ helper'[q] = helper[q]
                         \/ helper[q] \in After /\ helper'[q] = "erase",
         \A q \in Pids : Alive(q) => Late(p),
         Last(p)'
  PROVE  Waited'
  <1>1. /\ at[p] = "none" /\ at'[p] = "started"
        /\ \A q \in Pids : q # p => at'[q] = at[q] /\ runs'[q] = runs[q]
    BY DEF Starts, Unused, TypeOK
  <1>2. helper[p] = "none" /\ helper'[p] = "none"
    BY <1>1 DEF Order, HandedOver, After
  <1>3. Cur' = Cur /\ (GaveUp => GaveUp') /\ \A q \in Pids : Late(q) => Late(q)'
    BY DEF Cur, GaveUp, Late
  <1>4. \A q \in Pids : q # p => Alive(q)' = Alive(q)
    BY <1>1 DEF Alive
  <1>5. ASSUME NEW r \in Pids, NEW q \in Pids, q < r, at'[r] # "none", Alive(q)'
        PROVE  Late(r)'
    <2>1. q # p
      BY <1>5 DEF Last, Pids
    <2>2. CASE r = p
      BY <1>3, <1>4, <1>5, <2>1, <2>2
    <2>3. CASE r # p
      BY <1>1, <1>3, <1>4, <1>5, <2>1, <2>3 DEF Waited
    <2>4. QED BY <2>2, <2>3
  <1>6. \A q \in Pids : /\ helper'[q] = "none" => tries'[q] = 0
                        /\ helper'[q] = "wait" => tries'[q] <= MaxTries
    BY DEF Waited, After
  <1>7. \A q \in Pids : helper'[q] \in After => ~Alive(q)' \/ tries'[q] > MaxTries
    BY <1>2, <1>4 DEF Waited, After
  <1>8. \A q \in Pids : at'[q] = "marking" => runs'[q] = Cur' \/ GaveUp'
    BY <1>1, <1>3 DEF Waited
  <1>9. \A q \in Pids : helper'[q] = "moveNew" => bak' = runs'[q] \/ Late(q)'
    BY <1>1, <1>2, <1>3 DEF Waited
  <1>10. QED BY <1>5, <1>6, <1>7, <1>8, <1>9 DEF Waited, After

(* What a process does itself waits for nothing.                           *)
LEMMA MoveWaited ==
  ASSUME TypeOK, TypeOK', Waited, NEW p \in Pids, at[p] # "none", Alive(p),
         \E w : at' = [at EXCEPT ![p] = w],
         at'[p] = "marking" => runs'[p] = Cur',
         UNCHANGED <<exe, bak, runs, helper, tries>>
  PROVE  Waited'
  <1>1. \A q \in Pids : q # p => at'[q] = at[q]
    BY DEF TypeOK
  <1>2. \A q \in Pids : Alive(q)' => Alive(q)
    BY <1>1 DEF Alive
  <1>3. \A q \in Pids : tries[q] \in Nat
    BY Numbers DEF TypeOK
  <1>4. Cur' = Cur
    BY DEF Cur
  <1>5. \A q \in Pids : tries'[q] >= tries[q]
    BY <1>3
  <1>6. \A q \in Pids : /\ helper'[q] = "none" => tries'[q] = 0
                        /\ helper'[q] = "wait" => tries'[q] <= MaxTries
    BY DEF Waited
  <1>7. QED BY <1>1, <1>2, <1>4, <1>5, <1>6, WaitedStay

(* A step of a script, as far as the waiting goes.                         *)
LEMMA ScriptWaited ==
  ASSUME TypeOK, TypeOK', Waited, NEW p \in Pids, NEW w \in After \cup {"wait", "done"},
         helper' = [helper EXCEPT ![p] = w], UNCHANGED <<at, runs>>,
         \A q \in Pids : tries'[q] >= tries[q] /\ (q # p => tries'[q] = tries[q]),
         w = "wait" => tries'[p] <= MaxTries,
         w \in After => helper[p] \in After \/ ~Alive(p) \/ tries'[p] > MaxTries,
         w = "moveNew" => bak' = runs[p] \/ Late(p)',
         bak' = bak \/ \A q \in Pids : q # p => helper[q] # "moveNew",
         Cur' = Cur \/ GaveUp' \/ \A q \in Pids : at[q] # "marking"
  PROVE  Waited'
  <1>1. helper'[p] = w /\ \A q \in Pids : q # p => helper'[q] = helper[q]
    BY DEF TypeOK
  <1>2. \A q \in Pids : Alive(q)' = Alive(q)
    BY DEF Alive
  <1>3. \A q \in Pids : /\ helper'[q] = "none" => tries'[q] = 0
                        /\ helper'[q] = "wait" => tries'[q] <= MaxTries
    BY <1>1 DEF Waited, After
  <1>4. \A q \in Pids : helper'[q] = "moveNew" =>
          \/ helper[q] = "moveNew" /\ runs'[q] = runs[q] /\ bak' = bak
          \/ bak' = runs'[q] \/ Late(q)'
    BY <1>1
  <1>5. QED BY <1>1, <1>2, <1>3, <1>4, WaitedStay

(* A step keeps what is known of the waiting.                              *)
LEMMA WaitedNext ==
  ASSUME Patient, TypeOK, TypeOK', Order, Offers, Installed, Waited, [Next]_vars,
         Order'
  PROVE  Waited'
  <1>n. \A q \in Pids : tries[q] \in Nat /\ tries'[q] \in Nat
    BY Numbers DEF TypeOK
  <1>t. UNCHANGED tries => \A q \in Pids : tries'[q] >= tries[q]
    BY <1>n
  <1>1. CASE Publish \/ UNCHANGED vars
    <2>1. UNCHANGED <<exe, bak, at, helper, runs, tries>>
      BY <1>1 DEF Publish, vars, files, process, swap
    <2>2. Cur' = Cur /\ \A q \in Pids : Alive(q)' = Alive(q)
      BY <2>1 DEF Cur, Alive
    <2>3. \A q \in Pids : Late(q)' = Late(q) /\ GaveUp' = GaveUp
      BY <2>1 DEF Late, GaveUp
    <2>4. QED BY <2>1, <2>2, <2>3 DEF Waited
  <1>2. CASE PowerCut
    <2>1. /\ \A q \in Pids : /\ at'[q] \in {"none", "gone"}
                             /\ at'[q] = "none" <=> at[q] = "none"
                             /\ helper'[q] \in {"none", "done"}
                             /\ helper'[q] = "none" => helper[q] = "none"
          /\ UNCHANGED tries
      BY <1>2 DEF PowerCut, Alive, Active
    <2>2. \A q \in Pids : ~Alive(q)'
      BY <2>1 DEF Alive
    <2>3. \A q \in Pids : helper'[q] = "none" => tries'[q] = 0
      BY <2>1 DEF Waited
    <2>4. QED BY <2>1, <2>2, <2>3 DEF Waited
  <1>3. CASE Restore
    <2>1. /\ UNCHANGED <<at, helper, runs, tries>>
          /\ \A q \in Pids : ~Alive(q) /\ ~Active(q)
      BY <1>3 DEF Restore, process, swap
    <2>2. \A q \in Pids : ~Alive(q)' /\ helper'[q] \in {"none", "done"} /\ at'[q] # "marking"
      BY <2>1 DEF Alive, Active
    <2>3. QED BY <2>1, <2>2 DEF Waited
  <1>4. ASSUME NEW p \in Pids, Launch(p) PROVE Waited'
    <2>1. /\ Starts(p) /\ UNCHANGED <<exe, bak, helper, tries>>
          /\ \A q \in Pids : ~Alive(q) /\ ~Active(q)
      BY <1>4 DEF Launch, files, swap
    <2>2. at[p] = "none" /\ at'[p] = "started"
      BY <2>1 DEF Starts, Unused, TypeOK
    <2>3. Last(p)'
      BY <2>2 DEF Order, Last, HandedOver, Pids
    <2>4. QED BY <2>1, <2>3, StartsWaited
  <1>5. ASSUME NEW p \in Pids,
               \/ ShowChangelogIfJustUpdated(p) \/ CheckForUpdate(p) \/ Answer(p)
               \/ SyncResourceFiles(p) \/ CopyBegins(p) \/ CopyEnds(p) \/ Verify(p)
               \/ MarkUpdating(p) \/ Exit(p) \/ Crash(p)
        PROVE  Waited'
    <2>1. UNCHANGED <<exe, bak, helper, runs, tries>> /\ at[p] # "none" /\ Alive(p)
      BY <1>5 DEF ShowChangelogIfJustUpdated, CheckForUpdate, Answer,
        SyncResourceFiles, CopyBegins, CopyEnds, Verify, MarkUpdating, Exit, Crash,
        swap, files, Alive
    <2>2. \E w : w # "marking" /\ at' = [at EXCEPT ![p] = w]
      BY <1>5 DEF ShowChangelogIfJustUpdated, CheckForUpdate, Answer,
        SyncResourceFiles, CopyBegins, CopyEnds, Verify, MarkUpdating, Exit, Crash,
        Goes, Ends
    <2>3. at'[p] # "marking"
      BY <2>2 DEF TypeOK
    <2>4. QED BY <2>1, <2>2, <2>3, MoveWaited
  <1>6. ASSUME NEW p \in Pids, Spawn(p) PROVE Waited'
    <2>1. at[p] = "spawning" /\ UNCHANGED <<exe, bak, runs, tries>>
      BY <1>6 DEF Spawn
    <2>2. /\ \E w \in {"marking", "up"} : at' = [at EXCEPT ![p] = w]
          /\ helper' = helper \/ helper' = [helper EXCEPT ![p] = "wait"]
      BY <1>6 DEF Spawn, Goes
    <2>3. /\ \A q \in Pids : q # p => at'[q] = at[q] /\ helper'[q] = helper[q]
          /\ at'[p] \in {"marking", "up"} /\ helper'[p] \in {helper[p], "wait"}
      BY <2>2 DEF TypeOK
    <2>4. helper[p] = "none" /\ Alive(p)
      BY <2>1 DEF Order, HandedOver, Alive
    <2>5. tries[p] = 0 /\ 0 <= MaxTries
      BY <2>4, Numbers DEF Waited
    <2>6. runs[p] = Cur /\ Cur' = Cur
      BY <2>1 DEF Installed, Young, Cur
    <2>7. \A q \in Pids : Alive(q)' => Alive(q)
      BY <2>3, <2>4 DEF Alive
    <2>8. \A q \in Pids : at'[q] = "marking" =>
            (at[q] = "marking" /\ runs'[q] = runs[q]) \/ runs'[q] = Cur'
      BY <2>1, <2>3, <2>6
    <2>9. \A q \in Pids : /\ helper'[q] = "none" => tries'[q] = 0
                          /\ helper'[q] = "wait" => tries'[q] <= MaxTries
                          /\ helper'[q] \in After => helper[q] \in After
                          /\ helper'[q] = "moveNew" => helper[q] = "moveNew"
      BY <2>1, <2>3, <2>4, <2>5 DEF Waited, After
    <2>10. \A q \in Pids : at'[q] # "none" => at[q] # "none"
      BY <2>1, <2>3
    <2>11. QED BY <1>t, <2>1, <2>6, <2>7, <2>8, <2>9, <2>10, WaitedStay
  <1>7. ASSUME NEW p \in Pids, Wait(p) PROVE Waited'
    <2>1. /\ helper[p] = "wait" /\ tries' = [tries EXCEPT ![p] = tries[p] + 1]
          /\ helper' = [helper EXCEPT ![p] =
               IF tries[p] < MaxTries /\ Alive(p) THEN "wait" ELSE "delete"]
          /\ UNCHANGED <<exe, bak, at, runs>>
      BY <1>7 DEF Wait, Reads, GoesOn, files, process
    <2>2. tries'[p] = tries[p] + 1 /\ \A q \in Pids : q # p => tries'[q] = tries[q]
      BY <2>1 DEF TypeOK
    <2>3. \A q \in Pids : tries'[q] >= tries[q] /\ (q # p => tries'[q] = tries[q])
      BY <1>n, <2>2
    <2>4. Cur' = Cur
      BY <2>1 DEF Cur
    <2>5. CASE tries[p] < MaxTries /\ Alive(p)
      <3>1. tries'[p] <= MaxTries
        BY <1>n, <2>2, <2>5, Numbers
      <3>2. QED BY <2>1, <2>3, <2>4, <2>5, <3>1, ScriptWaited DEF After
    <2>6. CASE ~(tries[p] < MaxTries /\ Alive(p))
      <3>1. ~Alive(p) \/ tries'[p] > MaxTries
        BY <1>n, <2>2, <2>6, Numbers
      <3>2. QED BY <2>1, <2>3, <2>4, <2>6, <3>1, ScriptWaited DEF After
    <2>7. QED BY <2>5, <2>6
  <1>8. ASSUME NEW p \in Pids, DeleteBak(p) PROVE Waited'
    <2>1. /\ helper[p] = "delete" /\ bak' \in {bak, Absent}
          /\ helper' = [helper EXCEPT ![p] = "moveOld"]
          /\ UNCHANGED <<exe, at, runs, tries>>
      BY <1>8 DEF DeleteBak, Reads, GoesOn, process
    <2>2. Cur' = Cur
      BY <2>1 DEF Cur, Installed, Young
    <2>3. \A q \in Pids : q # p => helper[q] # "moveNew"
      BY <2>1, OneAhead DEF Ahead
    <2>4. QED BY <1>t, <2>1, <2>2, <2>3, ScriptWaited DEF After
  <1>9. ASSUME NEW p \in Pids, MoveOld(p) PROVE Waited'
    <2>1. /\ helper[p] = "moveOld" /\ helper' = [helper EXCEPT ![p] = "moveNew"]
          /\ UNCHANGED <<at, runs, tries>>
      BY <1>9 DEF MoveOld, Reads, GoesOn
    <2>2. /\ exe \in Versions /\ image[p] # "bak" /\ runs[p] = exe
      BY <2>1 DEF Installed, Cur
    <2>3. \A q \in Pids : q # p => helper[q] # "moveNew"
      BY <2>1, OneAhead DEF Ahead
    <2>4. Last(p)
      BY <2>1 DEF Order
    <2>5. Cur' = Cur /\ (bak' = runs[p] \/ Late(p))
      <3>1. CASE bak' = exe /\ exe' = Absent
        BY <2>2, <3>1, Numbers DEF Cur
      <3>2. CASE ~(exe # Absent /\ ~InUse("bak")) /\ UNCHANGED <<exe, bak, image>>
        <4>1. PICK q \in Pids : Alive(q) /\ image[q] = "bak"
          BY <2>2, <3>2, Numbers DEF InUse
        <4>2. q < p /\ at[p] # "none"
          BY <2>2, <2>4, <4>1 DEF Last, Alive, Pids
        <4>3. Late(p)
          BY <4>1, <4>2 DEF Waited
        <4>4. QED BY <3>2, <4>3 DEF Cur
      <3>3. QED BY <1>9, <3>1, <3>2 DEF MoveOld
    <2>6. Late(p)' = Late(p)
      BY <2>1 DEF Late
    <2>7. QED BY <1>t, <2>1, <2>3, <2>5, <2>6, ScriptWaited DEF After
  <1>10. ASSUME NEW p \in Pids, MoveNew(p) PROVE Waited'
    <2>1. /\ helper[p] = "moveNew" /\ helper' = [helper EXCEPT ![p] = "start"]
          /\ UNCHANGED <<bak, at, runs, tries>>
      BY <1>10 DEF MoveNew, Reads, GoesOn, process
    <2>2. ASSUME NEW q \in Pids, at[q] = "marking" PROVE GaveUp'
      <3>1. Alive(q) /\ Last(p)
        BY <2>1, <2>2 DEF Alive, Order
      <3>2. CASE q = p
        BY <2>1, <3>1, <3>2 DEF Waited, GaveUp
      <3>3. CASE q # p
        <4>1. q < p /\ at[p] # "none"
          BY <2>2, <3>1, <3>3 DEF Last, Pids
        <4>2. QED BY <2>1, <3>1, <4>1 DEF Waited, Late, GaveUp
      <3>4. QED BY <3>2, <3>3
    <2>3. QED BY <1>t, <2>1, <2>2, ScriptWaited DEF After
  <1>11. ASSUME NEW p \in Pids, StartNew(p) PROVE Waited'
    <2>1. /\ helper[p] = "start" /\ helper' = [helper EXCEPT ![p] = "erase"]
          /\ UNCHANGED <<exe, bak, tries>>
      BY <1>11 DEF StartNew, Reads, GoesOn, files
    <2>2. Cur' = Cur
      BY <2>1 DEF Cur
    <2>3. CASE UNCHANGED <<at, runs>>
      BY <1>t, <2>1, <2>2, <2>3, ScriptWaited DEF After
    <2>4. ASSUME NEW q \in Pids, Starts(q) PROVE Waited'
      <3>1. \A r \in Pids : \/ helper'[r] = helper[r]
                            \/ helper[r] \in After /\ helper'[r] = "erase"
        BY <2>1 DEF TypeOK, After
      <3>2. Last(p) /\ at[q] = "none" /\ at'[q] = "started"
        BY <2>1, <2>4 DEF Order, Starts, Unused, TypeOK
      <3>3. p < q
        BY <3>2 DEF Order, Last, HandedOver, Pids
      <3>4. \A r \in Pids : r > q => at'[r] = "none"
        BY <2>4, <3>2, <3>3 DEF Last, Starts, TypeOK, Pids
      <3>5. Last(q)'
        BY <3>2, <3>4 DEF Last
      <3>6. ASSUME NEW r \in Pids, Alive(r) PROVE Late(q)
        <4>1. CASE r = p
          BY <2>1, <3>3, <3>6, <4>1 DEF Waited, Late
        <4>2. CASE r # p
          <5>1. r < p /\ at[p] # "none"
            BY <3>2, <3>6, <4>2 DEF Last, Alive, Pids
          <5>2. PICK s \in Pids : s < p /\ tries[s] > MaxTries
            BY <3>6, <5>1 DEF Waited, Late
          <5>3. s < q
            BY <3>3, <5>2 DEF Pids
          <5>4. QED BY <5>2, <5>3 DEF Late
        <4>3. QED BY <4>1, <4>2
      <3>7. QED BY <2>1, <2>4, <3>1, <3>5, <3>6, StartsWaited
    <2>5. QED BY <1>11, <2>3, <2>4 DEF StartNew
  <1>12. ASSUME NEW p \in Pids, EraseScript(p) PROVE Waited'
    <2>1. /\ helper' = [helper EXCEPT ![p] = "done"]
          /\ UNCHANGED <<exe, bak, at, runs, tries>>
      BY <1>12 DEF EraseScript, GoesOn, process
    <2>2. Cur' = Cur
      BY <2>1 DEF Cur
    <2>3. QED BY <1>t, <2>1, <2>2, ScriptWaited DEF After
  <1>13. QED BY <1>1, <1>2, <1>3, <1>4, <1>5, <1>6, <1>7, <1>8, <1>9, <1>10,
    <1>11, <1>12 DEF Next, Program, Script

(* What is known of the news and the marker lasts.                         *)
LEMMA NewsStay ==
  ASSUME TypeOK, TypeOK', Order, News, UNCHANGED <<marker, news>>,
         \A q \in Pids :
           /\ tries'[q] >= tries[q]
           /\ at[q] # "none" => at'[q] # "none" /\ runs'[q] = runs[q]
           /\ helper[q] # "none" => helper'[q] # "none"
  PROVE  News'
  <1>1. GaveUp => GaveUp'
    BY LateStays
  <1>2. \A q \in Pids : helper[q] # "none" => runs'[q] = runs[q] /\ helper'[q] # "none"
    BY DEF Order, HandedOver
  <1>3. marker' # Absent => \E q \in Pids : runs'[q] = marker' /\ helper'[q] # "none"
    BY <1>2 DEF News
  <1>4. ASSUME NEW n \in news'
        PROVE  /\ at'[n[1]] # "none" /\ n[2] < n[3] /\ n[3] = runs'[n[1]]
               /\ \E p \in Pids : p < n[1] /\ runs'[p] = n[2] /\ helper'[p] # "none"
               /\ marker' # Absent => marker' >= n[3] \/ GaveUp'
    <2>1. n \in news /\ n[1] \in Pids
      BY DEF TypeOK
    <2>2. at[n[1]] # "none" /\ n[2] < n[3] /\ n[3] = runs[n[1]]
      BY <2>1 DEF News
    <2>3. PICK p \in Pids : p < n[1] /\ runs[p] = n[2] /\ helper[p] # "none"
      BY <2>1 DEF News
    <2>4. marker' # Absent => marker' >= n[3] \/ GaveUp'
      BY <1>1, <2>1 DEF News
    <2>5. QED BY <1>2, <2>1, <2>2, <2>3, <2>4
  <1>5. \A n, m \in news' : n[2] = m[2] /\ n[3] = m[3] => n = m \/ GaveUp'
    BY <1>1 DEF News
  <1>6. QED BY <1>3, <1>4, <1>5 DEF News

(* A started program takes the marker, and shows what led to it.           *)
LEMMA ShowsNews ==
  ASSUME TypeOK, Order, Installed, News, NEW p \in Pids,
         ShowChangelogIfJustUpdated(p)
  PROVE  News'
  <1>1. /\ at[p] = "started" /\ at' = [at EXCEPT ![p] = "checking"]
        /\ marker' = Absent /\ UNCHANGED <<runs, helper, tries>>
        /\ news' = news \cup {<<p, v, runs[p]>> : v \in {marker} \cap 1..(runs[p] - 1)}
    BY DEF ShowChangelogIfJustUpdated, swap
  <1>2. \A q \in Pids : at[q] # "none" => at'[q] # "none"
    BY <1>1 DEF TypeOK
  <1>3. GaveUp' = GaveUp
    BY <1>1 DEF GaveUp
  <1>4. Last(p) /\ helper[p] = "none"
    BY <1>1, NoneAhead DEF HandedOver
  <1>5. ASSUME NEW n \in news', n \notin news
        PROVE  /\ n = <<p, marker, runs[p]>> /\ marker < runs[p]
               /\ marker \in Nat /\ runs[p] \in Nat /\ marker # Absent
    <2>1. n = <<p, marker, runs[p]>> /\ marker \in 1..(runs[p] - 1)
      BY <1>1, <1>5
    <2>2. runs[p] \in Versions \cup {Absent} /\ marker \in Versions \cup {Absent}
      BY DEF TypeOK
    <2>3. runs[p] \in Nat
      BY <1>1, Numbers DEF Installed
    <2>4. QED BY <2>1, <2>2, <2>3, UpdateAssumption
  <1>6. ASSUME NEW n \in news'
        PROVE  /\ at'[n[1]] # "none" /\ n[2] < n[3] /\ n[3] = runs'[n[1]]
               /\ \E q \in Pids : q < n[1] /\ runs'[q] = n[2] /\ helper'[q] # "none"
    <2>1. CASE n \in news
      BY <1>1, <1>2, <2>1 DEF News, TypeOK
    <2>2. CASE n \notin news
      <3>1. /\ n[1] = p /\ n[2] = marker /\ n[3] = runs[p] /\ marker < runs[p]
            /\ marker # Absent
        BY <1>5, <2>2
      <3>2. PICK q \in Pids : runs[q] = marker /\ helper[q] # "none"
        BY <3>1 DEF News
      <3>3. at[q] # "none" /\ q # p
        BY <1>4, <3>2 DEF Order, HandedOver
      <3>4. q < p
        BY <1>4, <3>3 DEF Last, Pids
      <3>5. at'[p] # "none"
        BY <1>1, <1>2
      <3>6. QED BY <1>1, <3>1, <3>2, <3>4, <3>5
    <2>3. QED BY <2>1, <2>2
  <1>7. ASSUME NEW n \in news', NEW m \in news', n[2] = m[2], n[3] = m[3],
               n \notin news
        PROVE  n = m \/ GaveUp
    <2>1. /\ n = <<p, marker, runs[p]>> /\ marker < runs[p] /\ marker # Absent
          /\ marker \in Nat /\ runs[p] \in Nat
      BY <1>5, <1>7
    <2>2. CASE m \in news
      <3>1. marker >= m[3] \/ GaveUp
        BY <2>1, <2>2 DEF News
      <3>2. m[3] = runs[p]
        BY <1>7, <2>1
      <3>3. QED BY <2>1, <3>1, <3>2
    <2>3. CASE m \notin news
      BY <1>5, <1>7, <2>1, <2>3
    <2>4. QED BY <2>2, <2>3
  <1>8. \A n, m \in news' : n[2] = m[2] /\ n[3] = m[3] => n = m \/ GaveUp'
    <2> SUFFICES ASSUME NEW n \in news', NEW m \in news', n[2] = m[2], n[3] = m[3]
                 PROVE  n = m \/ GaveUp'
      OBVIOUS
    <2>1. CASE n \in news /\ m \in news
      BY <1>3, <2>1 DEF News
    <2>2. CASE n \notin news
      BY <1>3, <1>7, <2>2
    <2>3. CASE m \notin news
      BY <1>3, <1>7, <2>3
    <2>4. QED BY <2>1, <2>2, <2>3
  <1>9. QED BY <1>1, <1>6, <1>8 DEF News

(* A program writes the marker when no newer one has shown the news, or a  *)
(* script has given up waiting.                                            *)
LEMMA MarksNews ==
  ASSUME TypeOK, TypeOK', Order, Installed, Waited, News, NEW p \in Pids, MarkUpdating(p)
  PROVE  News'
  <1>1. /\ at[p] = "marking" /\ at' = [at EXCEPT ![p] = "closing"]
        /\ marker' = runs[p] /\ UNCHANGED <<runs, helper, tries, news>>
    BY DEF MarkUpdating, Goes, swap
  <1>2. \A q \in Pids : at[q] # "none" => at'[q] # "none"
    BY <1>1 DEF TypeOK
  <1>3. GaveUp' = GaveUp
    BY <1>1 DEF GaveUp
  <1>4. helper[p] # "none"
    BY <1>1 DEF Order
  <1>5. ASSUME NEW n \in news PROVE runs[p] >= n[3] \/ GaveUp
    <2>1. n[1] \in Pids /\ at[n[1]] # "none" /\ n[3] = runs[n[1]]
      BY DEF News, TypeOK
    <2>2. /\ runs[n[1]] <= Cur /\ runs[n[1]] \in Nat
          /\ runs[p] \in Nat /\ (runs[p] = Cur \/ GaveUp)
      BY <1>1, <2>1, Numbers DEF Installed, Waited
    <2>3. QED BY <2>1, <2>2
  <1>6. QED BY <1>1, <1>2, <1>3, <1>4, <1>5 DEF News, TypeOK

(* A step keeps what is known of the news.                                 *)
LEMMA NewsNext ==
  ASSUME Patient, TypeOK, TypeOK', Order, Installed, Waited, News, [Next]_vars
  PROVE  News'
  <1>n. \A q \in Pids : tries[q] \in Nat /\ tries'[q] \in Nat
    BY Numbers DEF TypeOK
  <1>t. UNCHANGED tries => \A q \in Pids : tries'[q] >= tries[q]
    BY <1>n
  <1>1. CASE Publish \/ Restore \/ UNCHANGED vars
    <2>1. UNCHANGED <<marker, news, at, runs, helper, tries>>
      BY <1>1 DEF Publish, Restore, vars, local, process, swap
    <2>2. QED BY <1>t, <2>1, NewsStay
  <1>2. CASE PowerCut
    <2>1. /\ \A q \in Pids : /\ at'[q] = "none" <=> at[q] = "none"
                             /\ helper[q] # "none" => helper'[q] # "none"
          /\ UNCHANGED <<marker, news, runs, tries>>
      BY <1>2 DEF PowerCut, Alive, Active, local
    <2>2. QED BY <1>t, <2>1, NewsStay
  <1>3. ASSUME NEW p \in Pids, Starts(p), UNCHANGED <<marker, news, tries>>,
               \A q \in Pids : helper[q] # "none" => helper'[q] # "none"
        PROVE  News'
    <2>1. \A q \in Pids : at[q] # "none" => at'[q] = at[q] /\ runs'[q] = runs[q]
      BY <1>3 DEF Starts, Unused, TypeOK
    <2>2. QED BY <1>3, <1>t, <2>1, NewsStay
  <1>4. ASSUME NEW p \in Pids, Launch(p) PROVE News'
    BY <1>3, <1>4 DEF Launch, local, swap
  <1>5. ASSUME NEW p \in Pids,
               \/ CheckForUpdate(p) \/ Answer(p)
               \/ SyncResourceFiles(p) \/ CopyBegins(p) \/ CopyEnds(p) \/ Verify(p)
               \/ Exit(p) \/ Crash(p)
        PROVE  News'
    <2>1. UNCHANGED <<marker, news, helper, runs, tries>>
      BY <1>5 DEF CheckForUpdate, Answer, SyncResourceFiles, CopyBegins, CopyEnds,
        Verify, Exit, Crash, swap, local
    <2>2. \E w : w # "none" /\ at' = [at EXCEPT ![p] = w]
      BY <1>5 DEF CheckForUpdate, Answer, SyncResourceFiles, CopyBegins, CopyEnds,
        Verify, Exit, Crash, Goes, Ends
    <2>3. \A q \in Pids : at[q] # "none" => at'[q] # "none"
      BY <2>2 DEF TypeOK
    <2>4. QED BY <1>t, <2>1, <2>3, NewsStay
  <1>6. ASSUME NEW p \in Pids, Spawn(p) PROVE News'
    <2>1. /\ \E w \in {"marking", "up"} : at' = [at EXCEPT ![p] = w]
          /\ helper' = helper \/ helper' = [helper EXCEPT ![p] = "wait"]
          /\ UNCHANGED <<marker, news, runs, tries>>
      BY <1>6 DEF Spawn, Goes, local
    <2>2. \A q \in Pids : /\ at[q] # "none" => at'[q] # "none"
                          /\ helper[q] # "none" => helper'[q] # "none"
      BY <2>1 DEF TypeOK
    <2>3. QED BY <1>t, <2>1, <2>2, NewsStay
  <1>7. ASSUME NEW p \in Pids, Wait(p) PROVE News'
    <2>1. /\ tries' = [tries EXCEPT ![p] = tries[p] + 1]
          /\ UNCHANGED <<marker, news, at, runs>>
          /\ helper' = [helper EXCEPT ![p] =
               IF tries[p] < MaxTries /\ Alive(p) THEN "wait" ELSE "delete"]
      BY <1>7 DEF Wait, GoesOn, local, process
    <2>2. \A q \in Pids : tries'[q] \in {tries[q], tries[q] + 1}
      BY <2>1 DEF TypeOK
    <2>3. \A q \in Pids : tries'[q] >= tries[q]
      BY <1>n, <2>2
    <2>4. \A q \in Pids : helper[q] # "none" => helper'[q] # "none"
      BY <2>1 DEF TypeOK
    <2>5. QED BY <2>1, <2>3, <2>4, NewsStay
  <1>8. ASSUME NEW p \in Pids,
               DeleteBak(p) \/ MoveOld(p) \/ MoveNew(p) \/ EraseScript(p)
        PROVE  News'
    <2>1. /\ \E w : w # "none" /\ helper' = [helper EXCEPT ![p] = w]
          /\ UNCHANGED <<marker, news, at, runs, tries>>
      BY <1>8 DEF DeleteBak, MoveOld, MoveNew, EraseScript, GoesOn, local, process
    <2>2. \A q \in Pids : helper[q] # "none" => helper'[q] # "none"
      BY <2>1 DEF TypeOK
    <2>3. QED BY <1>t, <2>1, <2>2, NewsStay
  <1>9. ASSUME NEW p \in Pids, StartNew(p) PROVE News'
    <2>1. /\ helper' = [helper EXCEPT ![p] = "erase"]
          /\ UNCHANGED <<marker, news, tries>>
          /\ \/ \E q \in Pids : Starts(q)
             \/ UNCHANGED <<at, runs>>
      BY <1>9 DEF StartNew, GoesOn, local
    <2>2. \A q \in Pids : helper[q] # "none" => helper'[q] # "none"
      BY <2>1 DEF TypeOK
    <2>3. CASE UNCHANGED <<at, runs>>
      BY <1>t, <2>1, <2>2, <2>3, NewsStay
    <2>4. QED BY <1>3, <2>1, <2>2, <2>3
  <1>10. QED BY <1>1, <1>2, <1>4, <1>5, <1>6, <1>7, <1>8, <1>9, ShowsNews,
    MarksNews DEF Next, Program, Script

(* The first state.                                                        *)
LEMMA UpdateInit == Init => UInv
  <1> SUFFICES ASSUME Init PROVE UInv
    OBVIOUS
  <1>1. TypeOK
    BY TypesInit
  <1>2. \A p \in Pids : /\ at[p] = "none" /\ helper[p] = "none" /\ tries[p] = 0
                        /\ image[p] = "none"
    BY DEF Init
  <1>3. /\ exe = 1 /\ bak = Absent /\ published.manifest = 1 /\ marker = Absent
        /\ news = {}
    BY DEF Init
  <1>4. Order
    BY <1>2 DEF Order
  <1>5. Offers
    BY <1>2 DEF Offers
  <1>6. Installed
    BY <1>2, <1>3, Numbers DEF Installed, SomethingToRun, Young
  <1>7. Waited
    BY <1>2, Numbers DEF Waited
  <1>8. News
    BY <1>3 DEF News
  <1>9. QED BY <1>1, <1>4, <1>5, <1>6, <1>7, <1>8 DEF UInv

(* A step keeps the invariant,                                             *)
LEMMA UpdateStep ==
  ASSUME Patient, UInv, [Next]_vars
  PROVE  UInv'
  <1>1. TypeOK'
    BY TypesNext DEF UInv
  <1>2. Order'
    BY OrderNext DEF UInv
  <1>3. Offers' /\ Installed'
    BY <1>1, OffersNext, InstalledNext DEF UInv
  <1>4. Waited'
    BY <1>1, <1>2, WaitedNext DEF UInv
  <1>5. News'
    BY <1>1, NewsNext DEF UInv
  <1>6. QED BY <1>1, <1>2, <1>3, <1>4, <1>5 DEF UInv

(* which holds therefore in every state.                                   *)
LEMMA UpdateInvariant == ASSUME Patient PROVE Spec => []UInv
  BY UpdateInit, UpdateStep, PTL DEF Spec

(* Every file, process and script stays in a state that the code knows.    *)
THEOREM TypesHold == ASSUME Patient PROVE Spec => []TypeOK
  <1>1. UInv => TypeOK
    BY DEF UInv
  <1>2. QED BY <1>1, UpdateInvariant, PTL

(* However many releases are published, however often the program is       *)
(* started, crashes or loses its power: what is installed is a whole build *)
(* that was published with its manifest (ApplyUpdate() verifies it, the    *)
(* script of BuildUpdateScript() moves it).                                *)
THEOREM OnlyVerifiedBuilds == ASSUME Patient PROVE Spec => []InstalledIsVerified
  <1>1. UInv => InstalledIsVerified
    BY DEF UInv, Installed, InstalledIsVerified
  <1>2. QED BY <1>1, UpdateInvariant, PTL

(* At every line of the script of BuildUpdateScript() there is a program   *)
(* to start or a backup to rename.                                         *)
THEOREM AlwaysAProgram == ASSUME Patient PROVE Spec => []SomethingToRun
  <1>1. UInv => SomethingToRun
    BY DEF UInv, Installed
  <1>2. QED BY <1>1, UpdateInvariant, PTL

(* The changes between two versions are shown at most once, by the program *)
(* they led to, unless a script gave up waiting                            *)
(* (PendingUpdate::ConsumeMarker(), cMain::ShowChangelogIfJustUpdated()).  *)
THEOREM NewsShownOnce == ASSUME Patient PROVE Spec => []NewsOnce
  <1>1. UInv => NewsOnce
    BY DEF UInv, News, NewsOnce
  <1>2. QED BY <1>1, UpdateInvariant, PTL

(* A step of a script that installs a build leaves the program that asked  *)
(* for it as the backup, unless a script before it gave up waiting         *)
(* (BuildUpdateScript()).                                                  *)
THEOREM BackupIsPrevious == ASSUME Patient PROVE Spec => PreviousKept
  <1>1. ASSUME UInv, [Next]_vars, NEW p \in Pids, Installs(p)
        PROVE  bak' = runs[p] \/ Late(p)
    <2>1. helper[p] = "moveNew" /\ exe' # exe
      BY <1>1 DEF Installs
    <2>2. bak = runs[p] \/ Late(p)
      BY <1>1, <2>1 DEF UInv, Waited
    <2>3. Active(p)
      BY <2>1 DEF Active
    <2>4. UNCHANGED exe \/ Restore \/ \E q \in Pids : MoveOld(q) \/ MoveNew(q)
      BY <1>1 DEF Next, Program, Script, vars, files, Publish, PowerCut, Launch, Exit,
        Crash, ShowChangelogIfJustUpdated, CheckForUpdate, Answer,
        SyncResourceFiles, CopyBegins, CopyEnds, Verify, Spawn, MarkUpdating, Wait,
        DeleteBak, StartNew, EraseScript
    <2>5. ~Restore
      BY <2>3 DEF Restore
    <2>6. ASSUME NEW q \in Pids, MoveOld(q) PROVE FALSE
      <3>1. helper[q] = "moveOld"
        BY <2>6 DEF MoveOld, Reads
      <3>2. QED BY <1>1, <2>1, <3>1, OneAhead DEF UInv, Ahead
    <2>7. ASSUME NEW q \in Pids, MoveNew(q) PROVE bak' = bak
      BY <2>7 DEF MoveNew
    <2>8. QED BY <2>1, <2>2, <2>4, <2>5, <2>6, <2>7
  <1>2. UInv /\ [Next]_vars => [\A p \in Pids : Installs(p) => bak' = runs[p] \/ Late(p)]_vars
    BY <1>1
  <1>3. QED BY <1>2, UpdateInvariant, PTL DEF Spec, PreviousKept
=============================================================================
