----------------------------- MODULE SelfUpdate -----------------------------
(***************************************************************************)
(* The program replacing itself: at its start it looks for a newer release *)
(* in the network folder, copies and verifies it, and hands over to a      *)
(* script that waits for it to exit, swaps the files and starts the new    *)
(* one (src/cMain.cpp, src/SelfUpdater.cpp, src/PendingUpdate.cpp,         *)
(* scripts/PackageRelease.ps1).                                            *)
(*                                                                         *)
(* A build is its version; the checksum of a file tells whether it is that *)
(* build. Of Windows the model keeps that a running program's file can be  *)
(* renamed but neither deleted nor replaced, that a file being written     *)
(* cannot be moved, and that a script which is deleted stops at its next   *)
(* line.                                                                   *)
(***************************************************************************)
EXTENDS Naturals, FiniteSets

CONSTANTS
  Absent,     \* no file, no version
  Torn,       \* a file cut short
  Patient,    \* whether the user starts the program only when none is running
              \* and no update is under way
  MaxTries,   \* how often the script looks whether the program has gone (60)
  MaxVersion, \* bound: releases
  MaxRuns,    \* bound: processes
  MaxMishaps  \* bound: crashes and power cuts

ASSUME UpdateAssumption ==
  /\ Patient \in BOOLEAN
  /\ {MaxTries, MaxVersion, MaxRuns, MaxMishaps} \subseteq Nat /\ MaxVersion > 0
  /\ {Absent, Torn} \cap Nat = {} /\ Absent # Torn

Versions == 1..MaxVersion
Pids     == 1..MaxRuns

VARIABLES
  published, \* the release folder: program, resources and release.json
  exe,       \* BankAccount.exe
  bak,       \* BankAccount.exe.bak
  new,       \* BankAccount.exe.new
  script,    \* whether BankAccount.exe.update.bat is there
  res,       \* the resource files
  marker,    \* db\pending_update.txt
  at,        \* where each process is
  runs,      \* APP_VERSION of each process
  image,     \* the file each process runs from
  offered,   \* the version of the manifest that each has accepted
  helper,    \* where the script is that waits for each process
  tries,     \* its TRIES
  news,      \* history: who showed the changes between which versions
  mishaps    \* how many crashes and power cuts there were

files   == <<exe, bak, new, script>>
local   == <<res, marker>>
process == <<at, runs, image, offered>>
swap    == <<helper, tries>>
vars == <<published, files, local, process, swap, news, mishaps>>

Alive(p)  == at[p] \notin {"none", "gone"}
InUse(f)  == \E p \in Pids : Alive(p) /\ image[p] = f
Active(p) == helper[p] \notin {"none", "done"}

-----------------------------------------------------------------------------
(* A release is published: the program first, its manifest last.           *)
Publish ==
  /\ \/ /\ published.exe = published.manifest /\ published.exe < MaxVersion
        /\ published' = [published EXCEPT !.exe = @ + 1]
     \/ /\ published.res < published.exe
        /\ published' = [published EXCEPT !.res = published.exe]
     \/ /\ published.res = published.exe
        /\ published.manifest < published.exe
        /\ published' = [published EXCEPT !.manifest = published.exe]
  /\ UNCHANGED <<files, local, process, swap, news, mishaps>>

-----------------------------------------------------------------------------
(* A process begins, under the next number.                                *)
Unused == {p \in Pids : at[p] = "none"}

Starts(p) ==
  /\ p \in Unused /\ \A q \in Unused : p <= q
  /\ exe \in Versions
  /\ at' = [at EXCEPT ![p] = "started"]
  /\ runs' = [runs EXCEPT ![p] = exe]
  /\ image' = [image EXCEPT ![p] = "exe"]

\* The bound leaves a number for every program that a script may start.
Updating(p) ==
  at[p] \in {"syncing", "copying", "writing", "verifying", "spawning"}
Room == Cardinality(Unused) >
          Cardinality({p \in Pids : Updating(p) \/ Active(p)})

Launch(p) ==
  /\ Room
  /\ Patient => \A q \in Pids : ~Alive(q) /\ ~Active(q)
  /\ Starts(p)
  /\ UNCHANGED <<published, files, local, offered, swap, news, mishaps>>

\* (Seeded fault: the marker is read and left where it is.)
ShowChangelogIfJustUpdated_Keeps(p) ==
  /\ at[p] = "started"
  /\ at' = [at EXCEPT ![p] = "checking"]
  /\ news' = news \cup {<<p, v, runs[p]>> : v \in {marker} \cap 1..(runs[p] - 1)}
  /\ UNCHANGED <<published, files, local, runs, image, offered, swap, mishaps>>

\* cMain::ShowChangelogIfJustUpdated()
ShowChangelogIfJustUpdated(p) ==
  /\ at[p] = "started"
  /\ at' = [at EXCEPT ![p] = "checking"]
  /\ marker' = Absent
  /\ news' = news \cup {<<p, v, runs[p]>> : v \in {marker} \cap 1..(runs[p] - 1)}
  /\ UNCHANGED <<published, files, res, runs, image, offered, swap, mishaps>>

-----------------------------------------------------------------------------
(* cMain::CheckForUpdate(): the manifest is read, the user is asked, and   *)
(* what is then copied may be of a later release than the manifest.        *)
Goes(p, where) == at' = [at EXCEPT ![p] = where]

CheckForUpdate(p) ==
  /\ at[p] = "checking"
  /\ \/ /\ runs[p] < published.manifest
        /\ Goes(p, "asked")
        /\ offered' = [offered EXCEPT ![p] = published.manifest]
     \/ Goes(p, "up") /\ UNCHANGED offered \* nothing newer, or no valid manifest
  /\ UNCHANGED <<published, files, local, runs, image, swap, news, mishaps>>

Answer(p) ==
  /\ at[p] = "asked"
  /\ \/ Room /\ Goes(p, "syncing") /\ UNCHANGED offered
     \/ Goes(p, "up") /\ offered' = [offered EXCEPT ![p] = Absent]
  /\ UNCHANGED <<published, files, local, runs, image, swap, news, mishaps>>

\* SyncResourceFiles(): what is not as the manifest says is copied, if it can
\* be, and is not looked at again.
SyncResourceFiles(p) ==
  /\ at[p] = "syncing"
  /\ Goes(p, "copying")
  /\ res' \in IF res = offered[p] THEN {res} ELSE {res, published.res}
  /\ UNCHANGED <<published, files, marker, runs, image, offered, swap, news,
                 mishaps>>

\* copy_file(): begins, unless another process writes the same file, ...
Writing == \E p \in Pids : at[p] = "writing"

CopyBegins(p) ==
  /\ at[p] = "copying"
  /\ \/ ~Writing /\ Goes(p, "writing") /\ new' = Torn
     \/ Goes(p, "up") /\ UNCHANGED new
  /\ UNCHANGED <<published, exe, bak, script, local, runs, image, offered,
                 swap, news, mishaps>>

\* ... and ends with what is in the release folder, with less, or with an
\* error: CopyFailed.
CopyEnds(p) ==
  /\ at[p] = "writing"
  /\ \/ Goes(p, "verifying") /\ new' \in {published.exe, Torn}
     \/ Goes(p, "up") /\ new' = Torn
  /\ UNCHANGED <<published, exe, bak, script, local, runs, image, offered,
                 swap, news, mishaps>>

\* (Seeded fault: the copy is trusted.)
Verify_Trusts(p) ==
  /\ at[p] = "verifying" /\ Goes(p, "spawning")
  /\ UNCHANGED <<published, files, local, runs, image, offered, swap, news,
                 mishaps>>

\* The checksum of the copy against that of the manifest: CrcMismatch.
Verify(p) ==
  /\ at[p] = "verifying"
  /\ IF new = offered[p]
       THEN Goes(p, "spawning") /\ UNCHANGED new
       ELSE Goes(p, "up") /\ new' = Absent
  /\ UNCHANGED <<published, exe, bak, script, local, runs, image, offered,
                 swap, news, mishaps>>

\* The script is written and started, or it is not: SpawnFailed.
Spawn(p) ==
  /\ at[p] = "spawning"
  /\ \/ /\ Goes(p, "marking")
        /\ script' = TRUE
        /\ helper' = [helper EXCEPT ![p] = "wait"]
     \/ Goes(p, "up") /\ script' \in {script, TRUE} /\ UNCHANGED helper
  /\ UNCHANGED <<published, exe, bak, new, local, runs, image, offered, tries,
                 news, mishaps>>

\* PendingUpdate::MarkUpdating(); then the program closes itself, but not
\* before the user has answered what to do with unsaved changes.
MarkUpdating(p) ==
  /\ at[p] = "marking"
  /\ Goes(p, "closing")
  /\ marker' = runs[p]
  /\ UNCHANGED <<published, files, res, runs, image, offered, swap, news,
                 mishaps>>

Ends(p) ==
  /\ at' = [at EXCEPT ![p] = "gone"]
  /\ image' = [image EXCEPT ![p] = "none"]

Exit(p) ==
  /\ at[p] \in {"up", "closing"}
  /\ Ends(p)
  /\ UNCHANGED <<published, files, local, runs, offered, swap, news, mishaps>>

Crash(p) ==
  /\ Alive(p) /\ mishaps < MaxMishaps
  /\ Ends(p)
  /\ mishaps' = mishaps + 1
  /\ UNCHANGED <<published, files, local, runs, offered, swap, news>>

-----------------------------------------------------------------------------
(* BuildUpdateScript(), line by line.                                      *)
Reads(p, line) == helper[p] = line /\ script
GoesOn(p, line) == helper' = [helper EXCEPT ![p] = line]

\* (Seeded fault: it waits for ever.)
Wait_Forever(p) ==
  /\ Reads(p, "wait")
  /\ GoesOn(p, IF tries[p] < MaxTries /\ Alive(p) THEN "wait" ELSE "delete")
  /\ UNCHANGED <<published, files, local, process, tries, news, mishaps>>

\* :waitloop, until the process has gone or it was looked for often enough
Wait(p) ==
  /\ Reads(p, "wait")
  /\ tries' = [tries EXCEPT ![p] = @ + 1]
  /\ GoesOn(p, IF tries[p] < MaxTries /\ Alive(p) THEN "wait" ELSE "delete")
  /\ UNCHANGED <<published, files, local, process, news, mishaps>>

\* if exist "%OLDEXE%.bak" del
DeleteBak(p) ==
  /\ Reads(p, "delete") /\ GoesOn(p, "moveOld")
  /\ bak' = IF InUse("bak") THEN bak ELSE Absent
  /\ UNCHANGED <<published, exe, new, script, local, process, tries, news,
                 mishaps>>

\* (Seeded fault: the old program is deleted.)
MoveOld_Deletes(p) ==
  /\ Reads(p, "moveOld") /\ GoesOn(p, "moveNew")
  /\ exe' = IF InUse("exe") THEN exe ELSE Absent
  /\ UNCHANGED <<published, bak, new, script, local, process, tries, news,
                 mishaps>>

\* move "%OLDEXE%" "%OLDEXE%.bak": who runs from it runs from the backup now.
MoveOld(p) ==
  /\ Reads(p, "moveOld") /\ GoesOn(p, "moveNew")
  /\ IF exe # Absent /\ ~InUse("bak")
       THEN /\ bak' = exe /\ exe' = Absent
            /\ image' = [q \in Pids |->
                           IF image[q] = "exe" THEN "bak" ELSE image[q]]
       ELSE UNCHANGED <<exe, bak, image>>
  /\ UNCHANGED <<published, new, script, local, at, runs, offered, tries, news,
                 mishaps>>

\* move "%NEWEXE%" "%OLDEXE%"
MoveNew(p) ==
  /\ Reads(p, "moveNew") /\ GoesOn(p, "start")
  /\ IF new # Absent /\ ~Writing /\ ~InUse("exe")
       THEN exe' = new /\ new' = Absent
       ELSE UNCHANGED <<exe, new>>
  /\ UNCHANGED <<published, bak, script, local, process, tries, news, mishaps>>

\* start "" "%OLDEXE%"
StartNew(p) ==
  /\ Reads(p, "start") /\ GoesOn(p, "erase")
  /\ IF exe \in Versions THEN \E q \in Pids : Starts(q)
                         ELSE UNCHANGED <<at, runs, image>>
  /\ UNCHANGED <<published, files, local, offered, tries, news, mishaps>>

\* del "%~f0"; without its file a script does not go on.
EraseScript(p) ==
  /\ Active(p) /\ (script => helper[p] = "erase") /\ GoesOn(p, "done")
  /\ script' = FALSE
  /\ UNCHANGED <<published, exe, bak, new, local, process, tries, news,
                 mishaps>>

-----------------------------------------------------------------------------
(* The machine goes down in the middle of everything. A user who finds no  *)
(* program renames the backup.                                             *)
PowerCut ==
  /\ mishaps < MaxMishaps /\ mishaps' = mishaps + 1
  /\ \E p \in Pids : Alive(p) \/ Active(p)
  /\ at' = [p \in Pids |-> IF Alive(p) THEN "gone" ELSE at[p]]
  /\ image' = [p \in Pids |-> "none"]
  /\ helper' = [p \in Pids |-> IF Active(p) THEN "done" ELSE helper[p]]
  /\ UNCHANGED <<published, files, local, runs, offered, tries, news>>

Restore ==
  /\ exe \notin Versions /\ bak \in Versions
  /\ \A p \in Pids : ~Alive(p) /\ ~Active(p)
  /\ exe' = bak /\ bak' = Absent
  /\ UNCHANGED <<published, new, script, local, process, swap, news, mishaps>>

-----------------------------------------------------------------------------
Init ==
  /\ published = [exe |-> 1, res |-> 1, manifest |-> 1]
  /\ exe = 1 /\ bak = Absent /\ new = Absent /\ script = FALSE
  /\ res = 1 /\ marker = Absent
  /\ at = [p \in Pids |-> "none"] /\ runs = [p \in Pids |-> Absent]
  /\ image = [p \in Pids |-> "none"] /\ offered = [p \in Pids |-> Absent]
  /\ helper = [p \in Pids |-> "none"] /\ tries = [p \in Pids |-> 0]
  /\ news = {} /\ mishaps = 0

Script(p) == Wait(p) \/ DeleteBak(p) \/ MoveOld(p) \/ MoveNew(p)
               \/ StartNew(p) \/ EraseScript(p)

Program(p) ==
  \/ ShowChangelogIfJustUpdated(p) \/ CheckForUpdate(p) \/ Answer(p)
  \/ SyncResourceFiles(p) \/ CopyBegins(p) \/ CopyEnds(p) \/ Verify(p)
  \/ Spawn(p) \/ MarkUpdating(p)

Next ==
  \/ Publish \/ PowerCut \/ Restore
  \/ \E p \in Pids :
       Launch(p) \/ Program(p) \/ Exit(p) \/ Crash(p) \/ Script(p)

\* Only the scripts are sure to go on: a program may wait for its user.
Fairness == \A p \in Pids : WF_vars(Script(p))

Spec == Init /\ [][Next]_vars /\ Fairness

-----------------------------------------------------------------------------
(* Every file, process and script is in a state that the code knows.       *)
TypeOK ==
  /\ published \in [exe : Versions, res : Versions, manifest : Versions]
  /\ {exe, bak, new} \subseteq Versions \cup {Absent, Torn}
  /\ bak # Torn
  /\ script \in BOOLEAN
  /\ res \in Versions /\ marker \in Versions \cup {Absent}
  /\ at \in [Pids -> {"none", "started", "checking", "asked", "syncing",
                      "copying", "writing", "verifying", "spawning",
                      "marking", "closing", "up", "gone"}]
  /\ runs \in [Pids -> Versions \cup {Absent}]
  /\ image \in [Pids -> {"exe", "bak", "none"}]
  /\ offered \in [Pids -> Versions \cup {Absent}]
  /\ helper \in [Pids -> {"none", "wait", "delete", "moveOld", "moveNew",
                          "start", "erase", "done"}]
  /\ tries \in [Pids -> 0..(MaxTries + 1)]
  /\ news \subseteq Pids \X Versions \X Versions
  /\ mishaps \in 0..MaxMishaps

\* Whatever stops a download or a swap half way, what is installed is a whole
\* build whose manifest was published (SelfUpdater.h: the copy is verified
\* "before trusting it at all").
InstalledIsVerified ==
  exe # Absent => exe \in Versions /\ exe <= published.manifest

\* At every moment of a swap, also if the machine goes down in it, there is a
\* program to start or the backup to rename (SelfUpdater.h: "a bad update
\* should be a rename away from reverting").
SomethingToRun == exe \in Versions \/ bak \in Versions

\* "What's new" is shown once for a change of version, by the program it led
\* to, and only after the one it came from has handed over
\* (PendingUpdate::ConsumeMarker()). When a script has given up waiting two
\* processes of one version may both come to write the marker.
GaveUp == \E p \in Pids : tries[p] > MaxTries

NewsOnce ==
  \A n, m \in news :
    /\ n[2] < n[3] /\ n[3] = runs[n[1]]
    /\ \E p \in Pids : p < n[1] /\ runs[p] = n[2] /\ helper[p] # "none"
    /\ n[2] = m[2] /\ n[3] = m[3] => n = m \/ GaveUp

\* Installing a build leaves the one that asked for it as the backup (it is
\* never deleted outright), unless an earlier script gave up waiting: then a
\* program may still run from the file that the backup would take.
Late(p) == \E q \in Pids : q < p /\ tries[q] > MaxTries
Installs(p) == helper[p] = "moveNew" /\ exe' # exe
PreviousKept ==
  [][\A p \in Pids : Installs(p) => bak' = runs[p] \/ Late(p)]_vars

\* An update that was handed over ends with the new program started, although
\* the old one may wait for its user's answer for ever. A crash, a power cut or
\* an even older program that is still open may prevent it, and so may another
\* script, which deletes the file that both are read from.
Delivered(p) == \E q \in Pids : at[q] # "none" /\ runs[q] = offered[p]

WaitsAlone(p) ==
  helper[p] = "wait" /\ script /\ \A q \in Pids \ {p} : ~Active(q)

UpdateEnds ==
  \A p \in Pids : WaitsAlone(p) ~> Delivered(p) \/ mishaps > 0 \/ Late(p)

-----------------------------------------------------------------------------
(* What the comments say and the code does not keep.                       *)

\* The previous build is never deleted outright (comment of BuildUpdateScript()
\* in SelfUpdater.h).
PreviousAlwaysKept ==
  [][\A p \in Pids : Installs(p) => bak' = runs[p]]_vars

\* The changes are shown "only ever [...] once per completed update" (comment in
\* cMain::ShowChangelogIfJustUpdated()).
NewsAlwaysOnce ==
  \A n, m \in news : n[2] = m[2] /\ n[3] = m[3] => n = m

\* If the copy does not match the manifest, nothing has changed (comment of
\* CrcMismatch in SelfUpdater.h): the resources are still those of the program.
RefusedChangesNothing ==
  \A p \in Pids : at[p] = "up" /\ offered[p] # Absent => res = runs[p]
=============================================================================
