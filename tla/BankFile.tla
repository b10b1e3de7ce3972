------------------------------ MODULE BankFile ------------------------------
(***************************************************************************)
(* How the database gets to disk and back: BankAccountFile::Save() and     *)
(* Load(), ZipSave(), the baseline of the recovery journal, the write lock *)
(* of a shared network database, and the session around them               *)
(* (src/BankAccountFile.cpp, src/BafArchive.cpp, src/Journal.cpp,          *)
(* src/NetworkLock.cpp, DoLoad() and ~cMain() of src/cMain.cpp).           *)
(*                                                                         *)
(* Module Ledger takes the file to be written in one step; here it is      *)
(* three: a plain file on the machine that saves, a temporary archive, and *)
(* the archive BData.baf, which all machines share when it lies on a       *)
(* network folder. In exchange the data are no more than the sequence of   *)
(* the changes that made them, each with a number of its own; a checksum   *)
(* is the content it was computed of.                                      *)
(***************************************************************************)
EXTENDS Naturals, Sequences

CONSTANTS
  Sessions,   \* the sessions of the application; each may start again
  Machines,   \* the machines they run on
  MachineOf,  \* which session runs where
  Network,    \* whether the archive lies on a shared folder
  Nobody,     \* no session
  NoFile,     \* no such file, or one without the archive entry
  Ops,        \* what may happen besides changing, saving and leaving
  CrashIn,    \* the phases in which a session may be killed
  MaxChanges  \* bound: changes made to the data

ASSUME FileAssumption ==
  /\ MachineOf \in [Sessions -> Machines]
  /\ Network \in BOOLEAN
  /\ Network \/ \E m \in Machines : Machines = {m}
  /\ Nobody \notin Sessions /\ NoFile \notin Seq(Nat)
  /\ MaxChanges \in Nat

VARIABLES
  baf,      \* the archive
  tmp,      \* the archive's temporary sibling
  plain,    \* db\BankAccount.txt of each machine
  journal,  \* db\journal.txt of each machine: baseline and rows
  holder,   \* the session whose handle keeps others off that journal
  lock,     \* the session that holds the write lock of the network folder
  phase,    \* what each session is doing
  exiting,  \* whether it is saving in order to exit
  mem,      \* the data it has in memory
  state,    \* BankAccountFile::m_state
  readOnly, \* cMain::m_read_only
  made,     \* how many changes were made so far
  saved     \* history: the data of the last save that was taken for done

vars == <<baf, tmp, plain, journal, holder, lock, phase, exiting, mem, state,
          readOnly, made, saved>>
archive == <<baf, tmp>>
local   == <<plain, journal, holder>>
session == <<exiting, mem, state, readOnly>>

\* The data as they were at first; what there is of a file just truncated.
Original == <<0>>
Torn     == <<>>

NoJournal == [base |-> NoFile, rows |-> <<>>]

(* A session that runs was either refused the network folder, or it goes   *)
(* through loading and the recovery prompt to being idle. A save goes from *)
(* "writing" to "confirmed"; "cutting" is the moment between the two       *)
(* writes of a new baseline.                                               *)
Saving == {"writing", "packing", "renaming", "packed", "confirmed"}
Phases == {"down", "refused", "loading", "cutting", "offer", "idle"} \cup Saving

Idle(s) == phase[s] = "idle" /\ ~exiting[s]

Goes(s, p) == phase' = [phase EXCEPT ![s] = p]

\* The file that Load() takes: a plain one goes before the archive.
Loadable(m) == IF plain[m] # NoFile THEN plain[m] ELSE baf

\* The archive is open for reading.
BeingRead == \E s \in Sessions :
               phase[s] = "loading" /\ plain[MachineOf[s]] = NoFile

\* Journal's EnsureOpen(): the journal is ours or can be.
Opens(s) == holder[MachineOf[s]] \in {Nobody, s}

\* NetworkLock::TryAcquire() on a folder that can be reached.
\* (Seeded fault: another session's handle does not keep it off.)
Acquires_Always(s) == TRUE

Acquires(s) == ~Network \/ lock \in {Nobody, s}

-----------------------------------------------------------------------------
(* DoLoad() and Load() up to the end of the file. A database that is       *)
(* missing leaves an empty one in memory. A plain file that breaks off     *)
(* leaves nothing here, or else, counts being read from a stream that has  *)
(* ended, makes the program fail, which Crash() stands for.                *)
DoLoad(s) ==
  LET found == Loadable(MachineOf[s])
  IN  /\ lock' = IF Network /\ lock = Nobody THEN s ELSE lock
      /\ readOnly' = [readOnly EXCEPT ![s] = ~Acquires(s)]
      /\ mem' = [mem EXCEPT ![s] = IF found = NoFile THEN <<>> ELSE found]
      /\ state' = [state EXCEPT ![s] =
                     IF found = NoFile THEN "EMPTY" ELSE "NO_CHANGE"]
      /\ Goes(s, IF found = NoFile THEN "idle" ELSE "loading")
      /\ UNCHANGED <<archive, plain, exiting, made, saved>>

Launch(s) ==
  /\ phase[s] = "down"
  /\ DoLoad(s)
  /\ UNCHANGED <<journal, holder>>

\* The network folder cannot be reached: nothing is loaded.
Refuse(s) ==
  /\ "Unreachable" \in Ops /\ Network
  /\ phase[s] = "down"
  /\ Goes(s, "refused")
  /\ UNCHANGED <<archive, local, lock, session, made, saved>>

(* WriteBaseline() puts the new first line into place and then cuts off    *)
(* what follows; without the journal's handle it does nothing.             *)
WriteBaseline(s) ==
  LET m == MachineOf[s]
  IN  IF Opens(s)
        THEN /\ holder' = [holder EXCEPT ![m] = s]
             /\ journal' = [journal EXCEPT ![m].base = mem[s]]
             /\ Goes(s, IF journal[m].rows = <<>> THEN "idle" ELSE "cutting")
        ELSE /\ Goes(s, "idle")
             /\ UNCHANGED <<holder, journal>>

Cut(s) ==
  /\ phase[s] = "cutting"
  /\ journal' = [journal EXCEPT ![MachineOf[s]].rows = <<>>]
  /\ Goes(s, "idle")
  /\ UNCHANGED <<archive, plain, holder, lock, session, made, saved>>

\* CheckBaseline(): the journal is ours, of this very file, and not empty.
CheckBaseline(s) ==
  LET j == journal[MachineOf[s]]
  IN  Opens(s) /\ j.base = mem[s] /\ j.rows # <<>>

(* The rest of Load(): a journal that belongs to the file is offered, any  *)
(* other is begun anew.                                                    *)
\* (Seeded fault: it is kept, but not offered.)
Loaded_Silent(s) ==
  /\ phase[s] = "loading"
  /\ IF CheckBaseline(s)
       THEN /\ holder' = [holder EXCEPT ![MachineOf[s]] = s]
            /\ Goes(s, "idle")
            /\ UNCHANGED journal
       ELSE WriteBaseline(s)
  /\ UNCHANGED <<archive, plain, lock, session, made, saved>>

Loaded(s) ==
  /\ phase[s] = "loading"
  /\ IF CheckBaseline(s)
       THEN /\ holder' = [holder EXCEPT ![MachineOf[s]] = s]
            /\ Goes(s, "offer")
            /\ UNCHANGED journal
       ELSE WriteBaseline(s)
  /\ UNCHANGED <<archive, plain, lock, session, made, saved>>

\* ReplayJournal(), which no one asks whether the session may write.
Accept(s) ==
  /\ phase[s] = "offer"
  /\ mem' = [mem EXCEPT ![s] = @ \o journal[MachineOf[s]].rows]
  /\ state' = [state EXCEPT ![s] = "DIRTY"]
  /\ Goes(s, "idle")
  /\ UNCHANGED <<archive, local, lock, exiting, readOnly, made, saved>>

Decline(s) ==
  /\ "Decline" \in Ops
  /\ phase[s] = "offer"
  /\ Goes(s, "idle")
  /\ UNCHANGED <<archive, local, lock, session, made, saved>>

(* Any operation of the user: one more change, and its row.                *)
\* (Seeded fault: a change that is not carried out is journaled as well.)
Change_Early(s) ==
  /\ Idle(s) /\ ~readOnly[s]
  /\ Len(journal[MachineOf[s]].rows) < MaxChanges
  /\ journal' = [journal EXCEPT ![MachineOf[s]].rows = Append(@, made + 1)]
  /\ UNCHANGED <<archive, plain, holder, lock, phase, session, made, saved>>

Change(s) ==
  /\ Idle(s) /\ ~readOnly[s]
  /\ made < MaxChanges
  /\ made' = made + 1
  /\ mem' = [mem EXCEPT ![s] = Append(@, made')]
  /\ state' = [state EXCEPT ![s] = "DIRTY"]
  /\ IF Opens(s)
       THEN /\ holder' = [holder EXCEPT ![MachineOf[s]] = s]
            /\ journal' = [journal EXCEPT ![MachineOf[s]].rows =
                             Append(@, made')]
       ELSE UNCHANGED <<holder, journal>>
  /\ UNCHANGED <<archive, plain, lock, phase, exiting, readOnly, saved>>

(* "Discard changes": the journal is deleted and the file loaded again. A  *)
(* session that holds the lock keeps it; one that does not may be refused, *)
(* and is then left with what it had.                                      *)
Reset(s) ==
  LET m == MachineOf[s]
  IN  IF Opens(s)
        THEN /\ journal' = [journal EXCEPT ![m] = NoJournal]
             /\ holder' = [holder EXCEPT ![m] = Nobody]
        ELSE UNCHANGED <<journal, holder>>

Discard(s) ==
  /\ "Discard" \in Ops
  /\ Idle(s) /\ state[s] = "DIRTY"
  /\ Reset(s)
  /\ \/ DoLoad(s)
     \/ /\ "Unreachable" \in Ops /\ Network /\ lock # s
        /\ readOnly' = [readOnly EXCEPT ![s] = FALSE]
        /\ UNCHANGED <<archive, plain, lock, phase, exiting, mem, state, made,
                       saved>>

-----------------------------------------------------------------------------
(* Save(true): the plain file is truncated, then written. Nothing looks at *)
(* whether it could be. (Only debug builds save the plain file alone.)     *)
StartSave(s) ==
  /\ plain' = [plain EXCEPT ![MachineOf[s]] = Torn]
  /\ Goes(s, "writing")
  /\ UNCHANGED <<archive, journal, holder, lock, mem, state, readOnly, made,
                 saved>>

Save(s) ==
  /\ Idle(s) /\ ~readOnly[s]
  /\ StartSave(s)
  /\ UNCHANGED exiting

Write(s) ==
  /\ phase[s] = "writing"
  /\ \/ plain' = [plain EXCEPT ![MachineOf[s]] = mem[s]]
     \/ "WriteFails" \in Ops /\ UNCHANGED plain
  /\ Goes(s, "packing")
  /\ UNCHANGED <<archive, journal, holder, lock, session, made, saved>>

(* ZipSave() fails or throws, and Save() returns before it has changed     *)
(* anything else.                                                          *)
PackFails(s) ==
  /\ phase[s] = "packing"
  /\ "ZipFails" \in Ops \/ plain[MachineOf[s]] = NoFile
  /\ Goes(s, "idle")
  /\ UNCHANGED <<archive, local, lock, session, made, saved>>

(* ZipSave() writes the new archive beside the old one and removes that.   *)
(* While another session reads the old one it can be neither removed nor   *)
(* replaced, which goes unnoticed.                                         *)
\* (Seeded faults: the plain file goes too early; the old entry stays.)
Pack_DropsPlain(s) ==
  /\ phase[s] = "packing" /\ plain[MachineOf[s]] # NoFile
  /\ tmp' = plain[MachineOf[s]]
  /\ baf' = NoFile
  /\ plain' = [plain EXCEPT ![MachineOf[s]] = NoFile]
  /\ Goes(s, "renaming")
  /\ UNCHANGED <<journal, holder, lock, session, made, saved>>

Pack_OldEntry(s) ==
  /\ phase[s] = "packing" /\ plain[MachineOf[s]] # NoFile
  /\ tmp' = IF baf = NoFile THEN plain[MachineOf[s]] ELSE baf
  /\ baf' = NoFile
  /\ Goes(s, "renaming")
  /\ UNCHANGED <<local, lock, session, made, saved>>

Pack(s) ==
  /\ phase[s] = "packing" /\ plain[MachineOf[s]] # NoFile
  /\ BeingRead => "Sharing" \in Ops
  /\ tmp' = plain[MachineOf[s]]
  /\ baf' = IF BeingRead THEN baf ELSE NoFile
  /\ Goes(s, IF BeingRead THEN "packed" ELSE "renaming")
  /\ UNCHANGED <<local, lock, session, made, saved>>

Rename(s) ==
  /\ phase[s] = "renaming"
  /\ baf' = tmp
  /\ tmp' = NoFile
  /\ Goes(s, "packed")
  /\ UNCHANGED <<local, lock, session, made, saved>>

\* (Seeded fault: the plain file stays.)
Unplain_Not(s) ==
  /\ phase[s] = "packed"
  /\ Goes(s, "confirmed")
  /\ UNCHANGED <<archive, local, lock, session, made, saved>>

Unplain(s) ==
  /\ phase[s] = "packed"
  /\ plain' = [plain EXCEPT ![MachineOf[s]] = NoFile]
  /\ Goes(s, "confirmed")
  /\ UNCHANGED <<archive, journal, holder, lock, session, made, saved>>

\* (Seeded fault: the rows that are saved now stay in the journal.)
Confirm_KeepsRows(s) ==
  /\ phase[s] = "confirmed"
  /\ state' = [state EXCEPT ![s] = "NO_CHANGE"]
  /\ saved' = mem[s]
  /\ journal' = [journal EXCEPT ![MachineOf[s]].base = mem[s]]
  /\ Goes(s, "idle")
  /\ UNCHANGED <<archive, plain, holder, lock, exiting, mem, readOnly, made>>

Confirm(s) ==
  /\ phase[s] = "confirmed"
  /\ state' = [state EXCEPT ![s] = "NO_CHANGE"]
  /\ saved' = mem[s]
  /\ WriteBaseline(s)
  /\ UNCHANGED <<archive, plain, lock, exiting, mem, readOnly, made>>

-----------------------------------------------------------------------------
(* What the operating system does with the handles of a process that ends. *)
Gone(s) ==
  /\ lock' = IF lock = s THEN Nobody ELSE lock
  /\ Goes(s, "down")
  /\ exiting' = [exiting EXCEPT ![s] = FALSE]
  /\ mem' = [mem EXCEPT ![s] = <<>>]
  /\ state' = [state EXCEPT ![s] = "EMPTY"]
  /\ readOnly' = [readOnly EXCEPT ![s] = FALSE]
  /\ UNCHANGED <<archive, plain, made, saved>>

(* ~cMain(): it offers to save unsaved changes if there are some and the   *)
(* session may write, and deletes the journal in any case.                 *)
MayAsk(s) == phase[s] = "idle" /\ ~readOnly[s] /\ state[s] = "DIRTY"

Exit(s) ==
  \/ /\ Idle(s) \/ phase[s] = "refused"
     /\ Reset(s)
     /\ Gone(s)
  \/ /\ Idle(s) /\ MayAsk(s)
     /\ exiting' = [exiting EXCEPT ![s] = TRUE]
     /\ StartSave(s)
  \/ /\ phase[s] = "idle" /\ exiting[s]
     /\ Reset(s)
     /\ Gone(s)

Crash(s) ==
  /\ phase[s] \in CrashIn \ {"down"}
  /\ Gone(s)
  /\ holder' = [m \in Machines |-> IF holder[m] = s THEN Nobody ELSE holder[m]]
  /\ UNCHANGED journal

-----------------------------------------------------------------------------
Init ==
  /\ baf = Original
  /\ tmp = NoFile
  /\ plain = [m \in Machines |-> NoFile]
  /\ journal = [m \in Machines |-> NoJournal]
  /\ holder = [m \in Machines |-> Nobody]
  /\ lock = Nobody
  /\ phase = [s \in Sessions |-> "down"]
  /\ exiting = [s \in Sessions |-> FALSE]
  /\ mem = [s \in Sessions |-> <<>>]
  /\ state = [s \in Sessions |-> "EMPTY"]
  /\ readOnly = [s \in Sessions |-> FALSE]
  /\ made = 0
  /\ saved = Original

Next ==
  \E s \in Sessions :
    \/ Launch(s) \/ Refuse(s) \/ Loaded(s) \/ Cut(s)
    \/ Accept(s) \/ Decline(s) \/ Change(s) \/ Discard(s)
    \/ Save(s) \/ Write(s) \/ PackFails(s) \/ Pack(s) \/ Rename(s)
    \/ Unplain(s) \/ Confirm(s)
    \/ Exit(s) \/ Crash(s)

Spec == Init /\ [][Next]_vars

-----------------------------------------------------------------------------
(* Types: contents are sequences of changes, handles belong to sessions.   *)
TypeOK ==
  /\ {baf, tmp} \subseteq Seq(0 .. made) \cup {NoFile}
  /\ plain \in [Machines -> Seq(0 .. made) \cup {NoFile}]
  /\ journal \in [Machines -> [base : Seq(0 .. made) \cup {NoFile},
                               rows : Seq(1 .. made)]]
  /\ holder \in [Machines -> Sessions \cup {Nobody}]
  /\ lock \in Sessions \cup {Nobody}
  /\ phase \in [Sessions -> Phases]
  /\ exiting \in [Sessions -> BOOLEAN]
  /\ mem \in [Sessions -> Seq(0 .. made)]
  /\ state \in [Sessions -> {"EMPTY", "DIRTY", "NO_CHANGE"}]
  /\ readOnly \in [Sessions -> BOOLEAN]
  /\ made \in 0 .. MaxChanges
  /\ saved \in Seq(0 .. made)

(* What a launch on the machine would end with, the recovery accepted.     *)
Pending(m) == /\ Loadable(m) # NoFile
              /\ journal[m].base = Loadable(m)
              /\ journal[m].rows # <<>>

Recovered(m) ==
  IF Pending(m) THEN Loadable(m) \o journal[m].rows ELSE Loadable(m)

\* A session that has a database and may write to it.
Writes(s) == phase[s] \notin {"down", "refused"} /\ ~readOnly[s]

(* Whatever a session has in memory can be had again if it is killed now,  *)
(* be it idle or anywhere in a save but for the rewriting of the plain     *)
(* file: what Save() removes is by then somewhere else, and the journal    *)
(* matches the file that will be loaded (order of the steps of Save()).    *)
WorkSurvives ==
  \A s \in Sessions :
    Writes(s) /\ state[s] # "EMPTY" /\ phase[s] \in {"idle"} \cup Saving
              /\ phase[s] # "writing"
      => Recovered(MachineOf[s]) = mem[s]

(* The same without the exception: a crash in the middle of a save leaves  *)
(* the old journal pointing at the old file (comment in Save()).           *)
SaveLosesNothing ==
  \A s \in Sessions :
    Writes(s) /\ phase[s] \in Saving => Recovered(MachineOf[s]) = mem[s]

(* No change is in anyone's memory twice: a row that a save has put into   *)
(* the file is never offered again on top of it (WriteBaseline() and       *)
(* CheckBaseline() between them).                                          *)
NothingTwice ==
  \A s \in Sessions : \A i, j \in DOMAIN mem[s] :
    mem[s][i] = mem[s][j] => i = j

(* While no save is under way, what was last reported saved is on disk for *)
(* every machine to load (Save() up to its return value).                  *)
IsPrefixOf(c, d) == d # NoFile /\ Len(c) <= Len(d) /\ c = SubSeq(d, 1, Len(c))

SavedIsKept ==
  (\A s \in Sessions : phase[s] \notin Saving) =>
    \A m \in Machines : IsPrefixOf(saved, Loadable(m))

(* At most one session may write to a shared database at a time (class     *)
(* comment of NetworkLock.h, TryAcquire() and DoLoad()).                   *)
OneWriter ==
  Network => \A s, t \in Sessions : Writes(s) /\ Writes(t) => s = t

(* A session that may write builds on what was last saved, by whomever, so *)
(* that its own save undoes no one's (the lock taken before the file is    *)
(* read in DoLoad()).                                                      *)
NoLostUpdate ==
  \A s \in Sessions :
    Writes(s) => IsPrefixOf(saved, mem[s])

(* Nobody leaves the application and takes with it rows that could still   *)
(* be recovered, unless asked whether to save (~cMain()).                  *)
NothingDroppedUnasked ==
  [][\A s \in Sessions :
       phase[s] # "down" /\ phase'[s] = "down" =>
         LET m == MachineOf[s]
         IN  Pending(m) /\ journal'[m] = NoJournal => MayAsk(s)]_vars

-----------------------------------------------------------------------------
(* On one machine, with one session at a time, all this implements the     *)
(* promise of UnsavedWork. A session works once it has loaded and, if      *)
(* something could be recovered, recovered it. What is safe is what would  *)
(* be recovered, what is kept is the file that would be loaded; while the  *)
(* plain file or the baseline is being rewritten both are taken to be what *)
(* they are about to become.                                               *)
Works(s) == phase[s] \in {"idle", "cutting"} \cup Saving

Here == CHOOSE m \in Machines : TRUE

Work == IF \E s \in Sessions : Works(s)
          THEN mem[CHOOSE s \in Sessions : Works(s)]
          ELSE NoFile

Rewriting(phases) == \E s \in Sessions : phase[s] \in phases

Promise ==
  INSTANCE UnsavedWork WITH
    Changes <- 1 .. MaxChanges,
    Closed <- NoFile,
    work <- Work,
    safe <- IF Rewriting({"writing", "cutting"}) THEN Work ELSE Recovered(Here),
    kept <- IF Rewriting({"writing"}) THEN Work ELSE Loadable(Here)

(* Launching, recovering, changing, discarding, leaving, being killed and  *)
(* every step of a save are steps of the promise, or nothing to it.        *)
KeepsPromise == Promise!Spec

=============================================================================
