---------------------------- MODULE DaemonReload ----------------------------
(***************************************************************************)
(* The query daemon: its watcher thread loads the archive again when its   *)
(* time stamp has changed, while requests are answered and a desktop       *)
(* session on another machine saves (daemon/DaemonDb.cpp, daemon/main.cpp, *)
(* src/BafArchive.cpp, and the pointer to the exchange rates that all of a *)
(* process shares, in src/Currency.cpp).                                   *)
(*                                                                         *)
(* The contents of an archive are the number of the save that wrote it,    *)
(* and so is its time stamp: no two saves share one. An archive that was   *)
(* opened is read to its end even if it is replaced meanwhile.             *)
(***************************************************************************)
EXTENDS Naturals

CONSTANTS
  Requests,    \* the threads that answer requests
  Gone,        \* no archive
  Void,        \* an archive without an entry
  Nothing,     \* no snapshot, no handle, no rates
  Rights,      \* whether it may create files in the archive's folder: which
               \* answers to consider
  MaxSaves,    \* bound: saves of the desktop session
  MaxAsked     \* bound: requests

ASSUME DaemonAssumption ==
  /\ Rights \subseteq BOOLEAN
  /\ MaxSaves \in Nat /\ MaxAsked \in Nat
  /\ Nothing \notin Requests \cup Nat \cup {"served", "candidate", "freed"}
  /\ {Gone, Void} \cap Nat = {}

VARIABLES
  mayWrite, \* one of Rights, for good
  file,     \* the archive
  desktop,  \* whether a save is between removing it and renaming
  saves,    \* how many saves there were
  up,       \* the process
  watcher,  \* where ReloadIfChanged() is
  seen,     \* the time stamp it has read
  cand,     \* the contents of its candidate
  served,   \* m_manager: the snapshot that is served
  stamp,    \* m_last_mtime
  lock,     \* m_mutex
  history,  \* g_exchange_rate_history: whose rates it points to
  request,  \* where each request is
  alone,    \* history: no candidate lived since it began
  asked     \* how many requests there were

disk     == <<mayWrite, file, desktop, saves>>
reload   == <<watcher, seen, cand>>
snapshot == <<served, stamp>>
clients  == <<request, alone, asked>>
vars == <<disk, up, reload, snapshot, lock, history, clients>>

Running == up \in {"starting", "up"}

-----------------------------------------------------------------------------
(* SaveAndClose() of the desktop session: the old archive goes, the new    *)
(* one is renamed. A file that has appeared in its place is not replaced.  *)
Remove ==
  /\ desktop = "idle" /\ saves < MaxSaves
  /\ desktop' = "replacing"
  /\ saves' = saves + 1
  /\ file' = Gone
  /\ UNCHANGED <<mayWrite, up, reload, snapshot, lock, history, clients>>

Rename ==
  /\ desktop = "replacing"
  /\ desktop' = "idle"
  /\ file' = IF file = Gone THEN saves ELSE file
  /\ UNCHANGED <<mayWrite, saves, up, reload, snapshot, lock, history, clients>>

-----------------------------------------------------------------------------
(* The process ends, all of it, and is started again by the service        *)
(* manager: main() loads the database before it listens.                   *)
Stops ==
  /\ up' = "down"
  /\ watcher' = "asleep" /\ seen' = Nothing /\ cand' = Nothing
  /\ served' = Nothing /\ stamp' = Nothing /\ lock' = Nothing
  /\ history' = Nothing
  /\ request' = [r \in Requests |-> "none"]
  /\ alone' = [r \in Requests |-> FALSE]
  /\ UNCHANGED <<mayWrite, saves, desktop, asked>>

Restart ==
  /\ up = "down"
  /\ up' = "starting"
  /\ UNCHANGED <<disk, reload, snapshot, lock, history, clients>>

\* ReloadIfChanged() returns false: on the way up, that is the end.
GivesUp ==
  IF up = "starting"
    THEN Stops
    ELSE /\ watcher' = "asleep" /\ seen' = Nothing
         /\ UNCHANGED <<mayWrite, up, cand, saves, desktop, snapshot, lock, clients>>

\* ~AccountManager(): ClearHistoryIfCurrent() of one that goes.
\* (Seeded fault: the pointer stays.)
AfterDestroying_Kept(m) == IF history = m THEN "freed" ELSE history

AfterDestroying(m) == IF history = m THEN Nothing ELSE history

(* ReloadIfChanged(): the time stamp; a new manager, which takes the       *)
(* pointer to itself; the archive; the swap.                               *)
Stat ==
  /\ Running /\ watcher = "asleep"
  /\ IF file = Gone
       THEN up = "starting" /\ GivesUp /\ UNCHANGED file
       ELSE /\ served = Nothing \/ file # stamp
            /\ seen' = file
            /\ watcher' = "changed"
            /\ UNCHANGED <<disk, up, cand, snapshot, lock, history, clients>>

Construct ==
  /\ watcher = "changed"
  /\ watcher' = "built"
  /\ history' = "candidate"
  /\ alone' = [r \in Requests |-> FALSE]
  /\ UNCHANGED <<disk, up, seen, cand, snapshot, lock, request, asked>>

(* ZipFile::Open() creates what it does not find, and throws if it cannot; *)
(* nothing catches that. An archive without the entry is not loaded.       *)
ReadInto ==
  /\ watcher = "built"
  /\ \/ /\ file \notin {Gone, Void}
        /\ cand' = file
        /\ watcher' = "read"
        /\ UNCHANGED <<disk, up, seen, snapshot, lock, history, clients>>
     \/ /\ file = Void \/ (file = Gone /\ mayWrite)
        /\ file' = Void
        /\ GivesUp
        /\ up = "up" => history' = AfterDestroying("candidate")
     \/ /\ file = Gone /\ ~mayWrite
        /\ Stops
        /\ UNCHANGED file

\* (Seeded fault: the time stamp is read now.)
Swap_StatsLate ==
  /\ watcher = "read" /\ lock = Nothing /\ file # Gone
  /\ served' = cand /\ stamp' = file
  /\ history' = IF history = "candidate" THEN "served" ELSE AfterDestroying("served")
  /\ watcher' = "asleep" /\ seen' = Nothing /\ cand' = Nothing
  /\ up' = "up"
  /\ UNCHANGED <<disk, lock, clients>>

Swap ==
  /\ watcher = "read" /\ lock = Nothing
  /\ served' = cand /\ stamp' = seen
  /\ history' = IF history = "candidate" THEN "served" ELSE AfterDestroying("served")
  /\ watcher' = "asleep" /\ seen' = Nothing /\ cand' = Nothing
  /\ up' = "up"
  /\ UNCHANGED <<disk, lock, clients>>

-----------------------------------------------------------------------------
(* A request: IsLoaded(), then WithManager() holds the lock while          *)
(* MakeQuery() points to its own rates, goes through the transactions and  *)
(* converts their amounts with the rates it finds at the pointer.          *)
Ask(r) ==
  /\ up = "up" /\ request[r] = "none" /\ asked < MaxAsked
  /\ lock = Nothing /\ served # Nothing
  /\ request' = [request EXCEPT ![r] = "checked"]
  /\ asked' = asked + 1
  /\ UNCHANGED <<disk, up, reload, snapshot, lock, history, alone>>

\* (Seeded fault: MakeQuery() leaves the pointer as it is.)
Enter_AsIs(r) ==
  /\ request[r] = "checked" /\ lock = Nothing
  /\ lock' = r
  /\ request' = [request EXCEPT ![r] = "running"]
  /\ alone' = [alone EXCEPT ![r] = watcher \notin {"built", "read"}]
  /\ UNCHANGED <<disk, up, reload, snapshot, history, asked>>

Enter(r) ==
  /\ request[r] = "checked" /\ lock = Nothing
  /\ lock' = r
  /\ history' = "served"
  /\ request' = [request EXCEPT ![r] = "running"]
  /\ alone' = [alone EXCEPT ![r] = watcher \notin {"built", "read"}]
  /\ UNCHANGED <<disk, up, reload, snapshot, asked>>

\* (Seeded fault: an error leaves the lock as it is.)
Leave_Locked(r) ==
  /\ request[r] = "running"
  /\ request' = [request EXCEPT ![r] = "none"]
  /\ alone' = [alone EXCEPT ![r] = FALSE]
  /\ UNCHANGED <<disk, up, reload, snapshot, lock, history, asked>>

Leave(r) ==
  /\ request[r] = "running"
  /\ lock' = Nothing
  /\ request' = [request EXCEPT ![r] = "none"]
  /\ alone' = [alone EXCEPT ![r] = FALSE]
  /\ UNCHANGED <<disk, up, reload, snapshot, history, asked>>

-----------------------------------------------------------------------------
Init ==
  /\ mayWrite \in Rights
  /\ file = 0 /\ desktop = "idle" /\ saves = 0
  /\ up = "down"
  /\ watcher = "asleep" /\ seen = Nothing /\ cand = Nothing
  /\ served = Nothing /\ stamp = Nothing /\ lock = Nothing
  /\ history = Nothing
  /\ request = [r \in Requests |-> "none"]
  /\ alone = [r \in Requests |-> FALSE]
  /\ asked = 0

Watch == Stat \/ Construct \/ ReadInto \/ Swap

Next ==
  \/ Remove \/ Rename
  \/ Restart \/ Watch
  \/ \E r \in Requests : Ask(r) \/ Enter(r) \/ Leave(r)

(* The service manager restarts the daemon, its threads run, and the file  *)
(* system finishes what the desktop has begun. Nobody has to save or ask.  *)
Fairness ==
  /\ WF_vars(Restart) /\ WF_vars(Watch) /\ WF_vars(Rename)
  /\ \A r \in Requests : WF_vars(Enter(r)) /\ WF_vars(Leave(r))

Spec == Init /\ [][Next]_vars /\ Fairness

-----------------------------------------------------------------------------
Version == 0 .. MaxSaves

(* Types.                                                                  *)
TypeOK ==
  /\ mayWrite \in Rights /\ file \in Version \cup {Gone, Void}
  /\ desktop \in {"idle", "replacing"} /\ saves \in Version
  /\ up \in {"down", "starting", "up"}
  /\ watcher \in {"asleep", "changed", "built", "read"}
  /\ {seen, stamp} \subseteq Version \cup {Void, Nothing}
  /\ {served, cand} \subseteq Version \cup {Nothing}
  /\ lock \in Requests \cup {Nothing}
  /\ history \in {"served", "candidate", "freed", Nothing}
  /\ request \in [Requests -> {"none", "checked", "running"}]
  /\ alone \in [Requests -> BOOLEAN] /\ asked \in 0 .. MaxAsked

(* The pointer never outlives what it points to, in whatever order         *)
(* snapshots are built, swapped and dropped (~AccountManager()).           *)
PointsToLiving ==
  /\ history # "freed"
  /\ history = "candidate" => watcher \in {"built", "read"}
  /\ history = "served" => served # Nothing

(* What is skipped was seen: if the archive has the time stamp of what is  *)
(* served, so that the watcher leaves it alone, then it is what is served, *)
(* however the saves of the desktop fell between taking the stamp, reading *)
(* and swapping (ReloadIfChanged()).                                       *)
SkipsNothingNew == file \in Version /\ stamp = file => served = file

(* No request is answered from an older archive than one before it, unless *)
(* the daemon was started again (the swap in ReloadIfChanged()).           *)
AnswersNeverAge ==
  [][served # Nothing /\ served' # Nothing => served <= served']_vars

(* A request during which no candidate lives converts with the rates of    *)
(* the snapshot it answers from, even after a reload that failed           *)
(* (SetHistory() in MakeQuery()).                                          *)
UndisturbedRatesAreOwn ==
  \A r \in Requests : request[r] = "running" /\ alone[r] => history = "served"

(* So does every request: a reload cannot swap the snapshot, rates and     *)
(* all, out from under a request in progress (comment in DaemonDb.h).      *)
RatesAreOwn ==
  \A r \in Requests : request[r] = "running" => history = "served"

(* A daemon that serves goes on serving: a read that fails leaves the      *)
(* snapshot untouched (comment in DaemonDb.h).                             *)
KeepsServing == [][up = "up" => up' = "up"]_vars

(* Nothing but a save changes the archive: the daemon never writes to it   *)
(* (comment in deploy/bankaccount-daemon.service).                         *)
OnlySavesWrite == [][desktop' = desktop => file' = file]_vars

(* Once the desktop session is done and there is an archive, the last save *)
(* is what is served, even if it came between the steps of a reload, or    *)
(* ended the daemon.                                                       *)
NewestServed ==
  <>[](desktop = "idle" /\ file # Void) => <>[](up = "up" /\ served = saves)

(* A request that was let in is answered, unless the daemon ends.          *)
RequestsEnd ==
  \A r \in Requests : (request[r] # "none") ~> (request[r] = "none")
=============================================================================
