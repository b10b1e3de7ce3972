# A specification of BankAccount

BankAccount is a desktop application (C++, wxWidgets, Windows) that keeps the
transactions of bank accounts in one password-protected archive, imports what
the banks export, and lets its user name, merge and categorize what is in them.
Two things make it hard to get right. All work is in memory until it is saved,
and a *recovery journal* is to carry it over a crash: it replays the operations,
so every operation must journal what a replay needs. And the archive may lie on
a network folder that several machines share, with one writer at a time. Around
this core there are threads and processes of their own: a download of exchange
rates that can be cancelled, a daemon that reloads the archive while it answers
queries, a program that replaces itself.

This directory has TLA+ modules for all of these, configurations that check them
with TLC on small instances, and proofs that TLAPS checks for instances of any
size.

## 1. Inventory

Paths are relative to the repository (`src/`, `include/`, `daemon/`).

| Component | State | Operations | Talks to | What makes it correct |
|---|---|---|---|---|
| **Managed entities** `ManagerType.h`, `ManagedType.cpp`, `ClientManager`, `CategorySystem`, `TransactionType` | a vector of children: id, name, merged names, keywords; the first is built in for some collections | Create, Rename, AddKeyword, Merge, search, StreamOut/In | owned by AccountManager; ids are stored in transactions | a child's id is its place in the vector, whatever is merged; names are unique up to case |
| **Accounts** `Account.cpp`, `Transaction.cpp` | a vector of transactions; texts of memos; categorizations of dropped transactions | AddTransaction, PrepareImport, Prune, Sort | AccountManager | a position names the same transaction for whoever kept it; ids name children |
| **AccountManager** `AccountManager.cpp`, `WQuery.cpp` | collections, accounts, exchange rates | CreateId, AddKeyword, RenameId, MakeQuery (edit, merge, categorize), Import, Prune, ApplyRecoveryFile | calls the dialogs back; appends to the journal; `Modified()` marks the file dirty | what it journals replays to what it did |
| **Journal** `Journal.cpp` | `db\journal.txt`: a baseline (checksum of the file it extends) and rows; a handle that keeps others off | WriteBaseline, CheckBaseline, Append…, Reset | AccountManager appends, BankAccountFile rebaselines, cMain resets | it applies to the file that will be loaded, its rows once each |
| **BankAccountFile** `BankAccountFile.cpp`, `BafArchive.cpp` | EMPTY, DIRTY or NO_CHANGE; a plain file, an archive and its temporary sibling on disk | Load, Save, ZipSave | Journal, ziplib | what was saved is on disk; a crash during a save loses nothing |
| **Network lock** `NetworkLock.cpp`, `DbLocationSettings.cpp` | an open handle of `write.lock` | TryAcquire, Release | cMain | at most one session may write |
| **Desktop session** `cMain.cpp` | the database, `m_read_only` | DoLoad, the recovery prompt, SaveFile, Discard, every command, `~cMain` | all of the above | the user is asked before anything is lost |
| **Import formats** `DataImporter.cpp` | — | reads the banks' files | AccountManager::Import | rows in the order of the export |
| **Queries, reports, charts** `Query.cpp`, `RelativePeriod.cpp`, `Favorite*.cpp`, `Chart*.cpp`, `HtmlReport.cpp`, `ExcelExport.cpp` | JSON files of favourites | read-only on the data | cMain, daemon, command line | filters and periods choose the right transactions; tables and charts of one query agree |
| **Exchange rates** `ExchangeRateHistory.cpp`, `Currency.cpp`, `MnbExchangeRateClient.cpp`, `RunWithProgress.cpp` | rates by date; a global pointer to them; a cancel token shared by two threads | FindMissingDates, PruneToDates, fetch, cancel | AccountManager, a worker thread | a handle is closed once, none stays open; the wait ends; no rate in use is lost |
| **Query daemon** `daemon/` | a database, its time stamp, a mutex | reload when the file changed, answer requests | reads the archive the desktop writes; shares the rates pointer with every database in its process | an answer uses the rates of its snapshot, and the newest archive is served at last |
| **Self update** `SelfUpdater.cpp`, `PendingUpdate.cpp`, `cMain.cpp` | the program, its copy and its backup; a marker file; a script | check, copy, verify, spawn the script, swap, start | the release folder; other running programs | what is installed was verified; there is always a program to start; "What's new" is shown at most once for each update |
| Command line, logging, dialogs, packaging, vendored libraries | — | — | — | no protocol of their own |

Where it is hard: a *crash* between any two steps of an import, a merge, a save
or a replay; *ordering* between a change and its row, between the files a save
replaces and the checksum that tells them apart; *two machines* on one folder;
*stale* ids and positions after a merge or a sort; an *unreachable* share, a
*full* disk, an archive in use; *two threads* and one handle; a call that is
*never answered*; a file replaced while it is read; a script that goes on
although the program it waits for has not gone; a *boundary* of a month, a
year, a word, a share. `PROJECT.json` lists the places one by one.

## 2. Modules

| Module | Models | Extends |
|---|---|---|
| `Entities` | the vector of children as a sequence, and its methods as functions | — |
| `Accounts` | the vector of transactions and its methods as functions | — |
| `LedgerData` | the memory of AccountManager, file format, journal rows and what a row does | both |
| `Ledger` | sessions that work, save, crash and recover: the control | `LedgerData` |
| `BankFile` | the same sessions seen from the disk: every step of loading and saving, journal baseline, write lock, several machines | — |
| `UnsavedWork` | what a user may rely on, without files, journals and checksums; `BankFile` implements it | — |
| `ExchangeRates` | the cache of rates and its lookups as functions | — |
| `RateDownload` | worker thread, cancel token, dialog | `ExchangeRates` |
| `DaemonReload` | the watcher thread, requests, the archive they read while it is replaced, the shared pointer to the rates | — |
| `SelfUpdate` | releases, programs, the script that swaps the files | — |
| `Calendar` | day numbers, relative periods, columns, with a clock | — |
| `Queries` | filters, sums, tables, charts, conversion and folding | — |
| `MC…` | constants for TLC | the module of that name |
| `Ledger_proofs`, `BankFile_proofs`, `RateDownload_proofs`, `DaemonReload_proofs`, `SelfUpdate_proofs`, `Calendar_proofs`, `Queries_proofs` | theorems | the module of that name |
| `LedgerMemory_proofs` | theorems on what a memory is made of, exact recovery, merges | `Ledger_proofs` |

`Ledger` and `BankFile` are two cuts through one system. `Ledger` knows what an
operation does and takes a save for one step. `BankFile` knows how a save is
done, and of the data no more than the sequence of the changes in it, each with
a number of its own, which is enough to tell a lost change from a doubled one.

### Ledger

State: `mem` is AccountManager (children by topic, accounts with their
transactions) or `NoMem` when no session runs; `dirty` is `m_state = DIRTY`;
`file` and `journal` are the disk; `phase` and `cursor` are where the session
is between launch, prompt, replay and work; `merging` and `importing` are the
loops of `MakeQuery(WQuery)` and `Import()`, which go on one transaction at a
time because the process may be killed, or a dialog may throw, between two.

| Action | Code |
|---|---|
| `Create_`, `Keyword`, `Rename_` | `CreateId`, `AddKeyword`, `RenameId` |
| `Edit` | a grid cell edited, `ApplyEdit` |
| `Categorize` | `CategorizingQuery::CheckTransaction` under `MakeQuery` |
| `StartMerge`, `MergeNext`, `MergeEnd` | `MergeQuery` under `MakeQuery`, `AccountManager::Merge` |
| `Prune_` | `Prune`, `PruneLastTransactions` |
| `StartImport`, `PrepareImport`, `ImportRow`, `EndImport` | `Import`, `CreateOrGetAccountId`, `Account::PrepareImport`, `ProcessOneTransaction` |
| `Start`, `Discard`, `Accept`, `Decline` | `DoLoad`, `LoadFile`, `OfferJournalRecoveryIfPending` |
| `ReplayRow`, `ReplayStops`, `ReplayDone` | `ApplyRecoveryFile`: a row that fits, one that does not, the end |
| `Save`, `Exit`, `Crash` | `SaveFile`, `~cMain`; external |

Two variables are history, not program: `lived` holds the memories the session
has had, one for each row, and `exact` says that nothing changed the memory
without a row. The second is there because some operations do: a merge heals
ids without rows, pruning and re-importing drop transactions without one,
categorizing journals one field of three. A property that claims nothing of
`exact` (`JournalHoldsAll`) is what the comments of `Journal.h` claim, and the
violation runs show each way it fails. The passing runs and the proofs show
that these are the only ways: whatever *is* journaled replays exactly.

### BankFile

State: `baf`, `tmp` (the archive and its temporary sibling, shared), `plain`,
`journal`, `holder` (one of each per machine; the holder has the journal open),
`lock` (the session with `write.lock` open), and per session its `phase`,
`exiting`, `mem`, `state`, `readOnly`. `made` numbers the changes, `saved` is
what the last completed save saved; both are history.

A save goes `idle → writing → packing → (renaming →) packed → confirmed →
(cutting →) idle`: truncate the plain file, write it, write the new archive
beside the old and remove that, rename it, delete the plain file, reset the
state and put the new checksum over the old, truncate the journal. Crashing is
possible in each phase the configuration lists in `CrashIn`. The failures the
code handles or ignores are switched on by `Ops`: `Unreachable` (the share),
`ZipFails`, `WriteFails`, `Sharing` (the archive cannot be replaced while another
session has it open), besides `Discard` and `Decline`, which users choose.

### UnsavedWork, and how BankFile implements it

Three variables: `work`, what a session has before it; `safe`, what the next one
would begin with; `kept`, what is left when unsaved work is given up. A session
opens with everything safe, a change is safe at once, saving keeps the work, and
a session ends by giving up (safe becomes kept) or by being killed (safe stays).
`BankFile!KeepsPromise` instantiates it: `work` is the memory of the session that
has loaded and recovered, `safe` is `Recovered`, what loading and replaying would
yield, `kept` is `Loadable`, the file that would be loaded. In `writing` (the
plain file is being rewritten) and `cutting` (the two writes of a baseline) both
are what they are about to become; these are the phases in which a crash breaks
the promise, and the phases in which the passing run does not crash.

### RateDownload and ExchangeRates

Rates are sets of days, an account is the sequence of the days of its
transactions, as they lie in its vector: `AddTransaction` appends whatever day it
is given, an export or a journal need not be in order, and only `Load` sorts. What
`HasMissing` looks at is the span from the first to the last of the sequence. The
worker (`at`, `top`, `got`) opens three handles, one
from the other, registers each, calls, and unwinds; the dialog (`dialog`, `sent`,
`grip`) waits, cancels and takes the registered handle away. `silent` are the
calls nobody answers in this download.

| Action | Code |
|---|---|
| `Begin`, `Cancel`, `End` | `RunBlockingWithProgress`: start, button or time limit, join |
| `Cancel`, `TakeActive`, `CloseTaken` | `FetchCancelToken::Cancel`: flag, handle under the lock, close outside it |
| `Prepare` | `UpdateExchangeRates` up to the fetch: prune, find what is missing |
| `OpenSession`, `SetActiveHandle`, `Answered` | `HttpGet` |
| `TryClaimHandle`, `CloseParents`, `Verdict` | its cleanup and result |
| `Apply` | unpacking, parsing, adding the wanted rates |
| `AddTransaction`, `PrepareImport`, `PruneLast` | the methods of `Account` of these names, between downloads |
| `Save`, `Load` | `BankAccountFile::Save`; a session that begins anew, `StreamAccounts`, which sorts each account |

### DaemonReload

The contents of an archive are the number of the save that wrote it. `served` and
`stamp` are `m_manager` and `m_last_mtime`; `watcher`, `seen` and `cand` are where
`ReloadIfChanged()` is; `lock` is the mutex; `history` is whose rates the pointer
in `Currency.cpp` points to. `Remove` and `Rename` are the desktop's save as the
archive library does it.

| Action | Code |
|---|---|
| `Stat`, `Construct`, `ReadInto`, `Swap` | `ReloadIfChanged`, with the constructor and destructor of the manager that set and clear the pointer, and an archive that is opened, is void or is not there |
| `Ask`, `Enter`, `Leave` | `IsLoaded`, `WithManager`, `MakeQuery` |
| `Restart`, `Stops` | `main()` and the service manager |

Opening an archive that is not there creates an empty one, or throws if the
folder may not be written to, and nothing catches that: the process ends.

### SelfUpdate

`published` is the release folder; `exe`, `bak`, `new`, `script` are the files
beside the program; processes are numbered and run from `exe` or, after a swap
under their feet, from `bak`. `Program(p)` is `ShowChangelogIfJustUpdated`,
`CheckForUpdate` and what follows from it; `Script(p)` is the text of
`BuildUpdateScript()` line by line. `Patient` says that the user starts a program
only when none runs and no update is under way.

### Calendar and Queries

`Calendar` runs a clock through every day, and beside it a plain calendar; the
arithmetic of `CommonTypes.cpp` and `RelativePeriod.cpp`, with division towards
zero and 16-bit days, is compared with it on each day and over each midnight.
The first day and the last are constants; `SixteenBits` says that every year a
period reaches into has day numbers of 16 bits, which are those from 1900 to
2078. The clock begins with the number that `RealToday` computes and is then
advanced by one at midnight, so that each number computed later is compared with
one that was counted.

In `Queries` a query runs over transactions in any order and number, passes its
filters and adds to two sets of sums that the code keeps apart, by topic and by
topic and period. Tables and charts are functions of these sums:
`GetTableResult`, `GetChartResult`, `MergeConvertedToCurrency`,
`BuildFoldedTopicSlices`. Slices of one size may come in any order, since
`std::sort` leaves that open: `Slices` is a sequence of which nothing is known but
that it is sorted.

## 3. Properties and what they are for

`Ledger`: `RecoveryExact` — at every moment a replay would bring back the memory
if all its changes were journaled. `ReplayOnTrack` — during a replay the memory
is, row by row, what it was then, so every row fits. `ReplayEndsWell` — no
replay is broken off, and it ends with what was lost. `CleanMeansSaved` — if the
user is not going to be asked, there is nothing to ask. `IdsInPlace`,
`RefsInRange`, `MergeKeepsMeaning` — ids in children and in transactions move
together. `SaveKeepsTheRest` — saving and loading gives the same memory, given
the built-in children as built and the accounts in order. `NamesUnique`.

`BankFile`: `WorkSurvives` — whatever a session has in memory can be had again by
launching and accepting, in every phase but one. `NothingTwice` — and not twice.
`NothingDroppedUnasked` — leaving deletes no row that could be recovered, unless
the user was asked. `OneWriter`, `NoLostUpdate`, `SavedIsKept`. `KeepsPromise` —
the refinement above: a step of loading, recovering, saving, crashing is a step
of the promise or nothing to it.

`RateDownload`: `ClosedOnce` — the request handle is closed by one thread only.
`NothingLeftOpen` — and not by none. `DialogEnds` — liveness: the dialog ends if
every call is answered, and a request that is not answered is cut off.
`RatesKept` — whatever was pruned or cancelled, rates in use stay.
`SettledIsExact` — after a download that succeeds every transaction with a rate of
its own day has that one, however the transactions lie; after an update that finds
nothing to do, those of every account in order have. Without the condition the
second half is false (`NothingIsMissing`, below). `CleanRatesSaved` — the
rates of a database that counts as saved are saved (proved only).

`DaemonReload`: `PointsToLiving` — the pointer never dangles. `SkipsNothingNew` — an
archive whose time stamp is that of what is served is what is served, though the
stamp is taken before the archive is read and both before the swap.
`AnswersNeverAge` — answers come from ever newer archives (proved only).
`UndisturbedRatesAreOwn` — a request during which nothing is reloaded uses the
rates of its own snapshot. `NewestServed` — liveness: once the desktop is done,
the last save is served, whatever the reload was doing meanwhile. `RequestsEnd`.

`SelfUpdate`: `InstalledIsVerified`, `SomethingToRun` — at every step, also if
the machine goes down there. `PreviousKept` — the backup is the program that
asked for the update. `NewsOnce` — "What's new" is shown at most once for each
update, unless a script has given up waiting for its program. `UpdateEnds` — liveness: what was handed over is
installed and started.

`Calendar`: `CivilDates`, `PeriodsTile`, `PeriodsHandOver`. `Queries`:
`SumsAreExact` against a sum over the transactions; `TablesAgree`,
`ChartsBalance`, `ShapesAgree` — tables and charts that are computed apart tell
the same; `OthersIsTheTail`.

The type invariants of `RateDownload`, `DaemonReload`, `SelfUpdate` and `Queries` are
in no configuration: they are proved.

## 4. Runs

Passing:

| Run | Checks | Bounds | Distinct states |
|---|---|---|---|
| `ledger_edits` | TypeOK, ReplayOnTrack, NamesUnique, ReplayEndsWell | no file, an empty account or two days of transactions; 3 names of which two differ in case; exports that append to an account or open one; 3 rows, 3 transactions, 3 children | 1 424 500 |
| `ledger_merge` | IdsInPlace, MergeKeepsMeaning, SaveKeepsTheRest | 3 children, 3 transactions, any subset merged | 13 800 |
| `ledger_sessions` | RecoveryExact, CleanMeansSaved | any number of sessions, 2 topics, 2 rows between saves | 803 000 |
| `file_local` | TypeOK, WorkSurvives, NothingDroppedUnasked, KeepsPromise | one machine, any number of sessions, 4 changes | 5 600 |
| `file_network` | OneWriter, NoLostUpdate, SavedIsKept | 2 machines, 3 changes | 40 000 |
| `file_mishaps` | NothingTwice | 2 machines, every failure, 1 change | 665 000 |
| `rates` | ClosedOnce, NothingLeftOpen, RatesKept, SettledIsExact, DialogEnds | 2 accounts, of which one in euros; a Friday, a Saturday and a Monday, 2 transactions at a time on any of them in any order; all calls answered, or the request never | 1 460 800 |
| `daemon` | PointsToLiving, UndisturbedRatesAreOwn, SkipsNothingNew, NewestServed, RequestsEnd | 2 request threads, 4 requests, 3 saves, with and without the right to create files | 18 500 |
| `update` | InstalledIsVerified, SomethingToRun, NewsOnce, PreviousKept, UpdateEnds | 3 releases, 4 processes, 1 crash or power cut, a script that looks twice; a patient user | 155 400 |
| `days` | CivilDates, PeriodsTile, PeriodsHandOver | every day from 1 January 1906 to 31 December 2078 | 63 200 |
| `queries` | SumsAreExact, TablesAgree, ChartsBalance, ShapesAgree, OthersIsTheTail | up to 5 transactions of 10 kinds: 3 topics, 3 currencies, 4 days of 3 periods; 4 filters, 3 chart modes; a word of 8 bits | 36 000 |

Why the bounds are enough to be of interest: a merge needs one child before, one
behind and one that is merged (three); a row and the row whose id it relies on,
with one in between, is three; uniqueness needs a name, its other case and a
third to rename to. Sessions and crashes are not bounded at all. In
`file_mishaps` one change suffices since `NothingTwice` is about one change at a
time; with more, the failures leave different half-saved files on each machine
and the states multiply without a new kind of step. In `rates` the number of
downloads is not bounded; a weekend, a day
pruned between two others, and two transactions of one account out of order are
all within three days and two transactions. In `daemon` a save
can come before, in and after a reload with another one left to be noticed. In
`update` a third release lets a copy be of another build than the manifest; a
fourth process lets one overtake an update that another has begun. `days` is all
but the first six years and the last months that a 16-bit day number counts; the
century it crosses is that of 2000. In `queries` two topics are together less than the
share that is folded (one in twenty), a sum passes the word, a
period without transactions lies between two that have some, and one rate is
missing.

Configurations with `CHECK_DEADLOCK FALSE` stop at their bounds where the
application would not: the journal is full (`ledger_*`), there are no saves and
requests, processes and releases, days or transactions left. `BankFile` and
`RateDownload` have no deadlock, and that is checked.

**Fairness.** `Ledger`, `BankFile`, `Calendar` and `Queries` assume none: every
step is a user's, a dialog's or the operating system's, and none of them has to
happen. In `RateDownload` both threads are scheduled (`WF` on the steps of each);
`Cancel` is weakly fair because of the time limit of sixty seconds; a call ends
if somebody answers it, or its handle is closed, and need not end otherwise. In
`DaemonReload` the service manager restarts a daemon that has ended, the watcher
polls, and a rename that was begun is done. For the mutex weak fairness would not
do if requests came without end; they are bounded, as in an afternoon, and the
lock is then free for ever. Nobody has to save or to ask. In `SelfUpdate` only the
scripts are sure to go on: a program may wait for its user for ever.

`MCLedger_import.cfg` passes as well (180 900 states: `RecoveryExact`,
`CleanMeansSaved`, `RefsInRange`, `ReplayEndsWell`): imports only, of exports that
overlap, are too old or out of order, with crashes in between.

What the passing `file_*` runs leave out is what the violation configurations
are for. `file_local` does not crash in `writing` and `cutting`, nor
`file_network` where a plain file is left; there the properties fail.

One violation is a run of `PROJECT.json`, with the line it disagrees with quoted
there: `ledger_bad_merge_shift` (`JournalHoldsAll`) — ids that a merge shifts in
transactions are not journaled. The other configurations named `…_bad_…` are
kept beside it; each violates the property it names, and they are the record of
the exceptions that the passing runs make:

| Configuration | Property | Shows |
|---|---|---|
| `MCLedger_bad_decline` | JournalApplies | rows appended behind a declined recovery do not replay |
| `MCLedger_bad_reimport` | RecoveredInOrder | dropped transactions come back on replay, out of order |
| `MCLedger_bad_merge_crash` | ReplayNeverFails | a journal that ends inside a merge makes its own replay throw |
| `MCLedger_bad_categorize` | JournalHoldsAll | Categorize changes client and description without rows |
| `MCLedger_bad_unasked` | AskedBeforeLosing | and may not mark the database as changed |
| `MCLedger_bad_position` | JournalHoldsAll | a position is journaled before, and used after, the reload that sorts the account |
| `MCLedger_bad_bank` | JournalHoldsAll | the bank in memory is not the bank in the journal |
| `MCBankFile_bad_torn` | SaveLosesNothing | a crash while the plain file is written hides the good archive |
| `MCBankFile_bad_writer` | OneWriter | discarding while the share is down makes a reader a writer |
| `MCBankFile_bad_zip` | WorkSurvives | a failed save leaves a plain file that strands the journal |
| `MCBankFile_bad_write` | SavedIsKept | a plain file that could not be written is packed all the same |
| `MCBankFile_bad_twice` | NothingTwice | a crash inside `WriteBaseline` offers saved rows again |
| `MCBankFile_bad_reader` | SavedIsKept | an archive in use is not replaced, and nobody notices |
| `MCBankFile_bad_shadow` | NoLostUpdate | a plain file left on one machine goes before the shared archive |
| `MCBankFile_bad_declined` | NothingDroppedUnasked | a session whose user only declined deletes the journal on exit |
| `MCSelfUpdate_bad_two` | InstalledIsVerified | an impatient user's second window overwrites the copy that the first has verified |
| `MCSelfUpdate_bad_news` | NewsAlwaysOnce | after a script gave up waiting, two processes of one version both show "What's new" |
| `MCQueries_bad_others` | OthersIsNotTheBiggest | topics of one size fold into an "Others" that is bigger than each of them |

Others need no configuration of their own: put the property in the place of those
that are there.

| In | Property | Shows |
|---|---|---|
| `MCBankFile_bad_writer` | NothingDroppedUnasked | a session that was refused the share and loaded nothing deletes the journal on exit |
| `MCRateDownload_rates` | CancelEnds | a cancel that comes while no handle is registered is not seen before the next call has ended by itself (`RunWithProgress.h`, `MnbExchangeRateClient.h`) |
| | NothingIsMissing | transactions out of order, Monday's before Friday's: the span that is looked at is empty, the download is skipped, and both keep a rate of another day (`AccountManager.h:180`, `AccountManager.cpp:1038`) |
| | NeverClosedTwice | the handles a request was opened from are closed without asking the token, which may have closed one |
| | PruningIsSafe | a day between two that have rates loses the rate it was looked up by |
| | CarriesForward | the rate of the day before a holiday is not kept if it has no transactions, so it cannot carry forward |
| `MCDaemonReload_daemon` | RatesAreOwn | a candidate that is being loaded takes the pointer from the request in progress |
| | KeepsServing | an archive that is gone in the middle of a reload ends the daemon |
| | OnlySavesWrite | or the daemon creates an empty one there |
| `MCSelfUpdate_bad_two` | SomethingToRun | with two scripts there may be no program for good |
| `MCSelfUpdate_update` | PreviousAlwaysKept | a script that gave up waiting leaves another backup |
| | RefusedChangesNothing | resources are copied before the program is verified |
| `MCQueries_queries` | OnOneSide | a topic is put on one side for each currency apart |
| | MagnitudesOnly | a single period of a series may have the other sign |

## 5. Proofs

`Ledger_proofs` proves `Spec => []IInv` (`InvariantHolds`) and from it
`ReplayStaysOnTrack` (`ReplayOnTrack`) and `ReplayEnds` (`ReplayEndsWell`), for
every set of names, exports, operations and initial databases, and journals of
any length. `ReplayOnTrack` is not inductive: it speaks of replays, and a replay
runs on rows that were written long before. `IInv` speaks of those rows while
they are written. Its heart is `Chained`: `lived` begins with the loaded file,
and the k-th row applies to the k-th memory and takes it to the next; `Here`
says that the memory of now is the last link, or the one at the cursor.
`Underway` says that a merge or an import that goes on will find the
transactions it is going to touch. Every operation either adds a link
(`LoggedStep`), or changes something without a row and gives up `exact`
(`QuietStep`), or starts a chain anew; a replay walks down the chain
(`ReplayFollows`). The assumptions are the `ASSUME`s of the modules: sentinels
differ from data, the initial files have the shape of a memory.

`LedgerMemory_proofs` goes on from there. Its first half says what the operators
of `Entities`, `Accounts` and `LedgerData` do to sequences of any length: where a
merge moves a child (`Ranks`), what writing and reading a collection gives, that
sorting and pruning lose no id. Then:

- `MInv` gives `TypeOK`, `IdsInPlace` and `SaveKeepsTheRest`. It says more than
  they do: ids are in place not only in an open session but while it replays, and
  in what the file becomes when it is loaded, or the next session could not begin
  with it; and a merge or an import under way has values it can go on with.
- `RecoveryIsExact`: replaying the whole journal brings back the memory of now,
  at every moment and over any number of crashes. `Recovered` is a function by
  recursion on the number of rows; that it follows the chain of `Ledger_proofs`
  link by link is shown by taking the least row where it would not.
  `CleanIsSaved` (`CleanMeansSaved`) needs `Unmarked`, which ties the mark "changed"
  to what was loaded.
- `NamesStayUnique` needs `NInv`: the names of a collection are distinct and the
  built-in child, if it has one, is first. It assumes that the loaded files are so
  (`UniqueAtFirst`) and that the built-in name is none that can be given
  (`BuiltInSpared`). That holds of clients, whose built-in name is empty
  (`ClientManager.cpp:5`), for creating and renaming refuse an empty name. It does
  not hold of categories: the built-in one has a name of its own
  (`CategorySystem.cpp:12`), a user can rename it, give its old name to another,
  save, and load it back under its old name, since `StreamOut` leaves it out. Without
  the assumption TLC finds this, with `DefaultName` one of the names; the
  runs satisfy it.
- `MergesKeepMeaning` proves `MergeKeepsMeaning` as long as ids are in range:
  `Halfway` says that in a merge each transaction behind the loop has the healed
  id of what it had, and each before it still what it had.
- `RefsStayInRange` shows that they are (`RefsInRange`, the invariant of
  `MCLedger_import.cfg`), and `MergesAreSound` puts both together. The invariant
  `RInv` has to speak of the journal: an id in a row names a child of the loaded file,
  or one that an earlier row creates, or else the replay stops before it. The last
  case is real: a replay that stops at a CREATE row under an id it did not expect
  leaves a session that goes on with a child no row announces, but every later
  replay of that journal stops at the same row (`Stopped`). Assumed are the
  initial files in range (`RefsAtFirst`); that ids fit (`IdsFit`), because
  `CreateId` answers 65535 for "not found"; and that no merge is interrupted by
  a crash (`NoLostMerge`): otherwise `MCLedger_bad_merge_crash.cfg` has a
  counterexample. The run `ledger_merge`, which checks `MergeKeepsMeaning`, has merges
  and no crashes.

`BankFile_proofs` proves `OneWriterHolds`: for any sessions and machines no two
sessions may write to a shared database, provided that either nobody discards
changes or the folder is never out of reach (`LockIsReliable`; without it
`MCBankFile_bad_writer.cfg` has a counterexample). `OneWriter` does not say why the other
one may not write; the inductive `WritersHoldLock` does: who may write has the
lock, and it is one variable. It also proves the type invariant (`TypesHold`), and
`NothingIsTwice`: no change is in what will be recovered twice, whatever fails and
whoever is killed, if not between the two writes of a baseline (`"cutting"`). Its
invariant `OnceInv` says which rows may be behind which file.

Its second half proves that no work is lost: `WorkSurvivesCrashes`,
`NoUpdateIsLost`, `WhatWasSavedIsKept`, for any sessions, machines and numbers of
changes. They hold when the sessions are `Orderly`: one on each machine; a reliable
lock; recoveries are not declined; files can be written, packed and replaced; no
crash while the plain file is rewritten or inside a baseline, nor, on a shared
folder, during a save. But for the first, there is a configuration
`MCBankFile_bad_…` for each of these that shows what is lost without it; the runs
`file_local` and `file_network` are orderly. None of the three is inductive.
`FInv` is: a session that may write has in memory, at each step of loading
and of saving, what is on disk or what the baseline and the rows make
(`InStep`), and what is on disk always has in it what was saved last (`DiskInv`).

On one machine (`~Network`) more is proved. `NothingIsDroppedUnasked`, an action
property: the session that ends either asked, or leaves nothing behind. And
`PromiseIsKept`: `BankFile` implements `UnsavedWork`. Each of its steps is shown to be
a step of the promise or none at all, by what can be seen of it from above
(`NextSees`): loading and accepting open a session, a change is safe at once, the
steps of a save are invisible until the one that confirms it.

`RateDownload_proofs` proves its type invariant, `ClosedOnce`, `NothingLeftOpen`,
`RatesKept`, `SettledIsExact` and `CleanRatesSaved`. That two threads do not close
one handle depends on what each holds at each step: `TokenInOrder` says that a
handle which is called on and not registered any more is in the dialog's `grip`,
and that what the dialog once had is never registered again; `HandlesInOrder`
that every open handle is still to be unwound or about to be closed by the
dialog; `CancelInOrder` that the flag is set before the handle is taken, and once.
`SettledIsExact` says when skipping a download is safe: in an account that is in
order all days lie between the first record and the last (`NothingMissing`), every
weekday in between has a rate, and the rate of a day goes before any other
(`OwnDayFirst`). `Load` puts accounts in order; appending may not keep them so, and
nothing is claimed then but that a download, once it is made, is made for all days.
It assumes that rates are published on weekdays (`PublishedOnWeekdays`): a rate of
a working Saturday would not be looked for.

`DaemonReload_proofs` proves `PointsToLiving` and `UndisturbedRatesAreOwn`. The
pointer is set by the constructor, by the query and cleared by destructors, and
only the query holds the lock; the invariant ties it to the watcher
(`WatcherInOrder`: a candidate exists only between `Construct` and the swap) and
to the requests (`RequestsInOrder`: who runs has the lock, and who was let in has
a snapshot).

The same module proves that no save is missed for good: `NoSaveIsSkipped`
(`SkipsNothingNew`), the part of `NewestServed` that needs no fairness. The watcher
sleeps while the time stamp of the archive is the one it remembers. That would be
wrong if the stamp could be newer than the contents; `StampsInOrder` says that it
never is, for the one that was taken, the candidate and what is served, and
`DiskInOrder` that nothing is newer than the last save. `AnswersDoNotAge` and
`TypesHold` follow.

`SelfUpdate_proofs` proves `TypesHold`, `InstalledIsVerified`, `SomethingToRun`,
`NewsOnce` and `PreviousKept` for any number of releases, processes, crashes and
power cuts, and a user who is `Patient`; with an impatient one
`InstalledIsVerified` and `SomethingToRun` fail (`MCSelfUpdate_bad_two.cfg`). The invariant has five parts beside the types, and
none is inductive without the others. `Order`: a process begins only behind those
that have handed over, and a script that has work left belongs to the newest.
`Offers`: what a script is about to install was verified against the manifest
its process accepted. `Installed`: between the two moves the program is the
backup. `Waited`: a script goes on when its process has gone or it gave up. `News`:
the marker names a version that handed over and whose news was not shown. This
attempt changed the model: `NewsOnce` was first stated without the exception, as
the comment in `cMain.cpp:290` does, and no invariant gave it, because it is false
when a script stops waiting (`MCSelfUpdate_bad_news.cfg`).

`Queries_proofs` proves all five invariants of the run `queries`, for any finite
book of transactions, any rates, filters, periods, share and width of a word. Its
inductive invariant `QInv` (`SumsByCells`) relates the two sets of sums that the
code keeps apart: a topic and a currency have a sum if they have a cell
(`TopicKeys`), the sum is what the cells add up to, leg by leg (`Split`), all cells
are within the span of their topic (`Spanned`), and the legs of a result fit
together (`Signed`: income is not negative, expense not positive, and what is zero
is zero in every currency).

- `SumsExactly` (`SumsAreExact`) needs the history as well: `Exact` says that all
  the sums of a currency are the tally of its transactions, each as often as it
  was run. A run adds to one sum and one tally (`TotalsAdd`, `TallyMoves`).
- `TablesAgreeAlways`: every cell has its column (`EveryCellHasItsColumn`), for which
  `Spanned` is there, so columns and rows are two ways to group the same cells
  (`SumByKey`). The totals wrap, each at its own point; that they agree is shown
  modulo a whole turn of the word (`WrapTurns`, `WrapSum`).
- `ShapesAgreeAlways`, `ChartsBalanceAlways`: a series adds up to its topic since a
  dataset picks one leg, and `Signed` decides which legs are shown where. A topic
  that a dataset leaves out has nothing to show there.
- `OthersIsTheTailAlways`: the loop that moves the cutoff stops at the first place
  where the tail is within its share (`CutoffStops`), and in a sorted sequence what
  is behind it is not bigger than what is before (`SortedOnce`).
- `TypesHold`: nothing is counted more often than it was run, and each end of a
  span is a period that has a cell (`Counted`, `Reached`).

Under all of these are lemmas on sums over finite sets (`SumUnion`, `SumPlus`,
`SumChanges`, `SumByKey`). A sum of the community modules is a fold, and a fold is
a function taken by `CHOOSE`; that there is exactly one is shown first (`FoldExists`,
`FoldIsOne`). Where an induction is needed, a smallest set without the property
is taken (`SmallestSet`, from the well-foundedness of the subset ordering).

`Calendar_proofs` proves `CivilDates`, `PeriodsTile` and the action property
`PeriodsHandOver` for a clock that ends on any day to 2078 and begins on any before
it, late enough for no period to begin before 1900, and for any numbers of whole
years. The invariant `CInv` says that the plain calendar stands on a day that
exists (29 February in leap years only) and that today is its number. The formulas
of `CommonTypes.cpp` are nested divisions that no prover takes as they are.
`Encoded` splits the number of a day into quarters of days for the years, the
centuries without a leap day, and days of the months, counted from March, so that
the leap day is the last of its year; `RoundTrip` undoes the three one after the
other. That the number grows by one at midnight, at the end of a month, of
February and of a year, is proved from this and not from a table of days. The
periods then are ranges between two first days of months. The code finds the first
month of one in two ways, by dividing the month and by taking off a remainder, and
numbers the columns in a third; they meet because every span divides twelve.

These proofs changed the models where they could not be reasoned about:
`QueriesAssumption` says of the data what the proofs use (finitely many, integers);
`SixteenBits` was implied by the configuration and is now stated, and the number of
the first day is computed, not given; `Slices` says that
slices are sorted and not in which order equal ones come; `CivilDates` says that a
`uint16_t` does not change today, which is the same as its being in range.

Only model-checked. Liveness (`DialogEnds`, `NewestServed`, `RequestsEnd`,
`UpdateEnds`) is out of the prover's reach. Every invariant and action property that
a passing run checks is proved. `NothingDroppedUnasked` and `KeepsPromise` are proved
for one machine, which is where the runs check them.

## 6. Not modelled, and why

- Amounts, memos and bank wording: one value per transaction, never changed.
  The children's category groups and the clients' account numbers.
- Checksums are the content they are computed of; two files with one checksum
  do not occur.
- A plain file broken off in the middle is loaded as nothing, or the program
  fails on it; what an unchecked count read past its end would give is one of
  those two here.
- Renaming the temporary archive after the old one has been removed does not
  fail. Plain saves and extraction exist only in debug builds. The `.backup`
  copy is written and never read.
- Hand-written recovery files (`ApplyRecoveryFile` without suppression).
- Import: reading the formats, the search tiers and dialogs that choose an id, the
  categorizations kept of dropped transactions, account numbers of clients;
  `CreateId` answering 65535 when a new name matches several children
  (`ManagerType.h:142`), which the transaction then keeps (`IdsFit` excludes it).
- Categorizing: a dialog that throws when the client has been changed already
  (`WQuery.cpp:158`, `177`).
- The text of a journal row: tabs and line ends inside a name or a memo
  (`Journal.cpp:168`).
- Two sessions on one machine, of which one has no journal; `Open()` of the
  archive creating an empty file for a second desktop session.
- Rates: unpacking and parsing; conversion without a history, at the built-in
  rates; conversions whose result is no 32-bit number. The process being killed
  during a download: nothing of it is on disk before the next save.
- Daemon: the plain-text layout of the database, `/health`, HTTP, tokens and the
  JSON of requests; the hot-reloaded page, whose worst case is to be read once
  more than necessary. `Enter` takes the lock and sets the pointer in one step: a
  candidate that is constructed between the two, without the lock, might as well be
  constructed before both, for the request sets the pointer anew.
- Self update: parsing of manifests and versions; two releases with one number; the
  moment in which a release is complete but for its `changelog.json`, which is
  copied last (`PackageRelease.ps1:210`).
- Queries: filters by amount and text, lists of transactions, averages, the order
  and format of rows, daily columns (`Query.cpp:569`), which need no calendar;
  folding of whole series, which ranks by sums of the magnitudes of each period
  (`ChartFolding.cpp:98`). Amounts are integers and the folded share is exact, where the
  code compares doubles: at exact equality the two may differ by a rounding.
  The keywords' parser and the files of favourites.
- The components marked `not_modelled` in `PROJECT.json`, and the vendored JSON,
  HTTP and archive libraries but for the order in which an archive is replaced.

## 7. Plan

Done: the core (`Entities`, `Accounts`, `LedgerData`, `Ledger`, `BankFile`);
`UnsavedWork` and its refinement; `RateDownload`, `ExchangeRates`; `DaemonReload`;
`SelfUpdate`; `Calendar`, `Queries`; the theorems of section 5, with which every
safety property that a passing run checks is proved. Left, in the order of what is
lost if it is wrong:

1. Details of import: dropped categorizations that are recalled once, the search
   tiers that choose an id, account numbers of clients.
2. Two local sessions on one machine.
3. The promise of `UnsavedWork` on a shared folder, where a session that only reads
   may recover work that it cannot save.

## 8. Running it

In this directory: `tlc -config MCLedger_edits.cfg MCLedger`, and so for every
configuration `MC…_….cfg`; `tlapm Ledger_proofs.tla`, and so
for every module of proofs. Operators named after a fault (`CloseParents_One`, …)
are not used by the specification: each stands before the definition it
falsifies, and put in its place it makes the property named in `PROJECT.json`
fail.
