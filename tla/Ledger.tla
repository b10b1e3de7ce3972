------------------------------- MODULE Ledger -------------------------------
(***************************************************************************)
(* One desktop session after another on one database: the memory of        *)
(* AccountManager, the database file, and the recovery journal that is     *)
(* meant to carry unsaved work over a crash (src/AccountManager.cpp,       *)
(* src/WQuery.cpp, src/Journal.cpp, src/BankAccountFile.cpp, src/cMain.cpp *)
(* and src/Account.cpp).                                                   *)
(*                                                                         *)
(* Every operation changes the memory, and most append a row to the        *)
(* journal. After a crash the next session loads the file, and when the    *)
(* journal was begun on that very file it offers to replay its rows.       *)
(*                                                                         *)
(* The file is written in one step here; its protocol is module BankFile's *)
(* matter. Imports and merges are taken one transaction at a time, because *)
(* a crash may come between two of them.                                   *)
(***************************************************************************)
EXTENDS LedgerData

CONSTANTS
  NoFile,    \* there is no database file
  NoMem,     \* the application is not running
  InitFiles, \* what the database file may be at first
  Exports,   \* bank exports: an account number, its bank, and rows
  Ops,       \* the operations the users perform
  MaxRows,   \* bound: journal rows
  MaxTxns,   \* bound: transactions of an account
  MaxKids    \* bound: children of a collection

ASSUME LedgerAssumption ==
  /\ MaxRows \in Nat /\ MaxTxns \in Nat /\ MaxKids \in Nat
  /\ NoFile \notin Memory /\ NoMem \notin Memory
  /\ InitFiles \subseteq Memory \cup {NoFile}
  /\ \A f \in InitFiles \ {NoFile}, t \in Topics : InPlace(Loaded(f).children[t])
  /\ Exports \subseteq [number : Numbers, bank : Banks,
                       rows : Seq([date : Nat, what : Whats])]

VARIABLES
  mem,       \* AccountManager, or NoMem
  dirty,     \* BankAccountFile::m_state = DIRTY
  file,      \* the database file
  journal,   \* db\journal.txt: the file it was begun on, and its rows
  phase,     \* "closed", "offer" (the recovery prompt), "replaying", "open"
  cursor,    \* rows replayed so far
  merging,   \* the merge that MakeQuery(WQuery) is carrying out, or NoMerge
  importing, \* the import that is running, or NoImport
  lived,     \* history: the memories the session has been through since the
             \* journal was begun, one after every row
  exact      \* history: whatever changed the memory has been journaled

vars == <<mem, dirty, file, journal, phase, cursor, merging, importing,
          lived, exact>>

NoMerge  == [topic |-> "NONE"]
NoImport == [account |-> 0, todo |-> <<>>, started |-> FALSE, on |-> FALSE]
NoJournal == [base |-> NoFile, rows |-> <<>>]

Idle == phase = "open" /\ merging = NoMerge /\ ~importing.on

\* A modal dialog of a running import may create children and add keywords.
Dialog == phase = "open" /\ merging = NoMerge
            /\ (importing.on => importing.started)

-----------------------------------------------------------------------------
(* Writing to the journal: the memory becomes m, and the row says so.      *)
\* (Seeded fault: the file is opened anew for it.)
Log_Truncates(row, m) ==
  /\ Len(lived) <= MaxRows
  /\ mem' = m
  /\ journal' = [journal EXCEPT !.rows = <<row>>]
  /\ lived' = Append(lived, m)

Log(row, m) ==
  /\ Len(journal.rows) < MaxRows
  /\ mem' = m
  /\ journal' = [journal EXCEPT !.rows = Append(@, row)]
  /\ lived' = Append(lived, m)

(* CreateId(): unless the name already means one child or several.         *)
Create_(topic, name) ==
  /\ "Create" \in Ops /\ Dialog
  /\ Len(mem.children[topic]) < MaxKids
  /\ SearchIdsHighConfidence(mem.children[topic], name) = {}
  /\ Log([op |-> "CREATE", topic |-> topic, name |-> name,
          id |-> CreatedId(mem.children[topic], name)],
         CreateId(mem, topic, name))
  /\ dirty' = TRUE
  /\ UNCHANGED <<file, phase, cursor, merging, importing, exact>>

Keyword(topic, id, word, definitive) ==
  /\ "Keyword" \in Ops /\ Dialog
  /\ HasId(mem, topic, id)
  /\ ~HasKeyword(mem.children[topic], id, word, definitive)
  /\ Log([op |-> "KEYWORD", topic |-> topic, id |-> id, word |-> word,
          definitive |-> definitive],
         AddKeywordTo(mem, topic, id, word, definitive))
  /\ dirty' = TRUE
  /\ UNCHANGED <<file, phase, cursor, merging, importing, exact>>

Rename_(topic, id, name) ==
  /\ "Rename" \in Ops /\ Idle
  /\ HasId(mem, topic, id)
  /\ MayRenameId(mem, topic, id, name)
  /\ Log([op |-> "RENAME", topic |-> topic, id |-> id, name |-> name],
         RenameId(mem, topic, id, name))
  /\ dirty' = TRUE
  /\ UNCHANGED <<file, phase, cursor, merging, importing, exact>>

(* A grid cell edited: ApplyEdit() journals the field even when its value  *)
(* stays the same; only the client dialog drops a choice that changes      *)
(* nothing. A type cannot be edited.                                       *)
Edit(account, position, field, value) ==
  /\ "Edit" \in Ops /\ Idle
  /\ field # "TYPE"
  /\ field = "CLIENT" =>
       value # GetTransactionAt(TxnsOf(mem, account), position).ids[field]
  /\ Log([op |-> "EDIT_TXN", account |-> account, position |-> position,
          field |-> field, value |-> value],
         EditTransaction(mem, account, position, field, value))
  /\ dirty' = TRUE
  /\ UNCHANGED <<file, phase, cursor, merging, importing, exact>>

(* The Categorize command on one transaction: CategorizingQuery may change *)
(* its client, its category and its description, yet what is journaled is  *)
(* the category alone, and only if the category was found automatically or *)
(* the client changed. Otherwise nothing is journaled, and Modified() is   *)
(* not called.                                                             *)
Categorize(account, position, client, category, note, found) ==
  LET old   == GetTransactionAt(TxnsOf(mem, account), position)
      moved == EditTransaction(mem, account, position, "CLIENT", client)
      named == EditTransaction(moved, account, position, "CATEGORY", category)
      after == EditTransaction(named, account, position, "MEMO", note)
  IN  /\ "Categorize" \in Ops /\ Idle
      /\ note = NoNote => old.note = NoNote
      /\ IF found \/ client # old.ids["CLIENT"]
           THEN /\ Log([op |-> "EDIT_TXN", account |-> account,
                        position |-> position, field |-> "CATEGORY",
                        value |-> category], after)
                /\ dirty' = TRUE
                /\ exact' = (exact /\ after = EditTransaction(mem, account,
                                        position, "CATEGORY", category))
           ELSE /\ mem' = after
                /\ exact' = (exact /\ after = mem)
                /\ UNCHANGED <<journal, lived, dirty>>
      /\ UNCHANGED <<file, phase, cursor, merging, importing>>

-----------------------------------------------------------------------------
(* MakeQuery(WQuery) with a MergeQuery: PreResolve() takes the target out  *)
(* of the others, Execute() merges the collection and journals it, and the *)
(* target's own id is healed; then every transaction is visited.           *)
Places(m) ==
  UNION {{<<a - 1, p>> : p \in Positions(m.accounts[a].txns)} :
           a \in DOMAIN m.accounts}

StartMerge(topic, others, to) ==
  LET froms == others \ {to}
  IN  /\ "Merge" \in Ops /\ Idle
      /\ others # {}
      /\ \A id \in froms \cup {to} : HasId(mem, topic, id)
      /\ Log([op |-> "MERGE", topic |-> topic, froms |-> froms, to |-> to],
             MergeChildren(mem, topic, froms, to))
      /\ merging' = [topic |-> topic, froms |-> froms, to |-> to,
                     target |-> HealedId(to, froms), todo |-> Places(mem),
                     before |-> mem]
      /\ dirty' = TRUE
      /\ UNCHANGED <<file, phase, cursor, importing, exact>>

(* MergeQuery::CheckTransaction() on the next transaction, in the order of *)
(* accounts and positions: one that referred to an erased child now refers *)
(* to the target, and that is journaled; the id of any other is healed,    *)
(* and that is not.                                                        *)
MergeNext ==
  /\ phase = "open" /\ merging # NoMerge
  /\ \E place \in merging.todo :
       /\ \A q \in merging.todo :
            place[1] < q[1] \/ (place[1] = q[1] /\ place[2] <= q[2])
       /\ LET id == GetTransactionAt(TxnsOf(mem, place[1]), place[2])
                      .ids[merging.topic]
              now == IF id \in merging.froms THEN merging.target
                                             ELSE HealedId(id, merging.froms)
              m   == EditTransaction(mem, place[1], place[2], merging.topic, now)
          IN  /\ mem' = m
              /\ IF id \in merging.froms
                   THEN /\ journal' = [journal EXCEPT !.rows = Append(@,
                             [op |-> "EDIT_TXN", account |-> place[1],
                              position |-> place[2], field |-> merging.topic,
                              value |-> now])]
                        /\ lived' = Append(lived, m)
                        /\ UNCHANGED exact
                   ELSE /\ exact' = (exact /\ m = mem)
                        /\ UNCHANGED <<journal, lived>>
       /\ merging' = [merging EXCEPT !.todo = @ \ {place}]
  /\ UNCHANGED <<dirty, file, phase, cursor, importing>>

MergeEnd ==
  /\ phase = "open" /\ merging # NoMerge
  /\ merging.todo = {}
  /\ merging' = NoMerge
  /\ UNCHANGED <<mem, dirty, file, journal, phase, cursor, importing, lived,
                 exact>>

-----------------------------------------------------------------------------
(* PruneLastTransactions(): no journal row says that it happened.          *)
Prune_(account, count) ==
  /\ "Prune" \in Ops /\ Idle
  /\ count > 0 /\ TxnsOf(mem, account) # <<>>
  /\ mem' = WithTxns(mem, account, Prune(TxnsOf(mem, account), count))
  /\ dirty' = TRUE
  /\ exact' = FALSE
  /\ UNCHANGED <<file, journal, phase, cursor, merging, importing, lived>>

(* Import() finds the account, or opens it under the name and the bank     *)
(* that the dialog shows; the account keeps the bank of the export         *)
(* whatever the user types, and the journal is told what the user typed.   *)
(* An account whose data end before the export begins is left alone.       *)
StartImport(export, name, typed) ==
  LET known == KnownNumber(mem, export.number)
      id    == AccountId(mem, export.number)
  IN  /\ "Import" \in Ops /\ Idle
      /\ IF known
           THEN /\ TxnsOf(mem, id) # <<>> =>
                     LastDate(TxnsOf(mem, id)) >= export.rows[1].date
                /\ UNCHANGED <<mem, journal, lived, dirty, exact>>
           ELSE /\ Log([op |-> "ACCOUNT", id |-> id, number |-> export.number,
                        name |-> name, bank |-> typed],
                       AddAccount(mem, export.number, name, export.bank))
                /\ dirty' = TRUE
                /\ exact' = (exact /\ typed = export.bank)
      /\ importing' = [account |-> id, todo |-> export.rows,
                       started |-> FALSE, on |-> TRUE]
      /\ UNCHANGED <<file, phase, cursor, merging>>

(* PrepareImport() on the next row: either the import starts here, and     *)
(* stored transactions of that day and later are dropped without a word in *)
(* the journal, or the row is passed over.                                 *)
PrepareImport ==
  LET txns == TxnsOf(mem, importing.account)
      date == importing.todo[1].date
      kept == KeptByImport(txns, date)
  IN  /\ phase = "open" /\ importing.on /\ ~importing.started
      /\ importing.todo # <<>>
      /\ IF MayStartImport(txns, date)
           THEN /\ importing' = [importing EXCEPT !.started = TRUE]
                /\ mem' = WithTxns(mem, importing.account, kept)
                /\ exact' = (exact /\ mem' = mem)
           ELSE /\ importing' = [importing EXCEPT !.todo = Tail(@)]
                /\ UNCHANGED <<mem, exact>>
      /\ UNCHANGED <<dirty, file, journal, phase, cursor, merging, lived>>

(* ProcessOneTransaction(): the ids are whatever the searches and the      *)
(* dialogs came up with.                                                   *)
ImportRow(ids, note) ==
  /\ phase = "open" /\ importing.on /\ importing.started
  /\ importing.todo # <<>>
  /\ Len(TxnsOf(mem, importing.account)) < MaxTxns
  /\ LET raw == importing.todo[1]
         txn == [date |-> raw.date, what |-> raw.what, ids |-> ids,
                 note |-> note]
     IN  Log([op |-> "TRANSACTION", account |-> importing.account,
              txn |-> txn], AddTransaction(mem, importing.account, txn))
  /\ importing' = [importing EXCEPT !.todo = Tail(@)]
  /\ dirty' = TRUE
  /\ UNCHANGED <<file, phase, cursor, merging, exact>>

\* The rows are used up, or a dialog threw and Import() swallowed it.
EndImport ==
  /\ phase = "open" /\ importing.on
  /\ importing.todo # <<>> => importing.started
  /\ importing' = NoImport
  /\ UNCHANGED <<mem, dirty, file, journal, phase, cursor, merging, lived,
                 exact>>

-----------------------------------------------------------------------------
(* Load() and DoLoad() on the file as it is, with the journal j on disk:   *)
(* rows of a journal begun on this very file are kept and offered; any     *)
(* other journal is begun anew. Without a file nothing is loaded, and the  *)
(* journal is not touched.                                                 *)
LoadWith(j) ==
  LET pending == j.base = file /\ j.rows # <<>>
  IN  /\ dirty' = FALSE
      /\ cursor' = 0
      /\ merging' = NoMerge
      /\ importing' = NoImport
      /\ IF file = NoFile
           THEN /\ mem' = EmptyMemory
                /\ phase' = "open"
                /\ journal' = j
                /\ lived' = <<>>
                /\ exact' = FALSE
           ELSE /\ mem' = Loaded(file)
                /\ IF pending
                     THEN /\ phase' = "offer"
                          /\ journal' = j
                          /\ UNCHANGED <<lived, exact>>
                     ELSE /\ phase' = "open"
                          /\ journal' = [base |-> file, rows |-> <<>>]
                          /\ lived' = <<Loaded(file)>>
                          /\ exact' = TRUE
      /\ UNCHANGED file

Start == phase = "closed" /\ LoadWith(journal)

\* "Discard changes", offered when there are some (UpdateMenu()): the journal
\* is deleted before the file is reloaded.
Discard == "Discard" \in Ops /\ Idle /\ dirty /\ LoadWith(NoJournal)

\* The prompt refused: the journal stays, and later rows go behind its own.
Decline ==
  /\ "Decline" \in Ops /\ phase = "offer"
  /\ phase' = "open"
  /\ exact' = FALSE
  /\ UNCHANGED <<mem, dirty, file, journal, cursor, merging, importing, lived>>

Accept ==
  /\ phase = "offer"
  /\ phase' = "replaying"
  /\ UNCHANGED <<mem, dirty, file, journal, cursor, merging, importing, lived,
                 exact>>

(* ApplyRecoveryFile() with the journal suppressed, row by row. Creating,  *)
(* naming and merging call Modified() at once, transactions only count     *)
(* towards the call at the end.                                            *)
ReplayRow ==
  /\ phase = "replaying" /\ cursor < Len(journal.rows)
  /\ LET row == journal.rows[cursor + 1]
     IN  /\ Applies(mem, row)
         /\ mem' = Applied(mem, row)
         /\ dirty' = (dirty \/ row.op = "MERGE"
                        \/ /\ row.op \in {"CREATE", "KEYWORD", "RENAME"}
                           /\ mem' # mem)
  /\ cursor' = cursor + 1
  /\ UNCHANGED <<file, journal, phase, merging, importing, lived, exact>>

(* A row that cannot be applied: one that names a child that is not there  *)
(* throws out of the program, any other stops the replay. A child or an    *)
(* account created under an unexpected id is there already by then.        *)
ReplayStops ==
  /\ phase = "replaying" /\ cursor < Len(journal.rows)
  /\ LET row == journal.rows[cursor + 1]
     IN  /\ ~Applies(mem, row)
         /\ IF row.op \in {"KEYWORD", "RENAME", "MERGE"}
              THEN phase' = "closed" /\ mem' = NoMem /\ dirty' = FALSE
              ELSE /\ phase' = "open"
                   /\ mem' = IF row.op \in {"CREATE", "ACCOUNT"}
                               THEN Applied(mem, row) ELSE mem
                   /\ dirty' = (dirty \/ (row.op = "CREATE" /\ mem' # mem))
  /\ exact' = FALSE
  /\ cursor' = 0
  /\ UNCHANGED <<file, journal, merging, importing, lived>>

(* The replayed transactions, which FormatResultTable() shows for review:  *)
(* it throws out of the program when one refers to no child.               *)
Touched ==
  {place \in Places(mem) :
     \/ ~HasPosition(file, place[1], place[2])
     \/ \E k \in DOMAIN journal.rows :
          /\ journal.rows[k].op = "EDIT_TXN"
          /\ journal.rows[k].account = place[1]
          /\ journal.rows[k].position = place[2]}

Shows(m, place) ==
  \A t \in Topics :
    HasId(m, t, GetTransactionAt(TxnsOf(m, place[1]), place[2]).ids[t])

RefsIn(m) == \A place \in Places(m) : Shows(m, place)

\* (Seeded fault: nothing is marked as changed when the replay is over.)
ReplayDone_Unmarked ==
  /\ phase = "replaying" /\ cursor = Len(journal.rows)
  /\ phase' = "open"
  /\ cursor' = 0
  /\ UNCHANGED <<mem, dirty, file, journal, merging, importing, lived, exact>>

ReplayDone ==
  /\ phase = "replaying" /\ cursor = Len(journal.rows)
  /\ IF \A place \in Touched : Shows(mem, place)
       THEN /\ phase' = "open"
            /\ dirty' = (dirty \/ \E k \in DOMAIN journal.rows :
                                    journal.rows[k].op # "RENAME")
            /\ UNCHANGED <<mem, exact>>
       ELSE /\ phase' = "closed"
            /\ mem' = NoMem
            /\ dirty' = FALSE
            /\ exact' = FALSE
  /\ cursor' = 0
  /\ UNCHANGED <<file, journal, merging, importing, lived>>

-----------------------------------------------------------------------------
\* Whether loading what is saved now would bring the memory back.
RoundTrip(m) == Loaded(Stored(m)) = m

\* (Seeded fault: saving leaves the rows of before in the journal.)
Save_KeepsRows ==
  /\ "Save" \in Ops /\ Idle
  /\ file' = Stored(mem)
  /\ journal' = [journal EXCEPT !.base = file']
  /\ dirty' = FALSE
  /\ lived' = <<mem>>
  /\ exact' = RoundTrip(mem)
  /\ UNCHANGED <<mem, phase, cursor, merging, importing>>

Save ==
  /\ "Save" \in Ops /\ Idle
  /\ file' = Stored(mem)
  /\ journal' = [base |-> file', rows |-> <<>>]
  /\ dirty' = FALSE
  /\ lived' = <<mem>>
  /\ exact' = RoundTrip(mem)
  /\ UNCHANGED <<mem, phase, cursor, merging, importing>>

(* ~cMain(): the user is asked about unsaved changes only if the memory is *)
(* marked dirty; saved or not, the journal is deleted.                     *)
Exit(save) ==
  /\ "Exit" \in Ops /\ Idle
  /\ save => dirty
  /\ file' = IF save THEN Stored(mem) ELSE file
  /\ journal' = NoJournal
  /\ mem' = NoMem
  /\ dirty' = FALSE
  /\ phase' = "closed"
  /\ lived' = <<>>
  /\ exact' = TRUE
  /\ UNCHANGED <<cursor, merging, importing>>

\* At any moment: only what is on disk is left.
Crash ==
  /\ "Crash" \in Ops /\ phase # "closed"
  /\ mem' = NoMem
  /\ phase' = "closed"
  /\ merging' = NoMerge
  /\ importing' = NoImport
  /\ dirty' = FALSE
  /\ cursor' = 0
  /\ UNCHANGED <<file, journal, lived, exact>>

-----------------------------------------------------------------------------
Init ==
  /\ file \in InitFiles
  /\ mem = NoMem
  /\ dirty = FALSE
  /\ journal = NoJournal
  /\ phase = "closed"
  /\ cursor = 0
  /\ merging = NoMerge
  /\ importing = NoImport
  /\ lived = <<>>
  /\ exact = TRUE

OnChildren ==
  \E t \in Topics :
    \/ \E n \in Names : Create_(t, n)
    \/ \E id \in Ids(mem.children[t]) :
         \/ \E w \in Words, d \in BOOLEAN : Keyword(t, id, w, d)
         \/ \E n \in Names : Rename_(t, id, n)
         \/ \E others \in SUBSET Ids(mem.children[t]) : StartMerge(t, others, id)

OnAccounts ==
  \E a \in DOMAIN mem.accounts :
    \/ \E n \in Names : Rename_("ACCOUNT", a - 1, n)
    \/ \E c \in 1 .. MaxTxns : Prune_(a - 1, c)
    \/ \E p \in Positions(mem.accounts[a].txns) :
         \/ \E t \in Topics : \E id \in Ids(mem.children[t]) :
              Edit(a - 1, p, t, id)
         \/ \E note \in Notes : Edit(a - 1, p, "MEMO", note)
         \/ /\ {"CLIENT", "CATEGORY"} \subseteq Topics
            /\ \E client \in Ids(mem.children["CLIENT"]),
                  category \in Ids(mem.children["CATEGORY"]),
                  note \in Notes, found \in BOOLEAN :
                 Categorize(a - 1, p, client, category, note, found)

OnImport ==
  \/ \E export \in Exports, n \in Names, b \in Banks : StartImport(export, n, b)
  \/ PrepareImport
  \/ \E ids \in [Topics -> UNION {Ids(mem.children[t]) : t \in Topics}],
        note \in Notes :
       /\ \A t \in Topics : ids[t] \in Ids(mem.children[t])
       /\ ImportRow(ids, note)
  \/ EndImport

Running ==
  \/ OnChildren \/ OnAccounts \/ OnImport
  \/ MergeNext \/ MergeEnd
  \/ Save \/ Discard \/ \E save \in BOOLEAN : Exit(save)

Next ==
  \/ phase = "open" /\ Running
  \/ Start \/ Accept \/ Decline
  \/ ReplayRow \/ ReplayStops \/ ReplayDone
  \/ Crash

Spec == Init /\ [][Next]_vars

-----------------------------------------------------------------------------
(* Types. The journal, the file and the history are memories and rows of   *)
(* LedgerData; a merge under way names children of the topic it merges.    *)
TypeOK ==
  /\ mem \in Memory \cup {NoMem}
  /\ dirty \in BOOLEAN
  /\ file \in Memory \cup {NoFile}
  /\ journal \in [base : Memory \cup {NoFile}, rows : Seq(Row)]
  /\ phase \in {"closed", "offer", "replaying", "open"}
  /\ cursor \in 0 .. Len(journal.rows)
  /\ merging = NoMerge \/ merging.topic \in Topics
  /\ importing.on \in BOOLEAN
  /\ lived \in Seq(Memory)
  /\ exact \in BOOLEAN

(* What a replay of the journal would make of the file right now: NoMem if *)
(* some row could not be applied.                                          *)
Recovered ==
  LET rows == journal.rows
      after[k \in 0 .. Len(rows)] ==
        IF k = 0 THEN Loaded(file)
        ELSE IF after[k - 1] # NoMem /\ Applies(after[k - 1], rows[k])
          THEN Applied(after[k - 1], rows[k]) ELSE NoMem
  IN  after[Len(rows)]

(* If the session was killed at this moment, replaying the journal on the  *)
(* file would bring back exactly the memory it had, unless something has   *)
(* changed the memory behind the journal's back (AccountManager.cpp        *)
(* ApplyRecoveryFile() against every Append*() call).                      *)
RecoveryExact ==
  exact /\ lived # <<>> =>
    /\ Recovered = lived[Len(lived)]
    /\ phase = "open" => Recovered = mem

\* How often a transaction is in an account.
Times(txns, txn) == Cardinality({i \in DOMAIN txns : txns[i] = txn})

(* Equal up to the order of the transactions within an account.            *)
SameData(m, n) ==
  /\ m.children = n.children
  /\ DOMAIN m.accounts = DOMAIN n.accounts
  /\ \A a \in DOMAIN m.accounts :
       /\ [m.accounts[a] EXCEPT !.txns = <<>>]
            = [n.accounts[a] EXCEPT !.txns = <<>>]
       /\ Len(m.accounts[a].txns) = Len(n.accounts[a].txns)
       /\ \A i \in DOMAIN m.accounts[a].txns :
            LET txn == m.accounts[a].txns[i]
            IN  Times(m.accounts[a].txns, txn) = Times(n.accounts[a].txns, txn)

\* The journal belongs to the file, and no operation is under way.
Covered == Idle /\ journal.base # NoFile /\ journal.base = file

(* RecoveryExact without the condition: what the class comment of Journal.h*)
(* says, that every mutating operation of the app is in the journal.       *)
JournalHoldsAll ==
  Covered => Recovered # NoMem /\ SameData(Recovered, mem)

(* What a session appends to the journal can be replayed: from the moment  *)
(* a database is loaded the journal has a valid baseline to append against *)
(* (class comment of Journal.h, BankAccountFile::Load()).                  *)
JournalApplies == Covered => Recovered # NoMem

(* A replay leaves every account in the order of its dates when the lost   *)
(* session had it so: ApplyRecoveryFile() omits Sort() because of that.    *)
RecoveredInOrder ==
  Covered /\ Recovered # NoMem =>
    \A a \in DOMAIN Recovered.accounts :
      Sorted(mem.accounts[a].txns) => Sorted(Recovered.accounts[a].txns)

(* While the journal is replayed the memory goes again through the very    *)
(* memories the lost session had, and no row is refused half way           *)
(* (ApplyRecoveryFile() stops or throws at a row that does not fit).       *)
ReplayOnTrack ==
  phase = "replaying" /\ exact =>
    /\ mem = lived[cursor + 1]
    /\ cursor < Len(journal.rows) => Applies(mem, journal.rows[cursor + 1])

(* A recovery that is accepted is never stopped by a row that does not fit *)
(* nor by a transaction that cannot be shown for review, and it ends with  *)
(* the memory that the lost session had, provided the session was not      *)
(* killed in the middle of a merge (ApplyRecoveryFile() as a whole).       *)
ReplayEndsWell ==
  [][phase = "replaying" /\ exact /\ phase' # "replaying"
       /\ RefsIn(lived[Len(lived)])
     => exact' /\ (phase' = "open" => mem' = lived[Len(lived)])]_vars

(* The same without the proviso: each row is flushed as it is written, so  *)
(* a crash costs at most the last one (class comment of Journal.h), and    *)
(* what is left must replay.                                               *)
ReplayNeverFails == [][phase = "replaying" /\ exact => exact']_vars

(* The question "save before exit?" is asked whenever leaving without      *)
(* saving would lose something: a memory that is not marked dirty is the   *)
(* one the file loads as (BankAccountFile::Modified()).                    *)
CleanMeansSaved ==
  Idle /\ exact /\ ~dirty => mem = Loaded(file)

(* The same for every change, journaled or not.                            *)
AskedBeforeLosing ==
  Idle /\ file # NoFile /\ journal.rows = <<>> /\ ~dirty => mem = Loaded(file)

(* A saved memory comes back as it was when the built-in children are      *)
(* untouched and the accounts are in the order in which loading sorts them *)
(* (StreamOut() and StreamIn() of ManagerType, Account and AccountManager).*)
SaveKeepsTheRest ==
  /\ phase = "open"
  /\ \A t \in Defaulted : mem.children[t][1] = DefaultChild
  /\ \A a \in DOMAIN mem.accounts : Sort(mem.accounts[a].txns)
                                      = mem.accounts[a].txns
  => RoundTrip(mem)

(* The id stored in a child is its place: transactions name it by that id  *)
(* and At() finds it by its place (Merge() heals, StreamIn() reads ids).   *)
IdsInPlace ==
  phase = "open" => \A t \in Topics : InPlace(mem.children[t])

(* No two children of a collection have the same name: the promise of      *)
(* Create() and of the guard in Rename().                                  *)
NamesUnique ==
  phase = "open" =>
    \A t \in Topics : \A i, j \in DOMAIN mem.children[t] :
      CheckName(mem.children[t][i], mem.children[t][j].name) => i = j

(* Outside a merge every id of every transaction names a child, so that    *)
(* printing the transaction does not throw.                                *)
RefsInRange == Idle => RefsIn(mem)

(* A merge never changes what a transaction it has visited is about: it    *)
(* names the child it named before, or the target in place of an erased    *)
(* one (MergeQuery::CheckTransaction() and ManagerType::Merge() have to    *)
(* shift the same ids by the same amount).                                 *)
MergeKeepsMeaning ==
  merging # NoMerge =>
    \A place \in Places(mem) \ merging.todo :
      LET t    == merging.topic
          was  == GetTransactionAt(TxnsOf(merging.before, place[1]), place[2])
                    .ids[t]
          now  == GetTransactionAt(TxnsOf(mem, place[1]), place[2]).ids[t]
          meant == IF was \in merging.froms THEN merging.to ELSE was
      IN  /\ HasId(mem, t, now)
          /\ At(mem.children[t], now).name
               = At(merging.before.children[t], meant).name

=============================================================================
