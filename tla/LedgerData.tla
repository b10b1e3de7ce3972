----------------------------- MODULE LedgerData -----------------------------
(***************************************************************************)
(* What the application holds in memory, what it stores in the database    *)
(* file, and what one row of the recovery journal does to the memory:      *)
(* the data of src/AccountManager.cpp and src/Journal.cpp, without their   *)
(* control, which is module Ledger.                                        *)
(***************************************************************************)
EXTENDS Entities, Accounts

CONSTANTS
  Defaulted,   \* the topics whose collection has a built-in child at id 0
  Numbers,     \* bank account numbers
  Banks        \* bank names

ASSUME DataAssumption ==
  /\ Defaulted \subseteq Topics
  /\ "ACCOUNT" \notin Topics /\ "MEMO" \notin Topics

Account == [number : Numbers, name : Names, bank : Banks,
            txns : Seq(Transaction)]

Memory == [children : [Topics -> Seq(Child)], accounts : Seq(Account)]

EmptyMemory ==
  [children |-> [t \in Topics |-> StreamIn(<<>>, t \in Defaulted)],
   accounts |-> <<>>]

(* Rows of db\journal.txt. A merge does not name its target among the      *)
(* others; an edit names a topic and the id it is given, or "MEMO" and the *)
(* description it is given.                                                *)
Row ==
  [op : {"CREATE"}, topic : Topics, id : Nat, name : Names]
    \cup [op : {"KEYWORD"}, topic : Topics, id : Nat, word : Words,
          definitive : BOOLEAN]
    \cup [op : {"RENAME"}, topic : Topics \cup {"ACCOUNT"}, id : Nat,
          name : Names]
    \cup {row \in [op : {"MERGE"}, topic : Topics, froms : SUBSET Nat, to : Nat] :
            row.to \notin row.froms}
    \cup [op : {"ACCOUNT"}, id : Nat, number : Numbers, name : Names,
          bank : Banks]
    \cup [op : {"TRANSACTION"}, account : Nat, txn : Transaction]
    \cup [op : {"EDIT_TXN"}, account : Nat, position : Nat, field : Topics,
          value : Nat]
    \cup [op : {"EDIT_TXN"}, account : Nat, position : Nat, field : {"MEMO"},
          value : Notes]

-----------------------------------------------------------------------------
(* The file: StreamOut() and StreamIn() of the whole AccountManager. What  *)
(* is stored is a memory whose collections lack their built-in children;   *)
(* loading it also sorts every account.                                    *)
Stored(mem) ==
  [mem EXCEPT !.children =
     [t \in Topics |-> StreamOut(mem.children[t], t \in Defaulted)]]

Loaded(file) ==
  [children |-> [t \in Topics |-> StreamIn(file.children[t], t \in Defaulted)],
   accounts |-> [a \in DOMAIN file.accounts |->
                   [file.accounts[a] EXCEPT !.txns = Sort(@)]]]

-----------------------------------------------------------------------------
(* The mutating methods, as functions of the memory. Account ids count     *)
(* from zero like every id.                                                *)
\* (Seeded fault: the last account is out of reach.)
HasAccount_OffByOne(mem, id) == id + 1 < Len(mem.accounts)

HasAccount(mem, id) == id < Len(mem.accounts)

TxnsOf(mem, account) == mem.accounts[account + 1].txns

WithTxns(mem, account, txns) ==
  [mem EXCEPT !.accounts[account + 1].txns = txns]

CreateId(mem, topic, name) ==
  [mem EXCEPT !.children[topic] = Create(@, name)]

AddKeywordTo(mem, topic, id, word, definitive) ==
  [mem EXCEPT !.children[topic] = AddKeyword(@, id, word, definitive)]

\* RenameId() for accounts compares with the names of the other accounts.
MayRenameId(mem, topic, id, name) ==
  IF topic = "ACCOUNT"
    THEN /\ mem.accounts[id + 1].name # name
         /\ \A i \in DOMAIN mem.accounts :
              i # id + 1 => FoldCase[mem.accounts[i].name] # FoldCase[name]
    ELSE MayRename(mem.children[topic], id, name)

RenameId(mem, topic, id, name) ==
  IF topic = "ACCOUNT"
    THEN [mem EXCEPT !.accounts[id + 1].name = name]
    ELSE [mem EXCEPT !.children[topic] = Rename(@, id, name)]

\* AccountManager::Merge() changes the collection, and no transaction.
MergeChildren(mem, topic, froms, to) ==
  [mem EXCEPT !.children[topic] = Merge(@, froms, to)]

KnownNumber(mem, number) ==
  \E i \in DOMAIN mem.accounts : mem.accounts[i].number = number

\* The id CreateOrGetAccountId() answers for an account number.
AccountId(mem, number) ==
  IF KnownNumber(mem, number)
    THEN (CHOOSE i \in DOMAIN mem.accounts :
            /\ mem.accounts[i].number = number
            /\ \A j \in DOMAIN mem.accounts :
                 mem.accounts[j].number = number => i <= j) - 1
    ELSE Len(mem.accounts)

AddAccount(mem, number, name, bank) ==
  IF KnownNumber(mem, number) THEN mem
  ELSE [mem EXCEPT !.accounts =
          Append(@, [number |-> number, name |-> name, bank |-> bank,
                     txns |-> <<>>])]

AddTransaction(mem, account, txn) ==
  WithTxns(mem, account, Append(TxnsOf(mem, account), txn))

EditTransaction(mem, account, position, field, value) ==
  WithTxns(mem, account,
    IF field = "MEMO"
      THEN AddDescription(TxnsOf(mem, account), position, value)
      ELSE SetId(TxnsOf(mem, account), position, field, value))

\* (Seeded fault: the last transaction is out of reach.)
HasPosition_OffByOne(mem, account, position) ==
  /\ HasAccount(mem, account)
  /\ position + 1 \in Positions(TxnsOf(mem, account))

HasPosition(mem, account, position) ==
  /\ HasAccount(mem, account)
  /\ position \in Positions(TxnsOf(mem, account))

HasId(mem, topic, id) ==
  IF topic = "ACCOUNT" THEN HasAccount(mem, id)
                       ELSE id < Len(mem.children[topic])

-----------------------------------------------------------------------------
(* ApplyRecoveryFile(): whether a row can be applied to a memory ...       *)
Applies(mem, row) ==
  CASE row.op = "CREATE" ->
         CreatedId(mem.children[row.topic], row.name) = row.id
    [] row.op = "ACCOUNT" -> AccountId(mem, row.number) = row.id
    [] row.op = "TRANSACTION" -> HasAccount(mem, row.account)
    [] row.op = "EDIT_TXN" -> HasPosition(mem, row.account, row.position)
    [] row.op = "KEYWORD" -> HasId(mem, row.topic, row.id)
    [] row.op = "RENAME" -> HasId(mem, row.topic, row.id)
    [] row.op = "MERGE" -> \A id \in row.froms \cup {row.to} :
                             HasId(mem, row.topic, id)

(* ... and the memory it makes of it.                                      *)
Applied(mem, row) ==
  CASE row.op = "CREATE" -> CreateId(mem, row.topic, row.name)
    [] row.op = "ACCOUNT" -> AddAccount(mem, row.number, row.name, row.bank)
    [] row.op = "TRANSACTION" -> AddTransaction(mem, row.account, row.txn)
    [] row.op = "EDIT_TXN" -> EditTransaction(mem, row.account, row.position,
                                              row.field, row.value)
    [] row.op = "KEYWORD" -> AddKeywordTo(mem, row.topic, row.id, row.word,
                                          row.definitive)
    [] row.op = "RENAME" -> IF MayRenameId(mem, row.topic, row.id, row.name)
                              THEN RenameId(mem, row.topic, row.id, row.name)
                              ELSE mem
    [] row.op = "MERGE" -> MergeChildren(mem, row.topic, row.froms, row.to)

=============================================================================
