------------------------------ MODULE Accounts ------------------------------
(***************************************************************************)
(* The transactions of one bank account: src/Account.cpp and               *)
(* src/Transaction.cpp.                                                    *)
(*                                                                         *)
(* An account keeps its transactions in a vector, in the order in which    *)
(* they were added; the position in that vector, counted from zero, is how *)
(* the recovery journal and the result grids name a transaction.           *)
(*                                                                         *)
(* A transaction carries its date, what the bank said of it (amount and    *)
(* memo, never changed), the ids of its client, type and category, and the *)
(* user's description.                                                     *)
(***************************************************************************)
EXTENDS Naturals, Sequences, FiniteSets

CONSTANTS
  Topics,   \* the collections a transaction refers to by id
  Whats,    \* what a bank row may say
  Notes,    \* the descriptions a user may write
  NoNote,   \* no description
  KeepsTies \* whether std::sort leaves transactions of one day in their order

ASSUME AccountsAssumption == NoNote \in Notes /\ KeepsTies \in BOOLEAN

Transaction == [date : Nat, what : Whats, ids : [Topics -> Nat], note : Notes]

\* The transaction at a position, and the positions an account has.
GetTransactionAt(txns, position) == txns[position + 1]

Positions(txns) == {i - 1 : i \in DOMAIN txns}

LastDate(txns) == txns[Len(txns)].date

(* The two writes an edit makes: an id of the transaction, or its          *)
(* description.                                                            *)
SetId(txns, position, topic, id) ==
  [txns EXCEPT ![position + 1].ids[topic] = id]

\* (Seeded fault: the description overwrites what the bank said.)
AddDescription_OverBank(txns, position, note) ==
  [txns EXCEPT ![position + 1].what = note]

AddDescription(txns, position, note) ==
  [txns EXCEPT ![position + 1].note = note]

(* PrepareImport() lets an import start at a row's date when there is      *)
(* nothing stored, or when the stored data ends on that date or one day    *)
(* after it ...                                                            *)
MayStartImport(txns, date) ==
  \/ txns = <<>>
  \/ LastDate(txns) \in {date, date + 1}

(* ... and then drops stored transactions from the end for as long as they *)
(* are not older than the row.                                             *)
KeptByImport(txns, date) ==
  LET older == {i \in DOMAIN txns : txns[i].date < date}
      last  == IF older = {} THEN 0
               ELSE CHOOSE i \in older : \A j \in older : j <= i
  IN  SubSeq(txns, 1, last)

(* PruneLastTransactions() with the count clamped to the size.             *)
Prune(txns, count) ==
  SubSeq(txns, 1, IF count <= Len(txns) THEN Len(txns) - count ELSE 0)

(* Sort() orders by date with std::sort, which promises nothing of the      *)
(* transactions of one day: a short vector keeps their order, a long one   *)
(* need not. KeepsTies selects one of the two outcomes.                    *)
Sort(txns) ==
  LET place(i) == Cardinality({j \in DOMAIN txns :
                    \/ txns[j].date < txns[i].date
                    \/ /\ txns[j].date = txns[i].date
                       /\ IF KeepsTies THEN j <= i ELSE j >= i})
  IN  [k \in DOMAIN txns |-> txns[CHOOSE i \in DOMAIN txns : place(i) = k]]

Sorted(txns) ==
  \A i, j \in DOMAIN txns : i < j => txns[i].date <= txns[j].date

=============================================================================
