--------------------------- MODULE Ledger_proofs ----------------------------
(***************************************************************************)
(* Recovery replays the lost session: for every set of names, exports and  *)
(* operations, for databases and journals of any size.                     *)
(*                                                                         *)
(* The invariant IInv says that the history of a session is a chain: it    *)
(* begins with the loaded file, and the k-th row of the journal takes the  *)
(* k-th memory to the next. Every operation that journals adds the link    *)
(* (LoggedStep); one that changes the memory and is not journaled ends the *)
(* claim (QuietStep); and a replay can only walk down the chain            *)
(* (ReplayFollows).                                                        *)
(***************************************************************************)
EXTENDS Ledger, SequenceTheorems, FiniteSetTheorems, TLAPS

\* A sequence, whatever its elements.
IsSeq(s) == s \in Seq({s[i] : i \in DOMAIN s})

(* A sequence over any set is a sequence.                                  *)
LEMMA IsSeqOf ==
  ASSUME NEW S, NEW s \in Seq(S)
  PROVE  IsSeq(s)
<1>1. Len(s) \in Nat /\ DOMAIN s = 1 .. Len(s) /\ s \in [1 .. Len(s) -> S]
  BY LenProperties
<1>2. s \in [1 .. Len(s) -> {s[i] : i \in DOMAIN s}]
  BY <1>1
<1> QED
  BY <1>1, <1>2, SeqDef DEF IsSeq

(* So is a function on an initial segment of the naturals.                 *)
LEMMA FunctionIsSeq ==
  ASSUME NEW n \in Nat, NEW f, f = [i \in 1 .. n |-> f[i]]
  PROVE  IsSeq(f) /\ Len(f) = n
<1> DEFINE S == {f[i] : i \in 1 .. n}
<1>1. f \in [1 .. n -> S]
  OBVIOUS
<1>2. f \in Seq(S)
  BY <1>1, SeqDef
<1>3. DOMAIN f = 1 .. n /\ DOMAIN f = 1 .. Len(f) /\ Len(f) \in Nat
  BY <1>1, <1>2, LenProperties
<1> QED
  BY <1>2, <1>3, IsSeqOf

(* The length and the domain of a sequence.                                *)
LEMMA SeqFacts ==
  ASSUME NEW s, IsSeq(s)
  PROVE  /\ Len(s) \in Nat
         /\ DOMAIN s = 1 .. Len(s)
         /\ s = [i \in 1 .. Len(s) |-> s[i]]
  BY LenProperties DEF IsSeq

(* Append() adds one element behind the others.                            *)
LEMMA AppendIsSeq ==
  ASSUME NEW s, IsSeq(s), NEW e
  PROVE  /\ IsSeq(Append(s, e))
         /\ Len(Append(s, e)) = Len(s) + 1
         /\ \A i \in 1 .. Len(s) : Append(s, e)[i] = s[i]
         /\ Append(s, e)[Len(s) + 1] = e
<1> DEFINE S == {s[i] : i \in DOMAIN s} \cup {e}
<1>1. s \in Seq(S) /\ e \in S
  BY DEF IsSeq
<1>2. Append(s, e) \in Seq(S)
  BY <1>1, AppendProperties
<1>3. IsSeq(Append(s, e))
  BY <1>2, IsSeqOf
<1> HIDE DEF S
<1> QED
  BY <1>1, <1>3, AppendProperties

-----------------------------------------------------------------------------
(* What the proofs need of a memory or a file: its accounts are a sequence *)
(* of records that have transactions. Nothing is said of the collections.  *)
Shape(m) ==
  /\ "accounts" \in DOMAIN m
  /\ IsSeq(m.accounts)
  /\ \A a \in DOMAIN m.accounts : "txns" \in DOMAIN m.accounts[a]

RowOps == {"CREATE", "KEYWORD", "RENAME", "MERGE", "ACCOUNT", "TRANSACTION",
           "EDIT_TXN"}

(* Whatever the type of a memory allows has that shape.                    *)
LEMMA MemoryShape ==
  ASSUME NEW m \in Memory
  PROVE  Shape(m)
<1>1. m.accounts \in Seq(Account) /\ "accounts" \in DOMAIN m
  BY DEF Memory
<1>2. IsSeq(m.accounts)
  BY <1>1, IsSeqOf
<1>3. \A a \in DOMAIN m.accounts : m.accounts[a] \in Account
  BY <1>1, <1>2, SeqFacts, ElementOfSeq
<1> QED
  BY <1>1, <1>2, <1>3 DEF Shape, Account

(* The memory of a session without a database has it.                      *)
LEMMA EmptyShape == Shape(EmptyMemory)
<1>1. IsSeq(<<>>) /\ DOMAIN <<>> = {}
  BY FunctionIsSeq DEF IsSeq
<1> QED
  BY <1>1 DEF Shape, EmptyMemory

(* Saving keeps it: StreamOut() drops children only.                       *)
LEMMA StoredShape ==
  ASSUME NEW m, Shape(m)
  PROVE  Shape(Stored(m))
  BY DEF Shape, Stored

(* Loading keeps it: StreamAccounts() sorts within the accounts.           *)
LEMMA LoadedShape ==
  ASSUME NEW f, Shape(f)
  PROVE  Shape(Loaded(f))
<1> DEFINE acc == Loaded(f).accounts
<1>1. Len(f.accounts) \in Nat /\ DOMAIN f.accounts = 1 .. Len(f.accounts)
  BY SeqFacts DEF Shape
<1>2. acc = [a \in DOMAIN f.accounts |->
               [f.accounts[a] EXCEPT !.txns = Sort(@)]]
  BY DEF Loaded
<1>3. IsSeq(acc)
  BY <1>1, <1>2, FunctionIsSeq
<1> QED
  BY <1>2, <1>3 DEF Shape, Loaded

(* A change of the collections leaves the accounts alone.                  *)
LEMMA ChildrenShape ==
  ASSUME NEW m, Shape(m), NEW t, NEW c
  PROVE  /\ Shape([m EXCEPT !.children[t] = c])
         /\ [m EXCEPT !.children[t] = c].accounts = m.accounts
  BY DEF Shape

(* A change within the accounts keeps them in place.                       *)
LEMMA ExceptShape ==
  ASSUME NEW m, Shape(m), NEW n,
         "accounts" \in DOMAIN n,
         n.accounts = [b \in DOMAIN m.accounts |-> n.accounts[b]],
         \A b \in DOMAIN m.accounts : "txns" \in DOMAIN n.accounts[b]
  PROVE  /\ Shape(n)
         /\ Len(n.accounts) = Len(m.accounts)
         /\ DOMAIN n.accounts = DOMAIN m.accounts
<1>1. Len(m.accounts) \in Nat /\ DOMAIN m.accounts = 1 .. Len(m.accounts)
  BY SeqFacts DEF Shape
<1>2. IsSeq(n.accounts) /\ Len(n.accounts) = Len(m.accounts)
  BY <1>1, FunctionIsSeq
<1>3. DOMAIN n.accounts = DOMAIN m.accounts
  OBVIOUS
<1> QED
  BY <1>2, <1>3 DEF Shape

(* New transactions for one account leave every account in its place.      *)
LEMMA WithTxnsShape ==
  ASSUME NEW m, Shape(m), NEW a, NEW txns
  PROVE  /\ Shape(WithTxns(m, a, txns))
         /\ Len(WithTxns(m, a, txns).accounts) = Len(m.accounts)
         /\ DOMAIN WithTxns(m, a, txns).accounts = DOMAIN m.accounts
         /\ \A b \in DOMAIN m.accounts :
              WithTxns(m, a, txns).accounts[b].txns
                = IF b = a + 1 THEN txns ELSE m.accounts[b].txns
<1> DEFINE e == [m.accounts[a + 1] EXCEPT !.txns = txns]
           n == WithTxns(m, a, txns)
<1>1. "accounts" \in DOMAIN m
  BY DEF Shape
<1>2. n.accounts = [m.accounts EXCEPT ![a + 1] = e] /\ "accounts" \in DOMAIN n
  BY <1>1 DEF WithTxns
<1>3. a + 1 \in DOMAIN m.accounts => "txns" \in DOMAIN e /\ e.txns = txns
  BY DEF Shape
<1> HIDE DEF e, n
<1>4. n.accounts = [b \in DOMAIN m.accounts |-> n.accounts[b]]
  BY <1>2
<1>5. \A b \in DOMAIN m.accounts : "txns" \in DOMAIN n.accounts[b]
  BY <1>2, <1>3 DEF Shape
<1>6. Shape(n) /\ Len(n.accounts) = Len(m.accounts)
        /\ DOMAIN n.accounts = DOMAIN m.accounts
  BY <1>2, <1>4, <1>5, ExceptShape
<1>7. \A b \in DOMAIN m.accounts :
        n.accounts[b].txns = IF b = a + 1 THEN txns ELSE m.accounts[b].txns
  BY <1>2, <1>3
<1> QED
  BY <1>6, <1>7 DEF n

(* CreateOrGetAccountId() adds at most one account, behind the others.     *)
LEMMA AddAccountShape ==
  ASSUME NEW m, Shape(m), NEW number, NEW name, NEW bank
  PROVE  /\ Shape(AddAccount(m, number, name, bank))
         /\ ~KnownNumber(m, number) =>
              Len(AddAccount(m, number, name, bank).accounts)
                = Len(m.accounts) + 1
<1> DEFINE n == AddAccount(m, number, name, bank)
           e == [number |-> number, name |-> name, bank |-> bank,
                 txns |-> <<>>]
<1>1. CASE KnownNumber(m, number)
  BY <1>1 DEF AddAccount
<1>2. CASE ~KnownNumber(m, number)
  <2>1. n.accounts = Append(m.accounts, e) /\ "accounts" \in DOMAIN n
    BY <1>2 DEF AddAccount, Shape
  <2>2. /\ IsSeq(n.accounts)
        /\ Len(n.accounts) = Len(m.accounts) + 1
        /\ \A i \in 1 .. Len(m.accounts) : n.accounts[i] = m.accounts[i]
        /\ n.accounts[Len(m.accounts) + 1] = e
    BY <2>1, AppendIsSeq DEF Shape
  <2>3. \A b \in DOMAIN n.accounts : "txns" \in DOMAIN n.accounts[b]
    <3> SUFFICES ASSUME NEW b \in DOMAIN n.accounts
                 PROVE  "txns" \in DOMAIN n.accounts[b]
      OBVIOUS
    <3> HIDE DEF n
    <3>1. /\ DOMAIN n.accounts = 1 .. Len(n.accounts)
          /\ Len(m.accounts) \in Nat /\ DOMAIN m.accounts = 1 .. Len(m.accounts)
      BY <2>2, SeqFacts DEF Shape
    <3>2. CASE b = Len(m.accounts) + 1
      BY <3>2, <2>2
    <3>3. CASE b # Len(m.accounts) + 1
      <4>1. b \in 1 .. Len(m.accounts)
        BY <3>1, <3>3, <2>2
      <4> QED
        BY <4>1, <3>1, <2>2 DEF Shape
    <3> QED
      BY <3>2, <3>3
  <2> QED
    BY <2>1, <2>2, <2>3 DEF Shape
<1> QED
  BY <1>1, <1>2

(* RenameId() renames a child or an account and moves none.                *)
LEMMA RenameShape ==
  ASSUME NEW m, Shape(m), NEW t, NEW id, NEW name
  PROVE  Shape(RenameId(m, t, id, name))
<1>1. CASE t = "ACCOUNT"
  <2> DEFINE e == [m.accounts[id + 1] EXCEPT !.name = name]
             n == RenameId(m, t, id, name)
  <2>1. n.accounts = [m.accounts EXCEPT ![id + 1] = e] /\ "accounts" \in DOMAIN n
    BY <1>1 DEF RenameId, Shape
  <2>2. id + 1 \in DOMAIN m.accounts => "txns" \in DOMAIN e
    BY DEF Shape
  <2> HIDE DEF e, n
  <2>3. n.accounts = [b \in DOMAIN m.accounts |-> n.accounts[b]]
    BY <2>1
  <2>4. \A b \in DOMAIN m.accounts : "txns" \in DOMAIN n.accounts[b]
    BY <2>1, <2>2 DEF Shape
  <2>5. Shape(n)
    BY <2>1, <2>3, <2>4, ExceptShape
  <2> QED
    BY <2>5 DEF n
<1>2. CASE t # "ACCOUNT"
  BY <1>2, ChildrenShape DEF RenameId
<1> QED
  BY <1>1, <1>2

(* Replaying any row keeps the shape.                                      *)
LEMMA AppliedShape ==
  ASSUME NEW m, Shape(m), NEW row, row.op \in RowOps
  PROVE  Shape(Applied(m, row))
<1>1. CASE row.op = "CREATE"
  BY <1>1, ChildrenShape DEF Applied, CreateId
<1>2. CASE row.op = "KEYWORD"
  BY <1>2, ChildrenShape DEF Applied, AddKeywordTo
<1>3. CASE row.op = "RENAME"
  BY <1>3, RenameShape DEF Applied
<1>4. CASE row.op = "MERGE"
  BY <1>4, ChildrenShape DEF Applied, MergeChildren
<1>5. CASE row.op = "ACCOUNT"
  BY <1>5, AddAccountShape DEF Applied
<1>6. CASE row.op = "TRANSACTION"
  BY <1>6, WithTxnsShape DEF Applied, AddTransaction
<1>7. CASE row.op = "EDIT_TXN"
  BY <1>7, WithTxnsShape DEF Applied, EditTransaction
<1> QED
  BY <1>1, <1>2, <1>3, <1>4, <1>5, <1>6, <1>7 DEF RowOps

-----------------------------------------------------------------------------
(* A place that the grids or a merge name is a position that exists, and   *)
(* an edit moves none.                                                     *)
LEMMA PlaceExists ==
  ASSUME NEW m, Shape(m), NEW a \in DOMAIN m.accounts
  PROVE  /\ a - 1 + 1 = a
         /\ HasAccount(m, a - 1)
         /\ TxnsOf(m, a - 1) = m.accounts[a].txns
         /\ \A p \in Positions(m.accounts[a].txns) : HasPosition(m, a - 1, p)
<1>1. Len(m.accounts) \in Nat /\ DOMAIN m.accounts = 1 .. Len(m.accounts)
  BY SeqFacts DEF Shape
<1>2. a - 1 + 1 = a /\ HasAccount(m, a - 1)
  BY <1>1 DEF HasAccount
<1> QED
  BY <1>2 DEF TxnsOf, HasPosition

(* The places that a merge still has to visit are positions of accounts.   *)
LEMMA MergePlaceExists ==
  ASSUME NEW m, Shape(m), NEW place \in Places(m)
  PROVE  HasPosition(m, place[1], place[2])
<1>1. PICK a \in DOMAIN m.accounts :
        \E p \in Positions(m.accounts[a].txns) : place = <<a - 1, p>>
  BY DEF Places
<1>2. PICK p \in Positions(m.accounts[a].txns) : place = <<a - 1, p>>
  BY <1>1
<1>3. place[1] = a - 1 /\ place[2] = p
  BY <1>2
<1> QED
  BY <1>3, PlaceExists

(* Places depend on the accounts only by how many transactions they have.  *)
LEMMA SamePlaces ==
  ASSUME NEW m, NEW n, DOMAIN n.accounts = DOMAIN m.accounts,
         \A b \in DOMAIN m.accounts :
           DOMAIN n.accounts[b].txns = DOMAIN m.accounts[b].txns
  PROVE  Places(n) = Places(m)
<1>1. \A b \in DOMAIN m.accounts :
        Positions(n.accounts[b].txns) = Positions(m.accounts[b].txns)
  BY DEF Positions
<1> QED
  BY <1>1 DEF Places

(* ApplyEdit() on a position keeps the shape and every place.              *)
LEMMA EditShape ==
  ASSUME NEW m, Shape(m), NEW a, NEW p, NEW field, NEW value
  PROVE  /\ Shape(EditTransaction(m, a, p, field, value))
         /\ Len(EditTransaction(m, a, p, field, value).accounts)
              = Len(m.accounts)
         /\ Places(EditTransaction(m, a, p, field, value)) = Places(m)
<1> DEFINE txns == IF field = "MEMO"
                     THEN AddDescription(TxnsOf(m, a), p, value)
                     ELSE SetId(TxnsOf(m, a), p, field, value)
<1>1. EditTransaction(m, a, p, field, value) = WithTxns(m, a, txns)
  BY DEF EditTransaction
<1>2. DOMAIN txns = DOMAIN m.accounts[a + 1].txns
  BY DEF AddDescription, SetId, TxnsOf
<1> DEFINE n == WithTxns(m, a, txns)
<1> HIDE DEF txns
<1>3. /\ Shape(n)
      /\ Len(n.accounts) = Len(m.accounts)
      /\ DOMAIN n.accounts = DOMAIN m.accounts
      /\ \A b \in DOMAIN m.accounts :
           n.accounts[b].txns = IF b = a + 1 THEN txns ELSE m.accounts[b].txns
  BY WithTxnsShape
<1> HIDE DEF n
<1>4. \A b \in DOMAIN m.accounts :
        DOMAIN n.accounts[b].txns = DOMAIN m.accounts[b].txns
  BY <1>2, <1>3
<1>5. Places(n) = Places(m)
  BY <1>3, <1>4, SamePlaces
<1> QED
  BY <1>1, <1>3, <1>5 DEF n

(* A set of naturals that is not empty has a least element.                *)
LEMMA LeastNatural ==
  ASSUME NEW T, T \subseteq Nat, T # {}
  PROVE  \E i \in T : \A j \in T : i <= j
<1> DEFINE U == {0 .. i : i \in T}
           R == StrictSubsetOrdering(Nat)
<1>1. U \subseteq FiniteSubsetsOf(Nat) /\ U # {}
  <2>1. \A i \in T : 0 .. i \subseteq Nat /\ IsFiniteSet(0 .. i)
    BY FS_Interval
  <2> QED
    BY <2>1 DEF FiniteSubsetsOf
<1>2. \E x \in U : \A y \in U : ~(<<y, x>> \in R)
  <2>1. IsWellFoundedOn(R, FiniteSubsetsOf(Nat))
    BY FS_StrictSubsetOrderingWellFounded
  <2> HIDE DEF U, R
  <2> QED
    BY <1>1, <2>1, WFMin
<1>3. PICK i \in T : \A y \in U : ~(<<y, 0 .. i>> \in R)
  BY <1>2
<1>4. ASSUME NEW j \in T PROVE i <= j
  <2>1. <<0 .. j, 0 .. i>> \notin R
    BY <1>3
  <2>2. j < i => <<0 .. j, 0 .. i>> \in R
    BY DEF StrictSubsetOrdering
  <2> QED
    BY <2>1, <2>2
<1> QED
  BY <1>3, <1>4

(* The first account with a number is one of the accounts.                 *)
LEMMA AccountFound ==
  ASSUME NEW m, Shape(m), NEW number, KnownNumber(m, number)
  PROVE  HasAccount(m, AccountId(m, number))
<1> DEFINE T == {i \in DOMAIN m.accounts : m.accounts[i].number = number}
<1>1. Len(m.accounts) \in Nat /\ DOMAIN m.accounts = 1 .. Len(m.accounts)
  BY SeqFacts DEF Shape
<1>2. T \subseteq Nat /\ T # {}
  BY <1>1 DEF KnownNumber
<1>3. PICK i \in T : \A j \in T : i <= j
  BY <1>2, LeastNatural
<1> DEFINE least(k) == /\ m.accounts[k].number = number
                       /\ \A j \in DOMAIN m.accounts :
                            m.accounts[j].number = number => k <= j
<1>6. \E k \in DOMAIN m.accounts : least(k)
  BY <1>3
<1>7. (CHOOSE k \in DOMAIN m.accounts : least(k)) \in DOMAIN m.accounts
  BY <1>6
<1>8. AccountId(m, number) = (CHOOSE k \in DOMAIN m.accounts : least(k)) - 1
  BY DEF AccountId
<1> HIDE DEF least
<1> QED
  BY <1>1, <1>7, <1>8 DEF HasAccount

-----------------------------------------------------------------------------
(* The inductive invariant. What the variables hold ...                    *)
Types ==
  /\ phase \in {"closed", "offer", "replaying", "open"}
  /\ cursor \in Nat /\ (phase # "replaying" => cursor = 0)
  /\ exact \in BOOLEAN
  /\ journal = [base |-> journal.base, rows |-> journal.rows]
  /\ IsSeq(journal.rows)
  /\ \A k \in DOMAIN journal.rows : journal.rows[k].op \in RowOps
  /\ IsSeq(lived)
  /\ phase # "closed" => Shape(mem)
  /\ file # NoFile => Shape(file)

(* ... a merge or an import is under way only in an open session, never    *)
(* both, and what it is going to touch is there ...                        *)
Underway ==
  /\ importing.on \in BOOLEAN
  /\ {"account", "on"} \subseteq DOMAIN importing
  /\ merging # NoMerge => /\ phase = "open" /\ ~importing.on
                          /\ "todo" \in DOMAIN merging
                          /\ merging.todo \subseteq Places(mem)
  /\ importing.on => phase = "open" /\ HasAccount(mem, importing.account)

(* ... and the history is a chain: it begins with the loaded file, every   *)
(* row of the journal takes one memory to the next, and the memory of now  *)
(* is the last of them, or the one that the replay has come to.            *)
Chained ==
  /\ Len(lived) = Len(journal.rows) + 1
  /\ lived[1] = Loaded(file)
  /\ \A k \in 1 .. Len(journal.rows) :
       /\ Applies(lived[k], journal.rows[k])
       /\ lived[k + 1] = Applied(lived[k], journal.rows[k])

Here ==
  /\ phase = "open" => mem = lived[Len(lived)]
  /\ phase = "offer" => mem = lived[1]
  /\ phase = "replaying" => /\ cursor <= Len(journal.rows)
                            /\ mem = lived[cursor + 1]

Chain ==
  /\ exact /\ lived = <<>> => journal.rows = <<>> /\ phase = "closed"
  /\ exact /\ lived # <<>> => Chained /\ Here

IInv == Types /\ Underway /\ Chain

(* The empty sequence and sequences of one element.                        *)
LEMMA EmptySeqFacts ==
  /\ IsSeq(<<>>) /\ Len(<<>>) = 0
  /\ \A x : /\ IsSeq(<<x>>) /\ Len(<<x>>) = 1 /\ <<x>>[1] = x
            /\ <<x>> # <<>> /\ DOMAIN <<x>> = 1 .. 1
<1>1. IsSeq(<<>>) /\ Len(<<>>) = 0
  BY IsSeqOf, EmptySeq
<1>2. ASSUME NEW x
      PROVE  /\ IsSeq(<<x>>) /\ Len(<<x>>) = 1 /\ <<x>>[1] = x
             /\ <<x>> # <<>> /\ DOMAIN <<x>> = 1 .. 1
  <2>1. <<x>> \in Seq({x}) /\ Len(<<x>>) = 1
    OBVIOUS
  <2> QED
    BY <2>1, IsSeqOf, SeqFacts
<1> QED
  BY <1>1, <1>2

(* Only the empty sequence has length zero.                                *)
LEMMA EmptyLen ==
  ASSUME NEW s, IsSeq(s)
  PROVE  s = <<>> <=> Len(s) = 0
  BY EmptySeq DEF IsSeq

(* A journaled change: if the row, applied to the memory, makes the memory *)
(* that the operation makes, the chain grows by one link.                  *)
LEMMA LoggedStep ==
  ASSUME Types, Chain, phase = "open", phase' = "open", cursor' = cursor,
         file' = file,
         NEW row, row.op \in RowOps,
         Shape(mem'),
         journal' = [journal EXCEPT !.rows = Append(@, row)],
         lived' = Append(lived, mem'),
         exact' \in BOOLEAN,
         exact' => exact /\ Applies(mem, row) /\ mem' = Applied(mem, row)
  PROVE  Types' /\ Chain'
<1> DEFINE rows == journal.rows
<1>1. /\ journal' = [base |-> journal.base, rows |-> Append(rows, row)]
      /\ journal'.rows = Append(rows, row)
  BY DEF Types
<1>2. /\ Len(rows) \in Nat /\ DOMAIN rows = 1 .. Len(rows)
      /\ Len(lived) \in Nat
  BY SeqFacts DEF Types
<1>3. /\ IsSeq(Append(rows, row)) /\ Len(Append(rows, row)) = Len(rows) + 1
      /\ \A i \in 1 .. Len(rows) : Append(rows, row)[i] = rows[i]
      /\ Append(rows, row)[Len(rows) + 1] = row
  BY AppendIsSeq DEF Types
<1>4. /\ IsSeq(lived') /\ Len(lived') = Len(lived) + 1
      /\ \A i \in 1 .. Len(lived) : lived'[i] = lived[i]
      /\ lived'[Len(lived) + 1] = mem'
  BY AppendIsSeq DEF Types
<1>5. DOMAIN Append(rows, row) = 1 .. Len(rows) + 1
  BY <1>3, SeqFacts
<1>6. \A k \in 1 .. Len(rows) + 1 : Append(rows, row)[k].op \in RowOps
  BY <1>2, <1>3 DEF Types
<1>7. Types'
  BY <1>1, <1>3, <1>4, <1>5, <1>6 DEF Types
<1>8. lived' # <<>>
  BY <1>2, <1>4, EmptyLen
<1>9. ASSUME exact' PROVE Chained' /\ Here'
  <2>1. exact /\ Applies(mem, row) /\ mem' = Applied(mem, row)
    BY <1>9
  <2>2. lived # <<>> /\ Chained /\ mem = lived[Len(lived)]
    BY <2>1 DEF Chain, Here
  <2>3. Len(lived) = Len(rows) + 1 /\ lived[1] = Loaded(file)
    BY <2>2 DEF Chained
  <2>4. ASSUME NEW k \in 1 .. Len(rows) + 1
        PROVE  /\ Applies(lived'[k], Append(rows, row)[k])
               /\ lived'[k + 1] = Applied(lived'[k], Append(rows, row)[k])
    <3>1. CASE k = Len(rows) + 1
      <4>1. k = Len(lived) /\ k \in 1 .. Len(lived)
        BY <3>1, <2>3, <1>2
      <4>2. lived'[k] = mem /\ lived'[k + 1] = mem'
        BY <4>1, <2>2, <1>4
      <4>3. Append(rows, row)[k] = row
        BY <3>1, <1>3
      <4> QED
        BY <4>2, <4>3, <2>1
    <3>2. CASE k \in 1 .. Len(rows)
      <4>1. Applies(lived[k], rows[k]) /\ lived[k + 1] = Applied(lived[k], rows[k])
        BY <2>2, <3>2 DEF Chained
      <4>2. lived'[k] = lived[k] /\ lived'[k + 1] = lived[k + 1]
              /\ Append(rows, row)[k] = rows[k]
        BY <3>2, <2>3, <1>2, <1>3, <1>4
      <4> QED
        BY <4>1, <4>2
    <3>3. k = Len(rows) + 1 \/ k \in 1 .. Len(rows)
      BY <1>2
    <3> QED
      BY <3>1, <3>2, <3>3
  <2>5. lived'[1] = Loaded(file')
    BY <2>3, <1>2, <1>4
  <2>6. Chained'
    BY <1>1, <1>2, <1>3, <1>4, <2>3, <2>4, <2>5 DEF Chained
  <2>7. Here'
    BY <1>4 DEF Here
  <2> QED
    BY <2>6, <2>7
<1> QED
  BY <1>7, <1>8, <1>9 DEF Chain

(* A change that is not journaled keeps the chain only if it is none.      *)
LEMMA QuietStep ==
  ASSUME Types, Chain, phase = "open", phase' = "open", cursor' = cursor,
         file' = file, journal' = journal, lived' = lived,
         Shape(mem'), exact' \in BOOLEAN, exact' => exact /\ mem' = mem
  PROVE  Types' /\ Chain'
<1>1. Types'
  BY DEF Types
<1>2. Chain'
  BY DEF Chain, Chained, Here
<1> QED
  BY <1>1, <1>2

-----------------------------------------------------------------------------
(* The invariant holds at first, and every action keeps it.                *)
LEMMA InitIInv == Init => IInv
<1> SUFFICES ASSUME Init PROVE IInv
  OBVIOUS
<1> USE DEF Init
<1>1. file # NoFile => Shape(file)
  BY MemoryShape, LedgerAssumption DEF LedgerAssumption
<1>2. journal.rows = <<>> /\ journal = [base |-> NoFile, rows |-> <<>>]
  BY DEF NoJournal
<1>3. DOMAIN journal.rows = {}
  BY <1>2, EmptySeqFacts, SeqFacts
<1>4. Types
  BY <1>1, <1>2, <1>3, EmptySeqFacts DEF Types
<1>5. Underway
  BY DEF Underway, NoImport
<1>6. Chain
  BY <1>2 DEF Chain
<1> QED
  BY <1>4, <1>5, <1>6 DEF IInv

(* CreateId(): the journaled id is the one that a replay is given.         *)
LEMMA CreateKeeps ==
  ASSUME IInv, NEW t \in Topics, NEW n, Create_(t, n)
  PROVE  IInv'
<1> DEFINE row == [op |-> "CREATE", topic |-> t, name |-> n,
                   id |-> CreatedId(mem.children[t], n)]
<1>1. /\ phase = "open" /\ merging = NoMerge /\ Shape(mem)
      /\ Log(row, CreateId(mem, t, n))
      /\ UNCHANGED <<file, phase, cursor, merging, importing, exact>>
  BY DEF Create_, Dialog, IInv, Types
<1>2. Applies(mem, row) /\ CreateId(mem, t, n) = Applied(mem, row)
  BY DEF Applies, Applied
<1>3. row.op \in RowOps
  BY DEF RowOps
<1>4. Shape(mem') /\ mem'.accounts = mem.accounts
  BY <1>1, ChildrenShape DEF Log, CreateId
<1>5. exact' \in BOOLEAN
  BY <1>1 DEF IInv, Types
<1> HIDE DEF row
<1>6. Types' /\ Chain'
  BY <1>1, <1>2, <1>3, <1>4, <1>5, LoggedStep DEF IInv, Log
<1>7. Underway'
  BY <1>1, <1>4 DEF IInv, Underway, HasAccount
<1> QED
  BY <1>6, <1>7 DEF IInv

(* AddKeyword(): the child that the row names is there.                    *)
LEMMA KeywordKeeps ==
  ASSUME IInv, NEW t \in Topics, NEW id, NEW w, NEW d, Keyword(t, id, w, d)
  PROVE  IInv'
<1> DEFINE row == [op |-> "KEYWORD", topic |-> t, id |-> id, word |-> w,
                   definitive |-> d]
<1>1. /\ phase = "open" /\ merging = NoMerge /\ Shape(mem)
      /\ HasId(mem, t, id)
      /\ Log(row, AddKeywordTo(mem, t, id, w, d))
      /\ UNCHANGED <<file, phase, cursor, merging, importing, exact>>
  BY DEF Keyword, Dialog, IInv, Types
<1>2. Applies(mem, row) /\ AddKeywordTo(mem, t, id, w, d) = Applied(mem, row)
  BY <1>1 DEF Applies, Applied
<1>3. row.op \in RowOps
  BY DEF RowOps
<1>4. Shape(mem') /\ mem'.accounts = mem.accounts
  BY <1>1, ChildrenShape DEF Log, AddKeywordTo
<1>5. exact' \in BOOLEAN
  BY <1>1 DEF IInv, Types
<1> HIDE DEF row
<1>6. Types' /\ Chain'
  BY <1>1, <1>2, <1>3, <1>4, <1>5, LoggedStep DEF IInv, Log
<1>7. Underway'
  BY <1>1, <1>4 DEF IInv, Underway, HasAccount
<1> QED
  BY <1>6, <1>7 DEF IInv

(* RenameId(): a replay finds the new name as free as the user did.        *)
LEMMA RenameKeeps ==
  ASSUME IInv, NEW t, NEW id, NEW n, Rename_(t, id, n)
  PROVE  IInv'
<1> DEFINE row == [op |-> "RENAME", topic |-> t, id |-> id, name |-> n]
<1>1. /\ phase = "open" /\ merging = NoMerge /\ ~importing.on /\ Shape(mem)
      /\ HasId(mem, t, id) /\ MayRenameId(mem, t, id, n)
      /\ Log(row, RenameId(mem, t, id, n))
      /\ UNCHANGED <<file, phase, cursor, merging, importing, exact>>
  BY DEF Rename_, Idle, IInv, Types
<1>2. Applies(mem, row) /\ RenameId(mem, t, id, n) = Applied(mem, row)
  BY <1>1 DEF Applies, Applied
<1>3. row.op \in RowOps
  BY DEF RowOps
<1>4. Shape(mem')
  BY <1>1, RenameShape DEF Log
<1>5. exact' \in BOOLEAN
  BY <1>1 DEF IInv, Types
<1> HIDE DEF row
<1>6. Types' /\ Chain'
  BY <1>1, <1>2, <1>3, <1>4, <1>5, LoggedStep DEF IInv, Log
<1>7. Underway'
  BY <1>1 DEF IInv, Underway
<1> QED
  BY <1>6, <1>7 DEF IInv

(* ApplyEdit(): the row carries the field and the value written.           *)
LEMMA EditKeeps ==
  ASSUME IInv, phase = "open",
         NEW a \in DOMAIN mem.accounts,
         NEW p \in Positions(mem.accounts[a].txns),
         NEW field, NEW value, Edit(a - 1, p, field, value)
  PROVE  IInv'
<1> DEFINE row == [op |-> "EDIT_TXN", account |-> a - 1, position |-> p,
                   field |-> field, value |-> value]
<1>1. /\ merging = NoMerge /\ ~importing.on /\ Shape(mem)
      /\ Log(row, EditTransaction(mem, a - 1, p, field, value))
      /\ UNCHANGED <<file, phase, cursor, merging, importing, exact>>
  BY DEF Edit, Idle, IInv, Types
<1>2. HasPosition(mem, a - 1, p)
  BY <1>1, PlaceExists
<1>3. /\ Applies(mem, row)
      /\ EditTransaction(mem, a - 1, p, field, value) = Applied(mem, row)
  BY <1>2 DEF Applies, Applied
<1>4. row.op \in RowOps
  BY DEF RowOps
<1>5. Shape(mem') /\ exact' \in BOOLEAN
  BY <1>1, EditShape DEF Log, IInv, Types
<1> HIDE DEF row
<1>6. Types' /\ Chain'
  BY <1>1, <1>3, <1>4, <1>5, LoggedStep DEF IInv, Log
<1>7. Underway'
  BY <1>1 DEF IInv, Underway
<1> QED
  BY <1>6, <1>7 DEF IInv

(* CategorizingQuery: the row says all, or the history is not exact.       *)
LEMMA CategorizeKeeps ==
  ASSUME IInv, phase = "open",
         NEW a \in DOMAIN mem.accounts,
         NEW p \in Positions(mem.accounts[a].txns),
         NEW client, NEW category, NEW note, NEW found,
         Categorize(a - 1, p, client, category, note, found)
  PROVE  IInv'
<1> DEFINE row == [op |-> "EDIT_TXN", account |-> a - 1, position |-> p,
                   field |-> "CATEGORY", value |-> category]
           old   == GetTransactionAt(TxnsOf(mem, a - 1), p)
           moved == EditTransaction(mem, a - 1, p, "CLIENT", client)
           named == EditTransaction(moved, a - 1, p, "CATEGORY", category)
           after == EditTransaction(named, a - 1, p, "MEMO", note)
           only  == EditTransaction(mem, a - 1, p, "CATEGORY", category)
<1>1. /\ merging = NoMerge /\ ~importing.on /\ Shape(mem)
      /\ UNCHANGED <<file, phase, cursor, merging, importing>>
  BY DEF Categorize, Idle, IInv, Types
<1>2. \/ Log(row, after) /\ exact' = (exact /\ after = only)
      \/ /\ mem' = after /\ exact' = (exact /\ after = mem)
         /\ UNCHANGED <<journal, lived>>
  BY DEF Categorize
<1>3. Shape(after)
  BY <1>1, EditShape
<1>4. HasPosition(mem, a - 1, p)
  BY <1>1, PlaceExists
<1>5. Applies(mem, row) /\ only = Applied(mem, row)
  BY <1>4 DEF Applies, Applied
<1>6. row.op \in RowOps
  BY DEF RowOps
<1>7. Underway'
  BY <1>1 DEF IInv, Underway
<1> HIDE DEF row, old, moved, named, after, only
<1>8. CASE Log(row, after) /\ exact' = (exact /\ after = only)
  <2>1. mem' = after /\ exact' \in BOOLEAN
    BY <1>8 DEF Log, IInv, Types
  <2>2. Types' /\ Chain'
    BY <1>1, <1>3, <1>5, <1>6, <1>8, <2>1, LoggedStep DEF IInv, Log
  <2> QED
    BY <1>7, <2>2 DEF IInv
<1>9. CASE /\ mem' = after /\ exact' = (exact /\ after = mem)
           /\ UNCHANGED <<journal, lived>>
  <2>1. exact' \in BOOLEAN
    BY <1>9 DEF IInv, Types
  <2>2. Types' /\ Chain'
    BY <1>1, <1>3, <1>9, <2>1, QuietStep DEF IInv
  <2> QED
    BY <1>7, <2>2 DEF IInv
<1> QED
  BY <1>2, <1>8, <1>9

(* Merge(): the row names the children as they were before it.             *)
LEMMA StartMergeKeeps ==
  ASSUME IInv, NEW t \in Topics, NEW others, NEW to, StartMerge(t, others, to)
  PROVE  IInv'
<1> DEFINE froms == others \ {to}
           row == [op |-> "MERGE", topic |-> t, froms |-> froms, to |-> to]
<1>1. /\ phase = "open" /\ ~importing.on /\ Shape(mem)
      /\ \A id \in froms \cup {to} : HasId(mem, t, id)
      /\ Log(row, MergeChildren(mem, t, froms, to))
      /\ merging' = [topic |-> t, froms |-> froms, to |-> to,
                     target |-> HealedId(to, froms), todo |-> Places(mem),
                     before |-> mem]
      /\ UNCHANGED <<file, phase, cursor, importing, exact>>
  BY DEF StartMerge, Idle, IInv, Types
<1>2. Applies(mem, row) /\ MergeChildren(mem, t, froms, to) = Applied(mem, row)
  BY <1>1 DEF Applies, Applied
<1>3. row.op \in RowOps
  BY DEF RowOps
<1>4. Shape(mem') /\ mem'.accounts = mem.accounts
  BY <1>1, ChildrenShape DEF Log, MergeChildren
<1>5. exact' \in BOOLEAN
  BY <1>1 DEF IInv, Types
<1>6. Places(mem') = Places(mem)
  BY <1>4, SamePlaces
<1>7. "todo" \in DOMAIN merging' /\ merging'.todo = Places(mem)
  BY <1>1
<1> HIDE DEF row, froms
<1>8. Types' /\ Chain'
  BY <1>1, <1>2, <1>3, <1>4, <1>5, LoggedStep DEF IInv, Log
<1>9. Underway'
  BY <1>1, <1>6, <1>7 DEF IInv, Underway
<1> QED
  BY <1>8, <1>9 DEF IInv

(* MergeQuery: a transaction is journaled, unchanged, or not exact.        *)
LEMMA MergeNextKeeps ==
  ASSUME IInv, MergeNext
  PROVE  IInv'
<1> DEFINE id(q) == GetTransactionAt(TxnsOf(mem, q[1]), q[2])
                      .ids[merging.topic]
           becomes(q) == IF id(q) \in merging.froms THEN merging.target
                         ELSE HealedId(id(q), merging.froms)
<1>1. PICK place \in merging.todo :
        /\ mem' = EditTransaction(mem, place[1], place[2], merging.topic,
                                  becomes(place))
        /\ \/ /\ journal' = [journal EXCEPT !.rows = Append(@,
                   [op |-> "EDIT_TXN", account |-> place[1],
                    position |-> place[2], field |-> merging.topic,
                    value |-> becomes(place)])]
              /\ lived' = Append(lived, mem')
              /\ UNCHANGED exact
           \/ /\ exact' = (exact /\ mem' = mem)
              /\ UNCHANGED <<journal, lived>>
        /\ merging' = [merging EXCEPT !.todo = @ \ {place}]
  BY DEF MergeNext
<1> DEFINE now == becomes(place)
<1> HIDE DEF becomes
<1>2. /\ mem' = EditTransaction(mem, place[1], place[2], merging.topic, now)
      /\ merging' = [merging EXCEPT !.todo = @ \ {place}]
  BY <1>1
<1> DEFINE row == [op |-> "EDIT_TXN", account |-> place[1],
                   position |-> place[2], field |-> merging.topic,
                   value |-> now]
<1>3. /\ phase = "open" /\ merging # NoMerge /\ Shape(mem) /\ ~importing.on
      /\ UNCHANGED <<dirty, file, phase, cursor, importing>>
      /\ "todo" \in DOMAIN merging /\ merging.todo \subseteq Places(mem)
  BY DEF MergeNext, IInv, Types, Underway
<1>4. HasPosition(mem, place[1], place[2])
  BY <1>3, MergePlaceExists
<1>5. Shape(mem') /\ Places(mem') = Places(mem)
  BY <1>2, <1>3, EditShape
<1>6. Applies(mem, row) /\ mem' = Applied(mem, row)
  BY <1>2, <1>4 DEF Applies, Applied
<1>7. row.op \in RowOps
  BY DEF RowOps
<1>8. "todo" \in DOMAIN merging' /\ merging'.todo \subseteq Places(mem')
  BY <1>2, <1>3, <1>5
<1>9. Underway'
  BY <1>3, <1>8 DEF IInv, Underway
<1>10. exact' \in BOOLEAN
  BY <1>1 DEF IInv, Types
<1>11. \/ /\ journal' = [journal EXCEPT !.rows = Append(@, row)]
          /\ lived' = Append(lived, mem')
          /\ UNCHANGED exact
       \/ /\ exact' = (exact /\ mem' = mem)
          /\ UNCHANGED <<journal, lived>>
  BY <1>1
<1> HIDE DEF row
<1>12. Types' /\ Chain'
  <2>1. CASE /\ journal' = [journal EXCEPT !.rows = Append(@, row)]
             /\ lived' = Append(lived, mem')
             /\ UNCHANGED exact
    BY <2>1, <1>3, <1>5, <1>6, <1>7, <1>10, LoggedStep DEF IInv
  <2>2. CASE /\ exact' = (exact /\ mem' = mem)
             /\ UNCHANGED <<journal, lived>>
    BY <2>2, <1>3, <1>5, <1>10, QuietStep DEF IInv
  <2> QED
    BY <1>11, <2>1, <2>2
<1> QED
  BY <1>9, <1>12 DEF IInv

(* The end of a merge changes no data.                                     *)
LEMMA MergeEndKeeps ==
  ASSUME IInv, MergeEnd
  PROVE  IInv'
<1>1. Types'
  BY DEF MergeEnd, IInv, Types
<1>3. Chain'
  BY DEF MergeEnd, IInv, Chain, Chained, Here
<1>2. Underway'
  BY DEF MergeEnd, IInv, Underway
<1> QED
  BY <1>1, <1>2, <1>3 DEF IInv

(* PruneLastTransactions() is not journaled, and so never exact.           *)
LEMMA PruneKeeps ==
  ASSUME IInv, NEW a, NEW count, Prune_(a, count)
  PROVE  IInv'
<1>1. /\ phase = "open" /\ merging = NoMerge /\ ~importing.on /\ Shape(mem)
      /\ mem' = WithTxns(mem, a, Prune(TxnsOf(mem, a), count))
      /\ exact' = FALSE
      /\ UNCHANGED <<file, journal, phase, cursor, merging, importing, lived>>
  BY DEF Prune_, Idle, IInv, Types
<1>2. Shape(mem')
  BY <1>1, WithTxnsShape
<1>3. Types' /\ Chain'
  BY <1>1, <1>2, QuietStep DEF IInv
<1>4. Underway'
  BY <1>1 DEF IInv, Underway
<1> QED
  BY <1>3, <1>4 DEF IInv

(* CreateOrGetAccountId(): a replay opens the account under the same id.   *)
LEMMA StartImportKeeps ==
  ASSUME IInv, NEW export, NEW name, NEW typed,
         StartImport(export, name, typed)
  PROVE  IInv'
<1> DEFINE id == AccountId(mem, export.number)
           row == [op |-> "ACCOUNT", id |-> id, number |-> export.number,
                   name |-> name, bank |-> typed]
<1>1. /\ phase = "open" /\ merging = NoMerge /\ Shape(mem)
      /\ importing' = [account |-> id, todo |-> export.rows,
                       started |-> FALSE, on |-> TRUE]
      /\ UNCHANGED <<file, phase, cursor, merging>>
  BY DEF StartImport, Idle, IInv, Types
<1>2. /\ importing'.on = TRUE /\ importing'.account = id
      /\ {"account", "on"} \subseteq DOMAIN importing'
  BY <1>1
<1>3. CASE KnownNumber(mem, export.number)
  <2>1. UNCHANGED <<mem, journal, lived, exact>>
    BY <1>3 DEF StartImport
  <2>2. HasAccount(mem, id)
    BY <1>1, <1>3, AccountFound
  <2>3. exact' \in BOOLEAN
    BY <2>1 DEF IInv, Types
  <2> HIDE DEF id
  <2>4. Types' /\ Chain'
    BY <1>1, <2>1, <2>3, QuietStep DEF IInv
  <2>5. Underway'
    BY <1>1, <1>2, <2>1, <2>2 DEF IInv, Underway
  <2> QED
    BY <2>4, <2>5 DEF IInv
<1>4. CASE ~KnownNumber(mem, export.number)
  <2>1. /\ Log(row, AddAccount(mem, export.number, name, export.bank))
        /\ exact' = (exact /\ typed = export.bank)
    BY <1>4 DEF StartImport
  <2>2. /\ Shape(mem')
        /\ Len(mem'.accounts) = Len(mem.accounts) + 1
    BY <1>1, <1>4, <2>1, AddAccountShape DEF Log
  <2>3. id = Len(mem.accounts) /\ Len(mem.accounts) \in Nat
    BY <1>1, <1>4, SeqFacts DEF AccountId, Shape
  <2>4. HasAccount(mem', id)
    BY <2>2, <2>3 DEF HasAccount
  <2>5. /\ exact' \in BOOLEAN
        /\ exact' => exact /\ Applies(mem, row) /\ mem' = Applied(mem, row)
    BY <2>1 DEF Applies, Applied, Log, IInv, Types
  <2>6. row.op \in RowOps
    BY DEF RowOps
  <2> HIDE DEF id, row
  <2>7. Types' /\ Chain'
    BY <1>1, <2>1, <2>2, <2>5, <2>6, LoggedStep DEF IInv, Log
  <2>8. Underway'
    BY <1>1, <1>2, <2>4 DEF IInv, Underway
  <2> QED
    BY <2>7, <2>8 DEF IInv
<1> QED
  BY <1>3, <1>4

(* PrepareImport() is exact only when it drops nothing.                    *)
LEMMA PrepareImportKeeps ==
  ASSUME IInv, PrepareImport
  PROVE  IInv'
<1> DEFINE kept == KeptByImport(TxnsOf(mem, importing.account),
                                importing.todo[1].date)
<1>1. /\ phase = "open" /\ importing.on /\ Shape(mem)
      /\ {"account", "on"} \subseteq DOMAIN importing
      /\ HasAccount(mem, importing.account)
      /\ UNCHANGED <<file, journal, phase, cursor, merging, lived>>
  BY DEF PrepareImport, IInv, Types, Underway
<1>2. \/ /\ importing' = [importing EXCEPT !.started = TRUE]
         /\ mem' = WithTxns(mem, importing.account, kept)
         /\ exact' = (exact /\ mem' = mem)
      \/ /\ importing' = [importing EXCEPT !.todo = Tail(@)]
         /\ UNCHANGED <<mem, exact>>
  BY DEF PrepareImport
<1> HIDE DEF kept
<1>3. /\ Shape(mem') /\ Len(mem'.accounts) = Len(mem.accounts)
      /\ exact' \in BOOLEAN /\ (exact' => exact /\ mem' = mem)
  <2>1. CASE mem' = WithTxns(mem, importing.account, kept)
               /\ exact' = (exact /\ mem' = mem)
    <3>1. Shape(mem') /\ Len(mem'.accounts) = Len(mem.accounts)
      BY <2>1, <1>1, WithTxnsShape
    <3>2. exact' \in BOOLEAN /\ (exact' => exact /\ mem' = mem)
      BY <2>1 DEF IInv, Types
    <3> QED
      BY <3>1, <3>2
  <2>2. CASE UNCHANGED <<mem, exact>>
    BY <2>2, <1>1 DEF IInv, Types
  <2> QED
    BY <1>2, <2>1, <2>2
<1>4. /\ importing'.on = importing.on
      /\ importing'.account = importing.account
      /\ {"account", "on"} \subseteq DOMAIN importing'
  BY <1>1, <1>2
<1>5. Types' /\ Chain'
  BY <1>1, <1>3, QuietStep DEF IInv
<1>6. Underway'
  BY <1>1, <1>3, <1>4 DEF IInv, Underway, HasAccount
<1> QED
  BY <1>5, <1>6 DEF IInv

(* ProcessOneTransaction(): the row goes to an account that is there.      *)
LEMMA ImportRowKeeps ==
  ASSUME IInv, NEW ids, NEW note, ImportRow(ids, note)
  PROVE  IInv'
<1> DEFINE txn == [date |-> importing.todo[1].date,
                   what |-> importing.todo[1].what, ids |-> ids,
                   note |-> note]
           row == [op |-> "TRANSACTION", account |-> importing.account,
                   txn |-> txn]
<1>1. /\ phase = "open" /\ importing.on /\ Shape(mem)
      /\ {"account", "on"} \subseteq DOMAIN importing
      /\ HasAccount(mem, importing.account)
      /\ Log(row, AddTransaction(mem, importing.account, txn))
      /\ importing' = [importing EXCEPT !.todo = Tail(@)]
      /\ UNCHANGED <<file, phase, cursor, merging, exact>>
  BY DEF ImportRow, IInv, Types, Underway
<1>2. Applies(mem, row)
        /\ AddTransaction(mem, importing.account, txn) = Applied(mem, row)
  BY <1>1 DEF Applies, Applied
<1>3. row.op \in RowOps
  BY DEF RowOps
<1> HIDE DEF txn, row
<1>4. Shape(mem') /\ Len(mem'.accounts) = Len(mem.accounts)
  BY <1>1, WithTxnsShape DEF Log, AddTransaction
<1>5. exact' \in BOOLEAN
  BY <1>1 DEF IInv, Types
<1>6. /\ importing'.on = importing.on
      /\ importing'.account = importing.account
      /\ {"account", "on"} \subseteq DOMAIN importing'
  BY <1>1
<1>7. Types' /\ Chain'
  BY <1>1, <1>2, <1>3, <1>4, <1>5, LoggedStep DEF IInv, Log
<1>8. Underway'
  BY <1>1, <1>4, <1>6 DEF IInv, Underway, HasAccount
<1> QED
  BY <1>7, <1>8 DEF IInv

(* The end of an import changes no data.                                   *)
LEMMA EndImportKeeps ==
  ASSUME IInv, EndImport
  PROVE  IInv'
<1>1. Types'
  BY DEF EndImport, IInv, Types
<1>3. Chain'
  BY DEF EndImport, IInv, Chain, Chained, Here
<1>2. Underway'
  BY DEF EndImport, IInv, Underway, NoImport
<1> QED
  BY <1>1, <1>2, <1>3 DEF IInv

(* Load(): a journal that is kept was begun on the file that is loaded.    *)
LEMMA LoadKeeps ==
  ASSUME IInv, NEW j, j = journal \/ j = NoJournal,
         phase = "closed" \/ phase = "open", LoadWith(j)
  PROVE  IInv'
<1>1. /\ j = [base |-> j.base, rows |-> j.rows] /\ IsSeq(j.rows)
      /\ \A k \in DOMAIN j.rows : j.rows[k].op \in RowOps
  <2>1. CASE j = journal
    BY <2>1 DEF IInv, Types
  <2>2. CASE j = NoJournal
    BY <2>2, EmptySeqFacts, SeqFacts DEF NoJournal
  <2> QED
    BY <2>1, <2>2
<1>2. /\ cursor' = 0 /\ merging' = NoMerge /\ importing' = NoImport
      /\ file' = file
  BY DEF LoadWith
<1>3. Underway'
  BY <1>2 DEF Underway, NoImport
<1>4. file # NoFile => Shape(file) /\ Shape(Loaded(file))
  BY LoadedShape DEF IInv, Types
<1>5. CASE file = NoFile
  <2>1. /\ mem' = EmptyMemory /\ phase' = "open" /\ journal' = j
        /\ lived' = <<>> /\ exact' = FALSE
    BY <1>5 DEF LoadWith
  <2>2. Types'
    BY <1>1, <1>2, <1>5, <2>1, EmptyShape, EmptySeqFacts DEF Types
  <2>3. Chain'
    BY <2>1 DEF Chain
  <2> QED
    BY <1>3, <2>2, <2>3 DEF IInv
<1>6. CASE file # NoFile /\ j.base = file /\ j.rows # <<>>
  <2>1. /\ mem' = Loaded(file) /\ phase' = "offer" /\ journal' = j
        /\ UNCHANGED <<lived, exact>>
    BY <1>6 DEF LoadWith
  <2>2. Types'
    BY <1>1, <1>2, <1>4, <1>6, <2>1 DEF IInv, Types
  <2>3. j = journal
    BY <1>6 DEF NoJournal
  <2>4. Chain'
    BY <1>2, <1>6, <2>1, <2>3 DEF IInv, Chain, Chained, Here
  <2> QED
    BY <1>3, <2>2, <2>4 DEF IInv
<1>7. CASE file # NoFile /\ ~(j.base = file /\ j.rows # <<>>)
  <2>1. /\ mem' = Loaded(file) /\ phase' = "open"
        /\ journal' = [base |-> file, rows |-> <<>>]
        /\ lived' = <<Loaded(file)>> /\ exact' = TRUE
    BY <1>7 DEF LoadWith
  <2>2. journal'.rows = <<>> /\ DOMAIN journal'.rows = {}
    BY <2>1, EmptySeqFacts, SeqFacts
  <2>3. Types'
    BY <1>2, <1>4, <1>7, <2>1, <2>2, EmptySeqFacts DEF Types
  <2>4. Chained' /\ Here' /\ lived' # <<>>
    BY <1>2, <2>1, <2>2, EmptySeqFacts DEF Chained, Here
  <2>5. Chain'
    BY <2>4 DEF Chain
  <2> QED
    BY <1>3, <2>3, <2>5 DEF IInv
<1> QED
  BY <1>5, <1>6, <1>7

(* The answer to the recovery prompt changes no data.                      *)
LEMMA AnswerKeeps ==
  ASSUME IInv, Decline \/ Accept
  PROVE  IInv'
<1>1. Types'
  BY DEF Decline, Accept, IInv, Types
<1>2. Underway'
  BY DEF Decline, Accept, IInv, Underway
<1>3. CASE Decline
  BY <1>1, <1>2, <1>3 DEF Decline, Chain, IInv
<1>4. CASE Accept
  <2>1. /\ phase = "offer" /\ phase' = "replaying" /\ cursor = 0
        /\ UNCHANGED <<mem, file, journal, cursor, lived, exact>>
    BY <1>4 DEF Accept, IInv, Types
  <2>2. Len(journal.rows) \in Nat
    BY SeqFacts DEF IInv, Types
  <2>3. Chain'
    BY <2>1, <2>2 DEF IInv, Chain, Chained, Here
  <2> QED
    BY <1>1, <1>2, <2>3 DEF IInv
<1> QED
  BY <1>3, <1>4

(* Every row of an unbroken chain applies where the replay has come to,    *)
(* and takes it to the next memory of the lost session.                    *)
LEMMA ReplayFollows ==
  ASSUME IInv, phase = "replaying", exact
  PROVE  /\ lived # <<>> /\ Chained /\ mem = lived[cursor + 1]
         /\ cursor <= Len(journal.rows)
         /\ cursor < Len(journal.rows) =>
              /\ Applies(mem, journal.rows[cursor + 1])
              /\ lived[cursor + 2] = Applied(mem, journal.rows[cursor + 1])
<1>1. /\ lived # <<>> /\ Chained /\ mem = lived[cursor + 1]
      /\ cursor <= Len(journal.rows)
  BY DEF IInv, Chain, Here
<1>2. Len(journal.rows) \in Nat /\ cursor \in Nat
  BY SeqFacts DEF IInv, Types
<1>3. ASSUME cursor < Len(journal.rows)
      PROVE  /\ Applies(mem, journal.rows[cursor + 1])
             /\ lived[cursor + 2] = Applied(mem, journal.rows[cursor + 1])
  <2> DEFINE k == cursor + 1
  <2>1. k \in 1 .. Len(journal.rows) /\ k + 1 = cursor + 2
    BY <1>2, <1>3
  <2> HIDE DEF k
  <2>2. /\ Applies(lived[k], journal.rows[k])
        /\ lived[k + 1] = Applied(lived[k], journal.rows[k])
    BY <1>1, <2>1 DEF Chained
  <2> QED
    BY <1>1, <2>1, <2>2 DEF k
<1> QED
  BY <1>1, <1>3

(* A replayed row moves the replay on by one link of the chain.            *)
LEMMA ReplayRowKeeps ==
  ASSUME IInv, ReplayRow
  PROVE  IInv'
<1> DEFINE row == journal.rows[cursor + 1]
<1>1. /\ phase = "replaying" /\ cursor < Len(journal.rows)
      /\ mem' = Applied(mem, row) /\ cursor' = cursor + 1
      /\ UNCHANGED <<file, journal, phase, merging, importing, lived, exact>>
  BY DEF ReplayRow
<1>2. /\ Len(journal.rows) \in Nat /\ cursor \in Nat
      /\ DOMAIN journal.rows = 1 .. Len(journal.rows)
  BY SeqFacts DEF IInv, Types
<1>3. row.op \in RowOps /\ Shape(mem)
  BY <1>1, <1>2 DEF IInv, Types
<1> HIDE DEF row
<1>4. Shape(mem')
  BY <1>1, <1>3, AppliedShape
<1>5. Types'
  BY <1>1, <1>2, <1>4 DEF IInv, Types
<1>6. Underway'
  BY <1>1 DEF IInv, Underway, Types
<1>7. ASSUME exact PROVE Here'
  BY <1>1, <1>2, <1>7, ReplayFollows DEF Here, row
<1>8. Chain'
  BY <1>1, <1>7 DEF IInv, Chain, Chained
<1> QED
  BY <1>5, <1>6, <1>8 DEF IInv

(* A refused row ends the exact history.                                   *)
LEMMA ReplayStopsKeeps ==
  ASSUME IInv, ReplayStops
  PROVE  IInv'
<1> DEFINE row == journal.rows[cursor + 1]
<1>1. /\ phase = "replaying" /\ cursor < Len(journal.rows)
      /\ cursor' = 0 /\ exact' = FALSE
      /\ UNCHANGED <<file, journal, merging, importing, lived>>
      /\ \/ phase' = "closed" /\ mem' = NoMem
         \/ phase' = "open" /\ mem' \in {mem, Applied(mem, row)}
  BY DEF ReplayStops
<1>2. /\ Len(journal.rows) \in Nat /\ cursor \in Nat
      /\ DOMAIN journal.rows = 1 .. Len(journal.rows)
  BY SeqFacts DEF IInv, Types
<1>3. row.op \in RowOps /\ Shape(mem)
  BY <1>1, <1>2 DEF IInv, Types
<1> HIDE DEF row
<1>4. phase' # "closed" => Shape(mem')
  BY <1>1, <1>3, AppliedShape
<1>5. Types'
  BY <1>1, <1>4 DEF IInv, Types
<1>6. Underway'
  BY <1>1 DEF IInv, Underway
<1>7. Chain'
  BY <1>1 DEF Chain
<1> QED
  BY <1>5, <1>6, <1>7 DEF IInv

(* A replay that is done stands at the end of the chain.                   *)
LEMMA ReplayDoneKeeps ==
  ASSUME IInv, ReplayDone
  PROVE  IInv'
<1>1. /\ phase = "replaying" /\ cursor = Len(journal.rows) /\ cursor' = 0
      /\ UNCHANGED <<file, journal, merging, importing, lived>>
      /\ \/ phase' = "open" /\ UNCHANGED <<mem, exact>>
         \/ phase' = "closed" /\ mem' = NoMem /\ exact' = FALSE
  BY DEF ReplayDone
<1>2. Types'
  BY <1>1 DEF IInv, Types
<1>3. Underway'
  BY <1>1 DEF IInv, Underway
<1>4. ASSUME exact' PROVE lived' # <<>> /\ Chained' /\ Here'
  <2>1. /\ exact /\ lived # <<>> /\ Chained /\ mem = lived[cursor + 1]
    BY <1>1, <1>4, ReplayFollows
  <2>2. Len(lived) = cursor + 1
    BY <1>1, <2>1 DEF Chained
  <2> QED
    BY <1>1, <1>4, <2>1, <2>2 DEF Chained, Here
<1>5. Chain'
  BY <1>4 DEF Chain
<1> QED
  BY <1>2, <1>3, <1>5 DEF IInv

(* Save() begins a new chain with what was saved.                          *)
LEMMA SaveKeeps ==
  ASSUME IInv, Save
  PROVE  IInv'
<1>1. /\ phase = "open" /\ merging = NoMerge /\ ~importing.on
      /\ file' = Stored(mem) /\ journal' = [base |-> file', rows |-> <<>>]
      /\ lived' = <<mem>> /\ exact' = RoundTrip(mem)
      /\ UNCHANGED <<mem, phase, cursor, merging, importing>>
  BY DEF Save, Idle
<1>2. Shape(file')
  BY <1>1, StoredShape DEF IInv, Types
<1>3. journal'.rows = <<>> /\ DOMAIN journal'.rows = {}
  BY <1>1, EmptySeqFacts, SeqFacts
<1>4. exact' \in BOOLEAN /\ (exact' => Loaded(file') = mem)
  BY <1>1 DEF RoundTrip
<1>5. Types'
  BY <1>1, <1>2, <1>3, <1>4, EmptySeqFacts DEF IInv, Types
<1>6. Underway'
  BY <1>1 DEF IInv, Underway
<1>7. Chain'
  BY <1>1, <1>3, <1>4, EmptySeqFacts DEF Chain, Chained, Here
<1> QED
  BY <1>5, <1>6, <1>7 DEF IInv

(* ~cMain() leaves no journal behind.                                      *)
LEMMA ExitKeeps ==
  ASSUME IInv, NEW save \in BOOLEAN, Exit(save)
  PROVE  IInv'
<1>1. /\ phase = "open" /\ merging = NoMerge /\ ~importing.on
      /\ file' = Stored(mem) \/ file' = file
      /\ journal' = NoJournal /\ phase' = "closed"
      /\ lived' = <<>> /\ exact' = TRUE
      /\ UNCHANGED <<cursor, merging, importing>>
  BY DEF Exit, Idle
<1>2. file' # NoFile => Shape(file')
  BY <1>1, StoredShape DEF IInv, Types
<1>3. /\ journal' = [base |-> NoFile, rows |-> <<>>]
      /\ journal'.rows = <<>> /\ DOMAIN journal'.rows = {}
  BY <1>1, EmptySeqFacts, SeqFacts DEF NoJournal
<1>4. Types'
  BY <1>1, <1>2, <1>3, EmptySeqFacts DEF IInv, Types
<1>5. Underway'
  BY <1>1 DEF IInv, Underway
<1>6. Chain'
  BY <1>1, <1>3 DEF Chain
<1> QED
  BY <1>4, <1>5, <1>6 DEF IInv

(* A crash leaves file, journal and history as they are.                   *)
LEMMA CrashKeeps ==
  ASSUME IInv, Crash
  PROVE  IInv'
<1>1. /\ phase # "closed" /\ phase' = "closed" /\ cursor' = 0
      /\ merging' = NoMerge /\ importing' = NoImport
      /\ UNCHANGED <<file, journal, lived, exact>>
  BY DEF Crash
<1>2. Types'
  BY <1>1 DEF IInv, Types
<1>3. Underway'
  BY <1>1 DEF Underway, NoImport
<1>4. Chain'
  BY <1>1 DEF IInv, Chain, Chained, Here
<1> QED
  BY <1>2, <1>3, <1>4 DEF IInv

(* Every step keeps the invariant.                                         *)
LEMMA NextIInv == IInv /\ [Next]_vars => IInv'
<1> SUFFICES ASSUME IInv, [Next]_vars PROVE IInv'
  OBVIOUS
<1>1. CASE phase = "open" /\ OnChildren
  <2>1. PICK t \in Topics :
          \/ \E n \in Names : Create_(t, n)
          \/ \E id \in Ids(mem.children[t]) :
               \/ \E w \in Words, d \in BOOLEAN : Keyword(t, id, w, d)
               \/ \E n \in Names : Rename_(t, id, n)
               \/ \E others \in SUBSET Ids(mem.children[t]) :
                    StartMerge(t, others, id)
    BY <1>1 DEF OnChildren
  <2> QED
    BY <2>1, CreateKeeps, KeywordKeeps, RenameKeeps, StartMergeKeeps
<1>2. CASE phase = "open" /\ OnAccounts
  <2>1. PICK a \in DOMAIN mem.accounts :
          \/ \E n \in Names : Rename_("ACCOUNT", a - 1, n)
          \/ \E c \in 1 .. MaxTxns : Prune_(a - 1, c)
          \/ \E p \in Positions(mem.accounts[a].txns) :
               \/ \E t \in Topics : \E id \in Ids(mem.children[t]) :
                    Edit(a - 1, p, t, id)
               \/ \E note \in Notes : Edit(a - 1, p, "MEMO", note)
               \/ \E client \in Ids(mem.children["CLIENT"]),
                     category \in Ids(mem.children["CATEGORY"]),
                     note \in Notes, found \in BOOLEAN :
                    Categorize(a - 1, p, client, category, note, found)
    BY <1>2 DEF OnAccounts
  <2>2. CASE \E n \in Names : Rename_("ACCOUNT", a - 1, n)
    BY <2>2, RenameKeeps
  <2>3. CASE \E c \in 1 .. MaxTxns : Prune_(a - 1, c)
    BY <2>3, PruneKeeps
  <2>4. ASSUME NEW p \in Positions(mem.accounts[a].txns),
               \/ \E t \in Topics : \E id \in Ids(mem.children[t]) :
                    Edit(a - 1, p, t, id)
               \/ \E note \in Notes : Edit(a - 1, p, "MEMO", note)
        PROVE  IInv'
    BY <1>2, <2>4, EditKeeps
  <2>5. ASSUME NEW p \in Positions(mem.accounts[a].txns),
               NEW client, NEW category, NEW note, NEW found,
               Categorize(a - 1, p, client, category, note, found)
        PROVE  IInv'
    BY <1>2, <2>5, CategorizeKeeps
  <2> QED
    BY <2>1, <2>2, <2>3, <2>4, <2>5
<1>3. CASE phase = "open" /\ OnImport
  <2>1. CASE \E export \in Exports, n \in Names, b \in Banks :
               StartImport(export, n, b)
    BY <2>1, StartImportKeeps
  <2>2. CASE \E ids, note : ImportRow(ids, note)
    BY <2>2, ImportRowKeeps
  <2>3. CASE PrepareImport
    BY <2>3, PrepareImportKeeps
  <2>4. CASE EndImport
    BY <2>4, EndImportKeeps
  <2> QED
    BY <1>3, <2>1, <2>2, <2>3, <2>4 DEF OnImport
<1>4. CASE MergeNext \/ MergeEnd
  BY <1>4, MergeNextKeeps, MergeEndKeeps
<1>5. CASE Save \/ Crash \/ \E save \in BOOLEAN : Exit(save)
  BY <1>5, SaveKeeps, CrashKeeps, ExitKeeps
<1>6. CASE Start
  BY <1>6, LoadKeeps DEF Start
<1>7. CASE Discard
  BY <1>7, LoadKeeps DEF Discard, Idle
<1>8. CASE Accept \/ Decline
  BY <1>8, AnswerKeeps
<1>9. CASE ReplayRow \/ ReplayStops \/ ReplayDone
  BY <1>9, ReplayRowKeeps, ReplayStopsKeeps, ReplayDoneKeeps
<1>10. CASE UNCHANGED vars
  <2>1. Types'
    BY <1>10 DEF vars, IInv, Types
  <2>2. Underway'
    BY <1>10 DEF vars, IInv, Underway
  <2>3. Chain'
    BY <1>10 DEF vars, IInv, Chain, Chained, Here
  <2> QED
    BY <2>1, <2>2, <2>3 DEF IInv
<1> QED
  BY <1>1, <1>2, <1>3, <1>4, <1>5, <1>6, <1>7, <1>8, <1>9, <1>10
     DEF Next, Running

(* The history of every session is a chain of journal rows from the loaded *)
(* file to the memory of now: no operation of AccountManager appends a row *)
(* that would not lead a replay to the memory that the operation made.     *)
THEOREM InvariantHolds == Spec => []IInv
<1>1. Init => IInv
  BY InitIInv
<1>2. IInv /\ [Next]_vars => IInv'
  BY NextIInv
<1> QED
  BY <1>1, <1>2, PTL DEF Spec

(* For every database, every journal and every number of users' steps, a   *)
(* replay of an exact journal (ApplyRecoveryFile()) goes through the       *)
(* memories of the lost session and no row is refused.                     *)
THEOREM ReplayStaysOnTrack == Spec => []ReplayOnTrack
<1>1. IInv => ReplayOnTrack
  BY ReplayFollows DEF ReplayOnTrack
<1> QED
  BY <1>1, InvariantHolds, PTL

(* An accepted recovery of an exact journal ends with the lost memory,     *)
(* unless the session was lost in the middle of a merge                    *)
(* (ApplyRecoveryFile() and the review it shows at the end).               *)
THEOREM ReplayEnds == Spec => ReplayEndsWell
<1> DEFINE Well == phase = "replaying" /\ exact /\ phase' # "replaying"
                     /\ RefsIn(lived[Len(lived)])
                   => exact' /\ (phase' = "open" => mem' = lived[Len(lived)])
<1>1. ASSUME IInv, Next, phase = "replaying", exact, phase' # "replaying",
             RefsIn(lived[Len(lived)])
      PROVE  exact' /\ (phase' = "open" => mem' = lived[Len(lived)])
  <2>1. /\ mem = lived[cursor + 1] /\ Chained
        /\ cursor < Len(journal.rows) => Applies(mem, journal.rows[cursor + 1])
    BY <1>1, ReplayFollows
  <2>2. ReplayDone \/ Crash
    <3>1. ~ReplayStops
      BY <2>1 DEF ReplayStops
    <3>2. ~ReplayRow
      BY <1>1 DEF ReplayRow
    <3>3. ~Start /\ ~Accept /\ ~Decline
      BY <1>1 DEF Start, Accept, Decline
    <3> QED
      BY <1>1, <3>1, <3>2, <3>3 DEF Next
  <2>3. CASE Crash
    BY <1>1, <2>3 DEF Crash
  <2>4. CASE ReplayDone
    <3>1. mem = lived[Len(lived)]
      BY <2>1, <2>4 DEF ReplayDone, Chained
    <3>2. \A place \in Touched : Shows(mem, place)
      BY <1>1, <3>1 DEF RefsIn, Touched
    <3> QED
      BY <1>1, <2>4, <3>1, <3>2 DEF ReplayDone
  <2> QED
    BY <2>2, <2>3, <2>4
<1>2. IInv /\ [Next]_vars => [Well]_vars
  BY <1>1
<1> QED
  BY <1>2, InvariantHolds, PTL DEF Spec, ReplayEndsWell
=============================================================================
