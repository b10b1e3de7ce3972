------------------------------ MODULE MCLedger ------------------------------
(***************************************************************************)
(* Small instances of Ledger: what the database holds at first, and what   *)
(* users may type, for the configurations MCLedger_*.cfg.                  *)
(***************************************************************************)
EXTENDS Ledger

CONSTANTS Rent, Shop, SHOP, Misc, Wire, Bank1, Bank2, Acc1, Acc2, A, B,
          Blank, Text

\* Two names and their case: Shop and SHOP are one name to CheckName(), and
\* the one keyword is found in both.
MCTwoNames == {Rent, Shop}
MCThreeNames == {Rent, Shop, SHOP}
MCFoldCase ==
  [n \in Names \cup {DefaultName} |-> IF n = SHOP THEN Shop ELSE n]
MCCaptures == {Wire} \X (Names \ {Rent})

Txn(date, what, id) ==
  [date |-> date, what |-> what, ids |-> [t \in Topics |-> id], note |-> Blank]

\* A saved database: children of every collection, one account.
Saved(names, txns) ==
  [children |->
     [t \in Topics |->
        [i \in DOMAIN names |->
           NewChild(IF t \in Defaulted THEN i ELSE i - 1, names[i])]],
   accounts |->
     <<[number |-> Acc1, name |-> Rent, bank |-> Bank1, txns |-> txns]>>]

\* One child beside the built-in one; a day with one transaction, or two days;
\* or no child beside the built-in one.
MCOneDay  == {Saved(<<Rent>>, <<Txn(1, A, 0)>>)}
MCTwoDays == {Saved(<<Rent>>, <<Txn(1, A, 0), Txn(2, B, 0)>>)}
MCNoChild == {Saved(<<>>, <<Txn(1, A, 0)>>)}
\* No database at all, one as above, or one whose account is still empty.
MCMaybe   == {NoFile, Saved(<<Rent>>, <<>>)} \cup MCTwoDays
\* Three children in use, for merging.
MCThree   == {Saved(<<Rent, Shop>>, <<Txn(1, A, 1), Txn(2, B, 2)>>)}

\* What the banks send: the end of the known account again with a day more,
\* an old day and a new one, and a new account with its days out of order.
Row1(date, what) == [date |-> date, what |-> what]
MCExports ==
  {[number |-> Acc1, bank |-> Bank1, rows |-> <<Row1(2, B), Row1(3, A)>>],
   [number |-> Acc1, bank |-> Bank1, rows |-> <<Row1(0, A), Row1(2, B)>>],
   [number |-> Acc2, bank |-> Bank1, rows |-> <<Row1(2, A), Row1(1, B)>>]}
MCNoExports == {}
MCEndOrNew == {e \in MCExports : e.rows[1].date # 0}
\* The known account from its first day on; only the new account.
MCFromStart == {[number |-> Acc1, bank |-> Bank1,
                 rows |-> <<Row1(1, A), Row1(2, B)>>]}
MCUnordered == {e \in MCExports : e.number = Acc2}
=============================================================================
