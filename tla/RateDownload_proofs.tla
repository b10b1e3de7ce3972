------------------------- MODULE RateDownload_proofs -------------------------
(***************************************************************************)
(* Which thread closes which handle, and what an update does to the rates, *)
(* whatever accounts, days and silences there are.                         *)
(***************************************************************************)
EXTENDS RateDownload, TLAPS, WellFoundedInduction

(* The handles that one was opened from.                                   *)
Older(h) == IF h = "session" THEN {}
            ELSE IF h = "connect" THEN {"session"}
            ELSE {"session", "connect"}

(* The handles that the worker has opened and not yet come back to.        *)
ToUnwind == IF at \in {"register", "call", "unwind"} THEN Older(top) \cup {top}
            ELSE IF at = "parents" THEN Older(top)
            ELSE {}

(* The flag comes before the handle, and the handle is taken once.         *)
CancelInOrder ==
  /\ dialog = "none" => /\ at = "done" /\ top = "session" /\ got = 0
                        /\ ~sent /\ active = Free /\ grip = Free
  /\ ~sent => grip = Free /\ dialog \in {"none", "waiting"}
  /\ dialog = "cancelling" => grip = Free
  /\ dialog = "closing" => grip # Free
  /\ dialog = "waiting" /\ grip # Free => handle[grip] = "closed"

(* A handle is registered when the next call is made on it; if it is not   *)
(* registered any more, then the dialog has it, and no other ever again.   *)
TokenInOrder ==
  /\ at = "register" => active \in Older(top) \cup {Free}
                        /\ grip \in Older(top) \cup {Free}
  /\ at \in {"call", "unwind"} => active \in {top, Free}
                                  /\ grip \in Older(top) \cup {top, Free}
                                  /\ (active = Free => grip = top)
  /\ at \notin {"register", "call", "unwind"} => active = Free
  /\ active # Free => grip # active

(* An open handle is going to be closed, by the worker or by the dialog,   *)
(* and the request by one of them only.                                    *)
HandlesInOrder ==
  /\ at \in {"prepare", "fetch"} => top = "session" /\ grip = Free
  /\ at \in {"prepare", "fetch", "register"} => got = 0
  /\ at = "call" => got < 2 /\ (top # "request" => got = 0)
  /\ at = "register" => handle[top] = "open"
  /\ active = "request" => handle["request"] = "open"
  /\ dialog = "closing" /\ grip = "request" => handle["request"] = "open"
  /\ \A h \in Handles : handle[h] = "open" =>
       h \in ToUnwind \/ (dialog = "closing" /\ grip = h)
  /\ ~sent => \A h \in ToUnwind : handle[h] # "closed"

\* The inductive invariant.
IInv ==
  /\ TypeOK
  /\ CancelInOrder
  /\ TokenInOrder
  /\ HandlesInOrder
  /\ ClosedOnce

-----------------------------------------------------------------------------
(* How a handle stands to the one it was opened from and the one opened    *)
(* from it.                                                                *)
LEMMA Chain ==
  ASSUME NEW h \in Handles
  PROVE  /\ Older(h) \subseteq Handles \ {h, "request"}
         /\ h # "session" => /\ Parent[h] \in Older(h)
                             /\ Older(h) = Older(Parent[h]) \cup {Parent[h]}
         /\ h # "request" => /\ Opens[h] \in Handles
                             /\ Older(Opens[h]) = Older(h) \cup {h}
  <1>1. CASE h = "session" BY <1>1 DEF Handles, Older, Opens, Parent
  <1>2. CASE h = "connect" BY <1>2 DEF Handles, Older, Opens, Parent
  <1>3. CASE h = "request" BY <1>3 DEF Handles, Older, Opens, Parent
  <1>4. QED BY <1>1, <1>2, <1>3 DEF Handles

-----------------------------------------------------------------------------
(* One lemma for each step of the two threads.                             *)

(* An update begins with a token that nobody has used.                     *)
LEMMA BeginKeeps ==
  ASSUME IInv, Begin
  PROVE  IInv'
  <1> USE FreeAssumption, SilenceAssumption, Chain
      DEF IInv, TypeOK, CancelInOrder, TokenInOrder, HandlesInOrder,
          database, worker, token, ui, Close, Waiting
  <1>1. Free # "request" /\ Older("session") = {}
    BY DEF Handles, Older
  <1>2. TypeOK'
    BY DEF Begin
  <1>3. CancelInOrder'
    BY DEF Begin
  <1>4. TokenInOrder'
    BY DEF Begin
  <1>5. HandlesInOrder'
    BY <1>1 DEF Begin, ToUnwind
  <1>6. ClosedOnce'
    BY DEF Begin, ToUnwind, ClosedOnce
  <1>7. QED BY <1>2, <1>3, <1>4, <1>5, <1>6

(* Cancelling sets the flag first.                                         *)
LEMMA CancelKeeps ==
  ASSUME IInv, Cancel
  PROVE  IInv'
  <1> USE FreeAssumption, SilenceAssumption, Chain
      DEF IInv, TypeOK, CancelInOrder, TokenInOrder, HandlesInOrder,
          database, worker, token, ui, Close, Waiting
  <1>1. Free # "request" /\ Older("session") = {}
    BY DEF Handles, Older
  <1>2. TypeOK'
    BY DEF Cancel
  <1>3. CancelInOrder'
    BY DEF Cancel
  <1>4. TokenInOrder'
    BY DEF Cancel
  <1>5. HandlesInOrder'
    BY <1>1 DEF Cancel, ToUnwind
  <1>6. ClosedOnce'
    BY DEF Cancel, ToUnwind, ClosedOnce
  <1>7. QED BY <1>2, <1>3, <1>4, <1>5, <1>6

(* The dialog takes the handle away from the token for good.               *)
LEMMA TakeActiveKeeps ==
  ASSUME IInv, TakeActive
  PROVE  IInv'
  <1> USE FreeAssumption, SilenceAssumption, Chain
      DEF IInv, TypeOK, CancelInOrder, TokenInOrder, HandlesInOrder,
          database, worker, token, ui, Close, Waiting
  <1>1. Free # "request" /\ Older("session") = {}
    BY DEF Handles, Older
  <1>2. TypeOK'
    BY DEF TakeActive
  <1>3. CancelInOrder'
    BY DEF TakeActive
  <1>4. TokenInOrder'
    BY DEF TakeActive
  <1>5. HandlesInOrder'
    BY <1>1 DEF TakeActive, ToUnwind
  <1>6. ClosedOnce'
    BY DEF TakeActive, ToUnwind, ClosedOnce
  <1>7. QED BY <1>2, <1>3, <1>4, <1>5, <1>6

(* What the dialog has taken it closes, and the worker does not.           *)
LEMMA CloseTakenKeeps ==
  ASSUME IInv, CloseTaken
  PROVE  IInv'
  <1> USE FreeAssumption, SilenceAssumption, Chain
      DEF IInv, TypeOK, CancelInOrder, TokenInOrder, HandlesInOrder,
          database, worker, token, ui, Close, Waiting
  <1>1. Free # "request" /\ Older("session") = {}
    BY DEF Handles, Older
  <1>2. TypeOK'
    BY DEF CloseTaken
  <1>3. CancelInOrder'
    BY DEF CloseTaken
  <1>4. TokenInOrder'
    BY DEF CloseTaken
  <1>5. HandlesInOrder'
    BY <1>1 DEF CloseTaken, ToUnwind
  <1>6. ClosedOnce'
    BY DEF CloseTaken, ToUnwind, ClosedOnce
  <1>7. QED BY <1>2, <1>3, <1>4, <1>5, <1>6

(* Everything is closed when the dialog goes, and begins anew.             *)
LEMMA EndKeeps ==
  ASSUME IInv, End
  PROVE  IInv'
  <1> USE FreeAssumption, SilenceAssumption, Chain
      DEF IInv, TypeOK, CancelInOrder, TokenInOrder, HandlesInOrder,
          database, worker, token, ui, Close, Waiting
  <1>1. Free # "request" /\ Older("session") = {}
    BY DEF Handles, Older
  <1>2. TypeOK'
    <2>1. (cancelled = FALSE /\ sent = FALSE)' /\ UNCHANGED <<database, at>>
      BY DEF End
    <2>2. (top \in Handles /\ got \in 0 .. 2)'
      BY DEF End, Handles
    <2>3. (handle \in [Handles -> {"unopened", "open", "closed"}])'
      BY DEF End
    <2>4. (twice \subseteq Handles /\ silent \in Silences \cup {{}})'
      BY DEF End
    <2>5. (dialog = "none" /\ \A h \in {active, grip} : h \in Handles \cup {Free})'
      BY DEF End
    <2>6. QED BY <2>1, <2>2, <2>3, <2>4, <2>5
  <1>3. CancelInOrder'
    BY DEF End
  <1>4. TokenInOrder'
    BY DEF End
  <1>5. HandlesInOrder'
    BY <1>1 DEF End, ToUnwind
  <1>6. ClosedOnce'
    BY DEF End, ToUnwind, ClosedOnce
  <1>7. QED BY <1>2, <1>3, <1>4, <1>5, <1>6

(* The first handle is opened unless the flag was set in time.             *)
LEMMA OpenSessionKeeps ==
  ASSUME IInv, OpenSession
  PROVE  IInv'
  <1> USE FreeAssumption, SilenceAssumption, Chain
      DEF IInv, TypeOK, CancelInOrder, TokenInOrder, HandlesInOrder,
          database, worker, token, ui, Close, Waiting
  <1>1. Free # "request" /\ Older("session") = {}
    BY DEF Handles, Older
  <1>2. TypeOK'
    BY DEF OpenSession
  <1>3. CancelInOrder'
    BY DEF OpenSession
  <1>4. TokenInOrder'
    BY DEF OpenSession
  <1>5. HandlesInOrder'
    BY <1>1 DEF OpenSession, ToUnwind
  <1>6. ClosedOnce'
    BY DEF OpenSession, ToUnwind, ClosedOnce
  <1>7. QED BY <1>2, <1>3, <1>4, <1>5, <1>6

(* A handle is registered while no one else has it.                        *)
LEMMA SetActiveHandleKeeps ==
  ASSUME IInv, SetActiveHandle
  PROVE  IInv'
  <1> USE FreeAssumption, SilenceAssumption, Chain
      DEF IInv, TypeOK, CancelInOrder, TokenInOrder, HandlesInOrder,
          database, worker, token, ui, Close, Waiting
  <1>1. Free # "request" /\ Older("session") = {}
    BY DEF Handles, Older
  <1>2. TypeOK'
    BY DEF SetActiveHandle
  <1>3. CancelInOrder'
    BY DEF SetActiveHandle
  <1>4. TokenInOrder'
    BY DEF SetActiveHandle
  <1>5. HandlesInOrder'
    BY <1>1 DEF SetActiveHandle, ToUnwind
  <1>6. ClosedOnce'
    BY DEF SetActiveHandle, ToUnwind, ClosedOnce
  <1>7. QED BY <1>2, <1>3, <1>4, <1>5, <1>6

(* An answer opens the next handle or goes on with the last.               *)
LEMMA AnsweredKeeps ==
  ASSUME IInv, Answered
  PROVE  IInv'
  <1> USE FreeAssumption, SilenceAssumption, Chain
      DEF IInv, TypeOK, CancelInOrder, TokenInOrder, HandlesInOrder,
          database, worker, token, ui, Close, Waiting
  <1>1. Free # "request" /\ Older("session") = {}
    BY DEF Handles, Older
  <1>2. TypeOK'
    BY DEF Answered
  <1>3. CancelInOrder'
    BY DEF Answered
  <1>4. TokenInOrder'
    BY DEF Answered
  <1>5. HandlesInOrder'
    BY <1>1, SMTT(30) DEF Answered, ToUnwind
  <1>6. ClosedOnce'
    BY DEF Answered, ToUnwind, ClosedOnce
  <1>7. QED BY <1>2, <1>3, <1>4, <1>5, <1>6

(* The worker closes the newest handle only if it is registered.           *)
LEMMA TryClaimHandleKeeps ==
  ASSUME IInv, TryClaimHandle
  PROVE  IInv'
  <1> USE FreeAssumption, SilenceAssumption, Chain
      DEF IInv, TypeOK, CancelInOrder, TokenInOrder, HandlesInOrder,
          database, worker, token, ui, Close, Waiting
  <1>1. Free # "request" /\ Older("session") = {}
    BY DEF Handles, Older
  <1>2. TypeOK'
    BY DEF TryClaimHandle
  <1>3. CancelInOrder'
    BY DEF TryClaimHandle
  <1>4. TokenInOrder'
    BY DEF TryClaimHandle
  <1>5. HandlesInOrder'
    BY <1>1 DEF TryClaimHandle, ToUnwind
  <1>6. ClosedOnce'
    BY DEF TryClaimHandle, ToUnwind, ClosedOnce
  <1>7. QED BY <1>2, <1>3, <1>4, <1>5, <1>6

(* Then the older ones, of which the request is none.                      *)
LEMMA CloseParentsKeeps ==
  ASSUME IInv, CloseParents
  PROVE  IInv'
  <1> USE FreeAssumption, SilenceAssumption, Chain
      DEF IInv, TypeOK, CancelInOrder, TokenInOrder, HandlesInOrder,
          database, worker, token, ui, Close, Waiting
  <1>1. Free # "request" /\ Older("session") = {}
    BY DEF Handles, Older
  <1>2. TypeOK'
    BY SMTT(30) DEF CloseParents
  <1>3. CancelInOrder'
    BY DEF CloseParents
  <1>4. TokenInOrder'
    BY DEF CloseParents
  <1>5. HandlesInOrder'
    BY <1>1 DEF CloseParents, ToUnwind
  <1>6. ClosedOnce'
    BY DEF CloseParents, ToUnwind, ClosedOnce
  <1>7. QED BY <1>2, <1>3, <1>4, <1>5, <1>6

(* The verdict touches neither token nor handles.                          *)
LEMMA VerdictKeeps ==
  ASSUME IInv, Verdict
  PROVE  IInv'
  <1> USE FreeAssumption, SilenceAssumption, Chain
      DEF IInv, TypeOK, CancelInOrder, TokenInOrder, HandlesInOrder,
          database, worker, token, ui, Close, Waiting
  <1>1. Free # "request" /\ Older("session") = {}
    BY DEF Handles, Older
  <1>2. TypeOK'
    BY DEF Verdict
  <1>3. CancelInOrder'
    BY DEF Verdict
  <1>4. TokenInOrder'
    BY DEF Verdict
  <1>5. HandlesInOrder'
    BY <1>1 DEF Verdict, ToUnwind
  <1>6. ClosedOnce'
    BY DEF Verdict, ToUnwind, ClosedOnce
  <1>7. QED BY <1>2, <1>3, <1>4, <1>5, <1>6

-----------------------------------------------------------------------------
(* Days and vectors of them.                                               *)

(* A set of naturals has a first element, and a last one if it has a       *)
(* bound.                                                                  *)
LEMMA FirstDayExists ==
  ASSUME NEW S \in SUBSET Nat, S # {}
  PROVE  \E m \in S : \A n \in S : m <= n
  <1>1. IsWellFoundedOn(OpToRel(<, Nat), Nat)
    BY NatLessThanWellFounded
  <1>2. PICK m \in S : \A n \in S : ~(<<n, m>> \in OpToRel(<, Nat))
    BY <1>1, WFMin
  <1>3. \A n \in S : ~(n < m)
    BY <1>2 DEF OpToRel
  <1>4. QED BY <1>3

LEMMA LastDayExists ==
  ASSUME NEW S \in SUBSET Nat, S # {}, NEW b \in Nat, \A n \in S : n <= b
  PROVE  \E m \in S : \A n \in S : n <= m
  <1> DEFINE Bounds == {u \in Nat : \A n \in S : n <= u}
  <1>1. PICK m \in Bounds : \A u \in Bounds : m <= u
    <2>1. b \in Bounds /\ Bounds \in SUBSET Nat
      OBVIOUS
    <2>2. QED BY <2>1, FirstDayExists
  <1>2. m \in S
    <2>1. SUFFICES ASSUME m \notin S PROVE FALSE
      OBVIOUS
    <2>2. \A n \in S : n <= m - 1
      BY <2>1
    <2>3. PICK n \in S : n <= m - 1
      BY <2>2
    <2>4. n \in Nat /\ m \in Nat /\ m - 1 \in Nat
      BY <2>3
    <2>5. QED BY <1>1, <2>2, <2>4
  <1>3. QED BY <1>2

(* Min and Max find them.                                                  *)
LEMMA MinMax ==
  ASSUME NEW S \in SUBSET Nat, S # {}, NEW b \in Nat, \A n \in S : n <= b
  PROVE  /\ Min(S) \in S /\ \A n \in S : Min(S) <= n
         /\ Max(S) \in S /\ \A n \in S : n <= Max(S)
  <1>1. \E m \in S : \A n \in S : m <= n
    BY FirstDayExists
  <1>2. \E m \in S : \A n \in S : m >= n
    BY LastDayExists
  <1>3. Min(S) \in S /\ \A n \in S : Min(S) <= n
    BY <1>1 DEF Min
  <1>4. Max(S) \in S /\ \A n \in S : Max(S) >= n
    BY <1>2 DEF Max
  <1>5. QED BY <1>3, <1>4

(* What is left of an account when its end is cut off.                     *)
LEMMA CutOff ==
  ASSUME NEW s \in Seq(Days), NEW n \in 0 .. Len(s)
  PROVE  SubSeq(s, 1, n) \in Seq(Days)
  OBVIOUS

(* What sorting makes of the days of an account are days.                  *)
LEMMA SortedDays ==
  ASSUME NEW s \in Seq(Days), NEW t \in Sorts(s)
  PROVE  t \in Seq(Days)
  <1>1. PICK p \in Bijection(DOMAIN s, DOMAIN s) :
               t = [i \in DOMAIN s |-> s[p[i]]]
    BY DEF Sorts
  <1>2. p \in [DOMAIN s -> DOMAIN s]
    BY DEF Bijection, Injection
  <1>3. DOMAIN s = 1 .. Len(s) /\ Len(s) \in Nat
    OBVIOUS
  <1>4. t \in [1 .. Len(s) -> Days]
    BY <1>1, <1>2, <1>3
  <1>5. QED BY <1>3, <1>4

-----------------------------------------------------------------------------
(* Steps that touch the rates or the transactions, and no handle.          *)
LEMMA HandlesKeep ==
  ASSUME IInv, UNCHANGED <<top, got, handle, twice, token, ui>>,
         UNCHANGED ToUnwind, TypeOK',
         \/ UNCHANGED at
         \/ at = "prepare" /\ at' \in {"fetch", "done"}
         \/ at = "apply" /\ at' = "done"
  PROVE  IInv'
  <1> USE DEF IInv, CancelInOrder, TokenInOrder, HandlesInOrder, ClosedOnce,
              token, ui
  <1>1. CancelInOrder'
    OBVIOUS
  <1>2. TokenInOrder'
    OBVIOUS
  <1>3. HandlesInOrder'
    OBVIOUS
  <1>4. ClosedOnce'
    OBVIOUS
  <1>5. QED BY <1>1, <1>2, <1>3, <1>4

(* Pruning keeps a part of the rates.                                      *)
LEMMA PrepareKeeps ==
  ASSUME IInv, Prepare
  PROVE  IInv'
  <1>1. rates' \in [Foreign -> SUBSET Days]
    BY DEF Prepare, PruneToDates, IInv, TypeOK
  <1>2. dirty' \in BOOLEAN
    BY DEF Prepare, IInv, TypeOK
  <1>3. /\ at' \in {"fetch", "done"}
        /\ UNCHANGED <<dates, saved, top, got, handle, twice, token, ui, silent>>
    BY DEF Prepare
  <1>4. TypeOK'
    BY <1>1, <1>2, <1>3 DEF IInv, TypeOK, token, ui
  <1>5. UNCHANGED ToUnwind
    BY <1>3 DEF Prepare, ToUnwind
  <1>6. QED BY <1>3, <1>4, <1>5, HandlesKeep DEF Prepare

(* A download adds rates of days on which there are transactions.          *)
LEMMA ApplyKeeps ==
  ASSUME IInv, Apply
  PROVE  IInv'
  <1>1. rates' \in [Foreign -> SUBSET Days]
    <2>1. \A a \in Accounts : Range(dates[a]) \subseteq Days
      BY DEF Range, IInv, TypeOK
    <2>2. WantedDates(dates) \subseteq Days
      BY <2>1 DEF WantedDates
    <2>3. QED BY <2>2 DEF Apply, AddPublished, IInv, TypeOK
  <1>2. /\ at' = "done" /\ dirty' = TRUE
        /\ UNCHANGED <<dates, saved, top, got, handle, twice, token, ui, silent>>
    BY DEF Apply
  <1>3. TypeOK'
    BY <1>1, <1>2 DEF IInv, TypeOK, token, ui
  <1>4. UNCHANGED ToUnwind
    BY <1>2 DEF Apply, ToUnwind
  <1>5. QED BY <1>2, <1>3, <1>4, HandlesKeep DEF Apply

(* What happens between downloads changes the database alone.              *)
LEMMA DatabaseKeeps ==
  ASSUME IInv, UNCHANGED <<worker, handle, twice, token, ui, silent>>,
         dates' \in [Accounts -> Seq(Days)],
         rates' \in [Foreign -> SUBSET Days],
         dirty' \in BOOLEAN,
         saved' \in [dates : [Accounts -> Seq(Days)],
                     rates : [Foreign -> SUBSET Days]]
  PROVE  IInv'
  <1>1. TypeOK'
    BY DEF IInv, TypeOK, worker, token, ui
  <1>2. UNCHANGED ToUnwind
    BY DEF worker, ToUnwind
  <1>3. QED BY <1>1, <1>2, HandlesKeep DEF worker

(* A transaction of any day arrives at the end of an account.              *)
LEMMA AddTransactionKeeps ==
  ASSUME IInv, NEW a \in Accounts, NEW d \in Days, AddTransaction(a, d)
  PROVE  IInv'
  <1>1. dates' = [dates EXCEPT ![a] = Append(@, d)]
    BY DEF AddTransaction
  <1>2. dates[a] \in Seq(Days)
    BY DEF IInv, TypeOK
  <1>3. dates' \in [Accounts -> Seq(Days)]
    BY <1>1, <1>2 DEF IInv, TypeOK
  <1>4. QED BY <1>3, DatabaseKeeps DEF AddTransaction, IInv, TypeOK

(* An import drops transactions from the end.                              *)
LEMMA PrepareImportKeeps ==
  ASSUME IInv, NEW a \in Accounts, NEW d \in Days, PrepareImport(a, d)
  PROVE  IInv'
  <1> DEFINE older == {i \in DOMAIN dates[a] : dates[a][i] < d}
             kept  == older \cup {0}
  <1>1. dates' = [dates EXCEPT ![a] = SubSeq(@, 1, Max(kept))]
    BY DEF PrepareImport
  <1>2. dates[a] \in Seq(Days)
    BY DEF IInv, TypeOK
  <1>3. /\ DOMAIN dates[a] = 1 .. Len(dates[a]) /\ Len(dates[a]) \in Nat
        /\ kept \in SUBSET Nat /\ kept # {} /\ \A n \in kept : n <= Len(dates[a])
    BY <1>2
  <1>4. Max(kept) \in 0 .. Len(dates[a])
    <2> HIDE DEF kept
    <2>1. Max(kept) \in kept
      <3>1. Len(dates[a]) \in Nat
        BY <1>3
      <3>2. QED BY <1>3, <3>1, MinMax
    <2>2. Max(kept) \in Nat /\ Max(kept) <= Len(dates[a])
      BY <1>3, <2>1, Zenon
    <2>3. QED BY <1>3, <2>2
  <1>5. SubSeq(dates[a], 1, Max(kept)) \in Seq(Days)
    BY <1>2, <1>4, CutOff
  <1>6. dates' \in [Accounts -> Seq(Days)]
    BY <1>1, <1>5 DEF IInv, TypeOK
  <1>7. QED BY <1>6, DatabaseKeeps DEF PrepareImport, IInv, TypeOK

LEMMA PruneLastKeeps ==
  ASSUME IInv, NEW a \in Accounts, PruneLast(a)
  PROVE  IInv'
  <1>1. dates' = [dates EXCEPT ![a] = SubSeq(@, 1, Len(@) - 1)]
        /\ dates[a] # <<>>
    BY DEF PruneLast
  <1>2. dates[a] \in Seq(Days)
    BY DEF IInv, TypeOK
  <1>3. Len(dates[a]) - 1 \in 0 .. Len(dates[a])
    BY <1>1, <1>2
  <1>4. SubSeq(dates[a], 1, Len(dates[a]) - 1) \in Seq(Days)
    BY <1>2, <1>3, CutOff
  <1>5. dates' \in [Accounts -> Seq(Days)]
    BY <1>1, <1>4 DEF IInv, TypeOK
  <1>6. QED BY <1>5, DatabaseKeeps DEF PruneLast, IInv, TypeOK

LEMMA SaveKeeps ==
  ASSUME IInv, Save
  PROVE  IInv'
  <1>1. saved' \in [dates : [Accounts -> Seq(Days)],
                    rates : [Foreign -> SUBSET Days]]
    BY DEF Save, IInv, TypeOK
  <1>2. QED BY <1>1, DatabaseKeeps DEF Save, IInv, TypeOK

(* What is loaded is what was saved, in another order.                     *)
LEMMA LoadKeeps ==
  ASSUME IInv, Load
  PROVE  IInv'
  <1>1. \A a \in Accounts : saved.dates[a] \in Seq(Days)
    BY DEF IInv, TypeOK
  <1>2. \A a \in Accounts : dates'[a] \in Seq(Days)
    BY <1>1, SortedDays DEF Load
  <1>3. dates' \in [Accounts -> Seq(Days)]
    BY <1>2 DEF Load
  <1>4. QED BY <1>3, DatabaseKeeps DEF Load, IInv, TypeOK

-----------------------------------------------------------------------------
(* Nothing is open and no account has a transaction at first.              *)
LEMMA IInvInit == Init => IInv
  <1> SUFFICES ASSUME Init PROVE IInv
    OBVIOUS
  <1>1. TypeOK
    <2>1. dates \in [Accounts -> Seq(Days)]
      BY DEF Init
    <2>2. /\ rates \in [Foreign -> SUBSET Days]
          /\ saved \in [dates : [Accounts -> Seq(Days)],
                        rates : [Foreign -> SUBSET Days]]
      BY <2>1 DEF Init, NoRates
    <2>3. top \in Handles /\ got \in 0 .. 2
      BY DEF Init, Handles
    <2>4. dirty = FALSE /\ cancelled = FALSE /\ sent = FALSE
      BY DEF Init
    <2>5. handle \in [Handles -> {"unopened", "open", "closed"}]
      BY DEF Init
    <2>6. /\ at = "done" /\ twice = {} /\ silent = {} /\ dialog = "none"
          /\ active = Free /\ grip = Free
      BY DEF Init
    <2>7. QED BY <2>1, <2>2, <2>3, <2>4, <2>5, <2>6 DEF TypeOK
  <1>2. CancelInOrder /\ TokenInOrder /\ ClosedOnce
    BY DEF Init, CancelInOrder, TokenInOrder, ClosedOnce
  <1>3. HandlesInOrder
    BY FreeAssumption DEF Init, HandlesInOrder, ToUnwind, Handles
  <1>4. QED BY <1>1, <1>2, <1>3 DEF IInv

(* Every step keeps the invariant.                                         *)
LEMMA IInvNext ==
  ASSUME IInv, [Next]_vars
  PROVE  IInv'
  <1>1. CASE UNCHANGED vars
    <2>1. UNCHANGED <<dates, rates, dirty, saved, at, top, got, handle, twice,
                      active, cancelled, dialog, sent, grip, silent>>
      BY <1>1 DEF vars, database, worker, token, ui
    <2>2. QED
      BY <2>1 DEF IInv, TypeOK, CancelInOrder, TokenInOrder, HandlesInOrder,
                  ToUnwind, ClosedOnce
  <1>2. CASE \/ \E a \in Accounts, d \in Days :
                  AddTransaction(a, d) \/ PrepareImport(a, d)
             \/ \E a \in Accounts : PruneLast(a)
             \/ Save \/ Load
    BY <1>2, AddTransactionKeeps, PrepareImportKeeps, PruneLastKeeps, SaveKeeps,
       LoadKeeps
  <1>3. CASE Begin \/ Cancel \/ Answered
    BY <1>3, BeginKeeps, CancelKeeps, AnsweredKeeps
  <1>4. CASE Work
    BY <1>4, PrepareKeeps, OpenSessionKeeps, SetActiveHandleKeeps,
       TryClaimHandleKeeps, CloseParentsKeeps, VerdictKeeps, ApplyKeeps DEF Work
  <1>5. CASE Dialog
    BY <1>5, TakeActiveKeeps, CloseTakenKeeps, EndKeeps DEF Dialog
  <1>6. QED BY <1>1, <1>2, <1>3, <1>4, <1>5 DEF Next

(* The inductive invariant holds in every reachable state.                 *)
THEOREM InvariantHolds == Spec => []IInv
  <1>1. IInv /\ [Next]_vars => IInv'
    BY IInvNext
  <1>2. QED BY IInvInit, <1>1, PTL DEF Spec

(* The request handle is closed by one thread only, however a cancel and   *)
(* the end of a call fall (TryClaimHandle() against Cancel()).             *)
THEOREM RequestClosedOnce == Spec => []ClosedOnce
  <1>1. IInv => ClosedOnce
    BY DEF IInv
  <1>2. QED BY InvariantHolds, <1>1, PTL

(* When the dialog may go, every handle that was opened has been closed.   *)
THEOREM AllHandlesClosed == Spec => []NothingLeftOpen
  <1>1. IInv => NothingLeftOpen
    BY DEF IInv, HandlesInOrder, ToUnwind, NothingLeftOpen
  <1>2. QED BY InvariantHolds, <1>1, PTL

-----------------------------------------------------------------------------
(* What an update does to the rates.                                       *)

(* A rate that is there is used for its own day.                           *)
LEMMA OwnDayFirst ==
  ASSUME NEW cached \in SUBSET Nat, NEW d \in cached
  PROVE  GetRate(cached, d) = d
  <1> DEFINE earlier == {e \in cached : e <= d}
  <1>1. d \in Nat /\ earlier \in SUBSET Nat
    OBVIOUS
  <1>2. d \in earlier
    BY <1>1
  <1>3. Max(earlier) \in earlier /\ \A n \in earlier : n <= Max(earlier)
    <2>1. \A n \in earlier : n <= d
      OBVIOUS
    <2>2. QED BY <1>1, <1>2, <2>1, MinMax
  <1>4. Max(earlier) = d
    BY <1>1, <1>2, <1>3
  <1>5. QED BY <1>2, <1>4 DEF GetRate

(* If no download is worth its while, no weekday on which an account has   *)
(* transactions lacks a rate, if the account is in order: then all its     *)
(* days are between that of the first and that of the last.                *)
LEMMA NothingMissing ==
  ASSUME IInv, NEW rs, ~HasMissing(dates, rs),
         NEW c \in Foreign, NEW a \in AccountsIn(c), InOrder(dates[a]),
         NEW d \in Range(dates[a]), ~IsWeekend(d)
  PROVE  d \in rs[c]
  <1>1. /\ a \in Accounts /\ CurrencyOf[a] = c
        /\ dates[a] \in Seq(Days) /\ Days \subseteq Nat
    BY DownloadAssumption DEF IInv, TypeOK, AccountsIn
  <1>2. PICK i \in DOMAIN dates[a] : d = dates[a][i]
    BY DEF Range
  <1>3. /\ i \in 1 .. Len(dates[a]) /\ DOMAIN dates[a] = 1 .. Len(dates[a])
        /\ Len(dates[a]) \in Nat /\ 1 \in DOMAIN dates[a]
        /\ Len(dates[a]) \in DOMAIN dates[a]
    BY <1>1, <1>2
  <1> DEFINE first == dates[a][1]
             last  == dates[a][Len(dates[a])]
  <1>4. first \in Nat /\ last \in Nat /\ d \in Nat
    <2>1. \A k \in 1 .. Len(dates[a]) : dates[a][k] \in Days
      BY <1>1
    <2>2. QED BY <1>1, <1>2, <1>3, <2>1
  <1>5. first <= d
    <2>1. CASE i = 1 BY <1>2, <1>4, <2>1
    <2>2. CASE 1 < i BY <1>2, <1>3, <2>2 DEF InOrder
    <2>3. QED BY <1>3, <2>1, <2>2
  <1>6. d <= last
    <2>1. CASE i = Len(dates[a]) BY <1>2, <1>4, <2>1
    <2>2. CASE i < Len(dates[a]) BY <1>2, <1>3, <2>2 DEF InOrder
    <2>3. QED BY <1>3, <2>1, <2>2
  <1>7. FindMissingDates(rs[c], first, last) = {}
    <2>1. dates[a] # <<>>
      BY <1>3
    <2>2. QED BY <1>1, <2>1 DEF HasMissing, AccountsIn
  <1>8. d \in first .. last
    BY <1>4, <1>5, <1>6
  <1>9. QED BY <1>7, <1>8 DEF FindMissingDates

(* However an update ends, it takes no rate from a day that has            *)
(* transactions (UpdateExchangeRates(), PruneToDates()).                   *)
THEOREM UsedRatesStay == Spec => RatesKept
  <1>1. ASSUME [Next]_vars, dialog # "none", NEW c \in Foreign
        PROVE  (DaysIn(c) \cap rates[c]) \subseteq rates'[c]
    <2>1. CASE Prepare
      BY <2>1 DEF Prepare, PruneToDates, WantedDates, DaysIn, AccountsIn
    <2>2. CASE Apply
      BY <2>2 DEF Apply, AddPublished
    <2>3. CASE UNCHANGED rates
      BY <2>3
    <2>4. QED
      BY <1>1, <2>1, <2>2, <2>3
      DEF Next, Work, Dialog, AddTransaction, PrepareImport, PruneLast, Save, Load,
          Begin, Cancel, Answered, OpenSession, SetActiveHandle, TryClaimHandle,
          CloseParents, Verdict, TakeActive, CloseTaken, End, vars, database
  <1>2. [Next]_vars =>
          [dialog # "none" =>
             \A c \in Foreign :
               (DaysIn(c) \cap rates[c]) \subseteq rates'[c]]_vars
    BY <1>1
  <1>3. QED BY <1>2, PTL DEF Spec, RatesKept

(* A download that succeeds leaves every transaction that has a rate of    *)
(* its own day with that rate; an update that finds nothing to do, those   *)
(* of each account that is in order, of which HasMissingExchangeRates()    *)
(* looks at enough. Rates are published on weekdays only, and only those   *)
(* are looked for.                                                         *)
PublishedOnWeekdays == \A c \in Foreign : \A d \in Published[c] : ~IsWeekend(d)

THEOREM SettledRatesAreExact ==
  ASSUME PublishedOnWeekdays
  PROVE  Spec => SettledIsExact
  <1>1. ASSUME IInv, [Next]_vars, at \in {"prepare", "apply"}, at' = "done",
               NEW c \in Foreign, NEW a \in AccountsIn(c),
               at = "apply" \/ InOrder(dates[a])
        PROVE  Exact(a)
    <2>1. Prepare \/ Apply
      BY <1>1
      DEF Next, Work, Dialog, AddTransaction, PrepareImport, PruneLast, Save, Load,
          Begin, Cancel, Answered, OpenSession, SetActiveHandle, TryClaimHandle,
          CloseParents, Verdict, TakeActive, CloseTaken, End, vars, database,
          worker, IInv, CancelInOrder
    <2>2. ASSUME NEW d \in Range(dates[a]), d \in Published[c]
          PROVE  d \in rates'[c]
      <3>1. CASE Prepare
        <4>1. ~HasMissing(dates, rates') /\ InOrder(dates[a])
          BY <1>1, <3>1 DEF Prepare
        <4>2. QED BY <1>1, <2>2, <4>1, NothingMissing DEF PublishedOnWeekdays
      <3>2. CASE Apply
        <4>1. d \in WantedDates(dates)
          BY <1>1, <2>2 DEF WantedDates, AccountsIn
        <4>2. QED BY <1>1, <2>2, <3>2, <4>1 DEF Apply, AddPublished
      <3>3. QED BY <2>1, <3>1, <3>2
    <2>3. rates'[c] \in SUBSET Nat
      BY <1>1, IInvNext, DownloadAssumption DEF IInv, TypeOK
    <2>4. CurrencyOf[a] = c
      BY <1>1 DEF AccountsIn
    <2>5. QED BY <2>2, <2>3, <2>4, OwnDayFirst DEF Exact
  <1>2. IInv /\ [Next]_vars =>
          [(at \in {"prepare", "apply"} /\ at' = "done") =>
             \A c \in Foreign : \A a \in AccountsIn(c) :
               at = "apply" \/ InOrder(dates[a]) => Exact(a)]_vars
    BY <1>1
  <1>3. QED BY InvariantHolds, <1>2, PTL DEF Spec, SettledIsExact

-----------------------------------------------------------------------------
(* Every variable keeps its type, whatever the two threads do.             *)
THEOREM TypeCorrect == Spec => []TypeOK
  <1>1. IInv => TypeOK
    BY DEF IInv
  <1>2. QED BY InvariantHolds, <1>1, PTL

(* A database that counts as saved has the rates it was saved with: every  *)
(* update that changes them marks it (Modified() in UpdateExchangeRates()).*)
THEOREM RatesAreSaved == Spec => []CleanRatesSaved
  <1>1. Init => CleanRatesSaved
    BY DEF Init, CleanRatesSaved
  <1>2. ASSUME CleanRatesSaved, [Next]_vars PROVE CleanRatesSaved'
    <2>1. CASE Prepare
      BY <1>2, <2>1 DEF Prepare, CleanRatesSaved
    <2>2. CASE dirty' = TRUE
      BY <2>2 DEF CleanRatesSaved
    <2>3. CASE Save \/ Load
      BY <2>3 DEF Save, Load, CleanRatesSaved
    <2>4. CASE UNCHANGED <<rates, dirty, saved>>
      BY <1>2, <2>4 DEF CleanRatesSaved
    <2>5. QED
      BY <1>2, <2>1, <2>2, <2>3, <2>4
      DEF Next, Work, Dialog, AddTransaction, PrepareImport, PruneLast, Begin,
          Cancel, Answered, OpenSession, SetActiveHandle, TryClaimHandle,
          CloseParents, Verdict, Apply, TakeActive, CloseTaken, End, vars, database
  <1>3. CleanRatesSaved /\ [Next]_vars => CleanRatesSaved'
    BY <1>2
  <1>4. QED BY <1>1, <1>3, PTL DEF Spec
=============================================================================
