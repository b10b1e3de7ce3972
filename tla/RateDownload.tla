---------------------------- MODULE RateDownload ----------------------------
(***************************************************************************)
(* Bringing the exchange rates up to date: UpdateExchangeRates() runs on a *)
(* worker thread while RunBlockingWithProgress() shows a dialog that may   *)
(* cancel it (AccountManager.cpp, MnbExchangeRateClient.cpp,               *)
(* RunWithProgress.cpp, UpdateExchangeRates() and Import() of cMain.cpp).  *)
(*                                                                         *)
(* The two threads share a FetchCancelToken: a flag, and the handle that   *)
(* is to be closed in order to cancel. The worker opens three handles, one *)
(* from the other, and registers each after it has been opened. Closing a  *)
(* handle makes a call that is blocked on it fail; nothing else does when  *)
(* the other end is silent.                                                *)
(***************************************************************************)
EXTENDS ExchangeRates

CONSTANTS
  Days,       \* the days transactions are on
  Published,  \* the days each currency has a rate for
  Silences,   \* which calls may be left unanswered in one download
  Free,       \* no handle
  MaxTxns     \* bound: transactions in the database

ASSUME DownloadAssumption ==
  /\ Days \subseteq Nat /\ MaxTxns \in Nat
  /\ Published \in [Foreign -> SUBSET Nat]

\* A call on one handle opens the next; the last one is what is downloaded.
Handles == {"session", "connect", "request"}
Opens   == [session |-> "connect", connect |-> "request"]
Parent  == [connect |-> "session", request |-> "connect"]

ASSUME FreeAssumption == Free \notin Handles
ASSUME SilenceAssumption == Silences \subseteq SUBSET Handles

VARIABLES
  dates,     \* the days of the transactions of each account, as they lie
  rates,     \* AccountManager::m_exchange_rates
  dirty,     \* whether the database counts as modified
  saved,     \* the file: both as they were when it was last saved
  at,        \* where the worker is
  top,       \* the handle it is concerned with
  got,       \* how much of the response it has
  handle,    \* what became of each handle
  twice,     \* history: the handles that were closed when they were closed
  active,    \* FetchCancelToken::m_active_handle
  cancelled, \* FetchCancelToken::m_cancelled
  dialog,    \* where the user interface is
  sent,      \* cancel_sent
  grip,      \* the handle that Cancel() has taken from the token
  silent     \* the calls that nobody answers this time

token    == <<active, cancelled>>
worker   == <<at, top, got>>
ui       == <<dialog, sent, grip>>
database == <<dates, rates, dirty, saved>>
vars == <<database, worker, handle, twice, token, ui, silent>>

Waiting == {"waiting", "cancelling", "closing"}

Close(h) ==
  /\ handle' = [handle EXCEPT ![h] = "closed"]
  /\ twice' = IF handle[h] = "closed" THEN twice \cup {h} ELSE twice

-----------------------------------------------------------------------------
(* Between downloads transactions come and go at the end of an account,    *)
(* and the database is saved and loaded. AddTransaction() appends whatever *)
(* day it is given: the rows of an export are taken in its order, and      *)
(* those of a journal in that of its imports, which need not be that of    *)
(* the days.                                                               *)
Transactions == UNION {{a} \X DOMAIN dates[a] : a \in Accounts}

AddTransaction(a, d) ==
  /\ dialog = "none"
  /\ Cardinality(Transactions) < MaxTxns
  /\ dates' = [dates EXCEPT ![a] = Append(@, d)]
  /\ dirty' = TRUE
  /\ UNCHANGED <<rates, saved, worker, handle, twice, token, ui, silent>>

\* An import that begins on day d: the account ends there or a day later,
\* and what is not older goes from its end. Nothing is marked as changed.
PrepareImport(a, d) ==
  LET last  == dates[a][Len(dates[a])]
      older == {i \in DOMAIN dates[a] : dates[a][i] < d}
  IN  /\ dialog = "none"
      /\ dates[a] # <<>> /\ last \in {d, d + 1}
      /\ dates' = [dates EXCEPT ![a] = SubSeq(@, 1, Max(older \cup {0}))]
      /\ UNCHANGED <<rates, dirty, saved, worker, handle, twice, token, ui,
                     silent>>

PruneLast(a) ==
  /\ dialog = "none"
  /\ dates[a] # <<>>
  /\ dates' = [dates EXCEPT ![a] = SubSeq(@, 1, Len(@) - 1)]
  /\ dirty' = TRUE
  /\ UNCHANGED <<rates, saved, worker, handle, twice, token, ui, silent>>

Save ==
  /\ dialog = "none" /\ dirty
  /\ dirty' = FALSE
  /\ saved' = [dates |-> dates, rates |-> rates]
  /\ UNCHANGED <<dates, rates, worker, handle, twice, token, ui, silent>>

\* What std::sort may make of the days of an account.
InOrder(days) == \A i, j \in DOMAIN days : i < j => days[i] <= days[j]

Sorts(days) ==
  {s \in {[i \in DOMAIN days |-> days[p[i]]] :
          p \in Bijection(DOMAIN days, DOMAIN days)} : InOrder(s)}

\* A session begins anew, with the accounts in order and without what was not
\* saved.
Load ==
  /\ dialog = "none"
  /\ dates' \in [Accounts -> UNION {Sorts(saved.dates[a]) : a \in Accounts}]
  /\ \A a \in Accounts : dates'[a] \in Sorts(saved.dates[a])
  /\ rates' = saved.rates
  /\ dirty' = FALSE
  /\ UNCHANGED <<saved, worker, handle, twice, token, ui, silent>>

-----------------------------------------------------------------------------
(* RunBlockingWithProgress(): a token of its own for every download, a     *)
(* loop that looks at the worker, the button and the clock, and a join,    *)
(* after which token and handles are gone.                                 *)
Begin ==
  /\ dialog = "none"
  /\ dialog' = "waiting"
  /\ at' = "prepare"
  /\ silent' \in Silences
  /\ UNCHANGED <<database, top, got, handle, twice, token, sent, grip>>

\* The user cancels, or the time is up: Cancel() begins with the flag.
Cancel ==
  /\ dialog = "waiting" /\ ~sent
  /\ sent' = TRUE
  /\ cancelled' = TRUE
  /\ dialog' = "cancelling"
  /\ UNCHANGED <<database, worker, handle, twice, active, grip, silent>>

\* Cancel() takes the active handle under the lock, and closes it outside.
TakeActive ==
  /\ dialog = "cancelling"
  /\ grip' = active
  /\ active' = Free
  /\ dialog' = IF active = Free THEN "waiting" ELSE "closing"
  /\ UNCHANGED <<database, worker, handle, twice, cancelled, sent, silent>>

\* (Seeded fault: the handle is not closed after all.)
CloseTaken_Not ==
  /\ dialog = "closing"
  /\ dialog' = "waiting"
  /\ UNCHANGED <<database, worker, handle, twice, token, sent, grip, silent>>

CloseTaken ==
  /\ dialog = "closing"
  /\ Close(grip)
  /\ dialog' = "waiting"
  /\ UNCHANGED <<database, worker, token, sent, grip, silent>>

End ==
  /\ dialog = "waiting" /\ at = "done"
  /\ dialog' = "none" /\ sent' = FALSE /\ grip' = Free
  /\ active' = Free /\ cancelled' = FALSE
  /\ top' = "session" /\ got' = 0 /\ silent' = {}
  /\ handle' = [h \in Handles |-> "unopened"] /\ twice' = {}
  /\ UNCHANGED <<database, at>>

-----------------------------------------------------------------------------
(* UpdateExchangeRates() up to the download: prune, then see what is       *)
(* missing.                                                                *)
Prepare ==
  /\ at = "prepare"
  /\ rates' = PruneToDates(rates, WantedDates(dates))
  /\ dirty' = (dirty \/ rates' # rates)
  /\ at' = IF HasMissing(dates, rates') THEN "fetch" ELSE "done"
  /\ UNCHANGED <<dates, saved, top, got, handle, twice, token, ui, silent>>

(* HttpGet(): it looks at the flag once, at its beginning.                 *)
OpenSession ==
  /\ at = "fetch"
  /\ \/ /\ ~cancelled
        /\ handle' = [handle EXCEPT !["session"] = "open"]
        /\ at' = "register"
     \/ /\ at' = "done"   \* cancelled, or it could not be opened
        /\ UNCHANGED handle
  /\ UNCHANGED <<database, top, got, twice, token, ui, silent>>

SetActiveHandle ==
  /\ at = "register"
  /\ active' = top
  /\ at' = "call"
  /\ UNCHANGED <<database, top, got, handle, twice, cancelled, ui, silent>>

(* A blocking call ends: with the next handle, with more of the response,  *)
(* or in failure. On a closed handle it can only fail.                     *)
Answered ==
  /\ at = "call"
  /\ \/ /\ handle[top] = "open" /\ top # "request"
        /\ top' = Opens[top]
        /\ handle' = [handle EXCEPT ![top'] = "open"]
        /\ at' = "register"
        /\ UNCHANGED got
     \/ /\ handle[top] = "open" /\ top = "request"
        /\ got' = got + 1
        /\ at' = IF got' = 2 THEN "unwind" ELSE "call"
        /\ UNCHANGED <<top, handle>>
     \/ /\ at' = "unwind"
        /\ UNCHANGED <<top, got, handle>>
  /\ UNCHANGED <<database, twice, token, ui, silent>>

\* The newest handle is closed by whoever claims it.
\* (Seeded fault: the worker closes it whether or not it is still its own.)
TryClaimHandle_Always ==
  /\ at = "unwind"
  /\ Close(top)
  /\ active' = Free
  /\ at' = "parents"
  /\ UNCHANGED <<database, top, got, cancelled, ui, silent>>

TryClaimHandle ==
  /\ at = "unwind"
  /\ IF active = top
       THEN active' = Free /\ Close(top)
       ELSE UNCHANGED <<active, handle, twice>>
  /\ at' = "parents"
  /\ UNCHANGED <<database, top, got, cancelled, ui, silent>>

\* The older handles are closed without asking.
\* (Seeded fault: the oldest is forgotten.)
CloseParents_One ==
  /\ at = "parents"
  /\ IF top = "request"
       THEN top' = Parent[top] /\ Close(top') /\ UNCHANGED at
       ELSE at' = "verdict" /\ UNCHANGED <<top, handle, twice>>
  /\ UNCHANGED <<database, got, token, ui, silent>>

CloseParents ==
  /\ at = "parents"
  /\ IF top = "session"
       THEN at' = "verdict" /\ UNCHANGED <<top, handle, twice>>
       ELSE top' = Parent[top] /\ Close(top') /\ UNCHANGED at
  /\ UNCHANGED <<database, got, token, ui, silent>>

\* What has come of it: all of an archive, and nobody has cancelled.
Verdict ==
  /\ at = "verdict"
  /\ \/ got = 2 /\ ~cancelled /\ at' = "apply"
     \/ at' = "done"
  /\ UNCHANGED <<database, top, got, handle, twice, token, ui, silent>>

\* DownloadAllRates() from the unpacking on.
Apply ==
  /\ at = "apply"
  /\ rates' = AddPublished(rates, Published, WantedDates(dates))
  /\ dirty' = TRUE
  /\ at' = "done"
  /\ UNCHANGED <<dates, saved, top, got, handle, twice, token, ui, silent>>

-----------------------------------------------------------------------------
Init ==
  /\ dates = [a \in Accounts |-> <<>>]
  /\ rates = NoRates /\ dirty = FALSE
  /\ saved = [dates |-> dates, rates |-> rates]
  /\ at = "done" /\ top = "session" /\ got = 0
  /\ handle = [h \in Handles |-> "unopened"] /\ twice = {}
  /\ active = Free /\ cancelled = FALSE
  /\ dialog = "none" /\ sent = FALSE /\ grip = Free
  /\ silent = {}

Work == Prepare \/ OpenSession \/ SetActiveHandle \/ TryClaimHandle
        \/ CloseParents \/ Verdict \/ Apply
Dialog == TakeActive \/ CloseTaken \/ End

Next ==
  \/ \E a \in Accounts, d \in Days : AddTransaction(a, d) \/ PrepareImport(a, d)
  \/ \E a \in Accounts : PruneLast(a)
  \/ Save \/ Load \/ Begin \/ Cancel
  \/ Answered \/ Work \/ Dialog

(* Both threads run, the time limit is reached, and a call ends if someone *)
(* answers it or its handle is closed.                                     *)
Fairness ==
  /\ WF_vars(Work) /\ WF_vars(Dialog) /\ WF_vars(Cancel)
  /\ WF_vars(Answered /\ (top \notin silent \/ handle[top] = "closed"))

Spec == Init /\ [][Next]_vars /\ Fairness

-----------------------------------------------------------------------------
(* Types; only an open or closed handle is registered or held.             *)
TypeOK ==
  /\ dates \in [Accounts -> Seq(Days)]
  /\ rates \in [Foreign -> SUBSET Days]
  /\ saved \in [dates : [Accounts -> Seq(Days)],
                rates : [Foreign -> SUBSET Days]]
  /\ dirty \in BOOLEAN /\ cancelled \in BOOLEAN /\ sent \in BOOLEAN
  /\ at \in {"prepare", "fetch", "register", "call", "unwind", "parents",
             "verdict", "apply", "done"}
  /\ top \in Handles /\ got \in 0 .. 2
  /\ handle \in [Handles -> {"unopened", "open", "closed"}]
  /\ twice \subseteq Handles /\ silent \in Silences \cup {{}}
  /\ dialog \in Waiting \cup {"none"}
  /\ \A h \in {active, grip} : h \in Handles \cup {Free}

(* A handle is closed once: the request by exactly one of the two threads, *)
(* and all of them unless someone cancels (TryClaimHandle() against        *)
(* Cancel()).                                                              *)
ClosedOnce == "request" \notin twice /\ (~sent => twice = {})

(* No handle at all is closed twice (comment in FetchCancelToken::Cancel() *)
(* and in MnbExchangeRateClient.h).                                        *)
NeverClosedTwice == twice = {}

(* When the dialog can end, no handle is left open, whoever was to close   *)
(* it.                                                                     *)
NothingLeftOpen ==
  dialog = "waiting" /\ at = "done" => \A h \in Handles : handle[h] # "open"

(* If nobody is going to be asked to save, the rates are saved.            *)
CleanRatesSaved == ~dirty => rates = saved.rates

\* The accounts in a currency, and the days of their transactions.
AccountsIn(c) == {a \in Accounts : CurrencyOf[a] = c}
DaysIn(c) == UNION {Range(dates[a]) : a \in AccountsIn(c)}

(* However an update ends, and whatever was pruned, cancelled or not       *)
(* answered, it takes no rate from a day that has transactions.            *)
RatesKept ==
  [][dialog # "none" =>
       \A c \in Foreign : (DaysIn(c) \cap rates[c]) \subseteq rates'[c]]_vars

\* Every transaction of an account that has a rate of its own day has it now.
Exact(a) ==
  LET c == CurrencyOf[a]
  IN  \A d \in Range(dates[a]) \cap Published[c] : GetRate(rates'[c], d) = d

(* A download that succeeds leaves every transaction that has a rate of    *)
(* its own day with that one, in whatever order the transactions lie; an   *)
(* update that finds nothing to do (HasMissingExchangeRates()), those of   *)
(* each account that is in order, as it is when it has been loaded.        *)
SettledIsExact ==
  [][(at \in {"prepare", "apply"} /\ at' = "done") =>
       \A c \in Foreign : \A a \in AccountsIn(c) :
         at = "apply" \/ InOrder(dates[a]) => Exact(a)]_vars

(* An update that finds nothing to do is right to do nothing (comment of   *)
(* UpdateExchangeRates() in AccountManager.h).                             *)
NothingIsMissing ==
  [][(at = "prepare" /\ at' = "done") =>
       \A c \in Foreign : \A a \in AccountsIn(c) : Exact(a)]_vars

(* The rate of the last day published carries forward over weekends and    *)
(* holidays (comment of GetRate() in ExchangeRateHistory.h).               *)
CarriesForward ==
  [][(at = "apply" /\ at' = "done") =>
       \A c \in Foreign : \A d \in DaysIn(c) :
         GetRate(rates'[c], d) = GetRate(Published[c], d)]_vars

(* Pruning never changes what an actual lookup returns (comment of         *)
(* PruneToDates() in ExchangeRateHistory.h).                               *)
PruningIsSafe ==
  [][(at = "prepare" /\ at' # "prepare") =>
       \A c \in Foreign : \A d \in DaysIn(c) :
         GetRate(rates'[c], d) = GetRate(rates[c], d)]_vars

(* The dialog ends by itself if every call is answered in time; and a      *)
(* request that is never answered is cut off by the user or the time       *)
(* limit, because the flag and the handle reach the worker.                *)
DialogEnds ==
  \/ dialog # "none" /\ silent = {}
  \/ at = "call" /\ active = "request" /\ ~sent
  ~> dialog = "none"

(* Cancelling ends the dialog, whenever it comes (comments in              *)
(* MnbExchangeRateClient.h and RunWithProgress.h).                         *)
CancelEnds == sent ~> (dialog = "none")
=============================================================================
