---------------------------- MODULE ExchangeRates ----------------------------
(***************************************************************************)
(* The cache of published exchange rates: ExchangeRateHistory, and what    *)
(* AccountManager asks of it. A rate is known by the day it was published  *)
(* for, so the cache of a currency is a set of days, and the rate that is  *)
(* used for a day is one of them, or the built-in Default. A day is its    *)
(* serial number, as in the code. Of an account's vector of transactions   *)
(* only the days count here, in the order of the vector.                   *)
(***************************************************************************)
EXTENDS Naturals, Sequences, FiniteSets, FiniteSetsExt, Functions

CONSTANTS
  Accounts,   \* the accounts of the database
  CurrencyOf, \* the currency of each
  Foreign,    \* the currencies that have rates: all but the forint
  Default     \* the rate that is compiled into the program

ASSUME RatesAssumption ==
  /\ IsFiniteSet(Accounts)
  /\ DOMAIN CurrencyOf = Accounts
  /\ Default \notin Nat

NoRates == [c \in Foreign |-> {}]

\* Saturday or Sunday, counted from the first day of the serial numbers.
IsWeekend(d) == d % 7 \in {0, 1}

\* The nearest cached day that is not later, or else the built-in rate.
GetRate(cached, d) ==
  LET earlier == {e \in cached : e <= d}
  IN  IF earlier = {} THEN Default ELSE Max(earlier)

FindMissingDates(cached, first, last) ==
  {d \in first .. last : ~IsWeekend(d) /\ d \notin cached}

\* The days on which the accounts have transactions, and what is left of the
\* rates when only those are kept.
\* (Seeded fault: of each account only the last one.)
WantedDates_Last(dates) ==
  {dates[a][Len(dates[a])] : a \in {x \in Accounts : dates[x] # <<>>}}

WantedDates(dates) == UNION {Range(dates[a]) : a \in Accounts}

PruneToDates(rates, wanted) == [c \in Foreign |-> rates[c] \cap wanted]

(* Whether a download is worth its while: from the first to the last       *)
(* transaction in the vector of an account in foreign currency some        *)
(* weekday has no rate. Those are not the earliest and the latest one if   *)
(* the vector is out of order, and if the first is later than the last     *)
(* then nothing is missing.                                                *)
\* (Seeded fault: only its last day counts.)
HasMissing_Last(dates, rates) ==
  \E a \in Accounts :
    /\ CurrencyOf[a] \in Foreign /\ dates[a] # <<>>
    /\ LET last == dates[a][Len(dates[a])]
       IN  FindMissingDates(rates[CurrencyOf[a]], last, last) # {}

HasMissing(dates, rates) ==
  \E a \in Accounts :
    /\ CurrencyOf[a] \in Foreign /\ dates[a] # <<>>
    /\ FindMissingDates(rates[CurrencyOf[a]],
                        dates[a][1], dates[a][Len(dates[a])]) # {}

\* ParseWorksheet(): the published rates of the wanted days join the cache.
\* (Seeded fault: all rates are kept.)
AddPublished_All(rates, published, wanted) ==
  [c \in Foreign |-> rates[c] \cup published[c]]

AddPublished(rates, published, wanted) ==
  [c \in Foreign |-> rates[c] \cup (published[c] \cap wanted)]
=============================================================================
