------------------------------ MODULE Queries -------------------------------
(***************************************************************************)
(* A read query: transaction after transaction passes the filters and is   *)
(* added to the sums of its topic and of its topic's period; tables,       *)
(* charts, converted charts and folded charts are then made of those sums  *)
(* (src/Query.cpp, src/ChartConversion.cpp, src/ChartFolding.cpp,          *)
(* BuildQueryFromFavorite() in src/FavoriteQuery.cpp).                     *)
(*                                                                         *)
(* Amounts are raw ones, in cents where a currency has cents. Rates are    *)
(* whole numbers. Names, formats and the order of rows are left out.       *)
(***************************************************************************)
EXTENDS Integers, Sequences, FiniteSets, Functions, SequencesExt

CONSTANTS
  Topics,       \* what the query adds up by: categories, accounts, ...
  Currencies,
  Default,      \* HUF
  Transactions, \* [topic, currency, amount, date]
  PeriodOf,     \* DateId of each date
  Rate,         \* GetRate(): HUF for a unit of a currency on a date; 0 if none
  Sides,        \* which ChartSideModes to consider
  Filters,      \* which filters: [ids, include, min, max]
  Share,        \* CHART_OTHERS_FOLD_TAIL_SHARE: one in Share
  Word,         \* int32_t goes up to Word - 1
  MaxRun        \* bound: transactions

ASSUME QueriesAssumption ==
  /\ Default \in Currencies /\ Topics \cap Currencies = {}
  /\ IsFiniteSet(Transactions)
  /\ \A t \in Transactions :
       /\ t.topic \in Topics /\ t.currency \in Currencies
       /\ t.amount \in Int /\ t.date \in DOMAIN PeriodOf
       /\ \A c \in Currencies : Rate[c][t.date] \in Nat
  /\ IsFiniteSet(DOMAIN PeriodOf) /\ DOMAIN PeriodOf \subseteq Int
  /\ Range(PeriodOf) \subseteq Int
  /\ Filters \subseteq [ids : SUBSET Topics, include : BOOLEAN, min : Int, max : Int]
  /\ Sides \subseteq {"net_sign", "split", "unsided"}
  /\ Share \in Nat \ {0} /\ Word \in Nat \ {0} /\ MaxRun \in Nat

VARIABLES
  filter, \* the filter elements of the query
  side,   \* GetChartSideMode() of its topic
  sums,   \* QuerySumByTopic: <<topic, currency>> -> Result
  cells,  \* PeriodicQuery: <<topic, period, currency>> -> Result
  span,   \* PeriodicQuery: m_min_date_id and m_max_date_id of each topic
  seen    \* history: how often each transaction was run

vars == <<filter, side, sums, cells, span, seen>>

-----------------------------------------------------------------------------
(* Money::GetValue(): one transaction in another currency, at the rates of *)
(* its own date, rounded towards zero.                                     *)
Quot(a, b) == IF a < 0 THEN -((-a) \div b) ELSE a \div b

ValueIn(t, to) ==
  LET huf == IF t.currency = Default THEN t.amount
                                     ELSE t.amount * Rate[t.currency][t.date]
  IN  IF to = t.currency THEN t.amount
      ELSE IF to = Default THEN huf
      ELSE IF Rate[to][t.date] = 0 THEN 0 ELSE Quot(huf, Rate[to][t.date])

\* A value is income or expense as the transaction is, in whatever currency.
LegsOf(t, v) == [inc |-> IF t.amount > 0 THEN v ELSE 0,
                 exp |-> IF t.amount > 0 THEN 0 ELSE v,
                 sum |-> v]

Plus(a, b) == [l \in {"inc", "exp", "sum"} |-> a[l] + b[l]]

NoLegs == [inc |-> 0, exp |-> 0, sum |-> 0]

NoResult == [native |-> NoLegs, ex |-> [c \in Currencies |-> NoLegs], count |-> 0]

\* QueryCurrencySum::CheckTransaction(): the native legs, those in every
\* currency, and the count.
ResultOf(t) == [native |-> LegsOf(t, t.amount),
                ex     |-> [c \in Currencies |-> LegsOf(t, ValueIn(t, c))],
                count  |-> 1]

Merged(r, s) == [native |-> Plus(r.native, s.native),
                 ex     |-> [c \in Currencies |-> Plus(r.ex[c], s.ex[c])],
                 count  |-> r.count + s.count]

AddTo(f, key, t) ==
  [k \in DOMAIN f \cup {key} |->
     IF k # key THEN f[k]
     ELSE Merged(IF k \in DOMAIN f THEN f[k] ELSE NoResult, ResultOf(t))]

All(f, keys) == MapThenFoldSet(Merged, NoResult, LAMBDA k : f[k],
                               LAMBDA S : CHOOSE k \in S : TRUE, keys)

-----------------------------------------------------------------------------
(* Account::RunQuery(): the filters come first and end the run of a        *)
(* transaction they do not let through. A range whose end is before its    *)
(* start is invalid and lets nothing through either. (Seeded fault: the    *)
(* last day of the range is outside of it.)                                *)
Topic(t) == IF side = "unsided" THEN t.currency ELSE t.topic

Lets_Exclusive(t) ==
  /\ (t.topic \in filter.ids) = filter.include
  /\ t.date >= filter.min /\ t.date < filter.max

Lets(t) ==
  /\ (t.topic \in filter.ids) = filter.include
  /\ t.date >= filter.min /\ t.date <= filter.max

\* The first and last period of a topic, in whatever order they come.
Widened(old, p) == <<IF p < old[1] THEN p ELSE old[1],
                     IF p > old[2] THEN p ELSE old[2]>>

RunQuery(t) ==
  LET topic == Topic(t)
      p     == PeriodOf[t.date]
      new   == IF topic \in DOMAIN span THEN Widened(span[topic], p) ELSE <<p, p>>
  IN  /\ SumFunction(seen) < MaxRun
      /\ seen' = [seen EXCEPT ![t] = @ + 1]
      /\ IF Lets(t)
           THEN /\ sums' = AddTo(sums, <<topic, t.currency>>, t)
                /\ cells' = AddTo(cells, <<topic, p, t.currency>>, t)
                /\ span' = [k \in DOMAIN span \cup {topic} |->
                              IF k = topic THEN new ELSE span[k]]
           ELSE UNCHANGED <<sums, cells, span>>
      /\ UNCHANGED <<filter, side>>

Init ==
  /\ filter \in Filters /\ side \in Sides
  /\ sums = <<>> /\ cells = <<>> /\ span = <<>>
  /\ seen = [t \in Transactions |-> 0]

Next == \E t \in Transactions : RunQuery(t)

Spec == Init /\ [][Next]_vars

-----------------------------------------------------------------------------
(* The tables: QuerySumByTopic::GetResults() and its exchanged total, and  *)
(* PeriodicQuery::GetTableResult(). What is added up there as Money is an  *)
(* int32_t and wraps. (Seeded fault: the last period has no column.)       *)
Int32(n) == ((n + Word) % (2 * Word)) - Word

GetResults(c) == All(sums, {k \in DOMAIN sums : k[2] = c})

ExchangedTotal == All(sums, DOMAIN sums).ex[Default]

Columns_ButLast ==
  {p \in Range(PeriodOf) : /\ \E k \in DOMAIN span : span[k][1] <= p
                           /\ \E k \in DOMAIN span : span[k][2] > p}

Columns ==
  {p \in Range(PeriodOf) : /\ \E k \in DOMAIN span : span[k][1] <= p
                           /\ \E k \in DOMAIN span : span[k][2] >= p}

ColumnTotal(p) ==
  Int32(All(cells, {k \in DOMAIN cells : k[2] = p}).ex[Default].sum)

RowTotal(topic, c) ==
  Int32(All(cells, {k \in DOMAIN cells :
                      k[1] = topic /\ k[2] \in Columns /\ k[3] = c}).native.sum)

GrandTotal ==
  Int32(All(cells, {k \in DOMAIN cells : k[2] \in Columns}).ex[Default].sum)

-----------------------------------------------------------------------------
(* The charts: which datasets a topic's sums in one currency are shown in, *)
(* and the leg shown there. (Seeded fault: whatever has a positive sum is  *)
(* income, in each mode.)                                                  *)
Datasets == {"net", "income", "expense"}

Shows_BySum(d, legs) ==
  CASE d = "net"    -> legs.inc # 0 \/ legs.exp # 0
    [] d = "income" -> legs.sum >= 0
    [] OTHER        -> legs.sum < 0

Shows(d, legs) ==
  CASE d = "net"                            -> legs.inc # 0 \/ legs.exp # 0
    [] d # "net" /\ side = "net_sign"       -> (d = "income") = (legs.inc + legs.exp >= 0)
    [] d = "income" /\ side # "net_sign"    -> legs.inc > 0
    [] OTHER                                -> legs.exp < 0

Pick(d, legs) ==
  CASE d = "net"                            -> legs.sum
    [] d # "net" /\ side = "net_sign"       -> IF d = "income" THEN legs.sum ELSE -legs.sum
    [] d = "income" /\ side # "net_sign"    -> legs.inc
    [] OTHER                                -> -legs.exp

(* A point is the result it is picked from. QuerySumByTopic has a point    *)
(* for a topic and currency; PeriodicQuery a series with one for every     *)
(* column, in the dataset that its totals over all columns belong to.      *)
(* (Seeded fault: those of its first column decide.)                       *)
TopicPoints(d) ==
  [k \in {k \in DOMAIN sums : Shows(d, sums[k].native)} |-> sums[k]]

At(key, p) == LET k == <<key[1], p, key[2]>>
              IN  IF k \in DOMAIN cells THEN cells[k] ELSE NoResult

TotalsOf_First(key) == At(key, span[key[1]][1])

TotalsOf(key) ==
  All(cells, {k \in DOMAIN cells :
                k[1] = key[1] /\ k[2] \in Columns /\ k[3] = key[2]})

SeriesPoints(d) ==
  [key \in {key \in {<<k[1], k[3]>> : k \in DOMAIN cells} :
              Shows(d, TotalsOf(key).native)}
     |-> [p \in Columns |-> At(key, p)]]

(* MergeConvertedToCurrency(): the points with one label, each converted   *)
(* at the rates of its transactions. With no topic the dataset is the      *)
(* label.                                                                  *)
Exchanged(d, key, res, to) ==
  Pick(d, IF key[2] = to THEN res.native ELSE res.ex[to])

Label(d, key) == IF side = "unsided" THEN d ELSE key[1]

MergeConverted(d, points, to) ==
  [l \in {Label(d, k) : k \in DOMAIN points} |->
     SumFunction([k \in {k \in DOMAIN points : Label(d, k) = l} |->
                    Exchanged(d, k, points[k], to)])]

-----------------------------------------------------------------------------
(* BuildFoldedTopicSlices(), BuildFoldedPeriodicSeries(): biggest first,   *)
(* and from the smallest on as many become "Others" as make up one part in *)
(* Share of the whole, unless that is only one. (Seeded fault: the one     *)
(* that goes past the share is still taken.)                               *)
Abs(n) == IF n < 0 THEN -n ELSE n

Size(value, l) == Abs(value[l])

Slices(value) ==
  CHOOSE s \in SetToSeqs({l \in DOMAIN value : value[l] # 0}) :
    \A i, j \in DOMAIN s : i < j => Size(value, s[i]) >= Size(value, s[j])

SizeFrom(value, slices, n) ==
  SumFunction([i \in n..Len(slices) |-> Size(value, slices[i])])

Cutoff_Past(value, slices) ==
  CHOOSE n \in 0..Len(slices) :
    /\ SizeFrom(value, slices, n + 2) * Share <= SizeFrom(value, slices, 1)
    /\ n > 0 => SizeFrom(value, slices, n + 1) * Share > SizeFrom(value, slices, 1)

Cutoff(value, slices) ==
  CHOOSE n \in 0..Len(slices) :
    /\ SizeFrom(value, slices, n + 1) * Share <= SizeFrom(value, slices, 1)
    /\ n > 0 => SizeFrom(value, slices, n) * Share > SizeFrom(value, slices, 1)

Folded(value) ==
  LET slices == Slices(value)
      cutoff == Cutoff(value, slices)
  IN  IF slices = <<>> \/ Len(slices) - cutoff <= 1 THEN {}
      ELSE {slices[i] : i \in cutoff + 1 .. Len(slices)}

-----------------------------------------------------------------------------
\* The sums are of the topics and currencies of the transactions, and each
\* topic's span is the first and last period it has a cell in.
TypeOK ==
  /\ filter \in Filters /\ side \in Sides
  /\ DOMAIN sums \subseteq (Topics \cup Currencies) \X Currencies
  /\ \A k \in DOMAIN sums : sums[k].count \in 1..MaxRun
  /\ DOMAIN span = {k[1] : k \in DOMAIN cells}
  /\ \A l \in DOMAIN span :
       LET ps == {k[2] : k \in {k \in DOMAIN cells : k[1] = l}}
       IN  /\ {span[l][1], span[l][2]} \subseteq ps
           /\ \A p \in ps : span[l][1] <= p /\ p <= span[l][2]

\* SumsAreExact: whatever the topic, the table's lines of a currency add up
\* to the transactions of that currency in the days and topics asked for,
\* none missed and none counted twice, and income and expense never cancel
\* out in a leg (Account::RunQuery(), QueryCurrencySum::CheckTransaction(),
\* QuerySumByTopic::GetResults()).
SumsAreExact ==
  LET asked(t) == t.date \in filter.min .. filter.max
                  /\ (filter.include <=> t.topic \in filter.ids)
      of(c, share) == SumFunction([t \in {t \in Transactions : t.currency = c /\ asked(t)}
                                     |-> seen[t] * share[t]])
      one == [t \in Transactions |-> 1]
      inc == [t \in Transactions |-> IF t.amount > 0 THEN t.amount ELSE 0]
      exp == [t \in Transactions |-> IF t.amount < 0 THEN t.amount ELSE 0]
  IN  \A c \in Currencies :
        LET r == GetResults(c)
        IN  /\ r.count = of(c, one)
            /\ r.native.inc = of(c, inc)
            /\ r.native.exp = of(c, exp)
            /\ r.native.sum = r.native.inc + r.native.exp
            /\ r.ex[c] = r.native

\* TablesAgree: the periodic table and the table of sums, built from sums of
\* their own, show the same totals, up to the wrapping of an int32_t; so do a
\* row's periods and its total, and the columns and the grand total, though
\* a period in between may have no transaction
\* (PeriodicQuery::GetTableResult(), QuerySumByTopic::GetTableResult()).
TablesAgree ==
  /\ GrandTotal = Int32(ExchangedTotal.sum)
  /\ GrandTotal = Int32(SumFunction([p \in Columns |-> ColumnTotal(p)]))
  /\ \A k \in DOMAIN sums : RowTotal(k[1], k[2]) = Int32(sums[k].native.sum)

\* ChartsBalance: whichever way the topics are spread over the datasets,
\* what the income chart shows less what the expense chart shows is what the
\* net chart shows: in each currency, and for every label they share once all
\* is converted to one currency (QuerySumByTopic::GetChartResult(),
\* MergeConvertedToCurrency()).
ChartsBalance ==
  LET shown(d, c) ==
        SumFunction([k \in {k \in DOMAIN TopicPoints(d) : k[2] = c} |->
                       Pick(d, sums[k].native)])
      label(d, l, to) ==
        LET v == MergeConverted(d, TopicPoints(d), to)
        IN  IF l \in DOMAIN v THEN v[l] ELSE 0
      whole(d, to) == SumFunction(MergeConverted(d, TopicPoints(d), to))
  IN  /\ \A c \in Currencies : shown("income", c) - shown("expense", c) = shown("net", c)
      /\ \A to \in Currencies :
           /\ whole("income", to) - whole("expense", to) = whole("net", to)
           /\ side # "unsided" =>
                \A l \in Topics :
                  label("income", l, to) - label("expense", l, to) = label("net", l, to)

\* ShapesAgree: a favourite shown over periods and shown as one sum tell the
\* same: the same topics are in each dataset, and a series adds up to its
\* topic's slice, in its own currency and in any other
\* (PeriodicQuery::GetChartResult(), QuerySumByTopic::GetChartResult()).
ShapesAgree ==
  \A d \in Datasets :
    LET points == TopicPoints(d)
        series == SeriesPoints(d)
    IN  /\ DOMAIN series = DOMAIN points
        /\ \A k \in DOMAIN series : \A to \in Currencies :
             SumFunction([p \in Columns |-> Exchanged(d, k, series[k][p], to)])
               = Exchanged(d, k, points[k], to)

\* OthersIsTheTail: "Others" stands for at least two topics, is at most the
\* share of the whole it may be, takes in no topic bigger than one that is
\* still drawn, and could take in no further one
\* (BuildFoldedTopicSlices()).
OthersIsTheTail ==
  \A d \in Datasets : \A to \in Currencies :
    LET value == MergeConverted(d, TopicPoints(d), to)
        drawn == {l \in DOMAIN value : value[l] # 0}
        size(S) == SumFunction([l \in S |-> Size(value, l)])
        others == Folded(value)
    IN  others # {} =>
          /\ Cardinality(others) >= 2
          /\ size(others) * Share <= size(drawn)
          /\ \A l \in drawn \ others :
               /\ \A o \in others : Size(value, o) <= Size(value, l)
               /\ size(others \cup {l}) * Share > size(drawn)

-----------------------------------------------------------------------------
\* MagnitudesOnly (what ChartData.h says of income and expense, and is not
\* so): no value of either chart is negative.
MagnitudesOnly ==
  \A d \in {"income", "expense"} :
    \A k \in DOMAIN SeriesPoints(d) : \A p \in Columns :
      Pick(d, SeriesPoints(d)[k][p].native) >= 0

\* OnOneSide (what ChartData.h says of categories and clients, and is not
\* so): the same topic is never in both datasets.
OnOneSide ==
  side = "net_sign" =>
    {k[1] : k \in DOMAIN TopicPoints("income")}
      \cap {k[1] : k \in DOMAIN TopicPoints("expense")} = {}

\* OthersIsNotTheBiggest (what ChartFolding.h says, and is not so): the
\* folded tail is never drawn as the single biggest one.
OthersIsNotTheBiggest ==
  LET value == MergeConverted("net", TopicPoints("net"), Default)
      others == Folded(value)
      total == Abs(SumFunction([l \in others |-> value[l]]))
  IN  others # {} => \E l \in DOMAIN value \ others : Size(value, l) >= total
=============================================================================
