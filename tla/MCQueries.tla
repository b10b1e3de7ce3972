----------------------------- MODULE MCQueries ------------------------------
(* Instances of Queries for TLC.                                           *)
EXTENDS Queries, TLC

CONSTANTS A, B, C, HUF, EUR, USD

T(topic, currency, amount, date) ==
  [topic |-> topic, currency |-> currency, amount |-> amount, date |-> date]

\* Days 1 and 2 are in one period, day 4 is two periods later; USD has no rate
\* on day 4. The amounts are such that two topics make up less than a
\* twentieth of a third, and that two sums pass the word.
Dates   == <<1, 1, 2, 3>>
Rates   == HUF :> <<1, 1, 1, 1>> @@ EUR :> <<4, 3, 3, 5>> @@ USD :> <<2, 2, 3, 0>>
Book    == {T(A, HUF, 100, 1), T(A, HUF, -70, 4), T(A, EUR, -9, 2), T(A, HUF, 0, 1),
            T(B, HUF, 2, 1), T(B, EUR, 7, 4), T(B, HUF, -1, 4), T(B, USD, 3, 4),
            T(C, HUF, -1, 2), T(C, USD, -5, 1)}
AllDays == [ids |-> {}, include |-> FALSE, min |-> 1, max |-> 4]
Asked   == {AllDays,
            [ids |-> {A, B}, include |-> TRUE, min |-> 2, max |-> 4],
            [ids |-> {B}, include |-> FALSE, min |-> 1, max |-> 2],
            [ids |-> {}, include |-> FALSE, min |-> 4, max |-> 1]}
Modes   == {"net_sign", "split", "unsided"}

\* Six topics of one size.
Six   == {T(x, HUF, 10, 1) : x \in 1..6}
Everything == {AllDays}
BySign     == {"net_sign"}
=============================================================================
