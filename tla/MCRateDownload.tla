--------------------------- MODULE MCRateDownload ---------------------------
(***************************************************************************)
(* A small instance of RateDownload: an account in forints and one in      *)
(* euros. Day 6 is a Friday; rates are published on that day and, from     *)
(* day 9 on, on Monday and Tuesday.                                        *)
(***************************************************************************)
EXTENDS RateDownload

CONSTANTS Home, Travel, HUF, EUR

MCCurrencyOf == [a \in Accounts |-> IF a = Home THEN HUF ELSE EUR]
MCPublished  == [c \in Foreign |-> {6, 9, 10}]

\* The server answers everything, or leaves the request itself hanging.
MCSilences == {{}, {"request"}}
=============================================================================
