----------------------------- MODULE MCCalendar -----------------------------
(***************************************************************************)
(* Calendar on every day from 1 January 1906 to 31 December 2078, the last *)
(* year whose days all have a 16-bit number.                               *)
(***************************************************************************)
EXTENDS Calendar

MCFirstDay == [day |-> 1, month |-> 1, year |-> 1906]
=============================================================================
