----------------------------- MODULE MCCalendar -----------------------------
(* The date filters over more than a year, from the first of August 2024.  *)
EXTENDS Calendar

MCFirstDay == <<2024, 8, 1>>
=============================================================================
