--------------------------- MODULE MCOlienPayroll ---------------------------
(***************************************************************************)
(* Instances of OlienPayroll for TLC: weeks of a day, and months of three  *)
(* days but for the second, which has two.                                 *)
(***************************************************************************)
EXTENDS OlienPayroll

CONSTANTS c1, c2, q1

MCMonthStarts == <<0, 3, 5, 8, 11>>
=============================================================================
