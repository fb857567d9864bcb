--------------------------- MODULE MCOlienCheques ---------------------------
(***************************************************************************)
(* Instances of OlienCheques for TLC.                                      *)
(***************************************************************************)
EXTENDS OlienCheques

CONSTANTS a, b, r1, r2

\* Two of two, either of two, and one whose partner has left.
MCRules == {[approvers |-> {a, b}, threshold |-> 2],
            [approvers |-> {a, b}, threshold |-> 1],
            [approvers |-> {a}, threshold |-> 1]}
=============================================================================
