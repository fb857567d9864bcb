--------------------------- MODULE MCOlienWebhooks ---------------------------
(***************************************************************************)
(* Instances of OlienWebhooks for TLC.                                     *)
(***************************************************************************)
EXTENDS OlienWebhooks, TLC

CONSTANTS books, p, q

MCBoth == books :> {"ledger", "proposals"}
=============================================================================
