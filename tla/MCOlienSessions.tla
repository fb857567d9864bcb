--------------------------- MODULE MCOlienSessions ---------------------------
(* Instance of OlienSessions for TLC: the calls of two tabs. *)
EXTENDS OlienSessions, TLC

Symmetry == Permutations(Callers)
=============================================================================
