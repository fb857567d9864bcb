--------------------------- MODULE MCOlienLimits ---------------------------
(***************************************************************************)
(* Instances of OlienLimits for TLC.                                       *)
(***************************************************************************)
EXTENDS OlienLimits

CONSTANTS p, x, d, e, v1

MCIds == {p, x}
MCAddresses == {p}

\* The payroll key, without any permission.
MCSignerInputs == {[id |-> x, permissions |-> {}]}

\* An approver and the payroll key.
MCStartRules ==
  LET genesis == [EmptyRules(v1) EXCEPT !.epoch = 1, !.threshold = 1]
  IN  AddSigner(AddSigner(genesis, [id |-> p, permissions |-> {"APPROVE"}]),
                [id |-> x, permissions |-> {}])
=============================================================================
