-------------------------- MODULE MCOlienProposals --------------------------
(***************************************************************************)
(* Instances of OlienProposals for TLC.                                    *)
(***************************************************************************)
EXTENDS OlienProposals, TLC

CONSTANTS a, b

\* One owner whose changes wait; the change adds a second owner and drops the delay.
MCRules == <<
  [approvers |-> {a}, threshold |-> 1, waits |-> TRUE],
  [approvers |-> {a, b}, threshold |-> 2, waits |-> FALSE]>>

Proposal(seq, calls) == [seq |-> seq, epoch |-> 1, calls |-> calls]
Signed(signers) == [status |-> "open", confirmations |-> signers]

\* A payment alone.
MCPayment == Proposal(0, "pay") :> Signed({a})
MCChange == Proposal(0, "rules") :> Signed({a})
=============================================================================
