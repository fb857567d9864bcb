--------------------------- MODULE MCOlienUserOps ---------------------------
(***************************************************************************)
(* Instances of OlienUserOps for TLC.                                      *)
(***************************************************************************)
EXTENDS OlienUserOps

CONSTANTS a, b, c, k, o, p, v1

As(id, permissions) == [id |-> id, permissions |-> permissions]
InitSigner(id, permissions) == [op |-> "initSigner", input |-> As(id, permissions)]

MCIds == {a, b, c}
MCAddresses == {c}
MCOffChain == {a, b}
MCWindows == {<<0, 1>>}
MCLongWindows == {<<0, 1>>, <<0, 5>>}

\* The removal as an operation on one key, which "veto" objects to, and on the
\* other, which "cancel" kills.
RemovalOp(key) == [key |-> key, seq |-> 0, epoch |-> 1, batch |-> "remove", after |-> 0, until |-> 1]

MCBatches == {"remove", "add", "cancel", "veto", "approve", "carried"}
MCCallsOf == [
  remove  |-> << [op |-> "outside"], [op |-> "removeSigner", id |-> b] >>,
  add     |-> << [op |-> "addSigner", input |-> As(c, {"VETO"})] >>,
  cancel  |-> << [op |-> "cancel", hash |-> RemovalOp(p)] >>,
  veto    |-> << [op |-> "veto", hash |-> RemovalOp(o)] >>,
  approve |-> << [op |-> "approve", hash |-> RemovalOp(p)] >>,
  carried |-> << [op |-> "carried"] >> ]

\* One approver and a brake, which a batch may remove; another may come.
Setup(configDelay) == [
  signers |-> << InitSigner(a, {"APPROVE", "VETO"}), InitSigner(b, {"VETO"}) >>,
  threshold |-> 1, vetoThreshold |-> 1,
  delays |-> [config |-> configDelay, recovery |-> 0, recoveryCoSign |-> 0] ]

\* Rules that change at once, and rules that wait.
MCInits == { Setup(0), Setup(1) }
=============================================================================
