--------------------------- MODULE MCOlienAccount ---------------------------
(***************************************************************************)
(* Instances of OlienAccount for TLC.                                      *)
(***************************************************************************)
EXTENDS OlienAccount

CONSTANTS a, b, c, g, k, v1, v2

AV == {"APPROVE", "VETO"}
As(id, permissions) == [id |-> id, permissions |-> permissions]
InitSigner(id, permissions) == [op |-> "initSigner", input |-> As(id, permissions)]
Waits(config, recovery, coSign) ==
  [config |-> config, recovery |-> recovery, recoveryCoSign |-> coSign]
Outside == [op |-> "outside"]

MCIds == {a, b, c, g}
MCAddresses == {a, g}
MCOffChain == {a, b, c}
MCWindows == {<<0, 3>>}

\* The removal scheduled first, which "cancel" kills.
RemovalHash == [key |-> k, seq |-> 0, epoch |-> 1, batch |-> "remove", after |-> 0, until |-> 3]

MCBatches == {"remove", "recover", "escalate", "lower", "rules", "cancel"}
MCCallsOf == [
  remove  |-> << Outside, [op |-> "removeSigner", id |-> a] >>,
  recover |-> << [op |-> "replaceSigner", id |-> a, input |-> As(c, AV)] >>,
  escalate |-> << [op |-> "replaceSigner", id |-> g, input |-> As(c, AV)] >>,
  lower   |-> << [op |-> "setThreshold", value |-> 1],
                 [op |-> "addSigner", input |-> As(c, AV)] >>,
  rules   |-> << [op |-> "setVetoThreshold", value |-> 1],
                 [op |-> "setDelays", delays |-> Waits(0, 1, 1)],
                 [op |-> "setImplementation", implementation |-> v2],
                 [op |-> "freezeImplementation"], [op |-> "limitRule"] >>,
  cancel  |-> << Outside, [op |-> "removeSpendingLimit"], [op |-> "cancel", hash |-> RemovalHash] >> ]

Setup(threshold, vetoThreshold, configDelay, coSignDelay) == [
  signers |-> << InitSigner(a, AV), InitSigner(b, AV), InitSigner(g, {"RECOVER"}) >>,
  threshold |-> threshold, vetoThreshold |-> vetoThreshold,
  delays |-> Waits(configDelay, 1, coSignDelay) ]

\* Two of two with an instant co-signed recovery; one of two, no wait for rules,
\* where both vetoes are needed against the guardian.
MCInits == { Setup(2, 0, 1, 0), Setup(1, 0, 0, 1) }
=============================================================================
