----------------------------- MODULE OlienRules -----------------------------
(***************************************************************************)
(* The rules of one account, and the arithmetic on them: the signer        *)
(* registry with its list and its four counters, the configuration check,  *)
(* what a set of signatures establishes, and which path it opens.          *)
(*                                                                         *)
(* A rules value is the part of the contract's Storage that configuration  *)
(* calls write and that moves the epoch.  Every operator here is a         *)
(* function of a rules value; OlienAccount applies them step by step.      *)
(* Keys, curves and ABI encodings are abstract: a signer is its id.        *)
(***************************************************************************)
EXTENDS Integers, Sequences, FiniteSets

CONSTANTS
  Ids,                \* signer ids (address words and key hashes)
  Addresses,          \* the ids that are addresses: ECDSA and CONTRACT kinds
  Implementations,    \* contract versions that keep the storage namespace
  MAX_DELAY,          \* 30 days in the code
  MIN_RECOVERY_DELAY, \* 1 hour in the code
  UINT16              \* 2^16, where the counters wrap

\* signerCount fits its uint16 counters, the delays are durations.
ASSUME RulesAssumption ==
  /\ UINT16 \in Nat \ {0}
  /\ IsFiniteSet(Ids) /\ Cardinality(Ids) < UINT16
  /\ Addresses \subseteq Ids
  /\ MAX_DELAY \in Nat
  /\ MIN_RECOVERY_DELAY \in Nat \ {0}

Permissions == {"APPROVE", "VETO", "RECOVER"}
Kinds == {"NONE", "ADDRESS", "KEY"}

KindOf(id) == IF id \in Addresses THEN "ADDRESS" ELSE "KEY"

Signer == [kind : Kinds, permissions : SUBSET Permissions, since : Nat, index : Nat]
SignerInput == [id : Ids, permissions : SUBSET Permissions]

\* A deleted mapping entry reads as zeroes.
NoSigner == [kind |-> "NONE", permissions |-> {}, since |-> 0, index |-> 0]

\* What the four counters count: approvers, vetoers, approvers who veto, and
\* recoverers.  A counter is a uint16.
Tallied == {{"APPROVE"}, {"VETO"}, {"APPROVE", "VETO"}, {"RECOVER"}}
Counter == 0 .. UINT16 - 1

Delays == [config : Nat, recovery : Nat, recoveryCoSign : Nat]

Rules == [
  signers : [Ids -> Signer], signerList : Seq(Ids), counts : [Tallied -> Counter],
  threshold : Nat, vetoThreshold : Nat, delays : Delays,
  epoch : Nat, implementation : Implementations, implementationFrozen : BOOLEAN ]

\* Storage before initialize.
EmptyRules(implementation) == [
  signers |-> [id \in Ids |-> NoSigner], signerList |-> << >>,
  counts |-> [t \in Tallied |-> 0], threshold |-> 0, vetoThreshold |-> 0,
  delays |-> [config |-> 0, recovery |-> 0, recoveryCoSign |-> 0],
  epoch |-> 0, implementation |-> implementation, implementationFrozen |-> FALSE ]

-----------------------------------------------------------------------------
(* The signer registry.                                                    *)

Exists(r, id) == r.signers[id].kind # "NONE"
Holders(r, p) == {id \in Ids : p \in r.signers[id].permissions}

ApproverCount(r) == r.counts[{"APPROVE"}]
VetoerCount(r) == r.counts[{"VETO"}]
ApproverVetoerCount(r) == r.counts[{"APPROVE", "VETO"}]
RecovererCount(r) == r.counts[{"RECOVER"}]

\* Mutant: the counters are not uint16.
NoWrap(n) == n

\* uint16 arithmetic, unchecked.
Wrap(n) == IF n < UINT16 THEN n ELSE n - UINT16

\* delta is 1, or UINT16 - 1, which wraps back by one.
Count(r, permissions, delta) ==
  [r EXCEPT !.counts = [t \in Tallied |->
     IF t \subseteq permissions THEN Wrap(r.counts[t] + delta) ELSE r.counts[t]]]

AddSigner(r, input) ==
  [Count(r, input.permissions, 1) EXCEPT
    !.signerList = Append(@, input.id),
    !.signers[input.id] = [kind |-> KindOf(input.id), permissions |-> input.permissions,
                           since |-> r.epoch, index |-> Len(r.signerList) + 1]]

\* Mutant: the moved signer keeps its old index.
RemoveSignerStaleIndex(r, id) ==
  LET last == Len(r.signerList)
      list == [r.signerList EXCEPT ![r.signers[id].index] = r.signerList[last]]
  IN  [Count(r, r.signers[id].permissions, UINT16 - 1) EXCEPT
        !.signerList = SubSeq(list, 1, last - 1),
        !.signers[id] = NoSigner]

\* Swap-and-pop: the last listed signer takes the removed one's position.
RemoveSigner(r, id) ==
  LET index == r.signers[id].index
      last  == Len(r.signerList)
      moved == r.signerList[last]
      list  == [r.signerList EXCEPT ![index] = moved]
  IN  [Count(r, r.signers[id].permissions, UINT16 - 1) EXCEPT
        !.signerList = SubSeq(list, 1, last - 1),
        !.signers = [[@ EXCEPT ![moved].index = index] EXCEPT ![id] = NoSigner]]

\* The four counters are the numbers of holders.
Counted(r) ==
  \A t \in Tallied : r.counts[t] = Cardinality({id \in Ids : t \subseteq r.signers[id].permissions})

\* The list and the index stored with each signer point at each other.
Indexed(r) ==
  /\ \A i \in 1 .. Len(r.signerList) :
       Exists(r, r.signerList[i]) /\ r.signers[r.signerList[i]].index = i
  /\ \A id \in Ids :
       IF Exists(r, id)
       THEN r.signers[id].index \in 1 .. Len(r.signerList) /\ r.signerList[r.signers[id].index] = id
       ELSE r.signers[id] = NoSigner

\* Mutant: a configuration call that forgets the epoch.
KeepEpoch(r) == r

AdvanceEpoch(r) == [r EXCEPT !.epoch = @ + 1]

EffectiveVetoThreshold(r) ==
  IF r.vetoThreshold # 0 THEN r.vetoThreshold
  ELSE IF ApproverVetoerCount(r) < r.threshold THEN 1
  ELSE ApproverVetoerCount(r) - r.threshold + 1

\* Mutant: the threshold is compared with the signers, not the approvers.
CheckConfigBySigners(r) ==
  /\ r.threshold # 0 /\ r.threshold <= Len(r.signerList)
  /\ r.vetoThreshold <= VetoerCount(r)
  /\ RecovererCount(r) # 0 => r.delays.recovery >= MIN_RECOVERY_DELAY

CheckConfig(r) ==
  /\ Len(r.signerList) # 0
  /\ ApproverCount(r) # 0
  /\ r.threshold # 0 /\ r.threshold <= ApproverCount(r)
  /\ r.vetoThreshold <= VetoerCount(r)
  /\ r.delays.config <= MAX_DELAY
  /\ r.delays.recovery <= MAX_DELAY
  /\ r.delays.recoveryCoSign <= MAX_DELAY
  /\ RecovererCount(r) # 0 => r.delays.recovery >= MIN_RECOVERY_DELAY

-----------------------------------------------------------------------------
(* What a set of calls is, and what a set of signatures opens.             *)

\* Configuration selectors; "limitRule" stands for the three that write a
\* spending limit, which OlienLimits models.
ConfigOps == {"addSigner", "removeSigner", "replaceSigner", "setThreshold",
              "setVetoThreshold", "setDelays", "setImplementation",
              "freezeImplementation", "limitRule"}
ImmediateOps == {"cancel", "removeSpendingLimit"}

\* "outside" is a call to any other contract.  Every other selector of the
\* account itself is refused in a batch.
Servable(calls) ==
  \A i \in DOMAIN calls : calls[i].op \in ConfigOps \cup ImmediateOps \cup {"outside"}

\* Mutant: a batch is classified by its first call.
IsConfigByFirst(calls) == calls # << >> /\ calls[1].op \in ConfigOps

IsConfig(calls) == \E i \in DOMAIN calls : calls[i].op \in ConfigOps

Removals(calls) == {i \in DOMAIN calls : calls[i].op \in {"removeSigner", "replaceSigner"}}

\* The signers the calls take out, when they take out exactly one; else nobody.
Target(calls) ==
  {calls[i].id : i \in {j \in Removals(calls) : Removals(calls) = {j}}}

\* Mutant: any replacement is a recovery.
RecoveryWithAnyPermissions(r, calls) ==
  Len(calls) = 1 /\ calls[1].op = "replaceSigner" /\ Exists(r, calls[1].id)

\* A recovery swaps one key for another with the same permissions.
RecoveryOnly(r, calls) ==
  /\ Len(calls) = 1
  /\ calls[1].op = "replaceSigner"
  /\ Exists(r, calls[1].id)
  /\ r.signers[calls[1].id].permissions = calls[1].input.permissions

\* A signature set is strictly ascending in ids, so it is a set of ids.
Approvers(r, sigs) == sigs \cap Holders(r, "APPROVE")
Recoverers(r, sigs) == sigs \cap Holders(r, "RECOVER")
PlainApprovers(r, sigs) == Approvers(r, sigs) \ Holders(r, "RECOVER")

OpensThreshold(r, sigs) == Cardinality(Approvers(r, sigs)) >= r.threshold

OpensRecovery(r, calls, sigs) ==
  /\ ~ OpensThreshold(r, sigs)
  /\ RecoveryOnly(r, calls)
  /\ Recoverers(r, sigs) # {}

Path(r, sigs) == IF OpensThreshold(r, sigs) THEN "THRESHOLD" ELSE "RECOVERY"

Delay(r, calls, sigs) ==
  IF OpensThreshold(r, sigs)
  THEN IF IsConfig(calls) THEN r.delays.config ELSE 0
  ELSE IF PlainApprovers(r, sigs) # {} THEN r.delays.recoveryCoSign ELSE r.delays.recovery
=============================================================================
