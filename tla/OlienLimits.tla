---------------------------- MODULE OlienLimits ----------------------------
(***************************************************************************)
(* Spending limits: the four configuration functions that keep them, and   *)
(* spend, called by a signer or run as a user operation.                   *)
(*                                                                         *)
(* spend takes the latch, so no batch is half applied when it runs and it  *)
(* is one step here; a token that refuses undoes it.  Configuration calls  *)
(* come through the account's threshold, which OlienAccount models; here   *)
(* they are free, one at a time, and must leave a usable configuration.    *)
(* Signers come and go by replacement, addition and removal, as their      *)
(* epochs decide what a limit still knows of them.                         *)
(***************************************************************************)
EXTENDS OlienRules

CONSTANTS
  MaxLimits,        \* bound: ids given out
  Destinations,
  Amounts,          \* amounts of limits and payments
  Periods,          \* 0 is a budget that never refills
  SignerInputs,     \* signers that may be added
  StartRules,       \* the configuration the account was created with
  MaxTime,          \* bound: the clock stops here
  MaxEpoch,         \* bound: calls that would pass this epoch are not made
  MaxSets,          \* bound: how often limits are set
  MaxLive,          \* bound: limits at a time; they share only the registry and the ids
  NoPayment, NoOperation

ASSUME LimitsAssumption ==
  /\ Amounts \subseteq Nat \ {0} /\ Periods \subseteq Nat
  /\ SignerInputs \subseteq SignerInput
  /\ StartRules \in Rules
  /\ {MaxLimits, MaxTime, MaxEpoch, MaxSets, MaxLive} \subseteq Nat

\* What initialize leaves: the list and its indexes agree, and nobody is from the future.
ASSUME StartAssumption ==
  Indexed(StartRules) /\ \A id \in Ids : StartRules.signers[id].since <= StartRules.epoch

LimitIds == 1 .. MaxLimits

VARIABLES
  rules,              \* the signer registry and the epoch
  limits, limitSigners, limitDestinations, nextLimitId,
  now,                \* block.timestamp
  operation,          \* a spend the EntryPoint has validated and not yet executed
  payment,            \* history: the Spent event of this step
  joined              \* history: who joined the account in this step

spending == <<limits, limitSigners, limitDestinations, nextLimitId>>
limitVars == <<rules, spending, now, operation, payment, joined>>

SpendingLimit == [
  amount : Nat, remaining : Nat, period : Nat, resetAt : Nat, anyDestination : BOOLEAN,
  exists : BOOLEAN, generation : Nat, epoch : Nat ]

\* A deleted mapping entry reads as zeroes.
NoLimit == [
  amount |-> 0, remaining |-> 0, period |-> 0, resetAt |-> 0, anyDestination |-> FALSE,
  exists |-> FALSE, generation |-> 0, epoch |-> 0 ]

InitLimits ==
  /\ rules = StartRules
  /\ limits = [id \in LimitIds |-> NoLimit]
  /\ limitSigners = {} /\ limitDestinations = {} /\ nextLimitId = 0
  /\ now = 0
  /\ operation = NoOperation /\ payment = NoPayment /\ joined = {}

Quiet == payment' = NoPayment /\ joined' = {}

Existing == {id \in LimitIds : limits[id].exists}
Named(id, signer) == <<id, limits[id].generation, signer>> \in limitSigners
Listed(id, to) == <<id, limits[id].generation, to>> \in limitDestinations

-----------------------------------------------------------------------------
(* Configuration.                                                          *)

NextGeneration(l) == l.generation + 1

SetSpendingLimit(id, amount, period, anyDestination) ==
  /\ limits[id].exists \/ id = nextLimitId + 1
  /\ nextLimitId + limits[id].generation < MaxSets
  /\ Cardinality(Existing \cup {id}) <= MaxLive
  /\ nextLimitId' = IF limits[id].exists THEN nextLimitId ELSE id
  /\ limits' = [limits EXCEPT ![id] =
       [amount |-> amount, remaining |-> amount, period |-> period, resetAt |-> now + period,
        anyDestination |-> anyDestination, exists |-> TRUE,
        generation |-> NextGeneration(@), epoch |-> rules.epoch]]
  /\ Quiet
  /\ UNCHANGED <<rules, limitSigners, limitDestinations, now, operation>>

AllowLimitSigner(id, signer) ==
  /\ limits[id].exists /\ Exists(rules, signer)
  /\ limitSigners' = limitSigners \cup {<<id, limits[id].generation, signer>>}
  /\ Quiet
  /\ UNCHANGED <<rules, limits, limitDestinations, nextLimitId, now, operation>>

AllowLimitDestination(id, to) ==
  /\ limits[id].exists
  /\ limitDestinations' = limitDestinations \cup {<<id, limits[id].generation, to>>}
  /\ Quiet
  /\ UNCHANGED <<rules, limits, limitSigners, nextLimitId, now, operation>>

RemoveSpendingLimit(id) ==
  /\ limits[id].exists
  /\ limits' = [limits EXCEPT ![id] = NoLimit]
  /\ Quiet
  /\ UNCHANGED <<rules, limitSigners, limitDestinations, nextLimitId, now, operation>>

\* The registry after a batch of one call that adds, removes or replaces.
ChangeRegistry(after, who) ==
  /\ rules.epoch < MaxEpoch
  /\ rules' = AdvanceEpoch(after) /\ CheckConfig(rules')
  /\ joined' = who /\ payment' = NoPayment
  /\ UNCHANGED <<spending, now, operation>>

Add(input) ==
  /\ ~ Exists(rules, input.id)
  /\ ChangeRegistry(AddSigner(rules, input), {input.id})

Remove(id) == Exists(rules, id) /\ ChangeRegistry(RemoveSigner(rules, id), {})

Replace(id, input) ==
  /\ Exists(rules, id)
  /\ LET removed == RemoveSigner(rules, id)
     IN  /\ ~ Exists(removed, input.id)
         /\ ChangeRegistry(AddSigner(removed, input), {input.id})

-----------------------------------------------------------------------------
(* Spending.                                                               *)

Due(l) == l.period # 0 /\ now >= l.resetAt

\* Whole periods are added, so a boundary never moves.
Refilled(l) ==
  IF Due(l)
  THEN [l EXCEPT !.remaining = l.amount,
                 !.resetAt = @ + l.period * ((now - l.resetAt) \div l.period + 1)]
  ELSE l

\* Mutant: the payment is compared with the limit, not with what is left of it.
WithinAmount(l, amount) == amount <= l.amount

WithinBudget(l, amount) == amount <= l.remaining

\* A key re-added in a later epoch than the limit's is not the limit's signer.
MaySpend(id, signer) == rules.signers[signer].since <= limits[id].epoch /\ Named(id, signer)

Spend(id, signer, to, amount) ==
  /\ limits[id].exists
  /\ MaySpend(id, signer)
  /\ limits[id].anyDestination \/ Listed(id, to)
  /\ LET l == Refilled(limits[id])
     IN  /\ WithinBudget(l, amount)
         /\ limits' = [limits EXCEPT ![id] = [l EXCEPT !.remaining = @ - amount]]
  /\ joined' = {}
  /\ payment' = [id |-> id, signer |-> signer, to |-> to, amount |-> amount]
  /\ UNCHANGED <<rules, limitSigners, limitDestinations, nextLimitId, now>>

\* The signer calls from its own address.
SpendDirectly(id, signer, to, amount) ==
  /\ signer \in Addresses /\ Exists(rules, signer)
  /\ Spend(id, signer, to, amount)
  /\ UNCHANGED operation

ValidateSpend(id, signer, to, amount) ==
  /\ operation = NoOperation
  /\ Exists(rules, signer)
  /\ limits[id].exists /\ Named(id, signer)
  /\ operation' = [id |-> id, signer |-> signer, to |-> to, amount |-> amount, epoch |-> rules.epoch]
  /\ Quiet
  /\ UNCHANGED <<rules, spending, now>>

\* Mutant: spend checks its signer itself, so the epoch need not be compared.
AnyEpoch(op) == TRUE

SameEpoch(op) == op.epoch = rules.epoch

ExecuteSpend ==
  /\ operation # NoOperation
  /\ SameEpoch(operation)
  /\ Spend(operation.id, operation.signer, operation.to, operation.amount)
  /\ operation' = NoOperation

\* The execution reverts.
FailSpend ==
  /\ operation # NoOperation
  /\ operation' = NoOperation /\ Quiet
  /\ UNCHANGED <<rules, spending, now>>

\* A bundle is one transaction: the clock stands still inside it.
TickLimits ==
  /\ operation = NoOperation /\ now < MaxTime
  /\ now' = now + 1
  /\ Quiet
  /\ UNCHANGED <<rules, spending, operation>>

NextLimits ==
  \/ \E id \in LimitIds :
       \/ \E amount \in Amounts, period \in Periods, any \in BOOLEAN :
            SetSpendingLimit(id, amount, period, any)
       \/ \E signer \in Ids : AllowLimitSigner(id, signer)
       \/ \E to \in Destinations : AllowLimitDestination(id, to)
       \/ RemoveSpendingLimit(id)
       \/ \E signer \in Ids, to \in Destinations, amount \in Amounts :
            SpendDirectly(id, signer, to, amount) \/ ValidateSpend(id, signer, to, amount)
  \/ \E input \in SignerInputs : Add(input)
  \/ \E id \in Ids : Remove(id) \/ (\E input \in SignerInputs : Replace(id, input))
  \/ ExecuteSpend \/ FailSpend \/ TickLimits

SpecLimits == InitLimits /\ [][NextLimits]_limitVars

-----------------------------------------------------------------------------
(* Properties.                                                             *)

\* Limits stay within the contract's types, and no budget exceeds its amount.
LimitsTypeOK ==
  /\ rules \in Rules
  /\ limits \in [LimitIds -> SpendingLimit]
  /\ \A id \in LimitIds : limits[id].remaining <= limits[id].amount
  /\ limitSigners \subseteq LimitIds \X Nat \X Ids
  /\ limitDestinations \subseteq LimitIds \X Nat \X Destinations
  /\ nextLimitId \in {0} \cup LimitIds
  /\ now \in Nat
  /\ operation = NoOperation
     \/ operation \in [id : LimitIds, signer : Ids, to : Destinations, amount : Amounts, epoch : Nat]

\* What a limit is worth: the time of its period, its users and its places.
Allowance(id) ==
  LET l == limits[id]
      current == Refilled(l)
      since == l.resetAt - l.period
  IN  [amount |-> l.amount, period |-> l.period,
       phase |-> IF l.period = 0 THEN 0 ELSE (now - since) % l.period,
       spent |-> l.amount - current.remaining,
       signers |-> {signer \in Ids : Exists(rules, signer) /\ MaySpend(id, signer)},
       places |-> {to \in Destinations : l.anyDestination \/ Listed(id, to)}]

Allowances == [id \in Existing |-> Allowance(id)]

Spending == INSTANCE SpendingPromise WITH
  Signers <- Ids, Places <- Destinations, allowances <- Allowances, issued <- nextLimitId

\* The limits keep what the promise says: never more than the amount in any
\* period counted from the setting of the limit, the whole amount in every new
\* one, paid by the signers and to the places named since it was last set, and
\* nothing once it is removed, however signers, epochs and limits change.
KeepsPromise == Spending!Promise

\* Whoever has just joined the account is no limit's signer ("A key re-added
\* after the limit was set is a different signer to the limit", in spend).
JoinerIsAStranger == \A signer \in joined, id \in Existing : ~ MaySpend(id, signer)
=============================================================================
