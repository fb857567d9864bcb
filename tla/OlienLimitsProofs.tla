------------------------- MODULE OlienLimitsProofs -------------------------
(***************************************************************************)
(* Proofs about OlienLimits, for every set of signers, limits, places,     *)
(* amounts and periods: the limits are what SpendingPromise promises.      *)
(***************************************************************************)
EXTENDS OlienLimits, OlienRulesProofs

-----------------------------------------------------------------------------
(* Whole periods *)

\* Division with remainder.
LEMMA Parts ==
  ASSUME NEW n \in Nat, NEW p \in Nat \ {0}
  PROVE  /\ n \div p \in Nat /\ n % p \in 0 .. p - 1
         /\ n = p * (n \div p) + (n % p)
  OBVIOUS

LEMMA Unique ==
  ASSUME NEW p \in Nat \ {0}, NEW a \in Int, NEW b \in Int,
         NEW r \in 0 .. p - 1, NEW s \in 0 .. p - 1, p * a + r = p * b + s
  PROVE  r = s
  OBVIOUS

LEMMA Remainder ==
  ASSUME NEW p \in Nat \ {0}, NEW q \in Nat, NEW r \in 0 .. p - 1, NEW n \in Nat, n = p * q + r
  PROVE  n % p = r
  <1>1. PICK b \in Nat, s \in 0 .. p - 1 : n = p * b + s /\ n % p = s
    <2>1. n \div p \in Nat /\ n % p \in 0 .. p - 1 /\ n = p * (n \div p) + (n % p)
      BY Parts
    <2> QED
      BY <2>1, Zenon
  <1>2. b \in Int /\ q \in Int
    OBVIOUS
  <1>3. p * b + s = p * q + r
    BY <1>1
  <1>4. s = r
    BY <1>2, <1>3, Unique
  <1> QED
    BY <1>1, <1>4

LEMMA Distributes ==
  ASSUME NEW p \in Nat, NEW q \in Nat, NEW k \in Nat
  PROVE  p * (q + k) = p * q + p * k /\ p * q \in Nat /\ p * k \in Nat
  OBVIOUS

LEMMA ModShift ==
  ASSUME NEW n \in Nat, NEW k \in Nat, NEW p \in Nat \ {0}
  PROVE  (n + p * k) % p = n % p
  <1>1. PICK q \in Nat, r \in 0 .. p - 1 : n = p * q + r /\ n % p = r
    <2>1. n \div p \in Nat /\ n % p \in 0 .. p - 1 /\ n = p * (n \div p) + (n % p)
      BY Parts
    <2> QED
      BY <2>1, Zenon
  <1>2. p * (q + k) = p * q + p * k /\ p * q \in Nat /\ p * k \in Nat
    BY Distributes
  <1>3. PICK m \in Nat : m = n + p * k
    BY <1>2
  <1>4. m = p * (q + k) + r /\ q + k \in Nat
    BY <1>1, <1>2, <1>3
  <1>5. m % p = r
    BY <1>4, Remainder
  <1> QED
    BY <1>1, <1>3, <1>5

LEMMA ModNext ==
  ASSUME NEW n \in Nat, NEW p \in Nat \ {0}
  PROVE  (n + 1) % p = ((n % p) + 1) % p
  <1>1. PICK q \in Nat, r \in 0 .. p - 1 : n = p * q + r /\ n % p = r
    <2>1. n \div p \in Nat /\ n % p \in 0 .. p - 1 /\ n = p * (n \div p) + (n % p)
      BY Parts
    <2> QED
      BY <2>1, Zenon
  <1>2. PICK m \in Nat : m = r + 1
    OBVIOUS
  <1>3. (m + p * q) % p = m % p
    BY ModShift
  <1>4. n + 1 = m + p * q
    <2>1. p * q \in Nat
      BY Distributes
    <2> QED
      BY <1>1, <1>2, <2>1
  <1> QED
    BY <1>1, <1>2, <1>3, <1>4, Zenon

LEMMA ModSmall ==
  ASSUME NEW n \in Nat, NEW p \in Nat \ {0}, n < p
  PROVE  n % p = n
  OBVIOUS

LEMMA ModSelf ==
  ASSUME NEW p \in Nat \ {0}
  PROVE  p % p = 0 /\ 0 % p = 0
  OBVIOUS

-----------------------------------------------------------------------------
(* The inductive invariant *)

\* The registry keeps its list, and knows since when each signer is one.
Registered ==
  Indexed(rules) /\ \A s \in Ids : rules.signers[s].since <= rules.epoch

\* A limit has an id that was given out, was set under rules of the past, and its period
\* has begun.
Begun ==
  \A id \in Existing :
    /\ id <= nextLimitId
    /\ limits[id].epoch <= rules.epoch
    /\ limits[id].resetAt <= now + limits[id].period

\* What was named is of a generation that was: setting a limit again leaves it behind.
Past ==
  /\ \A t \in limitSigners : t[1] <= nextLimitId /\ (limits[t[1]].exists => t[2] <= limits[t[1]].generation)
  /\ \A t \in limitDestinations : t[1] <= nextLimitId /\ (limits[t[1]].exists => t[2] <= limits[t[1]].generation)

\* A limit's signer who is gone left after it was set, so that whoever comes back is later.
Gone ==
  \A id \in Existing, s \in Ids :
    Named(id, s) /\ ~ Exists(rules, s) => limits[id].epoch < rules.epoch

\* A validated operation is of the rules in force, and its signer is one of them; or of the past.
Validated ==
  operation # NoOperation =>
    /\ operation.epoch <= rules.epoch
    /\ operation.epoch = rules.epoch => Exists(rules, operation.signer)

LInv == LimitsTypeOK /\ Registered /\ Begun /\ Past /\ Gone /\ Validated

-----------------------------------------------------------------------------
(* Refilling a limit *)

PhaseOf(l) == IF l.period = 0 THEN 0 ELSE (now - (l.resetAt - l.period)) % l.period

LEMMA PhaseBegun ==
  ASSUME NEW l \in SpendingLimit, now \in Nat, l.resetAt <= now + l.period, l.period # 0,
         now < l.resetAt
  PROVE  PhaseOf(l) = now - (l.resetAt - l.period)
  <1> DEFINE n == now - (l.resetAt - l.period)
  <1>1. l.period \in Nat \ {0} /\ l.resetAt \in Nat
    BY DEF SpendingLimit
  <1>2. n \in Nat /\ n < l.period
    BY <1>1
  <1>3. PhaseOf(l) = n % l.period
    BY DEF PhaseOf
  <1> HIDE DEF n
  <1>4. n % l.period = n
    BY <1>1, <1>2, ModSmall
  <1> QED
    BY <1>3, <1>4 DEF n

\* Refilling adds whole periods: the next one is still to come, and time in it is the same.
LEMMA RefilledSound ==
  ASSUME NEW l \in SpendingLimit, now \in Nat,
         l.remaining <= l.amount, l.resetAt <= now + l.period
  PROVE  LET m == Refilled(l)
         IN  /\ m \in SpendingLimit
             /\ m.amount = l.amount /\ m.period = l.period /\ m.anyDestination = l.anyDestination
             /\ m.exists = l.exists /\ m.generation = l.generation /\ m.epoch = l.epoch
             /\ m.remaining <= m.amount
             /\ m.resetAt <= now + m.period
             /\ m.period # 0 => now < m.resetAt
             /\ PhaseOf(m) = PhaseOf(l)
  <1> DEFINE m == Refilled(l)
  <1>1. /\ l.amount \in Nat /\ l.remaining \in Nat /\ l.period \in Nat /\ l.resetAt \in Nat
    BY DEF SpendingLimit
  <1>2. CASE ~ Due(l)
    <2>1. m = l
      BY <1>2 DEF Refilled
    <2>2. l.period # 0 => now < l.resetAt
      BY <1>1, <1>2 DEF Due
    <2> QED
      BY <2>1, <2>2
  <1>3. CASE Due(l)
    <2> DEFINE p == l.period
               n == now - l.resetAt
               q == n \div p
               next == l.resetAt + p * (q + 1)
    <2>1. p \in Nat \ {0} /\ n \in Nat /\ p # 0
      BY <1>1, <1>3 DEF Due
    <2>2. q \in Nat /\ n % p \in 0 .. p - 1 /\ n = p * q + (n % p)
      <3> HIDE DEF n, p
      <3> QED
        BY <2>1, Parts
    <2>3. p * (q + 1) = p * q + p * 1 /\ p * q \in Nat /\ p * 1 = p
      <3>1. 1 \in Nat
        OBVIOUS
      <3> HIDE DEF n, p, q
      <3> QED
        BY <2>1, <2>2, <3>1, Distributes
    <2> HIDE DEF q
    <2>4. next \in Nat /\ next = l.resetAt + (p * q) + p
      BY <1>1, <2>1, <2>3
    <2>5. m = [l EXCEPT !.remaining = l.amount, !.resetAt = next]
      BY <1>3 DEF Refilled, q
    <2> HIDE DEF next
    <2>6. /\ m \in SpendingLimit /\ m.remaining = l.amount /\ m.resetAt = next
          /\ m.amount = l.amount /\ m.period = p /\ m.anyDestination = l.anyDestination
          /\ m.exists = l.exists /\ m.generation = l.generation /\ m.epoch = l.epoch
      BY <1>1, <2>4, <2>5 DEF SpendingLimit
    <2> HIDE DEF m, n, p
    <2>7. next <= now + p /\ now < next
      BY <1>1, <2>1, <2>2, <2>3, <2>4 DEF n
    <2>8. PhaseOf(m) = n % p
      <3>1. PhaseOf(m) = now - (next - p)
        BY <2>1, <2>6, <2>7, PhaseBegun DEF p
      <3> QED
        BY <1>1, <2>1, <2>2, <2>3, <2>4, <3>1 DEF n
    <2>9. PhaseOf(l) = n % p
      <3>1. (n + p * 1) % p = n % p
        BY <2>1, ModShift
      <3>2. n + p * 1 = now - (l.resetAt - p)
        BY <1>1, <2>1, <2>3 DEF n
      <3>3. PhaseOf(l) = (now - (l.resetAt - p)) % p
        BY <2>1 DEF PhaseOf, p
      <3> QED
        BY <3>1, <3>2, <3>3
    <2> QED
      BY <1>1, <2>6, <2>7, <2>8, <2>9 DEF m, p
  <1> QED
    BY <1>2, <1>3

-----------------------------------------------------------------------------
(* Every step preserves the invariant *)

LEMMA Bounds ==
  /\ Amounts \subseteq Nat \ {0} /\ Periods \subseteq Nat
  /\ SignerInputs \subseteq SignerInput /\ MaxLimits \in Nat
  /\ LimitIds \subseteq Nat
  BY LimitsAssumption DEF LimitsAssumption, LimitIds

OperationType ==
  [id : LimitIds, signer : Ids, to : Destinations, amount : Amounts, epoch : Nat]

LEMMA TypesOf ==
  ASSUME LInv
  PROVE  /\ rules \in Rules /\ rules.epoch \in Nat
         /\ limits \in [LimitIds -> SpendingLimit]
         /\ \A id \in LimitIds : limits[id] \in SpendingLimit /\ limits[id].remaining <= limits[id].amount
         /\ limitSigners \subseteq LimitIds \X Nat \X Ids
         /\ limitDestinations \subseteq LimitIds \X Nat \X Destinations
         /\ nextLimitId \in {0} \cup LimitIds /\ nextLimitId \in Nat
         /\ now \in Nat
         /\ operation = NoOperation \/ operation \in OperationType
  BY Bounds DEF LInv, LimitsTypeOK, OperationType, Rules

LEMMA Initially == InitLimits => LInv
  <1> SUFFICES ASSUME InitLimits
               PROVE  LInv
    OBVIOUS
  <1>1. /\ rules = StartRules /\ limits = [id \in LimitIds |-> NoLimit]
        /\ limitSigners = {} /\ limitDestinations = {} /\ nextLimitId = 0 /\ now = 0
        /\ operation = NoOperation
    BY DEF InitLimits
  <1>2. NoLimit \in SpendingLimit /\ NoLimit.remaining = 0 /\ NoLimit.amount = 0 /\ NoLimit.exists = FALSE
    BY DEF NoLimit, SpendingLimit
  <1>3. rules \in Rules
    BY <1>1, LimitsAssumption DEF LimitsAssumption
  <1>4. \A id \in LimitIds : limits[id] = NoLimit
    BY <1>1
  <1>5. LimitsTypeOK
    BY <1>1, <1>2, <1>3, <1>4 DEF LimitsTypeOK
  <1>6. Registered
    BY <1>1, StartAssumption DEF StartAssumption, Registered
  <1>7. Existing = {}
    BY <1>2, <1>4 DEF Existing
  <1> QED
    BY <1>1, <1>5, <1>6, <1>7 DEF LInv, Begun, Past, Gone, Validated

\* A step in which the rules stand still and time does too: what is left is the limits'.
LEMMA LimitStep ==
  ASSUME LInv, UNCHANGED <<rules, now>>,
         limits' \in [LimitIds -> SpendingLimit],
         \A id \in LimitIds : limits'[id].remaining <= limits'[id].amount,
         limitSigners' \subseteq LimitIds \X Nat \X Ids,
         limitDestinations' \subseteq LimitIds \X Nat \X Destinations,
         nextLimitId' \in {0} \cup LimitIds,
         operation' \in {operation, NoOperation},
         Begun', Past', Gone'
  PROVE  LInv'
  <1>1. LimitsTypeOK'
    BY TypesOf DEF LimitsTypeOK, OperationType
  <1>2. Registered'
    BY DEF LInv, Registered
  <1>3. Validated'
    BY DEF LInv, Validated
  <1> QED
    BY <1>1, <1>2, <1>3 DEF LInv

LEMMA SetInv ==
  ASSUME LInv, NEW id \in LimitIds, NEW amount \in Amounts, NEW period \in Periods,
         NEW any \in BOOLEAN, SetSpendingLimit(id, amount, period, any)
  PROVE  LInv'
  <1> DEFINE l == [amount |-> amount, remaining |-> amount, period |-> period, resetAt |-> now + period,
                   anyDestination |-> any, exists |-> TRUE,
                   generation |-> limits[id].generation + 1, epoch |-> rules.epoch]
  <1>1. /\ limits[id].exists \/ id = nextLimitId + 1
        /\ nextLimitId' = IF limits[id].exists THEN nextLimitId ELSE id
        /\ limits' = [limits EXCEPT ![id] = l]
        /\ UNCHANGED <<rules, limitSigners, limitDestinations, now, operation>>
    BY DEF SetSpendingLimit, NextGeneration
  <1>2. amount \in Nat /\ period \in Nat /\ id \in Nat
    BY Bounds
  <1>3. limits[id].generation \in Nat
    BY TypesOf DEF SpendingLimit
  <1>4. l \in SpendingLimit /\ l.remaining = l.amount
    BY <1>2, <1>3, TypesOf DEF SpendingLimit
  <1>5. /\ l.exists /\ l.generation = limits[id].generation + 1 /\ l.epoch = rules.epoch
        /\ l.resetAt = now + period /\ l.period = period /\ l.amount = amount
    OBVIOUS
  <1> HIDE DEF l
  <1>6. limits'[id] = l /\ \A i \in LimitIds : i # id => limits'[i] = limits[i]
    BY <1>1, TypesOf
  <1>7. limits' \in [LimitIds -> SpendingLimit]
    BY <1>1, <1>4, TypesOf
  <1>8. \A i \in LimitIds : limits'[i].remaining <= limits'[i].amount
    <2> TAKE i \in LimitIds
    <2>1. CASE i = id
      BY <1>2, <1>4, <1>5, <1>6, <2>1
    <2>2. CASE i # id
      BY <1>6, <2>2, TypesOf
    <2> QED
      BY <2>1, <2>2
  <1>9. id <= nextLimitId' /\ nextLimitId <= nextLimitId' /\ nextLimitId' \in Nat
    <2>1. limits[id].exists => id <= nextLimitId
      BY DEF LInv, Begun, Existing
    <2> QED
      BY <1>1, <1>2, <2>1, TypesOf
  <1>10. Begun'
    <2> SUFFICES ASSUME NEW i \in LimitIds, limits'[i].exists
                 PROVE  /\ i <= nextLimitId' /\ limits'[i].epoch <= rules.epoch
                        /\ limits'[i].resetAt <= now + limits'[i].period
      BY <1>1 DEF Begun, Existing
    <2>1. CASE i = id
      BY <1>2, <1>5, <1>6, <1>9, <2>1, TypesOf
    <2>2. CASE i # id
      <3>1. i <= nextLimitId /\ limits[i].epoch <= rules.epoch /\ limits[i].resetAt <= now + limits[i].period
        BY <1>6, <2>2 DEF LInv, Begun, Existing
      <3>2. i \in Nat /\ nextLimitId \in Nat
        BY Bounds, TypesOf
      <3> QED
        BY <1>6, <1>9, <2>2, <3>1, <3>2
    <2> QED
      BY <2>1, <2>2
  <1>11. ASSUME NEW i \in LimitIds, NEW g \in Nat, i <= nextLimitId,
                limits[i].exists => g <= limits[i].generation
         PROVE  /\ i <= nextLimitId' /\ (limits'[i].exists => g <= limits'[i].generation)
                /\ i = id => g < limits'[i].generation
    <2>1. i \in Nat /\ nextLimitId \in Nat
      BY Bounds, TypesOf
    <2>2. CASE i = id
      <3>1. limits[id].exists
        BY <1>1, <1>11, <2>1, <2>2
      <3>2. g <= limits[id].generation
        BY <1>11, <2>2, <3>1
      <3> QED
        BY <1>3, <1>5, <1>6, <1>9, <2>2, <3>2
    <2>3. CASE i # id
      BY <1>6, <1>9, <1>11, <2>1, <2>3
    <2> QED
      BY <2>2, <2>3
  <1>12. Past'
    <2>1. ASSUME NEW t \in limitSigners
          PROVE  t[1] <= nextLimitId' /\ (limits'[t[1]].exists => t[2] <= limits'[t[1]].generation)
      <3>1. t[1] \in LimitIds /\ t[2] \in Nat
        BY TypesOf
      <3>2. t[1] <= nextLimitId /\ (limits[t[1]].exists => t[2] <= limits[t[1]].generation)
        BY DEF LInv, Past
      <3> QED
        BY <1>11, <3>1, <3>2
    <2>2. ASSUME NEW t \in limitDestinations
          PROVE  t[1] <= nextLimitId' /\ (limits'[t[1]].exists => t[2] <= limits'[t[1]].generation)
      <3>1. t[1] \in LimitIds /\ t[2] \in Nat
        BY TypesOf
      <3>2. t[1] <= nextLimitId /\ (limits[t[1]].exists => t[2] <= limits[t[1]].generation)
        BY DEF LInv, Past
      <3> QED
        BY <1>11, <3>1, <3>2
    <2> QED
      BY <1>1, <2>1, <2>2 DEF Past
  <1>13. Gone'
    <2> SUFFICES ASSUME NEW i \in LimitIds, limits'[i].exists, NEW s \in Ids,
                        <<i, limits'[i].generation, s>> \in limitSigners, ~ Exists(rules, s)
                 PROVE  limits'[i].epoch < rules.epoch
      BY <1>1 DEF Gone, Named, Existing, Exists
    <2>1. CASE i = id
      <3> DEFINE t == <<i, limits'[i].generation, s>>
      <3>1. t \in limitSigners /\ t[1] = i /\ t[2] = limits'[i].generation
        OBVIOUS
      <3>2. t[1] \in LimitIds /\ t[2] \in Nat
        BY <3>1, TypesOf
      <3>3. t[1] <= nextLimitId /\ (limits[t[1]].exists => t[2] <= limits[t[1]].generation)
        BY <3>1 DEF LInv, Past
      <3>4. t[2] < limits'[i].generation
        BY <1>11, <2>1, <3>1, <3>2, <3>3
      <3>5. limits'[i].generation \in Nat
        BY <3>1, <3>2
      <3> QED
        BY <3>1, <3>4, <3>5
    <2>2. CASE i # id
      BY <1>6, <2>2 DEF LInv, Gone, Named, Existing
    <2> QED
      BY <2>1, <2>2
  <1>14. nextLimitId' \in {0} \cup LimitIds
    BY <1>1, TypesOf
  <1> QED
    BY <1>1, <1>7, <1>8, <1>10, <1>12, <1>13, <1>14, TypesOf, LimitStep

LEMMA AllowSignerInv ==
  ASSUME LInv, NEW id \in LimitIds, NEW s \in Ids, AllowLimitSigner(id, s)
  PROVE  LInv'
  <1> DEFINE t == <<id, limits[id].generation, s>>
  <1>1. /\ limits[id].exists /\ Exists(rules, s)
        /\ limitSigners' = limitSigners \cup {t}
        /\ UNCHANGED <<rules, limits, limitDestinations, nextLimitId, now, operation>>
    BY DEF AllowLimitSigner
  <1>2. limits[id].generation \in Nat /\ id <= nextLimitId
    BY <1>1, TypesOf DEF SpendingLimit, LInv, Begun, Existing
  <1>3. t \in LimitIds \X Nat \X Ids /\ t[1] = id /\ t[2] = limits[id].generation
    BY <1>2
  <1>4. limitSigners' \subseteq LimitIds \X Nat \X Ids
    BY <1>1, <1>3, TypesOf
  <1>5. Begun'
    BY <1>1 DEF LInv, Begun, Existing
  <1>6. Past'
    <2>1. ASSUME NEW u \in limitSigners'
          PROVE  u[1] <= nextLimitId /\ (limits[u[1]].exists => u[2] <= limits[u[1]].generation)
      <3>1. CASE u = t
        BY <1>2, <1>3, <3>1
      <3>2. CASE u \in limitSigners
        BY <3>2 DEF LInv, Past
      <3> QED
        BY <1>1, <3>1, <3>2
    <2>2. \A u \in limitDestinations :
            u[1] <= nextLimitId /\ (limits[u[1]].exists => u[2] <= limits[u[1]].generation)
      BY DEF LInv, Past
    <2> QED
      BY <1>1, <2>1, <2>2 DEF Past
  <1>7. Gone'
    <2> SUFFICES ASSUME NEW i \in LimitIds, limits[i].exists, NEW u \in Ids,
                        <<i, limits[i].generation, u>> \in limitSigners', ~ Exists(rules, u)
                 PROVE  limits[i].epoch < rules.epoch
      BY <1>1 DEF Gone, Named, Existing, Exists
    <2>1. u # s
      BY <1>1
    <2>2. <<i, limits[i].generation, u>> # t
      BY <2>1
    <2>3. <<i, limits[i].generation, u>> \in limitSigners
      BY <1>1, <2>2
    <2> QED
      BY <2>3 DEF LInv, Gone, Named, Existing
  <1> QED
    BY <1>1, <1>4, <1>5, <1>6, <1>7, TypesOf, LimitStep

LEMMA AllowDestinationInv ==
  ASSUME LInv, NEW id \in LimitIds, NEW to \in Destinations, AllowLimitDestination(id, to)
  PROVE  LInv'
  <1> DEFINE t == <<id, limits[id].generation, to>>
  <1>1. /\ limits[id].exists
        /\ limitDestinations' = limitDestinations \cup {t}
        /\ UNCHANGED <<rules, limits, limitSigners, nextLimitId, now, operation>>
    BY DEF AllowLimitDestination
  <1>2. limits[id].generation \in Nat /\ id <= nextLimitId
    BY <1>1, TypesOf DEF SpendingLimit, LInv, Begun, Existing
  <1>3. t \in LimitIds \X Nat \X Destinations /\ t[1] = id /\ t[2] = limits[id].generation
    BY <1>2
  <1>4. limitDestinations' \subseteq LimitIds \X Nat \X Destinations
    BY <1>1, <1>3, TypesOf
  <1>5. Begun'
    BY <1>1 DEF LInv, Begun, Existing
  <1>6. Past'
    <2>1. ASSUME NEW u \in limitDestinations'
          PROVE  u[1] <= nextLimitId /\ (limits[u[1]].exists => u[2] <= limits[u[1]].generation)
      <3>1. CASE u = t
        BY <1>2, <1>3, <3>1
      <3>2. CASE u \in limitDestinations
        BY <3>2 DEF LInv, Past
      <3> QED
        BY <1>1, <3>1, <3>2
    <2>2. \A u \in limitSigners :
            u[1] <= nextLimitId /\ (limits[u[1]].exists => u[2] <= limits[u[1]].generation)
      BY DEF LInv, Past
    <2> QED
      BY <1>1, <2>1, <2>2 DEF Past
  <1>7. Gone'
    BY <1>1 DEF LInv, Gone, Named, Existing, Exists
  <1> QED
    BY <1>1, <1>4, <1>5, <1>6, <1>7, TypesOf, LimitStep

\* One limit changes its budget or goes; nobody is named.
LEMMA OneLimitInv ==
  ASSUME LInv, NEW id \in LimitIds, NEW l \in SpendingLimit, limits' = [limits EXCEPT ![id] = l],
         l.remaining <= l.amount,
         l.exists => /\ limits[id].exists /\ l.generation = limits[id].generation
                     /\ l.epoch = limits[id].epoch /\ l.resetAt <= now + l.period,
         UNCHANGED <<rules, limitSigners, limitDestinations, nextLimitId, now>>,
         operation' \in {operation, NoOperation}
  PROVE  LInv'
  <1>1. limits'[id] = l /\ \A i \in LimitIds : i # id => limits'[i] = limits[i]
    BY TypesOf
  <1>2. limits' \in [LimitIds -> SpendingLimit]
    BY TypesOf
  <1>3. \A i \in LimitIds : limits'[i].remaining <= limits'[i].amount
    BY <1>1, TypesOf
  <1>4. Begun'
    BY <1>1 DEF LInv, Begun, Existing
  <1>5. Past'
    <2>1. \A t \in limitSigners : t[1] \in LimitIds
      BY TypesOf
    <2>2. \A t \in limitDestinations : t[1] \in LimitIds
      BY TypesOf
    <2> QED
      BY <1>1, <2>1, <2>2 DEF LInv, Past
  <1>6. Gone'
    BY <1>1 DEF LInv, Gone, Named, Existing, Exists
  <1> QED
    BY <1>2, <1>3, <1>4, <1>5, <1>6, TypesOf, LimitStep

LEMMA RemoveInv ==
  ASSUME LInv, NEW id \in LimitIds, RemoveSpendingLimit(id)
  PROVE  LInv'
  <1>1. NoLimit \in SpendingLimit /\ NoLimit.remaining <= NoLimit.amount /\ ~ NoLimit.exists
    BY DEF NoLimit, SpendingLimit
  <1>2. limits' = [limits EXCEPT ![id] = NoLimit]
        /\ UNCHANGED <<rules, limitSigners, limitDestinations, nextLimitId, now, operation>>
    BY DEF RemoveSpendingLimit
  <1> QED
    BY <1>1, <1>2, OneLimitInv

\* What a payment leaves of the limit.
Paid(l, amount) == [Refilled(l) EXCEPT !.remaining = @ - amount]

LEMMA PaidSound ==
  ASSUME LInv, NEW id \in LimitIds, limits[id].exists, NEW amount \in Amounts,
         WithinBudget(Refilled(limits[id]), amount)
  PROVE  LET l == limits[id]
             m == Refilled(l)
             paid == Paid(l, amount)
         IN  /\ paid \in SpendingLimit
             /\ paid.amount = l.amount /\ paid.period = l.period /\ paid.anyDestination = l.anyDestination
             /\ paid.exists = l.exists /\ paid.generation = l.generation /\ paid.epoch = l.epoch
             /\ paid.remaining = m.remaining - amount /\ paid.remaining <= paid.amount
             /\ paid.resetAt = m.resetAt /\ paid.resetAt <= now + paid.period
             /\ paid.period # 0 => now < paid.resetAt
             /\ PhaseOf(paid) = PhaseOf(l)
             /\ m.remaining \in Nat /\ m.remaining <= l.amount /\ amount <= m.remaining
  <1> DEFINE l == limits[id]
             m == Refilled(l)
             paid == Paid(l, amount)
  <1>1. l \in SpendingLimit /\ l.remaining <= l.amount /\ now \in Nat
    BY TypesOf
  <1>2. l.resetAt <= now + l.period
    BY DEF LInv, Begun, Existing
  <1> HIDE DEF l
  <1>3. /\ m \in SpendingLimit
        /\ m.amount = l.amount /\ m.period = l.period /\ m.anyDestination = l.anyDestination
        /\ m.exists = l.exists /\ m.generation = l.generation /\ m.epoch = l.epoch
        /\ m.remaining <= m.amount
        /\ m.resetAt <= now + m.period
        /\ m.period # 0 => now < m.resetAt
        /\ PhaseOf(m) = PhaseOf(l)
    BY <1>1, <1>2, RefilledSound
  <1>4. amount \in Nat /\ m.remaining \in Nat /\ m.amount \in Nat /\ amount <= m.remaining
    BY <1>3, Bounds DEF SpendingLimit, WithinBudget, l
  <1> HIDE DEF m
  <1>5. paid = [m EXCEPT !.remaining = m.remaining - amount]
    BY <1>3 DEF Paid, m, SpendingLimit
  <1>6. m.remaining - amount \in Nat /\ m.remaining - amount <= m.amount
    BY <1>3, <1>4
  <1> HIDE DEF paid
  <1>7. /\ paid \in SpendingLimit
        /\ paid.amount = m.amount /\ paid.period = m.period /\ paid.anyDestination = m.anyDestination
        /\ paid.exists = m.exists /\ paid.generation = m.generation /\ paid.epoch = m.epoch
        /\ paid.remaining = m.remaining - amount /\ paid.resetAt = m.resetAt
    BY <1>3, <1>5, <1>6 DEF SpendingLimit
  <1>8. PhaseOf(paid) = PhaseOf(m)
    BY <1>7 DEF PhaseOf
  <1> QED
    BY <1>3, <1>4, <1>6, <1>7, <1>8 DEF l, m, paid

LEMMA SpendInv ==
  ASSUME LInv, NEW id \in LimitIds, NEW s \in Ids, NEW to \in Destinations, NEW amount \in Amounts,
         Spend(id, s, to, amount), operation' \in {operation, NoOperation}
  PROVE  LInv'
  <1>1. /\ limits[id].exists /\ WithinBudget(Refilled(limits[id]), amount)
        /\ limits' = [limits EXCEPT ![id] = Paid(limits[id], amount)]
        /\ UNCHANGED <<rules, limitSigners, limitDestinations, nextLimitId, now>>
    BY DEF Spend, Paid
  <1>2. /\ Paid(limits[id], amount) \in SpendingLimit
        /\ Paid(limits[id], amount).remaining <= Paid(limits[id], amount).amount
        /\ Paid(limits[id], amount).exists = limits[id].exists
        /\ Paid(limits[id], amount).generation = limits[id].generation
        /\ Paid(limits[id], amount).epoch = limits[id].epoch
        /\ Paid(limits[id], amount).resetAt <= now + Paid(limits[id], amount).period
    BY <1>1, PaidSound
  <1> QED
    BY <1>1, <1>2, OneLimitInv

\* The limits stay, and what they know of.
LEMMA OperationStep ==
  ASSUME LInv, UNCHANGED <<rules, spending, now>>,
         operation' = NoOperation \/ operation' \in OperationType,
         Validated'
  PROVE  LInv'
  <1>1. UNCHANGED <<rules, limits, limitSigners, limitDestinations, nextLimitId, now>>
    BY DEF spending
  <1>2. LimitsTypeOK'
    BY <1>1, TypesOf DEF LimitsTypeOK, OperationType
  <1>3. Registered' /\ Begun' /\ Past'
    BY <1>1 DEF LInv, Registered, Begun, Past, Existing
  <1>4. Gone'
    BY <1>1 DEF LInv, Gone, Named, Existing, Exists
  <1> QED
    BY <1>2, <1>3, <1>4 DEF LInv

LEMMA ValidateInv ==
  ASSUME LInv, NEW id \in LimitIds, NEW s \in Ids, NEW to \in Destinations, NEW amount \in Amounts,
         ValidateSpend(id, s, to, amount)
  PROVE  LInv'
  <1> DEFINE op == [id |-> id, signer |-> s, to |-> to, amount |-> amount, epoch |-> rules.epoch]
  <1>1. operation' = op /\ Exists(rules, s) /\ UNCHANGED <<rules, spending, now>>
    BY DEF ValidateSpend
  <1>2. op \in OperationType /\ op.epoch = rules.epoch /\ op.signer = s
    BY TypesOf DEF OperationType
  <1> HIDE DEF op
  <1>3. Validated'
    BY <1>1, <1>2, TypesOf DEF Validated, Exists
  <1> QED
    BY <1>1, <1>2, <1>3, OperationStep

LEMMA FailInv ==
  ASSUME LInv, FailSpend
  PROVE  LInv'
  <1>1. operation' = NoOperation /\ UNCHANGED <<rules, spending, now>>
    BY DEF FailSpend
  <1>2. Validated'
    BY <1>1 DEF Validated
  <1> QED
    BY <1>1, <1>2, OperationStep

LEMMA TickInv ==
  ASSUME LInv, TickLimits
  PROVE  LInv'
  <1>1. /\ now' = now + 1
        /\ UNCHANGED <<rules, limits, limitSigners, limitDestinations, nextLimitId, operation>>
    BY DEF TickLimits, spending
  <1>2. now' \in Nat
    BY <1>1, TypesOf
  <1>3. LimitsTypeOK'
    BY <1>1, <1>2, TypesOf DEF LimitsTypeOK, OperationType
  <1>4. Begun'
    <2> SUFFICES ASSUME NEW id \in LimitIds, limits[id].exists
                 PROVE  /\ id <= nextLimitId /\ limits[id].epoch <= rules.epoch
                        /\ limits[id].resetAt <= now' + limits[id].period
      BY <1>1 DEF Begun, Existing
    <2>1. /\ id <= nextLimitId /\ limits[id].epoch <= rules.epoch
          /\ limits[id].resetAt <= now + limits[id].period
      BY DEF LInv, Begun, Existing
    <2>2. limits[id].resetAt \in Nat /\ limits[id].period \in Nat /\ now \in Nat
      BY TypesOf DEF SpendingLimit
    <2> QED
      BY <1>1, <2>1, <2>2
  <1>5. Registered' /\ Past' /\ Gone' /\ Validated'
    BY <1>1 DEF LInv, Registered, Past, Gone, Validated, Named, Existing, Exists
  <1> QED
    BY <1>3, <1>4, <1>5 DEF LInv

-----------------------------------------------------------------------------
(* The registry changes *)

\* Who is a signer after a change was one before, for as long, or is from now on.
Follows(after) ==
  /\ after \in Rules /\ Indexed(after) /\ after.epoch = rules.epoch
  /\ \A x \in Ids : Exists(after, x) =>
       \/ Exists(rules, x) /\ after.signers[x].since = rules.signers[x].since
       \/ after.signers[x].since = rules.epoch

LEMMA AddedSince ==
  ASSUME NEW r \in Rules, NEW input \in SignerInput
  PROVE  /\ AddSigner(r, input).signers[input.id].since = r.epoch
         /\ \A x \in Ids \ {input.id} : AddSigner(r, input).signers[x] = r.signers[x]
  <1> DEFINE after == AddSigner(r, input)
  <1>1. after.signers[input.id] = [kind |-> KindOf(input.id), permissions |-> input.permissions,
                                   since |-> r.epoch, index |-> Len(r.signerList) + 1]
    BY Added
  <1>2. \A x \in Ids \ {input.id} : after.signers[x] = r.signers[x]
    BY Added
  <1> HIDE DEF after
  <1>3. after.signers[input.id].since = r.epoch
    BY <1>1
  <1> QED
    BY <1>2, <1>3 DEF after

LEMMA AddFollows ==
  ASSUME LInv, NEW input \in SignerInput, ~ Exists(rules, input.id)
  PROVE  Follows(AddSigner(rules, input))
  <1> DEFINE after == AddSigner(rules, input)
  <1>1. rules \in Rules /\ Indexed(rules)
    BY TypesOf DEF LInv, Registered
  <1>2. after \in Rules /\ Indexed(after)
    BY <1>1, AddSignerType, AddSignerIndexed
  <1>3. after.epoch = rules.epoch
    BY <1>1 DEF AddSigner, Count, Rules
  <1>4. /\ after.signers[input.id].since = rules.epoch
        /\ \A x \in Ids \ {input.id} : after.signers[x] = rules.signers[x]
    BY <1>1, AddedSince
  <1> HIDE DEF after
  <1>5. ASSUME NEW x \in Ids, Exists(after, x)
        PROVE  \/ Exists(rules, x) /\ after.signers[x].since = rules.signers[x].since
               \/ after.signers[x].since = rules.epoch
    <2>1. CASE x = input.id
      BY <1>4, <2>1
    <2>2. CASE x # input.id
      BY <1>4, <1>5, <2>2 DEF Exists
    <2> QED
      BY <2>1, <2>2
  <1> QED
    BY <1>2, <1>3, <1>5 DEF Follows, after

\* Removing takes one signer out and moves another in the list, nothing else.
LEMMA RemovalKeeps ==
  ASSUME NEW r \in Rules, NEW id \in Ids, Indexed(r), Exists(r, id)
  PROVE  LET after == RemoveSigner(r, id)
         IN  /\ after \in Rules /\ Indexed(after) /\ after.epoch = r.epoch
             /\ ~ Exists(after, id)
             /\ \A x \in Ids \ {id} : /\ after.signers[x].since = r.signers[x].since
                                      /\ Exists(after, x) <=> Exists(r, x)
  <1> DEFINE after == RemoveSigner(r, id)
             moved == r.signerList[Len(r.signerList)]
  <1>1. after \in Rules /\ Indexed(after) /\ ~ Exists(after, id)
    BY RemoveSignerType, RemoveSignerIndexed
  <1>2. after.epoch = r.epoch
    BY DEF RemoveSigner, Count, Rules
  <1>3. \A x \in Ids \ {id} :
          after.signers[x] = IF x = moved THEN [r.signers[x] EXCEPT !.index = r.signers[id].index]
                             ELSE r.signers[x]
    BY RemovedSigners
  <1> HIDE DEF after, moved
  <1>4. ASSUME NEW x \in Ids \ {id}
        PROVE  after.signers[x].since = r.signers[x].since /\ (Exists(after, x) <=> Exists(r, x))
    <2>1. r.signers[x] \in Signer
      BY DEF Rules
    <2>2. /\ after.signers[x].since = r.signers[x].since
          /\ after.signers[x].kind = r.signers[x].kind
      BY <1>3, <2>1 DEF Signer
    <2> QED
      BY <2>2 DEF Exists
  <1> QED
    BY <1>1, <1>2, <1>4 DEF after

LEMMA RemoveFollows ==
  ASSUME LInv, NEW id \in Ids, Exists(rules, id)
  PROVE  Follows(RemoveSigner(rules, id))
  <1>1. rules \in Rules /\ Indexed(rules)
    BY TypesOf DEF LInv, Registered
  <1> DEFINE after == RemoveSigner(rules, id)
  <1>2. /\ after \in Rules /\ Indexed(after) /\ after.epoch = rules.epoch
        /\ ~ Exists(after, id)
        /\ \A x \in Ids \ {id} : /\ after.signers[x].since = rules.signers[x].since
                                 /\ Exists(after, x) <=> Exists(rules, x)
    BY <1>1, RemovalKeeps
  <1> HIDE DEF after
  <1> QED
    BY <1>2 DEF Follows, after

LEMMA ReplaceFollows ==
  ASSUME LInv, NEW id \in Ids, NEW input \in SignerInput, Exists(rules, id),
         ~ Exists(RemoveSigner(rules, id), input.id)
  PROVE  Follows(AddSigner(RemoveSigner(rules, id), input))
  <1> DEFINE removed == RemoveSigner(rules, id)
             after == AddSigner(removed, input)
  <1>1. rules \in Rules /\ Indexed(rules)
    BY TypesOf DEF LInv, Registered
  <1>2. /\ removed \in Rules /\ Indexed(removed) /\ removed.epoch = rules.epoch
        /\ ~ Exists(removed, id)
        /\ \A x \in Ids \ {id} : /\ removed.signers[x].since = rules.signers[x].since
                                 /\ Exists(removed, x) <=> Exists(rules, x)
    BY <1>1, RemovalKeeps
  <1> HIDE DEF removed
  <1>3. ~ Exists(removed, input.id)
    BY DEF removed
  <1>4. after \in Rules /\ Indexed(after)
    BY <1>2, <1>3, AddSignerType, AddSignerIndexed
  <1>5. after.epoch = removed.epoch
    BY <1>2 DEF AddSigner, Count, Rules
  <1>6. /\ after.signers[input.id].since = removed.epoch
        /\ \A x \in Ids \ {input.id} : after.signers[x] = removed.signers[x]
    BY <1>2, AddedSince
  <1> HIDE DEF after
  <1>7. ASSUME NEW x \in Ids, Exists(after, x)
        PROVE  \/ Exists(rules, x) /\ after.signers[x].since = rules.signers[x].since
               \/ after.signers[x].since = rules.epoch
    <2>1. CASE x = input.id
      BY <1>2, <1>6, <2>1
    <2>2. CASE x # input.id
      <3>1. Exists(removed, x) /\ after.signers[x].since = removed.signers[x].since
        BY <1>6, <1>7, <2>2 DEF Exists
      <3> QED
        BY <1>2, <3>1
    <2> QED
      BY <2>1, <2>2
  <1> QED
    BY <1>2, <1>4, <1>5, <1>7 DEF Follows, after, removed

\* The signers who may use a limit.
Users(id) == {s \in Ids : Exists(rules, s) /\ MaySpend(id, s)}

LEMMA RegistryStep ==
  ASSUME LInv, NEW after, Follows(after), NEW who, ChangeRegistry(after, who)
  PROVE  /\ LInv'
         /\ UNCHANGED <<limits, limitSigners, limitDestinations, nextLimitId, now>>
         /\ payment' = NoPayment
         /\ \A id \in Existing : Users(id)' \subseteq Users(id)
  <1>1. /\ rules' = AdvanceEpoch(after) /\ payment' = NoPayment
        /\ UNCHANGED <<limits, limitSigners, limitDestinations, nextLimitId, now, operation>>
    BY DEF ChangeRegistry, spending
  <1>2. after \in Rules /\ Indexed(after) /\ after.epoch = rules.epoch
    BY DEF Follows
  <1>3. /\ rules' \in Rules /\ rules'.epoch = rules.epoch + 1
        /\ rules'.signers = after.signers /\ rules'.signerList = after.signerList
    BY <1>1, <1>2 DEF AdvanceEpoch, Rules
  <1>4. rules.epoch \in Nat
    BY TypesOf
  <1>5. Indexed(rules')
    BY <1>2, <1>3 DEF Indexed, Exists
  <1>6. \A x \in Ids : Exists(rules', x) <=> Exists(after, x)
    BY <1>3 DEF Exists
  <1>7. \A x \in Ids : rules.signers[x].since \in Nat /\ rules.signers[x].since <= rules.epoch
    <2>1. \A x \in Ids : rules.signers[x] \in Signer
      BY TypesOf DEF Rules
    <2> QED
      BY <2>1 DEF Signer, LInv, Registered
  <1>8. ASSUME NEW x \in Ids
        PROVE  rules'.signers[x].since <= rules'.epoch
    <2>1. CASE Exists(after, x)
      <3>1. \/ after.signers[x].since = rules.signers[x].since
            \/ after.signers[x].since = rules.epoch
        BY <2>1 DEF Follows
      <3> QED
        BY <1>3, <1>4, <1>7, <3>1
    <2>2. CASE ~ Exists(after, x)
      <3>1. after.signers[x] = NoSigner
        BY <1>2, <2>2 DEF Indexed
      <3>2. after.signers[x].since = 0
        BY <3>1 DEF NoSigner
      <3> QED
        BY <1>3, <1>4, <3>2
    <2> QED
      BY <2>1, <2>2
  <1>9. Registered'
    BY <1>5, <1>8 DEF Registered
  <1>10. LimitsTypeOK'
    BY <1>1, <1>3, TypesOf DEF LimitsTypeOK, OperationType
  <1>11. \A id \in Existing : limits[id].epoch \in Nat /\ limits[id].epoch <= rules.epoch
    BY TypesOf DEF SpendingLimit, LInv, Begun, Existing
  <1>12. Begun'
    BY <1>1, <1>3, <1>4, <1>11 DEF LInv, Begun, Existing
  <1>13. Past'
    BY <1>1 DEF LInv, Past
  <1>14. Gone'
    BY <1>1, <1>3, <1>4, <1>11 DEF Gone, Existing
  <1>15. Validated'
    <2> SUFFICES ASSUME operation # NoOperation
                 PROVE  operation.epoch <= rules'.epoch /\ operation.epoch # rules'.epoch
      BY <1>1 DEF Validated
    <2>1. operation.epoch \in Nat /\ operation.epoch <= rules.epoch
      BY TypesOf DEF LInv, Validated, OperationType
    <2> QED
      BY <1>3, <1>4, <2>1
  <1>16. LInv'
    BY <1>9, <1>10, <1>12, <1>13, <1>14, <1>15 DEF LInv
  <1>17. ASSUME NEW id \in Existing, NEW s \in Ids, Exists(rules', s), MaySpend(id, s)'
         PROVE  Exists(rules, s) /\ MaySpend(id, s)
    <2>1. Named(id, s) /\ after.signers[s].since <= limits[id].epoch /\ Exists(after, s)
      BY <1>1, <1>3, <1>6, <1>17 DEF MaySpend, Named
    <2>2. CASE Exists(rules, s) /\ after.signers[s].since = rules.signers[s].since
      BY <2>1, <2>2 DEF MaySpend
    <2>3. CASE after.signers[s].since = rules.epoch
      <3>1. limits[id].epoch = rules.epoch
        BY <1>4, <1>11, <2>1, <2>3
      <3>2. Exists(rules, s)
        BY <1>4, <2>1, <3>1 DEF LInv, Gone
      <3>3. rules.signers[s].since <= limits[id].epoch
        BY <1>7, <3>1
      <3> QED
        BY <2>1, <3>2, <3>3 DEF MaySpend
    <2> QED
      BY <2>1, <2>2, <2>3 DEF Follows
  <1>18. \A id \in Existing : Users(id)' \subseteq Users(id)
    <2> SUFFICES ASSUME NEW id \in Existing, NEW s \in Users(id)'
                 PROVE  s \in Users(id)
      OBVIOUS
    <2>1. s \in Ids /\ Exists(rules', s) /\ MaySpend(id, s)'
      BY DEF Users, Exists
    <2> QED
      BY <1>17, <2>1 DEF Users
  <1> QED
    BY <1>1, <1>16, <1>18

-----------------------------------------------------------------------------
(* What a limit is worth *)

SpentOf(l) == l.amount - Refilled(l).remaining
Reach(id) == {to \in Destinations : limits[id].anyDestination \/ Listed(id, to)}

LEMMA AllowanceIs ==
  ASSUME NEW id
  PROVE  Allowance(id) = [amount |-> limits[id].amount, period |-> limits[id].period,
                          phase |-> PhaseOf(limits[id]), spent |-> SpentOf(limits[id]),
                          signers |-> Users(id), places |-> Reach(id)]
  BY DEF Allowance, PhaseOf, SpentOf, Users, Reach

LEMMA AllowancesAre ==
  /\ DOMAIN Allowances = Existing
  /\ \A id \in Existing : Allowances[id] = Allowance(id)
  BY DEF Allowances

\* A limit that stays as it is, with its users and its places, is worth the same.
LEMMA WorthFrame ==
  ASSUME NEW id, limits'[id] = limits[id], now' = now,
         limitSigners' = limitSigners \/ Users(id)' = Users(id),
         Users(id)' = Users(id), Reach(id)' = Reach(id)
  PROVE  Allowance(id)' = Allowance(id)
  <1>1. PhaseOf(limits[id])' = PhaseOf(limits[id]) /\ SpentOf(limits[id])' = SpentOf(limits[id])
    BY DEF PhaseOf, SpentOf, Refilled, Due
  <1>2. Allowance(id)' = [amount |-> limits'[id].amount, period |-> limits'[id].period,
                          phase |-> PhaseOf(limits[id])', spent |-> SpentOf(limits[id])',
                          signers |-> Users(id)', places |-> Reach(id)']
    BY DEF Allowance, PhaseOf, SpentOf, Users, Reach
  <1> QED
    BY <1>1, <1>2, AllowanceIs

LEMMA UsersFrame ==
  ASSUME NEW id, limits'[id] = limits[id], UNCHANGED <<rules, limitSigners>>
  PROVE  Users(id)' = Users(id)
  BY DEF Users, MaySpend, Named, Exists

LEMMA ReachFrame ==
  ASSUME NEW id, limits'[id] = limits[id], UNCHANGED limitDestinations
  PROVE  Reach(id)' = Reach(id)
  BY DEF Reach, Listed

\* Nothing was named yet of a generation or an id that is new.
LEMMA NobodyNamed ==
  ASSUME LInv, NEW id \in LimitIds, limits[id].exists \/ id = nextLimitId + 1, NEW x
  PROVE  /\ <<id, limits[id].generation + 1, x>> \notin limitSigners
         /\ <<id, limits[id].generation + 1, x>> \notin limitDestinations
  <1> DEFINE t == <<id, limits[id].generation + 1, x>>
  <1>1. limits[id].generation \in Nat /\ id \in Nat /\ nextLimitId \in Nat
    BY TypesOf, Bounds DEF SpendingLimit
  <1>2. t[1] = id /\ t[2] = limits[id].generation + 1
    OBVIOUS
  <1> HIDE DEF t
  <1>3. t \notin limitSigners
    <2> SUFFICES ASSUME t \in limitSigners
                 PROVE  FALSE
      OBVIOUS
    <2>1. t[1] <= nextLimitId /\ (limits[t[1]].exists => t[2] <= limits[t[1]].generation)
      BY DEF LInv, Past
    <2> QED
      BY <1>1, <1>2, <2>1
  <1>4. t \notin limitDestinations
    <2> SUFFICES ASSUME t \in limitDestinations
                 PROVE  FALSE
      OBVIOUS
    <2>1. t[1] <= nextLimitId /\ (limits[t[1]].exists => t[2] <= limits[t[1]].generation)
      BY DEF LInv, Past
    <2> QED
      BY <1>1, <1>2, <2>1
  <1> QED
    BY <1>3, <1>4 DEF t

-----------------------------------------------------------------------------
(* Every step is one of the promise *)

LEMMA SetMaps ==
  ASSUME LInv, NEW id \in LimitIds, NEW amount \in Amounts, NEW period \in Periods,
         NEW any \in BOOLEAN, SetSpendingLimit(id, amount, period, any)
  PROVE  Spending!Set(id, amount, period, any)
  <1> DEFINE l == [amount |-> amount, remaining |-> amount, period |-> period, resetAt |-> now + period,
                   anyDestination |-> any, exists |-> TRUE,
                   generation |-> limits[id].generation + 1, epoch |-> rules.epoch]
             fresh == [amount |-> amount, period |-> period, phase |-> 0, spent |-> 0,
                       signers |-> {}, places |-> IF any THEN Destinations ELSE {}]
  <1>1. /\ limits[id].exists \/ id = nextLimitId + 1
        /\ nextLimitId' = IF limits[id].exists THEN nextLimitId ELSE id
        /\ limits' = [limits EXCEPT ![id] = l]
        /\ payment' = NoPayment
        /\ UNCHANGED <<rules, limitSigners, limitDestinations, now, operation>>
    BY DEF SetSpendingLimit, NextGeneration, Quiet
  <1>2. /\ l.exists /\ l.generation = limits[id].generation + 1 /\ l.epoch = rules.epoch
        /\ l.resetAt = now + period /\ l.period = period /\ l.amount = amount /\ l.remaining = amount
        /\ l.anyDestination = any
    OBVIOUS
  <1> HIDE DEF l
  <1>3. limits'[id] = l /\ \A i \in LimitIds : i # id => limits'[i] = limits[i]
    BY <1>1, TypesOf
  <1>4. Existing' = Existing \cup {id}
    BY <1>2, <1>3 DEF Existing
  <1>5. ASSUME NEW i \in Existing, i # id
        PROVE  Allowance(i)' = Allowance(i)
    <2>1. i \in LimitIds /\ limits'[i] = limits[i]
      BY <1>3, <1>5 DEF Existing
    <2>2. Users(i)' = Users(i) /\ Reach(i)' = Reach(i)
      BY <1>1, <2>1, UsersFrame, ReachFrame
    <2> QED
      BY <1>1, <2>1, <2>2, WorthFrame
  <1>6. Allowance(id)' = fresh
    <2>1. Users(id)' = {}
      <3>1. \A s \in Ids : ~ Named(id, s)'
        BY <1>1, <1>2, <1>3, NobodyNamed DEF Named
      <3> QED
        BY <3>1 DEF Users, MaySpend
    <2>2. Reach(id)' = IF any THEN Destinations ELSE {}
      <3>1. \A to \in Destinations : ~ Listed(id, to)'
        BY <1>1, <1>2, <1>3, NobodyNamed DEF Listed
      <3> QED
        BY <1>2, <1>3, <3>1 DEF Reach
    <2>3. now \in Nat /\ period \in Nat /\ amount \in Nat
      BY TypesOf, Bounds
    <2>4. PhaseOf(limits[id])' = 0
      <3>1. CASE period = 0
        BY <1>1, <1>2, <1>3, <3>1 DEF PhaseOf
      <3>2. CASE period # 0
        <4>1. PhaseOf(limits[id])' = (now - ((now + period) - period)) % period
          BY <1>1, <1>2, <1>3, <3>2 DEF PhaseOf
        <4>2. now - ((now + period) - period) = 0
          BY <2>3
        <4>3. 0 % period = 0
          BY <2>3, <3>2, ModSelf
        <4> QED
          BY <4>1, <4>2, <4>3
      <3> QED
        BY <3>1, <3>2
    <2>5. SpentOf(limits[id])' = 0
      <3>1. ~ (l.period # 0 /\ now >= l.resetAt)
        BY <1>2, <2>3
      <3>2. ~ Due(limits[id])'
        BY <1>1, <1>3, <3>1 DEF Due
      <3>3. Refilled(limits[id])' = limits'[id]
        BY <3>2 DEF Refilled
      <3>4. SpentOf(limits[id])' = l.amount - l.remaining
        BY <1>3, <3>3 DEF SpentOf
      <3> QED
        BY <1>2, <2>3, <3>4
    <2>6. Allowance(id)' = [amount |-> limits'[id].amount, period |-> limits'[id].period,
                            phase |-> PhaseOf(limits[id])', spent |-> SpentOf(limits[id])',
                            signers |-> Users(id)', places |-> Reach(id)']
      BY DEF Allowance, PhaseOf, SpentOf, Users, Reach
    <2> QED
      BY <1>2, <1>3, <2>1, <2>2, <2>4, <2>5, <2>6
  <1>7. Allowances' = [x \in Existing \cup {id} |-> IF x # id THEN Allowances[x] ELSE fresh]
    <2>1. Allowances' = [x \in Existing' |-> Allowance(x)']
      BY DEF Allowances
    <2>2. ASSUME NEW x \in Existing'
          PROVE  Allowance(x)' = IF x # id THEN Allowances[x] ELSE fresh
      <3>1. CASE x = id
        BY <1>6, <3>1
      <3>2. CASE x # id
        <4>1. x \in Existing
          BY <1>4, <3>2
        <4> QED
          BY <1>5, <3>2, <4>1, AllowancesAre
      <3> QED
        BY <3>1, <3>2
    <2> HIDE DEF fresh
    <2> QED
      BY <1>4, <2>1, <2>2
  <1>8. nextLimitId' = IF id = nextLimitId + 1 THEN id ELSE nextLimitId
    <2>1. limits[id].exists => id <= nextLimitId
      BY DEF LInv, Begun, Existing
    <2>2. id \in Nat /\ nextLimitId \in Nat
      BY TypesOf, Bounds
    <2> QED
      BY <1>1, <2>1, <2>2
  <1>9. id = nextLimitId + 1 \/ id \in DOMAIN Allowances
    BY <1>1, AllowancesAre DEF Existing
  <1>10. DOMAIN Allowances = Existing
    BY AllowancesAre
  <1> QED
    BY <1>1, <1>7, <1>8, <1>9, <1>10 DEF Spending!Set

\* A step in which the limits there are remain, and all but one are worth the same.
LEMMA OneLimitMaps ==
  ASSUME NEW id \in Existing, Existing' = Existing,
         \A i \in Existing : i # id => Allowance(i)' = Allowance(i)
  PROVE  Allowances' = [Allowances EXCEPT ![id] = Allowance(id)']
  <1>1. Allowances' = [x \in Existing |-> Allowance(x)']
    BY DEF Allowances
  <1>2. Allowances = [x \in Existing |-> Allowance(x)]
    BY DEF Allowances
  <1>3. \A x \in Existing : Allowance(x)' = IF x = id THEN Allowance(id)' ELSE Allowance(x)
    OBVIOUS
  <1> QED
    BY <1>1, <1>2, <1>3

LEMMA AllowSignerMaps ==
  ASSUME LInv, NEW id \in LimitIds, NEW s \in Ids, AllowLimitSigner(id, s)
  PROVE  id \in Existing /\ (Spending!AllowSigner(id, s) \/ Spending!Nothing)
  <1> DEFINE t == <<id, limits[id].generation, s>>
  <1>1. /\ limits[id].exists /\ Exists(rules, s) /\ payment' = NoPayment
        /\ limitSigners' = limitSigners \cup {t}
        /\ UNCHANGED <<rules, limits, limitDestinations, nextLimitId, now, operation>>
    BY DEF AllowLimitSigner, Quiet
  <1>2. id \in Existing /\ Existing' = Existing
    BY <1>1 DEF Existing
  <1>3. ASSUME NEW i \in Existing, NEW u \in Ids
        PROVE  Named(i, u)' <=> Named(i, u) \/ (i = id /\ u = s)
    BY <1>1 DEF Named
  <1>4. ASSUME NEW i \in Existing
        PROVE  Reach(i)' = Reach(i)
    BY <1>1, ReachFrame
  <1>5. ASSUME NEW i \in Existing, i # id
        PROVE  Allowance(i)' = Allowance(i)
    <2>1. Users(i)' = Users(i)
      BY <1>1, <1>3, <1>5 DEF Users, MaySpend, Exists
    <2> QED
      BY <1>1, <1>4, <2>1, WorthFrame
  <1>6. CASE rules.signers[s].since <= limits[id].epoch
    <2>1. Users(id)' = Users(id) \cup {s}
      <3>1. ASSUME NEW u \in Ids
            PROVE  (Exists(rules, u) /\ MaySpend(id, u))' <=> (Exists(rules, u) /\ MaySpend(id, u)) \/ u = s
        BY <1>1, <1>2, <1>3, <1>6 DEF MaySpend, Exists
      <3> QED
        BY <3>1 DEF Users
    <2>2. PhaseOf(limits[id])' = PhaseOf(limits[id]) /\ SpentOf(limits[id])' = SpentOf(limits[id])
      BY <1>1 DEF PhaseOf, SpentOf, Refilled, Due
    <2>3. Allowance(id)' = [amount |-> limits'[id].amount, period |-> limits'[id].period,
                            phase |-> PhaseOf(limits[id])', spent |-> SpentOf(limits[id])',
                            signers |-> Users(id)', places |-> Reach(id)']
      BY DEF Allowance, PhaseOf, SpentOf, Users, Reach
    <2>4. Allowance(id)' = [Allowance(id) EXCEPT !.signers = Users(id) \cup {s}]
      <3>1. limits' = limits /\ Reach(id)' = Reach(id)
        BY <1>1, <1>2, <1>4
      <3>2. Allowance(id)' = [amount |-> limits[id].amount, period |-> limits[id].period,
                              phase |-> PhaseOf(limits[id]), spent |-> SpentOf(limits[id]),
                              signers |-> Users(id) \cup {s}, places |-> Reach(id)]
        BY <2>1, <2>2, <2>3, <3>1, Zenon
      <3>3. Allowance(id) = [amount |-> limits[id].amount, period |-> limits[id].period,
                             phase |-> PhaseOf(limits[id]), spent |-> SpentOf(limits[id]),
                             signers |-> Users(id), places |-> Reach(id)]
        BY AllowanceIs
      <3> QED
        BY <3>2, <3>3
    <2>5. Allowances' = [Allowances EXCEPT ![id] = Allowance(id)']
      BY <1>2, <1>5, OneLimitMaps
    <2>6. Allowances[id] = Allowance(id) /\ Allowance(id).signers = Users(id)
      BY <1>2, AllowancesAre, AllowanceIs
    <2>7. Allowances' = [Allowances EXCEPT ![id].signers = @ \cup {s}]
      BY <2>4, <2>5, <2>6
    <2> QED
      BY <1>1, <1>2, <2>7 DEF Spending!AllowSigner
  <1>7. CASE ~ (rules.signers[s].since <= limits[id].epoch)
    <2>1. Users(id)' = Users(id)
      <3>1. ASSUME NEW u \in Ids
            PROVE  (Exists(rules, u) /\ MaySpend(id, u))' <=> (Exists(rules, u) /\ MaySpend(id, u))
        BY <1>1, <1>2, <1>3, <1>7 DEF MaySpend, Exists
      <3> QED
        BY <3>1 DEF Users
    <2>2. \A i \in Existing : Allowance(i)' = Allowance(i)
      BY <1>1, <1>2, <1>4, <1>5, <2>1, WorthFrame
    <2>3. Allowances' = Allowances
      BY <1>2, <2>2 DEF Allowances
    <2> QED
      BY <1>1, <1>2, <2>3 DEF Spending!Nothing
  <1> QED
    BY <1>2, <1>6, <1>7

LEMMA PlacesSet ==
  ASSUME NEW a, NEW pe, NEW ph, NEW sp, NEW si, NEW pl, NEW new
  PROVE  [[amount |-> a, period |-> pe, phase |-> ph, spent |-> sp, signers |-> si, places |-> pl]
            EXCEPT !.places = new]
           = [amount |-> a, period |-> pe, phase |-> ph, spent |-> sp, signers |-> si, places |-> new]
  OBVIOUS

LEMMA AllowDestinationMaps ==
  ASSUME LInv, NEW id \in LimitIds, NEW to \in Destinations, AllowLimitDestination(id, to)
  PROVE  id \in Existing /\ Spending!AllowPlace(id, to)
  <1> DEFINE t == <<id, limits[id].generation, to>>
  <1>1. /\ limits[id].exists /\ payment' = NoPayment
        /\ limitDestinations' = limitDestinations \cup {t}
        /\ UNCHANGED <<rules, limits, limitSigners, nextLimitId, now, operation>>
    BY DEF AllowLimitDestination, Quiet
  <1>2. id \in Existing /\ Existing' = Existing
    BY <1>1 DEF Existing
  <1>3. ASSUME NEW i \in Existing, NEW u \in Destinations
        PROVE  Listed(i, u)' <=> Listed(i, u) \/ (i = id /\ u = to)
    BY <1>1 DEF Listed
  <1>4. ASSUME NEW i \in Existing
        PROVE  Users(i)' = Users(i)
    BY <1>1, UsersFrame
  <1>5. ASSUME NEW i \in Existing, i # id
        PROVE  Allowance(i)' = Allowance(i)
    <2>1. Reach(i)' = Reach(i)
      BY <1>1, <1>3, <1>5 DEF Reach
    <2> QED
      BY <1>1, <1>4, <2>1, WorthFrame
  <1>6. Reach(id)' = Reach(id) \cup {to}
    BY <1>1, <1>2, <1>3 DEF Reach
  <1>7. PhaseOf(limits[id])' = PhaseOf(limits[id]) /\ SpentOf(limits[id])' = SpentOf(limits[id])
    BY <1>1 DEF PhaseOf, SpentOf, Refilled, Due
  <1>8. Allowance(id)' = [amount |-> limits'[id].amount, period |-> limits'[id].period,
                          phase |-> PhaseOf(limits[id])', spent |-> SpentOf(limits[id])',
                          signers |-> Users(id)', places |-> Reach(id)']
    BY DEF Allowance, PhaseOf, SpentOf, Users, Reach
  <1>9. Allowance(id)' = [Allowance(id) EXCEPT !.places = Reach(id) \cup {to}]
    <2>1. limits' = limits /\ Users(id)' = Users(id)
      BY <1>1, <1>2, <1>4
    <2>2. Allowance(id)' = [amount |-> limits[id].amount, period |-> limits[id].period,
                            phase |-> PhaseOf(limits[id]), spent |-> SpentOf(limits[id]),
                            signers |-> Users(id), places |-> Reach(id) \cup {to}]
      BY <1>6, <1>7, <1>8, <2>1, Zenon
    <2>3. Allowance(id) = [amount |-> limits[id].amount, period |-> limits[id].period,
                           phase |-> PhaseOf(limits[id]), spent |-> SpentOf(limits[id]),
                           signers |-> Users(id), places |-> Reach(id)]
      BY AllowanceIs
    <2>4. [[amount |-> limits[id].amount, period |-> limits[id].period,
            phase |-> PhaseOf(limits[id]), spent |-> SpentOf(limits[id]),
            signers |-> Users(id), places |-> Reach(id)] EXCEPT !.places = Reach(id) \cup {to}]
            = [amount |-> limits[id].amount, period |-> limits[id].period,
               phase |-> PhaseOf(limits[id]), spent |-> SpentOf(limits[id]),
               signers |-> Users(id), places |-> Reach(id) \cup {to}]
      BY PlacesSet
    <2> QED
      BY <2>2, <2>3, <2>4, Zenon
  <1>10. Allowances' = [Allowances EXCEPT ![id] = Allowance(id)']
    BY <1>2, <1>5, OneLimitMaps
  <1>11. Allowances[id] = Allowance(id) /\ Allowance(id).places = Reach(id)
    BY <1>2, AllowancesAre, AllowanceIs
  <1>12. Allowances' = [Allowances EXCEPT ![id].places = @ \cup {to}]
    BY <1>9, <1>10, <1>11
  <1> QED
    BY <1>1, <1>2, <1>12 DEF Spending!AllowPlace

LEMMA RemoveMaps ==
  ASSUME LInv, NEW id \in LimitIds, RemoveSpendingLimit(id)
  PROVE  id \in Existing /\ Spending!Withdraw(id)
  <1>1. /\ limits[id].exists /\ limits' = [limits EXCEPT ![id] = NoLimit] /\ payment' = NoPayment
        /\ UNCHANGED <<rules, limitSigners, limitDestinations, nextLimitId, now, operation>>
    BY DEF RemoveSpendingLimit, Quiet
  <1>2. limits'[id] = NoLimit /\ \A i \in LimitIds : i # id => limits'[i] = limits[i]
    BY <1>1, TypesOf
  <1>3. ~ NoLimit.exists
    BY DEF NoLimit
  <1>4. id \in Existing /\ Existing' = Existing \ {id}
    BY <1>1, <1>2, <1>3 DEF Existing
  <1>5. ASSUME NEW i \in Existing, i # id
        PROVE  Allowance(i)' = Allowances[i]
    <2>1. i \in LimitIds /\ limits'[i] = limits[i]
      BY <1>2, <1>5 DEF Existing
    <2>2. Users(i)' = Users(i) /\ Reach(i)' = Reach(i)
      BY <1>1, <2>1, UsersFrame, ReachFrame
    <2> QED
      BY <1>1, <2>1, <2>2, WorthFrame, AllowancesAre
  <1>6. Allowances' = [x \in Existing \ {id} |-> Allowances[x]]
    <2>1. Allowances' = [x \in Existing' |-> Allowance(x)']
      BY DEF Allowances
    <2> QED
      BY <1>4, <1>5, <2>1
  <1>7. DOMAIN Allowances = Existing
    BY AllowancesAre
  <1> QED
    BY <1>1, <1>4, <1>6, <1>7 DEF Spending!Withdraw

LEMMA SignersSet ==
  ASSUME NEW a, NEW pe, NEW ph, NEW sp, NEW si, NEW pl, NEW new
  PROVE  [[amount |-> a, period |-> pe, phase |-> ph, spent |-> sp, signers |-> si, places |-> pl]
            EXCEPT !.signers = new]
           = [amount |-> a, period |-> pe, phase |-> ph, spent |-> sp, signers |-> new, places |-> pl]
  OBVIOUS

LEMMA RegistryMaps ==
  ASSUME LInv, NEW after, Follows(after), NEW who, ChangeRegistry(after, who)
  PROVE  Spending!ChangeSigners
  <1>1. /\ UNCHANGED <<limits, limitSigners, limitDestinations, nextLimitId, now>>
        /\ payment' = NoPayment
        /\ \A id \in Existing : Users(id)' \subseteq Users(id)
    BY RegistryStep
  <1>2. Existing' = Existing
    BY <1>1 DEF Existing
  <1>3. DOMAIN Allowances' = Existing /\ \A id \in Existing : Allowances'[id] = Allowance(id)'
    <2>1. Allowances' = [x \in Existing |-> Allowance(x)']
      BY <1>2 DEF Allowances
    <2> QED
      BY <2>1
  <1>4. ASSUME NEW id \in Existing
        PROVE  \E kept \in SUBSET Allowances[id].signers :
                 Allowances'[id] = [Allowances[id] EXCEPT !.signers = kept]
    <2> DEFINE kept == Users(id)'
               old == [amount |-> limits[id].amount, period |-> limits[id].period,
                       phase |-> PhaseOf(limits[id]), spent |-> SpentOf(limits[id]),
                       signers |-> Users(id), places |-> Reach(id)]
               new == [amount |-> limits[id].amount, period |-> limits[id].period,
                       phase |-> PhaseOf(limits[id]), spent |-> SpentOf(limits[id]),
                       signers |-> kept, places |-> Reach(id)]
    <2>1. Allowances[id] = old
      BY AllowancesAre, AllowanceIs
    <2>2. limits' = limits /\ Reach(id)' = Reach(id)
      BY <1>1, ReachFrame
    <2>3. PhaseOf(limits[id])' = PhaseOf(limits[id]) /\ SpentOf(limits[id])' = SpentOf(limits[id])
      BY <1>1 DEF PhaseOf, SpentOf, Refilled, Due
    <2>4. Allowance(id)' = [amount |-> limits'[id].amount, period |-> limits'[id].period,
                            phase |-> PhaseOf(limits[id])', spent |-> SpentOf(limits[id])',
                            signers |-> Users(id)', places |-> Reach(id)']
      BY DEF Allowance, PhaseOf, SpentOf, Users, Reach
    <2>5. Allowances'[id] = new
      BY <1>3, <2>2, <2>3, <2>4, Zenon
    <2>6. [old EXCEPT !.signers = kept] = new
      BY SignersSet
    <2>7. old.signers = Users(id)
      OBVIOUS
    <2>8. kept \in SUBSET old.signers
      <3>1. kept \subseteq Users(id)
        BY <1>1
      <3> HIDE DEF kept, old
      <3> QED
        BY <2>7, <3>1
    <2> HIDE DEF kept, old, new
    <2> QED
      BY <2>1, <2>5, <2>6, <2>8
  <1>5. DOMAIN Allowances = Existing
    BY AllowancesAre
  <1> QED
    BY <1>1, <1>3, <1>4, <1>5 DEF Spending!ChangeSigners

\* Where nothing a limit is worth by changes, nothing happened to the promise.
LEMMA SameMaps ==
  ASSUME UNCHANGED <<rules, limits, limitSigners, limitDestinations, nextLimitId, now>>
  PROVE  Allowances' = Allowances /\ nextLimitId' = nextLimitId
  <1>1. Existing' = Existing
    BY DEF Existing
  <1>2. \A id \in Existing : Allowance(id)' = Allowance(id)
    BY UsersFrame, ReachFrame, WorthFrame
  <1>3. Allowances' = [x \in Existing |-> Allowance(x)']
    BY <1>1 DEF Allowances
  <1>4. Allowances = [x \in Existing |-> Allowance(x)]
    BY DEF Allowances
  <1> QED
    BY <1>2, <1>3, <1>4

LEMMA ValidateMaps ==
  ASSUME NEW id, NEW s, NEW to, NEW amount, ValidateSpend(id, s, to, amount)
  PROVE  Spending!Nothing
  BY SameMaps DEF ValidateSpend, Quiet, spending, Spending!Nothing

LEMMA FailMaps ==
  ASSUME FailSpend
  PROVE  Spending!Nothing
  BY SameMaps DEF FailSpend, Quiet, spending, Spending!Nothing

LEMMA SpentSet ==
  ASSUME NEW a, NEW pe, NEW ph, NEW sp, NEW si, NEW pl, NEW new
  PROVE  [[amount |-> a, period |-> pe, phase |-> ph, spent |-> sp, signers |-> si, places |-> pl]
            EXCEPT !.spent = new]
           = [amount |-> a, period |-> pe, phase |-> ph, spent |-> new, signers |-> si, places |-> pl]
  OBVIOUS

LEMMA SpendMaps ==
  ASSUME LInv, NEW id \in LimitIds, NEW s \in Ids, NEW to \in Destinations, NEW amount \in Amounts,
         Spend(id, s, to, amount), Exists(rules, s)
  PROVE  id \in Existing /\ Spending!Pay(id, s, to, amount)
  <1> DEFINE l == limits[id]
             m == Refilled(l)
             paid == Paid(l, amount)
             old == [amount |-> l.amount, period |-> l.period, phase |-> PhaseOf(l), spent |-> SpentOf(l),
                     signers |-> Users(id), places |-> Reach(id)]
             new == [amount |-> l.amount, period |-> l.period, phase |-> PhaseOf(l),
                     spent |-> SpentOf(l) + amount, signers |-> Users(id), places |-> Reach(id)]
  <1>1. /\ l.exists /\ MaySpend(id, s) /\ (l.anyDestination \/ Listed(id, to))
        /\ WithinBudget(m, amount)
        /\ limits' = [limits EXCEPT ![id] = paid]
        /\ payment' = [id |-> id, signer |-> s, to |-> to, amount |-> amount]
        /\ UNCHANGED <<rules, limitSigners, limitDestinations, nextLimitId, now>>
    BY DEF Spend, Paid
  <1>2. /\ paid \in SpendingLimit
        /\ paid.amount = l.amount /\ paid.period = l.period /\ paid.anyDestination = l.anyDestination
        /\ paid.exists = l.exists /\ paid.generation = l.generation /\ paid.epoch = l.epoch
        /\ paid.remaining = m.remaining - amount /\ paid.resetAt <= now + paid.period
        /\ paid.period # 0 => now < paid.resetAt
        /\ PhaseOf(paid) = PhaseOf(l)
        /\ m.remaining \in Nat /\ m.remaining <= l.amount /\ amount <= m.remaining
    BY <1>1, PaidSound
  <1>3. limits'[id] = paid /\ \A i \in LimitIds : i # id => limits'[i] = limits[i]
    BY <1>1, TypesOf
  <1>4. id \in Existing /\ Existing' = Existing
    BY <1>1, <1>2, <1>3 DEF Existing
  <1>5. ASSUME NEW i \in Existing, i # id
        PROVE  Allowance(i)' = Allowance(i)
    <2>1. i \in LimitIds /\ limits'[i] = limits[i]
      BY <1>3, <1>5 DEF Existing
    <2>2. Users(i)' = Users(i) /\ Reach(i)' = Reach(i)
      BY <1>1, <2>1, UsersFrame, ReachFrame
    <2> QED
      BY <1>1, <2>1, <2>2, WorthFrame
  <1>6. Allowance(id)' = new
    <2>1. Users(id)' = Users(id)
      <3>1. ASSUME NEW u \in Ids
            PROVE  (Exists(rules, u) /\ MaySpend(id, u))' <=> (Exists(rules, u) /\ MaySpend(id, u))
        BY <1>1, <1>2, <1>3 DEF MaySpend, Named, Exists
      <3> QED
        BY <3>1 DEF Users
    <2>2. Reach(id)' = Reach(id)
      BY <1>1, <1>2, <1>3 DEF Reach, Listed
    <2>3. PhaseOf(limits[id])' = PhaseOf(l)
      <3>1. PhaseOf(limits[id])' = PhaseOf(paid)
        <4> HIDE DEF paid
        <4> QED
          BY <1>1, <1>3 DEF PhaseOf
      <3> QED
        BY <1>2, <3>1
    <2>4. SpentOf(limits[id])' = SpentOf(l) + amount
      <3> HIDE DEF paid
      <3>1. paid.period \in Nat /\ paid.resetAt \in Nat /\ now \in Nat /\ l.amount \in Nat /\ amount \in Nat
        BY <1>2, TypesOf, Bounds DEF SpendingLimit
      <3>2. ~ Due(limits[id])'
        BY <1>1, <1>2, <1>3, <3>1 DEF Due
      <3>3. Refilled(limits[id])' = paid
        BY <1>3, <3>2 DEF Refilled
      <3>4. SpentOf(limits[id])' = paid.amount - paid.remaining
        BY <1>3, <3>3 DEF SpentOf
      <3>5. SpentOf(l) = l.amount - m.remaining
        BY DEF SpentOf
      <3> HIDE DEF m, l
      <3> QED
        BY <1>2, <3>1, <3>4, <3>5
    <2>5. Allowance(id)' = [amount |-> limits'[id].amount, period |-> limits'[id].period,
                            phase |-> PhaseOf(limits[id])', spent |-> SpentOf(limits[id])',
                            signers |-> Users(id)', places |-> Reach(id)']
      BY DEF Allowance, PhaseOf, SpentOf, Users, Reach
    <2>6. limits'[id].amount = l.amount /\ limits'[id].period = l.period
      BY <1>2, <1>3
    <2> QED
      BY <2>1, <2>2, <2>3, <2>4, <2>5, <2>6, Zenon
  <1>7. Allowances[id] = old
    BY <1>4, AllowancesAre, AllowanceIs
  <1>8. Allowances' = [Allowances EXCEPT ![id] = new]
    <2>1. Allowances' = [Allowances EXCEPT ![id] = Allowance(id)']
      BY <1>4, <1>5, OneLimitMaps
    <2> QED
      BY <1>6, <2>1
  <1>9. new = [old EXCEPT !.spent = SpentOf(l) + amount]
    BY SpentSet
  <1>10. old.spent = SpentOf(l) /\ old.amount = l.amount /\ old.signers = Users(id) /\ old.places = Reach(id)
    OBVIOUS
  <1>11. SpentOf(l) + amount <= l.amount
    <2>1. SpentOf(l) = l.amount - m.remaining
      BY DEF SpentOf
    <2>2. l.amount \in Nat /\ amount \in Nat
      BY TypesOf, Bounds DEF SpendingLimit
    <2> HIDE DEF l, m
    <2> QED
      BY <1>2, <2>1, <2>2
  <1>12. s \in Users(id) /\ to \in Reach(id)
    BY <1>1 DEF Users, Reach
  <1> HIDE DEF l, m, paid, old, new
  <1>13. Allowances' = [Allowances EXCEPT ![id].spent = @ + amount]
    BY <1>7, <1>8, <1>9, <1>10
  <1> QED
    BY <1>1, <1>4, <1>7, <1>10, <1>11, <1>12, <1>13 DEF Spending!Pay

\* A day later a limit is a day further into its period, and a period that begins is unspent.
LEMMA PhaseTicks ==
  ASSUME NEW l \in SpendingLimit, now \in Nat, now' = now + 1,
         l.resetAt <= now + l.period, l.remaining <= l.amount, NEW next,
         next = IF l.period = 0 THEN 0 ELSE (now + 1 - (l.resetAt - l.period)) % l.period
  PROVE  next = IF l.period = 0 THEN 0 ELSE (PhaseOf(l) + 1) % l.period
  <1>1. l.period \in Nat /\ l.resetAt \in Nat
    BY DEF SpendingLimit
  <1>2. CASE l.period = 0
    BY <1>2
  <1>3. CASE l.period # 0
    <2> DEFINE p == l.period
               n == now - (l.resetAt - l.period)
    <2>1. n \in Nat /\ p \in Nat \ {0}
      BY <1>1, <1>3
    <2>2. now + 1 - (l.resetAt - l.period) = n + 1
      BY <1>1
    <2>3. PhaseOf(l) = n % p
      BY <1>3 DEF PhaseOf
    <2> HIDE DEF n, p
    <2>4. (n + 1) % p = ((n % p) + 1) % p
      BY <2>1, ModNext
    <2>5. next = (n + 1) % p
      BY <1>3, <2>2 DEF p
    <2> QED
      BY <1>3, <2>3, <2>4, <2>5 DEF p
  <1> QED
    BY <1>2, <1>3

\* What is spent of a limit a day later.
LEMMA SpentTicks ==
  ASSUME NEW l \in SpendingLimit, now \in Nat,
         l.resetAt <= now + l.period, l.remaining <= l.amount,
         NEW next, next = IF l.period = 0 THEN 0 ELSE (now + 1 - (l.resetAt - l.period)) % l.period
  PROVE  (IF l.period # 0 /\ now + 1 >= l.resetAt THEN 0 ELSE l.amount - l.remaining)
           = IF l.period # 0 /\ next = 0 THEN 0 ELSE SpentOf(l)
  <1> DEFINE due == l.period # 0 /\ now + 1 >= l.resetAt
  <1>1. l.period \in Nat /\ l.resetAt \in Nat /\ l.amount \in Nat /\ l.remaining \in Nat
    BY DEF SpendingLimit
  <1>2. ~ Due(l) => SpentOf(l) = l.amount - l.remaining
    BY DEF SpentOf, Refilled
  <1>3. Due(l) => SpentOf(l) = 0
    <2> SUFFICES ASSUME Due(l)
                 PROVE  SpentOf(l) = 0
      OBVIOUS
    <2>1. Refilled(l).remaining = l.amount
      BY DEF Refilled, SpendingLimit
    <2> QED
      BY <1>1, <2>1 DEF SpentOf
  <1>4. CASE l.period = 0
    BY <1>2, <1>4 DEF Due
  <1>5. CASE Due(l)
    <2>1. due
      BY <1>1, <1>5 DEF Due
    <2> QED
      BY <1>3, <1>5, <2>1
  <1>6. CASE l.period # 0 /\ ~ Due(l)
    <2> DEFINE p == l.period
               n == now - (l.resetAt - l.period)
    <2>1. n \in Nat /\ p \in Nat \ {0} /\ n < p
      BY <1>1, <1>6 DEF Due
    <2>2. now + 1 - (l.resetAt - l.period) = n + 1 /\ (due <=> n + 1 = p)
      BY <1>1, <1>6 DEF Due
    <2>3. next = (n + 1) % p
      BY <1>6, <2>2
    <2> HIDE DEF n, p
    <2>4. CASE n + 1 = p
      <3>1. next = 0
        BY <2>1, <2>3, <2>4, ModSelf
      <3> QED
        BY <1>6, <2>2, <2>4, <3>1
    <2>5. CASE n + 1 # p
      <3>1. n + 1 \in Nat /\ n + 1 < p
        BY <2>1, <2>5
      <3>2. (n + 1) % p = n + 1
        BY <2>1, <3>1, ModSmall
      <3>3. next # 0
        BY <2>1, <2>3, <3>2
      <3> QED
        BY <1>2, <1>6, <2>2, <2>5, <3>3
    <2> QED
      BY <2>4, <2>5
  <1> QED
    BY <1>4, <1>5, <1>6

LEMMA TickMaps ==
  ASSUME LInv, TickLimits
  PROVE  Spending!Advance
  <1>1. /\ now' = now + 1 /\ payment' = NoPayment
        /\ UNCHANGED <<rules, limits, limitSigners, limitDestinations, nextLimitId, operation>>
    BY DEF TickLimits, spending, Quiet
  <1>2. Existing' = Existing /\ DOMAIN Allowances = Existing
    BY <1>1, AllowancesAre DEF Existing
  <1> DEFINE Later(old) ==
               LET phase == IF old.period = 0 THEN 0 ELSE (old.phase + 1) % old.period
               IN  [old EXCEPT !.phase = phase,
                               !.spent = IF old.period # 0 /\ phase = 0 THEN 0 ELSE @]
  <1>3. ASSUME NEW id \in Existing
        PROVE  Allowance(id)' = Later(Allowances[id])
    <2> DEFINE l == limits[id]
               next == IF l.period = 0 THEN 0 ELSE (now + 1 - (l.resetAt - l.period)) % l.period
               left == IF l.period # 0 /\ next = 0 THEN 0 ELSE SpentOf(l)
               due == l.period # 0 /\ now + 1 >= l.resetAt
               old == [amount |-> l.amount, period |-> l.period, phase |-> PhaseOf(l),
                       spent |-> SpentOf(l), signers |-> Users(id), places |-> Reach(id)]
    <2>1. /\ l \in SpendingLimit /\ l.remaining <= l.amount /\ now \in Nat
          /\ l.resetAt <= now + l.period
      BY TypesOf DEF LInv, Begun, Existing
    <2>2. l' = l
      BY <1>1
    <2>3. PhaseOf(l)' = next
      <3>1. PhaseOf(l)' = IF l.period = 0 THEN 0 ELSE (now' - (l.resetAt - l.period)) % l.period
        BY <2>2, Zenon DEF PhaseOf
      <3>2. now' = now + 1
        BY <1>1
      <3>3. (now' - (l.resetAt - l.period)) % l.period = (now + 1 - (l.resetAt - l.period)) % l.period
        <4> HIDE DEF l
        <4>1. now' - (l.resetAt - l.period) = now + 1 - (l.resetAt - l.period)
          BY <2>1, <3>2 DEF SpendingLimit
        <4> QED
          BY <4>1, Zenon
      <3> QED
        BY <3>1, <3>3
    <2>4. SpentOf(l)' = left
      <3> HIDE DEF left, due, next
      <3>1. (IF due THEN 0 ELSE l.amount - l.remaining) = left
        <4> HIDE DEF l
        <4> QED
          BY <2>1, SpentTicks DEF left, due, next
      <3>2. Due(l)' <=> due
        BY <1>1 DEF Due, due
      <3>3. CASE due
        <4>1. Due(l)'
          BY <3>2, <3>3
        <4>2. Refilled(l)'.remaining = l.amount
          BY <1>1, <2>1, <4>1 DEF Refilled, SpendingLimit, Due
        <4>3. SpentOf(l)' = l.amount - l.amount
          BY <1>1, <4>2 DEF SpentOf
        <4>4. l.amount \in Nat
          BY <2>1 DEF SpendingLimit
        <4> QED
          BY <3>1, <3>3, <4>3, <4>4
      <3>4. CASE ~ due
        <4>1. Refilled(l)' = l
          BY <1>1, <3>2, <3>4 DEF Refilled, Due
        <4>2. SpentOf(l)' = l.amount - l.remaining
          BY <1>1, <4>1 DEF SpentOf
        <4> QED
          BY <3>1, <3>4, <4>2
      <3> QED
        BY <3>3, <3>4
    <2>5. next = IF l.period = 0 THEN 0 ELSE (PhaseOf(l) + 1) % l.period
      <3> HIDE DEF l
      <3> QED
        BY <1>1, <2>1, PhaseTicks DEF next
    <2>6. Users(id)' = Users(id) /\ Reach(id)' = Reach(id)
      BY <1>1, UsersFrame, ReachFrame
    <2>7. Allowance(id)' = [amount |-> limits'[id].amount, period |-> limits'[id].period,
                            phase |-> PhaseOf(limits[id])', spent |-> SpentOf(limits[id])',
                            signers |-> Users(id)', places |-> Reach(id)']
      BY DEF Allowance, PhaseOf, SpentOf, Users, Reach
    <2>8. Allowances[id] = old
      BY AllowancesAre, AllowanceIs
    <2> HIDE DEF next, left
    <2>9. Allowance(id)' = [amount |-> l.amount, period |-> l.period, phase |-> next,
                            spent |-> left, signers |-> Users(id), places |-> Reach(id)]
      BY <2>2, <2>3, <2>4, <2>6, <2>7, Zenon
    <2>old. old = [amount |-> l.amount, period |-> l.period, phase |-> PhaseOf(l),
                   spent |-> SpentOf(l), signers |-> Users(id), places |-> Reach(id)]
      OBVIOUS
    <2>10. Later(old) = [old EXCEPT !.phase = next, !.spent = left]
      BY <2>5 DEF left
    <2>11. [old EXCEPT !.phase = next, !.spent = left]
             = [amount |-> l.amount, period |-> l.period, phase |-> next,
                spent |-> left, signers |-> Users(id), places |-> Reach(id)]
      <3> DEFINE ph == PhaseOf(l)
                 sp == SpentOf(l)
                 a == l.amount
                 pe == l.period
                 si == Users(id)
                 pl == Reach(id)
      <3>1. old = [amount |-> a, period |-> pe, phase |-> ph, spent |-> sp, signers |-> si, places |-> pl]
        BY <2>old
      <3> HIDE DEF ph, sp, a, pe, si, pl, old
      <3>2. [old EXCEPT !.phase = next, !.spent = left]
              = [amount |-> a, period |-> pe, phase |-> next, spent |-> left, signers |-> si, places |-> pl]
        <4> DEFINE q == [old EXCEPT !.phase = next]
                   u == [amount |-> a, period |-> pe, phase |-> next, spent |-> sp, signers |-> si, places |-> pl]
        <4>1. q = u
          BY <3>1
        <4>2. [u EXCEPT !.spent = left]
                = [amount |-> a, period |-> pe, phase |-> next, spent |-> left, signers |-> si, places |-> pl]
          BY SpentSet
        <4>3. [old EXCEPT !.phase = next, !.spent = left] = [q EXCEPT !.spent = left]
          OBVIOUS
        <4> HIDE DEF q, u
        <4> QED
          BY <4>1, <4>2, <4>3, Zenon
      <3> QED
        BY <3>2 DEF ph, sp, a, pe, si, pl
    <2> QED
      BY <2>8, <2>9, <2>10, <2>11, Zenon
  <1> HIDE DEF Later
  <1>4. Allowances' = [x \in Existing |-> Later(Allowances[x])]
    <2>1. Allowances' = [x \in Existing |-> Allowance(x)']
      BY <1>2 DEF Allowances
    <2> QED
      BY <1>3, <2>1
  <1> QED
    BY <1>1, <1>2, <1>4 DEF Spending!Advance, Later

LEMMA InitMaps ==
  ASSUME InitLimits
  PROVE  Spending!InitPromise
  <1>1. limits = [id \in LimitIds |-> NoLimit] /\ nextLimitId = 0 /\ payment = NoPayment
    BY DEF InitLimits
  <1>2. Existing = {}
    BY <1>1 DEF Existing, NoLimit
  <1>3. Allowances = << >>
    BY <1>2 DEF Allowances
  <1> QED
    BY <1>1, <1>3 DEF Spending!InitPromise

\* Every step keeps the invariant and is a step of the promise, or none.
LEMMA StepMaps ==
  ASSUME LInv, [NextLimits]_limitVars
  PROVE  LInv' /\ [Spending!NextPromise]_(Spending!promised)
  <1>1. ASSUME NEW id \in LimitIds, NEW amount \in Amounts, NEW period \in Periods,
               NEW any \in BOOLEAN, SetSpendingLimit(id, amount, period, any)
        PROVE  LInv' /\ Spending!NextPromise
    <2>1. Spending!Set(id, amount, period, any)
      BY <1>1, SetMaps
    <2>2. id \in DOMAIN Allowances \cup {nextLimitId + 1}
      BY <2>1 DEF Spending!Set
    <2> QED
      BY <1>1, <2>1, <2>2, SetInv DEF Spending!NextPromise
  <1>2. ASSUME NEW id \in LimitIds, NEW s \in Ids, AllowLimitSigner(id, s)
        PROVE  LInv' /\ Spending!NextPromise
    BY <1>2, AllowSignerInv, AllowSignerMaps, AllowancesAre DEF Spending!NextPromise
  <1>3. ASSUME NEW id \in LimitIds, NEW to \in Destinations, AllowLimitDestination(id, to)
        PROVE  LInv' /\ Spending!NextPromise
    BY <1>3, AllowDestinationInv, AllowDestinationMaps, AllowancesAre DEF Spending!NextPromise
  <1>4. ASSUME NEW id \in LimitIds, RemoveSpendingLimit(id)
        PROVE  LInv' /\ Spending!NextPromise
    BY <1>4, RemoveInv, RemoveMaps, AllowancesAre DEF Spending!NextPromise
  <1>5. ASSUME NEW id \in LimitIds, NEW s \in Ids, NEW to \in Destinations, NEW amount \in Amounts,
               Spend(id, s, to, amount), Exists(rules, s), operation' \in {operation, NoOperation}
        PROVE  LInv' /\ Spending!NextPromise
    BY <1>5, SpendInv, SpendMaps, AllowancesAre DEF Spending!NextPromise
  <1>6. ASSUME NEW id \in LimitIds, NEW s \in Ids, NEW to \in Destinations, NEW amount \in Amounts,
               SpendDirectly(id, s, to, amount)
        PROVE  LInv' /\ Spending!NextPromise
    BY <1>5, <1>6 DEF SpendDirectly
  <1>7. ASSUME NEW id \in LimitIds, NEW s \in Ids, NEW to \in Destinations, NEW amount \in Amounts,
               ValidateSpend(id, s, to, amount)
        PROVE  LInv' /\ Spending!NextPromise
    BY <1>7, ValidateInv, ValidateMaps DEF Spending!NextPromise
  <1>8. ASSUME NEW after, NEW who, Follows(after), ChangeRegistry(after, who)
        PROVE  LInv' /\ Spending!NextPromise
    BY <1>8, RegistryStep, RegistryMaps DEF Spending!NextPromise
  <1>9. ASSUME NEW input \in SignerInputs, Add(input)
        PROVE  LInv' /\ Spending!NextPromise
    <2>1. Follows(AddSigner(rules, input))
      BY <1>9, AddFollows, Bounds DEF Add
    <2> QED
      BY <1>8, <1>9, <2>1 DEF Add
  <1>10. ASSUME NEW id \in Ids, Remove(id)
         PROVE  LInv' /\ Spending!NextPromise
    <2>1. Follows(RemoveSigner(rules, id))
      BY <1>10, RemoveFollows DEF Remove
    <2> QED
      BY <1>8, <1>10, <2>1 DEF Remove
  <1>11. ASSUME NEW id \in Ids, NEW input \in SignerInputs, Replace(id, input)
         PROVE  LInv' /\ Spending!NextPromise
    <2>1. Follows(AddSigner(RemoveSigner(rules, id), input))
      BY <1>11, ReplaceFollows, Bounds DEF Replace
    <2> QED
      BY <1>8, <1>11, <2>1 DEF Replace
  <1>12. CASE ExecuteSpend
    <2>1. operation # NoOperation /\ operation.epoch = rules.epoch /\ operation' = NoOperation
          /\ Spend(operation.id, operation.signer, operation.to, operation.amount)
      BY <1>12 DEF ExecuteSpend, SameEpoch
    <2>2. operation \in OperationType /\ Exists(rules, operation.signer)
      BY <2>1, TypesOf DEF LInv, Validated
    <2>3. operation.id \in LimitIds /\ operation.signer \in Ids /\ operation.to \in Destinations
          /\ operation.amount \in Amounts
      BY <2>2 DEF OperationType
    <2> QED
      BY <1>5, <2>1, <2>2, <2>3
  <1>13. CASE FailSpend
    BY <1>13, FailInv, FailMaps DEF Spending!NextPromise
  <1>14. CASE TickLimits
    BY <1>14, TickInv, TickMaps DEF Spending!NextPromise
  <1>15. CASE UNCHANGED limitVars
    <2>1. UNCHANGED <<rules, limits, limitSigners, limitDestinations, nextLimitId, now, operation, payment, joined>>
      BY <1>15 DEF limitVars, spending
    <2>2. LInv'
      <3>1. Validated'
        BY <2>1 DEF LInv, Validated, Exists
      <3>2. operation' = NoOperation \/ operation' \in OperationType
        BY <2>1, TypesOf
      <3> QED
        BY <2>1, <3>1, <3>2, OperationStep DEF spending
    <2>3. UNCHANGED Spending!promised
      BY <2>1, SameMaps DEF Spending!promised
    <2> QED
      BY <2>2, <2>3
  <1> QED
    BY <1>1, <1>2, <1>3, <1>4, <1>6, <1>7, <1>9, <1>10, <1>11, <1>12, <1>13, <1>14, <1>15 DEF NextLimits

-----------------------------------------------------------------------------
(* Theorems *)

\* The invariant holds throughout.
THEOREM LimitsInvariance == SpecLimits => []LInv
  <1>1. LInv /\ [NextLimits]_limitVars => LInv'
    BY StepMaps
  <1> QED
    BY <1>1, Initially, PTL DEF SpecLimits

\* Limits stay within the contract's types, and no budget exceeds its amount.
THEOREM LimitsTypeCorrect == SpecLimits => []LimitsTypeOK
  <1>1. LInv => LimitsTypeOK
    BY DEF LInv
  <1> QED
    BY <1>1, LimitsInvariance, PTL

\* The contract's spending limits, with their generations, epochs and resets, implement
\* the promise: never more than the amount in a period counted from the setting of the
\* limit, by the signers and to the places named since, and nothing once it is removed
\* (setSpendingLimit, allowLimitSigner, allowLimitDestination, removeSpendingLimit, spend).
THEOREM LimitsKeepPromise == SpecLimits => KeepsPromise
  <1>1. InitLimits => Spending!InitPromise
    BY InitMaps
  <1>2. LInv /\ [NextLimits]_limitVars => [Spending!NextPromise]_(Spending!promised)
    BY StepMaps
  <1> QED
    BY <1>1, <1>2, LimitsInvariance, PTL DEF SpecLimits, KeepsPromise, Spending!Promise
=============================================================================
