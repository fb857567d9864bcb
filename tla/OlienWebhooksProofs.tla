------------------------ MODULE OlienWebhooksProofs ------------------------
(***************************************************************************)
(* Proofs about OlienWebhooks, for any hooks, topics, proposals and faults *)
(* and any limits on cycles, attempts and failures.                        *)
(*                                                                         *)
(* The argument: rows are told from the cursor on without a gap, so what   *)
(* the cursor passes was queued or is too old to be near it; a delivery    *)
(* that is sent waits until its answer is recorded, once; and failures are *)
(* counted no faster than posts fail.                                      *)
(***************************************************************************)
EXTENDS OlienWebhooks, WellFoundedInduction, TLAPS

-----------------------------------------------------------------------------
(* The inductive invariant *)

SourcesOK ==
  /\ ledger \in Nat /\ clock \in Nat /\ pings \in Nat /\ ledger + clock + pings <= MaxEvents
  /\ changed \in [Proposals -> 0..clock]
  /\ \A v \in DOMAIN late : v \in Proposals /\ late[v] \in 0..clock

\* No cursor is past what there is.
Hook == [state : {"none", "on", "off", "gone"}, since : Nat, ledgerCursor : Nat,
         proposalCursor : Nat, failures : 0..MaxFailures]

HooksOK ==
  /\ hooks \in [Hooks -> Hook] /\ streak \in [Hooks -> 0..MaxFailures]
  /\ \A h \in Hooks : hooks[h].ledgerCursor <= ledger /\ hooks[h].proposalCursor <= clock

\* What waits has an attempt left, and every delivery is of a hook that was created.
Delivery == [hook : Hooks, what : {"row", "ping"} \cup Proposals, at : Nat,
             attempts : 0..MaxAttempts, due : BOOLEAN, outcome : {"none", "delivered", "abandoned"}]

DeliveriesOK ==
  /\ deliveries \in Seq(Delivery)
  /\ \A d \in DOMAIN deliveries :
       /\ Waiting(d) => deliveries[d].attempts < MaxAttempts
       /\ hooks[deliveries[d].hook].state # "none"

Collecting == {"ledger", "queueing rows", "proposals", "queueing changes"}
Recorded == {"resetting", "counting", "switching"}
Sending == {"sending", "got through", "failed"} \cup Recorded

Fields == {"at", "left", "hook", "todo", "newest"}
IsCycle(c) == DOMAIN c = Fields /\ c = [x \in Fields |-> c[x]]

\* Whoever is collected for was created, and what is sent waits, but for the delivery whose
\* answer has just been recorded.
CycleOK ==
  /\ IsCycle(cycle) /\ cycle.at \in {"idle", "hooks"} \cup Collecting \cup Sending
  /\ \A h \in cycle.left : h \in Hooks /\ hooks[h].state # "none"
  /\ cycle.at \in Collecting => cycle.hook \in Hooks /\ hooks[cycle.hook].state # "none"
  /\ At("queueing changes") => cycle.todo \subseteq [p : Proposals, at : 0..clock] /\ cycle.newest \in 0..clock
  /\ cycle.at \in Sending =>
       /\ cycle.todo \subseteq DOMAIN deliveries /\ (~ At("sending") => cycle.todo # {})
       /\ \A d \in cycle.todo : Waiting(d) \/ (cycle.at \in Recorded /\ d = Item)

\* The rows left to tell have no gap, and between the cursor and the newest that was told,
\* those that will be near the cursor have a delivery.
RowsOK ==
  At("queueing rows") =>
    /\ cycle.newest \in 0..ledger /\ hooks[cycle.hook].ledgerCursor <= cycle.newest
    /\ \A t \in cycle.todo : t \in Nat /\ cycle.newest < t /\ t <= ledger
    /\ \A t \in cycle.todo, r \in Nat :
         cycle.newest < r /\ r <= t /\ (\A u \in cycle.todo : u - r < PerCycle) => r \in cycle.todo
    /\ \A r \in Nat :
         /\ hooks[cycle.hook].ledgerCursor < r /\ r <= cycle.newest /\ cycle.newest - r < PerCycle
         /\ Exists(cycle.hook) /\ \A u \in cycle.todo : u - r < PerCycle
         => HasRow(cycle.hook, r)

NoneBehind ==
  \A h \in Hooks, r \in Nat :
    /\ Exists(h) /\ "ledger" \in TopicsOf[h]
    /\ r > hooks[h].since /\ r <= hooks[h].ledgerCursor /\ hooks[h].ledgerCursor - r < PerCycle
    => HasRow(h, r)

Broken == fault \in {"crash", "error"}

\* A hook has no more failures than posts that failed, but while a success is recorded; and
\* a failure that is not yet counted is in the streak.
CountsOK ==
  ~ Broken =>
    /\ \A h \in Hooks :
         Exists(h) => \/ hooks[h].failures <= streak[h]
                      \/ cycle.at \in {"got through", "resetting"} /\ Receiver = h
    /\ cycle.at \in {"failed", "counting"} /\ Exists(Receiver) =>
         hooks[Receiver].failures < streak[Receiver] \/ streak[Receiver] = MaxFailures
    /\ At("switching") => streak[Receiver] = MaxFailures

WInv ==
  /\ SourcesOK /\ HooksOK /\ DeliveriesOK /\ CycleOK /\ RowsOK /\ NoneBehind /\ CountsOK

-----------------------------------------------------------------------------
(* Numbers *)

\* A set of numbers that is not empty has a smallest, and Min is it.
LEMMA MinIn ==
  ASSUME NEW S \in SUBSET Nat, S # {}
  PROVE  Min(S) \in S /\ \A y \in S : Min(S) <= y
  <1>1. PICK x \in S : \A y \in S : ~(<<y, x>> \in OpToRel(<, Nat))
    BY WFMin, NatLessThanWellFounded
  <1>2. \A y \in S : <<y, x>> \in OpToRel(<, Nat) <=> y < x
    BY DEF OpToRel
  <1>3. \A y \in S : ~(y < x)
    BY <1>1, <1>2, Zenon
  <1>4. \A y \in S : y \in Nat
    OBVIOUS
  <1>5. \A y \in S : x <= y
    <2> HIDE <1>1, <1>2
    <2> QED
      BY <1>3, <1>4
  <1> QED
    BY <1>5 DEF Min

\* The smaller and the larger of two numbers.
LEMMA MinOfTwo ==
  ASSUME NEW m \in Nat, NEW n \in Nat
  PROVE  Min({m, n}) \in {m, n} /\ Min({m, n}) <= m /\ Min({m, n}) <= n
  <1>1. \E x \in {m, n} : \A y \in {m, n} : x <= y
    OBVIOUS
  <1> QED
    BY <1>1 DEF Min

LEMMA MaxOfTwo ==
  ASSUME NEW m \in Nat, NEW n \in Nat
  PROVE  Max({m, n}) \in {m, n}
  <1>1. \E x \in {m, n} : \A y \in {m, n} : x >= y
    OBVIOUS
  <1> QED
    BY <1>1 DEF Max

\* The limits.
LEMMA Limits ==
  /\ PerCycle \in Nat \ {0} /\ MaxAttempts \in Nat \ {0} /\ MaxFailures \in Nat \ {0} /\ MaxEvents \in Nat
  BY WebhooksAssumption DEF WebhooksAssumption

-----------------------------------------------------------------------------
(* Deliveries *)

\* What a delivery is of, whatever becomes of it.
Kept ==
  \A d \in DOMAIN deliveries :
    /\ d \in DOMAIN deliveries'
    /\ deliveries'[d].hook = deliveries[d].hook /\ deliveries'[d].what = deliveries[d].what
    /\ deliveries'[d].at = deliveries[d].at

\* A row that has a delivery keeps it.
LEMMA HasRowStays ==
  ASSUME Kept, NEW h, NEW r, HasRow(h, r)
  PROVE  HasRow(h, r)'
  BY DEF Kept, HasRow

\* Deliveries that stay as they are.
LEMMA KeptAsIs ==
  ASSUME UNCHANGED deliveries
  PROVE  Kept /\ \A d \in DOMAIN deliveries : Waiting(d)' <=> Waiting(d)
  BY DEF Kept, Waiting

\* What is in the deliveries.
LEMMA OneOf ==
  ASSUME DeliveriesOK, NEW d \in DOMAIN deliveries
  PROVE  /\ deliveries[d] \in Delivery /\ d \in Nat /\ deliveries[d].hook \in Hooks
         /\ Waiting(d) => deliveries[d].attempts < MaxAttempts
         /\ hooks[deliveries[d].hook].state # "none"
  <1>1. deliveries \in Seq(Delivery)
    BY DEF DeliveriesOK
  <1>2. d \in 1..Len(deliveries) /\ Len(deliveries) \in Nat
    BY <1>1
  <1>3. deliveries[d] \in Delivery
    BY <1>1, <1>2
  <1> QED
    BY <1>2, <1>3 DEF DeliveriesOK, Delivery

\* A delivery is queued, for a hook that was created.
LEMMA Appended ==
  ASSUME DeliveriesOK, UNCHANGED hooks, NEW h \in Hooks, hooks[h].state # "none",
         NEW what \in {"row", "ping"} \cup Proposals, NEW at \in Nat,
         deliveries' = Append(deliveries, Queued(h, what, at))
  PROVE  /\ DeliveriesOK' /\ Kept
         /\ \A d \in DOMAIN deliveries : Waiting(d) => Waiting(d)'
         /\ what = "row" => HasRow(h, at)'
  <1> DEFINE e == Queued(h, what, at)
             n == Len(deliveries) + 1
  <1>1. e \in Delivery /\ e.hook = h /\ e.what = what /\ e.at = at /\ e.attempts = 0 /\ e.outcome = "none"
    BY Limits DEF Queued, Delivery
  <1>2. deliveries \in Seq(Delivery) /\ Len(deliveries) \in Nat
    BY DEF DeliveriesOK
  <1> HIDE DEF e
  <1>3. /\ deliveries' \in Seq(Delivery) /\ DOMAIN deliveries = 1..Len(deliveries) /\ DOMAIN deliveries' = 1..n
        /\ \A d \in 1..Len(deliveries) : deliveries'[d] = deliveries[d]
        /\ deliveries'[n] = e
    <2>1. deliveries' = Append(deliveries, e)
      BY DEF e
    <2> QED
      BY <1>1, <1>2, <2>1
  <1>4. \A d \in DOMAIN deliveries' : d \in DOMAIN deliveries \/ d = n
    BY <1>2, <1>3
  <1>5. \A d \in DOMAIN deliveries : d \in DOMAIN deliveries' /\ deliveries'[d] = deliveries[d]
    BY <1>2, <1>3
  <1>6. n \in DOMAIN deliveries'
    BY <1>2, <1>3
  <1> HIDE DEF n
  <1>7. Kept /\ \A d \in DOMAIN deliveries : Waiting(d) => Waiting(d)'
    BY <1>5 DEF Kept, Waiting
  <1>8. DeliveriesOK'
    <2> SUFFICES ASSUME NEW d \in DOMAIN deliveries'
                 PROVE  /\ Waiting(d)' => deliveries'[d].attempts < MaxAttempts
                        /\ hooks'[deliveries'[d].hook].state # "none"
      BY <1>3 DEF DeliveriesOK
    <2>1. CASE d = n
      BY <1>1, <1>3, <2>1, Limits
    <2>2. CASE d \in DOMAIN deliveries
      BY <1>5, <2>2, OneOf DEF Waiting
    <2> QED
      BY <1>4, <2>1, <2>2
  <1> QED
    BY <1>1, <1>3, <1>6, <1>7, <1>8 DEF HasRow

\* A delivery gets the outcome of an attempt, or becomes due.
LEMMA Updated ==
  ASSUME DeliveriesOK, UNCHANGED hooks, NEW d \in DOMAIN deliveries, NEW e \in Delivery,
         e.hook = deliveries[d].hook, e.what = deliveries[d].what, e.at = deliveries[d].at,
         e.outcome = "none" => e.attempts < MaxAttempts,
         deliveries' = [deliveries EXCEPT ![d] = e]
  PROVE  /\ DeliveriesOK' /\ Kept /\ DOMAIN deliveries' = DOMAIN deliveries
         /\ deliveries'[d] = e
         /\ \A c \in DOMAIN deliveries \ {d} : deliveries'[c] = deliveries[c]
  <1>1. deliveries \in Seq(Delivery) /\ DOMAIN deliveries = 1..Len(deliveries) /\ Len(deliveries) \in Nat
    BY DEF DeliveriesOK
  <1>2. /\ deliveries' \in Seq(Delivery) /\ DOMAIN deliveries' = DOMAIN deliveries /\ deliveries'[d] = e
        /\ \A c \in DOMAIN deliveries \ {d} : deliveries'[c] = deliveries[c]
    BY <1>1
  <1>3. Kept
    BY <1>2 DEF Kept
  <1>4. DeliveriesOK'
    <2> SUFFICES ASSUME NEW c \in DOMAIN deliveries
                 PROVE  /\ Waiting(c)' => deliveries'[c].attempts < MaxAttempts
                        /\ hooks'[deliveries'[c].hook].state # "none"
      BY <1>2 DEF DeliveriesOK
    <2>1. hooks[deliveries[c].hook].state # "none"
      BY OneOf
    <2>2. CASE c = d
      BY <1>2, <2>1, <2>2 DEF Waiting
    <2>3. CASE c # d
      BY <1>2, <2>1, <2>3, OneOf DEF Waiting
    <2> QED
      BY <2>2, <2>3
  <1> QED
    BY <1>2, <1>3, <1>4

-----------------------------------------------------------------------------
(* What happens around the cycle *)

\* While a delivery is sent there is one, of a hook that was created.
LEMMA ItemIs ==
  ASSUME CycleOK, DeliveriesOK, cycle.at \in Sending, cycle.todo # {}
  PROVE  /\ Item \in cycle.todo /\ Item \in DOMAIN deliveries /\ deliveries[Item] \in Delivery
         /\ Receiver \in Hooks /\ hooks[Receiver].state # "none"
  <1>1. cycle.todo \subseteq DOMAIN deliveries
    BY DEF CycleOK
  <1>2. cycle.todo \in SUBSET Nat
    BY <1>1, OneOf
  <1>3. Item \in cycle.todo
    BY <1>2, MinIn DEF Item
  <1> QED
    BY <1>1, <1>3, OneOf DEF Receiver

\* Where a delivery has been posted and the answer is not done with.
Posted == {"got through", "failed"} \cup Recorded

\* Steps that do not move the cycle: what is there grows, what waits goes on waiting, a hook
\* keeps its cursor and does not come back, and a new one has nothing behind it.
LEMMA Around ==
  ASSUME WInv, UNCHANGED <<cycle, streak>>, SourcesOK', HooksOK', DeliveriesOK', Kept,
         ledger <= ledger', clock <= clock', \A d \in DOMAIN deliveries : Waiting(d) => Waiting(d)',
         \A h \in Hooks : hooks[h].state # "none" =>
           /\ hooks'[h].state # "none" /\ hooks'[h].ledgerCursor = hooks[h].ledgerCursor
           /\ hooks'[h].since = hooks[h].since,
         \A h \in Hooks : Exists(h)' =>
           \/ Exists(h) /\ hooks'[h].failures <= hooks[h].failures
           \/ hooks[h].state = "none" /\ hooks'[h].failures = 0 /\ hooks'[h].since = hooks'[h].ledgerCursor,
         Broken => Broken'
  PROVE  WInv'
  <1>0. cycle' = cycle /\ streak' = streak
    OBVIOUS
  <1>1. /\ ledger \in Nat /\ ledger' \in Nat /\ clock \in Nat /\ clock' \in Nat
        /\ hooks \in [Hooks -> Hook] /\ hooks' \in [Hooks -> Hook] /\ streak \in [Hooks -> 0..MaxFailures]
        /\ CycleOK /\ DeliveriesOK
    BY DEF WInv, SourcesOK, HooksOK
  <1>8. 0..ledger \subseteq 0..ledger'
    BY <1>1
  <1>9. \A t \in Nat : t <= ledger => t <= ledger'
    BY <1>1
  <1>2. Item' = Item
    BY DEF Item
  <1>3. CycleOK'
    <2>1. IsCycle(cycle') /\ cycle'.at \in {"idle", "hooks"} \cup Collecting \cup Sending
      BY <1>1 DEF CycleOK
    <2>2. /\ \A h \in cycle'.left : h \in Hooks /\ hooks'[h].state # "none"
          /\ cycle'.at \in Collecting => cycle'.hook \in Hooks /\ hooks'[cycle'.hook].state # "none"
      BY <1>1 DEF CycleOK
    <2>3. At("queueing changes")' =>
            cycle'.todo \subseteq [p : Proposals, at : 0..clock'] /\ cycle'.newest \in 0..clock'
      <3>1. 0..clock \subseteq 0..clock'
        BY <1>1
      <3>2. [p : Proposals, at : 0..clock] \subseteq [p : Proposals, at : 0..clock']
        BY <3>1
      <3> QED
        BY <1>1, <3>1, <3>2 DEF CycleOK, At
    <2>4. cycle'.at \in Sending =>
            /\ cycle'.todo \subseteq DOMAIN deliveries' /\ (~ At("sending")' => cycle'.todo # {})
            /\ \A d \in cycle'.todo : Waiting(d)' \/ (cycle'.at \in Recorded /\ d = Item')
      BY <1>1, <1>2 DEF CycleOK, At, Kept
    <2> QED
      BY <2>1, <2>2, <2>3, <2>4 DEF CycleOK
  <1>4. RowsOK'
    <2> SUFFICES ASSUME At("queueing rows")
                 PROVE  RowsOK'
      BY DEF RowsOK, At
    <2> DEFINE h == cycle.hook
    <2>1. h \in Hooks /\ hooks[h].state # "none"
      BY <1>1 DEF CycleOK, At, Collecting
    <2>2. hooks'[h].ledgerCursor = hooks[h].ledgerCursor /\ (Exists(h)' => Exists(h))
      BY <2>1
    <2>3. /\ cycle.newest \in 0..ledger' /\ \A t \in cycle.todo : t \in Nat /\ cycle.newest < t /\ t <= ledger'
      <3>1. cycle.newest \in 0..ledger /\ \A t \in cycle.todo : t \in Nat /\ cycle.newest < t /\ t <= ledger
        BY DEF WInv, RowsOK
      <3>2. cycle.newest \in 0..ledger'
        BY <1>8, <3>1
      <3>3. ASSUME NEW t \in cycle.todo
            PROVE  t \in Nat /\ cycle.newest < t /\ t <= ledger'
        <4>1. t \in Nat /\ cycle.newest < t /\ t <= ledger
          BY <3>1
        <4> QED
          BY <1>9, <4>1
      <3> QED
        BY <3>2, <3>3
    <2>4. \A r \in Nat :
            /\ hooks[h].ledgerCursor < r /\ r <= cycle.newest /\ cycle.newest - r < PerCycle
            /\ Exists(h)' /\ \A u \in cycle.todo : u - r < PerCycle
            => HasRow(h, r)'
      BY <2>2, HasRowStays DEF WInv, RowsOK
    <2> QED
      BY <2>2, <2>3, <2>4 DEF WInv, RowsOK
  <1>5. NoneBehind'
    <2> SUFFICES ASSUME NEW h \in Hooks, NEW r \in Nat, Exists(h)', "ledger" \in TopicsOf[h],
                        r > hooks'[h].since, r <= hooks'[h].ledgerCursor,
                        hooks'[h].ledgerCursor - r < PerCycle
                 PROVE  HasRow(h, r)'
      BY DEF NoneBehind
    <2>1. CASE Exists(h)
      <3>1. hooks'[h].ledgerCursor = hooks[h].ledgerCursor /\ hooks'[h].since = hooks[h].since
        BY <2>1 DEF Exists
      <3>2. HasRow(h, r)
        BY <2>1, <3>1 DEF WInv, NoneBehind
      <3> QED
        BY <3>2, HasRowStays
    <2>2. CASE ~ Exists(h)
      <3>1. hooks'[h].since = hooks'[h].ledgerCursor
        BY <2>2
      <3>2. hooks'[h].ledgerCursor \in Nat
        BY <1>1 DEF Hook
      <3> QED
        BY <3>1, <3>2
    <2> QED
      BY <2>1, <2>2
  <1>6. CountsOK'
    <2> SUFFICES ASSUME ~ Broken'
                 PROVE  CountsOK'
      BY DEF CountsOK
    <2>1. ~ Broken
      OBVIOUS
    <2>2. cycle.at \in Posted => /\ Receiver' = Receiver /\ Receiver \in Hooks /\ hooks[Receiver].state # "none"
      <3> SUFFICES ASSUME cycle.at \in Posted
                   PROVE  /\ Receiver' = Receiver /\ Receiver \in Hooks /\ hooks[Receiver].state # "none"
        OBVIOUS
      <3>1. cycle.at \in Sending /\ cycle.todo # {}
        BY <1>1 DEF CycleOK, Posted, Sending, Recorded, At
      <3> QED
        BY <1>1, <1>2, <3>1, ItemIs DEF Receiver, Kept
    <2>3. ASSUME NEW h \in Hooks, Exists(h)'
          PROVE  \/ hooks'[h].failures <= streak'[h]
                 \/ cycle'.at \in {"got through", "resetting"} /\ Receiver' = h
      <3>1. hooks[h].failures \in Nat /\ hooks'[h].failures \in Nat /\ streak[h] \in Nat
        BY <1>1, Limits DEF Hook
      <3>2. CASE Exists(h) /\ hooks'[h].failures <= hooks[h].failures
        <4>1. \/ hooks[h].failures <= streak[h]
              \/ cycle.at \in {"got through", "resetting"} /\ Receiver = h
          BY <2>1, <3>2 DEF WInv, CountsOK
        <4>2. CASE hooks[h].failures <= streak[h]
          <5>1. hooks'[h].failures <= streak[h]
            BY <3>1, <3>2, <4>2
          <5> QED
            BY <1>0, <5>1
        <4>3. CASE cycle.at \in {"got through", "resetting"} /\ Receiver = h
          BY <1>0, <2>2, <4>3 DEF Posted, Recorded
        <4> QED
          BY <4>1, <4>2, <4>3
      <3>3. CASE hooks'[h].failures = 0
        <4>1. hooks'[h].failures <= streak[h]
          BY <3>1, <3>3
        <4> QED
          BY <1>0, <4>1
      <3> QED
        BY <2>3, <3>2, <3>3
    <2>4. ASSUME cycle'.at \in {"failed", "counting"}, Exists(Receiver)'
          PROVE  hooks'[Receiver'].failures < streak'[Receiver'] \/ streak'[Receiver'] = MaxFailures
      <3>1. /\ cycle.at \in Posted /\ Receiver' = Receiver /\ Receiver \in Hooks
            /\ hooks[Receiver].state # "none"
        BY <2>2, <2>4 DEF Posted, Recorded
      <3>2. /\ hooks[Receiver].failures \in Nat /\ hooks'[Receiver].failures \in Nat /\ streak[Receiver] \in Nat
        BY <1>1, <3>1, Limits DEF Hook
      <3>3. Exists(Receiver) /\ hooks'[Receiver].failures <= hooks[Receiver].failures
        BY <2>4, <3>1 DEF Exists
      <3>4. hooks[Receiver].failures < streak[Receiver] \/ streak[Receiver] = MaxFailures
        BY <2>1, <2>4, <3>3 DEF WInv, CountsOK
      <3> QED
        BY <3>1, <3>2, <3>3, <3>4
    <2>5. At("switching")' => streak'[Receiver'] = MaxFailures
      BY <2>1, <2>2 DEF WInv, CountsOK, At, Posted, Recorded
    <2> QED
      BY <2>3, <2>4, <2>5 DEF CountsOK
  <1> QED
    BY <1>3, <1>4, <1>5, <1>6 DEF WInv

\* The counters, and what a hook holds.
LEMMA Basics ==
  ASSUME WInv
  PROVE  /\ SourcesOK /\ HooksOK /\ DeliveriesOK /\ CycleOK /\ RowsOK /\ NoneBehind /\ CountsOK
         /\ ledger \in Nat /\ clock \in Nat /\ pings \in Nat /\ ledger + clock + pings <= MaxEvents
         /\ hooks \in [Hooks -> Hook] /\ streak \in [Hooks -> 0..MaxFailures]
         /\ \A h \in Hooks :
              /\ hooks[h] \in Hook /\ hooks[h].state \in {"none", "on", "off", "gone"} /\ hooks[h].since \in Nat
              /\ hooks[h].ledgerCursor \in Nat /\ hooks[h].proposalCursor \in Nat
              /\ hooks[h].failures \in 0..MaxFailures
              /\ hooks[h].ledgerCursor <= ledger /\ hooks[h].proposalCursor <= clock
  BY DEF WInv, SourcesOK, HooksOK, Hook

\* What has happened stays within its bound, and no cursor is past it.
LEMMA MoreHappened ==
  ASSUME WInv, UNCHANGED <<hooks, deliveries, cycle, streak>>, SourcesOK',
         ledger <= ledger', clock <= clock', Broken => Broken'
  PROVE  WInv'
  <1>1. /\ UNCHANGED <<cycle, streak>> /\ hooks' = hooks /\ deliveries' = deliveries
    OBVIOUS
  <1>2. ledger' \in Nat /\ clock' \in Nat
    BY DEF SourcesOK
  <1>3. HooksOK'
    <2>1. \A h \in Hooks : hooks[h].ledgerCursor <= ledger' /\ hooks[h].proposalCursor <= clock'
      BY Basics, <1>2
    <2> QED
      BY Basics, <1>1, <2>1 DEF HooksOK
  <1>4. DeliveriesOK'
    <2>1. DeliveriesOK
      BY Basics
    <2> QED
      BY <1>1, <2>1 DEF DeliveriesOK, Waiting
  <1>5. Kept /\ \A d \in DOMAIN deliveries : Waiting(d) => Waiting(d)'
    BY KeptAsIs
  <1>6. \A h \in Hooks : hooks[h].state # "none" =>
           /\ hooks'[h].state # "none" /\ hooks'[h].ledgerCursor = hooks[h].ledgerCursor
           /\ hooks'[h].since = hooks[h].since
    BY <1>1
  <1>7. \A h \in Hooks : Exists(h)' =>
           \/ Exists(h) /\ hooks'[h].failures <= hooks[h].failures
           \/ hooks[h].state = "none" /\ hooks'[h].failures = 0 /\ hooks'[h].since = hooks'[h].ledgerCursor
    BY Basics, <1>1, Limits DEF Exists
  <1> QED
    BY <1>1, <1>3, <1>4, <1>5, <1>6, <1>7, Around

\* Something goes wrong for the first time.
LEMMA FirstFault ==
  ASSUME NEW what, Happens(what) \/ UNCHANGED fault
  PROVE  Broken => Broken'
  BY DEF Happens, Broken

\* A row lands, or proposals change.
LEMMA SourceSteps ==
  ASSUME WInv, \/ Land \/ \E some \in SUBSET Proposals : Change(some)
               \/ \E p \in Proposals : ChangeLate(p) \/ CommitLate(p)
  PROVE  WInv'
  <1>1. CASE Land
    <2>1. /\ UNCHANGED <<hooks, deliveries, cycle, streak>> /\ fault' = fault
          /\ ledger' = ledger + 1 /\ clock' = clock /\ pings' = pings /\ changed' = changed /\ late' = late
          /\ ledger + clock + pings < MaxEvents
      BY <1>1 DEF Land, Room
    <2>2. ledger' \in Nat /\ clock' \in Nat /\ pings' \in Nat /\ ledger' + clock' + pings' <= MaxEvents
      BY Basics, <2>1, Limits
    <2>3. SourcesOK'
      BY Basics, <2>1, <2>2 DEF SourcesOK
    <2>4. ledger <= ledger' /\ clock <= clock' /\ (Broken => Broken')
      BY Basics, <2>1 DEF Broken
    <2> QED
      BY <2>1, <2>3, <2>4, MoreHappened
  <1>2. ASSUME NEW some \in SUBSET Proposals, Change(some)
        PROVE  WInv'
    <2>1. /\ UNCHANGED <<hooks, deliveries, cycle, streak>> /\ (Happens("together") \/ UNCHANGED fault)
          /\ ledger' = ledger /\ clock' = clock + 1 /\ pings' = pings /\ late' = late
          /\ changed' = [p \in Proposals |-> IF p \in some THEN clock' ELSE changed[p]]
          /\ ledger + clock + pings < MaxEvents
      BY <1>2 DEF Change, Room
    <2>2. ledger' \in Nat /\ clock' \in Nat /\ pings' \in Nat /\ ledger' + clock' + pings' <= MaxEvents
      BY Basics, <2>1, Limits
    <2>3. 0..clock \subseteq 0..clock' /\ clock' \in 0..clock'
      BY Basics, <2>1
    <2>4. /\ changed \in [Proposals -> 0..clock]
          /\ \A v \in DOMAIN late : v \in Proposals /\ late[v] \in 0..clock
      BY Basics DEF SourcesOK
    <2>5. changed' \in [Proposals -> 0..clock']
      BY <2>1, <2>3, <2>4
    <2>6. \A v \in DOMAIN late' : v \in Proposals /\ late'[v] \in 0..clock'
      BY <2>1, <2>3, <2>4
    <2>7. SourcesOK'
      BY <2>2, <2>5, <2>6 DEF SourcesOK
    <2>8. ledger <= ledger' /\ clock <= clock' /\ (Broken => Broken')
      BY Basics, <2>1, FirstFault
    <2> QED
      BY <2>1, <2>7, <2>8, MoreHappened
  <1>3. ASSUME NEW p \in Proposals, ChangeLate(p)
        PROVE  WInv'
    <2>1. /\ UNCHANGED <<hooks, deliveries, cycle, streak>> /\ Happens("late")
          /\ ledger' = ledger /\ clock' = clock + 1 /\ pings' = pings /\ changed' = changed
          /\ late' = [q \in {p} |-> clock'] /\ ledger + clock + pings < MaxEvents
      BY <1>3 DEF ChangeLate, Room
    <2>2. ledger' \in Nat /\ clock' \in Nat /\ pings' \in Nat /\ ledger' + clock' + pings' <= MaxEvents
      BY Basics, <2>1, Limits
    <2>3. 0..clock \subseteq 0..clock' /\ clock' \in 0..clock'
      BY Basics, <2>1
    <2>4. changed \in [Proposals -> 0..clock]
      BY Basics DEF SourcesOK
    <2>5. changed' \in [Proposals -> 0..clock']
      BY <2>1, <2>3, <2>4
    <2>6. \A v \in DOMAIN late' : v \in Proposals /\ late'[v] \in 0..clock'
      BY <2>1, <2>3
    <2>7. SourcesOK'
      BY <2>2, <2>5, <2>6 DEF SourcesOK
    <2>8. ledger <= ledger' /\ clock <= clock' /\ (Broken => Broken')
      BY Basics, <2>1, FirstFault
    <2> QED
      BY <2>1, <2>7, <2>8, MoreHappened
  <1>4. ASSUME NEW p \in Proposals, CommitLate(p)
        PROVE  WInv'
    <2>1. /\ UNCHANGED <<hooks, deliveries, cycle, streak>> /\ fault' = fault
          /\ ledger' = ledger /\ clock' = clock /\ pings' = pings /\ p \in DOMAIN late
          /\ changed' = [changed EXCEPT ![p] = late[p]] /\ late' = << >>
      BY <1>4 DEF CommitLate
    <2>2. SourcesOK'
      BY Basics, <2>1 DEF SourcesOK
    <2>3. ledger <= ledger' /\ clock <= clock' /\ (Broken => Broken')
      BY Basics, <2>1 DEF Broken
    <2> QED
      BY <2>1, <2>2, <2>3, MoreHappened
  <1> QED
    BY <1>1, <1>2, <1>3, <1>4

\* A member creates, enables or deletes a hook: its cursors start at what there is, and are
\* its own from then on.
LEMMA HookChanged ==
  ASSUME WInv, UNCHANGED <<sources, deliveries, cycle, streak, fault>>, SourcesOK', NEW h \in Hooks,
         NEW e \in Hook, hooks' = [hooks EXCEPT ![h] = e], e.state # "none",
         \/ /\ hooks[h].state # "none" /\ e.since = hooks[h].since /\ e.failures <= hooks[h].failures
            /\ e.ledgerCursor = hooks[h].ledgerCursor /\ e.proposalCursor = hooks[h].proposalCursor
            /\ e.state # "gone" => Exists(h)
         \/ /\ hooks[h].state = "none" /\ e.failures = 0 /\ e.since = ledger
            /\ e.ledgerCursor = ledger /\ e.proposalCursor = clock
  PROVE  WInv'
  <1>0. /\ hooks \in [Hooks -> Hook] /\ hooks' \in [Hooks -> Hook]
        /\ hooks'[h] = e /\ \A g \in Hooks \ {h} : hooks'[g] = hooks[g]
    BY Basics
  <1>1. /\ UNCHANGED <<cycle, streak>> /\ ledger' = ledger /\ clock' = clock /\ deliveries' = deliveries
        /\ streak' = streak /\ fault' = fault
    BY DEF sources
  <1>2. e.state \in {"none", "on", "off", "gone"}
    BY DEF Hook
  <1>3. HooksOK'
    <2>1. \A g \in Hooks : hooks'[g].ledgerCursor <= ledger /\ hooks'[g].proposalCursor <= clock
      <3> SUFFICES ASSUME NEW g \in Hooks
                   PROVE  hooks'[g].ledgerCursor <= ledger /\ hooks'[g].proposalCursor <= clock
        OBVIOUS
      <3>1. ledger <= ledger /\ clock <= clock
        BY Basics
      <3>2. CASE g = h
        BY Basics, <1>0, <3>1, <3>2
      <3>3. CASE g # h
        BY Basics, <1>0, <3>3
      <3> QED
        BY <3>2, <3>3
    <2> QED
      BY Basics, <1>0, <1>1, <2>1 DEF HooksOK
  <1>4. \A g \in Hooks : hooks[g].state # "none" =>
           /\ hooks'[g].state # "none" /\ hooks'[g].ledgerCursor = hooks[g].ledgerCursor
           /\ hooks'[g].since = hooks[g].since
    <2> SUFFICES ASSUME NEW g \in Hooks, hooks[g].state # "none"
                 PROVE  /\ hooks'[g].state # "none" /\ hooks'[g].ledgerCursor = hooks[g].ledgerCursor
                        /\ hooks'[g].since = hooks[g].since
      OBVIOUS
    <2>1. CASE g = h
      BY <1>0, <2>1
    <2>2. CASE g # h
      BY <1>0, <2>2
    <2> QED
      BY <2>1, <2>2
  <1>5. \A g \in Hooks : Exists(g)' =>
           \/ Exists(g) /\ hooks'[g].failures <= hooks[g].failures
           \/ hooks[g].state = "none" /\ hooks'[g].failures = 0 /\ hooks'[g].since = hooks'[g].ledgerCursor
    <2> SUFFICES ASSUME NEW g \in Hooks, Exists(g)'
                 PROVE  \/ Exists(g) /\ hooks'[g].failures <= hooks[g].failures
                        \/ hooks[g].state = "none" /\ hooks'[g].failures = 0 /\ hooks'[g].since = hooks'[g].ledgerCursor
      OBVIOUS
    <2>1. CASE g = h
      BY <1>0, <2>1 DEF Exists
    <2>2. CASE g # h
      <3>1. hooks[g].failures <= hooks[g].failures
        BY Basics, Limits
      <3> QED
        BY <1>0, <2>2, <3>1 DEF Exists
    <2> QED
      BY <2>1, <2>2
  <1>6. DeliveriesOK'
    <2>1. \A d \in DOMAIN deliveries :
            /\ hooks[deliveries[d].hook].state # "none" /\ deliveries[d].hook \in Hooks
            /\ Waiting(d) => deliveries[d].attempts < MaxAttempts
      BY Basics, OneOf
    <2>2. deliveries \in Seq(Delivery)
      BY Basics DEF DeliveriesOK
    <2> QED
      BY <1>1, <1>4, <2>1, <2>2 DEF DeliveriesOK, Waiting
  <1>7. Kept /\ \A d \in DOMAIN deliveries : Waiting(d) => Waiting(d)'
    BY <1>1, KeptAsIs
  <1>8. ledger <= ledger' /\ clock <= clock' /\ (Broken => Broken')
    BY Basics, <1>1 DEF Broken
  <1> QED
    BY <1>1, <1>3, <1>4, <1>5, <1>6, <1>7, <1>8, Around

\* The counters when one more ping or enabling is counted, or none.
LEMMA PingCounted ==
  ASSUME WInv, UNCHANGED sources, UNCHANGED pings \/ (Room /\ pings' = pings + 1)
  PROVE  SourcesOK'
  <1>1. ledger' = ledger /\ clock' = clock /\ changed' = changed /\ late' = late
    BY DEF sources
  <1>2. pings' \in Nat /\ ledger' + clock' + pings' <= MaxEvents
    BY Basics, <1>1, Limits DEF Room
  <1> QED
    BY Basics, <1>1, <1>2 DEF SourcesOK

\* The hooks are as they are, whatever is queued.
LEMMA HooksAsTheyAre ==
  ASSUME WInv, UNCHANGED <<cycle, streak>>, UNCHANGED sources, hooks' = hooks, fault' = fault,
         SourcesOK', DeliveriesOK', Kept, \A d \in DOMAIN deliveries : Waiting(d) => Waiting(d)'
  PROVE  WInv'
  <1>1. ledger' = ledger /\ clock' = clock /\ streak' = streak
    BY DEF sources
  <1>2. HooksOK'
    BY Basics, <1>1 DEF HooksOK
  <1>3. \A h \in Hooks : hooks[h].state # "none" =>
           /\ hooks'[h].state # "none" /\ hooks'[h].ledgerCursor = hooks[h].ledgerCursor
           /\ hooks'[h].since = hooks[h].since
    OBVIOUS
  <1>4. \A h \in Hooks : Exists(h)' =>
           \/ Exists(h) /\ hooks'[h].failures <= hooks[h].failures
           \/ hooks[h].state = "none" /\ hooks'[h].failures = 0 /\ hooks'[h].since = hooks'[h].ledgerCursor
    BY Basics, Limits DEF Exists
  <1>5. ledger <= ledger' /\ clock <= clock' /\ (Broken => Broken')
    BY Basics, <1>1 DEF Broken
  <1> QED
    BY <1>2, <1>3, <1>4, <1>5, Around

\* Members.
LEMMA MemberSteps ==
  ASSUME WInv, NEW h \in Hooks, Create(h) \/ Enable(h) \/ Delete(h) \/ Test(h)
  PROVE  WInv'
  <1>1. CASE Create(h)
    <2> DEFINE e == [state |-> "on", since |-> ledger, ledgerCursor |-> ledger,
                     proposalCursor |-> clock, failures |-> 0]
    <2>1. /\ UNCHANGED <<sources, deliveries, cycle, streak, fault>> /\ UNCHANGED sources /\ UNCHANGED pings
          /\ hooks[h].state = "none" /\ hooks' = [hooks EXCEPT ![h] = e]
      BY <1>1 DEF Create
    <2>2. /\ e \in Hook /\ e.state # "none" /\ e.failures = 0 /\ e.since = ledger
          /\ e.ledgerCursor = ledger /\ e.proposalCursor = clock
      BY Basics, Limits DEF Hook
    <2> HIDE DEF e
    <2>3. SourcesOK'
      BY <2>1, PingCounted
    <2> QED
      BY <2>1, <2>2, <2>3, HookChanged
  <1>2. CASE Enable(h)
    <2> DEFINE e == [hooks[h] EXCEPT !.state = "on", !.failures = 0]
    <2>1. /\ UNCHANGED <<sources, deliveries, cycle, streak, fault>> /\ UNCHANGED sources
          /\ Room /\ pings' = pings + 1 /\ Exists(h)
          /\ hooks' = [hooks EXCEPT ![h].state = "on", ![h].failures = 0]
      BY <1>2 DEF Enable
    <2>2. hooks' = [hooks EXCEPT ![h] = e]
      <3> DEFINE f == [hooks EXCEPT ![h].state = "on"]
      <3>1. hooks \in [Hooks -> Hook] /\ hooks' = [f EXCEPT ![h].failures = 0]
        BY Basics, <2>1
      <3>2. /\ f[h] = [hooks[h] EXCEPT !.state = "on"] /\ DOMAIN f = Hooks
            /\ \A g \in Hooks \ {h} : f[g] = hooks[g]
        BY <3>1
      <3> HIDE DEF f
      <3>3. /\ hooks'[h] = [f[h] EXCEPT !.failures = 0] /\ DOMAIN hooks' = Hooks
            /\ \A g \in Hooks \ {h} : hooks'[g] = f[g]
        BY <3>1, <3>2
      <3>4. hooks' = [g \in DOMAIN hooks' |-> hooks'[g]]
        BY <3>1
      <3>5. [f[h] EXCEPT !.failures = 0] = e
        BY <3>2
      <3> HIDE DEF e
      <3>6. hooks'[h] = e /\ \A g \in Hooks \ {h} : hooks'[g] = hooks[g]
        BY <3>2, <3>3, <3>5
      <3>7. hooks' = [g \in Hooks |-> IF g = h THEN e ELSE hooks[g]]
        BY <3>3, <3>4, <3>6
      <3>8. [hooks EXCEPT ![h] = e] = [g \in Hooks |-> IF g = h THEN e ELSE hooks[g]]
        BY <3>1
      <3> QED
        BY <3>7, <3>8
    <2>3. /\ e \in Hook /\ e.state = "on" /\ e.failures = 0 /\ e.since = hooks[h].since
          /\ e.ledgerCursor = hooks[h].ledgerCursor /\ e.proposalCursor = hooks[h].proposalCursor
      <3> DEFINE f == [hooks[h] EXCEPT !.state = "on"]
      <3>1. /\ f \in Hook /\ f.state = "on" /\ f.since = hooks[h].since
            /\ f.ledgerCursor = hooks[h].ledgerCursor /\ f.proposalCursor = hooks[h].proposalCursor
        BY Basics DEF Hook
      <3>2. e = [f EXCEPT !.failures = 0]
        OBVIOUS
      <3> HIDE DEF e, f
      <3> QED
        BY <3>1, <3>2, Limits DEF Hook
    <2> HIDE DEF e
    <2>4. hooks[h].state # "none" /\ e.failures <= hooks[h].failures
      BY Basics, Limits, <2>1, <2>3 DEF Exists
    <2>5. SourcesOK'
      BY <2>1, PingCounted
    <2> QED
      BY <2>1, <2>2, <2>3, <2>4, <2>5, HookChanged
  <1>3. CASE Delete(h)
    <2> DEFINE e == [hooks[h] EXCEPT !.state = "gone"]
    <2>1. /\ UNCHANGED <<sources, deliveries, cycle, streak, fault>> /\ UNCHANGED sources
          /\ UNCHANGED pings /\ Exists(h) /\ hooks' = [hooks EXCEPT ![h].state = "gone"]
      BY <1>3 DEF Delete
    <2>2. hooks' = [hooks EXCEPT ![h] = e]
      BY Basics, <2>1
    <2>3. /\ e \in Hook /\ e.state = "gone" /\ e.failures = hooks[h].failures /\ e.since = hooks[h].since
          /\ e.ledgerCursor = hooks[h].ledgerCursor /\ e.proposalCursor = hooks[h].proposalCursor
      BY Basics DEF Hook
    <2> HIDE DEF e
    <2>4. hooks[h].state # "none" /\ e.failures <= hooks[h].failures
      BY Basics, Limits, <2>1, <2>3 DEF Exists
    <2>5. SourcesOK'
      BY <2>1, PingCounted
    <2> QED
      BY <2>1, <2>2, <2>3, <2>4, <2>5, HookChanged
  <1>4. CASE Test(h)
    <2>1. /\ UNCHANGED <<cycle, streak>> /\ UNCHANGED sources /\ hooks' = hooks /\ fault' = fault
          /\ Room /\ pings' = pings + 1 /\ Exists(h)
          /\ deliveries' = Append(deliveries, Queued(h, "ping", 0))
      BY <1>4 DEF Test
    <2>2. /\ DeliveriesOK' /\ Kept /\ \A d \in DOMAIN deliveries : Waiting(d) => Waiting(d)'
      <3>1. hooks[h].state # "none" /\ "ping" \in {"row", "ping"} \cup Proposals /\ 0 \in Nat /\ DeliveriesOK
        BY Basics, <2>1 DEF Exists
      <3> QED
        BY <2>1, <3>1, Appended
    <2>3. SourcesOK'
      BY <2>1, PingCounted
    <2> QED
      BY <2>1, <2>2, <2>3, HooksAsTheyAre
  <1> QED
    BY <1>1, <1>2, <1>3, <1>4

\* The time of a retry comes.
LEMMA ElapseStep ==
  ASSUME WInv, NEW d \in DOMAIN deliveries, Elapse(d)
  PROVE  WInv'
  <1> DEFINE e == [deliveries[d] EXCEPT !.due = TRUE]
  <1>1. /\ UNCHANGED <<cycle, streak>> /\ UNCHANGED sources /\ UNCHANGED pings /\ hooks' = hooks
        /\ fault' = fault /\ Waiting(d) /\ deliveries' = [deliveries EXCEPT ![d].due = TRUE]
    BY DEF Elapse
  <1>2. deliveries[d] \in Delivery /\ deliveries[d].attempts < MaxAttempts /\ DeliveriesOK
    BY Basics, <1>1, OneOf
  <1>3. deliveries' = [deliveries EXCEPT ![d] = e]
    BY <1>1
  <1>4. /\ e \in Delivery /\ e.hook = deliveries[d].hook /\ e.what = deliveries[d].what
        /\ e.at = deliveries[d].at /\ e.attempts = deliveries[d].attempts
        /\ e.outcome = deliveries[d].outcome
    BY <1>2 DEF Delivery
  <1> HIDE DEF e
  <1>5. /\ DeliveriesOK' /\ Kept /\ DOMAIN deliveries' = DOMAIN deliveries /\ deliveries'[d] = e
        /\ \A c \in DOMAIN deliveries \ {d} : deliveries'[c] = deliveries[c]
    BY <1>1, <1>2, <1>3, <1>4, Updated
  <1>6. \A c \in DOMAIN deliveries : Waiting(c) => Waiting(c)'
    <2> SUFFICES ASSUME NEW c \in DOMAIN deliveries, Waiting(c)
                 PROVE  Waiting(c)'
      OBVIOUS
    <2>1. CASE c = d
      BY <1>1, <1>4, <1>5, <2>1 DEF Waiting
    <2>2. CASE c # d
      BY <1>5, <2>2 DEF Waiting
    <2> QED
      BY <2>1, <2>2
  <1>7. SourcesOK'
    BY <1>1, PingCounted
  <1> QED
    BY <1>1, <1>5, <1>6, <1>7, HooksAsTheyAre

-----------------------------------------------------------------------------
(* The cycle moves *)

\* A cycle that goes from one place to the next.
LEMMA GoesTo ==
  ASSUME IsCycle(cycle), NEW place, Goes(place)
  PROVE  /\ IsCycle(cycle') /\ cycle'.at = place /\ cycle'.left = cycle.left /\ cycle'.hook = cycle.hook
         /\ cycle'.todo = cycle.todo /\ cycle'.newest = cycle.newest
  BY DEF IsCycle, Goes, Fields

\* A cycle that rests.
LEMMA AtRest ==
  ASSUME cycle' = Resting
  PROVE  /\ IsCycle(cycle') /\ cycle'.at = "idle" /\ cycle'.left = {} /\ cycle'.todo = {}
         /\ CycleOK' /\ RowsOK' /\ cycle'.at \notin Posted
  <1>1. /\ IsCycle(cycle') /\ cycle'.at = "idle" /\ cycle'.left = {} /\ cycle'.todo = {}
    <2> DEFINE any == CHOOSE h \in Hooks : TRUE
    <2>1. cycle' = [at |-> "idle", left |-> {}, hook |-> any, todo |-> {}, newest |-> 0]
      BY DEF Resting
    <2> HIDE DEF any
    <2> QED
      BY <2>1 DEF IsCycle, Fields
  <1>2. CycleOK'
    BY <1>1 DEF CycleOK, Collecting, Sending, Recorded, At
  <1> QED
    BY <1>1, <1>2 DEF RowsOK, At, Posted, Recorded

\* Steps of the cycle that change no hook and post nothing.
LEMMA CycleMoves ==
  ASSUME WInv, UNCHANGED sources, UNCHANGED <<hooks, pings, streak>>, CycleOK', RowsOK', DeliveriesOK',
         Kept, Broken => Broken', Broken' \/ (cycle.at \notin Posted /\ cycle'.at \notin Posted)
  PROVE  WInv'
  <1>1. /\ ledger' = ledger /\ clock' = clock /\ changed' = changed /\ late' = late /\ hooks' = hooks
        /\ pings' = pings /\ streak' = streak
    BY DEF sources
  <1>2. SourcesOK' /\ HooksOK'
    BY Basics, <1>1 DEF SourcesOK, HooksOK
  <1>3. NoneBehind'
    <2> SUFFICES ASSUME NEW h \in Hooks, NEW r \in Nat, Exists(h)', "ledger" \in TopicsOf[h],
                        r > hooks'[h].since, r <= hooks'[h].ledgerCursor,
                        hooks'[h].ledgerCursor - r < PerCycle
                 PROVE  HasRow(h, r)'
      BY DEF NoneBehind
    <2>1. HasRow(h, r)
      BY <1>1, Basics DEF NoneBehind, Exists
    <2> QED
      BY <2>1, HasRowStays
  <1>4. CountsOK'
    <2> SUFFICES ASSUME ~ Broken'
                 PROVE  CountsOK'
      BY DEF CountsOK
    <2>1. ~ Broken /\ cycle.at \notin Posted /\ cycle'.at \notin Posted
      OBVIOUS
    <2>2. \A h \in Hooks : Exists(h) => hooks[h].failures <= streak[h]
      BY <2>1, Basics DEF CountsOK, Posted, Recorded
    <2>3. \A h \in Hooks : Exists(h)' => hooks'[h].failures <= streak'[h]
      BY <1>1, <2>2 DEF Exists
    <2> QED
      BY <2>1, <2>3 DEF CountsOK, Posted, Recorded, At
  <1> QED
    BY <1>2, <1>3, <1>4 DEF WInv

\* Steps of the cycle that queue nothing either.
LEMMA OnlyMoves ==
  ASSUME WInv, UNCHANGED sources, UNCHANGED <<hooks, deliveries, pings, streak>>, CycleOK', RowsOK',
         Broken => Broken', Broken' \/ (cycle.at \notin Posted /\ cycle'.at \notin Posted)
  PROVE  WInv'
  <1>1. hooks' = hooks /\ deliveries' = deliveries /\ UNCHANGED <<hooks, pings, streak>>
    OBVIOUS
  <1>2. DeliveriesOK' /\ Kept
    <2>1. DeliveriesOK
      BY Basics
    <2> QED
      BY <1>1, <2>1, KeptAsIs DEF DeliveriesOK, Waiting
  <1> QED
    BY <1>1, <1>2, CycleMoves

\* The cycle goes on to a place where nothing is queued, for the hook it has.
LEMMA GoesOn ==
  ASSUME WInv, UNCHANGED sources, UNCHANGED <<hooks, deliveries, pings, streak>>, Goes("hooks") \/ Goes("proposals"),
         cycle.at \in Collecting, Happens("load") \/ UNCHANGED fault
  PROVE  WInv'
  <1>1. IsCycle(cycle) /\ CycleOK /\ hooks' = hooks
    BY Basics DEF CycleOK
  <1>2. /\ IsCycle(cycle') /\ cycle'.at \in {"hooks", "proposals"} /\ cycle'.left = cycle.left
        /\ cycle'.hook = cycle.hook
    BY <1>1, GoesTo
  <1>3. CycleOK'
    BY <1>1, <1>2 DEF CycleOK, Collecting, Sending, Recorded, At
  <1>4. RowsOK'
    BY <1>2 DEF RowsOK, At
  <1>5. cycle.at \notin Posted /\ cycle'.at \notin Posted
    BY <1>2 DEF Collecting, Posted, Recorded
  <1>6. Broken => Broken'
    BY FirstFault
  <1> QED
    BY <1>3, <1>4, <1>5, <1>6, OnlyMoves

\* A cycle begins with the hooks that are on, takes one, and begins or ends to send.
LEMMA TurnSteps ==
  ASSUME WInv, StartCollect \/ (\E h \in Hooks : NextHook(h)) \/ PassOver \/ StartSend \/ Finish
  PROVE  WInv'
  <1>1. CASE StartCollect
    <2> DEFINE on == {h \in Hooks : hooks[h].state = "on"}
               any == CHOOSE h \in Hooks : TRUE
    <2>1. /\ UNCHANGED sources /\ UNCHANGED <<hooks, deliveries, pings, streak>> /\ fault' = fault
          /\ cycle.at = "idle" /\ cycle' = [Resting EXCEPT !.at = "hooks", !.left = on]
          /\ hooks' = hooks
      BY <1>1 DEF StartCollect, OnlyCycle, At
    <2>2. cycle' = [at |-> "hooks", left |-> on, hook |-> any, todo |-> {}, newest |-> 0]
      BY <2>1 DEF Resting
    <2> HIDE DEF any
    <2>3. IsCycle(cycle') /\ cycle'.at = "hooks" /\ cycle'.left = on
      BY <2>2 DEF IsCycle, Fields
    <2>4. CycleOK' /\ RowsOK'
      BY <2>1, <2>3 DEF CycleOK, RowsOK, Collecting, Sending, Recorded, At
    <2>5. (Broken => Broken') /\ cycle.at \notin Posted /\ cycle'.at \notin Posted
      BY <2>1, <2>3 DEF Broken, Posted, Recorded
    <2> QED
      BY <2>1, <2>4, <2>5, OnlyMoves
  <1>2. ASSUME NEW h \in Hooks, NextHook(h)
        PROVE  WInv'
    <2>1. /\ UNCHANGED sources /\ UNCHANGED <<hooks, deliveries, pings, streak>> /\ fault' = fault
          /\ cycle.at = "hooks" /\ h \in cycle.left /\ hooks' = hooks
          /\ cycle' = [cycle EXCEPT !.at = "ledger", !.hook = h, !.left = @ \ {h}]
      BY <1>2 DEF NextHook, OnlyCycle, At
    <2>2. IsCycle(cycle) /\ CycleOK
      BY Basics DEF CycleOK
    <2>3. /\ IsCycle(cycle') /\ cycle'.at = "ledger" /\ cycle'.hook = h
          /\ cycle'.left = cycle.left \ {h}
      BY <2>1, <2>2 DEF IsCycle, Fields
    <2>4. hooks[h].state # "none"
      BY <2>1, <2>2 DEF CycleOK
    <2>5. CycleOK' /\ RowsOK'
      BY <2>1, <2>2, <2>3, <2>4 DEF CycleOK, RowsOK, Collecting, Sending, Recorded, At
    <2>6. (Broken => Broken') /\ cycle.at \notin Posted /\ cycle'.at \notin Posted
      BY <2>1, <2>3 DEF Broken, Posted, Recorded
    <2> QED
      BY <2>1, <2>5, <2>6, OnlyMoves
  <1>3. CASE PassOver
    <2>1. /\ UNCHANGED sources /\ UNCHANGED <<hooks, deliveries, pings, streak>> /\ Goes("hooks")
          /\ cycle.at \in Collecting /\ Happens("load")
      BY <1>3 DEF PassOver, At, Collecting
    <2> QED
      BY <2>1, GoesOn
  <1>4. CASE StartSend
    <2> DEFINE some == {d \in DueNow : Cardinality({e \in DueNow : e < d}) < PerCycle}
               any == CHOOSE h \in Hooks : TRUE
    <2>1. /\ UNCHANGED sources /\ UNCHANGED <<hooks, deliveries, pings, streak>> /\ fault' = fault
          /\ cycle.at = "hooks" /\ cycle' = [Resting EXCEPT !.at = "sending", !.todo = some]
          /\ hooks' = hooks /\ deliveries' = deliveries
      BY <1>4 DEF StartSend, OnlyCycle, At
    <2>2. \A d \in some : d \in DOMAIN deliveries /\ Waiting(d)
      BY DEF DueNow, IsDue
    <2> HIDE DEF some
    <2>3. cycle' = [at |-> "sending", left |-> {}, hook |-> any, todo |-> some, newest |-> 0]
      BY <2>1 DEF Resting
    <2> HIDE DEF any
    <2>4. IsCycle(cycle') /\ cycle'.at = "sending" /\ cycle'.left = {} /\ cycle'.todo = some
      BY <2>3 DEF IsCycle, Fields
    <2>5. CycleOK' /\ RowsOK'
      BY <2>1, <2>2, <2>4 DEF CycleOK, RowsOK, Collecting, Sending, Recorded, At, Waiting
    <2>6. (Broken => Broken') /\ cycle.at \notin Posted /\ cycle'.at \notin Posted
      BY <2>1, <2>4 DEF Broken, Posted, Recorded
    <2> QED
      BY <2>1, <2>5, <2>6, OnlyMoves
  <1>5. CASE Finish
    <2>1. /\ UNCHANGED sources /\ UNCHANGED <<hooks, deliveries, pings, streak>> /\ fault' = fault
          /\ cycle.at = "sending" /\ cycle' = Resting
      BY <1>5 DEF Finish, OnlyCycle, At
    <2>2. (Broken => Broken') /\ cycle.at \notin Posted
      BY <2>1 DEF Broken, Posted, Recorded
    <2> QED
      BY <2>1, <2>2, AtRest, OnlyMoves
  <1> QED
    BY <1>1, <1>2, <1>3, <1>4, <1>5

\* A crash or an error ends the cycle wherever it is.
LEMMA BreakStep ==
  ASSUME WInv, NEW what \in {"crash", "error"}, Break(what)
  PROVE  WInv'
  <1>1. /\ UNCHANGED sources /\ UNCHANGED <<hooks, deliveries, pings, streak>> /\ cycle' = Resting
        /\ Broken'
    BY DEF Break, Happens, Broken
  <1> QED
    BY <1>1, AtRest, OnlyMoves

\* The ledger is read past the cursor, or passed by when the hook does not ask for it.
LEMMA ReadLedgerStep ==
  ASSUME WInv, ReadLedger
  PROVE  WInv'
  <1>1. /\ UNCHANGED sources /\ UNCHANGED <<hooks, deliveries, pings, streak>> /\ fault' = fault
        /\ UNCHANGED fault /\ cycle.at = "ledger" /\ hooks' = hooks /\ ledger' = ledger
        /\ cycle.at \in Collecting
    BY DEF ReadLedger, OnlyCycle, At, sources, Collecting
  <1>2. IsCycle(cycle) /\ CycleOK
    BY Basics DEF CycleOK
  <1> DEFINE h == cycle.hook
             cursor == hooks[h].ledgerCursor
  <1>3. h \in Hooks /\ hooks[h].state # "none"
    BY <1>1, <1>2 DEF CycleOK
  <1>4. CASE Goes("proposals")
    BY <1>1, <1>4, GoesOn
  <1>5. CASE cycle' = [cycle EXCEPT !.at = "queueing rows", !.todo = NewRows(h), !.newest = cursor]
    <2>1. /\ IsCycle(cycle') /\ cycle'.at = "queueing rows" /\ cycle'.hook = h /\ cycle'.left = cycle.left
          /\ cycle'.todo = NewRows(h) /\ cycle'.newest = cursor
      BY <1>2, <1>5 DEF IsCycle, Fields
    <2>2. CycleOK'
      BY <1>1, <1>2, <1>3, <2>1 DEF CycleOK, Collecting, Sending, Recorded, At
    <2>3. ledger \in Nat /\ cursor \in Nat /\ cursor <= ledger
      BY <1>3, Basics
    <2>4. \A t \in NewRows(h) : t \in Nat /\ cursor < t /\ t <= ledger
      BY <2>3 DEF NewRows
    <2>5. \A t \in NewRows(h) : ledger \in NewRows(h)
      BY <2>3, Limits DEF NewRows
    <2>6. ASSUME NEW t \in NewRows(h), NEW r \in Nat, cursor < r, r <= t,
                 \A u \in NewRows(h) : u - r < PerCycle
          PROVE  r \in NewRows(h)
      <3>1. ledger - r < PerCycle /\ t <= ledger /\ t \in Nat
        BY <2>4, <2>5, <2>6
      <3>2. r \in 1..ledger /\ r > ledger - PerCycle
        BY <2>3, <2>6, <3>1, Limits
      <3> QED
        BY <2>6, <3>2 DEF NewRows
    <2>7. cursor \in 0..ledger /\ cursor <= cursor
      BY <2>3
    <2>8. \A r \in Nat : ~ (cursor < r /\ r <= cursor)
      BY <2>3
    <2> HIDE DEF cursor
    <2>9. hooks'[cycle'.hook].ledgerCursor = cursor
      BY <1>1, <2>1 DEF cursor
    <2>10. RowsOK'
      BY <1>1, <2>1, <2>4, <2>6, <2>7, <2>8, <2>9 DEF RowsOK
    <2>11. (Broken => Broken') /\ cycle.at \notin Posted /\ cycle'.at \notin Posted
      BY <1>1, <2>1 DEF Broken, Posted, Recorded
    <2> QED
      BY <1>1, <2>2, <2>10, <2>11, OnlyMoves
  <1> QED
    BY <1>4, <1>5 DEF ReadLedger, Goes

\* The proposals that changed are read, or passed by when the hook does not ask for them.
LEMMA ReadProposalsStep ==
  ASSUME WInv, ReadProposals
  PROVE  WInv'
  <1>1. /\ UNCHANGED sources /\ UNCHANGED <<hooks, deliveries, pings, streak>> /\ fault' = fault
        /\ UNCHANGED fault /\ cycle.at = "proposals" /\ hooks' = hooks /\ clock' = clock
        /\ cycle.at \in Collecting
    BY DEF ReadProposals, OnlyCycle, At, sources, Collecting
  <1>2. IsCycle(cycle) /\ CycleOK
    BY Basics DEF CycleOK
  <1> DEFINE h == cycle.hook
             cursor == hooks[h].proposalCursor
  <1>3. h \in Hooks /\ hooks[h].state # "none"
    BY <1>1, <1>2 DEF CycleOK
  <1>4. CASE Goes("hooks")
    BY <1>1, <1>4, GoesOn
  <1>5. ASSUME NEW some \in ChangedPast(h),
               cycle' = [cycle EXCEPT !.at = "queueing changes", !.newest = cursor,
                                      !.todo = {[p |-> p, at |-> changed[p]] : p \in some}]
        PROVE  WInv'
    <2> DEFINE todo == {[p |-> p, at |-> changed[p]] : p \in some}
    <2>1. some \subseteq Proposals
      BY DEF ChangedPast
    <2>2. changed \in [Proposals -> 0..clock]
      BY Basics DEF SourcesOK
    <2>3. todo \subseteq [p : Proposals, at : 0..clock]
      <3> SUFFICES ASSUME NEW p \in some
                   PROVE  [p |-> p, at |-> changed[p]] \in [p : Proposals, at : 0..clock]
        OBVIOUS
      <3>1. p \in Proposals /\ changed[p] \in 0..clock
        BY <2>1, <2>2
      <3> QED
        BY <3>1
    <2>4. cursor \in 0..clock
      <3>1. cursor \in Nat /\ cursor <= clock /\ clock \in Nat
        BY <1>3, Basics
      <3> HIDE DEF cursor
      <3> QED
        BY <3>1
    <2> HIDE DEF todo, cursor
    <2>5. cycle' = [cycle EXCEPT !.at = "queueing changes", !.newest = cursor, !.todo = todo]
      BY <1>5 DEF todo, cursor
    <2>6. /\ IsCycle(cycle') /\ cycle'.at = "queueing changes" /\ cycle'.hook = h /\ cycle'.left = cycle.left
          /\ cycle'.todo = todo /\ cycle'.newest = cursor
      BY <1>2, <2>5 DEF IsCycle, Fields
    <2>7. CycleOK'
      BY <1>1, <1>2, <1>3, <2>3, <2>4, <2>6 DEF CycleOK, Collecting, Sending, Recorded, At
    <2>8. RowsOK'
      BY <2>6 DEF RowsOK, At
    <2>9. (Broken => Broken') /\ cycle.at \notin Posted /\ cycle'.at \notin Posted
      BY <1>1, <2>6 DEF Broken, Posted, Recorded
    <2> QED
      BY <1>1, <2>7, <2>8, <2>9, OnlyMoves
  <1> QED
    BY <1>4, <1>5 DEF ReadProposals

\* The oldest row that is left is queued, or the cycle ends because the hook is gone.
LEMMA EnqueueRowStep ==
  ASSUME WInv, EnqueueRow
  PROVE  WInv'
  <1>1. /\ UNCHANGED sources /\ UNCHANGED <<hooks, pings, streak>> /\ fault' = fault
        /\ cycle.at = "queueing rows" /\ hooks' = hooks /\ ledger' = ledger /\ cycle.todo # {}
    BY DEF EnqueueRow, At, sources
  <1>2. IsCycle(cycle) /\ CycleOK /\ DeliveriesOK
    BY Basics DEF CycleOK
  <1>3. PICK h \in Hooks : h = cycle.hook /\ hooks[h].state # "none"
    BY <1>1, <1>2 DEF CycleOK, Collecting
  <1>7. PICK row : row = Min(cycle.todo)
    OBVIOUS
  <1>8. PICK cursor : cursor = hooks[h].ledgerCursor
    OBVIOUS
  <1>4. (Broken => Broken') /\ cycle.at \notin Posted
    BY <1>1 DEF Broken, Posted, Recorded
  <1>5. CASE cycle' = Resting /\ UNCHANGED deliveries
    BY <1>1, <1>4, <1>5, AtRest, OnlyMoves
  <1>6. CASE /\ Exists(h) /\ deliveries' = Append(deliveries, Queued(h, "row", row))
             /\ cycle' = [cycle EXCEPT !.todo = @ \ {row}, !.newest = row]
    <2>1. /\ cycle.newest \in 0..ledger /\ cursor <= cycle.newest
          /\ \A t \in cycle.todo : t \in Nat /\ cycle.newest < t /\ t <= ledger
          /\ \A t \in cycle.todo, r \in Nat :
               cycle.newest < r /\ r <= t /\ (\A u \in cycle.todo : u - r < PerCycle) => r \in cycle.todo
          /\ \A r \in Nat :
               /\ cursor < r /\ r <= cycle.newest /\ cycle.newest - r < PerCycle
               /\ Exists(h) /\ \A u \in cycle.todo : u - r < PerCycle
               => HasRow(h, r)
      BY <1>1, <1>3, <1>8, Basics DEF RowsOK, At
    <2>2. row \in cycle.todo /\ \A y \in cycle.todo : row <= y
      BY <1>1, <1>7, <2>1, MinIn
    <2>3. row \in Nat /\ cycle.newest < row /\ row <= ledger /\ cycle.newest \in Nat /\ ledger \in Nat
          /\ cursor \in Nat /\ PerCycle \in Nat \ {0}
      BY <1>3, <1>8, <2>1, <2>2, Basics, Limits
    <2>4. DeliveriesOK' /\ Kept /\ HasRow(h, row)'
      <3>1. "row" \in {"row", "ping"} \cup Proposals
        OBVIOUS
      <3> QED
        BY <1>1, <1>2, <1>3, <1>6, <2>3, <3>1, Appended
    <2>5. /\ IsCycle(cycle') /\ cycle'.at = "queueing rows" /\ cycle'.hook = h /\ cycle'.left = cycle.left
          /\ cycle'.todo = cycle.todo \ {row} /\ cycle'.newest = row
      BY <1>1, <1>2, <1>3, <1>6 DEF IsCycle, Fields
    <2>6. CycleOK'
      BY <1>1, <1>2, <1>3, <2>5 DEF CycleOK, Collecting, Sending, Recorded, At
    <2>7. \A t \in cycle.todo \ {row} : t \in Nat /\ row < t /\ t <= ledger
      BY <2>1, <2>2, <2>3
    <2>8. ASSUME NEW t \in cycle.todo \ {row}, NEW r \in Nat, row < r, r <= t,
                 \A u \in cycle.todo \ {row} : u - r < PerCycle
          PROVE  r \in cycle.todo \ {row}
      <3>1. row - r < PerCycle /\ cycle.newest < r /\ r # row
        BY <2>3, <2>8
      <3>2. \A u \in cycle.todo : u - r < PerCycle
        BY <2>8, <3>1
      <3> QED
        BY <2>1, <2>8, <3>1, <3>2
    <2>9. ASSUME NEW r \in Nat, cursor < r, r <= row, row - r < PerCycle,
                 \A u \in cycle.todo \ {row} : u - r < PerCycle
          PROVE  HasRow(h, r)'
      <3>1. \A u \in cycle.todo : u - r < PerCycle
        BY <2>9
      <3>2. CASE r = row
        BY <2>4, <3>2
      <3>3. CASE r <= cycle.newest
        <4>1. cycle.newest - r < PerCycle
          BY <2>3, <2>9, <3>3
        <4>2. HasRow(h, r)
          BY <1>6, <2>1, <2>9, <3>1, <3>3, <4>1
        <4> QED
          BY <2>4, <4>2, HasRowStays
      <3>4. CASE cycle.newest < r /\ r # row
        <4>1. r \in cycle.todo
          BY <2>1, <2>2, <2>9, <3>1, <3>4
        <4> QED
          BY <2>2, <2>3, <2>9, <3>4, <4>1
      <3> QED
        BY <2>3, <3>2, <3>3, <3>4
    <2>10. hooks'[cycle'.hook].ledgerCursor = cursor /\ cursor <= row /\ row \in 0..ledger
      <3>1. hooks'[cycle'.hook].ledgerCursor = cursor
        BY <1>1, <1>3, <1>8, <2>5
      <3> QED
        BY <2>1, <2>3, <3>1
    <2>11. RowsOK'
      BY <1>1, <1>3, <2>5, <2>7, <2>8, <2>9, <2>10 DEF RowsOK
    <2>12. cycle'.at \notin Posted
      BY <2>5 DEF Posted, Recorded
    <2> QED
      BY <1>1, <1>4, <2>4, <2>6, <2>11, <2>12, CycleMoves
  <1> QED
    BY <1>3, <1>5, <1>6, <1>7 DEF EnqueueRow

\* A change is queued, is left out, or the cycle ends because the hook is gone.
LEMMA EnqueueChangeSteps ==
  ASSUME WInv, EnqueueChange \/ ViewFails
  PROVE  WInv'
  <1> DEFINE h == cycle.hook
  <1>1. /\ UNCHANGED sources /\ UNCHANGED <<hooks, pings, streak>> /\ (Happens("view") \/ UNCHANGED fault)
        /\ cycle.at = "queueing changes" /\ hooks' = hooks /\ clock' = clock
    BY DEF EnqueueChange, ViewFails, At, sources
  <1>2. IsCycle(cycle) /\ CycleOK /\ DeliveriesOK /\ clock \in Nat
    BY Basics DEF CycleOK
  <1>3. /\ h \in Hooks /\ hooks[h].state # "none"
        /\ cycle.todo \subseteq [p : Proposals, at : 0..clock] /\ cycle.newest \in 0..clock
    BY <1>1, <1>2 DEF CycleOK, Collecting, At
  <1>4. (Broken => Broken') /\ cycle.at \notin Posted
    BY <1>1, FirstFault DEF Posted, Recorded
  <1>5. CASE cycle' = Resting /\ UNCHANGED deliveries
    BY <1>1, <1>4, <1>5, AtRest, OnlyMoves
  <1>6. ASSUME NEW read \in Earliest, Passes(read)
        PROVE  CycleOK' /\ RowsOK' /\ cycle'.at \notin Posted
    <2> DEFINE newest == Max({cycle.newest, read.at})
    <2>1. read \in cycle.todo /\ read.at \in 0..clock
      BY <1>3 DEF Earliest
    <2>2. newest \in 0..clock
      <3>1. cycle.newest \in Nat /\ read.at \in Nat
        BY <1>2, <1>3, <2>1
      <3>2. newest \in {cycle.newest, read.at}
        BY <3>1, MaxOfTwo
      <3> HIDE DEF newest
      <3> QED
        BY <1>3, <2>1, <3>2
    <2>3. cycle' = [cycle EXCEPT !.todo = @ \ {read}, !.newest = newest]
      BY <1>6 DEF Passes
    <2> HIDE DEF newest
    <2>4. /\ IsCycle(cycle') /\ cycle'.at = "queueing changes" /\ cycle'.hook = h /\ cycle'.left = cycle.left
          /\ cycle'.todo = cycle.todo \ {read} /\ cycle'.newest = newest
      BY <1>1, <1>2, <2>3 DEF IsCycle, Fields
    <2>5. CycleOK'
      BY <1>1, <1>2, <1>3, <2>2, <2>4 DEF CycleOK, Collecting, Sending, Recorded, At
    <2> QED
      BY <2>4, <2>5 DEF RowsOK, At, Posted, Recorded
  <1>7. ASSUME NEW read \in Earliest, Passes(read), Exists(h),
               deliveries' = Append(deliveries, Queued(h, read.p, changed[read.p]))
        PROVE  WInv'
    <2>1. read.p \in Proposals
      BY <1>3 DEF Earliest
    <2>2. changed[read.p] \in Nat /\ read.p \in {"row", "ping"} \cup Proposals
      <3>1. changed \in [Proposals -> 0..clock]
        BY Basics DEF SourcesOK
      <3>2. changed[read.p] \in 0..clock
        BY <2>1, <3>1
      <3> QED
        BY <2>1, <3>2
    <2>3. DeliveriesOK' /\ Kept
      BY <1>1, <1>2, <1>3, <1>7, <2>2, Appended
    <2> QED
      BY <1>1, <1>4, <1>6, <1>7, <2>3, CycleMoves
  <1>8. CASE ViewFails
    <2>1. PICK read \in Earliest : Passes(read)
      BY <1>8 DEF ViewFails
    <2>2. UNCHANGED <<hooks, deliveries, pings, streak>>
      BY <1>8 DEF ViewFails
    <2> QED
      BY <1>1, <1>4, <1>6, <2>1, <2>2, OnlyMoves
  <1> QED
    BY <1>5, <1>7, <1>8 DEF EnqueueChange

\* A hook is marked by the cycle: the others are as they were, and so is what was queued.
LEMMA HookMarked ==
  ASSUME WInv, UNCHANGED sources, UNCHANGED <<deliveries, pings, streak>>, NEW h \in Hooks, NEW e \in Hook,
         hooks' = [hooks EXCEPT ![h] = e], e.state # "none", hooks[h].state # "none",
         e.ledgerCursor <= ledger, e.proposalCursor <= clock
  PROVE  /\ SourcesOK' /\ HooksOK' /\ DeliveriesOK' /\ Kept
         /\ \A g \in Hooks : hooks[g].state # "none" => hooks'[g].state # "none"
         /\ hooks'[h] = e /\ \A g \in Hooks \ {h} : hooks'[g] = hooks[g]
  <1>1. /\ ledger' = ledger /\ clock' = clock /\ changed' = changed /\ late' = late /\ streak' = streak
        /\ pings' = pings /\ deliveries' = deliveries
    BY DEF sources
  <1>2. /\ hooks' \in [Hooks -> Hook] /\ hooks'[h] = e /\ \A g \in Hooks \ {h} : hooks'[g] = hooks[g]
    BY Basics
  <1>3. SourcesOK'
    BY Basics, <1>1 DEF SourcesOK
  <1>4. HooksOK'
    <2>1. \A g \in Hooks : hooks'[g].ledgerCursor <= ledger /\ hooks'[g].proposalCursor <= clock
      <3> SUFFICES ASSUME NEW g \in Hooks
                   PROVE  hooks'[g].ledgerCursor <= ledger /\ hooks'[g].proposalCursor <= clock
        OBVIOUS
      <3>1. CASE g = h
        BY <1>2, <3>1
      <3>2. CASE g # h
        BY Basics, <1>2, <3>2
      <3> QED
        BY <3>1, <3>2
    <2> QED
      BY Basics, <1>1, <1>2, <2>1 DEF HooksOK
  <1>5. \A g \in Hooks : hooks[g].state # "none" => hooks'[g].state # "none"
    BY <1>2
  <1>6. DeliveriesOK'
    <2>1. deliveries \in Seq(Delivery) /\ DeliveriesOK
      BY Basics DEF DeliveriesOK
    <2>2. \A d \in DOMAIN deliveries : deliveries[d].hook \in Hooks
      BY <2>1, OneOf
    <2> QED
      BY <1>1, <1>5, <2>1, <2>2 DEF DeliveriesOK, Waiting
  <1>7. Kept
    BY <1>1, KeptAsIs
  <1> QED
    BY <1>2, <1>3, <1>4, <1>5, <1>6, <1>7

\* Hooks that keep their cursors have nothing new behind them.
LEMMA NothingNewBehind ==
  ASSUME NoneBehind, Kept,
         \A h \in Hooks : Exists(h)' =>
           Exists(h) /\ hooks'[h].since = hooks[h].since /\ hooks'[h].ledgerCursor = hooks[h].ledgerCursor
  PROVE  NoneBehind'
  <1> SUFFICES ASSUME NEW h \in Hooks, NEW r \in Nat, Exists(h)', "ledger" \in TopicsOf[h],
                      r > hooks'[h].since, r <= hooks'[h].ledgerCursor,
                      hooks'[h].ledgerCursor - r < PerCycle
               PROVE  HasRow(h, r)'
    BY DEF NoneBehind
  <1>1. HasRow(h, r)
    BY DEF NoneBehind
  <1> QED
    BY <1>1, HasRowStays

\* Away from a post, and from one to the next, failures are within the streak.
LEMMA CountsAtRest ==
  ASSUME CountsOK, UNCHANGED streak, Broken => Broken', cycle.at \notin Posted, cycle'.at \notin Posted,
         \A h \in Hooks : Exists(h)' => Exists(h) /\ hooks'[h].failures = hooks[h].failures
  PROVE  CountsOK'
  <1> SUFFICES ASSUME ~ Broken'
               PROVE  CountsOK'
    BY DEF CountsOK
  <1>1. \A h \in Hooks : Exists(h) => hooks[h].failures <= streak[h]
    BY DEF CountsOK, Posted, Recorded
  <1>2. \A h \in Hooks : Exists(h)' => hooks'[h].failures <= streak'[h]
    BY <1>1
  <1> QED
    BY <1>2 DEF CountsOK, Posted, Recorded, At

\* The cursor passes what was told.
LEMMA SaveCursorStep ==
  ASSUME WInv, SaveCursor
  PROVE  WInv'
  <1>1. /\ UNCHANGED sources /\ UNCHANGED <<deliveries, pings, streak>> /\ fault' = fault /\ UNCHANGED streak
        /\ cycle.todo = {} /\ ledger' = ledger /\ streak' = streak /\ deliveries' = deliveries
        /\ UNCHANGED fault /\ UNCHANGED <<pings, streak>>
    BY DEF SaveCursor, sources
  <1>2. IsCycle(cycle) /\ CycleOK /\ CountsOK /\ NoneBehind
    BY Basics DEF CycleOK
  <1>3. \/ cycle.at = "queueing rows" /\ Goes("proposals")
        \/ cycle.at = "queueing changes" /\ Goes("hooks")
    BY DEF SaveCursor, At
  <1>4. /\ IsCycle(cycle') /\ cycle'.at \in {"proposals", "hooks"} /\ cycle'.left = cycle.left
        /\ cycle'.hook = cycle.hook
    BY <1>2, <1>3, GoesTo
  <1>5. cycle.at \in Collecting /\ cycle.at \notin Posted /\ cycle'.at \notin Posted
    BY <1>3, <1>4 DEF Collecting, Posted, Recorded
  <1>6. PICK h \in Hooks : h = cycle.hook /\ hooks[h].state # "none"
    BY <1>2, <1>5 DEF CycleOK
  <1>7. Broken => Broken'
    BY <1>1 DEF Broken
  <1>8. RowsOK'
    BY <1>4 DEF RowsOK, At
  <1>9. CASE hooks' = hooks
    BY <1>1, <1>3, <1>5, <1>9, GoesOn
  <1>10. CASE cycle.at = "queueing rows" /\ Exists(h) /\ hooks' = [hooks EXCEPT ![h].ledgerCursor = cycle.newest]
    <2> DEFINE e == [hooks[h] EXCEPT !.ledgerCursor = cycle.newest]
    <2>1. /\ cycle.newest \in 0..ledger /\ hooks[h].ledgerCursor <= cycle.newest
          /\ \A r \in Nat :
               /\ hooks[h].ledgerCursor < r /\ r <= cycle.newest /\ cycle.newest - r < PerCycle
               => HasRow(h, r)
      BY <1>1, <1>6, <1>10, Basics DEF RowsOK, At
    <2>2. cycle.newest \in Nat /\ cycle.newest <= ledger /\ ledger \in Nat /\ hooks[h] \in Hook
          /\ hooks[h].ledgerCursor \in Nat /\ hooks[h].proposalCursor <= clock /\ PerCycle \in Nat
      BY <2>1, Basics, Limits
    <2>3. hooks' = [hooks EXCEPT ![h] = e]
      BY <1>10
    <2>4. /\ e \in Hook /\ e.state = hooks[h].state /\ e.since = hooks[h].since
          /\ e.ledgerCursor = cycle.newest /\ e.proposalCursor = hooks[h].proposalCursor
          /\ e.failures = hooks[h].failures
      BY <2>2 DEF Hook
    <2> HIDE DEF e
    <2>5. /\ SourcesOK' /\ HooksOK' /\ DeliveriesOK' /\ Kept
          /\ \A g \in Hooks : hooks[g].state # "none" => hooks'[g].state # "none"
          /\ hooks'[h] = e /\ \A g \in Hooks \ {h} : hooks'[g] = hooks[g]
      BY <1>1, <1>6, <2>2, <2>3, <2>4, HookMarked
    <2>6. CycleOK'
      BY <1>2, <1>4, <1>5, <1>6, <2>5 DEF CycleOK, Collecting, Sending, Recorded, At
    <2>7. NoneBehind'
      <3> SUFFICES ASSUME NEW g \in Hooks, NEW r \in Nat, Exists(g)', "ledger" \in TopicsOf[g],
                          r > hooks'[g].since, r <= hooks'[g].ledgerCursor,
                          hooks'[g].ledgerCursor - r < PerCycle
                   PROVE  HasRow(g, r)'
        BY DEF NoneBehind
      <3>1. CASE g # h
        <4>1. hooks'[g] = hooks[g]
          BY <2>5, <3>1
        <4>2. HasRow(g, r)
          BY <1>2, <4>1 DEF NoneBehind, Exists
        <4> QED
          BY <2>5, <4>2, HasRowStays
      <3>2. CASE g = h /\ hooks[h].ledgerCursor < r
        <4>1. HasRow(h, r)
          BY <2>1, <2>4, <2>5, <3>2
        <4> QED
          BY <2>5, <3>2, <4>1, HasRowStays
      <3>3. CASE g = h /\ r <= hooks[h].ledgerCursor
        <4>1. hooks[h].ledgerCursor - r < PerCycle /\ r > hooks[h].since
          BY <2>1, <2>2, <2>4, <2>5, <3>3
        <4>2. HasRow(h, r)
          BY <1>2, <1>10, <3>3, <4>1 DEF NoneBehind
        <4> QED
          BY <2>5, <3>3, <4>2, HasRowStays
      <3> QED
        BY <2>2, <3>1, <3>2, <3>3
    <2>8. \A g \in Hooks : Exists(g)' => Exists(g) /\ hooks'[g].failures = hooks[g].failures
      BY <1>10, <2>4, <2>5 DEF Exists
    <2>9. CountsOK'
      BY <1>1, <1>2, <1>5, <1>7, <2>8, CountsAtRest
    <2> QED
      BY <1>8, <2>5, <2>6, <2>7, <2>9 DEF WInv
  <1>11. CASE cycle.at = "queueing changes" /\ Exists(h) /\ hooks' = [hooks EXCEPT ![h].proposalCursor = cycle.newest]
    <2> DEFINE e == [hooks[h] EXCEPT !.proposalCursor = cycle.newest]
    <2>1. cycle.newest \in 0..clock
      BY <1>2, <1>11 DEF CycleOK, At
    <2>2. cycle.newest \in Nat /\ cycle.newest <= clock /\ hooks[h] \in Hook
          /\ hooks[h].ledgerCursor <= ledger
      BY <2>1, Basics
    <2>3. hooks' = [hooks EXCEPT ![h] = e]
      BY <1>11
    <2>4. /\ e \in Hook /\ e.state = hooks[h].state /\ e.since = hooks[h].since
          /\ e.ledgerCursor = hooks[h].ledgerCursor /\ e.proposalCursor = cycle.newest
          /\ e.failures = hooks[h].failures
      BY <2>2 DEF Hook
    <2> HIDE DEF e
    <2>5. /\ SourcesOK' /\ HooksOK' /\ DeliveriesOK' /\ Kept
          /\ \A g \in Hooks : hooks[g].state # "none" => hooks'[g].state # "none"
          /\ hooks'[h] = e /\ \A g \in Hooks \ {h} : hooks'[g] = hooks[g]
      BY <1>1, <1>6, <2>2, <2>3, <2>4, HookMarked
    <2>6. CycleOK'
      BY <1>2, <1>4, <1>5, <1>6, <2>5 DEF CycleOK, Collecting, Sending, Recorded, At
    <2>7. \A g \in Hooks : Exists(g)' =>
            /\ Exists(g) /\ hooks'[g].failures = hooks[g].failures
            /\ hooks'[g].since = hooks[g].since /\ hooks'[g].ledgerCursor = hooks[g].ledgerCursor
      BY <1>11, <2>4, <2>5 DEF Exists
    <2>8. NoneBehind'
      BY <1>2, <2>5, <2>7, NothingNewBehind
    <2>9. CountsOK'
      BY <1>1, <1>2, <1>5, <1>7, <2>7, CountsAtRest
    <2> QED
      BY <1>8, <2>5, <2>6, <2>8, <2>9 DEF WInv
  <1> QED
    BY <1>6, <1>9, <1>10, <1>11 DEF SaveCursor, ToldUpTo, At

-----------------------------------------------------------------------------
(* The cycle sends *)

\* Past the delivery that was sent, the others still wait.
LEMMA OnToTheNext ==
  ASSUME CycleOK, NextItem, cycle.at \in Recorded, UNCHANGED deliveries,
         \A g \in Hooks : hooks[g].state # "none" => hooks'[g].state # "none"
  PROVE  CycleOK' /\ RowsOK' /\ cycle'.at = "sending" /\ cycle'.todo = cycle.todo \ {Item}
  <1>1. IsCycle(cycle) /\ cycle' = [cycle EXCEPT !.at = "sending", !.todo = @ \ {Item}] /\ deliveries' = deliveries
    BY DEF CycleOK, NextItem
  <1>2. PICK item : item = Item
    OBVIOUS
  <1>3. /\ IsCycle(cycle') /\ cycle'.at = "sending" /\ cycle'.left = cycle.left
        /\ cycle'.todo = cycle.todo \ {item}
    BY <1>1, <1>2 DEF IsCycle, Fields
  <1>4. /\ cycle.todo \subseteq DOMAIN deliveries
        /\ \A d \in cycle.todo : Waiting(d) \/ d = item
        /\ \A h \in cycle.left : h \in Hooks /\ hooks[h].state # "none"
    BY <1>2 DEF CycleOK, Sending
  <1>5. \A d \in cycle'.todo : Waiting(d)' \/ (cycle'.at \in Recorded /\ d = Item')
    BY <1>1, <1>3, <1>4 DEF Waiting
  <1>6. CycleOK'
    BY <1>1, <1>3, <1>4, <1>5 DEF CycleOK, Collecting, Sending, Recorded, At
  <1> QED
    BY <1>2, <1>3, <1>6 DEF RowsOK, At

\* What is sent, and where it is sent to, while the cycle has it in hand.
LEMMA SameItem ==
  ASSUME CycleOK, DeliveriesOK, cycle.at \in Sending, cycle.todo # {}, cycle'.todo = cycle.todo, Kept
  PROVE  Item' = Item /\ Receiver' = Receiver
  <1>1. Item' = Item
    BY DEF Item
  <1>2. Item \in DOMAIN deliveries
    BY ItemIs
  <1> QED
    BY <1>1, <1>2 DEF Receiver, Kept

\* A delivery is posted: it gets through and the streak ends, or it fails and the streak grows.
LEMMA PostStep ==
  ASSUME WInv, NEW answer, Post(answer)
  PROVE  WInv'
  <1>1. /\ UNCHANGED sources /\ hooks' = hooks /\ deliveries' = deliveries /\ pings' = pings /\ fault' = fault
        /\ cycle.at = "sending" /\ cycle.todo # {}
        /\ ledger' = ledger /\ clock' = clock /\ changed' = changed /\ late' = late
    BY DEF Post, At, sources
  <1>2. IsCycle(cycle) /\ CycleOK /\ DeliveriesOK /\ CountsOK /\ NoneBehind /\ SourcesOK
    BY Basics DEF CycleOK
  <1> DEFINE place == IF answer = "yes" THEN "got through" ELSE "failed"
  <1>3. /\ IsCycle(cycle') /\ cycle'.at = place /\ cycle'.left = cycle.left
        /\ cycle'.hook = cycle.hook /\ cycle'.todo = cycle.todo
    <2>1. Goes(place)
      BY DEF Post
    <2> HIDE DEF place
    <2> QED
      BY <1>2, <2>1, GoesTo
  <1>4. cycle.at \in Sending /\ cycle'.at \in {"got through", "failed"}
    BY <1>1, <1>3 DEF Sending
  <1>5. /\ Item \in cycle.todo /\ Receiver \in Hooks /\ hooks[Receiver].state # "none"
    BY <1>1, <1>2, <1>4, ItemIs
  <1>6. Kept /\ \A d \in DOMAIN deliveries : Waiting(d)' <=> Waiting(d)
    BY <1>1, KeptAsIs
  <1>7. Item' = Item /\ Receiver' = Receiver
    BY <1>1, <1>2, <1>3, <1>4, <1>6, SameItem
  <1>8. PICK R \in Hooks : R = Receiver /\ R = Receiver'
    BY <1>5, <1>7
  <1> DEFINE more == Min({streak[R] + 1, MaxFailures})
  <1>9. /\ streak[R] \in 0..MaxFailures /\ MaxFailures \in Nat
        /\ more \in {streak[R] + 1, MaxFailures} /\ more <= streak[R] + 1 /\ more <= MaxFailures
    <2>1. streak[R] \in 0..MaxFailures /\ MaxFailures \in Nat
      BY Basics, Limits
    <2>2. streak[R] + 1 \in Nat
      BY <2>1
    <2> QED
      BY <2>1, <2>2, MinOfTwo
  <1>10. streak' = [streak EXCEPT ![R] = IF answer = "yes" THEN 0 ELSE more]
    BY <1>8 DEF Post
  <1> HIDE DEF more
  <1>11. /\ streak' \in [Hooks -> 0..MaxFailures]
         /\ streak'[R] = (IF answer = "yes" THEN 0 ELSE more)
         /\ \A g \in Hooks \ {R} : streak'[g] = streak[g]
    <2>1. streak \in [Hooks -> 0..MaxFailures]
      BY Basics
    <2>2. more \in 0..MaxFailures /\ 0 \in 0..MaxFailures
      BY <1>9, Limits
    <2> QED
      BY <1>10, <2>1, <2>2
  <1>12. SourcesOK' /\ HooksOK'
    BY <1>1, <1>2, <1>11, Basics DEF SourcesOK, HooksOK
  <1>13. DeliveriesOK'
    BY <1>1, <1>2 DEF DeliveriesOK, Waiting
  <1>14. CycleOK'
    <2>1. \A d \in cycle'.todo : Waiting(d)' \/ (cycle'.at \in Recorded /\ d = Item')
      BY <1>1, <1>2, <1>3, <1>4, <1>6 DEF CycleOK, Recorded
    <2>2. /\ cycle'.todo \subseteq DOMAIN deliveries' /\ cycle'.todo # {}
          /\ \A h \in cycle'.left : h \in Hooks /\ hooks'[h].state # "none"
      BY <1>1, <1>2, <1>3, <1>4 DEF CycleOK
    <2> QED
      BY <1>3, <1>4, <2>1, <2>2 DEF CycleOK, Collecting, Sending, At
  <1>15. RowsOK'
    BY <1>4 DEF RowsOK, At
  <1>16. NoneBehind'
    BY <1>1, <1>2, <1>6, NothingNewBehind DEF Exists
  <1>17. CountsOK'
    <2> SUFFICES ASSUME ~ Broken'
                 PROVE  CountsOK'
      BY DEF CountsOK
    <2>1. \A g \in Hooks : Exists(g) => hooks[g].failures <= streak[g]
      BY <1>1, <1>2 DEF CountsOK, Broken
    <2>2. ASSUME NEW g \in Hooks, Exists(g)'
          PROVE  \/ hooks'[g].failures <= streak'[g]
                 \/ cycle'.at \in {"got through", "resetting"} /\ Receiver' = g
      <3>1. hooks'[g].failures = hooks[g].failures /\ hooks[g].failures <= streak[g]
        BY <1>1, <2>1, <2>2 DEF Exists
      <3>2. CASE g # R
        BY <1>11, <3>1, <3>2
      <3>3. CASE g = R /\ answer = "yes"
        BY <1>3, <1>8, <3>3
      <3>4. CASE g = R /\ answer # "yes"
        <4>1. streak[R] <= more /\ hooks[R].failures \in Nat /\ more \in Nat
          BY <1>9, Basics
        <4>2. hooks[R].failures <= more
          BY <1>9, <3>1, <3>4, <4>1
        <4> QED
          BY <1>11, <3>1, <3>4, <4>2
      <3> QED
        BY <3>2, <3>3, <3>4
    <2>3. ASSUME cycle'.at \in {"failed", "counting"}, Exists(Receiver)'
          PROVE  hooks'[Receiver'].failures < streak'[Receiver'] \/ streak'[Receiver'] = MaxFailures
      <3>1. answer # "yes" /\ streak'[R] = more
        BY <1>3, <1>11, <2>3
      <3>2. Exists(R)
        BY <1>1, <1>8, <2>3 DEF Exists
      <3>3. hooks[R].failures <= streak[R] /\ hooks[R].failures \in Nat
        BY <2>1, <3>2, Basics
      <3>4. hooks[R].failures < more \/ more = MaxFailures
        BY <1>9, <3>3
      <3> QED
        BY <1>1, <1>8, <3>1, <3>4
    <2>4. cycle'.at # "switching"
      BY <1>4
    <2> QED
      BY <2>2, <2>3, <2>4 DEF CountsOK, At
  <1> QED
    BY <1>12, <1>13, <1>14, <1>15, <1>16, <1>17 DEF WInv

\* An answer is recorded on the delivery: the cycle goes on to the hook.
LEMMA Recording ==
  ASSUME WInv, UNCHANGED sources, UNCHANGED <<hooks, pings, streak, fault>>, NEW place,
         \/ cycle.at = "got through" /\ place = "resetting"
         \/ cycle.at = "failed" /\ place = "counting",
         Goes(place), NEW e \in Delivery, deliveries' = [deliveries EXCEPT ![Item] = e],
         e.hook = deliveries[Item].hook, e.what = deliveries[Item].what, e.at = deliveries[Item].at,
         e.outcome = "none" => e.attempts < MaxAttempts
  PROVE  WInv'
  <1>1. /\ hooks' = hooks /\ pings' = pings /\ fault' = fault /\ streak' = streak
        /\ ledger' = ledger /\ clock' = clock /\ changed' = changed /\ late' = late
    BY DEF sources
  <1>2. IsCycle(cycle) /\ CycleOK /\ DeliveriesOK /\ CountsOK /\ NoneBehind /\ SourcesOK /\ HooksOK
    BY Basics DEF CycleOK
  <1>3. /\ IsCycle(cycle') /\ cycle'.at = place /\ cycle'.left = cycle.left
        /\ cycle'.hook = cycle.hook /\ cycle'.todo = cycle.todo
    BY <1>2, GoesTo
  <1>4. cycle.at \in Sending /\ cycle'.at \in Recorded /\ cycle.todo # {}
    BY <1>2, <1>3 DEF CycleOK, Sending, Recorded, At
  <1>5. PICK item \in DOMAIN deliveries : item = Item
    BY <1>2, <1>4, ItemIs
  <1>6. /\ DeliveriesOK' /\ Kept /\ DOMAIN deliveries' = DOMAIN deliveries
        /\ \A c \in DOMAIN deliveries \ {item} : deliveries'[c] = deliveries[c]
    BY <1>1, <1>2, <1>5, Updated
  <1>7. Item' = item /\ Receiver' = Receiver
    BY <1>2, <1>3, <1>4, <1>5, <1>6, SameItem
  <1>8. SourcesOK' /\ HooksOK'
    BY <1>1, <1>2 DEF SourcesOK, HooksOK
  <1>9. CycleOK'
    <2>1. /\ cycle.todo \subseteq DOMAIN deliveries /\ \A d \in cycle.todo : Waiting(d)
          /\ \A h \in cycle.left : h \in Hooks /\ hooks[h].state # "none"
      BY <1>2, <1>4 DEF CycleOK, Recorded
    <2>2. \A d \in cycle'.todo : Waiting(d)' \/ (cycle'.at \in Recorded /\ d = Item')
      BY <1>3, <1>4, <1>6, <1>7, <2>1 DEF Waiting
    <2>3. \A h \in cycle'.left : h \in Hooks /\ hooks'[h].state # "none"
      BY <1>1, <1>3, <2>1
    <2>4. cycle'.todo \subseteq DOMAIN deliveries' /\ cycle'.todo # {}
      BY <1>3, <1>4, <1>6, <2>1
    <2>5. cycle'.at \in {"resetting", "counting"}
      BY <1>3
    <2> QED
      BY <1>3, <2>2, <2>3, <2>4, <2>5 DEF CycleOK, Collecting, Sending, Recorded, At
  <1>10. RowsOK'
    BY <1>4 DEF RowsOK, At, Recorded
  <1>11. NoneBehind'
    BY <1>1, <1>2, <1>6, NothingNewBehind DEF Exists
  <1>12. CountsOK'
    <2> SUFFICES ASSUME ~ Broken'
                 PROVE  CountsOK'
      BY DEF CountsOK
    <2>1. ~ Broken
      BY <1>1 DEF Broken
    <2>2. PICK R : R = Receiver /\ R = Receiver'
      BY <1>7
    <2>3. \A g \in Hooks : Exists(g) => hooks[g].failures <= streak[g] \/ (cycle.at = "got through" /\ R = g)
      BY <1>4, <2>1, <2>2, <1>2 DEF CountsOK
    <2>4. \A g \in Hooks : Exists(g)' =>
            hooks'[g].failures <= streak'[g] \/ (cycle'.at \in {"got through", "resetting"} /\ R = g)
      BY <1>1, <1>3, <2>3 DEF Exists
    <2>5. ASSUME cycle'.at \in {"failed", "counting"}, Exists(Receiver)'
          PROVE  hooks'[Receiver'].failures < streak'[Receiver'] \/ streak'[Receiver'] = MaxFailures
      <3>1. cycle.at = "failed" /\ Exists(R)
        BY <1>1, <1>3, <2>2, <2>5 DEF Exists
      <3>2. hooks[R].failures < streak[R] \/ streak[R] = MaxFailures
        BY <1>2, <2>1, <2>2, <3>1 DEF CountsOK
      <3> QED
        BY <1>1, <2>2, <3>2
    <2>6. cycle'.at # "switching"
      BY <1>3
    <2> QED
      BY <2>2, <2>4, <2>5, <2>6 DEF CountsOK, At
  <1> QED
    BY <1>6, <1>8, <1>9, <1>10, <1>11, <1>12 DEF WInv

\* The delivery is marked delivered, or gets one more attempt and is given up after the last.
LEMMA RecordSteps ==
  ASSUME WInv, RecordDelivered \/ RecordFailed
  PROVE  WInv'
  <1>1. CycleOK /\ DeliveriesOK
    BY Basics
  <1>2. UNCHANGED sources /\ UNCHANGED <<hooks, pings, streak, fault>> /\ cycle.at \in {"got through", "failed"}
    BY DEF RecordDelivered, RecordFailed, At
  <1>3. cycle.at \in Sending /\ cycle.todo # {} /\ cycle.at \notin Recorded
    BY <1>1, <1>2 DEF CycleOK, Sending, Recorded, At
  <1>4. PICK item \in DOMAIN deliveries : item = Item /\ deliveries[item] \in Delivery /\ Waiting(item)
    BY <1>1, <1>3, ItemIs DEF CycleOK
  <1>5. PICK d \in Delivery : d = deliveries[item] /\ d.attempts < MaxAttempts
    BY <1>1, <1>4, OneOf
  <1>6. d.attempts + 1 \in 0..MaxAttempts
    BY <1>5, Limits DEF Delivery
  <1>7. CASE RecordDelivered
    <2> DEFINE e == [d EXCEPT !.attempts = @ + 1, !.outcome = "delivered"]
    <2>1. Goes("resetting") /\ cycle.at = "got through" /\ deliveries' = [deliveries EXCEPT ![Item] = e]
      BY <1>4, <1>5, <1>7 DEF RecordDelivered, Delivered, At
    <2>2. e \in Delivery /\ e.hook = d.hook /\ e.what = d.what /\ e.at = d.at /\ e.outcome = "delivered"
      BY <1>5, <1>6 DEF Delivery
    <2> HIDE DEF e
    <2>3. /\ e.hook = deliveries[Item].hook /\ e.what = deliveries[Item].what /\ e.at = deliveries[Item].at
          /\ e.outcome = "none" => e.attempts < MaxAttempts
      BY <1>4, <1>5, <2>2
    <2> QED
      BY <1>2, <2>1, <2>2, <2>3, Recording
  <1>8. CASE RecordFailed
    <2> DEFINE outcome == IF GivenUp(d.attempts + 1) THEN "abandoned" ELSE "none"
               e == [d EXCEPT !.attempts = @ + 1, !.due = FALSE, !.outcome = outcome]
    <2>1. Goes("counting") /\ cycle.at = "failed" /\ deliveries' = [deliveries EXCEPT ![Item] = e]
      BY <1>4, <1>5, <1>8 DEF RecordFailed, Failed, At
    <2>2. outcome \in {"none", "abandoned"} /\ (outcome = "none" => d.attempts + 1 < MaxAttempts)
      BY <1>6, Limits DEF GivenUp
    <2> HIDE DEF outcome
    <2>3. /\ e \in Delivery /\ e.hook = d.hook /\ e.what = d.what /\ e.at = d.at
          /\ e.outcome = outcome /\ e.attempts = d.attempts + 1
      BY <1>5, <1>6, <2>2 DEF Delivery
    <2> HIDE DEF e
    <2>4. /\ e.hook = deliveries[Item].hook /\ e.what = deliveries[Item].what /\ e.at = deliveries[Item].at
          /\ e.outcome = "none" => e.attempts < MaxAttempts
      BY <1>4, <1>5, <2>2, <2>3
    <2> QED
      BY <1>2, <2>1, <2>3, <2>4, Recording
  <1> QED
    BY <1>7, <1>8

\* What a recorded answer says of the hook it was sent to.
LEMMA AfterRecording ==
  ASSUME WInv, cycle.at \in Recorded
  PROVE  /\ cycle.at \in Sending /\ cycle.todo # {} /\ Receiver \in Hooks /\ hooks[Receiver].state # "none"
         /\ Item \in cycle.todo /\ cycle.at \in Posted
  <1>1. CycleOK /\ DeliveriesOK /\ cycle.at \in Sending
    BY Basics DEF Sending
  <1>2. cycle.todo # {}
    BY <1>1 DEF CycleOK, At, Recorded
  <1> QED
    BY <1>1, <1>2, ItemIs DEF Posted

\* The hook's failures end, or it is switched off, and the cycle goes on to the next delivery.
LEMMA ResetAndSwitch ==
  ASSUME WInv, ResetFailures \/ SwitchOff
  PROVE  WInv'
  <1>1. /\ UNCHANGED sources /\ UNCHANGED <<deliveries, pings, streak>> /\ fault' = fault /\ streak' = streak
        /\ cycle.at \in {"resetting", "switching"} /\ NextItem /\ UNCHANGED deliveries
        /\ (hooks' = hooks \/ Exists(Receiver))
    BY DEF ResetFailures, SwitchOff, At
  <1>2. CycleOK /\ DeliveriesOK /\ CountsOK /\ NoneBehind /\ cycle.at \in Recorded
    BY <1>1, Basics DEF Recorded
  <1>3. PICK R \in Hooks : R = Receiver /\ hooks[R].state # "none"
    BY <1>2, AfterRecording
  <1>4. PICK e \in Hook :
          /\ e.since = hooks[R].since /\ e.ledgerCursor = hooks[R].ledgerCursor
          /\ e.proposalCursor = hooks[R].proposalCursor /\ hooks' = [hooks EXCEPT ![R] = e]
          /\ \/ cycle.at = "resetting" /\ e.state = hooks[R].state /\ (Exists(R) => e.failures = 0)
             \/ cycle.at = "switching" /\ e.failures = hooks[R].failures /\ e.state # "none"
                /\ (~ Exists(R) => e.state = hooks[R].state)
    <2>1. hooks[R] \in Hook /\ hooks \in [Hooks -> Hook]
      BY Basics
    <2>2. CASE hooks' = hooks /\ ~ Exists(R)
      <3>1. hooks' = [hooks EXCEPT ![R] = hooks[R]]
        BY <2>1, <2>2
      <3> QED
        BY <1>1, <1>3, <2>1, <2>2, <3>1
    <2>3. CASE ResetFailures /\ Exists(R)
      <3> DEFINE e == [hooks[R] EXCEPT !.failures = 0]
      <3>1. cycle.at = "resetting" /\ hooks' = [hooks EXCEPT ![R] = e]
        BY <1>3, <2>3 DEF ResetFailures, Cleared, At
      <3>2. /\ e \in Hook /\ e.state = hooks[R].state /\ e.since = hooks[R].since /\ e.failures = 0
            /\ e.ledgerCursor = hooks[R].ledgerCursor /\ e.proposalCursor = hooks[R].proposalCursor
        BY <2>1, Limits DEF Hook
      <3> HIDE DEF e
      <3> QED
        BY <3>1, <3>2
    <2>4. CASE SwitchOff /\ Exists(R)
      <3> DEFINE e == [hooks[R] EXCEPT !.state = "off"]
      <3>1. cycle.at = "switching" /\ hooks' = [hooks EXCEPT ![R] = e]
        BY <1>3, <2>4 DEF SwitchOff, At
      <3>2. /\ e \in Hook /\ e.state = "off" /\ e.since = hooks[R].since /\ e.failures = hooks[R].failures
            /\ e.ledgerCursor = hooks[R].ledgerCursor /\ e.proposalCursor = hooks[R].proposalCursor
        BY <2>1 DEF Hook
      <3> HIDE DEF e
      <3> QED
        BY <2>4, <3>1, <3>2
    <2> QED
      BY <1>3, <2>2, <2>3, <2>4 DEF ResetFailures, SwitchOff
  <1>5. e.state # "none" /\ e.ledgerCursor <= ledger /\ e.proposalCursor <= clock
    BY <1>3, <1>4, Basics
  <1>6. /\ SourcesOK' /\ HooksOK' /\ DeliveriesOK' /\ Kept
        /\ \A g \in Hooks : hooks[g].state # "none" => hooks'[g].state # "none"
        /\ hooks'[R] = e /\ \A g \in Hooks \ {R} : hooks'[g] = hooks[g]
    BY <1>1, <1>3, <1>4, <1>5, HookMarked
  <1>7. CycleOK' /\ RowsOK' /\ cycle'.at = "sending"
    BY <1>1, <1>2, <1>6, OnToTheNext
  <1>8. Exists(R)' => Exists(R)
    BY <1>4, <1>6 DEF Exists
  <1>9. NoneBehind'
    <2>1. \A g \in Hooks : Exists(g)' =>
            Exists(g) /\ hooks'[g].since = hooks[g].since /\ hooks'[g].ledgerCursor = hooks[g].ledgerCursor
      BY <1>4, <1>6, <1>8 DEF Exists
    <2> QED
      BY <1>2, <1>6, <2>1, NothingNewBehind
  <1>10. CountsOK'
    <2> SUFFICES ASSUME ~ Broken'
                 PROVE  CountsOK'
      BY DEF CountsOK
    <2>1. ~ Broken
      BY <1>1 DEF Broken
    <2>2. \A g \in Hooks : Exists(g) => hooks[g].failures <= streak[g] \/ (cycle.at = "resetting" /\ R = g)
      BY <1>1, <1>2, <1>3, <2>1 DEF CountsOK
    <2>3. ASSUME NEW g \in Hooks, Exists(g)'
          PROVE  hooks'[g].failures <= streak'[g]
      <3>1. CASE g # R
        <4>1. hooks'[g] = hooks[g]
          BY <1>6, <3>1
        <4> QED
          BY <1>1, <2>2, <2>3, <3>1, <4>1 DEF Exists
      <3>2. CASE g = R /\ cycle.at = "resetting"
        <4>1. hooks'[R].failures = 0 /\ 0 <= streak[R]
          BY <1>4, <1>6, <1>8, <2>3, <3>2, Basics, Limits
        <4> QED
          BY <1>1, <3>2, <4>1
      <3>3. CASE g = R /\ cycle.at = "switching"
        BY <1>1, <1>4, <1>6, <1>8, <2>2, <2>3, <3>3
      <3> QED
        BY <1>1, <3>1, <3>2, <3>3
    <2> QED
      BY <1>7, <2>3 DEF CountsOK, At
  <1> QED
    BY <1>6, <1>7, <1>9, <1>10 DEF WInv

\* A failure is counted on the hook, if it is still there.
LEMMA CountStep ==
  ASSUME WInv, CountFailure
  PROVE  WInv'
  <1>1. /\ UNCHANGED sources /\ UNCHANGED <<deliveries, pings, streak>> /\ fault' = fault /\ streak' = streak
        /\ cycle.at = "counting" /\ UNCHANGED deliveries /\ deliveries' = deliveries /\ UNCHANGED streak
    BY DEF CountFailure, At
  <1>2. IsCycle(cycle) /\ CycleOK /\ DeliveriesOK /\ CountsOK /\ NoneBehind /\ cycle.at \in Recorded
    BY <1>1, Basics DEF Recorded, CycleOK
  <1>3. PICK R \in Hooks : R = Receiver /\ hooks[R].state # "none"
    BY <1>2, AfterRecording
  <1>4. ~ Broken => \A g \in Hooks : Exists(g) => hooks[g].failures <= streak[g]
    BY <1>1, <1>2 DEF CountsOK
  <1>5. CASE ~ Exists(R)
    <2>1. cycle' = Resting /\ hooks' = hooks
      BY <1>3, <1>5 DEF CountFailure
    <2>2. /\ SourcesOK' /\ HooksOK' /\ DeliveriesOK' /\ Kept
      <3>1. hooks' = [hooks EXCEPT ![R] = hooks[R]]
        BY <2>1, Basics
      <3>2. hooks[R] \in Hook /\ hooks[R].ledgerCursor <= ledger /\ hooks[R].proposalCursor <= clock
        BY Basics
      <3> QED
        BY <1>1, <1>3, <3>1, <3>2, HookMarked
    <2>3. /\ CycleOK' /\ RowsOK' /\ cycle'.at \notin Posted
      BY <2>1, AtRest
    <2>4. NoneBehind'
      BY <1>2, <2>1, <2>2, NothingNewBehind DEF Exists
    <2>5. CountsOK'
      BY <1>1, <1>4, <2>1, <2>3 DEF CountsOK, Posted, Recorded, At, Exists, Broken
    <2> QED
      BY <2>2, <2>3, <2>4, <2>5 DEF WInv
  <1>6. CASE Exists(R)
    <2> DEFINE n == Min({hooks[R].failures + 1, MaxFailures})
               e == [hooks[R] EXCEPT !.failures = n]
    <2>1. /\ hooks[R].failures \in Nat /\ MaxFailures \in Nat /\ streak[R] \in Nat /\ streak[R] <= MaxFailures
          /\ n \in {hooks[R].failures + 1, MaxFailures} /\ n <= hooks[R].failures + 1 /\ n <= MaxFailures
      <3>1. hooks[R].failures \in Nat /\ MaxFailures \in Nat /\ streak[R] \in Nat /\ streak[R] <= MaxFailures
        BY Basics, Limits
      <3>2. hooks[R].failures + 1 \in Nat
        BY <3>1
      <3> QED
        BY <3>1, <3>2, MinOfTwo
    <2>2. hooks' = [hooks EXCEPT ![R] = e]
      BY <1>3, <1>6 DEF CountFailure
    <2>3. n \in 0..MaxFailures
      BY <2>1
    <2> HIDE DEF n
    <2>4. /\ e \in Hook /\ e.state = hooks[R].state /\ e.since = hooks[R].since /\ e.failures = n
          /\ e.ledgerCursor = hooks[R].ledgerCursor /\ e.proposalCursor = hooks[R].proposalCursor
      <3>1. hooks[R] \in Hook
        BY Basics
      <3> QED
        BY <2>3, <3>1 DEF Hook
    <2> HIDE DEF e
    <2>5. e.state # "none" /\ e.ledgerCursor <= ledger /\ e.proposalCursor <= clock
      BY <1>3, <2>4, Basics
    <2>6. /\ SourcesOK' /\ HooksOK' /\ DeliveriesOK' /\ Kept
          /\ \A g \in Hooks : hooks[g].state # "none" => hooks'[g].state # "none"
          /\ hooks'[R] = e /\ \A g \in Hooks \ {R} : hooks'[g] = hooks[g]
      BY <1>1, <1>3, <2>2, <2>4, <2>5, HookMarked
    <2>7. NoneBehind'
      <3>1. \A g \in Hooks : Exists(g)' =>
              Exists(g) /\ hooks'[g].since = hooks[g].since /\ hooks'[g].ledgerCursor = hooks[g].ledgerCursor
        BY <2>4, <2>6 DEF Exists
      <3> QED
        BY <1>2, <2>6, <3>1, NothingNewBehind
    <2>8. ~ Broken' =>
            /\ n <= streak[R] /\ (n >= MaxFailures => streak[R] = MaxFailures)
            /\ \A g \in Hooks : Exists(g)' => hooks'[g].failures <= streak'[g]
      <3> SUFFICES ASSUME ~ Broken'
                   PROVE  /\ n <= streak[R] /\ (n >= MaxFailures => streak[R] = MaxFailures)
                          /\ \A g \in Hooks : Exists(g)' => hooks'[g].failures <= streak'[g]
        OBVIOUS
      <3>1. ~ Broken
        BY <1>1 DEF Broken
      <3>2. hooks[R].failures < streak[R] \/ streak[R] = MaxFailures
        BY <1>1, <1>2, <1>3, <1>6, <3>1 DEF CountsOK
      <3>3. n <= streak[R] /\ (n >= MaxFailures => streak[R] = MaxFailures)
        BY <2>1, <2>3, <3>2
      <3>4. ASSUME NEW g \in Hooks, Exists(g)'
            PROVE  hooks'[g].failures <= streak'[g]
        <4>1. CASE g # R
          <5>1. hooks'[g] = hooks[g]
            BY <2>6, <4>1
          <5> QED
            BY <1>1, <1>4, <3>1, <3>4, <5>1 DEF Exists
        <4>2. CASE g = R
          BY <1>1, <2>4, <2>6, <3>3, <4>2
        <4> QED
          BY <4>1, <4>2
      <3> QED
        BY <3>3, <3>4
    <2>9. CASE NextItem
      <3>1. CycleOK' /\ RowsOK' /\ cycle'.at = "sending"
        BY <1>1, <1>2, <2>6, <2>9, OnToTheNext
      <3>2. CountsOK'
        BY <2>8, <3>1 DEF CountsOK, At
      <3> QED
        BY <2>6, <2>7, <3>1, <3>2 DEF WInv
    <2>10. CASE Goes("switching") /\ hooks'[R].failures >= MaxFailures
      <3>1. /\ IsCycle(cycle') /\ cycle'.at = "switching" /\ cycle'.left = cycle.left
            /\ cycle'.todo = cycle.todo
        BY <1>2, <2>10, GoesTo
      <3>2. cycle.at \in Sending /\ cycle.todo # {}
        BY <1>2, AfterRecording
      <3>3. Item' = Item /\ Receiver' = R
        BY <1>2, <1>3, <2>6, <3>1, <3>2, SameItem
      <3>4. CycleOK'
        <4>1. \A d \in cycle'.todo : Waiting(d)' \/ (cycle'.at \in Recorded /\ d = Item')
          BY <1>1, <1>2, <3>1, <3>2, <3>3 DEF CycleOK, Waiting, Recorded
        <4>2. /\ cycle'.todo \subseteq DOMAIN deliveries' /\ cycle'.todo # {}
              /\ \A h \in cycle'.left : h \in Hooks /\ hooks'[h].state # "none"
          BY <1>1, <1>2, <2>6, <3>1, <3>2 DEF CycleOK
        <4> QED
          BY <3>1, <4>1, <4>2 DEF CycleOK, Collecting, Sending, Recorded, At
      <3>5. RowsOK'
        BY <3>1 DEF RowsOK, At
      <3>6. CountsOK'
        <4> SUFFICES ASSUME ~ Broken'
                     PROVE  CountsOK'
          BY DEF CountsOK
        <4>1. n >= MaxFailures
          BY <2>4, <2>6, <2>10
        <4>2. streak'[Receiver'] = MaxFailures
          BY <1>1, <2>8, <3>3, <4>1
        <4> QED
          BY <2>8, <3>1, <4>2 DEF CountsOK
      <3> QED
        BY <2>6, <2>7, <3>4, <3>5, <3>6 DEF WInv
    <2> QED
      BY <1>3, <1>6, <2>9, <2>10 DEF CountFailure
  <1> QED
    BY <1>5, <1>6

-----------------------------------------------------------------------------
(* The theorems *)

\* It holds at the start, when no hook was created.
LEMMA InitWInv == Init => WInv
  <1> SUFFICES ASSUME Init
               PROVE  WInv
    OBVIOUS
  <1>1. /\ ledger = 0 /\ changed = [p \in Proposals |-> 0] /\ clock = 0 /\ late = << >> /\ pings = 0
        /\ hooks = [h \in Hooks |-> NoHook] /\ deliveries = << >> /\ cycle = Resting
        /\ streak = [h \in Hooks |-> 0]
    BY DEF Init
  <1>2. SourcesOK
    BY <1>1, Limits DEF SourcesOK
  <1>3. HooksOK
    <2>1. NoHook \in Hook /\ NoHook.ledgerCursor = 0 /\ NoHook.proposalCursor = 0
      BY Limits DEF NoHook, Hook
    <2> QED
      BY <1>1, <2>1, Limits DEF HooksOK
  <1>4. DeliveriesOK
    BY <1>1 DEF DeliveriesOK
  <1>5. IsCycle(cycle) /\ cycle.at = "idle" /\ cycle.left = {}
    <2> DEFINE any == CHOOSE h \in Hooks : TRUE
    <2>1. cycle = [at |-> "idle", left |-> {}, hook |-> any, todo |-> {}, newest |-> 0]
      BY <1>1 DEF Resting
    <2> HIDE DEF any
    <2> QED
      BY <2>1 DEF IsCycle, Fields
  <1>6. CycleOK /\ RowsOK
    BY <1>5 DEF CycleOK, RowsOK, Collecting, Sending, Recorded, At
  <1>7. \A h \in Hooks : hooks[h].state = "none" /\ ~ Exists(h)
    BY <1>1 DEF NoHook, Exists
  <1>8. NoneBehind
    BY <1>7 DEF NoneBehind
  <1>9. CountsOK
    BY <1>5, <1>7 DEF CountsOK, At
  <1> QED
    BY <1>2, <1>3, <1>4, <1>6, <1>8, <1>9 DEF WInv

\* Every step keeps it.
LEMMA WInvStays == WInv /\ [Next]_vars => WInv'
  <1> SUFFICES ASSUME WInv, [Next]_vars
               PROVE  WInv'
    OBVIOUS
  <1>1. CASE CycleStep
    <2>1. CASE StartCollect \/ (\E h \in Hooks : NextHook(h)) \/ StartSend \/ Finish
      BY <2>1, TurnSteps
    <2>2. CASE ReadLedger
      BY <2>2, ReadLedgerStep
    <2>3. CASE EnqueueRow
      BY <2>3, EnqueueRowStep
    <2>4. CASE ReadProposals
      BY <2>4, ReadProposalsStep
    <2>5. CASE EnqueueChange
      BY <2>5, EnqueueChangeSteps
    <2>6. CASE SaveCursor
      BY <2>6, SaveCursorStep
    <2>7. CASE \E answer \in {"yes", "no"} : Post(answer)
      BY <2>7, PostStep
    <2>8. CASE RecordDelivered \/ RecordFailed
      BY <2>8, RecordSteps
    <2>9. CASE ResetFailures \/ SwitchOff
      BY <2>9, ResetAndSwitch
    <2>10. CASE CountFailure
      BY <2>10, CountStep
    <2> QED
      BY <1>1, <2>1, <2>2, <2>3, <2>4, <2>5, <2>6, <2>7, <2>8, <2>9, <2>10 DEF CycleStep
  <1>2. CASE PassOver
    BY <1>2, TurnSteps
  <1>3. CASE ViewFails
    BY <1>3, EnqueueChangeSteps
  <1>4. CASE \E what \in {"crash", "error"} : Break(what)
    BY <1>4, BreakStep
  <1>5. CASE \E d \in DOMAIN deliveries : Elapse(d)
    BY <1>5, ElapseStep
  <1>6. CASE \/ Land \/ \E some \in SUBSET Proposals : Change(some)
             \/ \E p \in Proposals : ChangeLate(p) \/ CommitLate(p)
    BY <1>6, SourceSteps
  <1>7. CASE \E h \in Hooks : Create(h) \/ Enable(h) \/ Delete(h) \/ Test(h)
    BY <1>7, MemberSteps
  <1>8. CASE UNCHANGED vars
    <2>1. /\ UNCHANGED sources /\ UNCHANGED <<hooks, deliveries, pings, streak>> /\ UNCHANGED fault
          /\ UNCHANGED pings /\ UNCHANGED <<hooks, deliveries, cycle, streak>> /\ ledger' = ledger /\ clock' = clock
      BY <1>8 DEF vars, sources
    <2>2. SourcesOK' /\ ledger <= ledger' /\ clock <= clock' /\ (Broken => Broken')
      BY <2>1, PingCounted, Basics DEF Broken
    <2> QED
      BY <2>1, <2>2, MoreHappened
  <1> QED
    BY <1>1, <1>2, <1>3, <1>4, <1>5, <1>6, <1>7, <1>8 DEF Next

\* The invariant holds wherever members, receivers, the ledger and the cycle (dispatch, and
\* what breaks it) can take the hooks and the deliveries.
THEOREM WebhooksInvariant == Spec => []WInv
  BY InitWInv, WInvStays, PTL DEF Spec

\* Hooks and deliveries keep their types, no cursor passes what there is, and no delivery is
\* attempted more often than MAX_ATTEMPTS allows (collect, send, record).
THEOREM WebhooksTyped == Spec => []WebhooksTypeOK
  <1>1. WInv => WebhooksTypeOK
    <2> SUFFICES ASSUME WInv
                 PROVE  WebhooksTypeOK
      OBVIOUS
    <2>1. ledger + clock + pings \in 0..MaxEvents /\ changed \in [Proposals -> 0..clock]
      <3>1. changed \in [Proposals -> 0..clock]
        BY Basics DEF SourcesOK
      <3> QED
        BY <3>1, Basics, Limits
    <2>2. ASSUME NEW h \in Hooks
          PROVE  /\ hooks[h].state \in {"none", "on", "off", "gone"}
                 /\ hooks[h].ledgerCursor \in 0..ledger /\ hooks[h].proposalCursor \in 0..clock
                 /\ hooks[h].failures \in 0..MaxFailures
      BY Basics
    <2>3. ASSUME NEW d \in DOMAIN deliveries
          PROVE  /\ deliveries[d].hook \in Hooks /\ deliveries[d].attempts \in 0..MaxAttempts
                 /\ deliveries[d].outcome \in {"none", "delivered", "abandoned"}
      BY Basics, OneOf DEF Delivery
    <2> QED
      BY <2>1, <2>2, <2>3 DEF WebhooksTypeOK
  <1> QED
    BY <1>1, WebhooksInvariant, PTL

\* At least once: near the cursor, every row a hook asked for was queued, whenever the
\* process stopped and however many rows landed meanwhile (collect, enqueue).
THEOREM NoneBehindHolds == Spec => []NoneBehindCursor
  <1>1. WInv => NoneBehindCursor
    BY Basics DEF NoneBehind, NoneBehindCursor
  <1> QED
    BY <1>1, WebhooksInvariant, PTL

\* A hook is switched off after MAX_FAILURES posts in a row failed, whatever members did
\* between the count and the switch (record_failure).
THEOREM OffCorrect == Spec => OffOnlyAfterFailures
  <1> DEFINE Off == \A h \in Hooks :
               hooks[h].state = "on" /\ hooks'[h].state = "off" =>
                 streak[h] >= MaxFailures \/ fault \in {"crash", "error"}
  <1>1. WInv /\ [Next]_vars => Off
    <2> SUFFICES ASSUME WInv, [Next]_vars, NEW h \in Hooks, hooks[h].state = "on", hooks'[h].state = "off"
                 PROVE  streak[h] >= MaxFailures \/ fault \in {"crash", "error"}
      OBVIOUS
    <2>1. hooks \in [Hooks -> Hook] /\ hooks' # hooks
      BY Basics
    <2>2. CASE SwitchOff
      <3>1. cycle.at = "switching" /\ cycle.at \in Recorded /\ CountsOK
        BY <2>2, Basics DEF SwitchOff, At, Recorded
      <3>2. Receiver = h
        <4>1. PICK R \in Hooks : R = Receiver
          BY <3>1, AfterRecording
        <4>2. hooks' = [hooks EXCEPT ![R].state = "off"]
          BY <2>1, <2>2, <4>1 DEF SwitchOff
        <4> QED
          BY <2>1, <4>1, <4>2
      <3>3. ~ Broken => streak[h] = MaxFailures
        BY <3>1, <3>2 DEF CountsOK, At
      <3> QED
        BY <3>3, Limits DEF Broken
    <2>3. CASE ResetFailures \/ CountFailure
      <3>1. cycle.at \in Recorded
        BY <2>3 DEF ResetFailures, CountFailure, At, Recorded
      <3>2. PICK R \in Hooks : R = Receiver
        BY <3>1, AfterRecording
      <3>3. \E n : hooks' = [hooks EXCEPT ![R].failures = n]
        BY <2>1, <2>3, <3>2 DEF ResetFailures, CountFailure, Cleared
      <3> QED
        BY <2>1, <3>3 DEF Hook
    <2>4. CASE SaveCursor
      <3>1. cycle.at \in Collecting
        BY <2>4 DEF SaveCursor, At, Collecting
      <3>2. cycle.hook \in Hooks
        BY <3>1, Basics DEF CycleOK
      <3>3. \/ \E n : hooks' = [hooks EXCEPT ![cycle.hook].ledgerCursor = n]
            \/ \E n : hooks' = [hooks EXCEPT ![cycle.hook].proposalCursor = n]
        BY <2>1, <2>4 DEF SaveCursor
      <3> QED
        BY <2>1, <3>2, <3>3 DEF Hook
    <2>5. ASSUME NEW g \in Hooks, Create(g) \/ Enable(g) \/ Delete(g)
          PROVE  FALSE
      <3>1. CASE Create(g)
        BY <2>1, <3>1 DEF Create
      <3>2. CASE Delete(g)
        BY <2>1, <3>2 DEF Delete, Hook
      <3>3. CASE Enable(g)
        <4> DEFINE f == [hooks EXCEPT ![g].state = "on"]
        <4>1. hooks' = [f EXCEPT ![g].failures = 0]
          BY <3>3 DEF Enable
        <4>2. DOMAIN f = Hooks /\ f[h].state = "on" /\ DOMAIN f[h] = DOMAIN hooks[h]
          BY <2>1 DEF Hook
        <4> HIDE DEF f
        <4> QED
          BY <4>1, <4>2
      <3> QED
        BY <2>5, <3>1, <3>2, <3>3
    <2>6. \/ SwitchOff \/ ResetFailures \/ CountFailure \/ SaveCursor
          \/ \E g \in Hooks : Create(g) \/ Enable(g) \/ Delete(g)
          \/ hooks' = hooks
      BY DEF Next, CycleStep, StartCollect, NextHook, ReadLedger, EnqueueRow, ReadProposals, EnqueueChange,
             StartSend, Post, RecordDelivered, RecordFailed, Finish, PassOver, ViewFails, Break, Elapse,
             Land, Change, ChangeLate, CommitLate, Test, OnlyCycle, vars, Happens
    <2> QED
      BY <2>1, <2>2, <2>3, <2>4, <2>5, <2>6
  <1>2. Off => [Off]_vars
    OBVIOUS
  <1> QED
    BY <1>1, <1>2, WebhooksInvariant, PTL DEF Spec, OffOnlyAfterFailures
=============================================================================
