---------------------------- MODULE OlienWebhooks ----------------------------
(***************************************************************************)
(* Webhooks: what the indexer wrote becomes deliveries, and deliveries are *)
(* posted until they get through, are given up, or their hook is off.      *)
(*                                                                         *)
(* One cycle at a time collects and then sends; each of its statements,    *)
(* and each post, is a step.  Members create, enable, test and delete      *)
(* hooks meanwhile, ledger rows land and proposals change, and a receiver  *)
(* (external) answers as it likes.  How long a retry waits is left out: a  *)
(* delivery that failed is not due, and becomes due again at some time.    *)
(***************************************************************************)
EXTENDS Integers, Sequences, FiniteSetsExt

CONSTANTS
  Hooks,        \* the hooks that are ever created
  TopicsOf,     \* the topics of each
  Proposals,    \* the account's proposals
  PerCycle,     \* PER_CYCLE
  MaxAttempts,  \* MAX_ATTEMPTS
  MaxFailures,  \* MAX_FAILURES
  MaxEvents,    \* bound: ledger rows, statements that change proposals, pings and enablings
  Faults        \* bound: one of these happens at most: "crash", "error", "load", "view", "late", "together"

VARIABLES
  ledger,      \* the id of the last row of olien_ledger
  changed,     \* updated_at of each proposal, 0 at first
  clock,       \* now() of the last statement that changed proposals
  late,        \* proposals whose change has its time and is not committed
  hooks,       \* olien_webhooks
  deliveries,  \* olien_webhook_deliveries, by id
  cycle,       \* where the cycle is, and what it holds
  pings,       \* pings and enablings so far
  streak,      \* history: failed posts to each hook since one got through
  fault        \* what has gone wrong so far

sources == <<ledger, changed, clock, late>>
vars == <<sources, hooks, deliveries, cycle, pings, streak, fault>>

ASSUME WebhooksAssumption ==
  /\ TopicsOf \in [Hooks -> SUBSET {"ledger", "proposals"}]
  /\ PerCycle \in Nat \ {0} /\ MaxAttempts \in Nat \ {0} /\ MaxFailures \in Nat \ {0}
  /\ MaxEvents \in Nat

Happens(what) == what \in Faults /\ fault = "none" /\ fault' = what

-----------------------------------------------------------------------------
(* What there is to tell *)

Room == ledger + clock + pings < MaxEvents

Land ==
  /\ Room /\ ledger' = ledger + 1
  /\ UNCHANGED <<changed, clock, late, hooks, deliveries, cycle, pings, streak, fault>>

\* One statement gives all the rows it changes one time; only mark_replaced and a
\* change of epoch touch several.
Change(some) ==
  /\ Room /\ clock' = clock + 1
  /\ some # {} /\ some \cap DOMAIN late = {}
  /\ IF Cardinality(some) > 1 THEN Happens("together") ELSE UNCHANGED fault
  /\ changed' = [p \in Proposals |-> IF p \in some THEN clock' ELSE changed[p]]
  /\ UNCHANGED <<ledger, late, hooks, deliveries, cycle, pings, streak>>

\* A statement's time is when it began, and others see its rows when it commits.
ChangeLate(p) ==
  /\ Room /\ clock' = clock + 1 /\ Happens("late")
  /\ late' = [q \in {p} |-> clock']
  /\ UNCHANGED <<ledger, changed, hooks, deliveries, cycle, pings, streak>>

CommitLate(p) ==
  /\ p \in DOMAIN late
  /\ changed' = [changed EXCEPT ![p] = late[p]] /\ late' = << >>
  /\ UNCHANGED <<ledger, clock, hooks, deliveries, cycle, pings, streak, fault>>

-----------------------------------------------------------------------------
(* Members *)

NoHook == [state |-> "none", since |-> 0, ledgerCursor |-> 0, proposalCursor |-> 0, failures |-> 0]

\* A hook hears what happens next: both cursors start at what there is.
Create(h) ==
  /\ hooks[h].state = "none"
  /\ hooks' = [hooks EXCEPT ![h] = [state |-> "on", since |-> ledger, ledgerCursor |-> ledger,
                                    proposalCursor |-> clock, failures |-> 0]]
  /\ UNCHANGED <<sources, deliveries, cycle, pings, streak, fault>>

Exists(h) == hooks[h].state \in {"on", "off"}

Enable(h) ==
  /\ Exists(h) /\ Room /\ pings' = pings + 1
  /\ hooks' = [hooks EXCEPT ![h].state = "on", ![h].failures = 0]
  /\ UNCHANGED <<sources, deliveries, cycle, streak, fault>>

\* Its deliveries go with it.  A cycle goes by the cursors it has loaded, so they stay to be read.
Delete(h) ==
  /\ Exists(h)
  /\ hooks' = [hooks EXCEPT ![h].state = "gone"]
  /\ UNCHANGED <<sources, deliveries, cycle, pings, streak, fault>>

\* A delivery as it is queued: what it tells, and of a proposal the time it was changed.
Queued(h, what, at) ==
  [hook |-> h, what |-> what, at |-> at, attempts |-> 0, due |-> TRUE, outcome |-> "none"]

Test(h) ==
  /\ Exists(h) /\ Room /\ pings' = pings + 1
  /\ deliveries' = Append(deliveries, Queued(h, "ping", 0))
  /\ UNCHANGED <<sources, hooks, cycle, streak, fault>>

-----------------------------------------------------------------------------
(* The cycle: collect *)

Resting == [at |-> "idle", left |-> {}, hook |-> CHOOSE h \in Hooks : TRUE, todo |-> {}, newest |-> 0]
At(place) == cycle.at = place
Goes(place) == cycle' = [cycle EXCEPT !.at = place]
OnlyCycle == UNCHANGED <<sources, hooks, deliveries, pings, streak, fault>>

StartCollect ==
  /\ At("idle")
  /\ cycle' = [Resting EXCEPT !.at = "hooks", !.left = {h \in Hooks : hooks[h].state = "on"}]
  /\ OnlyCycle

NextHook(h) ==
  /\ At("hooks") /\ h \in cycle.left
  /\ cycle' = [cycle EXCEPT !.at = "ledger", !.hook = h, !.left = @ \ {h}]
  /\ OnlyCycle

\* The hook's account cannot be loaded: the hook is passed over.
PassOver ==
  /\ At("ledger") /\ Happens("load") /\ Goes("hooks")
  /\ UNCHANGED <<sources, hooks, deliveries, pings, streak>>

\* Rows past the cursor: the newest of them, told oldest first.
NewRows(h) == {r \in 1..ledger : r > hooks[h].ledgerCursor /\ r > ledger - PerCycle}

ReadLedger ==
  /\ At("ledger")
  /\ cycle' = IF "ledger" \notin TopicsOf[cycle.hook] THEN [cycle EXCEPT !.at = "proposals"]
              ELSE [cycle EXCEPT !.at = "queueing rows", !.todo = NewRows(cycle.hook),
                                 !.newest = hooks[cycle.hook].ledgerCursor]
  /\ OnlyCycle

\* What changed past the cursor, as many as a cycle takes and the earliest of them.  Of
\* changes of one time any may be taken.
ChangedPast(h) ==
  LET past == {p \in Proposals : changed[p] > hooks[h].proposalCursor}
  IN  {some \in SUBSET past :
         /\ Cardinality(some) = Min({Cardinality(past), PerCycle})
         /\ \A p \in some, q \in past \ some : changed[p] <= changed[q]}

ReadProposals ==
  /\ At("proposals")
  /\ IF "proposals" \notin TopicsOf[cycle.hook] THEN Goes("hooks")
     ELSE \E some \in ChangedPast(cycle.hook) :
            cycle' = [cycle EXCEPT !.at = "queueing changes", !.newest = hooks[cycle.hook].proposalCursor,
                                   !.todo = {[p |-> p, at |-> changed[p]] : p \in some}]
  /\ OnlyCycle

\* A delivery of a hook that is gone is refused by its foreign key, and ends the cycle.
EnqueueRow ==
  /\ At("queueing rows") /\ cycle.todo # {}
  /\ LET row == Min(cycle.todo)
     IN  IF Exists(cycle.hook)
         THEN /\ deliveries' = Append(deliveries, Queued(cycle.hook, "row", row))
              /\ cycle' = [cycle EXCEPT !.todo = @ \ {row}, !.newest = row]
         ELSE cycle' = Resting /\ UNCHANGED deliveries
  /\ UNCHANGED <<sources, hooks, pings, streak, fault>>

\* Changes are told in their order, those of one time in any.
Earliest == {read \in cycle.todo : \A other \in cycle.todo : read.at <= other.at}
Passes(read) == cycle' = [cycle EXCEPT !.todo = @ \ {read}, !.newest = Max({@, read.at})]

\* The view is of the proposal as it is now, which may be newer than the row read.
EnqueueChange ==
  /\ At("queueing changes")
  /\ \E read \in Earliest :
       IF Exists(cycle.hook)
       THEN deliveries' = Append(deliveries, Queued(cycle.hook, read.p, changed[read.p])) /\ Passes(read)
       ELSE cycle' = Resting /\ UNCHANGED deliveries
  /\ UNCHANGED <<sources, hooks, pings, streak, fault>>

\* A view that cannot be built is left out, and the cursor passes it.
ViewFails ==
  /\ At("queueing changes") /\ Happens("view")
  /\ \E read \in Earliest : Passes(read)
  /\ UNCHANGED <<sources, hooks, deliveries, pings, streak>>

\* Mutant: everything there is by now counts as told.
ToldUpToNow(topic) == IF topic = "ledger" THEN ledger ELSE clock
ToldUpTo(topic) == cycle.newest

SaveCursor ==
  /\ cycle.todo = {}
  /\ \/ /\ At("queueing rows") /\ Goes("proposals")
        /\ hooks' = IF Exists(cycle.hook) THEN [hooks EXCEPT ![cycle.hook].ledgerCursor = ToldUpTo("ledger")] ELSE hooks
     \/ /\ At("queueing changes") /\ Goes("hooks")
        /\ hooks' = IF Exists(cycle.hook) THEN [hooks EXCEPT ![cycle.hook].proposalCursor = ToldUpTo("proposals")] ELSE hooks
  /\ UNCHANGED <<sources, deliveries, pings, streak, fault>>

-----------------------------------------------------------------------------
(* The cycle: send *)

Waiting(d) == deliveries[d].outcome = "none"
IsDue(d) == Waiting(d) /\ deliveries[d].due /\ hooks[deliveries[d].hook].state = "on"

DueNow == {d \in DOMAIN deliveries : IsDue(d)}

\* The deliveries of a cycle are chosen once, the oldest that are due.
StartSend ==
  /\ At("hooks") /\ cycle.left = {}
  /\ cycle' = [Resting EXCEPT !.at = "sending",
       !.todo = {d \in DueNow : Cardinality({e \in DueNow : e < d}) < PerCycle}]
  /\ OnlyCycle

Item == Min(cycle.todo)
Receiver == deliveries[Item].hook

\* The receiver answers, or does not in time.
Post(answer) ==
  /\ At("sending") /\ cycle.todo # {}
  /\ Goes(IF answer = "yes" THEN "got through" ELSE "failed")
  /\ streak' = [streak EXCEPT ![Receiver] = IF answer = "yes" THEN 0 ELSE Min({@ + 1, MaxFailures})]
  /\ UNCHANGED <<sources, hooks, deliveries, pings, fault>>

\* Mutant: the time of delivery is not written.
Uncounted(delivery) == [delivery EXCEPT !.attempts = Min({@ + 1, MaxAttempts})]
Delivered(delivery) == [delivery EXCEPT !.attempts = @ + 1, !.outcome = "delivered"]

RecordDelivered ==
  /\ At("got through") /\ Goes("resetting")
  /\ deliveries' = [deliveries EXCEPT ![Item] = Delivered(@)]
  /\ UNCHANGED <<sources, hooks, pings, streak, fault>>

NextItem == cycle' = [cycle EXCEPT !.at = "sending", !.todo = @ \ {Item}]

\* Mutant: a success leaves the hook's failures as they are.
StillCounted(hook) == hook
Cleared(hook) == [hook EXCEPT !.failures = 0]

ResetFailures ==
  /\ At("resetting") /\ NextItem
  /\ hooks' = IF Exists(Receiver) THEN [hooks EXCEPT ![Receiver] = Cleared(@)] ELSE hooks
  /\ UNCHANGED <<sources, deliveries, pings, streak, fault>>

\* Mutant: one attempt too many.
GivenUpLate(attempts) == attempts > MaxAttempts
GivenUp(attempts) == attempts >= MaxAttempts

Failed(delivery) ==
  [delivery EXCEPT !.attempts = @ + 1, !.due = FALSE,
                   !.outcome = IF GivenUp(delivery.attempts + 1) THEN "abandoned" ELSE "none"]

RecordFailed ==
  /\ At("failed") /\ Goes("counting")
  /\ deliveries' = [deliveries EXCEPT ![Item] = Failed(@)]
  /\ UNCHANGED <<sources, hooks, pings, streak, fault>>

\* With the hook gone there is no row to count on, and the cycle ends.
CountFailure ==
  /\ At("counting")
  /\ IF Exists(Receiver)
     THEN /\ hooks' = [hooks EXCEPT ![Receiver].failures = Min({@ + 1, MaxFailures})]
          /\ IF hooks'[Receiver].failures >= MaxFailures THEN Goes("switching") ELSE NextItem
     ELSE cycle' = Resting /\ UNCHANGED hooks
  /\ UNCHANGED <<sources, deliveries, pings, streak, fault>>

SwitchOff ==
  /\ At("switching") /\ NextItem
  /\ hooks' = IF Exists(Receiver) THEN [hooks EXCEPT ![Receiver].state = "off"] ELSE hooks
  /\ UNCHANGED <<sources, deliveries, pings, streak, fault>>

Finish ==
  /\ At("sending") /\ cycle.todo = {}
  /\ cycle' = Resting /\ OnlyCycle

\* The time of a retry comes.
Elapse(d) ==
  /\ Waiting(d) /\ ~ deliveries[d].due
  /\ deliveries' = [deliveries EXCEPT ![d].due = TRUE]
  /\ UNCHANGED <<sources, hooks, cycle, pings, streak, fault>>

\* The process stops, or a statement fails: the cycle is over where it was.
Break(what) ==
  /\ ~ At("idle") /\ Happens(what)
  /\ cycle' = Resting
  /\ UNCHANGED <<sources, hooks, deliveries, pings, streak>>

-----------------------------------------------------------------------------
Init ==
  /\ ledger = 0 /\ changed = [p \in Proposals |-> 0] /\ clock = 0 /\ late = << >>
  /\ hooks = [h \in Hooks |-> NoHook]
  /\ deliveries = << >> /\ cycle = Resting /\ pings = 0
  /\ streak = [h \in Hooks |-> 0] /\ fault = "none"

CycleStep ==
  \/ StartCollect \/ \E h \in Hooks : NextHook(h)
  \/ ReadLedger \/ EnqueueRow \/ ReadProposals \/ EnqueueChange \/ SaveCursor
  \/ StartSend \/ \E answer \in {"yes", "no"} : Post(answer)
  \/ RecordDelivered \/ ResetFailures \/ RecordFailed \/ CountFailure \/ SwitchOff \/ Finish

Next ==
  \/ CycleStep \/ PassOver \/ ViewFails \/ \E what \in {"crash", "error"} : Break(what)
  \/ \E d \in DOMAIN deliveries : Elapse(d)
  \/ Land
  \/ \E some \in SUBSET Proposals : Change(some)
  \/ \E p \in Proposals : ChangeLate(p) \/ CommitLate(p)
  \/ \E h \in Hooks : Create(h) \/ Enable(h) \/ Delete(h) \/ Test(h)

Spec == Init /\ [][Next]_vars

\* The indexer's loop calls dispatch as long as the process runs, and time passes.
\* Nothing is assumed of receivers, members or the chain.
FairSpec ==
  /\ Spec /\ WF_vars(CycleStep)
  /\ \A d \in 1..(2 * MaxEvents) :
       WF_vars(d \in DOMAIN deliveries /\ Elapse(d))

-----------------------------------------------------------------------------
\* Types of the hooks and the deliveries; no cursor passes what there is, and no
\* delivery is attempted more than MAX_ATTEMPTS times.
WebhooksTypeOK ==
  /\ ledger + clock + pings \in 0..MaxEvents /\ changed \in [Proposals -> 0..clock]
  /\ \A h \in Hooks :
       /\ hooks[h].state \in {"none", "on", "off", "gone"}
       /\ hooks[h].ledgerCursor \in 0..ledger /\ hooks[h].proposalCursor \in 0..clock
       /\ hooks[h].failures \in 0..MaxFailures
  /\ \A d \in DOMAIN deliveries :
       /\ deliveries[d].hook \in Hooks /\ deliveries[d].attempts \in 0..MaxAttempts
       /\ deliveries[d].outcome \in {"none", "delivered", "abandoned"}

\* The hook has a delivery of the row.
HasRow(h, r) ==
  \E d \in DOMAIN deliveries :
    deliveries[d].hook = h /\ deliveries[d].what = "row" /\ deliveries[d].at = r

\* At least once: of the ledger rows behind a hook's cursor, the last PER_CYCLE have a
\* delivery, also when the process crashed between queueing and moving the cursor.  Older
\* ones may have been passed over: a cycle takes the newest and moves past the others.
NoneBehindCursor ==
  \A h \in Hooks : \A r \in 1..ledger :
    /\ Exists(h) /\ "ledger" \in TopicsOf[h]
    /\ r > hooks[h].since /\ r <= hooks[h].ledgerCursor /\ hooks[h].ledgerCursor - r < PerCycle
    => HasRow(h, r)

\* What is queued for a hook comes to an end, in the order of nobody's choosing: it is
\* delivered or given up, unless the hook is switched off or deleted.
DeliveriesEnd ==
  \A d \in 1..(2 * MaxEvents) :
    (d \in DOMAIN deliveries /\ Waiting(d)) ~>
      (d \in DOMAIN deliveries /\ (~ Waiting(d) \/ hooks[deliveries[d].hook].state # "on"))

\* Where a hook stands with a proposal: it has been told of the row as it is.
Told(h, p) ==
  \E d \in DOMAIN deliveries :
    deliveries[d].hook = h /\ deliveries[d].what = p /\ deliveries[d].at >= changed[p]

\* A change of a proposal reaches every hook that asked: in the end the last state of the
\* row has been queued.  Three things break it: a statement that commits after a later one
\* was seen, several rows changed at one time and cut by the limit, and a view that fails.
LatestTold ==
  \A h \in Hooks, p \in Proposals :
    (hooks[h].state = "on" /\ "proposals" \in TopicsOf[h] /\ changed[p] > hooks[h].proposalCursor) ~>
      (Told(h, p) \/ hooks[h].state # "on" \/ fault \in {"late", "together", "view"})

\* A hook is switched off only when its last MAX_FAILURES posts all failed, whoever
\* enabled it in between, unless the cycle broke between a success and its count.
OffOnlyAfterFailures ==
  [][\A h \in Hooks :
       hooks[h].state = "on" /\ hooks'[h].state = "off" =>
         streak[h] >= MaxFailures \/ fault \in {"crash", "error"}]_vars
=============================================================================
