--------------------------- MODULE OlienProposals ---------------------------
(***************************************************************************)
(* The queue of one account's proposals: the service's rows, the requests  *)
(* and the indexer that write them, and the chain they are about.          *)
(*                                                                         *)
(* Only a single statement on the database is atomic.  A request is a      *)
(* sequence of steps, one for each read or write that others can come      *)
(* between; what it read stays in its record and is used as it was.        *)
(* Requests and the indexer run in one process, which may crash at any     *)
(* time: rows survive, requests and the indexer's variables do not.        *)
(*                                                                         *)
(* The chain (external) is what OlienAccount models, reduced to what the   *)
(* service can see of it: the default lane's nonce, the epoch, what ran,   *)
(* waits or is dead, the EntryPoint's nonces that operations of several    *)
(* signers have used, and the blocks of events.  Anyone may submit to it.  *)
(***************************************************************************)
EXTENDS Integers, Sequences, FiniteSetsExt

CONSTANTS
  RulesOf,      \* the account's rules in each epoch: approvers, threshold, whether changes wait
  Queue,        \* the proposals there are to begin with, with their confirmations
  MaxRequests,  \* bound: the requests ever made
  MaxSeq,       \* bound: the last sequence of the lane
  MaxBlocks,    \* bound: blocks with events of this account
  ChunkBlocks,  \* blocks the indexer asks for at once
  Operations,   \* bound: the EntryPoint's nonces of user operations the service never saw
  Faults,       \* bound: one of these happens at most: "lapse", "crash", "cycle", "log", "request"
  Foreign       \* a hash the service does not hold

VARIABLES
  chain,     \* the account on chain, and its blocks
  lapsed,    \* proposals past their validUntil
  pending,   \* transactions of the relayer that are sent and not mined
  rows,      \* olien_proposals with olien_confirmations
  account,   \* olien_accounts, olien_signers and the lane's row of olien_lanes
  tasks,     \* where each request and the indexer are, and what they hold
  reading,   \* how far the indexer's cycle has read
  fault      \* what has gone wrong so far

others == <<chain, lapsed, pending, reading, fault>>
vars == <<others, rows, account, tasks>>

Epochs == DOMAIN RulesOf
Signers == UNION {RulesOf[e].approvers : e \in Epochs}

\* What the calls of each kind of proposal may be: payments and whatever else runs at once,
\* or calls that touch the account's configuration.
CallsOf == [
  transfer     |-> {"pay"},   batch         |-> {"pay"},   payroll     |-> {"pay"},
  signer_change |-> {"rules"}, rule_change  |-> {"rules"},
  limit_change |-> {"rules", "pay"},  \* setting a limit, or removing one
  cancel       |-> {"pay"} ]

Calls == UNION {CallsOf[kind] : kind \in DOMAIN CallsOf}

\* A proposal is named by its hash, which covers all of this.
Hash == [seq : 0..MaxSeq, epoch : Epochs, calls : Calls]

InPlay == {"open", "ready", "blocked"}
Unsettled == InPlay \cup {"executing", "failed"}
Statuses == Unsettled \cup {"scheduled", "executed", "stale", "expired", "replaced",
                            "vetoed", "cancelled", "deleted"}

ASSUME ProposalsAssumption ==
  /\ RulesOf \in Seq([approvers : SUBSET Signers, threshold : Nat, waits : BOOLEAN]) /\ RulesOf # << >>
  /\ DOMAIN Queue \subseteq Hash
  /\ Queue \in [DOMAIN Queue -> [status : InPlay, confirmations : SUBSET Signers]]
  /\ MaxRequests \in Nat /\ Foreign \notin Hash
  /\ MaxSeq \in Nat /\ MaxBlocks \in Nat /\ ChunkBlocks \in Nat \ {0}
  /\ Operations \subseteq 0..MaxSeq

-----------------------------------------------------------------------------
(* The chain *)

Event == [name : {"Executed", "Scheduled", "ScheduledExecuted", "Cancelled", "Approved", "EpochAdvanced"},
          hash : Hash \cup {Foreign}, arg : Nat \cup Signers]

Says(name, h, arg) == [name |-> name, hash |-> h, arg |-> arg]

\* The calls of h run in a block that says so; a change of rules opens an epoch.
Ran(c, h, name) == [c EXCEPT
  !.waiting = @ \ {h}, !.ran = @ \cup {h},
  !.epoch = IF h.calls = "rules" THEN @ + 1 ELSE @,
  !.blocks = Append(@, (IF h.calls = "rules" THEN <<Says("EpochAdvanced", h, c.epoch + 1)>> ELSE << >>)
                       \o <<Says(name, h, h.seq)>>)]

Landed(h) ==
  LET c == [chain EXCEPT !.nonce = @ + 1]
  IN  IF h.calls = "rules" /\ RulesOf[chain.epoch].waits
      THEN [c EXCEPT !.waiting = @ \cup {h}, !.blocks = Append(@, <<Says("Scheduled", h, h.seq)>>)]
      ELSE Ran(c, h, "Executed")

Room(h) == h.calls = "rules" => chain.epoch + 1 \in Epochs

\* What execute and executeScheduled want.
Executable(h, sigs) ==
  /\ h.seq = chain.nonce /\ h.epoch = chain.epoch
  /\ h \notin chain.dead /\ h \notin lapsed
  /\ sigs \subseteq RulesOf[chain.epoch].approvers
  /\ Cardinality(sigs) >= RulesOf[chain.epoch].threshold
Ready(h) == h \in chain.waiting /\ h.epoch = chain.epoch

\* A veto or a cancellation kills a hash.
Killed(h) == [chain EXCEPT !.dead = @ \cup {h}, !.waiting = @ \ {h}]
Vetoed(h) == [Killed(h) EXCEPT !.blocks = Append(@, <<Says("Cancelled", h, h.seq)>>)]

\* What the chain wants of the relayer's transaction.  A user operation covers the epoch.
Takes(t) ==
  CASE t.op = "execute" -> Executable(t.hash, t.sigs) /\ Room(t.hash)
    [] t.op = "executeScheduled" -> Ready(t.hash) /\ Room(t.hash)
    [] t.op = "veto" -> t.epoch = chain.epoch /\ t.sigs \subseteq RulesOf[t.epoch].approvers

\* The EntryPoint takes an operation whose call then reverts, and a veto may not be the last
\* that was needed: both leave the hash as it was.
Becomes(t) ==
  CASE t.op = "execute" -> {Landed(t.hash)}
    [] t.op = "executeScheduled" -> {Ran(chain, t.hash, "ScheduledExecuted")}
    [] t.op = "veto" -> {chain} \cup {Vetoed(h) : h \in chain.waiting \cap {t.hash}}

\* The relayer's transaction is mined; whoever waits for its receipt gets it.
Mine(t) ==
  /\ t \in pending
  /\ pending' = pending \ {t}
  /\ IF Takes(t) THEN Len(chain.blocks) < MaxBlocks /\ chain' \in Becomes(t) ELSE UNCHANGED chain
  /\ tasks' = IF tasks[t.by].at # "sent" THEN tasks
              ELSE [tasks EXCEPT ![t.by].at = IF Takes(t) THEN "landed" ELSE "refused"]
  /\ UNCHANGED <<lapsed, rows, account, reading, fault>>

\* Others submit what the members signed.
SubmitElsewhere ==
  \/ \E h \in DOMAIN rows :
       Executable(h, rows[h].confirmations) /\ Room(h) /\ chain' = Landed(h)
  \/ \E h \in chain.waiting :
       Ready(h) /\ Room(h) /\ chain' = Ran(chain, h, "ScheduledExecuted")

\* What the service never saw.  A transaction pays and takes the lane's nonce.  A user
\* operation of several signers pays or cancels and takes none of the lane, but its event
\* has the EntryPoint's.
Unseen(nonce) == Says("Executed", Foreign, nonce)

SubmitUnseen ==
  \/ /\ chain.nonce <= MaxSeq
     /\ chain' = [chain EXCEPT !.nonce = @ + 1, !.blocks = Append(@, <<Unseen(chain.nonce)>>)]
  \/ \E n \in Operations \ chain.ops :
       \/ chain' = [chain EXCEPT !.ops = @ \cup {n}, !.blocks = Append(@, <<Unseen(n)>>)]
       \/ \E h \in DOMAIN rows \ (chain.ran \cup chain.dead) :
            chain' = [Killed(h) EXCEPT !.ops = @ \cup {n},
                        !.blocks = Append(@, <<Says("Cancelled", h, h.seq), Unseen(n)>>)]

ApproveOnChain(h, signer) ==
  /\ signer \in RulesOf[chain.epoch].approvers \ rows[h].confirmations
  /\ chain' = [chain EXCEPT !.blocks = Append(@, <<Says("Approved", h, signer)>>)]

Elsewhere ==
  /\ Len(chain.blocks) < MaxBlocks
  /\ \/ SubmitElsewhere
     \/ SubmitUnseen
     \/ \E h \in chain.waiting : chain' = Vetoed(h)
     \/ \E h \in DOMAIN rows, signer \in Signers : ApproveOnChain(h, signer)
  /\ UNCHANGED <<lapsed, pending, rows, account, tasks, reading, fault>>

\* What goes wrong goes wrong once.
Happens(what) == what \in Faults /\ fault = "none" /\ fault' = what

\* Of the proposals there are to begin with: the others end later.
Lapse(h) ==
  /\ Happens("lapse") /\ lapsed' = lapsed \cup {h}
  /\ UNCHANGED <<chain, pending, rows, account, tasks, reading>>

-----------------------------------------------------------------------------
(* Statements on the rows *)

\* An UPDATE by id: nothing happens when the row is gone.
SetStatus(table, h, status) ==
  IF table[h].status = "deleted" THEN table ELSE [table EXCEPT ![h].status = status]

\* mark_replaced: every other proposal at a consumed slot loses.
MarkReplaced(table, seq, winner) == [h \in DOMAIN table |->
  IF h.seq = seq /\ h # winner /\ table[h].status \in Unsettled
  THEN [table[h] EXCEPT !.status = "replaced"] ELSE table[h]]

\* Mutant: the lane is not looked at.
VerdictWithoutLane(h, row) ==
  IF h.epoch # row.epoch THEN "stale"
  ELSE IF h \in lapsed THEN "expired"
  ELSE IF Cardinality(rows[h].confirmations \cap account.approvers) < row.threshold THEN "open"
  ELSE IF h.seq = account.lane THEN "ready" ELSE "blocked"

\* What refresh_statuses makes of a proposal, given an account row read earlier.
Verdict(h, row) ==
  IF h.epoch # row.epoch THEN "stale"
  ELSE IF h \in lapsed THEN "expired"
  ELSE IF h.seq < account.lane THEN "replaced"
  ELSE IF Cardinality(rows[h].confirmations \cap account.approvers) < row.threshold THEN "open"
  ELSE IF h.seq = account.lane THEN "ready" ELSE "blocked"

\* The updates it will send, one for each status that differs from the one it read.
Verdicts(row) ==
  [h \in {g \in DOMAIN rows : rows[g].status \in InPlay /\ Verdict(g, row) # rows[g].status}
     |-> Verdict(h, row)]

NoUpdates == << >>
Without(updates, h) == [g \in DOMAIN updates \ {h} |-> updates[g]]

-----------------------------------------------------------------------------
(* Tasks *)

Indexer == 0
Requests == 1..MaxRequests

\* The part of the account row that requests carry with them.
Context == [epoch |-> account.epoch, threshold |-> account.threshold, approvers |-> account.approvers]
NoContext == [epoch |-> 0, threshold |-> 0, approvers |-> {}]

Unborn == [at |-> "unborn", op |-> "look", hash |-> Foreign, row |-> NoContext,
           updates |-> NoUpdates, sigs |-> {}, nonce |-> 0]

At(r, place) == tasks[r].at = place
Goes(r, place) == tasks' = [tasks EXCEPT ![r].at = place]
\* What is never read again is forgotten: all but the account row, or that as well.
Carries(r, place) == tasks' = [tasks EXCEPT ![r] = [Unborn EXCEPT !.at = place, !.row = tasks[r].row]]
Forgets(r, place) == tasks' = [tasks EXCEPT ![r] = [Unborn EXCEPT !.at = place]]
Ends(r) == Forgets(r, "done")
OnlyTasks == UNCHANGED <<others, rows, account>>
OnlyRows == UNCHANGED <<others, account>>
OnlyAccount == UNCHANGED <<others, rows>>

\* Every handler begins with context_for: the account, its signers, the caller's standing.
Begin(r) ==
  /\ At(r, "unborn") /\ \A q \in 1..(r - 1) : ~ At(q, "unborn")
  /\ tasks' = [tasks EXCEPT ![r].at = "called", ![r].row = Context]
  /\ OnlyTasks

\* refresh_statuses: signers, lanes and rows are read, then the updates go out.
Refresh(r) ==
  /\ tasks[r].at \in {"called", "written"}
  /\ tasks' = [tasks EXCEPT ![r] =
       IF At(r, "called") THEN [@ EXCEPT !.at = "judged", !.updates = Verdicts(tasks[r].row)]
       ELSE [Unborn EXCEPT !.at = "leaving", !.updates = Verdicts(tasks[r].row)]]
  /\ OnlyTasks

Update(r) ==
  /\ \E h \in DOMAIN tasks[r].updates :
       /\ rows' = SetStatus(rows, h, tasks[r].updates[h])
       /\ tasks' = [tasks EXCEPT ![r].updates = Without(@, h)]
  /\ OnlyRows

Refreshed(r, place) == At(r, place) /\ tasks[r].updates = NoUpdates

\* list_proposals and get_proposal end here, and so does every other request.
Leave(r) ==
  /\ r # Indexer
  /\ Refreshed(r, "judged") \/ Refreshed(r, "leaving")
  /\ Ends(r) /\ OnlyTasks

LoadForConfirm(r, h, signer) ==
  /\ Refreshed(r, "judged")
  /\ rows[h].status \in InPlay \cup {"failed"} /\ signer \in tasks[r].row.approvers
  /\ tasks' = [tasks EXCEPT ![r].at = "confirming", ![r].hash = h, ![r].sigs = {signer}]
  /\ OnlyTasks

Confirm(r) ==
  /\ At(r, "confirming") /\ Carries(r, "written")
  /\ rows' = [rows EXCEPT ![tasks[r].hash].confirmations = @ \cup tasks[r].sigs]
  /\ OnlyRows

\* A cancellation is of a proposal that may still be executed.  (What it kills when it runs
\* is left to the cancellations by others.)
MayPropose(kind) ==
  kind = "cancel" => \E h \in DOMAIN rows : rows[h].status \in InPlay \cup {"failed"}

\* insert_proposal: the lane's nonce, its row, the next sequence and the insert are four awaits.
ReadLane(r, kind) ==
  /\ At(r, "called") /\ MayPropose(kind)
  /\ \E calls \in CallsOf[kind] :
       tasks' = [tasks EXCEPT ![r].at = "laning", ![r].nonce = chain.nonce,
         ![r].hash = [seq |-> 0, epoch |-> tasks[r].row.epoch, calls |-> calls]]
  /\ OnlyTasks

\* Mutant: the lane is moved to where it will be once this proposal has run.
UpsertLaneBeyond(r) ==
  /\ At(r, "laning") /\ Goes(r, "numbering")
  /\ account' = [account EXCEPT !.lane = tasks[r].nonce + 1]
  /\ OnlyAccount

UpsertLane(r) ==
  /\ At(r, "laning") /\ Goes(r, "numbering")
  /\ account' = [account EXCEPT !.lane = tasks[r].nonce]
  /\ OnlyAccount

Highest == {h.seq : h \in {g \in DOMAIN rows : rows[g].status \in Unsettled}}
NextSequence(nonce) == Max({nonce} \cup {q + 1 : q \in Highest})

Number(r, seq) ==
  /\ At(r, "numbering") /\ seq <= MaxSeq
  /\ seq = NextSequence(tasks[r].nonce) \/ seq >= tasks[r].nonce
  /\ tasks' = [tasks EXCEPT ![r].at = "inserting", ![r].hash.seq = seq]
  /\ OnlyTasks

Insert(r) ==
  /\ At(r, "inserting")
  /\ LET h == tasks[r].hash
     IN  IF h \in DOMAIN rows THEN Ends(r) /\ UNCHANGED rows
         ELSE /\ Carries(r, "written")
              /\ rows' = [g \in DOMAIN rows \cup {h} |->
                   IF g = h THEN [status |-> "open", confirmations |-> {}] ELSE rows[g]]
  /\ OnlyRows

LoadForDelete(r, h) ==
  /\ At(r, "called")
  /\ rows[h].status \in {"open", "stale", "expired", "failed"}
  /\ rows[h].status = "open" => rows[h].confirmations = {}
  /\ tasks' = [tasks EXCEPT ![r] = [Unborn EXCEPT !.at = "deleting", !.hash = h]]
  /\ OnlyTasks

Delete(r) ==
  /\ At(r, "deleting") /\ Ends(r)
  /\ rows' = SetStatus(rows, tasks[r].hash, "deleted")
  /\ OnlyRows

-----------------------------------------------------------------------------
(* Executing *)

Approvals(r, h) == rows[h].confirmations \cap tasks[r].row.approvers

LoadForExecute(r, h) ==
  /\ Refreshed(r, "judged")
  /\ \/ rows[h].status = "ready"
     \/ rows[h].status = "failed" /\ Cardinality(Approvals(r, h)) >= tasks[r].row.threshold
  /\ tasks' = [tasks EXCEPT ![r] = [Unborn EXCEPT !.at = "claiming", !.op = "execute",
                                                  !.hash = h, !.sigs = Approvals(r, h)]]
  /\ OnlyTasks

MayClaim(status) == status \in {"ready", "failed"}

\* The claim is one UPDATE ... WHERE status IN ('ready','failed').
Claim(r) ==
  /\ At(r, "claiming")
  /\ IF MayClaim(rows[tasks[r].hash].status)
     THEN rows' = SetStatus(rows, tasks[r].hash, "executing") /\ Goes(r, "sending")
     ELSE UNCHANGED rows /\ Ends(r)
  /\ OnlyRows

LoadForExecuteScheduled(r, h) ==
  /\ At(r, "called") /\ rows[h].status = "scheduled"
  /\ tasks' = [tasks EXCEPT ![r] = [Unborn EXCEPT !.at = "sending", !.op = "executeScheduled", !.hash = h]]
  /\ OnlyTasks

\* Whoever sends holds the relayer's lock until its receipt has come, and there is no
\* limit to how long that takes.
HoldsLock(r) == At(r, "sent")
AwaitsRelayer(r) == tasks[r].at \in {"sending", "sent"}

Send(r) ==
  /\ At(r, "sending") /\ ~ \E q \in Requests : HoldsLock(q)
  /\ tasks' = [tasks EXCEPT ![r].at = "sent", ![r].row = NoContext, ![r].sigs = {}]
  /\ pending' = pending \cup
       {[op |-> tasks[r].op, hash |-> tasks[r].hash, sigs |-> tasks[r].sigs,
         epoch |-> tasks[r].row.epoch, by |-> r]}
  /\ UNCHANGED <<chain, lapsed, rows, account, reading, fault>>

\* The signers hold approve and veto, as is the default.  A veto by a key without a wallet
\* is a user operation: the service prepares it under the epoch it knows, the member signs
\* it, and it comes back to be submitted.
MayVeto(r, h, signer) == rows[h].status = "scheduled" /\ signer \in tasks[r].row.approvers

PrepareVeto(r, h, signer) ==
  /\ At(r, "called") /\ MayVeto(r, h, signer)
  /\ tasks' = [tasks EXCEPT ![r].at = "signing", ![r].op = "veto",
                                  ![r].hash = h, ![r].sigs = {signer}]
  /\ OnlyTasks

\* It is not sent if the rules are others by then, as far as the service knows.
SubmitOperation(r) ==
  /\ At(r, "signing")
  /\ IF account.epoch = tasks[r].row.epoch /\ tasks[r].sigs \subseteq account.approvers
     THEN Goes(r, "sending") ELSE Ends(r)
  /\ OnlyTasks

\* The node does not take the transaction, or the wait for its receipt fails,
\* whatever becomes of it.
SendFails(r) ==
  /\ tasks[r].at \in {"sending", "sent", "landed"} /\ Goes(r, "refused")
  /\ OnlyTasks

\* Mutant: the row is left as the claim put it.
RefusedButClaimed(h) == rows

AfterRefusal(h) == SetStatus(rows, h, "failed")

Refused(r) ==
  /\ At(r, "refused") /\ Ends(r)
  /\ rows' = IF tasks[r].op = "execute" THEN AfterRefusal(tasks[r].hash) ELSE rows
  /\ OnlyRows

\* Mutant: a landed transaction is taken to have run.
OutcomeIsRun(h) == "executed"

\* The answer says only that the transaction landed; what it did is told from its calls.
Outcome(h) == IF h.calls = "rules" THEN "scheduled" ELSE "executed"

RecordOutcome(r) ==
  /\ At(r, "landed") /\ tasks[r].op = "execute"
  /\ rows' = SetStatus(rows, tasks[r].hash, Outcome(tasks[r].hash)) /\ Goes(r, "replacing")
  /\ OnlyRows

\* client.scheduled fails: the handler returns before it has written anything.
ScheduleUnread(r) ==
  /\ At(r, "landed") /\ tasks[r].op = "execute" /\ Outcome(tasks[r].hash) = "scheduled"
  /\ Ends(r) /\ OnlyTasks

RecordScheduledRun(r) ==
  /\ At(r, "landed") /\ tasks[r].op = "executeScheduled"
  /\ rows' = SetStatus(rows, tasks[r].hash, "executed") /\ Forgets(r, "mirroring")
  /\ OnlyRows

\* Nothing is recorded of an operation: its events are the indexer's.
Submitted(r) ==
  /\ At(r, "landed") /\ tasks[r].op = "veto"
  /\ Ends(r) /\ OnlyTasks

Replace(r) ==
  /\ At(r, "replacing") /\ Forgets(r, "mirroring")
  /\ rows' = MarkReplaced(rows, tasks[r].hash.seq, tasks[r].hash)
  /\ OnlyRows

-----------------------------------------------------------------------------
(* refresh_account_from_chain: the rules are read and written, then the rest *)

ReadChain(r) ==
  /\ \/ /\ At(r, "mirroring")
        /\ tasks' = [tasks EXCEPT ![r].at = "writingRules", ![r].row.epoch = chain.epoch,
                                  ![r].row.threshold = RulesOf[chain.epoch].threshold]
     \/ /\ At(r, "rulesWritten")
        /\ tasks' = [tasks EXCEPT ![r].at = "writingSigners", ![r].nonce = chain.nonce,
                                  ![r].row.approvers = RulesOf[chain.epoch].approvers]
  /\ OnlyTasks

WriteRules(r) ==
  /\ At(r, "writingRules") /\ Forgets(r, "rulesWritten")
  /\ account' = [account EXCEPT !.epoch = tasks[r].row.epoch, !.threshold = tasks[r].row.threshold]
  /\ OnlyAccount

WriteSigners(r) ==
  /\ At(r, "writingSigners") /\ Forgets(r, "mirrored")
  /\ account' = [account EXCEPT !.approvers = tasks[r].row.approvers, !.lane = tasks[r].nonce]
  /\ OnlyAccount

\* A request only warns when it cannot read the chain back, or write what it read.
MirrorFails(r) ==
  /\ r # Indexer /\ Forgets(r, "mirrored")
  /\ tasks[r].at \in {"mirroring", "writingRules", "rulesWritten", "writingSigners"}
  /\ OnlyTasks

\* The account row is loaded again for the last refresh.
Reload(r) ==
  /\ At(r, "mirrored")
  /\ tasks' = [tasks EXCEPT ![r] = [Unborn EXCEPT !.at = "written", !.row = Context]]
  /\ OnlyTasks

-----------------------------------------------------------------------------
(* The indexer's cycle *)

Asleep == [Unborn EXCEPT !.at = "idle"]
Unread == [head |-> 0, block |-> 0, event |-> 0, changed |-> FALSE]

\* The account rows are loaded, then the head; both are kept for the whole cycle.
Wake ==
  /\ At(Indexer, "idle") /\ Goes(Indexer, "reading")
  /\ reading' = [head |-> Len(chain.blocks), block |-> account.indexed + 1, event |-> 1, changed |-> FALSE]
  /\ UNCHANGED <<chain, lapsed, pending, rows, account, fault>>

ChunkEnd == Min({account.indexed + ChunkBlocks, reading.head})
Applying == At(Indexer, "reading") /\ reading.block <= ChunkEnd
ThisEvent == chain.blocks[reading.block][reading.event]
NextEvent == IF reading.event < Len(chain.blocks[reading.block])
             THEN [reading EXCEPT !.event = @ + 1]
             ELSE [reading EXCEPT !.block = @ + 1, !.event = 1]

MadeStale(h, status, epoch) == h.epoch < epoch /\ status \in InPlay \cup {"failed", "scheduled"}

\* apply, on the proposals.
RowsAfter(e) ==
  LET known == e.hash \in DOMAIN rows /\ rows[e.hash].status # "deleted"
      To(status) == IF known THEN SetStatus(rows, e.hash, status) ELSE rows
  IN  CASE e.name = "Executed" -> MarkReplaced(To("executed"), e.arg, e.hash)
        [] e.name = "Scheduled" ->
             IF ~ known THEN rows
             ELSE MarkReplaced(IF rows[e.hash].status \in {"executed", "vetoed"} THEN rows
                               ELSE To("scheduled"), e.arg, e.hash)
        [] e.name = "ScheduledExecuted" -> To("executed")
        [] e.name = "Cancelled" ->
             IF ~ known \/ rows[e.hash].status = "executed" THEN rows
             ELSE To(IF rows[e.hash].status = "scheduled" THEN "vetoed" ELSE "cancelled")
        [] e.name = "Approved" ->
             IF known THEN [rows EXCEPT ![e.hash].confirmations = @ \cup {e.arg}] ELSE rows
        [] e.name = "EpochAdvanced" -> [h \in DOMAIN rows |->
             IF MadeStale(h, rows[h].status, e.arg) THEN [rows[h] EXCEPT !.status = "stale"] ELSE rows[h]]

Apply ==
  /\ Applying
  /\ rows' = RowsAfter(ThisEvent)
  /\ account' = IF ThisEvent.name = "EpochAdvanced" THEN [account EXCEPT !.epoch = ThisEvent.arg] ELSE account
  /\ reading' = [NextEvent EXCEPT !.changed = @ \/ ThisEvent.name = "EpochAdvanced"]
  /\ UNCHANGED <<chain, lapsed, pending, tasks, fault>>

\* A log whose handling fails is skipped with a warning; of a change of rules, other
\* logs may still say that something changed.
Skip ==
  /\ Applying /\ Happens("log")
  /\ \E told \in BOOLEAN :
       reading' = [NextEvent EXCEPT !.changed = @ \/ (told /\ ThisEvent.name = "EpochAdvanced")]
  /\ UNCHANGED <<chain, lapsed, pending, rows, account, tasks>>

\* Mutant: the cursor moves when the chunk is read, before its logs are applied.
ChunkRead == TRUE

ChunkOver == reading.block > ChunkEnd

SaveCursor ==
  /\ At(Indexer, "reading") /\ account.indexed < reading.head /\ ChunkOver
  /\ account' = [account EXCEPT !.indexed = ChunkEnd]
  /\ UNCHANGED <<others, rows, tasks>>

\* After the last chunk: everything is read back if the rules changed, else the lanes.
ReadBack ==
  /\ At(Indexer, "reading") /\ account.indexed >= reading.head
  /\ tasks' = IF reading.changed THEN [tasks EXCEPT ![Indexer].at = "mirroring"]
              ELSE [tasks EXCEPT ![Indexer].at = "relaning", ![Indexer].nonce = chain.nonce]
  /\ reading' = Unread
  /\ UNCHANGED <<chain, lapsed, pending, rows, account, fault>>

WriteLane ==
  /\ At(Indexer, "relaning") /\ Forgets(Indexer, "mirrored")
  /\ account' = [account EXCEPT !.lane = tasks[Indexer].nonce]
  /\ OnlyAccount

Sleep ==
  /\ Refreshed(Indexer, "leaving")
  /\ tasks' = [tasks EXCEPT ![Indexer] = Asleep]
  /\ OnlyTasks

\* The node does not answer, or a statement fails: the cycle is over, and what it held is gone.
Abort ==
  /\ ~ At(Indexer, "idle") /\ Happens("cycle")
  /\ tasks' = [tasks EXCEPT ![Indexer] = Asleep]
  /\ reading' = Unread
  /\ UNCHANGED <<chain, lapsed, pending, rows, account>>

\* A statement of a request, or a read, fails, the one that would record a failure included:
\* the handler returns, and the rows stay as they are.
Abandon(r) ==
  /\ tasks[r].at \notin {"unborn", "done"} /\ Happens("request")
  /\ Ends(r)
  /\ UNCHANGED <<chain, lapsed, pending, rows, account, reading>>

\* The process stops and is started again.
Crash ==
  /\ Happens("crash")
  /\ tasks' = [r \in DOMAIN tasks |->
       IF r = Indexer THEN Asleep ELSE IF At(r, "unborn") THEN Unborn ELSE [Unborn EXCEPT !.at = "done"]]
  /\ reading' = Unread
  /\ UNCHANGED <<chain, lapsed, pending, rows, account>>

-----------------------------------------------------------------------------
Init ==
  /\ chain = [nonce |-> 0, epoch |-> 1, ran |-> {}, waiting |-> {}, dead |-> {}, ops |-> {}, blocks |-> << >>]
  /\ lapsed = {} /\ pending = {}
  /\ rows = Queue
  /\ account = [epoch |-> 1, threshold |-> RulesOf[1].threshold, approvers |-> RulesOf[1].approvers,
                lane |-> 0, indexed |-> 0]
  /\ tasks = [r \in Requests \cup {Indexer} |-> IF r = Indexer THEN Asleep ELSE Unborn]
  /\ reading = Unread /\ fault = "none"

\* What a request does once it is made.
RequestStep(r) ==
  \/ Refresh(r) \/ Update(r) \/ Leave(r)
  \/ \E h \in DOMAIN rows :
       \/ \E signer \in Signers : LoadForConfirm(r, h, signer) \/ PrepareVeto(r, h, signer)
       \/ LoadForDelete(r, h) \/ LoadForExecute(r, h) \/ LoadForExecuteScheduled(r, h)
  \/ Confirm(r)
  \/ \E kind \in DOMAIN CallsOf : ReadLane(r, kind)
  \/ UpsertLane(r) \/ \E seq \in 0..MaxSeq : Number(r, seq)
  \/ Insert(r) \/ Delete(r)
  \/ Claim(r) \/ Send(r) \/ SendFails(r) \/ Refused(r)
  \/ SubmitOperation(r) \/ Submitted(r)
  \/ RecordOutcome(r) \/ ScheduleUnread(r) \/ RecordScheduledRun(r) \/ Replace(r)
  \/ ReadChain(r) \/ WriteRules(r) \/ WriteSigners(r) \/ MirrorFails(r) \/ Reload(r)

IndexerStep ==
  \/ Wake \/ Apply \/ SaveCursor \/ ReadBack \/ WriteLane
  \/ ReadChain(Indexer) \/ WriteRules(Indexer) \/ WriteSigners(Indexer) \/ Reload(Indexer)
  \/ Refresh(Indexer) \/ Update(Indexer) \/ Sleep

Next ==
  \/ \E r \in Requests : Begin(r) \/ RequestStep(r) \/ Abandon(r)
  \/ IndexerStep
  \/ \E t \in pending : Mine(t)
  \/ Elsewhere
  \/ \E h \in DOMAIN Queue : Lapse(h)
  \/ Skip \/ Abort \/ Crash

Spec == Init /\ [][Next]_vars

\* The indexer's loop turns as long as the process runs, and a request that was made goes
\* on, since one statement or one call to the node answers or fails.  It need not where it
\* waits for the relayer: nobody has to make a request, and no block has to be mined.
Proceeds(r) == ~ AwaitsRelayer(r) /\ RequestStep(r)

FairSpec == Spec /\ WF_vars(IndexerStep) /\ \A r \in Requests : WF_vars(Proceeds(r))

-----------------------------------------------------------------------------
\* Types of the rows, the account's row and the cursor: in particular the cursor never
\* passes the last block (index_account) and no lane counter leaves its range.
ProposalsTypeOK ==
  /\ chain.nonce \in 0..(MaxSeq + 1) /\ chain.epoch \in Epochs
  /\ chain.ran \cup chain.waiting \cup chain.dead \cup lapsed \subseteq Hash /\ chain.ops \subseteq Operations
  /\ DOMAIN rows \subseteq Hash
  /\ \A h \in DOMAIN rows :
       rows[h].status \in Statuses /\ rows[h].confirmations \subseteq Signers
  /\ account.epoch \in Epochs /\ account.lane \in 0..(MaxSeq + 1)
  /\ account.indexed \in 0..Len(chain.blocks)
  /\ \A r \in DOMAIN tasks : DOMAIN tasks[r].updates \subseteq DOMAIN rows

\* Nothing in the service is authoritative over the chain: whatever requests and the
\* indexer write over one another, in whatever order, no row claims what the chain has
\* not done.  Executed has run, scheduled has at least been scheduled, vetoed and
\* cancelled are dead, expired is past its validUntil, and replaced has lost its slot, or a
\* user operation has taken the same number at the EntryPoint.
NeverAheadOfChain ==
  \A h \in DOMAIN rows :
    CASE rows[h].status = "executed" -> h \in chain.ran
      [] rows[h].status = "scheduled" -> h \in chain.waiting \cup chain.ran \cup chain.dead
      [] rows[h].status \in {"vetoed", "cancelled"} -> h \in chain.dead
      [] rows[h].status = "replaced" -> h.seq < chain.nonce \/ h.seq \in chain.ops
      [] rows[h].status = "expired" -> h \in lapsed
      [] OTHER -> TRUE

\* A block the cursor has not passed says that h ran, and this cycle is not past it.
Untold(h) ==
  \E n \in (account.indexed + 1)..Len(chain.blocks) : \E k \in DOMAIN chain.blocks[n] :
    /\ chain.blocks[n][k].hash = h
    /\ chain.blocks[n][k].name \in {"Executed", "ScheduledExecuted"}
    /\ At(Indexer, "reading") => n > reading.block \/ (n = reading.block /\ k >= reading.event)

\* A proposal is replaced only by what took its slot: an event counts "only when the nonce
\* is the account's own (a user operation carries the EntryPoint's)" (indexer.rs).
ReplacedLostItsSlot == \A h \in DOMAIN rows : rows[h].status = "replaced" => h.seq < chain.nonce

\* Whatever the chain has run gets shown as executed once, whoever submitted it and
\* wherever the process crashed (index_account moves its cursor only over what it applied),
\* unless the handling of a log failed, which is never tried again.
RunsAreTold ==
  \A h \in DOMAIN Queue :
    Untold(h) ~> rows[h].status \in {"executed", "deleted"} \/ fault = "log"

\* A proposal whose slot is spent does not stay in play, crashes and failures of the node
\* included: every cycle reads the lanes back and judges the queue by them.
SlotsSettle ==
  \A h \in DOMAIN Queue : h.seq < chain.nonce ~> rows[h].status \notin InPlay

\* A claimed proposal does not stay executing, whatever the chain and the node answer and
\* however its row is judged meanwhile: execute writes an outcome, or the indexer does.  The
\* exceptions are a process that crashed, a request that failed in between, a log that was
\* skipped, and a request that waits for a receipt, or for the lock, for ever.
ClaimsEnd ==
  \A h \in DOMAIN Queue :
    rows[h].status = "executing" ~>
      \/ rows[h].status # "executing"
      \/ fault \in {"crash", "request", "log"}
      \/ [](\E r \in Requests : AwaitsRelayer(r))

\* What the API's description says: a proposal the chain says executed is executed.
\* After some time it is so for good.
RunsStayTold ==
  \A h \in DOMAIN Queue :
    h \in chain.ran ~> [](rows[h].status \in {"executed", "deleted"})
=============================================================================
