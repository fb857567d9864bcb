# Olien, specified

TLA+ models of Olien, a multi-signature account (Solidity, `src/contracts`) and the
service that runs treasuries on it (Rust, `src/service`), with the TLC runs that
check them on small instances and the TLAPS proofs that hold for every instance.

- [The system](#the-system): its parts, their state and what is hard about them
- [Modules](#modules): what models what
- [Runs](#runs): what each checks, the bounds, what it shows
- [Disagreements](#disagreements-between-code-and-documents)
- [Proofs](#proofs): what holds for every value of the constants, and why
- [Not modelled](#what-is-not-modelled)
- [Plan](#plan): what comes next

`PROJECT.json` ties every definition to its lines of source, every property to a
mutant of the code that breaks it, and every hazard to the properties that watch it.

## The system

An account is one contract behind a proxy. Signers (addresses, P-256 keys,
passkeys, other contracts) hold any of three permissions, APPROVE, VETO, RECOVER.
Signatures collected off chain authorise a list of calls; lists that change the
account's own rules wait out a delay and can be vetoed meanwhile. The service
keeps proposals and signatures in a database, submits them through a relayer,
and follows the chain with an indexer.

### The account contract

**Account rules** (`Olien.sol`: `_addSigner`, `_removeSigner`, `_count`,
`_checkConfig`, `_classify`, `_resolve`, `_tryVerify`, `_effectiveVetoThreshold`).
State: the signer mapping, its list and stored indexes, four `uint16` counters,
thresholds, delays, the epoch, the implementation. Hard: a swap-and-pop list and
hand-kept counters in unchecked arithmetic; classification of a batch by *all*
its calls; a configuration that is checked only at the end of a batch. Correct
when the counters are the numbers of holders, list and indexes agree, and the
signers there are can always meet the threshold.

**Account execution** (`initialize`, `execute`, `executeScheduled`, `approve`,
`veto`, `cancel` and the configuration functions). State: nonces, approvals,
scheduled entries, vetoes, dead hashes, the reentrancy latch. Anyone may submit;
a callee may come back in the middle of a batch through the functions without a
latch; any failure undoes the whole transaction. Correct when rules change only
as the signers under those very rules agreed and after the wait the rules ask
for, when nothing runs twice, a dead hash stays dead, and a veto stops exactly
what it should.

**User operations** (`validateUserOp`, `executeUserOp`). State: what validation
decided, in transient storage. Every operation of a bundle is validated before
the first is executed, and operations of other accounts may submit transactions
to this one in between, so everything decided is stale by the time it is used.
Correct when what runs is still what the rules in force allow.

**Spending limits and sub-accounts** (`setSpendingLimit`, `allowLimitSigner`,
`allowLimitDestination`, `removeSpendingLimit`, `spend`, `SubAccount.sol`). State:
limits with a budget, a reset time, a generation and an epoch; names kept per
generation. Hard: refills in whole periods, names that must die with a
generation, signers that leave and return. Correct when no period pays more than
its amount, to or by anyone not named since the limit was last set.

**Signature verification** (`OlienVerifier.sol`, `WebAuthn.sol`, `OlienHash.sol`)
and the **factory** and proxy: pure functions and a deployment.

### The service

**Transaction service** (`treasury.rs`, `routes.rs`). State: accounts, signers,
lanes, proposals with a status (open, ready, blocked, executing, scheduled,
executed, failed, stale, expired, replaced, vetoed, cancelled), confirmations.
Operations: propose, confirm, execute, execute scheduled, delete, veto, submit
an operation. Requests run concurrently and await the node and the database
between reading and writing. Hard: a claim by compare-and-set, an answer from the
node that is an error although the transaction landed, statuses judged by an
account row read earlier. Correct when the status agrees with the chain in the
end and nothing is sent twice.

**Indexer** (`indexer.rs`). Every 15 seconds it reads the logs of each live account
in chunks, applies them to the same proposals and moves a cursor. Hard: chunks
applied again after a crash, logs that fail and are skipped, a change of rules
remembered only in memory. Correct when every log is applied and applying one
again changes nothing.

**Webhooks** (`webhooks.rs`), **payroll** (`payroll.rs`) and **cheques**
(`treasury_cheques.rs`) are worked by the indexer's loop. State: cursors, queued
deliveries with attempts and backoff; templates with a next date; drafts,
signatures and issued authorisations. Hard: cursors over rows that appear out of
order, at-least-once delivery, a date claimed before the run is opened, a cheque
voided while its last signature arrives. Correct when every change is delivered,
every due date is run once, and the books agree with the token.

**Sessions** (`sessions.rs`, `auth.rs`, and the console's `lib/session.ts`). State:
challenges, sessions with the hashes of two tokens, the console's storage shared by
its tabs. Hard: two calls exchange one token, an answer is lost after the exchange
was committed, signing out names a session by a token that has just been rotated.
Correct when nothing is exchanged twice and a person who has signed out is out.

**Chain client** (`olien.rs`) signs and sends through one relayer key. **API keys**
(`treasury_keys.rs`) scope requests. **Members, configuration, start-up** (`members.rs`,
`config.rs`, `app.rs`, `main.rs`), the **schema** (`migrations/`), the **console**
(`src/console`, but for its session calls) and the **deployment scripts** have no
protocol of their own.

### How the parts meet

Chain and service share nothing but transactions one way and logs the other. On
the chain everything is a call inside a transaction; in the service, requests and
the indexer's loop share database rows, and only single statements are atomic.

## Modules

| module | extends | models |
| --- | --- | --- |
| `OlienRules` | | the rules of an account as a value, and every function on it |
| `OlienAccount` | `OlienRules` | one account on chain: execution, scheduling, vetoes, configuration |
| `OlienUserOps` | `OlienAccount` | the same account under the EntryPoint |
| `OlienLimits` | `OlienRules` | spending limits and `spend` |
| `SpendingPromise` | | what spending limits promise; `OlienLimits` implements it |
| `OlienProposals` | | the queue: rows, requests, the indexer's cycle, and the chain they are about |
| `OlienWebhooks` | | collecting, posting, retrying and giving up deliveries |
| `OlienPayroll` | | a template, its due dates and the cycles that open proposals for them |
| `OlienCheques` | | one cheque between its signers, the account, the token and the recipient |
| `OlienSessions` | | challenges, the exchange of tokens, signing out, and the console's calls |
| `OlienRulesProofs`, `OlienLimitsProofs`, `OlienProposalsProofs`, `OlienWebhooksProofs`, `OlienPayrollProofs`, `OlienChequesProofs`, `OlienSessionsProofs` | the module they are about | lemmas and theorems |
| `OlienAccountProofs` | `OlienUserOps`, `OlienRulesProofs` | the account, its votes and recovery, and its user operations |
| `MC...` | the module of that name | instances for TLC |

### OlienRules

A rules value is the part of `Storage` that moves the epoch. `AddSigner` and
`RemoveSigner` are `_addSigner` and `_removeSigner`, counters included: `Count`
adds 1 or 2^16 - 1 and wraps, as `_count` does. A signer is its id; keys, curves
and encodings are abstract, and two kinds are told apart because only an address
can call for itself. `Servable`, `IsConfig`, `Target` and `RecoveryOnly` are
`_classify` and `_keepsRole`; `OpensThreshold`, `OpensRecovery`, `Path` and `Delay`
are `_resolve`. A packed signature set is strictly ascending, hence a set of ids.

### OlienAccount

| code | model |
| --- | --- |
| `Storage` | `s`, one record |
| `GUARD_SLOT` | `latch` |
| a transaction that is running calls | `frame`: the calls left, the storage a revert restores, what its signers agreed to |
| `block.timestamp` | `now` |
| a hash | the record of what it covers: hashes do not collide |
| a list of calls | a name, with `CallsOf` |

`execute` and `executeScheduled` are one action each when they only schedule. When
they run calls they take the latch and push a frame; each call is an action
(`CallAddSigner`, ..., `CallElsewhere`), and `Finish` or `Abort` ends the frame.
`Finish` includes `_checkConfig`. `Abort` stands for every way a transaction may
revert, a failing callee and exhausted gas among them, so it is possible at every
step. While a call to another contract is at the head of the frame, `Approve` and
`Veto` may happen in between (`Reachable`): they are the entry points without a
latch. `initialize` is a frame too; it runs in the proxy's constructor.

The signatures handed to `execute` are any set of ids: ids in `OffChain` sign
freely, the others count only through an approval recorded on chain.

Two history values carry the properties and steer nothing: `ran`, the hashes whose
calls have run, and the `grant` in frames and entries: who signed, when, and under
which rules. `Settled` is the storage as of the last completed transaction, so
that a property can speak of transactions and ignore what a revert undoes.

### OlienUserOps

`bundle` is what validation left in the transient slots, in order; `executing` says
the EntryPoint has gone on to execution. `ValidateUserOp` appends a decision,
`ExecuteUserOp` pops one and lands it as a batch, or runs the one call for its
signer, or carries an inner `execute`; `FailUserOp` pops one whose execution
reverts. The whole of `OlienAccount` stays enabled between these steps, since
operations of other accounts in the same bundle may submit anything; only the
clock stands still. Operation hashes live in nonce lanes of their own (`OpKeys`),
because their EIP-712 type differs. The EntryPoint (external) is modelled from how
the account depends on it: sequential nonces per key, the validity window, and
validation of all before execution of any. A bundle opened by a callee in the
middle of a batch can only veto and approve, and appears as `Veto` and `Approve`
while `Reachable`.

### OlienLimits and SpendingPromise

`spend` takes the latch, so it never sees a batch half applied, and it is one step.
The configuration functions are one step each; the registry changes are those of
`OlienRules`, epoch included, followed by `_checkConfig`. `ValidateSpend` and
`ExecuteSpend` are the two halves of a payment by user operation, and anything but
the clock may move between them.

`SpendingPromise` knows no generations, epochs or reset times. An allowance has an
amount, a period, how far into the period we are, what was spent in it, who may
use it and whom it may pay; setting it starts afresh; when the period's time
comes, what was spent returns to zero. `KeepsPromise` is `Spending!Promise`, with
`Allowance(id)` the mapping: spent is the amount minus what would remain *after*
the refill that `spend` would make first, and the users are the signers who exist,
are named under the current generation and are old enough. The refinement says
two things a bound on payments alone would not: a refill is never lost either,
and a change of signers never gives anyone an allowance.

### The service's modules

They share one way of reading the code. A request, or a cycle of the indexer, is a
record in a variable: where it is, and what it has read. Each statement on the
database, and each call to the node, is one action; what was read stays in the
record and is used as it was, and everything else may move in between. A crash
keeps the rows and forgets the records. Faults are counted or named by a constant,
and each is what some line of the code expects: an error that is logged and passed
over, a transaction that rolls back, an answer that never comes. History variables
(`claims`, `gave`, `streak`, ...) are read by properties only.

### OlienProposals

| code | model |
| --- | --- |
| `olien_proposals`, `olien_confirmations` | `rows`, by hash; deleted rows keep a status of their own |
| `olien_accounts`, `olien_signers`, a row of `olien_lanes` | `account` |
| a request between two awaits; the indexer's task | `tasks` |
| `index_account` over chunks | `reading`, and `account.indexed` as the saved cursor |
| the account on chain and its logs | `chain`, external, a reduction of `OlienAccount` |

The actions follow the handlers: `ReadLane`, `UpsertLane`, `Number`, `Insert` for
proposing; `LoadForConfirm`, `Confirm`; `LoadForDelete`, `Delete`; `LoadForExecute`,
`Claim`, `Send`, `RecordOutcome`, `ScheduleUnread`, `Replace` for executing;
`Refresh` and `Update` for `refresh_statuses`, which judges a snapshot of the queue
by an account row read earlier and then writes row by row; `ReadChain`, `WriteRules`,
`WriteSigners` for the mirror of the rules; `RecordScheduledRun` for `execute_scheduled`;
`PrepareVeto`, `SubmitOperation`, `Submitted` for the veto of one key as a user operation,
which is prepared in one request and sent in another. The indexer is `Wake`, `Apply` (one log),
`SaveCursor`, `ReadBack`, `WriteLane` and the same refresh. `Mine` and `Elsewhere`
are the chain: the relayer's transaction, and anyone else's. `SubmitUnseen` is a
transaction the service does not hold, or a user operation of several signers: that one
takes nothing of the lane and a nonce of the EntryPoint (`Operations`, `chain.ops`), and
may cancel. What a proposal of kind `cancel` kills is left to those. Only proposals of the
initial queue lapse. `Refused`, `SendFails`
and a transaction in `pending` are the answers `execute` tells apart, including the
one that is an error although the transaction lands later. Whoever sends holds the
relayer's lock until its receipt has come (`HoldsLock`). `Abandon` is a statement, or a
read of the chain, that fails in a request whose handler then returns and leaves the rows
as they are, the `UPDATE` that would record a failure among them; `MirrorFails` is a
failure that is only warned of, `Skip` one in a log, `Abort` one that ends a cycle.

### OlienWebhooks

One cycle collects (`ReadLedger`, `EnqueueRow`, `ReadProposals`, `EnqueueChange`,
`SaveCursor`, hook by hook) and then sends (`Post`, and what is written after a
success or a failure, statement by statement, up to `SwitchOff`). `Change` and
`ChangeLate`/`CommitLate` are the transactions that touch proposals: `updated_at` is
the time a transaction began, so one may commit behind a cursor that has passed its
time. Time itself is left out: a delivery that waits becomes due at some time
(`Elapse`). What a cycle has read and not yet told is a set, taken in order (`Min`,
`Earliest`). A hook whose account cannot be loaded is passed over (`PassOver`), without
moving its cursors. A deleted hook keeps its cursors in the model because a cycle goes on with the
hook it has loaded; what it queues then is refused by the foreign key and ends the cycle.

### OlienPayroll

`run_due` in its steps: `Skip` past missed dates, `Claim` with its
compare-and-set on the date, `Open`, `Record`, or `Report` of `last_error`. Two cycles model the overlap of two processes
during a release. `NextAfter` is `Period::next_after` and its loop past the missed
dates, over any calendar given as the first days of its months.

### OlienCheques

Two requests at a time sign (`BeginSign`, `PutSignature`, `Count`, `Issue`) or
void (`DeleteDraft`, or `ProposeVoid` and `MarkVoiding`). The indexer mirrors the rules, applies `Cancelled`,
and asks the token. The recipient fetches a packed set when the row shows one and
cashes when the token lets it. The service's clock and the time of the newest block
are two clocks.

### OlienSessions

`IssueChallenge`, `Login` with its consumed nonce, the exchange as a transaction that
locks its row between two statements (`ReadRow`, `Rotate`), `Answer`, `TurnAway` and
`Logout`; with
`authFetch`, `refreshSession` and `signOut` of the console, whose tabs share one
storage. `BeginLogin` is possible with a session stored, as the console's banner for a
wallet that is not the session's offers it, and `Save` writes over what is there.
`overlapped` remembers that two calls were under way at once, `setAside` what a sign-in
wrote over.

## Runs

`CHECK_DEADLOCK FALSE` throughout: the bounds stop the systems, and so may the people
in them.

**Fairness.** The contract's modules assume none: nothing obliges anyone to submit,
sign or veto, so they say only what may not happen. The service's modules assume
weak fairness of the steps of the indexer's loop, which turns every 15 seconds as
long as the process runs (`indexer.rs`, `run`), restarts included, and in
`OlienProposals` of a request that was made (`Proceeds`), since a statement or a read of
the chain answers or fails; but not where it waits for the relayer's lock or for a
receipt, which the code awaits without a limit. `OlienWebhooks` assumes that a backoff elapses and `OlienCheques` that the clock
and the chain's clock move. Nothing is assumed of members, receivers, recipients, the
relayer's transactions or blocks. `OlienSessions` promises nothing in the end.

| run | distinct states | question |
| --- | --- | --- |
| `account` | 282,937 | may governance of one account ever go wrong |
| `userops` | 920,808 | does anything decided at validation survive its reasons |
| `userops_validity` | | does an operation's validity have a cap |
| `limits` | 197,476 | are budgets, periods and names kept through the turnover of limits and signers |
| `limits_joiner` | | is a key that joins after a limit was set a stranger to it |
| `proposals` | 484,799 | do rows follow the chain whatever crashes, lags or fails |
| `proposals_overwritten` | | is what ran shown as executed with a request at work beside the indexer |
| `proposals_operation` | | is a proposal replaced only by what took its slot |
| `webhooks` | 489,042 | is every hook told, and no hook switched off for less than it should |
| `payroll` | 979,350 | is every date run once, over cycles, edits and crashes that overlap |
| `cheques` | 1,486,048 | do the cheque's row, the token and the recipient agree in the end |
| `sessions` | 1,848,440 | is anything exchanged twice, or alive that nobody holds |

### account

- `TypeOK`: the types of storage and frame; no counter leaves `uint16`.
- `RegistryConsistent`: counters, list and indexes agree with the signers, in the
  middle of a batch as well.
- `AlwaysUsable`: between transactions the threshold can be met by the signers
  there are, an explicit veto threshold by the vetoers, and a guardian comes with
  a delay. It is stated over the holders, not over the counters the code compares.
- `DeadNotPending`, `DeadIsFinal`: veto and cancel take the entry with the hash; a
  dead hash stays dead and never starts running.
- `RunsOnce`: the calls of a hash run at most once, from whichever entry point.
- `EpochPinsRules`: whatever is still executable was agreed under the rules in force.
- `RulesChangeAsAgreed`: the rules change only when a transaction completes whose
  signers agreed under the very rules it changes, after the wait those rules ask
  of that set of signers (recomputed from the grant, not read from the entry).
- `RecoveryNeverEscalates`: below the threshold, one key is swapped for one with
  the same permissions, nothing else moves, and a guardian alone has waited.
- `VetoStops`, `VetoNeedsQuorum`: a change that is executable has fewer vetoes than
  stop it; and without the account's own call it is stopped only by that many
  different signers, the one it removes not among them.

Instance: two owners and a guardian, a fourth key that may join. Two set-ups: two
of two with a delay and an instant co-signed recovery, and one of two with no wait,
where the automatic veto threshold is two. Six batches: a removal that first calls
out, a recovery, a recovery that would escalate, a lower threshold with a new
signer, a batch of every other configuration call, and a cancellation.
`MaxTime` 3 lets a delay of 1, the window of 1 after it and its closing all happen;
`MaxEpoch` 6 lets the batch that advances the epoch four times run after another
change; `MaxSeq` 2 allows a second submission in a lane; `MaxApprovals` 1 is
enough for a signature that exists only on chain. `SCHEDULE_WINDOW`, `MAX_DELAY`
and `MAX_VALIDITY` are scaled to those units; `UINT16` is the real 65536.

### userops

`UserOpsTypeOK`, and `RulesChangeAsAgreed` and `DeadIsFinal` again, now with a
validation between the signatures and the change; and `SignersActForThemselves`: a
veto or an approval is recorded only for a signer the account has at that moment,
whatever ran since validation named it. The last is why `executeUserOp` compares
epochs on the single-signer path, where no signature is checked again and
`approve` does not look the signer up: the mutant that compares only for batches
breaks it.

Instance: one approver and a brake that may be removed, a third key that may join;
rules that change at once or after a delay; two operation lanes with one operation
each (one bundle of two or two of one) and one ordinary transaction lane.

### limits

One id, whose limit is set, set anew and removed; amounts 1 and 2, no period or a
period of 2, times 0 to 5, two changes of the rules. A payment can fall in the second
half of a period, at the boundary after it, and after a period that nobody used; the
mutant that counts the next period from now needs exactly that and is caught. A
named key is removed, added again and replaced by itself, also between the validation
and the execution of its payment. More ids add nothing two limits could share but the
registry and the counter of ids; the proof covers any number of them. `LimitsTypeOK`
also says no budget exceeds its amount.

### proposals

- `NeverAheadOfChain`: whatever requests and the indexer write over one another, no
  row claims what the chain has not done. `replaced` is let off where a user operation
  bears the slot's number at the EntryPoint, which `proposals_operation` shows it must be.
- `RunsAreTold`: what the chain ran is shown as executed, whoever submitted it and
  wherever the process crashed, unless the handling of its log failed: a log is
  never tried again.
- `SlotsSettle`: a proposal whose slot is spent does not stay in play.
- `ClaimsEnd`: a claimed proposal does not stay `executing`, whatever the chain and the node
  answer and however the row is judged meanwhile. TLC finds each of its exceptions when
  it is dropped: the process crashed, a statement of the request failed, a log was
  skipped, or a request waits for ever for a receipt or for the lock. No one resets a claim.

Instance: a change of rules that waits, signed and queued; one request of any kind
beside the indexer, and one fault at most (a lapse, a crash, a cycle, a request or a log
that fails), since the hazards listed for this component each need one. Two blocks with events and chunks of two are enough for a
cycle that crashes between its blocks and its cursor. One request at a time is the
bound that matters: two requests against each other multiply the state by more than
the run can hold, and meet in the same single statements (`Claim`, `Insert`) that a
request and the indexer meet in.

### webhooks

- `NoneBehindCursor`: at least once, also across a crash between queueing and moving the
  cursor, for the last `PER_CYCLE` rows; older ones are passed over (below).
- `OffOnlyAfterFailures`: a hook goes off only after that many failed posts in a row,
  whoever enabled it in between.
- `DeliveriesEnd`: what is queued is delivered or given up.
- `LatestTold`: in the end a hook has been told of the last state of each proposal,
  with three exceptions, each of which TLC finds when it is dropped.

One hook on both topics; two events; `PER_CYCLE` 1 so that one event more than a cycle
takes is within reach, `MAX_ATTEMPTS` 2 and `MAX_FAILURES` 3 so that giving up and
switching off come at different times.

### payroll

- `OneForMissed`: dates missed collapse into one run.
- `OpensOnce`: two cycles, an edit and a crash never open one date twice.
- `EachDateAnswered`: a claimed date is opened or its failure is on the template, never
  both, unless a fault hit that cycle or the template was saved anew.
- `DueIsTaken`: a date that is due is claimed in the end.

Weeks of one day and months of three, one of them of two, so that periods and a short
month pass within four days; the proofs are for any calendar.

### cheques

- `TrueOutcome`: cashed, voided and expired are so on the token and the account.
- `RefusedOnceVoided`: a cheque not cashed when it came to be voided never is.
- `EnoughIsIssued`: no cheque stays open with enough signatures, however requests to
  sign interleave, unless the rules changed meanwhile.
- `Settles`: a cheque that is out comes to an end, lost logs and late marks included.

Three rules (two of two, either of two, one alone) and one change between them; blocks
lag the service's clock by at most one second, which is where `expired` is decided
(with two it can be wrong, below); one fault.

### sessions

- `ExchangedOnce`: no challenge and no refresh token is exchanged twice.
- `SignedOutIsRevoked`: while a person's calls come one after another and are all
  answered, the only sessions alive are the one the console holds and those that a later
  sign-in wrote over: signing out revokes, also with an access token that has run out.
  TLC finds each of the three exceptions when it is dropped (below).

Two calls at a time, four in all, two challenges, one lost answer or rolled-back
transaction; the three lifetimes are scaled to 1, 1 and 2 so that a token can be
expired while its refresh token is not. The two callers are symmetric.

## Disagreements between code and documents

- **`userops_validity`.** `execute` refuses a window that ends more than
  `MAX_VALIDITY` ahead. `validateUserOp` only wants `validUntil` to be set. The
  security model's table says the cap holds for user operations too.
- **`limits_joiner`.** A key's `since` is the epoch it was added *in*, before its
  own addition advances it, and a limit records the epoch it was set in. A key that is
  replaced by itself (the only way to change its permissions) in the epoch in
  which the limit was set has `since` equal to the limit's epoch and remains its
  signer; a comment in `spend` and the account specification say it does not. Removal followed by addition
  takes two epochs and behaves as documented, which is the case the tests have.
- **`proposals_overwritten`.** The API's description says a proposal the chain says is
  executed is executed. `refresh_statuses` writes verdicts it reached from rows and an
  account read earlier, without looking at the status again: a row the indexer has
  just recorded as executed can be overwritten, and no later cycle corrects it.
- **`proposals_operation`.** A transaction the service never saw replaces what it holds
  at the slot "only when the nonce is the account's own (a user operation carries the
  EntryPoint's)", says the comment in `indexer.rs`. The branch leaves out the path of
  single signers only: a user operation of several signers has the path of a signed
  transaction, and a live proposal with that number is marked as replaced.

The following are not run; each was seen while modelling, most of them as
counterexamples of stronger forms of the properties above.

*Contract.* The account specification's third invariant says a configuration call
never executes in the transaction that authorised it when there is a delay for
configuration; a co-signed recovery with a zero co-signed delay does, and another
section of the same document allows it.

*Proposals.* A claimed row stays `executing` for ever when the receipt never comes, since
`get_receipt` (`olien.rs:972`) has no limit and is awaited under the lock every other
sender wants, or when the `UPDATE` to `failed` (`treasury.rs:2295`) itself fails. A stale verdict of `ready` reopens a claimed row, which can then be claimed
twice. An `EpochAdvanced` log that is applied again moves the account row back, and a
refresh by it calls good proposals `stale`, which is final. A `Cancelled` log applied
again turns `vetoed` into `cancelled`. `treasury.rs:1093` says the indexer calls it on every tick; it
does so only when a log changed the configuration. `validAfter` does not keep a
proposal from being `ready`, against docs/06 section 5. `propose_limit` takes the id after
the limits there are, so two open proposals for new limits name the same one.

*Webhooks.* Rows beyond 25 in a cycle are never queued, against docs/11. "Twenty
deliveries in a row" counts attempts. Confirmations do not move `updated_at`, so the
example of three events for two approvals and an execution does not happen. A crash
queues the same rows again under new ids, and the id is called the key to ignore a
repeat by.

*Payroll.* A crash between the claim and the opening loses the run without a word in
`last_error`, which `0006_payroll.sql` says makes a missed month not silent. When
`record_run` fails, `last_error` says the run did not open, although it did. An edit
that keeps the date passes the claim's comparison, and the claim opens with what it
read before the edit. A monthly date is stepped from the one before it, so a run on the
31st stays on the 28th after one February; the comment above `Period::next_after` says it
keeps its day where the calendar allows.

*Cheques.* Voiding a draft deletes by id, also a cheque that its last signature
issued meanwhile and the recipient has fetched; it can still be cashed and is on no
book (`treasury_cheques.rs:400` says a draft was never given to anyone). A cheque cashed
and then cancelled between two cycles is recorded as voided. A cheque with enough
signatures stays open when only the rules changed since they were counted. When
blocks lag by more than a second, `expired` may be said of one that is then cashed.

*Sessions.* Two calls that refresh with one token: the loser's 401 makes the console
clear the session the winner has just stored, as does any other failed answer. Signing out
beside a refresh revokes nothing when the access token has just been rotated. Signing in
with another wallet (`MismatchBanner`, `wallet.tsx:220`) writes the new tokens over the old
ones (`session.ts:156`) and neither the console nor `login_wallet` revokes the session they
were of: it lives on for up to 30 days, also after the person has signed out.

## Proofs

TLAPS proves these for every value of the constants that meets the named assumptions:
any number of signers, batches, limits, cycles, calls; any calendar; any bounds.

| module | theorem | property |
| --- | --- | --- |
| `OlienAccountProofs` | `TypeCorrect` | `TypeOK` |
| | `RegistryCorrect` | `RegistryConsistent` |
| | `UsableCorrect` | `AlwaysUsable` |
| | `DeadCorrect`, `DeadIsFinalCorrect` | `DeadNotPending`, `DeadIsFinal` |
| | `EpochCorrect` | `EpochPinsRules` |
| | `RunsOnceCorrect` | `RunsOnce` |
| | `RulesChangeCorrect` | `RulesChangeAsAgreed` |
| | `VetoStopsCorrect` | `VetoStops` |
| | `VetoNeedsQuorumCorrect` | `VetoNeedsQuorum` |
| | `RecoveryCorrect` | `RecoveryNeverEscalates` |
| | `UserOpsTypeCorrect` | `UserOpsTypeOK` |
| | `UserOpsDeadIsFinal` | `DeadIsFinal` |
| | `UserOpsRulesChange` | `RulesChangeAsAgreed` |
| | `SignersActCorrect` | `SignersActForThemselves` |
| `OlienLimitsProofs` | `LimitsTypeCorrect` | `LimitsTypeOK` |
| | `LimitsKeepPromise` | `KeepsPromise` |
| `OlienProposalsProofs` | `ProposalsTyped` | `ProposalsTypeOK` |
| | `NeverAhead` | `NeverAheadOfChain` |
| `OlienWebhooksProofs` | `WebhooksTyped` | `WebhooksTypeOK` |
| | `NoneBehindHolds` | `NoneBehindCursor` |
| | `OffCorrect` | `OffOnlyAfterFailures` |
| `OlienPayrollProofs` | `PayrollTypeCorrect` | `PayrollTypeOK` |
| | `OneForMissedCorrect` | `OneForMissed` |
| | `EachDateAnsweredCorrect` | `EachDateAnswered` |
| | `OpensOnceCorrect` | `OpensOnce` |
| `OlienChequesProofs` | `ChequesTypeCorrect` | `ChequesTypeOK` |
| | `EnoughCorrect` | `EnoughIsIssued` |
| | `OutcomeCorrect`, for a lag of a second at most | `TrueOutcome` |
| | `RefusedCorrect` | `RefusedOnceVoided` |
| `OlienSessionsProofs` | `SessionsTypeCorrect` | `SessionsTypeOK` |
| | `ExchangedOnceCorrect` | `ExchangedOnce` |
| | `SignedOutCorrect` | `SignedOutIsRevoked` |

### The account

Assumed: `RulesAssumption` (finitely many ids, fewer than 2^16; a positive minimum
recovery delay) and `AccountAssumption` (what the constants range over). The bound
on ids is what keeps a `uint16` counter from wrapping, and is the only place where
the width matters.

None of these is inductive alone. The invariant `IInv`, which `Invariance`
establishes, adds to the type and the registry:

- the saved storage of a frame is as good as the storage itself, since a revert
  restores it: registry, configuration, dead set, entries;
- (`Pinned`, `HeldBack`) no entry is from a later epoch than the account's, one from
  the current epoch was granted under the current rules, and none becomes ready
  earlier than its signers owe;
- (`Spent`) every hash that ran or waits is behind its lane's nonce, and none does
  both;
- (`Running`) the hash of a frame has not run, its grant is about the rules the
  frame started from, a frame that may change rules has waited, and one that will
  not be checked has no configuration call left and has not touched the rules.

The lemmas about counting (`AddSignerCounted`, `RemoveSignerCounted`) carry the
registry through each call: a cardinality changes by one and the wrapped counter
with it. The proof that a step keeps `IInv` has one lemma per action; `NextInv`
puts them together. Action properties follow from `IInv` and one step each.

### Vetoes

`VInv` adds to `IInv` what votes are: they exist only behind spent nonces (`Behind`), the
counter of a change is the number of its voters (`Tallies`), and a change that may
still run has fewer of them than stop it, none from the signer it removes
(`Unstopped`). It holds of the saved storage as well, since a revert brings back votes and
counters together.

### Recovery

`RInv` says that what was agreed to below the threshold is one swap, wherever it is: waiting
in the schedule (`AgreedAll`), about to be made, or made (`Swapping`). `SwapFields`,
`SwapSigners` and `SwapCounts` are the lemmas about the swap itself: taken out of a `uint16`
counter and put back, the number is what it was (`WrapBack`), as many signers hold each set of
permissions as before, and one is new at most. `GuardiansWait` turns the owed wait of
`RulesChangeCorrect` into the minimum, since `_checkConfig` passed the rules it was agreed under.

### User operations

The account keeps `IInv` under the EntryPoint, with one difference: the hashes of
operations are numbered by the EntryPoint and not by the account, so what `IInv` says of
nonces is said of the account's own lanes only (its parameter). `UInv` adds `Advanced` (in
a frame the rules are the saved ones, or of a later epoch), `Kept` (a revert brings back
no vote) and `Decided`: what a bundle holds was decided at this time, under rules no
later than those in force, by a signer of those rules, and with the wait they ask. An
operation whose epoch is still the account's was therefore decided under the very rules
in force, which is what `Current` checks in their place. Every step is shown to be
`Moved`: it keeps the account's invariant, records votes and approvals of signers only,
and starts, ends or undoes a transaction or leaves the rules.

### Spending limits

`LimitsKeepPromise` is the refinement: the initial state maps to an initial state, and
every step to a step of `SpendingPromise` or to none. Assumed besides the types:
`StartAssumption` (the account starts with a registry that agrees with itself, and
nobody in it is from a later epoch). The invariant `LInv` adds to the types that

- (`Registered`) the registry agrees with itself, and nobody is from a later epoch
  than the account's;
- (`Begun`) a period has begun: a limit's reset is at most a period ahead;
- (`Past`) names belong to ids that were given out and generations that were reached,
  so setting a limit really starts with nobody;
- (`Gone`) a limit's signer who is no signer any more left after the limit was set, so
  that whoever comes back under that name comes too late;
- (`Validated`) an operation in flight is of the rules in force and by one of their signers, or of
  the past.

Each action has a lemma that it keeps `LInv` and one that it maps. The arithmetic is in
the lemmas about whole periods: moving the reset by whole periods leaves the phase of the
period as it is (`ModShift`), and a tick completes a period exactly when the promise's
phase returns to zero (`PhaseTicks`, `SpentTicks`).

### The queue

Assumed: `ProposalsAssumption`. It types the constants, and asks that there is a first epoch,
that the queue starts with proposals in play, and that the indexer asks for at least one
block at a time. The run has one request beside the indexer; the theorems hold for any number
of them at once, of every kind, with any number of blocks in any chunks.

The argument is that the chain forgets nothing (`Grows`): its nonce and its blocks only
grow, what ran has run and what is dead is dead, and what waits runs or dies. So whatever
was true of it when somebody read it (`Claims` of a status, `Holds` of an event, `LandedAs`
of a transaction) is true when it is used, however late (`ClaimsStay`, `EventsStay`), and no
order between requests and the indexer is needed. `IInv` says

- of the chain, that every event of every block is true of it, those of user operations
  included, whose number is the EntryPoint's (`ChainOK`);
- of the rows, that no status says more than the chain has done (`RowsOK`), and of the
  account's row, that it is not ahead of the lane or of the last block (`AccountOK`);
- of each request and of the indexer, what it may hold at each of its places (`TaskOK`): a verdict
  it is about to write was true, and what it calls landed has landed;
- of a transaction that is sent and not mined, that its request waits for it or has
  left it, and sends no other (`PendingOK`). Without this a landing could be taken for another's;
- of the indexer's cycle, that it stands at an event of a block below its head (`ReadingOK`).

It takes a lemma per place of a request, and `IInvStays` puts them together. Where a request
writes over what the indexer wrote, the older of two true statuses may win: that is why
`RunsStayTold` fails and this does not.

### Webhooks

Assumed: `WebhooksAssumption` (the limits are positive). `WInv` adds to the types

- (`RowsOK`) the rows a cycle still has to tell have no gap, and between the cursor and the
  newest that was told, whatever is within `PER_CYCLE` of all that is left has a delivery;
- (`NoneBehind`) `NoneBehindCursor`, which by itself does not survive `SaveCursor`;
- (`CycleOK`) whoever is collected for was created, and what is being sent waits, but for
  the one delivery whose answer was just recorded: attempts are therefore counted once each;
- (`CountsOK`) until a cycle breaks, a hook has no more failures than its streak of failed
  posts, except while a success is being recorded; a failure that is posted and not yet
  counted is in the streak.

A failure that is counted thus never takes the count past the streak, also when a member
enables the hook between `CountFailure` and `SwitchOff`. Where a crash falls between a
success and its reset the count stays behind, which is the exception
`OffOnlyAfterFailures` names. `Around` carries all this over what members, the ledger and
proposals do between two statements of the cycle, `CycleMoves` over the statements that
change no hook.

### Payroll

`IInv` says what each place of `run_due` may rely on: what a cycle read is a date that had
come and the one after (`Reading`); a request by hand has no claim (`ByHand`); a
template is past every day a claim on it was decided (`Moved`); claims that are held
are held by one cycle (`Held`, `HeldApart`), and one that nobody holds has been
answered (`Settled`). `NextAfterLater`, from `CalendarAssumption`, is the lemma that carries
`OneForMissed`: the loop past missed dates ends on a day still to come.

### Cheques

`IInv` says that a cheque that was out is no draft again (`Outward`), that what is
about to be issued was enough (`Packed`), that a log tells what happened (`Told`) and that a
request counts by the mirror's rules unless they moved (`Fresh`). `TrueOutcome` needs
`Heard` besides: an answer on its way from the token to the row is still true when it
arrives. For `expired` that takes blocks no more than a second behind the service's
clock, which is an assumption of `OutcomeCorrect` alone.

### Sessions

`IInv` is the types, the row locks, that a call rotates the row it read under its lock
(`RotatesOwn`), that challenges differ, and that what was exchanged is in no row and no
open challenge (`Spent`). `SignedOutCorrect` needs a second invariant about a person's calls one after
another (`Quiet`, `Orderly`): then the storage is the grant of the one live session that no
sign-in has set aside.

### Only model-checked

Every invariant and every action property of the passing runs is proved. What is left is out of
the prover's reach altogether: liveness under fairness (`RunsAreTold`, `SlotsSettle`, `ClaimsEnd`, `DeliveriesEnd`, `LatestTold`,
`DueIsTaken`, `Settles`) and `ENABLED`, and what a recursive definition computes for
every input. No module declares a `RECURSIVE` operator.

## What is not modelled

- Curves, hashing, WebAuthn parsing and ABI encodings: pure functions. `Verifies`
  and the hash records stand for what they establish.
- EIP-1271 answers: a view over rules and signatures, without a state change.
- Gas, prefunds and native value.
- Sub-account creation and the calls a sub-account accepts from its parent; a limit
  paying from one differs only in whose balance moves.
- The Create2 addresses of the factory.
- A `setImplementation` to other code: the model keeps running this code.
- In the service: opening an account, labels, the address book, the views, and spends
  under a limit, which it only forwards (vetoes are modelled); the ledger and the mirror of limits and balances
  that the indexer keeps beside the proposals; API keys, whose every operation is one
  statement; who is a member.
- Two requests on the queue at once (see the run), and more than one fault in a run.
- What the models make coarser than the code, because no property tells the two apart:
  - *Account.* Only hashes of the current nonce and epoch are approved on chain
    (`Approve`). The signer of a single-signer operation is a parameter of `RunAs`, not a
    transient slot that could still be set. In `OlienLimits` the epoch moves through
    changes of signers only, and the configuration is checked after each.
  - *Queue.* One log is applied whole or skipped whole (`Apply`, `Skip`), although it takes
    several statements. A deleted proposal is not proposed again under its hash. A
    `UserOperationEvent` that marks a row `failed`, and the cap on chunks per cycle, which
    only delays, are left out.
  - *Webhooks.* A hook whose creator is gone passes over its proposals for good; in
    the model that is one fault (`ViewFails`).
  - *Payroll.* The hour's grace of a date in the past (`MaySave`), which days do not show,
    and a failure after the row of the run is written (`Record`).
  - *Cheques.* The rules are mirrored in every cycle, in the code only in one whose logs changed
    them; a cheque is cancelled on chain only after its void was proposed; account,
    signers and cheque are read in one step by `BeginSign`.
- Reorganisations of the chain: the indexer reads up to the head and the code has no way
  back from a block it has read.
- The schema, as such; the modules use its keys and uniqueness. Of the
  console only the keeping of tokens is modelled, without `fetchMe`, which clears them when its
  answer is still 401 after a refresh. The deployment scripts and the start-up code have no
  state others depend on.

## Plan

Modelled, in the order of what depends on it: the account, its user operations and its
limits; the queue of proposals; webhooks, payroll, cheques and sessions. Left:

1. Two requests on the queue at once, checked as well as proved, once the requests are small
   enough: the claim of `execute` against that of `execute_scheduled`.
2. An abstract specification of the account (a rules value and a set of agreements, each
   with a time and a quorum) that `OlienAccount` implements, with batches and hashes hidden.
