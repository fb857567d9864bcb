---------------------------- MODULE OlienCheques ----------------------------
(***************************************************************************)
(* Cheques: an authorization of the token that members sign off chain, the *)
(* recipient cashes when they like, and members can void on the account.   *)
(*                                                                         *)
(* Requests to sign and to void run side by side, each statement a step;   *)
(* the indexer applies the account's logs, asks the token and writes what  *)
(* it hears.  The token, the account and the recipient are external.  One  *)
(* cheque on one live account, since cheques share nothing but the rules.  *)
(* Amounts, digests and memos are left out.                                *)
(***************************************************************************)
EXTENDS Integers, FiniteSets

CONSTANTS
  Signers,      \* the account's signers, approvers or not
  Requests,     \* requests members make at the same time
  Rules,        \* the rules an account may have: approvers and a threshold
  ValidBefore,  \* valid_before of the cheque
  Lag,          \* how far the time of the newest block may be behind
  MaxTime,      \* bound: the clock
  MaxChanges,   \* bound: changes of the rules
  MaxFaults     \* bound: crashes and logs that are lost

VARIABLES
  now, block,   \* the service's clock, the time of the newest block
  rules,        \* the account's rules on chain
  changes,      \* changes of them so far
  mirror,       \* the rules as olien_accounts and olien_signers have them
  cheque,       \* the row of olien_cheques
  signatures,   \* the signers in olien_cheque_signatures
  request,      \* where each request is, and what it holds
  indexer,      \* where the indexer is, and what it heard
  voidProposed, \* a proposal to cancel the message is in the queue
  held,         \* the signature the recipient has fetched
  used,         \* authorizationState of the cheque's nonce
  cancelled,    \* the account has cancelled the message
  log,          \* its Cancelled event is still to be indexed
  disturbed,    \* history: rules or faults came between a signature and its counting
  faults        \* faults so far

time == <<now, block>>
chain == <<rules, changes, held, used, cancelled>>
rows == <<mirror, cheque, signatures, voidProposed>>
vars == <<time, chain, rows, request, indexer, log, disturbed, faults>>

ASSUME ChequesAssumption ==
  /\ Signers # {} /\ IsFiniteSet(Signers)
  /\ Rules # {} /\ Rules \subseteq [approvers : SUBSET Signers, threshold : Nat \ {0}]
  /\ {ValidBefore, Lag, MaxTime, MaxChanges, MaxFaults} \subseteq Nat

Status == {"none", "open", "issued", "voiding", "cashed", "voided", "expired", "deleted"}
Final == {"cashed", "voided", "expired"}

Exists == cheque.status \notin {"none", "deleted"}

\* Mutant: a cheque whose cancellation is proposed is not looked at any more.
OnlyIssued == cheque.status = "issued"

\* Out with the recipient, as far as the row says.
Out == cheque.status \in {"issued", "voiding"}

-----------------------------------------------------------------------------
(* Writing and signing *)

Write ==
  /\ cheque.status = "none" /\ now < ValidBefore
  /\ cheque' = [cheque EXCEPT !.status = "open"]
  /\ UNCHANGED <<time, chain, mirror, signatures, voidProposed, request, indexer, log, disturbed, faults>>

Done == [at |-> "idle", signer |-> CHOOSE s \in Signers : TRUE, rules |-> CHOOSE r \in Rules : TRUE, packed |-> {}]

\* A request and nothing else moves.
Asks(r, what) == request' = [request EXCEPT ![r] = what]
OnlyAsks == UNCHANGED <<time, chain, rows, indexer, log, disturbed, faults>>

\* The rules are read first and used until the end; the signature is good.
BeginSign(r, s) ==
  /\ request[r].at = "idle" /\ cheque.status = "open" /\ s \in mirror.approvers
  /\ Asks(r, [Done EXCEPT !.at = "signing", !.signer = s, !.rules = mirror])
  /\ OnlyAsks

\* Whatever the status is by now; a row that is gone takes no signature.
PutSignature(r) ==
  /\ request[r].at = "signing"
  /\ IF Exists
     THEN /\ signatures' = signatures \cup {request[r].signer}
          /\ Asks(r, [request[r] EXCEPT !.at = "counting"])
     ELSE Asks(r, Done) /\ UNCHANGED signatures
  /\ UNCHANGED <<time, chain, mirror, cheque, voidProposed, indexer, log, disturbed, faults>>

\* Mutant: only the signatures there were before this one.
CountedBefore(r) == (signatures \ {request[r].signer}) \cap request[r].rules.approvers

\* The signatures that count by the rules the request has read.
Counted(r) == signatures \cap request[r].rules.approvers

Count(r) ==
  /\ request[r].at = "counting"
  /\ Asks(r, IF Cardinality(Counted(r)) < request[r].rules.threshold THEN Done
             ELSE [Done EXCEPT !.at = "issuing", !.packed = Counted(r)])
  /\ OnlyAsks

\* Mutant: the status is not looked at again.
StillThere == Exists

StillOpen == cheque.status = "open"

\* Only an open cheque is issued; the packed set is the cheque.
Issue(r) ==
  /\ request[r].at = "issuing"
  /\ cheque' = IF StillOpen THEN [status |-> "issued", packed |-> request[r].packed] ELSE cheque
  /\ Asks(r, Done)
  /\ UNCHANGED <<time, chain, mirror, signatures, voidProposed, indexer, log, disturbed, faults>>

-----------------------------------------------------------------------------
(* Voiding *)

\* Mutant: a draft is voided like any cheque.
NeverDraft == FALSE

IsDraft == cheque.status = "open"

BeginVoid(r) ==
  /\ request[r].at = "idle" /\ cheque.status \in {"open", "issued"}
  /\ Asks(r, [Done EXCEPT !.at = IF IsDraft THEN "deleting" ELSE "proposing"])
  /\ OnlyAsks

\* The row goes, and its signatures with it, whatever the status is by now.
DeleteDraft(r) ==
  /\ request[r].at = "deleting"
  /\ cheque' = [status |-> "deleted", packed |-> {}] /\ signatures' = {}
  /\ Asks(r, Done)
  /\ UNCHANGED <<time, chain, mirror, voidProposed, indexer, log, disturbed, faults>>

\* A proposal to cancel the message; or it is refused, and nothing is marked.
ProposeVoid(r) ==
  /\ request[r].at = "proposing"
  /\ \/ voidProposed' = TRUE /\ Asks(r, [Done EXCEPT !.at = "marking"])
     \/ UNCHANGED voidProposed /\ Asks(r, Done)
  /\ UNCHANGED <<time, chain, mirror, cheque, signatures, indexer, log, disturbed, faults>>

\* Mutant: a cheque is void once its cancellation is proposed.
VoidAtOnce == "voided"

Marked == "voiding"

MarkVoiding(r) ==
  /\ request[r].at = "marking"
  /\ cheque' = IF Exists THEN [cheque EXCEPT !.status = Marked] ELSE cheque
  /\ Asks(r, Done)
  /\ UNCHANGED <<time, chain, mirror, signatures, voidProposed, indexer, log, disturbed, faults>>

-----------------------------------------------------------------------------
(* The recipient, the token and the account *)

\* What issued_to serves.
Fetch ==
  /\ cheque.status \in {"issued", "cashed"} /\ held = {}
  /\ held' = cheque.packed
  /\ UNCHANGED <<time, rules, changes, used, cancelled, rows, request, indexer, log, disturbed, faults>>

\* The account's answer to the token: approvers by today's rules, enough of them, and
\* the message not cancelled.
Accepts(packed) ==
  packed \subseteq rules.approvers /\ Cardinality(packed) >= rules.threshold /\ ~cancelled

Cash ==
  /\ held # {} /\ ~used /\ block < ValidBefore /\ Accepts(held)
  /\ used' = TRUE
  /\ UNCHANGED <<time, rules, changes, held, cancelled, rows, request, indexer, log, disturbed, faults>>

\* The proposal runs: a log to index.
Cancel ==
  /\ voidProposed /\ ~cancelled
  /\ cancelled' = TRUE /\ log' = TRUE
  /\ UNCHANGED <<time, rules, changes, held, used, rows, request, indexer, disturbed, faults>>

ChangeRules(new) ==
  /\ changes < MaxChanges /\ new # rules
  /\ rules' = new /\ changes' = changes + 1
  /\ UNCHANGED <<time, held, used, cancelled, rows, request, indexer, log, disturbed, faults>>

-----------------------------------------------------------------------------
(* The indexer *)

Hears(what, when) == indexer' = [at |-> what, time |-> when]
At(place) == indexer.at = place

\* Logs first: a cancelled message was a cheque's.
IndexLogs ==
  /\ At("idle") /\ Hears("mirroring", 0) /\ log' = FALSE
  /\ cheque' = IF log /\ Out THEN [cheque EXCEPT !.status = "voided"]
               ELSE cheque
  /\ UNCHANGED <<time, chain, mirror, signatures, voidProposed, request, disturbed, faults>>

\* Then the rules, if a log told of a change, whether signatures wait or not.
MirrorRules ==
  /\ At("mirroring") /\ Hears("refreshing", 0)
  /\ mirror' = rules
  /\ disturbed' = (disturbed \/ mirror # rules)
  /\ UNCHANGED <<time, chain, cheque, signatures, voidProposed, request, log, faults>>

\* Then the cheques that are out, with the time of now.
ReadCheques ==
  /\ At("refreshing")
  /\ IF Out THEN Hears("asking", now) ELSE Hears("idle", 0)
  /\ UNCHANGED <<time, chain, rows, request, log, disturbed, faults>>

\* Mutant: expired at the second a block may still have.
ExpiredAt(t) == ValidBefore <= t

Expired(t) == ValidBefore < t

AskToken ==
  /\ At("asking")
  /\ IF used THEN Hears("cashed", 0) ELSE IF Expired(indexer.time) THEN Hears("expired", 0) ELSE Hears("idle", 0)
  /\ UNCHANGED <<time, chain, rows, request, log, disturbed, faults>>

\* By id, whatever the status is by now.
WriteOutcome ==
  /\ At("cashed") \/ At("expired")
  /\ cheque' = IF Exists THEN [cheque EXCEPT !.status = indexer.at] ELSE cheque
  /\ Hears("idle", 0)
  /\ UNCHANGED <<time, chain, mirror, signatures, voidProposed, request, log, disturbed, faults>>

IndexerStep == IndexLogs \/ MirrorRules \/ ReadCheques \/ AskToken \/ WriteOutcome

-----------------------------------------------------------------------------
(* What goes wrong, and time *)

Fault == faults < MaxFaults /\ faults' = faults + 1

Crash ==
  /\ Fault /\ (~At("idle") \/ \E r \in Requests : request[r].at # "idle")
  /\ request' = [r \in Requests |-> Done] /\ Hears("idle", 0)
  /\ disturbed' = (disturbed \/ \E r \in Requests : request[r].at \in {"counting", "issuing"})
  /\ UNCHANGED <<time, chain, rows, log>>

\* A log whose handling fails is skipped.
LoseLog ==
  /\ Fault /\ At("idle") /\ log
  /\ log' = FALSE /\ Hears("mirroring", 0)
  /\ UNCHANGED <<time, chain, rows, request, disturbed>>

Tick ==
  /\ now < MaxTime /\ now < block + Lag
  /\ now' = now + 1
  /\ UNCHANGED <<block, chain, rows, request, indexer, log, disturbed, faults>>

NewBlock ==
  /\ block < now
  /\ block' = block + 1
  /\ UNCHANGED <<now, chain, rows, request, indexer, log, disturbed, faults>>

Init ==
  /\ now = 0 /\ block = 0
  /\ rules \in Rules /\ changes = 0 /\ mirror = rules
  /\ cheque = [status |-> "none", packed |-> {}] /\ signatures = {}
  /\ request = [r \in Requests |-> Done]
  /\ indexer = [at |-> "idle", time |-> 0]
  /\ voidProposed = FALSE /\ held = {} /\ used = FALSE /\ cancelled = FALSE /\ log = FALSE
  /\ disturbed = FALSE /\ faults = 0

Next ==
  \/ Write
  \/ \E r \in Requests :
       \/ \E s \in Signers : BeginSign(r, s)
       \/ PutSignature(r) \/ Count(r) \/ Issue(r)
       \/ BeginVoid(r) \/ DeleteDraft(r) \/ ProposeVoid(r) \/ MarkVoiding(r)
  \/ Fetch \/ Cash \/ Cancel \/ \E new \in Rules : ChangeRules(new)
  \/ IndexerStep
  \/ Crash \/ LoseLog \/ Tick \/ NewBlock

Spec == Init /\ [][Next]_vars

\* The indexer's loop never ends, clocks go on and blocks come.
FairSpec == Spec /\ WF_vars(IndexerStep) /\ WF_vars(Tick) /\ WF_vars(NewBlock)

-----------------------------------------------------------------------------
(* Properties *)

\* Types, and: a cheque that is out has a packed set, and one that is not has none
\* (0008_treasury_cheques.sql: "present exactly when status has passed 'open'").
ChequesTypeOK ==
  /\ now \in 0..MaxTime /\ block \in 0..now
  /\ rules \in Rules /\ mirror \in Rules /\ changes \in 0..MaxChanges
  /\ cheque \in [status : Status, packed : SUBSET Signers]
  /\ cheque.status \in {"none", "open"} => cheque.packed = {}
  /\ cheque.status \in {"issued", "voiding"} \cup Final => cheque.packed # {}
  /\ signatures \subseteq Signers /\ held \subseteq Signers
  /\ request \in [Requests -> [at : {"idle", "signing", "counting", "issuing", "deleting", "proposing", "marking"},
                              signer : Signers, rules : Rules, packed : SUBSET Signers]]
  /\ indexer \in [at : {"idle", "mirroring", "refreshing", "asking", "cashed", "expired"}, time : 0..MaxTime]
  /\ {voidProposed, used, cancelled, log, disturbed} \subseteq BOOLEAN /\ faults \in 0..MaxFaults

\* What the row says in the end is so: cashed only what the token paid, voided only what
\* the account cancelled, and expired only what was not paid and no block can pay any
\* more (refresh, on_cancelled).
TrueOutcome ==
  /\ cheque.status = "cashed" => used
  /\ cheque.status = "voided" => cancelled
  /\ cheque.status = "expired" => ~used /\ block >= ValidBefore

\* "The token now refuses the signature": a cheque that was not cashed when it came to be
\* voided is never cashed after, whatever the recipient holds (void, on_cancelled).
RefusedOnceVoided == [][cheque.status = "voided" /\ ~used => ~used']_vars

Enough == Cardinality(signatures \cap mirror.approvers) >= mirror.threshold

\* "Once the threshold is met the cheque is issued": no cheque stays open with enough
\* signatures when every request has ended, however requests interleave, unless the rules
\* changed or a request was cut off meanwhile (sign, issue_if_ready).
EnoughIsIssued ==
  cheque.status = "open" /\ Enough /\ ~disturbed => \E r \in Requests : request[r].at \in {"counting", "issuing"}

\* A cheque that is out does not stay so: it comes to be cashed, voided or expired,
\* though a log is lost or a void is marked late (refresh, called from the indexer's loop).
Settles == cheque.status \in {"issued", "voiding"} ~> cheque.status \notin {"issued", "voiding"}
=============================================================================
