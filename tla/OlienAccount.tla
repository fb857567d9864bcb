---------------------------- MODULE OlienAccount ----------------------------
(***************************************************************************)
(* One Olien account on chain: execute, executeScheduled, approve, veto    *)
(* and the calls a batch makes on the account itself.                      *)
(*                                                                         *)
(* A transaction is one action when it only records or schedules.  When it *)
(* runs calls it takes the reentrancy latch and becomes a frame: one       *)
(* action per call, then Finish or Abort.  Abort restores the storage the  *)
(* frame started from, which is what a revert does.  While a call to       *)
(* another contract is at the head of the frame, the callee may come back  *)
(* through the functions that take no latch, approve and veto.             *)
(*                                                                         *)
(* Hashes are collision free, so a hash is the record of what it covers.   *)
(* A batch is a name for a list of calls (its callsHash).                  *)
(***************************************************************************)
EXTENDS OlienRules

CONSTANTS
  Keys,             \* nonce keys
  Batches,          \* names of call lists
  CallsOf,          \* the calls a batch name stands for
  Validities,       \* <<validAfter, validUntil>> windows transactions carry
  Inits,            \* what initialize may be called with
  OffChain,         \* signers that hand over signatures; the others approve on chain
  SCHEDULE_WINDOW,  \* 7 days in the code
  MAX_VALIDITY,     \* 30 days in the code
  MaxTime,          \* bound: the clock stops here
  MaxEpoch,         \* bound: calls that would pass this epoch are not made
  MaxSeq,           \* bound: transactions per nonce key
  MaxApprovals,     \* bound: approvals recorded on chain
  Genesis,          \* the implementation the factory deploys
  NoFrame, NoHash

Hash == [key : Keys, seq : Nat, epoch : Nat, batch : Batches, after : Nat, until : Nat]

Call ==
       [op : {"addSigner"}, input : SignerInput]
  \cup [op : {"removeSigner"}, id : Ids]
  \cup [op : {"replaceSigner"}, id : Ids, input : SignerInput]
  \cup [op : {"setThreshold", "setVetoThreshold"}, value : Nat]
  \cup [op : {"setDelays"}, delays : Delays]
  \cup [op : {"setImplementation"}, implementation : Implementations]
  \cup [op : {"cancel", "approve", "veto"}, hash : Hash]
  \cup [op : {"freezeImplementation", "limitRule", "removeSpendingLimit", "outside", "carried"}]

InitCall == [op : {"initSigner"}, input : SignerInput]

InitInput == [
  signers : Seq(InitCall), threshold : Nat, vetoThreshold : Nat, delays : Delays]

ASSUME AccountAssumption ==
  /\ CallsOf \in [Batches -> Seq(Call)]
  /\ Validities \subseteq Nat \X Nat
  /\ Inits \subseteq InitInput
  /\ OffChain \subseteq Ids
  /\ {SCHEDULE_WINDOW, MAX_VALIDITY, MaxTime, MaxEpoch, MaxSeq, MaxApprovals} \subseteq Nat
  /\ Genesis \in Implementations
  /\ NoHash \notin Hash

VARIABLES
  s,      \* Storage
  latch,  \* GUARD_SLOT: a transaction is running calls
  frame,  \* that transaction
  now,    \* block.timestamp
  ran     \* history: the hashes whose calls have run

vars == <<s, latch, frame, now, ran>>

\* History: what a set of signers agreed to, when, and under which rules.
Grant == [at : Nat, rules : Rules, sigs : SUBSET Ids]

Paths == {"THRESHOLD", "RECOVERY"}

ScheduleEntry == [readyAt : Nat, epoch : Nat, path : Paths, excluded : SUBSET Ids, grant : Grant]

IsPartial(f, D, R) == DOMAIN f \subseteq D /\ f \in [DOMAIN f -> R]

IsStorage(st) ==
  /\ st = [rules |-> st.rules, nonces |-> st.nonces, approvals |-> st.approvals,
           scheduled |-> st.scheduled, vetoes |-> st.vetoes, vetoCount |-> st.vetoCount,
           dead |-> st.dead]
  /\ st.rules \in Rules
  /\ st.nonces \in [Keys -> Nat]
  /\ st.approvals \subseteq Hash \X Ids
  /\ IsPartial(st.scheduled, Hash, ScheduleEntry)
  /\ st.vetoes \subseteq Hash \X Ids
  /\ IsPartial(st.vetoCount, Hash, Nat)
  /\ st.dead \subseteq Hash

\* A running transaction: the calls left, whether _checkConfig follows, the
\* storage a revert restores, and the grant it runs under.
IsFrame(f) ==
  /\ f = [origin |-> f.origin, hash |-> f.hash, rest |-> f.rest, config |-> f.config,
          saved |-> f.saved, grant |-> f.grant]
  /\ f.origin \in {"initialize", "execute", "scheduled"}
  /\ IF f.origin = "initialize" THEN f.hash = NoHash ELSE f.hash \in Hash
  /\ f.rest \in IF f.origin = "initialize" THEN Seq(InitCall) ELSE Seq(Call)
  /\ f.config \in BOOLEAN
  /\ IsStorage(f.saved)
  /\ f.grant \in Grant

Put(f, k, v) == [x \in DOMAIN f \cup {k} |-> IF x = k THEN v ELSE f[x]]
Drop(f, k) == [x \in DOMAIN f \ {k} |-> f[x]]

VetoCount(st, h) == IF h \in DOMAIN st.vetoCount THEN st.vetoCount[h] ELSE 0

EmptyStorage == [
  rules |-> EmptyRules(Genesis), nonces |-> [k \in Keys |-> 0],
  approvals |-> {}, scheduled |-> << >>, vetoes |-> {}, vetoCount |-> << >>, dead |-> {} ]

\* The proxy before its constructor has called initialize.
Init ==
  /\ s = EmptyStorage
  /\ latch = FALSE /\ frame = NoFrame
  /\ now = 0
  /\ ran = {}

\* The storage as of the last completed transaction.
Settled == IF latch THEN frame.saved ELSE s

Created == s.rules.epoch # 0

-----------------------------------------------------------------------------
(* Running calls.                                                          *)

Enter(origin, hash, calls, config, started, grant) ==
  /\ latch' = TRUE
  /\ frame' = [origin |-> origin, hash |-> hash, rest |-> calls, config |-> config,
               saved |-> s, grant |-> grant]
  /\ s' = started

\* The factory's Create2 deployment runs initialize in the proxy's constructor.
Initialize(init) ==
  /\ ~ latch /\ s.rules.epoch = 0
  /\ LET rules == [s.rules EXCEPT
           !.epoch = 1, !.threshold = init.threshold,
           !.vetoThreshold = init.vetoThreshold, !.delays = init.delays]
     IN  Enter("initialize", NoHash, init.signers, TRUE, [s EXCEPT !.rules = rules],
               [at |-> now, rules |-> rules, sigs |-> {}])
  /\ UNCHANGED <<now, ran>>

Calling(op) ==
  /\ latch
  /\ frame.rest # << >>
  /\ Head(frame.rest).op = op
  /\ frame' = [frame EXCEPT !.rest = Tail(@)]
  /\ UNCHANGED <<latch, now, ran>>

SetRules(rules) == s' = [s EXCEPT !.rules = rules]

\* Every configuration function that changes the rules ends in _advanceEpoch.
ChangeRules(rules) ==
  /\ s.rules.epoch < MaxEpoch
  /\ SetRules(AdvanceEpoch(rules))

CallInitSigner ==
  /\ Calling("initSigner")
  /\ LET input == Head(frame.rest).input
     IN  /\ ~ Exists(s.rules, input.id)
         /\ SetRules(AddSigner(s.rules, input))

CallAddSigner ==
  /\ Calling("addSigner")
  /\ LET input == Head(frame.rest).input
     IN  /\ ~ Exists(s.rules, input.id)
         /\ ChangeRules(AddSigner(s.rules, input))

CallRemoveSigner ==
  /\ Calling("removeSigner")
  /\ LET id == Head(frame.rest).id
     IN  /\ Exists(s.rules, id)
         /\ ChangeRules(RemoveSigner(s.rules, id))

CallReplaceSigner ==
  /\ Calling("replaceSigner")
  /\ LET call == Head(frame.rest)
     IN  /\ Exists(s.rules, call.id)
         /\ LET removed == RemoveSigner(s.rules, call.id)
            IN  /\ ~ Exists(removed, call.input.id)
                /\ ChangeRules(AddSigner(removed, call.input))

CallSetThreshold ==
  /\ Calling("setThreshold")
  /\ ChangeRules([s.rules EXCEPT !.threshold = Head(frame.rest).value])

CallSetVetoThreshold ==
  /\ Calling("setVetoThreshold")
  /\ ChangeRules([s.rules EXCEPT !.vetoThreshold = Head(frame.rest).value])

CallSetDelays ==
  /\ Calling("setDelays")
  /\ ChangeRules([s.rules EXCEPT !.delays = Head(frame.rest).delays])

CallSetImplementation ==
  /\ Calling("setImplementation")
  /\ ~ s.rules.implementationFrozen
  /\ ChangeRules([s.rules EXCEPT !.implementation = Head(frame.rest).implementation])

CallFreezeImplementation ==
  /\ Calling("freezeImplementation")
  /\ ChangeRules([s.rules EXCEPT !.implementationFrozen = TRUE])

\* Mutant: cancel leaves the scheduled entry in place.
CancelKeepsEntry ==
  /\ Calling("cancel")
  /\ s' = [s EXCEPT !.dead = @ \cup {Head(frame.rest).hash}]

CallCancel ==
  /\ Calling("cancel")
  /\ LET h == Head(frame.rest).hash
     IN  s' = [s EXCEPT !.dead = @ \cup {h}, !.scheduled = Drop(@, h)]

\* Calls that leave this storage alone: to another contract, or to the
\* account's own spending limits.
CallElsewhere ==
  /\ \E op \in {"outside", "limitRule", "removeSpendingLimit"} : Calling(op)
  /\ UNCHANGED s

Finish ==
  /\ latch /\ frame.rest = << >>
  /\ frame.config => CheckConfig(s.rules)
  /\ latch' = FALSE /\ frame' = NoFrame
  /\ ran' = IF frame.origin = "initialize" THEN ran ELSE ran \cup {frame.hash}
  /\ UNCHANGED <<s, now>>

\* A call that reverts, a configuration that fails _checkConfig, or no gas left.
Abort ==
  /\ latch
  /\ latch' = FALSE /\ frame' = NoFrame
  /\ s' = frame.saved
  /\ UNCHANGED <<now, ran>>

-----------------------------------------------------------------------------
(* Authorization.                                                          *)

\* Entries of length zero are approvals recorded on chain.
Verifies(st, h, sigs) ==
  \A id \in sigs :
    /\ Exists(st.rules, id)
    /\ id \in OffChain \/ <<h, id>> \in st.approvals

Valid(window) ==
  /\ now >= window[1]
  /\ window[2] # 0 /\ now <= window[2]
  /\ window[2] <= now + MAX_VALIDITY

\* Mutant: the hash does not cover the nonce.
HashWithoutNonce(st, key, batch, window) == [
  key |-> key, seq |-> 0, epoch |-> st.rules.epoch, batch |-> batch,
  after |-> window[1], until |-> window[2] ]

TxHash(st, key, batch, window) == [
  key |-> key, seq |-> st.nonces[key], epoch |-> st.rules.epoch, batch |-> batch,
  after |-> window[1], until |-> window[2] ]

\* The signers a change removes, who may not veto it on the threshold path.
Excluded(path, calls) == IF path = "THRESHOLD" THEN Target(calls) ELSE {}

Land(st, h, calls, path, delay, config, grant) ==
  IF delay = 0
  THEN /\ Enter("execute", h, calls, config, st, grant)
       /\ UNCHANGED <<now, ran>>
  ELSE /\ h \notin DOMAIN st.scheduled
       /\ s' = [st EXCEPT !.scheduled = Put(@, h,
                 [readyAt |-> now + delay, epoch |-> st.rules.epoch, path |-> path,
                  excluded |-> Excluded(path, calls), grant |-> grant])]
       /\ UNCHANGED <<latch, frame, now, ran>>

Execute(key, batch, window, sigs) ==
  LET h     == TxHash(s, key, batch, window)
      st    == [s EXCEPT !.nonces[key] = @ + 1]
      calls == CallsOf[batch]
  IN  /\ ~ latch /\ Created
      /\ s.nonces[key] < MaxSeq
      /\ Valid(window)
      /\ h \notin s.dead
      /\ Verifies(s, h, sigs)
      /\ Servable(calls)
      /\ OpensThreshold(s.rules, sigs) \/ OpensRecovery(s.rules, calls, sigs)
      /\ Land(st, h, calls, Path(s.rules, sigs), Delay(s.rules, calls, sigs), IsConfig(calls),
              [at |-> now, rules |-> s.rules, sigs |-> sigs])

ExecuteScheduled(h) ==
  /\ ~ latch
  /\ h \in DOMAIN s.scheduled
  /\ LET entry == s.scheduled[h]
     IN  /\ now >= entry.readyAt
         /\ now <= entry.readyAt + SCHEDULE_WINDOW
         /\ entry.epoch = s.rules.epoch
         /\ Enter("scheduled", h, CallsOf[h.batch], TRUE,
                  [s EXCEPT !.scheduled = Drop(@, h)], entry.grant)
  /\ UNCHANGED <<now, ran>>

\* No latch is taken here: these run between transactions, or from a callee.
Reachable == latch => frame.rest # << >> /\ Head(frame.rest).op = "outside"

RecordApproval(id, h) ==
  /\ Cardinality(s.approvals) < MaxApprovals
  /\ s' = [s EXCEPT !.approvals = @ \cup {<<h, id>>}]
  /\ UNCHANGED <<latch, frame, now, ran>>

Approve(id, h) ==
  /\ Reachable
  /\ Exists(s.rules, id)
  /\ RecordApproval(id, h)

\* Mutant: the signer a change removes may veto it.
MayVetoOwnRemoval(id, h) ==
  "VETO" \in s.rules.signers[id].permissions /\ <<h, id>> \notin s.vetoes

MayVeto(id, h) ==
  /\ "VETO" \in s.rules.signers[id].permissions
  /\ ~ (s.scheduled[h].path = "THRESHOLD" /\ id \in s.scheduled[h].excluded)
  /\ <<h, id>> \notin s.vetoes

\* Mutant: one veto more than the threshold.
StopsAbove(count) == count > EffectiveVetoThreshold(s.rules)

Stops(count) == count >= EffectiveVetoThreshold(s.rules)

Veto(id, h) ==
  /\ Reachable
  /\ h \in DOMAIN s.scheduled
  /\ MayVeto(id, h)
  /\ LET count == VetoCount(s, h) + 1
         voted == [s EXCEPT !.vetoes = @ \cup {<<h, id>>}, !.vetoCount = Put(@, h, count)]
     IN  s' = IF Stops(count)
              THEN [voted EXCEPT !.dead = @ \cup {h}, !.scheduled = Drop(@, h)]
              ELSE voted
  /\ UNCHANGED <<latch, frame, now, ran>>

Tick ==
  /\ ~ latch /\ Created
  /\ now < MaxTime
  /\ now' = now + 1
  /\ UNCHANGED <<s, latch, frame, ran>>

-----------------------------------------------------------------------------
CallStep ==
  \/ CallInitSigner \/ CallAddSigner \/ CallRemoveSigner \/ CallReplaceSigner
  \/ CallSetThreshold \/ CallSetVetoThreshold \/ CallSetDelays
  \/ CallSetImplementation \/ CallFreezeImplementation
  \/ CallCancel \/ CallElsewhere

\* What anyone's transaction may do; lanes are the nonce keys transactions use.
Step(lanes) ==
  \/ \E init \in Inits : Initialize(init)
  \/ CallStep
  \/ Finish \/ Abort
  \/ \E key \in lanes, batch \in Batches, window \in Validities, sigs \in SUBSET Ids :
       Execute(key, batch, window, sigs)
  \/ \E h \in DOMAIN s.scheduled : ExecuteScheduled(h)
  \/ \E id \in Ids \ OffChain, key \in lanes, batch \in Batches, window \in Validities :
       Approve(id, TxHash(s, key, batch, window))
  \/ \E id \in Ids, h \in DOMAIN s.scheduled : Veto(id, h)

Next == Step(Keys) \/ Tick

Spec == Init /\ [][Next]_vars

-----------------------------------------------------------------------------
(* Properties.                                                             *)

\* Storage, frame and clock stay within the contract's types.
TypeOK ==
  /\ IsStorage(s)
  /\ latch \in BOOLEAN
  /\ latch => IsFrame(frame)
  /\ ~ latch => frame = NoFrame
  /\ now \in Nat
  /\ ran \subseteq Hash

\* Adding and swap-and-pop removal keep counters, list and indexes in step, in
\* the middle of a batch as well (_addSigner, _removeSigner, _count).
RegistryConsistent == Counted(s.rules) /\ Indexed(s.rules)

\* Between transactions the signers there really are can meet the threshold,
\* an explicit veto threshold has that many vetoers, and a guardian comes with
\* a delay (_checkConfig after every configuration execution).
AlwaysUsable ==
  ~ latch /\ Created =>
    LET r == s.rules
    IN  /\ r.threshold \in 1 .. Cardinality(Holders(r, "APPROVE"))
        /\ r.vetoThreshold <= Cardinality(Holders(r, "VETO"))
        /\ Holders(r, "RECOVER") # {} => r.delays.recovery >= MIN_RECOVERY_DELAY

\* A dead hash has no scheduled entry (veto and cancel delete it).
DeadNotPending == s.dead \cap DOMAIN s.scheduled = {}

\* A hash that has died stays dead, and no transaction starts running it
\* (execute's check, and the entry veto and cancel delete).
DeadIsFinal ==
  [][ /\ Settled.dead \subseteq Settled'.dead
      /\ ~ latch /\ latch' => frame'.hash \notin s.dead ]_vars

\* The calls of a hash run at most once: not from a second submission, not
\* from the schedule after it ran, not from a callee that comes back.
RunsOnce == [][ ~ latch /\ latch' => frame'.hash \notin ran ]_vars

\* A change that is still executable was agreed under the rules in force:
\* every change of the rules moves the epoch, and an entry is bound to its own.
EpochPinsRules ==
  \A h \in DOMAIN s.scheduled :
    s.scheduled[h].epoch = s.rules.epoch => s.scheduled[h].grant.rules = s.rules

\* How long a grant must wait, from who signed it.
Owed(grant) ==
  LET r == grant.rules
      plain == {id \in grant.sigs : r.signers[id].permissions \cap {"APPROVE", "RECOVER"} = {"APPROVE"}}
  IN  IF Cardinality({id \in grant.sigs : "APPROVE" \in r.signers[id].permissions}) >= r.threshold
      THEN r.delays.config
      ELSE IF plain = {} THEN r.delays.recovery ELSE r.delays.recoveryCoSign

\* The rules change only when a transaction completes whose signers agreed to
\* it under the very rules it changes, and after the wait those rules ask of
\* that set of signers.
RulesChangeAsAgreed ==
  [][ Settled.rules # Settled'.rules =>
        /\ latch /\ ~ latch'
        /\ \/ frame.origin = "initialize"
           \/ /\ frame.grant.rules = Settled.rules
              /\ now >= frame.grant.at + Owed(frame.grant) ]_vars

\* What a guardian may do below the threshold: one key is swapped for another
\* with the same permissions and nothing else about the rules moves; without an
\* approver's signature the swap waited MIN_RECOVERY_DELAY at least.
RecoveryNeverEscalates ==
  [][ LET grant == frame.grant
          before == Settled.rules
          after == Settled'.rules
      IN  /\ latch /\ ~ latch' /\ before # after /\ frame.origin # "initialize"
          /\ ~ OpensThreshold(before, grant.sigs)
          => /\ after = [before EXCEPT !.signers = after.signers,
                                       !.signerList = after.signerList,
                                       !.epoch = before.epoch + 1]
             /\ \A p \in (SUBSET Permissions) \ {{}} :
                  Cardinality({id \in Ids : before.signers[id].permissions = p})
                    = Cardinality({id \in Ids : after.signers[id].permissions = p})
             /\ Cardinality({id \in Ids : Exists(after, id) /\ ~ Exists(before, id)}) <= 1
             /\ PlainApprovers(before, grant.sigs) = {} => now >= grant.at + MIN_RECOVERY_DELAY ]_vars

Voters(st, h) == {id \in Ids : <<h, id>> \in st.vetoes}

\* An executable change has fewer vetoes than stop it: the veto that reaches
\* the threshold also takes the entry.
VetoStops ==
  \A h \in DOMAIN s.scheduled :
    s.scheduled[h].epoch = s.rules.epoch =>
      Cardinality(Voters(s, h)) < EffectiveVetoThreshold(s.rules)

\* Without the account's own call a change is stopped only by enough different
\* signers, the one it removes by threshold not among them.
VetoNeedsQuorum ==
  [][ \A h \in DOMAIN s.scheduled :
        UNCHANGED <<latch, frame>> /\ h \notin DOMAIN s'.scheduled =>
          /\ h \in s'.dead
          /\ Cardinality(Voters(s', h) \ s.scheduled[h].excluded)
               >= EffectiveVetoThreshold(s.rules) ]_vars
=============================================================================
