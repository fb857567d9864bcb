---------------------------- MODULE OlienUserOps ----------------------------
(***************************************************************************)
(* The account under the EntryPoint: validateUserOp and executeUserOp over *)
(* a bundle.                                                               *)
(*                                                                         *)
(* The EntryPoint validates every operation of a bundle before it executes *)
(* the first, and pops each one whether its execution succeeds or reverts. *)
(* The bundle may hold operations of other accounts, and theirs may submit *)
(* transactions to this account; so everything the account can do may      *)
(* happen between the validation and the execution of an operation.  Only  *)
(* the clock stands still.  A bundle that reverts as a whole leaves no     *)
(* trace and is not a behaviour of its own.                                *)
(***************************************************************************)
EXTENDS OlienAccount

CONSTANTS
  OpKeys,     \* nonce keys of user operations; their hashes have a type of their own
  MaxBundle   \* bound: this account's operations in one bundle

ASSUME UserOpsAssumption == OpKeys \subseteq Keys /\ MaxBundle \in Nat

VARIABLES
  bundle,     \* transient slots: what was decided for each validated operation, in order
  executing,  \* the EntryPoint has finished validating
  opNonces    \* the EntryPoint's nonces of this account

opVars == <<bundle, executing, opNonces>>

\* What validation decided.  The signer is who a single call runs for.
Decision == [
  hash : Hash, epoch : Nat, path : Paths \cup {"SINGLE"}, delay : Nat,
  signer : Ids, grant : Grant ]

InitUserOps ==
  /\ Init
  /\ bundle = << >> /\ executing = FALSE
  /\ opNonces = [key \in OpKeys |-> 0]

OpHash(key, batch, window) == [
  key |-> key, seq |-> opNonces[key], epoch |-> s.rules.epoch, batch |-> batch,
  after |-> window[1], until |-> window[2] ]

\* "carried" is execute, executeScheduled or createSubAccount: it brings its own authority.
IsSingle(calls) == Len(calls) = 1 /\ calls[1].op \in {"approve", "veto", "carried"}

SingleAllowed(call, sigs, signer) ==
  /\ call.op # "carried" => sigs = {signer}
  /\ call.op = "veto" => "VETO" \in s.rules.signers[signer].permissions

BatchAllowed(calls, sigs) ==
  Servable(calls) /\ (OpensThreshold(s.rules, sigs) \/ OpensRecovery(s.rules, calls, sigs))

ValidateUserOp(key, batch, window, sigs) ==
  LET h     == OpHash(key, batch, window)
      calls == CallsOf[batch]
      grant == [at |-> now, rules |-> s.rules, sigs |-> sigs]
      Decide(path, delay, signer) ==
        bundle' = Append(bundle, [hash |-> h, epoch |-> s.rules.epoch, path |-> path,
                                  delay |-> delay, signer |-> signer, grant |-> grant])
  IN  /\ ~ latch /\ Created /\ ~ executing
      /\ Len(bundle) < MaxBundle /\ opNonces[key] < MaxSeq
      /\ now >= window[1] /\ window[2] # 0 /\ now <= window[2]
      /\ h \notin s.dead
      /\ sigs # {} /\ Verifies(s, h, sigs)
      /\ \E signer \in sigs :
           IF IsSingle(calls)
           THEN SingleAllowed(calls[1], sigs, signer) /\ Decide("SINGLE", 0, signer)
           ELSE /\ BatchAllowed(calls, sigs)
                /\ Decide(Path(s.rules, sigs), Delay(s.rules, calls, sigs), signer)
      /\ opNonces' = [opNonces EXCEPT ![key] = @ + 1]
      /\ UNCHANGED <<vars, executing>>

StartExecution ==
  /\ ~ latch /\ ~ executing /\ bundle # << >>
  /\ executing' = TRUE
  /\ UNCHANGED <<vars, bundle, opNonces>>

-----------------------------------------------------------------------------
Pop ==
  /\ ~ latch /\ executing
  /\ bundle' = Tail(bundle)
  /\ executing' = (Tail(bundle) # << >>)
  /\ UNCHANGED opNonces

\* Mutant: only the batch half compares the epoch.
CurrentIfBatch(d) ==
  (d.path # "SINGLE" => d.epoch = s.rules.epoch) /\ d.hash \notin s.dead

\* Mutant: only the single half compares the epoch.
CurrentIfSingle(d) ==
  (d.path = "SINGLE" => d.epoch = s.rules.epoch) /\ d.hash \notin s.dead

\* Mutant: what was alive when it was validated is taken to be alive.
CurrentEpochOnly(d) == d.epoch = s.rules.epoch

Current(d) == d.epoch = s.rules.epoch /\ d.hash \notin s.dead

\* The inner call of a carried operation; createSubAccount leaves this storage alone.
Carried ==
  \/ \E key \in Keys \ OpKeys, batch \in Batches, window \in Validities, sigs \in SUBSET Ids :
       Execute(key, batch, window, sigs)
  \/ \E h \in DOMAIN s.scheduled : ExecuteScheduled(h)
  \/ UNCHANGED vars

RunAs(signer, call) ==
  CASE call.op = "approve" -> RecordApproval(signer, call.hash)
    [] call.op = "veto"    -> call.hash \in DOMAIN s.scheduled /\ Veto(signer, call.hash)
    [] call.op = "carried" -> Carried

ExecuteUserOp ==
  /\ Pop
  /\ LET d     == Head(bundle)
         calls == CallsOf[d.hash.batch]
     IN  /\ Current(d)
         /\ IF d.path = "SINGLE"
            THEN RunAs(d.signer, calls[1])
            ELSE Land(s, d.hash, calls, d.path, d.delay, IsConfig(calls), d.grant)

\* executeUserOp reverts; the EntryPoint charges for it and goes on.
FailUserOp == Pop /\ UNCHANGED vars

NextUserOps ==
  \/ Step(Keys \ OpKeys) /\ UNCHANGED opVars
  \/ \E id \in Ids \ OffChain, key \in OpKeys, batch \in Batches, window \in Validities :
       Approve(id, OpHash(key, batch, window)) /\ UNCHANGED opVars
  \/ bundle = << >> /\ Tick /\ UNCHANGED opVars
  \/ \E key \in OpKeys, batch \in Batches, window \in Validities, sigs \in SUBSET Ids :
       ValidateUserOp(key, batch, window, sigs)
  \/ StartExecution \/ ExecuteUserOp \/ FailUserOp

SpecUserOps == InitUserOps /\ [][NextUserOps]_<<vars, opVars>>

-----------------------------------------------------------------------------
\* Records of validated operations stay within the contract's types, and
\* execution has something to execute.
UserOpsTypeOK ==
  /\ TypeOK
  /\ bundle \in Seq(Decision)
  /\ executing \in BOOLEAN /\ (executing => bundle # << >>)
  /\ opNonces \in [OpKeys -> Nat]

\* A veto or an approval is recorded only for a signer the account has at that
\* moment, a veto only for one who may veto, whatever an earlier operation of
\* the bundle has done to the signer named at validation (executeUserOp, _caller).
SignersActForThemselves ==
  [][ /\ \A vote \in s'.vetoes \ s.vetoes : "VETO" \in s.rules.signers[vote[2]].permissions
      /\ \A approval \in s'.approvals \ s.approvals : Exists(s.rules, approval[2]) ]_vars

\* The contract caps the validity of what is pending, user operations included
\* (docs/07-security-model.md, the validUntil row of the time-locks table).
ValidityCapped == \A i \in DOMAIN bundle : bundle[i].hash.until <= now + MAX_VALIDITY
=============================================================================
