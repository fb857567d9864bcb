------------------------- MODULE OlienAccountProofs -------------------------
(***************************************************************************)
(* Proofs about OlienAccount, for every set of signers, batches and        *)
(* bounds.                                                                 *)
(*                                                                         *)
(* IInv is the inductive invariant.  Storage is Sound on its own; while a  *)
(* transaction runs, the storage a revert would restore is Sound too, and  *)
(* Running says what the frame owes to the grant it runs under.  All of it *)
(* is about the nonce keys this account counts itself, lanes: the other    *)
(* hashes are the EntryPoint's to keep apart.                              *)
(***************************************************************************)
EXTENDS OlienUserOps, OlienRulesProofs

\* A pending entry is no newer than the rules, and bound to its epoch's rules.
Pinned(st) ==
  \A h \in DOMAIN st.scheduled :
    /\ st.scheduled[h].epoch <= st.rules.epoch
    /\ st.scheduled[h].epoch = st.rules.epoch => st.scheduled[h].grant.rules = st.rules

\* A hash that ran, or waits, has spent its nonce; none does both.
Spent(st, done, lanes) ==
  /\ \A h \in done \cup DOMAIN st.scheduled : h.key \in lanes => h.seq < st.nonces[h.key]
  /\ \A h \in done \cap DOMAIN st.scheduled : h.key \notin lanes

\* An entry cannot run before the wait its signers owe is over.
HeldBack(st) ==
  \A h \in DOMAIN st.scheduled :
    st.scheduled[h].readyAt >= st.scheduled[h].grant.at + Owed(st.scheduled[h].grant)

Sound(st, done, lanes) ==
  /\ Counted(st.rules) /\ Indexed(st.rules)
  /\ st.dead \cap DOMAIN st.scheduled = {}
  /\ st.rules.epoch = 0 => DOMAIN st.scheduled = {}
  /\ Pinned(st)
  /\ Spent(st, done, lanes)
  /\ HeldBack(st)

\* What _checkConfig left behind, once there is an account.
Usable(st) == st.rules.epoch # 0 => CheckConfig(st.rules)

\* A transaction in the middle of its calls.
Running(f, st, done, t, lanes) ==
  /\ Sound(f.saved, done, lanes) /\ Usable(f.saved)
  /\ f.saved.dead \subseteq st.dead
  /\ f.origin = "initialize" => f.config /\ DOMAIN st.scheduled = {}
  /\ f.origin # "initialize" =>
       /\ f.hash.key \in lanes =>
            f.hash \notin done \cup DOMAIN st.scheduled /\ f.hash.seq < st.nonces[f.hash.key]
       /\ f.grant.rules = f.saved.rules
       /\ f.config => t >= f.grant.at + Owed(f.grant)
  /\ ~ f.config => /\ st.rules = f.saved.rules
                   /\ \A i \in DOMAIN f.rest : f.rest[i].op \notin ConfigOps

IInv(lanes) ==
  /\ TypeOK
  /\ Sound(s, ran, lanes)
  /\ ~ latch => Usable(s)
  /\ latch => Running(frame, s, ran, now, lanes)

-----------------------------------------------------------------------------
(* Storage.                                                                *)

\* What an assignment to the rules leaves alone.
LEMMA SetRulesFields ==
  ASSUME NEW st, IsStorage(st), NEW r \in Rules, NEW st2, st2 = [st EXCEPT !.rules = r]
  PROVE  /\ IsStorage(st2)
         /\ st2.rules = r
         /\ st2.nonces = st.nonces /\ st2.approvals = st.approvals
         /\ st2.scheduled = st.scheduled /\ st2.vetoes = st.vetoes
         /\ st2.vetoCount = st.vetoCount /\ st2.dead = st.dead
  BY DEF IsStorage

LEMMA AdvanceEpochRules ==
  ASSUME NEW r \in Rules, Counted(r), Indexed(r)
  PROVE  /\ AdvanceEpoch(r) \in Rules
         /\ AdvanceEpoch(r).epoch = r.epoch + 1
         /\ Counted(AdvanceEpoch(r)) /\ Indexed(AdvanceEpoch(r))
  <1>1. /\ AdvanceEpoch(r) \in Rules
        /\ AdvanceEpoch(r).epoch = r.epoch + 1
        /\ AdvanceEpoch(r).signers = r.signers
        /\ AdvanceEpoch(r).signerList = r.signerList
        /\ AdvanceEpoch(r).counts = r.counts
    BY DEF AdvanceEpoch, Rules
  <1>2. Counted(AdvanceEpoch(r))
    BY <1>1 DEF Counted
  <1>3. Indexed(AdvanceEpoch(r))
    BY <1>1 DEF Indexed, Exists
  <1> QED
    BY <1>1, <1>2, <1>3

\* A configuration function leaves the storage sound: the epoch it moves
\* releases every entry from the rules it was scheduled under.
LEMMA ChangeRulesSound ==
  ASSUME NEW lanes, NEW st, IsStorage(st), NEW done, Sound(st, done, lanes),
         NEW r \in Rules, Counted(r), Indexed(r), r.epoch = st.rules.epoch,
         NEW st2, st2 = [st EXCEPT !.rules = AdvanceEpoch(r)]
  PROVE  /\ IsStorage(st2) /\ Sound(st2, done, lanes)
         /\ st2.scheduled = st.scheduled /\ st2.nonces = st.nonces /\ st2.dead = st.dead
  <1>1. /\ IsStorage(st2)
        /\ st2.rules = AdvanceEpoch(r)
        /\ st2.nonces = st.nonces /\ st2.scheduled = st.scheduled /\ st2.dead = st.dead
    BY SetRulesFields, AdvanceEpochRules
  <1>2. st2.rules.epoch = st.rules.epoch + 1 /\ st.rules.epoch \in Nat
    BY <1>1, AdvanceEpochRules DEF IsStorage, Rules
  <1>3. \A h \in DOMAIN st.scheduled : st.scheduled[h].epoch \in Nat
    BY DEF IsStorage, IsPartial, ScheduleEntry
  <1>4. Pinned(st2)
    BY <1>1, <1>2, <1>3 DEF Sound, Pinned
  <1> QED
    BY <1>1, <1>2, <1>4, AdvanceEpochRules DEF Sound, Spent, HeldBack

-----------------------------------------------------------------------------
(* Frames and their calls.                                                 *)

LEMMA CallTypes ==
  ASSUME NEW c \in Call
  PROVE  /\ c.op # "initSigner"
         /\ c.op = "addSigner" => c.input \in SignerInput
         /\ c.op = "removeSigner" => c.id \in Ids
         /\ c.op = "replaceSigner" => c.id \in Ids /\ c.input \in SignerInput
         /\ c.op \in {"setThreshold", "setVetoThreshold"} => c.value \in Nat
         /\ c.op = "setDelays" => c.delays \in Delays
         /\ c.op = "setImplementation" => c.implementation \in Implementations
         /\ c.op = "cancel" => c.hash \in Hash
  BY DEF Call

LEMMA InitCallTypes ==
  ASSUME NEW c \in InitCall
  PROVE  c.op = "initSigner" /\ c.input \in SignerInput
  BY DEF InitCall

LEMMA HeadAndTail ==
  ASSUME NEW S, NEW q \in Seq(S), q # << >>
  PROVE  /\ Tail(q) \in Seq(S) /\ Head(q) \in S
         /\ 1 \in DOMAIN q /\ Head(q) = q[1]
         /\ \A i \in DOMAIN Tail(q) : i + 1 \in DOMAIN q /\ Tail(q)[i] = q[i + 1]
  <1>1. Len(q) \in Nat /\ DOMAIN q = 1 .. Len(q) /\ Len(q) # 0
    BY EmptySeq, LenProperties
  <1>2. /\ Tail(q) \in Seq(S) /\ Head(q) \in S /\ Len(Tail(q)) = Len(q) - 1
        /\ \A i \in 1 .. Len(Tail(q)) : Tail(q)[i] = q[i + 1]
    BY HeadTailProperties
  <1>3. DOMAIN Tail(q) = 1 .. Len(Tail(q))
    BY <1>2, LenProperties
  <1> QED
    BY <1>1, <1>2, <1>3

\* What taking the next call does to the frame.
LEMMA CallingFrame ==
  ASSUME latch, IsFrame(frame), NEW op, Calling(op)
  PROVE  /\ latch' /\ IsFrame(frame')
         /\ frame'.origin = frame.origin /\ frame'.hash = frame.hash
         /\ frame'.config = frame.config
         /\ frame'.saved = frame.saved /\ frame'.grant = frame.grant
         /\ \A i \in DOMAIN frame'.rest : i + 1 \in DOMAIN frame.rest
                                        /\ frame'.rest[i] = frame.rest[i + 1]
         /\ Head(frame.rest).op = op
         /\ 1 \in DOMAIN frame.rest /\ Head(frame.rest) = frame.rest[1]
         /\ IF frame.origin = "initialize" THEN Head(frame.rest) \in InitCall
            ELSE Head(frame.rest) \in Call
         /\ now' = now /\ ran' = ran
  <1>1. PICK S : /\ frame.rest \in Seq(S)
                 /\ S = IF frame.origin = "initialize" THEN InitCall ELSE Call
    BY DEF IsFrame
  <1>2. frame.rest # << >> /\ Head(frame.rest).op = op /\ now' = now /\ ran' = ran /\ latch'
    BY DEF Calling
  <1>3. /\ Tail(frame.rest) \in Seq(S) /\ Head(frame.rest) \in S
        /\ 1 \in DOMAIN frame.rest /\ Head(frame.rest) = frame.rest[1]
        /\ \A i \in DOMAIN Tail(frame.rest) : i + 1 \in DOMAIN frame.rest
                                         /\ Tail(frame.rest)[i] = frame.rest[i + 1]
    BY <1>1, <1>2, HeadAndTail
  <1>4. /\ frame'.origin = frame.origin /\ frame'.hash = frame.hash
        /\ frame'.config = frame.config /\ frame'.rest = Tail(frame.rest)
        /\ frame'.saved = frame.saved /\ frame'.grant = frame.grant
        /\ frame' = [origin |-> frame'.origin, hash |-> frame'.hash, rest |-> frame'.rest,
                     config |-> frame'.config, saved |-> frame'.saved, grant |-> frame'.grant]
    BY DEF Calling, IsFrame
  <1>5. IsFrame(frame')
    BY <1>1, <1>3, <1>4 DEF IsFrame
  <1> QED
    BY <1>1, <1>2, <1>3, <1>4, <1>5

LEMMA CallKeepsInv ==
  ASSUME NEW lanes \in SUBSET Keys, IInv(lanes), latch, NEW op, Calling(op),
         IsStorage(s'), Sound(s', ran, lanes),
         s'.nonces = s.nonces, DOMAIN s'.scheduled \subseteq DOMAIN s.scheduled,
         s.dead \subseteq s'.dead,
         frame.config \/ s'.rules = s.rules
  PROVE  IInv(lanes)'
  <1>1. IsFrame(frame) /\ Running(frame, s, ran, now, lanes)
    BY DEF IInv, TypeOK
  <1>2. /\ latch' /\ IsFrame(frame') /\ now' = now /\ ran' = ran
        /\ frame'.origin = frame.origin /\ frame'.hash = frame.hash
        /\ frame'.config = frame.config
        /\ frame'.saved = frame.saved /\ frame'.grant = frame.grant
        /\ \A i \in DOMAIN frame'.rest : i + 1 \in DOMAIN frame.rest
                                       /\ frame'.rest[i] = frame.rest[i + 1]
    BY <1>1, CallingFrame
  <1>3. Running(frame', s', ran', now', lanes)
    BY <1>1, <1>2 DEF Running
  <1>4. TypeOK'
    BY <1>2 DEF IInv, TypeOK, Calling
  <1> QED
    BY <1>2, <1>3, <1>4 DEF IInv

LEMMA ConfigCall ==
  ASSUME NEW lanes \in SUBSET Keys, IInv(lanes), latch, NEW op \in ConfigOps, Calling(op),
         NEW r \in Rules, Counted(r), Indexed(r), r.epoch = s.rules.epoch, ChangeRules(r)
  PROVE  IInv(lanes)'
  <1>1. IsStorage(s) /\ Sound(s, ran, lanes) /\ IsFrame(frame) /\ Running(frame, s, ran, now, lanes)
    BY DEF IInv, TypeOK
  <1>2. s' = [s EXCEPT !.rules = AdvanceEpoch(r)]
    BY DEF ChangeRules, SetRules
  <1>3. /\ IsStorage(s') /\ Sound(s', ran, lanes)
        /\ s'.scheduled = s.scheduled /\ s'.nonces = s.nonces /\ s'.dead = s.dead
    BY <1>1, <1>2, ChangeRulesSound
  <1>4. frame.config
    BY <1>1, CallingFrame DEF Running, IsFrame
  <1> QED
    BY <1>3, <1>4, CallKeepsInv

\* The rules a call starts from, and the call itself, when it is not initialize's.
LEMMA NextCall ==
  ASSUME NEW lanes \in SUBSET Keys, IInv(lanes), NEW op, Calling(op), op # "initSigner"
  PROVE  /\ latch
         /\ s.rules \in Rules /\ Counted(s.rules) /\ Indexed(s.rules)
         /\ Head(frame.rest) \in Call /\ Head(frame.rest).op = op
  <1>1. latch /\ IsFrame(frame) /\ s.rules \in Rules
    BY DEF IInv, TypeOK, Calling, IsStorage
  <1>2. /\ Head(frame.rest).op = op
        /\ IF frame.origin = "initialize" THEN Head(frame.rest) \in InitCall
           ELSE Head(frame.rest) \in Call
    BY <1>1, CallingFrame
  <1> QED
    BY <1>1, <1>2, InitCallTypes DEF IInv, Sound

\* Writing a field other than the registry keeps the registry's invariants.
LEMMA SameRegistry ==
  ASSUME NEW r \in Rules, Counted(r), Indexed(r), NEW q \in Rules,
         q.signers = r.signers, q.signerList = r.signerList, q.counts = r.counts
  PROVE  Counted(q) /\ Indexed(q)
  BY DEF Counted, Indexed, Exists

LEMMA InitSignerStep ==
  ASSUME NEW lanes \in SUBSET Keys, IInv(lanes), CallInitSigner
  PROVE  IInv(lanes)'
  <1> DEFINE input == Head(frame.rest).input
             r == AddSigner(s.rules, input)
  <1>1. /\ latch /\ Calling("initSigner") /\ IsStorage(s) /\ Sound(s, ran, lanes)
        /\ IsFrame(frame) /\ Running(frame, s, ran, now, lanes)
        /\ s.rules \in Rules
    BY DEF IInv, TypeOK, CallInitSigner, Calling, IsStorage
  <1>2. frame.origin = "initialize" /\ input \in SignerInput
    BY <1>1, CallingFrame, CallTypes, InitCallTypes
  <1>3. DOMAIN s.scheduled = {} /\ frame.config
    BY <1>1, <1>2 DEF Running
  <1>4. r \in Rules /\ Counted(r) /\ Indexed(r)
    BY <1>1, <1>2, AddSignerType, AddSignerCounted, AddSignerIndexed DEF CallInitSigner, Sound
  <1>5. s' = [s EXCEPT !.rules = r]
    BY DEF CallInitSigner, SetRules
  <1> HIDE DEF r
  <1>6. /\ IsStorage(s') /\ s'.rules = r
        /\ s'.nonces = s.nonces /\ s'.scheduled = s.scheduled /\ s'.dead = s.dead
    BY <1>1, <1>4, <1>5, SetRulesFields
  <1>7. Sound(s', ran, lanes)
    BY <1>1, <1>3, <1>4, <1>6 DEF Sound, Pinned, Spent, HeldBack
  <1> QED
    BY <1>1, <1>3, <1>6, <1>7, CallKeepsInv

LEMMA AddSignerStep ==
  ASSUME NEW lanes \in SUBSET Keys, IInv(lanes), CallAddSigner
  PROVE  IInv(lanes)'
  <1> DEFINE input == Head(frame.rest).input
             r == AddSigner(s.rules, input)
  <1>1. /\ Calling("addSigner") /\ ~ Exists(s.rules, input.id) /\ ChangeRules(r)
    BY DEF CallAddSigner
  <1>2. /\ latch /\ s.rules \in Rules /\ Counted(s.rules) /\ Indexed(s.rules)
        /\ input \in SignerInput
    BY <1>1, NextCall, CallTypes
  <1>3. r \in Rules /\ Counted(r) /\ Indexed(r)
    BY <1>1, <1>2, AddSignerType, AddSignerCounted, AddSignerIndexed
  <1>4. r.epoch = s.rules.epoch
    BY <1>2 DEF AddSigner, Count, Rules
  <1> HIDE DEF r
  <1> QED
    BY <1>1, <1>2, <1>3, <1>4, ConfigCall DEF ConfigOps

LEMMA RemoveSignerStep ==
  ASSUME NEW lanes \in SUBSET Keys, IInv(lanes), CallRemoveSigner
  PROVE  IInv(lanes)'
  <1> DEFINE id == Head(frame.rest).id
             r == RemoveSigner(s.rules, id)
  <1>1. /\ Calling("removeSigner") /\ Exists(s.rules, id) /\ ChangeRules(r)
    BY DEF CallRemoveSigner
  <1>2. /\ latch /\ s.rules \in Rules /\ Counted(s.rules) /\ Indexed(s.rules)
        /\ id \in Ids
    BY <1>1, NextCall, CallTypes
  <1>3. r \in Rules /\ Counted(r) /\ Indexed(r)
    BY <1>1, <1>2, RemoveSignerType, RemoveSignerCounted, RemoveSignerIndexed
  <1>4. r.epoch = s.rules.epoch
    BY <1>2 DEF RemoveSigner, Count, Rules
  <1> HIDE DEF r
  <1> QED
    BY <1>1, <1>2, <1>3, <1>4, ConfigCall DEF ConfigOps

LEMMA ReplaceSignerStep ==
  ASSUME NEW lanes \in SUBSET Keys, IInv(lanes), CallReplaceSigner
  PROVE  IInv(lanes)'
  <1> DEFINE call == Head(frame.rest)
             removed == RemoveSigner(s.rules, call.id)
             r == AddSigner(removed, call.input)
  <1>1. /\ Calling("replaceSigner") /\ Exists(s.rules, call.id)
        /\ ~ Exists(removed, call.input.id) /\ ChangeRules(r)
    BY DEF CallReplaceSigner
  <1>2. /\ latch /\ s.rules \in Rules /\ Counted(s.rules) /\ Indexed(s.rules)
        /\ call.id \in Ids /\ call.input \in SignerInput
    BY <1>1, NextCall, CallTypes
  <1>3. removed \in Rules /\ Counted(removed) /\ Indexed(removed)
    BY <1>1, <1>2, RemoveSignerType, RemoveSignerCounted, RemoveSignerIndexed
  <1>4. removed.epoch = s.rules.epoch
    BY <1>2 DEF RemoveSigner, Count, Rules
  <1> HIDE DEF removed, call
  <1>5. r \in Rules /\ Counted(r) /\ Indexed(r)
    BY <1>1, <1>2, <1>3, AddSignerType, AddSignerCounted, AddSignerIndexed
  <1>6. r.epoch = s.rules.epoch
    BY <1>3, <1>4 DEF AddSigner, Count, Rules
  <1> HIDE DEF r
  <1> QED
    BY <1>1, <1>2, <1>5, <1>6, ConfigCall DEF ConfigOps

\* The calls that write one field of the rules.
LEMMA FieldSteps ==
  ASSUME NEW lanes \in SUBSET Keys, IInv(lanes),
         \/ CallSetThreshold \/ CallSetVetoThreshold \/ CallSetDelays
         \/ CallSetImplementation \/ CallFreezeImplementation
  PROVE  IInv(lanes)'
  <1> DEFINE call == Head(frame.rest)
  <1>1. ASSUME NEW op \in ConfigOps, Calling(op), NEW q \in Rules, ChangeRules(q),
               q.signers = s.rules.signers, q.signerList = s.rules.signerList,
               q.counts = s.rules.counts, q.epoch = s.rules.epoch
        PROVE  IInv(lanes)'
    <2>1. latch /\ s.rules \in Rules /\ Counted(s.rules) /\ Indexed(s.rules)
      BY <1>1, NextCall DEF ConfigOps
    <2>2. Counted(q) /\ Indexed(q)
      BY <1>1, <2>1, SameRegistry
    <2> QED
      BY <1>1, <2>1, <2>2, ConfigCall
  <1>2. CASE CallSetThreshold
    <2> DEFINE q == [s.rules EXCEPT !.threshold = call.value]
    <2>1. Calling("setThreshold") /\ ChangeRules(q)
      BY <1>2 DEF CallSetThreshold
    <2>2. s.rules \in Rules /\ call.value \in Nat
      BY <2>1, NextCall, CallTypes
    <2>3. /\ q \in Rules /\ q.signers = s.rules.signers /\ q.signerList = s.rules.signerList
          /\ q.counts = s.rules.counts /\ q.epoch = s.rules.epoch
      BY <2>2 DEF Rules
    <2> HIDE DEF q
    <2> QED
      BY <1>1, <2>1, <2>3 DEF ConfigOps
  <1>3. CASE CallSetVetoThreshold
    <2> DEFINE q == [s.rules EXCEPT !.vetoThreshold = call.value]
    <2>1. Calling("setVetoThreshold") /\ ChangeRules(q)
      BY <1>3 DEF CallSetVetoThreshold
    <2>2. s.rules \in Rules /\ call.value \in Nat
      BY <2>1, NextCall, CallTypes
    <2>3. /\ q \in Rules /\ q.signers = s.rules.signers /\ q.signerList = s.rules.signerList
          /\ q.counts = s.rules.counts /\ q.epoch = s.rules.epoch
      BY <2>2 DEF Rules
    <2> HIDE DEF q
    <2> QED
      BY <1>1, <2>1, <2>3 DEF ConfigOps
  <1>4. CASE CallSetDelays
    <2> DEFINE q == [s.rules EXCEPT !.delays = call.delays]
    <2>1. Calling("setDelays") /\ ChangeRules(q)
      BY <1>4 DEF CallSetDelays
    <2>2. s.rules \in Rules /\ call.delays \in Delays
      BY <2>1, NextCall, CallTypes
    <2>3. /\ q \in Rules /\ q.signers = s.rules.signers /\ q.signerList = s.rules.signerList
          /\ q.counts = s.rules.counts /\ q.epoch = s.rules.epoch
      BY <2>2 DEF Rules
    <2> HIDE DEF q
    <2> QED
      BY <1>1, <2>1, <2>3 DEF ConfigOps
  <1>5. CASE CallSetImplementation
    <2> DEFINE q == [s.rules EXCEPT !.implementation = call.implementation]
    <2>1. Calling("setImplementation") /\ ChangeRules(q)
      BY <1>5 DEF CallSetImplementation
    <2>2. s.rules \in Rules /\ call.implementation \in Implementations
      BY <2>1, NextCall, CallTypes
    <2>3. /\ q \in Rules /\ q.signers = s.rules.signers /\ q.signerList = s.rules.signerList
          /\ q.counts = s.rules.counts /\ q.epoch = s.rules.epoch
      BY <2>2 DEF Rules
    <2> HIDE DEF q
    <2> QED
      BY <1>1, <2>1, <2>3 DEF ConfigOps
  <1>6. CASE CallFreezeImplementation
    <2> DEFINE q == [s.rules EXCEPT !.implementationFrozen = TRUE]
    <2>1. Calling("freezeImplementation") /\ ChangeRules(q)
      BY <1>6 DEF CallFreezeImplementation
    <2>2. s.rules \in Rules
      BY <2>1, NextCall
    <2>3. /\ q \in Rules /\ q.signers = s.rules.signers /\ q.signerList = s.rules.signerList
          /\ q.counts = s.rules.counts /\ q.epoch = s.rules.epoch
      BY <2>2 DEF Rules
    <2> HIDE DEF q
    <2> QED
      BY <1>1, <2>1, <2>3 DEF ConfigOps
  <1> QED
    BY <1>2, <1>3, <1>4, <1>5, <1>6

LEMMA PutEntry ==
  ASSUME NEW D, NEW R, NEW f, IsPartial(f, D, R), NEW k \in D, NEW v \in R
  PROVE  /\ IsPartial(Put(f, k, v), D, R)
         /\ DOMAIN Put(f, k, v) = DOMAIN f \cup {k}
         /\ Put(f, k, v)[k] = v
         /\ \A x \in DOMAIN f \ {k} : Put(f, k, v)[x] = f[x]
  BY DEF IsPartial, Put

LEMMA DropEntry ==
  ASSUME NEW D, NEW R, NEW f, IsPartial(f, D, R), NEW k
  PROVE  /\ IsPartial(Drop(f, k), D, R)
         /\ DOMAIN Drop(f, k) = DOMAIN f \ {k}
         /\ \A x \in DOMAIN f \ {k} : Drop(f, k)[x] = f[x]
  BY DEF IsPartial, Drop

\* Taking an entry out of the schedule, and marking hashes dead, keep the
\* storage sound when what dies is not pending afterwards.
LEMMA DropSound ==
  ASSUME NEW lanes, NEW st, IsStorage(st), NEW done, Sound(st, done, lanes), NEW h,
         NEW st2, st2.rules = st.rules, st2.nonces = st.nonces,
         st2.scheduled = Drop(st.scheduled, h), st2.dead \subseteq st.dead \cup {h}
  PROVE  Sound(st2, done, lanes) /\ DOMAIN st2.scheduled = DOMAIN st.scheduled \ {h}
  <1>1. /\ DOMAIN st2.scheduled = DOMAIN st.scheduled \ {h}
        /\ \A x \in DOMAIN st2.scheduled : st2.scheduled[x] = st.scheduled[x]
    BY DEF Drop
  <1> QED
    BY <1>1 DEF Sound, Pinned, Spent, HeldBack

LEMMA CancelStep ==
  ASSUME NEW lanes \in SUBSET Keys, IInv(lanes), CallCancel
  PROVE  IInv(lanes)'
  <1> DEFINE h == Head(frame.rest).hash
  <1>1. /\ Calling("cancel")
        /\ s' = [s EXCEPT !.dead = @ \cup {h}, !.scheduled = Drop(@, h)]
    BY DEF CallCancel
  <1>2. latch /\ h \in Hash /\ IsStorage(s) /\ Sound(s, ran, lanes)
    BY <1>1, NextCall, CallTypes DEF IInv, TypeOK
  <1> HIDE DEF h
  <1>3. IsPartial(Drop(s.scheduled, h), Hash, ScheduleEntry)
    BY <1>2, DropEntry DEF IsStorage
  <1>4. /\ s'.rules = s.rules /\ s'.nonces = s.nonces
        /\ s'.scheduled = Drop(s.scheduled, h) /\ s'.dead = s.dead \cup {h}
        /\ IsStorage(s')
    BY <1>1, <1>2, <1>3 DEF IsStorage
  <1>5. Sound(s', ran, lanes) /\ DOMAIN s'.scheduled \subseteq DOMAIN s.scheduled
    <2>1. s'.dead \subseteq s.dead \cup {h}
      BY <1>4
    <2>2. Sound(s', ran, lanes) /\ DOMAIN s'.scheduled = DOMAIN s.scheduled \ {h}
      BY <1>2, <1>4, <2>1, DropSound, SMTT(30)
    <2> QED
      BY <2>2
  <1> QED
    BY <1>1, <1>2, <1>4, <1>5, CallKeepsInv

LEMMA ElsewhereStep ==
  ASSUME NEW lanes \in SUBSET Keys, IInv(lanes), CallElsewhere
  PROVE  IInv(lanes)'
  <1>1. PICK op : Calling(op) /\ s' = s
    BY DEF CallElsewhere
  <1>2. latch /\ IsStorage(s) /\ Sound(s, ran, lanes)
    BY <1>1 DEF Calling, IInv, TypeOK
  <1> QED
    BY <1>1, <1>2, CallKeepsInv

LEMMA FinishStep ==
  ASSUME NEW lanes \in SUBSET Keys, IInv(lanes), Finish
  PROVE  IInv(lanes)'
  <1>1. /\ latch /\ IsStorage(s) /\ Sound(s, ran, lanes) /\ IsFrame(frame)
        /\ Running(frame, s, ran, now, lanes)
    BY DEF IInv, TypeOK, Finish
  <1>2. /\ latch' = FALSE /\ frame' = NoFrame /\ s' = s /\ now' = now
        /\ ran' = IF frame.origin = "initialize" THEN ran ELSE ran \cup {frame.hash}
        /\ frame.config => CheckConfig(s.rules)
    BY DEF Finish
  <1>3. TypeOK'
    BY <1>1, <1>2 DEF IInv, TypeOK, IsFrame
  <1>4. Spent(s', ran', lanes)
    <2>1. CASE frame.origin = "initialize"
      BY <1>1, <1>2, <2>1 DEF Sound
    <2>2. CASE frame.origin # "initialize"
      BY <1>1, <1>2, <2>2 DEF Sound, Spent, Running
    <2> QED
      BY <2>1, <2>2
  <1>5. Sound(s', ran', lanes)
    BY <1>1, <1>2, <1>4 DEF Sound
  <1>6. Usable(s')
    BY <1>1, <1>2 DEF Running, Usable
  <1> QED
    BY <1>2, <1>3, <1>5, <1>6 DEF IInv

LEMMA AbortStep ==
  ASSUME NEW lanes \in SUBSET Keys, IInv(lanes), Abort
  PROVE  IInv(lanes)'
  <1>1. latch /\ IsFrame(frame) /\ Running(frame, s, ran, now, lanes)
    BY DEF IInv, TypeOK, Abort
  <1>2. latch' = FALSE /\ frame' = NoFrame /\ s' = frame.saved /\ now' = now /\ ran' = ran
    BY DEF Abort
  <1>3. TypeOK'
    BY <1>1, <1>2 DEF IInv, TypeOK, IsFrame
  <1> QED
    BY <1>1, <1>2, <1>3 DEF IInv, Running

-----------------------------------------------------------------------------
(* Transactions.                                                           *)

\* Storage is sound, and usable unless it is inside a frame.
LEMMA IdleStorage ==
  ASSUME NEW lanes \in SUBSET Keys, IInv(lanes), ~ latch
  PROVE  IsStorage(s) /\ Sound(s, ran, lanes) /\ Usable(s) /\ now \in Nat /\ ran \subseteq Hash
  BY DEF IInv, TypeOK

LEMMA InitialStorage ==
  ASSUME NEW lanes \in SUBSET Keys
  PROVE  IsStorage(EmptyStorage) /\ Sound(EmptyStorage, {}, lanes)
  <1> DEFINE r == EmptyRules(Genesis)
  <1>1. NoSigner \in Signer
    BY DEF NoSigner, Signer, Kinds, Permissions
  <1>2. [id \in Ids |-> NoSigner] \in [Ids -> Signer]
    BY <1>1
  <1>3. [t \in Tallied |-> 0] \in [Tallied -> Counter]
    BY RulesAssumption DEF Counter
  <1>4. r \in Rules
    BY <1>2, <1>3, AccountAssumption DEF EmptyRules, Rules, Delays
  <1>5. \A t \in Tallied : {id \in Ids : t \subseteq r.signers[id].permissions} = {}
    BY DEF EmptyRules, NoSigner, Tallied
  <1>6. Counted(r)
    BY <1>5, FS_EmptySet DEF Counted, EmptyRules
  <1>7. Indexed(r)
    BY DEF Indexed, Exists, EmptyRules, NoSigner
  <1>8. /\ EmptyStorage.rules = r /\ EmptyStorage.scheduled = << >>
        /\ EmptyStorage.vetoCount = << >> /\ EmptyStorage.dead = {}
        /\ EmptyStorage.approvals = {} /\ EmptyStorage.vetoes = {}
        /\ EmptyStorage.nonces = [k \in Keys |-> 0]
        /\ EmptyStorage = [rules |-> EmptyStorage.rules, nonces |-> EmptyStorage.nonces,
             approvals |-> EmptyStorage.approvals, scheduled |-> EmptyStorage.scheduled,
             vetoes |-> EmptyStorage.vetoes, vetoCount |-> EmptyStorage.vetoCount,
             dead |-> EmptyStorage.dead]
    BY DEF EmptyStorage
  <1> HIDE DEF r
  <1>9. DOMAIN << >> = {} /\ IsPartial(<< >>, Hash, ScheduleEntry) /\ IsPartial(<< >>, Hash, Nat)
    BY DEF IsPartial
  <1>10. IsStorage(EmptyStorage)
    BY <1>4, <1>8, <1>9 DEF IsStorage
  <1> QED
    BY <1>6, <1>7, <1>8, <1>9, <1>10 DEF Sound, Pinned, Spent, HeldBack

LEMMA InitInv ==
  ASSUME NEW lanes \in SUBSET Keys, Init
  PROVE  IInv(lanes)
  <1>1. s = EmptyStorage /\ ~ latch /\ latch \in BOOLEAN /\ frame = NoFrame /\ now = 0 /\ ran = {}
    BY DEF Init
  <1>2. Usable(s)
    BY <1>1 DEF Usable, EmptyStorage, EmptyRules
  <1> QED
    BY <1>1, <1>2, InitialStorage DEF IInv, TypeOK

\* Starting a frame: what Running asks of it.
LEMMA EnterInv ==
  ASSUME NEW lanes \in SUBSET Keys, IInv(lanes), ~ latch, now' = now, ran' = ran,
         NEW origin, NEW hash, NEW calls, NEW config \in BOOLEAN, NEW started, NEW grant \in Grant,
         Enter(origin, hash, calls, config, started, grant),
         origin \in {"initialize", "execute", "scheduled"},
         IF origin = "initialize" THEN hash = NoHash /\ calls \in Seq(InitCall)
         ELSE hash \in Hash /\ calls \in Seq(Call),
         IsStorage(started), Sound(started, ran, lanes),
         Running([origin |-> origin, hash |-> hash, rest |-> calls, config |-> config,
                  saved |-> s, grant |-> grant], started, ran, now, lanes)
  PROVE  IInv(lanes)'
  <1> DEFINE f == [origin |-> origin, hash |-> hash, rest |-> calls, config |-> config,
                   saved |-> s, grant |-> grant]
  <1>1. latch' = TRUE /\ frame' = f /\ s' = started
    BY DEF Enter
  <1>2. IsStorage(s)
    BY IdleStorage
  <1>3. IsFrame(f)
    BY <1>2 DEF IsFrame
  <1> HIDE DEF f
  <1>4. TypeOK'
    BY <1>1, <1>3, IdleStorage DEF TypeOK
  <1>5. Running(frame', s', ran', now', lanes)
    BY <1>1 DEF f
  <1> QED
    BY <1>1, <1>4, <1>5 DEF IInv

LEMMA InitializeStep ==
  ASSUME NEW lanes \in SUBSET Keys, IInv(lanes), NEW init \in Inits, Initialize(init)
  PROVE  IInv(lanes)'
  <1> DEFINE rules == [s.rules EXCEPT
               !.epoch = 1, !.threshold = init.threshold,
               !.vetoThreshold = init.vetoThreshold, !.delays = init.delays]
             started == [s EXCEPT !.rules = rules]
             grant == [at |-> now, rules |-> rules, sigs |-> {}]
             f == [origin |-> "initialize", hash |-> NoHash, rest |-> init.signers,
                   config |-> TRUE, saved |-> s, grant |-> grant]
  <1>1. /\ ~ latch /\ s.rules.epoch = 0 /\ now' = now /\ ran' = ran
        /\ Enter("initialize", NoHash, init.signers, TRUE, started, grant)
    BY DEF Initialize
  <1>2. /\ IsStorage(s) /\ Sound(s, ran, lanes) /\ Usable(s) /\ now \in Nat
        /\ s.rules \in Rules /\ Counted(s.rules) /\ Indexed(s.rules)
    BY <1>1, IdleStorage DEF IsStorage, Sound
  <1>3. /\ init.signers \in Seq(InitCall) /\ init.threshold \in Nat
        /\ init.vetoThreshold \in Nat /\ init.delays \in Delays
    BY AccountAssumption DEF InitInput
  <1>4. /\ rules \in Rules /\ rules.signers = s.rules.signers /\ rules.epoch = 1
        /\ rules.signerList = s.rules.signerList /\ rules.counts = s.rules.counts
    BY <1>2, <1>3 DEF Rules
  <1>5. grant \in Grant
    BY <1>2, <1>4 DEF Grant
  <1> HIDE DEF rules
  <1>6. Counted(rules) /\ Indexed(rules)
    BY <1>2, <1>4, SameRegistry
  <1>7. /\ IsStorage(started) /\ started.rules = rules /\ started.nonces = s.nonces
        /\ started.scheduled = s.scheduled /\ started.dead = s.dead
    BY <1>2, <1>4, SetRulesFields
  <1> HIDE DEF started, grant
  <1>8. DOMAIN started.scheduled = {}
    BY <1>1, <1>2, <1>7 DEF Sound
  <1>9. Sound(started, ran, lanes)
    BY <1>2, <1>6, <1>7, <1>8 DEF Sound, Pinned, Spent, HeldBack
  <1>10. Running(f, started, ran, now, lanes)
    BY <1>2, <1>7, <1>8 DEF Running
  <1> QED
    BY <1>1, <1>3, <1>5, <1>7, <1>9, <1>10, EnterInv

\* Delay is what the grant owes, on every path that changes the rules.
LEMMA DelayIsOwed ==
  ASSUME NEW r \in Rules, NEW calls, NEW sigs \in SUBSET Ids, NEW t
  PROVE  LET grant == [at |-> t, rules |-> r, sigs |-> sigs]
         IN  /\ Delay(r, calls, sigs) \in Nat /\ Owed(grant) \in Nat
             /\ IsConfig(calls) \/ Delay(r, calls, sigs) # 0
                  => Delay(r, calls, sigs) = Owed(grant)
  <1> DEFINE grant == [at |-> t, rules |-> r, sigs |-> sigs]
             plain == {id \in grant.sigs :
                        grant.rules.signers[id].permissions \cap {"APPROVE", "RECOVER"} = {"APPROVE"}}
             approve == {id \in grant.sigs : "APPROVE" \in grant.rules.signers[id].permissions}
  <1>1. approve = Approvers(r, sigs) /\ plain = PlainApprovers(r, sigs)
    BY DEF Approvers, PlainApprovers, Holders
  <1>2. /\ r.delays.config \in Nat /\ r.delays.recovery \in Nat
        /\ r.delays.recoveryCoSign \in Nat
    BY DEF Rules, Delays
  <1>3. Owed(grant) = IF OpensThreshold(r, sigs) THEN r.delays.config
                      ELSE IF PlainApprovers(r, sigs) = {} THEN r.delays.recovery
                      ELSE r.delays.recoveryCoSign
    BY <1>1 DEF Owed, OpensThreshold
  <1> QED
    BY <1>2, <1>3 DEF Delay

\* Spending a nonce keeps the storage sound, and its hash is new.
LEMMA SpendNonce ==
  ASSUME NEW lanes, NEW st, IsStorage(st), NEW done, done \subseteq Hash, Sound(st, done, lanes),
         NEW h \in Hash, h.key \in lanes, h.seq = st.nonces[h.key],
         NEW st2, st2.rules = st.rules, st2.scheduled = st.scheduled, st2.dead = st.dead,
         st2.nonces \in [Keys -> Nat], \A k \in Keys : st2.nonces[k] >= st.nonces[k]
  PROVE  Sound(st2, done, lanes) /\ h \notin done \cup DOMAIN st.scheduled
  <1>1. /\ st.nonces \in [Keys -> Nat] /\ DOMAIN st.scheduled \subseteq Hash
        /\ h.key \in Keys
    BY DEF IsStorage, IsPartial, Hash
  <1>2. \A x \in Hash : x.key \in Keys /\ x.seq \in Nat
    BY DEF Hash
  <1>3. h \notin done \cup DOMAIN st.scheduled
    BY <1>1, <1>2 DEF Sound, Spent
  <1>4. ASSUME NEW x \in done \cup DOMAIN st.scheduled
        PROVE  x.key \in lanes => x.seq < st2.nonces[x.key]
    <2>1. x.key \in Keys /\ x.seq \in Nat /\ (x.key \in lanes => x.seq < st.nonces[x.key])
      BY <1>1, <1>2 DEF Sound, Spent
    <2>2. st.nonces[x.key] \in Nat /\ st2.nonces[x.key] \in Nat
      BY <1>1, <2>1
    <2> QED
      BY <2>1, <2>2
  <1>5. Sound(st2, done, lanes)
    BY <1>4 DEF Sound, Pinned, Spent, HeldBack
  <1> QED
    BY <1>3, <1>5

\* What was authorised either starts running or waits as long as its signers owe.
LEMMA LandInv ==
  ASSUME NEW lanes \in SUBSET Keys, IInv(lanes), ~ latch, Created,
         NEW h \in Hash, NEW batch \in Batches, NEW calls, calls = CallsOf[batch],
         NEW path \in Paths, NEW delay \in Nat,
         NEW grant \in Grant, grant.rules = s.rules, grant.at <= now,
         Owed(grant) \in Nat, IsConfig(calls) \/ delay # 0 => delay = Owed(grant),
         NEW st, IsStorage(st), Sound(st, ran, lanes),
         st.rules = s.rules, st.scheduled = s.scheduled, st.dead = s.dead,
         h \notin s.dead,
         h.key \in lanes => h \notin ran \cup DOMAIN s.scheduled /\ h.seq < st.nonces[h.key],
         Land(st, h, calls, path, delay, IsConfig(calls), grant)
  PROVE  IInv(lanes)'
  <1> DEFINE entry == [readyAt |-> now + delay, epoch |-> st.rules.epoch, path |-> path,
                       excluded |-> Excluded(path, calls), grant |-> grant]
  <1>1. /\ IsStorage(s) /\ Sound(s, ran, lanes) /\ Usable(s) /\ now \in Nat /\ ran \subseteq Hash
        /\ s.rules \in Rules /\ s.rules.epoch \in Nat
    BY IdleStorage DEF IsStorage, Rules
  <1>2. calls \in Seq(Call)
    BY AccountAssumption
  <1>3. grant.at \in Nat
    BY DEF Grant
  <1>4. CASE delay = 0
    <2> DEFINE f == [origin |-> "execute", hash |-> h, rest |-> calls,
                     config |-> IsConfig(calls), saved |-> s, grant |-> grant]
    <2>1. /\ Enter("execute", h, calls, IsConfig(calls), st, grant)
          /\ now' = now /\ ran' = ran
      BY <1>4 DEF Land
    <2>2. IsConfig(calls) \in BOOLEAN
      BY DEF IsConfig
    <2>3. IsConfig(calls) => now >= grant.at + Owed(grant)
      BY <1>1, <1>3, <1>4
    <2>4. ~ IsConfig(calls) => \A i \in DOMAIN calls : calls[i].op \notin ConfigOps
      BY DEF IsConfig
    <2>5. /\ f.origin = "execute" /\ f.hash = h /\ f.rest = calls /\ f.config = IsConfig(calls)
          /\ f.saved = s /\ f.grant = grant
      OBVIOUS
    <2> HIDE DEF f
    <2>6. Running(f, st, ran, now, lanes)
      BY <1>1, <1>3, <2>3, <2>4, <2>5 DEF Running
    <2> QED
      BY <1>2, <1>3, <2>1, <2>2, <2>6, EnterInv DEF f
  <1>5. CASE delay # 0
    <2>1. /\ s' = [st EXCEPT !.scheduled = Put(@, h, entry)]
          /\ latch' = latch /\ frame' = frame /\ now' = now /\ ran' = ran
      BY <1>5 DEF Land
    <2>2. Excluded(path, calls) \subseteq Ids
      <3>1. Target(calls) \subseteq Ids
        <4>1. \A i \in Removals(calls) : calls[i] \in Call
          BY <1>2 DEF Removals
        <4>2. \A i \in Removals(calls) : calls[i].id \in Ids
          BY <4>1, CallTypes DEF Removals
        <4> QED
          BY <4>2 DEF Target
      <3> QED
        BY <3>1 DEF Excluded
    <2>3. path \in Paths
      OBVIOUS
    <2>4. entry \in ScheduleEntry
      BY <1>1, <1>3, <2>2, <2>3 DEF ScheduleEntry
    <2>5. /\ entry.epoch = s.rules.epoch /\ entry.grant = grant
          /\ entry.readyAt = now + delay
      OBVIOUS
    <2> HIDE DEF entry
    <2>6. /\ IsPartial(Put(st.scheduled, h, entry), Hash, ScheduleEntry)
          /\ DOMAIN Put(st.scheduled, h, entry) = DOMAIN st.scheduled \cup {h}
          /\ Put(st.scheduled, h, entry)[h] = entry
          /\ \A x \in DOMAIN st.scheduled \ {h} :
               Put(st.scheduled, h, entry)[x] = st.scheduled[x]
      <3>1. IsPartial(st.scheduled, Hash, ScheduleEntry)
        BY DEF IsStorage
      <3>2. IsPartial(Put(st.scheduled, h, entry), Hash, ScheduleEntry)
        BY <2>4, <3>1, PutEntry
      <3> QED
        BY <3>2 DEF Put
    <2>7. /\ IsStorage(s') /\ s'.rules = s.rules /\ s'.nonces = st.nonces /\ s'.dead = s.dead
          /\ s'.scheduled = Put(st.scheduled, h, entry)
      BY <2>1, <2>6 DEF IsStorage
    <2>8. entry.readyAt >= entry.grant.at + Owed(entry.grant)
      BY <1>1, <1>3, <1>5, <2>5
    <2>9. Pinned(s')
      BY <1>1, <1>3, <2>5, <2>6, <2>7 DEF Sound, Pinned
    <2>10. Spent(s', ran, lanes)
      BY <2>6, <2>7 DEF Sound, Spent
    <2>11. HeldBack(s')
      BY <2>6, <2>7, <2>8 DEF Sound, HeldBack
    <2>12. Sound(s', ran', lanes)
      BY <1>1, <2>1, <2>6, <2>7, <2>9, <2>10, <2>11 DEF Sound, Created
    <2>13. TypeOK'
      BY <2>1, <2>7 DEF IInv, TypeOK
    <2> QED
      BY <1>1, <2>1, <2>7, <2>12, <2>13 DEF IInv, Usable
  <1> QED
    BY <1>4, <1>5

LEMMA ExecuteStep ==
  ASSUME NEW lanes \in SUBSET Keys, IInv(lanes),
         NEW key \in lanes, NEW batch \in Batches, NEW window \in Validities,
         NEW sigs \in SUBSET Ids, Execute(key, batch, window, sigs)
  PROVE  IInv(lanes)'
  <1> DEFINE h     == TxHash(s, key, batch, window)
             st    == [s EXCEPT !.nonces[key] = @ + 1]
             calls == CallsOf[batch]
             delay == Delay(s.rules, calls, sigs)
             path  == Path(s.rules, sigs)
             grant == [at |-> now, rules |-> s.rules, sigs |-> sigs]
  <1>1. /\ ~ latch /\ Created /\ h \notin s.dead
        /\ Land(st, h, calls, path, delay, IsConfig(calls), grant)
    BY DEF Execute
  <1>2. /\ IsStorage(s) /\ Sound(s, ran, lanes) /\ Usable(s) /\ now \in Nat /\ ran \subseteq Hash
        /\ s.rules \in Rules /\ s.rules.epoch \in Nat /\ s.nonces[key] \in Nat
    BY <1>1, IdleStorage DEF IsStorage, Rules
  <1>3. window[1] \in Nat /\ window[2] \in Nat /\ calls \in Seq(Call)
    BY AccountAssumption
  <1>4. h \in Hash /\ h.key = key /\ h.seq = s.nonces[key]
    BY <1>2, <1>3 DEF TxHash, Hash
  <1>5. grant \in Grant /\ grant.at = now /\ grant.rules = s.rules
    BY <1>2 DEF Grant
  <1>6. /\ delay \in Nat /\ Owed(grant) \in Nat
        /\ IsConfig(calls) \/ delay # 0 => delay = Owed(grant)
    BY <1>2, DelayIsOwed
  <1> HIDE DEF h
  <1>7. /\ IsStorage(st) /\ Sound(st, ran, lanes)
        /\ st.rules = s.rules /\ st.scheduled = s.scheduled /\ st.dead = s.dead
        /\ h \notin ran \cup DOMAIN s.scheduled /\ h.seq < st.nonces[h.key]
    <2>1. st.nonces = [s.nonces EXCEPT ![h.key] = h.seq + 1]
      BY <1>2, <1>4 DEF IsStorage
    <2>2. h.key \in Keys /\ h.seq \in Nat /\ s.nonces \in [Keys -> Nat]
      BY <1>2, <1>4 DEF IsStorage, Hash
    <2>3. /\ st.rules = s.rules /\ st.scheduled = s.scheduled /\ st.dead = s.dead
          /\ st.approvals = s.approvals /\ st.vetoes = s.vetoes /\ st.vetoCount = s.vetoCount
          /\ st = [rules |-> st.rules, nonces |-> st.nonces, approvals |-> st.approvals,
                  scheduled |-> st.scheduled, vetoes |-> st.vetoes,
                  vetoCount |-> st.vetoCount, dead |-> st.dead]
      BY <1>2 DEF IsStorage
    <2> HIDE DEF st
    <2>4. st.nonces \in [Keys -> Nat]
      BY <2>1, <2>2
    <2>5. IsStorage(st)
      BY <1>2, <2>3, <2>4 DEF IsStorage
    <2>6. h.key \in lanes /\ h.seq = s.nonces[h.key]
      BY <1>4
    <2>7. \A k \in Keys : st.nonces[k] >= s.nonces[k]
      BY <2>1, <2>2, <2>6
    <2>8. h.seq < st.nonces[h.key]
      BY <2>1, <2>2
    <2>9. Sound(st, ran, lanes) /\ h \notin ran \cup DOMAIN s.scheduled
      BY <1>2, <1>4, <2>3, <2>4, <2>6, <2>7, SpendNonce, SMTT(30)
    <2> QED
      BY <2>3, <2>5, <2>8, <2>9
  <1>8. path \in Paths
    BY DEF Path, Paths
  <1> HIDE DEF st, delay, grant, path
  <1>9. grant.at <= now
    BY <1>2, <1>5
  <1> QED
    BY <1>1, <1>2, <1>4, <1>5, <1>6, <1>7, <1>8, <1>9, LandInv

LEMMA ExecuteScheduledStep ==
  ASSUME NEW lanes \in SUBSET Keys, IInv(lanes), NEW h \in DOMAIN s.scheduled, ExecuteScheduled(h)
  PROVE  IInv(lanes)'
  <1> DEFINE entry == s.scheduled[h]
             started == [s EXCEPT !.scheduled = Drop(@, h)]
             f == [origin |-> "scheduled", hash |-> h, rest |-> CallsOf[h.batch],
                   config |-> TRUE, saved |-> s, grant |-> entry.grant]
  <1>1. /\ ~ latch /\ now >= entry.readyAt /\ entry.epoch = s.rules.epoch
        /\ Enter("scheduled", h, CallsOf[h.batch], TRUE, started, entry.grant)
        /\ now' = now /\ ran' = ran
    BY DEF ExecuteScheduled
  <1>2. /\ IsStorage(s) /\ Sound(s, ran, lanes) /\ Usable(s) /\ now \in Nat
        /\ IsPartial(s.scheduled, Hash, ScheduleEntry)
    BY <1>1, IdleStorage DEF IsStorage
  <1>3. h \in Hash /\ entry \in ScheduleEntry
    BY <1>2 DEF IsPartial
  <1>4. /\ entry.grant \in Grant /\ entry.readyAt \in Nat /\ entry.grant.at \in Nat
        /\ entry.grant.rules \in Rules /\ entry.grant.sigs \in SUBSET Ids
        /\ entry.grant = [at |-> entry.grant.at, rules |-> entry.grant.rules,
                          sigs |-> entry.grant.sigs]
    BY <1>3 DEF ScheduleEntry, Grant
  <1>5. CallsOf[h.batch] \in Seq(Call)
    BY <1>3, AccountAssumption DEF Hash
  <1>6. Owed(entry.grant) \in Nat
    BY <1>4, DelayIsOwed
  <1>7. now >= entry.grant.at + Owed(entry.grant)
    <2>1. entry.readyAt >= entry.grant.at + Owed(entry.grant)
      BY <1>2 DEF Sound, HeldBack
    <2> QED
      BY <1>1, <1>2, <1>4, <1>6, <2>1
  <1>8. IsPartial(Drop(s.scheduled, h), Hash, ScheduleEntry)
    BY <1>2, DropEntry
  <1>9. /\ IsStorage(started) /\ started.rules = s.rules /\ started.nonces = s.nonces
        /\ started.scheduled = Drop(s.scheduled, h) /\ started.dead = s.dead
    BY <1>2, <1>8 DEF IsStorage
  <1> HIDE DEF started
  <1>10. Sound(started, ran, lanes) /\ DOMAIN started.scheduled = DOMAIN s.scheduled \ {h}
    <2>1. started.dead \subseteq s.dead \cup {h}
      BY <1>9
    <2> QED
      BY <1>2, <1>9, <2>1, DropSound, SMTT(30)
  <1>11. h.key \in lanes => h \notin ran /\ h.seq < started.nonces[h.key]
    BY <1>2, <1>9 DEF Sound, Spent
  <1>12. entry.grant.rules = s.rules
    BY <1>1, <1>2 DEF Sound, Pinned
  <1> HIDE DEF entry
  <1>13. Running(f, started, ran, now, lanes)
    BY <1>2, <1>7, <1>9, <1>10, <1>11, <1>12 DEF Running
  <1> QED
    BY <1>1, <1>3, <1>4, <1>5, <1>9, <1>10, <1>13, EnterInv

\* The calls that take no latch change no rules, no nonce and no frame, and
\* only shrink the schedule.
LEMMA OutsideKeepsInv ==
  ASSUME NEW lanes \in SUBSET Keys, IInv(lanes), IsStorage(s'), Sound(s', ran, lanes),
         s'.rules = s.rules, s'.nonces = s.nonces,
         DOMAIN s'.scheduled \subseteq DOMAIN s.scheduled, s.dead \subseteq s'.dead,
         UNCHANGED <<latch, frame, now, ran>>
  PROVE  IInv(lanes)'
  <1>1. TypeOK'
    BY DEF IInv, TypeOK
  <1>2. ~ latch' => Usable(s')
    BY DEF IInv, Usable
  <1>3. latch' => Running(frame', s', ran', now', lanes)
    BY DEF IInv, Running
  <1> QED
    BY <1>1, <1>2, <1>3 DEF IInv

LEMMA ApproveStep ==
  ASSUME NEW lanes \in SUBSET Keys, IInv(lanes), NEW id \in Ids, NEW h \in Hash, Approve(id, h)
  PROVE  IInv(lanes)'
  <1>1. IsStorage(s) /\ Sound(s, ran, lanes)
    BY DEF IInv, TypeOK
  <1>2. s' = [s EXCEPT !.approvals = @ \cup {<<h, id>>}] /\ UNCHANGED <<latch, frame, now, ran>>
    BY DEF Approve, RecordApproval
  <1>3. /\ IsStorage(s') /\ s'.rules = s.rules /\ s'.nonces = s.nonces
        /\ s'.scheduled = s.scheduled /\ s'.dead = s.dead
    <2> DEFINE approvals == s.approvals \cup {<<h, id>>}
    <2>1. approvals \subseteq Hash \X Ids
      BY <1>1 DEF IsStorage
    <2>2. s' = [s EXCEPT !.approvals = approvals]
      BY <1>2
    <2> HIDE DEF approvals
    <2> QED
      BY <1>1, <2>1, <2>2 DEF IsStorage
  <1>4. Sound(s', ran, lanes)
    BY <1>1, <1>3 DEF Sound, Pinned, Spent, HeldBack
  <1> QED
    BY <1>2, <1>3, <1>4, OutsideKeepsInv

LEMMA VetoStep ==
  ASSUME NEW lanes \in SUBSET Keys, IInv(lanes), NEW id \in Ids, NEW h \in DOMAIN s.scheduled, Veto(id, h)
  PROVE  IInv(lanes)'
  <1> DEFINE count == VetoCount(s, h) + 1
             voted == [s EXCEPT !.vetoes = @ \cup {<<h, id>>}, !.vetoCount = Put(@, h, count)]
  <1>1. /\ IsStorage(s) /\ Sound(s, ran, lanes) /\ IsPartial(s.vetoCount, Hash, Nat)
        /\ IsPartial(s.scheduled, Hash, ScheduleEntry)
    BY DEF IInv, TypeOK, IsStorage
  <1>2. /\ s' = IF Stops(count)
                THEN [voted EXCEPT !.dead = @ \cup {h}, !.scheduled = Drop(@, h)]
                ELSE voted
        /\ UNCHANGED <<latch, frame, now, ran>>
    BY DEF Veto
  <1>3. h \in Hash /\ count \in Nat
    BY <1>1 DEF IsPartial, VetoCount
  <1> HIDE DEF count
  <1>4. IsPartial(Put(s.vetoCount, h, count), Hash, Nat)
    BY <1>1, <1>3, PutEntry
  <1>5. /\ IsStorage(voted) /\ voted.rules = s.rules /\ voted.nonces = s.nonces
        /\ voted.scheduled = s.scheduled /\ voted.dead = s.dead
    <2> DEFINE vetoes == s.vetoes \cup {<<h, id>>}
               counted == Put(s.vetoCount, h, count)
    <2>1. vetoes \subseteq Hash \X Ids
      BY <1>1, <1>3 DEF IsStorage
    <2>2. voted = [s EXCEPT !.vetoes = vetoes, !.vetoCount = counted]
      OBVIOUS
    <2>3. IsPartial(counted, Hash, Nat)
      BY <1>4
    <2> HIDE DEF vetoes, counted, voted
    <2> QED
      BY <1>1, <2>1, <2>2, <2>3 DEF IsStorage
  <1> HIDE DEF voted
  <1>6. CASE Stops(count)
    <2>1. s' = [voted EXCEPT !.dead = @ \cup {h}, !.scheduled = Drop(@, h)]
      BY <1>2, <1>6
    <2>2. IsPartial(Drop(s.scheduled, h), Hash, ScheduleEntry)
      BY <1>1, DropEntry
    <2>3. /\ IsStorage(s') /\ s'.rules = s.rules /\ s'.nonces = s.nonces
          /\ s'.scheduled = Drop(s.scheduled, h) /\ s'.dead = s.dead \cup {h}
      BY <1>3, <1>5, <2>1, <2>2 DEF IsStorage
    <2>4. Sound(s', ran, lanes) /\ DOMAIN s'.scheduled \subseteq DOMAIN s.scheduled
      <3>1. s'.dead \subseteq s.dead \cup {h}
        BY <2>3
      <3>2. Sound(s', ran, lanes) /\ DOMAIN s'.scheduled = DOMAIN s.scheduled \ {h}
        BY <1>1, <2>3, <3>1, DropSound
      <3> QED
        BY <3>2
    <2> QED
      BY <1>2, <2>3, <2>4, OutsideKeepsInv
  <1>7. CASE ~ Stops(count)
    <2>1. s' = voted
      BY <1>2, <1>7
    <2>2. Sound(s', ran, lanes)
      BY <1>1, <1>5, <2>1 DEF Sound, Pinned, Spent, HeldBack
    <2> QED
      BY <1>2, <1>5, <2>1, <2>2, OutsideKeepsInv
  <1> QED
    BY <1>6, <1>7

LEMMA TickStep ==
  ASSUME NEW lanes \in SUBSET Keys, IInv(lanes), Tick
  PROVE  IInv(lanes)'
  <1>1. ~ latch /\ now' = now + 1 /\ UNCHANGED <<s, latch, frame, ran>>
    BY DEF Tick
  <1> QED
    BY <1>1 DEF IInv, TypeOK

-----------------------------------------------------------------------------
(* The invariant, and what follows from it.                                *)

LEMMA StepInv ==
  ASSUME NEW lanes \in SUBSET Keys, IInv(lanes), Step(lanes)
  PROVE  IInv(lanes)'
  <1>1. ASSUME NEW init \in Inits, Initialize(init) PROVE IInv(lanes)'
    BY <1>1, InitializeStep
  <1>2. CASE CallInitSigner \/ CallAddSigner \/ CallRemoveSigner \/ CallReplaceSigner
    BY <1>2, InitSignerStep, AddSignerStep, RemoveSignerStep, ReplaceSignerStep
  <1>3. CASE CallSetThreshold \/ CallSetVetoThreshold \/ CallSetDelays
             \/ CallSetImplementation \/ CallFreezeImplementation
    BY <1>3, FieldSteps
  <1>4. CASE CallCancel \/ CallElsewhere
    BY <1>4, CancelStep, ElsewhereStep
  <1>5. CASE Finish \/ Abort
    BY <1>5, FinishStep, AbortStep
  <1>6. ASSUME NEW key \in lanes, NEW batch \in Batches, NEW window \in Validities,
               NEW sigs \in SUBSET Ids, Execute(key, batch, window, sigs)
        PROVE  IInv(lanes)'
    BY <1>6, ExecuteStep
  <1>7. ASSUME NEW h \in DOMAIN s.scheduled, ExecuteScheduled(h) PROVE IInv(lanes)'
    BY <1>7, ExecuteScheduledStep
  <1>8. ASSUME NEW id \in Ids \ OffChain, NEW key \in lanes, NEW batch \in Batches,
               NEW window \in Validities, Approve(id, TxHash(s, key, batch, window))
        PROVE  IInv(lanes)'
    <2>1. s.nonces[key] \in Nat /\ s.rules.epoch \in Nat
      BY DEF IInv, TypeOK, IsStorage, Rules
    <2>2. window[1] \in Nat /\ window[2] \in Nat
      BY AccountAssumption
    <2>3. TxHash(s, key, batch, window) \in Hash
      BY <2>1, <2>2 DEF TxHash, Hash
    <2> QED
      BY <1>8, <2>3, ApproveStep
  <1>9. ASSUME NEW id \in Ids, NEW h \in DOMAIN s.scheduled, Veto(id, h) PROVE IInv(lanes)'
    BY <1>9, VetoStep
  <1> QED
    BY <1>1, <1>2, <1>3, <1>4, <1>5, <1>6, <1>7, <1>8, <1>9 DEF Step, CallStep

LEMMA IdleInv ==
  ASSUME NEW lanes \in SUBSET Keys, IInv(lanes), UNCHANGED vars
  PROVE  IInv(lanes)'
  BY DEF vars, IInv, TypeOK

LEMMA NextInv == IInv(Keys) /\ [Next]_vars => IInv(Keys)'
  BY StepInv, TickStep, IdleInv DEF Next

THEOREM Invariance == Spec => []IInv(Keys)
  <1>1. Init => IInv(Keys)
    BY InitInv
  <1> QED
    BY <1>1, NextInv, PTL DEF Spec

\* Storage, frame and clock stay within the contract's types (TypeOK).
THEOREM TypeCorrect == Spec => []TypeOK
  <1>1. IInv(Keys) => TypeOK
    BY DEF IInv
  <1> QED
    BY <1>1, Invariance, PTL

\* The registry's counters, list and indexes agree in every state, inside
\* batches too, whatever signers are added, removed and replaced.
THEOREM RegistryCorrect == Spec => []RegistryConsistent
  <1>1. IInv(Keys) => RegistryConsistent
    BY DEF IInv, Sound, RegistryConsistent
  <1> QED
    BY <1>1, Invariance, PTL

\* A vetoed or cancelled change is not pending.
THEOREM DeadCorrect == Spec => []DeadNotPending
  <1>1. IInv(Keys) => DeadNotPending
    BY DEF IInv, Sound, DeadNotPending
  <1> QED
    BY <1>1, Invariance, PTL

\* An executable entry was granted under the rules in force.
THEOREM EpochCorrect == Spec => []EpochPinsRules
  <1>1. IInv(Keys) => EpochPinsRules
    BY DEF IInv, Sound, Pinned, EpochPinsRules
  <1> QED
    BY <1>1, Invariance, PTL

\* Between transactions the signers there are can meet the threshold, and a
\* guardian comes with a delay, whatever the rules went through.
THEOREM UsableCorrect == Spec => []AlwaysUsable
  <1>1. IInv(Keys) => AlwaysUsable
    <2> SUFFICES ASSUME IInv(Keys), ~ latch, Created, NEW r, r = s.rules
                 PROVE  /\ r.threshold \in 1 .. Cardinality(Holders(r, "APPROVE"))
                        /\ r.vetoThreshold <= Cardinality(Holders(r, "VETO"))
                        /\ Holders(r, "RECOVER") # {} => r.delays.recovery >= MIN_RECOVERY_DELAY
      BY DEF AlwaysUsable
    <2>1. r \in Rules /\ Counted(r) /\ CheckConfig(r)
      BY DEF IInv, TypeOK, IsStorage, Sound, Usable, Created
    <2>2. \A p : Tally(r, {p}) = Holders(r, p)
      BY DEF Tally, Holders
    <2>3. /\ ApproverCount(r) = Cardinality(Holders(r, "APPROVE"))
          /\ VetoerCount(r) = Cardinality(Holders(r, "VETO"))
          /\ RecovererCount(r) = Cardinality(Holders(r, "RECOVER"))
      <3>1. {"APPROVE"} \in Tallied /\ {"VETO"} \in Tallied /\ {"RECOVER"} \in Tallied
        BY DEF Tallied
      <3>2. \A t \in Tallied : r.counts[t] = Cardinality(Tally(r, t))
        BY <2>1 DEF Counted, Tally
      <3> QED
        BY <2>2, <3>1, <3>2 DEF ApproverCount, VetoerCount, RecovererCount
    <2>4. Cardinality(Holders(r, "APPROVE")) \in Nat /\ r.threshold \in Nat
      BY <2>1, <2>2, TallyBound DEF Rules
    <2>5. Holders(r, "RECOVER") # {} => RecovererCount(r) # 0
      <3>1. IsFiniteSet(Holders(r, "RECOVER"))
        BY <2>2, TallyBound
      <3> QED
        BY <2>3, <3>1, FS_EmptySet
    <2> QED
      BY <2>1, <2>3, <2>4, <2>5 DEF CheckConfig
  <1> QED
    BY <1>1, Invariance, PTL

\* What a step does to the settled storage: a transaction starts, ends, is
\* undone, or the rules stay.
LEMMA StepKinds ==
  ASSUME NEW lanes \in SUBSET Keys, IInv(lanes), Step(lanes) \/ Tick \/ UNCHANGED vars
  PROVE  \/ /\ ~ latch /\ ~ latch' /\ s'.rules = s.rules /\ s.dead \subseteq s'.dead
         \/ /\ ~ latch /\ latch' /\ frame'.saved = s /\ frame'.hash \notin s.dead
            /\ frame'.hash \in ran => frame'.hash.key \notin lanes
         \/ latch /\ latch' /\ frame'.saved = frame.saved
         \/ latch /\ ~ latch' /\ s' = frame.saved
         \/ Finish
  <1>0. IsStorage(s) /\ Sound(s, ran, lanes) /\ ran \subseteq Hash /\ s.dead \subseteq Hash
    BY DEF IInv, TypeOK, IsStorage
  <1>1. ASSUME NEW init \in Inits, Initialize(init)
        PROVE  ~ latch /\ latch' /\ frame'.saved = s /\ frame'.hash = NoHash
    BY <1>1 DEF Initialize, Enter
  <1>2. ASSUME NEW op, Calling(op)
        PROVE  latch /\ latch' /\ frame'.saved = frame.saved
    <2>1. latch /\ IsFrame(frame)
      BY <1>2 DEF Calling, IInv, TypeOK
    <2> QED
      BY <1>2, <2>1, CallingFrame
  <1>3. CASE \/ CallInitSigner \/ CallAddSigner \/ CallRemoveSigner \/ CallReplaceSigner
             \/ CallSetThreshold \/ CallSetVetoThreshold \/ CallSetDelays
             \/ CallSetImplementation \/ CallFreezeImplementation
             \/ CallCancel \/ CallElsewhere
    <2>1. \E op : Calling(op)
      BY <1>3 DEF CallInitSigner, CallAddSigner, CallRemoveSigner, CallReplaceSigner,
        CallSetThreshold, CallSetVetoThreshold, CallSetDelays, CallSetImplementation,
        CallFreezeImplementation, CallCancel, CallElsewhere
    <2> QED
      BY <1>2, <2>1
  <1>4. CASE Abort
    BY <1>4 DEF Abort
  <1>5. ASSUME NEW key \in lanes, NEW batch \in Batches, NEW window \in Validities,
               NEW sigs \in SUBSET Ids, Execute(key, batch, window, sigs)
        PROVE  /\ ~ latch
               /\ \/ /\ latch' /\ frame'.saved = s /\ frame'.hash \notin s.dead
                     /\ frame'.hash \in ran => frame'.hash.key \notin lanes
                  \/ ~ latch' /\ s'.rules = s.rules /\ s.dead \subseteq s'.dead
    <2> DEFINE h     == TxHash(s, key, batch, window)
               st    == [s EXCEPT !.nonces[key] = @ + 1]
               calls == CallsOf[batch]
               path  == Path(s.rules, sigs)
               delay == Delay(s.rules, calls, sigs)
               grant == [at |-> now, rules |-> s.rules, sigs |-> sigs]
    <2>1. /\ ~ latch /\ h \notin s.dead
          /\ Land(st, h, calls, path, delay, IsConfig(calls), grant)
      BY <1>5 DEF Execute
    <2>2. h.seq = s.nonces[h.key] /\ s.nonces[key] \in Nat /\ h.key = key
      BY <1>0 DEF TxHash, IsStorage
    <2>3. h \in ran => h.key \notin lanes
      BY <1>0, <2>2 DEF Sound, Spent
    <2>4. st.rules = s.rules /\ st.dead = s.dead
          /\ \A x : [st EXCEPT !.scheduled = x].rules = s.rules
                /\ [st EXCEPT !.scheduled = x].dead = s.dead
      BY <1>0 DEF IsStorage
    <2> HIDE DEF h, st, calls, path, delay, grant
    <2>5. CASE delay = 0
      BY <2>1, <2>3, <2>5 DEF Land, Enter
    <2>6. CASE delay # 0
      BY <2>1, <2>4, <2>6 DEF Land
    <2> QED
      BY <2>1, <2>5, <2>6
  <1>6. ASSUME NEW h \in DOMAIN s.scheduled, ExecuteScheduled(h)
        PROVE  /\ ~ latch /\ latch' /\ frame'.saved = s /\ frame'.hash \notin s.dead
               /\ frame'.hash \in ran => frame'.hash.key \notin lanes
    <2>1. ~ latch /\ latch' /\ frame'.saved = s /\ frame'.hash = h
      BY <1>6 DEF ExecuteScheduled, Enter
    <2> QED
      BY <1>0, <2>1 DEF Sound, Spent
  <1>7. ASSUME UNCHANGED <<latch, frame>>, s'.rules = s.rules, s.dead \subseteq s'.dead
        PROVE  \/ ~ latch /\ ~ latch' /\ s'.rules = s.rules /\ s.dead \subseteq s'.dead
               \/ latch /\ latch' /\ frame'.saved = frame.saved
    BY <1>7
  <1>8. ASSUME NEW id, NEW h, Approve(id, h)
        PROVE  UNCHANGED <<latch, frame>> /\ s'.rules = s.rules /\ s.dead \subseteq s'.dead
    BY <1>0, <1>8 DEF Approve, RecordApproval, IsStorage
  <1>9. ASSUME NEW id, NEW h, Veto(id, h)
        PROVE  UNCHANGED <<latch, frame>> /\ s'.rules = s.rules /\ s.dead \subseteq s'.dead
    <2> DEFINE count == VetoCount(s, h) + 1
               voted == [s EXCEPT !.vetoes = @ \cup {<<h, id>>}, !.vetoCount = Put(@, h, count)]
    <2>1. /\ UNCHANGED <<latch, frame>>
          /\ \/ s' = voted
             \/ s' = [voted EXCEPT !.dead = @ \cup {h}, !.scheduled = Drop(@, h)]
      BY <1>9 DEF Veto
    <2> HIDE DEF count
    <2>2. voted.rules = s.rules /\ voted.dead = s.dead
      BY <1>0 DEF IsStorage
    <2>3. [voted EXCEPT !.dead = @ \cup {h}, !.scheduled = Drop(@, h)].rules = s.rules
      BY <1>0 DEF IsStorage
    <2>4. s.dead \subseteq [voted EXCEPT !.dead = @ \cup {h}, !.scheduled = Drop(@, h)].dead
      BY <1>0 DEF IsStorage
    <2> QED
      BY <2>1, <2>2, <2>3, <2>4
  <1>10. CASE Tick
    BY <1>7, <1>10 DEF Tick
  <1>11. CASE UNCHANGED vars
    BY <1>7, <1>11 DEF vars
  <1>12. NoHash \notin ran /\ NoHash \notin s.dead
    BY <1>0, AccountAssumption
  <1> QED
    BY <1>1, <1>3, <1>4, <1>5, <1>6, <1>7, <1>8, <1>9, <1>10, <1>11, <1>12 DEF Step, CallStep

\* The same of the account by itself, which runs no hash twice.
LEMMA NextKinds ==
  ASSUME IInv(Keys), [Next]_vars
  PROVE  \/ /\ ~ latch /\ ~ latch' /\ s'.rules = s.rules /\ s.dead \subseteq s'.dead
         \/ /\ ~ latch /\ latch' /\ frame'.saved = s
            /\ frame'.hash \notin ran /\ frame'.hash \notin s.dead
         \/ latch /\ latch' /\ frame'.saved = frame.saved
         \/ latch /\ ~ latch' /\ s' = frame.saved
         \/ Finish
  <1>1. Step(Keys) \/ Tick \/ UNCHANGED vars
    BY DEF Next
  <1>2. \A h \in ran : h.key \in Keys
    BY DEF IInv, TypeOK, Hash
  <1> QED
    BY <1>1, <1>2, StepKinds

\* No hash runs its calls twice: not resubmitted, not from the schedule after
\* it ran, not from a callee that comes back.
THEOREM RunsOnceCorrect == Spec => RunsOnce
  <1>1. IInv(Keys) /\ [Next]_vars => [~ latch /\ latch' => frame'.hash \notin ran]_vars
    BY NextKinds DEF Finish
  <1> QED
    BY <1>1, Invariance, PTL DEF Spec, RunsOnce

\* A dead hash stays dead and no transaction starts running it.
THEOREM DeadIsFinalCorrect == Spec => DeadIsFinal
  <1>1. IInv(Keys) /\ [Next]_vars =>
          [ /\ Settled.dead \subseteq Settled'.dead
            /\ ~ latch /\ latch' => frame'.hash \notin s.dead ]_vars
    <2> SUFFICES ASSUME IInv(Keys), [Next]_vars
                 PROVE  /\ Settled.dead \subseteq Settled'.dead
                        /\ ~ latch /\ latch' => frame'.hash \notin s.dead
      OBVIOUS
    <2>1. CASE Finish
      <3>1. latch /\ ~ latch' /\ s' = s
        BY <2>1 DEF Finish
      <3>2. frame.saved.dead \subseteq s.dead
        BY <3>1 DEF IInv, Running
      <3> QED
        BY <3>1, <3>2 DEF Settled
    <2>2. CASE ~ Finish
      BY <2>2, NextKinds DEF Settled
    <2> QED
      BY <2>1, <2>2
  <1> QED
    BY <1>1, Invariance, PTL DEF Spec, DeadIsFinal

\* The rules change only in a transaction granted under those very rules, after
\* the wait they ask of its signers, for every account, batch and history.
THEOREM RulesChangeCorrect == Spec => RulesChangeAsAgreed
  <1>1. IInv(Keys) /\ [Next]_vars =>
          [ Settled.rules # Settled'.rules =>
             /\ latch /\ ~ latch'
             /\ \/ frame.origin = "initialize"
                \/ /\ frame.grant.rules = Settled.rules
                   /\ now >= frame.grant.at + Owed(frame.grant) ]_vars
    <2> SUFFICES ASSUME IInv(Keys), [Next]_vars, Settled.rules # Settled'.rules
                 PROVE  /\ latch /\ ~ latch'
                        /\ \/ frame.origin = "initialize"
                           \/ /\ frame.grant.rules = Settled.rules
                              /\ now >= frame.grant.at + Owed(frame.grant)
      OBVIOUS
    <2>1. Finish
      BY NextKinds DEF Settled
    <2>2. latch /\ ~ latch' /\ s' = s
      BY <2>1 DEF Finish
    <2>3. Settled = frame.saved /\ Settled' = s
      BY <2>2 DEF Settled
    <2>4. Running(frame, s, ran, now, Keys) /\ frame.config \in BOOLEAN
      BY <2>2 DEF IInv, TypeOK, IsFrame
    <2>5. frame.config
      BY <2>3, <2>4 DEF Running
    <2> QED
      BY <2>2, <2>3, <2>4, <2>5 DEF Running
  <1> QED
    BY <1>1, Invariance, PTL DEF Spec, RulesChangeAsAgreed

-----------------------------------------------------------------------------
(* Votes and recovery                                                      *)
(*                                                                         *)
(* Who can stop a change, and what a guardian can change: the contract's   *)
(* counter of vetoes is the number of voters, so a change stops exactly    *)
(* when enough of them agree; and whatever is agreed to below the          *)
(* threshold is one swap of a key, from its signatures to its end.         *)

\* A vote is about a hash that was scheduled, whose nonce is spent.
Behind(st) == \A v \in st.vetoes : v[1].seq < st.nonces[v[1].key]

\* The counter is the number of voters.
Tallies(st) == \A h \in Hash : VetoCount(st, h) = Cardinality(Voters(st, h))

\* What may still run has fewer votes than stop it, none of them from the signer it
\* removes.
Unstopped(st) ==
  \A h \in DOMAIN st.scheduled :
    /\ st.scheduled[h].epoch = st.rules.epoch => VetoCount(st, h) < EffectiveVetoThreshold(st.rules)
    /\ Voters(st, h) \cap st.scheduled[h].excluded = {}
    /\ st.scheduled[h].path # "THRESHOLD" => st.scheduled[h].excluded = {}

Votes(st) == Behind(st) /\ Tallies(st) /\ Unstopped(st)

VInv == IInv(Keys) /\ Votes(s) /\ (latch => Votes(frame.saved))

-----------------------------------------------------------------------------
(* Storage *)

LEMMA SomeVetoStops ==
  ASSUME NEW r \in Rules
  PROVE  EffectiveVetoThreshold(r) \in Nat \ {0}
  <1>1. /\ r.counts[{"APPROVE", "VETO"}] \in Counter
        /\ r.threshold \in Nat /\ r.vetoThreshold \in Nat
    BY DEF Rules, Tallied
  <1>2. ApproverVetoerCount(r) \in Nat
    BY <1>1, RulesAssumption DEF ApproverVetoerCount, Counter
  <1> QED
    BY <1>1, <1>2 DEF EffectiveVetoThreshold

LEMMA VotersFinite ==
  ASSUME NEW st, NEW h
  PROVE  IsFiniteSet(Voters(st, h)) /\ Cardinality(Voters(st, h)) \in Nat
  <1>1. Voters(st, h) \subseteq Ids
    BY DEF Voters
  <1> QED
    BY <1>1, RulesAssumption, FS_Subset, FS_CardinalityType

\* The votes stand, entries only go, and where the rules move every entry is left behind.
Keeps(st, st2) ==
  /\ st2.vetoes = st.vetoes /\ st2.vetoCount = st.vetoCount
  /\ \A k \in Keys : st.nonces[k] <= st2.nonces[k]
  /\ DOMAIN st2.scheduled \subseteq DOMAIN st.scheduled
  /\ \A h \in DOMAIN st2.scheduled : st2.scheduled[h] = st.scheduled[h]
  /\ st2.rules = st.rules \/ \A h \in DOMAIN st2.scheduled : st.scheduled[h].epoch # st2.rules.epoch

LEMMA KeepsVotes ==
  ASSUME NEW st, NEW st2, IsStorage(st), IsStorage(st2), Votes(st), Keeps(st, st2)
  PROVE  Votes(st2)
  <1>1. Behind(st2)
    <2> SUFFICES ASSUME NEW v \in st.vetoes
                 PROVE  v[1].seq < st2.nonces[v[1].key]
      BY DEF Keeps, Behind
    <2>1. v[1] \in Hash
      BY DEF IsStorage
    <2>2. v[1].key \in Keys /\ v[1].seq \in Nat
      BY <2>1 DEF Hash
    <2>3. st.nonces[v[1].key] \in Nat /\ st2.nonces[v[1].key] \in Nat
      BY <2>2 DEF IsStorage
    <2>4. v[1].seq < st.nonces[v[1].key] /\ st.nonces[v[1].key] <= st2.nonces[v[1].key]
      BY <2>2 DEF Votes, Behind, Keeps
    <2> QED
      BY <2>2, <2>3, <2>4
  <1>2. \A h : VetoCount(st2, h) = VetoCount(st, h) /\ Voters(st2, h) = Voters(st, h)
    BY DEF Keeps, VetoCount, Voters
  <1>3. Tallies(st2)
    BY <1>2 DEF Votes, Tallies
  <1>4. Unstopped(st2)
    BY <1>2 DEF Votes, Unstopped, Keeps
  <1> QED
    BY <1>1, <1>3, <1>4 DEF Votes

-----------------------------------------------------------------------------
(* Calls *)

\* A configuration function moves the epoch past every entry.
LEMMA RulesMove ==
  ASSUME IInv(Keys), NEW r \in Rules, r.epoch = s.rules.epoch, ChangeRules(r)
  PROVE  Keeps(s, s')
  <1>1. IsStorage(s) /\ Pinned(s) /\ s' = [s EXCEPT !.rules = AdvanceEpoch(r)]
    BY DEF IInv, TypeOK, Sound, ChangeRules, SetRules
  <1>2. AdvanceEpoch(r) \in Rules /\ AdvanceEpoch(r).epoch = r.epoch + 1
    BY DEF AdvanceEpoch, Rules
  <1>3. /\ s'.rules.epoch = s.rules.epoch + 1 /\ s.rules.epoch \in Nat
        /\ s'.nonces = s.nonces /\ s'.scheduled = s.scheduled
        /\ s'.vetoes = s.vetoes /\ s'.vetoCount = s.vetoCount
    <2> DEFINE q == AdvanceEpoch(r)
    <2> HIDE DEF q
    <2>1. q \in Rules /\ q.epoch = s.rules.epoch + 1 /\ s' = [s EXCEPT !.rules = q]
      BY <1>1, <1>2 DEF q
    <2>2. s.rules.epoch \in Nat
      BY <1>1 DEF IsStorage, Rules
    <2> QED
      BY <1>1, <2>1, <2>2, SetRulesFields
  <1>4. \A h \in DOMAIN s.scheduled : s.scheduled[h].epoch \in Nat /\ s.scheduled[h].epoch <= s.rules.epoch
    BY <1>1 DEF IsStorage, IsPartial, ScheduleEntry, Pinned
  <1>5. \A k \in Keys : s.nonces[k] \in Nat
    BY <1>1 DEF IsStorage
  <1> QED
    BY <1>3, <1>4, <1>5 DEF Keeps

LEMMA SameStorage ==
  ASSUME IsStorage(s), s' = s
  PROVE  Keeps(s, s')
  <1>1. \A k \in Keys : s.nonces[k] \in Nat
    BY DEF IsStorage
  <1> QED
    BY <1>1 DEF Keeps

LEMMA SignerCalls ==
  ASSUME IInv(Keys), CallAddSigner \/ CallRemoveSigner \/ CallReplaceSigner
  PROVE  Keeps(s, s')
  <1> DEFINE call == Head(frame.rest)
  <1>1. CASE CallAddSigner
    <2> DEFINE r == AddSigner(s.rules, call.input)
    <2>1. Calling("addSigner") /\ ChangeRules(r)
      BY <1>1 DEF CallAddSigner
    <2>2. s.rules \in Rules /\ call.input \in SignerInput
      BY <2>1, NextCall, CallTypes
    <2>3. r \in Rules /\ r.epoch = s.rules.epoch
      BY <2>2, AddSignerType DEF AddSigner, Count, Rules
    <2> HIDE DEF r
    <2> QED
      BY <2>1, <2>3, RulesMove
  <1>2. CASE CallRemoveSigner
    <2> DEFINE r == RemoveSigner(s.rules, call.id)
    <2>1. Calling("removeSigner") /\ Exists(s.rules, call.id) /\ ChangeRules(r)
      BY <1>2 DEF CallRemoveSigner
    <2>2. s.rules \in Rules /\ Indexed(s.rules) /\ call.id \in Ids
      BY <2>1, NextCall, CallTypes
    <2>3. r \in Rules /\ r.epoch = s.rules.epoch
      BY <2>1, <2>2, RemoveSignerType DEF RemoveSigner, Count, Rules
    <2> HIDE DEF r
    <2> QED
      BY <2>1, <2>3, RulesMove
  <1>3. CASE CallReplaceSigner
    <2> DEFINE removed == RemoveSigner(s.rules, call.id)
               r == AddSigner(removed, call.input)
    <2>1. Calling("replaceSigner") /\ Exists(s.rules, call.id) /\ ChangeRules(r)
      BY <1>3 DEF CallReplaceSigner
    <2>2. s.rules \in Rules /\ Indexed(s.rules) /\ call.id \in Ids /\ call.input \in SignerInput
      BY <2>1, NextCall, CallTypes
    <2>3. removed \in Rules /\ removed.epoch = s.rules.epoch
      BY <2>1, <2>2, RemoveSignerType DEF RemoveSigner, Count, Rules
    <2> HIDE DEF removed, call
    <2>4. r \in Rules /\ r.epoch = s.rules.epoch
      BY <2>2, <2>3, AddSignerType DEF AddSigner, Count, Rules
    <2> HIDE DEF r
    <2> QED
      BY <2>1, <2>4, RulesMove
  <1> QED
    BY <1>1, <1>2, <1>3

LEMMA FieldCalls ==
  ASSUME IInv(Keys), \/ CallSetThreshold \/ CallSetVetoThreshold \/ CallSetDelays
               \/ CallSetImplementation \/ CallFreezeImplementation
  PROVE  Keeps(s, s')
  <1> DEFINE call == Head(frame.rest)
  <1>1. CASE CallSetThreshold
    <2> DEFINE q == [s.rules EXCEPT !.threshold = call.value]
    <2>1. Calling("setThreshold") /\ ChangeRules(q)
      BY <1>1 DEF CallSetThreshold
    <2>2. s.rules \in Rules /\ call.value \in Nat
      BY <2>1, NextCall, CallTypes
    <2>3. q \in Rules /\ q.epoch = s.rules.epoch
      BY <2>2 DEF Rules
    <2> HIDE DEF q
    <2> QED
      BY <2>1, <2>3, RulesMove
  <1>2. CASE CallSetVetoThreshold
    <2> DEFINE q == [s.rules EXCEPT !.vetoThreshold = call.value]
    <2>1. Calling("setVetoThreshold") /\ ChangeRules(q)
      BY <1>2 DEF CallSetVetoThreshold
    <2>2. s.rules \in Rules /\ call.value \in Nat
      BY <2>1, NextCall, CallTypes
    <2>3. q \in Rules /\ q.epoch = s.rules.epoch
      BY <2>2 DEF Rules
    <2> HIDE DEF q
    <2> QED
      BY <2>1, <2>3, RulesMove
  <1>3. CASE CallSetDelays
    <2> DEFINE q == [s.rules EXCEPT !.delays = call.delays]
    <2>1. Calling("setDelays") /\ ChangeRules(q)
      BY <1>3 DEF CallSetDelays
    <2>2. s.rules \in Rules /\ call.delays \in Delays
      BY <2>1, NextCall, CallTypes
    <2>3. q \in Rules /\ q.epoch = s.rules.epoch
      BY <2>2 DEF Rules
    <2> HIDE DEF q
    <2> QED
      BY <2>1, <2>3, RulesMove
  <1>4. CASE CallSetImplementation
    <2> DEFINE q == [s.rules EXCEPT !.implementation = call.implementation]
    <2>1. Calling("setImplementation") /\ ChangeRules(q)
      BY <1>4 DEF CallSetImplementation
    <2>2. s.rules \in Rules /\ call.implementation \in Implementations
      BY <2>1, NextCall, CallTypes
    <2>3. q \in Rules /\ q.epoch = s.rules.epoch
      BY <2>2 DEF Rules
    <2> HIDE DEF q
    <2> QED
      BY <2>1, <2>3, RulesMove
  <1>5. CASE CallFreezeImplementation
    <2> DEFINE q == [s.rules EXCEPT !.implementationFrozen = TRUE]
    <2>1. Calling("freezeImplementation") /\ ChangeRules(q)
      BY <1>5 DEF CallFreezeImplementation
    <2>2. s.rules \in Rules
      BY <2>1, NextCall
    <2>3. q \in Rules /\ q.epoch = s.rules.epoch
      BY <2>2 DEF Rules
    <2> HIDE DEF q
    <2> QED
      BY <2>1, <2>3, RulesMove
  <1> QED
    BY <1>1, <1>2, <1>3, <1>4, <1>5

\* The constructor adds signers while nothing is pending.
LEMMA InitSignerCall ==
  ASSUME IInv(Keys), CallInitSigner
  PROVE  Keeps(s, s')
  <1> DEFINE input == Head(frame.rest).input
             r == AddSigner(s.rules, input)
  <1>1. /\ latch /\ Calling("initSigner") /\ IsStorage(s) /\ IsFrame(frame)
        /\ Running(frame, s, ran, now, Keys) /\ s.rules \in Rules
    BY DEF IInv, TypeOK, CallInitSigner, Calling, IsStorage
  <1>2. frame.origin = "initialize" /\ input \in SignerInput
    BY <1>1, CallingFrame, CallTypes, InitCallTypes
  <1>3. DOMAIN s.scheduled = {}
    BY <1>1, <1>2 DEF Running
  <1>4. r \in Rules /\ s' = [s EXCEPT !.rules = r]
    BY <1>1, <1>2, AddSignerType DEF CallInitSigner, SetRules
  <1> HIDE DEF r
  <1>5. /\ s'.nonces = s.nonces /\ s'.scheduled = s.scheduled
        /\ s'.vetoes = s.vetoes /\ s'.vetoCount = s.vetoCount
    BY <1>1, <1>4, SetRulesFields
  <1>6. \A k \in Keys : s.nonces[k] \in Nat
    BY <1>1 DEF IsStorage
  <1> QED
    BY <1>3, <1>5, <1>6 DEF Keeps

LEMMA CancelCall ==
  ASSUME IInv(Keys), CallCancel
  PROVE  Keeps(s, s')
  <1> DEFINE h == Head(frame.rest).hash
  <1>1. s' = [s EXCEPT !.dead = @ \cup {h}, !.scheduled = Drop(@, h)] /\ IsStorage(s)
    BY DEF CallCancel, IInv, TypeOK
  <1> HIDE DEF h
  <1>2. /\ s'.rules = s.rules /\ s'.nonces = s.nonces /\ s'.scheduled = Drop(s.scheduled, h)
        /\ s'.vetoes = s.vetoes /\ s'.vetoCount = s.vetoCount
    BY <1>1 DEF IsStorage
  <1>3. /\ DOMAIN s'.scheduled \subseteq DOMAIN s.scheduled
        /\ \A x \in DOMAIN s'.scheduled : s'.scheduled[x] = s.scheduled[x]
    BY <1>2 DEF Drop
  <1>4. \A k \in Keys : s.nonces[k] \in Nat
    BY <1>1 DEF IsStorage
  <1> QED
    BY <1>2, <1>3, <1>4 DEF Keeps

\* A call leaves the votes, and what a revert would restore.
LEMMA CallVotes ==
  ASSUME VInv, CallStep, IInv(Keys)'
  PROVE  VInv'
  <1>1. Keeps(s, s')
    <2>1. CallElsewhere => s' = s /\ IsStorage(s)
      BY DEF CallElsewhere, VInv, IInv, TypeOK
    <2> QED
      BY <2>1, SameStorage, SignerCalls, FieldCalls, InitSignerCall, CancelCall DEF CallStep, VInv
  <1>2. PICK op : Calling(op)
    BY DEF CallStep, CallInitSigner, CallAddSigner, CallRemoveSigner, CallReplaceSigner,
      CallSetThreshold, CallSetVetoThreshold, CallSetDelays, CallSetImplementation,
      CallFreezeImplementation, CallCancel, CallElsewhere
  <1>3. latch /\ IsFrame(frame)
    BY <1>2 DEF Calling, VInv, IInv, TypeOK
  <1>4. frame'.saved = frame.saved
    BY <1>2, <1>3, CallingFrame
  <1>5. IsStorage(s) /\ IsStorage(s')
    BY DEF VInv, IInv, TypeOK
  <1>6. Votes(s')
    BY <1>1, <1>5, KeepsVotes DEF VInv
  <1> QED
    BY <1>3, <1>4, <1>6 DEF VInv

-----------------------------------------------------------------------------
(* Transactions *)

\* A transaction that starts keeps what it found, to go back to.
LEMMA EnterVotes ==
  ASSUME VInv, ~ latch, IInv(Keys)', Keeps(s, s'), latch', frame'.saved = s
  PROVE  VInv'
  <1>1. IsStorage(s) /\ IsStorage(s')
    BY DEF VInv, IInv, TypeOK
  <1>2. Votes(s')
    BY <1>1, KeepsVotes DEF VInv
  <1> QED
    BY <1>2 DEF VInv

LEMMA InitializeVotes ==
  ASSUME VInv, NEW init \in Inits, Initialize(init), IInv(Keys)'
  PROVE  VInv'
  <1>1. /\ ~ latch /\ s.rules.epoch = 0 /\ latch' /\ frame'.saved = s
        /\ \E rules : s' = [s EXCEPT !.rules = rules]
    BY DEF Initialize, Enter
  <1>2. IsStorage(s) /\ DOMAIN s.scheduled = {}
    BY <1>1 DEF VInv, IInv, TypeOK, Sound
  <1>3. /\ s'.nonces = s.nonces /\ s'.scheduled = s.scheduled
        /\ s'.vetoes = s.vetoes /\ s'.vetoCount = s.vetoCount
    BY <1>1, <1>2 DEF IsStorage
  <1>4. \A k \in Keys : s.nonces[k] \in Nat
    BY <1>2 DEF IsStorage
  <1>5. Keeps(s, s')
    BY <1>2, <1>3, <1>4 DEF Keeps
  <1> QED
    BY <1>1, <1>5, EnterVotes

LEMMA ExecuteScheduledVotes ==
  ASSUME VInv, NEW h \in DOMAIN s.scheduled, ExecuteScheduled(h), IInv(Keys)'
  PROVE  VInv'
  <1>1. /\ ~ latch /\ latch' /\ frame'.saved = s
        /\ s' = [s EXCEPT !.scheduled = Drop(@, h)] /\ IsStorage(s)
    BY DEF ExecuteScheduled, Enter, VInv, IInv, TypeOK
  <1>2. /\ s'.rules = s.rules /\ s'.nonces = s.nonces /\ s'.scheduled = Drop(s.scheduled, h)
        /\ s'.vetoes = s.vetoes /\ s'.vetoCount = s.vetoCount
    BY <1>1 DEF IsStorage
  <1>3. /\ DOMAIN s'.scheduled \subseteq DOMAIN s.scheduled
        /\ \A x \in DOMAIN s'.scheduled : s'.scheduled[x] = s.scheduled[x]
    BY <1>2 DEF Drop
  <1>4. \A k \in Keys : s.nonces[k] \in Nat
    BY <1>1 DEF IsStorage
  <1>5. Keeps(s, s')
    BY <1>2, <1>3, <1>4 DEF Keeps
  <1> QED
    BY <1>1, <1>5, EnterVotes

\* What is scheduled is new, so nobody has voted on it.
LEMMA ScheduleVotes ==
  ASSUME NEW st, IsStorage(st), Votes(st), NEW h \in Hash, h.seq = st.nonces[h.key],
         NEW st2, IsStorage(st2), st2.rules = st.rules,
         st2.vetoes = st.vetoes, st2.vetoCount = st.vetoCount,
         st2.nonces = [st.nonces EXCEPT ![h.key] = @ + 1],
         DOMAIN st2.scheduled = DOMAIN st.scheduled \cup {h},
         \A x \in DOMAIN st.scheduled \ {h} : st2.scheduled[x] = st.scheduled[x],
         st2.scheduled[h].path # "THRESHOLD" => st2.scheduled[h].excluded = {}
  PROVE  Votes(st2)
  <1>1. h.key \in Keys /\ st.nonces \in [Keys -> Nat] /\ h.seq \in Nat
    BY DEF Hash, IsStorage
  <1>2. \A k \in Keys : st2.nonces[k] \in Nat /\ st2.nonces[k] >= st.nonces[k]
    BY <1>1
  <1>3. Behind(st2)
    <2> SUFFICES ASSUME NEW v \in st.vetoes
                 PROVE  v[1].seq < st2.nonces[v[1].key]
      BY DEF Behind
    <2>1. v[1] \in Hash
      BY DEF IsStorage
    <2>2. v[1].key \in Keys /\ v[1].seq \in Nat
      BY <2>1 DEF Hash
    <2>3. v[1].seq < st.nonces[v[1].key] /\ st.nonces[v[1].key] \in Nat
      BY <1>1, <2>2 DEF Votes, Behind
    <2> QED
      BY <1>2, <2>2, <2>3
  <1>4. \A x : VetoCount(st2, x) = VetoCount(st, x) /\ Voters(st2, x) = Voters(st, x)
    BY DEF VetoCount, Voters
  <1>5. Tallies(st2)
    BY <1>4 DEF Votes, Tallies
  <1>6. Voters(st, h) = {}
    <2> SUFFICES ASSUME NEW id \in Ids, <<h, id>> \in st.vetoes
                 PROVE  FALSE
      BY DEF Voters
    <2>1. <<h, id>>[1].seq < st.nonces[<<h, id>>[1].key]
      BY DEF Votes, Behind
    <2> QED
      BY <1>1, <2>1
  <1>7. VetoCount(st2, h) = 0
    BY <1>4, <1>6, FS_EmptySet DEF Votes, Tallies
  <1>8. 0 < EffectiveVetoThreshold(st2.rules)
    <2>1. EffectiveVetoThreshold(st2.rules) \in Nat \ {0}
      BY SomeVetoStops DEF IsStorage
    <2> QED
      BY <2>1
  <1>9. Unstopped(st2)
    <2> SUFFICES ASSUME NEW x \in DOMAIN st2.scheduled
                 PROVE  /\ st2.scheduled[x].epoch = st2.rules.epoch
                             => VetoCount(st2, x) < EffectiveVetoThreshold(st2.rules)
                        /\ Voters(st2, x) \cap st2.scheduled[x].excluded = {}
                        /\ st2.scheduled[x].path # "THRESHOLD" => st2.scheduled[x].excluded = {}
      BY DEF Unstopped
    <2>1. CASE x = h
      BY <1>4, <1>6, <1>7, <1>8, <2>1
    <2>2. CASE x # h
      <3>1. x \in DOMAIN st.scheduled /\ st2.scheduled[x] = st.scheduled[x]
        BY <2>2
      <3> QED
        BY <1>4, <3>1 DEF Votes, Unstopped
    <2> QED
      BY <2>1, <2>2
  <1> QED
    BY <1>3, <1>5, <1>9 DEF Votes

LEMMA ExecuteVotes ==
  ASSUME VInv, NEW key \in Keys, NEW batch \in Batches, NEW window \in Validities,
         NEW sigs \in SUBSET Ids, Execute(key, batch, window, sigs), IInv(Keys)'
  PROVE  VInv'
  <1> DEFINE h     == TxHash(s, key, batch, window)
             st    == [s EXCEPT !.nonces[key] = @ + 1]
             calls == CallsOf[batch]
             delay == Delay(s.rules, calls, sigs)
             path  == Path(s.rules, sigs)
             grant == [at |-> now, rules |-> s.rules, sigs |-> sigs]
             entry == [readyAt |-> now + delay, epoch |-> st.rules.epoch, path |-> path,
                       excluded |-> Excluded(path, calls), grant |-> grant]
  <1>1. ~ latch /\ Land(st, h, calls, path, delay, IsConfig(calls), grant)
    BY DEF Execute
  <1>2. /\ IsStorage(s) /\ IsStorage(s') /\ s.rules \in Rules /\ s.rules.epoch \in Nat
        /\ s.nonces \in [Keys -> Nat] /\ Votes(s)
    BY DEF VInv, IInv, TypeOK, IsStorage, Rules
  <1>3. window[1] \in Nat /\ window[2] \in Nat
    BY AccountAssumption
  <1>4. h \in Hash /\ h.key = key /\ h.seq = s.nonces[key]
    BY <1>2, <1>3 DEF TxHash, Hash
  <1>5. entry.path # "THRESHOLD" => entry.excluded = {}
    BY DEF Excluded
  <1> HIDE DEF h, delay, path, grant, calls
  <1>6. /\ st.nonces = [s.nonces EXCEPT ![key] = @ + 1]
        /\ st.rules = s.rules /\ st.scheduled = s.scheduled
        /\ st.vetoes = s.vetoes /\ st.vetoCount = s.vetoCount
        /\ \A x : /\ [st EXCEPT !.scheduled = x].nonces = st.nonces
                  /\ [st EXCEPT !.scheduled = x].rules = st.rules
                  /\ [st EXCEPT !.scheduled = x].vetoes = st.vetoes
                  /\ [st EXCEPT !.scheduled = x].vetoCount = st.vetoCount
                  /\ [st EXCEPT !.scheduled = x].scheduled = x
    BY <1>2 DEF IsStorage
  <1> HIDE DEF st
  <1>7. CASE delay = 0
    <2>1. latch' /\ frame'.saved = s /\ s' = st
      BY <1>1, <1>7 DEF Land, Enter
    <2>2. \A k \in Keys : s.nonces[k] <= s'.nonces[k]
      BY <1>2, <1>6, <2>1
    <2>3. Keeps(s, s')
      BY <1>6, <2>1, <2>2 DEF Keeps
    <2> QED
      BY <1>1, <2>1, <2>3, EnterVotes
  <1>8. CASE delay # 0
    <2>1. /\ s' = [st EXCEPT !.scheduled = Put(@, h, entry)]
          /\ latch' = latch /\ frame' = frame
      BY <1>1, <1>8 DEF Land
    <2> HIDE DEF entry
    <2>2. /\ s'.nonces = [s.nonces EXCEPT ![h.key] = @ + 1] /\ s'.rules = s.rules
          /\ s'.vetoes = s.vetoes /\ s'.vetoCount = s.vetoCount
          /\ s'.scheduled = Put(s.scheduled, h, entry)
      BY <1>4, <1>6, <2>1
    <2>3. /\ DOMAIN s'.scheduled = DOMAIN s.scheduled \cup {h}
          /\ s'.scheduled[h] = entry
          /\ \A x \in DOMAIN s.scheduled \ {h} : s'.scheduled[x] = s.scheduled[x]
      BY <2>2 DEF Put
    <2>4. Votes(s')
      BY <1>2, <1>4, <1>5, <2>2, <2>3, ScheduleVotes
    <2> QED
      BY <1>1, <2>1, <2>4 DEF VInv
  <1> QED
    BY <1>7, <1>8

-----------------------------------------------------------------------------
(* Votes *)

LEMMA ApproveVotes ==
  ASSUME VInv, NEW id, NEW h, Approve(id, h), IInv(Keys)'
  PROVE  VInv'
  <1>1. /\ s' = [s EXCEPT !.approvals = @ \cup {<<h, id>>}] /\ UNCHANGED <<latch, frame>>
        /\ IsStorage(s) /\ IsStorage(s')
    BY DEF Approve, RecordApproval, VInv, IInv, TypeOK
  <1>2. /\ s'.rules = s.rules /\ s'.nonces = s.nonces /\ s'.scheduled = s.scheduled
        /\ s'.vetoes = s.vetoes /\ s'.vetoCount = s.vetoCount
    BY <1>1 DEF IsStorage
  <1>3. \A k \in Keys : s.nonces[k] \in Nat
    BY <1>1 DEF IsStorage
  <1>4. Keeps(s, s')
    BY <1>2, <1>3 DEF Keeps
  <1>5. Votes(s')
    BY <1>1, <1>4, KeepsVotes DEF VInv
  <1> QED
    BY <1>1, <1>5 DEF VInv

\* What a veto does to the votes: one more voter, who may, and one more on the counter.
LEMMA VetoEffect ==
  ASSUME IInv(Keys), NEW id \in Ids, NEW h \in DOMAIN s.scheduled, Veto(id, h)
  PROVE  LET count == VetoCount(s, h) + 1
         IN  /\ h \in Hash /\ s.scheduled[h] \in ScheduleEntry
             /\ s'.rules = s.rules /\ s'.nonces = s.nonces
             /\ s'.vetoes = s.vetoes \cup {<<h, id>>}
             /\ s'.vetoCount = Put(s.vetoCount, h, count)
             /\ IF Stops(count) THEN /\ s'.dead = s.dead \cup {h}
                                     /\ s'.scheduled = Drop(s.scheduled, h)
                ELSE s'.dead = s.dead /\ s'.scheduled = s.scheduled
             /\ UNCHANGED <<latch, frame>>
  <1> DEFINE count == VetoCount(s, h) + 1
             voted == [s EXCEPT !.vetoes = @ \cup {<<h, id>>}, !.vetoCount = Put(@, h, count)]
  <1>1. IsStorage(s) /\ h \in Hash /\ s.scheduled[h] \in ScheduleEntry
    BY DEF IInv, TypeOK, IsStorage, IsPartial
  <1>2. /\ s' = IF Stops(count)
                THEN [voted EXCEPT !.dead = @ \cup {h}, !.scheduled = Drop(@, h)]
                ELSE voted
        /\ UNCHANGED <<latch, frame>>
    BY DEF Veto
  <1> HIDE DEF count
  <1>3. /\ voted.rules = s.rules /\ voted.nonces = s.nonces
        /\ voted.scheduled = s.scheduled /\ voted.dead = s.dead
        /\ voted.vetoes = s.vetoes \cup {<<h, id>>}
        /\ voted.vetoCount = Put(s.vetoCount, h, count)
        /\ voted = [rules |-> voted.rules, nonces |-> voted.nonces, approvals |-> voted.approvals,
                    scheduled |-> voted.scheduled, vetoes |-> voted.vetoes,
                    vetoCount |-> voted.vetoCount, dead |-> voted.dead]
    <2> DEFINE vetoes == s.vetoes \cup {<<h, id>>}
               counted == Put(s.vetoCount, h, count)
    <2>1. voted = [s EXCEPT !.vetoes = vetoes, !.vetoCount = counted]
      OBVIOUS
    <2> HIDE DEF vetoes, counted, voted
    <2>2. /\ voted.rules = s.rules /\ voted.nonces = s.nonces
          /\ voted.scheduled = s.scheduled /\ voted.dead = s.dead
          /\ voted.vetoes = vetoes /\ voted.vetoCount = counted
          /\ voted = [rules |-> voted.rules, nonces |-> voted.nonces, approvals |-> voted.approvals,
                      scheduled |-> voted.scheduled, vetoes |-> voted.vetoes,
                      vetoCount |-> voted.vetoCount, dead |-> voted.dead]
      BY <1>1, <2>1 DEF IsStorage
    <2> QED
      BY <2>2 DEF vetoes, counted
  <1> HIDE DEF voted
  <1>4. LET dropped == [voted EXCEPT !.dead = @ \cup {h}, !.scheduled = Drop(@, h)]
        IN  /\ dropped.rules = voted.rules /\ dropped.nonces = voted.nonces
            /\ dropped.vetoes = voted.vetoes /\ dropped.vetoCount = voted.vetoCount
            /\ dropped.dead = voted.dead \cup {h} /\ dropped.scheduled = Drop(voted.scheduled, h)
    BY <1>3
  <1>5. CASE Stops(count)
    BY <1>1, <1>2, <1>3, <1>4, <1>5 DEF count
  <1>6. CASE ~ Stops(count)
    BY <1>1, <1>2, <1>3, <1>6 DEF count
  <1> QED
    BY <1>5, <1>6

\* After a veto the counter of its hash is one more and still the number of voters.
LEMMA VetoCounts ==
  ASSUME VInv, NEW id \in Ids, NEW h \in DOMAIN s.scheduled, Veto(id, h)
  PROVE  /\ Voters(s', h) = Voters(s, h) \cup {id} /\ id \notin Voters(s, h)
         /\ VetoCount(s', h) = VetoCount(s, h) + 1 /\ VetoCount(s, h) \in Nat
         /\ VetoCount(s', h) = Cardinality(Voters(s', h))
         /\ \A x : x # h => Voters(s', x) = Voters(s, x) /\ VetoCount(s', x) = VetoCount(s, x)
         /\ Voters(s', h) \cap s.scheduled[h].excluded = {}
  <1>1. /\ h \in Hash
        /\ s'.vetoes = s.vetoes \cup {<<h, id>>}
        /\ s'.vetoCount = Put(s.vetoCount, h, VetoCount(s, h) + 1)
    BY VetoEffect DEF VInv
  <1>2. MayVeto(id, h)
    BY DEF Veto
  <1>3. id \notin Voters(s, h)
    BY <1>2 DEF MayVeto, Voters
  <1>4. Voters(s', h) = Voters(s, h) \cup {id}
    BY <1>1 DEF Voters
  <1>5. \A x : x # h => Voters(s', x) = Voters(s, x)
    BY <1>1 DEF Voters
  <1>6. VetoCount(s', h) = VetoCount(s, h) + 1
    BY <1>1 DEF VetoCount, Put
  <1>7. \A x : x # h => VetoCount(s', x) = VetoCount(s, x)
    BY <1>1 DEF VetoCount, Put
  <1>8. VetoCount(s, h) = Cardinality(Voters(s, h)) /\ VetoCount(s, h) \in Nat
    BY <1>1, VotersFinite DEF VInv, Votes, Tallies
  <1>9. Cardinality(Voters(s, h) \cup {id}) = Cardinality(Voters(s, h)) + 1
    BY <1>3, VotersFinite, FS_AddElement
  <1>10. Voters(s', h) \cap s.scheduled[h].excluded = {}
    <2>1. /\ Voters(s, h) \cap s.scheduled[h].excluded = {}
          /\ s.scheduled[h].path # "THRESHOLD" => s.scheduled[h].excluded = {}
      BY DEF VInv, Votes, Unstopped
    <2> QED
      BY <1>2, <1>4, <2>1 DEF MayVeto
  <1> QED
    BY <1>3, <1>4, <1>5, <1>6, <1>7, <1>8, <1>9, <1>10

LEMMA VetoVotes ==
  ASSUME VInv, NEW id \in Ids, NEW h \in DOMAIN s.scheduled, Veto(id, h), IInv(Keys)'
  PROVE  VInv'
  <1> DEFINE count == VetoCount(s, h) + 1
  <1>1. /\ IsStorage(s) /\ h \in Hash
        /\ s'.rules = s.rules /\ s'.nonces = s.nonces
        /\ s'.vetoes = s.vetoes \cup {<<h, id>>}
        /\ IF Stops(count) THEN s'.scheduled = Drop(s.scheduled, h) ELSE s'.scheduled = s.scheduled
        /\ UNCHANGED <<latch, frame>>
    BY VetoEffect DEF VInv, IInv, TypeOK
  <1>2. /\ VetoCount(s', h) = count /\ VetoCount(s, h) \in Nat
        /\ VetoCount(s', h) = Cardinality(Voters(s', h))
        /\ \A x : x # h => Voters(s', x) = Voters(s, x) /\ VetoCount(s', x) = VetoCount(s, x)
        /\ Voters(s', h) \cap s.scheduled[h].excluded = {}
    BY VetoCounts
  <1> HIDE DEF count
  <1>3. Behind(s')
    <2> SUFFICES ASSUME NEW v \in s'.vetoes
                 PROVE  v[1].seq < s.nonces[v[1].key]
      BY <1>1 DEF Behind
    <2>1. CASE v \in s.vetoes
      BY <2>1 DEF VInv, Votes, Behind
    <2>2. CASE v = <<h, id>>
      <3>1. h.key \in Keys
        BY <1>1 DEF Hash
      <3> QED
        BY <2>2, <3>1 DEF VInv, IInv, Sound, Spent
    <2> QED
      BY <1>1, <2>1, <2>2
  <1>4. Tallies(s')
    <2> SUFFICES ASSUME NEW x \in Hash
                 PROVE  VetoCount(s', x) = Cardinality(Voters(s', x))
      BY DEF Tallies
    <2> QED
      BY <1>2 DEF VInv, Votes, Tallies
  <1>5. Unstopped(s')
    <2> SUFFICES ASSUME NEW x \in DOMAIN s'.scheduled
                 PROVE  /\ s'.scheduled[x].epoch = s'.rules.epoch
                             => VetoCount(s', x) < EffectiveVetoThreshold(s'.rules)
                        /\ Voters(s', x) \cap s'.scheduled[x].excluded = {}
                        /\ s'.scheduled[x].path # "THRESHOLD" => s'.scheduled[x].excluded = {}
      BY DEF Unstopped
    <2>1. /\ x \in DOMAIN s.scheduled /\ s'.scheduled[x] = s.scheduled[x]
          /\ Stops(count) => x # h
      BY <1>1 DEF Drop
    <2>2. CASE x # h
      BY <1>1, <1>2, <2>1, <2>2 DEF VInv, Votes, Unstopped
    <2>3. CASE x = h
      <3>1. EffectiveVetoThreshold(s.rules) \in Nat /\ count \in Nat
        BY <1>1, <1>2, SomeVetoStops DEF IsStorage, count
      <3>2. count < EffectiveVetoThreshold(s.rules)
        BY <2>1, <2>3, <3>1 DEF Stops
      <3> QED
        BY <1>1, <1>2, <2>1, <2>3, <3>2 DEF VInv, Votes, Unstopped
    <2> QED
      BY <2>2, <2>3
  <1> QED
    BY <1>1, <1>3, <1>4, <1>5 DEF VInv, Votes

-----------------------------------------------------------------------------
(* The invariant, and what follows from it *)

LEMMA InitVotes == Init => VInv
  <1> SUFFICES ASSUME Init
               PROVE  VInv
    OBVIOUS
  <1>1. s = EmptyStorage /\ latch = FALSE
    BY DEF Init
  <1>2. s.vetoes = {} /\ DOMAIN s.scheduled = {} /\ DOMAIN s.vetoCount = {}
    BY <1>1 DEF EmptyStorage
  <1>3. \A h : Voters(s, h) = {} /\ VetoCount(s, h) = 0
    BY <1>2 DEF Voters, VetoCount
  <1>4. Votes(s)
    BY <1>2, <1>3, FS_EmptySet DEF Votes, Behind, Tallies, Unstopped
  <1> QED
    BY <1>1, <1>4, InitInv DEF VInv

LEMMA NextVotes == VInv /\ [Next]_vars => VInv'
  <1> SUFFICES ASSUME VInv, [Next]_vars
               PROVE  VInv'
    OBVIOUS
  <1>0. IInv(Keys) /\ IInv(Keys)'
    BY NextInv DEF VInv
  <1>1. ASSUME NEW init \in Inits, Initialize(init) PROVE VInv'
    BY <1>0, <1>1, InitializeVotes
  <1>2. CASE CallStep
    BY <1>0, <1>2, CallVotes
  <1>3. CASE Finish
    BY <1>0, <1>3 DEF Finish, VInv
  <1>4. CASE Abort
    BY <1>0, <1>4 DEF Abort, VInv
  <1>5. ASSUME NEW key \in Keys, NEW batch \in Batches, NEW window \in Validities,
               NEW sigs \in SUBSET Ids, Execute(key, batch, window, sigs)
        PROVE  VInv'
    BY <1>0, <1>5, ExecuteVotes
  <1>6. ASSUME NEW h \in DOMAIN s.scheduled, ExecuteScheduled(h) PROVE VInv'
    BY <1>0, <1>6, ExecuteScheduledVotes
  <1>7. ASSUME NEW id, NEW h, Approve(id, h) PROVE VInv'
    BY <1>0, <1>7, ApproveVotes
  <1>8. ASSUME NEW id \in Ids, NEW h \in DOMAIN s.scheduled, Veto(id, h) PROVE VInv'
    BY <1>0, <1>8, VetoVotes
  <1>9. CASE Tick
    BY <1>0, <1>9 DEF Tick, VInv
  <1>10. CASE UNCHANGED vars
    BY <1>0, <1>10 DEF vars, VInv
  <1> QED
    BY <1>1, <1>2, <1>3, <1>4, <1>5, <1>6, <1>7, <1>8, <1>9, <1>10 DEF Next, Step

\* The counter of vetoes is the number of voters, and what may still run has too few.
THEOREM VotesInvariance == Spec => []VInv
  BY InitVotes, NextVotes, PTL DEF Spec

\* A change that may still run has fewer vetoes than stop it, for any thresholds: the
\* counter is kept by hand, and the veto that reaches the threshold takes the entry (veto).
THEOREM VetoStopsCorrect == Spec => []VetoStops
  <1>1. VInv => VetoStops
    <2> SUFFICES ASSUME VInv, NEW h \in DOMAIN s.scheduled, s.scheduled[h].epoch = s.rules.epoch
                 PROVE  Cardinality(Voters(s, h)) < EffectiveVetoThreshold(s.rules)
      BY DEF VetoStops
    <2>1. h \in Hash
      BY DEF VInv, IInv, TypeOK, IsStorage, IsPartial
    <2> QED
      BY <2>1 DEF VInv, Votes, Tallies, Unstopped
  <1> QED
    BY <1>1, VotesInvariance, PTL

\* Only a veto takes an entry without the account's own call.
LEMMA OnlyVetoDrops ==
  ASSUME IInv(Keys), [Next]_vars, UNCHANGED <<latch, frame>>,
         NEW h \in DOMAIN s.scheduled, h \notin DOMAIN s'.scheduled
  PROVE  \E id \in Ids : Veto(id, h) /\ Stops(VetoCount(s, h) + 1)
  <1>0. IsStorage(s) /\ h \in Hash
    BY DEF IInv, TypeOK, IsStorage, IsPartial
  <1>1. ASSUME NEW init \in Inits, Initialize(init) PROVE FALSE
    BY <1>1 DEF Initialize, Enter
  <1>2. CASE CallStep
    <2>1. PICK op : Calling(op)
      BY <1>2 DEF CallStep, CallInitSigner, CallAddSigner, CallRemoveSigner, CallReplaceSigner,
        CallSetThreshold, CallSetVetoThreshold, CallSetDelays, CallSetImplementation,
        CallFreezeImplementation, CallCancel, CallElsewhere
    <2>2. latch /\ IsFrame(frame) /\ frame.rest # << >> /\ frame' = [frame EXCEPT !.rest = Tail(@)]
      BY <2>1 DEF Calling, IInv, TypeOK
    <2>3. PICK S : frame.rest \in Seq(S)
      BY <2>2 DEF IsFrame
    <2>4. Len(Tail(frame.rest)) = Len(frame.rest) - 1 /\ Len(frame.rest) \in Nat
      BY <2>2, <2>3, HeadTailProperties, LenProperties
    <2>5. frame'.rest = Tail(frame.rest) /\ frame' = frame
      BY <2>2 DEF IsFrame
    <2>6. frame.rest = Tail(frame.rest)
      BY <2>5
    <2>7. Len(frame.rest) = Len(frame.rest) - 1
      BY <2>4, <2>6, Zenon
    <2> QED
      BY <2>4, <2>7
  <1>3. CASE Finish \/ Abort
    BY <1>3 DEF Finish, Abort
  <1>4. ASSUME NEW key \in Keys, NEW batch \in Batches, NEW window \in Validities,
               NEW sigs \in SUBSET Ids, Execute(key, batch, window, sigs)
        PROVE  FALSE
    <2> DEFINE g     == TxHash(s, key, batch, window)
               st    == [s EXCEPT !.nonces[key] = @ + 1]
               calls == CallsOf[batch]
               delay == Delay(s.rules, calls, sigs)
               path  == Path(s.rules, sigs)
               grant == [at |-> now, rules |-> s.rules, sigs |-> sigs]
    <2>1. ~ latch /\ Land(st, g, calls, path, delay, IsConfig(calls), grant)
      BY <1>4 DEF Execute
    <2>2. st.scheduled = s.scheduled /\ \A x : [st EXCEPT !.scheduled = x].scheduled = x
      BY <1>0 DEF IsStorage
    <2> HIDE DEF g, st, calls, delay, path, grant
    <2>3. PICK entry : s' = [st EXCEPT !.scheduled = Put(@, g, entry)]
      BY <2>1 DEF Land, Enter
    <2>4. s'.scheduled = Put(s.scheduled, g, entry)
      BY <2>2, <2>3
    <2> QED
      BY <2>4 DEF Put
  <1>5. ASSUME NEW g \in DOMAIN s.scheduled, ExecuteScheduled(g) PROVE FALSE
    BY <1>5 DEF ExecuteScheduled, Enter
  <1>6. ASSUME NEW id, NEW g, Approve(id, g) PROVE FALSE
    BY <1>0, <1>6 DEF Approve, RecordApproval, IsStorage
  <1>7. ASSUME NEW id \in Ids, NEW g \in DOMAIN s.scheduled, Veto(id, g)
        PROVE  Veto(id, h) /\ Stops(VetoCount(s, h) + 1)
    <2>1. IF Stops(VetoCount(s, g) + 1) THEN s'.scheduled = Drop(s.scheduled, g)
          ELSE s'.scheduled = s.scheduled
      BY <1>7, VetoEffect
    <2>2. Stops(VetoCount(s, g) + 1) /\ h = g
      BY <2>1 DEF Drop
    <2> QED
      BY <1>7, <2>2
  <1>8. CASE Tick \/ UNCHANGED vars
    BY <1>8 DEF Tick, vars
  <1> QED
    BY <1>1, <1>2, <1>3, <1>4, <1>5, <1>6, <1>7, <1>8 DEF Next, Step

\* Without the account's own call a change is stopped only by as many different vetoers
\* as the rules ask for, the signer it removes not among them (veto, _effectiveVetoThreshold).
THEOREM VetoNeedsQuorumCorrect == Spec => VetoNeedsQuorum
  <1>1. VInv /\ [Next]_vars =>
          [ \A h \in DOMAIN s.scheduled :
              UNCHANGED <<latch, frame>> /\ h \notin DOMAIN s'.scheduled =>
                /\ h \in s'.dead
                /\ Cardinality(Voters(s', h) \ s.scheduled[h].excluded)
                     >= EffectiveVetoThreshold(s.rules) ]_vars
    <2> SUFFICES ASSUME VInv, [Next]_vars, NEW h \in DOMAIN s.scheduled,
                        UNCHANGED <<latch, frame>>, h \notin DOMAIN s'.scheduled
                 PROVE  /\ h \in s'.dead
                        /\ Cardinality(Voters(s', h) \ s.scheduled[h].excluded)
                             >= EffectiveVetoThreshold(s.rules)
      OBVIOUS
    <2>1. IInv(Keys)
      BY DEF VInv
    <2>2. PICK id \in Ids : Veto(id, h) /\ Stops(VetoCount(s, h) + 1)
      BY <2>1, OnlyVetoDrops
    <2>3. s'.dead = s.dead \cup {h}
      BY <2>1, <2>2, VetoEffect
    <2>4. /\ VetoCount(s', h) = VetoCount(s, h) + 1
          /\ VetoCount(s', h) = Cardinality(Voters(s', h))
          /\ Voters(s', h) \cap s.scheduled[h].excluded = {}
      BY <2>2, VetoCounts
    <2>5. Voters(s', h) \ s.scheduled[h].excluded = Voters(s', h)
      BY <2>4
    <2> QED
      BY <2>2, <2>3, <2>4, <2>5 DEF Stops
  <1> QED
    BY <1>1, VotesInvariance, PTL DEF Spec, VetoNeedsQuorum


-----------------------------------------------------------------------------
(* Recovery: swapping a signer for one with the same permissions *)

Swapped(r, call) == AddSigner(RemoveSigner(r, call.id), call.input)

IsSwap(r, call) ==
  /\ call \in Call /\ call.op = "replaceSigner" /\ Exists(r, call.id)
  /\ r.signers[call.id].permissions = call.input.permissions

\* Taken out of a counter and put back, the number is what it was.
LEMMA WrapBack ==
  ASSUME NEW n \in Counter
  PROVE  Wrap(Wrap(n + (UINT16 - 1)) + 1) = n
  BY RulesAssumption DEF Wrap, Counter

\* A swap moves the registry and nothing else.
LEMMA SwapFields ==
  ASSUME NEW r \in Rules, Indexed(r), NEW call, IsSwap(r, call)
  PROVE  LET q == Swapped(r, call)
         IN  q = [r EXCEPT !.signers = q.signers, !.signerList = q.signerList]
  <1> DEFINE p == call.input.permissions
             removed == RemoveSigner(r, call.id)
             q == AddSigner(removed, call.input)
             less == [t \in Tallied |->
                        IF t \subseteq p THEN Wrap(r.counts[t] + (UINT16 - 1)) ELSE r.counts[t]]
             again == [t \in Tallied |->
                        IF t \subseteq p THEN Wrap(less[t] + 1) ELSE less[t]]
  <1>1. removed = [r EXCEPT !.counts = less, !.signers = removed.signers,
                            !.signerList = removed.signerList]
    BY DEF IsSwap, RemoveSigner, Count, Rules
  <1>2. again = r.counts
    <2>1. r.counts \in [Tallied -> Counter]
      BY DEF Rules
    <2>2. \A t \in Tallied : again[t] = r.counts[t]
      BY <2>1, WrapBack
    <2> QED
      BY <2>1, <2>2
  <1> HIDE DEF less
  <1>3. removed.counts = less
    BY <1>1 DEF Rules
  <1>4. q = [removed EXCEPT !.counts = again, !.signers = q.signers, !.signerList = q.signerList]
    <2>1. removed \in Rules
      BY RemoveSignerType, CallTypes DEF IsSwap
    <2> HIDE DEF removed
    <2> QED
      BY <1>3, <2>1 DEF AddSigner, Count, Rules
  <1> HIDE DEF removed, q, again
  <1>5. q = [r EXCEPT !.signers = q.signers, !.signerList = q.signerList]
    BY <1>1, <1>2, <1>4 DEF Rules
  <1> QED
    BY <1>5 DEF Swapped, q, removed

\* Who holds what after a swap.
LEMMA SwapSigners ==
  ASSUME NEW r \in Rules, Counted(r), Indexed(r), NEW call, IsSwap(r, call),
         ~ Exists(RemoveSigner(r, call.id), call.input.id)
  PROVE  LET q == Swapped(r, call)
         IN  /\ call.id \in Ids /\ call.input.id \in Ids
             /\ q.signers[call.input.id].permissions = call.input.permissions
             /\ call.input.id # call.id =>
                  /\ q.signers[call.id].permissions = {}
                  /\ r.signers[call.input.id].permissions = {}
             /\ \A x \in Ids \ {call.id, call.input.id} :
                  /\ q.signers[x].permissions = r.signers[x].permissions
                  /\ Exists(q, x) <=> Exists(r, x)
             /\ call.input.id # call.id => ~ Exists(q, call.id)
  <1> DEFINE removed == RemoveSigner(r, call.id)
             q == AddSigner(removed, call.input)
             moved == r.signerList[Len(r.signerList)]
             index == r.signers[call.id].index
  <1>1. call.id \in Ids /\ call.input \in SignerInput /\ Exists(r, call.id)
    BY CallTypes DEF IsSwap
  <1>2. call.input.id \in Ids
    BY <1>1 DEF SignerInput
  <1>3. /\ removed.signers[call.id] = NoSigner
        /\ \A x \in Ids \ {call.id} :
             removed.signers[x] = IF x = moved THEN [r.signers[x] EXCEPT !.index = index]
                                  ELSE r.signers[x]
    BY <1>1, RemovedSigners
  <1>4. removed \in Rules
    BY <1>1, RemoveSignerType
  <1>5. /\ q.signers[call.input.id] = [kind |-> KindOf(call.input.id),
             permissions |-> call.input.permissions, since |-> removed.epoch,
             index |-> Len(removed.signerList) + 1]
        /\ \A x \in Ids \ {call.input.id} : q.signers[x] = removed.signers[x]
    <2> HIDE DEF removed
    <2> QED
      BY <1>1, <1>4, Added
  <1>6. \A x \in Ids : r.signers[x] \in Signer
    BY DEF Rules
  <1> HIDE DEF removed, q, moved, index
  <1>7. \A x \in Ids \ {call.id} :
          /\ removed.signers[x].permissions = r.signers[x].permissions
          /\ removed.signers[x].kind = r.signers[x].kind
    BY <1>3, <1>6 DEF Signer
  <1>8. removed.signers[call.id].permissions = {} /\ removed.signers[call.id].kind = "NONE"
    BY <1>3 DEF NoSigner
  <1>9. \A x \in Ids \ {call.id, call.input.id} :
          /\ q.signers[x].permissions = r.signers[x].permissions
          /\ Exists(q, x) <=> Exists(r, x)
    BY <1>5, <1>7 DEF Exists
  <1>10. call.input.id # call.id =>
           q.signers[call.id].permissions = {} /\ ~ Exists(q, call.id)
    BY <1>1, <1>5, <1>8 DEF Exists
  <1>11. call.input.id # call.id => r.signers[call.input.id].permissions = {}
    <2> SUFFICES ASSUME call.input.id # call.id PROVE r.signers[call.input.id].permissions = {}
      OBVIOUS
    <2>1. ~ Exists(r, call.input.id)
      BY <1>2, <1>7 DEF Exists, removed
    <2>2. r.signers[call.input.id] = NoSigner
      BY <1>2, <2>1 DEF Indexed
    <2> QED
      BY <2>2 DEF NoSigner
  <1>12. q.signers[call.input.id].permissions = call.input.permissions
    BY <1>5
  <1> QED
    BY <1>1, <1>2, <1>9, <1>10, <1>11, <1>12 DEF Swapped, q, removed

\* As many signers hold exactly p as before, and at most one is new.
LEMMA SwapCounts ==
  ASSUME NEW r \in Rules, Counted(r), Indexed(r), NEW call, IsSwap(r, call),
         ~ Exists(RemoveSigner(r, call.id), call.input.id),
         NEW q, q.signers = Swapped(r, call).signers
  PROVE  /\ \A p \in (SUBSET Permissions) \ {{}} :
              Cardinality({id \in Ids : r.signers[id].permissions = p})
                = Cardinality({id \in Ids : q.signers[id].permissions = p})
         /\ Cardinality({id \in Ids : Exists(q, id) /\ ~ Exists(r, id)}) <= 1
  <1> DEFINE x == call.id
             y == call.input.id
             w == Swapped(r, call)
  <1>0. /\ x \in Ids /\ y \in Ids
        /\ w.signers[y].permissions = call.input.permissions
        /\ y # x => w.signers[x].permissions = {} /\ r.signers[y].permissions = {}
        /\ \A z \in Ids \ {x, y} :
             /\ w.signers[z].permissions = r.signers[z].permissions
             /\ Exists(w, z) <=> Exists(r, z)
        /\ y # x => ~ Exists(w, x)
    BY SwapSigners
  <1> HIDE DEF w
  <1>1. /\ x \in Ids /\ y \in Ids
        /\ q.signers[y].permissions = call.input.permissions
        /\ r.signers[x].permissions = call.input.permissions
        /\ y # x => q.signers[x].permissions = {} /\ r.signers[y].permissions = {}
        /\ \A z \in Ids \ {x, y} :
             /\ q.signers[z].permissions = r.signers[z].permissions
             /\ Exists(q, z) <=> Exists(r, z)
        /\ y # x => ~ Exists(q, x)
        /\ Exists(r, x)
    <2>1. q.signers = w.signers
      BY DEF w
    <2> QED
      BY <1>0, <2>1 DEF IsSwap, Exists
  <1> HIDE DEF x, y
  <1>2. ASSUME NEW p \in (SUBSET Permissions) \ {{}}
        PROVE  Cardinality({id \in Ids : r.signers[id].permissions = p})
                 = Cardinality({id \in Ids : q.signers[id].permissions = p})
    <2> DEFINE B == {id \in Ids : r.signers[id].permissions = p}
               A == {id \in Ids : q.signers[id].permissions = p}
    <2>1. IsFiniteSet(B)
      BY FS_Subset, RulesAssumption
    <2>2. CASE x = y \/ p # call.input.permissions
      <3>1. A = B
        BY <1>1, <1>2, <2>2
      <3> QED
        BY <3>1
    <2>3. CASE x # y /\ p = call.input.permissions
      <3>1. x \in B /\ y \notin B /\ A = (B \ {x}) \cup {y}
        BY <1>1, <1>2, <2>3
      <3> HIDE DEF A, B
      <3>2. IsFiniteSet(B \ {x}) /\ Cardinality(B \ {x}) = Cardinality(B) - 1
            /\ Cardinality(B) \in Nat
        BY <2>1, <3>1, FS_RemoveElement, FS_CardinalityType
      <3>3. Cardinality(A) = Cardinality(B \ {x}) + 1
        BY <3>1, <3>2, FS_AddElement
      <3> QED
        BY <3>2, <3>3 DEF A, B
    <2> QED
      BY <2>2, <2>3
  <1>3. Cardinality({id \in Ids : Exists(q, id) /\ ~ Exists(r, id)}) <= 1
    <2> DEFINE N == {id \in Ids : Exists(q, id) /\ ~ Exists(r, id)}
    <2>1. N \subseteq {y}
      BY <1>1
    <2>2. IsFiniteSet({y}) /\ Cardinality({y}) = 1
      BY FS_Singleton
    <2>3. Cardinality(N) <= Cardinality({y})
      BY <2>1, <2>2, FS_Subset
    <2> QED
      BY <2>2, <2>3
  <1> QED
    BY <1>2, <1>3

-----------------------------------------------------------------------------
(* What recovery keeps *)

\* Below the threshold only a recovery is agreed to.
Agreed(grant, calls) ==
  \/ OpensThreshold(grant.rules, grant.sigs)
  \/ /\ OpensRecovery(grant.rules, calls, grant.sigs)
     /\ CheckConfig(grant.rules)

AgreedAll(st) == \A h \in DOMAIN st.scheduled : Agreed(st.scheduled[h].grant, CallsOf[h.batch])

\* A recovery that runs has the swap before it, or has just made it.
Swapping(f, st) ==
  \E call \in Call :
    /\ IsSwap(f.grant.rules, call)
    /\ Recoverers(f.grant.rules, f.grant.sigs) # {}
    /\ CheckConfig(f.grant.rules)
    /\ \/ f.rest = <<call>> /\ st.rules = f.grant.rules
       \/ /\ f.rest = << >> /\ st.rules = AdvanceEpoch(Swapped(f.grant.rules, call))
          /\ ~ Exists(RemoveSigner(f.grant.rules, call.id), call.input.id)

Recovering(f, st) ==
  f.origin # "initialize" /\ ~ OpensThreshold(f.grant.rules, f.grant.sigs) => Swapping(f, st)

RInv ==
  /\ IInv(Keys)
  /\ AgreedAll(s)
  /\ latch => AgreedAll(frame.saved) /\ Recovering(frame, s)

LEMMA StillAgreed ==
  ASSUME NEW st, NEW st2, AgreedAll(st),
         DOMAIN st2.scheduled \subseteq DOMAIN st.scheduled,
         \A h \in DOMAIN st2.scheduled : st2.scheduled[h] = st.scheduled[h]
  PROVE  AgreedAll(st2)
  BY DEF AgreedAll

\* What was agreed below the threshold is one call.
LEMMA OneSwap ==
  ASSUME NEW r, NEW sigs, NEW calls \in Seq(Call), OpensRecovery(r, calls, sigs)
  PROVE  \E call \in Call : calls = <<call>> /\ IsSwap(r, call)
  <1>1. Len(calls) = 1 /\ calls[1].op = "replaceSigner" /\ Exists(r, calls[1].id)
        /\ r.signers[calls[1].id].permissions = calls[1].input.permissions
    BY DEF OpensRecovery, RecoveryOnly
  <1>2. calls[1] \in Call
    <2>1. 1 \in 1 .. Len(calls)
      BY <1>1
    <2> QED
      BY <2>1, ElementOfSeq
  <1>3. calls = <<calls[1]>>
    BY <1>1, <1>2, SeqEqual
  <1> QED
    BY <1>1, <1>2, <1>3 DEF IsSwap

-----------------------------------------------------------------------------
(* Recovery, step by step *)

\* A transaction that starts runs what was agreed, under the rules it was agreed under.
LEMMA EnterRecovery ==
  ASSUME RInv, IInv(Keys)', NEW h \in Hash, NEW origin, NEW config, NEW started, NEW grant,
         Enter(origin, h, CallsOf[h.batch], config, started, grant),
         Agreed(grant, CallsOf[h.batch]), grant.rules = started.rules,
         DOMAIN s'.scheduled \subseteq DOMAIN s.scheduled,
         \A x \in DOMAIN s'.scheduled : s'.scheduled[x] = s.scheduled[x]
  PROVE  RInv'
  <1>1. /\ frame'.saved = s /\ s' = started
        /\ frame'.rest = CallsOf[h.batch] /\ frame'.grant = grant
    BY DEF Enter
  <1>2. AgreedAll(s')
    BY StillAgreed DEF RInv
  <1>3. CallsOf[h.batch] \in Seq(Call)
    BY AccountAssumption DEF Hash
  <1>4. Recovering(frame', s')
    <2> SUFFICES ASSUME ~ OpensThreshold(grant.rules, grant.sigs)
                 PROVE  Swapping(frame', s')
      BY <1>1 DEF Recovering
    <2>1. OpensRecovery(grant.rules, CallsOf[h.batch], grant.sigs) /\ CheckConfig(grant.rules)
      BY DEF Agreed
    <2>2. PICK call \in Call : CallsOf[h.batch] = <<call>> /\ IsSwap(grant.rules, call)
      BY <1>3, <2>1, OneSwap
    <2> QED
      BY <1>1, <2>1, <2>2 DEF Swapping, OpensRecovery
  <1> QED
    BY <1>1, <1>2, <1>4 DEF RInv

LEMMA InitializeRecovery ==
  ASSUME RInv, NEW init \in Inits, Initialize(init), IInv(Keys)'
  PROVE  RInv'
  <1>1. /\ frame'.saved = s /\ frame'.origin = "initialize"
        /\ \E rules : s' = [s EXCEPT !.rules = rules]
    BY DEF Initialize, Enter
  <1>2. s'.scheduled = s.scheduled
    BY <1>1 DEF RInv, IInv, TypeOK, IsStorage
  <1>3. AgreedAll(s')
    BY <1>2, StillAgreed DEF RInv
  <1> QED
    BY <1>1, <1>3 DEF RInv, Recovering

LEMMA ExecuteRecovery ==
  ASSUME RInv, NEW key \in Keys, NEW batch \in Batches, NEW window \in Validities,
         NEW sigs \in SUBSET Ids, Execute(key, batch, window, sigs), IInv(Keys)'
  PROVE  RInv'
  <1> DEFINE h     == TxHash(s, key, batch, window)
             st    == [s EXCEPT !.nonces[key] = @ + 1]
             calls == CallsOf[batch]
             delay == Delay(s.rules, calls, sigs)
             path  == Path(s.rules, sigs)
             grant == [at |-> now, rules |-> s.rules, sigs |-> sigs]
             entry == [readyAt |-> now + delay, epoch |-> st.rules.epoch, path |-> path,
                       excluded |-> Excluded(path, calls), grant |-> grant]
  <1>1. /\ ~ latch /\ s.rules.epoch # 0
        /\ Land(st, h, calls, path, delay, IsConfig(calls), grant)
        /\ OpensThreshold(s.rules, sigs) \/ OpensRecovery(s.rules, calls, sigs)
    BY DEF Execute, Created
  <1>2. IsStorage(s) /\ s.rules.epoch \in Nat /\ s.nonces \in [Keys -> Nat] /\ Usable(s)
    BY <1>1 DEF RInv, IInv, TypeOK, IsStorage, Rules
  <1>3. window[1] \in Nat /\ window[2] \in Nat
    BY AccountAssumption
  <1>4. h \in Hash /\ h.batch = batch
    BY <1>2, <1>3 DEF TxHash, Hash
  <1>5. Agreed(grant, CallsOf[h.batch])
    BY <1>1, <1>2, <1>4 DEF Agreed, Usable
  <1>6. entry.grant = grant /\ grant.rules = s.rules
    OBVIOUS
  <1> HIDE DEF h, delay, path, grant, entry
  <1>7. /\ st.rules = s.rules /\ st.scheduled = s.scheduled
        /\ \A x : [st EXCEPT !.scheduled = x].scheduled = x
    BY <1>2 DEF IsStorage
  <1> HIDE DEF st
  <1>8. CASE delay = 0
    <2>1. Enter("execute", h, CallsOf[h.batch], IsConfig(calls), st, grant) /\ s' = st
      BY <1>1, <1>4, <1>8 DEF Land, Enter
    <2> HIDE DEF calls
    <2>2. /\ DOMAIN s'.scheduled \subseteq DOMAIN s.scheduled
          /\ \A x \in DOMAIN s'.scheduled : s'.scheduled[x] = s.scheduled[x]
      BY <1>7, <2>1
    <2>3. grant.rules = st.rules
      BY <1>6, <1>7
    <2> QED
      BY <1>4, <1>5, <2>1, <2>2, <2>3, EnterRecovery
  <1>9. CASE delay # 0
    <2>1. s' = [st EXCEPT !.scheduled = Put(@, h, entry)] /\ latch' = latch
      BY <1>1, <1>9 DEF Land, entry
    <2>2. s'.scheduled = Put(s.scheduled, h, entry)
      BY <1>7, <2>1
    <2>3. /\ DOMAIN s'.scheduled = DOMAIN s.scheduled \cup {h}
          /\ s'.scheduled[h] = entry
          /\ \A x \in DOMAIN s.scheduled \ {h} : s'.scheduled[x] = s.scheduled[x]
      BY <2>2 DEF Put
    <2>4. AgreedAll(s')
      BY <1>5, <1>6, <2>3 DEF RInv, AgreedAll
    <2> QED
      BY <1>1, <2>1, <2>4 DEF RInv
  <1> QED
    BY <1>8, <1>9

LEMMA ExecuteScheduledRecovery ==
  ASSUME RInv, NEW h \in DOMAIN s.scheduled, ExecuteScheduled(h), IInv(Keys)'
  PROVE  RInv'
  <1> DEFINE grant == s.scheduled[h].grant
             started == [s EXCEPT !.scheduled = Drop(@, h)]
  <1>1. /\ ~ latch /\ s.scheduled[h].epoch = s.rules.epoch
        /\ Enter("scheduled", h, CallsOf[h.batch], TRUE, started, grant)
    BY DEF ExecuteScheduled
  <1>2. h \in Hash /\ IsStorage(s) /\ Pinned(s)
    BY DEF RInv, IInv, TypeOK, IsStorage, IsPartial, Sound
  <1>3. started.rules = s.rules /\ started.scheduled = Drop(s.scheduled, h) /\ s' = started
    BY <1>1, <1>2 DEF IsStorage, Enter
  <1>4. grant.rules = started.rules
    BY <1>1, <1>2, <1>3 DEF Pinned
  <1>5. /\ DOMAIN s'.scheduled \subseteq DOMAIN s.scheduled
        /\ \A x \in DOMAIN s'.scheduled : s'.scheduled[x] = s.scheduled[x]
    BY <1>3 DEF Drop
  <1>6. Agreed(grant, CallsOf[h.batch])
    BY DEF RInv, AgreedAll
  <1> HIDE DEF grant, started
  <1> QED
    BY <1>1, <1>2, <1>4, <1>5, <1>6, EnterRecovery

\* A call of a recovery is the swap.
LEMMA CallRecovery ==
  ASSUME RInv, CallStep, IInv(Keys)'
  PROVE  RInv'
  <1>1. PICK op : Calling(op)
    BY DEF CallStep, CallInitSigner, CallAddSigner, CallRemoveSigner, CallReplaceSigner,
      CallSetThreshold, CallSetVetoThreshold, CallSetDelays, CallSetImplementation,
      CallFreezeImplementation, CallCancel, CallElsewhere
  <1>2. /\ latch /\ IsFrame(frame) /\ frame.rest # << >> /\ Head(frame.rest).op = op
        /\ frame' = [frame EXCEPT !.rest = Tail(@)]
    BY <1>1 DEF Calling, RInv, IInv, TypeOK
  <1>3. /\ frame'.saved = frame.saved /\ frame'.grant = frame.grant
        /\ frame'.origin = frame.origin /\ frame'.rest = Tail(frame.rest)
    BY <1>2 DEF IsFrame
  <1>4. Keeps(s, s')
    <2>1. CallElsewhere => s' = s /\ IsStorage(s)
      BY DEF CallElsewhere, RInv, IInv, TypeOK
    <2> QED
      BY <2>1, SameStorage, SignerCalls, FieldCalls, InitSignerCall, CancelCall DEF CallStep, RInv
  <1>5. AgreedAll(s')
    BY <1>4, StillAgreed DEF Keeps, RInv
  <1>6. Recovering(frame', s')
    <2> SUFFICES ASSUME frame.origin # "initialize",
                        ~ OpensThreshold(frame.grant.rules, frame.grant.sigs)
                 PROVE  Swapping(frame', s')
      BY <1>3 DEF Recovering
    <2>1. PICK call \in Call :
            /\ IsSwap(frame.grant.rules, call)
            /\ Recoverers(frame.grant.rules, frame.grant.sigs) # {}
            /\ CheckConfig(frame.grant.rules)
            /\ frame.rest = <<call>> /\ s.rules = frame.grant.rules
      BY <1>2 DEF RInv, Recovering, Swapping
    <2>2. Head(frame.rest) = call /\ Tail(frame.rest) = << >> /\ call.op = "replaceSigner"
      BY <2>1 DEF IsSwap
    <2>3. CallReplaceSigner
      BY <2>2 DEF CallStep, CallInitSigner, CallAddSigner, CallRemoveSigner,
        CallSetThreshold, CallSetVetoThreshold, CallSetDelays, CallSetImplementation,
        CallFreezeImplementation, CallCancel, CallElsewhere, Calling
    <2>4. /\ ~ Exists(RemoveSigner(s.rules, call.id), call.input.id)
          /\ s' = [s EXCEPT !.rules = AdvanceEpoch(Swapped(s.rules, call))]
      BY <2>2, <2>3 DEF CallReplaceSigner, ChangeRules, SetRules, Swapped
    <2>5. s'.rules = AdvanceEpoch(Swapped(s.rules, call))
      BY <2>4 DEF RInv, IInv, TypeOK, IsStorage
    <2> QED
      BY <1>3, <2>1, <2>2, <2>4, <2>5 DEF Swapping
  <1> QED
    BY <1>2, <1>3, <1>5, <1>6 DEF RInv

\* An approval or a veto leaves the rules, and at most takes an entry out.
LEMMA SideRecovery ==
  ASSUME RInv, IInv(Keys)', UNCHANGED <<latch, frame>>, s'.rules = s.rules,
         DOMAIN s'.scheduled \subseteq DOMAIN s.scheduled,
         \A h \in DOMAIN s'.scheduled : s'.scheduled[h] = s.scheduled[h]
  PROVE  RInv'
  <1>1. AgreedAll(s')
    BY StillAgreed DEF RInv
  <1> QED
    BY <1>1 DEF RInv, Recovering, Swapping

LEMMA VetoRecovery ==
  ASSUME RInv, NEW id \in Ids, NEW h \in DOMAIN s.scheduled, Veto(id, h), IInv(Keys)'
  PROVE  RInv'
  <1> DEFINE count == VetoCount(s, h) + 1
             voted == [s EXCEPT !.vetoes = @ \cup {<<h, id>>}, !.vetoCount = Put(@, h, count)]
  <1>1. /\ UNCHANGED <<latch, frame>> /\ IsStorage(s)
        /\ \/ s' = voted
           \/ s' = [voted EXCEPT !.dead = @ \cup {h}, !.scheduled = Drop(@, h)]
    BY DEF Veto, RInv, IInv, TypeOK
  <1> HIDE DEF count
  <1>2. voted.rules = s.rules /\ voted.scheduled = s.scheduled
    BY <1>1 DEF IsStorage
  <1>3. /\ [voted EXCEPT !.dead = @ \cup {h}, !.scheduled = Drop(@, h)].rules = s.rules
        /\ [voted EXCEPT !.dead = @ \cup {h}, !.scheduled = Drop(@, h)].scheduled
             = Drop(s.scheduled, h)
    BY <1>1 DEF IsStorage
  <1>4. s'.rules = s.rules /\ s'.scheduled \in {s.scheduled, Drop(s.scheduled, h)}
    BY <1>1, <1>2, <1>3
  <1>5. /\ DOMAIN s'.scheduled \subseteq DOMAIN s.scheduled
        /\ \A x \in DOMAIN s'.scheduled : s'.scheduled[x] = s.scheduled[x]
    BY <1>4 DEF Drop
  <1> QED
    BY <1>1, <1>4, <1>5, SideRecovery

LEMMA ApproveRecovery ==
  ASSUME RInv, NEW id, NEW h, Approve(id, h), IInv(Keys)'
  PROVE  RInv'
  <1>1. UNCHANGED <<latch, frame>> /\ s' = [s EXCEPT !.approvals = @ \cup {<<h, id>>}]
    BY DEF Approve, RecordApproval
  <1>2. s'.rules = s.rules /\ s'.scheduled = s.scheduled
    BY <1>1 DEF RInv, IInv, TypeOK, IsStorage
  <1> QED
    BY <1>1, <1>2, SideRecovery

LEMMA InitRecovery == Init => RInv
  <1> SUFFICES ASSUME Init PROVE RInv
    OBVIOUS
  <1>1. ~ latch /\ DOMAIN s.scheduled = {}
    BY DEF Init, EmptyStorage
  <1> QED
    BY <1>1, InitInv DEF RInv, AgreedAll

LEMMA NextRecovery == RInv /\ [Next]_vars => RInv'
  <1> SUFFICES ASSUME RInv, [Next]_vars
               PROVE  RInv'
    OBVIOUS
  <1>0. IInv(Keys) /\ IInv(Keys)'
    BY NextInv DEF RInv
  <1>1. ASSUME NEW init \in Inits, Initialize(init) PROVE RInv'
    BY <1>0, <1>1, InitializeRecovery
  <1>2. CASE CallStep
    BY <1>0, <1>2, CallRecovery
  <1>3. CASE Finish
    BY <1>0, <1>3 DEF Finish, RInv, AgreedAll
  <1>4. CASE Abort
    BY <1>0, <1>4 DEF Abort, RInv, AgreedAll
  <1>5. ASSUME NEW key \in Keys, NEW batch \in Batches, NEW window \in Validities,
               NEW sigs \in SUBSET Ids, Execute(key, batch, window, sigs)
        PROVE  RInv'
    BY <1>0, <1>5, ExecuteRecovery
  <1>6. ASSUME NEW h \in DOMAIN s.scheduled, ExecuteScheduled(h) PROVE RInv'
    BY <1>0, <1>6, ExecuteScheduledRecovery
  <1>7. ASSUME NEW id, NEW h, Approve(id, h) PROVE RInv'
    BY <1>0, <1>7, ApproveRecovery
  <1>8. ASSUME NEW id \in Ids, NEW h \in DOMAIN s.scheduled, Veto(id, h) PROVE RInv'
    BY <1>0, <1>8, VetoRecovery
  <1>9. CASE Tick
    BY <1>0, <1>9 DEF Tick, RInv
  <1>10. CASE UNCHANGED vars
    BY <1>0, <1>10 DEF vars, RInv
  <1> QED
    BY <1>1, <1>2, <1>3, <1>4, <1>5, <1>6, <1>7, <1>8, <1>9, <1>10 DEF Next, Step

\* Whatever waits or runs below the threshold is one swap.
THEOREM RecoveryInvariance == Spec => []RInv
  BY InitRecovery, NextRecovery, PTL DEF Spec

\* Without an approver's signature a recovery owes the guardians' delay, which is never
\* shorter than the least.
LEMMA GuardiansWait ==
  ASSUME NEW grant \in Grant, Counted(grant.rules), CheckConfig(grant.rules),
         ~ OpensThreshold(grant.rules, grant.sigs), Recoverers(grant.rules, grant.sigs) # {},
         PlainApprovers(grant.rules, grant.sigs) = {}
  PROVE  Owed(grant) \in Nat /\ Owed(grant) >= MIN_RECOVERY_DELAY
  <1> DEFINE r == grant.rules
             plain == {id \in grant.sigs :
                        r.signers[id].permissions \cap {"APPROVE", "RECOVER"} = {"APPROVE"}}
             approve == {id \in grant.sigs : "APPROVE" \in r.signers[id].permissions}
  <1>1. r \in Rules /\ grant.sigs \subseteq Ids
    BY DEF Grant
  <1>2. approve = Approvers(r, grant.sigs) /\ plain = PlainApprovers(r, grant.sigs)
    BY <1>1 DEF Approvers, PlainApprovers, Holders
  <1>3. Owed(grant) = r.delays.recovery /\ r.delays.recovery \in Nat
    BY <1>1, <1>2 DEF Owed, OpensThreshold, Rules, Delays
  <1>4. RecovererCount(r) # 0
    <2>1. {"RECOVER"} \in Tallied
      BY DEF Tallied
    <2>2. RecovererCount(r) = Cardinality(Tally(r, {"RECOVER"}))
      BY <2>1 DEF Counted, Tally, RecovererCount
    <2>3. Tally(r, {"RECOVER"}) # {}
      BY <1>1 DEF Recoverers, Holders, Tally
    <2> QED
      BY <2>2, <2>3, TallyBound, FS_EmptySet
  <1> QED
    BY <1>3, <1>4 DEF CheckConfig

\* Below the threshold a guardian can swap one key for another with the same permissions,
\* and nothing else, and alone only after the least delay: for any signers and rules.
THEOREM RecoveryCorrect == Spec => RecoveryNeverEscalates
  <1> DEFINE Rec == LET grant == frame.grant
                        before == Settled.rules
                        after == Settled'.rules
                    IN  /\ latch /\ ~ latch' /\ before # after /\ frame.origin # "initialize"
                        /\ ~ OpensThreshold(before, grant.sigs)
                        => /\ after = [before EXCEPT !.signers = after.signers,
                                                     !.signerList = after.signerList,
                                                     !.epoch = before.epoch + 1]
                           /\ \A p \in (SUBSET Permissions) \ {{}} :
                                Cardinality({id \in Ids : before.signers[id].permissions = p})
                                  = Cardinality({id \in Ids : after.signers[id].permissions = p})
                           /\ Cardinality({id \in Ids : Exists(after, id) /\ ~ Exists(before, id)}) <= 1
                           /\ PlainApprovers(before, grant.sigs) = {} => now >= grant.at + MIN_RECOVERY_DELAY
  <1>1. RInv /\ [Next]_vars => [Rec]_vars
    <2> SUFFICES ASSUME RInv, [Next]_vars, latch, ~ latch', Settled.rules # Settled'.rules,
                        frame.origin # "initialize",
                        ~ OpensThreshold(Settled.rules, frame.grant.sigs),
                        NEW before, before = Settled.rules, NEW after, after = Settled'.rules
                 PROVE  /\ after = [before EXCEPT !.signers = after.signers,
                                                  !.signerList = after.signerList,
                                                  !.epoch = before.epoch + 1]
                        /\ \A p \in (SUBSET Permissions) \ {{}} :
                             Cardinality({id \in Ids : before.signers[id].permissions = p})
                               = Cardinality({id \in Ids : after.signers[id].permissions = p})
                        /\ Cardinality({id \in Ids : Exists(after, id) /\ ~ Exists(before, id)}) <= 1
                        /\ PlainApprovers(before, frame.grant.sigs) = {}
                             => now >= frame.grant.at + MIN_RECOVERY_DELAY
      OBVIOUS
    <2>1. IInv(Keys) /\ IsFrame(frame) /\ Running(frame, s, ran, now, Keys) /\ now \in Nat
      BY DEF RInv, IInv, TypeOK
    <2>2. Finish
      BY <2>1, NextKinds DEF Settled
    <2>3. before = frame.saved.rules /\ after = s.rules /\ frame.rest = << >>
      BY <2>2 DEF Finish, Settled
    <2>4. /\ frame.grant.rules = before /\ frame.grant \in Grant
          /\ before \in Rules /\ Counted(before) /\ Indexed(before)
      BY <2>1, <2>3 DEF Running, IsFrame, IsStorage, Sound
    <2>5. PICK call \in Call :
            /\ IsSwap(before, call) /\ Recoverers(before, frame.grant.sigs) # {}
            /\ CheckConfig(before)
            /\ after = AdvanceEpoch(Swapped(before, call))
            /\ ~ Exists(RemoveSigner(before, call.id), call.input.id)
      BY <2>3, <2>4 DEF RInv, Recovering, Swapping
    <2>6. now >= frame.grant.at + Owed(frame.grant)
      <3>1. frame.config \in BOOLEAN
        BY <2>1 DEF IsFrame
      <3> QED
        BY <2>1, <2>3, <3>1 DEF Running
    <2>7. PlainApprovers(before, frame.grant.sigs) = {}
            => now >= frame.grant.at + MIN_RECOVERY_DELAY
      <3> SUFFICES ASSUME PlainApprovers(before, frame.grant.sigs) = {}
                   PROVE  now >= frame.grant.at + MIN_RECOVERY_DELAY
        OBVIOUS
      <3>1. Owed(frame.grant) \in Nat /\ Owed(frame.grant) >= MIN_RECOVERY_DELAY
        BY <2>4, <2>5, GuardiansWait
      <3>2. frame.grant.at \in Nat /\ MIN_RECOVERY_DELAY \in Nat
        BY <2>4, RulesAssumption DEF Grant
      <3> QED
        BY <2>1, <2>6, <3>1, <3>2
    <2> DEFINE q == Swapped(before, call)
    <2>8. q = [before EXCEPT !.signers = q.signers, !.signerList = q.signerList]
      BY <2>4, <2>5, SwapFields
    <2> HIDE DEF q
    <2>9. after = [q EXCEPT !.epoch = @ + 1]
      BY <2>5 DEF AdvanceEpoch, q
    <2>10. /\ after.signers = q.signers
           /\ after = [before EXCEPT !.signers = after.signers, !.signerList = after.signerList,
                                     !.epoch = before.epoch + 1]
      BY <2>4, <2>8, <2>9 DEF Rules
    <2>11. after.signers = Swapped(before, call).signers
      BY <2>10 DEF q
    <2> QED
      BY <2>4, <2>5, <2>7, <2>10, <2>11, SwapCounts
  <1> QED
    BY <1>1, RecoveryInvariance, PTL DEF Spec, RecoveryNeverEscalates

-----------------------------------------------------------------------------
(* User operations: the account keeps its own invariant under the          *)
(* EntryPoint, about the nonces it counts itself.  What a bundle adds is   *)
(* that a decision made at validation still holds when it is executed, or  *)
(* is refused: Decided says what it may rely on.                           *)

Lanes == Keys \ OpKeys

-----------------------------------------------------------------------------
(* The invariant.                                                          *)

\* While calls run, the rules are the ones before or a later epoch's.
Advanced ==
  latch => \/ s.rules.epoch > frame.saved.rules.epoch
           \/ s.rules = frame.saved.rules /\ frame.origin # "initialize"

\* A revert gives back no vote that was not there.
Kept ==
  latch => frame.saved.vetoes \subseteq s.vetoes /\ frame.saved.approvals \subseteq s.approvals

AInv == IInv(Lanes) /\ Advanced /\ Kept

\* What validation decided is of this moment and of the rules it was decided under; a
\* batch waits what they ask of its signers.
Decided(d) ==
  LET calls == CallsOf[d.hash.batch]
  IN  /\ d.hash.key \in OpKeys /\ d.epoch # 0
      /\ d.grant.at = now
      /\ d.epoch <= Settled.rules.epoch
      /\ d.epoch = Settled.rules.epoch => d.grant.rules = Settled.rules
      /\ Exists(d.grant.rules, d.signer)
      /\ d.path = "SINGLE" => IsSingle(calls)
      /\ d.path # "SINGLE" /\ (IsConfig(calls) \/ d.delay # 0) => d.delay = Owed(d.grant)

BundleOK ==
  /\ bundle \in Seq(Decision)
  /\ executing \in BOOLEAN /\ (executing => bundle # << >>)
  /\ opNonces \in [OpKeys -> Nat]

UInv == AInv /\ BundleOK /\ \A i \in DOMAIN bundle : Decided(bundle[i])

-----------------------------------------------------------------------------
(* What a step of the account does.                                        *)

\* Signers vote and approve for themselves.
Acts ==
  /\ \A vote \in s'.vetoes \ s.vetoes : "VETO" \in s.rules.signers[vote[2]].permissions
  /\ \A approval \in s'.approvals \ s.approvals : Exists(s.rules, approval[2])

\* A transaction starts, goes on, is undone or ends; outside one the rules stay.
Course ==
  \/ ~ latch /\ ~ latch' /\ s'.rules = s.rules /\ s.dead \subseteq s'.dead
  \/ ~ latch /\ latch' /\ frame'.saved = s /\ frame'.hash \notin s.dead
  \/ latch /\ latch' /\ frame'.saved = frame.saved
  \/ latch /\ ~ latch' /\ s' = frame.saved
  \/ Finish

Moved == AInv' /\ Acts /\ Course

LEMMA LanesAreKeys == Lanes \in SUBSET Keys
  BY DEF Lanes

\* Starting a frame.
LEMMA EnterMoves ==
  ASSUME ~ latch, latch', frame'.saved = s, s'.vetoes = s.vetoes, s'.approvals = s.approvals,
         \/ s'.rules.epoch > s.rules.epoch
         \/ s'.rules = s.rules /\ frame'.origin # "initialize"
  PROVE  Advanced' /\ Kept' /\ Acts
  BY DEF Advanced, Kept, Acts

\* Recording something outside or beside a frame.
LEMMA RecordMoves ==
  ASSUME Advanced, Kept, UNCHANGED <<latch, frame>>, s'.rules = s.rules,
         s.vetoes \subseteq s'.vetoes, s.approvals \subseteq s'.approvals
  PROVE  Advanced' /\ Kept'
  BY DEF Advanced, Kept

\* A configuration function moves the epoch and leaves votes and approvals.
LEMMA EpochMoves ==
  ASSUME IsStorage(s), NEW r, DOMAIN r = DOMAIN s.rules, r.epoch = s.rules.epoch, ChangeRules(r)
  PROVE  /\ s'.rules.epoch = s.rules.epoch + 1
         /\ s'.vetoes = s.vetoes /\ s'.approvals = s.approvals
  <1> DEFINE q == AdvanceEpoch(r)
  <1>1. "epoch" \in DOMAIN r
    BY DEF IsStorage, Rules
  <1>2. q.epoch = s.rules.epoch + 1
    BY <1>1 DEF AdvanceEpoch
  <1>3. s' = [s EXCEPT !.rules = q]
    BY DEF ChangeRules, SetRules
  <1> HIDE DEF q
  <1> QED
    BY <1>2, <1>3 DEF IsStorage

\* What a call leaves alone, and what it does to the epoch.
LEMMA CallMoves ==
  ASSUME IInv(Lanes), CallStep
  PROVE  /\ latch /\ latch' /\ frame'.saved = frame.saved /\ frame'.origin = frame.origin
         /\ s'.vetoes = s.vetoes /\ s'.approvals = s.approvals
         /\ \/ s'.rules = s.rules
            \/ s'.rules.epoch = s.rules.epoch + 1
            \/ s'.rules.epoch = s.rules.epoch /\ frame.origin = "initialize"
  <1> DEFINE Goal == /\ s'.vetoes = s.vetoes /\ s'.approvals = s.approvals
                     /\ \/ s'.rules = s.rules
                        \/ s'.rules.epoch = s.rules.epoch + 1
                        \/ s'.rules.epoch = s.rules.epoch /\ frame.origin = "initialize"
             call == Head(frame.rest)
  <1>0. Lanes \in SUBSET Keys
    BY LanesAreKeys
  <1>1. PICK op : Calling(op)
    BY DEF CallStep, CallInitSigner, CallAddSigner, CallRemoveSigner, CallReplaceSigner,
      CallSetThreshold, CallSetVetoThreshold, CallSetDelays, CallSetImplementation,
      CallFreezeImplementation, CallCancel, CallElsewhere
  <1>2. /\ latch /\ IsFrame(frame) /\ IsStorage(s) /\ s.rules \in Rules
        /\ Counted(s.rules) /\ Indexed(s.rules)
    BY <1>1 DEF Calling, IInv, TypeOK, IsStorage, Sound
  <1>3. latch' /\ frame'.saved = frame.saved /\ frame'.origin = frame.origin
    BY <1>1, <1>2, CallingFrame
  <1> SUFFICES Goal
    BY <1>2, <1>3
  <1>4. CASE CallInitSigner
    <2>1. Calling("initSigner") /\ s' = [s EXCEPT !.rules = AddSigner(s.rules, call.input)]
      BY <1>4 DEF CallInitSigner, SetRules
    <2>2. frame.origin = "initialize" /\ call.input \in SignerInput
      BY <1>2, <2>1, CallingFrame, CallTypes, InitCallTypes
    <2>3. AddSigner(s.rules, call.input).epoch = s.rules.epoch
      BY <1>2 DEF AddSigner, Count, Rules
    <2> DEFINE r == AddSigner(s.rules, call.input)
    <2> HIDE DEF r
    <2>4. s' = [s EXCEPT !.rules = r] /\ r.epoch = s.rules.epoch
      BY <2>1, <2>3 DEF r
    <2> QED
      BY <1>2, <2>2, <2>4 DEF IsStorage
  <1>5. CASE CallAddSigner
    <2> DEFINE r == AddSigner(s.rules, call.input)
    <2>1. ChangeRules(r)
      BY <1>5 DEF CallAddSigner
    <2>2. DOMAIN r = DOMAIN s.rules /\ r.epoch = s.rules.epoch
      BY <1>2 DEF AddSigner, Count, Rules
    <2> HIDE DEF r
    <2> QED
      BY <1>2, <2>1, <2>2, EpochMoves
  <1>6. CASE CallRemoveSigner
    <2> DEFINE r == RemoveSigner(s.rules, call.id)
    <2>1. ChangeRules(r)
      BY <1>6 DEF CallRemoveSigner
    <2>2. DOMAIN r = DOMAIN s.rules /\ r.epoch = s.rules.epoch
      BY <1>2 DEF RemoveSigner, Count, Rules
    <2> HIDE DEF r
    <2> QED
      BY <1>2, <2>1, <2>2, EpochMoves
  <1>7. CASE CallReplaceSigner
    <2> DEFINE removed == RemoveSigner(s.rules, call.id)
               r == AddSigner(removed, call.input)
    <2>1. ChangeRules(r)
      BY <1>7 DEF CallReplaceSigner
    <2>2. DOMAIN removed = DOMAIN s.rules /\ removed.epoch = s.rules.epoch
      BY <1>2 DEF RemoveSigner, Count, Rules
    <2>3. {"epoch", "signers", "signerList", "counts"} \subseteq DOMAIN removed
      BY <1>2, <2>2 DEF Rules
    <2> HIDE DEF removed
    <2>4. DOMAIN r = DOMAIN s.rules /\ r.epoch = s.rules.epoch
      BY <2>2, <2>3 DEF AddSigner, Count
    <2> HIDE DEF r
    <2> QED
      BY <1>2, <2>1, <2>4, EpochMoves
  <1>8. CASE \/ CallSetThreshold \/ CallSetVetoThreshold \/ CallSetDelays
             \/ CallSetImplementation \/ CallFreezeImplementation
    <2>1. ASSUME NEW r, ChangeRules(r), DOMAIN r = DOMAIN s.rules, r.epoch = s.rules.epoch
          PROVE  Goal
      BY <1>2, <2>1, EpochMoves
    <2>2. \E r : ChangeRules(r) /\ DOMAIN r = DOMAIN s.rules /\ r.epoch = s.rules.epoch
      <3>1. \A x : /\ DOMAIN [s.rules EXCEPT !.threshold = x] = DOMAIN s.rules
                   /\ [s.rules EXCEPT !.threshold = x].epoch = s.rules.epoch
                   /\ DOMAIN [s.rules EXCEPT !.vetoThreshold = x] = DOMAIN s.rules
                   /\ [s.rules EXCEPT !.vetoThreshold = x].epoch = s.rules.epoch
                   /\ DOMAIN [s.rules EXCEPT !.delays = x] = DOMAIN s.rules
                   /\ [s.rules EXCEPT !.delays = x].epoch = s.rules.epoch
                   /\ DOMAIN [s.rules EXCEPT !.implementation = x] = DOMAIN s.rules
                   /\ [s.rules EXCEPT !.implementation = x].epoch = s.rules.epoch
                   /\ DOMAIN [s.rules EXCEPT !.implementationFrozen = x] = DOMAIN s.rules
                   /\ [s.rules EXCEPT !.implementationFrozen = x].epoch = s.rules.epoch
        BY <1>2 DEF Rules
      <3>2. CASE CallSetThreshold
        <4>1. ChangeRules([s.rules EXCEPT !.threshold = call.value])
          BY <3>2 DEF CallSetThreshold
        <4> QED
          BY <3>1, <4>1, Zenon
      <3>3. CASE CallSetVetoThreshold
        <4>1. ChangeRules([s.rules EXCEPT !.vetoThreshold = call.value])
          BY <3>3 DEF CallSetVetoThreshold
        <4> QED
          BY <3>1, <4>1, Zenon
      <3>4. CASE CallSetDelays
        <4>1. ChangeRules([s.rules EXCEPT !.delays = call.delays])
          BY <3>4 DEF CallSetDelays
        <4> QED
          BY <3>1, <4>1, Zenon
      <3>5. CASE CallSetImplementation
        <4>1. ChangeRules([s.rules EXCEPT !.implementation = call.implementation])
          BY <3>5 DEF CallSetImplementation
        <4> QED
          BY <3>1, <4>1, Zenon
      <3>6. CASE CallFreezeImplementation
        <4>1. ChangeRules([s.rules EXCEPT !.implementationFrozen = TRUE])
          BY <3>6 DEF CallFreezeImplementation
        <4> QED
          BY <3>1, <4>1, Zenon
      <3> QED
        BY <1>8, <3>2, <3>3, <3>4, <3>5, <3>6
    <2> QED
      BY <2>1, <2>2
  <1>9. CASE CallCancel
    <2> DEFINE h == call.hash
    <2>1. s' = [s EXCEPT !.dead = @ \cup {h}, !.scheduled = Drop(@, h)]
      BY <1>9 DEF CallCancel
    <2> HIDE DEF h
    <2> QED
      BY <1>2, <2>1 DEF IsStorage
  <1>10. CASE CallElsewhere
    BY <1>10 DEF CallElsewhere
  <1> QED
    BY <1>4, <1>5, <1>6, <1>7, <1>8, <1>9, <1>10 DEF CallStep

\* A call of a frame: advanced rules, nobody's vote or approval.
LEMMA CallsMove ==
  ASSUME AInv, CallStep
  PROVE  Advanced' /\ Kept' /\ Acts
  <1>1. /\ latch /\ latch' /\ frame'.saved = frame.saved /\ frame'.origin = frame.origin
        /\ s'.vetoes = s.vetoes /\ s'.approvals = s.approvals
        /\ \/ s'.rules = s.rules
           \/ s'.rules.epoch = s.rules.epoch + 1
           \/ s'.rules.epoch = s.rules.epoch /\ frame.origin = "initialize"
    BY CallMoves DEF AInv
  <1>2. s.rules.epoch \in Nat /\ frame.saved.rules.epoch \in Nat
    BY <1>1 DEF AInv, IInv, TypeOK, IsFrame, IsStorage, Rules
  <1>3. Advanced'
    BY <1>1, <1>2 DEF AInv, Advanced
  <1> QED
    BY <1>1, <1>3 DEF AInv, Kept, Acts

\* What was authorised runs or waits.
LEMMA LandMoves ==
  ASSUME ~ latch, NEW h, NEW calls, NEW path, NEW delay, NEW config, NEW grant, NEW st,
         st.rules = s.rules, st.vetoes = s.vetoes, st.approvals = s.approvals, IsStorage(st),
         Land(st, h, calls, path, delay, config, grant)
  PROVE  Advanced' /\ Kept' /\ Acts
  <1>1. CASE delay = 0
    <2>1. /\ latch' /\ frame'.saved = s /\ frame'.origin = "execute" /\ s' = st
      BY <1>1 DEF Land, Enter
    <2> QED
      BY <2>1, EnterMoves
  <1>2. CASE delay # 0
    <2>1. \E x : s' = [st EXCEPT !.scheduled = x] /\ latch' = latch
      BY <1>2 DEF Land
    <2>2. s'.vetoes = s.vetoes /\ s'.approvals = s.approvals /\ ~ latch'
      BY <2>1 DEF IsStorage
    <2> QED
      BY <2>2 DEF Advanced, Kept, Acts
  <1> QED
    BY <1>1, <1>2

LEMMA ApproveMoved ==
  ASSUME AInv, NEW id \in Ids, NEW h \in Hash, Approve(id, h)
  PROVE  Moved
  <1>1. /\ s' = [s EXCEPT !.approvals = @ \cup {<<h, id>>}]
        /\ UNCHANGED <<latch, frame, now, ran>> /\ Exists(s.rules, id)
    BY DEF Approve, RecordApproval
  <1>2. IsStorage(s)
    BY DEF AInv, IInv, TypeOK
  <1>3. /\ s'.rules = s.rules /\ s'.vetoes = s.vetoes /\ s'.dead = s.dead
        /\ s'.approvals = s.approvals \cup {<<h, id>>}
    BY <1>1, <1>2 DEF IsStorage
  <1>4. IInv(Lanes)'
    BY LanesAreKeys, ApproveStep DEF AInv
  <1>5. Advanced' /\ Kept'
    BY <1>1, <1>3, RecordMoves DEF AInv
  <1>6. Acts
    BY <1>1, <1>3 DEF Acts
  <1>7. Course
    BY <1>1, <1>3 DEF Course
  <1> QED
    BY <1>4, <1>5, <1>6, <1>7 DEF Moved, AInv

LEMMA VetoMoved ==
  ASSUME AInv, NEW id \in Ids, NEW h \in DOMAIN s.scheduled, Veto(id, h)
  PROVE  Moved
  <1> DEFINE count == VetoCount(s, h) + 1
             voted == [s EXCEPT !.vetoes = @ \cup {<<h, id>>}, !.vetoCount = Put(@, h, count)]
             stopped == [voted EXCEPT !.dead = @ \cup {h}, !.scheduled = Drop(@, h)]
  <1>1. /\ UNCHANGED <<latch, frame, now, ran>>
        /\ s' = voted \/ s' = stopped
        /\ "VETO" \in s.rules.signers[id].permissions
    BY DEF Veto, MayVeto
  <1>2. IsStorage(s)
    BY DEF AInv, IInv, TypeOK
  <1> HIDE DEF count
  <1>3. /\ voted.rules = s.rules /\ voted.approvals = s.approvals
        /\ voted.dead = s.dead /\ voted.vetoes = s.vetoes \cup {<<h, id>>}
    BY <1>2 DEF IsStorage
  <1>4. /\ stopped.rules = s.rules /\ stopped.approvals = s.approvals
        /\ stopped.dead = s.dead \cup {h} /\ stopped.vetoes = s.vetoes \cup {<<h, id>>}
    BY <1>2 DEF IsStorage
  <1> HIDE DEF voted, stopped
  <1>5. /\ s'.rules = s.rules /\ s'.approvals = s.approvals
        /\ s.dead \subseteq s'.dead /\ s'.vetoes = s.vetoes \cup {<<h, id>>}
    BY <1>1, <1>3, <1>4
  <1>6. IInv(Lanes)'
    BY LanesAreKeys, VetoStep DEF AInv
  <1>7. Advanced' /\ Kept'
    BY <1>1, <1>5, RecordMoves DEF AInv
  <1>8. Acts
    BY <1>1, <1>5 DEF Acts
  <1>9. Course
    BY <1>1, <1>5 DEF Course
  <1> QED
    BY <1>6, <1>7, <1>8, <1>9 DEF Moved, AInv

LEMMA StillMoved ==
  ASSUME AInv, Tick \/ UNCHANGED vars
  PROVE  Moved
  <1>1. s' = s /\ latch' = latch /\ frame' = frame
    BY DEF Tick, vars
  <1>2. IInv(Lanes)'
    BY LanesAreKeys, TickStep, IdleInv DEF AInv
  <1>3. Advanced' /\ Kept' /\ Acts /\ Course
    BY <1>1 DEF AInv, Advanced, Kept, Acts, Course
  <1> QED
    BY <1>2, <1>3 DEF Moved, AInv

\* Whatever anyone's transaction does to the account.
LEMMA StepMoved ==
  ASSUME AInv, Step(Lanes)
  PROVE  Moved
  <1>1. IInv(Lanes)'
    BY LanesAreKeys, StepInv DEF AInv
  <1>2. Course
    BY LanesAreKeys, StepKinds DEF AInv, Course
  <1>3. IsStorage(s) /\ s.rules \in Rules
    BY DEF AInv, IInv, TypeOK, IsStorage
  <1> DEFINE Goal == Advanced' /\ Kept' /\ Acts
  <1> SUFFICES Goal
    BY <1>1, <1>2 DEF Moved, AInv
  <1>4. ASSUME NEW init \in Inits, Initialize(init) PROVE Goal
    <2> DEFINE r == [s.rules EXCEPT
                       !.epoch = 1, !.threshold = init.threshold,
                       !.vetoThreshold = init.vetoThreshold, !.delays = init.delays]
    <2>1. /\ ~ latch /\ s.rules.epoch = 0 /\ latch' /\ frame'.saved = s
          /\ s' = [s EXCEPT !.rules = r]
      BY <1>4 DEF Initialize, Enter
    <2>2. r.epoch = 1
      BY <1>3 DEF Rules
    <2> HIDE DEF r
    <2>3. s'.rules = r /\ s'.vetoes = s.vetoes /\ s'.approvals = s.approvals
      BY <1>3, <2>1 DEF IsStorage
    <2> QED
      BY <2>1, <2>2, <2>3, EnterMoves
  <1>5. CASE CallStep
    BY <1>5, CallsMove
  <1>6. CASE Finish
    BY <1>6 DEF Finish, Advanced, Kept, Acts
  <1>7. CASE Abort
    BY <1>7 DEF Abort, AInv, Advanced, Kept, Acts
  <1>8. ASSUME NEW key \in Lanes, NEW batch \in Batches, NEW window \in Validities,
               NEW sigs \in SUBSET Ids, Execute(key, batch, window, sigs)
        PROVE  Goal
    <2> DEFINE st == [s EXCEPT !.nonces[key] = @ + 1]
    <2>1. PICK h, path, delay, grant :
            ~ latch /\ Land(st, h, CallsOf[batch], path, delay, IsConfig(CallsOf[batch]), grant)
      BY <1>8 DEF Execute
    <2>2. /\ st.rules = s.rules /\ st.vetoes = s.vetoes /\ st.approvals = s.approvals
          /\ st.nonces = [s.nonces EXCEPT ![key] = @ + 1] /\ st.scheduled = s.scheduled
          /\ st.vetoCount = s.vetoCount /\ st.dead = s.dead
          /\ st = [rules |-> st.rules, nonces |-> st.nonces, approvals |-> st.approvals,
                   scheduled |-> st.scheduled, vetoes |-> st.vetoes,
                   vetoCount |-> st.vetoCount, dead |-> st.dead]
      BY <1>3 DEF IsStorage
    <2> HIDE DEF st
    <2>3. st.nonces \in [Keys -> Nat]
      BY <1>3, <2>2, LanesAreKeys DEF IsStorage
    <2>4. IsStorage(st)
      BY <1>3, <2>2, <2>3 DEF IsStorage
    <2> QED
      BY <2>1, <2>2, <2>4, LandMoves
  <1>9. ASSUME NEW h \in DOMAIN s.scheduled, ExecuteScheduled(h) PROVE Goal
    <2>1. /\ ~ latch /\ latch' /\ frame'.saved = s /\ frame'.origin = "scheduled"
          /\ s' = [s EXCEPT !.scheduled = Drop(@, h)]
      BY <1>9 DEF ExecuteScheduled, Enter
    <2>2. s'.rules = s.rules /\ s'.vetoes = s.vetoes /\ s'.approvals = s.approvals
      BY <1>3, <2>1 DEF IsStorage
    <2> QED
      BY <2>1, <2>2, EnterMoves
  <1>10. ASSUME NEW id \in Ids \ OffChain, NEW key \in Lanes, NEW batch \in Batches,
               NEW window \in Validities, Approve(id, TxHash(s, key, batch, window))
        PROVE  Goal
    <2>1. s.nonces[key] \in Nat /\ s.rules.epoch \in Nat /\ key \in Keys
      BY <1>3, LanesAreKeys DEF IsStorage, Rules
    <2>2. window[1] \in Nat /\ window[2] \in Nat
      BY AccountAssumption
    <2>3. TxHash(s, key, batch, window) \in Hash
      BY <2>1, <2>2 DEF TxHash, Hash
    <2> QED
      BY <1>10, <2>3, ApproveMoved DEF Moved, AInv
  <1>11. ASSUME NEW id \in Ids, NEW h \in DOMAIN s.scheduled, Veto(id, h) PROVE Goal
    BY <1>11, VetoMoved DEF Moved, AInv
  <1> QED
    BY <1>4, <1>5, <1>6, <1>7, <1>8, <1>9, <1>10, <1>11 DEF Step
-----------------------------------------------------------------------------
(* The bundle.                                                             *)

\* Rules that have settled differently have a later epoch.
LEMMA EpochGrows ==
  ASSUME AInv, Moved
  PROVE  /\ Settled.rules.epoch \in Nat /\ Settled'.rules.epoch \in Nat
         /\ Settled'.rules = Settled.rules \/ Settled'.rules.epoch > Settled.rules.epoch
  <1>1. AInv' /\ Course
    BY DEF Moved
  <1>2. Settled.rules.epoch \in Nat
    BY DEF AInv, IInv, TypeOK, IsFrame, IsStorage, Rules, Settled
  <1>3. Settled'.rules.epoch \in Nat
    BY <1>1 DEF AInv, IInv, TypeOK, IsFrame, IsStorage, Rules, Settled
  <1>4. CASE Finish
    <2>1. latch /\ ~ latch' /\ s' = s
      BY <1>4 DEF Finish
    <2>2. Settled = frame.saved /\ Settled' = s
      BY <2>1 DEF Settled
    <2> QED
      BY <1>2, <1>3, <2>1, <2>2 DEF AInv, Advanced
  <1>5. CASE ~ Finish
    <2>1. Settled'.rules = Settled.rules
      BY <1>1, <1>5 DEF Course, Settled
    <2> QED
      BY <1>2, <1>3, <2>1
  <1> QED
    BY <1>4, <1>5

LEMMA DecidedKept ==
  ASSUME AInv, Moved, now' = now, NEW d \in Decision, Decided(d)
  PROVE  Decided(d)'
  <1>1. /\ Settled.rules.epoch \in Nat /\ Settled'.rules.epoch \in Nat
        /\ Settled'.rules = Settled.rules \/ Settled'.rules.epoch > Settled.rules.epoch
    BY EpochGrows
  <1>2. d.epoch \in Nat
    BY DEF Decision
  <1> QED
    BY <1>1, <1>2 DEF Decided

LEMMA SameBundle ==
  ASSUME UInv, Moved, now' = now, UNCHANGED opVars
  PROVE  UInv'
  <1>1. bundle' = bundle /\ BundleOK'
    BY DEF UInv, opVars, BundleOK
  <1>2. ASSUME NEW i \in DOMAIN bundle PROVE Decided(bundle[i])'
    <2>1. PICK d : d = bundle[i]
      OBVIOUS
    <2>2. d \in Decision /\ Decided(d) /\ AInv
      BY <2>1 DEF UInv, BundleOK
    <2>3. Decided(d)'
      BY <2>2, DecidedKept
    <2> QED
      BY <1>1, <2>1, <2>3
  <1> QED
    BY <1>1, <1>2 DEF UInv, Moved

LEMMA PopBundle ==
  ASSUME UInv, Moved, now' = now, Pop
  PROVE  UInv'
  <1>1. /\ bundle \in Seq(Decision) /\ bundle # << >> /\ AInv
        /\ bundle' = Tail(bundle) /\ executing' = (Tail(bundle) # << >>) /\ opNonces' = opNonces
    BY DEF UInv, BundleOK, Pop
  <1>2. /\ Tail(bundle) \in Seq(Decision)
        /\ \A i \in DOMAIN Tail(bundle) : i + 1 \in DOMAIN bundle
                                     /\ Tail(bundle)[i] = bundle[i + 1]
    BY <1>1, HeadAndTail
  <1>3. BundleOK'
    BY <1>1, <1>2 DEF UInv, BundleOK
  <1>4. ASSUME NEW i \in DOMAIN bundle' PROVE Decided(bundle[i])'
    <2>1. PICK d : d = bundle[i + 1]
      OBVIOUS
    <2>2. bundle'[i] = d /\ d \in Decision /\ Decided(d)
      BY <1>1, <1>2, <2>1 DEF UInv
    <2>3. Decided(d)'
      BY <1>1, <2>2, DecidedKept
    <2> QED
      BY <2>2, <2>3
  <1> QED
    BY <1>3, <1>4 DEF UInv, Moved

\* Nothing but Tick moves the clock.
LEMMA StepClock ==
  ASSUME Step(Lanes)
  PROVE  now' = now
  <1>1. ASSUME NEW init, Initialize(init) PROVE now' = now
    BY <1>1 DEF Initialize
  <1>2. CallStep => now' = now
    BY DEF CallStep, CallInitSigner, CallAddSigner, CallRemoveSigner, CallReplaceSigner,
      CallSetThreshold, CallSetVetoThreshold, CallSetDelays, CallSetImplementation,
      CallFreezeImplementation, CallCancel, CallElsewhere, Calling
  <1>3. Finish \/ Abort => now' = now
    BY DEF Finish, Abort
  <1>4. ASSUME NEW key, NEW batch, NEW window, NEW sigs, Execute(key, batch, window, sigs)
        PROVE  now' = now
    BY <1>4 DEF Execute, Land
  <1>5. ASSUME NEW h, ExecuteScheduled(h) PROVE now' = now
    BY <1>5 DEF ExecuteScheduled
  <1>6. ASSUME NEW id, NEW h, Approve(id, h) \/ Veto(id, h) PROVE now' = now
    BY <1>6 DEF Approve, RecordApproval, Veto
  <1> QED
    BY <1>1, <1>2, <1>3, <1>4, <1>5, <1>6 DEF Step

-----------------------------------------------------------------------------
(* The EntryPoint's calls.                                                 *)

\* The decision validation records is of this moment and these rules.
LEMMA ValidateKeeps ==
  ASSUME UInv, NEW key \in OpKeys, NEW batch \in Batches, NEW window \in Validities,
         NEW sigs \in SUBSET Ids, ValidateUserOp(key, batch, window, sigs)
  PROVE  UInv' /\ Moved
  <1> DEFINE h     == OpHash(key, batch, window)
             calls == CallsOf[batch]
             grant == [at |-> now, rules |-> s.rules, sigs |-> sigs]
             Entry(path, delay, signer) ==
               [hash |-> h, epoch |-> s.rules.epoch, path |-> path, delay |-> delay,
                signer |-> signer, grant |-> grant]
  <1>1. /\ ~ latch /\ Created /\ ~ executing /\ Verifies(s, h, sigs)
        /\ UNCHANGED <<vars, executing>>
        /\ opNonces' = [opNonces EXCEPT ![key] = @ + 1]
    BY DEF ValidateUserOp
  <1>2. PICK signer, path, delay :
          /\ signer \in sigs
          /\ bundle' = Append(bundle, Entry(path, delay, signer))
          /\ \/ path = "SINGLE" /\ delay = 0 /\ IsSingle(calls)
             \/ path = Path(s.rules, sigs) /\ delay = Delay(s.rules, calls, sigs)
    BY DEF ValidateUserOp
  <1>3. /\ s.rules \in Rules /\ s.rules.epoch \in Nat /\ now \in Nat /\ AInv
        /\ bundle \in Seq(Decision) /\ opNonces \in [OpKeys -> Nat]
    BY DEF UInv, AInv, BundleOK, IInv, TypeOK, IsStorage, Rules
  <1>4. window[1] \in Nat /\ window[2] \in Nat /\ key \in Keys
    BY AccountAssumption, UserOpsAssumption
  <1>5. h \in Hash /\ h.key = key /\ h.batch = batch
    BY <1>3, <1>4 DEF OpHash, Hash
  <1>6. grant \in Grant /\ grant.at = now /\ grant.rules = s.rules
    BY <1>3 DEF Grant
  <1>7. /\ Delay(s.rules, calls, sigs) \in Nat
        /\ IsConfig(calls) \/ Delay(s.rules, calls, sigs) # 0
             => Delay(s.rules, calls, sigs) = Owed(grant)
    BY <1>3, DelayIsOwed
  <1>8. Path(s.rules, sigs) \in {"THRESHOLD", "RECOVERY"}
    BY DEF Path
  <1>9. Exists(s.rules, signer) /\ signer \in Ids
    BY <1>1, <1>2 DEF Verifies
  <1> HIDE DEF h, calls, grant
  <1>10. PICK d : d = Entry(path, delay, signer)
    OBVIOUS
  <1>11. /\ d.hash = h /\ d.epoch = s.rules.epoch /\ d.path = path /\ d.delay = delay
         /\ d.signer = signer /\ d.grant = grant
    BY <1>10
  <1>12. path \in Paths \cup {"SINGLE"} /\ delay \in Nat
    BY <1>2, <1>7, <1>8 DEF Paths
  <1>13. d \in Decision
    BY <1>3, <1>5, <1>6, <1>9, <1>10, <1>12 DEF Decision
  <1>14. CallsOf[d.hash.batch] = calls
    BY <1>5, <1>11 DEF calls
  <1>15. Settled = s
    BY <1>1 DEF Settled
  <1>16. Decided(d)
    <2>1. d.hash.key \in OpKeys /\ d.epoch # 0 /\ d.grant.at = now
      BY <1>1, <1>5, <1>6, <1>11 DEF Created
    <2>2. d.epoch <= Settled.rules.epoch /\ d.grant.rules = Settled.rules
      BY <1>3, <1>6, <1>11, <1>15
    <2>3. Exists(d.grant.rules, d.signer)
      BY <1>6, <1>9, <1>11
    <2>4. d.path = "SINGLE" => IsSingle(calls)
      BY <1>2, <1>8, <1>11
    <2>5. d.path # "SINGLE" /\ (IsConfig(calls) \/ d.delay # 0) => d.delay = Owed(d.grant)
      BY <1>2, <1>7, <1>11
    <2> QED
      BY <1>14, <2>1, <2>2, <2>3, <2>4, <2>5 DEF Decided
  <1>17. Moved /\ now' = now
    BY <1>1, <1>3, StillMoved DEF vars
  <1>18. bundle' = Append(bundle, d)
    BY <1>2, <1>10
  <1>19. BundleOK'
    <2>1. opNonces' \in [OpKeys -> Nat]
      BY <1>1, <1>3
    <2>2. bundle' \in Seq(Decision)
      BY <1>3, <1>13, <1>18
    <2> QED
      BY <1>1, <2>1, <2>2 DEF UInv, BundleOK
  <1>20. ASSUME NEW i \in DOMAIN bundle' PROVE Decided(bundle[i])'
    <2>1. \/ i \in DOMAIN bundle /\ bundle'[i] = bundle[i]
          \/ bundle'[i] = d
      BY <1>3, <1>13, <1>18
    <2>2. PICK e : e = bundle'[i]
      OBVIOUS
    <2>3. e \in Decision /\ Decided(e)
      BY <1>3, <1>13, <1>16, <2>1, <2>2 DEF UInv
    <2>4. Decided(e)'
      BY <1>3, <1>17, <2>3, DecidedKept
    <2> QED
      BY <2>2, <2>4
  <1> QED
    BY <1>17, <1>19, <1>20 DEF UInv, Moved

\* A single call runs for the signer it was validated for.
LEMMA SingleMoved ==
  ASSUME AInv, ~ latch, NEW signer \in Ids, Exists(s.rules, signer),
         NEW batch \in Batches, IsSingle(CallsOf[batch]), RunAs(signer, CallsOf[batch][1])
  PROVE  Moved /\ now' = now
  <1>1. PICK call : call = CallsOf[batch][1]
    OBVIOUS
  <1>2. call \in Call /\ call.op \in {"approve", "veto", "carried"} /\ RunAs(signer, call)
    <2>1. PICK calls : calls = CallsOf[batch]
      OBVIOUS
    <2>2. calls \in Seq(Call)
      BY <2>1, AccountAssumption
    <2>3. Len(calls) = 1
      BY <2>1 DEF IsSingle
    <2>4. calls[1] \in Call
      BY <2>2, <2>3, ElementOfSeq
    <2> QED
      BY <1>1, <2>1, <2>4 DEF IsSingle
  <1>3. CASE call.op = "approve"
    <2>1. RecordApproval(signer, call.hash) /\ call.hash \in Hash
      BY <1>2, <1>3 DEF RunAs, Call
    <2>2. Approve(signer, call.hash)
      BY <2>1 DEF Approve, Reachable
    <2>3. now' = now
      BY <2>1 DEF RecordApproval
    <2> QED
      BY <2>1, <2>2, <2>3, ApproveMoved
  <1>4. CASE call.op = "veto"
    <2>1. call.hash \in DOMAIN s.scheduled /\ Veto(signer, call.hash)
      BY <1>2, <1>4 DEF RunAs
    <2>2. now' = now
      BY <2>1 DEF Veto
    <2> QED
      BY <2>1, <2>2, VetoMoved
  <1>5. CASE call.op = "carried"
    <2>1. Carried
      BY <1>2, <1>5 DEF RunAs
    <2>2. Step(Lanes) \/ UNCHANGED vars
      BY <2>1 DEF Carried, Step, Lanes
    <2>3. now' = now
      BY <2>2, StepClock DEF vars
    <2> QED
      BY <2>2, <2>3, StepMoved, StillMoved
  <1> QED
    BY <1>2, <1>3, <1>4, <1>5

\* A batch runs, or waits as long as its signers owe.
LEMMA BatchMoved ==
  ASSUME AInv, ~ latch, NEW d \in Decision, Decided(d), Current(d), d.path # "SINGLE",
         Land(s, d.hash, CallsOf[d.hash.batch], d.path, d.delay,
              IsConfig(CallsOf[d.hash.batch]), d.grant)
  PROVE  Moved /\ now' = now
  <1>1. PICK h, path, delay, grant, batch :
          h = d.hash /\ path = d.path /\ delay = d.delay /\ grant = d.grant /\ batch = d.hash.batch
    OBVIOUS
  <1>2. /\ h \in Hash /\ path \in Paths /\ delay \in Nat /\ grant \in Grant /\ batch \in Batches
        /\ h.key \notin Lanes
    BY <1>1 DEF Decision, Hash, Decided, Lanes
  <1>3. /\ IsStorage(s) /\ Sound(s, ran, Lanes) /\ now \in Nat
        /\ s.rules \in Rules /\ s.rules.epoch \in Nat
    BY DEF AInv, IInv, TypeOK, IsStorage, Rules
  <1>4. Settled = s /\ d.epoch = s.rules.epoch /\ h \notin s.dead
    BY <1>1 DEF Settled, Current
  <1>5. Created /\ grant.rules = s.rules /\ grant.at = now
    BY <1>1, <1>4 DEF Decided, Created
  <1>6. PICK calls : calls = CallsOf[batch]
    OBVIOUS
  <1>7. IsConfig(calls) \/ delay # 0 => delay = Owed(grant)
    BY <1>1, <1>6 DEF Decided
  <1>8. Owed(grant) \in Nat
    <2>1. grant.rules \in Rules /\ grant.sigs \in SUBSET Ids
          /\ grant = [at |-> grant.at, rules |-> grant.rules, sigs |-> grant.sigs]
      BY <1>2 DEF Grant
    <2> QED
      BY <2>1, DelayIsOwed
  <1>9. Land(s, h, calls, path, delay, IsConfig(calls), grant)
    BY <1>1, <1>6
  <1>10. grant.at <= now
    BY <1>3, <1>5
  <1>11. IInv(Lanes)'
    BY <1>2, <1>3, <1>4, <1>5, <1>6, <1>7, <1>8, <1>9, <1>10, LanesAreKeys, LandInv, SMTT(30)
    DEF AInv
  <1>12. Advanced' /\ Kept' /\ Acts
    BY <1>3, <1>9, LandMoves
  <1>13. now' = now
    BY <1>9 DEF Land
  <1>14. Course
    <2>1. CASE delay = 0
      BY <1>4, <1>9, <2>1 DEF Land, Enter, Course
    <2>2. CASE delay # 0
      <3>1. \E x : s' = [s EXCEPT !.scheduled = x] /\ latch' = latch
        BY <1>9, <2>2 DEF Land
      <3>2. s'.rules = s.rules /\ s'.dead = s.dead /\ ~ latch'
        BY <1>3, <3>1 DEF IsStorage
      <3> QED
        BY <3>2 DEF Course
    <2> QED
      BY <2>1, <2>2
  <1> QED
    BY <1>11, <1>12, <1>13, <1>14 DEF Moved, AInv

LEMMA ExecuteMoved ==
  ASSUME UInv, ExecuteUserOp
  PROVE  Moved /\ now' = now
  <1>1. bundle \in Seq(Decision) /\ bundle # << >> /\ ~ latch /\ AInv
    BY DEF ExecuteUserOp, Pop, UInv, BundleOK
  <1>2. Head(bundle) \in Decision /\ Decided(Head(bundle))
    BY <1>1, HeadAndTail DEF UInv
  <1>3. PICK d : d = Head(bundle)
    OBVIOUS
  <1>4. /\ d \in Decision /\ Decided(d) /\ Current(d)
        /\ IF d.path = "SINGLE"
           THEN RunAs(d.signer, CallsOf[d.hash.batch][1])
           ELSE Land(s, d.hash, CallsOf[d.hash.batch], d.path, d.delay,
                     IsConfig(CallsOf[d.hash.batch]), d.grant)
    BY <1>2, <1>3 DEF ExecuteUserOp
  <1>5. CASE d.path = "SINGLE"
    <2>1. d.signer \in Ids /\ d.hash.batch \in Batches
      BY <1>4 DEF Decision, Hash
    <2>2. Exists(s.rules, d.signer)
      BY <1>1, <1>4 DEF Decided, Current, Settled
    <2>3. IsSingle(CallsOf[d.hash.batch])
      BY <1>4, <1>5 DEF Decided
    <2> QED
      BY <1>1, <1>4, <1>5, <2>1, <2>2, <2>3, SingleMoved
  <1>6. CASE d.path # "SINGLE"
    BY <1>1, <1>4, <1>6, BatchMoved
  <1> QED
    BY <1>5, <1>6

-----------------------------------------------------------------------------
(* The invariant, and what follows from it.                                *)

LEMMA NextUserOpsInv ==
  ASSUME UInv, [NextUserOps]_<<vars, opVars>>
  PROVE  UInv' /\ Moved
  <1>0. AInv
    BY DEF UInv
  <1>1. CASE Step(Lanes) /\ UNCHANGED opVars
    BY <1>0, <1>1, StepMoved, StepClock, SameBundle
  <1>2. ASSUME NEW id \in Ids \ OffChain, NEW key \in OpKeys, NEW batch \in Batches,
               NEW window \in Validities,
               Approve(id, OpHash(key, batch, window)), UNCHANGED opVars
        PROVE  UInv' /\ Moved
    <2>1. opNonces[key] \in Nat /\ s.rules.epoch \in Nat /\ key \in Keys
      BY UserOpsAssumption DEF UInv, BundleOK, AInv, IInv, TypeOK, IsStorage, Rules
    <2>2. window[1] \in Nat /\ window[2] \in Nat
      BY AccountAssumption
    <2>3. OpHash(key, batch, window) \in Hash
      BY <2>1, <2>2 DEF OpHash, Hash
    <2>4. now' = now
      BY <1>2 DEF Approve, RecordApproval
    <2>5. Moved
      BY <1>0, <1>2, <2>3, ApproveMoved
    <2> QED
      BY <1>2, <2>4, <2>5, SameBundle
  <1>3. CASE bundle = << >> /\ Tick /\ UNCHANGED opVars
    <2>1. Moved
      BY <1>0, <1>3, StillMoved
    <2>2. bundle' = << >> /\ BundleOK'
      BY <1>3 DEF opVars, UInv, BundleOK
    <2> QED
      BY <2>1, <2>2 DEF UInv, Moved
  <1>4. ASSUME NEW key \in OpKeys, NEW batch \in Batches, NEW window \in Validities,
               NEW sigs \in SUBSET Ids, ValidateUserOp(key, batch, window, sigs)
        PROVE  UInv' /\ Moved
    BY <1>4, ValidateKeeps
  <1>5. CASE StartExecution
    <2>1. /\ UNCHANGED <<vars, bundle, opNonces>> /\ executing' = TRUE /\ bundle # << >>
      BY <1>5 DEF StartExecution
    <2>2. Moved /\ now' = now
      BY <1>0, <2>1, StillMoved DEF vars
    <2>3. BundleOK'
      BY <2>1 DEF UInv, BundleOK
    <2>4. ASSUME NEW i \in DOMAIN bundle PROVE Decided(bundle[i])'
      <3>1. PICK d : d = bundle[i]
        OBVIOUS
      <3>2. d \in Decision /\ Decided(d)
        BY <3>1 DEF UInv, BundleOK
      <3>3. Decided(d)'
        BY <1>0, <2>2, <3>2, DecidedKept
      <3> QED
        BY <2>1, <3>1, <3>3
    <2> QED
      BY <2>1, <2>2, <2>3, <2>4 DEF UInv, Moved
  <1>6. CASE ExecuteUserOp
    <2>1. Moved /\ now' = now
      BY <1>6, ExecuteMoved
    <2> QED
      BY <1>6, <2>1, PopBundle DEF ExecuteUserOp
  <1>7. CASE FailUserOp
    <2>1. Moved /\ now' = now
      BY <1>0, <1>7, StillMoved DEF FailUserOp, vars
    <2> QED
      BY <1>7, <2>1, PopBundle DEF FailUserOp
  <1>8. CASE UNCHANGED <<vars, opVars>>
    <2>1. Moved /\ now' = now
      BY <1>0, <1>8, StillMoved DEF vars
    <2> QED
      BY <1>8, <2>1, SameBundle
  <1> QED
    BY <1>1, <1>2, <1>3, <1>4, <1>5, <1>6, <1>7, <1>8 DEF NextUserOps, Lanes

LEMMA InitUserOpsInv == InitUserOps => UInv
  <1> SUFFICES ASSUME InitUserOps PROVE UInv
    OBVIOUS
  <1>1. IInv(Lanes)
    BY LanesAreKeys, InitInv DEF InitUserOps
  <1>2. Advanced /\ Kept
    BY DEF InitUserOps, Init, Advanced, Kept
  <1>3. /\ bundle = << >> /\ executing = FALSE /\ opNonces = [key \in OpKeys |-> 0]
    BY DEF InitUserOps
  <1>4. BundleOK
    <2>1. bundle \in Seq(Decision)
      BY <1>3
    <2>2. opNonces \in [OpKeys -> Nat]
      BY <1>3
    <2> QED
      BY <1>3, <2>1, <2>2 DEF BundleOK
  <1> QED
    BY <1>1, <1>2, <1>3, <1>4 DEF UInv, AInv

THEOREM UserOpsInvariance == SpecUserOps => []UInv
  <1>1. UInv /\ [NextUserOps]_<<vars, opVars>> => UInv'
    BY NextUserOpsInv
  <1> QED
    BY <1>1, InitUserOpsInv, PTL DEF SpecUserOps

\* The account's storage and the records of validated operations keep their
\* types, and execution always has something to execute (UserOpsTypeOK).
THEOREM UserOpsTypeCorrect == SpecUserOps => []UserOpsTypeOK
  <1>1. UInv => UserOpsTypeOK
    BY DEF UInv, AInv, IInv, BundleOK, UserOpsTypeOK
  <1> QED
    BY <1>1, UserOpsInvariance, PTL

\* A hash that died between the validation and the execution of its operation
\* does not run, nor any other dead hash.
THEOREM UserOpsDeadIsFinal == SpecUserOps => DeadIsFinal
  <1>1. UInv /\ [NextUserOps]_<<vars, opVars>> =>
          [ /\ Settled.dead \subseteq Settled'.dead
            /\ ~ latch /\ latch' => frame'.hash \notin s.dead ]_vars
    <2> SUFFICES ASSUME UInv, [NextUserOps]_<<vars, opVars>>
                 PROVE  /\ Settled.dead \subseteq Settled'.dead
                        /\ ~ latch /\ latch' => frame'.hash \notin s.dead
      OBVIOUS
    <2>1. Course
      BY NextUserOpsInv DEF Moved
    <2>2. CASE Finish
      <3>1. latch /\ ~ latch' /\ s' = s
        BY <2>2 DEF Finish
      <3>2. frame.saved.dead \subseteq s.dead
        BY <3>1 DEF UInv, AInv, IInv, Running
      <3> QED
        BY <3>1, <3>2 DEF Settled
    <2>3. CASE ~ Finish
      BY <2>1, <2>3 DEF Course, Settled
    <2> QED
      BY <2>2, <2>3
  <1> QED
    BY <1>1, UserOpsInvariance, PTL DEF SpecUserOps, DeadIsFinal

\* What a batch was validated under is what it changes the rules under, after
\* the wait those rules ask, whatever the operations before it did.
THEOREM UserOpsRulesChange == SpecUserOps => RulesChangeAsAgreed
  <1>1. UInv /\ [NextUserOps]_<<vars, opVars>> =>
          [ Settled.rules # Settled'.rules =>
             /\ latch /\ ~ latch'
             /\ \/ frame.origin = "initialize"
                \/ /\ frame.grant.rules = Settled.rules
                   /\ now >= frame.grant.at + Owed(frame.grant) ]_vars
    <2> SUFFICES ASSUME UInv, [NextUserOps]_<<vars, opVars>>, Settled.rules # Settled'.rules
                 PROVE  /\ latch /\ ~ latch'
                        /\ \/ frame.origin = "initialize"
                           \/ /\ frame.grant.rules = Settled.rules
                              /\ now >= frame.grant.at + Owed(frame.grant)
      OBVIOUS
    <2>1. Finish
      BY NextUserOpsInv DEF Moved, Course, Settled
    <2>2. latch /\ ~ latch' /\ s' = s
      BY <2>1 DEF Finish
    <2>3. Settled = frame.saved /\ Settled' = s
      BY <2>2 DEF Settled
    <2>4. Running(frame, s, ran, now, Lanes) /\ frame.config \in BOOLEAN
      BY <2>2 DEF UInv, AInv, IInv, TypeOK, IsFrame
    <2>5. frame.config
      BY <2>3, <2>4 DEF Running
    <2> QED
      BY <2>2, <2>3, <2>4, <2>5 DEF Running
  <1> QED
    BY <1>1, UserOpsInvariance, PTL DEF SpecUserOps, RulesChangeAsAgreed

\* A validated approval or veto counts only for a signer the account still has,
\* and a veto only for one who may veto.
THEOREM SignersActCorrect == SpecUserOps => SignersActForThemselves
  <1>1. UInv /\ [NextUserOps]_<<vars, opVars>> => Acts
    BY NextUserOpsInv DEF Moved
  <1>2. Acts =>
          [ /\ \A vote \in s'.vetoes \ s.vetoes : "VETO" \in s.rules.signers[vote[2]].permissions
            /\ \A approval \in s'.approvals \ s.approvals : Exists(s.rules, approval[2]) ]_vars
    BY DEF Acts
  <1> QED
    BY <1>1, <1>2, UserOpsInvariance, PTL DEF SpecUserOps, SignersActForThemselves
=============================================================================
