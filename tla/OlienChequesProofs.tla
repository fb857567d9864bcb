------------------------- MODULE OlienChequesProofs -------------------------
(***************************************************************************)
(* Proofs about OlienCheques, for any number of signers, requests, rules,  *)
(* changes of them and faults, and any times.                              *)
(***************************************************************************)
EXTENDS OlienCheques, FiniteSetTheorems, TLAPS

-----------------------------------------------------------------------------
(* The invariant *)

\* The cheque has been issued once: it is no draft and never will be again.
Left == cheque.status \notin {"none", "open"}

\* What is about to be issued is a set that was enough.
Packed == \A r \in Requests : request[r].at = "issuing" => request[r].packed # {}

\* Only a cheque that was out is asked about, or voided by proposal.
Outward ==
  /\ indexer.at \in {"asking", "cashed", "expired"} => Left
  /\ \A r \in Requests : request[r].at \in {"proposing", "marking"} => Left

\* Nothing can be cashed any more, and nothing was.
Lapsed == ~used /\ block >= ValidBefore

\* What the indexer carries from the token to the row stays so on the way.
Heard ==
  /\ indexer.at = "cashed" => used
  /\ indexer.at = "expired" => Lapsed

\* A log tells of what has happened, the indexer's time is past, and blocks are not too late.
Told == (log => cancelled) /\ indexer.time <= now /\ now <= block + Lag

\* A draft that is not written has no signatures.
Blank == cheque.status = "none" => signatures = {}

\* A request that signs counts by the mirror's rules, unless they moved meanwhile.
Fresh ==
  ~disturbed => \A r \in Requests : request[r].at \in {"signing", "counting"} => request[r].rules = mirror

IInv == ChequesTypeOK /\ Packed /\ Outward /\ Told /\ Blank /\ Fresh /\ EnoughIsIssued

\* Expiry is judged rightly when blocks lag by a second at most.
OutcomeInv == IInv /\ Heard /\ TrueOutcome

-----------------------------------------------------------------------------
LEMMA DoneType ==
  /\ Done \in [at : {"idle"}, signer : Signers, rules : Rules, packed : {{}}]
  /\ \A r \in Rules : r.approvers \subseteq Signers /\ r.threshold \in Nat \ {0}
  BY ChequesAssumption DEF ChequesAssumption, Done

LEMMA InitInv == Init => IInv
  <1> SUFFICES ASSUME Init PROVE IInv
    OBVIOUS
  <1>1. request \in [Requests -> [at : {"idle"}, signer : Signers, rules : Rules, packed : {{}}]]
    BY DoneType DEF Init
  <1>2. /\ now \in 0..MaxTime /\ block \in 0..now /\ changes \in 0..MaxChanges /\ faults \in 0..MaxFaults
        /\ indexer \in [at : {"idle"}, time : 0..MaxTime]
    BY ChequesAssumption DEF ChequesAssumption, Init
  <1>3. ChequesTypeOK
    BY <1>1, <1>2 DEF Init, ChequesTypeOK, Status, Final
  <1>4. Packed /\ Outward /\ Told /\ Blank /\ Fresh
    BY <1>1, ChequesAssumption DEF ChequesAssumption, Init, Packed, Outward, Left, Told, Blank, Fresh
  <1>5. EnoughIsIssued
    BY DEF Init, EnoughIsIssued
  <1> QED
    BY <1>3, <1>4, <1>5 DEF IInv

LEMMA WriteInv ==
  ASSUME IInv, Write
  PROVE  IInv'
  <1> USE DEF Write, time, chain, rows, Asks, OnlyAsks, Hears, At, Fault, Exists, Out, Status, Final
  <1>1. ChequesTypeOK'
    BY DoneType, ChequesAssumption DEF ChequesAssumption, IInv, ChequesTypeOK, Packed, Outward, Left
  <1>2. Packed' /\ Outward' /\ Told' /\ Blank' /\ Fresh'
    BY DoneType DEF IInv, ChequesTypeOK, Packed, Outward, Left, Told, Blank, Fresh
  <1>3. EnoughIsIssued'
    <2>1. signatures = {} /\ signatures' = {} /\ mirror' \in Rules
      BY DEF IInv, ChequesTypeOK, Blank
    <2>2. Cardinality(signatures' \cap mirror'.approvers) = 0
      BY <2>1, FS_EmptySet
    <2> QED
      BY <2>1, <2>2, DoneType DEF EnoughIsIssued, Enough
  <1> QED
    BY <1>1, <1>2, <1>3 DEF IInv

LEMMA BeginSignInv ==
  ASSUME NEW r \in Requests, NEW s \in Signers, IInv, BeginSign(r, s)
  PROVE  IInv'
  <1> USE DEF BeginSign, time, chain, rows, Asks, OnlyAsks, Hears, At, Fault, Exists, Out, Status, Final
  <1>1. ChequesTypeOK'
    BY DoneType, ChequesAssumption DEF ChequesAssumption, IInv, ChequesTypeOK, Packed, Outward, Left
  <1>2. Packed' /\ Outward' /\ Told' /\ Blank' /\ Fresh'
    BY DoneType DEF IInv, ChequesTypeOK, Packed, Outward, Left, Told, Blank, Fresh
  <1>3. EnoughIsIssued'
    BY DoneType DEF IInv, ChequesTypeOK, EnoughIsIssued, Enough, Fresh, Blank
  <1> QED
    BY <1>1, <1>2, <1>3 DEF IInv

LEMMA PutSignatureInv ==
  ASSUME NEW r \in Requests, IInv, PutSignature(r)
  PROVE  IInv'
  <1> USE DEF PutSignature, time, chain, rows, Asks, OnlyAsks, Hears, At, Fault, Exists, Out, Status, Final
  <1>1. ChequesTypeOK'
    BY DoneType, ChequesAssumption DEF ChequesAssumption, IInv, ChequesTypeOK, Packed, Outward, Left
  <1>2. Packed' /\ Outward' /\ Told' /\ Blank' /\ Fresh'
    BY DoneType DEF IInv, ChequesTypeOK, Packed, Outward, Left, Told, Blank, Fresh
  <1>3. EnoughIsIssued'
    BY DoneType DEF IInv, ChequesTypeOK, EnoughIsIssued, Enough, Fresh, Blank
  <1> QED
    BY <1>1, <1>2, <1>3 DEF IInv

LEMMA CountInv ==
  ASSUME NEW r \in Requests, IInv, Count(r)
  PROVE  IInv'
  <1> USE DEF Count, time, chain, rows, Asks, OnlyAsks, Hears, At, Fault, Exists, Out, Status, Final
  <1>1. ChequesTypeOK'
    BY DoneType, ChequesAssumption DEF ChequesAssumption, IInv, ChequesTypeOK, Packed, Outward, Left, Counted
  <1>2. Cardinality(Counted(r)) \in Nat /\ (Counted(r) = {} => Cardinality(Counted(r)) = 0)
    <2>1. Counted(r) \subseteq Signers
      BY DEF Counted, IInv, ChequesTypeOK
    <2>2. IsFiniteSet(Counted(r))
      BY <2>1, ChequesAssumption, FS_Subset DEF ChequesAssumption
    <2> QED
      BY <2>2, FS_CardinalityType, FS_EmptySet
  <1>3. Packed' /\ Outward' /\ Told' /\ Blank' /\ Fresh'
    <2>1. request[r].rules.threshold \in Nat \ {0}
      BY DoneType DEF IInv, ChequesTypeOK
    <2>2. ~(Cardinality(Counted(r)) < request[r].rules.threshold) => Counted(r) # {}
      BY <2>1, <1>2
    <2> QED
      BY <2>2, DoneType DEF IInv, ChequesTypeOK, Packed, Outward, Left, Told, Blank, Fresh
  <1>4. EnoughIsIssued'
    <2> SUFFICES ASSUME cheque.status = "open", Enough, ~disturbed
                 PROVE  \E q \in Requests : request'[q].at \in {"counting", "issuing"}
      BY DEF EnoughIsIssued, Enough
    <2>1. ~(Cardinality(Counted(r)) < request[r].rules.threshold)
      <3>1. request[r].rules = mirror
        BY DEF IInv, Fresh
      <3>2. Counted(r) = signatures \cap mirror.approvers
        BY <3>1 DEF Counted
      <3>3. Cardinality(Counted(r)) >= mirror.threshold
        BY <3>2 DEF Enough
      <3>4. mirror.threshold \in Nat
        BY DoneType DEF IInv, ChequesTypeOK
      <3> QED
        BY <3>1, <3>3, <3>4, <1>2
    <2>2. request'[r].at = "issuing"
      BY <2>1, DoneType DEF IInv, ChequesTypeOK
    <2> QED
      BY <2>2
  <1> QED
    BY <1>1, <1>3, <1>4 DEF IInv

LEMMA IssueInv ==
  ASSUME NEW r \in Requests, IInv, Issue(r)
  PROVE  IInv'
  <1> USE DEF Issue, StillOpen, time, chain, rows, Asks, OnlyAsks, Hears, At, Fault, Exists, Out, Status, Final
  <1>1. ChequesTypeOK'
    BY DoneType, ChequesAssumption DEF ChequesAssumption, IInv, ChequesTypeOK, Packed, Outward, Left
  <1>2. Packed' /\ Outward' /\ Told' /\ Blank' /\ Fresh'
    BY DoneType DEF IInv, ChequesTypeOK, Packed, Outward, Left, Told, Blank, Fresh
  <1>3. EnoughIsIssued'
    BY DoneType DEF IInv, ChequesTypeOK, EnoughIsIssued, Enough, Fresh, Blank
  <1> QED
    BY <1>1, <1>2, <1>3 DEF IInv

LEMMA BeginVoidInv ==
  ASSUME NEW r \in Requests, IInv, BeginVoid(r)
  PROVE  IInv'
  <1> USE DEF BeginVoid, IsDraft, time, chain, rows, Asks, OnlyAsks, Hears, At, Fault, Exists, Out, Status, Final
  <1>1. ChequesTypeOK'
    BY DoneType, ChequesAssumption DEF ChequesAssumption, IInv, ChequesTypeOK, Packed, Outward, Left
  <1>2. Packed' /\ Outward' /\ Told' /\ Blank' /\ Fresh'
    BY DoneType DEF IInv, ChequesTypeOK, Packed, Outward, Left, Told, Blank, Fresh
  <1>3. EnoughIsIssued'
    BY DoneType DEF IInv, ChequesTypeOK, EnoughIsIssued, Enough, Fresh, Blank
  <1> QED
    BY <1>1, <1>2, <1>3 DEF IInv

LEMMA DeleteDraftInv ==
  ASSUME NEW r \in Requests, IInv, DeleteDraft(r)
  PROVE  IInv'
  <1> USE DEF DeleteDraft, time, chain, rows, Asks, OnlyAsks, Hears, At, Fault, Exists, Out, Status, Final
  <1>1. ChequesTypeOK'
    BY DoneType, ChequesAssumption DEF ChequesAssumption, IInv, ChequesTypeOK, Packed, Outward, Left
  <1>2. Packed' /\ Outward' /\ Told' /\ Blank' /\ Fresh'
    BY DoneType DEF IInv, ChequesTypeOK, Packed, Outward, Left, Told, Blank, Fresh
  <1>3. EnoughIsIssued'
    BY DoneType DEF IInv, ChequesTypeOK, EnoughIsIssued, Enough, Fresh, Blank
  <1> QED
    BY <1>1, <1>2, <1>3 DEF IInv

LEMMA ProposeVoidInv ==
  ASSUME NEW r \in Requests, IInv, ProposeVoid(r)
  PROVE  IInv'
  <1> USE DEF ProposeVoid, time, chain, rows, Asks, OnlyAsks, Hears, At, Fault, Exists, Out, Status, Final
  <1>1. ChequesTypeOK'
    <2>1. {voidProposed, used, cancelled, log, disturbed}' \subseteq BOOLEAN
      BY Zenon DEF IInv, ChequesTypeOK
    <2>2. request' \in [Requests -> [at : {"idle", "signing", "counting", "issuing", "deleting", "proposing", "marking"},
                                     signer : Signers, rules : Rules, packed : SUBSET Signers]]
      BY DoneType DEF IInv, ChequesTypeOK
    <2>3. /\ (cheque \in [status : Status, packed : SUBSET Signers])'
          /\ (cheque.status \in {"none", "open"} => cheque.packed = {})'
          /\ (cheque.status \in {"issued", "voiding"} \cup Final => cheque.packed # {})'
      BY DEF IInv, ChequesTypeOK
    <2>4. /\ now' \in 0..MaxTime /\ block' \in 0..now' /\ rules' \in Rules /\ mirror' \in Rules
          /\ changes' \in 0..MaxChanges /\ signatures' \subseteq Signers /\ held' \subseteq Signers
          /\ (indexer \in [at : {"idle", "mirroring", "refreshing", "asking", "cashed", "expired"}, time : 0..MaxTime])'
          /\ faults' \in 0..MaxFaults
      BY ChequesAssumption DEF ChequesAssumption, IInv, ChequesTypeOK
    <2> QED
      BY <2>1, <2>2, <2>3, <2>4 DEF ChequesTypeOK
  <1>2. Packed' /\ Outward' /\ Told' /\ Blank' /\ Fresh'
    BY DoneType DEF IInv, ChequesTypeOK, Packed, Outward, Left, Told, Blank, Fresh
  <1>3. EnoughIsIssued'
    BY DoneType DEF IInv, ChequesTypeOK, EnoughIsIssued, Enough, Fresh, Blank
  <1> QED
    BY <1>1, <1>2, <1>3 DEF IInv

LEMMA MarkVoidingInv ==
  ASSUME NEW r \in Requests, IInv, MarkVoiding(r)
  PROVE  IInv'
  <1> USE DEF MarkVoiding, Marked, time, chain, rows, Asks, OnlyAsks, Hears, At, Fault, Exists, Out, Status, Final
  <1>1. ChequesTypeOK'
    BY DoneType, ChequesAssumption DEF ChequesAssumption, IInv, ChequesTypeOK, Packed, Outward, Left
  <1>2. Packed' /\ Outward' /\ Told' /\ Blank' /\ Fresh'
    BY DoneType DEF IInv, ChequesTypeOK, Packed, Outward, Left, Told, Blank, Fresh
  <1>3. EnoughIsIssued'
    BY DoneType DEF IInv, ChequesTypeOK, EnoughIsIssued, Enough, Fresh, Blank
  <1> QED
    BY <1>1, <1>2, <1>3 DEF IInv

LEMMA FetchInv ==
  ASSUME IInv, Fetch
  PROVE  IInv'
  <1> USE DEF Fetch, time, chain, rows, Asks, OnlyAsks, Hears, At, Fault, Exists, Out, Status, Final
  <1>1. ChequesTypeOK'
    BY DoneType, ChequesAssumption DEF ChequesAssumption, IInv, ChequesTypeOK, Packed, Outward, Left
  <1>2. Packed' /\ Outward' /\ Told' /\ Blank' /\ Fresh'
    BY DoneType DEF IInv, ChequesTypeOK, Packed, Outward, Left, Told, Blank, Fresh
  <1>3. EnoughIsIssued'
    BY DoneType DEF IInv, ChequesTypeOK, EnoughIsIssued, Enough, Fresh, Blank
  <1> QED
    BY <1>1, <1>2, <1>3 DEF IInv

LEMMA CashInv ==
  ASSUME IInv, Cash
  PROVE  IInv'
  <1> USE DEF Cash, time, chain, rows, Asks, OnlyAsks, Hears, At, Fault, Exists, Out, Status, Final
  <1>1. ChequesTypeOK'
    BY DoneType, ChequesAssumption DEF ChequesAssumption, IInv, ChequesTypeOK, Packed, Outward, Left
  <1>2. Packed' /\ Outward' /\ Told' /\ Blank' /\ Fresh'
    BY DoneType DEF IInv, ChequesTypeOK, Packed, Outward, Left, Told, Blank, Fresh
  <1>3. EnoughIsIssued'
    BY DoneType DEF IInv, ChequesTypeOK, EnoughIsIssued, Enough, Fresh, Blank
  <1> QED
    BY <1>1, <1>2, <1>3 DEF IInv

LEMMA CancelInv ==
  ASSUME IInv, Cancel
  PROVE  IInv'
  <1> USE DEF Cancel, time, chain, rows, Asks, OnlyAsks, Hears, At, Fault, Exists, Out, Status, Final
  <1>1. ChequesTypeOK'
    BY DoneType, ChequesAssumption DEF ChequesAssumption, IInv, ChequesTypeOK, Packed, Outward, Left
  <1>2. Packed' /\ Outward' /\ Told' /\ Blank' /\ Fresh'
    BY DoneType DEF IInv, ChequesTypeOK, Packed, Outward, Left, Told, Blank, Fresh
  <1>3. EnoughIsIssued'
    BY DoneType DEF IInv, ChequesTypeOK, EnoughIsIssued, Enough, Fresh, Blank
  <1> QED
    BY <1>1, <1>2, <1>3 DEF IInv

LEMMA ChangeRulesInv ==
  ASSUME NEW new \in Rules, IInv, ChangeRules(new)
  PROVE  IInv'
  <1> USE DEF ChangeRules, time, chain, rows, Asks, OnlyAsks, Hears, At, Fault, Exists, Out, Status, Final
  <1>1. ChequesTypeOK'
    BY DoneType, ChequesAssumption DEF ChequesAssumption, IInv, ChequesTypeOK, Packed, Outward, Left
  <1>2. Packed' /\ Outward' /\ Told' /\ Blank' /\ Fresh'
    BY DoneType DEF IInv, ChequesTypeOK, Packed, Outward, Left, Told, Blank, Fresh
  <1>3. EnoughIsIssued'
    BY DoneType DEF IInv, ChequesTypeOK, EnoughIsIssued, Enough, Fresh, Blank
  <1> QED
    BY <1>1, <1>2, <1>3 DEF IInv

LEMMA IndexLogsInv ==
  ASSUME IInv, IndexLogs
  PROVE  IInv'
  <1> USE DEF IndexLogs, time, chain, rows, Asks, OnlyAsks, Hears, At, Fault, Exists, Out, Status, Final
  <1>1. ChequesTypeOK'
    <2>1. {voidProposed, used, cancelled, log, disturbed}' \subseteq BOOLEAN
      BY Zenon DEF IInv, ChequesTypeOK
    <2>2. request' \in [Requests -> [at : {"idle", "signing", "counting", "issuing", "deleting", "proposing", "marking"},
                                     signer : Signers, rules : Rules, packed : SUBSET Signers]]
      BY DoneType DEF IInv, ChequesTypeOK
    <2>3. /\ (cheque \in [status : Status, packed : SUBSET Signers])'
          /\ (cheque.status \in {"none", "open"} => cheque.packed = {})'
          /\ (cheque.status \in {"issued", "voiding"} \cup Final => cheque.packed # {})'
      BY DEF IInv, ChequesTypeOK
    <2>4. /\ now' \in 0..MaxTime /\ block' \in 0..now' /\ rules' \in Rules /\ mirror' \in Rules
          /\ changes' \in 0..MaxChanges /\ signatures' \subseteq Signers /\ held' \subseteq Signers
          /\ (indexer \in [at : {"idle", "mirroring", "refreshing", "asking", "cashed", "expired"}, time : 0..MaxTime])'
          /\ faults' \in 0..MaxFaults
      BY ChequesAssumption DEF ChequesAssumption, IInv, ChequesTypeOK
    <2> QED
      BY <2>1, <2>2, <2>3, <2>4 DEF ChequesTypeOK
  <1>2. Packed' /\ Outward' /\ Told' /\ Blank' /\ Fresh'
    BY DoneType DEF IInv, ChequesTypeOK, Packed, Outward, Left, Told, Blank, Fresh
  <1>3. EnoughIsIssued'
    BY DoneType DEF IInv, ChequesTypeOK, EnoughIsIssued, Enough, Fresh, Blank
  <1> QED
    BY <1>1, <1>2, <1>3 DEF IInv

LEMMA MirrorRulesInv ==
  ASSUME IInv, MirrorRules
  PROVE  IInv'
  <1> USE DEF MirrorRules, time, chain, rows, Asks, OnlyAsks, Hears, At, Fault, Exists, Out, Status, Final
  <1>1. ChequesTypeOK'
    BY DoneType, ChequesAssumption DEF ChequesAssumption, IInv, ChequesTypeOK, Packed, Outward, Left
  <1>2. Packed' /\ Outward' /\ Told' /\ Blank' /\ Fresh'
    <2>1. Packed' /\ Outward' /\ Blank' /\ Told'
      BY DEF IInv, ChequesTypeOK, Packed, Outward, Left, Told, Blank
    <2>2. Fresh'
      BY DEF IInv, ChequesTypeOK, Fresh
    <2> QED
      BY <2>1, <2>2
  <1>3. EnoughIsIssued'
    BY DoneType DEF IInv, ChequesTypeOK, EnoughIsIssued, Enough, Fresh, Blank
  <1> QED
    BY <1>1, <1>2, <1>3 DEF IInv

LEMMA ReadChequesInv ==
  ASSUME IInv, ReadCheques
  PROVE  IInv'
  <1> USE DEF ReadCheques, time, chain, rows, Asks, OnlyAsks, Hears, At, Fault, Exists, Out, Status, Final
  <1>1. ChequesTypeOK'
    BY DoneType, ChequesAssumption DEF ChequesAssumption, IInv, ChequesTypeOK, Packed, Outward, Left
  <1>2. Packed' /\ Outward' /\ Told' /\ Blank' /\ Fresh'
    BY DoneType DEF IInv, ChequesTypeOK, Packed, Outward, Left, Told, Blank, Fresh
  <1>3. EnoughIsIssued'
    BY DoneType DEF IInv, ChequesTypeOK, EnoughIsIssued, Enough, Fresh, Blank
  <1> QED
    BY <1>1, <1>2, <1>3 DEF IInv

LEMMA AskTokenInv ==
  ASSUME IInv, AskToken
  PROVE  IInv'
  <1> USE DEF AskToken, time, chain, rows, Asks, OnlyAsks, Hears, At, Fault, Exists, Out, Status, Final
  <1>1. ChequesTypeOK'
    BY DoneType, ChequesAssumption DEF ChequesAssumption, IInv, ChequesTypeOK, Packed, Outward, Left
  <1>2. Packed' /\ Outward' /\ Told' /\ Blank' /\ Fresh'
    BY DoneType DEF IInv, ChequesTypeOK, Packed, Outward, Left, Told, Blank, Fresh
  <1>3. EnoughIsIssued'
    BY DoneType DEF IInv, ChequesTypeOK, EnoughIsIssued, Enough, Fresh, Blank
  <1> QED
    BY <1>1, <1>2, <1>3 DEF IInv

LEMMA WriteOutcomeInv ==
  ASSUME IInv, WriteOutcome
  PROVE  IInv'
  <1> USE DEF WriteOutcome, Expired, time, chain, rows, Asks, OnlyAsks, Hears, At, Fault, Exists, Out, Status, Final
  <1>1. ChequesTypeOK'
    BY DoneType, ChequesAssumption DEF ChequesAssumption, IInv, ChequesTypeOK, Packed, Outward, Left
  <1>2. Packed' /\ Outward' /\ Told' /\ Blank' /\ Fresh'
    BY DoneType DEF IInv, ChequesTypeOK, Packed, Outward, Left, Told, Blank, Fresh
  <1>3. EnoughIsIssued'
    BY DoneType DEF IInv, ChequesTypeOK, EnoughIsIssued, Enough, Fresh, Blank
  <1> QED
    BY <1>1, <1>2, <1>3 DEF IInv

LEMMA CrashInv ==
  ASSUME IInv, Crash
  PROVE  IInv'
  <1> USE DEF Crash, time, chain, rows, Asks, OnlyAsks, Hears, At, Fault, Exists, Out, Status, Final
  <1>1. ChequesTypeOK'
    BY DoneType, ChequesAssumption DEF ChequesAssumption, IInv, ChequesTypeOK, Packed, Outward, Left
  <1>2. Packed' /\ Outward' /\ Told' /\ Blank' /\ Fresh'
    BY DoneType DEF IInv, ChequesTypeOK, Packed, Outward, Left, Told, Blank, Fresh
  <1>3. EnoughIsIssued'
    BY DoneType DEF IInv, ChequesTypeOK, EnoughIsIssued, Enough, Fresh, Blank
  <1> QED
    BY <1>1, <1>2, <1>3 DEF IInv

LEMMA LoseLogInv ==
  ASSUME IInv, LoseLog
  PROVE  IInv'
  <1> USE DEF LoseLog, time, chain, rows, Asks, OnlyAsks, Hears, At, Fault, Exists, Out, Status, Final
  <1>1. ChequesTypeOK'
    <2>1. {voidProposed, used, cancelled, log, disturbed}' \subseteq BOOLEAN
      BY Zenon DEF IInv, ChequesTypeOK
    <2>2. request' \in [Requests -> [at : {"idle", "signing", "counting", "issuing", "deleting", "proposing", "marking"},
                                     signer : Signers, rules : Rules, packed : SUBSET Signers]]
      BY DoneType DEF IInv, ChequesTypeOK
    <2>3. /\ (cheque \in [status : Status, packed : SUBSET Signers])'
          /\ (cheque.status \in {"none", "open"} => cheque.packed = {})'
          /\ (cheque.status \in {"issued", "voiding"} \cup Final => cheque.packed # {})'
      BY DEF IInv, ChequesTypeOK
    <2>4. /\ now' \in 0..MaxTime /\ block' \in 0..now' /\ rules' \in Rules /\ mirror' \in Rules
          /\ changes' \in 0..MaxChanges /\ signatures' \subseteq Signers /\ held' \subseteq Signers
          /\ (indexer \in [at : {"idle", "mirroring", "refreshing", "asking", "cashed", "expired"}, time : 0..MaxTime])'
          /\ faults' \in 0..MaxFaults
      BY ChequesAssumption DEF ChequesAssumption, IInv, ChequesTypeOK
    <2> QED
      BY <2>1, <2>2, <2>3, <2>4 DEF ChequesTypeOK
  <1>2. Packed' /\ Outward' /\ Told' /\ Blank' /\ Fresh'
    BY DoneType DEF IInv, ChequesTypeOK, Packed, Outward, Left, Told, Blank, Fresh
  <1>3. EnoughIsIssued'
    BY DoneType DEF IInv, ChequesTypeOK, EnoughIsIssued, Enough, Fresh, Blank
  <1> QED
    BY <1>1, <1>2, <1>3 DEF IInv

LEMMA TickInv ==
  ASSUME IInv, Tick
  PROVE  IInv'
  <1> USE DEF Tick, time, chain, rows, Asks, OnlyAsks, Hears, At, Fault, Exists, Out, Status, Final
  <1>1. ChequesTypeOK'
    BY DoneType, ChequesAssumption DEF ChequesAssumption, IInv, ChequesTypeOK, Packed, Outward, Left
  <1>2. Packed' /\ Outward' /\ Told' /\ Blank' /\ Fresh'
    BY ChequesAssumption DEF ChequesAssumption, IInv, ChequesTypeOK, Packed, Outward, Left, Told, Blank, Fresh
  <1>3. EnoughIsIssued'
    BY DoneType DEF IInv, ChequesTypeOK, EnoughIsIssued, Enough, Fresh, Blank
  <1> QED
    BY <1>1, <1>2, <1>3 DEF IInv

LEMMA NewBlockInv ==
  ASSUME IInv, NewBlock
  PROVE  IInv'
  <1> USE DEF NewBlock, time, chain, rows, Asks, OnlyAsks, Hears, At, Fault, Exists, Out, Status, Final
  <1>1. ChequesTypeOK'
    BY DoneType, ChequesAssumption DEF ChequesAssumption, IInv, ChequesTypeOK, Packed, Outward, Left
  <1>2. Packed' /\ Outward' /\ Told' /\ Blank' /\ Fresh'
    BY ChequesAssumption DEF ChequesAssumption, IInv, ChequesTypeOK, Packed, Outward, Left, Told, Blank, Fresh
  <1>3. EnoughIsIssued'
    BY DoneType DEF IInv, ChequesTypeOK, EnoughIsIssued, Enough, Fresh, Blank
  <1> QED
    BY <1>1, <1>2, <1>3 DEF IInv

LEMMA NextInv == IInv /\ [Next]_vars => IInv'
  <1> SUFFICES ASSUME IInv, [Next]_vars PROVE IInv'
    OBVIOUS
  <1>1. CASE UNCHANGED vars
    BY <1>1 DEF vars, time, chain, rows, IInv, ChequesTypeOK, Packed, Outward, Left, Told, Blank, Fresh,
      EnoughIsIssued, Enough
  <1>2. CASE Next
    BY <1>2, WriteInv, BeginSignInv, PutSignatureInv, CountInv, IssueInv, BeginVoidInv, DeleteDraftInv,
      ProposeVoidInv, MarkVoidingInv, FetchInv, CashInv, CancelInv, ChangeRulesInv, IndexLogsInv, MirrorRulesInv,
      ReadChequesInv, AskTokenInv, WriteOutcomeInv, CrashInv, LoseLogInv, TickInv, NewBlockInv
    DEF Next, IndexerStep
  <1> QED
    BY <1>1, <1>2

\* The types, the row's and its requests' states, and what is on its way between them.
THEOREM ChequesInvariance == Spec => []IInv
  BY InitInv, NextInv, PTL DEF Spec

\* The row, the requests and the indexer stay within their types, and a cheque has a
\* packed set exactly from when it is issued (issue_if_ready).
THEOREM ChequesTypeCorrect == Spec => []ChequesTypeOK
  <1>1. IInv => ChequesTypeOK
    BY DEF IInv
  <1> QED
    BY <1>1, ChequesInvariance, PTL

\* However many requests sign at once, none of them leaves a cheque open that has
\* enough signatures (sign, issue_if_ready).
THEOREM EnoughCorrect == Spec => []EnoughIsIssued
  <1>1. IInv => EnoughIsIssued
    BY DEF IInv
  <1> QED
    BY <1>1, ChequesInvariance, PTL

-----------------------------------------------------------------------------
(* Outcomes *)

\* Who pays, who cancels, and when a block comes.
LEMMA ChainMoves ==
  ASSUME [Next]_vars
  PROVE  (used' = used \/ Cash) /\ (cancelled' = cancelled \/ Cancel) /\ (block' = block \/ NewBlock)
  BY DEF Next, vars, time, chain, rows, Write, BeginSign, PutSignature, Count, Issue, BeginVoid, DeleteDraft,
      ProposeVoid, MarkVoiding, OnlyAsks, Fetch, Cash, Cancel, ChangeRules, IndexLogs, MirrorRules, ReadCheques,
      AskToken, WriteOutcome, Crash, Fault, LoseLog, Tick, NewBlock, IndexerStep

\* The indexer hears of outcomes from the token only, and only it ends a cheque.
LEMMA IndexerMoves ==
  ASSUME [Next]_vars, IInv
  PROVE  /\ indexer' = indexer \/ AskToken \/ indexer'.at \notin {"cashed", "expired"}
         /\ cheque'.status = cheque.status \/ IndexLogs \/ WriteOutcome \/ cheque'.status \notin Final
  <1> DEFINE Goal == /\ indexer' = indexer \/ AskToken \/ indexer'.at \notin {"cashed", "expired"}
                     /\ cheque'.status = cheque.status \/ IndexLogs \/ WriteOutcome \/ cheque'.status \notin Final
  <1> USE DEF time, chain, rows, OnlyAsks, Fault, Hears, Exists, Marked, Final
  <1>1. ASSUME NEW r \in Requests,
               (\E t \in Signers : BeginSign(r, t)) \/ PutSignature(r) \/ Count(r) \/ BeginVoid(r) \/ ProposeVoid(r)
        PROVE  Goal
    BY <1>1 DEF BeginSign, PutSignature, Count, BeginVoid, ProposeVoid
  <1>2. ASSUME NEW r \in Requests, Issue(r) \/ DeleteDraft(r) \/ MarkVoiding(r)
        PROVE  Goal
    BY <1>2 DEF Issue, DeleteDraft, MarkVoiding, IInv, ChequesTypeOK
  <1>3. CASE Write \/ Fetch \/ Cash \/ Cancel \/ (\E new \in Rules : ChangeRules(new)) \/ Tick \/ NewBlock
    BY <1>3 DEF Write, Fetch, Cash, Cancel, ChangeRules, Tick, NewBlock, IInv, ChequesTypeOK
  <1>4. CASE MirrorRules \/ ReadCheques \/ Crash \/ LoseLog
    BY <1>4 DEF MirrorRules, ReadCheques, Crash, LoseLog
  <1>5. CASE IndexLogs \/ AskToken \/ WriteOutcome
    BY <1>5 DEF IndexLogs, AskToken, WriteOutcome
  <1>6. CASE UNCHANGED vars
    BY <1>6 DEF vars
  <1> QED
    BY <1>1, <1>2, <1>3, <1>4, <1>5, <1>6 DEF Next, IndexerStep

LEMMA OutcomeNext ==
  ASSUME Lag <= 1, OutcomeInv, [Next]_vars
  PROVE  OutcomeInv'
  <1> USE DEF OutcomeInv
  <1>1. IInv'
    BY NextInv
  <1>2. /\ now \in Int /\ block \in Int /\ block' \in Int /\ indexer.time \in Int
        /\ ValidBefore \in Int /\ Lag \in Int /\ now <= block + Lag /\ indexer.time <= now /\ (log => cancelled)
    BY <1>1, ChequesAssumption DEF ChequesAssumption, IInv, ChequesTypeOK, Told
  <1>3. used => used'
    BY ChainMoves DEF Cash
  <1>4. cancelled => cancelled'
    BY ChainMoves DEF Cancel
  <1>5. block >= ValidBefore => used' = used
    <2>1. block >= ValidBefore => ~(block < ValidBefore)
      BY <1>2
    <2> QED
      BY <2>1, ChainMoves, Zenon DEF Cash
  <1>6. block' >= block
    BY <1>2, ChainMoves DEF NewBlock
  <1>7. Lapsed => Lapsed'
    BY <1>2, <1>5, <1>6 DEF Lapsed
  <1>8. CASE AskToken
    <2>1. Expired(indexer.time) => block >= ValidBefore
      BY <1>2 DEF Expired, IInv, ChequesTypeOK
    <2>2. Heard'
      BY <1>8, <2>1 DEF AskToken, Hears, Heard, Lapsed, time, chain
    <2>3. TrueOutcome'
      BY <1>8 DEF AskToken, TrueOutcome, time, chain, rows
    <2> QED
      BY <1>1, <2>2, <2>3
  <1>9. CASE IndexLogs
    <2>1. Heard'
      BY <1>9 DEF IndexLogs, Hears, Heard
    <2>2. TrueOutcome'
      BY <1>9, <1>2 DEF IndexLogs, TrueOutcome, time, chain, IInv, ChequesTypeOK
    <2> QED
      BY <1>1, <2>1, <2>2
  <1>10. CASE WriteOutcome
    <2>1. Heard'
      BY <1>10 DEF WriteOutcome, Hears, Heard
    <2>2. TrueOutcome'
      BY <1>10 DEF WriteOutcome, At, Heard, Lapsed, TrueOutcome, time, chain, IInv, ChequesTypeOK
    <2> QED
      BY <1>1, <2>1, <2>2
  <1>11. CASE ~AskToken /\ ~IndexLogs /\ ~WriteOutcome
    <2>1. Heard'
      BY <1>3, <1>7, <1>11, IndexerMoves DEF Heard
    <2>2. cheque'.status = cheque.status \/ cheque'.status \notin Final
      BY <1>11, IndexerMoves
    <2>3. TrueOutcome'
      BY <1>3, <1>4, <1>7, <2>2 DEF TrueOutcome, Final, Lapsed
    <2> QED
      BY <1>1, <2>1, <2>3
  <1> QED
    BY <1>8, <1>9, <1>10, <1>11

\* What the row says in the end is so, as long as blocks lag by a second at most:
\* cashed is paid, voided is cancelled, expired can never be paid (refresh, on_cancelled).
THEOREM OutcomeCorrect == ASSUME Lag <= 1 PROVE Spec => []TrueOutcome
  <1>1. Init => OutcomeInv
    BY InitInv DEF Init, OutcomeInv, Heard, TrueOutcome
  <1>2. OutcomeInv /\ [Next]_vars => OutcomeInv'
    BY OutcomeNext
  <1>3. OutcomeInv => TrueOutcome
    BY DEF OutcomeInv
  <1> QED
    BY <1>1, <1>2, <1>3, PTL DEF Spec

\* A cheque that was not cashed when it came to be voided never is, whatever its
\* recipient holds: the account has refused it since (void, on_cancelled).
THEOREM RefusedCorrect == Spec => RefusedOnceVoided
  <1> DEFINE Voided == cheque.status = "voided" => cancelled
  <1>1. Init => IInv /\ Voided
    BY InitInv DEF Init
  <1>2. ASSUME IInv, Voided, [Next]_vars
        PROVE  IInv' /\ Voided'
    <2>1. cheque'.status = "voided" => cheque.status = "voided" \/ IndexLogs \/ WriteOutcome
      BY <1>2, IndexerMoves DEF Final
    <2>2. WriteOutcome /\ cheque'.status = "voided" => cheque.status = "voided"
      BY <1>2 DEF WriteOutcome, At, IInv, ChequesTypeOK
    <2>3. IndexLogs /\ cheque'.status = "voided" => cheque.status = "voided" \/ cancelled
      BY <1>2 DEF IndexLogs, IInv, Told
    <2>4. cancelled => cancelled'
      BY <1>2, ChainMoves DEF Cancel
    <2> QED
      BY <1>2, <2>1, <2>2, <2>3, <2>4, NextInv
  <1>3. ASSUME Voided, [Next]_vars
        PROVE  [cheque.status = "voided" /\ ~used => ~used']_vars
    BY <1>3, ChainMoves DEF Cash, Accepts
  <1> QED
    BY <1>1, <1>2, <1>3, PTL DEF Spec, RefusedOnceVoided
=============================================================================
