-------------------------- MODULE OlienRulesProofs --------------------------
(***************************************************************************)
(* Lemmas about the signer registry: what adding and removing a signer     *)
(* keeps, for every set of signers.                                        *)
(***************************************************************************)
EXTENDS OlienRules, FiniteSetTheorems, SequenceTheorems, TLAPS

\* Both directions of the counter arithmetic stay in uint16, and step by one
\* where they do not wrap.
LEMMA WrapStep ==
  ASSUME NEW n \in Counter
  PROVE  /\ Wrap(n + 1) \in Counter
         /\ Wrap(n + (UINT16 - 1)) \in Counter
         /\ n < UINT16 - 1 => Wrap(n + 1) = n + 1
         /\ n # 0 => Wrap(n + (UINT16 - 1)) = n - 1
  BY RulesAssumption DEF Wrap, Counter

LEMMA CountType ==
  ASSUME NEW r \in Rules, NEW permissions
  PROVE  /\ Count(r, permissions, 1) \in Rules
         /\ Count(r, permissions, UINT16 - 1) \in Rules
  <1> DEFINE C(d) == [t \in Tallied |->
                        IF t \subseteq permissions THEN Wrap(r.counts[t] + d) ELSE r.counts[t]]
  <1>1. r.counts \in [Tallied -> Counter]
    BY DEF Rules
  <1>2. C(1) \in [Tallied -> Counter] /\ C(UINT16 - 1) \in [Tallied -> Counter]
    BY <1>1, WrapStep
  <1> QED
    BY <1>2 DEF Count, Rules

LEMMA AddSignerType ==
  ASSUME NEW r \in Rules, NEW input \in SignerInput
  PROVE  AddSigner(r, input) \in Rules
  <1> DEFINE c == Count(r, input.permissions, 1)
  <1>1. c \in Rules
    BY CountType
  <1>2. /\ input.id \in Ids /\ input.permissions \in SUBSET Permissions
        /\ KindOf(input.id) \in Kinds
    BY DEF SignerInput, KindOf, Kinds
  <1>3. r.epoch \in Nat /\ Len(r.signerList) + 1 \in Nat
    BY DEF Rules
  <1>4. [kind |-> KindOf(input.id), permissions |-> input.permissions,
         since |-> r.epoch, index |-> Len(r.signerList) + 1] \in Signer
    BY <1>2, <1>3 DEF Signer
  <1>5. Append(c.signerList, input.id) \in Seq(Ids)
    BY <1>1, <1>2 DEF Rules
  <1> HIDE DEF c
  <1> QED
    BY <1>1, <1>2, <1>4, <1>5 DEF AddSigner, Rules, c

\* Where the last listed signer goes when another is removed.
LEMMA RemovedList ==
  ASSUME NEW r \in Rules, NEW id \in Ids, Indexed(r), Exists(r, id)
  PROVE  LET index == r.signers[id].index
             last == Len(r.signerList)
             list == RemoveSigner(r, id).signerList
         IN  /\ last \in Nat \ {0} /\ index \in 1 .. last
             /\ r.signerList \in [1 .. last -> Ids]
             /\ list \in Seq(Ids) /\ Len(list) = last - 1
             /\ \A i \in 1 .. last - 1 :
                  list[i] = IF i = index THEN r.signerList[last] ELSE r.signerList[i]
  <1> DEFINE index == r.signers[id].index
             last == Len(r.signerList)
             long == [r.signerList EXCEPT ![index] = r.signerList[last]]
  <1>1. r.signerList \in Seq(Ids) /\ last \in Nat /\ r.signerList \in [1 .. last -> Ids]
    BY LenProperties DEF Rules
  <1>2. last # 0 /\ index \in 1 .. last
    BY <1>1 DEF Indexed
  <1>3. long \in Seq(Ids) /\ Len(long) = last
    BY <1>1, <1>2, ExceptSeq
  <1>4. \A i \in 1 .. last : long[i] = IF i = index THEN r.signerList[last] ELSE r.signerList[i]
    BY <1>1, <1>2
  <1>5. RemoveSigner(r, id).signerList = SubSeq(long, 1, last - 1)
    BY DEF RemoveSigner, Count, Rules
  <1> HIDE DEF long
  <1>6. /\ SubSeq(long, 1, last - 1) \in Seq(Ids)
        /\ Len(SubSeq(long, 1, last - 1)) = last - 1
        /\ \A i \in 1 .. last - 1 : SubSeq(long, 1, last - 1)[i] = long[i]
    BY <1>1, <1>2, <1>3, SubSeqProperties
  <1> QED
    BY <1>1, <1>2, <1>4, <1>5, <1>6

\* The registry entries after a removal.
LEMMA RemovedSigners ==
  ASSUME NEW r \in Rules, NEW id \in Ids, Indexed(r), Exists(r, id)
  PROVE  LET moved == r.signerList[Len(r.signerList)]
             after == RemoveSigner(r, id).signers
         IN  /\ moved \in Ids
             /\ after \in [Ids -> Signer]
             /\ after[id] = NoSigner
             /\ \A x \in Ids \ {id} :
                  after[x] = IF x = moved THEN [r.signers[x] EXCEPT !.index = r.signers[id].index]
                             ELSE r.signers[x]
  <1> DEFINE index == r.signers[id].index
             moved == r.signerList[Len(r.signerList)]
  <1>1. r.signers \in [Ids -> Signer] /\ moved \in Ids /\ index \in Nat
    BY RemovedList DEF Rules, Signer
  <1>2. RemoveSigner(r, id).signers
          = [[r.signers EXCEPT ![moved].index = index] EXCEPT ![id] = NoSigner]
    BY DEF RemoveSigner, Count, Rules
  <1>3. NoSigner \in Signer
    BY DEF NoSigner, Signer, Kinds, Permissions
  <1>4. [r.signers[moved] EXCEPT !.index = index] \in Signer
    BY <1>1 DEF Signer
  <1> HIDE DEF index, moved
  <1>5. [r.signers EXCEPT ![moved].index = index]
          = [r.signers EXCEPT ![moved] = [r.signers[moved] EXCEPT !.index = index]]
    BY <1>1
  <1> QED
    BY <1>1, <1>2, <1>3, <1>4, <1>5 DEF index, moved

LEMMA RemoveSignerType ==
  ASSUME NEW r \in Rules, NEW id \in Ids, Indexed(r), Exists(r, id)
  PROVE  RemoveSigner(r, id) \in Rules
  <1> DEFINE c == Count(r, r.signers[id].permissions, UINT16 - 1)
             after == RemoveSigner(r, id)
  <1>1. c \in Rules
    BY CountType
  <1>2. after.signers \in [Ids -> Signer] /\ after.signerList \in Seq(Ids)
    BY RemovedSigners, RemovedList
  <1>3. after = [c EXCEPT !.signerList = after.signerList, !.signers = after.signers]
    BY DEF RemoveSigner, Count, Rules
  <1> HIDE DEF c, after
  <1> QED
    BY <1>1, <1>2, <1>3 DEF Rules, after

\* The registry entries and the list after an addition.
LEMMA Added ==
  ASSUME NEW r \in Rules, NEW input \in SignerInput
  PROVE  LET after == AddSigner(r, input)
             last == Len(r.signerList)
         IN  /\ last \in Nat
             /\ r.signerList \in [1 .. last -> Ids]
             /\ Len(after.signerList) = last + 1
             /\ \A i \in 1 .. last + 1 :
                  after.signerList[i] = IF i = last + 1 THEN input.id ELSE r.signerList[i]
             /\ after.signers[input.id] = [kind |-> KindOf(input.id),
                  permissions |-> input.permissions, since |-> r.epoch, index |-> last + 1]
             /\ \A x \in Ids \ {input.id} : after.signers[x] = r.signers[x]
  <1> DEFINE after == AddSigner(r, input)
             last == Len(r.signerList)
  <1>1. r.signers \in [Ids -> Signer] /\ input.id \in Ids
    BY DEF Rules, SignerInput
  <1>2. r.signerList \in Seq(Ids) /\ last \in Nat /\ r.signerList \in [1 .. last -> Ids]
    BY LenProperties DEF Rules
  <1>3. after.signerList = Append(r.signerList, input.id)
    BY DEF AddSigner, Count, Rules
  <1>4. after.signers = [r.signers EXCEPT ![input.id] = [kind |-> KindOf(input.id),
                  permissions |-> input.permissions, since |-> r.epoch, index |-> last + 1]]
    BY DEF AddSigner, Count, Rules
  <1>5. /\ Len(after.signerList) = last + 1
        /\ \A i \in 1 .. last + 1 :
             after.signerList[i] = IF i = last + 1 THEN input.id ELSE r.signerList[i]
    BY <1>1, <1>2, <1>3
  <1> HIDE DEF after, last
  <1> QED
    BY <1>1, <1>2, <1>4, <1>5 DEF after, last

LEMMA AddSignerIndexed ==
  ASSUME NEW r \in Rules, NEW input \in SignerInput, Indexed(r), ~ Exists(r, input.id)
  PROVE  Indexed(AddSigner(r, input))
  <1> SUFFICES ASSUME NEW after, after = AddSigner(r, input),
                      NEW last, last = Len(r.signerList)
               PROVE  Indexed(after)
    OBVIOUS
  <1>1. /\ last \in Nat
        /\ Len(after.signerList) = last + 1
        /\ \A i \in 1 .. last + 1 :
             after.signerList[i] = IF i = last + 1 THEN input.id ELSE r.signerList[i]
        /\ \A x \in Ids \ {input.id} : after.signers[x] = r.signers[x]
    BY Added
  <1>2. /\ input.id \in Ids
        /\ after.signers[input.id].index = last + 1
        /\ after.signers[input.id].kind # "NONE"
    <2>1. after.signers[input.id] = [kind |-> KindOf(input.id),
            permissions |-> input.permissions, since |-> r.epoch, index |-> last + 1]
      BY Added
    <2>2. input.id \in Ids /\ KindOf(input.id) # "NONE"
      BY DEF SignerInput, KindOf
    <2> QED
      BY <2>1, <2>2
  <1>3. \A i \in 1 .. last : /\ r.signerList[i] \in Ids
                             /\ r.signers[r.signerList[i]].kind # "NONE"
                             /\ r.signers[r.signerList[i]].index = i
    BY Added DEF Indexed, Exists
  <1>4. r.signers[input.id].kind = "NONE"
    BY DEF Exists
  <1>5. ASSUME NEW i \in 1 .. Len(after.signerList)
        PROVE  Exists(after, after.signerList[i]) /\ after.signers[after.signerList[i]].index = i
    <2>1. CASE i = last + 1
      BY <1>1, <1>2, <2>1 DEF Exists
    <2>2. CASE i # last + 1
      <3>1. i \in 1 .. last /\ after.signerList[i] = r.signerList[i]
        BY <1>1, <2>2
      <3>2. r.signerList[i] \in Ids \ {input.id}
        BY <1>3, <1>4, <3>1
      <3> QED
        BY <1>1, <1>3, <3>1, <3>2 DEF Exists
    <2> QED
      BY <2>1, <2>2
  <1>6. ASSUME NEW id \in Ids
        PROVE  IF Exists(after, id)
               THEN /\ after.signers[id].index \in 1 .. Len(after.signerList)
                    /\ after.signerList[after.signers[id].index] = id
               ELSE after.signers[id] = NoSigner
    <2>1. CASE id = input.id
      BY <1>1, <1>2, <2>1 DEF Exists
    <2>2. CASE id # input.id
      <3>1. after.signers[id] = r.signers[id]
        BY <1>1, <2>2
      <3>2. CASE Exists(r, id)
        <4>1. r.signers[id].index \in 1 .. last /\ r.signerList[r.signers[id].index] = id
          BY <3>2 DEF Indexed
        <4> QED
          BY <1>1, <3>1, <3>2, <4>1 DEF Exists
      <3>3. CASE ~ Exists(r, id)
        BY <3>1, <3>3 DEF Indexed, Exists
      <3> QED
        BY <3>2, <3>3
    <2> QED
      BY <2>1, <2>2
  <1> QED
    BY <1>5, <1>6 DEF Indexed

\* Swap-and-pop keeps list and indexes in step (_removeSigner).
LEMMA RemoveSignerIndexed ==
  ASSUME NEW r \in Rules, NEW id \in Ids, Indexed(r), Exists(r, id)
  PROVE  Indexed(RemoveSigner(r, id)) /\ ~ Exists(RemoveSigner(r, id), id)
  <1> SUFFICES ASSUME NEW after, after = RemoveSigner(r, id),
                      NEW last, last = Len(r.signerList),
                      NEW index, index = r.signers[id].index,
                      NEW moved, moved = r.signerList[last]
               PROVE  Indexed(after) /\ ~ Exists(after, id)
    OBVIOUS
  <1>1. /\ last \in Nat \ {0} /\ index \in 1 .. last
        /\ Len(after.signerList) = last - 1
        /\ \A i \in 1 .. last - 1 :
             after.signerList[i] = IF i = index THEN moved ELSE r.signerList[i]
    BY RemovedList
  <1>2. /\ moved \in Ids
        /\ after.signers[id] = NoSigner
        /\ \A x \in Ids \ {id} :
             after.signers[x] = IF x = moved THEN [r.signers[x] EXCEPT !.index = index]
                                ELSE r.signers[x]
    BY RemovedSigners
  <1>3. \A i \in 1 .. last : /\ r.signerList[i] \in Ids
                             /\ r.signers[r.signerList[i]].kind # "NONE"
                             /\ r.signers[r.signerList[i]].index = i
    BY RemovedList DEF Indexed, Exists
  <1>4. /\ r.signerList[index] = id
        /\ r.signers[moved].index = last /\ r.signers[moved].kind # "NONE"
    BY <1>1, <1>3 DEF Indexed
  <1>5. ~ Exists(after, id)
    BY <1>2 DEF Exists, NoSigner
  <1>6. \A x \in Ids \ {id} :
          /\ after.signers[x].kind = r.signers[x].kind
          /\ after.signers[x].index = IF x = moved THEN index ELSE r.signers[x].index
          /\ x # moved => after.signers[x] = r.signers[x]
    <2>1. \A x \in Ids : r.signers[x] \in Signer
      BY DEF Rules
    <2> QED
      BY <1>2, <2>1 DEF Signer
  <1>7. ASSUME NEW i \in 1 .. Len(after.signerList)
        PROVE  Exists(after, after.signerList[i]) /\ after.signers[after.signerList[i]].index = i
    <2>1. i \in 1 .. last - 1 /\ i \in 1 .. last
      BY <1>1
    <2>2. CASE i = index
      <3>1. after.signerList[i] = moved /\ moved # id
        BY <1>1, <1>4, <2>1, <2>2
      <3> QED
        BY <1>2, <1>4, <1>6, <2>2, <3>1 DEF Exists
    <2>3. CASE i # index
      <3>1. after.signerList[i] = r.signerList[i]
        BY <1>1, <2>1, <2>3
      <3>2. r.signerList[i] # id /\ r.signerList[i] # moved
        BY <1>1, <1>3, <1>4, <2>1, <2>3
      <3> QED
        BY <1>3, <1>6, <2>1, <3>1, <3>2 DEF Exists
    <2> QED
      BY <2>2, <2>3
  <1>8. ASSUME NEW x \in Ids
        PROVE  IF Exists(after, x)
               THEN /\ after.signers[x].index \in 1 .. Len(after.signerList)
                    /\ after.signerList[after.signers[x].index] = x
               ELSE after.signers[x] = NoSigner
    <2>1. CASE x = id
      BY <1>2, <1>5, <2>1
    <2>2. CASE x # id /\ ~ Exists(r, x)
      <3>1. x # moved /\ r.signers[x] = NoSigner
        BY <1>4, <2>2 DEF Indexed, Exists
      <3> QED
        BY <1>6, <2>2, <3>1 DEF Exists
    <2>3. CASE x # id /\ Exists(r, x) /\ x = moved
      <3>1. index # last /\ index \in 1 .. last - 1
        BY <1>1, <1>4, <2>3
      <3> QED
        BY <1>1, <1>6, <2>3, <3>1 DEF Exists
    <2>4. CASE x # id /\ Exists(r, x) /\ x # moved
      <3>1. r.signers[x].index \in 1 .. last /\ r.signerList[r.signers[x].index] = x
        BY <2>4 DEF Indexed
      <3>2. r.signers[x].index # last /\ r.signers[x].index # index
        BY <1>4, <2>4, <3>1
      <3>3. r.signers[x].index \in 1 .. last - 1
        BY <1>1, <3>1, <3>2
      <3>4. after.signerList[r.signers[x].index] = x
        BY <1>1, <3>1, <3>2, <3>3
      <3> QED
        BY <1>1, <1>6, <2>4, <3>3, <3>4 DEF Exists
    <2> QED
      BY <2>1, <2>2, <2>3, <2>4
  <1> QED
    BY <1>5, <1>7, <1>8 DEF Indexed

-----------------------------------------------------------------------------
\* Who is tallied by a counter.
Tally(r, t) == {id \in Ids : t \subseteq r.signers[id].permissions}

LEMMA TallyBound ==
  ASSUME NEW r, NEW t
  PROVE  /\ IsFiniteSet(Tally(r, t))
         /\ Cardinality(Tally(r, t)) \in Nat
         /\ Cardinality(Tally(r, t)) <= Cardinality(Ids)
  BY FS_Subset, FS_CardinalityType, RulesAssumption DEF Tally

LEMMA AddSignerCounted ==
  ASSUME NEW r \in Rules, NEW input \in SignerInput,
         Counted(r), Indexed(r), ~ Exists(r, input.id)
  PROVE  Counted(AddSigner(r, input))
  <1> SUFFICES ASSUME NEW after, after = AddSigner(r, input), NEW t \in Tallied
               PROVE  after.counts[t] = Cardinality(Tally(after, t))
    BY DEF Counted, Tally
  <1>1. /\ input.id \in Ids
        /\ after.signers[input.id].permissions = input.permissions
        /\ \A x \in Ids \ {input.id} : after.signers[x] = r.signers[x]
    <2>1. input.id \in Ids
      BY DEF SignerInput
    <2>2. /\ after.signers[input.id] = [kind |-> KindOf(input.id),
                permissions |-> input.permissions, since |-> r.epoch, index |-> Len(r.signerList) + 1]
          /\ \A x \in Ids \ {input.id} : after.signers[x] = r.signers[x]
      BY Added
    <2> QED
      BY <2>1, <2>2
  <1>2. r.signers[input.id].permissions = {} /\ t # {}
    <2>1. r.signers[input.id] = NoSigner
      BY <1>1 DEF Indexed
    <2>2. t # {}
      BY DEF Tallied
    <2> QED
      BY <2>1, <2>2 DEF NoSigner
  <1>3. r.counts[t] = Cardinality(Tally(r, t)) /\ r.counts[t] \in Counter
    BY DEF Counted, Tally, Rules
  <1>4. after.counts[t] =
          IF t \subseteq input.permissions THEN Wrap(r.counts[t] + 1) ELSE r.counts[t]
    BY DEF AddSigner, Count, Rules
  <1>5. input.id \notin Tally(r, t)
    BY <1>2 DEF Tally
  <1>6. CASE t \subseteq input.permissions
    <2>1. Tally(after, t) = Tally(r, t) \cup {input.id}
      BY <1>1, <1>6 DEF Tally
    <2>2. Cardinality(Tally(after, t)) = Cardinality(Tally(r, t)) + 1
      BY <1>5, <2>1, TallyBound, FS_AddElement
    <2>3. r.counts[t] < UINT16 - 1
      <3>1. Cardinality(Tally(after, t)) <= Cardinality(Ids) /\ Cardinality(Ids) \in Nat
        BY TallyBound, FS_CardinalityType, RulesAssumption
      <3> QED
        BY <1>3, <2>2, <3>1, TallyBound, RulesAssumption
    <2> QED
      BY <1>3, <1>4, <1>6, <2>2, <2>3, WrapStep
  <1>7. CASE ~ t \subseteq input.permissions
    <2>1. Tally(after, t) = Tally(r, t)
      BY <1>1, <1>2, <1>7 DEF Tally
    <2> QED
      BY <1>3, <1>4, <1>7, <2>1
  <1> QED
    BY <1>6, <1>7

LEMMA RemoveSignerCounted ==
  ASSUME NEW r \in Rules, NEW id \in Ids, Counted(r), Indexed(r), Exists(r, id)
  PROVE  Counted(RemoveSigner(r, id))
  <1> SUFFICES ASSUME NEW after, after = RemoveSigner(r, id), NEW t \in Tallied
               PROVE  after.counts[t] = Cardinality(Tally(after, t))
    BY DEF Counted, Tally
  <1>1. \A x \in Ids : r.signers[x] \in Signer
    BY DEF Rules
  <1>2. /\ after.signers[id].permissions = {}
        /\ \A x \in Ids \ {id} : after.signers[x].permissions = r.signers[x].permissions
    <2> DEFINE moved == r.signerList[Len(r.signerList)]
               index == r.signers[id].index
    <2>1. /\ after.signers[id] = NoSigner
          /\ \A x \in Ids \ {id} :
               after.signers[x] = IF x = moved THEN [r.signers[x] EXCEPT !.index = index]
                                  ELSE r.signers[x]
      BY RemovedSigners
    <2> HIDE DEF moved, index
    <2>2. after.signers[id].permissions = {}
      BY <2>1 DEF NoSigner
    <2>3. \A x \in Ids \ {id} : after.signers[x].permissions = r.signers[x].permissions
      BY <1>1, <2>1 DEF Signer
    <2> QED
      BY <2>2, <2>3
  <1>3. t # {}
    BY DEF Tallied
  <1>4. r.counts[t] = Cardinality(Tally(r, t)) /\ r.counts[t] \in Counter
    BY DEF Counted, Tally, Rules
  <1>5. after.counts[t] =
          IF t \subseteq r.signers[id].permissions THEN Wrap(r.counts[t] + (UINT16 - 1))
          ELSE r.counts[t]
    BY DEF RemoveSigner, Count, Rules
  <1>6. CASE t \subseteq r.signers[id].permissions
    <2>1. Tally(after, t) = Tally(r, t) \ {id} /\ id \in Tally(r, t)
      BY <1>2, <1>3, <1>6 DEF Tally
    <2>2. Cardinality(Tally(after, t)) = Cardinality(Tally(r, t)) - 1
      BY <2>1, TallyBound, FS_RemoveElement
    <2>3. r.counts[t] # 0
      BY <1>4, <2>2, TallyBound
    <2> QED
      BY <1>4, <1>5, <1>6, <2>2, <2>3, WrapStep
  <1>7. CASE ~ t \subseteq r.signers[id].permissions
    <2>1. Tally(after, t) = Tally(r, t)
      BY <1>2, <1>3, <1>7 DEF Tally
    <2> QED
      BY <1>4, <1>5, <1>7, <2>1
  <1> QED
    BY <1>6, <1>7
=============================================================================
