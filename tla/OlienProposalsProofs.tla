------------------------ MODULE OlienProposalsProofs ------------------------
(***************************************************************************)
(* Proofs about OlienProposals, for any rules, any queue to begin with,    *)
(* any number of requests, blocks and sequences, and any faults.           *)
(*                                                                         *)
(* The argument: the chain forgets nothing, so what was true of it when    *)
(* it was read stays true while a request holds it.  The invariant says    *)
(* what each place of a request may hold, that every event of a block is   *)
(* true, and that a row says no more than the chain has done.              *)
(***************************************************************************)
EXTENDS OlienProposals, SequenceTheorems, TLAPS

-----------------------------------------------------------------------------
(* The inductive invariant *)

\* What a status says of the chain, and of the time.
Claims(c, l, h, status) ==
  /\ status = "executed" => h \in c.ran
  /\ status = "scheduled" => h \in c.waiting \cup c.ran \cup c.dead
  /\ status \in {"vetoed", "cancelled"} => h \in c.dead
  /\ status = "replaced" => h.seq < c.nonce \/ h.seq \in c.ops
  /\ status = "expired" => h \in l

\* An event tells what the chain has done.  The number of an Executed is the lane's or the
\* EntryPoint's.
Holds(c, e) ==
  /\ e.name = "Executed" => /\ e.hash \in c.ran \cup {Foreign}
                            /\ \A h \in Hash : h.seq = e.arg => h.seq < c.nonce \/ h.seq \in c.ops
  /\ e.name = "Scheduled" => /\ e.hash \in c.waiting \cup c.ran \cup c.dead
                             /\ \A h \in Hash : h.seq = e.arg => h.seq < c.nonce
  /\ e.name = "ScheduledExecuted" => e.hash \in c.ran
  /\ e.name = "Cancelled" => e.hash \in c.dead
  /\ e.name = "Approved" => e.arg \in Signers
  /\ e.name = "EpochAdvanced" => e.arg \in Epochs

TrueEvents(c) == {e \in Event : Holds(c, e)}
Block(c) == Seq(TrueEvents(c)) \ {<< >>}

ChainOK(c) ==
  /\ c \in [nonce : 0..(MaxSeq + 1), epoch : Epochs, ran : SUBSET Hash, waiting : SUBSET Hash,
            dead : SUBSET Hash, ops : SUBSET Operations, blocks : Seq(Seq(Event))]
  /\ c.blocks \in Seq(Block(c))

\* The chain forgets nothing.
Grows(c, d) ==
  /\ c.nonce <= d.nonce /\ c.ops \subseteq d.ops /\ c.ran \subseteq d.ran /\ c.dead \subseteq d.dead
  /\ c.waiting \cup c.ran \cup c.dead \subseteq d.waiting \cup d.ran \cup d.dead
  /\ Len(c.blocks) <= Len(d.blocks) /\ \A n \in 1..Len(c.blocks) : d.blocks[n] = c.blocks[n]

RowsOK(table, c, l) ==
  /\ DOMAIN table \subseteq Hash
  /\ table \in [DOMAIN table -> [status : Statuses, confirmations : SUBSET Signers]]
  /\ \A h \in DOMAIN table : Claims(c, l, h, table[h].status)

AccountOK(row, c) ==
  /\ row \in [epoch : Epochs, threshold : Nat, approvers : SUBSET Signers,
              lane : 0..c.nonce, indexed : 0..Len(c.blocks)]

Places == {"unborn", "called", "judged", "confirming", "laning", "numbering", "inserting", "deleting",
           "claiming", "signing", "sending", "sent", "landed", "refused", "replacing", "mirroring",
           "writingRules", "rulesWritten", "writingSigners", "mirrored", "written", "leaving", "done",
           "idle", "reading", "relaning"}

\* Where a request is once it has sent a transaction: it sends no other.
Late == {"sent", "landed", "refused", "replacing", "mirroring", "writingRules", "rulesWritten",
         "writingSigners", "mirrored", "written", "leaving", "done"}

Sent == {"execute", "executeScheduled", "veto"}
Updates == UNION {[D -> Statuses] : D \in SUBSET Hash}

Task == [at : Places, op : Sent \cup {"look"}, hash : Hash \cup {Foreign},
         row : [epoch : Epochs \cup {0}, threshold : Nat, approvers : SUBSET Signers],
         updates : Updates, sigs : SUBSET Signers, nonce : Nat]

\* What the chain has done of a transaction that landed.
LandedAs(op, h, c) ==
  /\ op = "execute" => /\ h.seq < c.nonce
                       /\ IF h.calls = "rules" THEN h \in c.waiting \cup c.ran \cup c.dead ELSE h \in c.ran
  /\ op = "executeScheduled" => h \in c.ran

\* What a task holds is of the rows, and was true of the chain when it was read.
TaskOK(t, c, l, known) ==
  /\ t \in Task
  /\ t.nonce <= c.nonce
  /\ \A h \in DOMAIN t.updates : h \in known /\ Claims(c, l, h, t.updates[h])
  /\ t.at \in {"called", "writingRules"} => t.row.epoch \in Epochs
  /\ t.at \in {"confirming", "laning", "numbering", "inserting", "claiming", "signing",
               "sending", "sent", "landed", "replacing"} => t.hash \in Hash
  /\ t.at \in {"claiming", "replacing"} => t.op = "execute"
  /\ t.at \in {"signing", "sending", "sent", "landed"} => t.op \in Sent
  /\ t.at \in {"landed", "replacing"} => LandedAs(t.op, t.hash, c)

TasksOK ==
  /\ tasks \in [Requests \cup {Indexer} -> Task]
  /\ \A r \in Requests \cup {Indexer} : TaskOK(tasks[r], chain, lapsed, DOMAIN rows)

\* A transaction that is not mined is of a request that waits for it or has left it.
PendingOK ==
  \A t \in pending :
    /\ t \in [op : Sent, hash : Hash, sigs : SUBSET Signers, epoch : Epochs \cup {0}, by : Requests]
    /\ tasks[t.by].at \in Late
    /\ tasks[t.by].at = "sent" => tasks[t.by].op = t.op /\ tasks[t.by].hash = t.hash

\* The cycle stands at an event of a block below its head, or at the start of a block.
ReadingOK ==
  /\ reading \in [head : Nat, block : Nat, event : Nat, changed : BOOLEAN]
  /\ tasks[Indexer].at = "reading" =>
       /\ reading.head <= Len(chain.blocks) /\ reading.block >= 1 /\ reading.event >= 1
       /\ \/ reading.event = 1
          \/ reading.block <= Len(chain.blocks) /\ reading.event <= Len(chain.blocks[reading.block])

IInv ==
  /\ ChainOK(chain) /\ lapsed \subseteq Hash
  /\ RowsOK(rows, chain, lapsed) /\ AccountOK(account, chain)
  /\ TasksOK /\ PendingOK /\ ReadingOK

-----------------------------------------------------------------------------
(* Constants *)

\* The rules of every epoch have their types, and there is a first epoch.
LEMMA Rules ==
  /\ 1 \in Epochs /\ Epochs \subseteq Nat
  /\ \A e \in Epochs : /\ RulesOf[e].approvers \in SUBSET Signers
                       /\ RulesOf[e].threshold \in Nat /\ RulesOf[e].waits \in BOOLEAN
  <1> DEFINE R == [approvers : SUBSET Signers, threshold : Nat, waits : BOOLEAN]
  <1>1. RulesOf \in Seq(R) /\ RulesOf # << >>
    BY ProposalsAssumption DEF ProposalsAssumption
  <1> HIDE DEF R
  <1>2. Len(RulesOf) \in Nat \ {0} /\ Epochs = 1..Len(RulesOf)
    BY <1>1, EmptySeq, LenProperties DEF Epochs
  <1>3. \A e \in Epochs : RulesOf[e] \in R
    BY <1>1, <1>2, ElementOfSeq
  <1> QED
    BY <1>2, <1>3 DEF R

\* What a hash is made of.
LEMMA Hashes ==
  ASSUME NEW h \in Hash
  PROVE  h.seq \in 0..MaxSeq /\ h.seq \in Nat /\ h.epoch \in Epochs /\ h.calls \in Calls /\ h # Foreign
  BY ProposalsAssumption DEF ProposalsAssumption, Hash

-----------------------------------------------------------------------------
(* The chain forgets nothing *)

\* A chain that stays as it is forgets nothing.
LEMMA GrowsItself ==
  ASSUME NEW c, ChainOK(c)
  PROVE  Grows(c, c)
  <1>1. c.nonce \in Nat /\ c.blocks \in Seq(Seq(Event))
    BY ProposalsAssumption DEF ChainOK, ProposalsAssumption
  <1>2. Len(c.blocks) \in Nat
    BY <1>1
  <1> QED
    BY <1>1, <1>2 DEF Grows

\* What a status says stays true.
LEMMA ClaimsStay ==
  ASSUME NEW c, NEW d, ChainOK(c), ChainOK(d), Grows(c, d), NEW l, NEW m, l \subseteq m,
         NEW h \in Hash, NEW status, Claims(c, l, h, status)
  PROVE  Claims(d, m, h, status)
  <1>1. h.seq \in Nat /\ c.nonce \in Nat /\ d.nonce \in Nat /\ c.nonce <= d.nonce
    BY Hashes, ProposalsAssumption DEF ChainOK, Grows, ProposalsAssumption
  <1> QED
    BY <1>1 DEF Claims, Grows

\* What an event tells stays true.
LEMMA EventsStay ==
  ASSUME NEW c, NEW d, ChainOK(c), d.nonce \in Nat, Grows(c, d)
  PROVE  TrueEvents(c) \subseteq TrueEvents(d)
  <1>1. c.nonce \in Nat /\ d.nonce \in Nat /\ c.nonce <= d.nonce
    BY ProposalsAssumption DEF ChainOK, Grows, ProposalsAssumption
  <1> SUFFICES ASSUME NEW e \in TrueEvents(c)
               PROVE  Holds(d, e)
    BY DEF TrueEvents
  <1>2. Holds(c, e)
    BY DEF TrueEvents
  <1>3. \A h \in Hash : h.seq < c.nonce => h.seq < d.nonce
    BY <1>1, Hashes
  <1> QED
    BY <1>2, <1>3 DEF Holds, Grows

\* Blocks stay true as their events do.
LEMMA BlocksStay ==
  ASSUME NEW c, NEW d, ChainOK(c), TrueEvents(c) \subseteq TrueEvents(d)
  PROVE  c.blocks \in Seq(Block(d))
  <1>1. Block(c) \subseteq Block(d)
    BY SeqMonotonic DEF Block
  <1>2. c.blocks \in Seq(Block(c))
    BY DEF ChainOK
  <1> QED
    BY <1>1, <1>2, SeqMonotonic

\* A chain is a record.
Fields == {"nonce", "epoch", "ran", "waiting", "dead", "ops", "blocks"}
IsChain(c) == DOMAIN c = Fields /\ c = [x \in Fields |-> c[x]]

\* What a chain is made of.
LEMMA ChainParts ==
  ASSUME NEW c, ChainOK(c)
  PROVE  /\ c.nonce \in 0..(MaxSeq + 1) /\ c.nonce \in Nat /\ c.epoch \in Epochs
         /\ c.ran \subseteq Hash /\ c.waiting \subseteq Hash /\ c.dead \subseteq Hash /\ c.ops \subseteq Operations
         /\ c.blocks \in Seq(Seq(Event)) /\ Len(c.blocks) \in Nat /\ IsChain(c)
  BY ProposalsAssumption DEF ChainOK, ProposalsAssumption, IsChain, Fields

\* A block is added that tells the truth.
LEMMA Longer ==
  ASSUME NEW c, ChainOK(c), NEW d, IsChain(d), NEW b \in Block(d), d.blocks = Append(c.blocks, b),
         d.nonce \in 0..(MaxSeq + 1), d.epoch \in Epochs, d.ran \subseteq Hash, d.waiting \subseteq Hash,
         d.dead \subseteq Hash, d.ops \subseteq Operations,
         c.nonce <= d.nonce, c.ops \subseteq d.ops, c.ran \subseteq d.ran, c.dead \subseteq d.dead,
         c.waiting \cup c.ran \cup c.dead \subseteq d.waiting \cup d.ran \cup d.dead
  PROVE  ChainOK(d) /\ Grows(c, d)
  <1> DEFINE blocks == Append(c.blocks, b)
  <1>1. c.nonce \in Nat /\ d.nonce \in Nat /\ c.blocks \in Seq(Seq(Event)) /\ c.blocks \in Seq(Block(c))
    BY ProposalsAssumption DEF ChainOK, ProposalsAssumption
  <1>2. d.blocks = blocks
    OBVIOUS
  <1>3. b \in Seq(Event)
    <2>1. b \in Seq(TrueEvents(d)) /\ TrueEvents(d) \subseteq Event
      BY DEF Block, TrueEvents
    <2> QED
      BY <2>1, SeqMonotonic
  <1>4. Len(c.blocks) \in Nat /\ Len(blocks) = Len(c.blocks) + 1 /\ blocks \in Seq(Seq(Event))
        /\ \A n \in 1..Len(c.blocks) : blocks[n] = c.blocks[n]
    BY <1>1, <1>3
  <1> HIDE DEF blocks
  <1>5. Grows(c, d)
    BY <1>1, <1>2, <1>4 DEF Grows
  <1>6. TrueEvents(c) \subseteq TrueEvents(d)
    BY <1>1, <1>5, EventsStay
  <1>7. c.blocks \in Seq(Block(d))
    BY <1>6, BlocksStay
  <1>8. blocks \in Seq(Block(d))
    <2> DEFINE B == Block(d)
    <2>1. c.blocks \in Seq(B) /\ b \in B
      BY <1>7
    <2> HIDE DEF B
    <2>2. Append(c.blocks, b) \in Seq(B)
      BY <2>1
    <2> QED
      BY <2>2 DEF B, blocks
  <1>9. d \in [nonce : 0..(MaxSeq + 1), epoch : Epochs, ran : SUBSET Hash, waiting : SUBSET Hash,
               dead : SUBSET Hash, ops : SUBSET Operations, blocks : Seq(Seq(Event))]
    <2> DEFINE S == Seq(Seq(Event))
    <2>1. blocks \in S
      BY <1>4
    <2> HIDE DEF S
    <2>2. d.blocks \in S
      BY <1>2, <2>1
    <2>3. d \in [nonce : 0..(MaxSeq + 1), epoch : Epochs, ran : SUBSET Hash, waiting : SUBSET Hash,
                 dead : SUBSET Hash, ops : SUBSET Operations, blocks : S]
      BY <2>2 DEF IsChain, Fields
    <2> QED
      BY <2>3 DEF S
  <1> QED
    BY <1>2, <1>5, <1>8, <1>9 DEF ChainOK

\* One event makes a block.
LEMMA OneEvent ==
  ASSUME NEW d, NEW e \in TrueEvents(d)
  PROVE  <<e>> \in Block(d)
  BY DEF Block

\* Two events make a block.
LEMMA TwoEvents ==
  ASSUME NEW d, NEW e \in TrueEvents(d), NEW f \in TrueEvents(d)
  PROVE  <<e, f>> \in Block(d)
  BY DEF Block

\* Events and one more make a block.
LEMMA EventsAndOne ==
  ASSUME NEW d, NEW s \in Seq(TrueEvents(d)), NEW e \in TrueEvents(d)
  PROVE  s \o <<e>> \in Block(d)
  <1> DEFINE T == TrueEvents(d)
  <1>1. s \in Seq(T) /\ <<e>> \in Seq(T) /\ Len(<<e>>) = 1 /\ Len(s) \in Nat
    OBVIOUS
  <1> HIDE DEF T
  <1>2. s \o <<e>> \in Seq(T) /\ Len(s \o <<e>>) = Len(s) + 1
    BY <1>1, ConcatProperties
  <1>3. s \o <<e>> # << >>
    <2> DEFINE w == s \o <<e>>
    <2>1. Len(w) # 0
      BY <1>1, <1>2
    <2> HIDE DEF w
    <2>2. w # << >>
      BY <2>1, EmptySeq
    <2> QED
      BY <2>2 DEF w
  <1> QED
    BY <1>2, <1>3 DEF Block, T

\* Calls that run, in a block that says so.
LEMMA RanGrows ==
  ASSUME NEW c, ChainOK(c), NEW h \in Hash, NEW name \in {"Executed", "ScheduledExecuted"},
         h.calls = "rules" => c.epoch + 1 \in Epochs,
         name = "Executed" => h.seq < c.nonce
  PROVE  /\ ChainOK(Ran(c, h, name)) /\ Grows(c, Ran(c, h, name))
         /\ h \in Ran(c, h, name).ran /\ Ran(c, h, name).nonce = c.nonce
  <1> DEFINE said == Says(name, h, h.seq)
             opened == Says("EpochAdvanced", h, c.epoch + 1)
             first == IF h.calls = "rules" THEN <<opened>> ELSE << >>
             b == first \o <<said>>
             e == IF h.calls = "rules" THEN c.epoch + 1 ELSE c.epoch
             d == Ran(c, h, name)
  <1>1. /\ c.nonce \in 0..(MaxSeq + 1) /\ c.epoch \in Epochs /\ c.ran \subseteq Hash /\ c.waiting \subseteq Hash
        /\ c.dead \subseteq Hash /\ c.ops \subseteq Operations /\ c.nonce \in Nat /\ IsChain(c)
    BY ChainParts
  <1>3. /\ IsChain(d) /\ d.nonce = c.nonce /\ d.epoch = e /\ d.ran = c.ran \cup {h} /\ d.waiting = c.waiting \ {h}
        /\ d.dead = c.dead /\ d.ops = c.ops /\ d.blocks = Append(c.blocks, b)
    BY <1>1 DEF Ran, IsChain, Fields
  <1>4. h.seq \in Nat /\ h.seq \in 0..MaxSeq
    BY Hashes
  <1>5. said \in TrueEvents(d)
    <2>1. said \in Event
      BY <1>4 DEF Event, Says
    <2>2. d.nonce = c.nonce /\ h \in d.ran
      BY <1>3
    <2>3. said.name = name /\ said.hash = h /\ said.arg = h.seq
      BY DEF Says
    <2>4. \A g \in Hash : g.seq = said.arg => (name = "Executed" => g.seq < d.nonce)
      BY <2>2, <2>3
    <2> HIDE DEF said, d
    <2> QED
      BY <2>1, <2>2, <2>3, <2>4 DEF TrueEvents, Holds
  <1>6. ASSUME h.calls = "rules"
        PROVE  opened \in TrueEvents(d)
    <2>1. opened \in Event
      BY <1>6, Rules DEF Event, Says
    <2>2. opened.name = "EpochAdvanced" /\ opened.arg \in Epochs
      BY <1>6 DEF Says
    <2> HIDE DEF opened, d
    <2> QED
      BY <2>1, <2>2 DEF TrueEvents, Holds
  <1>7. b \in Block(d)
    <2> HIDE DEF said, opened, d
    <2>1. first \in Seq(TrueEvents(d))
      BY <1>6
    <2> HIDE DEF first
    <2> QED
      BY <1>5, <2>1, EventsAndOne
  <1>8. e \in Epochs
    BY <1>1
  <1>9. ChainOK(d) /\ Grows(c, d) /\ h \in d.ran /\ d.nonce = c.nonce
    <2> HIDE DEF b, d, e
    <2>1. /\ c.nonce <= d.nonce /\ d.ran \subseteq Hash /\ d.waiting \subseteq Hash
          /\ c.waiting \cup c.ran \cup c.dead \subseteq d.waiting \cup d.ran \cup d.dead
      BY <1>1, <1>3
    <2>2. ChainOK(d) /\ Grows(c, d)
      BY <1>1, <1>3, <1>7, <1>8, <2>1, Longer
    <2>3. h \in d.ran /\ d.nonce = c.nonce
      BY <1>3
    <2> QED
      BY <2>2, <2>3
  <1> QED
    BY <1>9

\* What grows and grows further has grown.
LEMMA GrowsFurther ==
  ASSUME NEW c, NEW d, NEW e, ChainOK(c), ChainOK(d), ChainOK(e), Grows(c, d), Grows(d, e)
  PROVE  Grows(c, e)
  <1>1. /\ c.nonce \in Nat /\ d.nonce \in Nat /\ e.nonce \in Nat
        /\ c.blocks \in Seq(Seq(Event)) /\ d.blocks \in Seq(Seq(Event)) /\ e.blocks \in Seq(Seq(Event))
    BY ProposalsAssumption DEF ChainOK, ProposalsAssumption
  <1>2. Len(c.blocks) \in Nat /\ Len(d.blocks) \in Nat /\ Len(e.blocks) \in Nat
    BY <1>1
  <1> QED
    BY <1>1, <1>2 DEF Grows

\* The lane's nonce moves.
LEMMA NonceGrows ==
  ASSUME NEW c, ChainOK(c), c.nonce <= MaxSeq
  PROVE  ChainOK([c EXCEPT !.nonce = @ + 1]) /\ Grows(c, [c EXCEPT !.nonce = @ + 1])
  <1> DEFINE d == [c EXCEPT !.nonce = @ + 1]
  <1>1. /\ IsChain(d) /\ d.nonce = c.nonce + 1 /\ d.epoch = c.epoch /\ d.ran = c.ran /\ d.waiting = c.waiting
        /\ d.dead = c.dead /\ d.ops = c.ops /\ d.blocks = c.blocks
    BY ChainParts DEF IsChain, Fields
  <1> HIDE DEF d
  <1>2. c.nonce \in Nat /\ d.nonce \in Nat /\ d.nonce \in 0..(MaxSeq + 1) /\ c.nonce <= d.nonce
    BY <1>1, ChainParts, ProposalsAssumption DEF ProposalsAssumption
  <1>3. c.blocks \in Seq(Seq(Event)) /\ Len(c.blocks) \in Nat
    BY DEF ChainOK
  <1>4. Grows(c, d)
    BY <1>1, <1>2, <1>3 DEF Grows
  <1>5. c.blocks \in Seq(Block(d))
    BY <1>2, <1>4, EventsStay, BlocksStay
  <1>6. ChainOK(d)
    BY <1>1, <1>2, <1>3, <1>5, ChainParts DEF ChainOK, IsChain, Fields
  <1> QED
    BY <1>4, <1>6 DEF d

\* A transaction at the lane's nonce lands, and runs or waits.
LEMMA LandedGrows ==
  ASSUME ChainOK(chain), NEW h \in Hash, h.seq = chain.nonce, Room(h)
  PROVE  /\ ChainOK(Landed(h)) /\ Grows(chain, Landed(h))
         /\ LandedAs("execute", h, Landed(h))
  <1> DEFINE c == [chain EXCEPT !.nonce = @ + 1]
  <1>1. chain.nonce \in Nat /\ chain.nonce <= MaxSeq /\ MaxSeq \in Nat
    BY Hashes, ChainParts, ProposalsAssumption DEF ProposalsAssumption
  <1>2. ChainOK(c) /\ Grows(chain, c)
    BY <1>1, NonceGrows
  <1>3. c.nonce = chain.nonce + 1 /\ c.epoch = chain.epoch
    BY ChainParts
  <1> HIDE DEF c
  <1>4. h.seq < c.nonce
    BY <1>1, <1>3
  <1>5. CASE h.calls = "rules" /\ RulesOf[chain.epoch].waits
    <2> DEFINE said == Says("Scheduled", h, h.seq)
               d == [c EXCEPT !.waiting = @ \cup {h}, !.blocks = Append(@, <<said>>)]
    <2>1. Landed(h) = d
      BY <1>5 DEF Landed, c
    <2>2. IsChain(c)
      BY <1>2, ChainParts
    <2>3. /\ IsChain(d) /\ d.nonce = c.nonce /\ d.epoch = c.epoch /\ d.ran = c.ran
          /\ d.waiting = c.waiting \cup {h} /\ d.dead = c.dead /\ d.ops = c.ops
          /\ d.blocks = Append(c.blocks, <<said>>)
      BY <2>2 DEF IsChain, Fields
    <2>4. said \in TrueEvents(d)
      <3>1. said \in Event /\ said.name = "Scheduled" /\ said.hash = h /\ said.arg = h.seq
        BY Hashes DEF Event, Says
      <3> HIDE DEF said, d
      <3> QED
        BY <1>4, <2>3, <3>1 DEF TrueEvents, Holds
    <2> HIDE DEF said, d
    <2>5. <<said>> \in Block(d)
      BY <2>4, OneEvent
    <2>9. /\ c.nonce \in 0..(MaxSeq + 1) /\ c.nonce \in Nat /\ c.epoch \in Epochs
          /\ c.ran \subseteq Hash /\ c.waiting \subseteq Hash /\ c.dead \subseteq Hash /\ c.ops \subseteq Operations
      BY <1>2, ChainParts
    <2>10. /\ d.nonce \in 0..(MaxSeq + 1) /\ c.nonce <= d.nonce /\ d.epoch \in Epochs
           /\ d.ran \subseteq Hash /\ d.waiting \subseteq Hash /\ d.dead \subseteq Hash /\ d.ops \subseteq Operations
           /\ c.waiting \cup c.ran \cup c.dead \subseteq d.waiting \cup d.ran \cup d.dead
           /\ c.ops \subseteq d.ops /\ c.ran \subseteq d.ran /\ c.dead \subseteq d.dead
      BY <2>3, <2>9
    <2>6. ChainOK(d) /\ Grows(c, d)
      BY <1>2, <2>3, <2>5, <2>10, Longer
    <2>7. Grows(chain, d)
      BY <1>2, <2>6, GrowsFurther
    <2>8. LandedAs("execute", h, d)
      BY <1>4, <1>5, <2>3 DEF LandedAs
    <2> QED
      BY <2>1, <2>6, <2>7, <2>8
  <1>6. CASE ~ (h.calls = "rules" /\ RulesOf[chain.epoch].waits)
    <2> DEFINE d == Ran(c, h, "Executed")
    <2>1. Landed(h) = d
      BY <1>6 DEF Landed, c
    <2>2. h.calls = "rules" => c.epoch + 1 \in Epochs
      BY <1>3 DEF Room
    <2>3. ChainOK(d) /\ Grows(c, d) /\ h \in d.ran /\ d.nonce = c.nonce
      BY <1>2, <1>4, <2>2, RanGrows
    <2> HIDE DEF d
    <2>4. Grows(chain, d)
      BY <1>2, <2>3, GrowsFurther
    <2>5. LandedAs("execute", h, d)
      BY <1>4, <2>3 DEF LandedAs
    <2> QED
      BY <2>1, <2>3, <2>4, <2>5
  <1> QED
    BY <1>5, <1>6

\* A block of its own for what kills a hash, as a veto or in a user operation.
LEMMA KilledGrows ==
  ASSUME ChainOK(chain), NEW h \in Hash, NEW d, IsChain(d), NEW b \in Block(d),
         d.nonce = chain.nonce, d.epoch = chain.epoch, d.ran = chain.ran,
         d.waiting = chain.waiting \ {h}, d.dead = chain.dead \cup {h},
         chain.ops \subseteq d.ops, d.ops \subseteq Operations, d.blocks = Append(chain.blocks, b)
  PROVE  ChainOK(d) /\ Grows(chain, d)
  <1>1. /\ d.nonce \in 0..(MaxSeq + 1) /\ d.epoch \in Epochs /\ d.ran \subseteq Hash /\ d.waiting \subseteq Hash
        /\ d.dead \subseteq Hash /\ chain.nonce <= d.nonce
        /\ chain.waiting \cup chain.ran \cup chain.dead \subseteq d.waiting \cup d.ran \cup d.dead
    BY ChainParts
  <1> QED
    BY <1>1, Longer

\* A veto or a cancellation, in a block that says so.
LEMMA VetoedGrows ==
  ASSUME ChainOK(chain), NEW h \in Hash
  PROVE  ChainOK(Vetoed(h)) /\ Grows(chain, Vetoed(h))
  <1> DEFINE said == Says("Cancelled", h, h.seq)
             d == Vetoed(h)
  <1>1. /\ IsChain(d) /\ d.nonce = chain.nonce /\ d.epoch = chain.epoch /\ d.ran = chain.ran
        /\ d.waiting = chain.waiting \ {h} /\ d.dead = chain.dead \cup {h} /\ d.ops = chain.ops
        /\ d.blocks = Append(chain.blocks, <<said>>)
    BY ChainParts DEF IsChain, Fields, Vetoed, Killed
  <1>2. said \in TrueEvents(d)
    <2>1. said \in Event /\ said.name = "Cancelled" /\ said.hash = h
      BY Hashes DEF Event, Says
    <2>2. h \in d.dead
      BY <1>1
    <2> HIDE DEF said, d
    <2> QED
      BY <2>1, <2>2 DEF TrueEvents, Holds
  <1>3. <<said>> \in Block(d)
    <2> HIDE DEF said, d
    <2> QED
      BY <1>2, OneEvent
  <1>4. chain.ops \subseteq d.ops /\ d.ops \subseteq Operations
    BY <1>1, ChainParts
  <1>5. ChainOK(d) /\ Grows(chain, d)
    <2> HIDE DEF said, d
    <2> QED
      BY <1>1, <1>3, <1>4, KilledGrows
  <1> QED
    BY <1>5

\* What the relayer's transactions do.
LEMMA TakenGrows ==
  ASSUME ChainOK(chain), NEW t, t.op \in Sent, t.hash \in Hash, Takes(t), NEW c \in Becomes(t)
  PROVE  ChainOK(c) /\ Grows(chain, c) /\ LandedAs(t.op, t.hash, c)
  <1>1. CASE t.op = "execute"
    <2>1. Executable(t.hash, t.sigs) /\ Room(t.hash)
      BY <1>1 DEF Takes
    <2>2. t.hash.seq = chain.nonce
      BY <2>1 DEF Executable
    <2>3. c = Landed(t.hash)
      BY <1>1 DEF Becomes
    <2> QED
      BY <1>1, <2>1, <2>2, <2>3, LandedGrows
  <1>2. CASE t.op = "executeScheduled"
    <2>1. Room(t.hash)
      BY <1>2 DEF Takes
    <2>2. c = Ran(chain, t.hash, "ScheduledExecuted")
      BY <1>2 DEF Becomes
    <2>3. ChainOK(c) /\ Grows(chain, c) /\ t.hash \in c.ran
      BY <2>1, <2>2, RanGrows DEF Room
    <2> QED
      BY <1>2, <2>3 DEF LandedAs
  <1>3. CASE t.op = "veto"
    <2>1. c = chain \/ \E h \in Hash : c = Vetoed(h)
      BY <1>3, ChainParts DEF Becomes
    <2>2. ChainOK(c) /\ Grows(chain, c)
      BY <2>1, GrowsItself, VetoedGrows
    <2> QED
      BY <1>3, <2>2 DEF LandedAs
  <1> QED
    BY <1>1, <1>2, <1>3 DEF Sent

\* A transaction the service never saw.
LEMMA UnseenGrows ==
  ASSUME ChainOK(chain), chain.nonce <= MaxSeq
  PROVE  LET d == [chain EXCEPT !.nonce = @ + 1, !.blocks = Append(@, <<Unseen(chain.nonce)>>)]
         IN  ChainOK(d) /\ Grows(chain, d)
  <1> DEFINE said == Unseen(chain.nonce)
             d == [chain EXCEPT !.nonce = @ + 1, !.blocks = Append(@, <<said>>)]
  <1>2. /\ IsChain(d) /\ d.nonce = chain.nonce + 1 /\ d.epoch = chain.epoch /\ d.ran = chain.ran
        /\ d.waiting = chain.waiting /\ d.dead = chain.dead /\ d.ops = chain.ops
        /\ d.blocks = Append(chain.blocks, <<said>>)
    BY ChainParts DEF IsChain, Fields
  <1>3. /\ chain.nonce \in Nat /\ chain.epoch \in Epochs /\ chain.ran \subseteq Hash
        /\ chain.waiting \subseteq Hash /\ chain.dead \subseteq Hash /\ chain.ops \subseteq Operations
    BY ChainParts
  <1>4. said \in Event /\ said.name = "Executed" /\ said.hash = Foreign /\ said.arg = chain.nonce
    BY <1>3 DEF Event, Says, Unseen
  <1> HIDE DEF said, d
  <1>5. said \in TrueEvents(d)
    <2>1. \A h \in Hash : h.seq = said.arg => h.seq < d.nonce
      BY <1>2, <1>3, <1>4
    <2> QED
      BY <1>4, <2>1 DEF TrueEvents, Holds
  <1>6. <<said>> \in Block(d)
    BY <1>5, OneEvent
  <1>7. d.nonce \in 0..(MaxSeq + 1) /\ chain.nonce <= d.nonce
    BY <1>2, <1>3, ProposalsAssumption DEF ProposalsAssumption
  <1>8. ChainOK(d) /\ Grows(chain, d)
    BY <1>2, <1>3, <1>6, <1>7, Longer
  <1> QED
    BY <1>8 DEF d, said

\* A user operation the service never saw pays.
LEMMA OperationGrows ==
  ASSUME ChainOK(chain), NEW n \in Operations
  PROVE  LET d == [chain EXCEPT !.ops = @ \cup {n}, !.blocks = Append(@, <<Unseen(n)>>)]
         IN  ChainOK(d) /\ Grows(chain, d)
  <1> DEFINE said == Unseen(n)
             d == [chain EXCEPT !.ops = @ \cup {n}, !.blocks = Append(@, <<said>>)]
  <1>2. /\ IsChain(d) /\ d.nonce = chain.nonce /\ d.epoch = chain.epoch /\ d.ran = chain.ran
        /\ d.waiting = chain.waiting /\ d.dead = chain.dead /\ d.ops = chain.ops \cup {n}
        /\ d.blocks = Append(chain.blocks, <<said>>)
    BY ChainParts DEF IsChain, Fields
  <1>3. /\ chain.nonce \in Nat /\ chain.nonce \in 0..(MaxSeq + 1) /\ chain.epoch \in Epochs
        /\ chain.ran \subseteq Hash
        /\ chain.waiting \subseteq Hash /\ chain.dead \subseteq Hash /\ chain.ops \subseteq Operations
        /\ n \in Nat
    BY ChainParts, ProposalsAssumption DEF ProposalsAssumption
  <1>4. said \in Event /\ said.name = "Executed" /\ said.hash = Foreign /\ said.arg = n
    BY <1>3 DEF Event, Says, Unseen
  <1> HIDE DEF said, d
  <1>5. said \in TrueEvents(d)
    BY <1>2, <1>4 DEF TrueEvents, Holds
  <1>6. <<said>> \in Block(d)
    BY <1>5, OneEvent
  <1>7. chain.nonce <= d.nonce
    BY <1>2, <1>3
  <1>8. ChainOK(d) /\ Grows(chain, d)
    BY <1>2, <1>3, <1>6, <1>7, Longer
  <1> QED
    BY <1>8 DEF d, said

\* One that cancels kills the hash and says so, before what it says of itself.
LEMMA CancellationGrows ==
  ASSUME ChainOK(chain), NEW n \in Operations, NEW h \in Hash
  PROVE  LET d == [Killed(h) EXCEPT !.ops = @ \cup {n},
                     !.blocks = Append(@, <<Says("Cancelled", h, h.seq), Unseen(n)>>)]
         IN  ChainOK(d) /\ Grows(chain, d)
  <1> DEFINE cancelled == Says("Cancelled", h, h.seq)
             said == Unseen(n)
             d == [Killed(h) EXCEPT !.ops = @ \cup {n}, !.blocks = Append(@, <<cancelled, said>>)]
  <1>1. /\ IsChain(d) /\ d.nonce = chain.nonce /\ d.epoch = chain.epoch /\ d.ran = chain.ran
        /\ d.waiting = chain.waiting \ {h} /\ d.dead = chain.dead \cup {h} /\ d.ops = chain.ops \cup {n}
        /\ d.blocks = Append(chain.blocks, <<cancelled, said>>)
    BY ChainParts DEF IsChain, Fields, Killed
  <1>2. h \in d.dead /\ n \in d.ops
    BY <1>1
  <1>3. d.ops \subseteq Operations /\ chain.ops \subseteq d.ops /\ n \in Nat
    BY <1>1, ChainParts, ProposalsAssumption DEF ProposalsAssumption
  <1>4. /\ said \in Event /\ said.name = "Executed" /\ said.hash = Foreign /\ said.arg = n
        /\ cancelled \in Event /\ cancelled.name = "Cancelled" /\ cancelled.hash = h
    BY <1>3, Hashes DEF Event, Says, Unseen
  <1>5. cancelled \in TrueEvents(d) /\ said \in TrueEvents(d)
    <2> HIDE DEF said, cancelled, d
    <2> QED
      BY <1>2, <1>3, <1>4 DEF TrueEvents, Holds
  <1>6. <<cancelled, said>> \in Block(d)
    <2> HIDE DEF said, cancelled, d
    <2> QED
      BY <1>5, TwoEvents
  <1>7. ChainOK(d) /\ Grows(chain, d)
    <2> HIDE DEF said, cancelled, d
    <2> QED
      BY <1>1, <1>3, <1>6, KilledGrows
  <1> QED
    BY <1>7

\* An approval on chain.
LEMMA ApprovalGrows ==
  ASSUME ChainOK(chain), NEW h \in Hash, NEW signer \in Signers
  PROVE  LET d == [chain EXCEPT !.blocks = Append(@, <<Says("Approved", h, signer)>>)]
         IN  ChainOK(d) /\ Grows(chain, d)
  <1> DEFINE said == Says("Approved", h, signer)
             d == [chain EXCEPT !.blocks = Append(@, <<said>>)]
  <1>2. /\ IsChain(d) /\ d.nonce = chain.nonce /\ d.epoch = chain.epoch /\ d.ran = chain.ran
        /\ d.waiting = chain.waiting /\ d.dead = chain.dead /\ d.ops = chain.ops
        /\ d.blocks = Append(chain.blocks, <<said>>)
    BY ChainParts DEF IsChain, Fields
  <1>3. /\ chain.nonce \in Nat /\ chain.nonce \in 0..(MaxSeq + 1) /\ chain.epoch \in Epochs
        /\ chain.ran \subseteq Hash
        /\ chain.waiting \subseteq Hash /\ chain.dead \subseteq Hash /\ chain.ops \subseteq Operations
    BY ChainParts
  <1>4. said \in Event /\ said.name = "Approved" /\ said.arg = signer
    BY DEF Event, Says
  <1> HIDE DEF said, d
  <1>5. said \in TrueEvents(d)
    BY <1>4 DEF TrueEvents, Holds
  <1>6. <<said>> \in Block(d)
    BY <1>5, OneEvent
  <1>7. chain.nonce <= d.nonce
    BY <1>2, <1>3
  <1>8. ChainOK(d) /\ Grows(chain, d)
    BY <1>2, <1>3, <1>6, <1>7, Longer
  <1> QED
    BY <1>8 DEF d, said

\* Whatever others do.
LEMMA ElsewhereGrows ==
  ASSUME ChainOK(chain), DOMAIN rows \subseteq Hash, Elsewhere
  PROVE  ChainOK(chain)' /\ Grows(chain, chain')
  <1>1. chain.waiting \subseteq Hash
    BY ChainParts
  <1>2. CASE SubmitElsewhere
    <2>1. CASE \E h \in DOMAIN rows :
                 Executable(h, rows[h].confirmations) /\ Room(h) /\ chain' = Landed(h)
      <3>1. PICK h \in Hash : h.seq = chain.nonce /\ Room(h) /\ chain' = Landed(h)
        BY <2>1 DEF Executable
      <3> QED
        BY <3>1, LandedGrows
    <2>2. CASE \E h \in chain.waiting :
                 Ready(h) /\ Room(h) /\ chain' = Ran(chain, h, "ScheduledExecuted")
      <3>1. PICK h \in Hash : Room(h) /\ chain' = Ran(chain, h, "ScheduledExecuted")
        BY <1>1, <2>2
      <3>2. h.calls = "rules" => chain.epoch + 1 \in Epochs
        BY <3>1 DEF Room
      <3> QED
        BY <3>1, <3>2, RanGrows
    <2> QED
      BY <1>2, <2>1, <2>2 DEF SubmitElsewhere
  <1>3. CASE SubmitUnseen
    <2>1. CASE /\ chain.nonce <= MaxSeq
               /\ chain' = [chain EXCEPT !.nonce = @ + 1, !.blocks = Append(@, <<Unseen(chain.nonce)>>)]
      BY <2>1, UnseenGrows
    <2>2. CASE \E n \in Operations :
                 chain' = [chain EXCEPT !.ops = @ \cup {n}, !.blocks = Append(@, <<Unseen(n)>>)]
      BY <2>2, OperationGrows
    <2>3. CASE \E n \in Operations, h \in Hash :
                 chain' = [Killed(h) EXCEPT !.ops = @ \cup {n},
                             !.blocks = Append(@, <<Says("Cancelled", h, h.seq), Unseen(n)>>)]
      BY <2>3, CancellationGrows
    <2> QED
      BY <1>3, <2>1, <2>2, <2>3 DEF SubmitUnseen
  <1>4. CASE \E h \in chain.waiting : chain' = Vetoed(h)
    BY <1>1, <1>4, VetoedGrows
  <1>5. CASE \E h \in DOMAIN rows, signer \in Signers : ApproveOnChain(h, signer)
    <2>1. PICK h \in Hash, signer \in Signers :
            chain' = [chain EXCEPT !.blocks = Append(@, <<Says("Approved", h, signer)>>)]
      BY <1>5 DEF ApproveOnChain
    <2> QED
      BY <2>1, ApprovalGrows
  <1> QED
    BY <1>2, <1>3, <1>4, <1>5 DEF Elsewhere

-----------------------------------------------------------------------------
(* What tasks hold stays true *)

\* What a task holds stays true when the chain grows, time passes and rows are added.
LEMMA TaskStays ==
  ASSUME NEW c, NEW d, ChainOK(c), ChainOK(d), Grows(c, d), NEW l, NEW m, l \subseteq m,
         NEW known \in SUBSET Hash, NEW more, known \subseteq more, NEW t, TaskOK(t, c, l, known)
  PROVE  TaskOK(t, d, m, more)
  <1>1. t.nonce <= d.nonce
    BY ChainParts DEF TaskOK, Task, Grows
  <1>2. \A h \in DOMAIN t.updates : h \in more /\ Claims(d, m, h, t.updates[h])
    BY ClaimsStay DEF TaskOK
  <1>3. t.at \in {"landed", "replacing"} => LandedAs(t.op, t.hash, d)
    <2> SUFFICES ASSUME t.at \in {"landed", "replacing"}
                 PROVE  LandedAs(t.op, t.hash, d)
      OBVIOUS
    <2>1. t.hash \in Hash /\ LandedAs(t.op, t.hash, c)
      BY DEF TaskOK
    <2>2. t.hash.seq \in Nat /\ c.nonce \in Nat /\ d.nonce \in Nat /\ c.nonce <= d.nonce
      BY <2>1, Hashes, ChainParts DEF Grows
    <2> QED
      BY <2>1, <2>2 DEF LandedAs, Grows
  <1> QED
    BY <1>1, <1>2, <1>3 DEF TaskOK

\* A request that has sent goes no way back, and waits for what it sent.
Follows(r, old, new) ==
  /\ r \in Requests /\ old.at \in Late => new.at \in Late
  /\ new.at \in {"sent", "reading"} => new.at = old.at /\ new.op = old.op /\ new.hash = old.hash

\* One task moves, and the chain may have grown.
LEMMA OneTask ==
  ASSUME ChainOK(chain), ChainOK(chain)', Grows(chain, chain'), lapsed \subseteq lapsed',
         DOMAIN rows \subseteq Hash, DOMAIN rows \subseteq DOMAIN rows', TasksOK,
         NEW r \in Requests \cup {Indexer}, NEW t, tasks' = [tasks EXCEPT ![r] = t],
         TaskOK(t, chain', lapsed', DOMAIN rows')
  PROVE  TasksOK'
  <1>1. tasks' \in [Requests \cup {Indexer} -> Task]
    BY DEF TasksOK, TaskOK
  <1>2. ASSUME NEW q \in Requests \cup {Indexer}
        PROVE  TaskOK(tasks'[q], chain', lapsed', DOMAIN rows')
    <2>1. CASE q = r
      BY <2>1 DEF TasksOK
    <2>2. CASE q # r
      <3>1. tasks'[q] = tasks[q] /\ TaskOK(tasks[q], chain, lapsed, DOMAIN rows)
        BY <2>2 DEF TasksOK
      <3> QED
        BY <3>1, TaskStays
    <2> QED
      BY <2>1, <2>2
  <1> QED
    BY <1>1, <1>2 DEF TasksOK

\* No task moves, and the chain may have grown.
LEMMA NoTask ==
  ASSUME ChainOK(chain), ChainOK(chain)', Grows(chain, chain'), lapsed \subseteq lapsed',
         DOMAIN rows \subseteq Hash, DOMAIN rows \subseteq DOMAIN rows', TasksOK, UNCHANGED tasks
  PROVE  TasksOK'
  <1>1. tasks' \in [Requests \cup {Indexer} -> Task]
    BY DEF TasksOK
  <1>2. ASSUME NEW q \in Requests \cup {Indexer}
        PROVE  TaskOK(tasks'[q], chain', lapsed', DOMAIN rows')
    BY TaskStays DEF TasksOK
  <1> QED
    BY <1>1, <1>2 DEF TasksOK

\* Most steps: a task moves, and rows or the account are written.
LEMMA Step ==
  ASSUME IInv, UNCHANGED <<chain, lapsed, pending, reading>>, RowsOK(rows', chain, lapsed), DOMAIN rows \subseteq DOMAIN rows',
         AccountOK(account', chain),
         NEW r \in Requests \cup {Indexer}, NEW t, tasks' = [tasks EXCEPT ![r] = t],
         TaskOK(t, chain, lapsed, DOMAIN rows'), Follows(r, tasks[r], t)
  PROVE  IInv'
  <1>1. ChainOK(chain) /\ Grows(chain, chain) /\ ChainOK(chain)' /\ lapsed \subseteq Hash /\ (lapsed \subseteq Hash)'
    BY GrowsItself DEF IInv
  <1>2. RowsOK(rows, chain, lapsed)' /\ AccountOK(account, chain)'
    OBVIOUS
  <1>3. TasksOK'
    <2>1. DOMAIN rows \subseteq Hash
      BY DEF IInv, RowsOK
    <2> QED
      BY <1>1, <2>1, OneTask DEF IInv
  <1>4. tasks \in [Requests \cup {Indexer} -> Task]
    BY DEF IInv, TasksOK
  <1>5. PendingOK'
    <2> SUFFICES ASSUME NEW u \in pending
                 PROVE  /\ tasks'[u.by].at \in Late
                        /\ tasks'[u.by].at = "sent" => tasks'[u.by].op = u.op /\ tasks'[u.by].hash = u.hash
      BY DEF PendingOK, IInv
    <2>1. /\ u.by \in Requests /\ tasks[u.by].at \in Late
          /\ tasks[u.by].at = "sent" => tasks[u.by].op = u.op /\ tasks[u.by].hash = u.hash
      BY DEF PendingOK, IInv
    <2>2. CASE u.by = r
      <3>1. tasks'[u.by] = t
        BY <1>4, <2>2
      <3> QED
        BY <2>1, <2>2, <3>1 DEF Follows
    <2>3. CASE u.by # r
      <3>1. tasks'[u.by] = tasks[u.by]
        BY <1>4, <2>1, <2>3
      <3> QED
        BY <2>1, <3>1
    <2> QED
      BY <2>2, <2>3
  <1>6. ReadingOK'
    <2>1. Indexer \in Requests \cup {Indexer}
      OBVIOUS
    <2>2. tasks'[Indexer] = IF r = Indexer THEN t ELSE tasks[Indexer]
      BY <1>4, <2>1
    <2>3. tasks'[Indexer].at = "reading" => tasks[Indexer].at = "reading"
      BY <2>2 DEF Follows
    <2> QED
      BY <2>3 DEF ReadingOK, IInv
  <1> QED
    BY <1>1, <1>2, <1>3, <1>5, <1>6 DEF IInv

-----------------------------------------------------------------------------
(* Statements on the rows *)

\* An UPDATE by id of a status that is true of the chain.
LEMMA SetStatusOK ==
  ASSUME NEW table, NEW c, NEW l, RowsOK(table, c, l), NEW h, NEW status \in Statuses,
         Claims(c, l, h, status)
  PROVE  RowsOK(SetStatus(table, h, status), c, l) /\ DOMAIN SetStatus(table, h, status) = DOMAIN table
  <1> DEFINE Row == [status : Statuses, confirmations : SUBSET Signers]
             after == SetStatus(table, h, status)
  <1>1. \A g \in DOMAIN table : table[g] \in Row
    BY DEF RowsOK
  <1>2. CASE table[h].status = "deleted"
    BY <1>2 DEF SetStatus
  <1>3. CASE table[h].status # "deleted"
    <2>1. after = [table EXCEPT ![h].status = status]
      BY <1>3 DEF SetStatus
    <2>2. DOMAIN after = DOMAIN table
      BY <2>1
    <2>3. ASSUME NEW g \in DOMAIN table
          PROVE  after[g] \in Row /\ Claims(c, l, g, after[g].status)
      <3>1. CASE g = h
        <4>1. after[g] = [table[h] EXCEPT !.status = status]
          BY <2>1, <2>3, <3>1
        <4>2. table[h] \in Row
          BY <1>1, <2>3, <3>1
        <4>3. after[g] \in Row /\ after[g].status = status
          BY <4>1, <4>2
        <4> QED
          BY <3>1, <4>3
      <3>2. CASE g # h
        <4>1. after[g] = table[g]
          BY <2>1, <2>3, <3>2
        <4> QED
          BY <4>1, <1>1, <2>3 DEF RowsOK
      <3> QED
        BY <3>1, <3>2
    <2>4. after = [g \in DOMAIN table |-> after[g]]
      BY <2>1
    <2> HIDE DEF Row, after
    <2>5. after \in [DOMAIN after -> Row]
      BY <2>2, <2>3, <2>4
    <2>6. DOMAIN after \subseteq Hash
      BY <2>2 DEF RowsOK
    <2> QED
      BY <2>2, <2>3, <2>5, <2>6 DEF RowsOK, Row, after
  <1> QED
    BY <1>2, <1>3

\* Some rows get a status that is true of them.
LEMMA StatusesOK ==
  ASSUME NEW table, NEW after, NEW c, NEW l, RowsOK(table, c, l), NEW status \in Statuses, NEW some,
         after = [h \in DOMAIN table |-> IF h \in some THEN [table[h] EXCEPT !.status = status] ELSE table[h]],
         \A h \in DOMAIN table : h \in some => Claims(c, l, h, status)
  PROVE  RowsOK(after, c, l) /\ DOMAIN after = DOMAIN table
  <1> DEFINE Row == [status : Statuses, confirmations : SUBSET Signers]
  <1>1. \A g \in DOMAIN table : table[g] \in Row
    BY DEF RowsOK
  <1>2. ASSUME NEW g \in DOMAIN table
        PROVE  after[g] \in Row /\ Claims(c, l, g, after[g].status)
    <2>1. CASE g \in some
      <3>1. after[g] = [table[g] EXCEPT !.status = status]
        BY <2>1
      <3>2. after[g] \in Row /\ after[g].status = status
        BY <1>1, <3>1
      <3> QED
        BY <2>1, <3>2
    <2>2. CASE g \notin some
      BY <1>1, <2>2 DEF RowsOK
    <2> QED
      BY <2>1, <2>2
  <1>3. DOMAIN after = DOMAIN table
    OBVIOUS
  <1> HIDE DEF Row
  <1>4. after \in [DOMAIN after -> Row]
    BY <1>2
  <1> QED
    BY <1>2, <1>3, <1>4 DEF RowsOK, Row

\* The losers of a slot that is spent, or whose number an operation has, are replaced.
LEMMA MarkReplacedOK ==
  ASSUME NEW table, NEW c, NEW l, RowsOK(table, c, l), NEW seq, NEW winner,
         \A h \in Hash : h.seq = seq => h.seq < c.nonce \/ h.seq \in c.ops
  PROVE  /\ RowsOK(MarkReplaced(table, seq, winner), c, l)
         /\ DOMAIN MarkReplaced(table, seq, winner) = DOMAIN table
  <1> DEFINE some == {h \in DOMAIN table : h.seq = seq /\ h # winner /\ table[h].status \in Unsettled}
             after == MarkReplaced(table, seq, winner)
  <1>1. after = [h \in DOMAIN table |-> IF h \in some THEN [table[h] EXCEPT !.status = "replaced"] ELSE table[h]]
    BY DEF MarkReplaced
  <1>2. \A h \in DOMAIN table : h \in some => Claims(c, l, h, "replaced")
    BY DEF Claims, RowsOK
  <1>3. "replaced" \in Statuses
    BY DEF Statuses
  <1> HIDE DEF some, after
  <1>4. RowsOK(after, c, l) /\ DOMAIN after = DOMAIN table
    BY <1>1, <1>2, <1>3, StatusesOK
  <1> QED
    BY <1>4 DEF after

\* A row gets confirmations, of signers.
LEMMA ConfirmedOK ==
  ASSUME NEW table, NEW c, NEW l, RowsOK(table, c, l), NEW h, NEW more \in SUBSET Signers
  PROVE  LET after == [table EXCEPT ![h].confirmations = @ \cup more]
         IN  RowsOK(after, c, l) /\ DOMAIN after = DOMAIN table
  <1> DEFINE Row == [status : Statuses, confirmations : SUBSET Signers]
             after == [table EXCEPT ![h].confirmations = @ \cup more]
  <1>1. \A g \in DOMAIN table : table[g] \in Row
    BY DEF RowsOK
  <1>2. ASSUME NEW g \in DOMAIN table
        PROVE  after[g] \in Row /\ Claims(c, l, g, after[g].status)
    <2>1. CASE g = h
      <3>1. after[g] = [table[g] EXCEPT !.confirmations = @ \cup more]
        BY <1>2, <2>1
      <3>2. after[g] \in Row /\ after[g].status = table[g].status
        BY <1>1, <3>1
      <3> QED
        BY <3>2 DEF RowsOK
    <2>2. CASE g # h
      BY <1>1, <2>2 DEF RowsOK
    <2> QED
      BY <2>1, <2>2
  <1>3. DOMAIN after = DOMAIN table /\ after = [g \in DOMAIN table |-> after[g]]
    OBVIOUS
  <1> HIDE DEF Row, after
  <1>4. after \in [DOMAIN after -> Row]
    BY <1>2, <1>3
  <1>5. RowsOK(after, c, l)
    BY <1>2, <1>3, <1>4 DEF RowsOK, Row
  <1> QED
    BY <1>3, <1>5 DEF after

-----------------------------------------------------------------------------
(* Updates and tasks *)

\* Updates are functions from hashes to statuses.
LEMMA UpdatesAre ==
  /\ NoUpdates \in Updates /\ DOMAIN NoUpdates = {}
  /\ \A u \in Updates : DOMAIN u \subseteq Hash /\ \A h \in DOMAIN u : u[h] \in Statuses
  /\ \A D \in SUBSET Hash : [D -> Statuses] \subseteq Updates
  <1>1. NoUpdates \in [{} -> Statuses] /\ DOMAIN NoUpdates = {}
    BY DEF NoUpdates
  <1>2. {} \in SUBSET Hash
    OBVIOUS
  <1> QED
    BY <1>1, <1>2 DEF Updates

\* Every verdict is true when it is given.
LEMMA VerdictsOK ==
  ASSUME RowsOK(rows, chain, lapsed), AccountOK(account, chain), ChainOK(chain), NEW row
  PROVE  /\ Verdicts(row) \in Updates /\ DOMAIN Verdicts(row) \subseteq DOMAIN rows
         /\ \A h \in DOMAIN Verdicts(row) : Claims(chain, lapsed, h, Verdicts(row)[h])
  <1>1. ASSUME NEW h \in DOMAIN rows
        PROVE  Verdict(h, row) \in Statuses /\ Claims(chain, lapsed, h, Verdict(h, row))
    <2>1. h.seq \in Nat /\ account.lane \in Nat /\ chain.nonce \in Nat /\ account.lane <= chain.nonce
      BY Hashes, ChainParts DEF RowsOK, AccountOK
    <2>2. h.seq < account.lane => h.seq < chain.nonce
      BY <2>1
    <2>3. Verdict(h, row) \in {"stale", "open", "ready", "blocked", "expired", "replaced"}
      BY DEF Verdict
    <2>4. Verdict(h, row) = "expired" => h \in lapsed
      BY DEF Verdict
    <2>5. Verdict(h, row) = "replaced" => h.seq < account.lane
      BY DEF Verdict
    <2> QED
      BY <2>2, <2>3, <2>4, <2>5 DEF Claims, Statuses, Unsettled, InPlay
  <1> DEFINE D == {g \in DOMAIN rows : rows[g].status \in InPlay /\ Verdict(g, row) # rows[g].status}
  <1>2. Verdicts(row) = [h \in D |-> Verdict(h, row)]
    BY DEF Verdicts
  <1>3. D \subseteq DOMAIN rows /\ D \in SUBSET Hash
    BY DEF RowsOK
  <1> HIDE DEF D
  <1>4. Verdicts(row) \in [D -> Statuses]
    BY <1>1, <1>2, <1>3
  <1> QED
    BY <1>1, <1>2, <1>3, <1>4, UpdatesAre

\* One update less.
LEMMA WithoutOK ==
  ASSUME NEW u \in Updates, NEW h
  PROVE  /\ Without(u, h) \in Updates /\ DOMAIN Without(u, h) \subseteq DOMAIN u
         /\ \A g \in DOMAIN Without(u, h) : Without(u, h)[g] = u[g]
  <1> DEFINE D == DOMAIN u \ {h}
  <1>1. Without(u, h) = [g \in D |-> u[g]]
    BY DEF Without
  <1>2. D \in SUBSET Hash /\ \A g \in D : u[g] \in Statuses
    BY UpdatesAre
  <1> HIDE DEF D
  <1>3. Without(u, h) \in [D -> Statuses]
    BY <1>1, <1>2
  <1> QED
    BY <1>1, <1>2, <1>3, UpdatesAre DEF D

\* What the invariant says of one task, and of what tasks are about.
LEMMA Held ==
  ASSUME IInv, NEW r \in Requests \cup {Indexer}
  PROVE  /\ TaskOK(tasks[r], chain, lapsed, DOMAIN rows) /\ tasks[r] \in Task
         /\ RowsOK(rows, chain, lapsed) /\ AccountOK(account, chain) /\ ChainOK(chain)
         /\ DOMAIN rows \subseteq Hash /\ tasks[r].nonce <= chain.nonce
  BY DEF IInv, TasksOK, TaskOK, RowsOK

\* The account row as requests carry it.
RowType == [epoch : Epochs \cup {0}, threshold : Nat, approvers : SUBSET Signers]

\* The account row a request carries has its type.
LEMMA ContextIs ==
  /\ NoContext \in RowType
  /\ AccountOK(account, chain) => Context \in RowType /\ Context.epoch \in Epochs
  BY DEF NoContext, Context, AccountOK, RowType

\* What a request holds before it is made.
LEMMA UnbornIs ==
  /\ Unborn \in Task /\ Unborn.updates = NoUpdates /\ Unborn.nonce = 0 /\ Unborn.at = "unborn"
  /\ Unborn.op = "look" /\ Unborn.hash = Foreign /\ Unborn.row = NoContext /\ Unborn.sigs = {}
  BY UpdatesAre, ContextIs DEF Unborn, Task, Places, RowType

\* The places where a task holds nothing but the account row.
Free == {"unborn", "judged", "deleting", "refused", "mirroring", "rulesWritten", "writingSigners",
         "mirrored", "written", "leaving", "done", "idle", "reading", "relaning"}

\* At such a place a task need only have updates that are true.
LEMMA FreeTask ==
  ASSUME ChainOK(chain), NEW t \in Task, t.at \in Free, t.nonce <= chain.nonce, NEW known,
         \A h \in DOMAIN t.updates : h \in known /\ Claims(chain, lapsed, h, t.updates[h])
  PROVE  TaskOK(t, chain, lapsed, known)
  BY DEF TaskOK, Free

\* A task that begins again, at a place where it holds no more.
LEMMA FreshTask ==
  ASSUME ChainOK(chain), NEW place \in Free, NEW row \in RowType, NEW known
  PROVE  /\ TaskOK([Unborn EXCEPT !.at = place, !.row = row], chain, lapsed, known)
         /\ TaskOK([Unborn EXCEPT !.at = place], chain, lapsed, known)
         /\ [Unborn EXCEPT !.at = place, !.row = row].at = place
         /\ [Unborn EXCEPT !.at = place].at = place
  <1>1. place \in Places
    BY DEF Free, Places
  <1>2. 0 <= chain.nonce
    BY ChainParts
  <1> DEFINE t == [Unborn EXCEPT !.at = place, !.row = row]
             u == [Unborn EXCEPT !.at = place]
  <1>3. /\ t \in Task /\ t.at = place /\ t.nonce = 0 /\ t.updates = NoUpdates
        /\ u \in Task /\ u.at = place /\ u.nonce = 0 /\ u.updates = NoUpdates
    BY <1>1, UnbornIs DEF Task, RowType
  <1> HIDE DEF t, u
  <1>4. TaskOK(t, chain, lapsed, known) /\ TaskOK(u, chain, lapsed, known)
    BY <1>2, <1>3, FreeTask, UpdatesAre
  <1> QED
    BY <1>3, <1>4 DEF t, u

-----------------------------------------------------------------------------
(* The steps of a request *)

\* Steps that read.
LEMMA OnlyTasksStep ==
  ASSUME IInv, OnlyTasks, NEW r \in Requests \cup {Indexer}, NEW t, tasks' = [tasks EXCEPT ![r] = t],
         TaskOK(t, chain, lapsed, DOMAIN rows), Follows(r, tasks[r], t)
  PROVE  IInv'
  <1>1. UNCHANGED <<chain, lapsed, pending, reading>> /\ rows' = rows /\ account' = account
    BY DEF OnlyTasks, others
  <1>2. RowsOK(rows', chain, lapsed) /\ AccountOK(account', chain)
    BY <1>1, Held
  <1> QED
    BY <1>1, <1>2, Step

\* Steps that write rows.
LEMMA OnlyRowsStep ==
  ASSUME IInv, OnlyRows, RowsOK(rows', chain, lapsed), DOMAIN rows \subseteq DOMAIN rows',
         NEW r \in Requests \cup {Indexer}, NEW t, tasks' = [tasks EXCEPT ![r] = t],
         TaskOK(t, chain, lapsed, DOMAIN rows'), Follows(r, tasks[r], t)
  PROVE  IInv'
  <1>1. UNCHANGED <<chain, lapsed, pending, reading>> /\ account' = account
    BY DEF OnlyRows, others
  <1>2. AccountOK(account', chain)
    BY <1>1, Held
  <1> QED
    BY <1>1, <1>2, Step

\* Steps that write the account's row.
LEMMA OnlyAccountStep ==
  ASSUME IInv, OnlyAccount, AccountOK(account', chain),
         NEW r \in Requests \cup {Indexer}, NEW t, tasks' = [tasks EXCEPT ![r] = t],
         TaskOK(t, chain, lapsed, DOMAIN rows), Follows(r, tasks[r], t)
  PROVE  IInv'
  <1>1. UNCHANGED <<chain, lapsed, pending, reading>> /\ rows' = rows
    BY DEF OnlyAccount, others
  <1>2. RowsOK(rows', chain, lapsed)
    BY <1>1, Held
  <1> QED
    BY <1>1, <1>2, Step

\* A request begins with the account row, whose epoch is one of the account's.
LEMMA BeginStep ==
  ASSUME IInv, NEW r \in Requests, Begin(r)
  PROVE  IInv'
  <1> DEFINE t == [tasks[r] EXCEPT !.at = "called", !.row = Context]
  <1>1. tasks' = [tasks EXCEPT ![r] = t] /\ OnlyTasks /\ tasks[r].at = "unborn"
    BY DEF Begin, At
  <1>2. Context \in RowType /\ Context.epoch \in Epochs
    BY Held, ContextIs
  <1>3. tasks[r] \in Task /\ TaskOK(tasks[r], chain, lapsed, DOMAIN rows)
    BY Held
  <1>4. t \in Task /\ t.at = "called" /\ t.row = Context /\ t.nonce = tasks[r].nonce /\ t.updates = tasks[r].updates
    BY <1>2, <1>3 DEF Task, RowType, Places
  <1> HIDE DEF t
  <1>5. TaskOK(t, chain, lapsed, DOMAIN rows)
    BY <1>2, <1>3, <1>4 DEF TaskOK
  <1>6. Follows(r, tasks[r], t)
    BY <1>1, <1>4 DEF Follows, Late
  <1> QED
    BY <1>1, <1>5, <1>6, OnlyTasksStep

\* A refresh reads its updates: every verdict is true when it is given.
LEMMA RefreshStep ==
  ASSUME IInv, NEW r \in Requests \cup {Indexer}, Refresh(r)
  PROVE  IInv'
  <1> DEFINE u == Verdicts(tasks[r].row)
             judged == [tasks[r] EXCEPT !.at = "judged", !.updates = u]
             leaving == [Unborn EXCEPT !.at = "leaving", !.updates = u]
  <1>1. tasks[r] \in Task /\ tasks[r].nonce <= chain.nonce /\ ChainOK(chain) /\ tasks[r].at \in {"called", "written"}
    BY Held DEF Refresh
  <1>2. /\ u \in Updates /\ DOMAIN u \subseteq DOMAIN rows
        /\ \A h \in DOMAIN u : Claims(chain, lapsed, h, u[h])
    BY Held, VerdictsOK
  <1> HIDE DEF u
  <1>3. judged \in Task /\ judged.at = "judged" /\ judged.updates = u /\ judged.nonce = tasks[r].nonce
    BY <1>1, <1>2 DEF Task, Places
  <1>4. leaving \in Task /\ leaving.at = "leaving" /\ leaving.updates = u /\ leaving.nonce = 0
    BY <1>2, UnbornIs DEF Task, Places
  <1>5. 0 <= chain.nonce
    BY <1>1, ChainParts
  <1>6. CASE tasks[r].at = "called"
    <2>1. tasks' = [tasks EXCEPT ![r] = judged] /\ OnlyTasks
      BY <1>6 DEF Refresh, At, u
    <2> HIDE DEF judged
    <2>2. TaskOK(judged, chain, lapsed, DOMAIN rows)
      BY <1>1, <1>2, <1>3, FreeTask DEF Free
    <2>3. Follows(r, tasks[r], judged)
      BY <1>3, <1>6 DEF Follows, Late
    <2> QED
      BY <2>1, <2>2, <2>3, OnlyTasksStep
  <1>7. CASE tasks[r].at # "called"
    <2>1. tasks' = [tasks EXCEPT ![r] = leaving] /\ OnlyTasks
      BY <1>7 DEF Refresh, At, u
    <2> HIDE DEF leaving
    <2>2. TaskOK(leaving, chain, lapsed, DOMAIN rows)
      BY <1>1, <1>2, <1>4, <1>5, FreeTask DEF Free
    <2>3. Follows(r, tasks[r], leaving)
      BY <1>4 DEF Follows, Late
    <2> QED
      BY <2>1, <2>2, <2>3, OnlyTasksStep
  <1> QED
    BY <1>6, <1>7

\* An update goes out, however late: it was true when it was read and still is.
LEMMA UpdateStep ==
  ASSUME IInv, NEW r \in Requests \cup {Indexer}, Update(r)
  PROVE  IInv'
  <1>1. PICK h \in DOMAIN tasks[r].updates :
          /\ rows' = SetStatus(rows, h, tasks[r].updates[h])
          /\ tasks' = [tasks EXCEPT ![r].updates = Without(@, h)]
    BY DEF Update
  <1> DEFINE u == Without(tasks[r].updates, h)
             t == [tasks[r] EXCEPT !.updates = u]
  <1>2. OnlyRows /\ tasks' = [tasks EXCEPT ![r] = t]
    BY <1>1 DEF Update
  <1>3. tasks[r] \in Task /\ TaskOK(tasks[r], chain, lapsed, DOMAIN rows) /\ tasks[r].updates \in Updates
    BY Held DEF Task
  <1>4. tasks[r].updates[h] \in Statuses /\ Claims(chain, lapsed, h, tasks[r].updates[h])
    BY <1>3, UpdatesAre DEF TaskOK
  <1>5. RowsOK(rows', chain, lapsed) /\ DOMAIN rows' = DOMAIN rows
    BY <1>1, <1>4, Held, SetStatusOK
  <1>6. /\ u \in Updates /\ DOMAIN u \subseteq DOMAIN tasks[r].updates
        /\ \A g \in DOMAIN u : u[g] = tasks[r].updates[g]
    BY <1>3, WithoutOK
  <1> HIDE DEF u
  <1>7. /\ t \in Task /\ t.at = tasks[r].at /\ t.op = tasks[r].op /\ t.hash = tasks[r].hash
        /\ t.row = tasks[r].row /\ t.nonce = tasks[r].nonce /\ t.updates = u
    BY <1>3, <1>6 DEF Task
  <1> HIDE DEF t
  <1>8. TaskOK(t, chain, lapsed, DOMAIN rows')
    BY <1>3, <1>5, <1>6, <1>7 DEF TaskOK
  <1>9. Follows(r, tasks[r], t)
    BY <1>7 DEF Follows
  <1> QED
    BY <1>2, <1>5, <1>8, <1>9, OnlyRowsStep

\* A request ends.
LEMMA LeaveStep ==
  ASSUME IInv, NEW r \in Requests, Leave(r)
  PROVE  IInv'
  <1> DEFINE t == [Unborn EXCEPT !.at = "done"]
  <1>1. tasks' = [tasks EXCEPT ![r] = t] /\ OnlyTasks
    BY DEF Leave, Ends, Forgets
  <1>2. TaskOK(t, chain, lapsed, DOMAIN rows) /\ t.at = "done"
    BY FreshTask, Held, ContextIs DEF Free
  <1> HIDE DEF t
  <1>3. Follows(r, tasks[r], t)
    BY <1>2 DEF Follows, Late
  <1> QED
    BY <1>1, <1>2, <1>3, OnlyTasksStep

\* A request fails, and the rows stay as they are.
LEMMA AbandonStep ==
  ASSUME IInv, NEW r \in Requests, Abandon(r)
  PROVE  IInv'
  <1> DEFINE t == [Unborn EXCEPT !.at = "done"]
  <1>1. /\ tasks' = [tasks EXCEPT ![r] = t]
        /\ UNCHANGED <<chain, lapsed, pending, reading>> /\ rows' = rows /\ account' = account
    BY DEF Abandon, Ends, Forgets
  <1>2. TaskOK(t, chain, lapsed, DOMAIN rows) /\ t.at = "done"
    BY FreshTask, Held, ContextIs DEF Free
  <1> HIDE DEF t
  <1>3. Follows(r, tasks[r], t)
    BY <1>2 DEF Follows, Late
  <1>4. RowsOK(rows', chain, lapsed) /\ AccountOK(account', chain)
    BY <1>1, Held
  <1> QED
    BY <1>1, <1>2, <1>3, <1>4, Step

\* A confirmation is of a row there is, by one of the signers read.
LEMMA LoadForConfirmStep ==
  ASSUME IInv, NEW r \in Requests, NEW h \in DOMAIN rows, NEW signer \in Signers, LoadForConfirm(r, h, signer)
  PROVE  IInv'
  <1> DEFINE t == [tasks[r] EXCEPT !.at = "confirming", !.hash = h, !.sigs = {signer}]
  <1>1. tasks' = [tasks EXCEPT ![r] = t] /\ OnlyTasks /\ tasks[r].at = "judged"
    BY DEF LoadForConfirm, Refreshed, At
  <1>2. tasks[r] \in Task /\ TaskOK(tasks[r], chain, lapsed, DOMAIN rows) /\ h \in Hash
    BY Held
  <1>3. /\ t \in Task /\ t.at = "confirming" /\ t.hash = h
        /\ t.nonce = tasks[r].nonce /\ t.updates = tasks[r].updates
    BY <1>2 DEF Task, Places
  <1> HIDE DEF t
  <1>4. TaskOK(t, chain, lapsed, DOMAIN rows)
    BY <1>2, <1>3 DEF TaskOK
  <1>5. Follows(r, tasks[r], t)
    BY <1>1, <1>3 DEF Follows, Late
  <1> QED
    BY <1>1, <1>4, <1>5, OnlyTasksStep

\* The confirmation is written.
LEMMA ConfirmStep ==
  ASSUME IInv, NEW r \in Requests, Confirm(r)
  PROVE  IInv'
  <1> DEFINE t == [Unborn EXCEPT !.at = "written", !.row = tasks[r].row]
  <1>1. tasks' = [tasks EXCEPT ![r] = t] /\ OnlyRows
    BY DEF Confirm, Carries
  <1>2. rows' = [rows EXCEPT ![tasks[r].hash].confirmations = @ \cup tasks[r].sigs]
    BY DEF Confirm
  <1>3. tasks[r].sigs \in SUBSET Signers /\ tasks[r].row \in RowType
    BY Held DEF Task, RowType
  <1>4. RowsOK(rows', chain, lapsed) /\ DOMAIN rows' = DOMAIN rows
    BY <1>2, <1>3, Held, ConfirmedOK
  <1>5. TaskOK(t, chain, lapsed, DOMAIN rows') /\ t.at = "written"
    BY <1>3, FreshTask, Held DEF Free
  <1> HIDE DEF t
  <1>6. Follows(r, tasks[r], t)
    BY <1>5 DEF Follows, Late
  <1> QED
    BY <1>1, <1>4, <1>5, <1>6, OnlyRowsStep

\* The lane's nonce that is read is not ahead of the chain's.
LEMMA ReadLaneStep ==
  ASSUME IInv, NEW r \in Requests, NEW kind \in DOMAIN CallsOf, ReadLane(r, kind)
  PROVE  IInv'
  <1>1. PICK calls \in CallsOf[kind] :
          tasks' = [tasks EXCEPT ![r].at = "laning", ![r].nonce = chain.nonce,
                      ![r].hash = [seq |-> 0, epoch |-> tasks[r].row.epoch, calls |-> calls]]
    BY DEF ReadLane
  <1> DEFINE h == [seq |-> 0, epoch |-> tasks[r].row.epoch, calls |-> calls]
             t == [tasks[r] EXCEPT !.at = "laning", !.nonce = chain.nonce, !.hash = h]
  <1>2. tasks' = [tasks EXCEPT ![r] = t] /\ OnlyTasks /\ tasks[r].at = "called"
    BY <1>1 DEF ReadLane, At
  <1>3. /\ tasks[r] \in Task /\ TaskOK(tasks[r], chain, lapsed, DOMAIN rows)
        /\ chain.nonce \in Nat
    BY Held, ChainParts
  <1>4. h \in Hash
    <2>1. tasks[r].row.epoch \in Epochs
      BY <1>2, <1>3 DEF TaskOK
    <2>2. calls \in Calls
      BY DEF Calls
    <2> QED
      BY <2>1, <2>2, ProposalsAssumption DEF Hash, ProposalsAssumption
  <1> HIDE DEF h
  <1>5. /\ t \in Task /\ t.at = "laning" /\ t.hash = h
        /\ t.nonce = chain.nonce /\ t.updates = tasks[r].updates
    BY <1>3, <1>4 DEF Task, Places
  <1> HIDE DEF t
  <1>6. TaskOK(t, chain, lapsed, DOMAIN rows)
    BY <1>3, <1>4, <1>5 DEF TaskOK
  <1>7. Follows(r, tasks[r], t)
    BY <1>2, <1>5 DEF Follows, Late
  <1> QED
    BY <1>2, <1>6, <1>7, OnlyTasksStep

\* Nor is it when it is written, after the chain has moved on.
LEMMA UpsertLaneStep ==
  ASSUME IInv, NEW r \in Requests, UpsertLane(r)
  PROVE  IInv'
  <1> DEFINE t == [tasks[r] EXCEPT !.at = "numbering"]
  <1>1. tasks' = [tasks EXCEPT ![r] = t] /\ OnlyAccount /\ tasks[r].at = "laning"
        /\ account' = [account EXCEPT !.lane = tasks[r].nonce]
    BY DEF UpsertLane, At, Goes
  <1>2. /\ tasks[r] \in Task /\ TaskOK(tasks[r], chain, lapsed, DOMAIN rows) /\ tasks[r].nonce \in Nat
        /\ tasks[r].nonce <= chain.nonce /\ chain.nonce \in Nat /\ tasks[r].hash \in Hash
    BY <1>1, Held, ChainParts DEF Task, TaskOK
  <1>3. AccountOK(account', chain)
    BY <1>1, <1>2, Held DEF AccountOK
  <1>4. /\ t \in Task /\ t.at = "numbering" /\ t.hash = tasks[r].hash
        /\ t.nonce = tasks[r].nonce /\ t.updates = tasks[r].updates
    BY <1>2 DEF Task, Places
  <1> HIDE DEF t
  <1>5. TaskOK(t, chain, lapsed, DOMAIN rows)
    BY <1>2, <1>4 DEF TaskOK
  <1>6. Follows(r, tasks[r], t)
    BY <1>1, <1>4 DEF Follows, Late
  <1> QED
    BY <1>1, <1>3, <1>5, <1>6, OnlyAccountStep

\* A number within the lane's range.
LEMMA NumberStep ==
  ASSUME IInv, NEW r \in Requests, NEW seq \in 0..MaxSeq, Number(r, seq)
  PROVE  IInv'
  <1> DEFINE h == [tasks[r].hash EXCEPT !.seq = seq]
             t == [tasks[r] EXCEPT !.at = "inserting", !.hash = h]
  <1>1. tasks' = [tasks EXCEPT ![r] = t] /\ OnlyTasks /\ tasks[r].at = "numbering"
    BY DEF Number, At
  <1>2. tasks[r] \in Task /\ TaskOK(tasks[r], chain, lapsed, DOMAIN rows) /\ tasks[r].hash \in Hash
    BY <1>1, Held DEF TaskOK
  <1>3. h \in Hash
    BY <1>2 DEF Hash
  <1> HIDE DEF h
  <1>4. /\ t \in Task /\ t.at = "inserting" /\ t.hash = h
        /\ t.nonce = tasks[r].nonce /\ t.updates = tasks[r].updates
    BY <1>2, <1>3 DEF Task, Places
  <1> HIDE DEF t
  <1>5. TaskOK(t, chain, lapsed, DOMAIN rows)
    BY <1>2, <1>3, <1>4 DEF TaskOK
  <1>6. Follows(r, tasks[r], t)
    BY <1>1, <1>4 DEF Follows, Late
  <1> QED
    BY <1>1, <1>5, <1>6, OnlyTasksStep

\* A new row is open, and claims nothing of the chain.
LEMMA InsertStep ==
  ASSUME IInv, NEW r \in Requests, Insert(r)
  PROVE  IInv'
  <1> DEFINE h == tasks[r].hash
  <1>1. OnlyRows /\ tasks[r].at = "inserting"
    BY DEF Insert, At
  <1>2. h \in Hash /\ tasks[r].row \in RowType /\ RowsOK(rows, chain, lapsed) /\ ChainOK(chain)
    BY <1>1, Held DEF TaskOK, Task, RowType
  <1>3. CASE h \in DOMAIN rows
    <2> DEFINE t == [Unborn EXCEPT !.at = "done"]
    <2>1. tasks' = [tasks EXCEPT ![r] = t] /\ rows' = rows
      BY <1>3 DEF Insert, Ends, Forgets
    <2>2. TaskOK(t, chain, lapsed, DOMAIN rows') /\ t.at = "done"
      BY FreshTask, Held, ContextIs DEF Free
    <2> HIDE DEF t, h
    <2>3. Follows(r, tasks[r], t)
      BY <2>2 DEF Follows, Late
    <2> QED
      BY <1>1, <1>2, <2>1, <2>2, <2>3, OnlyRowsStep
  <1>4. CASE h \notin DOMAIN rows
    <2> DEFINE t == [Unborn EXCEPT !.at = "written", !.row = tasks[r].row]
               new == [status |-> "open", confirmations |-> {}]
               Row == [status : Statuses, confirmations : SUBSET Signers]
    <2>1. tasks' = [tasks EXCEPT ![r] = t]
          /\ rows' = [g \in DOMAIN rows \cup {h} |-> IF g = h THEN new ELSE rows[g]]
      BY <1>4 DEF Insert, Carries
    <2>2. TaskOK(t, chain, lapsed, DOMAIN rows') /\ t.at = "written"
      BY <1>2, FreshTask DEF Free
    <2>3. new \in Row /\ new.status = "open"
      BY DEF Statuses, Unsettled, InPlay
    <2>4. \A g \in DOMAIN rows : rows[g] \in Row /\ Claims(chain, lapsed, g, rows[g].status)
      BY <1>2 DEF RowsOK
    <2> HIDE DEF t, new, Row, h
    <2>5. DOMAIN rows' = DOMAIN rows \cup {h} /\ rows' \in [DOMAIN rows' -> Row]
      BY <2>1, <2>3, <2>4
    <2>6. \A g \in DOMAIN rows' : Claims(chain, lapsed, g, rows'[g].status)
      BY <2>1, <2>3, <2>4 DEF Claims
    <2>7. RowsOK(rows', chain, lapsed)
      BY <1>2, <2>5, <2>6 DEF RowsOK, Row
    <2>8. Follows(r, tasks[r], t)
      BY <2>2 DEF Follows, Late
    <2> QED
      BY <1>1, <2>1, <2>2, <2>5, <2>7, <2>8, OnlyRowsStep
  <1> QED
    BY <1>3, <1>4

\* A deletion looks at its row.
LEMMA LoadForDeleteStep ==
  ASSUME IInv, NEW r \in Requests, NEW h \in DOMAIN rows, LoadForDelete(r, h)
  PROVE  IInv'
  <1> DEFINE t == [Unborn EXCEPT !.at = "deleting", !.hash = h]
  <1>1. tasks' = [tasks EXCEPT ![r] = t] /\ OnlyTasks
    BY DEF LoadForDelete
  <1>2. h \in Hash /\ ChainOK(chain) /\ 0 <= chain.nonce
    BY Held, ChainParts
  <1>3. t \in Task /\ t.at = "deleting" /\ t.nonce = 0 /\ t.updates = NoUpdates
    BY <1>2, UnbornIs DEF Task, Places
  <1>4. tasks[r].at = "called"
    BY DEF LoadForDelete, At
  <1> HIDE DEF t
  <1>5. TaskOK(t, chain, lapsed, DOMAIN rows)
    BY <1>2, <1>3, FreeTask, UpdatesAre DEF Free
  <1>6. Follows(r, tasks[r], t)
    BY <1>3, <1>4 DEF Follows, Late
  <1> QED
    BY <1>1, <1>5, <1>6, OnlyTasksStep

\* And deletes it, whatever it has become.
LEMMA DeleteStep ==
  ASSUME IInv, NEW r \in Requests, Delete(r)
  PROVE  IInv'
  <1> DEFINE t == [Unborn EXCEPT !.at = "done"]
  <1>1. tasks' = [tasks EXCEPT ![r] = t] /\ OnlyRows /\ rows' = SetStatus(rows, tasks[r].hash, "deleted")
    BY DEF Delete, Ends, Forgets
  <1>2. "deleted" \in Statuses /\ Claims(chain, lapsed, tasks[r].hash, "deleted")
    BY DEF Statuses, Claims
  <1>3. RowsOK(rows', chain, lapsed) /\ DOMAIN rows' = DOMAIN rows
    BY <1>1, <1>2, Held, SetStatusOK
  <1>4. TaskOK(t, chain, lapsed, DOMAIN rows') /\ t.at = "done"
    BY FreshTask, Held, ContextIs DEF Free
  <1> HIDE DEF t
  <1>5. Follows(r, tasks[r], t)
    BY <1>4 DEF Follows, Late
  <1> QED
    BY <1>1, <1>3, <1>4, <1>5, OnlyRowsStep

-----------------------------------------------------------------------------
(* Executing *)

\* A task that goes on to a place of its own keeps what it holds.
LEMMA GoesTo ==
  ASSUME IInv, NEW r \in Requests \cup {Indexer}, NEW place \in Places
  PROVE  LET t == [tasks[r] EXCEPT !.at = place]
         IN  /\ t \in Task /\ t.at = place /\ t.op = tasks[r].op /\ t.hash = tasks[r].hash
             /\ t.nonce = tasks[r].nonce /\ t.updates = tasks[r].updates
             /\ TaskOK(tasks[r], chain, lapsed, DOMAIN rows)
             /\ place \in Free => TaskOK(t, chain, lapsed, DOMAIN rows)
  <1> DEFINE t == [tasks[r] EXCEPT !.at = place]
  <1>1. tasks[r] \in Task /\ TaskOK(tasks[r], chain, lapsed, DOMAIN rows) /\ ChainOK(chain)
    BY Held
  <1>2. /\ t \in Task /\ t.at = place /\ t.op = tasks[r].op /\ t.hash = tasks[r].hash
        /\ t.nonce = tasks[r].nonce /\ t.updates = tasks[r].updates
    BY <1>1 DEF Task
  <1> HIDE DEF t
  <1>3. place \in Free => TaskOK(t, chain, lapsed, DOMAIN rows)
    BY <1>1, <1>2, FreeTask DEF TaskOK
  <1> QED
    BY <1>1, <1>2, <1>3 DEF t

\* A task that begins to execute, to run what waits or to veto.
LEMMA LoadForExecuteStep ==
  ASSUME IInv, NEW r \in Requests, NEW h \in DOMAIN rows,
         LoadForExecute(r, h) \/ LoadForExecuteScheduled(r, h)
  PROVE  IInv'
  <1>1. h \in Hash /\ ChainOK(chain) /\ 0 <= chain.nonce
    BY Held, ChainParts
  <1>2. CASE LoadForExecute(r, h)
    <2> DEFINE t == [Unborn EXCEPT !.at = "claiming", !.op = "execute", !.hash = h, !.sigs = Approvals(r, h)]
    <2>1. tasks' = [tasks EXCEPT ![r] = t] /\ OnlyTasks /\ tasks[r].at = "judged"
      BY <1>2 DEF LoadForExecute, Refreshed, At
    <2>2. Approvals(r, h) \in SUBSET Signers
      <3>1. rows[h].confirmations \in SUBSET Signers
        BY Held DEF RowsOK
      <3> QED
        BY <3>1 DEF Approvals
    <2>3. t \in Task /\ t.at = "claiming" /\ t.op = "execute" /\ t.hash = h /\ t.nonce = 0 /\ t.updates = NoUpdates
      BY <1>1, <2>2, UnbornIs DEF Task, Places, Sent
    <2> HIDE DEF t
    <2>4. TaskOK(t, chain, lapsed, DOMAIN rows)
      BY <1>1, <2>3, UpdatesAre DEF TaskOK
    <2>5. Follows(r, tasks[r], t)
      BY <2>1, <2>3 DEF Follows, Late
    <2> QED
      BY <2>1, <2>4, <2>5, OnlyTasksStep
  <1>3. CASE LoadForExecuteScheduled(r, h)
    <2> DEFINE t == [Unborn EXCEPT !.at = "sending", !.op = "executeScheduled", !.hash = h]
    <2>1. tasks' = [tasks EXCEPT ![r] = t] /\ OnlyTasks /\ tasks[r].at = "called"
      BY <1>3 DEF LoadForExecuteScheduled, At
    <2>2. /\ t \in Task /\ t.at = "sending" /\ t.op = "executeScheduled" /\ t.hash = h /\ t.nonce = 0
          /\ t.updates = NoUpdates
      BY <1>1, UnbornIs DEF Task, Places, Sent
    <2> HIDE DEF t
    <2>3. TaskOK(t, chain, lapsed, DOMAIN rows)
      BY <1>1, <2>2, UpdatesAre DEF TaskOK, Sent
    <2>4. Follows(r, tasks[r], t)
      BY <2>1, <2>2 DEF Follows, Late
    <2> QED
      BY <2>1, <2>3, <2>4, OnlyTasksStep
  <1> QED
    BY <1>2, <1>3

\* A veto is prepared under the rules read.
LEMMA PrepareVetoStep ==
  ASSUME IInv, NEW r \in Requests, NEW h \in DOMAIN rows, NEW signer \in Signers, PrepareVeto(r, h, signer)
  PROVE  IInv'
  <1> DEFINE t == [tasks[r] EXCEPT !.at = "signing", !.op = "veto", !.hash = h, !.sigs = {signer}]
  <1>1. tasks' = [tasks EXCEPT ![r] = t] /\ OnlyTasks /\ tasks[r].at = "called"
    BY DEF PrepareVeto, At
  <1>2. tasks[r] \in Task /\ TaskOK(tasks[r], chain, lapsed, DOMAIN rows) /\ h \in Hash
    BY Held
  <1>3. /\ t \in Task /\ t.at = "signing" /\ t.op = "veto" /\ t.hash = h
        /\ t.nonce = tasks[r].nonce /\ t.updates = tasks[r].updates
    BY <1>2 DEF Task, Places, Sent
  <1> HIDE DEF t
  <1>4. TaskOK(t, chain, lapsed, DOMAIN rows)
    BY <1>2, <1>3 DEF TaskOK, Sent
  <1>5. Follows(r, tasks[r], t)
    BY <1>1, <1>3 DEF Follows, Late
  <1> QED
    BY <1>1, <1>4, <1>5, OnlyTasksStep

\* It is sent, or not if the rules have moved.
LEMMA SubmitOperationStep ==
  ASSUME IInv, NEW r \in Requests, SubmitOperation(r)
  PROVE  IInv'
  <1>1. OnlyTasks /\ tasks[r].at = "signing"
    BY DEF SubmitOperation, At
  <1>2. CASE account.epoch = tasks[r].row.epoch /\ tasks[r].sigs \subseteq account.approvers
    <2> DEFINE t == [tasks[r] EXCEPT !.at = "sending"]
    <2>1. tasks' = [tasks EXCEPT ![r] = t]
      BY <1>2 DEF SubmitOperation, Goes
    <2>2. "sending" \in Places
      BY DEF Places
    <2>3. /\ t \in Task /\ t.at = "sending" /\ t.op = tasks[r].op /\ t.hash = tasks[r].hash
          /\ t.nonce = tasks[r].nonce /\ t.updates = tasks[r].updates
          /\ TaskOK(tasks[r], chain, lapsed, DOMAIN rows)
      BY <2>2, GoesTo
    <2> HIDE DEF t
    <2>4. TaskOK(t, chain, lapsed, DOMAIN rows)
      BY <1>1, <2>3 DEF TaskOK
    <2>5. Follows(r, tasks[r], t)
      BY <1>1, <2>3 DEF Follows, Late
    <2> QED
      BY <1>1, <2>1, <2>4, <2>5, OnlyTasksStep
  <1>3. CASE ~ (account.epoch = tasks[r].row.epoch /\ tasks[r].sigs \subseteq account.approvers)
    <2> DEFINE t == [Unborn EXCEPT !.at = "done"]
    <2>1. tasks' = [tasks EXCEPT ![r] = t]
      BY <1>3 DEF SubmitOperation, Ends, Forgets
    <2>2. TaskOK(t, chain, lapsed, DOMAIN rows) /\ t.at = "done"
      BY FreshTask, Held, ContextIs DEF Free
    <2> HIDE DEF t
    <2>3. Follows(r, tasks[r], t)
      BY <2>2 DEF Follows, Late
    <2> QED
      BY <1>1, <2>1, <2>2, <2>3, OnlyTasksStep
  <1> QED
    BY <1>2, <1>3

\* A claimed row is executing, which claims nothing of the chain.
LEMMA ClaimStep ==
  ASSUME IInv, NEW r \in Requests, Claim(r)
  PROVE  IInv'
  <1>1. OnlyRows /\ tasks[r].at = "claiming"
    BY DEF Claim, At
  <1>2. CASE MayClaim(rows[tasks[r].hash].status)
    <2> DEFINE t == [tasks[r] EXCEPT !.at = "sending"]
    <2>1. tasks' = [tasks EXCEPT ![r] = t] /\ rows' = SetStatus(rows, tasks[r].hash, "executing")
      BY <1>2 DEF Claim, Goes
    <2>2. "executing" \in Statuses /\ Claims(chain, lapsed, tasks[r].hash, "executing")
      BY DEF Statuses, Unsettled, Claims
    <2>3. RowsOK(rows', chain, lapsed) /\ DOMAIN rows' = DOMAIN rows
      BY <2>1, <2>2, Held, SetStatusOK
    <2>4. "sending" \in Places
      BY DEF Places
    <2>5. /\ t \in Task /\ t.at = "sending" /\ t.op = tasks[r].op /\ t.hash = tasks[r].hash
          /\ t.nonce = tasks[r].nonce /\ t.updates = tasks[r].updates
          /\ TaskOK(tasks[r], chain, lapsed, DOMAIN rows)
      BY <2>4, GoesTo
    <2> HIDE DEF t
    <2>6. TaskOK(t, chain, lapsed, DOMAIN rows')
      BY <1>1, <2>3, <2>5 DEF TaskOK, Sent
    <2>7. Follows(r, tasks[r], t)
      BY <1>1, <2>5 DEF Follows, Late
    <2> QED
      BY <1>1, <2>1, <2>3, <2>6, <2>7, OnlyRowsStep
  <1>3. CASE ~ MayClaim(rows[tasks[r].hash].status)
    <2> DEFINE t == [Unborn EXCEPT !.at = "done"]
    <2>1. tasks' = [tasks EXCEPT ![r] = t] /\ rows' = rows
      BY <1>3 DEF Claim, Ends, Forgets
    <2>2. TaskOK(t, chain, lapsed, DOMAIN rows') /\ t.at = "done"
      BY FreshTask, Held, ContextIs DEF Free
    <2> HIDE DEF t
    <2>3. Follows(r, tasks[r], t)
      BY <2>2 DEF Follows, Late
    <2>4. RowsOK(rows', chain, lapsed) /\ DOMAIN rows \subseteq DOMAIN rows'
      BY <2>1, Held
    <2> QED
      BY <1>1, <2>1, <2>2, <2>3, <2>4, OnlyRowsStep
  <1> QED
    BY <1>2, <1>3

\* Nothing that a request sent before is pending when it sends.
LEMMA SendStep ==
  ASSUME IInv, NEW r \in Requests, Send(r)
  PROVE  IInv'
  <1> DEFINE t == [tasks[r] EXCEPT !.at = "sent", !.row = NoContext, !.sigs = {}]
             new == [op |-> tasks[r].op, hash |-> tasks[r].hash, sigs |-> tasks[r].sigs,
                     epoch |-> tasks[r].row.epoch, by |-> r]
  <1>1. tasks' = [tasks EXCEPT ![r] = t] /\ tasks[r].at = "sending" /\ pending' = pending \cup {new}
        /\ UNCHANGED <<chain, lapsed, rows, account, reading, fault>>
    BY DEF Send, At
  <1>2. tasks[r] \in Task /\ TaskOK(tasks[r], chain, lapsed, DOMAIN rows)
    BY Held
  <1>3. tasks[r].op \in Sent /\ tasks[r].hash \in Hash
    BY <1>1, <1>2 DEF TaskOK
  <1>4. /\ t \in Task /\ t.at = "sent" /\ t.op = tasks[r].op /\ t.hash = tasks[r].hash
        /\ t.nonce = tasks[r].nonce /\ t.updates = tasks[r].updates
    BY <1>2, ContextIs DEF Task, Places, RowType
  <1>5. /\ new \in [op : Sent, hash : Hash, sigs : SUBSET Signers, epoch : Epochs \cup {0}, by : Requests]
        /\ new.op = tasks[r].op /\ new.hash = tasks[r].hash /\ new.by = r
    BY <1>2, <1>3 DEF Task
  <1> HIDE DEF t, new
  <1>6. TaskOK(t, chain, lapsed, DOMAIN rows)
    BY <1>2, <1>3, <1>4 DEF TaskOK
  <1>7. TasksOK'
    <2>1. /\ ChainOK(chain) /\ ChainOK(chain)' /\ Grows(chain, chain') /\ lapsed \subseteq lapsed'
          /\ DOMAIN rows \subseteq Hash /\ DOMAIN rows \subseteq DOMAIN rows' /\ TasksOK
          /\ TaskOK(t, chain', lapsed', DOMAIN rows')
      BY <1>1, <1>6, Held, GrowsItself DEF IInv
    <2> QED
      BY <1>1, <2>1, OneTask
  <1>8. tasks \in [Requests \cup {Indexer} -> Task] /\ r \in Requests \cup {Indexer}
    BY DEF IInv, TasksOK
  <1>9. PendingOK'
    <2> SUFFICES ASSUME NEW u \in pending'
                 PROVE  /\ u \in [op : Sent, hash : Hash, sigs : SUBSET Signers, epoch : Epochs \cup {0}, by : Requests]
                        /\ tasks'[u.by].at \in Late
                        /\ tasks'[u.by].at = "sent" => tasks'[u.by].op = u.op /\ tasks'[u.by].hash = u.hash
      BY DEF PendingOK
    <2>1. CASE u \in pending
      <3>1. /\ u \in [op : Sent, hash : Hash, sigs : SUBSET Signers, epoch : Epochs \cup {0}, by : Requests]
            /\ u.by \in Requests /\ tasks[u.by].at \in Late
            /\ tasks[u.by].at = "sent" => tasks[u.by].op = u.op /\ tasks[u.by].hash = u.hash
        BY <2>1 DEF PendingOK, IInv
      <3>2. u.by # r
        BY <1>1, <3>1 DEF Late
      <3>3. tasks'[u.by] = tasks[u.by]
        BY <1>1, <1>8, <3>1, <3>2
      <3> QED
        BY <3>1, <3>3
    <2>2. CASE u \notin pending
      <3>1. u = new
        BY <1>1, <2>2
      <3>2. tasks'[u.by] = t
        BY <1>1, <1>5, <1>8, <3>1
      <3> QED
        BY <1>4, <1>5, <3>1, <3>2 DEF Late
    <2> QED
      BY <2>1, <2>2
  <1>10. ReadingOK'
    <2>1. tasks'[Indexer] = tasks[Indexer]
      BY <1>1, <1>8 DEF Indexer, Requests
    <2> QED
      BY <1>1, <2>1 DEF ReadingOK, IInv
  <1>11. ChainOK(chain)' /\ (lapsed \subseteq Hash)' /\ RowsOK(rows, chain, lapsed)' /\ AccountOK(account, chain)'
    BY <1>1 DEF IInv
  <1> QED
    BY <1>7, <1>9, <1>10, <1>11 DEF IInv

\* The node does not take the transaction, or its receipt does not come.
LEMMA SendFailsStep ==
  ASSUME IInv, NEW r \in Requests, SendFails(r)
  PROVE  IInv'
  <1> DEFINE t == [tasks[r] EXCEPT !.at = "refused"]
  <1>1. tasks' = [tasks EXCEPT ![r] = t] /\ OnlyTasks
    BY DEF SendFails, Goes
  <1>2. "refused" \in Places /\ "refused" \in Free
    BY DEF Places, Free
  <1>3. t.at = "refused" /\ TaskOK(t, chain, lapsed, DOMAIN rows)
    BY <1>2, GoesTo
  <1> HIDE DEF t
  <1>4. Follows(r, tasks[r], t)
    BY <1>3 DEF Follows, Late
  <1> QED
    BY <1>1, <1>3, <1>4, OnlyTasksStep

\* A failed row claims nothing of the chain.
LEMMA RefusedStep ==
  ASSUME IInv, NEW r \in Requests, Refused(r)
  PROVE  IInv'
  <1> DEFINE t == [Unborn EXCEPT !.at = "done"]
  <1>1. tasks' = [tasks EXCEPT ![r] = t] /\ OnlyRows
        /\ (rows' = rows \/ rows' = SetStatus(rows, tasks[r].hash, "failed"))
    BY DEF Refused, Ends, Forgets, AfterRefusal
  <1>2. "failed" \in Statuses /\ Claims(chain, lapsed, tasks[r].hash, "failed")
    BY DEF Statuses, Unsettled, Claims
  <1>3. RowsOK(rows', chain, lapsed) /\ DOMAIN rows' = DOMAIN rows
    BY <1>1, <1>2, Held, SetStatusOK
  <1>4. TaskOK(t, chain, lapsed, DOMAIN rows') /\ t.at = "done"
    BY FreshTask, Held, ContextIs DEF Free
  <1> HIDE DEF t
  <1>5. Follows(r, tasks[r], t)
    BY <1>4 DEF Follows, Late
  <1> QED
    BY <1>1, <1>3, <1>4, <1>5, OnlyRowsStep

\* What is written of a transaction that landed is what the chain has done.
LEMMA RecordOutcomeStep ==
  ASSUME IInv, NEW r \in Requests, RecordOutcome(r)
  PROVE  IInv'
  <1> DEFINE t == [tasks[r] EXCEPT !.at = "replacing"]
             h == tasks[r].hash
  <1>1. tasks' = [tasks EXCEPT ![r] = t] /\ OnlyRows /\ tasks[r].at = "landed" /\ tasks[r].op = "execute"
        /\ rows' = SetStatus(rows, h, Outcome(h))
    BY DEF RecordOutcome, Goes, At
  <1>2. "replacing" \in Places
    BY DEF Places
  <1>3. /\ t \in Task /\ t.at = "replacing" /\ t.op = tasks[r].op /\ t.hash = h
        /\ t.nonce = tasks[r].nonce /\ t.updates = tasks[r].updates
        /\ TaskOK(tasks[r], chain, lapsed, DOMAIN rows)
    BY <1>2, GoesTo
  <1>4. h \in Hash /\ LandedAs("execute", h, chain)
    BY <1>1, <1>3 DEF TaskOK
  <1>5. Outcome(h) \in Statuses /\ Claims(chain, lapsed, h, Outcome(h))
    BY <1>4 DEF LandedAs, Outcome, Claims, Statuses
  <1> HIDE DEF t, h
  <1>6. RowsOK(rows', chain, lapsed) /\ DOMAIN rows' = DOMAIN rows
    BY <1>1, <1>5, Held, SetStatusOK
  <1>7. TaskOK(t, chain, lapsed, DOMAIN rows')
    BY <1>1, <1>3, <1>4, <1>6 DEF TaskOK
  <1>8. Follows(r, tasks[r], t)
    BY <1>3 DEF Follows, Late
  <1> QED
    BY <1>1, <1>6, <1>7, <1>8, OnlyRowsStep

\* The slot of a transaction that landed is spent.
LEMMA ReplaceStep ==
  ASSUME IInv, NEW r \in Requests, Replace(r)
  PROVE  IInv'
  <1> DEFINE t == [Unborn EXCEPT !.at = "mirroring"]
             h == tasks[r].hash
  <1>1. tasks' = [tasks EXCEPT ![r] = t] /\ OnlyRows /\ tasks[r].at = "replacing"
        /\ rows' = MarkReplaced(rows, h.seq, h)
    BY DEF Replace, Forgets, At
  <1>2. h \in Hash /\ LandedAs("execute", h, chain)
    BY <1>1, Held DEF TaskOK
  <1>3. h.seq < chain.nonce
    BY <1>2 DEF LandedAs
  <1>4. \A g \in Hash : g.seq = h.seq => g.seq < chain.nonce \/ g.seq \in chain.ops
    BY <1>3
  <1> HIDE DEF h
  <1>5. RowsOK(rows', chain, lapsed) /\ DOMAIN rows' = DOMAIN rows
    BY <1>1, <1>4, Held, MarkReplacedOK
  <1>6. TaskOK(t, chain, lapsed, DOMAIN rows') /\ t.at = "mirroring"
    BY FreshTask, Held, ContextIs DEF Free
  <1> HIDE DEF t
  <1>7. Follows(r, tasks[r], t)
    BY <1>6 DEF Follows, Late
  <1> QED
    BY <1>1, <1>5, <1>6, <1>7, OnlyRowsStep

\* A scheduled change that landed has run.
LEMMA RecordScheduledRunStep ==
  ASSUME IInv, NEW r \in Requests, RecordScheduledRun(r)
  PROVE  IInv'
  <1> DEFINE t == [Unborn EXCEPT !.at = "mirroring"]
             h == tasks[r].hash
  <1>1. tasks' = [tasks EXCEPT ![r] = t] /\ OnlyRows /\ tasks[r].at = "landed"
        /\ tasks[r].op = "executeScheduled" /\ rows' = SetStatus(rows, h, "executed")
    BY DEF RecordScheduledRun, Forgets, At
  <1>2. h \in chain.ran
    BY <1>1, Held DEF TaskOK, LandedAs
  <1>3. "executed" \in Statuses /\ Claims(chain, lapsed, h, "executed")
    BY <1>2 DEF Statuses, Claims
  <1> HIDE DEF h
  <1>4. RowsOK(rows', chain, lapsed) /\ DOMAIN rows' = DOMAIN rows
    BY <1>1, <1>3, Held, SetStatusOK
  <1>5. TaskOK(t, chain, lapsed, DOMAIN rows') /\ t.at = "mirroring"
    BY FreshTask, Held, ContextIs DEF Free
  <1> HIDE DEF t
  <1>6. Follows(r, tasks[r], t)
    BY <1>5 DEF Follows, Late
  <1> QED
    BY <1>1, <1>4, <1>5, <1>6, OnlyRowsStep

\* Steps that end a request, or leave off reading the chain back.
LEMMA FreshStep ==
  ASSUME IInv, OnlyTasks, NEW r \in Requests \cup {Indexer}, NEW place \in {"done", "mirrored", "idle"},
         tasks' = [tasks EXCEPT ![r] = [Unborn EXCEPT !.at = place]],
         place = "idle" => r = Indexer
  PROVE  IInv'
  <1> DEFINE t == [Unborn EXCEPT !.at = place]
  <1>1. place \in Free /\ ChainOK(chain)
    BY Held DEF Free
  <1>2. TaskOK(t, chain, lapsed, DOMAIN rows) /\ t.at = place
    BY <1>1, FreshTask, ContextIs
  <1>3. tasks' = [tasks EXCEPT ![r] = t]
    OBVIOUS
  <1> HIDE DEF t
  <1>4. Follows(r, tasks[r], t)
    BY <1>2 DEF Follows, Late, Requests, Indexer
  <1> QED
    BY <1>2, <1>3, <1>4, OnlyTasksStep

-----------------------------------------------------------------------------
(* Reading the chain back *)

\* What is read of the chain is of its epoch and its nonce.
LEMMA ReadChainStep ==
  ASSUME IInv, NEW r \in Requests \cup {Indexer}, ReadChain(r)
  PROVE  IInv'
  <1>1. OnlyTasks
    BY DEF ReadChain
  <1>2. /\ tasks[r] \in Task /\ TaskOK(tasks[r], chain, lapsed, DOMAIN rows) /\ tasks[r].row \in RowType
        /\ chain.epoch \in Epochs /\ chain.nonce \in Nat
    BY Held, ChainParts DEF Task, RowType
  <1>3. RulesOf[chain.epoch].threshold \in Nat /\ RulesOf[chain.epoch].approvers \in SUBSET Signers
    BY <1>2, Rules
  <1>4. CASE tasks[r].at = "mirroring"
    <2> DEFINE row == [tasks[r].row EXCEPT !.epoch = chain.epoch, !.threshold = RulesOf[chain.epoch].threshold]
               t == [tasks[r] EXCEPT !.at = "writingRules", !.row = row]
    <2>1. tasks' = [tasks EXCEPT ![r].at = "writingRules", ![r].row.epoch = chain.epoch,
                                 ![r].row.threshold = RulesOf[chain.epoch].threshold]
      BY <1>4 DEF ReadChain, At
    <2>2. tasks' = [tasks EXCEPT ![r] = t]
      BY <2>1
    <2>3. row \in RowType /\ row.epoch = chain.epoch
      BY <1>2, <1>3 DEF RowType
    <2> HIDE DEF row
    <2>4. t \in Task /\ t.at = "writingRules" /\ t.row = row /\ t.nonce = tasks[r].nonce /\ t.updates = tasks[r].updates
      BY <1>2, <2>3 DEF Task, RowType, Places
    <2> HIDE DEF t
    <2>5. TaskOK(t, chain, lapsed, DOMAIN rows)
      BY <1>2, <2>3, <2>4 DEF TaskOK
    <2>6. Follows(r, tasks[r], t)
      BY <2>4 DEF Follows, Late
    <2> QED
      BY <1>1, <2>2, <2>5, <2>6, OnlyTasksStep
  <1>5. CASE tasks[r].at # "mirroring"
    <2> DEFINE row == [tasks[r].row EXCEPT !.approvers = RulesOf[chain.epoch].approvers]
               t == [tasks[r] EXCEPT !.at = "writingSigners", !.nonce = chain.nonce, !.row = row]
    <2>1. tasks' = [tasks EXCEPT ![r].at = "writingSigners", ![r].nonce = chain.nonce,
                                 ![r].row.approvers = RulesOf[chain.epoch].approvers]
      BY <1>5 DEF ReadChain, At
    <2>2. tasks' = [tasks EXCEPT ![r] = t]
      BY <2>1
    <2>3. row \in RowType
      BY <1>2, <1>3 DEF RowType
    <2> HIDE DEF row
    <2>4. t \in Task /\ t.at = "writingSigners" /\ t.nonce = chain.nonce /\ t.updates = tasks[r].updates
      BY <1>2, <2>3 DEF Task, RowType, Places
    <2> HIDE DEF t
    <2>5. TaskOK(t, chain, lapsed, DOMAIN rows)
      BY <1>2, <2>4 DEF TaskOK
    <2>6. Follows(r, tasks[r], t)
      BY <2>4 DEF Follows, Late
    <2> QED
      BY <1>1, <2>2, <2>5, <2>6, OnlyTasksStep
  <1> QED
    BY <1>4, <1>5

\* What is written of the chain was true when it was read, so no lane is ahead of it.
LEMMA WriteStep ==
  ASSUME IInv, NEW r \in Requests \cup {Indexer},
         WriteRules(r) \/ WriteSigners(r) \/ (r = Indexer /\ WriteLane)
  PROVE  IInv'
  <1>1. OnlyAccount
    BY DEF WriteRules, WriteSigners, WriteLane
  <1>2. /\ tasks[r] \in Task /\ TaskOK(tasks[r], chain, lapsed, DOMAIN rows) /\ tasks[r].row \in RowType
        /\ tasks[r].nonce \in 0..chain.nonce /\ AccountOK(account, chain) /\ ChainOK(chain)
    <2>1. tasks[r].nonce \in Nat /\ tasks[r].nonce <= chain.nonce /\ chain.nonce \in Nat
      BY Held, ChainParts DEF Task
    <2> QED
      BY <2>1, Held DEF Task, RowType
  <1>3. AccountOK(account', chain)
    <2>1. CASE WriteRules(r)
      <3>1. tasks[r].row.epoch \in Epochs
        BY <1>2, <2>1 DEF WriteRules, At, TaskOK
      <3> QED
        BY <1>2, <2>1, <3>1 DEF WriteRules, AccountOK, RowType
    <2>2. CASE WriteSigners(r)
      BY <1>2, <2>2 DEF WriteSigners, AccountOK, RowType
    <2>3. CASE r = Indexer /\ WriteLane
      BY <1>2, <2>3 DEF WriteLane, AccountOK
    <2> QED
      BY <2>1, <2>2, <2>3
  <1>4. PICK place \in {"rulesWritten", "mirrored"} : tasks' = [tasks EXCEPT ![r] = [Unborn EXCEPT !.at = place]]
    BY DEF WriteRules, WriteSigners, WriteLane, Forgets
  <1> DEFINE t == [Unborn EXCEPT !.at = place]
  <1>5. place \in Free
    BY DEF Free
  <1>6. TaskOK(t, chain, lapsed, DOMAIN rows) /\ t.at = place
    BY <1>2, <1>5, FreshTask
  <1>7. tasks' = [tasks EXCEPT ![r] = t]
    BY <1>4
  <1> HIDE DEF t
  <1>8. Follows(r, tasks[r], t)
    BY <1>6 DEF Follows, Late
  <1> QED
    BY <1>1, <1>3, <1>6, <1>7, <1>8, OnlyAccountStep

\* The chain cannot be read back.
LEMMA MirrorFailsStep ==
  ASSUME IInv, NEW r \in Requests, MirrorFails(r)
  PROVE  IInv'
  <1>1. OnlyTasks /\ tasks' = [tasks EXCEPT ![r] = [Unborn EXCEPT !.at = "mirrored"]]
    BY DEF MirrorFails, Forgets
  <1> QED
    BY <1>1, FreshStep

\* The account row is loaded again.
LEMMA ReloadStep ==
  ASSUME IInv, NEW r \in Requests \cup {Indexer}, Reload(r)
  PROVE  IInv'
  <1> DEFINE t == [Unborn EXCEPT !.at = "written", !.row = Context]
  <1>1. tasks' = [tasks EXCEPT ![r] = t] /\ OnlyTasks
    BY DEF Reload
  <1>2. Context \in RowType /\ ChainOK(chain)
    BY Held, ContextIs
  <1>3. TaskOK(t, chain, lapsed, DOMAIN rows) /\ t.at = "written"
    BY <1>2, FreshTask DEF Free
  <1> HIDE DEF t
  <1>4. Follows(r, tasks[r], t)
    BY <1>3 DEF Follows, Late
  <1> QED
    BY <1>1, <1>3, <1>4, OnlyTasksStep

\* Steps that end a request.
LEMMA EndStep ==
  ASSUME IInv, NEW r \in Requests, ScheduleUnread(r) \/ Submitted(r)
  PROVE  IInv'
  <1>1. OnlyTasks /\ tasks' = [tasks EXCEPT ![r] = [Unborn EXCEPT !.at = "done"]]
    BY DEF ScheduleUnread, Submitted, Ends, Forgets
  <1> QED
    BY <1>1, FreshStep

\* Whatever a request does.
LEMMA RequestSteps ==
  ASSUME IInv, NEW r \in Requests, RequestStep(r)
  PROVE  IInv'
  <1>1. CASE Refresh(r) \/ Update(r) \/ Leave(r)
    BY <1>1, RefreshStep, UpdateStep, LeaveStep
  <1>2. CASE \E h \in DOMAIN rows :
               \/ \E signer \in Signers : LoadForConfirm(r, h, signer) \/ PrepareVeto(r, h, signer)
               \/ LoadForDelete(r, h) \/ LoadForExecute(r, h) \/ LoadForExecuteScheduled(r, h)
    BY <1>2, LoadForConfirmStep, PrepareVetoStep, LoadForDeleteStep, LoadForExecuteStep
  <1>3. CASE Confirm(r) \/ \E kind \in DOMAIN CallsOf : ReadLane(r, kind)
    BY <1>3, ConfirmStep, ReadLaneStep
  <1>4. CASE UpsertLane(r) \/ (\E seq \in 0..MaxSeq : Number(r, seq)) \/ Insert(r) \/ Delete(r)
    BY <1>4, UpsertLaneStep, NumberStep, InsertStep, DeleteStep
  <1>5. CASE Claim(r) \/ Send(r) \/ SendFails(r) \/ Refused(r)
    BY <1>5, ClaimStep, SendStep, SendFailsStep, RefusedStep
  <1>6. CASE SubmitOperation(r) \/ Submitted(r) \/ RecordOutcome(r) \/ ScheduleUnread(r)
    BY <1>6, SubmitOperationStep, EndStep, RecordOutcomeStep
  <1>7. CASE RecordScheduledRun(r) \/ Replace(r) \/ ReadChain(r) \/ WriteRules(r)
    BY <1>7, RecordScheduledRunStep, ReplaceStep, ReadChainStep, WriteStep
  <1>8. CASE WriteSigners(r) \/ MirrorFails(r) \/ Reload(r)
    BY <1>8, WriteStep, MirrorFailsStep, ReloadStep
  <1> QED
    BY <1>1, <1>2, <1>3, <1>4, <1>5, <1>6, <1>7, <1>8 DEF RequestStep

-----------------------------------------------------------------------------
(* The indexer's steps *)

\* The indexer goes where it reads no block, or stays where it reads.
LEMMA ReadingStays ==
  ASSUME IInv, UNCHANGED <<chain, reading>>, tasks'[Indexer].at = tasks[Indexer].at
  PROVE  ReadingOK'
  BY DEF IInv, ReadingOK

\* Steps of the indexer alone.
LEMMA IndexerAlone ==
  ASSUME IInv, UNCHANGED <<chain, lapsed, pending>>, NEW t, tasks' = [tasks EXCEPT ![Indexer] = t],
         TaskOK(t, chain, lapsed, DOMAIN rows), rows' = rows, AccountOK(account', chain), ReadingOK'
  PROVE  IInv'
  <1>1. /\ ChainOK(chain) /\ ChainOK(chain)' /\ Grows(chain, chain') /\ lapsed \subseteq lapsed'
        /\ DOMAIN rows \subseteq Hash /\ DOMAIN rows \subseteq DOMAIN rows' /\ TasksOK
        /\ TaskOK(t, chain', lapsed', DOMAIN rows')
    BY Held, GrowsItself DEF IInv, RowsOK
  <1>2. TasksOK'
    BY <1>1, OneTask
  <1>3. PendingOK'
    <2>1. \A q \in Requests : tasks'[q] = tasks[q]
      BY DEF IInv, TasksOK, Requests, Indexer
    <2> QED
      BY <2>1 DEF IInv, PendingOK
  <1> QED
    BY <1>1, <1>2, <1>3 DEF IInv

\* The cycle begins at the first block the cursor has not passed, with the head as it is.
LEMMA WakeStep ==
  ASSUME IInv, Wake
  PROVE  IInv'
  <1> DEFINE t == [tasks[Indexer] EXCEPT !.at = "reading"]
  <1>1. tasks' = [tasks EXCEPT ![Indexer] = t] /\ UNCHANGED <<chain, lapsed, pending, rows, account>>
        /\ reading' = [head |-> Len(chain.blocks), block |-> account.indexed + 1, event |-> 1, changed |-> FALSE]
    BY DEF Wake, Goes
  <1>2. "reading" \in Places /\ "reading" \in Free
    BY DEF Places, Free
  <1>3. TaskOK(t, chain, lapsed, DOMAIN rows) /\ t.at = "reading"
    BY <1>2, GoesTo
  <1> HIDE DEF t
  <1>4. AccountOK(account', chain)
    BY <1>1, Held
  <1>5. account.indexed \in Nat /\ Len(chain.blocks) \in Nat
    BY Held, ChainParts DEF AccountOK
  <1>6. ReadingOK'
    BY <1>1, <1>5 DEF ReadingOK
  <1> QED
    BY <1>1, <1>3, <1>4, <1>6, IndexerAlone

\* A cycle that is over has read nothing.
LEMMA UnreadOK ==
  ASSUME reading' = Unread, tasks'[Indexer].at # "reading"
  PROVE  ReadingOK'
  BY DEF ReadingOK, Unread

\* After the last chunk the cycle reads no more blocks.
LEMMA ReadBackStep ==
  ASSUME IInv, ReadBack
  PROVE  IInv'
  <1>1. UNCHANGED <<chain, lapsed, pending, rows, account>> /\ reading' = Unread
    BY DEF ReadBack
  <1>2. AccountOK(account', chain) /\ tasks \in [Requests \cup {Indexer} -> Task]
    BY <1>1, Held DEF IInv, TasksOK
  <1>3. CASE reading.changed
    <2> DEFINE t == [tasks[Indexer] EXCEPT !.at = "mirroring"]
    <2>1. tasks' = [tasks EXCEPT ![Indexer] = t]
      BY <1>3 DEF ReadBack
    <2>2. "mirroring" \in Places /\ "mirroring" \in Free
      BY DEF Places, Free
    <2>3. TaskOK(t, chain, lapsed, DOMAIN rows) /\ t.at = "mirroring"
      BY <2>2, GoesTo
    <2> HIDE DEF t
    <2>4. ReadingOK'
      BY <1>1, <1>2, <2>1, <2>3, UnreadOK
    <2> QED
      BY <1>1, <1>2, <2>1, <2>3, <2>4, IndexerAlone
  <1>4. CASE ~ reading.changed
    <2> DEFINE t == [tasks[Indexer] EXCEPT !.at = "relaning", !.nonce = chain.nonce]
    <2>1. tasks' = [tasks EXCEPT ![Indexer] = t]
      BY <1>4 DEF ReadBack
    <2>2. tasks[Indexer] \in Task /\ TaskOK(tasks[Indexer], chain, lapsed, DOMAIN rows) /\ ChainOK(chain)
          /\ chain.nonce \in Nat
      BY Held, ChainParts
    <2>3. t \in Task /\ t.at = "relaning" /\ t.nonce = chain.nonce /\ t.updates = tasks[Indexer].updates
      BY <2>2 DEF Task, Places
    <2> HIDE DEF t
    <2>4. TaskOK(t, chain, lapsed, DOMAIN rows)
      BY <2>2, <2>3, FreeTask DEF Free, TaskOK
    <2>5. ReadingOK'
      BY <1>1, <1>2, <2>1, <2>3, UnreadOK
    <2> QED
      BY <1>1, <1>2, <2>1, <2>4, <2>5, IndexerAlone
  <1> QED
    BY <1>3, <1>4

\* The indexer sleeps.
LEMMA SleepStep ==
  ASSUME IInv, Sleep
  PROVE  IInv'
  <1>1. OnlyTasks /\ tasks' = [tasks EXCEPT ![Indexer] = [Unborn EXCEPT !.at = "idle"]]
    BY DEF Sleep, Asleep
  <1> QED
    BY <1>1, FreshStep

\* The smaller of two numbers.
LEMMA MinOfTwo ==
  ASSUME NEW m \in Nat, NEW n \in Nat
  PROVE  Min({m, n}) \in {m, n} /\ Min({m, n}) <= m /\ Min({m, n}) <= n
  <1>1. \E x \in {m, n} : \A y \in {m, n} : x <= y
    OBVIOUS
  <1> QED
    BY <1>1 DEF Min

\* A chunk ends at the head at the latest.
LEMMA ChunkEnds ==
  ASSUME IInv
  PROVE  ChunkEnd \in Nat /\ ChunkEnd <= reading.head /\ reading.head \in Nat
  <1>1. account.indexed + ChunkBlocks \in Nat /\ reading.head \in Nat
    BY Held, ProposalsAssumption, ChainParts DEF IInv, ReadingOK, AccountOK, ProposalsAssumption
  <1> QED
    BY <1>1, MinOfTwo DEF ChunkEnd

\* Where the cycle stands there is an event, it is true, and so is the place after it.
LEMMA Standing ==
  ASSUME IInv, Applying
  PROVE  /\ ThisEvent \in TrueEvents(chain)
         /\ \A changed \in BOOLEAN :
              UNCHANGED <<chain, tasks>> /\ reading' = [NextEvent EXCEPT !.changed = changed] => ReadingOK'
  <1> DEFINE b == reading.block
             k == reading.event
             block == chain.blocks[b]
             T == TrueEvents(chain)
  <1>1. /\ reading \in [head : Nat, block : Nat, event : Nat, changed : BOOLEAN]
        /\ reading.head <= Len(chain.blocks) /\ b \in Nat /\ b >= 1 /\ k \in Nat /\ k >= 1
        /\ k = 1 \/ k <= Len(block)
    BY DEF IInv, ReadingOK, Applying, At
  <1>2. b <= Len(chain.blocks) /\ Len(chain.blocks) \in Nat
    <2>1. b <= ChunkEnd
      BY DEF Applying
    <2>2. Len(chain.blocks) \in Nat
      BY Held, ChainParts
    <2> QED
      BY <1>1, <2>1, <2>2, ChunkEnds
  <1>3. block \in Block(chain)
    <2> DEFINE B == Block(chain)
    <2>1. chain.blocks \in Seq(B)
      BY DEF IInv, ChainOK
    <2> HIDE DEF B
    <2>2. block \in B
      BY <1>1, <1>2, <2>1, ElementOfSeq
    <2> QED
      BY <2>2 DEF B
  <1>4. block \in Seq(T) /\ Len(block) \in Nat \ {0}
    BY <1>3, EmptySeq DEF Block
  <1>5. k \in 1..Len(block)
    BY <1>1, <1>4
  <1>6. block[k] \in T
    <2> HIDE DEF T, block, k
    <2> QED
      BY <1>4, <1>5, ElementOfSeq
  <1> DEFINE Kept == /\ reading' \in [head : Nat, block : Nat, event : Nat, changed : BOOLEAN]
                     /\ reading'.head <= Len(chain.blocks) /\ reading'.block >= 1 /\ reading'.event >= 1
                     /\ \/ reading'.event = 1
                        \/ reading'.block <= Len(chain.blocks) /\ reading'.event <= Len(chain.blocks[reading'.block])
  <1>7. Kept /\ chain' = chain => ReadingOK'
    BY DEF ReadingOK
  <1>8. ASSUME UNCHANGED <<chain, tasks>>, NEW changed \in BOOLEAN,
               reading' = [NextEvent EXCEPT !.changed = changed]
        PROVE  ReadingOK'
    <2>1. CASE k < Len(block)
      <3>1. NextEvent = [reading EXCEPT !.event = k + 1]
        BY <2>1 DEF NextEvent
      <3>2. reading' = [head |-> reading.head, block |-> b, event |-> k + 1, changed |-> changed]
        BY <1>1, <1>8, <3>1
      <3>3. k + 1 \in Nat /\ k + 1 <= Len(block) /\ k + 1 >= 1
        BY <1>1, <1>4, <2>1
      <3>4. /\ reading'.head = reading.head /\ reading'.block = b /\ reading'.event = k + 1
            /\ reading' \in [head : Nat, block : Nat, event : Nat, changed : BOOLEAN]
        BY <1>1, <3>2, <3>3
      <3>5. reading'.event <= Len(chain.blocks[reading'.block])
        BY <3>3, <3>4
      <3>6. Kept
        BY <1>1, <1>2, <3>3, <3>4, <3>5
      <3> QED
        BY <1>7, <1>8, <3>6
    <2>2. CASE ~ (k < Len(block))
      <3>1. NextEvent = [reading EXCEPT !.block = b + 1, !.event = 1]
        BY <2>2 DEF NextEvent
      <3>2. reading' = [head |-> reading.head, block |-> b + 1, event |-> 1, changed |-> changed]
        BY <1>1, <1>8, <3>1
      <3>3. b + 1 \in Nat /\ b + 1 >= 1
        BY <1>1
      <3>4. /\ reading'.head = reading.head /\ reading'.block = b + 1 /\ reading'.event = 1
            /\ reading' \in [head : Nat, block : Nat, event : Nat, changed : BOOLEAN]
        BY <1>1, <3>2, <3>3
      <3>6. Kept
        BY <1>1, <3>3, <3>4
      <3> QED
        BY <1>7, <1>8, <3>6
    <2> QED
      BY <2>1, <2>2
  <1> QED
    BY <1>6, <1>8 DEF ThisEvent

\* What an event makes of the rows is true of the chain.
LEMMA RowsAfterOK ==
  ASSUME RowsOK(rows, chain, lapsed), NEW e \in TrueEvents(chain)
  PROVE  RowsOK(RowsAfter(e), chain, lapsed) /\ DOMAIN RowsAfter(e) = DOMAIN rows
  <1> DEFINE known == e.hash \in DOMAIN rows /\ rows[e.hash].status # "deleted"
             To(status) == IF known THEN SetStatus(rows, e.hash, status) ELSE rows
             Good(table) == RowsOK(table, chain, lapsed) /\ DOMAIN table = DOMAIN rows
  <1>1. e \in Event /\ Holds(chain, e) /\ DOMAIN rows \subseteq Hash
    BY DEF TrueEvents, RowsOK
  <1>2. Good(rows)
    OBVIOUS
  <1>3. ASSUME NEW status \in Statuses, known => Claims(chain, lapsed, e.hash, status)
        PROVE  Good(To(status))
    <2>1. CASE known
      BY <1>3, <2>1, SetStatusOK
    <2>2. CASE ~ known
      BY <1>2, <2>2
    <2> QED
      BY <2>1, <2>2
  <1>4. known => e.hash # Foreign
    BY <1>1, Hashes
  <1>5. {"executed", "scheduled", "vetoed", "cancelled", "stale"} \subseteq Statuses
    BY DEF Statuses
  <1>6. CASE e.name = "Executed"
    <2>1. known => Claims(chain, lapsed, e.hash, "executed")
      BY <1>1, <1>4, <1>6 DEF Holds, Claims
    <2>2. \A h \in Hash : h.seq = e.arg => h.seq < chain.nonce \/ h.seq \in chain.ops
      BY <1>1, <1>6 DEF Holds
    <2>3. Good(To("executed"))
      BY <1>3, <1>5, <2>1
    <2>4. RowsAfter(e) = MarkReplaced(To("executed"), e.arg, e.hash)
      BY <1>6 DEF RowsAfter
    <2> HIDE DEF To
    <2> QED
      BY <2>2, <2>3, <2>4, MarkReplacedOK
  <1>7. CASE e.name = "Scheduled"
    <2>1. known => Claims(chain, lapsed, e.hash, "scheduled")
      BY <1>1, <1>4, <1>7 DEF Holds, Claims
    <2>2. \A h \in Hash : h.seq = e.arg => h.seq < chain.nonce \/ h.seq \in chain.ops
      BY <1>1, <1>7 DEF Holds
    <2>3. Good(To("scheduled"))
      BY <1>3, <1>5, <2>1
    <2>4. RowsAfter(e) = rows \/ RowsAfter(e) = MarkReplaced(rows, e.arg, e.hash)
          \/ RowsAfter(e) = MarkReplaced(To("scheduled"), e.arg, e.hash)
      BY <1>7 DEF RowsAfter
    <2> HIDE DEF To
    <2> QED
      BY <1>2, <2>2, <2>3, <2>4, MarkReplacedOK
  <1>8. CASE e.name = "ScheduledExecuted"
    <2>1. known => Claims(chain, lapsed, e.hash, "executed")
      BY <1>1, <1>8 DEF Holds, Claims
    <2>2. RowsAfter(e) = To("executed")
      BY <1>8 DEF RowsAfter
    <2> QED
      BY <1>3, <1>5, <2>1, <2>2
  <1>9. CASE e.name = "Cancelled"
    <2>1. Claims(chain, lapsed, e.hash, "vetoed") /\ Claims(chain, lapsed, e.hash, "cancelled")
      BY <1>1, <1>9 DEF Holds, Claims
    <2>2. RowsAfter(e) \in {rows, To("vetoed"), To("cancelled")}
      BY <1>9 DEF RowsAfter
    <2> QED
      BY <1>2, <1>3, <1>5, <2>1, <2>2
  <1>10. CASE e.name = "Approved"
    <2>1. {e.arg} \in SUBSET Signers
      BY <1>1, <1>10 DEF Holds
    <2>2. RowsAfter(e) = rows \/ RowsAfter(e) = [rows EXCEPT ![e.hash].confirmations = @ \cup {e.arg}]
      BY <1>10 DEF RowsAfter
    <2> DEFINE after == [rows EXCEPT ![e.hash].confirmations = @ \cup {e.arg}]
    <2>3. Good(after)
      BY <2>1, ConfirmedOK
    <2> QED
      BY <1>2, <2>2, <2>3
  <1>11. CASE e.name = "EpochAdvanced"
    <2> DEFINE some == {h \in DOMAIN rows : MadeStale(h, rows[h].status, e.arg)}
    <2>1. RowsAfter(e) = [h \in DOMAIN rows |-> IF h \in some THEN [rows[h] EXCEPT !.status = "stale"] ELSE rows[h]]
      BY <1>11 DEF RowsAfter
    <2>2. \A h \in DOMAIN rows : h \in some => Claims(chain, lapsed, h, "stale")
      BY DEF Claims
    <2> HIDE DEF some
    <2> QED
      BY <1>5, <2>1, <2>2, StatusesOK
  <1> QED
    BY <1>1, <1>6, <1>7, <1>8, <1>9, <1>10, <1>11 DEF Event

\* Steps that move no task.
LEMMA NoTaskStep ==
  ASSUME IInv, UNCHANGED <<pending, tasks>>, ChainOK(chain)', Grows(chain, chain'),
         lapsed \subseteq lapsed', lapsed' \subseteq Hash, DOMAIN rows \subseteq DOMAIN rows',
         RowsOK(rows, chain, lapsed)', AccountOK(account, chain)', ReadingOK'
  PROVE  IInv'
  <1>1. DOMAIN rows \subseteq Hash /\ ChainOK(chain) /\ TasksOK
    BY DEF IInv, RowsOK
  <1>2. TasksOK'
    BY <1>1, NoTask
  <1>3. PendingOK'
    BY DEF IInv, PendingOK
  <1> QED
    BY <1>2, <1>3 DEF IInv

\* One event is applied: the rows follow it, and the cycle goes on to the next.
LEMMA ApplyStep ==
  ASSUME IInv, Apply
  PROVE  IInv'
  <1> DEFINE e == ThisEvent
             changed == NextEvent.changed \/ e.name = "EpochAdvanced"
  <1>1. /\ Applying /\ UNCHANGED <<chain, lapsed, pending, tasks>> /\ rows' = RowsAfter(e)
        /\ account' = IF e.name = "EpochAdvanced" THEN [account EXCEPT !.epoch = e.arg] ELSE account
        /\ reading' = [NextEvent EXCEPT !.changed = changed]
    BY DEF Apply
  <1>2. e \in TrueEvents(chain)
    BY <1>1, Standing
  <1>3. changed \in BOOLEAN
    OBVIOUS
  <1> HIDE DEF changed, e
  <1>4. ReadingOK'
    BY <1>1, <1>3, Standing
  <1>5. RowsOK(rows', chain, lapsed) /\ DOMAIN rows' = DOMAIN rows
    BY <1>1, <1>2, RowsAfterOK DEF IInv
  <1>6. AccountOK(account', chain)
    <2>1. e.name = "EpochAdvanced" => e.arg \in Epochs
      BY <1>2 DEF TrueEvents, Holds
    <2>2. AccountOK(account, chain)
      BY DEF IInv
    <2> QED
      BY <1>1, <2>1, <2>2 DEF AccountOK
  <1>7. ChainOK(chain)' /\ Grows(chain, chain') /\ lapsed' \subseteq Hash
    BY <1>1, GrowsItself DEF IInv
  <1> QED
    BY <1>1, <1>4, <1>5, <1>6, <1>7, NoTaskStep

\* One event is skipped.
LEMMA SkipStep ==
  ASSUME IInv, Skip
  PROVE  IInv'
  <1>1. Applying /\ UNCHANGED <<chain, lapsed, pending, rows, account, tasks>>
    BY DEF Skip
  <1>2. PICK told \in BOOLEAN :
          reading' = [NextEvent EXCEPT !.changed = @ \/ (told /\ ThisEvent.name = "EpochAdvanced")]
    BY DEF Skip
  <1> DEFINE changed == NextEvent.changed \/ (told /\ ThisEvent.name = "EpochAdvanced")
  <1>3. changed \in BOOLEAN /\ reading' = [NextEvent EXCEPT !.changed = changed]
    BY <1>2
  <1> HIDE DEF changed
  <1>4. ReadingOK'
    BY <1>1, <1>3, Standing
  <1>5. /\ ChainOK(chain)' /\ Grows(chain, chain') /\ lapsed' \subseteq Hash
        /\ RowsOK(rows, chain, lapsed)' /\ AccountOK(account, chain)'
    BY <1>1, GrowsItself DEF IInv
  <1> QED
    BY <1>1, <1>4, <1>5, NoTaskStep

\* The cursor moves to the end of the chunk, which is not past the head.
LEMMA SaveCursorStep ==
  ASSUME IInv, SaveCursor
  PROVE  IInv'
  <1>1. /\ At(Indexer, "reading") /\ account' = [account EXCEPT !.indexed = ChunkEnd]
        /\ UNCHANGED <<chain, lapsed, pending, reading, rows, tasks>>
    BY DEF SaveCursor, others
  <1>2. ChunkEnd \in 0..Len(chain.blocks)
    <2>1. reading.head <= Len(chain.blocks) /\ Len(chain.blocks) \in Nat
      BY <1>1, Held, ChainParts DEF IInv, ReadingOK, At
    <2> QED
      BY <2>1, ChunkEnds
  <1>3. AccountOK(account, chain)'
    <2>1. AccountOK(account, chain)
      BY DEF IInv
    <2> HIDE DEF IInv
    <2> QED
      BY <1>1, <1>2, <2>1 DEF AccountOK
  <1>4. ReadingOK'
    BY <1>1, ReadingStays
  <1>5. /\ ChainOK(chain)' /\ Grows(chain, chain') /\ lapsed' \subseteq Hash /\ RowsOK(rows, chain, lapsed)'
    BY <1>1, GrowsItself DEF IInv
  <1> QED
    BY <1>1, <1>3, <1>4, <1>5, NoTaskStep

-----------------------------------------------------------------------------
(* Failures, and the chain's steps *)

\* What is written stays true when the chain grows.
LEMMA WrittenStays ==
  ASSUME IInv, ChainOK(chain)', Grows(chain, chain'), lapsed \subseteq lapsed', UNCHANGED <<rows, account>>
  PROVE  RowsOK(rows, chain, lapsed)' /\ AccountOK(account, chain)'
  <1>1. ChainOK(chain) /\ RowsOK(rows, chain, lapsed) /\ AccountOK(account, chain)
    BY DEF IInv
  <1>2. RowsOK(rows, chain, lapsed)'
    <2>1. \A h \in DOMAIN rows : Claims(chain', lapsed', h, rows[h].status)
      BY <1>1, ClaimsStay DEF RowsOK
    <2> QED
      BY <1>1, <2>1 DEF RowsOK
  <1>3. AccountOK(account, chain)'
    <2>1. /\ chain.nonce \in Nat /\ chain'.nonce \in Nat /\ chain.nonce <= chain'.nonce
          /\ Len(chain.blocks) \in Nat /\ Len(chain'.blocks) \in Nat /\ Len(chain.blocks) <= Len(chain'.blocks)
      BY <1>1, ChainParts DEF Grows
    <2>2. 0..chain.nonce \subseteq 0..chain'.nonce /\ 0..Len(chain.blocks) \subseteq 0..Len(chain'.blocks)
      BY <2>1
    <2> QED
      BY <1>1, <2>2 DEF AccountOK
  <1> QED
    BY <1>2, <1>3

\* So does what the indexer's cycle has read.
LEMMA ReadingGrows ==
  ASSUME IInv, ChainOK(chain)', Grows(chain, chain'), UNCHANGED reading,
         tasks'[Indexer].at = "reading" => tasks[Indexer].at = "reading"
  PROVE  ReadingOK'
  <1>1. /\ Len(chain.blocks) \in Nat /\ Len(chain'.blocks) \in Nat /\ Len(chain.blocks) <= Len(chain'.blocks)
        /\ \A n \in 1..Len(chain.blocks) : chain'.blocks[n] = chain.blocks[n]
    BY ChainParts DEF Grows, IInv
  <1>2. reading \in [head : Nat, block : Nat, event : Nat, changed : BOOLEAN]
    BY DEF IInv, ReadingOK
  <1>3. ASSUME tasks'[Indexer].at = "reading"
        PROVE  /\ reading.head <= Len(chain'.blocks) /\ reading.block >= 1 /\ reading.event >= 1
               /\ \/ reading.event = 1
                  \/ reading.block <= Len(chain'.blocks) /\ reading.event <= Len(chain'.blocks[reading.block])
    <2>1. /\ reading.head <= Len(chain.blocks) /\ reading.block >= 1 /\ reading.event >= 1
          /\ \/ reading.event = 1
             \/ reading.block <= Len(chain.blocks) /\ reading.event <= Len(chain.blocks[reading.block])
      BY <1>3 DEF IInv, ReadingOK
    <2>2. reading.head <= Len(chain'.blocks)
      BY <1>1, <1>2, <2>1
    <2>3. CASE reading.block <= Len(chain.blocks)
      <3>1. reading.block \in 1..Len(chain.blocks)
        BY <1>1, <1>2, <2>1, <2>3
      <3>2. chain'.blocks[reading.block] = chain.blocks[reading.block] /\ reading.block <= Len(chain'.blocks)
        BY <1>1, <1>2, <3>1
      <3> QED
        BY <2>1, <2>2, <3>2
    <2>4. CASE ~ (reading.block <= Len(chain.blocks))
      BY <2>1, <2>2, <2>4
    <2> QED
      BY <2>3, <2>4
  <1> QED
    BY <1>2, <1>3 DEF ReadingOK

\* Whatever others do on chain leaves what is written, read and held true.
LEMMA ElsewhereStep ==
  ASSUME IInv, Elsewhere
  PROVE  IInv'
  <1>1. UNCHANGED <<lapsed, pending, rows, account, tasks, reading>>
    BY DEF Elsewhere
  <1>2. ChainOK(chain)' /\ Grows(chain, chain')
    BY ElsewhereGrows DEF IInv, RowsOK
  <1>3. RowsOK(rows, chain, lapsed)' /\ AccountOK(account, chain)' /\ ReadingOK'
    BY <1>1, <1>2, WrittenStays, ReadingGrows
  <1>4. lapsed' \subseteq Hash
    BY <1>1 DEF IInv
  <1> QED
    BY <1>1, <1>2, <1>3, <1>4, NoTaskStep

\* So does time.
LEMMA LapseStep ==
  ASSUME IInv, NEW h \in DOMAIN Queue, Lapse(h)
  PROVE  IInv'
  <1>1. lapsed' = lapsed \cup {h} /\ UNCHANGED <<chain, pending, rows, account, tasks, reading>>
    BY DEF Lapse
  <1>2. ChainOK(chain)' /\ Grows(chain, chain')
    BY <1>1, GrowsItself DEF IInv
  <1>3. RowsOK(rows, chain, lapsed)' /\ AccountOK(account, chain)' /\ ReadingOK'
    BY <1>1, <1>2, WrittenStays, ReadingGrows
  <1>4. lapsed' \subseteq Hash
    BY <1>1, ProposalsAssumption DEF IInv, ProposalsAssumption
  <1> QED
    BY <1>1, <1>2, <1>3, <1>4, NoTaskStep

\* So does a step that changes nothing.
LEMMA IdleStep ==
  ASSUME IInv, UNCHANGED vars
  PROVE  IInv'
  <1>1. UNCHANGED <<chain, lapsed, pending, rows, account, tasks, reading>>
    BY DEF vars, others
  <1>2. ChainOK(chain)' /\ Grows(chain, chain')
    BY <1>1, GrowsItself DEF IInv
  <1>3. RowsOK(rows, chain, lapsed)' /\ AccountOK(account, chain)' /\ ReadingOK'
    BY <1>1, <1>2, WrittenStays, ReadingGrows
  <1>4. lapsed' \subseteq Hash
    BY <1>1 DEF IInv
  <1> QED
    BY <1>1, <1>2, <1>3, <1>4, NoTaskStep

\* The relayer's transaction is mined: whoever waits for it learns whether the chain took it,
\* and what it then may write is what the chain has done.
LEMMA MineStep ==
  ASSUME IInv, NEW t \in pending, Mine(t)
  PROVE  IInv'
  <1> DEFINE r == t.by
  <1>1. pending' = pending \ {t} /\ UNCHANGED <<lapsed, rows, account, reading>>
    BY DEF Mine
  <1>2. /\ t.op \in Sent /\ t.hash \in Hash /\ r \in Requests /\ tasks[r].at \in Late
        /\ tasks[r].at = "sent" => tasks[r].op = t.op /\ tasks[r].hash = t.hash
    BY DEF IInv, PendingOK
  <1>3. /\ ChainOK(chain)' /\ Grows(chain, chain')
        /\ Takes(t) => LandedAs(t.op, t.hash, chain')
    <2>1. CASE Takes(t)
      <3>1. chain' \in Becomes(t)
        BY <2>1 DEF Mine
      <3>2. ChainOK(chain)
        BY DEF IInv
      <3> QED
        BY <1>2, <2>1, <3>1, <3>2, TakenGrows
    <2>2. CASE ~ Takes(t)
      BY <2>2, GrowsItself DEF Mine, IInv
    <2> QED
      BY <2>1, <2>2
  <1>4. ChainOK(chain) /\ DOMAIN rows \subseteq Hash /\ TasksOK /\ tasks \in [Requests \cup {Indexer} -> Task]
    BY DEF IInv, RowsOK, TasksOK
  <1>5. CASE tasks[r].at # "sent"
    <2>1. UNCHANGED tasks
      BY <1>5 DEF Mine
    <2>2. TasksOK'
      BY <1>1, <1>3, <1>4, <2>1, NoTask
    <2>3. PendingOK'
      BY <1>1, <2>1 DEF IInv, PendingOK
    <2>4. RowsOK(rows, chain, lapsed)' /\ AccountOK(account, chain)' /\ ReadingOK'
      BY <1>1, <1>3, <2>1, WrittenStays, ReadingGrows
    <2> QED
      BY <1>1, <1>3, <2>2, <2>3, <2>4 DEF IInv
  <1>6. CASE tasks[r].at = "sent"
    <2> DEFINE place == IF Takes(t) THEN "landed" ELSE "refused"
               u == [tasks[r] EXCEPT !.at = place]
    <2>1. tasks' = [tasks EXCEPT ![r] = u]
      BY <1>6 DEF Mine
    <2>2. /\ tasks[r] \in Task /\ TaskOK(tasks[r], chain, lapsed, DOMAIN rows)
          /\ tasks[r].op = t.op /\ tasks[r].hash = t.hash
      BY <1>2, <1>6, Held
    <2>3. TaskOK(tasks[r], chain', lapsed', DOMAIN rows')
      BY <1>1, <1>3, <1>4, <2>2, TaskStays
    <2>4. place \in {"landed", "refused"} /\ (place = "landed" => Takes(t)) /\ place \in Places
      BY DEF Places
    <2> HIDE DEF place
    <2>5. /\ u \in Task /\ u.at = place /\ u.op = t.op /\ u.hash = t.hash
          /\ u.nonce = tasks[r].nonce /\ u.updates = tasks[r].updates
      BY <2>2, <2>4 DEF Task
    <2> HIDE DEF u
    <2>6. TaskOK(u, chain', lapsed', DOMAIN rows')
      BY <1>2, <1>3, <2>3, <2>4, <2>5 DEF TaskOK
    <2>7. TasksOK'
      BY <1>1, <1>2, <1>3, <1>4, <2>1, <2>6, OneTask
    <2>8. PendingOK'
      <3> SUFFICES ASSUME NEW w \in pending
                   PROVE  /\ tasks'[w.by].at \in Late
                          /\ tasks'[w.by].at = "sent" => tasks'[w.by].op = w.op /\ tasks'[w.by].hash = w.hash
        BY <1>1 DEF IInv, PendingOK
      <3>1. /\ w.by \in Requests /\ tasks[w.by].at \in Late
            /\ tasks[w.by].at = "sent" => tasks[w.by].op = w.op /\ tasks[w.by].hash = w.hash
        BY DEF IInv, PendingOK
      <3>2. CASE w.by = r
        <4>1. tasks'[w.by] = u
          BY <1>2, <1>4, <2>1, <3>2
        <4> QED
          BY <2>4, <2>5, <4>1 DEF Late
      <3>3. CASE w.by # r
        <4>1. tasks'[w.by] = tasks[w.by]
          BY <1>4, <2>1, <3>1, <3>3
        <4> QED
          BY <3>1, <4>1
      <3> QED
        BY <3>2, <3>3
    <2>9. RowsOK(rows, chain, lapsed)' /\ AccountOK(account, chain)' /\ ReadingOK'
      <3>1. tasks'[Indexer] = tasks[Indexer]
        BY <1>2, <1>4, <2>1 DEF Indexer, Requests
      <3> QED
        BY <1>1, <1>3, <3>1, WrittenStays, ReadingGrows
    <2> QED
      BY <1>1, <1>3, <2>7, <2>8, <2>9 DEF IInv
  <1> QED
    BY <1>5, <1>6

\* The cycle is over: the indexer sleeps again.
LEMMA AbortStep ==
  ASSUME IInv, Abort
  PROVE  IInv'
  <1> DEFINE t == [Unborn EXCEPT !.at = "idle"]
  <1>1. tasks' = [tasks EXCEPT ![Indexer] = t] /\ reading' = Unread
        /\ UNCHANGED <<chain, lapsed, pending, rows, account>>
    BY DEF Abort, Asleep
  <1>2. TaskOK(t, chain, lapsed, DOMAIN rows) /\ t.at = "idle"
    BY FreshTask, Held, ContextIs DEF Free
  <1>3. tasks \in [Requests \cup {Indexer} -> Task]
    BY DEF IInv, TasksOK
  <1> HIDE DEF t
  <1>4. ReadingOK'
    <2>1. tasks'[Indexer].at # "reading"
      BY <1>1, <1>2, <1>3
    <2> QED
      BY <1>1, <2>1, UnreadOK
  <1>5. AccountOK(account', chain)
    BY <1>1, Held
  <1> QED
    BY <1>1, <1>2, <1>4, <1>5, IndexerAlone

\* A crash: the requests that were made are over, and the indexer starts again.  What is
\* not mined was sent by one of them.
LEMMA CrashStep ==
  ASSUME IInv, Crash
  PROVE  IInv'
  <1> DEFINE idle == [Unborn EXCEPT !.at = "idle"]
             done == [Unborn EXCEPT !.at = "done"]
  <1>1. /\ reading' = Unread /\ UNCHANGED <<chain, lapsed, pending, rows, account>>
        /\ tasks' = [r \in DOMAIN tasks |-> IF r = Indexer THEN idle ELSE IF tasks[r].at = "unborn" THEN Unborn ELSE done]
    BY DEF Crash, Asleep, At
  <1>2. /\ tasks \in [Requests \cup {Indexer} -> Task] /\ ChainOK(chain)
        /\ RowsOK(rows, chain, lapsed) /\ AccountOK(account, chain) /\ lapsed \subseteq Hash
    BY DEF IInv, TasksOK
  <1>3. /\ TaskOK(idle, chain, lapsed, DOMAIN rows) /\ idle.at = "idle"
        /\ TaskOK(done, chain, lapsed, DOMAIN rows) /\ done.at = "done"
    BY <1>2, FreshTask, ContextIs DEF Free
  <1>4. TaskOK(Unborn, chain, lapsed, DOMAIN rows)
    <2>1. 0 <= chain.nonce
      BY <1>2, ChainParts
    <2> QED
      BY <1>2, <2>1, UnbornIs, UpdatesAre, FreeTask DEF Free
  <1> HIDE DEF idle, done
  <1>5. ASSUME NEW r \in Requests \cup {Indexer}
        PROVE  tasks'[r] \in {idle, done, Unborn} /\ TaskOK(tasks'[r], chain, lapsed, DOMAIN rows)
    BY <1>1, <1>2, <1>3, <1>4
  <1>6. TasksOK'
    <2>1. tasks' \in [Requests \cup {Indexer} -> Task]
      BY <1>1, <1>2, <1>5 DEF TaskOK
    <2> QED
      BY <1>1, <1>5, <2>1 DEF TasksOK
  <1>7. PendingOK'
    <2> SUFFICES ASSUME NEW u \in pending
                 PROVE  tasks'[u.by].at = "done"
      BY <1>1 DEF IInv, PendingOK, Late
    <2>1. u.by \in Requests /\ tasks[u.by].at # "unborn"
      BY DEF IInv, PendingOK, Late
    <2>2. u.by # Indexer /\ u.by \in DOMAIN tasks
      BY <1>2, <2>1 DEF Requests, Indexer
    <2> QED
      BY <1>1, <1>3, <2>1, <2>2
  <1>8. ReadingOK'
    <2>1. tasks'[Indexer] = idle
      BY <1>1, <1>2
    <2> QED
      BY <1>1, <1>3, <2>1, UnreadOK
  <1> QED
    BY <1>1, <1>2, <1>6, <1>7, <1>8 DEF IInv

-----------------------------------------------------------------------------
(* The theorems *)

\* The invariant holds to begin with: no queue says anything of the chain.
LEMMA IInvAtFirst ==
  Init => IInv
  <1> SUFFICES ASSUME Init
               PROVE  IInv
    OBVIOUS
  <1> USE DEF Init
  <1>1. /\ 1 \in Epochs /\ RulesOf[1].approvers \in SUBSET Signers /\ RulesOf[1].threshold \in Nat
        /\ 0 \in 0..(MaxSeq + 1)
    BY Rules, ProposalsAssumption DEF ProposalsAssumption
  <1>2. ChainOK(chain)
    <2>1. /\ IsChain(chain) /\ chain.nonce = 0 /\ chain.epoch = 1 /\ chain.ran = {} /\ chain.waiting = {}
          /\ chain.dead = {} /\ chain.ops = {} /\ chain.blocks = << >>
      BY DEF IsChain, Fields
    <2>2. chain.blocks \in Seq(Seq(Event)) /\ chain.blocks \in Seq(Block(chain))
      BY <2>1
    <2> QED
      BY <1>1, <2>1, <2>2 DEF ChainOK
  <1>3. RowsOK(rows, chain, lapsed)
    <2>1. /\ DOMAIN Queue \subseteq Hash
          /\ Queue \in [DOMAIN Queue -> [status : InPlay, confirmations : SUBSET Signers]]
      BY ProposalsAssumption DEF ProposalsAssumption
    <2>2. \A h \in DOMAIN Queue : /\ Queue[h] \in [status : Statuses, confirmations : SUBSET Signers]
                                  /\ Queue[h].status \in InPlay
      BY <2>1 DEF Statuses, Unsettled
    <2>3. \A h \in DOMAIN Queue : Claims(chain, lapsed, h, Queue[h].status)
      BY <2>2 DEF Claims, InPlay
    <2> QED
      BY <2>1, <2>2, <2>3 DEF RowsOK
  <1>4. AccountOK(account, chain)
    BY <1>1 DEF AccountOK
  <1>5. /\ TaskOK(Unborn, chain, lapsed, DOMAIN rows)
        /\ TaskOK(Asleep, chain, lapsed, DOMAIN rows) /\ Asleep.at = "idle"
    <2>1. 0 <= chain.nonce
      BY <1>2, ChainParts
    <2> QED
      BY <1>2, <2>1, UnbornIs, UpdatesAre, FreeTask, FreshTask, ContextIs DEF Free, Asleep
  <1>6. TasksOK
    BY <1>5 DEF TasksOK, TaskOK
  <1>7. ReadingOK
    BY <1>5 DEF ReadingOK, Unread
  <1> QED
    BY <1>2, <1>3, <1>4, <1>6, <1>7 DEF IInv, PendingOK

\* And every step keeps it.
LEMMA IInvStays ==
  IInv /\ [Next]_vars => IInv'
  <1> SUFFICES ASSUME IInv, [Next]_vars
               PROVE  IInv'
    OBVIOUS
  <1>1. CASE \E r \in Requests : Begin(r) \/ RequestStep(r) \/ Abandon(r)
    BY <1>1, BeginStep, RequestSteps, AbandonStep
  <1>2. CASE IndexerStep
    <2>1. Indexer \in Requests \cup {Indexer}
      OBVIOUS
    <2>2. CASE Wake \/ Apply \/ SaveCursor \/ ReadBack \/ Sleep
      BY <2>2, WakeStep, ApplyStep, SaveCursorStep, ReadBackStep, SleepStep
    <2>3. CASE WriteLane \/ ReadChain(Indexer) \/ WriteRules(Indexer) \/ WriteSigners(Indexer)
      BY <2>1, <2>3, WriteStep, ReadChainStep
    <2>4. CASE Reload(Indexer) \/ Refresh(Indexer) \/ Update(Indexer)
      BY <2>1, <2>4, ReloadStep, RefreshStep, UpdateStep
    <2> QED
      BY <1>2, <2>2, <2>3, <2>4 DEF IndexerStep
  <1>3. CASE \E t \in pending : Mine(t)
    BY <1>3, MineStep
  <1>4. CASE Elsewhere
    BY <1>4, ElsewhereStep
  <1>5. CASE \E h \in DOMAIN Queue : Lapse(h)
    BY <1>5, LapseStep
  <1>6. CASE Skip \/ Abort \/ Crash
    BY <1>6, SkipStep, AbortStep, CrashStep
  <1>7. CASE UNCHANGED vars
    BY <1>7, IdleStep
  <1> QED
    BY <1>1, <1>2, <1>3, <1>4, <1>5, <1>6, <1>7 DEF Next

\* The invariant holds in every state the service and the chain can reach: what a request or
\* the indexer (index_account) has read is still true when it is used.
THEOREM Invariant ==
  Spec => []IInv
  <1> QED
    BY IInvAtFirst, IInvStays, PTL DEF Spec

\* The rows, the account's row, the cursor and what requests hold keep their types: the
\* cursor never passes the last block (index_account), and no update is of a row that is not.
THEOREM ProposalsTyped ==
  Spec => []ProposalsTypeOK
  <1>1. IInv => ProposalsTypeOK
    <2> SUFFICES ASSUME IInv
                 PROVE  ProposalsTypeOK
      OBVIOUS
    <2>1. /\ chain.nonce \in 0..(MaxSeq + 1) /\ chain.epoch \in Epochs /\ chain.nonce \in Nat
          /\ chain.ran \cup chain.waiting \cup chain.dead \cup lapsed \subseteq Hash
          /\ chain.ops \subseteq Operations
      BY ChainParts DEF IInv
    <2>2. /\ DOMAIN rows \subseteq Hash
          /\ \A h \in DOMAIN rows : rows[h].status \in Statuses /\ rows[h].confirmations \subseteq Signers
      BY DEF IInv, RowsOK
    <2>3. account.epoch \in Epochs /\ account.lane \in 0..(MaxSeq + 1) /\ account.indexed \in 0..Len(chain.blocks)
      <3>1. 0..chain.nonce \subseteq 0..(MaxSeq + 1)
        BY <2>1, ProposalsAssumption DEF ProposalsAssumption
      <3> QED
        BY <3>1 DEF IInv, AccountOK
    <2>4. \A r \in DOMAIN tasks : DOMAIN tasks[r].updates \subseteq DOMAIN rows
      BY DEF IInv, TasksOK, TaskOK
    <2> QED
      BY <2>1, <2>2, <2>3, <2>4 DEF ProposalsTypeOK
  <1> QED
    BY <1>1, Invariant, PTL

\* Nothing in the service is authoritative over the chain: however requests, the indexer,
\* its crashes and its skipped logs interleave, no row ever claims what the chain has not
\* done (apply, execute, execute_scheduled, refresh_statuses, mark_replaced).
THEOREM NeverAhead ==
  Spec => []NeverAheadOfChain
  <1>1. IInv => NeverAheadOfChain
    <2> SUFFICES ASSUME IInv, NEW h \in DOMAIN rows
                 PROVE  CASE rows[h].status = "executed" -> h \in chain.ran
                          [] rows[h].status = "scheduled" -> h \in chain.waiting \cup chain.ran \cup chain.dead
                          [] rows[h].status \in {"vetoed", "cancelled"} -> h \in chain.dead
                          [] rows[h].status = "replaced" -> h.seq < chain.nonce \/ h.seq \in chain.ops
                          [] rows[h].status = "expired" -> h \in lapsed
                          [] OTHER -> TRUE
      BY DEF NeverAheadOfChain
    <2>1. Claims(chain, lapsed, h, rows[h].status)
      BY DEF IInv, RowsOK
    <2> QED
      BY <2>1 DEF Claims
  <1> QED
    BY <1>1, Invariant, PTL
=============================================================================
