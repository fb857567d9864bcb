------------------------- MODULE OlienPayrollProofs -------------------------
(***************************************************************************)
(* Proofs about OlienPayroll, for any number of cycles, requests, saves,   *)
(* days and faults, and any calendar its assumptions allow.                *)
(***************************************************************************)
EXTENDS OlienPayroll, WellFoundedInduction, TLAPS

-----------------------------------------------------------------------------
(* The calendar *)

\* A set of days has a first.
LEMMA FirstOf ==
  ASSUME NEW D \in SUBSET Nat, D # {}
  PROVE  \E x \in D : \A y \in D : x <= y
  <1>1. PICK x \in D : \A y \in D : ~(<<y, x>> \in OpToRel(<, Nat))
    BY WFMin, NatLessThanWellFounded
  <1>2. \A y \in D : <<y, x>> \in OpToRel(<, Nat) <=> y < x
    BY DEF OpToRel
  <1>3. \A y \in D : ~(y < x)
    BY <1>1, <1>2, Zenon
  <1> HIDE <1>1, <1>2
  <1>4. \A y \in D : y \in Nat
    OBVIOUS
  <1> QED
    BY <1>3, <1>4

\* The months' first days are numbers, in order.
LEMMA Months ==
  /\ Len(MonthStarts) \in Nat /\ Len(MonthStarts) >= 3
  /\ DOMAIN MonthStarts = 1..Len(MonthStarts)
  /\ \A i \in 1..Len(MonthStarts) : MonthStarts[i] \in Nat
  /\ \A i, j \in 1..Len(MonthStarts) : i < j => MonthStarts[i] < MonthStarts[j]
  /\ MonthStarts[1] = 0
  <1>1. MonthStarts \in Seq(Nat)
    BY PayrollAssumption DEF PayrollAssumption
  <1>2. Len(MonthStarts) \in Nat /\ DOMAIN MonthStarts = 1..Len(MonthStarts)
    BY <1>1
  <1>3. \A i \in 1..Len(MonthStarts) : MonthStarts[i] \in Nat
    BY <1>1
  <1> QED
    BY <1>2, <1>3, PayrollAssumption DEF PayrollAssumption

\* Every day is in a month.
LEMMA SomeMonth ==
  ASSUME NEW day \in 0..MaxDay
  PROVE  \E m \in 1..(Len(MonthStarts) - 1) : MonthStarts[m] <= day /\ day < MonthStarts[m + 1]
  <1> DEFINE n == Len(MonthStarts)
             D == {k \in 1..n : day < MonthStarts[k]}
  <1>1. n \in Nat /\ n >= 3 /\ \A i \in 1..n : MonthStarts[i] \in Nat
    BY Months
  <1>2. n - 1 \in D
    <2>1. n - 1 \in 1..n
      BY <1>1
    <2>2. MonthStarts[n - 1] \in Nat /\ MaxDay \in Nat /\ MaxDay < MonthStarts[n - 1]
      BY <1>1, <2>1, PayrollAssumption, CalendarAssumption DEF PayrollAssumption, CalendarAssumption
    <2> QED
      BY <2>1, <2>2
  <1>3. D \in SUBSET Nat /\ D # {}
    BY <1>1, <1>2
  <1>4. PICK k \in D : \A y \in D : k <= y
    <2> HIDE DEF D
    <2> QED
      BY <1>3, FirstOf
  <1>5. k \in 1..n /\ day < MonthStarts[k]
    BY <1>4
  <1>6. k # 1
    BY <1>5, Months
  <1>7. k - 1 \in 1..(n - 1) /\ k - 1 \in 1..n
    BY <1>1, <1>5, <1>6
  <1>8. ~(day < MonthStarts[k - 1])
    <2>1. k - 1 \notin D
      BY <1>1, <1>4, <1>5
    <2> QED
      BY <2>1, <1>7
  <1>9. MonthStarts[k - 1] <= day
    BY <1>8, <1>7, <1>1
  <1>10. (k - 1) + 1 = k
    BY <1>1, <1>5
  <1> QED
    BY <1>5, <1>7, <1>9, <1>10

\* A day is in the month MonthOf says, and two more months follow that one's first day.
LEMMA MonthOfDay ==
  ASSUME NEW day \in 0..MaxDay
  PROVE  /\ MonthOf(day) \in 1..(Len(MonthStarts) - 2)
         /\ MonthStarts[MonthOf(day)] <= day
         /\ day < MonthStarts[MonthOf(day) + 1]
  <1> DEFINE n == Len(MonthStarts)
             m == MonthOf(day)
  <1>1. m \in 1..(n - 1) /\ MonthStarts[m] <= day /\ day < MonthStarts[m + 1]
    BY SomeMonth DEF MonthOf
  <1>2. n \in Nat /\ n >= 3 /\ \A i \in 1..n : MonthStarts[i] \in Nat
    BY Months
  <1>3. m # n - 1
    <2>1. MaxDay \in Nat /\ MaxDay < MonthStarts[n - 1]
      BY PayrollAssumption, CalendarAssumption DEF PayrollAssumption, CalendarAssumption
    <2>2. MonthStarts[n - 1] \in Nat
      BY <1>2
    <2> QED
      BY <1>1, <2>1, <2>2
  <1> HIDE DEF m
  <1>4. m \in 1..(n - 2)
    BY <1>1, <1>2, <1>3
  <1> QED
    BY <1>1, <1>4 DEF m

\* The next date is a later one.
LEMMA NextAfterLater ==
  ASSUME NEW day \in 0..MaxDay, NEW period \in {"weekly", "fortnightly", "monthly"}
  PROVE  NextAfter(period, day) \in Nat /\ NextAfter(period, day) > day
  <1>1. Week \in Nat \ {0}
    BY PayrollAssumption DEF PayrollAssumption
  <1>2. CASE period = "weekly"
    BY <1>1, <1>2 DEF NextAfter
  <1>3. CASE period = "fortnightly"
    BY <1>1, <1>3 DEF NextAfter
  <1>4. CASE period = "monthly"
    <2> DEFINE n == Len(MonthStarts)
               m == MonthOf(day)
               s(i) == MonthStarts[i]
    <2>1. NextAfter(period, day) = s(m + 1) + Clamped(DayOf(day), m + 1)
      BY <1>4 DEF NextAfter, MonthAfter
    <2>2. m \in 1..(n - 2) /\ s(m) <= day /\ day < s(m + 1)
      BY MonthOfDay
    <2>3. n \in Nat /\ n >= 3
      BY Months
    <2> HIDE DEF m
    <2>4. m \in 1..n /\ m + 1 \in 1..n /\ m + 2 \in 1..n /\ (m + 1) + 1 = m + 2 /\ m + 1 < m + 2
      BY <2>2, <2>3
    <2>5. s(m) \in Nat /\ s(m + 1) \in Nat /\ s(m + 2) \in Nat /\ s(m + 1) < s(m + 2)
      BY <2>4, Months
    <2>6. DayOf(day) = day - s(m)
      BY DEF DayOf, m
    <2>7. LengthOf(m + 1) = s(m + 2) - s(m + 1)
      BY <2>4 DEF LengthOf
    <2>8. Clamped(DayOf(day), m + 1) \in Nat
      <3> HIDE DEF s
      <3> QED
        BY <2>2, <2>5, <2>6, <2>7 DEF Clamped
    <2> HIDE DEF s
    <2> QED
      BY <2>1, <2>2, <2>5, <2>8
  <1> QED
    BY <1>2, <1>3, <1>4

-----------------------------------------------------------------------------
(* The inductive invariant *)

Known == {[save |-> a.save, due |-> a.due] : a \in claims}

\* What a cycle read and computed is a date that has come, and the one after it.
Reading(t) ==
  /\ t.at = "skip" => /\ t.due \in Nat /\ t.next \in Nat /\ t.due <= t.next /\ t.next <= now
                      /\ t.period \in {"weekly", "fortnightly", "monthly"}
  /\ t.at = "claim" => /\ t.due \in Nat /\ t.day \in Nat /\ t.next \in Nat
                       /\ t.due <= t.day /\ t.day < t.next

ByHand == \A q \in Requests : task[q].at \in {"idle", "record"}

\* A claim is of a save that was made and a date that had come, and moves the template
\* past the day it was decided.
Moved ==
  \A a \in claims :
    /\ a.save <= saves /\ a.due <= a.day
    /\ run.exists /\ run.save = a.save => run.next > a.day

\* What is known of the claim a cycle still holds.
Held(c) ==
  /\ Holds(c) => ClaimOf(c) \in Known
  /\ task[c].at = "open" => ClaimOf(c) \notin opened /\ ClaimOf(c) \notin reported
  /\ task[c].at = "record" => ClaimOf(c) \in opened /\ ClaimOf(c) \notin reported
  /\ task[c].at = "report" /\ ClaimOf(c) \notin troubled =>
       ClaimOf(c) \notin opened /\ ClaimOf(c) \notin reported

\* No two cycles hold one claim.
HeldApart == \A c, d \in Cycles : Holds(c) /\ Holds(d) /\ c # d => ClaimOf(c) # ClaimOf(d)

Settled ==
  \A k \in Known :
    run.exists /\ run.save = k.save /\ k \notin troubled /\ ~Working(k) => (k \in opened) # (k \in reported)

IInv ==
  /\ PayrollTypeOK /\ now \in 0..MaxDay
  /\ \A c \in Cycles : Reading(task[c])
  /\ ByHand
  /\ Moved /\ OneForMissed
  /\ opened \subseteq Known /\ reported \subseteq Known
  /\ \A c \in Cycles : Held(c)
  /\ HeldApart
  /\ Settled

-----------------------------------------------------------------------------
(* Types *)

TemplateType ==
  [exists : BOOLEAN, save : Nat, period : {"none", "weekly", "fortnightly", "monthly"},
   next : Dates, error : Dates]

LEMMA Bounds ==
  /\ MaxDay \in Nat /\ MaxSaves \in Nat /\ Faults \in Nat
  /\ FirstDates \subseteq Nat
  /\ Periods \subseteq {"none", "weekly", "fortnightly", "monthly"}
  /\ \A c \in Cycles : c \in Tasks /\ c \notin Requests
  /\ \A q \in Requests : q \in Tasks /\ q \notin Cycles
  BY PayrollAssumption DEF PayrollAssumption, Tasks

LEMMA IdleType == Idle \in TaskType
  BY DEF Idle, TaskType, Dates, NoDate

\* What the type invariant says of the template and of the tasks.
LEMMA TypesOf ==
  ASSUME IInv
  PROVE  /\ now \in Nat /\ saves \in Nat /\ faults \in Nat /\ now \in 0..MaxDay
         /\ run \in TemplateType /\ run.save <= saves
         /\ (run.period = "none") <=> (run.next = NoDate)
         /\ task \in [Tasks -> TaskType]
         /\ claims \subseteq [save : Nat, due : Nat, day : Nat]
         /\ opened \subseteq Claimed /\ reported \subseteq Claimed /\ troubled \subseteq Claimed
  BY DEF IInv, PayrollTypeOK, TemplateType

LEMMA SaveTypes ==
  ASSUME IInv, NEW period \in Periods, NEW date \in FirstDates \cup {NoDate}, Save(period, date)
  PROVE  PayrollTypeOK' /\ now' \in 0..MaxDay
  <1> USE TypesOf, Bounds
  <1>1. date \in Dates /\ NoDate \in Dates
    BY DEF Dates, NoDate
  <1>2. run' = Saved(period, date) /\ saves' = saves + 1 /\ MaySave(period, date)
    BY DEF Save
  <1>3. (period = "none") <=> (date = NoDate)
    <2>1. NoDate \notin FirstDates
      BY DEF NoDate
    <2> QED
      BY <1>2, <2>1 DEF MaySave
  <1>4. run' \in TemplateType
    BY <1>1, <1>2 DEF Saved, TemplateType
  <1>5. run'.period = period /\ run'.next = date /\ run'.save = saves + 1
    BY <1>2 DEF Saved
  <1>6. (run'.period = "none") <=> (run'.next = NoDate)
    BY <1>3, <1>5
  <1>7. run'.save <= saves' /\ saves' \in Nat
    BY <1>2, <1>5
  <1>8. UNCHANGED <<now, task, history, faults>>
    BY DEF Save
  <1> QED
    BY <1>4, <1>6, <1>7, <1>8 DEF PayrollTypeOK, TemplateType, history

LEMMA DeleteTypes ==
  ASSUME IInv, Delete
  PROVE  PayrollTypeOK' /\ now' \in 0..MaxDay
  <1> USE TypesOf
  <1>1. NoRun \in TemplateType /\ NoRun.period = "none" /\ NoRun.next = NoDate /\ NoRun.save = 0
    BY DEF NoRun, TemplateType, Dates, NoDate
  <1>2. run' = NoRun /\ UNCHANGED <<now, saves, task, history, faults>>
    BY DEF Delete
  <1>3. run' \in TemplateType /\ run'.save <= saves'
    BY <1>1, <1>2
  <1>4. (run'.period = "none") <=> (run'.next = NoDate)
    BY <1>1, <1>2
  <1> QED
    BY <1>2, <1>3, <1>4 DEF PayrollTypeOK, TemplateType, history

\* A step that leaves the template, the saves and the history, and moves one task.
LEMMA TaskTypes ==
  ASSUME IInv, NEW t \in Tasks, NEW x \in TaskType, task' = [task EXCEPT ![t] = x],
         UNCHANGED <<now, run, saves>>, faults' \in Nat,
         claims' \subseteq [save : Nat, due : Nat, day : Nat],
         opened' \subseteq Claimed, reported' \subseteq Claimed, troubled' \subseteq Claimed
  PROVE  PayrollTypeOK' /\ now' \in 0..MaxDay
  <1>1. task' \in [Tasks -> TaskType]
    BY TypesOf
  <1> QED
    BY <1>1, TypesOf DEF PayrollTypeOK, TemplateType

\* A step that also changes the template's date or its error.
LEMMA TemplateTypes ==
  ASSUME IInv, NEW t \in Tasks, NEW x \in TaskType, task' = [task EXCEPT ![t] = x],
         UNCHANGED <<now, saves>>, faults' \in Nat,
         run' \in TemplateType, run'.save = run.save,
         (run'.period = "none") <=> (run'.next = NoDate),
         claims' \subseteq [save : Nat, due : Nat, day : Nat],
         opened' \subseteq Claimed, reported' \subseteq Claimed, troubled' \subseteq Claimed
  PROVE  PayrollTypeOK' /\ now' \in 0..MaxDay
  <1>1. task' \in [Tasks -> TaskType]
    BY TypesOf
  <1>2. run'.save <= saves'
    BY TypesOf
  <1> QED
    BY <1>1, <1>2, TypesOf DEF PayrollTypeOK, TemplateType

LEMMA ClaimOfType ==
  ASSUME IInv, NEW c \in Cycles, Held(c), Holds(c)
  PROVE  ClaimOf(c) \in Claimed
  <1>1. ClaimOf(c) \in Known
    BY DEF Held
  <1>2. Known \subseteq Claimed
    BY TypesOf DEF Known, Claimed
  <1> QED
    BY <1>1, <1>2

-----------------------------------------------------------------------------
(* What a step that leaves something alone preserves *)

Dated == Moved /\ OneForMissed

Claims ==
  /\ opened \subseteq Known /\ reported \subseteq Known
  /\ \A c \in Cycles : Held(c)
  /\ HeldApart

SameTemplate == run'.exists = run.exists /\ run'.save = run.save /\ run'.next = run.next

LEMMA DatedFrame ==
  ASSUME Dated, UNCHANGED <<claims, saves>>, SameTemplate
  PROVE  Dated'
  BY DEF Dated, Moved, OneForMissed, SameTemplate

\* A task that holds a claim keeps it, where it stands; the others hold none before or after.
Undisturbed(c) == task'[c] = task[c] \/ (~Holds(c) /\ ~Holds(c)')

LEMMA ClaimsFrame ==
  ASSUME Claims, UNCHANGED <<claims, opened, reported, troubled>>, \A c \in Cycles : Undisturbed(c)
  PROVE  Claims' /\ Known' = Known /\ \A k \in Known : Working(k)' <=> Working(k)
  <1>1. Known' = Known
    BY DEF Known
  <1>2. ASSUME NEW c \in Cycles
        PROVE  /\ Holds(c)' <=> Holds(c)
               /\ Holds(c) => ClaimOf(c)' = ClaimOf(c) /\ task'[c] = task[c]
    <2>1. CASE task'[c] = task[c]
      BY <2>1 DEF Holds, ClaimOf
    <2>2. CASE ~Holds(c) /\ ~Holds(c)'
      BY <2>2
    <2> QED
      BY <2>1, <2>2 DEF Undisturbed
  <1>3. ASSUME NEW c \in Cycles
        PROVE  Held(c)'
    <2>1. CASE Holds(c)
      <3>1. Held(c) /\ task'[c] = task[c] /\ ClaimOf(c)' = ClaimOf(c)
        BY <1>2, <2>1 DEF Claims
      <3> QED
        BY <1>1, <2>1, <3>1 DEF Held
    <2>2. CASE ~Holds(c)
      <3>1. ~Holds(c)'
        BY <1>2, <2>2
      <3>2. task'[c].at \notin {"open", "record", "report"}
        BY <3>1 DEF Holds
      <3> QED
        BY <3>1, <3>2 DEF Held
    <2> QED
      BY <2>1, <2>2
  <1>4. HeldApart'
    BY <1>2 DEF HeldApart, Claims
  <1>5. \A k \in Known : Working(k)' <=> Working(k)
    BY <1>2 DEF Working
  <1> QED
    BY <1>1, <1>3, <1>4, <1>5 DEF Claims

LEMMA SettledFrame ==
  ASSUME Settled, Known' = Known, UNCHANGED <<opened, reported, troubled>>,
         run'.exists = run.exists, run'.save = run.save,
         \A k \in Known : Working(k)' <=> Working(k)
  PROVE  Settled'
  BY DEF Settled

LEMMA ReadingFrame ==
  ASSUME NEW c \in Cycles, Reading(task[c]), task'[c] = task[c], now' = now
  PROVE  Reading(task[c])'
  BY DEF Reading

\* The invariant, as the groups the steps disturb apart.
LEMMA Groups ==
  IInv <=> /\ PayrollTypeOK /\ now \in 0..MaxDay
           /\ \A c \in Cycles : Reading(task[c])
           /\ ByHand /\ Dated /\ Claims /\ Settled
  BY DEF IInv, Dated, Claims

LEMMA GroupsAfter ==
  ASSUME PayrollTypeOK', now' \in 0..MaxDay,
         \A c \in Cycles : Reading(task[c])',
         ByHand', Dated', Claims', Settled'
  PROVE  IInv'
  BY DEF IInv, Dated, Claims

\* A step of one task that holds no claim before or after, and leaves the template's schedule.
LEMMA QuietStep ==
  ASSUME IInv, NEW t \in Tasks, NEW x \in TaskType, task' = [task EXCEPT ![t] = x],
         PayrollTypeOK', UNCHANGED <<now, saves, claims, opened, reported, troubled>>, SameTemplate,
         t \in Cycles => task[t].at \notin {"open", "record", "report"}
                         /\ x.at \notin {"open", "record", "report"} /\ Reading(x),
         t \in Requests => x.at \in {"idle", "record"}
  PROVE  IInv'
  <1> USE Bounds
  <1>1. task \in [Tasks -> TaskType] /\ now \in 0..MaxDay
    BY TypesOf
  <1>2. task'[t] = x /\ \A u \in Tasks : u # t => task'[u] = task[u]
    BY <1>1
  <1>3. ASSUME NEW c \in Cycles
        PROVE  Undisturbed(c)
    <2>1. CASE c = t
      <3>1. ~Holds(c)
        BY <2>1 DEF Holds
      <3>2. ~Holds(c)'
        BY <1>2, <2>1 DEF Holds
      <3> QED
        BY <3>1, <3>2 DEF Undisturbed
    <2>2. CASE c # t
      <3>1. c \in Tasks
        OBVIOUS
      <3>2. task'[c] = task[c]
        BY <1>2, <2>2, <3>1
      <3> QED
        BY <3>2, Zenon DEF Undisturbed
    <2> QED
      BY <2>1, <2>2
  <1>4. Claims' /\ Known' = Known /\ \A k \in Known : Working(k)' <=> Working(k)
    BY <1>3, ClaimsFrame, Groups
  <1>5. Dated'
    BY DatedFrame, Groups
  <1>6. Settled'
    BY <1>4, SettledFrame, Groups DEF SameTemplate
  <1>7. ByHand'
    <2> SUFFICES ASSUME NEW q \in Requests
                 PROVE  task'[q].at \in {"idle", "record"}
      BY DEF ByHand
    <2>1. task[q].at \in {"idle", "record"}
      BY Groups DEF ByHand
    <2> QED
      BY <1>2, <2>1
  <1>8. ASSUME NEW c \in Cycles
        PROVE  Reading(task[c])'
    <2>1. CASE c = t
      <3>1. Reading(x)
        BY <2>1
      <3>2. Reading(x)'
        BY <3>1 DEF Reading
      <3> QED
        BY <1>2, <2>1, <3>2
    <2>2. CASE c # t
      BY <1>2, <2>2, ReadingFrame, Groups
    <2> QED
      BY <2>1, <2>2
  <1> QED
    BY <1>1, <1>4, <1>5, <1>6, <1>7, <1>8, GroupsAfter

-----------------------------------------------------------------------------
(* Each step preserves it *)

LEMMA InitStep == Init => IInv
  <1> SUFFICES ASSUME Init
               PROVE  IInv
    OBVIOUS
  <1> USE Bounds
  <1>1. claims = {} /\ opened = {} /\ reported = {} /\ troubled = {} /\ faults = 0 /\ now = 0
        /\ saves = 0 /\ run = NoRun
    BY DEF Init
  <1>2. \A t \in Tasks : task[t] = Idle
    BY DEF Init
  <1>3. PayrollTypeOK /\ now \in 0..MaxDay
    <2>1. NoRun \in TemplateType /\ NoRun.period = "none" /\ NoRun.next = NoDate /\ NoRun.save = 0
      BY DEF NoRun, TemplateType, Dates, NoDate
    <2>2. task \in [Tasks -> TaskType]
      BY IdleType DEF Init
    <2> QED
      BY <1>1, <2>1, <2>2 DEF PayrollTypeOK, TemplateType
  <1>4. Idle.at = "idle"
    BY DEF Idle
  <1>5. \A c \in Cycles : Reading(task[c])
    BY <1>2, <1>4 DEF Reading
  <1>6. ByHand
    BY <1>2, <1>4 DEF ByHand
  <1>7. Known = {}
    BY <1>1 DEF Known
  <1>8. \A c \in Cycles : ~Holds(c)
    BY <1>2, <1>4 DEF Holds
  <1>9. \A c \in Cycles : Held(c)
    BY <1>2, <1>4, <1>8 DEF Held
  <1>10. HeldApart /\ Settled /\ Moved /\ OneForMissed
    BY <1>1, <1>7, <1>8 DEF HeldApart, Settled, Moved, OneForMissed
  <1> QED
    BY <1>1, <1>3, <1>5, <1>6, <1>7, <1>9, <1>10 DEF IInv

\* The tasks and the history stay: what remains is the template's.
LEMMA TemplateStep ==
  ASSUME IInv, PayrollTypeOK', now' \in 0..MaxDay, now' >= now,
         UNCHANGED <<task, claims, opened, reported, troubled>>,
         Dated', Settled'
  PROVE  IInv'
  <1>1. ASSUME NEW c \in Cycles
        PROVE  Reading(task[c])'
    <2>1. Reading(task[c]) /\ task'[c] = task[c] /\ now \in Nat /\ now' \in Nat
      BY TypesOf, Groups, Bounds
    <2> QED
      BY <2>1 DEF Reading
  <1>2. ByHand'
    BY Groups DEF ByHand
  <1>3. \A c \in Cycles : Undisturbed(c)
    BY DEF Undisturbed
  <1>4. Claims'
    BY <1>3, ClaimsFrame, Groups
  <1> QED
    BY <1>1, <1>2, <1>4, GroupsAfter

LEMMA SaveStep ==
  ASSUME IInv, NEW period \in Periods, NEW date \in FirstDates \cup {NoDate}, Save(period, date)
  PROVE  IInv'
  <1>1. UNCHANGED <<now, task, claims, opened, reported, troubled>> /\ saves' = saves + 1
        /\ run' = Saved(period, date)
    BY DEF Save, history
  <1>2. run'.save = saves + 1
    BY <1>1 DEF Saved
  <1>3. claims \subseteq [save : Nat, due : Nat, day : Nat] /\ saves \in Nat /\ now \in Nat
    BY TypesOf
  <1>4. \A a \in claims : a.save \in Nat /\ a.save <= saves /\ a.save # run'.save
    <2> TAKE a \in claims
    <2>1. a.save <= saves /\ a.save \in Nat
      BY <1>3, Groups DEF Dated, Moved
    <2> QED
      BY <1>2, <1>3, <2>1
  <1>5. Moved'
    <2> SUFFICES ASSUME NEW a \in claims
                 PROVE  /\ a.save <= saves' /\ a.due <= a.day
                        /\ run'.exists /\ run'.save = a.save => run'.next > a.day
      BY <1>1 DEF Moved
    <2>1. a.save <= saves /\ a.due <= a.day
      BY Groups DEF Dated, Moved
    <2> QED
      BY <1>1, <1>3, <1>4, <2>1
  <1>6. OneForMissed'
    BY <1>1, Groups DEF Dated, OneForMissed
  <1>7. Settled'
    <2>1. \A k \in Known' : k.save # run'.save
      BY <1>1, <1>4 DEF Known
    <2> QED
      BY <2>1 DEF Settled
  <1>8. PayrollTypeOK' /\ now' \in 0..MaxDay
    BY SaveTypes
  <1> QED
    BY <1>1, <1>3, <1>5, <1>6, <1>7, <1>8, TemplateStep DEF Dated

LEMMA DeleteStep ==
  ASSUME IInv, Delete
  PROVE  IInv'
  <1>1. UNCHANGED <<now, saves, task, claims, opened, reported, troubled>> /\ run' = NoRun
    BY DEF Delete, history
  <1>2. run'.exists = FALSE
    BY <1>1 DEF NoRun
  <1>3. Moved'
    BY <1>1, <1>2, Groups DEF Dated, Moved
  <1>4. OneForMissed'
    BY <1>1, Groups DEF Dated, OneForMissed
  <1>5. Settled'
    BY <1>2 DEF Settled
  <1>6. PayrollTypeOK' /\ now' \in 0..MaxDay
    BY DeleteTypes
  <1>7. now' >= now
    BY <1>1, TypesOf
  <1> QED
    BY <1>1, <1>3, <1>4, <1>5, <1>6, <1>7, TemplateStep DEF Dated

LEMMA TickStep ==
  ASSUME IInv, Tick
  PROVE  IInv'
  <1>1. UNCHANGED <<run, saves, task, claims, opened, reported, troubled, faults>>
        /\ now < MaxDay /\ now' = now + 1
    BY DEF Tick, history
  <1>2. now' \in 0..MaxDay /\ now' >= now
    BY <1>1, TypesOf, Bounds
  <1>3. PayrollTypeOK'
    BY <1>1, <1>2, TypesOf DEF PayrollTypeOK, TemplateType
  <1>4. Dated'
    BY <1>1, DatedFrame, Groups DEF SameTemplate
  <1>5. Settled'
    <2>1. \A c \in Cycles : Undisturbed(c)
      BY <1>1 DEF Undisturbed
    <2>2. Known' = Known /\ \A k \in Known : Working(k)' <=> Working(k)
      BY <1>1, <2>1, ClaimsFrame, Groups
    <2> QED
      BY <1>1, <2>2, SettledFrame, Groups
  <1> QED
    BY <1>1, <1>2, <1>3, <1>4, <1>5, TemplateStep

LEMMA StartCycleStep ==
  ASSUME IInv, NEW c \in Cycles, StartCycle(c)
  PROVE  IInv'
  <1> USE Bounds
  <1> DEFINE x == [Idle EXCEPT !.at = "skip", !.due = run.next, !.period = run.period, !.next = run.next]
  <1>1. task' = [task EXCEPT ![c] = x] /\ task[c].at = "idle" /\ IsDue
        /\ UNCHANGED <<now, run, saves, claims, opened, reported, troubled, faults>>
    BY DEF StartCycle, history
  <1>2. run.next \in Nat /\ run.next <= now /\ run.period \in {"weekly", "fortnightly", "monthly"}
    <2>1. run \in TemplateType /\ (run.period = "none" <=> run.next = NoDate)
      BY TypesOf
    <2>2. run.next \in Dates /\ run.period \in {"none", "weekly", "fortnightly", "monthly"}
      BY <2>1 DEF TemplateType
    <2> QED
      BY <1>1, <2>1, <2>2 DEF IsDue, Dates
  <1>3. run.next \in Dates
    BY <1>2 DEF Dates
  <1>4. x \in TaskType
    BY <1>2, <1>3, IdleType DEF TaskType
  <1>5. Reading(x) /\ x.at = "skip"
    <2>1. x.at = "skip" /\ x.due = run.next /\ x.next = run.next /\ x.period = run.period
      BY IdleType DEF TaskType
    <2> HIDE DEF x
    <2> QED
      BY <1>2, <2>1 DEF Reading
  <1> HIDE DEF x
  <1>6. PayrollTypeOK'
    BY <1>1, <1>4, TypesOf, TaskTypes
  <1> QED
    BY <1>1, <1>4, <1>5, <1>6, QuietStep DEF SameTemplate

LEMMA SkipStep ==
  ASSUME IInv, NEW c \in Cycles, Skip(c)
  PROVE  IInv'
  <1> USE Bounds
  <1> DEFINE t == task[c]
             later == NextAfter(t.period, t.next)
             x == [t EXCEPT !.next = later, !.day = now, !.at = IF Missed(later) THEN "skip" ELSE "claim"]
  <1>1. t.at = "skip" /\ UNCHANGED <<now, run, saves, claims, opened, reported, troubled, faults>>
    BY DEF Skip, history
  <1>2. c \in Tasks /\ task \in [Tasks -> TaskType] /\ t \in TaskType /\ now \in 0..MaxDay
    BY TypesOf
  <1>3. task' = [task EXCEPT ![c] = x]
    BY <1>2 DEF Skip
  <1>4. /\ t.due \in Nat /\ t.next \in Nat /\ t.due <= t.next /\ t.next <= now
        /\ t.period \in {"weekly", "fortnightly", "monthly"}
    BY <1>1, Groups DEF Reading
  <1>5. later \in Nat /\ later > t.next
    <2>1. t.next \in 0..MaxDay
      BY <1>2, <1>4
    <2> QED
      BY <1>4, <2>1, NextAfterLater
  <1> HIDE DEF later
  <1>6. now \in Dates /\ later \in Dates
    BY <1>2, <1>5 DEF Dates
  <1> HIDE DEF t
  <1>7. x \in TaskType
    BY <1>2, <1>6 DEF TaskType
  <1>8. /\ x.at = (IF Missed(later) THEN "skip" ELSE "claim") /\ x.due = t.due
        /\ x.period = t.period /\ x.next = later /\ x.day = now
    BY <1>2 DEF TaskType
  <1> HIDE DEF x
  <1>9. Reading(x)
    <2>1. CASE Missed(later)
      <3>1. later <= now
        BY <2>1 DEF Missed
      <3> QED
        BY <1>2, <1>4, <1>5, <1>8, <2>1, <3>1 DEF Reading
    <2>2. CASE ~Missed(later)
      <3>1. now < later
        BY <1>2, <1>5, <2>2 DEF Missed
      <3> QED
        BY <1>2, <1>4, <1>5, <1>8, <2>2, <3>1 DEF Reading
    <2> QED
      BY <2>1, <2>2
  <1>10. x.at \in {"skip", "claim"}
    BY <1>8
  <1>11. PayrollTypeOK'
    BY <1>1, <1>2, <1>3, <1>7, TypesOf, TaskTypes
  <1>12. SameTemplate
    BY <1>1 DEF SameTemplate
  <1> QED
    BY <1>1, <1>2, <1>3, <1>7, <1>9, <1>10, <1>11, <1>12, QuietStep DEF t

\* A task that holds nothing goes back to the start.
LEMMA GivesUpStep ==
  ASSUME IInv, NEW t \in Tasks, task' = [task EXCEPT ![t] = Idle],
         t \in Cycles => task[t].at \notin {"open", "record", "report"},
         UNCHANGED <<now, saves, claims, opened, reported, troubled>>,
         run' = run \/ run' = [run EXCEPT !.error = NoDate],
         faults' \in Nat
  PROVE  IInv'
  <1>1. run \in TemplateType
    BY TypesOf
  <1>2. run' \in TemplateType /\ SameTemplate /\ run'.period = run.period
    <2>1. NoDate \in Dates
      BY DEF Dates, NoDate
    <2>2. CASE run' = run
      BY <1>1, <2>2 DEF SameTemplate
    <2>3. CASE run' = [run EXCEPT !.error = NoDate]
      BY <1>1, <2>1, <2>3 DEF TemplateType, SameTemplate
    <2> QED
      BY <2>2, <2>3
  <1>3. (run'.period = "none") <=> (run'.next = NoDate)
    BY <1>2, TypesOf DEF SameTemplate
  <1>4. PayrollTypeOK'
    BY <1>2, <1>3, IdleType, TypesOf, TemplateTypes DEF SameTemplate
  <1>5. Idle.at = "idle" /\ Reading(Idle)
    BY DEF Idle, Reading
  <1> QED
    BY <1>2, <1>4, <1>5, IdleType, QuietStep

LEMMA BeatenStep ==
  ASSUME IInv, NEW c \in Cycles, Beaten(c)
  PROVE  IInv'
  <1>1. task' = [task EXCEPT ![c] = Idle] /\ task[c].at = "claim"
        /\ UNCHANGED <<now, run, saves, claims, opened, reported, troubled, faults>>
    BY DEF Beaten, history
  <1>2. c \in Tasks /\ faults' \in Nat
    BY <1>1, Bounds, TypesOf
  <1> QED
    BY <1>1, <1>2, GivesUpStep

LEMMA RecordByHandStep ==
  ASSUME IInv, NEW q \in Requests, Record(q)
  PROVE  IInv'
  <1>1. task' = [task EXCEPT ![q] = Idle] /\ run' = [run EXCEPT !.error = NoDate]
        /\ UNCHANGED <<now, saves, claims, opened, reported, troubled, faults>>
    BY DEF Record, history
  <1>2. q \in Tasks /\ q \notin Cycles /\ faults' \in Nat
    BY <1>1, Bounds, TypesOf
  <1> QED
    BY <1>1, <1>2, GivesUpStep

LEMMA RunByHandStep ==
  ASSUME IInv, NEW q \in Requests, RunByHand(q)
  PROVE  IInv'
  <1> USE Bounds
  <1> DEFINE x == [task[q] EXCEPT !.at = "record"]
  <1>1. task[q] \in TaskType /\ task \in [Tasks -> TaskType]
    BY TypesOf
  <1>2. x \in TaskType /\ x.at = "record"
    BY <1>1 DEF TaskType
  <1>3. task' = [task EXCEPT ![q] = x]
        /\ UNCHANGED <<now, run, saves, claims, opened, reported, troubled, faults>>
    BY <1>1 DEF RunByHand, history
  <1> HIDE DEF x
  <1>4. q \in Tasks /\ q \notin Cycles
    OBVIOUS
  <1>5. PayrollTypeOK'
    BY <1>2, <1>3, <1>4, TypesOf, TaskTypes
  <1>6. SameTemplate
    BY <1>3 DEF SameTemplate
  <1> QED
    BY <1>2, <1>3, <1>4, <1>5, <1>6, QuietStep

-----------------------------------------------------------------------------
(* The steps of a cycle that holds a claim, or takes one *)

\* What a step of cycle c, which holds a claim before, has to show: that the claims it
\* opens or reports are known, and that c's own is in order; the others' are not touched.
LEMMA HolderStep ==
  ASSUME IInv, NEW c \in Cycles, NEW x \in TaskType, task' = [task EXCEPT ![c] = x],
         PayrollTypeOK', Holds(c),
         UNCHANGED <<now, saves, claims>>, SameTemplate,
         Reading(x), Holds(c)' => ClaimOf(c)' = ClaimOf(c),
         Held(c)',
         opened' \in {opened, opened \cup {ClaimOf(c)}},
         reported' \in {reported, reported \cup {ClaimOf(c)}},
         troubled' \in {troubled, troubled \cup {ClaimOf(c)}},
         Holds(c)' \/ ClaimOf(c) \in troubled' \/ ~run.exists
           \/ ((ClaimOf(c) \in opened') # (ClaimOf(c) \in reported'))
  PROVE  IInv'
  <1> USE Bounds
  <1>1. task \in [Tasks -> TaskType] /\ now \in 0..MaxDay
    BY TypesOf
  <1>2. task'[c] = x /\ \A u \in Tasks : u # c => task'[u] = task[u]
    BY <1>1
  <1>3. Known' = Known /\ ClaimOf(c) \in Known
    BY Groups DEF Known, Claims, Held
  <1>4. \A d \in Cycles : d # c => /\ task'[d] = task[d] /\ ClaimOf(d)' = ClaimOf(d)
                                   /\ (Holds(d)' <=> Holds(d))
    BY <1>2 DEF ClaimOf, Holds
  <1>5. \A d \in Cycles : d # c /\ Holds(d) => ClaimOf(d) # ClaimOf(c)
    BY Groups DEF Claims, HeldApart
  <1>6. opened' \subseteq Known' /\ reported' \subseteq Known'
    BY <1>3, Groups DEF Claims
  <1>7. ASSUME NEW d \in Cycles
        PROVE  Held(d)'
    <2>1. CASE d = c
      BY <2>1
    <2>2. CASE d # c /\ Holds(d)
      <3>1. Held(d) /\ ClaimOf(d) # ClaimOf(c)
        BY <1>5, <2>2, Groups DEF Claims
      <3>2. (ClaimOf(d) \in opened' <=> ClaimOf(d) \in opened)
            /\ (ClaimOf(d) \in reported' <=> ClaimOf(d) \in reported)
            /\ (ClaimOf(d) \in troubled' <=> ClaimOf(d) \in troubled)
        BY <3>1
      <3>3. task'[d] = task[d] /\ ClaimOf(d)' = ClaimOf(d) /\ (Holds(d)' <=> Holds(d))
        BY <1>4, <2>2
      <3> QED
        BY <1>3, <3>1, <3>2, <3>3 DEF Held
    <2>3. CASE d # c /\ ~Holds(d)
      <3>1. ~Holds(d)'
        BY <1>4, <2>3
      <3>2. task'[d].at \notin {"open", "record", "report"}
        BY <3>1 DEF Holds
      <3> QED
        BY <3>1, <3>2 DEF Held
    <2> QED
      BY <2>1, <2>2, <2>3
  <1>8. HeldApart'
    <2> SUFFICES ASSUME NEW d \in Cycles, NEW e \in Cycles, Holds(d)', Holds(e)', d # e
                 PROVE  ClaimOf(d)' # ClaimOf(e)'
      BY DEF HeldApart
    <2>1. Holds(d) /\ Holds(e) /\ ClaimOf(d)' = ClaimOf(d) /\ ClaimOf(e)' = ClaimOf(e)
      BY <1>4
    <2> QED
      BY <2>1, Groups DEF Claims, HeldApart
  <1>9. Settled'
    <2> SUFFICES ASSUME NEW k \in Known, run'.exists, run'.save = k.save, k \notin troubled', ~Working(k)'
                 PROVE  (k \in opened') # (k \in reported')
      BY <1>3 DEF Settled
    <2>1. CASE k = ClaimOf(c)
      <3>1. ~Holds(c)'
        BY <2>1 DEF Working
      <3> QED
        BY <2>1, <3>1 DEF SameTemplate
    <2>2. CASE k # ClaimOf(c)
      <3>1. (k \in opened' <=> k \in opened) /\ (k \in reported' <=> k \in reported)
            /\ (k \in troubled' <=> k \in troubled)
        BY <2>2
      <3>2. ~Working(k)
        <4> SUFFICES ASSUME NEW d \in Cycles, Holds(d), ClaimOf(d) = k
                     PROVE  FALSE
          BY DEF Working
        <4>1. Holds(d)' /\ ClaimOf(d)' = k
          BY <1>4, <2>2
        <4> QED
          BY <4>1 DEF Working
      <3>3. (k \in opened) # (k \in reported)
        BY <3>1, <3>2, Groups DEF Settled, SameTemplate
      <3> QED
        BY <3>1, <3>3
    <2> QED
      BY <2>1, <2>2
  <1>10. Dated'
    BY DatedFrame, Groups
  <1>11. ByHand'
    <2> SUFFICES ASSUME NEW q \in Requests
                 PROVE  task'[q].at \in {"idle", "record"}
      BY DEF ByHand
    <2>1. task[q].at \in {"idle", "record"}
      BY Groups DEF ByHand
    <2> QED
      BY <1>2, <2>1
  <1>12. ASSUME NEW d \in Cycles
         PROVE  Reading(task[d])'
    <2>1. CASE d = c
      <3>1. Reading(x)'
        BY DEF Reading
      <3> QED
        BY <1>2, <2>1, <3>1
    <2>2. CASE d # c
      BY <1>4, <2>2, ReadingFrame, Groups
    <2> QED
      BY <2>1, <2>2
  <1>13. Claims'
    BY <1>6, <1>7, <1>8 DEF Claims
  <1> QED
    BY <1>1, <1>9, <1>10, <1>11, <1>12, <1>13, GroupsAfter

\* The template and the saves stay, and one cycle's task moves on from its claim.
LEMMA MovesOn ==
  ASSUME IInv, NEW c \in Cycles, NEW at \in {"record", "report"},
         task' = [task EXCEPT ![c].at = at]
  PROVE  /\ [task[c] EXCEPT !.at = at] \in TaskType
         /\ task' = [task EXCEPT ![c] = [task[c] EXCEPT !.at = at]]
         /\ task'[c].at = at /\ ClaimOf(c)' = ClaimOf(c) /\ Holds(c)'
         /\ Reading([task[c] EXCEPT !.at = at])
  <1> USE Bounds
  <1> DEFINE x == [task[c] EXCEPT !.at = at]
  <1>1. task \in [Tasks -> TaskType] /\ task[c] \in TaskType /\ c \in Tasks
    BY TypesOf
  <1>2. x \in TaskType /\ x.at = at /\ x.save = task[c].save /\ x.due = task[c].due
    BY <1>1 DEF TaskType
  <1>3. task' = [task EXCEPT ![c] = x] /\ task'[c] = x
    BY <1>1
  <1> HIDE DEF x
  <1>4. ClaimOf(c)' = ClaimOf(c) /\ Holds(c)'
    BY <1>2, <1>3 DEF ClaimOf, Holds
  <1>5. Reading(x)
    BY <1>2 DEF Reading
  <1> QED
    BY <1>2, <1>3, <1>4, <1>5 DEF x

LEMMA OpenStep ==
  ASSUME IInv, NEW c \in Cycles, Open(c)
  PROVE  IInv'
  <1> DEFINE x == [task[c] EXCEPT !.at = "record"]
  <1>1. /\ task[c].at = "open" /\ task' = [task EXCEPT ![c].at = "record"]
        /\ opened' = opened \cup {ClaimOf(c)}
        /\ UNCHANGED <<now, run, saves, claims, reported, troubled, faults>>
    BY DEF Open
  <1>2. Holds(c) /\ Held(c)
    BY <1>1, Groups DEF Holds, Claims
  <1>3. /\ x \in TaskType /\ task' = [task EXCEPT ![c] = x] /\ Reading(x)
        /\ task'[c].at = "record" /\ ClaimOf(c)' = ClaimOf(c) /\ Holds(c)'
    BY <1>1, MovesOn
  <1> HIDE DEF x
  <1>4. PayrollTypeOK'
    BY <1>1, <1>2, <1>3, ClaimOfType, TypesOf, Bounds, TaskTypes
  <1>5. Held(c)'
    <2>1. Known' = Known /\ ClaimOf(c) \in Known
      BY <1>1, <1>2 DEF Known, Held
    <2>2. ClaimOf(c) \in opened' /\ ClaimOf(c) \notin reported'
      BY <1>1, <1>2 DEF Held
    <2> QED
      BY <1>3, <2>1, <2>2 DEF Held
  <1>6. SameTemplate
    BY <1>1 DEF SameTemplate
  <1> QED
    BY <1>1, <1>2, <1>3, <1>4, <1>5, <1>6, HolderStep

LEMMA OpenFailsStep ==
  ASSUME IInv, NEW c \in Cycles, OpenFails(c)
  PROVE  IInv'
  <1> DEFINE x == [task[c] EXCEPT !.at = "report"]
  <1>1. /\ task[c].at = "open" /\ task' = [task EXCEPT ![c].at = "report"]
        /\ UNCHANGED <<now, run, saves, claims, opened, reported, troubled, faults>>
    BY DEF OpenFails, history
  <1>2. Holds(c) /\ Held(c)
    BY <1>1, Groups DEF Holds, Claims
  <1>3. /\ x \in TaskType /\ task' = [task EXCEPT ![c] = x] /\ Reading(x)
        /\ task'[c].at = "report" /\ ClaimOf(c)' = ClaimOf(c) /\ Holds(c)'
    BY <1>1, MovesOn
  <1> HIDE DEF x
  <1>4. PayrollTypeOK'
    BY <1>1, <1>3, TypesOf, Bounds, TaskTypes
  <1>5. Held(c)'
    <2>1. Known' = Known /\ ClaimOf(c) \in Known
      BY <1>1, <1>2 DEF Known, Held
    <2>2. ClaimOf(c) \notin opened' /\ ClaimOf(c) \notin reported'
      BY <1>1, <1>2 DEF Held
    <2> QED
      BY <1>3, <2>1, <2>2 DEF Held
  <1>6. SameTemplate
    BY <1>1 DEF SameTemplate
  <1> QED
    BY <1>1, <1>2, <1>3, <1>4, <1>5, <1>6, HolderStep

LEMMA RecordFailsStep ==
  ASSUME IInv, NEW c \in Cycles, RecordFails(c)
  PROVE  IInv'
  <1> DEFINE x == [task[c] EXCEPT !.at = "report"]
  <1>1. /\ task[c].at = "record" /\ task' = [task EXCEPT ![c].at = "report"]
        /\ faults' = faults + 1 /\ Hit(c)
        /\ UNCHANGED <<now, run, saves, claims, opened, reported>>
    BY DEF RecordFails, Fault
  <1>2. Holds(c) /\ Held(c)
    BY <1>1, Groups DEF Holds, Claims
  <1>3. /\ x \in TaskType /\ task' = [task EXCEPT ![c] = x] /\ Reading(x)
        /\ task'[c].at = "report" /\ ClaimOf(c)' = ClaimOf(c) /\ Holds(c)'
    BY <1>1, MovesOn
  <1> HIDE DEF x
  <1>4. troubled' = troubled \cup {ClaimOf(c)}
    BY <1>1, <1>2 DEF Hit
  <1>5. PayrollTypeOK'
    <2>1. troubled' \subseteq Claimed /\ faults' \in Nat
      BY <1>1, <1>2, <1>4, ClaimOfType, TypesOf
    <2>2. c \in Tasks /\ UNCHANGED <<now, run, saves, claims, opened, reported>>
      BY <1>1, Bounds
    <2> QED
      BY <1>3, <2>1, <2>2, TypesOf, TaskTypes
  <1>6. Held(c)'
    <2>1. Known' = Known /\ ClaimOf(c) \in Known
      BY <1>1, <1>2 DEF Known, Held
    <2> QED
      BY <1>3, <1>4, <2>1 DEF Held
  <1>7. SameTemplate
    BY <1>1 DEF SameTemplate
  <1> QED
    BY <1>1, <1>2, <1>3, <1>4, <1>5, <1>6, <1>7, HolderStep

\* A cycle that is done with its claim.
LEMMA IdleAgain ==
  ASSUME IInv, NEW c \in Cycles, task' = [task EXCEPT ![c] = Idle]
  PROVE  task'[c] = Idle /\ ~Holds(c)' /\ Held(c)' /\ Reading(Idle)
  <1>1. c \in Tasks /\ task \in [Tasks -> TaskType]
    BY TypesOf, Bounds
  <1>2. task'[c] = Idle /\ Idle.at = "idle"
    BY <1>1 DEF Idle
  <1>3. ~Holds(c)'
    BY <1>2 DEF Holds
  <1> QED
    BY <1>2, <1>3 DEF Held, Reading

LEMMA RecordStep ==
  ASSUME IInv, NEW c \in Cycles, Record(c)
  PROVE  IInv'
  <1>1. /\ task[c].at = "record" /\ task' = [task EXCEPT ![c] = Idle]
        /\ run' = [run EXCEPT !.error = NoDate]
        /\ UNCHANGED <<now, saves, claims, opened, reported, troubled, faults>>
    BY DEF Record, history
  <1>2. Holds(c) /\ Held(c)
    BY <1>1, Groups DEF Holds, Claims
  <1>3. run' \in TemplateType /\ SameTemplate /\ run'.period = run.period
    <2>1. NoDate \in Dates /\ run \in TemplateType
      BY TypesOf DEF Dates, NoDate
    <2> QED
      BY <1>1, <2>1 DEF TemplateType, SameTemplate
  <1>4. (run'.period = "none") <=> (run'.next = NoDate)
    BY <1>3, TypesOf DEF SameTemplate
  <1>5. PayrollTypeOK'
    BY <1>1, <1>3, <1>4, IdleType, TypesOf, Bounds, TemplateTypes DEF SameTemplate
  <1>6. ClaimOf(c) \in opened' /\ ClaimOf(c) \notin reported'
    BY <1>1, <1>2 DEF Held
  <1>7. ~Holds(c)' /\ Held(c)' /\ Reading(Idle)
    BY <1>1, IdleAgain
  <1>8. (ClaimOf(c) \in opened') # (ClaimOf(c) \in reported')
    BY <1>6
  <1> QED
    BY <1>1, <1>2, <1>3, <1>5, <1>7, <1>8, IdleType, HolderStep

LEMMA ReportStep ==
  ASSUME IInv, NEW c \in Cycles, Report(c)
  PROVE  IInv'
  <1>1. /\ task[c].at = "report" /\ task' = [task EXCEPT ![c] = Idle]
        /\ run' = IF run.exists THEN [run EXCEPT !.error = task[c].due] ELSE run
        /\ reported' = IF run.exists THEN reported \cup {ClaimOf(c)} ELSE reported
        /\ UNCHANGED <<now, saves, claims, opened, troubled, faults>>
    BY DEF Report, Written
  <1>2. Holds(c) /\ Held(c)
    BY <1>1, Groups DEF Holds, Claims
  <1>3. run' \in TemplateType /\ SameTemplate /\ run'.period = run.period
    <2>1. task[c].due \in Dates /\ run \in TemplateType
      BY TypesOf, Bounds DEF TaskType
    <2>2. CASE run.exists
      BY <1>1, <2>1, <2>2 DEF TemplateType, SameTemplate
    <2>3. CASE ~run.exists
      BY <1>1, <2>1, <2>3 DEF SameTemplate
    <2> QED
      BY <2>2, <2>3
  <1>4. (run'.period = "none") <=> (run'.next = NoDate)
    BY <1>3, TypesOf DEF SameTemplate
  <1>5. reported' \in {reported, reported \cup {ClaimOf(c)}} /\ reported' \subseteq Claimed
    BY <1>1, <1>2, ClaimOfType, TypesOf
  <1>6. PayrollTypeOK'
    BY <1>1, <1>3, <1>4, <1>5, IdleType, TypesOf, Bounds, TemplateTypes DEF SameTemplate
  <1>7. ~Holds(c)' /\ Held(c)' /\ Reading(Idle)
    BY <1>1, IdleAgain
  <1>8. \/ ClaimOf(c) \in troubled' \/ ~run.exists
        \/ ((ClaimOf(c) \in opened') # (ClaimOf(c) \in reported'))
    <2>1. CASE run.exists /\ ClaimOf(c) \notin troubled
      <3>1. ClaimOf(c) \notin opened
        BY <1>1, <1>2, <2>1 DEF Held
      <3>2. ClaimOf(c) \in reported' /\ ClaimOf(c) \notin opened'
        BY <1>1, <2>1, <3>1
      <3> QED
        BY <3>2
    <2>2. CASE ~run.exists \/ ClaimOf(c) \in troubled
      BY <1>1, <2>2, Zenon
    <2> QED
      BY <2>1, <2>2
  <1> QED
    BY <1>1, <1>2, <1>3, <1>5, <1>6, <1>7, <1>8, IdleType, HolderStep

LEMMA CrashStep ==
  ASSUME IInv, NEW t \in Tasks, Crash(t)
  PROVE  IInv'
  <1>1. /\ task' = [task EXCEPT ![t] = Idle] /\ faults' = faults + 1 /\ Hit(t)
        /\ UNCHANGED <<now, run, saves, claims, opened, reported>>
    BY DEF Crash, Fault
  <1>2. faults' \in Nat
    BY <1>1, TypesOf
  <1>3. CASE Holds(t)
    <2>1. t \in Cycles /\ Held(t) /\ troubled' = troubled \cup {ClaimOf(t)}
      BY <1>1, <1>3, Groups DEF Holds, Hit, Claims
    <2>2. PayrollTypeOK'
      BY <1>1, <1>2, <1>3, <2>1, ClaimOfType, IdleType, TypesOf, TaskTypes
    <2>3. ~Holds(t)' /\ Held(t)' /\ Reading(Idle)
      BY <1>1, <2>1, IdleAgain
    <2>4. SameTemplate
      BY <1>1 DEF SameTemplate
    <2>5. ClaimOf(t) \in troubled'
      BY <2>1
    <2> QED
      BY <1>1, <1>3, <2>1, <2>2, <2>3, <2>4, <2>5, IdleType, HolderStep
  <1>4. CASE ~Holds(t)
    <2>1. troubled' = troubled
      BY <1>1, <1>4 DEF Hit
    <2>2. t \in Cycles => task[t].at \notin {"open", "record", "report"}
      BY <1>4 DEF Holds
    <2> QED
      BY <1>1, <1>2, <2>1, <2>2, GivesUpStep
  <1> QED
    BY <1>3, <1>4

\* A claim is of a date nobody claimed before, of the template as it was last saved.
LEMMA ClaimStep ==
  ASSUME IInv, NEW c \in Cycles, Claim(c)
  PROVE  IInv'
  <1> USE Bounds
  <1> DEFINE x == [Idle EXCEPT !.at = "open", !.due = run.next, !.save = run.save]
             a == [save |-> run.save, due |-> task[c].due, day |-> task[c].day]
             k == [save |-> run.save, due |-> run.next]
  <1>1. /\ task[c].at = "claim" /\ run.exists /\ run.next = task[c].due
        /\ run' = [run EXCEPT !.next = task[c].next]
        /\ task' = [task EXCEPT ![c] = x] /\ claims' = claims \cup {a}
        /\ UNCHANGED <<now, saves, opened, reported, troubled, faults>>
    BY DEF Claim, StillDue
  <1>2. /\ task \in [Tasks -> TaskType] /\ run \in TemplateType /\ now \in 0..MaxDay
        /\ claims \subseteq [save : Nat, due : Nat, day : Nat] /\ saves \in Nat
        /\ run.save \in Nat /\ run.save <= saves
    BY TypesOf DEF TemplateType
  <1>3. /\ task[c].due \in Nat /\ task[c].day \in Nat /\ task[c].next \in Nat
        /\ task[c].due <= task[c].day /\ task[c].day < task[c].next
    BY <1>1, Groups DEF Reading
  <1>4. x \in TaskType /\ x.at = "open" /\ x.due = run.next /\ x.save = run.save
    <2>1. run.next \in Dates /\ Idle \in TaskType
      BY <1>1, <1>3, IdleType DEF Dates
    <2> QED
      BY <1>2, <2>1 DEF TaskType
  <1>5. run' \in TemplateType /\ run'.next = task[c].next /\ run'.exists = run.exists
        /\ run'.save = run.save /\ run'.period = run.period
    <2>1. task[c].next \in Dates
      BY <1>3 DEF Dates
    <2> QED
      BY <1>1, <1>2, <2>1 DEF TemplateType
  <1>6. a \in [save : Nat, due : Nat, day : Nat] /\ a.save = run.save /\ a.due = run.next
        /\ a.day = task[c].day
    BY <1>1, <1>2, <1>3
  <1>7. (run'.period = "none") <=> (run'.next = NoDate)
    <2>1. run.next # NoDate /\ run'.next # NoDate
      BY <1>1, <1>3, <1>5 DEF NoDate
    <2> QED
      BY <1>5, <2>1, TypesOf
  <1>8. task'[c] = x /\ \A u \in Tasks : u # c => task'[u] = task[u]
    BY <1>1, <1>2
  <1> HIDE DEF x, a
  <1>9. PayrollTypeOK' /\ now' \in 0..MaxDay
    <2>1. claims' \subseteq [save : Nat, due : Nat, day : Nat]
      BY <1>1, <1>2, <1>6
    <2> QED
      BY <1>1, <1>4, <1>5, <1>7, <2>1, TypesOf, TemplateTypes
  <1>10. \A b \in claims : b.save = run.save => run.next > b.day /\ b.due <= b.day
    BY <1>1, Groups DEF Dated, Moved
  <1>11. Moved'
    <2> SUFFICES ASSUME NEW b \in claims'
                 PROVE  /\ b.save <= saves /\ b.due <= b.day
                        /\ run.save = b.save => run'.next > b.day
      BY <1>1, <1>5 DEF Moved
    <2>1. CASE b = a
      BY <1>1, <1>2, <1>3, <1>5, <1>6, <2>1
    <2>2. CASE b \in claims
      <3>1. b.day \in Nat
        BY <1>2, <2>2
      <3>2. b.save <= saves /\ b.due <= b.day
        BY <2>2, Groups DEF Dated, Moved
      <3>3. ASSUME run.save = b.save
            PROVE  run'.next > b.day
        <4>1. run.next > b.day
          BY <1>10, <2>2, <3>3
        <4> QED
          BY <1>1, <1>3, <1>5, <3>1, <4>1
      <3> QED
        BY <3>2, <3>3
    <2> QED
      BY <1>1, <2>1, <2>2
  <1>12. OneForMissed'
    <2> SUFFICES ASSUME NEW b \in claims', NEW d \in claims', b.save = d.save, b.due < d.due
                 PROVE  d.due > b.day
      BY DEF OneForMissed
    <2>1. CASE b \in claims /\ d \in claims
      BY <2>1, Groups DEF Dated, OneForMissed
    <2>2. CASE b \in claims /\ d = a
      BY <1>6, <1>10, <2>2
    <2>3. CASE b = a /\ d \in claims
      <3>1. run.next > d.day /\ d.due <= d.day
        BY <1>6, <1>10, <2>3
      <3>2. d.day \in Nat /\ d.due \in Nat /\ run.next \in Nat /\ run.next < d.due
        BY <1>1, <1>2, <1>3, <1>6, <2>3
      <3> QED
        BY <3>1, <3>2
    <2>4. CASE b = a /\ d = a
      <3>1. a.due \in Nat
        BY <1>6
      <3> QED
        BY <2>4, <3>1
    <2> QED
      BY <1>1, <2>1, <2>2, <2>3, <2>4
  <1>13. k \notin Known
    <2> SUFFICES ASSUME NEW b \in claims, b.save = run.save, b.due = run.next
                 PROVE  FALSE
      BY DEF Known
    <2>1. run.next > b.day /\ b.due <= b.day
      BY <1>10
    <2>2. b.day \in Nat /\ b.due \in Nat
      BY <1>2
    <2> QED
      BY <2>1, <2>2
  <1>14. Known' = Known \cup {k}
    BY <1>1, <1>6 DEF Known
  <1>15. ClaimOf(c)' = k /\ Holds(c)' /\ ~Holds(c)
    BY <1>1, <1>4, <1>8 DEF ClaimOf, Holds
  <1>16. \A d \in Cycles : d # c => /\ task'[d] = task[d] /\ ClaimOf(d)' = ClaimOf(d)
                                    /\ (Holds(d)' <=> Holds(d))
    BY <1>8 DEF ClaimOf, Holds
  <1> HIDE DEF k
  <1>17. opened' \subseteq Known' /\ reported' \subseteq Known'
    BY <1>1, <1>14, Groups DEF Claims
  <1>18. ASSUME NEW d \in Cycles
         PROVE  Held(d)'
    <2>1. CASE d = c
      <3>1. k \notin opened' /\ k \notin reported' /\ k \in Known'
        BY <1>1, <1>13, <1>14, Groups DEF Claims
      <3>2. task'[c].at = "open"
        BY <1>4, <1>8
      <3> QED
        BY <1>15, <2>1, <3>1, <3>2 DEF Held
    <2>2. CASE d # c
      <3>1. Held(d)
        BY Groups DEF Claims
      <3>2. task'[d] = task[d] /\ ClaimOf(d)' = ClaimOf(d) /\ (Holds(d)' <=> Holds(d))
        BY <1>16, <2>2
      <3> QED
        BY <1>1, <1>14, <3>1, <3>2 DEF Held
    <2> QED
      BY <2>1, <2>2
  <1>19. HeldApart'
    <2> SUFFICES ASSUME NEW d \in Cycles, NEW e \in Cycles, Holds(d)', Holds(e)', d # e
                 PROVE  ClaimOf(d)' # ClaimOf(e)'
      BY DEF HeldApart
    <2>1. ASSUME NEW f \in Cycles, f # c, Holds(f)'
          PROVE  Holds(f) /\ ClaimOf(f)' = ClaimOf(f) /\ ClaimOf(f) # k
      <3>1. Holds(f) /\ ClaimOf(f)' = ClaimOf(f)
        BY <1>16, <2>1
      <3>2. ClaimOf(f) \in Known
        BY <3>1, Groups DEF Claims, Held
      <3> QED
        BY <1>13, <3>1, <3>2
    <2>2. CASE d = c
      BY <1>15, <2>1, <2>2
    <2>3. CASE e = c
      BY <1>15, <2>1, <2>3
    <2>4. CASE d # c /\ e # c
      BY <2>1, <2>4, Groups DEF Claims, HeldApart
    <2> QED
      BY <2>2, <2>3, <2>4
  <1>20. Settled'
    <2> SUFFICES ASSUME NEW j \in Known', run.exists, run.save = j.save, j \notin troubled, ~Working(j)'
                 PROVE  (j \in opened) # (j \in reported)
      BY <1>1, <1>5 DEF Settled
    <2>1. j # k
      BY <1>15 DEF Working
    <2>2. j \in Known
      BY <1>14, <2>1
    <2>3. ~Working(j)
      <3> SUFFICES ASSUME NEW d \in Cycles, Holds(d), ClaimOf(d) = j
                   PROVE  FALSE
        BY DEF Working
      <3>1. d # c
        BY <1>15
      <3>2. Holds(d)' /\ ClaimOf(d)' = j
        BY <1>16, <3>1
      <3> QED
        BY <3>2 DEF Working
    <2> QED
      BY <2>2, <2>3, Groups DEF Settled
  <1>21. ByHand'
    <2> SUFFICES ASSUME NEW q \in Requests
                 PROVE  task'[q].at \in {"idle", "record"}
      BY DEF ByHand
    <2>1. task[q].at \in {"idle", "record"}
      BY Groups DEF ByHand
    <2> QED
      BY <1>8, <2>1
  <1>22. ASSUME NEW d \in Cycles
         PROVE  Reading(task[d])'
    <2>1. CASE d = c
      <3>1. task'[c].at = "open"
        BY <1>4, <1>8
      <3> QED
        BY <2>1, <3>1 DEF Reading
    <2>2. CASE d # c
      BY <1>1, <1>16, <2>2, ReadingFrame, Groups
    <2> QED
      BY <2>1, <2>2
  <1>23. Claims' /\ Dated'
    BY <1>11, <1>12, <1>17, <1>18, <1>19 DEF Claims, Dated
  <1> QED
    BY <1>9, <1>20, <1>21, <1>22, <1>23, GroupsAfter

LEMMA StutterStep ==
  ASSUME IInv, UNCHANGED vars
  PROVE  IInv'
  <1>1. UNCHANGED <<now, run, saves, task, claims, opened, reported, troubled, faults>>
    BY DEF vars, history
  <1>2. PayrollTypeOK' /\ now' \in 0..MaxDay /\ now' >= now
    BY <1>1, TypesOf DEF PayrollTypeOK, TemplateType
  <1>3. Dated'
    BY <1>1, DatedFrame, Groups DEF SameTemplate
  <1>4. \A c \in Cycles : Undisturbed(c)
    BY <1>1 DEF Undisturbed
  <1>5. Settled'
    BY <1>1, <1>4, ClaimsFrame, SettledFrame, Groups
  <1> QED
    BY <1>1, <1>2, <1>3, <1>5, TemplateStep

LEMMA NextStep == IInv /\ [Next]_vars => IInv'
  <1> SUFFICES ASSUME IInv, [Next]_vars
               PROVE  IInv'
    OBVIOUS
  <1>1. ASSUME NEW period \in Periods, NEW date \in FirstDates \cup {NoDate},
               Create(period, date) \/ Update(period, date)
        PROVE  IInv'
    BY <1>1, SaveStep DEF Create, Update
  <1>2. CASE Delete
    BY <1>2, DeleteStep
  <1>3. ASSUME NEW c \in Cycles, CycleStep(c) \/ RecordFails(c)
        PROVE  IInv'
    BY <1>3, StartCycleStep, SkipStep, ClaimStep, BeatenStep, OpenStep, OpenFailsStep, RecordStep,
       ReportStep, RecordFailsStep DEF CycleStep
  <1>4. ASSUME NEW q \in Requests, RunByHand(q) \/ Record(q)
        PROVE  IInv'
    BY <1>4, RunByHandStep, RecordByHandStep
  <1>5. ASSUME NEW t \in Tasks, Crash(t)
        PROVE  IInv'
    BY <1>5, CrashStep
  <1>6. CASE Tick
    BY <1>6, TickStep
  <1>7. CASE UNCHANGED vars
    BY <1>7, StutterStep
  <1> QED
    BY <1>1, <1>2, <1>3, <1>4, <1>5, <1>6, <1>7 DEF Next

-----------------------------------------------------------------------------
(* Theorems *)

\* The invariant holds throughout, whatever the calendar, the saves and the faults.
THEOREM Invariance == Spec => []IInv
  BY InitStep, NextStep, PTL DEF Spec

\* The template, the tasks and the claims always have their types, and a template has a
\* date to run on exactly when it has a period (olien_payrolls).
THEOREM PayrollTypeCorrect == Spec => []PayrollTypeOK
  <1>1. IInv => PayrollTypeOK
    BY DEF IInv
  <1> QED
    BY <1>1, Invariance, PTL

\* Dates missed collapse into one run: of two dates one template was claimed for, the later
\* was still to come when the earlier was claimed (run_due).
THEOREM OneForMissedCorrect == Spec => []OneForMissed
  <1>1. IInv => OneForMissed
    BY DEF IInv
  <1> QED
    BY <1>1, Invariance, PTL

\* A claimed date is opened, or its failure written on the template, and never both, unless
\* a fault hit that cycle or the template was saved anew or deleted (run_due, last_error).
THEOREM EachDateAnsweredCorrect == Spec => []EachDateAnswered
  <1>1. ASSUME IInv
        PROVE  EachDateAnswered
    <2> SUFFICES ASSUME NEW a \in claims, run.exists, run.save = a.save,
                        [save |-> a.save, due |-> a.due] \notin troubled,
                        ~Working([save |-> a.save, due |-> a.due])
                 PROVE  ([save |-> a.save, due |-> a.due] \in opened)
                          # ([save |-> a.save, due |-> a.due] \in reported)
      BY DEF EachDateAnswered
    <2> DEFINE k == [save |-> a.save, due |-> a.due]
    <2>1. k \in Known
      BY DEF Known
    <2>2. k.save = a.save
      OBVIOUS
    <2> HIDE DEF k
    <2>3. (k \in opened) # (k \in reported)
      BY <1>1, <2>1, <2>2, Groups DEF Settled, k
    <2> QED
      BY <2>3 DEF k
  <1> QED
    BY <1>1, Invariance, PTL

\* A proposal opens for a date of a template as it was saved, and never again for that
\* date, however two cycles, an edit and a crash interleave (run_due).
THEOREM OpensOnceCorrect == Spec => OpensOnce
  <1>1. ASSUME IInv, [Next]_vars
        PROVE  [\A c \in Cycles :
                  task[c].at = "open" /\ task'[c].at = "record" => ClaimOf(c) \notin opened]_vars
    BY <1>1, Groups DEF Claims, Held
  <1> QED
    BY <1>1, Invariance, PTL DEF Spec, OpensOnce
=============================================================================
