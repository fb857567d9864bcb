---------------------------- MODULE OlienPayroll ----------------------------
(***************************************************************************)
(* Payroll: a template with a schedule, and the cycle that opens a         *)
(* proposal for it on the day.                                             *)
(*                                                                         *)
(* Every statement of run_due is a step of the cycle that makes it, and    *)
(* there may be two cycles, as while a release replaces the service.       *)
(* Members save, delete and run the template by hand meanwhile, and days   *)
(* pass.  Time is counted in days; a month is the days between two of      *)
(* MonthStarts.  One template on one live account: rows share nothing.     *)
(* What it pays and who it runs as are left out; that its saver is no      *)
(* member any more is one of the ways an opening fails.                    *)
(***************************************************************************)
EXTENDS Integers, Sequences, FiniteSets

CONSTANTS
  Cycles,       \* processes that call run_due
  Requests,     \* requests to run the template by hand
  Week,         \* seven days
  MonthStarts,  \* the first day of each month
  Periods,      \* what members choose from
  FirstDates,   \* the dates they choose
  MaxDay,       \* bound: the last day
  MaxSaves,     \* bound: how often the template is saved
  Faults        \* bound: how often a process crashes or a statement fails

VARIABLES
  now,          \* today
  run,          \* the row of olien_payrolls
  saves,        \* saves so far
  task,         \* where each cycle and each request is
  claims,       \* history: what was claimed, and the day the claim was decided
  opened,       \* history: claims whose proposal was opened
  reported,     \* history: claims whose failure was written on the row
  troubled,     \* history: the claims a fault hit
  faults        \* faults so far

history == <<claims, opened, reported, troubled>>
vars == <<now, run, saves, task, history, faults>>

Tasks == Cycles \cup Requests
NoDate == -1
Dates == {NoDate} \cup Nat

ASSUME PayrollAssumption ==
  /\ Cycles \cap Requests = {}
  /\ Week \in Nat \ {0} /\ MaxDay \in Nat /\ MaxSaves \in Nat /\ Faults \in Nat
  /\ FirstDates \subseteq Nat
  /\ Periods \subseteq {"none", "weekly", "fortnightly", "monthly"}
  /\ MonthStarts \in Seq(Nat) /\ Len(MonthStarts) >= 3 /\ MonthStarts[1] = 0
  /\ \A i, j \in DOMAIN MonthStarts : i < j => MonthStarts[i] < MonthStarts[j]

\* The calendar reaches past the month after the last day.
ASSUME CalendarAssumption == MaxDay < MonthStarts[Len(MonthStarts) - 1]

-----------------------------------------------------------------------------
(* Dates *)

MonthOf(day) ==
  CHOOSE m \in 1..(Len(MonthStarts) - 1) : MonthStarts[m] <= day /\ day < MonthStarts[m + 1]

LengthOf(month) == MonthStarts[month + 1] - MonthStarts[month]
DayOf(day) == day - MonthStarts[MonthOf(day)]
Clamped(dayOf, month) == IF dayOf < LengthOf(month) THEN dayOf ELSE LengthOf(month) - 1

\* The same day of the next month, or that month's last.
MonthAfter(day) == MonthStarts[MonthOf(day) + 1] + Clamped(DayOf(day), MonthOf(day) + 1)

NextAfter(period, day) ==
  CASE period = "weekly" -> day + Week
    [] period = "fortnightly" -> day + 2 * Week
    [] period = "monthly" -> MonthAfter(day)

-----------------------------------------------------------------------------
(* The template *)

NoRun == [exists |-> FALSE, save |-> 0, period |-> "none", next |-> NoDate, error |-> NoDate]

Saved(period, date) ==
  [exists |-> TRUE, save |-> saves + 1, period |-> period,
   next |-> date, error |-> NoDate]

\* Mutant: a date is kept without a period.
KeepsDate(period, date) == date \in FirstDates /\ date >= now

\* Without a period no date is kept; with one, the first is not in the past.
MaySave(period, date) == IF period = "none" THEN date = NoDate ELSE date \in FirstDates /\ date >= now

\* Saving it anew replaces the schedule and clears the error.
Save(period, date) ==
  /\ saves < MaxSaves /\ MaySave(period, date)
  /\ run' = Saved(period, date) /\ saves' = saves + 1
  /\ UNCHANGED <<now, task, history, faults>>

Create(period, date) == ~run.exists /\ Save(period, date)

Update(period, date) == run.exists /\ Save(period, date)

Delete ==
  /\ run.exists
  /\ run' = NoRun
  /\ UNCHANGED <<now, saves, task, history, faults>>

-----------------------------------------------------------------------------
(* A cycle: which run is due, and the claim *)

Idle == [at |-> "idle", due |-> NoDate, save |-> 0, period |-> "none", next |-> NoDate, day |-> NoDate]

\* Mutant: a run is due from the day after.
DueBefore == run.exists /\ run.period # "none" /\ run.next < now

IsDue == run.exists /\ run.period # "none" /\ run.next <= now

\* What the query reads of the row is used until the end, whatever is saved meanwhile.
StartCycle(c) ==
  /\ task[c].at = "idle" /\ IsDue
  /\ task' = [task EXCEPT ![c] = [Idle EXCEPT !.at = "skip", !.due = run.next,
                                               !.period = run.period, !.next = run.next]]
  /\ UNCHANGED <<now, run, saves, history, faults>>

\* Mutant: one step is taken, however late the service is.
NoneMissed(date) == FALSE

Missed(date) == date <= now

\* Dates already missed are passed over.
Skip(c) ==
  /\ task[c].at = "skip"
  /\ LET later == NextAfter(task[c].period, task[c].next)
     IN  task' = [task EXCEPT ![c].next = later, ![c].day = now,
                              ![c].at = IF Missed(later) THEN "skip" ELSE "claim"]
  /\ UNCHANGED <<now, run, saves, history, faults>>

\* Mutant: the date is moved whatever it is by now.
MovedByNobody(c) == run.exists

\* The claim is of the date that was read.
StillDue(c) == run.exists /\ run.next = task[c].due

\* A claim is of a date of the template as it was saved, which may be later than the
\* template that was read: only the dates are compared.
ClaimOf(c) == [save |-> task[c].save, due |-> task[c].due]

Claim(c) ==
  /\ task[c].at = "claim" /\ StillDue(c)
  /\ run' = [run EXCEPT !.next = task[c].next]
  /\ task' = [task EXCEPT ![c] = [Idle EXCEPT !.at = "open", !.due = run.next, !.save = run.save]]
  /\ claims' = claims \cup {[save |-> run.save, due |-> task[c].due, day |-> task[c].day]}
  /\ UNCHANGED <<now, saves, opened, reported, troubled, faults>>

Beaten(c) ==
  /\ task[c].at = "claim" /\ ~StillDue(c)
  /\ task' = [task EXCEPT ![c] = Idle]
  /\ UNCHANGED <<now, run, saves, history, faults>>

-----------------------------------------------------------------------------
(* Opening the proposal: for a cycle, or for a member who asks *)

\* A request opens the proposal or answers with the error, and has yet to record it.
RunByHand(q) ==
  /\ task[q].at = "idle" /\ run.exists
  /\ task' = [task EXCEPT ![q].at = "record"]
  /\ UNCHANGED <<now, run, saves, history, faults>>

\* The template is read anew, and must be there.
Open(c) ==
  /\ task[c].at = "open" /\ run.exists
  /\ task' = [task EXCEPT ![c].at = "record"]
  /\ opened' = opened \cup {ClaimOf(c)}
  /\ UNCHANGED <<now, run, saves, claims, reported, troubled, faults>>

\* Or it is not opened: the template or its saver is gone, the account refuses, or a
\* node or a statement fails.
OpenFails(c) ==
  /\ task[c].at = "open"
  /\ task' = [task EXCEPT ![c].at = "report"]
  /\ UNCHANGED <<now, run, saves, history, faults>>

\* The row of that id, if there is one, whatever was saved meanwhile.
Record(t) ==
  /\ task[t].at = "record"
  /\ run' = [run EXCEPT !.error = NoDate]
  /\ task' = [task EXCEPT ![t] = Idle]
  /\ UNCHANGED <<now, saves, history, faults>>

\* Mutant: the failure is only logged.
Unwritten(c) == FALSE

\* The reason goes on the row, if it is there.
Written(c) == run.exists

Report(c) ==
  /\ task[c].at = "report"
  /\ run' = IF Written(c) THEN [run EXCEPT !.error = task[c].due] ELSE run
  /\ reported' = IF Written(c) THEN reported \cup {ClaimOf(c)} ELSE reported
  /\ task' = [task EXCEPT ![c] = Idle]
  /\ UNCHANGED <<now, saves, claims, opened, troubled, faults>>

-----------------------------------------------------------------------------
(* What goes wrong *)

Fault == faults < Faults /\ faults' = faults + 1

Holds(t) == t \in Cycles /\ task[t].at \in {"open", "record", "report"}
Hit(t) == troubled' = IF Holds(t) THEN troubled \cup {ClaimOf(t)} ELSE troubled

\* The process stops, or the claim or the report fails, which ends the cycle as well.
Crash(t) ==
  /\ task[t].at # "idle" /\ Fault /\ Hit(t)
  /\ task' = [task EXCEPT ![t] = Idle]
  /\ UNCHANGED <<now, run, saves, claims, opened, reported>>

\* The proposal is open, and the statement that says so fails: a failure to report.
RecordFails(c) ==
  /\ task[c].at = "record" /\ Fault /\ Hit(c)
  /\ task' = [task EXCEPT ![c].at = "report"]
  /\ UNCHANGED <<now, run, saves, claims, opened, reported>>

-----------------------------------------------------------------------------
(* The world *)

Tick ==
  /\ now < MaxDay /\ now' = now + 1
  /\ UNCHANGED <<run, saves, task, history, faults>>

Init ==
  /\ now = 0 /\ run = NoRun /\ saves = 0
  /\ task = [t \in Tasks |-> Idle]
  /\ claims = {} /\ opened = {} /\ reported = {} /\ troubled = {} /\ faults = 0

CycleStep(c) ==
  StartCycle(c) \/ Skip(c) \/ Claim(c) \/ Beaten(c) \/ Open(c) \/ OpenFails(c) \/ Record(c) \/ Report(c)

Next ==
  \/ \E period \in Periods, date \in FirstDates \cup {NoDate} : Create(period, date) \/ Update(period, date)
  \/ Delete
  \/ \E c \in Cycles : CycleStep(c) \/ RecordFails(c)
  \/ \E q \in Requests : RunByHand(q) \/ Record(q)
  \/ \E t \in Tasks : Crash(t)
  \/ Tick

Spec == Init /\ [][Next]_vars

\* The indexer's loop calls run_due once a cycle, for as long as the service runs.
FairSpec == Spec /\ \A c \in Cycles : WF_vars(CycleStep(c))

-----------------------------------------------------------------------------
(* Properties *)

\* What a task is, whatever it is doing.
TaskType ==
  [at : {"idle", "skip", "claim", "open", "record", "report"}, due : Dates, save : Nat,
   period : {"none", "weekly", "fortnightly", "monthly"}, next : Dates, day : Dates]

Claimed == [save : Nat, due : Nat]

\* Types, and: a row has a date to run on exactly when it has a period, and a save number
\* that was given out (olien_payrolls, PayrollBody).
PayrollTypeOK ==
  /\ now \in Nat /\ saves \in Nat /\ faults \in Nat
  /\ run \in [exists : BOOLEAN, save : Nat, period : {"none", "weekly", "fortnightly", "monthly"},
              next : Dates, error : Dates]
  /\ (run.period = "none") <=> (run.next = NoDate)
  /\ run.save <= saves
  /\ task \in [Tasks -> TaskType]
  /\ claims \subseteq [save : Nat, due : Nat, day : Nat]
  /\ opened \subseteq Claimed /\ reported \subseteq Claimed /\ troubled \subseteq Claimed

\* "Each is claimed by moving its date forward first, so two cycles cannot open it twice":
\* a proposal opens for a date of a template as it was saved, and never again for that
\* date, however two cycles, an edit and a crash interleave (run_due).
OpensOnce ==
  [][\A c \in Cycles : task[c].at = "open" /\ task'[c].at = "record" => ClaimOf(c) \notin opened]_vars

\* "Dates missed collapse into one run": of two dates one template was claimed for, the
\* later was still to come when the earlier was claimed, so days the service was down
\* never come as a pile (run_due, the loop past missed dates).
OneForMissed ==
  \A a, b \in claims : a.save = b.save /\ a.due < b.due => b.due > a.day

Working(claim) == \E c \in Cycles : Holds(c) /\ ClaimOf(c) = claim

\* "So a missed month is not silent": a date that was claimed is opened, or else its
\* failure is written on the template, and never both, unless a fault hit that cycle or
\* the template was saved anew or deleted (run_due, last_error).
EachDateAnswered ==
  \A a \in claims :
    LET claim == [save |-> a.save, due |-> a.due]
    IN  run.exists /\ run.save = a.save /\ claim \notin troubled /\ ~Working(claim)
          => (claim \in opened) # (claim \in reported)

\* A run that is due is claimed, withdrawn or given another date, though cycles crash and
\* statements fail (run_due, called from the indexer's loop).
DueIsTaken ==
  LET due == run.next # NoDate /\ run.next <= now
  IN  due ~> ~due
=============================================================================
