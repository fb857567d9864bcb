SPECIFICATION FairSpec
CONSTANTS
  c1 = c1
  c2 = c2
  q1 = q1
  Cycles = {c1, c2}
  Requests = {q1}
  Week = 1
  MonthStarts <- MCMonthStarts
  Periods = {"none", "fortnightly", "monthly"}
  FirstDates = {0}
  MaxDay = 3
  MaxSaves = 2
  Faults = 1
INVARIANTS
  PayrollTypeOK
  OneForMissed
  EachDateAnswered
PROPERTIES
  OpensOnce
  DueIsTaken
CHECK_DEADLOCK FALSE
