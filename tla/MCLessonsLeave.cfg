\* Violation: the row of an approved leave is deleted.
CONSTANTS
  s1 = s1  s2 = s2  a = a  b = b  t1 = t1  t2 = t2  w1 = w1  w2 = w2
  h1 = h1  h2 = h2
  Absent = Absent
  None = None
  Session <- OneSession
  Slot <- SlotOf
  Weekly <- OneSession
  Student <- OneStudent
  TuitionPeriod = {t1}
  SalaryPeriod = {}
  Handler = {h1}
  Operations <- LeaveAndRoster
  Day <- FirstToday
  Today = 1
  RegenerateFrom = {1}
  JoinDays <- TodayOrTomorrow
SPECIFICATION Spec
PROPERTY ApprovedLeaveKeepsRow
