\* Two requests at a time over one session and one student.
CONSTANTS
  s1 = s1  s2 = s2  a = a  b = b  t1 = t1  t2 = t2  w1 = w1  w2 = w2
  h1 = h1  h2 = h2
  Absent = Absent
  None = None
  Session <- OneSession
  Slot <- SlotOf
  Weekly <- OneSession
  Student <- OneStudent
  TuitionPeriod = {t1}
  SalaryPeriod = {}
  Handler = {h1, h2}
  Operations <- RaceOperations
  Day <- FirstToday
  Today = 1
  RegenerateFrom = {1}
  JoinDays <- TodayOrTomorrow
SPECIFICATION Spec
SYMMETRY HandlerSymmetry
INVARIANTS
  BilledLessonIsCharged
PROPERTIES
  MarkedRowKept
  TaughtSessionKept
  LeaveDecidedOnce
