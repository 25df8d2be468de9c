------------------------------ MODULE MCScreens ------------------------------
(***************************************************************************)
(* The screens that write or read the tables of several components.  A     *)
(* scene is one of the modules; it runs from its initial states while the  *)
(* tables of the others stay as they are.  Instances for TLC.              *)
(***************************************************************************)
EXTENDS MonthlyBills, Timetables, Courses, Dashboards, Assignments,
        WeeklyReports, Notifications, TLC

CONSTANTS Scene, h1, h2, c1, c2, m1, m2

VARIABLE scene

vars == <<scene, monthVars, timetableVars, courseVars, dashVars,
          taskVars, reportWeekVars, noticeVars>>

\* Monthly bills: the price rises on the second day, or does not; a slip from
\* before slips had dates, or none
Tariffs ==
  {[d \in LessonDay |-> 2], [d \in LessonDay |-> IF d = 1 THEN 2 ELSE 3]}
LessonMonth == [d \in LessonDay |-> IF d < 3 THEN 1 ELSE 2]
NoSlips ==
  {{}, {[who |-> "q", month |-> 1, from |-> Unknown, to |-> Unknown, period |-> FALSE,
         items |-> {[class |-> "c", rate |-> 1, total |-> 1]}, total |-> 1,
         lessons |-> {}, flat |-> FALSE]}}
SomeLessons ==
  {[who |-> "p", class |-> "c", day |-> 1, there |-> FALSE],
   [who |-> "p", class |-> "c", day |-> 2, there |-> TRUE]}
SomeDates == {[from |-> 1, to |-> 3]}

\* Timetables: a lesson, and a week with one that overlaps it and one that does not
Slot(weekday, start, end, room) ==
  [weekday |-> weekday, start |-> start, end |-> end, room |-> room]
SomeTimetables ==
  {{Slot(1, 1, 3, "r")}, {Slot(1, 2, 6, Null), Slot(2, 1, 3, "r")}}
SomeRanges == {<<Null, Null>>, <<1, 1>>, <<2, 2>>}
NoChange ==
  [status |-> Unasked, teacher |-> Unasked, assistant |-> Unasked, range |-> Unasked,
   slots |-> Unasked]
OneChange ==
  {[NoChange EXCEPT !.status = x] : x \in {"Active", "Planning", "Closed"}}
  \union {[NoChange EXCEPT !.teacher = x] : x \in Instructor}
  \union {[NoChange EXCEPT !.assistant = x] : x \in Instructor}
  \union {[NoChange EXCEPT !.range = x] : x \in SomeRanges}
  \union {[NoChange EXCEPT !.slots = x] : x \in SomeTimetables}

\* Dashboards: a class in each month, homework of the first
CourseOfMeeting == [m \in Meeting |-> IF m = "x1" THEN "c1" ELSE "c2"]
DateOfMeeting == [m \in Meeting |-> IF m = "x1" THEN 1 ELSE 2]
Calendar == [d \in CalendarDay |-> IF d < 2 THEN 1 ELSE 2]
HomeworkOfFirst == [w \in Homework |-> "c1"]

\* Weekly reports: a bad lesson and a better one
SentMarks ==
  {[homework |-> "not_done", participation |-> "passive", understanding |-> "not_understood",
    tags |-> {"phone", "talkative"}, score |-> 40],
   [homework |-> "incomplete", participation |-> Unset, understanding |-> Unset,
    tags |-> {"talkative"}, score |-> 40]}
OtherIndexes == <<655, Unset>>

\* Notices: everyone has an account of his own.
OwnAccounts == [p \in Told |-> p]

Init ==
  /\ scene \in Scene
  /\ MonthInit
  /\ (scene # "months" => slip = {} /\ \A d \in LessonDay : tariff[d] = 2)
  /\ TimetableInit /\ (scene # "timetables" => textDates)
  /\ CourseInit
  /\ DashInit /\ (scene # "dashboards" => date = 1)
  /\ TaskInit
  /\ WeekInit
  /\ NoticeInit
  /\ (scene # "weeks" => taught = {} /\ ~longYear /\ \A l \in Taught : seen[l] = "absent")
  /\ (scene = "weeks" => (longYear <=> taught # {}) /\ (taught # {} <=> seen[3] = "present"))

MonthScene ==
  /\ scene = "months" /\ MonthNext
  /\ UNCHANGED <<scene, timetableVars, courseVars, dashVars,
                 taskVars, reportWeekVars, noticeVars>>

TimetableScene ==
  /\ scene = "timetables" /\ TimetableNext
  /\ UNCHANGED <<scene, monthVars, courseVars, dashVars,
                 taskVars, reportWeekVars, noticeVars>>

CourseScene ==
  /\ scene = "courses" /\ CourseNext
  /\ UNCHANGED <<scene, monthVars, timetableVars, dashVars,
                 taskVars, reportWeekVars, noticeVars>>

DashScene ==
  /\ scene = "dashboards" /\ DashNext
  /\ UNCHANGED <<scene, monthVars, timetableVars, courseVars,
                 taskVars, reportWeekVars, noticeVars>>

\* A request overtaken by another is the end: nothing is stated of what follows.
TaskScene ==
  /\ scene = "tasks" /\ ~overtaken /\ TaskNext
  /\ UNCHANGED <<scene, monthVars, timetableVars, courseVars,
                 dashVars, reportWeekVars, noticeVars>>

WeekScene ==
  /\ scene = "weeks" /\ WeekNext
  /\ UNCHANGED <<scene, monthVars, timetableVars, courseVars,
                 dashVars, taskVars, noticeVars>>

\* A request that crossed another is the end here too.
NoticeScene ==
  /\ scene = "notices" /\ ~crossed /\ NoticeNext
  /\ UNCHANGED <<scene, monthVars, timetableVars, courseVars,
                 dashVars, taskVars, reportWeekVars>>

Next ==
  \/ MonthScene \/ TimetableScene \/ CourseScene \/ DashScene
  \/ TaskScene \/ WeekScene \/ NoticeScene

Spec == Init /\ [][Next]_vars

ScreenSymmetry ==
  Permutations({h1, h2}) \union Permutations({c1, c2}) \union Permutations({m1, m2})
=============================================================================
