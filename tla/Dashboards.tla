------------------------------ MODULE Dashboards ------------------------------
(***************************************************************************)
(* What offices, teachers and students are shown of classes, attendance    *)
(* and homework, each view computed by a query of its own, while requests  *)
(* change the tables one after another.  RosterHandlers and                *)
(* SessionHandlers have those requests step by step; here is what they do  *)
(* to the columns the views read.  Lessons are neither planned nor         *)
(* deleted, rows have no scores, and centers and names are left out.       *)
(***************************************************************************)
EXTENDS Integers, FiniteSets, Sums

CONSTANTS
  Attendee,   \* students
  Course,     \* classes
  Meeting,    \* class_sessions
  CourseOf,   \* class of a session
  DateOf,     \* its date
  CalendarDay, CalendarMonth, MonthOfDay,
  Homework,   \* assignments, all published and due
  HomeworkOf, \* class of an assignment
  Stage       \* statuses of a session that staff may choose

ASSUME DashConstants ==
  /\ IsFiniteSet(Attendee) /\ IsFiniteSet(Course) /\ IsFiniteSet(Meeting)
  /\ IsFiniteSet(CalendarMonth) /\ IsFiniteSet(Homework)
  /\ CourseOf \in [Meeting -> Course] /\ DateOf \in [Meeting -> CalendarDay]
  /\ \A d \in CalendarDay : MonthOfDay[d] \in CalendarMonth
  /\ CalendarDay \subseteq Nat /\ \E last \in CalendarDay : \A d \in CalendarDay : d <= last
  /\ \A k \in CalendarMonth : \E d \in CalendarDay : MonthOfDay[d] = k

VARIABLES
  date,       \* today
  member,     \* class_students: status, joined_date, date of updated_at once dropped
  meeting,    \* status, attendance_locked
  mark,       \* student_attendance: "none", or is a row present or absent
  handedIn    \* assignment_submissions

dashVars == <<date, member, meeting, mark, handedIn>>

NotMember == [status |-> "none", joined |-> 0, changed |-> 0]

DashInit ==
  /\ date \in CalendarDay
  /\ member = [e \in Attendee \X Course |-> NotMember]
  /\ meeting = [m \in Meeting |-> [status |-> "Scheduled", locked |-> FALSE]]
  /\ mark = [l \in Meeting \X Attendee |-> "none"]
  /\ handedIn = {}

Enrolled(p, c) == member[<<p, c>>].status = "Active"
EndOfMonth(k) == Max({d \in CalendarDay : MonthOfDay[d] = k})
StartOfMonth(k) == Min({d \in CalendarDay : MonthOfDay[d] = k})
MeetingsIn(c) == {m \in Meeting : CourseOf[m] = c}

-----------------------------------------------------------------------------
(* Requests.                                                                *)

\* Rows of p in lessons M are deleted, missing ones of lessons N added.
Rows(p, M, N) ==
  mark' = [l \in Meeting \X Attendee |->
    IF l \in M \X {p} THEN "none"
    ELSE IF l \in N \X {p} /\ mark[l] = "none" THEN "absent" ELSE mark[l]]

\* enrollStudent: from today, whatever the row has been
Enrol(p, c) ==
  /\ ~Enrolled(p, c)
  /\ member' = [member EXCEPT ![<<p, c>>] = [status |-> "Active", joined |-> date, changed |-> 0]]
  /\ Rows(p, {}, {m \in MeetingsIn(c) : DateOf[m] >= date /\ ~meeting[m].locked})
  /\ UNCHANGED <<date, meeting, handedIn>>

\* AttendanceDeletionGuard
Disposable(m, p) ==
  meeting[m].status = "Scheduled" /\ ~meeting[m].locked /\ mark[<<m, p>>] = "absent"

\* removeStudent
RemoveStudent(p, c) ==
  /\ Enrolled(p, c)
  /\ member' = [member EXCEPT ![<<p, c>>].status = "Dropped", ![<<p, c>>].changed = date]
  /\ Rows(p, {m \in MeetingsIn(c) : DateOf[m] >= date /\ Disposable(m, p)}, {})
  /\ UNCHANGED <<date, meeting, handedIn>>

\* updateStudentJoinedDate
MoveJoined(p, c, from) ==
  LET before == {m \in MeetingsIn(c) : DateOf[m] < from}
  IN /\ Enrolled(p, c)
     /\ \A m \in before : mark[<<m, p>>] # "none" => Disposable(m, p)
     /\ member' = [member EXCEPT ![<<p, c>>].joined = from]
     /\ Rows(p, before, MeetingsIn(c) \ before)
     /\ UNCHANGED <<date, meeting, handedIn>>

\* A teacher or a clock marks a student.
MarkStudent(m, p, v) ==
  /\ mark[<<m, p>>] # v
  /\ mark' = [mark EXCEPT ![<<m, p>>] = v]
  /\ UNCHANGED <<date, member, meeting, handedIn>>

\* startAttendance, revertToScheduled, updateSession
SetStage(m, status) ==
  /\ ~meeting[m].locked /\ meeting[m].status # status
  /\ meeting' = [meeting EXCEPT ![m].status = status]
  /\ UNCHANGED <<date, member, mark, handedIn>>

\* completeSession
FinishMeeting(m) ==
  /\ ~meeting[m].locked
  /\ meeting' = [meeting EXCEPT ![m] = [status |-> "Completed", locked |-> TRUE]]
  /\ UNCHANGED <<date, member, mark, handedIn>>

HandIn(p, w) ==
  /\ Enrolled(p, HomeworkOf[w])
  /\ handedIn' = handedIn \union {<<p, w>>}
  /\ UNCHANGED <<date, member, meeting, mark>>

NextDay ==
  /\ date + 1 \in CalendarDay
  /\ date' = date + 1
  /\ UNCHANGED <<member, meeting, mark, handedIn>>

DashNext ==
  \/ \E p \in Attendee, c \in Course :
       Enrol(p, c) \/ RemoveStudent(p, c) \/ \E from \in CalendarDay : MoveJoined(p, c, from)
  \/ \E m \in Meeting :
       \/ \E p \in Attendee, v \in {"present", "absent"} : MarkStudent(m, p, v)
       \/ FinishMeeting(m) \/ \E status \in Stage : SetStage(m, status)
  \/ \E p \in Attendee, w \in Homework : HandIn(p, w)
  \/ NextDay

DashSpec == DashInit /\ [][DashNext]_dashVars

-----------------------------------------------------------------------------
(* Reports of the office on attendance.                                     *)

\* attendanceWhereClause
InReport(m) ==
  \/ meeting[m].status = "Completed" \/ meeting[m].locked
  \/ meeting[m].status = "Scheduled" /\ DateOf[m] <= date

\* Mutant: the copy lacks lessons nobody has started.
InStudentReport_Started(m) == meeting[m].status = "Completed" \/ meeting[m].locked

\* getStudentAttendanceReport has a copy of it.
InStudentReport(m) ==
  \/ meeting[m].status = "Completed" \/ meeting[m].locked
  \/ meeting[m].status = "Scheduled" /\ DateOf[m] <= date

\* Rows with mark v in lessons M
MarkedRows(M, P, v) == {l \in M \X P : mark[l] = v}

InMonth(k) == {m \in Meeting : MonthOfDay[DateOf[m]] = k}

\* getAttendanceSummary, of all time
Summary(v) == Cardinality(MarkedRows({m \in Meeting : InReport(m)}, Attendee, v))

\* getAttendanceByClass
ByClass(c, v) == Cardinality(MarkedRows({m \in MeetingsIn(c) : InReport(m)}, Attendee, v))

\* getAttendanceByMonth
ByMonth(k, v) == Cardinality(MarkedRows({m \in InMonth(k) : InReport(m)}, Attendee, v))

\* getTopAbsentStudents, getTopPresentStudents
Ranked(p, v) == Cardinality(MarkedRows({m \in Meeting : InReport(m)}, {p}, v))

StudentReport(p, c, v) == Cardinality(MarkedRows({m \in MeetingsIn(c) : InStudentReport(m)}, {p}, v))

\* getRiskInputs: locked lessons from the joined date on
RiskRows(p) ==
  {m \in Meeting : /\ Enrolled(p, CourseOf[m]) /\ meeting[m].locked /\ mark[<<m, p>>] # "none"
                   /\ DateOf[m] >= member[<<p, CourseOf[m]>>].joined}

-----------------------------------------------------------------------------
(* Open lessons.                                                            *)

\* getUnlockedSessions, getTasks
Unlocked(m) == DateOf[m] < date /\ ~meeting[m].locked /\ meeting[m].status # "Cancelled"

\* getClassesStats: lessons of a class up to today
Finished(c) ==
  {m \in MeetingsIn(c) : DateOf[m] <= date /\ (meeting[m].status = "Completed" \/ meeting[m].locked)}

\* getTeacherData, of a lesson whose hour has come
TeacherColor(m) == IF meeting[m].status = "Completed" \/ meeting[m].locked THEN "green" ELSE "red"

-----------------------------------------------------------------------------
(* Homework.                                                                *)

Assigned(c) == {w \in Homework : HomeworkOf[w] = c}

Pos(n) == IF n > 0 THEN n ELSE 0

\* getAssignmentSummary: what members of today were to hand in, less what anybody did
OfficeMissing ==
  Pos(Sum(Homework, [w \in Homework |-> Cardinality({p \in Attendee : Enrolled(p, HomeworkOf[w])})])
      - Cardinality(handedIn))

\* getStudentData
PortalMissing(p) ==
  LET W == {w \in Homework : Enrolled(p, HomeworkOf[w])}
  IN Pos(Cardinality(W) - Cardinality({w \in W : <<p, w>> \in handedIn}))

-----------------------------------------------------------------------------
(* Lessons of a student.                                                    *)

\* getStudentData: lessons of the classes he is in, from the joined date on
PortalLessons(p) ==
  {m \in Meeting : Enrolled(p, CourseOf[m]) /\ DateOf[m] >= member[<<p, CourseOf[m]>>].joined}

PortalColor(m, p) ==
  CASE mark[<<m, p>>] = "present" -> "green"
    [] mark[<<m, p>>] = "absent" -> "red"
    [] OTHER -> IF meeting[m].status \in {"Completed", "In-Progress"} THEN "gray" ELSE "blue"

\* Lessons before the day the enrolment last changed
Attended(d, row) == d < row.changed

\* getStudentSessions, for staff
ScheduleOf(p) ==
  {m \in Meeting :
     LET row == member[<<p, CourseOf[m]>>]
     IN \/ row.status = "Active" /\ DateOf[m] >= row.joined
        \/ /\ row.status = "Dropped"
           /\ \/ mark[<<m, p>>] # "none"
              \/ DateOf[m] >= row.joined /\ Attended(DateOf[m], row)}

\* Mutant: a student who left is shown so in every month.
LeftAfter_Never(row, k) == FALSE

LeftAfter(row, k) == row.changed > EndOfMonth(k)

\* getClassStudentsStats: the members of a class in a month with their status then
StatsOf(c, k) ==
  {[student |-> p,
    status |-> IF member[<<p, c>>].status = "Dropped" /\ LeftAfter(member[<<p, c>>], k) THEN "Active"
               ELSE member[<<p, c>>].status] :
     p \in {q \in Attendee :
              /\ member[<<q, c>>].status # "none" /\ member[<<q, c>>].joined <= EndOfMonth(k)
              /\ ~(member[<<q, c>>].status = "Dropped" /\ member[<<q, c>>].changed < StartOfMonth(k))}}

-----------------------------------------------------------------------------
\* Views with queries of their own tell the same story.  Every sum of the
\* attendance reports is the same, and holds what a student's risk is computed
\* from.  A lesson a student sees as attended counts as attended for the office
\* unless it is to come, under way or cancelled.  A lesson of the past is finished for the
\* teacher, open for the office, or cancelled.  The office misses no homework
\* that no student misses.
ViewsAgree ==
  /\ \A v \in {"present", "absent"} :
       /\ Summary(v) = Sum(Course, [c \in Course |-> ByClass(c, v)])
       /\ Summary(v) = Sum(CalendarMonth, [k \in CalendarMonth |-> ByMonth(k, v)])
       /\ \A p \in Attendee : Ranked(p, v) = Sum(Course, [c \in Course |-> StudentReport(p, c, v)])
       /\ \A c \in Course :
            ByClass(c, v) = Sum(Attendee, [p \in Attendee |-> StudentReport(p, c, v)])
  /\ \A p \in Attendee :
       /\ \A m \in RiskRows(p) : InReport(m)
       /\ \A m \in PortalLessons(p) :
            PortalColor(m, p) = "green" /\ DateOf[m] <= date /\ meeting[m].status \in {"Scheduled", "Completed"}
              => InStudentReport(m)
  /\ \A m \in Meeting : DateOf[m] < date =>
       /\ m \in Finished(CourseOf[m]) \/ Unlocked(m) \/ meeting[m].status = "Cancelled"
       /\ TeacherColor(m) = "red" => Unlocked(m) \/ meeting[m].status = "Cancelled"
  /\ OfficeMissing <= Sum(Attendee, [p \in Attendee |-> PortalMissing(p)])

\* The joined date of p in c moves, or p enrols again.
Rejoins(p, c) ==
  \/ member[<<p, c>>].status = "Dropped" /\ member'[<<p, c>>].status = "Active"
  \/ member[<<p, c>>].status = "Active" /\ member[<<p, c>>].joined # member'[<<p, c>>].joined

\* What was so stays so: members of a month that is over keep the status they had
\* in it, and lessons of the past stay in the schedule of a student, whoever
\* leaves the class later - only a new joined date or enrolment takes them out.
PastViewsKept ==
  [][/\ \A c \in Course, k \in CalendarMonth :
          EndOfMonth(k) < date /\ (\A p \in Attendee : ~Rejoins(p, c)) => StatsOf(c, k)' = StatsOf(c, k)
     /\ \A p \in Attendee, m \in Meeting :
          m \in ScheduleOf(p) /\ DateOf[m] < date /\ ~Rejoins(p, CourseOf[m]) => m \in ScheduleOf(p)']_dashVars
=============================================================================
