-------------------------- MODULE LessonsAloneProof --------------------------
(***************************************************************************)
(* The lessons of a class while requests are served one after the other:   *)
(* bills, payrolls, locks and the roster agree with the sessions, whatever *)
(* the sequence of attendance, leave, clock, roster and billing requests.  *)
(***************************************************************************)
EXTENDS LessonsProof

-----------------------------------------------------------------------------
(* What a request has read is still so.                                    *)

\* An attendance row is always of a session that is there.
AttendanceHeld == \A l \in Lesson : att[l] # Absent => session[l[1]] # Absent

\* The sessions handler h has copied are as it read them, and unlocked where
\* its guards asked for that.
CopiesCurrent(h) ==
  /\ req[h].pc \in {"saveStarted", "revertRows", "revertSave", "saveCompleted",
                    "saveUpdated", "generate"} =>
       \A s \in DOMAIN req[h].copy : session[s] = req[h].copy[s]
  /\ req[h].pc \in {"saveStarted", "revertRows", "revertSave", "saveUpdated", "generate"} =>
       \A s \in DOMAIN req[h].copy : ~req[h].copy[s].locked

\* So is the attendance row it has read ...
RowCurrent(h) ==
  /\ req[h].pc \in {"saveMatch", "saveMark"} =>
       \A l \in req[h].gone : l[1] = req[h].on /\ att[l] = req[h].row
  /\ At(h, "saveMatch") => ClockMayWrite(req[h].row)
  /\ At(h, "saveApproved") =>
       \A st \in req[h].todo : att[<<req[h].on, st>>] = req[h].row

\* ... and the session it marks or reverts is not charged.
LessonUnbilled(h) ==
  At(h, "revertRows") \/ (req[h].pc \in {"readMark", "saveMark"} /\ req[h].op # "grade") =>
    \A st \in Student :
      att[<<req[h].on, st>>] # Absent => att[<<req[h].on, st>>].bill = None

\* What it is about to charge or to pay is neither charged nor paid.
SourcesCurrent(h) ==
  /\ At(h, "saveBills") =>
       \A l \in req[h].rows :
         /\ att[l] # Absent /\ att[l].bill = None
         /\ att[l].present = (l \in req[h].gone)
  /\ At(h, "saveWages") =>
       /\ period[req[h].on] = "none"
       /\ \A l \in req[h].rows :
            session[l[1]] # Absent /\ session[l[1]].wage = None

Remembers(h) ==
  CopiesCurrent(h) /\ RowCurrent(h) /\ LessonUnbilled(h) /\ SourcesCurrent(h)

\* A salary period that has not been created pays nothing.
FreshWages == \A p \in SalaryPeriod : period[p] = "none" => payroll[p] = {}
\* What the three invariants need of a state, but for themselves
AloneInv(h) ==
  /\ LessonInv /\ Remembers(h) /\ AttendanceHeld /\ FreshWages
  /\ ChargesMatchAttendance /\ PayrollMatchesSessions

-----------------------------------------------------------------------------
(* Steps that leave bills, wages and locks alone                           *)

Unbilled(r) == r = Absent \/ r.bill = None

Unwaged(r) == r = Absent \/ r.wage = None

\* A charged row is neither deleted nor marked otherwise, and no other row is
\* charged.
BillKept(l) ==
  \/ Unbilled(att[l]) /\ Unbilled(att'[l])
  \/ /\ att[l] # Absent /\ att'[l] # Absent
     /\ att'[l].bill = att[l].bill /\ att'[l].present = att[l].present

WageKept(s) ==
  \/ Unwaged(session[s]) /\ Unwaged(session'[s])
  \/ /\ session[s] # Absent /\ session'[s] # Absent
     /\ session'[s].wage = session[s].wage

LockKept(s) ==
  session[s] # Absent /\ session[s].locked => session'[s] # Absent /\ session'[s].locked

QuietTables ==
  /\ \A l \in Lesson : BillKept(l)
  /\ \A s \in Session : WageKept(s) /\ LockKept(s)
  /\ AttendanceHeld'
  /\ MoneyKept

QuietStep(h) == QuietTables /\ Remembers(h)'

\* What a step of the only handler does
AloneStep(h) ==
  /\ AttendanceHeld' /\ FreshWages' /\ Remembers(h)'
  /\ ChargesMatchAttendance' /\ PayrollMatchesSessions'
  /\ \A s \in Session : LockKept(s)

\* If no charged row changes, the bills go on to charge the marked ones.
LEMMA BillsKeepCharges ==
  ASSUME AttendanceHeld, AttendanceHeld', ChargesMatchAttendance, charges' = charges,
         \A l \in Lesson : BillKept(l)
  PROVE  ChargesMatchAttendance'
<1>1. ASSUME NEW p \in TuitionPeriod
      PROVE  charges'[p] = {<<l[1], l[2], att'[l].present>> :
                              l \in {k \in Rows(Held)' : att'[k].bill = p}}
  <2> DEFINE A == {k \in Rows(Held) : att[k].bill = p}
             B == {k \in Rows(Held)' : att'[k].bill = p}
  <2>1. p # None
    BY NoRowConstants
  <2>2. \A l \in Lesson : l \in Rows(Held) <=> att[l] # Absent
    BY DEF Rows, Held, Lesson, AttendanceHeld
  <2>3. \A l \in Lesson : l \in Rows(Held)' <=> att'[l] # Absent
    BY DEF Rows, Held, Lesson, AttendanceHeld
  <2>4. A \subseteq Lesson /\ B \subseteq Lesson
    BY DEF Rows, Held, Lesson
  <2>5. A = B /\ \A l \in A : att'[l].present = att[l].present
    BY <2>1, <2>2, <2>3, <2>4 DEF BillKept, Unbilled
  <2>6. charges[p] = {<<l[1], l[2], att[l].present>> : l \in A}
    BY DEF ChargesMatchAttendance
  <2> QED
    BY <2>5, <2>6
<1> QED
  BY <1>1 DEF ChargesMatchAttendance

\* If no paid session changes, the payrolls go on to pay the marked ones.
LEMMA WagesKeepPayroll ==
  ASSUME PayrollMatchesSessions, payroll' = payroll, \A s \in Session : WageKept(s)
  PROVE  PayrollMatchesSessions'
<1>1. ASSUME NEW p \in SalaryPeriod
      PROVE  payroll'[p] = {s \in Held' : session'[s].wage = p}
  <2>1. p # None
    BY NoRowConstants
  <2> QED
    BY <2>1 DEF PayrollMatchesSessions, Held, WageKept, Unwaged
<1> QED
  BY <1>1 DEF PayrollMatchesSessions

\* Such a step keeps bills and payrolls as they were.
LEMMA QuietKeeps ==
  ASSUME NEW h \in Handler, AloneInv(h), QuietStep(h)
  PROVE  AloneStep(h)
<1>1. ChargesMatchAttendance' /\ PayrollMatchesSessions'
  BY BillsKeepCharges, WagesKeepPayroll DEF AloneInv, QuietStep, QuietTables, MoneyKept
<1>2. FreshWages'
  BY DEF AloneInv, FreshWages, QuietStep, QuietTables, MoneyKept
<1> QED
  BY <1>1, <1>2 DEF AloneStep, QuietStep, QuietTables

\* A step that writes no table
LEMMA ReadQuietly ==
  ASSUME AttendanceHeld, UNCHANGED tables
  PROVE  QuietTables
<1> USE DEF tables
<1>1. \A l \in Lesson : BillKept(l)
  BY DEF BillKept, Unbilled
<1>2. \A s \in Session : WageKept(s) /\ LockKept(s)
  BY DEF WageKept, Unwaged, LockKept
<1>3. AttendanceHeld'
  BY DEF AttendanceHeld
<1> QED
  BY <1>1, <1>2, <1>3 DEF QuietTables, MoneyKept

\* A session is saved with the wage it has, and locked if it was.
LEMMA SessionSavedQuietly ==
  ASSUME TypeInv, AttendanceHeld, NEW s \in Session, NEW r \in SessionRow,
         session[s] \in SessionRow, r.wage = session[s].wage,
         session[s].locked => r.locked, SaveSession(s, r)
  PROVE  QuietTables
<1>1. /\ session'[s] = r /\ \A x \in Session \ {s} : session'[x] = session[x]
      /\ r # Absent /\ session[s] # Absent
      /\ UNCHANGED <<att, period, order, charges, payroll>>
  BY NoRowConstants DEF SaveSession, TypeInv, TypeOK
<1>2. \A l \in Lesson : BillKept(l)
  BY <1>1 DEF BillKept, Unbilled
<1>3. \A x \in Session : WageKept(x) /\ LockKept(x)
  BY <1>1 DEF WageKept, Unwaged, LockKept
<1>4. AttendanceHeld'
  BY <1>1 DEF AttendanceHeld, Lesson
<1> QED
  BY <1>1, <1>2, <1>3, <1>4 DEF QuietTables, MoneyKept

\* Attendance rows are written so that no charge is touched.
LEMMA RowsSavedQuietly ==
  ASSUME TypeInv, AttendanceHeld, MoneyKept,
         \A s \in Session : session[s] # Absent => session'[s] # Absent,
         \A s \in Session : WageKept(s) /\ LockKept(s),
         \A l \in Lesson :
           \/ att'[l] = att[l]
           \/ att'[l] = Absent /\ Unbilled(att[l])
           \/ BillKept(l) /\ session'[l[1]] # Absent
  PROVE  QuietTables
<1>1. \A l \in Lesson : BillKept(l)
  BY DEF BillKept, Unbilled
<1>2. AttendanceHeld'
  BY DEF AttendanceHeld, Lesson
<1> QED
  BY <1>1, <1>2 DEF QuietTables

\* One of them is saved, in a session that is there.
LEMMA RowSavedQuietly ==
  ASSUME TypeInv, AttendanceHeld, NEW l \in Lesson, NEW r \in AttendanceRow,
         session[l[1]] # Absent, SaveAttendanceRow(l, r),
         \/ Unbilled(att[l]) /\ r.bill = None
         \/ att[l] # Absent /\ r.bill = att[l].bill /\ r.present = att[l].present
  PROVE  QuietTables
<1>1. /\ att'[l] = r /\ \A k \in Lesson \ {l} : att'[k] = att[k]
      /\ r # Absent /\ session' = session /\ MoneyKept
  BY NoRowConstants DEF SaveAttendanceRow, TypeInv, TypeOK, MoneyKept
<1>2. \A s \in Session : WageKept(s) /\ LockKept(s)
  BY <1>1 DEF WageKept, Unwaged, LockKept
<1>3. BillKept(l) /\ session'[l[1]] # Absent
  BY <1>1 DEF BillKept, Unbilled
<1> QED
  BY <1>1, <1>2, <1>3, RowsSavedQuietly

\* Rows are added where there are none, and deletable ones removed.
LEMMA RowsChangedQuietly ==
  ASSUME TypeInv, AttendanceHeld, MoneyKept, session' = session,
         \A l \in Lesson :
           \/ att'[l] = att[l]
           \/ att'[l] = Absent /\ (att[l] # Absent => RowDeletable(att[l]))
           \/ att'[l] = NewAttendance /\ att[l] = Absent /\ session[l[1]] # Absent
  PROVE  QuietTables
<1>1. \A s \in Session : WageKept(s) /\ LockKept(s)
  BY DEF WageKept, Unwaged, LockKept
<1>2. \A l \in Lesson :
        \/ att'[l] = att[l]
        \/ att'[l] = Absent /\ Unbilled(att[l])
        \/ BillKept(l) /\ session'[l[1]] # Absent
  BY NewRows DEF BillKept, Unbilled, RowDeletable
<1> QED
  BY <1>1, <1>2, RowsSavedQuietly

\* Sessions are deleted with their rows.
LEMMA RemovedQuietly ==
  ASSUME TypeInv, AttendanceHeld, NEW S \in SUBSET Held, RemoveSessions(S),
         \A s \in S : SessionDeletable(s)
  PROVE  QuietTables
<1>1. /\ \A s \in Session : session'[s] = IF s \in S THEN Absent ELSE session[s]
      /\ \A l \in Lesson : att'[l] = IF l \in Rows(S) THEN Absent ELSE att[l]
      /\ MoneyKept
  BY DEF RemoveSessions, DeleteRows, MoneyKept
<1>2. \A l \in Lesson : l[1] \in S => att'[l] = Absent /\ Unbilled(att[l])
  <2> SUFFICES ASSUME NEW l \in Lesson, l[1] \in S
               PROVE  att'[l] = Absent /\ Unbilled(att[l])
    OBVIOUS
  <2>1. att[l] # Absent => l \in Rows(S) /\ l \in Rows({l[1]})
    BY DEF Rows, Lesson
  <2> QED
    BY <1>1, <2>1 DEF SessionDeletable, RowDeletable, Unbilled
<1>3. \A l \in Lesson : l[1] \notin S => att'[l] = att[l]
  BY <1>1 DEF Rows
<1>4. \A l \in Lesson : BillKept(l)
  BY <1>2, <1>3 DEF BillKept, Unbilled
<1>5. \A s \in Session : WageKept(s) /\ LockKept(s)
  BY <1>1 DEF WageKept, Unwaged, LockKept, SessionDeletable, Waged
<1>6. AttendanceHeld'
  BY <1>1, <1>2, <1>3 DEF AttendanceHeld, Lesson
<1> QED
  BY <1>1, <1>4, <1>5, <1>6 DEF QuietTables

-----------------------------------------------------------------------------
(* Requests begin                                                          *)

\* Statements before which a request remembers what it has read
Remembering ==
  {"saveStarted", "revertRows", "revertSave", "saveCompleted", "saveUpdated", "generate",
   "saveMatch", "readMark", "saveMark", "saveApproved", "saveBills", "saveWages"}

\* At all others it relies on nothing.
LEMMA NothingRemembered ==
  ASSUME NEW h \in Handler, req'[h].pc \notin Remembering
  PROVE  Remembers(h)'
  BY DEF Remembering, Remembers, CopiesCurrent, RowCurrent, LessonUnbilled, SourcesCurrent, At

\* A handler that has answered is idle.
LEMMA AnsweredQuietly ==
  ASSUME TypeInv, NEW h \in Handler, Respond(h)
  PROVE  Remembers(h)'
<1>1. req'[h] = Idle
  BY DEF TypeInv, Respond
<1> QED
  BY <1>1, IdleTyped, NothingRemembered DEF Remembering

\* An error is quiet.
LEMMA RefuseQuietly ==
  ASSUME TypeInv, AttendanceHeld, NEW h \in Handler, Refuse(h)
  PROVE  QuietStep(h)
  BY AnsweredQuietly, ReadQuietly DEF Refuse, QuietStep

\* A step that goes on to a statement that relies on nothing.
LEMMA GoesOnQuietly ==
  ASSUME TypeInv, NEW h \in Handler, NEW fields, Step(h, fields),
         "pc" \in DOMAIN fields, fields.pc \notin Remembering
  PROVE  Remembers(h)'
<1>1. req'[h].pc = fields.pc
  BY DEF TypeInv, Step, Idle
<1> QED
  BY <1>1, NothingRemembered

\* No row of the session is charged.
LEMMA UnsettledRows ==
  ASSUME NEW s \in Session, ~Billed(s)
  PROVE  \A st \in Student : att[<<s, st>>] # Absent => att[<<s, st>>].bill = None
  BY DEF Billed, Rows

\* Requests that copy sessions
LEMMA CopyingBegins ==
  ASSUME TypeInv, AttendanceHeld, NEW h \in Handler
  PROVE  /\ \A s \in Session : StartAttendance(h, s) => QuietStep(h)
         /\ \A s \in Session : RevertToScheduled(h, s) => QuietStep(h)
         /\ \A s \in Session : CompleteSession(h, s) => QuietStep(h)
         /\ \A s \in Session : UpdateSession(h, s) => QuietStep(h)
<1> USE DEF TypeInv, Begin, Idle, At, Remembers, CopiesCurrent, RowCurrent, LessonUnbilled,
            SourcesCurrent
<1>1. ASSUME NEW s \in Session, StartAttendance(h, s) PROVE Remembers(h)' /\ UNCHANGED tables
  BY <1>1 DEF StartAttendance, OnlySession, Editable, tables
<1>2. ASSUME NEW s \in Session, RevertToScheduled(h, s) PROVE Remembers(h)' /\ UNCHANGED tables
  BY <1>2, UnsettledRows DEF RevertToScheduled, OnlySession, Editable, Unsettled, tables
<1>3. ASSUME NEW s \in Session, CompleteSession(h, s) PROVE Remembers(h)' /\ UNCHANGED tables
  BY <1>3 DEF CompleteSession, OnlySession, tables
<1>4. ASSUME NEW s \in Session, UpdateSession(h, s) PROVE Remembers(h)' /\ UNCHANGED tables
  BY <1>4 DEF UpdateSession, Editable, tables
<1> HIDE DEF TypeInv, Begin, Idle, At, Remembers, CopiesCurrent, RowCurrent, LessonUnbilled,
             SourcesCurrent
<1> QED
  BY <1>1, <1>2, <1>3, <1>4, ReadQuietly DEF QuietStep

\* Requests that mark students, or look up what can be charged and paid
LEMMA MarkingBegins ==
  ASSUME TypeInv, AttendanceHeld, NEW h \in Handler
  PROVE  /\ \A s \in Session, S \in SUBSET Student : SaveAttendance(h, s, S) => QuietStep(h)
         /\ \A s \in Session, S \in SUBSET Student : OverrideAttendance(h, s, S) => QuietStep(h)
         /\ \A s \in Session, S \in SUBSET Student : SaveEvaluations(h, s, S) => QuietStep(h)
         /\ \A p \in TuitionPeriod, S \in SUBSET Student :
              FindTuitionSources(h, p, S) => QuietStep(h)
         /\ \A p \in SalaryPeriod : FindSalarySources(h, p) => QuietStep(h)
<1> USE DEF TypeInv, Begin, Idle, At, Remembers, CopiesCurrent, RowCurrent, LessonUnbilled,
            SourcesCurrent
<1>1. ASSUME NEW s \in Session, NEW S \in SUBSET Student, SaveAttendance(h, s, S)
      PROVE  Remembers(h)' /\ UNCHANGED tables
  BY <1>1, UnsettledRows DEF SaveAttendance, MayMark, Editable, Unsettled, tables
<1>2. ASSUME NEW s \in Session, NEW S \in SUBSET Student, OverrideAttendance(h, s, S)
      PROVE  Remembers(h)' /\ UNCHANGED tables
  BY <1>2, UnsettledRows DEF OverrideAttendance, Unsettled, tables
<1>3. ASSUME NEW s \in Session, NEW S \in SUBSET Student, SaveEvaluations(h, s, S)
      PROVE  Remembers(h)' /\ UNCHANGED tables
  BY <1>3 DEF SaveEvaluations, tables
<1>4. ASSUME NEW p \in TuitionPeriod, NEW S \in SUBSET Student, FindTuitionSources(h, p, S)
      PROVE  Remembers(h)' /\ UNCHANGED tables
  BY <1>4 DEF FindTuitionSources, Chargeable, tables, TypeOK, AttendanceRow, Held, Lesson
<1>5. ASSUME NEW p \in SalaryPeriod, FindSalarySources(h, p)
      PROVE  Remembers(h)' /\ UNCHANGED tables
  BY <1>5 DEF FindSalarySources, FreshPeriod, Payable, Waged, Held, tables
<1> HIDE DEF TypeInv, Begin, Idle, At, Remembers, CopiesCurrent, RowCurrent, LessonUnbilled,
             SourcesCurrent
<1> QED
  BY <1>1, <1>2, <1>3, <1>4, <1>5, ReadQuietly DEF QuietStep

\* Requests that begin with a statement that relies on nothing
LEMMA OthersBegin ==
  ASSUME TypeInv, AttendanceHeld, NEW h \in Handler
  PROVE  /\ \A s \in Session, st \in Student : ClockEvent(h, s, st) => QuietStep(h)
         /\ \A s \in Session : DeleteSession(h, s) => QuietStep(h)
         /\ RegenerateFutureSessions(h) => QuietStep(h)
         /\ \A st \in Student : RemoveStudent(h, st) => QuietStep(h)
         /\ \A S \in SUBSET Student, from \in JoinDays :
              UpdateJoinedDate(h, S, from) => QuietStep(h)
         /\ \A s \in Session : CreateAdhocSession(h, s) => QuietStep(h)
         /\ \A s \in Session, st \in Student : SubmitLeave(h, s, st) => QuietStep(h)
         /\ \A s \in Session, st \in Student : ReviewLeave(h, s, st) => QuietStep(h)
         /\ \A s \in Session, st \in Student : CancelLeave(h, s, st) => QuietStep(h)
<1> USE DEF TypeInv, Begin, Idle, Remembering
<1>1. ASSUME NEW s \in Session, NEW st \in Student, ClockEvent(h, s, st)
      PROVE  req'[h].pc \notin Remembering /\ UNCHANGED tables
  BY <1>1 DEF ClockEvent
<1>2. ASSUME NEW s \in Session, DeleteSession(h, s)
      PROVE  req'[h].pc \notin Remembering /\ UNCHANGED tables
  BY <1>2 DEF DeleteSession
<1>3. ASSUME RegenerateFutureSessions(h)
      PROVE  req'[h].pc \notin Remembering /\ UNCHANGED tables
  BY <1>3 DEF RegenerateFutureSessions, Regeneration
<1>4. ASSUME NEW st \in Student, RemoveStudent(h, st)
      PROVE  req'[h].pc \notin Remembering /\ UNCHANGED tables
  BY <1>4 DEF RemoveStudent
<1>5. ASSUME NEW S \in SUBSET Student, NEW from \in JoinDays, UpdateJoinedDate(h, S, from)
      PROVE  req'[h].pc \notin Remembering /\ UNCHANGED tables
  BY <1>5 DEF UpdateJoinedDate
<1>6. ASSUME NEW s \in Session, CreateAdhocSession(h, s)
      PROVE  req'[h].pc \notin Remembering /\ UNCHANGED tables
  BY <1>6 DEF CreateAdhocSession
<1>7. ASSUME NEW s \in Session, NEW st \in Student, SubmitLeave(h, s, st)
      PROVE  req'[h].pc \notin Remembering /\ UNCHANGED tables
  BY <1>7 DEF SubmitLeave
<1>8. ASSUME NEW s \in Session, NEW st \in Student, ReviewLeave(h, s, st)
      PROVE  req'[h].pc \notin Remembering /\ UNCHANGED tables
  BY <1>8 DEF ReviewLeave
<1>9. ASSUME NEW s \in Session, NEW st \in Student, CancelLeave(h, s, st)
      PROVE  req'[h].pc \notin Remembering /\ UNCHANGED tables
  BY <1>9 DEF CancelLeave
<1> HIDE DEF TypeInv, Begin, Idle, Remembering
<1> QED
  BY <1>1, <1>2, <1>3, <1>4, <1>5, <1>6, <1>7, <1>8, <1>9, NothingRemembered, ReadQuietly
  DEF QuietStep

-----------------------------------------------------------------------------
(* Sessions are written                                                    *)

\* The columns that are saved leave the wage, and the lock unless it is set.
LEMMA SavedColumns ==
  ASSUME NEW r \in SessionRow, NEW status \in SessionStatus
  PROVE  /\ [r EXCEPT !.status = status].wage = r.wage
         /\ [r EXCEPT !.status = status].locked = r.locked
         /\ [r EXCEPT !.status = status, !.locked = TRUE].wage = r.wage
         /\ [r EXCEPT !.status = status, !.locked = TRUE].locked
         /\ [r EXCEPT !.status = status, !.locked = FALSE].wage = r.wage
<1>1. /\ [r EXCEPT !.status = status] \in SessionRow
      /\ [r EXCEPT !.status = status].wage = r.wage
      /\ [r EXCEPT !.status = status].locked = r.locked
  BY DEF SessionRow
<1>2. ASSUME NEW q \in SessionRow, NEW b \in BOOLEAN
      PROVE  [q EXCEPT !.locked = b].wage = q.wage /\ [q EXCEPT !.locked = b].locked = b
  BY DEF SessionRow
<1>3. /\ [[r EXCEPT !.status = status] EXCEPT !.locked = TRUE].wage = r.wage
      /\ [[r EXCEPT !.status = status] EXCEPT !.locked = TRUE].locked = TRUE
      /\ [[r EXCEPT !.status = status] EXCEPT !.locked = FALSE].wage = r.wage
  BY <1>1, <1>2
<1> QED
  BY <1>1, <1>3

\* start, revert, complete and update save a copy that is current.
LEMMA CopiesSavedQuietly ==
  ASSUME TypeInv, AttendanceHeld, NEW h \in Handler, Remembers(h)
  PROVE  /\ SaveStarted(h) => QuietStep(h)
         /\ RevertSave(h) => QuietStep(h)
         /\ SaveCompleted(h) => QuietStep(h)
         /\ SaveUpdated(h) => QuietStep(h)
<1>1. ASSUME req[h].pc \in {"saveStarted", "revertSave", "saveCompleted", "saveUpdated"},
             NEW s \in DOMAIN req[h].copy
      PROVE  s \in Session /\ session[s] = req[h].copy[s] /\ session[s] \in SessionRow
  BY <1>1 DEF Remembers, CopiesCurrent, TypeInv, RequestTyped
<1>2. ASSUME req[h].pc \in {"saveStarted", "revertSave", "saveCompleted", "saveUpdated"},
             NEW s \in DOMAIN req[h].copy, NEW status \in SessionStatus,
             \/ SaveSession(s, [req[h].copy[s] EXCEPT !.status = status])
             \/ SaveSession(s, [req[h].copy[s] EXCEPT !.status = status, !.locked = TRUE])
      PROVE  QuietTables
  <2> DEFINE r == req[h].copy[s]
  <2>1. r = session[s] /\ r \in SessionRow /\ s \in Session
    BY <1>1, <1>2
  <2>2. CASE SaveSession(s, [r EXCEPT !.status = status])
    <3> DEFINE q == [r EXCEPT !.status = status]
    <3>1. q \in SessionRow /\ q.wage = r.wage /\ q.locked = r.locked
      BY <2>1, SessionRowTyped, SavedColumns
    <3> HIDE DEF q
    <3>2. SaveSession(s, q)
      BY <2>2 DEF q
    <3> QED
      BY <2>1, <3>1, <3>2, SessionSavedQuietly
  <2>3. CASE SaveSession(s, [r EXCEPT !.status = status, !.locked = TRUE])
    <3> DEFINE q == [r EXCEPT !.status = status, !.locked = TRUE]
    <3>1. q \in SessionRow /\ q.wage = r.wage /\ q.locked
      BY <2>1, SessionRowTyped, SavedColumns
    <3> HIDE DEF q
    <3>2. SaveSession(s, q)
      BY <2>3 DEF q
    <3> QED
      BY <2>1, <3>1, <3>2, SessionSavedQuietly
  <2> QED
    BY <1>2, <2>2, <2>3
<1>3. ASSUME SaveStarted(h) PROVE QuietStep(h)
  <2>1. /\ req[h].pc = "saveStarted" /\ req[h].on \in DOMAIN req[h].copy
        /\ SaveSession(req[h].on, [req[h].copy[req[h].on] EXCEPT !.status = "In-Progress"])
    BY <1>3 DEF SaveStarted, Copy, At, TypeInv, RequestFits
  <2>2. Remembers(h)'
    <3>1. req'[h].pc = "readMatch"
      BY <1>3 DEF SaveStarted, Step, Idle, TypeInv
    <3> QED
      BY <3>1, NothingRemembered DEF Remembering
  <2> QED
    BY <1>2, <2>1, <2>2 DEF SessionStatus, QuietStep
<1>4. ASSUME RevertSave(h) PROVE QuietStep(h)
  <2>1. /\ req[h].pc = "revertSave" /\ req[h].on \in DOMAIN req[h].copy
        /\ SaveSession(req[h].on, [req[h].copy[req[h].on] EXCEPT !.status = "Scheduled"])
    BY <1>4 DEF RevertSave, Copy, At, TypeInv, RequestFits
  <2>2. Remembers(h)'
    BY <1>4, AnsweredQuietly DEF RevertSave
  <2> QED
    BY <1>2, <2>1, <2>2 DEF SessionStatus, QuietStep
<1>5. ASSUME SaveCompleted(h) PROVE QuietStep(h)
  <2>1. CASE WageKnown(Copy(h))
    <3>1. /\ req[h].pc = "saveCompleted" /\ req[h].on \in DOMAIN req[h].copy
          /\ SaveSession(req[h].on, [req[h].copy[req[h].on] EXCEPT
                                       !.status = "Completed", !.locked = TRUE])
      BY <1>5, <2>1 DEF SaveCompleted, Copy, At, TypeInv, RequestFits
    <3>2. Remembers(h)'
      BY <1>5, <2>1, AnsweredQuietly DEF SaveCompleted
    <3> QED
      BY <1>2, <3>1, <3>2 DEF SessionStatus, QuietStep
  <2>2. CASE ~WageKnown(Copy(h))
    BY <1>5, <2>2, RefuseQuietly DEF SaveCompleted
  <2> QED
    BY <2>1, <2>2
<1>6. ASSUME SaveUpdated(h) PROVE QuietStep(h)
  <2>1. CASE DOMAIN req[h].copy = {}
    BY <1>6, <2>1, RefuseQuietly DEF SaveUpdated
  <2>2. CASE DOMAIN req[h].copy # {}
    <3>1. PICK s \in DOMAIN req[h].copy, status \in SessionStatus :
            /\ SaveSession(s, [req[h].copy[s] EXCEPT !.status = status])
            /\ Step(h, [copy |-> [x \in DOMAIN req[h].copy \ {s} |-> req[h].copy[x]]])
      BY <1>6, <2>2 DEF SaveUpdated
    <3>2. req[h].pc = "saveUpdated"
      BY <1>6 DEF SaveUpdated, At
    <3>3. /\ req'[h].pc = "saveUpdated"
          /\ DOMAIN req'[h].copy = DOMAIN req[h].copy \ {s}
          /\ \A x \in DOMAIN req'[h].copy : req'[h].copy[x] = req[h].copy[x]
      BY <3>1, <3>2 DEF Step, Idle, TypeInv
    <3>4. \A x \in DOMAIN req'[h].copy : session'[x] = session[x]
      BY <1>1, <3>1, <3>2, <3>3 DEF SaveSession, TypeInv, TypeOK
    <3>5. Remembers(h)'
      BY <3>2, <3>3, <3>4
      DEF Remembers, CopiesCurrent, RowCurrent, LessonUnbilled, SourcesCurrent, At
    <3> QED
      BY <1>2, <3>1, <3>2, <3>5 DEF QuietStep
  <2> QED
    BY <2>1, <2>2
<1> QED
  BY <1>3, <1>4, <1>5, <1>6

-----------------------------------------------------------------------------
(* Rows are read and written                                               *)

\* The rows that are read one by one
LEMMA RowsReadQuietly ==
  ASSUME TypeInv, AttendanceHeld, NEW h \in Handler, Remembers(h)
  PROVE  /\ ReadMatch(h) => QuietStep(h)
         /\ ReadMark(h) => QuietStep(h)
<1>1. ASSUME ReadMatch(h) PROVE QuietStep(h)
  <2>1. req[h].pc = "readMatch" /\ UNCHANGED tables
    BY <1>1 DEF ReadMatch, At
  <2>2. CASE Respond(h)
    BY <2>1, <2>2, AnsweredQuietly, ReadQuietly DEF QuietStep
  <2>3. ASSUME NEW st \in req[h].todo, Step(h, [todo |-> req[h].todo \ {st}])
        PROVE  QuietStep(h)
    <3>1. req'[h].pc = "readMatch"
      BY <2>1, <2>3 DEF Step, Idle, TypeInv
    <3> QED
      BY <2>1, <3>1, NothingRemembered, ReadQuietly DEF Remembering, QuietStep
  <2>4. ASSUME NEW st \in req[h].todo, ClockMayWrite(att[<<req[h].on, st>>]),
               Step(h, [pc |-> "saveMatch", row |-> att[<<req[h].on, st>>],
                        gone |-> {<<req[h].on, st>>}])
        PROVE  QuietStep(h)
    <3>1. /\ req'[h].pc = "saveMatch" /\ req'[h].on = req[h].on
          /\ req'[h].row = att[<<req[h].on, st>>]
          /\ req'[h].gone = {<<req[h].on, st>>}
      BY <2>4 DEF Step, Idle, TypeInv
    <3>2. Remembers(h)'
      BY <2>1, <2>4, <3>1
      DEF Remembers, CopiesCurrent, RowCurrent, LessonUnbilled, SourcesCurrent, At, tables,
          ClockMayWrite
    <3> QED
      BY <2>1, <3>2, ReadQuietly DEF QuietStep
  <2> QED
    BY <1>1, <2>2, <2>3, <2>4 DEF ReadMatch
<1>2. ASSUME ReadMark(h) PROVE QuietStep(h)
  <2>1. req[h].pc = "readMark" /\ UNCHANGED tables
    BY <1>2 DEF ReadMark, At
  <2>2. CASE Respond(h)
    BY <2>1, <2>2, AnsweredQuietly, ReadQuietly DEF QuietStep
  <2>3. ASSUME NEW st \in req[h].todo,
               Step(h, [pc |-> "saveMark", row |-> att[<<req[h].on, st>>],
                        gone |-> {<<req[h].on, st>>}])
        PROVE  QuietStep(h)
    <3>1. /\ req'[h].pc = "saveMark" /\ req'[h].on = req[h].on /\ req'[h].op = req[h].op
          /\ req'[h].row = att[<<req[h].on, st>>]
          /\ req'[h].gone = {<<req[h].on, st>>}
      BY <2>3 DEF Step, Idle, TypeInv
    <3>2. Remembers(h)'
      BY <2>1, <3>1
      DEF Remembers, CopiesCurrent, RowCurrent, LessonUnbilled, SourcesCurrent, At, tables
    <3> QED
      BY <2>1, <3>2, ReadQuietly DEF QuietStep
  <2> QED
    BY <1>2, <2>2, <2>3 DEF ReadMark
<1> QED
  BY <1>1, <1>2

\* A score changes nothing that is charged.
LEMMA GradedRow ==
  ASSUME NEW r \in AttendanceRow, NEW value \in BOOLEAN
  PROVE  [r EXCEPT !.graded = value].present = r.present
  BY DEF AttendanceRow

\* They are saved as they were read, but for the mark; reverting resets rows
\* that are not charged.
LEMMA RowsWrittenQuietly ==
  ASSUME TypeInv, AttendanceHeld, NEW h \in Handler, Remembers(h)
  PROVE  /\ SaveMatch(h) => QuietStep(h)
         /\ SaveMark(h) => QuietStep(h)
         /\ RevertRows(h) => QuietStep(h)
<1>1. /\ req[h].row \in AttendanceRow \union {Absent}
      /\ Entity(req[h].row) \in AttendanceRow
      /\ req[h].row = Absent => Entity(req[h].row).bill = None
      /\ req[h].row # Absent => Entity(req[h].row) = req[h].row
      /\ req[h].gone \subseteq Lesson
  BY EntityTyped DEF TypeInv, RequestTyped
<1>2. ASSUME SaveMatch(h) PROVE QuietStep(h)
  <2>1. PICK l \in req[h].gone, seen \in BOOLEAN :
          LET new == [Entity(req[h].row) EXCEPT
                        !.present = seen, !.verified = seen, !.manual = FALSE]
          IN IF Savable(l, req[h].row, new)
               THEN /\ SaveAttendanceRow(l, new)
                    /\ Step(h, [pc |-> "readMatch", row |-> Absent, gone |-> {},
                                todo |-> req[h].todo \ {l[2]}])
               ELSE Refuse(h)
    BY <1>2 DEF SaveMatch
  <2> DEFINE new == [Entity(req[h].row) EXCEPT
                       !.present = seen, !.verified = seen, !.manual = FALSE]
  <2>2. new \in AttendanceRow /\ new.bill = None /\ Unbilled(att[l])
    <3>1. att[l] = req[h].row /\ ClockMayWrite(req[h].row)
      BY <1>2 DEF SaveMatch, Remembers, RowCurrent, At
    <3> QED
      BY <1>1, <3>1, RowTyped DEF ClockMayWrite, Unbilled
  <2>3. CASE Savable(l, req[h].row, new)
    <3>1. QuietTables
      BY <1>1, <2>1, <2>2, <2>3, RowSavedQuietly DEF Savable
    <3>2. req'[h].pc = "readMatch"
      BY <2>1, <2>3 DEF Step, Idle, TypeInv
    <3> QED
      BY <3>1, <3>2, NothingRemembered DEF Remembering, QuietStep
  <2>4. CASE ~Savable(l, req[h].row, new)
    BY <2>1, <2>4, RefuseQuietly
  <2> QED
    BY <2>3, <2>4
<1>3. ASSUME SaveMark(h) PROVE QuietStep(h)
  <2> DEFINE old == Entity(req[h].row)
             new(value) == IF req[h].op = "grade"
                             THEN [old EXCEPT !.graded = value]
                             ELSE [old EXCEPT !.present = value, !.manual = TRUE]
  <2>1. PICK l \in req[h].gone, value \in BOOLEAN :
          IF Savable(l, req[h].row, new(value))
            THEN /\ SaveAttendanceRow(l, new(value))
                 /\ Step(h, [pc |-> "readMark", row |-> Absent, gone |-> {},
                             todo |-> req[h].todo \ {l[2]}])
            ELSE Refuse(h)
    BY <1>3 DEF SaveMark
  <2>2. att[l] = req[h].row /\ l[1] = req[h].on /\ l \in Lesson
    BY <1>1, <1>3 DEF SaveMark, Remembers, RowCurrent, At
  <2>3. /\ new(value) \in AttendanceRow
        /\ \/ Unbilled(att[l]) /\ new(value).bill = None
           \/ /\ att[l] # Absent /\ new(value).bill = att[l].bill
              /\ new(value).present = att[l].present
    <3>1. CASE req[h].op = "grade"
      <4>1. /\ new(value) = [old EXCEPT !.graded = value]
            /\ [old EXCEPT !.graded = value] \in AttendanceRow
            /\ [old EXCEPT !.graded = value].bill = old.bill
            /\ [old EXCEPT !.graded = value].present = old.present
        BY <1>1, <3>1, RowTyped, GradedRow
      <4> QED
        BY <1>1, <2>2, <4>1 DEF Unbilled
    <3>2. CASE req[h].op # "grade"
      <4>1. Unbilled(att[l])
        BY <1>3, <2>2, <3>2
        DEF SaveMark, Remembers, LessonUnbilled, At, Unbilled, Lesson
      <4> QED
        BY <1>1, <2>2, <3>2, <4>1, RowTyped DEF Unbilled
    <3> QED
      BY <3>1, <3>2
  <2>4. CASE Savable(l, req[h].row, new(value))
    <3>1. QuietTables
      BY <2>1, <2>2, <2>3, <2>4, RowSavedQuietly DEF Savable
    <3>2. /\ req'[h].pc = "readMark" /\ req'[h].on = req[h].on /\ req'[h].op = req[h].op
      BY <2>1, <2>4 DEF Step, Idle, TypeInv
    <3>3. req[h].op # "grade" =>
            \A st \in Student : att'[<<req[h].on, st>>] # Absent
                                  => att'[<<req[h].on, st>>].bill = None
      <4> SUFFICES ASSUME req[h].op # "grade", NEW st \in Student,
                          att'[<<req[h].on, st>>] # Absent
                   PROVE  att'[<<req[h].on, st>>].bill = None
        OBVIOUS
      <4>1. req[h].on \in Session /\ Unbilled(att[<<req[h].on, st>>])
        BY <1>3 DEF SaveMark, Remembers, LessonUnbilled, At, Unbilled, TypeInv, RequestFits
      <4> QED
        BY <3>1, <4>1 DEF QuietTables, BillKept, Unbilled, Lesson
    <3>4. Remembers(h)'
      BY <3>2, <3>3
      DEF Remembers, CopiesCurrent, RowCurrent, LessonUnbilled, SourcesCurrent, At
    <3> QED
      BY <3>1, <3>4 DEF QuietStep
  <2>5. CASE ~Savable(l, req[h].row, new(value))
    BY <2>1, <2>5, RefuseQuietly
  <2> QED
    BY <2>4, <2>5
<1>4. ASSUME RevertRows(h) PROVE QuietStep(h)
  <2> DEFINE s == req[h].on
  <2>1. /\ req[h].pc = "revertRows" /\ s \in Session /\ session' = session /\ MoneyKept
        /\ att' = [l \in Lesson |->
             IF l \in Rows({s}) THEN [att[l] EXCEPT !.present = FALSE] ELSE att[l]]
    BY <1>4 DEF RevertRows, At, TypeInv, RequestFits, RequestTyped, MoneyKept
  <2>2. ASSUME NEW l \in Lesson
        PROVE  att'[l] = att[l] \/ (BillKept(l) /\ session'[l[1]] # Absent)
    <3>1. CASE l \in Rows({s})
      <4>1. l[1] = s /\ l[2] \in Student /\ l = <<s, l[2]>> /\ att[l] # Absent
        BY <3>1 DEF Rows
      <4>2. att[l] \in AttendanceRow /\ att[l].bill = None
        BY <2>1, <4>1 DEF Remembers, LessonUnbilled, At, TypeInv, TypeOK
      <4>3. att'[l] = [att[l] EXCEPT !.present = FALSE]
        BY <2>1, <3>1
      <4> QED
        BY <2>1, <4>1, <4>2, <4>3, RowTyped DEF BillKept, Unbilled, AttendanceHeld
    <3>2. CASE l \notin Rows({s})
      BY <2>1, <3>2
    <3> QED
      BY <3>1, <3>2
  <2>3. \A x \in Session : WageKept(x) /\ LockKept(x)
    BY <2>1 DEF WageKept, Unwaged, LockKept
  <2>4. QuietTables
    BY <2>1, <2>2, <2>3, RowsSavedQuietly
  <2>5. req'[h].pc = "revertSave" /\ req'[h].copy = req[h].copy
    BY <1>4 DEF RevertRows, Step, Idle, TypeInv
  <2>6. Remembers(h)'
    BY <2>1, <2>5
    DEF Remembers, CopiesCurrent, RowCurrent, LessonUnbilled, SourcesCurrent, At
  <2> QED
    BY <2>4, <2>6 DEF QuietStep
<1> QED
  BY <1>2, <1>3, <1>4

-----------------------------------------------------------------------------
(* Sessions are deleted and generated                                      *)

\* Deletable rows and sessions are not charged, paid or locked.
LEMMA DeletionsQuiet ==
  ASSUME TypeInv, AttendanceHeld, NEW h \in Handler
  PROVE  /\ DeleteSessionRows(h) => QuietStep(h)
         /\ RegenRows(h) => QuietStep(h)
         /\ DeleteSessionRow(h) => QuietStep(h)
         /\ RegenSessions(h) => QuietStep(h)
<1>1. ASSUME DeleteSessionRows(h) PROVE QuietStep(h)
  <2> DEFINE L == Rows({req[h].on})
  <2>1. CASE \A l \in L : RowDeletable(att[l])
    <3>1. /\ DeleteRows(L) /\ Step(h, [pc |-> "deleteSession"])
          /\ session' = session /\ MoneyKept
      BY <1>1, <2>1 DEF DeleteSessionRows, MoneyKept
    <3>2. QuietTables
      BY <2>1, <3>1, RowsChangedQuietly DEF DeleteRows
    <3>3. Remembers(h)'
      BY <3>1, GoesOnQuietly DEF Remembering
    <3> QED
      BY <3>2, <3>3 DEF QuietStep
  <2>2. CASE ~(\A l \in L : RowDeletable(att[l]))
    BY <1>1, <2>2, RefuseQuietly DEF DeleteSessionRows
  <2> QED
    BY <2>1, <2>2
<1>2. ASSUME RegenRows(h) PROVE QuietStep(h)
  <2> DEFINE L == {l \in req[h].gone : att[l] # Absent}
  <2>1. CASE \A l \in L : RowDeletable(att[l])
    <3>1. /\ DeleteRows(L) /\ Step(h, [pc |-> "regenSessions", gone |-> {}])
          /\ session' = session /\ MoneyKept
      BY <1>2, <2>1 DEF RegenRows, MoneyKept
    <3>2. QuietTables
      BY <2>1, <3>1, RowsChangedQuietly DEF DeleteRows
    <3>3. Remembers(h)'
      BY <3>1, GoesOnQuietly DEF Remembering
    <3> QED
      BY <3>2, <3>3 DEF QuietStep
  <2>2. CASE ~(\A l \in L : RowDeletable(att[l]))
    BY <1>2, <2>2, RefuseQuietly DEF RegenRows
  <2> QED
    BY <2>1, <2>2
<1>3. ASSUME DeleteSessionRow(h) PROVE QuietStep(h)
  <2> DEFINE s == req[h].on
  <2>1. CASE s \in Held /\ SessionDeletable(s)
    <3>1. RemoveSessions({s}) /\ Respond(h) /\ {s} \in SUBSET Held
      BY <1>3, <2>1 DEF DeleteSessionRow
    <3> QED
      BY <2>1, <3>1, RemovedQuietly, AnsweredQuietly DEF QuietStep
  <2>2. CASE ~(s \in Held /\ SessionDeletable(s))
    BY <1>3, <2>2, RefuseQuietly DEF DeleteSessionRow
  <2> QED
    BY <2>1, <2>2
<1>4. ASSUME RegenSessions(h) PROVE QuietStep(h)
  <2> DEFINE S == {s \in Replaceable(req[h].day) : \A l \in req[h].rows : l[1] # s}
  <2>1. CASE \A s \in S : SessionDeletable(s)
    <3>1. /\ RemoveSessions(S) /\ Step(h, [pc |-> "readClass", rows |-> {}])
          /\ S \in SUBSET Held
      BY <1>4, <2>1 DEF RegenSessions, Replaceable
    <3>2. QuietTables
      BY <2>1, <3>1, RemovedQuietly
    <3>3. Remembers(h)'
      BY <3>1, GoesOnQuietly DEF Remembering
    <3> QED
      BY <3>2, <3>3 DEF QuietStep
  <2>2. CASE ~(\A s \in S : SessionDeletable(s))
    BY <1>4, <2>2, RefuseQuietly DEF RegenSessions
  <2> QED
    BY <2>1, <2>2
<1> QED
  BY <1>1, <1>2, <1>3, <1>4

\* Sessions that are kept are written back as they are; new ones are empty.
LEMMA GenerationQuiet ==
  ASSUME TypeInv, AttendanceHeld, NEW h \in Handler, Remembers(h)
  PROVE  /\ ReadClass(h) => QuietStep(h)
         /\ Generate(h) => QuietStep(h)
<1>1. ASSUME ReadClass(h) PROVE QuietStep(h)
  <2>1. UNCHANGED tables
    BY <1>1 DEF ReadClass
  <2>2. CASE Respond(h)
    BY <2>1, <2>2, AnsweredQuietly, ReadQuietly DEF QuietStep
  <2>3. CASE ~Respond(h)
    <3>1. /\ req'[h].pc = "generate"
          /\ \A s \in DOMAIN req'[h].copy :
               req'[h].copy[s] = session[s] /\ ~session[s].locked
      BY <1>1, <2>3 DEF ReadClass, Step, Idle, TypeInv, Refreshed
    <3>2. Remembers(h)'
      BY <2>1, <3>1
      DEF Remembers, CopiesCurrent, RowCurrent, LessonUnbilled, SourcesCurrent, At, tables
    <3> QED
      BY <2>1, <3>2, ReadQuietly DEF QuietStep
  <2> QED
    BY <2>2, <2>3
<1>2. ASSUME Generate(h) PROVE QuietStep(h)
  <2> DEFINE old == DOMAIN req[h].copy
  <2>1. Remembers(h)'
    BY <1>2, AnsweredQuietly DEF Generate
  <2>2. CASE old \subseteq Held /\ Insertions(h) # {}
    <3>1. PICK new \in Insertions(h) :
            /\ session' = [s \in Session |->
                 IF s \in old
                   THEN [session[s] EXCEPT !.status = "Scheduled", !.locked = FALSE]
                   ELSE IF s \in new THEN NewSession ELSE session[s]]
            /\ att' = [l \in Lesson |->
                 IF l \in req[h].rows /\ l[1] \in new THEN NewAttendance ELSE att[l]]
            /\ UNCHANGED <<roster, leave, period, order, charges, payroll>>
      BY <1>2, <2>2 DEF Generate
    <3>2. \A s \in Session : s \in new => session[s] = Absent
      BY <3>1 DEF Insertions, Held
    <3>3. ASSUME NEW s \in Session
          PROVE  /\ WageKept(s) /\ LockKept(s)
                 /\ s \in new \/ session[s] # Absent => session'[s] # Absent
      <4>1. CASE s \in old
        <5>1. session[s] \in SessionRow /\ ~session[s].locked
          BY <1>2, <2>2, <4>1
          DEF Generate, At, Held, TypeInv, TypeOK, Remembers, CopiesCurrent
        <5>2. /\ [session[s] EXCEPT !.status = "Scheduled", !.locked = FALSE] \in SessionRow
              /\ [session[s] EXCEPT !.status = "Scheduled", !.locked = FALSE].wage
                   = session[s].wage
          BY <5>1, SessionRowTyped, SavedColumns DEF SessionStatus
        <5> QED
          BY <3>1, <4>1, <5>1, <5>2, NoRowConstants DEF WageKept, LockKept
      <4>2. CASE s \notin old /\ s \in new
        <5>1. session'[s] = NewSession /\ NewSession.wage = None /\ NewSession # Absent
          BY <3>1, <4>2, NewRows, NoRowConstants DEF NewSession
        <5> QED
          BY <3>2, <4>2, <5>1 DEF WageKept, LockKept, Unwaged
      <4>3. CASE s \notin old /\ s \notin new
        BY <3>1, <4>3 DEF WageKept, LockKept, Unwaged
      <4> QED
        BY <4>1, <4>2, <4>3
    <3>4. ASSUME NEW l \in Lesson
          PROVE  att'[l] = att[l] \/ (BillKept(l) /\ session'[l[1]] # Absent)
      <4>1. CASE l \in req[h].rows /\ l[1] \in new
        <5>1. att'[l] = NewAttendance /\ l[1] \in Session
          BY <3>1, <4>1 DEF Lesson
        <5>2. att[l] = Absent
          BY <3>2, <4>1, <5>1 DEF AttendanceHeld
        <5> QED
          BY <3>3, <4>1, <5>1, <5>2, NewRows DEF BillKept, Unbilled
      <4>2. CASE ~(l \in req[h].rows /\ l[1] \in new)
        BY <3>1, <4>2
      <4> QED
        BY <4>1, <4>2
    <3>5. MoneyKept
      BY <3>1 DEF MoneyKept
    <3> QED
      BY <2>1, <3>3, <3>4, <3>5, RowsSavedQuietly DEF QuietStep
  <2>3. CASE ~(old \subseteq Held /\ Insertions(h) # {})
    BY <1>2, <2>1, <2>3, ReadQuietly DEF Generate, QuietStep
  <2> QED
    BY <2>2, <2>3
<1> QED
  BY <1>1, <1>2

-----------------------------------------------------------------------------
(* The roster and leave                                                    *)

\* The transactions of the roster insert rows that are missing and delete
\* deletable ones.
LEMMA RosterQuiet ==
  ASSUME TypeInv, AttendanceHeld, NEW h \in Handler
  PROVE  /\ \A st \in Student : EnrollStudent(h, st) => QuietStep(h)
         /\ DropStudent(h) => QuietStep(h)
         /\ SaveJoined(h) => QuietStep(h)
         /\ SaveAdhoc(h) => QuietStep(h)
<1>1. ASSUME NEW st \in Student, EnrollStudent(h, st) PROVE QuietStep(h)
  <2>1. Remembers(h)'
    BY <1>1, NothingRemembered DEF EnrollStudent, At, Remembering
  <2>2. MoneyKept /\ session' = session
    BY <1>1 DEF EnrollStudent, MoneyKept
  <2>3. \A l \in Lesson :
          \/ att'[l] = att[l]
          \/ att'[l] = NewAttendance /\ att[l] = Absent /\ session[l[1]] # Absent
    BY <1>1 DEF EnrollStudent, OpenLessons, Held
  <2>4. QuietTables
    BY <2>2, <2>3, RowsChangedQuietly
  <2> QED
    BY <2>1, <2>4 DEF QuietStep
<1>2. ASSUME DropStudent(h) PROVE QuietStep(h)
  <2> DEFINE L == {l \in req[h].gone : att[l] # Absent}
  <2>1. CASE \A l \in L : RowDeletable(att[l])
    <3>1. /\ DeleteRows(L) /\ session' = session /\ MoneyKept
          /\ req' = [req EXCEPT ![h] = [Regeneration(Today) EXCEPT !.op = "remove"]]
      BY <1>2, <2>1 DEF DropStudent, MoneyKept
    <3>2. QuietTables
      BY <2>1, <3>1, RowsChangedQuietly DEF DeleteRows
    <3>3. req'[h].pc = "regenRows"
      BY <3>1 DEF TypeInv, Regeneration, Idle
    <3> QED
      BY <3>2, <3>3, NothingRemembered DEF Remembering, QuietStep
  <2>2. CASE ~(\A l \in L : RowDeletable(att[l]))
    BY <1>2, <2>2, RefuseQuietly DEF DropStudent
  <2> QED
    BY <2>1, <2>2
<1>3. ASSUME SaveJoined(h) PROVE QuietStep(h)
  <2>1. Remembers(h)'
    BY <1>3, AnsweredQuietly DEF SaveJoined
  <2>2. CASE UNCHANGED tables
    BY <2>1, <2>2, ReadQuietly DEF QuietStep
  <2>3. CASE ~UNCHANGED tables
    <3> DEFINE r == req[h]
               L == {l \in r.gone : att[l] # Absent}
    <3>1. /\ \A l \in L : RowDeletable(att[l])
          /\ \A l \in r.rows : att[l] = Absent /\ l[1] \in Held
          /\ att' = [l \in Lesson |-> IF l \in r.rows THEN NewAttendance
                                      ELSE IF l \in L THEN Absent ELSE att[l]]
          /\ session' = session /\ MoneyKept
      BY <1>3, <2>3 DEF SaveJoined, MoneyKept
    <3>2. QuietTables
      BY <3>1, RowsChangedQuietly DEF Held
    <3> QED
      BY <2>1, <3>2 DEF QuietStep
  <2> QED
    BY <2>2, <2>3
<1>4. ASSUME SaveAdhoc(h) PROVE QuietStep(h)
  <2> DEFINE s == req[h].on
  <2>1. Remembers(h)'
    BY <1>4, AnsweredQuietly DEF SaveAdhoc
  <2>2. CASE s \in Held
    BY <1>4, <2>1, <2>2, ReadQuietly DEF SaveAdhoc, QuietStep
  <2>3. CASE s \notin Held
    <3>1. /\ session' = [session EXCEPT ![s] = NewSession]
          /\ att' = [l \in Lesson |->
               IF l \in {s} \X req[h].todo THEN NewAttendance ELSE att[l]]
          /\ MoneyKept /\ s \in Session
      BY <1>4, <2>3 DEF SaveAdhoc, MoneyKept, TypeInv, RequestFits, At
    <3>2. /\ session[s] = Absent /\ session'[s] = NewSession
          /\ \A x \in Session \ {s} : session'[x] = session[x]
      BY <2>3, <3>1 DEF Held, TypeInv, TypeOK
    <3>3. NewSession # Absent /\ NewSession.wage = None
      BY NewRows, NoRowConstants DEF NewSession
    <3>4. \A x \in Session : /\ WageKept(x) /\ LockKept(x)
                             /\ session[x] # Absent => session'[x] # Absent
      BY <3>2, <3>3 DEF WageKept, LockKept, Unwaged
    <3>5. \A l \in Lesson : att'[l] = att[l] \/ (BillKept(l) /\ session'[l[1]] # Absent)
      BY <3>1, <3>2, <3>3, NewRows DEF BillKept, Unbilled, AttendanceHeld
    <3> QED
      BY <2>1, <3>1, <3>4, <3>5, RowsSavedQuietly DEF QuietStep
  <2> QED
    BY <2>2, <2>3
<1> QED
  BY <1>1, <1>2, <1>3, <1>4

\* An approval marks a row that is not charged.
LEMMA LeaveQuiet ==
  ASSUME TypeInv, AttendanceHeld, NEW h \in Handler, Remembers(h)
  PROVE  /\ SaveLeave(h) => QuietStep(h)
         /\ LockLeave(h) => QuietStep(h)
         /\ SaveApproved(h) => QuietStep(h)
<1>1. ASSUME UNCHANGED <<session, roster, att, period, order, charges, payroll>>
      PROVE  QuietTables
  <2>1. \A s \in Session : WageKept(s) /\ LockKept(s)
    BY <1>1 DEF WageKept, LockKept, Unwaged
  <2> QED
    BY <1>1, <2>1, RowsSavedQuietly DEF MoneyKept
<1>2. ASSUME SaveLeave(h) PROVE QuietStep(h)
  BY <1>1, <1>2, AnsweredQuietly DEF SaveLeave, tables, QuietStep
<1>3. ASSUME LockLeave(h) PROVE QuietStep(h)
  <2>1. PICK st \in req[h].todo :
          \/ Refuse(h)
          \/ /\ Step(h, [pc |-> "saveApproved", row |-> att[<<req[h].on, st>>]])
             /\ UNCHANGED tables /\ At(h, "lockLeave")
          \/ Respond(h) /\ UNCHANGED <<session, roster, att, period, order, charges, payroll>>
    BY <1>3 DEF LockLeave
  <2>2. CASE Refuse(h)
    BY <2>2, RefuseQuietly
  <2>3. CASE /\ Step(h, [pc |-> "saveApproved", row |-> att[<<req[h].on, st>>]])
             /\ UNCHANGED tables /\ At(h, "lockLeave")
    <3>1. /\ req'[h].pc = "saveApproved" /\ req'[h].on = req[h].on
          /\ req'[h].todo = req[h].todo
          /\ req'[h].row = att[<<req[h].on, st>>]
      BY <2>3 DEF Step, Idle, TypeInv
    <3>2. req[h].todo = {st}
      BY <2>3 DEF TypeInv, RequestFits, At
    <3>3. Remembers(h)'
      BY <2>3, <3>1, <3>2
      DEF Remembers, CopiesCurrent, RowCurrent, LessonUnbilled, SourcesCurrent, At, tables
    <3> QED
      BY <2>3, <3>3, ReadQuietly DEF QuietStep
  <2>4. CASE /\ Respond(h)
             /\ UNCHANGED <<session, roster, att, period, order, charges, payroll>>
    BY <1>1, <2>4, AnsweredQuietly DEF QuietStep
  <2> QED
    BY <2>1, <2>2, <2>3, <2>4
<1>4. ASSUME SaveApproved(h) PROVE QuietStep(h)
  <2> DEFINE new == [Entity(req[h].row) EXCEPT !.present = FALSE]
  <2>1. Remembers(h)'
    BY <1>4, AnsweredQuietly DEF SaveApproved
  <2>2. CASE UNCHANGED tables
    BY <2>1, <2>2, ReadQuietly DEF QuietStep
  <2>3. CASE ~UNCHANGED tables
    <3>1. PICK st \in req[h].todo :
            /\ new.bill = None => Savable(<<req[h].on, st>>, req[h].row, new)
            /\ att' = [att EXCEPT ![<<req[h].on, st>>] = IF new.bill = None THEN new ELSE @]
            /\ UNCHANGED <<session, roster, period, order, charges, payroll>>
      BY <1>4, <2>3 DEF SaveApproved
    <3> DEFINE l == <<req[h].on, st>>
    <3>2. l \in Lesson /\ att[l] = req[h].row /\ l[1] = req[h].on
      BY <1>4 DEF SaveApproved, Remembers, RowCurrent, At, TypeInv, RequestFits, RequestTyped,
         Lesson
    <3>3. /\ req[h].row \in AttendanceRow \union {Absent}
          /\ req[h].row # Absent => Entity(req[h].row) = req[h].row
          /\ new \in AttendanceRow /\ new.bill = Entity(req[h].row).bill
      BY EntityTyped, RowTyped DEF TypeInv, RequestTyped
    <3> HIDE DEF new
    <3>4. CASE new.bill = None
      <4>1. Unbilled(att[l]) /\ session[l[1]] # Absent
        BY <3>1, <3>2, <3>3, <3>4 DEF Unbilled, Savable
      <4>2. att'[l] = new /\ \A k \in Lesson \ {l} : att'[k] = att[k]
        BY <3>1, <3>2, <3>4 DEF TypeInv, TypeOK
      <4>3. \A k \in Lesson : att'[k] = att[k] \/ (BillKept(k) /\ session'[k[1]] # Absent)
        BY <3>1, <3>4, <4>1, <4>2 DEF BillKept, Unbilled
      <4>4. MoneyKept /\ \A s \in Session : WageKept(s) /\ LockKept(s)
        BY <3>1 DEF MoneyKept, WageKept, LockKept, Unwaged
      <4> QED
        BY <2>1, <3>1, <4>3, <4>4, RowsSavedQuietly DEF QuietStep
    <3>5. CASE new.bill # None
      <4>1. att' = att
        BY <3>1, <3>5 DEF TypeInv, TypeOK
      <4> QED
        BY <1>1, <2>1, <3>1, <4>1 DEF QuietStep
    <3> QED
      BY <3>4, <3>5
  <2> QED
    BY <2>2, <2>3
<1> QED
  BY <1>2, <1>3, <1>4

-----------------------------------------------------------------------------
(* Bills and payrolls                                                      *)

\* A period is created: what it charges is what it marks, nothing of it was
\* charged before, and nothing else is marked with it.
LEMMA BillsSaved ==
  ASSUME NEW h \in Handler, AloneInv(h), SaveBills(h)
  PROVE  AloneStep(h)
<1> DEFINE p == req[h].on
           L == req[h].rows
           G == req[h].gone
<1>1. /\ TypeInv /\ AttendanceHeld /\ p \in TuitionPeriod /\ p # None /\ L \subseteq Lesson
      /\ period[p] = "none"
      /\ \A l \in L : att[l] # Absent /\ att[l].bill = None /\ att[l].present = (l \in G)
  BY NoRowConstants
  DEF AloneInv, LessonInv, SaveBills, TypeInv, RequestTyped, RequestFits, OwnPeriod, At,
      Remembers, SourcesCurrent
<1>2. /\ period' = [period EXCEPT ![p] = "open"]
      /\ charges' = [charges EXCEPT ![p] = {<<l[1], l[2], l \in G>> : l \in L}]
      /\ att' = [l \in Lesson |->
           IF l \in Rows(Held) \cap L THEN [att[l] EXCEPT !.bill = p] ELSE att[l]]
      /\ Respond(h)
      /\ UNCHANGED <<session, roster, leave, payroll>>
  BY DEF SaveBills
<1>3. \A l \in Lesson : l \in Rows(Held) <=> att[l] # Absent
  BY <1>1 DEF Rows, Held, Lesson, AttendanceHeld
<1>4. ASSUME NEW l \in Lesson
      PROVE  IF l \in L
               THEN /\ att'[l] # Absent /\ att'[l].bill = p
                    /\ att'[l].present = att[l].present
               ELSE att'[l] = att[l]
  <2>1. CASE l \in L
    <3>1. att[l] \in AttendanceRow /\ att'[l] = [att[l] EXCEPT !.bill = p]
      BY <1>1, <1>2, <1>3, <2>1 DEF TypeInv, TypeOK
    <3> QED
      BY <1>1, <2>1, <3>1, BilledRowTyped, NoRowConstants DEF AttendanceRow
  <2>2. CASE l \notin L
    BY <1>2, <2>2
  <2> QED
    BY <2>1, <2>2
<1>5. ASSUME NEW l \in Lesson PROVE att'[l] = Absent <=> att[l] = Absent
  BY <1>1, <1>4
<1>6. ASSUME NEW l \in Lesson, att[l] # Absent PROVE att[l].bill # p
  BY <1>1, <1>6 DEF AloneInv, LessonInv, RowsCharged, RowCharged
<1>7. AttendanceHeld'
  BY <1>1, <1>2, <1>5 DEF AttendanceHeld
<1>8. \A l \in Lesson : l \in Rows(Held)' <=> att[l] # Absent
  BY <1>5, <1>7 DEF Rows, Held, Lesson, AttendanceHeld
<1>9. ASSUME NEW q \in TuitionPeriod
      PROVE  charges'[q] = {<<l[1], l[2], att'[l].present>> :
                              l \in {k \in Rows(Held)' : att'[k].bill = q}}
  <2> DEFINE B == {k \in Rows(Held)' : att'[k].bill = q}
  <2>1. B \subseteq Lesson
    BY DEF Rows, Held, Lesson
  <2>2. CASE q = p
    <3>1. B = L
      BY <1>1, <1>4, <1>6, <1>8, <2>1, <2>2
    <3>2. \A l \in L : att'[l].present = (l \in G)
      BY <1>1, <1>4
    <3>3. charges'[q] = {<<l[1], l[2], l \in G>> : l \in L}
      BY <1>1, <1>2, <2>2 DEF AloneInv, TypeInv, TypeOK
    <3> QED
      BY <3>1, <3>2, <3>3
  <2>3. CASE q # p
    <3>1. charges'[q] = charges[q] /\ q # None
      BY <1>1, <1>2, <2>3, NoRowConstants DEF TypeInv, TypeOK
    <3>2. charges[q] = {<<l[1], l[2], att[l].present>> :
                          l \in {k \in Rows(Held) : att[k].bill = q}}
      BY DEF AloneInv, ChargesMatchAttendance
    <3>3. {k \in Rows(Held) : att[k].bill = q} \subseteq Lesson
      BY DEF Rows, Held, Lesson
    <3>4. /\ B = {k \in Rows(Held) : att[k].bill = q}
          /\ \A l \in B : att'[l].present = att[l].present
      BY <1>1, <1>3, <1>4, <1>8, <2>1, <2>3, <3>1, <3>3
    <3> QED
      BY <3>1, <3>2, <3>4
  <2> QED
    BY <2>2, <2>3
<1>10. ChargesMatchAttendance'
  BY <1>9 DEF ChargesMatchAttendance
<1>11. \A s \in Session : WageKept(s) /\ LockKept(s)
  BY <1>2 DEF WageKept, LockKept, Unwaged
<1>12. PayrollMatchesSessions'
  BY <1>2, <1>11, WagesKeepPayroll DEF AloneInv
<1>13. FreshWages'
  BY <1>1, <1>2, LessonConstants DEF AloneInv, FreshWages, TypeInv, TypeOK
<1>14. Remembers(h)'
  BY <1>1, <1>2, AnsweredQuietly
<1> QED
  BY <1>7, <1>10, <1>11, <1>12, <1>13, <1>14 DEF AloneStep

\* Bills are deleted: what they charged is released.
LEMMA BillsDeleted ==
  ASSUME NEW h \in Handler, AloneInv(h), NEW p \in TuitionPeriod, NEW S \in SUBSET Student,
         DeleteBills(h, p, S)
  PROVE  AloneStep(h)
<1>1. TypeInv /\ AttendanceHeld /\ p # None /\ period[p] = "open"
  BY NoRowConstants DEF AloneInv, LessonInv, DeleteBills
<1>2. /\ att' = Release(p, S)
      /\ charges' = [charges EXCEPT ![p] = {c \in charges[p] : c[2] \notin S}]
      /\ period' = [period EXCEPT ![p] = IF S = Student THEN "deleted" ELSE period[p]]
      /\ UNCHANGED <<session, roster, leave, payroll, req>>
  BY DEF DeleteBills
<1>3. ASSUME NEW l \in Lesson
      PROVE  IF att[l] # Absent /\ att[l].bill = p /\ l[2] \in S
               THEN att'[l] # Absent /\ att'[l].bill = None
               ELSE att'[l] = att[l]
  <2>1. CASE att[l] # Absent /\ att[l].bill = p /\ l[2] \in S
    <3>1. att[l] \in AttendanceRow /\ att'[l] = [att[l] EXCEPT !.bill = None]
      BY <1>1, <1>2, <2>1 DEF TypeInv, TypeOK, Release
    <3> QED
      BY <2>1, <3>1, BilledRowTyped, NoRowConstants
  <2>2. CASE ~(att[l] # Absent /\ att[l].bill = p /\ l[2] \in S)
    BY <1>2, <2>2 DEF Release
  <2> QED
    BY <2>1, <2>2
<1>4. AttendanceHeld'
  BY <1>1, <1>2, <1>3 DEF AttendanceHeld
<1>5. \A l \in Lesson : (l \in Rows(Held) <=> att[l] # Absent)
                        /\ (l \in Rows(Held)' <=> att'[l] # Absent)
  BY <1>1, <1>4 DEF Rows, Held, Lesson, AttendanceHeld
<1>6. ASSUME NEW q \in TuitionPeriod
      PROVE  charges'[q] = {<<l[1], l[2], att'[l].present>> :
                              l \in {k \in Rows(Held)' : att'[k].bill = q}}
  <2> DEFINE A == {k \in Rows(Held) : att[k].bill = q}
             B == {k \in Rows(Held)' : att'[k].bill = q}
  <2>1. A \subseteq Lesson /\ B \subseteq Lesson
    BY DEF Rows, Held, Lesson
  <2>2. charges[q] = {<<l[1], l[2], att[l].present>> : l \in A} /\ q # None
    BY NoRowConstants DEF AloneInv, ChargesMatchAttendance
  <2>3. CASE q = p
    <3>1. B = {l \in A : l[2] \notin S} /\ \A l \in B : att'[l] = att[l]
      BY <1>1, <1>3, <1>5, <2>1, <2>2, <2>3
    <3>2. charges'[q] = {c \in charges[q] : c[2] \notin S}
      BY <1>1, <1>2, <2>3 DEF TypeInv, TypeOK
    <3> QED
      BY <2>2, <3>1, <3>2
  <2>4. CASE q # p
    <3>1. B = A /\ \A l \in B : att'[l] = att[l]
      BY <1>1, <1>3, <1>5, <2>1, <2>2, <2>4
    <3>2. charges'[q] = charges[q]
      BY <1>1, <1>2, <2>4 DEF TypeInv, TypeOK
    <3> QED
      BY <2>2, <3>1, <3>2
  <2> QED
    BY <2>3, <2>4
<1>7. ChargesMatchAttendance'
  BY <1>6 DEF ChargesMatchAttendance
<1>8. \A s \in Session : WageKept(s) /\ LockKept(s)
  BY <1>2 DEF WageKept, LockKept, Unwaged
<1>9. PayrollMatchesSessions'
  BY <1>2, <1>8, WagesKeepPayroll DEF AloneInv
<1>10. FreshWages'
  BY <1>1, <1>2, LessonConstants DEF AloneInv, FreshWages, TypeInv, TypeOK
<1>11. Remembers(h)'
  BY <1>1, <1>2, IdleTyped, NothingRemembered DEF DeleteBills, At, Remembering
<1> QED
  BY <1>4, <1>7, <1>8, <1>9, <1>10, <1>11 DEF AloneStep

\* A step that changes neither rows nor charges
LEMMA SameRows ==
  ASSUME AttendanceHeld, ChargesMatchAttendance, UNCHANGED <<att, charges>>,
         \A s \in Session : session[s] # Absent => session'[s] # Absent
  PROVE  AttendanceHeld' /\ ChargesMatchAttendance'
<1>1. AttendanceHeld'
  BY DEF AttendanceHeld, Lesson
<1>2. \A l \in Lesson : BillKept(l)
  BY DEF BillKept, Unbilled
<1> QED
  BY <1>1, <1>2, BillsKeepCharges

\* UPDATE ... SET wage_id
LEMMA WagedRow ==
  ASSUME NEW r \in SessionRow, NEW w \in SalaryPeriod \union {None}
  PROVE  /\ [r EXCEPT !.wage = w].wage = w
         /\ [r EXCEPT !.wage = w].locked = r.locked
  BY DEF SessionRow

\* A salary period pays the sessions it marks.
LEMMA WagesSaved ==
  ASSUME NEW h \in Handler, AloneInv(h), SaveWages(h)
  PROVE  AloneStep(h)
<1> DEFINE p == req[h].on
           S == {l[1] : l \in req[h].rows}
<1>1. /\ TypeInv /\ p \in SalaryPeriod /\ p # None /\ S \subseteq Session
      /\ period[p] = "none"
      /\ \A s \in S : session[s] # Absent /\ session[s].wage = None
  BY NoRowConstants
  DEF AloneInv, LessonInv, SaveWages, TypeInv, RequestTyped, RequestFits, At, Lesson,
      Remembers, SourcesCurrent
<1>2. /\ period' = [period EXCEPT ![p] = "open"]
      /\ payroll' = [payroll EXCEPT ![p] = S]
      /\ session' = [s \in Session |->
           IF s \in S \cap Held THEN [session[s] EXCEPT !.wage = p] ELSE session[s]]
      /\ Respond(h)
      /\ UNCHANGED <<roster, att, leave, order, charges>>
  BY DEF SaveWages
<1>3. ASSUME NEW s \in Session
      PROVE  IF s \in S
               THEN /\ session'[s] # Absent /\ session'[s].wage = p
                    /\ session'[s].locked = session[s].locked
               ELSE session'[s] = session[s]
  <2>1. CASE s \in S
    <3>1. session[s] \in SessionRow /\ session'[s] = [session[s] EXCEPT !.wage = p]
      BY <1>1, <1>2, <2>1 DEF TypeInv, TypeOK, Held
    <3> QED
      BY <1>1, <2>1, <3>1, WagedRow, WagedRowTyped, NoRowConstants
  <2>2. CASE s \notin S
    BY <1>2, <2>2
  <2> QED
    BY <2>1, <2>2
<1>4. ASSUME NEW q \in SalaryPeriod
      PROVE  payroll'[q] = {s \in Held' : session'[s].wage = q}
  <2>1. payroll[q] = {s \in Held : session[s].wage = q} /\ q # None
    BY NoRowConstants DEF AloneInv, PayrollMatchesSessions
  <2>2. CASE q = p
    <3>1. payroll[q] = {} /\ payroll'[q] = S
      BY <1>1, <1>2, <2>2 DEF AloneInv, FreshWages, TypeInv, TypeOK
    <3> QED
      BY <1>1, <1>3, <2>1, <2>2, <3>1 DEF Held
  <2>3. CASE q # p
    <3>1. payroll'[q] = payroll[q]
      BY <1>1, <1>2, <2>3 DEF TypeInv, TypeOK
    <3> QED
      BY <1>1, <1>3, <2>1, <2>3, <3>1 DEF Held
  <2> QED
    BY <2>2, <2>3
<1>5. PayrollMatchesSessions'
  BY <1>4 DEF PayrollMatchesSessions
<1>6. \A s \in Session : LockKept(s) /\ (session[s] # Absent => session'[s] # Absent)
  BY <1>3 DEF LockKept
<1>7. AttendanceHeld' /\ ChargesMatchAttendance'
  BY <1>2, <1>6, SameRows DEF AloneInv
<1>8. FreshWages'
  BY <1>1, <1>2 DEF AloneInv, FreshWages, TypeInv, TypeOK
<1>9. Remembers(h)'
  BY <1>1, <1>2, AnsweredQuietly
<1> QED
  BY <1>5, <1>6, <1>7, <1>8, <1>9 DEF AloneStep

\* A salary period is deleted: its sessions are to be paid again.
LEMMA WagesDeleted ==
  ASSUME NEW h \in Handler, AloneInv(h), NEW p \in SalaryPeriod, DeleteWages(h, p)
  PROVE  AloneStep(h)
<1>1. TypeInv /\ p # None
  BY NoRowConstants DEF AloneInv, LessonInv
<1>2. /\ period' = [period EXCEPT ![p] = "deleted"]
      /\ payroll' = [payroll EXCEPT ![p] = {}]
      /\ session' = [s \in Session |->
           IF s \in Held /\ session[s].wage = p
             THEN [session[s] EXCEPT !.wage = None] ELSE session[s]]
      /\ UNCHANGED <<roster, att, leave, order, charges, req>>
  BY DEF DeleteWages
<1>3. ASSUME NEW s \in Session
      PROVE  IF session[s] # Absent /\ session[s].wage = p
               THEN /\ session'[s] # Absent /\ session'[s].wage = None
                    /\ session'[s].locked = session[s].locked
               ELSE session'[s] = session[s]
  <2>1. CASE session[s] # Absent /\ session[s].wage = p
    <3>1. session[s] \in SessionRow /\ session'[s] = [session[s] EXCEPT !.wage = None]
      BY <1>1, <1>2, <2>1 DEF TypeInv, TypeOK, Held
    <3> QED
      BY <2>1, <3>1, WagedRow, WagedRowTyped, NoRowConstants
  <2>2. CASE ~(session[s] # Absent /\ session[s].wage = p)
    BY <1>2, <2>2 DEF Held
  <2> QED
    BY <2>1, <2>2
<1>4. ASSUME NEW q \in SalaryPeriod
      PROVE  payroll'[q] = {s \in Held' : session'[s].wage = q}
  <2>1. payroll[q] = {s \in Held : session[s].wage = q} /\ q # None
    BY NoRowConstants DEF AloneInv, PayrollMatchesSessions
  <2>2. payroll'[q] = IF q = p THEN {} ELSE payroll[q]
    BY <1>1, <1>2 DEF TypeInv, TypeOK
  <2> QED
    BY <1>1, <1>3, <2>1, <2>2 DEF Held
<1>5. PayrollMatchesSessions'
  BY <1>4 DEF PayrollMatchesSessions
<1>6. \A s \in Session : LockKept(s) /\ (session[s] # Absent => session'[s] # Absent)
  BY <1>3 DEF LockKept
<1>7. AttendanceHeld' /\ ChargesMatchAttendance'
  BY <1>2, <1>6, SameRows DEF AloneInv
<1>8. FreshWages'
  BY <1>1, <1>2 DEF AloneInv, FreshWages, TypeInv, TypeOK
<1>9. Remembers(h)'
  BY <1>1, <1>2, IdleTyped, NothingRemembered DEF DeleteWages, At, Remembering
<1> QED
  BY <1>5, <1>6, <1>7, <1>8, <1>9 DEF AloneStep

-----------------------------------------------------------------------------
(* The specification, with one handler                                     *)

\* The initial state satisfies the invariant.
LEMMA AloneInit ==
  ASSUME NEW h \in Handler, Init
  PROVE  AloneInv(h)
<1> USE DEF Init, TablesInit
<1>1. LessonInv
  BY InitHolds
<1>2. Remembers(h)
  BY IdleTyped DEF Remembers, CopiesCurrent, RowCurrent, LessonUnbilled, SourcesCurrent, At
<1>3. AttendanceHeld /\ FreshWages
  BY DEF AttendanceHeld, FreshWages
<1>4. ChargesMatchAttendance
  <2>1. Rows(Held) = {}
    BY DEF Rows, Held, Lesson
  <2> QED
    BY <2>1 DEF ChargesMatchAttendance
<1>5. PayrollMatchesSessions
  <2>1. \A s \in Held : session[s].wage = None
    BY DEF Held, NewSession
  <2> QED
    BY <2>1, NoRowConstants DEF PayrollMatchesSessions
<1> QED
  BY <1>1, <1>2, <1>3, <1>4, <1>5 DEF AloneInv

\* Every step of the only handler
LEMMA HandlerKeeps ==
  ASSUME NEW h \in Handler, AloneInv(h),
         \/ ReceiveSessionRequest(h) \/ ServeSessionRequest(h)
         \/ ReceiveRosterRequest(h) \/ ServeRosterRequest(h)
         \/ ReceiveBillingRequest(h) \/ ServeBillingRequest(h)
         \/ ReceiveLeaveRequest(h) \/ ServeLeaveRequest(h)
  PROVE  AloneStep(h)
<1>1. TypeInv /\ AttendanceHeld /\ Remembers(h)
  BY DEF AloneInv, LessonInv
<1>2. CASE ReceiveSessionRequest(h)
  <2>1. QuietStep(h)
    BY <1>1, <1>2, CopyingBegins, MarkingBegins, OthersBegin DEF ReceiveSessionRequest
  <2> QED
    BY <2>1, QuietKeeps
<1>3. CASE ServeSessionRequest(h)
  <2>1. InvalidScore(h) \/ ScheduleConflict(h) => Refuse(h)
    BY DEF InvalidScore, ScheduleConflict
  <2>2. QuietStep(h)
    BY <1>1, <1>3, <2>1, CopiesSavedQuietly, RowsReadQuietly, RowsWrittenQuietly, DeletionsQuiet,
       GenerationQuiet, RefuseQuietly DEF ServeSessionRequest
  <2> QED
    BY <2>2, QuietKeeps
<1>4. CASE ReceiveRosterRequest(h)
  <2>1. QuietStep(h)
    BY <1>1, <1>4, RosterQuiet, OthersBegin DEF ReceiveRosterRequest
  <2> QED
    BY <2>1, QuietKeeps
<1>5. CASE ServeRosterRequest(h)
  BY <1>1, <1>5, RosterQuiet, QuietKeeps DEF ServeRosterRequest
<1>6. CASE ReceiveBillingRequest(h)
  <2>1. CASE \E p \in TuitionPeriod, S \in SUBSET Student : FindTuitionSources(h, p, S)
    BY <1>1, <2>1, MarkingBegins, QuietKeeps
  <2>2. CASE \E p \in TuitionPeriod, S \in SUBSET Student : DeleteBills(h, p, S)
    BY <2>2, BillsDeleted
  <2>3. CASE \E p \in SalaryPeriod : FindSalarySources(h, p)
    BY <1>1, <2>3, MarkingBegins, QuietKeeps
  <2>4. CASE \E p \in SalaryPeriod : DeleteWages(h, p)
    BY <2>4, WagesDeleted
  <2> QED
    BY <1>6, <2>1, <2>2, <2>3, <2>4 DEF ReceiveBillingRequest
<1>7. CASE ServeBillingRequest(h)
  BY <1>7, BillsSaved, WagesSaved DEF ServeBillingRequest
<1>8. CASE ReceiveLeaveRequest(h)
  BY <1>1, <1>8, OthersBegin, QuietKeeps DEF ReceiveLeaveRequest
<1>9. CASE ServeLeaveRequest(h)
  BY <1>1, <1>9, LeaveQuiet, QuietKeeps DEF ServeLeaveRequest
<1> QED
  BY <1>2, <1>3, <1>4, <1>5, <1>6, <1>7, <1>8, <1>9

\* A request lost in a crash leaves the tables as they are.
LEMMA CrashQuiet ==
  ASSUME NEW h \in Handler, AloneInv(h), Crash
  PROVE  AloneStep(h)
<1>1. req'[h] = Idle /\ UNCHANGED tables
  BY DEF Crash
<1>2. QuietStep(h)
  BY <1>1, IdleTyped, NothingRemembered, ReadQuietly DEF AloneInv, Remembering, QuietStep
<1> QED
  BY <1>2, QuietKeeps

\* Every step, if there is one handler
LEMMA AloneKeeps ==
  ASSUME NEW h, Handler = {h}, AloneInv(h), Next
  PROVE  AloneInv(h)' /\ AloneStep(h)
<1>1. h \in Handler
  OBVIOUS
<1>2. AloneStep(h)
  <2>1. CASE Crash
    BY <1>1, <2>1, CrashQuiet
  <2>2. CASE ~Crash
    BY <1>1, <2>2, HandlerKeeps DEF Next
  <2> QED
    BY <2>1, <2>2
<1>3. LessonInv'
  BY NextKeeps DEF AloneInv, GoodStep
<1> QED
  BY <1>2, <1>3 DEF AloneStep, AloneInv

\* Nothing changes.
LEMMA AloneStutters ==
  ASSUME NEW h \in Handler, AloneInv(h), UNCHANGED vars
  PROVE  AloneInv(h)' /\ AloneStep(h)
<1>1. UNCHANGED tables /\ req' = req
  BY DEF vars, tables
<1>2. Remembers(h)'
  BY <1>1
  DEF AloneInv, Remembers, CopiesCurrent, RowCurrent, LessonUnbilled, SourcesCurrent, At, tables
<1>3. AloneStep(h)
  BY <1>1, <1>2, ReadQuietly, QuietKeeps DEF AloneInv, QuietStep
<1>4. LessonInv'
  BY StutterKeeps DEF AloneInv
<1> QED
  BY <1>3, <1>4 DEF AloneStep, AloneInv

\* The inductive invariant of one request at a time: what the request has read
\* is still so when it is written back.
THEOREM AloneInvariant ==
  ASSUME NEW h, Handler = {h}
  PROVE  Spec => []AloneInv(h)
<1>1. Init => AloneInv(h)
  BY AloneInit
<1>2. AloneInv(h) /\ [Next]_vars => AloneInv(h)'
  BY AloneKeeps, AloneStutters
<1> QED
  BY <1>1, <1>2, PTL DEF Spec

\* ChargesMatchAttendance: whatever sequence of requests, and crashes between
\* their statements, one handler serves - marking, leave, clock, roster, timetable,
\* billing - every bill charges exactly the lessons marked with it, with the
\* presence they have today.
THEOREM ChargesMatch ==
  ASSUME NEW h, Handler = {h}
  PROVE  Spec => []ChargesMatchAttendance
<1>1. AloneInv(h) => ChargesMatchAttendance
  BY DEF AloneInv
<1> QED
  BY <1>1, AloneInvariant, PTL

\* PayrollMatchesSessions: and every payroll pays exactly the sessions marked
\* with it.
THEOREM PayrollMatches ==
  ASSUME NEW h, Handler = {h}
  PROVE  Spec => []PayrollMatchesSessions
<1>1. AloneInv(h) => PayrollMatchesSessions
  BY DEF AloneInv
<1> QED
  BY <1>1, AloneInvariant, PTL

\* LessonChargedOnce: a lesson is on one bill, a session on one payroll, since
\* each has one column that says which.
THEOREM ChargedOnce ==
  ASSUME NEW h, Handler = {h}
  PROVE  Spec => []LessonChargedOnce
<1>1. AloneInv(h) => LessonChargedOnce
  <2> SUFFICES ASSUME AloneInv(h) PROVE LessonChargedOnce
    OBVIOUS
  <2>1. ASSUME NEW p \in TuitionPeriod, NEW q \in TuitionPeriod, p # q,
               NEW c \in charges[p], NEW d \in charges[q]
        PROVE  <<c[1], c[2]>> # <<d[1], d[2]>>
    <3>1. PICK l \in Rows(Held) : att[l].bill = p /\ c = <<l[1], l[2], att[l].present>>
      BY DEF AloneInv, ChargesMatchAttendance
    <3>2. PICK k \in Rows(Held) : att[k].bill = q /\ d = <<k[1], k[2], att[k].present>>
      BY DEF AloneInv, ChargesMatchAttendance
    <3>3. l = <<l[1], l[2]>> /\ k = <<k[1], k[2]>>
      BY DEF Rows
    <3> QED
      BY <2>1, <3>1, <3>2, <3>3
  <2>2. ASSUME NEW p \in SalaryPeriod, NEW q \in SalaryPeriod, p # q
        PROVE  payroll[p] \cap payroll[q] = {}
    BY <2>2 DEF AloneInv, PayrollMatchesSessions
  <2> QED
    BY <2>1, <2>2 DEF LessonChargedOnce
<1> QED
  BY <1>1, AloneInvariant, PTL

\* LockIsFinal: no sequence of requests unlocks a session, although start,
\* update and regeneration write whole copies of it.
THEOREM LocksFinal ==
  ASSUME NEW h, Handler = {h}
  PROVE  Spec => LockIsFinal
<1>1. AloneInv(h) /\ [Next]_vars =>
        [\A s \in Held : session[s].locked => session'[s] # Absent /\ session'[s].locked]_vars
  BY AloneKeeps DEF AloneStep, LockKept, Held
<1> QED
  BY <1>1, AloneInvariant, PTL DEF Spec, LockIsFinal

-----------------------------------------------------------------------------
(* The roster, while no request is lost                                    *)

\* The lessons without the row that the teacher's list needs, whatever the
\* status of the session
Missing ==
  {l \in Held \X Active : /\ ~session[l[1]].locked
                          /\ Day[l[1]] >= roster[l[2]].joined
                          /\ att[l] = Absent}

\* Rows are missing only between the deletion of rows and that of their
\* sessions.
Pending(h) ==
  {l \in Lesson : \/ At(h, "deleteSession") /\ l[1] = req[h].on
                  \/ /\ At(h, "regenSessions") /\ l[1] \in Replaceable(req[h].day)
                     /\ \A k \in req[h].rows : k[1] # l[1]}

\* The session to be deleted can be, and its rows are gone before it is.
Disposing(h) ==
  /\ At(h, "deleteRows") => req[h].on \in Held /\ SessionDisposable(req[h].on)
  /\ At(h, "deleteSession") =>
       /\ req[h].on \in Held /\ SessionDisposable(req[h].on)
       /\ \A st \in Student : att[<<req[h].on, st>>] = Absent

\* So can the sessions to be generated again.
Regenerating(h) ==
  /\ req[h].pc \in {"regenRows", "regenSessions"} =>
       \A s \in Replaceable(req[h].day), st \in Student :
         <<s, st>> \notin req[h].rows =>
           /\ SessionDisposable(s)
           /\ At(h, "regenRows") => {s} \X Student \subseteq req[h].gone
           /\ At(h, "regenSessions") => \A x \in Student : att[<<s, x>>] = Absent
  /\ At(h, "regenRows") =>
       \A l \in req[h].gone : /\ l[1] \in Replaceable(req[h].day)
                              /\ \A k \in req[h].rows : k[1] # l[1]

\* The lessons to be written are those of the roster as it is.
RosterCurrent(h) ==
  /\ At(h, "saveJoined") =>
       /\ \A l \in Held \X req[h].todo :
            Day[l[1]] >= req[h].day /\ att[l] = Absent => l \in req[h].rows
       /\ \A l \in req[h].gone : l[2] \in req[h].todo /\ ~(Day[l[1]] >= req[h].day)
  /\ At(h, "dropStudent") => \A l \in req[h].gone : l[2] \in req[h].todo
  /\ At(h, "saveAdhoc") => Active \subseteq req[h].todo
  /\ At(h, "generate") =>
       \A l \in req[h].gone :
         /\ {l[1]} \X Student \subseteq req[h].gone
         /\ l[2] \in Active /\ Day[l[1]] >= roster[l[2]].joined => l \in req[h].rows

Plans(h) == Disposing(h) /\ Regenerating(h) /\ RosterCurrent(h)

RosterInv(h) == AloneInv(h) /\ Missing \subseteq Pending(h) /\ Plans(h)

\* Statements before which a request has planned what to write or delete
Planning ==
  {"deleteRows", "deleteSession", "regenRows", "regenSessions", "saveJoined", "dropStudent",
   "saveAdhoc", "generate"}

\* A request that has planned nothing has no plan to keep.
LEMMA NothingPlanned ==
  ASSUME NEW h \in Handler, req'[h].pc \notin Planning
  PROVE  Plans(h)'
  BY DEF Planning, Plans, Disposing, Regenerating, RosterCurrent, At

\* Rows are missing nowhere but between two deletions.
LEMMA NothingPending ==
  ASSUME NEW h \in Handler, Missing \subseteq Pending(h),
         req[h].pc \notin {"deleteSession", "regenSessions"}
  PROVE  Missing = {}
  BY DEF Pending, At

\* What a step does that neither adds sessions nor deletes rows.
RowsKept ==
  /\ roster' = roster
  /\ \A l \in Lesson : att[l] # Absent => att'[l] # Absent
  /\ \A s \in Session : session'[s] # Absent => session[s] # Absent

\* After it nothing is missing that was not.
LEMMA NothingMissing ==
  ASSUME RowsKept, \A s \in Session : LockKept(s), Missing = {}
  PROVE  Missing' = {}
<1> SUFFICES ASSUME NEW l \in Missing' PROVE FALSE
  OBVIOUS
<1>1. /\ l \in Held' \X Active' /\ l \in Lesson
      /\ ~session'[l[1]].locked /\ Day[l[1]] >= roster'[l[2]].joined /\ att'[l] = Absent
  BY DEF Missing, Held, Active, Lesson
<1>2. l \in Held \X Active /\ ~session[l[1]].locked /\ att[l] = Absent
  BY <1>1 DEF RowsKept, LockKept, Held, Active, Lesson
<1> QED
  BY <1>1, <1>2 DEF RowsKept, Missing

RosterKept(h) ==
  /\ RowsKept
  /\ req[h].pc \notin {"deleteSession", "regenSessions"}
  /\ req'[h].pc \notin Planning

\* What the roster expects after a step
RosterStepDone(h) == Missing' \subseteq Pending(h)' /\ Plans(h)'

\* Keeping every row, with a plan that fits the tables, keeps the roster
\* complete ...
LEMMA PlannedRoster ==
  ASSUME NEW h \in Handler, RosterInv(h), \A s \in Session : LockKept(s), RowsKept,
         req[h].pc \notin {"deleteSession", "regenSessions"}, Plans(h)'
  PROVE  RosterStepDone(h)
<1>1. Missing' = {}
  BY NothingPending, NothingMissing DEF RosterInv
<1> QED
  BY <1>1 DEF RosterStepDone

\* ... and so does a step that plans nothing.
LEMMA KeptRoster ==
  ASSUME NEW h \in Handler, RosterInv(h), \A s \in Session : LockKept(s), RosterKept(h)
  PROVE  RosterStepDone(h)
  BY PlannedRoster, NothingPlanned DEF RosterKept

\* A step that writes no table
LEMMA ReadKeepsRows ==
  ASSUME UNCHANGED tables
  PROVE  RowsKept
  BY DEF RowsKept, tables

\* Requests that begin and plan nothing
LEMMA BeginKeepsRoster ==
  ASSUME TypeInv, NEW h \in Handler
  PROVE  /\ \A s \in Session : StartAttendance(h, s) => RosterKept(h)
         /\ \A s \in Session, st \in Student : ClockEvent(h, s, st) => RosterKept(h)
         /\ \A s \in Session : RevertToScheduled(h, s) => RosterKept(h)
         /\ \A s \in Session, S \in SUBSET Student : SaveAttendance(h, s, S) => RosterKept(h)
         /\ \A s \in Session, S \in SUBSET Student : OverrideAttendance(h, s, S) => RosterKept(h)
         /\ \A s \in Session, S \in SUBSET Student : SaveEvaluations(h, s, S) => RosterKept(h)
         /\ \A s \in Session : CompleteSession(h, s) => RosterKept(h)
         /\ \A s \in Session : UpdateSession(h, s) => RosterKept(h)
         /\ \A p \in TuitionPeriod, S \in SUBSET Student :
              FindTuitionSources(h, p, S) => RosterKept(h)
         /\ \A p \in SalaryPeriod : FindSalarySources(h, p) => RosterKept(h)
         /\ \A s \in Session, st \in Student : SubmitLeave(h, s, st) => RosterKept(h)
         /\ \A s \in Session, st \in Student : ReviewLeave(h, s, st) => RosterKept(h)
         /\ \A s \in Session, st \in Student : CancelLeave(h, s, st) => RosterKept(h)
<1> USE DEF TypeInv, Begin, Idle, At, RosterKept, Planning
<1>1. ASSUME NEW s \in Session, StartAttendance(h, s) PROVE RosterKept(h)
  BY <1>1, ReadKeepsRows DEF StartAttendance
<1>2. ASSUME NEW s \in Session, NEW st \in Student, ClockEvent(h, s, st) PROVE RosterKept(h)
  BY <1>2, ReadKeepsRows DEF ClockEvent
<1>3. ASSUME NEW s \in Session, RevertToScheduled(h, s) PROVE RosterKept(h)
  BY <1>3, ReadKeepsRows DEF RevertToScheduled
<1>4. ASSUME NEW s \in Session, NEW S \in SUBSET Student, SaveAttendance(h, s, S)
      PROVE  RosterKept(h)
  BY <1>4, ReadKeepsRows DEF SaveAttendance
<1>5. ASSUME NEW s \in Session, NEW S \in SUBSET Student, OverrideAttendance(h, s, S)
      PROVE  RosterKept(h)
  BY <1>5, ReadKeepsRows DEF OverrideAttendance
<1>6. ASSUME NEW s \in Session, NEW S \in SUBSET Student, SaveEvaluations(h, s, S)
      PROVE  RosterKept(h)
  BY <1>6, ReadKeepsRows DEF SaveEvaluations
<1>7. ASSUME NEW s \in Session, CompleteSession(h, s) PROVE RosterKept(h)
  BY <1>7, ReadKeepsRows DEF CompleteSession
<1>8. ASSUME NEW s \in Session, UpdateSession(h, s) PROVE RosterKept(h)
  BY <1>8, ReadKeepsRows DEF UpdateSession
<1>9. ASSUME NEW p \in TuitionPeriod, NEW S \in SUBSET Student, FindTuitionSources(h, p, S)
      PROVE  RosterKept(h)
  BY <1>9, ReadKeepsRows DEF FindTuitionSources
<1>10. ASSUME NEW p \in SalaryPeriod, FindSalarySources(h, p) PROVE RosterKept(h)
  BY <1>10, ReadKeepsRows DEF FindSalarySources
<1>11. ASSUME NEW s \in Session, NEW st \in Student, SubmitLeave(h, s, st) PROVE RosterKept(h)
  BY <1>11, ReadKeepsRows DEF SubmitLeave
<1>12. ASSUME NEW s \in Session, NEW st \in Student, ReviewLeave(h, s, st) PROVE RosterKept(h)
  BY <1>12, ReadKeepsRows DEF ReviewLeave
<1>13. ASSUME NEW s \in Session, NEW st \in Student, CancelLeave(h, s, st) PROVE RosterKept(h)
  BY <1>13, ReadKeepsRows DEF CancelLeave
<1> HIDE DEF TypeInv, Begin, Idle, At, RosterKept, Planning
<1> QED
  BY <1>1, <1>2, <1>3, <1>4, <1>5, <1>6, <1>7, <1>8, <1>9, <1>10, <1>11, <1>12, <1>13

\* The sessions a regeneration will replace can be deleted.
LEMMA RegenerationPlans ==
  ASSUME NEW from \in Nat
  PROVE  LET r == Regeneration(from)
         IN /\ r.pc = "regenRows" /\ r.day = from
            /\ \A s \in Replaceable(from), st \in Student :
                 <<s, st>> \notin r.rows =>
                   SessionDisposable(s) /\ {s} \X Student \subseteq r.gone
            /\ \A l \in r.gone : /\ l[1] \in Replaceable(from)
                                 /\ \A k \in r.rows : k[1] # l[1]
<1> DEFINE r == Regeneration(from)
           unsafe == {s \in Replaceable(from) : ~SessionDisposable(s)}
<1>1. /\ r.pc = "regenRows" /\ r.day = from
      /\ r.rows = unsafe \X Student /\ r.gone = (Replaceable(from) \ unsafe) \X Student
  BY DEF Regeneration, Idle
<1> HIDE DEF r
<1>2. \A s \in Replaceable(from), st \in Student :
        <<s, st>> \notin r.rows => SessionDisposable(s) /\ {s} \X Student \subseteq r.gone
  BY <1>1
<1>3. \A l \in r.gone : l[1] \in Replaceable(from) /\ \A k \in r.rows : k[1] # l[1]
  BY <1>1
<1> QED
  BY <1>1, <1>2, <1>3 DEF r

\* Requests that begin with a plan
LEMMA BeginPlans ==
  ASSUME TypeInv, NEW h \in Handler
  PROVE  /\ \A s \in Session : DeleteSession(h, s) =>
              Plans(h)' /\ UNCHANGED tables /\ At(h, "idle")
         /\ RegenerateFutureSessions(h) => Plans(h)' /\ UNCHANGED tables /\ At(h, "idle")
         /\ \A st \in Student : RemoveStudent(h, st) =>
              Plans(h)' /\ UNCHANGED tables /\ At(h, "idle")
         /\ \A S \in SUBSET Student, from \in JoinDays : UpdateJoinedDate(h, S, from) =>
              Plans(h)' /\ UNCHANGED tables /\ At(h, "idle")
         /\ \A s \in Session : CreateAdhocSession(h, s) =>
              Plans(h)' /\ UNCHANGED tables /\ At(h, "idle")
<1> USE DEF Plans, Disposing, Regenerating, RosterCurrent, At, tables
<1>1. ASSUME NEW s \in Session, DeleteSession(h, s)
      PROVE  Plans(h)' /\ UNCHANGED tables /\ At(h, "idle")
  <2>1. req'[h].pc = "deleteRows" /\ req'[h].on = s
    BY <1>1 DEF DeleteSession, Begin, Idle, TypeInv
  <2> QED
    BY <1>1, <2>1
    DEF DeleteSession, Begin, SessionDisposable, RowDisposable, Waged, Rows, Held
<1>2. ASSUME RegenerateFutureSessions(h) PROVE Plans(h)' /\ UNCHANGED tables /\ At(h, "idle")
  <2>1. PICK from \in RegenerateFrom : Begin(h, "regenerate", Regeneration(from))
    BY <1>2 DEF RegenerateFutureSessions
  <2> DEFINE r == Regeneration(from)
  <2>2. from \in Nat /\ DOMAIN r = DOMAIN Idle
    BY RegenerateConstants, RegenerationTyped DEF RequestTyped
  <2> HIDE DEF r
  <2>3. /\ req'[h].pc = r.pc /\ req'[h].day = r.day
        /\ req'[h].rows = r.rows /\ req'[h].gone = r.gone
    BY <2>1, <2>2 DEF Begin, Idle, TypeInv, r
  <2>4. UNCHANGED tables /\ req[h].pc = "idle"
    BY <1>2, <2>1 DEF RegenerateFutureSessions, Begin
  <2>5. Replaceable(from)' = Replaceable(from)
    BY <2>4 DEF Replaceable, Held
  <2>6. \A s : SessionDisposable(s)' <=> SessionDisposable(s)
    BY <2>4 DEF SessionDisposable, RowDisposable, Waged, Rows
  <2>7. /\ req'[h].pc = "regenRows" /\ req'[h].day = from
        /\ \A s \in Replaceable(from), st \in Student :
             <<s, st>> \notin req'[h].rows =>
               SessionDisposable(s) /\ {s} \X Student \subseteq req'[h].gone
        /\ \A l \in req'[h].gone : /\ l[1] \in Replaceable(from)
                                   /\ \A k \in req'[h].rows : k[1] # l[1]
    BY <2>2, <2>3, RegenerationPlans DEF r
  <2> QED
    BY <2>4, <2>5, <2>6, <2>7
<1>3. ASSUME NEW st \in Student, RemoveStudent(h, st)
      PROVE  Plans(h)' /\ UNCHANGED tables /\ At(h, "idle")
  <2>1. /\ req'[h].pc = "dropStudent" /\ req'[h].todo = {st}
        /\ \A l \in req'[h].gone : l[2] = st
    BY <1>3 DEF RemoveStudent, Begin, Idle, TypeInv
  <2> QED
    BY <1>3, <2>1 DEF RemoveStudent, Begin
<1>4. ASSUME NEW S \in SUBSET Student, NEW from \in JoinDays, UpdateJoinedDate(h, S, from)
      PROVE  Plans(h)' /\ UNCHANGED tables /\ At(h, "idle")
  <2>1. /\ req'[h].pc = "saveJoined" /\ req'[h].todo = S /\ req'[h].day = from
        /\ req'[h].gone = {l \in Rows(Held) : l[2] \in S /\ Day[l[1]] < from}
        /\ req'[h].rows = {l \in Held \X S : Day[l[1]] >= from /\ att[l] = Absent}
        /\ UNCHANGED tables /\ req[h].pc = "idle"
    BY <1>4 DEF UpdateJoinedDate, Begin, Idle, TypeInv
  <2>2. \A l \in Rows(Held) : Day[l[1]] \in Nat
    BY LessonConstants DEF Rows, Held
  <2>3. \A l \in req'[h].gone : l[2] \in req'[h].todo /\ ~(Day[l[1]] >= req'[h].day)
    BY <2>1, <2>2, RosterConstants
  <2>4. \A l \in Held' \X req'[h].todo :
          Day[l[1]] >= req'[h].day /\ att'[l] = Absent => l \in req'[h].rows
    BY <2>1 DEF Held
  <2> QED
    BY <2>1, <2>3, <2>4
<1>5. ASSUME NEW s \in Session, CreateAdhocSession(h, s)
      PROVE  Plans(h)' /\ UNCHANGED tables /\ At(h, "idle")
  <2>1. req'[h].pc = "saveAdhoc" /\ req'[h].todo = Active
    BY <1>5 DEF CreateAdhocSession, Begin, Idle, TypeInv
  <2> QED
    BY <1>5, <2>1 DEF CreateAdhocSession, Begin, Active
<1> QED
  BY <1>1, <1>2, <1>3, <1>4, <1>5

-----------------------------------------------------------------------------
(* Statements that leave rows and sessions there                           *)

\* A row that is saved is there.
LEMMA RowSavedKeeps ==
  ASSUME TypeInv, NEW l, NEW r \in AttendanceRow, SaveAttendanceRow(l, r)
  PROVE  RowsKept
  BY NoRowConstants DEF SaveAttendanceRow, TypeInv, TypeOK, RowsKept

\* A session that is saved was there.
LEMMA SessionSavedKeeps ==
  ASSUME TypeInv, NEW s \in Session, NEW r, session[s] # Absent, SaveSession(s, r)
  PROVE  RowsKept
  BY DEF SaveSession, TypeInv, TypeOK, RowsKept

\* Sessions and attendance
LEMMA ServedKeepsRoster ==
  ASSUME TypeInv, NEW h \in Handler, Remembers(h)
  PROVE  /\ SaveStarted(h) => RosterKept(h)
         /\ RevertSave(h) => RosterKept(h)
         /\ SaveCompleted(h) => RosterKept(h)
         /\ SaveUpdated(h) => RosterKept(h)
         /\ ReadMatch(h) => RosterKept(h)
         /\ SaveMatch(h) => RosterKept(h)
         /\ ReadMark(h) => RosterKept(h)
         /\ SaveMark(h) => RosterKept(h)
         /\ RevertRows(h) => RosterKept(h)
         /\ InvalidScore(h) => RosterKept(h)
         /\ ScheduleConflict(h) => RosterKept(h)
<1>1. ASSUME NEW at, req[h].pc = at, at \notin {"deleteSession", "regenSessions"}, Refuse(h)
      PROVE  RosterKept(h)
  BY <1>1, IdleTyped, ReadKeepsRows DEF Refuse, Respond, TypeInv, RosterKept, Planning
<1>2. ASSUME req[h].pc \in {"saveStarted", "revertSave", "saveCompleted", "saveUpdated"},
             NEW s \in DOMAIN req[h].copy, NEW r, SaveSession(s, r)
      PROVE  RowsKept
  <2>1. s \in Session /\ session[s] # Absent
    BY <1>2, NoRowConstants DEF Remembers, CopiesCurrent, TypeInv, RequestTyped
  <2> QED
    BY <1>2, <2>1, SessionSavedKeeps
<1>3. ASSUME Respond(h) PROVE req'[h].pc = "idle"
  BY <1>3, IdleTyped DEF Respond, TypeInv
<1>4. ASSUME SaveStarted(h) PROVE RosterKept(h)
  <2>1. /\ req[h].pc = "saveStarted" /\ req[h].on \in DOMAIN req[h].copy
        /\ req'[h].pc = "readMatch"
    BY <1>4 DEF SaveStarted, At, TypeInv, RequestFits, Step, Idle
  <2> QED
    BY <1>2, <1>4, <2>1 DEF SaveStarted, RosterKept, Planning
<1>5. ASSUME RevertSave(h) PROVE RosterKept(h)
  <2>1. /\ req[h].pc = "revertSave" /\ req[h].on \in DOMAIN req[h].copy
    BY <1>5 DEF RevertSave, At, TypeInv, RequestFits
  <2> QED
    BY <1>2, <1>3, <1>5, <2>1 DEF RevertSave, RosterKept, Planning
<1>6. ASSUME SaveCompleted(h) PROVE RosterKept(h)
  <2>1. /\ req[h].pc = "saveCompleted" /\ req[h].on \in DOMAIN req[h].copy
    BY <1>6 DEF SaveCompleted, At, TypeInv, RequestFits
  <2> QED
    BY <1>1, <1>2, <1>3, <1>6, <2>1 DEF SaveCompleted, RosterKept, Planning
<1>7. ASSUME SaveUpdated(h) PROVE RosterKept(h)
  <2>1. req[h].pc = "saveUpdated"
    BY <1>7 DEF SaveUpdated, At
  <2>2. CASE DOMAIN req[h].copy = {}
    BY <1>1, <1>7, <2>1, <2>2 DEF SaveUpdated
  <2>3. CASE DOMAIN req[h].copy # {}
    <3>1. PICK s \in DOMAIN req[h].copy, status \in SessionStatus :
            /\ SaveSession(s, [req[h].copy[s] EXCEPT !.status = status])
            /\ Step(h, [copy |-> [x \in DOMAIN req[h].copy \ {s} |-> req[h].copy[x]]])
      BY <1>7, <2>3 DEF SaveUpdated
    <3>2. req'[h].pc = "saveUpdated"
      BY <2>1, <3>1 DEF Step, Idle, TypeInv
    <3> QED
      BY <1>2, <2>1, <3>1, <3>2 DEF RosterKept, Planning
  <2> QED
    BY <2>2, <2>3
<1>8. ASSUME ReadMatch(h) PROVE RosterKept(h)
  <2>1. req[h].pc = "readMatch" /\ req'[h].pc \in {"idle", "readMatch", "saveMatch"}
    <3>1. req[h].pc = "readMatch"
      BY <1>8 DEF ReadMatch, At
    <3>2. ASSUME NEW st \in req[h].todo, Step(h, [todo |-> req[h].todo \ {st}])
          PROVE  req'[h].pc = "readMatch"
      BY <3>1, <3>2 DEF Step, Idle, TypeInv
    <3>3. ASSUME NEW st \in req[h].todo,
                 Step(h, [pc |-> "saveMatch", row |-> att[<<req[h].on, st>>],
                          gone |-> {<<req[h].on, st>>}])
          PROVE  req'[h].pc = "saveMatch"
      BY <3>3 DEF Step, Idle, TypeInv
    <3> QED
      BY <1>3, <1>8, <3>1, <3>2, <3>3 DEF ReadMatch
  <2> QED
    BY <1>8, <2>1, ReadKeepsRows DEF ReadMatch, RosterKept, Planning
<1>9. ASSUME ReadMark(h) PROVE RosterKept(h)
  <2>1. req[h].pc = "readMark" /\ req'[h].pc \in {"idle", "saveMark"}
    BY <1>3, <1>9 DEF ReadMark, At, Step, Idle, TypeInv
  <2> QED
    BY <1>9, <2>1, ReadKeepsRows DEF ReadMark, RosterKept, Planning
<1>10. Entity(req[h].row) \in AttendanceRow
  BY EntityTyped DEF TypeInv, RequestTyped
<1>11. ASSUME SaveMatch(h) PROVE RosterKept(h)
  <2>1. req[h].pc = "saveMatch"
    BY <1>11 DEF SaveMatch, At
  <2>2. PICK l \in req[h].gone, seen \in BOOLEAN :
          LET new == [Entity(req[h].row) EXCEPT
                        !.present = seen, !.verified = seen, !.manual = FALSE]
          IN \/ /\ SaveAttendanceRow(l, new)
                /\ Step(h, [pc |-> "readMatch", row |-> Absent, gone |-> {},
                            todo |-> req[h].todo \ {l[2]}])
             \/ Refuse(h)
    BY <1>11 DEF SaveMatch
  <2> DEFINE new == [Entity(req[h].row) EXCEPT
                       !.present = seen, !.verified = seen, !.manual = FALSE]
  <2>3. new \in AttendanceRow
    BY <1>10, RowTyped
  <2>4. CASE Refuse(h)
    BY <1>1, <2>1, <2>4
  <2>5. CASE ~Refuse(h)
    <3>1. RowsKept
      BY <2>2, <2>3, <2>5, RowSavedKeeps
    <3>2. req'[h].pc = "readMatch"
      BY <2>2, <2>5 DEF Step, Idle, TypeInv
    <3> QED
      BY <2>1, <3>1, <3>2 DEF RosterKept, Planning
  <2> QED
    BY <2>4, <2>5
<1>12. ASSUME SaveMark(h) PROVE RosterKept(h)
  <2>1. req[h].pc = "saveMark"
    BY <1>12 DEF SaveMark, At
  <2>2. PICK l \in req[h].gone, value \in BOOLEAN :
          LET new == IF req[h].op = "grade"
                       THEN [Entity(req[h].row) EXCEPT !.graded = value]
                       ELSE [Entity(req[h].row) EXCEPT !.present = value, !.manual = TRUE]
          IN \/ /\ SaveAttendanceRow(l, new)
                /\ Step(h, [pc |-> "readMark", row |-> Absent, gone |-> {},
                            todo |-> req[h].todo \ {l[2]}])
             \/ Refuse(h)
    BY <1>12 DEF SaveMark
  <2> DEFINE new == IF req[h].op = "grade"
                      THEN [Entity(req[h].row) EXCEPT !.graded = value]
                      ELSE [Entity(req[h].row) EXCEPT !.present = value, !.manual = TRUE]
  <2>3. new \in AttendanceRow
    BY <1>10, RowTyped
  <2>4. CASE Refuse(h)
    BY <1>1, <2>1, <2>4
  <2>5. CASE ~Refuse(h)
    <3>1. RowsKept
      BY <2>2, <2>3, <2>5, RowSavedKeeps
    <3>2. req'[h].pc = "readMark"
      BY <2>2, <2>5 DEF Step, Idle, TypeInv
    <3> QED
      BY <2>1, <3>1, <3>2 DEF RosterKept, Planning
  <2> QED
    BY <2>4, <2>5
<1>13. ASSUME RevertRows(h) PROVE RosterKept(h)
  <2>1. req[h].pc = "revertRows" /\ req'[h].pc = "revertSave"
    BY <1>13 DEF RevertRows, At, Step, Idle, TypeInv
  <2>2. ASSUME NEW l \in Lesson, att[l] # Absent
        PROVE  att'[l] # Absent
    <3>1. /\ att[l] \in AttendanceRow
          /\ att'[l] = att[l] \/ att'[l] = [att[l] EXCEPT !.present = FALSE]
      BY <1>13, <2>2 DEF RevertRows, TypeInv, TypeOK
    <3>2. [att[l] EXCEPT !.present = FALSE] \in AttendanceRow
      BY <3>1, RowTyped
    <3> QED
      BY <2>2, <3>1, <3>2, NoRowConstants
  <2> QED
    BY <1>13, <2>1, <2>2 DEF RevertRows, RowsKept, RosterKept, Planning
<1>14. ASSUME InvalidScore(h) PROVE RosterKept(h)
  BY <1>1, <1>14 DEF InvalidScore, At
<1>15. ASSUME ScheduleConflict(h) PROVE RosterKept(h)
  BY <1>1, <1>15 DEF ScheduleConflict, At
<1> QED
  BY <1>4, <1>5, <1>6, <1>7, <1>8, <1>9, <1>11, <1>12, <1>13, <1>14, <1>15

\* Leave, bills and wages
LEMMA BilledKeepsRoster ==
  ASSUME TypeInv, NEW h \in Handler
  PROVE  /\ SaveLeave(h) => RosterKept(h)
         /\ LockLeave(h) => RosterKept(h)
         /\ SaveApproved(h) => RosterKept(h)
         /\ SaveBills(h) => RosterKept(h)
         /\ SaveWages(h) => RosterKept(h)
         /\ \A p \in TuitionPeriod, S \in SUBSET Student : DeleteBills(h, p, S) => RosterKept(h)
         /\ \A p \in SalaryPeriod : DeleteWages(h, p) => RosterKept(h)
<1>1. ASSUME Respond(h) PROVE req'[h].pc = "idle"
  BY <1>1, IdleTyped DEF Respond, TypeInv
<1>2. ASSUME SaveLeave(h) PROVE RosterKept(h)
  BY <1>1, <1>2 DEF SaveLeave, At, tables, RowsKept, RosterKept, Planning
<1>3. ASSUME LockLeave(h) PROVE RosterKept(h)
  <2>1. req'[h].pc \in {"idle", "saveApproved"}
    BY <1>1, <1>3 DEF LockLeave, Refuse, Step, Idle, TypeInv
  <2>2. RowsKept /\ req[h].pc = "lockLeave"
    BY <1>3 DEF LockLeave, Refuse, At, tables, RowsKept
  <2> QED
    BY <2>1, <2>2 DEF RosterKept, Planning
<1>4. ASSUME SaveApproved(h) PROVE RosterKept(h)
  <2> DEFINE new == [Entity(req[h].row) EXCEPT !.present = FALSE]
  <2>1. new \in AttendanceRow /\ new # Absent
    BY EntityTyped, RowTyped, NoRowConstants DEF TypeInv, RequestTyped
  <2>2. RowsKept
    BY <1>4, <2>1 DEF SaveApproved, tables, TypeInv, TypeOK, RowsKept
  <2> QED
    BY <1>1, <1>4, <2>2 DEF SaveApproved, At, RosterKept, Planning
<1>5. ASSUME NEW l \in Lesson, att[l] # Absent, NEW p \in TuitionPeriod \union {None}
      PROVE  [att[l] EXCEPT !.bill = p] # Absent
  <2>1. att[l] \in AttendanceRow
    BY <1>5 DEF TypeInv, TypeOK
  <2> QED
    BY <2>1, BilledRowTyped, NoRowConstants
<1>6. ASSUME SaveBills(h) PROVE RosterKept(h)
  <2>1. req[h].on \in TuitionPeriod
    BY <1>6 DEF SaveBills, TypeInv, RequestFits, At
  <2> QED
    BY <1>1, <1>5, <1>6, <2>1 DEF SaveBills, At, RowsKept, RosterKept, Planning
<1>7. ASSUME SaveWages(h) PROVE RosterKept(h)
  BY <1>1, <1>7 DEF SaveWages, At, Held, RowsKept, RosterKept, Planning
<1>8. ASSUME NEW p \in TuitionPeriod, NEW S \in SUBSET Student, DeleteBills(h, p, S)
      PROVE  RosterKept(h)
  BY <1>5, <1>8 DEF DeleteBills, Release, At, RowsKept, RosterKept, Planning
<1>9. ASSUME NEW p \in SalaryPeriod, DeleteWages(h, p) PROVE RosterKept(h)
  BY <1>9 DEF DeleteWages, At, Held, RowsKept, RosterKept, Planning
<1> QED
  BY <1>2, <1>3, <1>4, <1>6, <1>7, <1>8, <1>9

-----------------------------------------------------------------------------
(* Statements that delete rows, and those that insert them                 *)

\* A session is deleted after its rows.
LEMMA SessionDeletedWhole ==
  ASSUME NEW h \in Handler, RosterInv(h), \A s \in Session : LockKept(s)
  PROVE  /\ DeleteSessionRows(h) => RosterStepDone(h)
         /\ DeleteSessionRow(h) => RosterStepDone(h)
<1> DEFINE s == req[h].on
<1>1. TypeInv
  BY DEF RosterInv, AloneInv, LessonInv
<1>2. ASSUME DeleteSessionRows(h) PROVE RosterStepDone(h)
  <2>1. /\ req[h].pc = "deleteRows" /\ s \in Held /\ SessionDisposable(s) /\ Missing = {}
    BY <1>2, NothingPending DEF DeleteSessionRows, At, RosterInv, Plans, Disposing
  <2>2. CASE Refuse(h)
    <3>1. RosterKept(h)
      BY <1>1, <2>1, <2>2, IdleTyped, ReadKeepsRows
      DEF Refuse, Respond, TypeInv, RosterKept, Planning
    <3> QED
      BY <3>1, KeptRoster
  <2>3. CASE ~Refuse(h)
    <3>1. /\ att' = [l \in Lesson |-> IF l \in Rows({s}) THEN Absent ELSE att[l]]
          /\ session' = session /\ roster' = roster
          /\ req'[h].pc = "deleteSession" /\ req'[h].on = s
      BY <1>1, <1>2, <2>3 DEF DeleteSessionRows, DeleteRows, Step, Idle, TypeInv
    <3>2. \A st \in Student : att'[<<s, st>>] = Absent
      BY <2>1, <3>1 DEF Rows, Held, Lesson
    <3>3. ASSUME NEW x, x = s PROVE x \in Held' /\ SessionDisposable(x)'
      <4>1. Rows({x})' = {}
        BY <3>2, <3>3 DEF Rows
      <4> QED
        BY <2>1, <3>1, <3>3, <4>1 DEF Held, SessionDisposable, Waged
    <3>4. ASSUME NEW l \in Missing' PROVE l \in Pending(h)'
      <4>1. /\ l \in Lesson /\ l \in Held \X Active
            /\ ~session[l[1]].locked /\ Day[l[1]] >= roster[l[2]].joined /\ att'[l] = Absent
        BY <3>1 DEF Missing, Held, Active, Lesson
      <4>2. att[l] # Absent
        BY <2>1, <4>1 DEF Missing
      <4>3. l \in Rows({s})
        BY <3>1, <4>1, <4>2
      <4> QED
        BY <3>1, <4>1, <4>3 DEF Pending, At, Rows
    <3> QED
      BY <3>1, <3>2, <3>3, <3>4
      DEF RosterStepDone, Plans, Disposing, Regenerating, RosterCurrent, At
  <2> QED
    BY <2>2, <2>3
<1>3. ASSUME DeleteSessionRow(h) PROVE RosterStepDone(h)
  <2>1. /\ req[h].pc = "deleteSession" /\ s \in Held /\ SessionDisposable(s)
        /\ Missing \subseteq Pending(h)
    BY <1>3 DEF DeleteSessionRow, At, RosterInv, Plans, Disposing
  <2>2. SessionDeletable(s)
    BY <2>1 DEF SessionDisposable, SessionDeletable, RowDisposable, RowDeletable
  <2>3. /\ session' = [x \in Session |-> IF x \in {s} THEN Absent ELSE session[x]]
        /\ att' = [l \in Lesson |-> IF l \in Rows({s}) THEN Absent ELSE att[l]]
        /\ roster' = roster /\ req'[h].pc = "idle"
    BY <1>1, <1>3, <2>1, <2>2, IdleTyped
    DEF DeleteSessionRow, RemoveSessions, DeleteRows, Respond, TypeInv
  <2>4. ASSUME NEW l \in Missing' PROVE FALSE
    <3>1. /\ l \in Lesson /\ l[1] # s /\ l \in Held \X Active
          /\ ~session[l[1]].locked /\ Day[l[1]] >= roster[l[2]].joined /\ att'[l] = Absent
      BY <2>3 DEF Missing, Held, Active, Lesson
    <3>2. att[l] = Absent
      BY <2>3, <3>1 DEF Rows
    <3>3. l \in Pending(h)
      BY <2>1, <3>1, <3>2 DEF Missing
    <3> QED
      BY <2>1, <3>1, <3>3 DEF Pending, At
  <2> QED
    BY <2>3, <2>4, NothingPlanned DEF RosterStepDone, Planning
<1> QED
  BY <1>2, <1>3

\* Sessions to be generated again are deleted after their rows: all of them.
LEMMA SessionsDeletedWhole ==
  ASSUME NEW h \in Handler, RosterInv(h), \A s \in Session : LockKept(s)
  PROVE  /\ RegenRows(h) => RosterStepDone(h)
         /\ RegenSessions(h) => RosterStepDone(h)
<1>1. TypeInv
  BY DEF RosterInv, AloneInv, LessonInv
<1>2. ASSUME RegenRows(h) PROVE RosterStepDone(h)
  <2>1. /\ req[h].pc = "regenRows" /\ Missing = {} /\ Regenerating(h)
    BY <1>2, NothingPending DEF RegenRows, At, RosterInv, Plans
  <2>2. CASE Refuse(h)
    <3>1. RosterKept(h)
      BY <1>1, <2>1, <2>2, IdleTyped, ReadKeepsRows
      DEF Refuse, Respond, TypeInv, RosterKept, Planning
    <3> QED
      BY <3>1, KeptRoster
  <2>3. CASE ~Refuse(h)
    <3>1. /\ att' = [l \in Lesson |->
               IF l \in {k \in req[h].gone : att[k] # Absent} THEN Absent ELSE att[l]]
          /\ session' = session /\ roster' = roster
          /\ req'[h].pc = "regenSessions" /\ req'[h].day = req[h].day
          /\ req'[h].rows = req[h].rows
      BY <1>1, <1>2, <2>3 DEF RegenRows, DeleteRows, Step, Idle, TypeInv
    <3>2. ASSUME NEW from PROVE Replaceable(from)' = Replaceable(from)
      BY <3>1 DEF Replaceable, Held
    <3>3. ASSUME NEW s \in Replaceable(req[h].day), NEW st \in Student,
                 <<s, st>> \notin req[h].rows
          PROVE  SessionDisposable(s)' /\ \A x \in Student : att'[<<s, x>>] = Absent
      <4>1. SessionDisposable(s) /\ {s} \X Student \subseteq req[h].gone /\ s \in Session
        BY <2>1, <3>3 DEF Regenerating, At, Replaceable, Held
      <4>2. \A x \in Student : att'[<<s, x>>] = Absent
        BY <3>1, <4>1 DEF Lesson
      <4> QED
        BY <3>1, <4>1, <4>2 DEF SessionDisposable, Waged, Rows
    <3>4. ASSUME NEW l \in Missing' PROVE l \in Pending(h)'
      <4>1. /\ l \in Lesson /\ l \in Held \X Active
            /\ ~session[l[1]].locked /\ Day[l[1]] >= roster[l[2]].joined /\ att'[l] = Absent
        BY <3>1 DEF Missing, Held, Active, Lesson
      <4>2. att[l] # Absent
        BY <2>1, <4>1 DEF Missing
      <4>3. l \in req[h].gone
        BY <3>1, <4>1, <4>2
      <4>4. l[1] \in Replaceable(req[h].day) /\ \A k \in req[h].rows : k[1] # l[1]
        BY <2>1, <4>3 DEF Regenerating, At
      <4> QED
        BY <3>1, <3>2, <4>1, <4>4 DEF Pending, At
    <3>5. Regenerating(h)'
      BY <3>1, <3>2, <3>3 DEF Regenerating, At
    <3> QED
      BY <3>1, <3>4, <3>5 DEF RosterStepDone, Plans, Disposing, RosterCurrent, At
  <2> QED
    BY <2>2, <2>3
<1>3. ASSUME RegenSessions(h) PROVE RosterStepDone(h)
  <2> DEFINE S == {s \in Replaceable(req[h].day) : \A l \in req[h].rows : l[1] # s}
  <2>1. /\ req[h].pc = "regenSessions" /\ Missing \subseteq Pending(h) /\ Regenerating(h)
    BY <1>3 DEF RegenSessions, At, RosterInv, Plans
  <2>2. ASSUME NEW s \in S, NEW st \in Student
        PROVE  SessionDeletable(s)
    <3>1. <<s, st>> \notin req[h].rows
      OBVIOUS
    <3>2. SessionDisposable(s)
      BY <2>1, <3>1 DEF Regenerating
    <3> QED
      BY <3>2 DEF SessionDisposable, SessionDeletable, RowDisposable, RowDeletable
  <2>3. CASE \A s \in S : SessionDeletable(s)
    <3>1. /\ session' = [x \in Session |-> IF x \in S THEN Absent ELSE session[x]]
          /\ att' = [l \in Lesson |-> IF l \in Rows(S) THEN Absent ELSE att[l]]
          /\ roster' = roster /\ req'[h].pc = "readClass"
      BY <1>1, <1>3, <2>3
      DEF RegenSessions, RemoveSessions, DeleteRows, Step, Idle, TypeInv
    <3> HIDE DEF S
    <3>2. ASSUME NEW l \in Missing' PROVE FALSE
      <4>1. /\ l \in Lesson /\ l[1] \notin S /\ l \in Held \X Active
            /\ ~session[l[1]].locked /\ Day[l[1]] >= roster[l[2]].joined /\ att'[l] = Absent
        BY <3>1 DEF Missing, Held, Active, Lesson
      <4>2. att[l] = Absent
        BY <3>1, <4>1 DEF Rows
      <4>3. l \in Pending(h)
        BY <2>1, <4>1, <4>2 DEF Missing
      <4> QED
        BY <2>1, <4>1, <4>3 DEF Pending, At, S
    <3> QED
      BY <3>1, <3>2, NothingPlanned DEF RosterStepDone, Planning
  <2>4. CASE ~(\A s \in S : SessionDeletable(s))
    <3>1. Student = {} /\ UNCHANGED tables /\ req'[h].pc = "idle"
      BY <1>1, <1>3, <2>2, <2>4, IdleTyped DEF RegenSessions, Refuse, Respond, TypeInv
    <3>2. Missing' = {}
      BY <3>1 DEF Missing, Active
    <3> QED
      BY <3>1, <3>2, NothingPlanned DEF RosterStepDone, Planning
  <2> QED
    BY <2>3, <2>4
<1> QED
  BY <1>2, <1>3

\* A new session has a row for every student that is expected in it.
LEMMA SessionsGenerated ==
  ASSUME NEW h \in Handler, RosterInv(h), \A s \in Session : LockKept(s)
  PROVE  /\ ReadClass(h) => RosterStepDone(h)
         /\ Generate(h) => RosterStepDone(h)
         /\ SaveAdhoc(h) => RosterStepDone(h)
<1>1. TypeInv /\ Plans(h)
  BY DEF RosterInv, AloneInv, LessonInv
<1>2. Respond(h) => req'[h].pc = "idle"
  BY <1>1, IdleTyped DEF Respond, TypeInv
<1>3. ASSUME ReadClass(h) PROVE RosterStepDone(h)
  <2>1. req[h].pc = "readClass" /\ UNCHANGED tables
    BY <1>3 DEF ReadClass, At
  <2>2. CASE Respond(h)
    <3>1. RosterKept(h)
      BY <1>2, <2>1, <2>2, ReadKeepsRows DEF RosterKept, Planning
    <3> QED
      BY <3>1, KeptRoster
  <2>3. CASE ~Respond(h)
    <3> DEFINE missing == {s \in Session : /\ Day[s] >= req[h].day
                                          /\ Slot[s] \in {Slot[w] : w \in Weekly}
                                          /\ \A x \in Held : Slot[x] # Slot[s]}
    <3> DEFINE copied == [s \in {x \in Held : /\ Day[x] >= req[h].day
                                             /\ Slot[x] \in {Slot[w] : w \in Weekly}
                                             /\ Refreshed(x)} |-> session[s]]
    <3>0. Step(h, [pc |-> "generate", todo |-> {}, rows |-> Expected(missing),
                   gone |-> missing \X Student, copy |-> copied])
      BY <1>3, <2>3 DEF ReadClass
    <3> HIDE DEF missing, copied
    <3>1. /\ req'[h].pc = "generate"
          /\ req'[h].rows = Expected(missing) /\ req'[h].gone = missing \X Student
      BY <1>1, <3>0 DEF Step, Idle, TypeInv
    <3>2. ASSUME NEW l \in req'[h].gone
          PROVE  /\ {l[1]} \X Student \subseteq req'[h].gone
                 /\ l[2] \in Active' /\ Day[l[1]] >= roster'[l[2]].joined => l \in req'[h].rows
      BY <2>1, <3>1 DEF Expected, Active, tables
    <3>3. Plans(h)'
      BY <3>1, <3>2 DEF Plans, Disposing, Regenerating, RosterCurrent, At
    <3> QED
      BY <2>1, <3>3, ReadKeepsRows, PlannedRoster
  <2> QED
    BY <2>2, <2>3
<1>4. ASSUME Generate(h) PROVE RosterStepDone(h)
  <2> DEFINE old == DOMAIN req[h].copy
  <2>1. req[h].pc = "generate" /\ req'[h].pc = "idle" /\ Missing = {}
    BY <1>2, <1>4, NothingPending DEF Generate, At, RosterInv
  <2>2. CASE old \subseteq Held /\ Insertions(h) # {}
    <3>1. PICK new \in Insertions(h) :
            /\ session' = [s \in Session |->
                 IF s \in old
                   THEN [session[s] EXCEPT !.status = "Scheduled", !.locked = FALSE]
                   ELSE IF s \in new THEN NewSession ELSE session[s]]
            /\ att' = [l \in Lesson |->
                 IF l \in req[h].rows /\ l[1] \in new THEN NewAttendance ELSE att[l]]
            /\ UNCHANGED <<roster, leave, period, order, charges, payroll>>
      BY <1>4, <2>2 DEF Generate
    <3>2. ASSUME NEW l \in Missing' PROVE FALSE
      <4>1. /\ l \in Lesson /\ l[1] \in Session /\ l[2] \in Student /\ l[2] \in Active
            /\ l = <<l[1], l[2]>>
            /\ session'[l[1]] # Absent /\ ~session'[l[1]].locked
            /\ Day[l[1]] >= roster[l[2]].joined /\ att'[l] = Absent
        <5>1. l \in Held' \X Active' /\ roster' = roster
          BY <3>1 DEF Missing
        <5>2. l[1] \in Held' /\ l[2] \in Active /\ l = <<l[1], l[2]>>
          BY <5>1 DEF Active
        <5>3. l[1] \in Session /\ session'[l[1]] # Absent /\ l[2] \in Student
          BY <5>2 DEF Held, Active
        <5> QED
          BY <5>1, <5>2, <5>3 DEF Missing, Lesson
      <4>2. l \in req[h].rows => l[1] \notin new
        BY <3>1, <4>1, NewRows, NoRowConstants
      <4>3. att[l] = Absent
        BY <3>1, <4>1, <4>2
      <4>4. CASE l[1] \in Held
        <5>1. ~session[l[1]].locked
          BY <4>1, <4>4 DEF LockKept, Held
        <5> QED
          BY <2>1, <4>1, <4>3, <4>4, <5>1 DEF Missing
      <4>5. CASE l[1] \notin Held
        <5>1. l[1] \in new
          BY <2>2, <3>1, <4>1, <4>5 DEF Held
        <5>2. PICK k \in req[h].gone : l[1] = k[1]
          BY <3>1, <5>1 DEF Insertions
        <5>3. l \in req[h].gone
          BY <1>1, <2>1, <4>1, <5>2 DEF Plans, RosterCurrent, At
        <5>4. l \in req[h].rows
          BY <1>1, <2>1, <4>1, <5>3 DEF Plans, RosterCurrent, At
        <5> QED
          BY <4>2, <5>1, <5>4
      <4> QED
        BY <4>4, <4>5
    <3> QED
      BY <2>1, <3>2, NothingPlanned DEF RosterStepDone, Planning
  <2>3. CASE ~(old \subseteq Held /\ Insertions(h) # {})
    <3>1. RosterKept(h)
      BY <1>4, <2>1, <2>3, ReadKeepsRows DEF Generate, RosterKept, Planning
    <3> QED
      BY <3>1, KeptRoster
  <2> QED
    BY <2>2, <2>3
<1>5. ASSUME SaveAdhoc(h) PROVE RosterStepDone(h)
  <2> DEFINE s == req[h].on
  <2>1. /\ req[h].pc = "saveAdhoc" /\ req'[h].pc = "idle" /\ Missing = {}
        /\ Active \subseteq req[h].todo
    BY <1>1, <1>2, <1>5, NothingPending DEF SaveAdhoc, At, RosterInv, Plans, RosterCurrent
  <2>2. CASE s \in Held
    <3>1. RosterKept(h)
      BY <1>5, <2>1, <2>2, ReadKeepsRows DEF SaveAdhoc, RosterKept, Planning
    <3> QED
      BY <3>1, KeptRoster
  <2>3. CASE s \notin Held
    <3>1. /\ session' = [session EXCEPT ![s] = NewSession]
          /\ att' = [l \in Lesson |->
               IF l \in {s} \X req[h].todo THEN NewAttendance ELSE att[l]]
          /\ roster' = roster
      BY <1>5, <2>3 DEF SaveAdhoc
    <3>2. ASSUME NEW l \in Missing' PROVE FALSE
      <4>1. /\ l \in Lesson /\ l[1] \in Session /\ l[2] \in Active /\ l = <<l[1], l[2]>>
            /\ session'[l[1]] # Absent /\ ~session'[l[1]].locked
            /\ Day[l[1]] >= roster[l[2]].joined /\ att'[l] = Absent
        BY <3>1 DEF Missing, Held, Active, Lesson
      <4>2. l[1] # s
        <5>1. l[1] = s => l \in {s} \X req[h].todo
          BY <2>1, <4>1
        <5> QED
          BY <3>1, <4>1, <5>1, NewRows, NoRowConstants
      <4>3. session'[l[1]] = session[l[1]] /\ att'[l] = att[l]
        BY <1>1, <3>1, <4>1, <4>2 DEF TypeInv, TypeOK
      <4> QED
        BY <2>1, <4>1, <4>3 DEF Missing, Held
    <3> QED
      BY <2>1, <3>2, NothingPlanned DEF RosterStepDone, Planning
  <2> QED
    BY <2>2, <2>3
<1> QED
  BY <1>3, <1>4, <1>5

\* Who enters the roster, or whose joined date moves, gets the rows; who leaves
\* it is expected no more.
LEMMA RosterChanged ==
  ASSUME NEW h \in Handler, RosterInv(h), \A s \in Session : LockKept(s)
  PROVE  /\ \A st \in Student : EnrollStudent(h, st) => RosterStepDone(h)
         /\ DropStudent(h) => RosterStepDone(h)
         /\ SaveJoined(h) => RosterStepDone(h)
<1>1. TypeInv /\ Plans(h)
  BY DEF RosterInv, AloneInv, LessonInv
<1>2. ASSUME NEW st \in Student, EnrollStudent(h, st) PROVE RosterStepDone(h)
  <2>1. req[h].pc = "idle" /\ req'[h].pc = "idle" /\ Missing = {}
    BY <1>2, NothingPending DEF EnrollStudent, At, RosterInv
  <2>2. /\ roster' = [roster EXCEPT ![st] = [status |-> "Active", joined |-> Today]]
        /\ att' = [l \in Lesson |->
             IF l \in OpenLessons(st, Today) THEN NewAttendance ELSE att[l]]
        /\ session' = session
    BY <1>2 DEF EnrollStudent
  <2>3. ASSUME NEW l \in Missing' PROVE FALSE
    <3>1. /\ l \in Lesson /\ l[1] \in Held /\ l[2] \in Student /\ l = <<l[1], l[2]>>
          /\ roster'[l[2]].status = "Active"
          /\ ~session[l[1]].locked /\ Day[l[1]] >= roster'[l[2]].joined /\ att'[l] = Absent
      BY <2>2 DEF Missing, Held, Active, Lesson
    <3>2. l \notin OpenLessons(st, Today) /\ att[l] = Absent
      BY <2>2, <3>1, NewRows, NoRowConstants
    <3>3. CASE l[2] = st
      <4>1. Day[l[1]] >= Today
        BY <1>1, <2>2, <3>1, <3>3 DEF TypeInv, TypeOK
      <4> QED
        BY <3>1, <3>2, <3>3, <4>1 DEF OpenLessons
    <3>4. CASE l[2] # st
      <4>1. roster'[l[2]] = roster[l[2]]
        BY <1>1, <2>2, <3>1, <3>4 DEF TypeInv, TypeOK
      <4> QED
        BY <2>1, <3>1, <3>2, <4>1 DEF Missing, Active
    <3> QED
      BY <3>3, <3>4
  <2> QED
    BY <2>1, <2>3, NothingPlanned DEF RosterStepDone, Planning
<1>3. ASSUME DropStudent(h) PROVE RosterStepDone(h)
  <2>1. /\ req[h].pc = "dropStudent" /\ Missing = {}
        /\ \A l \in req[h].gone : l[2] \in req[h].todo
    BY <1>1, <1>3, NothingPending DEF DropStudent, At, RosterInv, Plans, RosterCurrent
  <2>2. CASE Refuse(h)
    <3>1. RosterKept(h)
      BY <1>1, <2>1, <2>2, IdleTyped, ReadKeepsRows
      DEF Refuse, Respond, TypeInv, RosterKept, Planning
    <3> QED
      BY <3>1, KeptRoster
  <2>3. CASE ~Refuse(h)
    <3>1. /\ roster' = [st \in Student |-> IF st \in req[h].todo
                                             THEN [roster[st] EXCEPT !.status = "Dropped"]
                                             ELSE roster[st]]
          /\ att' = [l \in Lesson |->
               IF l \in {k \in req[h].gone : att[k] # Absent} THEN Absent ELSE att[l]]
          /\ session' = session
          /\ req'[h] = [Regeneration(Today) EXCEPT !.op = "remove"]
      BY <1>1, <1>3, <2>3 DEF DropStudent, DeleteRows, TypeInv
    <3>2. ASSUME NEW l \in Missing' PROVE FALSE
      <4>1. /\ l \in Lesson /\ l[1] \in Held /\ l[2] \in Student /\ l = <<l[1], l[2]>>
            /\ roster'[l[2]].status = "Active"
            /\ ~session[l[1]].locked /\ Day[l[1]] >= roster'[l[2]].joined /\ att'[l] = Absent
        BY <3>1 DEF Missing, Held, Active, Lesson
      <4>2. l[2] \notin req[h].todo
        <5>1. l[2] \in req[h].todo => roster'[l[2]].status = "Dropped"
          BY <1>1, <3>1, <4>1 DEF TypeInv, TypeOK
        <5> QED
          BY <4>1, <5>1
      <4>3. roster'[l[2]] = roster[l[2]] /\ att'[l] = att[l]
        BY <2>1, <3>1, <4>1, <4>2
      <4> QED
        BY <2>1, <4>1, <4>3 DEF Missing, Active
    <3>3. Plans(h)'
      <4> DEFINE r == Regeneration(Today)
      <4>1. Today \in Nat /\ DOMAIN r = DOMAIN Idle
        BY LessonConstants, RegenerationTyped DEF RequestTyped
      <4> HIDE DEF r
      <4>2. /\ req'[h].pc = r.pc /\ req'[h].day = r.day
            /\ req'[h].rows = r.rows /\ req'[h].gone = r.gone
        BY <3>1, <4>1 DEF r, Idle
      <4>3. Replaceable(Today)' = Replaceable(Today)
        BY <3>1 DEF Replaceable, Held
      <4>4. ASSUME NEW s \in Session, SessionDisposable(s) PROVE SessionDisposable(s)'
        <5>1. \A l \in Rows({s})' : l \in Rows({s}) /\ att'[l] = att[l]
          <6> SUFFICES ASSUME NEW st \in Student, att'[<<s, st>>] # Absent
                       PROVE  att[<<s, st>>] # Absent /\ att'[<<s, st>>] = att[<<s, st>>]
            BY DEF Rows
          <6> QED
            BY <3>1, <4>4 DEF Lesson
        <5> QED
          BY <3>1, <4>4, <5>1 DEF SessionDisposable, RowDisposable, Waged
      <4>5. /\ req'[h].pc = "regenRows" /\ req'[h].day = Today
            /\ \A s \in Replaceable(Today), st \in Student :
                 <<s, st>> \notin req'[h].rows =>
                   SessionDisposable(s) /\ {s} \X Student \subseteq req'[h].gone
            /\ \A l \in req'[h].gone : /\ l[1] \in Replaceable(Today)
                                       /\ \A k \in req'[h].rows : k[1] # l[1]
        BY <4>1, <4>2, RegenerationPlans DEF r
      <4>6. Replaceable(Today) \subseteq Session
        BY DEF Replaceable, Held
      <4> QED
        BY <4>3, <4>4, <4>5, <4>6 DEF Plans, Disposing, Regenerating, RosterCurrent, At
    <3> QED
      BY <3>2, <3>3 DEF RosterStepDone
  <2> QED
    BY <2>2, <2>3
<1>4. ASSUME SaveJoined(h) PROVE RosterStepDone(h)
  <2> DEFINE r == req[h]
             L == {l \in r.gone : att[l] # Absent}
  <2>1. /\ r.pc = "saveJoined" /\ req'[h].pc = "idle" /\ Missing = {}
        /\ \A l \in Held \X r.todo : Day[l[1]] >= r.day /\ att[l] = Absent => l \in r.rows
        /\ \A l \in r.gone : l[2] \in r.todo /\ ~(Day[l[1]] >= r.day)
    BY <1>1, <1>4, IdleTyped, NothingPending
    DEF SaveJoined, Respond, TypeInv, At, RosterInv, Plans, RosterCurrent
  <2>2. CASE UNCHANGED tables
    <3>1. RosterKept(h)
      BY <2>1, <2>2, ReadKeepsRows DEF RosterKept, Planning
    <3> QED
      BY <3>1, KeptRoster
  <2>3. CASE ~UNCHANGED tables
    <3>1. /\ roster' = [st \in Student |-> IF st \in r.todo
                                             THEN [roster[st] EXCEPT !.joined = r.day]
                                             ELSE roster[st]]
          /\ att' = [l \in Lesson |-> IF l \in r.rows THEN NewAttendance
                                      ELSE IF l \in L THEN Absent ELSE att[l]]
          /\ session' = session
          /\ r.todo \subseteq Active
      BY <1>4, <2>3 DEF SaveJoined
    <3>2. ASSUME NEW l \in Missing' PROVE FALSE
      <4>1. /\ l \in Lesson /\ l[1] \in Held /\ l[2] \in Student /\ l = <<l[1], l[2]>>
            /\ roster'[l[2]].status = "Active"
            /\ ~session[l[1]].locked /\ Day[l[1]] >= roster'[l[2]].joined /\ att'[l] = Absent
        BY <3>1 DEF Missing, Held, Active, Lesson
      <4>2. l \notin r.rows
        BY <3>1, <4>1, NewRows, NoRowConstants
      <4>3. CASE l[2] \in r.todo
        <5>1. Day[l[1]] >= r.day
          BY <1>1, <3>1, <4>1, <4>3 DEF TypeInv, TypeOK
        <5>2. l \notin L /\ l \in Held \X r.todo
          BY <2>1, <4>1, <4>3, <5>1
        <5>3. att[l] = Absent
          BY <3>1, <4>1, <4>2, <5>2
        <5> QED
          BY <2>1, <4>2, <5>1, <5>2, <5>3
      <4>4. CASE l[2] \notin r.todo
        <5>1. roster'[l[2]] = roster[l[2]] /\ att'[l] = att[l]
          BY <2>1, <3>1, <4>1, <4>2, <4>4
        <5> QED
          BY <2>1, <4>1, <5>1 DEF Missing, Active
      <4> QED
        BY <4>3, <4>4
    <3> QED
      BY <2>1, <3>2, NothingPlanned DEF RosterStepDone, Planning
  <2> QED
    BY <2>2, <2>3
<1> QED
  BY <1>2, <1>3, <1>4

\* Every step of the only handler
LEMMA RosterSteps ==
  ASSUME NEW h \in Handler, RosterInv(h),
         \/ ReceiveSessionRequest(h) \/ ServeSessionRequest(h)
         \/ ReceiveRosterRequest(h) \/ ServeRosterRequest(h)
         \/ ReceiveBillingRequest(h) \/ ServeBillingRequest(h)
         \/ ReceiveLeaveRequest(h) \/ ServeLeaveRequest(h)
  PROVE  RosterStepDone(h)
<1>1. TypeInv /\ Remembers(h) /\ \A s \in Session : LockKept(s)
  BY HandlerKeeps DEF RosterInv, AloneInv, LessonInv, AloneStep
<1>2. ASSUME Plans(h)' /\ UNCHANGED tables /\ At(h, "idle") PROVE RosterStepDone(h)
  BY <1>1, <1>2, ReadKeepsRows, PlannedRoster DEF At
<1>3. CASE ReceiveSessionRequest(h)
  BY <1>1, <1>2, <1>3, BeginPlans, BeginKeepsRoster, KeptRoster DEF ReceiveSessionRequest
<1>4. CASE ServeSessionRequest(h)
  BY <1>1, <1>4, ServedKeepsRoster, KeptRoster, SessionDeletedWhole, SessionsDeletedWhole,
     SessionsGenerated DEF ServeSessionRequest
<1>5. CASE ReceiveRosterRequest(h)
  BY <1>1, <1>2, <1>5, BeginPlans, RosterChanged DEF ReceiveRosterRequest
<1>6. CASE ServeRosterRequest(h)
  BY <1>1, <1>6, RosterChanged, SessionsGenerated DEF ServeRosterRequest
<1>7. CASE ReceiveBillingRequest(h)
  BY <1>1, <1>7, BeginKeepsRoster, BilledKeepsRoster, KeptRoster DEF ReceiveBillingRequest
<1>8. CASE ServeBillingRequest(h)
  BY <1>1, <1>8, BilledKeepsRoster, KeptRoster DEF ServeBillingRequest
<1>9. CASE ReceiveLeaveRequest(h)
  BY <1>1, <1>9, BeginKeepsRoster, KeptRoster DEF ReceiveLeaveRequest
<1>10. CASE ServeLeaveRequest(h)
  BY <1>1, <1>10, BilledKeepsRoster, KeptRoster DEF ServeLeaveRequest
<1> QED
  BY <1>3, <1>4, <1>5, <1>6, <1>7, <1>8, <1>9, <1>10

\* RosterComplete: as long as no request dies between the deletion of rows and
\* that of their sessions, every active student has a row in every session
\* still to be held, whatever the sequence of enrolments, removals, joined
\* dates, ad hoc sessions and changes of the timetable.
THEOREM RosterAlwaysComplete ==
  ASSUME NEW h, Handler = {h}, "crash" \notin Operations
  PROVE  Spec => []RosterComplete
<1>1. h \in Handler
  OBVIOUS
<1>2. Init => RosterInv(h)
  <2> SUFFICES ASSUME Init PROVE RosterInv(h)
    OBVIOUS
  <2>1. AloneInv(h)
    BY <1>1, AloneInit
  <2>2. Missing = {}
    BY DEF Missing, Active, Init, TablesInit
  <2>3. Plans(h)
    BY <1>1, IdleTyped
    DEF Plans, Disposing, Regenerating, RosterCurrent, At, Init, TablesInit
  <2> QED
    BY <2>1, <2>2, <2>3 DEF RosterInv
<1>3. RosterInv(h) /\ [Next]_vars => RosterInv(h)'
  <2> SUFFICES ASSUME RosterInv(h), [Next]_vars PROVE RosterInv(h)'
    OBVIOUS
  <2>1. AloneInv(h)'
    BY <1>1, AloneKeeps, AloneStutters DEF RosterInv
  <2>2. CASE Next
    <3>1. RosterStepDone(h)
      BY <1>1, <2>2, RosterSteps DEF Next, Crash
    <3> QED
      BY <2>1, <3>1 DEF RosterInv, RosterStepDone
  <2>3. CASE UNCHANGED vars
    <3>1. UNCHANGED tables /\ req' = req
      BY <2>3 DEF vars, tables
    <3>2. Missing' = Missing /\ Pending(h)' = Pending(h)
      BY <3>1 DEF Missing, Pending, Replaceable, Held, Active, At, tables
    <3>3. Plans(h)'
      BY <3>1 DEF RosterInv, Plans, Disposing, Regenerating, RosterCurrent, SessionDisposable,
         RowDisposable, Waged, Rows, Replaceable, Held, Active, At, tables
    <3> QED
      BY <2>1, <3>2, <3>3 DEF RosterInv
  <2> QED
    BY <2>2, <2>3
<1>4. RosterInv(h) => RosterComplete
  <2> SUFFICES ASSUME RosterInv(h), \A g \in Handler : At(g, "idle"),
                      NEW l \in Held \X Active,
                      ~session[l[1]].locked, Day[l[1]] >= roster[l[2]].joined
               PROVE  l \in Rows(Held)
    BY DEF RosterComplete
  <2>1. Missing = {}
    BY <1>1, NothingPending DEF RosterInv, At
  <2> QED
    BY <2>1 DEF Missing, Rows, Active
<1> QED
  BY <1>2, <1>3, <1>4, PTL DEF Spec
=============================================================================
