---------------------------- MODULE LessonTables ----------------------------
(***************************************************************************)
(* The tables around one class - sessions, roster, attendance, leave       *)
(* requests, bills and wages - with the constraints the database itself    *)
(* enforces on them: triggers, foreign keys and unique indexes.            *)
(*                                                                         *)
(* A handler is one HTTP request or one time clock event.  Most endpoints  *)
(* use no transaction: they read rows, decide, and save the copies they    *)
(* read.  TypeORM's save loads the row again and writes EVERY column that  *)
(* differs from the copy, so a stale copy undoes what others have written. *)
(***************************************************************************)
EXTENDS Naturals, FiniteSets

CONSTANTS
  Session,        \* ids of sessions of the class, the bound on its rows
  Slot,           \* date and start time of a session, not unique
  Weekly,         \* the sessions its weekly timetable has created
  Student,
  TuitionPeriod,  \* payment_periods of type 'tuition', of different months
                  \* (bill codes are unique within a month)
  SalaryPeriod,   \* payment_periods of type 'salary'
  Handler,        \* requests served concurrently
  Operations,     \* the endpoints in use
  Day,            \* the date of a session
  Today,
  Absent, None    \* no row; NULL

ASSUME LessonConstants ==
  /\ Weekly \subseteq Session
  /\ \A s, u \in Session : Slot[s] = Slot[u] => Day[s] = Day[u]
  /\ Day \in [Session -> Nat]
  /\ Today \in Nat
  /\ TuitionPeriod \cap SalaryPeriod = {}

VARIABLES
  session,   \* class_sessions
  roster,    \* class_students
  att,       \* student_attendance by session and student
  leave,     \* status of the latest leave_requests row
  period,    \* payment_periods
  order,     \* students with a bill in a tuition period
  charges,   \* the lessons a period charges, with the presence it counted
  payroll,   \* the sessions a salary period pays
  req        \* the request each handler serves

tables == <<session, roster, att, leave, period, order, charges, payroll>>
vars == <<session, roster, att, leave, period, order, charges, payroll, req>>

Lesson == Session \X Student

SessionStatus == {"Scheduled", "In-Progress", "Completed", "Cancelled"}
LeaveStatus == {"none", "pending", "approved", "rejected", "cancelled"}

SessionRow ==
  [status : SessionStatus, locked : BOOLEAN, wage : SalaryPeriod \union {None}]

\* verified: verify_method set by a time clock; manual: attendance_type;
\* graded: evaluation score or comment
AttendanceRow ==
  [present : BOOLEAN, verified : BOOLEAN, manual : BOOLEAN, graded : BOOLEAN,
   bill : TuitionPeriod \union {None}]

ASSUME NoRowConstants ==
  /\ Absent \notin SessionRow /\ Absent \notin AttendanceRow
  /\ None \notin TuitionPeriod /\ None \notin SalaryPeriod

NewSession == [status |-> "Scheduled", locked |-> FALSE, wage |-> None]

NewAttendance ==
  [present |-> FALSE, verified |-> FALSE, manual |-> FALSE, graded |-> FALSE,
   bill |-> None]

\* pc: next step; on: session; todo: students still to do; copy: session rows
\* read; row: attendance row read; rows: lessons to write; gone: lessons to
\* delete; day: a joined date
Idle ==
  [pc |-> "idle", op |-> "none", on |-> None, todo |-> {}, copy |-> <<>>,
   row |-> Absent, rows |-> {}, gone |-> {}, day |-> 0]

TablesInit ==
  /\ session = [s \in Session |-> IF s \in Weekly THEN NewSession ELSE Absent]
  /\ roster = [st \in Student |-> [status |-> "none", joined |-> 0]]
  /\ att = [l \in Lesson |-> Absent]
  /\ leave = [l \in Lesson |-> "none"]
  /\ period = [p \in TuitionPeriod \union SalaryPeriod |-> "none"]
  /\ order = [p \in TuitionPeriod |-> {}]
  /\ charges = [p \in TuitionPeriod |-> {}]
  /\ payroll = [p \in SalaryPeriod |-> {}]
  /\ req = [h \in Handler |-> Idle]

TypeOK ==
  /\ session \in [Session -> SessionRow \union {Absent}]
  /\ roster \in [Student -> [status : {"none", "Active", "Dropped"},
                             joined : Nat]]
  /\ att \in [Lesson -> AttendanceRow \union {Absent}]
  /\ leave \in [Lesson -> LeaveStatus]
  /\ period \in [TuitionPeriod \union SalaryPeriod
                   -> {"none", "open", "deleted"}]
  /\ order \in [TuitionPeriod -> SUBSET Student]
  /\ charges \in [TuitionPeriod -> SUBSET (Session \X Student \X BOOLEAN)]
  /\ payroll \in [SalaryPeriod -> SUBSET Session]
  /\ \A h \in Handler :
       /\ req[h].on \in Session \union TuitionPeriod \union SalaryPeriod \union {None}
       /\ req[h].todo \subseteq Student
       /\ req[h].row \in AttendanceRow \union {Absent}
       /\ req[h].rows \subseteq Lesson
       /\ req[h].gone \subseteq Lesson

-----------------------------------------------------------------------------
(* What a row says.                                                        *)

Rows(S) == {l \in S \X Student : att[l] # Absent}

Held == {s \in Session : session[s] # Absent}

Active == {st \in Student : roster[st].status = "Active"}

Billed(s) == \E l \in Rows({s}) : att[l].bill # None

Waged(s) == session[s].wage # None

\* Completed or locked, and not cancelled: a lesson that can be charged.
Taught(s) ==
  /\ session[s].status # "Cancelled"
  /\ session[s].status = "Completed" \/ session[s].locked

-----------------------------------------------------------------------------
(* Constraints of the database.                                            *)

\* Mutant: without trg_prevent_billed_student_attendance_delete.
RowDeletable_NoTrigger(r) == TRUE

\* trg_prevent_billed_student_attendance_delete
RowDeletable(r) == r.bill = None /\ ~r.present /\ ~r.verified

\* Mutant: without trg_prevent_unsafe_class_session_delete.
SessionDeletable_NoTrigger(s) == TRUE

\* trg_prevent_unsafe_class_session_delete; the rows that cascade meet their
\* own trigger.
SessionDeletable(s) ==
  /\ session[s].status = "Scheduled" /\ ~session[s].locked /\ ~Waged(s)
  /\ \A l \in Rows({s}) : RowDeletable(att[l])

\* Mutant: no foreign key from bill_id to the bill.
BillKnown_NoForeignKey(l, r) == TRUE

\* The foreign key bill_id of row r of lesson l
BillKnown(l, r) == r.bill = None \/ l[2] \in order[r.bill]

WageKnown(r) == r.wage = None \/ period[r.wage] = "open"

-----------------------------------------------------------------------------
(* Control of a handler.                                                   *)

At(h, label) == req[h].pc = label

\* An idle handler takes up a request.
Begin(h, use, fields) ==
  /\ use \in Operations
  /\ At(h, "idle")
  /\ req' = [req EXCEPT ![h] = [f \in DOMAIN Idle |->
       IF f = "op" THEN use
       ELSE IF f \in DOMAIN fields THEN fields[f] ELSE Idle[f]]]

Step(h, fields) ==
  req' = [req EXCEPT ![h] = [f \in DOMAIN Idle |->
            IF f \in DOMAIN fields THEN fields[f] ELSE req[h][f]]]

\* The response, after success or after an error: what is not committed is
\* rolled back, what is committed stays.
Respond(h) == req' = [req EXCEPT ![h] = Idle]

Refuse(h) == Respond(h) /\ UNCHANGED tables

-----------------------------------------------------------------------------
(* TypeORM's save of a whole entity.                                       *)

\* session.save: a row deleted meanwhile is inserted again.
SaveSession(s, r) ==
  /\ session' = [session EXCEPT ![s] = r]
  /\ UNCHANGED <<roster, att, leave, period, order, charges, payroll>>

\* A save of attendance row `new` for lesson l fails on the unique index if
\* it was to be inserted and is there by now, and on its foreign keys.
Savable(l, read, new) ==
  /\ read = Absent => att[l] = Absent
  /\ session[l[1]] # Absent
  /\ BillKnown(l, new)

SaveAttendanceRow(l, new) ==
  /\ att' = [att EXCEPT ![l] = new]
  /\ UNCHANGED <<session, roster, leave, period, order, charges, payroll>>

\* The row to be saved: the copy read, or a new one.
Entity(read) == IF read = Absent THEN NewAttendance ELSE read
=============================================================================
