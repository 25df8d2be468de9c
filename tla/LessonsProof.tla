---------------------------- MODULE LessonsProof ----------------------------
(***************************************************************************)
(* The lessons of a class, for any sessions, students, periods and numbers *)
(* of requests at the same time: what is never lost, although nothing but  *)
(* triggers, foreign keys, one unique index and one row lock protects it.  *)
(***************************************************************************)
EXTENDS Lessons, TLAPS

-----------------------------------------------------------------------------
(* The inductive invariant                                                 *)

\* What a request remembers has its types ...
RequestTyped(r) ==
  /\ DOMAIN r = DOMAIN Idle
  /\ r.on \in Session \union TuitionPeriod \union SalaryPeriod \union {None}
  /\ r.todo \subseteq Student
  /\ DOMAIN r.copy \subseteq Session
  /\ \A s \in DOMAIN r.copy : r.copy[s] \in SessionRow
  /\ r.row \in AttendanceRow \union {Absent}
  /\ r.rows \subseteq Lesson
  /\ r.gone \subseteq Lesson
  /\ r.day \in Nat

\* ... and fits the statement it is at.
RequestFits(r) ==
  /\ r.pc \in {"saveStarted", "revertRows", "revertSave", "saveCompleted"} =>
       r.on \in DOMAIN r.copy
  /\ r.pc \in {"readMatch", "saveMatch", "readMark", "saveMark", "deleteRows",
               "deleteSession", "saveAdhoc", "saveLeave"} => r.on \in Session
  /\ r.pc = "saveBills" => r.on \in TuitionPeriod
  /\ r.pc = "saveWages" => r.on \in SalaryPeriod
  /\ r.pc \in {"lockLeave", "saveApproved"} =>
       r.on \in Session /\ \E st \in Student : r.todo = {st}

TypeInv ==
  /\ TypeOK
  /\ DOMAIN req = Handler
  /\ \A h \in Handler : RequestTyped(req[h]) /\ RequestFits(req[h])

\* The bill of row r of lesson l was created, and charges the lesson as long as
\* the student has an order in its period.
RowCharged(l, r) ==
  r # Absent /\ r.bill # None =>
    /\ period[r.bill] # "none"
    /\ l[2] \in order[r.bill] =>
         \E c \in charges[r.bill] : c[1] = l[1] /\ c[2] = l[2]

\* Rows and the copies about to be saved
RowsCharged ==
  \A l \in Lesson : RowCharged(l, att[l]) /\ (att[l] # Absent => BillKnown(l, att[l]))

CopyCharged(h) ==
  req[h].pc \in {"saveMatch", "saveMark"} =>
    \A l \in req[h].gone : RowCharged(l, req[h].row)

\* A period being created is nobody else's.
OwnPeriod(h) ==
  At(h, "saveBills") =>
    /\ period[req[h].on] = "none"
    /\ \A g \in Handler \ {h} : At(g, "saveBills") => req[g].on # req[h].on

\* The leave request that a reviewer has locked stays pending, and nobody
\* else's.
LeaveLockHeld(h) ==
  At(h, "saveApproved") =>
    \A st \in req[h].todo :
      /\ leave[<<req[h].on, st>>] = "pending"
      /\ \A g \in Handler \ {h} :
           At(g, "saveApproved") => <<req[h].on, st>> \notin {req[g].on} \X req[g].todo

LessonInv ==
  /\ TypeInv
  /\ RowsCharged
  /\ \A h \in Handler : CopyCharged(h) /\ OwnPeriod(h) /\ LeaveLockHeld(h)

-----------------------------------------------------------------------------
(* What a step does to the tables                                          *)

\* A session is deleted only where the trigger allows it.
SessionStep ==
  /\ session' \in [Session -> SessionRow \union {Absent}]
  /\ \A s \in Held : session'[s] # Absent \/ SessionDeletable(s)

\* An attendance row is deleted only where the trigger allows it, and one that
\* is written has no bill, the one it had, or a copy's that still exists.
RowStep(l) ==
  \/ att'[l] = Absent /\ (att[l] = Absent \/ RowDeletable(att[l]))
  \/ /\ att'[l] # Absent
     /\ \/ att'[l].bill = None
        \/ att[l] # Absent /\ att'[l].bill = att[l].bill
        \/ RowCharged(l, att'[l]) /\ BillKnown(l, att'[l])

AttendanceStep ==
  /\ att' \in [Lesson -> AttendanceRow \union {Absent}]
  /\ \A l \in Lesson : RowStep(l)

\* A decision is not changed, but by deleting the session, and the request a
\* reviewer other than h has locked is not touched.
LeaveStep(h) ==
  /\ leave' \in [Lesson -> LeaveStatus]
  /\ \A l \in Lesson :
       /\ leave[l] = "approved" => leave'[l] \in {"approved", "none"}
       /\ leave'[l] = "approved" => leave[l] \in {"pending", "approved"}
  /\ \A g \in Handler \ {h} : At(g, "saveApproved") =>
       \A st \in req[g].todo : leave'[<<req[g].on, st>>] = leave[<<req[g].on, st>>]

RosterStep ==
  roster' \in [Student -> [status : {"none", "Active", "Dropped"}, joined : Nat]]

MoneyKept == UNCHANGED <<period, order, charges, payroll>>

\* Handler h moves on to a request with its types; the others stay.
Moves(h) ==
  /\ DOMAIN req' = Handler
  /\ \A g \in Handler \ {h} : req'[g] = req[g]
  /\ RequestTyped(req'[h]) /\ RequestFits(req'[h])

\* It moves to a statement of which the invariant says nothing more ...
Delicate == {"saveMatch", "saveMark", "saveBills", "saveApproved"}

MovesOn(h) == Moves(h) /\ req'[h].pc \notin Delicate

\* ... or has read the copy it will save.
MovesCalmly(h) ==
  Moves(h) /\ CopyCharged(h)' /\ req'[h].pc \notin {"saveBills", "saveApproved"}

\* What all requests but those of billing and reviewing do
GentleStep(h) ==
  /\ MovesCalmly(h)
  /\ SessionStep /\ AttendanceStep /\ LeaveStep(h) /\ RosterStep /\ MoneyKept

\* What the action properties demand of a step
KeepsMarked == \A l \in Rows(Session) : Marked(att[l]) => att'[l] # Absent

KeepsTaught ==
  \A s \in Held :
    session[s].status # "Scheduled" \/ session[s].locked \/ Waged(s) \/ Billed(s)
      => session'[s] # Absent

DecidesOnce ==
  \A l \in Lesson :
    /\ leave[l] = "approved" => leave'[l] \in {"approved", "none"}
    /\ leave'[l] = "approved" => leave[l] \in {"pending", "approved"}

GoodStep == LessonInv' /\ KeepsMarked /\ KeepsTaught /\ DecidesOnce

\* Tables that a step leaves alone
LEMMA Untouched ==
  ASSUME TypeInv, NEW h \in Handler
  PROVE  /\ session' = session => SessionStep
         /\ att' = att => AttendanceStep
         /\ leave' = leave => LeaveStep(h)
         /\ roster' = roster => RosterStep
<1>1. ASSUME session' = session PROVE SessionStep
  BY <1>1 DEF TypeInv, TypeOK, SessionStep, Held
<1>2. ASSUME att' = att PROVE AttendanceStep
  BY <1>2 DEF TypeInv, TypeOK, AttendanceStep, RowStep
<1>3. ASSUME leave' = leave PROVE LeaveStep(h)
  BY <1>3 DEF TypeInv, TypeOK, LeaveStep
<1>4. ASSUME roster' = roster PROVE RosterStep
  BY <1>4 DEF TypeInv, TypeOK, RosterStep
<1> QED
  BY <1>1, <1>2, <1>3, <1>4

\* Moving on to such a statement is calm.
LEMMA MovesOnCalmly ==
  ASSUME NEW h \in Handler, MovesOn(h)
  PROVE  MovesCalmly(h)
  BY DEF MovesOn, Delicate, MovesCalmly, CopyCharged

\* The properties follow from the steps of the tables.
LEMMA StepKeeps ==
  ASSUME NEW h \in Handler, SessionStep, AttendanceStep, LeaveStep(h)
  PROVE  KeepsMarked /\ KeepsTaught /\ DecidesOnce
<1>1. KeepsMarked
  BY DEF KeepsMarked, AttendanceStep, RowStep, Rows, Lesson, Marked, RowDeletable
<1>2. KeepsTaught
  BY DEF KeepsTaught, SessionStep, SessionDeletable, Billed, RowDeletable
<1>3. DecidesOnce
  BY DEF DecidesOnce, LeaveStep
<1> QED
  BY <1>1, <1>2, <1>3

\* A gentle step preserves the invariant and has the action properties.
LEMMA GentleKeeps ==
  ASSUME LessonInv, NEW h \in Handler, GentleStep(h)
  PROVE  GoodStep
<1> USE DEF GentleStep
<1>1. TypeInv'
  BY DEF LessonInv, TypeInv, TypeOK, MovesCalmly, Moves, SessionStep, AttendanceStep,
         LeaveStep, RosterStep, MoneyKept, RequestTyped
<1>2. ASSUME NEW l \in Lesson
      PROVE  RowCharged(l, att[l])' /\ (att'[l] # Absent => BillKnown(l, att[l])')
  BY DEF LessonInv, RowsCharged, RowCharged, BillKnown, AttendanceStep, RowStep, MoneyKept
<1>3. ASSUME NEW g \in Handler
      PROVE  CopyCharged(g)'
  <2>1. CASE g = h
    BY <2>1 DEF MovesCalmly
  <2>2. CASE g # h
    BY <2>2 DEF LessonInv, CopyCharged, RowCharged, MovesCalmly, Moves, MoneyKept
  <2> QED
    BY <2>1, <2>2
<1>4. ASSUME NEW g \in Handler
      PROVE  OwnPeriod(g)'
  BY DEF LessonInv, OwnPeriod, At, MovesCalmly, Moves, MoneyKept
<1>5. ASSUME NEW g \in Handler
      PROVE  LeaveLockHeld(g)'
  BY DEF LessonInv, LeaveLockHeld, At, MovesCalmly, Moves, LeaveStep
<1>6. LessonInv'
  BY <1>1, <1>2, <1>3, <1>4, <1>5 DEF LessonInv, RowsCharged
<1> QED
  BY <1>6, StepKeeps DEF GoodStep

-----------------------------------------------------------------------------
(* Requests that begin                                                     *)

\* A handler without a request has its types.
LEMMA IdleTyped == RequestTyped(Idle) /\ RequestFits(Idle) /\ Idle.pc = "idle"
<1>1. Idle.copy = <<>> /\ DOMAIN <<>> = {}
  BY DEF Idle
<1>2. RequestTyped(Idle)
  BY <1>1 DEF Idle, RequestTyped
<1> QED
  BY <1>2 DEF Idle, RequestFits

\* So has one that regenerates sessions from a date on.
LEMMA RegenerationTyped ==
  ASSUME NEW from \in Nat
  PROVE  /\ RequestTyped(Regeneration(from)) /\ RequestFits(Regeneration(from))
         /\ Regeneration(from).pc = "regenRows"
  BY IdleTyped DEF Regeneration, Replaceable, Held, Lesson, RequestTyped, RequestFits, Idle

\* After the response the handler is idle.
LEMMA RespondMoves ==
  ASSUME TypeInv, NEW h \in Handler, Respond(h)
  PROVE  MovesOn(h)
  BY IdleTyped DEF TypeInv, Respond, MovesOn, Moves, Delicate

\* A step that only reads
LEMMA ReadOnly ==
  ASSUME TypeInv, NEW h \in Handler, MovesCalmly(h), UNCHANGED tables
  PROVE  GentleStep(h)
  BY Untouched DEF GentleStep, MoneyKept, tables

\* The same of a step to such a statement.
LEMMA MovesOnReading ==
  ASSUME TypeInv, NEW h \in Handler, MovesOn(h), UNCHANGED tables
  PROVE  GentleStep(h)
  BY MovesOnCalmly, ReadOnly

\* An error changes no table.
LEMMA RefuseGentle ==
  ASSUME TypeInv, NEW h \in Handler, Refuse(h)
  PROVE  GentleStep(h)
  BY RespondMoves, MovesOnReading DEF Refuse

\* Requests about sessions
LEMMA SessionRequestsBegin ==
  ASSUME TypeInv, NEW h \in Handler
  PROVE  /\ \A s \in Session : StartAttendance(h, s) => GentleStep(h)
         /\ \A s \in Session, st \in Student : ClockEvent(h, s, st) => GentleStep(h)
         /\ \A s \in Session : RevertToScheduled(h, s) => GentleStep(h)
         /\ \A s \in Session, S \in SUBSET Student : SaveAttendance(h, s, S) => GentleStep(h)
         /\ \A s \in Session, S \in SUBSET Student : OverrideAttendance(h, s, S) => GentleStep(h)
         /\ \A s \in Session, S \in SUBSET Student : SaveEvaluations(h, s, S) => GentleStep(h)
         /\ \A s \in Session : CompleteSession(h, s) => GentleStep(h)
         /\ \A s \in Session : UpdateSession(h, s) => GentleStep(h)
         /\ \A s \in Session : DeleteSession(h, s) => GentleStep(h)
         /\ RegenerateFutureSessions(h) => GentleStep(h)
<1> USE DEF TypeInv, MovesOn, Moves, Delicate, RequestTyped, RequestFits, At, Idle
<1>1. ASSUME NEW s \in Session, StartAttendance(h, s)
      PROVE  MovesOn(h) /\ UNCHANGED tables
  BY <1>1 DEF StartAttendance, Begin, OnlySession, Held, TypeOK
<1>2. ASSUME NEW s \in Session, NEW st \in Student, ClockEvent(h, s, st)
      PROVE  MovesOn(h) /\ UNCHANGED tables
  BY <1>2 DEF ClockEvent, Begin, Active
<1>3. ASSUME NEW s \in Session, RevertToScheduled(h, s)
      PROVE  MovesOn(h) /\ UNCHANGED tables
  BY <1>3 DEF RevertToScheduled, Begin, OnlySession, Held, TypeOK
<1>4. ASSUME NEW s \in Session, NEW S \in SUBSET Student, SaveAttendance(h, s, S)
      PROVE  MovesOn(h) /\ UNCHANGED tables
  BY <1>4 DEF SaveAttendance, Begin
<1>5. ASSUME NEW s \in Session, NEW S \in SUBSET Student, OverrideAttendance(h, s, S)
      PROVE  MovesOn(h) /\ UNCHANGED tables
  BY <1>5 DEF OverrideAttendance, Begin
<1>6. ASSUME NEW s \in Session, NEW S \in SUBSET Student, SaveEvaluations(h, s, S)
      PROVE  MovesOn(h) /\ UNCHANGED tables
  BY <1>6 DEF SaveEvaluations, Begin
<1>7. ASSUME NEW s \in Session, CompleteSession(h, s)
      PROVE  MovesOn(h) /\ UNCHANGED tables
  BY <1>7 DEF CompleteSession, Begin, OnlySession, Held, TypeOK
<1>8. ASSUME NEW s \in Session, UpdateSession(h, s)
      PROVE  MovesOn(h) /\ UNCHANGED tables
  BY <1>8 DEF UpdateSession, Begin, Held, TypeOK
<1>9. ASSUME NEW s \in Session, DeleteSession(h, s)
      PROVE  MovesOn(h) /\ UNCHANGED tables
  BY <1>9 DEF DeleteSession, Begin
<1>10. ASSUME RegenerateFutureSessions(h) PROVE MovesOn(h) /\ UNCHANGED tables
  BY <1>10, RegenerationTyped, RegenerateConstants DEF RegenerateFutureSessions, Begin
<1> HIDE DEF TypeInv, MovesOn, Moves, Delicate, RequestTyped, RequestFits, At, Idle
<1> QED
  BY <1>1, <1>2, <1>3, <1>4, <1>5, <1>6, <1>7, <1>8, <1>9, <1>10, MovesOnReading

\* Requests about the roster, leave and salaries
LEMMA OtherRequestsBegin ==
  ASSUME TypeInv, NEW h \in Handler
  PROVE  /\ \A st \in Student : RemoveStudent(h, st) => GentleStep(h)
         /\ \A S \in SUBSET Student, from \in JoinDays :
              UpdateJoinedDate(h, S, from) => GentleStep(h)
         /\ \A s \in Session : CreateAdhocSession(h, s) => GentleStep(h)
         /\ \A p \in SalaryPeriod : FindSalarySources(h, p) => GentleStep(h)
         /\ \A s \in Session, st \in Student : SubmitLeave(h, s, st) => GentleStep(h)
         /\ \A s \in Session, st \in Student : ReviewLeave(h, s, st) => GentleStep(h)
         /\ \A s \in Session, st \in Student : CancelLeave(h, s, st) => GentleStep(h)
<1> USE DEF TypeInv, MovesOn, Moves, Delicate, RequestTyped, RequestFits, At, Idle
<1>1. ASSUME NEW st \in Student, RemoveStudent(h, st)
      PROVE  MovesOn(h) /\ UNCHANGED tables
  BY <1>1 DEF RemoveStudent, Begin, Rows, Held, Lesson
<1>2. ASSUME NEW S \in SUBSET Student, NEW from \in JoinDays, UpdateJoinedDate(h, S, from)
      PROVE  MovesOn(h) /\ UNCHANGED tables
  BY <1>2, RosterConstants DEF UpdateJoinedDate, Begin, Rows, Held, Lesson
<1>3. ASSUME NEW s \in Session, CreateAdhocSession(h, s)
      PROVE  MovesOn(h) /\ UNCHANGED tables
  BY <1>3 DEF CreateAdhocSession, Begin, Active
<1>4. ASSUME NEW p \in SalaryPeriod, FindSalarySources(h, p)
      PROVE  MovesOn(h) /\ UNCHANGED tables
  BY <1>4 DEF FindSalarySources, Begin, Held, Lesson
<1>5. ASSUME NEW s \in Session, NEW st \in Student, SubmitLeave(h, s, st)
      PROVE  MovesOn(h) /\ UNCHANGED tables
  BY <1>5 DEF SubmitLeave, Begin
<1>6. ASSUME NEW s \in Session, NEW st \in Student, ReviewLeave(h, s, st)
      PROVE  MovesOn(h) /\ UNCHANGED tables
  BY <1>6 DEF ReviewLeave, Begin
<1>7. ASSUME NEW s \in Session, NEW st \in Student, CancelLeave(h, s, st)
      PROVE  MovesOn(h) /\ UNCHANGED tables
  BY <1>7 DEF CancelLeave, Begin
<1> HIDE DEF TypeInv, MovesOn, Moves, Delicate, RequestTyped, RequestFits, At, Idle
<1> QED
  BY <1>1, <1>2, <1>3, <1>4, <1>5, <1>6, <1>7, MovesOnReading

-----------------------------------------------------------------------------
(* Statements that write                                                   *)

\* The effects of the writing operators
LEMMA SavedSession ==
  ASSUME TypeInv, NEW h \in Handler, NEW s \in Session, NEW r \in SessionRow,
         SaveSession(s, r)
  PROVE  SessionStep /\ AttendanceStep /\ LeaveStep(h) /\ RosterStep /\ MoneyKept
<1>1. SessionStep
  BY NoRowConstants DEF SaveSession, TypeInv, TypeOK, SessionStep, Held
<1> QED
  BY <1>1, Untouched DEF SaveSession, MoneyKept

\* A row is saved that has no bill, or a copy's that is known.
LEMMA SavedRow ==
  ASSUME TypeInv, NEW h \in Handler, NEW l \in Lesson, NEW r \in AttendanceRow,
         r.bill = None \/ (RowCharged(l, r) /\ BillKnown(l, r)),
         SaveAttendanceRow(l, r)
  PROVE  SessionStep /\ AttendanceStep /\ LeaveStep(h) /\ RosterStep /\ MoneyKept
<1>1. AttendanceStep
  BY NoRowConstants DEF SaveAttendanceRow, TypeInv, TypeOK, AttendanceStep, RowStep
<1> QED
  BY <1>1, Untouched DEF SaveAttendanceRow, MoneyKept

\* Rows are deleted that the trigger allows.
LEMMA DeletedRows ==
  ASSUME TypeInv, NEW L \in SUBSET Lesson, DeleteRows(L),
         \A l \in L : att[l] # Absent => RowDeletable(att[l])
  PROVE  AttendanceStep
  BY DEF DeleteRows, TypeInv, TypeOK, AttendanceStep, RowStep

\* Sessions are deleted with their rows and leave requests.
LEMMA RemovedSessions ==
  ASSUME TypeInv, NEW h \in Handler, NEW S \in SUBSET Session, RemoveSessions(S),
         \A s \in S : SessionDeletable(s), ~LeaveLocked(S)
  PROVE  SessionStep /\ AttendanceStep /\ LeaveStep(h) /\ RosterStep /\ MoneyKept
<1>1. SessionStep
  BY DEF RemoveSessions, TypeInv, TypeOK, SessionStep, Held
<1>2. ASSUME NEW l \in Rows(S)
      PROVE  l \in Lesson /\ (att[l] # Absent => RowDeletable(att[l]))
  <2>1. l \in Lesson /\ l[1] \in S /\ l \in Rows({l[1]})
    BY <1>2 DEF Rows, Lesson
  <2> QED
    BY <2>1 DEF SessionDeletable
<1>3. AttendanceStep
  BY <1>2, DeletedRows DEF RemoveSessions
<1>4. LeaveStep(h)
  BY DEF RemoveSessions, TypeInv, TypeOK, LeaveStep, LeaveStatus, LeaveLocked, Lesson,
         RequestTyped, RequestFits, At
<1> QED
  BY <1>1, <1>3, <1>4, Untouched DEF RemoveSessions, MoneyKept

\* What makes a step gentle
LEMMA GentleParts ==
  ASSUME NEW h \in Handler, MovesOn(h),
         SessionStep, AttendanceStep, LeaveStep(h), RosterStep, MoneyKept
  PROVE  GentleStep(h)
  BY MovesOnCalmly DEF GentleStep

\* The columns that requests write in a copy of a session.
LEMMA SessionRowTyped ==
  ASSUME NEW r \in SessionRow, NEW status \in SessionStatus
  PROVE  /\ [r EXCEPT !.status = status] \in SessionRow
         /\ [r EXCEPT !.status = status, !.locked = TRUE] \in SessionRow
         /\ [r EXCEPT !.status = status, !.locked = FALSE] \in SessionRow
<1>1. [r EXCEPT !.status = status] \in SessionRow
  BY DEF SessionRow
<1>2. ASSUME NEW q \in SessionRow, NEW b \in BOOLEAN
      PROVE  [q EXCEPT !.locked = b] \in SessionRow
  BY DEF SessionRow
<1>3. /\ [[r EXCEPT !.status = status] EXCEPT !.locked = TRUE] \in SessionRow
      /\ [[r EXCEPT !.status = status] EXCEPT !.locked = FALSE] \in SessionRow
  BY <1>1, <1>2
<1> QED
  BY <1>1, <1>3

\* start, revert, complete and update save their copy of the session.
LEMMA SessionWrites ==
  ASSUME TypeInv, NEW h \in Handler
  PROVE  /\ SaveStarted(h) => GentleStep(h)
         /\ RevertSave(h) => GentleStep(h)
         /\ SaveCompleted(h) => GentleStep(h)
         /\ SaveUpdated(h) => GentleStep(h)
<1>1. \A s \in DOMAIN req[h].copy, status \in SessionStatus :
        /\ [req[h].copy[s] EXCEPT !.status = status] \in SessionRow
        /\ [req[h].copy[s] EXCEPT !.status = status, !.locked = TRUE] \in SessionRow
  BY SessionRowTyped DEF TypeInv, RequestTyped
<1>2. DOMAIN req[h].copy \subseteq Session
  BY DEF TypeInv, RequestTyped
<1>3. ASSUME SaveStarted(h) PROVE GentleStep(h)
  <2>1. MovesOn(h)
    BY <1>3 DEF SaveStarted, Step, Active, TypeInv, MovesOn, Moves, Delicate, RequestTyped,
       RequestFits, At, Idle
  <2>2. req[h].on \in DOMAIN req[h].copy
    BY <1>3 DEF SaveStarted, TypeInv, RequestFits, At
  <2> QED
    BY <1>1, <1>2, <1>3, <2>1, <2>2, SavedSession, GentleParts
    DEF SaveStarted, Copy, SessionStatus
<1>4. ASSUME RevertSave(h) PROVE GentleStep(h)
  <2>1. req[h].on \in DOMAIN req[h].copy
    BY <1>4 DEF RevertSave, TypeInv, RequestFits, At
  <2> QED
    BY <1>1, <1>2, <1>4, <2>1, RespondMoves, SavedSession, GentleParts
    DEF RevertSave, Copy, SessionStatus
<1>5. ASSUME SaveCompleted(h) PROVE GentleStep(h)
  <2>1. req[h].on \in DOMAIN req[h].copy
    BY <1>5 DEF SaveCompleted, TypeInv, RequestFits, At
  <2>2. CASE WageKnown(Copy(h))
    BY <1>1, <1>2, <1>5, <2>1, <2>2, RespondMoves, SavedSession, GentleParts
    DEF SaveCompleted, Copy, SessionStatus
  <2>3. CASE ~WageKnown(Copy(h))
    BY <1>5, <2>3, RefuseGentle DEF SaveCompleted
  <2> QED
    BY <2>2, <2>3
<1>6. ASSUME SaveUpdated(h) PROVE GentleStep(h)
  <2>1. CASE DOMAIN req[h].copy = {}
    BY <1>6, <2>1, RefuseGentle DEF SaveUpdated
  <2>2. CASE DOMAIN req[h].copy # {}
    <3>1. PICK s \in DOMAIN req[h].copy, status \in SessionStatus :
            /\ SaveSession(s, [req[h].copy[s] EXCEPT !.status = status])
            /\ Step(h, [copy |-> [x \in DOMAIN req[h].copy \ {s} |-> req[h].copy[x]]])
      BY <1>6, <2>2 DEF SaveUpdated
    <3>2. MovesOn(h)
      BY <1>6, <3>1 DEF SaveUpdated, Step, TypeInv, MovesOn, Moves, Delicate, RequestTyped,
         RequestFits, At, Idle
    <3> QED
      BY <1>1, <1>2, <3>1, <3>2, SavedSession, GentleParts
  <2> QED
    BY <2>1, <2>2
<1> QED
  BY <1>3, <1>4, <1>5, <1>6

\* The row that save starts from
LEMMA EntityTyped ==
  ASSUME NEW r \in AttendanceRow \union {Absent}
  PROVE  /\ Entity(r) \in AttendanceRow
         /\ r = Absent => Entity(r).bill = None
         /\ r # Absent => Entity(r) = r
  BY DEF Entity, NewAttendance, AttendanceRow

\* Marking a row leaves its bill.
LEMMA RowTyped ==
  ASSUME NEW r \in AttendanceRow, NEW value \in BOOLEAN
  PROVE  /\ [r EXCEPT !.present = value] \in AttendanceRow
         /\ [r EXCEPT !.present = value].bill = r.bill
         /\ [r EXCEPT !.graded = value] \in AttendanceRow
         /\ [r EXCEPT !.graded = value].bill = r.bill
         /\ [r EXCEPT !.present = value, !.manual = TRUE] \in AttendanceRow
         /\ [r EXCEPT !.present = value, !.manual = TRUE].bill = r.bill
         /\ [r EXCEPT !.present = value, !.verified = value, !.manual = FALSE]
              \in AttendanceRow
         /\ [r EXCEPT !.present = value, !.verified = value, !.manual = FALSE].bill = r.bill
<1>1. ASSUME NEW q \in AttendanceRow, NEW v \in BOOLEAN
      PROVE  /\ [q EXCEPT !.present = v] \in AttendanceRow
             /\ [q EXCEPT !.present = v].bill = q.bill
  BY DEF AttendanceRow
<1>2. ASSUME NEW q \in AttendanceRow, NEW v \in BOOLEAN
      PROVE  /\ [q EXCEPT !.graded = v] \in AttendanceRow
             /\ [q EXCEPT !.graded = v].bill = q.bill
  BY DEF AttendanceRow
<1>3. ASSUME NEW q \in AttendanceRow, NEW v \in BOOLEAN
      PROVE  /\ [q EXCEPT !.manual = v] \in AttendanceRow
             /\ [q EXCEPT !.manual = v].bill = q.bill
  BY DEF AttendanceRow
<1>4. ASSUME NEW q \in AttendanceRow, NEW v \in BOOLEAN
      PROVE  /\ [q EXCEPT !.verified = v] \in AttendanceRow
             /\ [q EXCEPT !.verified = v].bill = q.bill
  BY DEF AttendanceRow
<1>5. /\ [[r EXCEPT !.present = value] EXCEPT !.manual = TRUE] \in AttendanceRow
      /\ [[r EXCEPT !.present = value] EXCEPT !.manual = TRUE].bill = r.bill
  BY <1>1, <1>3
<1>6. /\ [[r EXCEPT !.present = value] EXCEPT !.verified = value] \in AttendanceRow
      /\ [[r EXCEPT !.present = value] EXCEPT !.verified = value].bill = r.bill
  BY <1>1, <1>4
<1>7. /\ [[[r EXCEPT !.present = value] EXCEPT !.verified = value] EXCEPT !.manual = FALSE]
           \in AttendanceRow
      /\ [[[r EXCEPT !.present = value] EXCEPT !.verified = value] EXCEPT !.manual = FALSE].bill
           = r.bill
  BY <1>3, <1>6
<1> QED
  BY <1>1, <1>2, <1>5, <1>7

\* A copy is saved with the bill it had.
LEMMA SavedCopy ==
  ASSUME LessonInv, NEW h \in Handler, NEW l \in req[h].gone, NEW r \in AttendanceRow,
         req[h].pc \in {"saveMatch", "saveMark"},
         r.bill = Entity(req[h].row).bill, Savable(l, req[h].row, r),
         SaveAttendanceRow(l, r)
  PROVE  SessionStep /\ AttendanceStep /\ LeaveStep(h) /\ RosterStep /\ MoneyKept
<1>1. l \in Lesson /\ req[h].row \in AttendanceRow \union {Absent}
  BY DEF LessonInv, TypeInv, RequestTyped
<1>2. CASE req[h].row = Absent
  BY <1>1, <1>2, EntityTyped, SavedRow DEF LessonInv
<1>3. CASE req[h].row # Absent
  <2>1. RowCharged(l, r) /\ BillKnown(l, r)
    BY <1>1, <1>3, EntityTyped DEF LessonInv, CopyCharged, RowCharged, Savable
  <2> QED
    BY <1>1, <2>1, SavedRow DEF LessonInv
<1> QED
  BY <1>2, <1>3

\* The clock and saveAttendance read the row of the next student.
LEMMA RowReads ==
  ASSUME LessonInv, NEW h \in Handler
  PROVE  (ReadMatch(h) \/ ReadMark(h)) => GentleStep(h)
<1> SUFFICES ASSUME ReadMatch(h) \/ ReadMark(h)
             PROVE  GentleStep(h)
  OBVIOUS
<1>1. TypeInv /\ UNCHANGED tables
  BY DEF LessonInv, ReadMatch, ReadMark
<1>2. CASE Respond(h)
  BY <1>1, <1>2, RespondMoves, MovesOnReading
<1>3. ASSUME NEW st \in req[h].todo, Step(h, [todo |-> req[h].todo \ {st}])
      PROVE  GentleStep(h)
  <2>1. MovesOn(h)
    BY <1>1, <1>3 DEF ReadMatch, ReadMark, Step, TypeInv, MovesOn, Moves, Delicate,
       RequestTyped, RequestFits, At, Idle
  <2> QED
    BY <1>1, <2>1, MovesOnReading
<1>4. ASSUME NEW st \in req[h].todo, NEW at \in {"saveMatch", "saveMark"},
             Step(h, [pc |-> at, row |-> att[<<req[h].on, st>>],
                      gone |-> {<<req[h].on, st>>}])
      PROVE  GentleStep(h)
  <2> DEFINE l == <<req[h].on, st>>
  <2>1. l \in Lesson
    BY <1>1 DEF ReadMatch, ReadMark, TypeInv, RequestTyped, RequestFits, At, Lesson
  <2>2. att[l] \in AttendanceRow \union {Absent} /\ RowCharged(l, att[l])
    BY <1>1, <2>1 DEF TypeInv, TypeOK, LessonInv, RowsCharged
  <2>3. /\ req'[h].pc = at /\ req'[h].row = att[l] /\ req'[h].gone = {l}
        /\ Moves(h)
    BY <1>1, <1>4, <2>1, <2>2 DEF ReadMatch, ReadMark, Step, TypeInv, Moves,
       RequestTyped, RequestFits, At, Idle
  <2>4. CopyCharged(h)'
    BY <1>1, <2>2, <2>3 DEF CopyCharged, RowCharged, tables
  <2>5. MovesCalmly(h)
    BY <2>3, <2>4 DEF MovesCalmly
  <2> QED
    BY <1>1, <2>5, ReadOnly
<1> QED
  BY <1>2, <1>3, <1>4 DEF ReadMatch, ReadMark

\* They save it, and reverting resets the rows of a session.
LEMMA RowWrites ==
  ASSUME LessonInv, NEW h \in Handler
  PROVE  /\ SaveMatch(h) => GentleStep(h)
         /\ SaveMark(h) => GentleStep(h)
         /\ RevertRows(h) => GentleStep(h)
<1>1. TypeInv
  BY DEF LessonInv
<1>2. /\ req[h].row \in AttendanceRow \union {Absent}
      /\ Entity(req[h].row) \in AttendanceRow
  BY <1>1, EntityTyped DEF TypeInv, RequestTyped
<1>3. ASSUME SaveMatch(h) PROVE GentleStep(h)
  <2>1. PICK l \in req[h].gone, seen \in BOOLEAN :
          LET new == [Entity(req[h].row) EXCEPT
                        !.present = seen, !.verified = seen, !.manual = FALSE]
          IN IF Savable(l, req[h].row, new)
               THEN /\ SaveAttendanceRow(l, new)
                    /\ Step(h, [pc |-> "readMatch", row |-> Absent, gone |-> {},
                                todo |-> req[h].todo \ {l[2]}])
               ELSE Refuse(h)
    BY <1>3 DEF SaveMatch
  <2> DEFINE new == [Entity(req[h].row) EXCEPT
                       !.present = seen, !.verified = seen, !.manual = FALSE]
  <2>2. new \in AttendanceRow /\ new.bill = Entity(req[h].row).bill
    BY <1>2, RowTyped
  <2>3. CASE Savable(l, req[h].row, new)
    <3>1. MovesOn(h)
      BY <1>1, <1>3, <2>1, <2>3 DEF SaveMatch, Step, TypeInv, MovesOn, Moves, Delicate,
         RequestTyped, RequestFits, At, Idle
    <3>2. SaveAttendanceRow(l, new) /\ req[h].pc = "saveMatch"
      BY <1>3, <2>1, <2>3 DEF SaveMatch, At
    <3> QED
      BY <2>2, <2>3, <3>1, <3>2, SavedCopy, GentleParts
  <2>4. CASE ~Savable(l, req[h].row, new)
    BY <1>1, <2>1, <2>4, RefuseGentle
  <2> QED
    BY <2>3, <2>4
<1>4. ASSUME SaveMark(h) PROVE GentleStep(h)
  <2> DEFINE old == Entity(req[h].row)
             new(value) == IF req[h].op = "grade"
                             THEN [old EXCEPT !.graded = value]
                             ELSE [old EXCEPT !.present = value, !.manual = TRUE]
  <2>1. PICK l \in req[h].gone, value \in BOOLEAN :
          IF Savable(l, req[h].row, new(value))
            THEN /\ SaveAttendanceRow(l, new(value))
                 /\ Step(h, [pc |-> "readMark", row |-> Absent, gone |-> {},
                             todo |-> req[h].todo \ {l[2]}])
            ELSE Refuse(h)
    BY <1>4 DEF SaveMark
  <2>2. new(value) \in AttendanceRow /\ new(value).bill = Entity(req[h].row).bill
    BY <1>2, RowTyped
  <2>3. CASE Savable(l, req[h].row, new(value))
    <3>1. MovesOn(h)
      BY <1>1, <1>4, <2>1, <2>3 DEF SaveMark, Step, TypeInv, MovesOn, Moves, Delicate,
         RequestTyped, RequestFits, At, Idle
    <3>2. SaveAttendanceRow(l, new(value)) /\ req[h].pc = "saveMark"
      BY <1>4, <2>1, <2>3 DEF SaveMark, At
    <3> QED
      BY <2>2, <2>3, <3>1, <3>2, SavedCopy, GentleParts
  <2>4. CASE ~Savable(l, req[h].row, new(value))
    BY <1>1, <2>1, <2>4, RefuseGentle
  <2> QED
    BY <2>3, <2>4
<1>5. ASSUME RevertRows(h) PROVE GentleStep(h)
  <2>1. MovesOn(h)
    BY <1>1, <1>5 DEF RevertRows, Step, TypeInv, MovesOn, Moves, Delicate, RequestTyped,
       RequestFits, At, Idle
  <2>2. ASSUME NEW l \in Lesson, att[l] \in AttendanceRow
        PROVE  /\ [att[l] EXCEPT !.present = FALSE] \in AttendanceRow
               /\ [att[l] EXCEPT !.present = FALSE].bill = att[l].bill
    BY <2>2, RowTyped
  <2>3. ASSUME NEW l \in Lesson
        PROVE  /\ att'[l] \in AttendanceRow \union {Absent}
               /\ RowStep(l)
    <3>1. att[l] \in AttendanceRow \union {Absent}
      BY <1>1 DEF TypeInv, TypeOK
    <3>2. CASE l \in Rows({req[h].on})
      <4>1. att[l] \in AttendanceRow /\ att'[l] = [att[l] EXCEPT !.present = FALSE]
        BY <1>5, <3>1, <3>2 DEF RevertRows, Rows
      <4> QED
        BY <2>2, <4>1, NoRowConstants DEF RowStep
    <3>3. CASE l \notin Rows({req[h].on})
      BY <1>5, <3>1, <3>3 DEF RevertRows, RowStep
    <3> QED
      BY <3>2, <3>3
  <2>4. AttendanceStep
    BY <1>5, <2>3 DEF RevertRows, AttendanceStep
  <2> QED
    BY <1>1, <1>5, <2>1, <2>4, Untouched, GentleParts DEF RevertRows, MoneyKept
<1> QED
  BY <1>3, <1>4, <1>5

\* Sessions deleted one by one or to be generated again, after their rows
LEMMA Deletions ==
  ASSUME TypeInv, NEW h \in Handler
  PROVE  /\ DeleteSessionRows(h) => GentleStep(h)
         /\ RegenRows(h) => GentleStep(h)
         /\ DeleteSessionRow(h) => GentleStep(h)
         /\ RegenSessions(h) => GentleStep(h)
<1>1. ASSUME DeleteSessionRows(h) PROVE GentleStep(h)
  <2> DEFINE L == Rows({req[h].on})
  <2>1. CASE \A l \in L : RowDeletable(att[l])
    <3>0. /\ req[h].pc = "deleteRows"
          /\ Step(h, [pc |-> "deleteSession"])
      BY <1>1, <2>1 DEF DeleteSessionRows, At
    <3>1. MovesOn(h)
      BY <3>0 DEF Step, TypeInv, MovesOn, Moves, Delicate, RequestTyped, RequestFits, Idle
    <3>2. L \subseteq Lesson
      <4>1. req[h].on \in Session
        BY <3>0 DEF TypeInv, RequestFits
      <4> QED
        BY <4>1 DEF Rows, Lesson
    <3>3. AttendanceStep
      BY <1>1, <2>1, <3>2, DeletedRows DEF DeleteSessionRows
    <3> QED
      BY <1>1, <2>1, <3>1, <3>3, Untouched, GentleParts DEF DeleteSessionRows, MoneyKept
  <2>2. CASE ~(\A l \in L : RowDeletable(att[l]))
    BY <1>1, <2>2, RefuseGentle DEF DeleteSessionRows
  <2> QED
    BY <2>1, <2>2
<1>2. ASSUME RegenRows(h) PROVE GentleStep(h)
  <2> DEFINE L == {l \in req[h].gone : att[l] # Absent}
  <2>1. CASE \A l \in L : RowDeletable(att[l])
    <3>1. MovesOn(h)
      BY <1>2, <2>1 DEF RegenRows, Step, TypeInv, MovesOn, Moves, Delicate,
         RequestTyped, RequestFits, At, Idle
    <3>2. L \subseteq Lesson
      BY DEF TypeInv, RequestTyped
    <3>3. AttendanceStep
      BY <1>2, <2>1, <3>2, DeletedRows DEF RegenRows
    <3> QED
      BY <1>2, <2>1, <3>1, <3>3, Untouched, GentleParts DEF RegenRows, MoneyKept
  <2>2. CASE ~(\A l \in L : RowDeletable(att[l]))
    BY <1>2, <2>2, RefuseGentle DEF RegenRows
  <2> QED
    BY <2>1, <2>2
<1>3. ASSUME DeleteSessionRow(h) PROVE GentleStep(h)
  <2> DEFINE s == req[h].on
  <2>1. CASE s \in Held /\ SessionDeletable(s)
    <3>1. {s} \in SUBSET Session /\ RemoveSessions({s}) /\ ~LeaveLocked({s}) /\ MovesOn(h)
      BY <1>3, <2>1, RespondMoves DEF DeleteSessionRow, Held
    <3>2. SessionStep /\ AttendanceStep /\ LeaveStep(h) /\ RosterStep /\ MoneyKept
      BY <2>1, <3>1, RemovedSessions
    <3> QED
      BY <3>1, <3>2, GentleParts
  <2>2. CASE ~(s \in Held /\ SessionDeletable(s))
    BY <1>3, <2>2, RefuseGentle DEF DeleteSessionRow
  <2> QED
    BY <2>1, <2>2
<1>4. ASSUME RegenSessions(h) PROVE GentleStep(h)
  <2> DEFINE S == {s \in Replaceable(req[h].day) : \A l \in req[h].rows : l[1] # s}
  <2>1. CASE \A s \in S : SessionDeletable(s)
    <3>1. S \in SUBSET Session /\ RemoveSessions(S) /\ ~LeaveLocked(S)
      BY <1>4, <2>1 DEF RegenSessions, Replaceable, Held
    <3>2. SessionStep /\ AttendanceStep /\ LeaveStep(h) /\ RosterStep /\ MoneyKept
      BY <2>1, <3>1, RemovedSessions
    <3>3. MovesOn(h)
      BY <1>4, <2>1 DEF RegenSessions, Step, TypeInv, MovesOn, Moves, Delicate,
         RequestTyped, RequestFits, At, Idle
    <3> QED
      BY <3>2, <3>3, GentleParts
  <2>2. CASE ~(\A s \in S : SessionDeletable(s))
    BY <1>4, <2>2, RefuseGentle DEF RegenSessions
  <2> QED
    BY <2>1, <2>2
<1> QED
  BY <1>1, <1>2, <1>3, <1>4

\* What is inserted
LEMMA NewRows ==
  /\ NewSession \in SessionRow
  /\ NewAttendance \in AttendanceRow /\ NewAttendance.bill = None
  BY DEF NewSession, SessionRow, SessionStatus, NewAttendance, AttendanceRow

\* Rows are added, and deletable ones removed.
LEMMA ChangedRows ==
  ASSUME TypeInv, att' = [l \in Lesson |-> att'[l]],
         \A l \in Lesson : \/ att'[l] = NewAttendance \/ att'[l] = att[l]
                           \/ att'[l] = Absent /\ RowDeletable(att[l])
  PROVE  AttendanceStep
<1>1. ASSUME NEW l \in Lesson
      PROVE  att'[l] \in AttendanceRow \union {Absent} /\ RowStep(l)
  BY NewRows, NoRowConstants DEF TypeInv, TypeOK, RowStep
<1> QED
  BY <1>1 DEF AttendanceStep

\* The timetable is read, and sessions with their rows inserted.
LEMMA Regenerations ==
  ASSUME TypeInv, NEW h \in Handler
  PROVE  /\ ReadClass(h) => GentleStep(h)
         /\ Generate(h) => GentleStep(h)
<1>1. ASSUME ReadClass(h) PROVE GentleStep(h)
  <2>1. CASE Respond(h)
    BY <1>1, <2>1, RespondMoves, MovesOnReading DEF ReadClass
  <2>2. CASE ~Respond(h)
    <3>1. MovesOn(h)
      BY <1>1, <2>2 DEF ReadClass, Step, TypeInv, TypeOK, MovesOn, Moves, Delicate,
         RequestTyped, RequestFits, At, Idle, Expected, Active, Held, Lesson
    <3> QED
      BY <1>1, <3>1, MovesOnReading DEF ReadClass
  <2> QED
    BY <2>1, <2>2
<1>2. ASSUME Generate(h) PROVE GentleStep(h)
  <2> DEFINE old == DOMAIN req[h].copy
  <2>1. MovesOn(h)
    BY <1>2, RespondMoves DEF Generate
  <2>2. CASE old \subseteq Held /\ Insertions(h) # {}
    <3>1. PICK new \in Insertions(h) :
            /\ session' = [s \in Session |->
                 IF s \in old
                   THEN [session[s] EXCEPT !.status = "Scheduled", !.locked = FALSE]
                   ELSE IF s \in new THEN NewSession ELSE session[s]]
            /\ att' = [l \in Lesson |->
                 IF l \in req[h].rows /\ l[1] \in new THEN NewAttendance ELSE att[l]]
            /\ UNCHANGED <<roster, leave, period, order, charges, payroll>>
      BY <1>2, <2>2 DEF Generate
    <3>2. ASSUME NEW s \in Session
          PROVE  /\ session'[s] \in SessionRow \union {Absent}
                 /\ s \in Held => session'[s] # Absent
      <4>1. CASE s \in old
        <5>1. session[s] \in SessionRow
          BY <2>2, <4>1 DEF Held, TypeInv, TypeOK
        <5> QED
          BY <3>1, <4>1, <5>1, SessionRowTyped, NoRowConstants DEF SessionStatus
      <4>2. CASE s \notin old
        BY <3>1, <4>2, NewRows, NoRowConstants DEF TypeInv, TypeOK, Held
      <4> QED
        BY <4>1, <4>2
    <3>3. SessionStep
      BY <3>1, <3>2 DEF SessionStep, Held
    <3>4. AttendanceStep
      BY <3>1, ChangedRows
    <3> QED
      BY <2>1, <3>1, <3>3, <3>4, Untouched, GentleParts DEF MoneyKept
  <2>3. CASE ~(old \subseteq Held /\ Insertions(h) # {})
    BY <1>2, <2>1, <2>3, MovesOnReading DEF Generate
  <2> QED
    BY <2>2, <2>3
<1> QED
  BY <1>1, <1>2

\* The transactions of the roster commit.
LEMMA RosterWrites ==
  ASSUME TypeInv, NEW h \in Handler
  PROVE  /\ (\E st \in Student : EnrollStudent(h, st)) => GentleStep(h)
         /\ DropStudent(h) => GentleStep(h)
         /\ SaveJoined(h) => GentleStep(h)
         /\ SaveAdhoc(h) => GentleStep(h)
<1>1. ASSUME NEW st \in Student, EnrollStudent(h, st) PROVE GentleStep(h)
  <2>1. MovesOn(h)
    BY <1>1 DEF EnrollStudent, At, TypeInv, MovesOn, Moves, Delicate
  <2>2. AttendanceStep
    BY <1>1, ChangedRows DEF EnrollStudent
  <2>3. RosterStep
    BY <1>1, LessonConstants DEF EnrollStudent, TypeInv, TypeOK, RosterStep
  <2> QED
    BY <1>1, <2>1, <2>2, <2>3, Untouched, GentleParts DEF EnrollStudent, MoneyKept
<1>2. ASSUME DropStudent(h) PROVE GentleStep(h)
  <2> DEFINE L == {l \in req[h].gone : att[l] # Absent}
  <2>1. CASE \A l \in L : RowDeletable(att[l])
    <3>1. /\ roster' = [st \in Student |-> IF st \in req[h].todo
                                             THEN [roster[st] EXCEPT !.status = "Dropped"]
                                             ELSE roster[st]]
          /\ DeleteRows(L)
          /\ req' = [req EXCEPT ![h] = [Regeneration(Today) EXCEPT !.op = "remove"]]
          /\ UNCHANGED <<session, leave, period, order, charges, payroll>>
      BY <1>2, <2>1 DEF DropStudent
    <3>2. MovesOn(h)
      BY <3>1, RegenerationTyped, LessonConstants DEF TypeInv, MovesOn, Moves, Delicate,
         RequestTyped, RequestFits, Idle
    <3>3. L \subseteq Lesson
      BY DEF TypeInv, RequestTyped
    <3>4. AttendanceStep
      BY <2>1, <3>1, <3>3, DeletedRows
    <3>5. RosterStep
      BY <3>1 DEF TypeInv, TypeOK, RosterStep
    <3> QED
      BY <3>1, <3>2, <3>4, <3>5, Untouched, GentleParts DEF MoneyKept
  <2>2. CASE ~(\A l \in L : RowDeletable(att[l]))
    BY <1>2, <2>2, RefuseGentle DEF DropStudent
  <2> QED
    BY <2>1, <2>2
<1>3. ASSUME SaveJoined(h) PROVE GentleStep(h)
  <2>1. MovesOn(h)
    BY <1>3, RespondMoves DEF SaveJoined
  <2>2. CASE UNCHANGED tables
    BY <2>1, <2>2, MovesOnReading
  <2>3. CASE ~UNCHANGED tables
    <3> DEFINE r == req[h]
               L == {l \in r.gone : att[l] # Absent}
    <3>1. /\ \A l \in L : RowDeletable(att[l])
          /\ roster' = [st \in Student |->
               IF st \in r.todo THEN [roster[st] EXCEPT !.joined = r.day] ELSE roster[st]]
          /\ att' = [l \in Lesson |-> IF l \in r.rows THEN NewAttendance
                                      ELSE IF l \in L THEN Absent ELSE att[l]]
          /\ UNCHANGED <<session, leave, period, order, charges, payroll>>
      BY <1>3, <2>3 DEF SaveJoined
    <3>2. AttendanceStep
      BY <3>1, ChangedRows
    <3>3. RosterStep
      BY <3>1 DEF TypeInv, TypeOK, RequestTyped, RosterStep
    <3> QED
      BY <2>1, <3>1, <3>2, <3>3, Untouched, GentleParts DEF MoneyKept
  <2> QED
    BY <2>2, <2>3
<1>4. ASSUME SaveAdhoc(h) PROVE GentleStep(h)
  <2> DEFINE s == req[h].on
  <2>1. MovesOn(h)
    BY <1>4, RespondMoves DEF SaveAdhoc
  <2>2. CASE s \in Held
    BY <1>4, <2>1, <2>2, MovesOnReading DEF SaveAdhoc
  <2>3. CASE s \notin Held
    <3>1. /\ session' = [session EXCEPT ![s] = NewSession]
          /\ att' = [l \in Lesson |->
               IF l \in {s} \X req[h].todo THEN NewAttendance ELSE att[l]]
          /\ UNCHANGED <<roster, leave, period, order, charges, payroll>>
      BY <1>4, <2>3 DEF SaveAdhoc
    <3>2. SessionStep
      BY <3>1, NewRows, NoRowConstants DEF TypeInv, TypeOK, SessionStep, Held
    <3>3. AttendanceStep
      BY <3>1, ChangedRows
    <3> QED
      BY <2>1, <3>1, <3>2, <3>3, Untouched, GentleParts DEF MoneyKept
  <2> QED
    BY <2>2, <2>3
<1> QED
  BY <1>1, <1>2, <1>3, <1>4

\* The status of one leave request, not locked by others, is changed.
LEMMA LeaveChanged ==
  ASSUME TypeInv, NEW h \in Handler, NEW l, NEW new \in LeaveStatus,
         leave' = [leave EXCEPT ![l] = new], leave[l] # "approved",
         new = "approved" => leave[l] = "pending",
         \A g \in Handler \ {h} : At(g, "saveApproved") =>
           \A st \in req[g].todo : l # <<req[g].on, st>>
  PROVE  LeaveStep(h)
<1>1. leave' \in [Lesson -> LeaveStatus]
  BY DEF TypeInv, TypeOK
<1>2. ASSUME NEW k \in Lesson
      PROVE  /\ leave[k] = "approved" => leave'[k] \in {"approved", "none"}
             /\ leave'[k] = "approved" => leave[k] \in {"pending", "approved"}
  BY DEF TypeInv, TypeOK
<1>3. ASSUME NEW k, k # l PROVE leave'[k] = leave[k]
  BY <1>3 DEF TypeInv, TypeOK
<1> QED
  BY <1>1, <1>2, <1>3 DEF LeaveStep

\* Leave is submitted, withdrawn, decided, or refused after the lock.
LEMMA LeaveWrites ==
  ASSUME LessonInv, NEW h \in Handler
  PROVE  /\ SaveLeave(h) => GentleStep(h)
         /\ SaveApproved(h) => GentleStep(h)
         /\ LockLeave(h) /\ req'[h].pc # "saveApproved" => GentleStep(h)
<1>1. TypeInv
  BY DEF LessonInv
<1>2. ASSUME NEW g \in Handler, At(g, "saveApproved"), NEW st \in req[g].todo
      PROVE  leave[<<req[g].on, st>>] = "pending"
  BY <1>2 DEF LessonInv, LeaveLockHeld
<1>3. ASSUME SaveLeave(h) PROVE GentleStep(h)
  <2>1. MovesOn(h)
    BY <1>1, <1>3, RespondMoves DEF SaveLeave
  <2>2. CASE UNCHANGED tables
    BY <1>1, <2>1, <2>2, MovesOnReading
  <2>3. CASE ~UNCHANGED tables
    <3>1. PICK st \in req[h].todo :
            /\ leave[<<req[h].on, st>>] \notin {"pending", "approved"}
            /\ leave' = [leave EXCEPT ![<<req[h].on, st>>] = "pending"]
            /\ UNCHANGED <<session, roster, att, period, order, charges, payroll>>
      BY <1>3, <2>3 DEF SaveLeave, LeaveInsertable
    <3>2. \A g \in Handler \ {h} : At(g, "saveApproved") =>
            \A s \in req[g].todo : <<req[h].on, st>> # <<req[g].on, s>>
      BY <1>2, <3>1
    <3>3. LeaveStep(h)
      BY <1>1, <3>1, <3>2, LeaveChanged DEF LeaveStatus
    <3> QED
      BY <1>1, <2>1, <3>1, <3>3, Untouched, GentleParts DEF MoneyKept
  <2> QED
    BY <2>2, <2>3
<1>4. ASSUME SaveApproved(h) PROVE GentleStep(h)
  <2> DEFINE new == [Entity(req[h].row) EXCEPT !.present = FALSE]
  <2>1. MovesOn(h)
    BY <1>1, <1>4, RespondMoves DEF SaveApproved
  <2>2. CASE UNCHANGED tables
    BY <1>1, <2>1, <2>2, MovesOnReading
  <2>3. CASE ~UNCHANGED tables
    <3>1. PICK st \in req[h].todo :
            /\ At(h, "saveApproved")
            /\ leave' = [leave EXCEPT ![<<req[h].on, st>>] = "approved"]
            /\ att' = [att EXCEPT ![<<req[h].on, st>>] = IF new.bill = None THEN new ELSE @]
            /\ UNCHANGED <<session, roster, period, order, charges, payroll>>
      BY <1>4, <2>3 DEF SaveApproved
    <3> DEFINE l == <<req[h].on, st>>
    <3>2. /\ leave[l] = "pending"
          /\ \A g \in Handler \ {h} : At(g, "saveApproved") => l \notin {req[g].on} \X req[g].todo
      BY <3>1 DEF LessonInv, LeaveLockHeld
    <3>3. LeaveStep(h)
      BY <1>1, <3>1, <3>2, LeaveChanged DEF LeaveStatus
    <3>4. new \in AttendanceRow
      BY <1>1, EntityTyped, RowTyped DEF TypeInv, RequestTyped
    <3>5. AttendanceStep
      <4>1. ASSUME NEW k \in Lesson
            PROVE  att'[k] \in AttendanceRow \union {Absent} /\ RowStep(k)
        <5>1. CASE att'[k] = att[k]
          BY <1>1, <5>1 DEF TypeInv, TypeOK, RowStep
        <5>2. CASE att'[k] # att[k]
          <6>1. att'[k] = new /\ new.bill = None
            BY <1>1, <3>1, <5>2 DEF TypeInv, TypeOK
          <6> QED
            BY <3>4, <6>1, NoRowConstants DEF RowStep
        <5> QED
          BY <5>1, <5>2
      <4>2. att' = [k \in Lesson |-> att'[k]]
        BY <1>1, <3>1 DEF TypeInv, TypeOK
      <4> QED
        BY <4>1, <4>2 DEF AttendanceStep
    <3> QED
      BY <1>1, <2>1, <3>1, <3>3, <3>5, Untouched, GentleParts DEF MoneyKept
  <2> QED
    BY <2>2, <2>3
<1>5. ASSUME LockLeave(h), req'[h].pc # "saveApproved" PROVE GentleStep(h)
  <2>1. PICK st \in req[h].todo :
          /\ ~LeaveHeld(<<req[h].on, st>>)
          /\ \/ Refuse(h)
             \/ Step(h, [pc |-> "saveApproved", row |-> att[<<req[h].on, st>>]])
             \/ /\ StillPending(<<req[h].on, st>>)
                /\ leave' = [leave EXCEPT ![<<req[h].on, st>>] =
                               IF req[h].op = "reject" THEN "rejected" ELSE "cancelled"]
                /\ Respond(h)
                /\ UNCHANGED <<session, roster, att, period, order, charges, payroll>>
    BY <1>5 DEF LockLeave
  <2> DEFINE l == <<req[h].on, st>>
             decided == IF req[h].op = "reject" THEN "rejected" ELSE "cancelled"
  <2>2. ~Step(h, [pc |-> "saveApproved", row |-> att[l]])
    BY <1>1, <1>5 DEF Step, Idle, TypeInv
  <2>3. CASE Refuse(h)
    BY <1>1, <2>3, RefuseGentle
  <2>4. CASE /\ StillPending(l)
             /\ leave' = [leave EXCEPT ![l] = decided]
             /\ Respond(h)
             /\ UNCHANGED <<session, roster, att, period, order, charges, payroll>>
    <3>1. LeaveStep(h)
      BY <1>1, <2>1, <2>4, LeaveChanged DEF LeaveHeld, StillPending, LeaveStatus
    <3> QED
      BY <1>1, <2>4, <3>1, RespondMoves, Untouched, GentleParts DEF MoneyKept
  <2> QED
    BY <2>1, <2>2, <2>3, <2>4
<1> QED
  BY <1>3, <1>4, <1>5

-----------------------------------------------------------------------------
(* Requests that lock or bill                                              *)

\* A step that changes no table has the action properties.
LEMMA SameTables ==
  ASSUME TypeInv, NEW h \in Handler, UNCHANGED tables
  PROVE  KeepsMarked /\ KeepsTaught /\ DecidesOnce
<1>1. SessionStep /\ AttendanceStep /\ LeaveStep(h)
  BY Untouched DEF tables
<1> QED
  BY <1>1, StepKeeps

\* A reviewer locks the leave request.
LEMMA LockKeeps ==
  ASSUME LessonInv, NEW h \in Handler, LockLeave(h), req'[h].pc = "saveApproved"
  PROVE  GoodStep
<1>1. TypeInv
  BY DEF LessonInv
<1>2. PICK st \in req[h].todo :
        /\ At(h, "lockLeave")
        /\ ~LeaveHeld(<<req[h].on, st>>)
        /\ StillPending(<<req[h].on, st>>)
        /\ Step(h, [pc |-> "saveApproved", row |-> att[<<req[h].on, st>>]])
        /\ UNCHANGED tables
  <2>1. ~Respond(h)
    BY <1>1, IdleTyped DEF Respond, TypeInv
  <2> QED
    BY <2>1 DEF LockLeave, Refuse
<1> DEFINE l == <<req[h].on, st>>
<1>3. req[h].on \in Session /\ req[h].todo = {st} /\ st \in Student
  BY <1>1, <1>2 DEF TypeInv, RequestFits, At
<1>4. att[l] \in AttendanceRow \union {Absent}
  BY <1>1, <1>3 DEF TypeInv, TypeOK, Lesson
<1>5. /\ Moves(h)
      /\ req'[h].pc = "saveApproved" /\ req'[h].on = req[h].on /\ req'[h].todo = {st}
  BY <1>1, <1>2, <1>3, <1>4 DEF Step, Idle, TypeInv, Moves, RequestTyped, RequestFits
<1>6. TypeInv'
  BY <1>1, <1>2, <1>5 DEF TypeInv, TypeOK, Moves, RequestTyped, tables
<1>7. ASSUME NEW g \in Handler PROVE CopyCharged(g)' /\ OwnPeriod(g)'
  BY <1>2, <1>5 DEF LessonInv, CopyCharged, RowCharged, OwnPeriod, At, Moves, tables
<1>8. ASSUME NEW g \in Handler PROVE LeaveLockHeld(g)'
  <2>1. CASE g = h
    BY <1>2, <1>5, <2>1 DEF LeaveLockHeld, LeaveHeld, StillPending, At, Moves, tables
  <2>2. CASE g # h
    BY <1>2, <1>5, <2>2 DEF LessonInv, LeaveLockHeld, LeaveHeld, At, Moves, tables
  <2> QED
    BY <2>1, <2>2
<1>9. LessonInv'
  BY <1>2, <1>6, <1>7, <1>8 DEF LessonInv, RowsCharged, RowCharged, BillKnown, tables
<1> QED
  BY <1>1, <1>2, <1>9, SameTables DEF GoodStep

\* A period is about to be created.
LEMMA FindKeeps ==
  ASSUME LessonInv, NEW h \in Handler, NEW p \in TuitionPeriod, NEW S \in SUBSET Student,
         FindTuitionSources(h, p, S)
  PROVE  GoodStep
<1>1. TypeInv /\ UNCHANGED tables
  BY DEF LessonInv, FindTuitionSources
<1>2. /\ Moves(h)
      /\ req'[h].pc = "saveBills" /\ req'[h].on = p
  BY <1>1 DEF FindTuitionSources, Begin, Idle, Held, Lesson, TypeInv, Moves, RequestTyped,
     RequestFits
<1>3. TypeInv'
  BY <1>1, <1>2 DEF TypeInv, TypeOK, Moves, RequestTyped, tables
<1>4. ASSUME NEW g \in Handler PROVE CopyCharged(g)' /\ LeaveLockHeld(g)'
  BY <1>1, <1>2 DEF LessonInv, CopyCharged, RowCharged, LeaveLockHeld, At, Moves, tables
<1>5. ASSUME NEW g \in Handler PROVE OwnPeriod(g)'
  BY <1>1, <1>2 DEF FindTuitionSources, FreshPeriod, LessonInv, OwnPeriod, At, Moves, tables
<1>6. LessonInv'
  BY <1>1, <1>3, <1>4, <1>5 DEF LessonInv, RowsCharged, RowCharged, BillKnown, tables
<1> QED
  BY <1>1, <1>6, SameTables DEF GoodStep

\* RowCharged and BillKnown, of the bills as a step leaves them
ChargedNext(l, r) ==
  r # Absent /\ r.bill # None =>
    /\ period'[r.bill] # "none"
    /\ l[2] \in order'[r.bill] =>
         \E c \in charges'[r.bill] : c[1] = l[1] /\ c[2] = l[2]

KnownNext(l, r) == r.bill = None \/ l[2] \in order'[r.bill]

\* It is enough to look at the rows as a step leaves them.
LEMMA RowsChargedNext ==
  ASSUME \A l \in Lesson :
           ChargedNext(l, att'[l]) /\ (att'[l] # Absent => KnownNext(l, att'[l]))
  PROVE  RowsCharged'
  BY DEF RowsCharged, RowCharged, BillKnown, ChargedNext, KnownNext

\* A copy that was charged before stays so if rows that were do.
LEMMA CopyChargedNext ==
  ASSUME LessonInv, NEW g \in Handler, req'[g] = req[g],
         \A l : \A r \in AttendanceRow \union {Absent} :
           RowCharged(l, r) => ChargedNext(l, r)
  PROVE  CopyCharged(g)'
<1>1. req[g].row \in AttendanceRow \union {Absent}
  BY DEF LessonInv, TypeInv, RequestTyped
<1>2. CASE req[g].pc \in {"saveMatch", "saveMark"}
  <2>1. \A l \in req[g].gone : ChargedNext(l, req[g].row)
    BY <1>1, <1>2 DEF LessonInv, CopyCharged
  <2> QED
    BY <2>1 DEF CopyCharged, RowCharged, ChargedNext
<1>3. CASE req[g].pc \notin {"saveMatch", "saveMark"}
  BY <1>3 DEF CopyCharged
<1> QED
  BY <1>2, <1>3

\* UPDATE ... SET bill_id
LEMMA BilledRowTyped ==
  ASSUME NEW r \in AttendanceRow, NEW p \in TuitionPeriod \union {None}
  PROVE  /\ [r EXCEPT !.bill = p] \in AttendanceRow
         /\ [r EXCEPT !.bill = p].bill = p
  BY DEF AttendanceRow

\* A period is created: its bills charge exactly the rows that get them.
LEMMA SaveBillsKeeps ==
  ASSUME LessonInv, NEW h \in Handler, SaveBills(h)
  PROVE  GoodStep
<1> DEFINE p == req[h].on
           L == req[h].rows
<1>1. /\ TypeInv /\ At(h, "saveBills") /\ p \in TuitionPeriod /\ L \subseteq Lesson
      /\ period[p] = "none"
  BY DEF LessonInv, SaveBills, TypeInv, RequestTyped, RequestFits, OwnPeriod, At
<1>2. /\ period' = [period EXCEPT ![p] = "open"]
      /\ order' = [order EXCEPT ![p] = {l[2] : l \in L}]
      /\ charges' = [charges EXCEPT ![p] = {<<l[1], l[2], l \in req[h].gone>> : l \in L}]
      /\ att' = [l \in Lesson |->
           IF l \in Rows(Held) \cap L THEN [att[l] EXCEPT !.bill = p] ELSE att[l]]
      /\ UNCHANGED <<session, roster, leave, payroll>>
  BY DEF SaveBills
<1>3. MovesOn(h)
  BY <1>1, RespondMoves DEF SaveBills
<1>4. ASSUME NEW l \in Lesson
      PROVE  /\ att'[l] \in AttendanceRow \union {Absent}
             /\ \/ att'[l] = att[l]
                \/ l \in L /\ att'[l] # Absent /\ att'[l].bill = p
  <2>1. CASE l \in Rows(Held) \cap L
    <3>1. att[l] \in AttendanceRow /\ att'[l] = [att[l] EXCEPT !.bill = p]
      BY <1>1, <1>2, <2>1 DEF TypeInv, TypeOK, Rows
    <3> QED
      BY <1>1, <2>1, <3>1, BilledRowTyped, NoRowConstants
  <2>2. CASE l \notin Rows(Held) \cap L
    BY <1>1, <1>2, <2>2 DEF TypeInv, TypeOK
  <2> QED
    BY <2>1, <2>2
<1>5. TypeOK'
  <2>1. period' \in [TuitionPeriod \union SalaryPeriod -> {"none", "open", "deleted"}]
    BY <1>1, <1>2 DEF TypeInv, TypeOK
  <2>2. order' \in [TuitionPeriod -> SUBSET Student]
    BY <1>1, <1>2 DEF TypeInv, TypeOK, Lesson
  <2>3. \A l \in L : <<l[1], l[2], l \in req[h].gone>> \in Session \X Student \X BOOLEAN
    <3>1. ASSUME NEW l \in L PROVE l[1] \in Session /\ l[2] \in Student
      BY <1>1 DEF Lesson
    <3>2. ASSUME NEW l \in L PROVE (l \in req[h].gone) \in BOOLEAN
      OBVIOUS
    <3> QED
      BY <3>1, <3>2
  <2>4. charges' \in [TuitionPeriod -> SUBSET (Session \X Student \X BOOLEAN)]
    BY <1>1, <1>2, <2>3 DEF TypeInv, TypeOK
  <2>5. att' \in [Lesson -> AttendanceRow \union {Absent}]
    BY <1>2, <1>4
  <2>6. \A g \in Handler : RequestTyped(req'[g])
    BY <1>1, <1>3 DEF TypeInv, MovesOn, Moves
  <2> QED
    BY <1>1, <1>2, <2>1, <2>2, <2>4, <2>5, <2>6 DEF TypeInv, TypeOK, RequestTyped
<1>6. TypeInv'
  BY <1>1, <1>3, <1>5 DEF TypeInv, MovesOn, Moves
<1>7. \A q \in TuitionPeriod \ {p} :
        period'[q] = period[q] /\ order'[q] = order[q] /\ charges'[q] = charges[q]
  BY <1>1, <1>2 DEF TypeInv, TypeOK
<1>8. ASSUME NEW l, NEW r \in AttendanceRow \union {Absent}, RowCharged(l, r)
      PROVE  /\ ChargedNext(l, r)
             /\ r # Absent /\ BillKnown(l, r) => KnownNext(l, r)
  BY <1>1, <1>7, <1>8 DEF RowCharged, BillKnown, AttendanceRow, ChargedNext, KnownNext
<1>9. ASSUME NEW l \in L, NEW r, r.bill = p
      PROVE  ChargedNext(l, r) /\ KnownNext(l, r)
  <2>1. period'[p] = "open" /\ l[2] \in order'[p]
    BY <1>1, <1>2 DEF TypeInv, TypeOK
  <2>2. <<l[1], l[2], l \in req[h].gone>> \in charges'[p]
    BY <1>1, <1>2 DEF TypeInv, TypeOK
  <2>3. \E c \in charges'[p] : c[1] = l[1] /\ c[2] = l[2]
    BY <2>2
  <2> QED
    BY <1>9, <2>1, <2>3 DEF ChargedNext, KnownNext
<1>10. RowsCharged'
  <2>1. ASSUME NEW l \in Lesson
        PROVE  ChargedNext(l, att'[l]) /\ (att'[l] # Absent => KnownNext(l, att'[l]))
    <3>1. CASE att'[l] = att[l]
      <4>1. att[l] \in AttendanceRow \union {Absent} /\ RowCharged(l, att[l])
        BY <1>1 DEF TypeInv, TypeOK, LessonInv, RowsCharged
      <4>2. att[l] # Absent => BillKnown(l, att[l])
        BY DEF LessonInv, RowsCharged
      <4> QED
        BY <1>8, <3>1, <4>1, <4>2
    <3>2. CASE att'[l] # att[l]
      BY <1>4, <1>9, <3>2
    <3> QED
      BY <3>1, <3>2
  <2> QED
    BY <2>1, RowsChargedNext
<1>11. ASSUME NEW g \in Handler PROVE CopyCharged(g)'
  <2>1. CASE g = h
    BY <1>3, <2>1 DEF MovesOn, Delicate, CopyCharged
  <2>2. CASE g # h
    BY <1>1, <1>3, <1>8, <2>2, CopyChargedNext DEF MovesOn, Moves
  <2> QED
    BY <2>1, <2>2
<1>12. ASSUME NEW g \in Handler PROVE OwnPeriod(g)' /\ LeaveLockHeld(g)'
  <2>1. CASE g = h
    BY <1>3, <2>1 DEF MovesOn, Delicate, OwnPeriod, LeaveLockHeld, At
  <2>2. CASE g # h
    <3>1. At(g, "saveBills") => req[g].on \in TuitionPeriod \ {p}
      BY <1>1, <2>2 DEF LessonInv, OwnPeriod, TypeInv, RequestFits, At
    <3> QED
      BY <1>2, <1>3, <1>7, <2>2, <3>1
      DEF LessonInv, MovesOn, Moves, Delicate, OwnPeriod, LeaveLockHeld, At
  <2> QED
    BY <2>1, <2>2
<1>13. KeepsMarked /\ KeepsTaught /\ DecidesOnce
  <2>1. KeepsMarked
    BY <1>4 DEF KeepsMarked, Rows, Lesson
  <2> QED
    BY <1>2, <2>1 DEF KeepsTaught, DecidesOnce, Held
<1> QED
  BY <1>6, <1>10, <1>11, <1>12, <1>13 DEF LessonInv, GoodStep

\* A step that writes only sessions and salary periods.
LEMMA SalaryKeeps ==
  ASSUME LessonInv, TypeInv',
         \A g \in Handler : req'[g] = req[g] \/ req'[g].pc \notin Delicate,
         \A s \in Held : session'[s] # Absent,
         UNCHANGED <<att, leave, order, charges>>,
         \A q \in TuitionPeriod : period'[q] = period[q]
  PROVE  GoodStep
<1>1. TypeInv
  BY DEF LessonInv
<1>2. ASSUME NEW l, NEW r \in AttendanceRow \union {Absent}
      PROVE  /\ RowCharged(l, r) => ChargedNext(l, r)
             /\ BillKnown(l, r) => KnownNext(l, r)
  BY DEF RowCharged, BillKnown, AttendanceRow, ChargedNext, KnownNext
<1>3. RowsCharged'
  <2>1. ASSUME NEW l \in Lesson
        PROVE  ChargedNext(l, att'[l]) /\ (att'[l] # Absent => KnownNext(l, att'[l]))
    <3>1. att[l] \in AttendanceRow \union {Absent}
      BY <1>1 DEF TypeInv, TypeOK
    <3> QED
      BY <1>2, <3>1 DEF LessonInv, RowsCharged
  <2> QED
    BY <2>1, RowsChargedNext
<1>4. ASSUME NEW g \in Handler PROVE CopyCharged(g)'
  <2>1. CASE req'[g] = req[g]
    BY <1>2, <2>1, CopyChargedNext
  <2>2. CASE req'[g].pc \notin Delicate
    BY <2>2 DEF CopyCharged, Delicate
  <2> QED
    BY <2>1, <2>2
<1>5. ASSUME NEW g \in Handler PROVE OwnPeriod(g)'
  <2>1. At(g, "saveBills") => req[g].on \in TuitionPeriod
    BY <1>1 DEF TypeInv, RequestFits, At
  <2> QED
    BY <2>1 DEF LessonInv, OwnPeriod, At, Delicate
<1>6. ASSUME NEW g \in Handler PROVE LeaveLockHeld(g)'
  BY DEF LessonInv, LeaveLockHeld, At, Delicate
<1>7. KeepsMarked /\ KeepsTaught /\ DecidesOnce
  BY <1>1 DEF KeepsMarked, KeepsTaught, DecidesOnce, Rows, TypeInv, TypeOK
<1> QED
  BY <1>3, <1>4, <1>5, <1>6, <1>7 DEF LessonInv, GoodStep

\* UPDATE ... SET wage_id
LEMMA WagedRowTyped ==
  ASSUME NEW r \in SessionRow, NEW w \in SalaryPeriod \union {None}
  PROVE  [r EXCEPT !.wage = w] \in SessionRow
  BY DEF SessionRow

\* A salary period is created.
LEMMA SaveWagesKeeps ==
  ASSUME LessonInv, NEW h \in Handler, SaveWages(h)
  PROVE  GoodStep
<1> DEFINE p == req[h].on
           S == {l[1] : l \in req[h].rows}
<1>1. /\ TypeInv /\ p \in SalaryPeriod /\ p \notin TuitionPeriod /\ S \subseteq Session
  BY LessonConstants
  DEF LessonInv, SaveWages, TypeInv, RequestTyped, RequestFits, At, Lesson
<1>2. /\ period' = [period EXCEPT ![p] = "open"]
      /\ payroll' = [payroll EXCEPT ![p] = S]
      /\ session' = [s \in Session |->
           IF s \in S \cap Held THEN [session[s] EXCEPT !.wage = p] ELSE session[s]]
      /\ UNCHANGED <<roster, att, leave, order, charges>>
  BY DEF SaveWages
<1>3. MovesOn(h)
  BY <1>1, RespondMoves DEF SaveWages
<1>4. ASSUME NEW s \in Session
      PROVE  /\ session'[s] \in SessionRow \union {Absent}
             /\ s \in Held => session'[s] # Absent
  <2>1. CASE s \in S \cap Held
    <3>1. session[s] \in SessionRow /\ session'[s] = [session[s] EXCEPT !.wage = p]
      BY <1>1, <1>2, <2>1 DEF TypeInv, TypeOK, Held
    <3> QED
      BY <1>1, <3>1, WagedRowTyped, NoRowConstants
  <2>2. CASE s \notin S \cap Held
    BY <1>1, <1>2, <2>2 DEF TypeInv, TypeOK, Held
  <2> QED
    BY <2>1, <2>2
<1>5. session' \in [Session -> SessionRow \union {Absent}]
  BY <1>2, <1>4
<1>6. /\ period' \in [TuitionPeriod \union SalaryPeriod -> {"none", "open", "deleted"}]
      /\ payroll' \in [SalaryPeriod -> SUBSET Session]
  BY <1>1, <1>2 DEF TypeInv, TypeOK
<1>7. TypeInv'
  <2>1. \A g \in Handler : RequestTyped(req'[g])
    BY <1>1, <1>3 DEF TypeInv, MovesOn, Moves
  <2>2. TypeOK'
    BY <1>1, <1>2, <1>5, <1>6, <2>1 DEF TypeInv, TypeOK, RequestTyped
  <2> QED
    BY <1>1, <1>3, <2>2 DEF TypeInv, MovesOn, Moves
<1>8. \A q \in TuitionPeriod : period'[q] = period[q]
  BY <1>1, <1>2 DEF TypeInv, TypeOK
<1>9. \A s \in Held : session'[s] # Absent
  BY <1>4 DEF Held
<1> QED
  BY <1>2, <1>3, <1>7, <1>8, <1>9, SalaryKeeps DEF MovesOn, Moves

\* A salary period is deleted.
LEMMA DeleteWagesKeeps ==
  ASSUME LessonInv, NEW h \in Handler, NEW p \in SalaryPeriod, DeleteWages(h, p)
  PROVE  GoodStep
<1>1. TypeInv /\ p \notin TuitionPeriod
  BY LessonConstants DEF LessonInv
<1>2. /\ period' = [period EXCEPT ![p] = "deleted"]
      /\ payroll' = [payroll EXCEPT ![p] = {}]
      /\ session' = [s \in Session |->
           IF s \in Held /\ session[s].wage = p
             THEN [session[s] EXCEPT !.wage = None] ELSE session[s]]
      /\ UNCHANGED <<roster, att, leave, order, charges, req>>
  BY DEF DeleteWages
<1>3. ASSUME NEW s \in Session
      PROVE  /\ session'[s] \in SessionRow \union {Absent}
             /\ s \in Held => session'[s] # Absent
  <2>1. CASE s \in Held /\ session[s].wage = p
    <3>1. session[s] \in SessionRow /\ session'[s] = [session[s] EXCEPT !.wage = None]
      BY <1>1, <1>2, <2>1 DEF TypeInv, TypeOK, Held
    <3> QED
      BY <3>1, WagedRowTyped, NoRowConstants
  <2>2. CASE ~(s \in Held /\ session[s].wage = p)
    BY <1>1, <1>2, <2>2 DEF TypeInv, TypeOK, Held
  <2> QED
    BY <2>1, <2>2
<1>4. session' \in [Session -> SessionRow \union {Absent}]
  BY <1>2, <1>3
<1>5. /\ period' \in [TuitionPeriod \union SalaryPeriod -> {"none", "open", "deleted"}]
      /\ payroll' \in [SalaryPeriod -> SUBSET Session]
  BY <1>1, <1>2 DEF TypeInv, TypeOK
<1>6. TypeInv'
  BY <1>1, <1>2, <1>4, <1>5 DEF TypeInv, TypeOK
<1>7. \A q \in TuitionPeriod : period'[q] = period[q]
  BY <1>1, <1>2 DEF TypeInv, TypeOK
<1>8. \A s \in Held : session'[s] # Absent
  BY <1>3 DEF Held
<1> QED
  BY <1>2, <1>6, <1>7, <1>8, SalaryKeeps

\* Bills are deleted: their rows are released.
LEMMA DeleteBillsKeeps ==
  ASSUME LessonInv, NEW h \in Handler, NEW p \in TuitionPeriod, NEW S \in SUBSET Student,
         DeleteBills(h, p, S)
  PROVE  GoodStep
<1>1. TypeInv /\ period[p] = "open"
  BY DEF LessonInv, DeleteBills
<1>2. /\ att' = Release(p, S)
      /\ order' = [order EXCEPT ![p] = order[p] \ S]
      /\ charges' = [charges EXCEPT ![p] = {c \in charges[p] : c[2] \notin S}]
      /\ period' = [period EXCEPT ![p] = IF S = Student THEN "deleted" ELSE period[p]]
      /\ UNCHANGED <<session, roster, leave, payroll, req>>
  BY DEF DeleteBills
<1>3. ASSUME NEW l \in Lesson
      PROVE  /\ att'[l] \in AttendanceRow \union {Absent}
             /\ att[l] # Absent => att'[l] # Absent
             /\ att'[l] # Absent /\ att'[l].bill # None =>
                  att'[l] = att[l] /\ (att[l].bill = p => l[2] \notin S)
  <2>1. CASE att[l] # Absent /\ att[l].bill = p /\ l[2] \in S
    <3>1. att[l] \in AttendanceRow /\ att'[l] = [att[l] EXCEPT !.bill = None]
      BY <1>1, <1>2, <2>1 DEF TypeInv, TypeOK, Release
    <3> QED
      BY <3>1, BilledRowTyped, NoRowConstants
  <2>2. CASE ~(att[l] # Absent /\ att[l].bill = p /\ l[2] \in S)
    BY <1>1, <1>2, <2>2 DEF TypeInv, TypeOK, Release
  <2> QED
    BY <2>1, <2>2
<1>4. att' \in [Lesson -> AttendanceRow \union {Absent}]
  BY <1>2, <1>3 DEF Release
<1>5. /\ period' \in [TuitionPeriod \union SalaryPeriod -> {"none", "open", "deleted"}]
      /\ order' \in [TuitionPeriod -> SUBSET Student]
      /\ charges' \in [TuitionPeriod -> SUBSET (Session \X Student \X BOOLEAN)]
  BY <1>1, <1>2 DEF TypeInv, TypeOK
<1>6. TypeInv'
  BY <1>1, <1>2, <1>4, <1>5 DEF TypeInv, TypeOK
<1>7. /\ \A q \in TuitionPeriod \ {p} :
           period'[q] = period[q] /\ order'[q] = order[q] /\ charges'[q] = charges[q]
      /\ period'[p] # "none"
      /\ order'[p] = order[p] \ S
      /\ charges'[p] = {c \in charges[p] : c[2] \notin S}
  BY <1>1, <1>2 DEF TypeInv, TypeOK
<1>8. ASSUME NEW l, NEW r \in AttendanceRow \union {Absent}, RowCharged(l, r)
      PROVE  ChargedNext(l, r)
  <2>1. CASE r # Absent /\ r.bill = p
    BY <1>7, <1>8, <2>1 DEF RowCharged, ChargedNext
  <2>2. CASE r # Absent /\ r.bill \in TuitionPeriod \ {p}
    BY <1>7, <1>8, <2>2 DEF RowCharged, ChargedNext
  <2>3. CASE r = Absent \/ r.bill = None
    BY <2>3 DEF ChargedNext
  <2> QED
    BY <2>1, <2>2, <2>3 DEF AttendanceRow
<1>9. RowsCharged'
  <2>1. ASSUME NEW l \in Lesson
        PROVE  ChargedNext(l, att'[l]) /\ (att'[l] # Absent => KnownNext(l, att'[l]))
    <3>1. CASE att'[l] # Absent /\ att'[l].bill # None
      <4>1. /\ att'[l] = att[l] /\ att[l] \in AttendanceRow
            /\ att[l].bill \in TuitionPeriod /\ (att[l].bill = p => l[2] \notin S)
        BY <1>3, <3>1 DEF AttendanceRow
      <4>2. RowCharged(l, att[l]) /\ l[2] \in order[att[l].bill]
        BY <3>1, <4>1 DEF LessonInv, RowsCharged, BillKnown
      <4>3. ChargedNext(l, att[l])
        BY <1>8, <4>1, <4>2
      <4>4. l[2] \in order'[att[l].bill]
        BY <1>7, <4>1, <4>2
      <4> QED
        BY <4>1, <4>3, <4>4 DEF KnownNext
    <3>2. CASE ~(att'[l] # Absent /\ att'[l].bill # None)
      BY <3>2 DEF ChargedNext, KnownNext
    <3> QED
      BY <3>1, <3>2
  <2> QED
    BY <2>1, RowsChargedNext
<1>10. ASSUME NEW g \in Handler PROVE CopyCharged(g)'
  BY <1>2, <1>8, CopyChargedNext
<1>11. ASSUME NEW g \in Handler PROVE OwnPeriod(g)' /\ LeaveLockHeld(g)'
  <2>1. At(g, "saveBills") => req[g].on \in TuitionPeriod \ {p}
    BY <1>1 DEF LessonInv, OwnPeriod, TypeInv, RequestFits, At
  <2> QED
    BY <1>2, <1>7, <2>1 DEF LessonInv, OwnPeriod, LeaveLockHeld, At
<1>12. KeepsMarked /\ KeepsTaught /\ DecidesOnce
  <2>1. KeepsMarked
    BY <1>3 DEF KeepsMarked, Rows, Lesson
  <2> QED
    BY <1>1, <1>2, <2>1 DEF KeepsTaught, DecidesOnce, Held, TypeInv, TypeOK
<1> QED
  BY <1>6, <1>9, <1>10, <1>11, <1>12 DEF LessonInv, GoodStep

\* A crash loses all requests and nothing else.
LEMMA CrashKeeps ==
  ASSUME LessonInv, Crash
  PROVE  GoodStep
<1>1. TypeInv /\ UNCHANGED tables /\ req' = [g \in Handler |-> Idle]
  BY DEF LessonInv, Crash
<1>2. PICK h \in Handler : ~At(h, "idle")
  BY DEF Crash
<1>3. TypeInv'
  BY <1>1, IdleTyped DEF TypeInv, TypeOK, RequestTyped, tables
<1>4. ASSUME NEW g \in Handler PROVE CopyCharged(g)' /\ OwnPeriod(g)' /\ LeaveLockHeld(g)'
  BY <1>1, IdleTyped DEF CopyCharged, OwnPeriod, LeaveLockHeld, At
<1>5. LessonInv'
  BY <1>1, <1>3, <1>4 DEF LessonInv, RowsCharged, RowCharged, BillKnown, tables
<1> QED
  BY <1>1, <1>2, <1>5, SameTables DEF GoodStep

-----------------------------------------------------------------------------
(* The specification                                                       *)

\* The tables at the beginning
LEMMA InitHolds ==
  ASSUME Init
  PROVE  LessonInv
<1> USE DEF Init, TablesInit
<1>1. TypeOK
  BY NewRows, IdleTyped DEF TypeOK, LeaveStatus, RequestTyped
<1>2. TypeInv
  BY <1>1, IdleTyped DEF TypeInv
<1>3. RowsCharged
  BY DEF RowsCharged, RowCharged
<1>4. ASSUME NEW h \in Handler PROVE CopyCharged(h) /\ OwnPeriod(h) /\ LeaveLockHeld(h)
  BY IdleTyped DEF CopyCharged, OwnPeriod, LeaveLockHeld, At
<1> QED
  BY <1>2, <1>3, <1>4 DEF LessonInv

\* The endpoints of class.controller.ts, and the time clock
LEMMA SessionRequestsKeep ==
  ASSUME LessonInv, NEW h \in Handler, ReceiveSessionRequest(h) \/ ServeSessionRequest(h)
  PROVE  GoodStep
<1>1. TypeInv
  BY DEF LessonInv
<1>2. ASSUME ReceiveSessionRequest(h) PROVE GentleStep(h)
  BY <1>1, <1>2, SessionRequestsBegin DEF ReceiveSessionRequest
<1>3. ASSUME ServeSessionRequest(h) PROVE GentleStep(h)
  <2>1. InvalidScore(h) \/ ScheduleConflict(h) => Refuse(h)
    BY DEF InvalidScore, ScheduleConflict
  <2> QED
    BY <1>1, <1>3, <2>1, SessionWrites, RowReads, RowWrites, Deletions, Regenerations,
       RefuseGentle DEF ServeSessionRequest
<1> QED
  BY <1>2, <1>3, GentleKeeps

\* Enrolment, removal, joined dates, ad hoc sessions
LEMMA RosterRequestsKeep ==
  ASSUME LessonInv, NEW h \in Handler, ReceiveRosterRequest(h) \/ ServeRosterRequest(h)
  PROVE  GoodStep
<1>1. TypeInv
  BY DEF LessonInv
<1>2. ASSUME ReceiveRosterRequest(h) PROVE GentleStep(h)
  <2>1. CASE \E st \in Student : EnrollStudent(h, st)
    BY <1>1, <2>1, RosterWrites
  <2>2. CASE \E st \in Student : RemoveStudent(h, st)
    BY <1>1, <2>2, OtherRequestsBegin
  <2>3. CASE \E S \in SUBSET Student, from \in JoinDays : UpdateJoinedDate(h, S, from)
    BY <1>1, <2>3, OtherRequestsBegin
  <2>4. CASE \E s \in Session : CreateAdhocSession(h, s)
    BY <1>1, <2>4, OtherRequestsBegin
  <2> QED
    BY <1>2, <2>1, <2>2, <2>3, <2>4 DEF ReceiveRosterRequest
<1>3. ASSUME ServeRosterRequest(h) PROVE GentleStep(h)
  BY <1>1, <1>3, RosterWrites DEF ServeRosterRequest
<1> QED
  BY <1>2, <1>3, GentleKeeps

\* Tuition and salary periods
LEMMA BillingRequestsKeep ==
  ASSUME LessonInv, NEW h \in Handler, ReceiveBillingRequest(h) \/ ServeBillingRequest(h)
  PROVE  GoodStep
<1>1. TypeInv
  BY DEF LessonInv
<1>2. CASE \E p \in TuitionPeriod, S \in SUBSET Student : FindTuitionSources(h, p, S)
  BY <1>2, FindKeeps
<1>3. CASE \E p \in TuitionPeriod, S \in SUBSET Student : DeleteBills(h, p, S)
  BY <1>3, DeleteBillsKeeps
<1>4. CASE \E p \in SalaryPeriod : FindSalarySources(h, p)
  BY <1>1, <1>4, OtherRequestsBegin, GentleKeeps
<1>5. CASE \E p \in SalaryPeriod : DeleteWages(h, p)
  BY <1>5, DeleteWagesKeeps
<1>6. CASE SaveBills(h) \/ SaveWages(h)
  BY <1>6, SaveBillsKeeps, SaveWagesKeeps
<1> QED
  BY <1>2, <1>3, <1>4, <1>5, <1>6 DEF ReceiveBillingRequest, ServeBillingRequest

\* Leave requests
LEMMA LeaveRequestsKeep ==
  ASSUME LessonInv, NEW h \in Handler, ReceiveLeaveRequest(h) \/ ServeLeaveRequest(h)
  PROVE  GoodStep
<1>1. TypeInv
  BY DEF LessonInv
<1>2. CASE ReceiveLeaveRequest(h)
  <2>1. PICK s \in Session, st \in Student :
          SubmitLeave(h, s, st) \/ ReviewLeave(h, s, st) \/ CancelLeave(h, s, st)
    BY <1>2 DEF ReceiveLeaveRequest
  <2> QED
    BY <1>1, <2>1, OtherRequestsBegin, GentleKeeps
<1>3. CASE ServeLeaveRequest(h)
  <2>1. CASE LockLeave(h) /\ req'[h].pc = "saveApproved"
    BY <2>1, LockKeeps
  <2>2. CASE ~(LockLeave(h) /\ req'[h].pc = "saveApproved")
    BY <1>3, <2>2, LeaveWrites, GentleKeeps DEF ServeLeaveRequest
  <2> QED
    BY <2>1, <2>2
<1> QED
  BY <1>2, <1>3

\* Every step preserves the invariant and has the three action properties.
LEMMA NextKeeps ==
  ASSUME LessonInv, Next
  PROVE  GoodStep
  BY SessionRequestsKeep, RosterRequestsKeep, BillingRequestsKeep, LeaveRequestsKeep,
     CrashKeeps DEF Next

\* Nothing changes.
LEMMA StutterKeeps ==
  ASSUME LessonInv, UNCHANGED vars
  PROVE  LessonInv'
<1>1. UNCHANGED tables /\ req' = req
  BY DEF vars, tables
<1>2. TypeInv'
  BY <1>1 DEF LessonInv, TypeInv, TypeOK, RequestTyped, tables
<1>3. RowsCharged'
  BY <1>1 DEF LessonInv, RowsCharged, RowCharged, BillKnown, tables
<1>4. ASSUME NEW h \in Handler PROVE CopyCharged(h)' /\ OwnPeriod(h)' /\ LeaveLockHeld(h)'
  BY <1>1
  DEF LessonInv, CopyCharged, RowCharged, OwnPeriod, LeaveLockHeld, At, tables
<1> QED
  BY <1>2, <1>3, <1>4 DEF LessonInv

\* The invariant holds in every state: in particular every row has its types,
\* copies about to be saved carry bills that charge them, a period being
\* created and a leave request under review have one owner.
THEOREM LessonsInvariant == Spec => []LessonInv
<1>1. Init => LessonInv
  BY InitHolds
<1>2. LessonInv /\ [Next]_vars => LessonInv'
  BY NextKeeps, StutterKeeps DEF GoodStep
<1> QED
  BY <1>1, <1>2, PTL DEF Spec

\* The types of TypeOK, for any sessions, students and handlers.
THEOREM LessonsTyped == Spec => []TypeOK
<1>1. LessonInv => TypeOK
  BY DEF LessonInv, TypeInv
<1> QED
  BY <1>1, LessonsInvariant, PTL

\* BilledLessonIsCharged, for any sessions, students and periods and any
\* number of requests at a time: saveAttendance, the time clock and
\* CreatePaymentPeriodUseCase write stale copies of the rows they read, and
\* still no row carries a bill that does not charge it.
THEOREM BilledCharged == Spec => []BilledLessonIsCharged
<1>1. LessonInv => BilledLessonIsCharged
  <2> SUFFICES ASSUME LessonInv, NEW l \in Rows(Held), att[l].bill # None
               PROVE  \E c \in charges[att[l].bill] : c[1] = l[1] /\ c[2] = l[2]
    BY DEF BilledLessonIsCharged
  <2>1. l \in Lesson /\ att[l] # Absent
    BY DEF Rows, Held, Lesson
  <2> QED
    BY <2>1 DEF LessonInv, RowsCharged, RowCharged, BillKnown
<1> QED
  BY <1>1, LessonsInvariant, PTL

\* MarkedRowKept: no request, whenever its guards had looked, deletes a row
\* with a presence, a scan or a bill; the trigger on student_attendance sees
\* to it.
THEOREM MarkedKept == Spec => MarkedRowKept
<1>1. LessonInv /\ [Next]_vars =>
        [\A l \in Rows(Session) : Marked(att[l]) => att'[l] # Absent]_vars
  BY NextKeeps DEF GoodStep, KeepsMarked
<1> QED
  BY <1>1, LessonsInvariant, PTL DEF Spec, MarkedRowKept

\* TaughtSessionKept: nor a session that has begun, is locked, paid or billed.
THEOREM TaughtKept == Spec => TaughtSessionKept
<1>1. LessonInv /\ [Next]_vars =>
        [\A s \in Held :
           session[s].status # "Scheduled" \/ session[s].locked \/ Waged(s)
             \/ Billed(s) => session'[s] # Absent]_vars
  BY NextKeeps DEF GoodStep, KeepsTaught
<1> QED
  BY <1>1, LessonsInvariant, PTL DEF Spec, TaughtSessionKept

\* LeaveDecidedOnce: of any number of reviewers and the student who cancels,
\* one decides; the row lock of review() and the guarded UPDATE of cancel()
\* see to it.
THEOREM DecidedOnce == Spec => LeaveDecidedOnce
<1>1. LessonInv /\ [Next]_vars =>
        [\A l \in Lesson :
           /\ leave[l] = "approved" => leave'[l] \in {"approved", "none"}
           /\ leave'[l] = "approved" => leave[l] \in {"pending", "approved"}]_vars
  BY NextKeeps DEF GoodStep, DecidesOnce
<1> QED
  BY <1>1, LessonsInvariant, PTL DEF Spec, LeaveDecidedOnce
=============================================================================
