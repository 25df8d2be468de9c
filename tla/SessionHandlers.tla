--------------------------- MODULE SessionHandlers ---------------------------
(***************************************************************************)
(* The session endpoints of class.controller.ts.  A handler reads and      *)
(* checks in its first step and writes in later ones, without transaction  *)
(* or lock; a request refused by the first check changes nothing and is    *)
(* left out.  Permissions decide who may call, not what happens, and are   *)
(* left out too.                                                           *)
(***************************************************************************)
EXTENDS LessonTables

CONSTANT RegenerateFrom   \* dates sessions are generated from

ASSUME RegenerateConstants == RegenerateFrom \subseteq Nat

\* The session copy of a handler that works on one session
Copy(h) == req[h].copy[req[h].on]

OnlySession(s) == [x \in {s} |-> session[x]]

\* Mutant: billed lessons are not looked up.
Unsettled_Billed(s) == ~Waged(s)

\* Attendance has left the teacher's hands: charged, paid or locked.
Unsettled(s) == ~Billed(s) /\ ~Waged(s)

Editable(s) == Unsettled(s) /\ ~session[s].locked

-----------------------------------------------------------------------------
(* startAttendance, reconcileSessionAttendanceOnStart                      *)

StartAttendance(h, s) ==
  /\ s \in Held /\ Editable(s)
  /\ Begin(h, "start", [pc |-> "saveStarted", on |-> s,
                        copy |-> OnlySession(s)])
  /\ UNCHANGED tables

\* The clock's logs of the day are matched for every active student.
SaveStarted(h) ==
  /\ At(h, "saveStarted")
  /\ SaveSession(req[h].on, [Copy(h) EXCEPT !.status = "In-Progress"])
  /\ Step(h, [pc |-> "readMatch", copy |-> <<>>, todo |-> Active])

\* A billed row, or one the teacher has marked, is not overwritten.
ClockMayWrite(r) == r = Absent \/ (r.bill = None /\ ~r.manual)

ReadMatch(h) ==
  LET s == req[h].on
  IN /\ At(h, "readMatch")
     /\ UNCHANGED tables
     /\ IF req[h].todo = {}
          THEN Respond(h)
          ELSE \E st \in req[h].todo :
                 IF ClockMayWrite(att[<<s, st>>])
                   THEN Step(h, [pc |-> "saveMatch", row |-> att[<<s, st>>],
                                 gone |-> {<<s, st>>}])
                   ELSE Step(h, [todo |-> req[h].todo \ {st}])

\* match() finds a log in the window of the session, or it does not.
SaveMatch(h) ==
  /\ At(h, "saveMatch")
  /\ \E l \in req[h].gone, seen \in BOOLEAN :
       LET new == [Entity(req[h].row) EXCEPT
                     !.present = seen, !.verified = seen, !.manual = FALSE]
       IN IF Savable(l, req[h].row, new)
            THEN /\ SaveAttendanceRow(l, new)
                 /\ Step(h, [pc |-> "readMatch", row |-> Absent, gone |-> {},
                             todo |-> req[h].todo \ {l[2]}])
            ELSE Refuse(h)

\* ProcessRawLogUseCase: the log of a student is stored (a repeated one is
\* ignored) and matched with the sessions of the day.
ClockEvent(h, s, st) ==
  /\ s \in Held /\ st \in Active
  /\ ~session[s].locked /\ session[s].status # "Completed"
  /\ Begin(h, "clock", [pc |-> "readMatch", on |-> s, todo |-> {st}])
  /\ UNCHANGED tables

-----------------------------------------------------------------------------
(* revertToScheduled                                                       *)

RevertToScheduled(h, s) ==
  /\ s \in Held /\ Editable(s) /\ session[s].status = "In-Progress"
  /\ Begin(h, "revert", [pc |-> "revertRows", on |-> s,
                         copy |-> OnlySession(s)])
  /\ UNCHANGED tables

RevertRows(h) ==
  /\ At(h, "revertRows")
  /\ att' = [l \in Lesson |->
       IF l \in Rows({req[h].on}) THEN [att[l] EXCEPT !.present = FALSE]
                                  ELSE att[l]]
  /\ Step(h, [pc |-> "revertSave"])
  /\ UNCHANGED <<session, roster, leave, period, order, charges, payroll>>

RevertSave(h) ==
  /\ At(h, "revertSave")
  /\ SaveSession(req[h].on, [Copy(h) EXCEPT !.status = "Scheduled"])
  /\ Respond(h)

-----------------------------------------------------------------------------
(* saveAttendance, overrideAttendance, saveEvaluations                     *)

MayMark(s) == Editable(s)

SaveAttendance(h, s, S) ==
  /\ s \in Held /\ MayMark(s)
  /\ Begin(h, "mark", [pc |-> "readMark", on |-> s, todo |-> S])
  /\ UNCHANGED tables

OverrideAttendance(h, s, S) ==
  /\ s \in Held /\ session[s].locked /\ Unsettled(s)
  /\ Begin(h, "override", [pc |-> "readMark", on |-> s, todo |-> S])
  /\ UNCHANGED tables

\* Only for enrolled students, but for billed and locked sessions as well.
SaveEvaluations(h, s, S) ==
  /\ s \in Held /\ S \subseteq Active
  /\ Begin(h, "grade", [pc |-> "readMark", on |-> s, todo |-> S])
  /\ UNCHANGED tables

\* One findOne per student
ReadMark(h) ==
  LET s == req[h].on
  IN /\ At(h, "readMark")
     /\ UNCHANGED tables
     /\ IF req[h].todo = {}
          THEN Respond(h)
          ELSE \E st \in req[h].todo :
                 Step(h, [pc |-> "saveMark", row |-> att[<<s, st>>],
                          gone |-> {<<s, st>>}])

\* ... and one save.  A score in the same body is modelled as a request of
\* its own (saveEvaluations).
SaveMark(h) ==
  /\ At(h, "saveMark")
  /\ \E l \in req[h].gone, value \in BOOLEAN :
       LET old == Entity(req[h].row)
           new == IF req[h].op = "grade"
                    THEN [old EXCEPT !.graded = value]
                    ELSE [old EXCEPT !.present = value, !.manual = TRUE]
       IN IF Savable(l, req[h].row, new)
            THEN /\ SaveAttendanceRow(l, new)
                 /\ Step(h, [pc |-> "readMark", row |-> Absent, gone |-> {},
                             todo |-> req[h].todo \ {l[2]}])
            ELSE Refuse(h)

\* An invalid score ends the request after the rows before it are saved.
InvalidScore(h) ==
  /\ At(h, "saveMark") /\ req[h].op # "grade"
  /\ Refuse(h)

-----------------------------------------------------------------------------
(* completeSession, updateSession                                          *)

CompleteSession(h, s) ==
  /\ s \in Held
  /\ Begin(h, "complete", [pc |-> "saveCompleted", on |-> s,
                           copy |-> OnlySession(s)])
  /\ UNCHANGED tables

SaveCompleted(h) ==
  /\ At(h, "saveCompleted")
  /\ IF WageKnown(Copy(h))
       THEN /\ SaveSession(req[h].on,
                 [Copy(h) EXCEPT !.status = "Completed", !.locked = TRUE])
            /\ Respond(h)
       ELSE Refuse(h)

\* scope 'single', or 'all-future': every session from this date on that is
\* neither locked nor settled
UpdateSession(h, s) ==
  \E S \in {{s}, {x \in Held : Day[x] >= Day[s] /\ Editable(x)}} :
    /\ s \in Held /\ Editable(s)
    /\ Begin(h, "update", [pc |-> "saveUpdated",
                           copy |-> [x \in S |-> session[x]]])
    /\ UNCHANGED tables

\* The body may set any status; a schedule conflict ends the loop.
SaveUpdated(h) ==
  /\ At(h, "saveUpdated")
  /\ IF DOMAIN req[h].copy = {}
       THEN Refuse(h)
       ELSE \E s \in DOMAIN req[h].copy :
              \E status \in SessionStatus :
                /\ SaveSession(s, [req[h].copy[s] EXCEPT !.status = status])
                /\ Step(h, [copy |-> [x \in DOMAIN req[h].copy \ {s} |->
                                        req[h].copy[x]]])

ScheduleConflict(h) == At(h, "saveUpdated") /\ Refuse(h)

-----------------------------------------------------------------------------
(* deleteSession                                                           *)

\* AttendanceDeletionGuard.isAttendanceSafeToDelete.  Its leaveStatus is
\* never filled in by a caller: the column does not exist.
RowDisposable(s, r) ==
  /\ session[s].status = "Scheduled" /\ ~session[s].locked
  /\ r.bill = None /\ ~r.present /\ ~r.verified /\ ~r.graded

\* validateSafeToDeleteSession, filterSafeSessionsToDelete
SessionDisposable(s) ==
  /\ session[s].status = "Scheduled" /\ ~session[s].locked /\ ~Waged(s)
  /\ \A l \in Rows({s}) : RowDisposable(s, att[l])

DeleteSession(h, s) ==
  /\ s \in Held /\ SessionDisposable(s)
  /\ Begin(h, "delete", [pc |-> "deleteRows", on |-> s])
  /\ UNCHANGED tables

\* DELETE of attendance rows L: the trigger on one of them fails them all.
DeleteRows(L) ==
  att' = [l \in Lesson |-> IF l \in L THEN Absent ELSE att[l]]

DeleteSessionRows(h) ==
  LET L == Rows({req[h].on})
  IN /\ At(h, "deleteRows")
     /\ IF \A l \in L : RowDeletable(att[l])
          THEN /\ DeleteRows(L)
               /\ Step(h, [pc |-> "deleteSession"])
               /\ UNCHANGED <<session, roster, leave, period, order, charges,
                              payroll>>
          ELSE Refuse(h)

\* Attendance rows and leave requests of sessions S cascade.
RemoveSessions(S) ==
  /\ session' = [s \in Session |-> IF s \in S THEN Absent ELSE session[s]]
  /\ DeleteRows(Rows(S))
  /\ leave' = [l \in Lesson |-> IF l[1] \in S THEN "none" ELSE leave[l]]
  /\ UNCHANGED <<roster, period, order, charges, payroll>>

\* A reviewer holds the lock of a leave request that would cascade.
LeaveLocked(S) ==
  \E g \in Handler : At(g, "saveApproved") /\ req[g].on \in S

DeleteSessionRow(h) ==
  LET s == req[h].on
  IN /\ At(h, "deleteSession")
     /\ ~LeaveLocked({s})
     /\ IF s \in Held /\ SessionDeletable(s)
          THEN RemoveSessions({s}) /\ Respond(h)
          ELSE Refuse(h)

-----------------------------------------------------------------------------
(* regenerateFutureSessions, generateSessions                              *)

\* Sessions that may be replaced from the class's timetable
Replaceable(from) ==
  {s \in Held : /\ Day[s] >= from
                /\ session[s].status = "Scheduled" /\ ~session[s].locked}

\* rows: the unsafe candidates' lessons; gone: the safe ones' rows
Regeneration(from) ==
  LET unsafe == {s \in Replaceable(from) : ~SessionDisposable(s)}
  IN [Idle EXCEPT !.pc = "regenRows", !.day = from, !.rows = unsafe \X Student,
                  !.gone = (Replaceable(from) \ unsafe) \X Student]

\* A change of the class's schedule, dates or status, or the button
RegenerateFutureSessions(h) ==
  /\ \E from \in RegenerateFrom : Begin(h, "regenerate", Regeneration(from))
  /\ UNCHANGED tables

RegenRows(h) ==
  LET L == {l \in req[h].gone : att[l] # Absent}
  IN /\ At(h, "regenRows")
     /\ IF \A l \in L : RowDeletable(att[l])
          THEN /\ DeleteRows(L)
               /\ Step(h, [pc |-> "regenSessions", gone |-> {}])
               /\ UNCHANGED <<session, roster, leave, period, order, charges,
                              payroll>>
          ELSE Refuse(h)

\* DELETE by condition: sessions that became replaceable since are deleted
\* too, unsafe ones excepted.
RegenSessions(h) ==
  LET S == {s \in Replaceable(req[h].day) : \A l \in req[h].rows : l[1] # s}
  IN /\ At(h, "regenSessions")
     /\ ~LeaveLocked(S)
     /\ IF \A s \in S : SessionDeletable(s)
          THEN RemoveSessions(S) /\ Step(h, [pc |-> "readClass", rows |-> {}])
          ELSE Refuse(h)

\* Mutant: locked sessions are brought up to date as well.
Refreshed_Locked(s) == Day[s] >= Today

\* The lessons of new sessions S: active students from their joined date on
Expected(S) ==
  {l \in S \X Active : Day[l[1]] >= roster[l[2]].joined}

\* A future session of which the teacher is brought up to date
Refreshed(s) ==
  /\ Day[s] >= Today
  /\ session[s].status = "Scheduled" /\ ~session[s].locked

\* The roster and the sessions at hand, read before the transaction.  A class
\* that is not active or has no schedule generates nothing.
ReadClass(h) ==
  LET missing == {s \in Session : /\ Day[s] >= req[h].day
                                  /\ Slot[s] \in {Slot[w] : w \in Weekly}
                                  /\ \A x \in Held : Slot[x] # Slot[s]}
  IN /\ At(h, "readClass")
     /\ UNCHANGED tables
     /\ \/ Respond(h)
        \/ Step(h, [pc |-> "generate", todo |-> {}, rows |-> Expected(missing),
                    gone |-> missing \X Student,
                    copy |-> [s \in {x \in Held : /\ Day[x] >= req[h].day
                                            /\ Slot[x] \in {Slot[w] : w \in Weekly}
                                            /\ Refreshed(x)} |-> session[s]]])

\* A new row for each missing slot, whether or not somebody else has added
\* one meanwhile: class_sessions has no unique index.
Insertions(h) ==
  LET missing == {l[1] : l \in req[h].gone}
  IN {N \in SUBSET (missing \ Held) :
        \A s \in missing : \E x \in N : \A y \in N : Slot[y] = Slot[s] <=> y = x}

\* One transaction.  The entities of existing sessions carry status and lock
\* flag, so both are written back as they were read.
Generate(h) ==
  LET old == DOMAIN req[h].copy
  IN /\ At(h, "generate")
     /\ Respond(h)
     /\ IF old \subseteq Held /\ Insertions(h) # {}
          THEN \E new \in Insertions(h) :
               /\ session' = [s \in Session |->
                    IF s \in old
                      THEN [session[s] EXCEPT
                              !.status = "Scheduled", !.locked = FALSE]
                      ELSE IF s \in new THEN NewSession ELSE session[s]]
               /\ att' = [l \in Lesson |->
                    IF l \in req[h].rows /\ l[1] \in new THEN NewAttendance
                                                         ELSE att[l]]
               /\ UNCHANGED <<roster, leave, period, order, charges, payroll>>
          ELSE UNCHANGED tables

-----------------------------------------------------------------------------
ReceiveSessionRequest(h) ==
  \/ \E s \in Session :
       \/ StartAttendance(h, s) \/ RevertToScheduled(h, s)
       \/ CompleteSession(h, s) \/ UpdateSession(h, s) \/ DeleteSession(h, s)
       \/ \E st \in Student : ClockEvent(h, s, st)
       \/ \E S \in (SUBSET Student) \ {{}} :
            \/ SaveAttendance(h, s, S) \/ OverrideAttendance(h, s, S)
            \/ SaveEvaluations(h, s, S)
  \/ RegenerateFutureSessions(h)

ServeSessionRequest(h) ==
  \/ SaveStarted(h) \/ ReadMatch(h) \/ SaveMatch(h)
  \/ RevertRows(h) \/ RevertSave(h)
  \/ ReadMark(h) \/ SaveMark(h) \/ InvalidScore(h)
  \/ SaveCompleted(h) \/ SaveUpdated(h) \/ ScheduleConflict(h)
  \/ DeleteSessionRows(h) \/ DeleteSessionRow(h)
  \/ RegenRows(h) \/ RegenSessions(h) \/ ReadClass(h) \/ Generate(h)
=============================================================================
