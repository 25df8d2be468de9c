--------------------------- MODULE RosterHandlers ---------------------------
(***************************************************************************)
(* Enrolment, removal, joined dates and ad hoc sessions of one class: one  *)
(* READ COMMITTED transaction each, which locks the enrolment but not the  *)
(* sessions and attendance rows it reads.                                  *)
(***************************************************************************)
EXTENDS SessionHandlers

CONSTANT JoinDays   \* dates staff may enter as a joined date

ASSUME RosterConstants == JoinDays \subseteq Nat

\* Mutant: enrolment creates no attendance.
OpenLessons_None(st, from) == {}

\* createFutureAttendance: lessons of unlocked sessions from a date on that
\* have no row yet
OpenLessons(st, from) ==
  {l \in Held \X {st} : /\ Day[l[1]] >= from /\ ~session[l[1]].locked
                        /\ att[l] = Absent}

\* The enrolment is locked by whoever is about to change it.
EnrollmentLocked(st) ==
  \E g \in Handler :
    /\ At(g, "saveJoined") \/ At(g, "dropStudent")
    /\ st \in req[g].todo

\* enrollStudent: class, student and enrolment are locked in turn, so nobody
\* else writes the enrolment in between.
EnrollStudent(h, st) ==
  /\ "enroll" \in Operations
  /\ At(h, "idle")
  /\ st \notin Active /\ ~EnrollmentLocked(st)
  /\ roster' = [roster EXCEPT ![st] = [status |-> "Active", joined |-> Today]]
  /\ att' = [l \in Lesson |->
       IF l \in OpenLessons(st, Today) THEN NewAttendance ELSE att[l]]
  /\ UNCHANGED <<session, leave, period, order, charges, payroll, req>>

\* removeStudent: the rows to delete are chosen by the guard ...
RemoveStudent(h, st) ==
  /\ roster[st].status # "none" /\ ~EnrollmentLocked(st)
  /\ Begin(h, "remove",
       [pc |-> "dropStudent", todo |-> {st},
        gone |-> {l \in Rows(Held) :
                    /\ l[2] = st /\ Day[l[1]] >= Today
                    /\ RowDisposable(l[1], att[l])}])
  /\ UNCHANGED tables

\* ... and deleted unless the trigger objects.  Then the controller
\* regenerates the future sessions.
DropStudent(h) ==
  LET L == {l \in req[h].gone : att[l] # Absent}
  IN /\ At(h, "dropStudent")
     /\ IF \A l \in L : RowDeletable(att[l])
          THEN /\ roster' = [st \in Student |->
                    IF st \in req[h].todo
                      THEN [roster[st] EXCEPT !.status = "Dropped"]
                      ELSE roster[st]]
               /\ DeleteRows(L)
               /\ req' = [req EXCEPT ![h] =
                    [Regeneration(Today) EXCEPT !.op = "remove"]]
               /\ UNCHANGED <<session, leave, period, order, charges, payroll>>
          ELSE Refuse(h)

\* validateSafeToUpdateJoinedDate
Protected(S, from) ==
  {l \in Rows(Held) : /\ l[2] \in S /\ Day[l[1]] < from
                      /\ ~RowDisposable(l[1], att[l])}

\* updateStudentJoinedDate, updateAllStudentsJoinedDate: the rows before the
\* new date go, missing rows from it on come - for locked sessions as well.
UpdateJoinedDate(h, S, from) ==
  /\ S # {} /\ S \subseteq Active
  /\ \A st \in S : ~EnrollmentLocked(st)
  /\ Protected(S, from) = {}
  /\ Begin(h, "joined",
       [pc |-> "saveJoined", todo |-> S, day |-> from,
        gone |-> {l \in Rows(Held) : l[2] \in S /\ Day[l[1]] < from},
        rows |-> {l \in Held \X S : Day[l[1]] >= from /\ att[l] = Absent}])
  /\ UNCHANGED tables

SaveJoined(h) ==
  LET r == req[h]
      L == {l \in r.gone : att[l] # Absent}
  IN /\ At(h, "saveJoined")
     /\ Respond(h)
     /\ IF /\ \A l \in L : RowDeletable(att[l])
           /\ \A l \in r.rows : att[l] = Absent /\ l[1] \in Held
           /\ r.todo \subseteq Active
          THEN /\ roster' = [st \in Student |->
                    IF st \in r.todo THEN [roster[st] EXCEPT !.joined = r.day]
                                     ELSE roster[st]]
               /\ att' = [l \in Lesson |->
                    IF l \in r.rows THEN NewAttendance
                    ELSE IF l \in L THEN Absent ELSE att[l]]
               /\ UNCHANGED <<session, leave, period, order, charges, payroll>>
          ELSE UNCHANGED tables

\* createAdhocSession: the roster is read inside the transaction, every
\* active student is expected, whatever the joined date.
CreateAdhocSession(h, s) ==
  /\ s \notin Held
  /\ Begin(h, "adhoc", [pc |-> "saveAdhoc", on |-> s, todo |-> Active])
  /\ UNCHANGED tables

SaveAdhoc(h) ==
  LET s == req[h].on
  IN /\ At(h, "saveAdhoc")
     /\ Respond(h)
     /\ IF s \notin Held
          THEN /\ session' = [session EXCEPT ![s] = NewSession]
               /\ att' = [l \in Lesson |->
                    IF l \in {s} \X req[h].todo THEN NewAttendance ELSE att[l]]
               /\ UNCHANGED <<roster, leave, period, order, charges, payroll>>
          ELSE UNCHANGED tables

ReceiveRosterRequest(h) ==
  \/ \E st \in Student : EnrollStudent(h, st) \/ RemoveStudent(h, st)
  \/ \E S \in SUBSET Student, from \in JoinDays :
       UpdateJoinedDate(h, S, from)
  \/ \E s \in Session : CreateAdhocSession(h, s)

ServeRosterRequest(h) == DropStudent(h) \/ SaveJoined(h) \/ SaveAdhoc(h)
=============================================================================
