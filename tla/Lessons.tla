------------------------------- MODULE Lessons -------------------------------
(***************************************************************************)
(* Everything that writes the sessions and the attendance of a class, at   *)
(* the same time: teachers, staff, students, time clocks, billing.         *)
(***************************************************************************)
EXTENDS RosterHandlers, LessonBilling, LeaveHandlers

Init == TablesInit

\* The process dies: transactions are rolled back, requests are lost between
\* two of their statements.
Crash ==
  /\ "crash" \in Operations
  /\ \E h \in Handler : ~At(h, "idle")
  /\ req' = [h \in Handler |-> Idle]
  /\ UNCHANGED tables

Next ==
  \/ \E h \in Handler :
       \/ ReceiveSessionRequest(h) \/ ServeSessionRequest(h)
       \/ ReceiveRosterRequest(h) \/ ServeRosterRequest(h)
       \/ ReceiveBillingRequest(h) \/ ServeBillingRequest(h)
       \/ ReceiveLeaveRequest(h) \/ ServeLeaveRequest(h)
  \/ Crash

Spec == Init /\ [][Next]_vars

-----------------------------------------------------------------------------
(* One request at a time                                                   *)

\* A bill charges exactly the lessons marked with it, each with the presence
\* it has today: no sequence of attendance, leave, clock, roster and billing
\* requests changes a lesson that has been charged.
ChargesMatchAttendance ==
  \A p \in TuitionPeriod :
    charges[p] = {<<l[1], l[2], att[l].present>> :
                    l \in {k \in Rows(Held) : att[k].bill = p}}

\* No lesson is on the bills of two periods, no session on two payrolls.
LessonChargedOnce ==
  /\ \A p, q \in TuitionPeriod : p # q =>
       \A c \in charges[p], d \in charges[q] : <<c[1], c[2]>> # <<d[1], d[2]>>
  /\ \A p, q \in SalaryPeriod : p # q => payroll[p] \cap payroll[q] = {}

\* Payrolls and sessions agree both ways.
PayrollMatchesSessions ==
  \A p \in SalaryPeriod : payroll[p] = {s \in Held : session[s].wage = p}

\* Every active student has an attendance row in every session that is still
\* to be held from the joined date on, however roster, joined dates and
\* timetable have changed: nobody is missing from the teacher's list.
RosterComplete ==
  (\A h \in Handler : At(h, "idle")) =>
    {l \in Held \X Active :
       /\ session[l[1]].status = "Scheduled" /\ ~session[l[1]].locked
       /\ Day[l[1]] >= roster[l[2]].joined} \subseteq Rows(Held)

\* A locked session is never unlocked.
LockIsFinal ==
  [][\A s \in Held : session[s].locked =>
       session'[s] # Absent /\ session'[s].locked]_vars

-----------------------------------------------------------------------------
(* Any interleaving                                                        *)

Marked(r) == r.bill # None \/ r.present \/ r.verified

\* Presence, a scan or a charge is never deleted with its row: not by roster
\* changes, not by a deleted or regenerated session, whatever was marked
\* after their guards had looked.
MarkedRowKept ==
  [][\A l \in Rows(Session) : Marked(att[l]) => att'[l] # Absent]_vars

\* Nor is a session that has begun, is locked, paid or billed.
TaughtSessionKept ==
  [][\A s \in Held :
       session[s].status # "Scheduled" \/ session[s].locked \/ Waged(s)
         \/ Billed(s) => session'[s] # Absent]_vars

\* A leave request is decided once: approved and rejected exclude each
\* other, and what is decided stays unless the session itself is deleted.
LeaveDecidedOnce ==
  [][\A l \in Lesson :
       /\ leave[l] = "approved" => leave'[l] \in {"approved", "none"}
       /\ leave'[l] = "approved" => leave[l] \in {"pending", "approved"}]_vars

\* A row marked with a bill is on that bill, although stale copies of the
\* row are written back.
BilledLessonIsCharged ==
  \A l \in Rows(Held) : att[l].bill # None =>
    \E c \in charges[att[l].bill] : c[1] = l[1] /\ c[2] = l[2]

-----------------------------------------------------------------------------
(* What the documentation says and the code does not do                    *)

\* The attendance row of an approved leave is not deleted.
ApprovedLeaveKeepsRow ==
  [][\A l \in Rows(Session) :
       leave[l] = "approved" => att'[l] # Absent]_vars
=============================================================================
